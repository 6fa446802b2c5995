------------------------------ MODULE Options -------------------------------
(***************************************************************************)
(* The command line of the collector (parse_arguments in p4int.cc).  An    *)
(* argument is a record of the option's letter and its value: a number for *)
(* -b, -i, -m and -p, which the types it is stored in may have no room for *)
(* (a text that is none counts as 0), a string for -r, and anything for    *)
(* the others.  The options that only name things or print (-d -u -s -l -v *)
(* -k -f) change nothing here.                                             *)
(***************************************************************************)
EXTENDS Integers, SequencesExt

CONSTANTS
    UShort,  \* 2^16, the values of uint16_t
    UInt,    \* 2^32, the values of uint32_t
    ULong    \* 2^64, the values of uintmax_t; half of them are those of long

ASSUME OptionsAssumption ==
    /\ UShort \in Nat \ {0} /\ UInt \in Nat \ (0 .. 1000) /\ ULong \in Nat \ {0}
    /\ ULong % 2 = 0 /\ ULong % UInt = 0 /\ UInt % UShort = 0
    /\ UInt <= ULong \div 2  \* long holds every uint32_t

\* atoi is strtol without its error: a number beyond long becomes the last or
\* the first long, and the fields keep its lower 32 bits.
MaxLong == ULong \div 2 - 1
TooLong(number)  == number > MaxLong
TooShort(number) == number < - MaxLong - 1
atoi(number) ==
    (CASE TooLong(number)  -> MaxLong
       [] TooShort(number) -> - MaxLong - 1
       [] OTHER            -> number) % UInt

\* strtoumax takes a sign and negates modulo 2^64; port keeps the lower 16 bits.
TooLarge(number) == number >= ULong \/ number <= - ULong
strtoumax(number) == (IF TooLarge(number) THEN ULong - 1 ELSE number) % ULong

\* What one turn of the loop over getopt makes of an argument that stores.
Stored(opt, a) ==
    CASE a.letter = "c" -> [opt EXCEPT !.hostValid = TRUE]
      [] a.letter = "p" -> [opt EXCEPT !.port = strtoumax(a.value) % UShort]
      [] a.letter = "r" -> [opt EXCEPT !.protocol = a.value]
      [] a.letter = "b" -> [opt EXCEPT !.batch = atoi(a.value)]
      [] a.letter = "m" -> [opt EXCEPT !.smpl_rate = atoi(a.value)]
      [] a.letter = "i" -> [opt EXCEPT !.raw_buffer = atoi(a.value)]
      [] a.letter = "t" -> [opt EXCEPT !.tstmp = TRUE]
      [] OTHER -> opt

\* strtoumax and strtol leave ERANGE in errno, and nothing takes it out again.
OutOfRange(a) ==
    \/ a.letter = "p" /\ TooLarge(a.value)
    \/ a.letter \in {"b", "m", "i"} /\ (TooLong(a.value) \/ TooShort(a.value))

\* Mutant: after printing the help for an unknown option the loop goes on.
ParseLenient(s, a) ==
    LET erange == s.erange \/ OutOfRange(a)
    IN  [opt    |-> IF s.ret = "RET_OK" THEN Stored(s.opt, a) ELSE s.opt,
         erange |-> erange,
         ret    |-> IF s.ret # "RET_OK" THEN s.ret
                    ELSE CASE a.letter = "h" -> "exit 0"
                           [] a.letter = "p" /\ erange -> "RET_ERR"
                           [] OTHER -> "RET_OK"]

\* One turn of the loop: -h ends the process, an unknown option and a port
\* with errno at ERANGE end the function.
Parse(s, a) ==
    LET erange == s.erange \/ OutOfRange(a)
    IN  [opt    |-> IF s.ret = "RET_OK" THEN Stored(s.opt, a) ELSE s.opt,
         erange |-> erange,
         ret    |-> IF s.ret # "RET_OK" THEN s.ret
                    ELSE CASE a.letter = "h" -> "exit 0"
                           [] a.letter = "?" -> "RET_ERR"
                           [] a.letter = "p" /\ erange -> "RET_ERR"
                           [] OTHER -> "RET_OK"]

\* The defaults; protocol and port keep what the memory holds.
Defaults(opt) ==
    [hostValid |-> FALSE, batch |-> 1000, tstmp |-> FALSE, smpl_rate |-> 1,
     raw_buffer |-> 1, protocol |-> opt.protocol, port |-> opt.port]

parse_arguments(opt, argv) ==
    FoldLeft(Parse, [opt |-> Defaults(opt), erange |-> FALSE, ret |-> "RET_OK"], argv)
=============================================================================
