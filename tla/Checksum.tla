------------------------------ MODULE Checksum ------------------------------
(***************************************************************************)
(* The one's complement arithmetic of int.p4: how a node takes a header    *)
(* word out of the IPv4 checksum and puts the changed one back.            *)
(***************************************************************************)
EXTENDS Integers

CONSTANT Words  \* 2^16: how many values a bit<16> has

ASSUME WordsAssumption == Words \in Nat /\ Words > 1

Word == 0 .. Words - 1

\* ~c
Not(c) == Words - 1 - c

\* Mutant: the borrow is taken after the subtraction is compared.
ip_checksum_sub_unborrowed(checksum, value) ==
    Not((Not(checksum) - value) % Words)

ip_checksum_sub(checksum, value) ==
    LET n == Not(checksum)
    IN  Not(((IF n < value THEN (n - 1) % Words ELSE n) - value) % Words)

\* Mutant: the sum is kept in a wider type and its carry is not folded back.
ip_checksum_add_unfolded(checksum, value) ==
    Not(Not(checksum) + value)

ip_checksum_add(checksum, value) ==
    LET sum == (Not(checksum) + value) % Words
    IN  Not(IF sum < value THEN (sum + 1) % Words ELSE sum)

\* A header whose words, without the checksum, add up to sum is valid when
\* the one's complement sum with the checksum is zero.
ValidChecksum(checksum, sum) == (sum + checksum) % (Words - 1) = 0
=============================================================================
