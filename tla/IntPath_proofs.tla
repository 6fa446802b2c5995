--------------------------- MODULE IntPath_proofs ---------------------------
(***************************************************************************)
(* Theorems about IntPath: for every path, every choice of sources and     *)
(* every set of packets, packets keep their types and a valid checksum.    *)
(* On a path with one source, short enough for the counters of the INT     *)
(* headers, the records of a packet are those of the nodes it passed, its  *)
(* lengths agree with them, and the collector reports the path.            *)
(***************************************************************************)
EXTENDS IntPath, Checksum_proofs, SequenceTheorems

\* The fields of a packet that nodes change, and what changing them keeps.
LEMMA Fields ==
    ASSUME NEW p \in PacketType
    PROVE  /\ p.dscp \in 0 .. 63 /\ p.totalLen \in Word /\ p.len \in Word
           /\ p.checksum \in Word /\ p.rest \in Nat /\ p.stack \in Seq(Hops)
           /\ p.int.len \in Byte /\ p.int.remaining_hop_cnt \in Byte
BY DEF PacketType, PacketsOf

LEMMA NewLengths ==
    ASSUME NEW p \in PacketType, NEW t \in Word, NEW l \in Word
    PROVE  [p EXCEPT !.totalLen = t, !.len = l] \in PacketType
BY DEF PacketType, PacketsOf

LEMMA NewChecksum ==
    ASSUME NEW p \in PacketType, NEW c \in Word
    PROVE  LET q == [p EXCEPT !.checksum = c]
           IN  /\ q \in PacketType /\ q.rest = p.rest /\ q.checksum = c
               /\ q.totalLen = p.totalLen /\ q.dscp = p.dscp
BY DEF PacketType, PacketsOf

\* Arithmetic on a field stays within its width.
LEMMA WordSum ==
    ASSUME NEW w \in Word, NEW n \in Nat
    PROVE  (w + n) % Words \in Word
BY WordsAssumption DEF Word

LEMMA ByteArithmetic ==
    ASSUME NEW b \in Byte
    PROVE  (b + HOP_WORDS) % Bytes \in Byte /\ (b - 1) % Bytes \in Byte
BY WidthAssumption DEF Byte, HOP_WORDS

\* A version word fits, whatever the code point.
LEMMA FirstWordFits ==
    ASSUME NEW p \in PacketType
    PROVE  FirstWord(p) \in Word
<1>1. p.dscp \in 0 .. 63
    BY Fields
<1> QED
    BY <1>1, WordsAssumption, WidthAssumption DEF FirstWord, Word

LEMMA LengthenedType ==
    ASSUME NEW p \in PacketType, NEW n \in Nat
    PROVE  Lengthened(p, n) \in PacketType /\ Lengthened(p, n).rest = p.rest
<1> DEFINE t == (p.totalLen + n) % Words
           l == IF p.l4 = "udp" THEN (p.len + n) % Words ELSE p.len
<1>1. t \in Word /\ l \in Word
    BY Fields, WordSum
<1>2. Lengthened(p, n) = [p EXCEPT !.totalLen = t, !.len = l]
    BY DEF Lengthened
<1> HIDE DEF t, l
<1>3. [p EXCEPT !.totalLen = t, !.len = l].rest = p.rest
    BY DEF PacketType, PacketsOf
<1> QED
    BY <1>1, <1>2, <1>3, NewLengths

\* The source's headers have the widths they should have.
LEMMA SourceType ==
    ASSUME NEW p \in PacketType, NEW seq \in Word
    PROVE  configure_source(p, seq) \in PacketType /\ configure_source(p, seq).rest = p.rest
<1> DEFINE q == Lengthened(p, INT_ALL_HEADER_LEN_BYTES)
           h == [valid |-> TRUE, len |-> 3, dscp |-> p.dscp,
                 remaining_hop_cnt |-> Bytes - 1, seq |-> seq]
<1>1. q \in PacketType /\ q.rest = p.rest
    BY LengthenedType DEF INT_ALL_HEADER_LEN_BYTES
<1>2. configure_source(p, seq) = [q EXCEPT !.int = h, !.dscp = IPv4_DSCP_INT]
    BY DEF configure_source
<1>3. 3 \in Byte /\ Bytes - 1 \in Byte
    BY WidthAssumption DEF Byte
<1>4. h \in [valid : BOOLEAN, len : Byte, dscp : 0 .. 63, remaining_hop_cnt : Byte, seq : Word]
    BY <1>3, Fields
<1>5. IPv4_DSCP_INT \in 0 .. 63
    BY DEF IPv4_DSCP_INT
<1> HIDE DEF q, h
<1> QED
    BY <1>1, <1>2, <1>4, <1>5 DEF PacketType, PacketsOf

\* A transit node's record is added within the widths of the counters.
LEMMA TransitType ==
    ASSUME NEW p \in PacketType, NEW hop \in Hops
    PROVE  Int_transit(p, hop) \in PacketType /\ Int_transit(p, hop).rest = p.rest
<1>1. CASE ~p.int.valid
    BY <1>1 DEF Int_transit
<1>2. CASE p.int.valid
  <2> DEFINE q == Lengthened(p, HOP_BYTES)
  <2>1. q \in PacketType /\ q.rest = p.rest
      BY LengthenedType DEF HOP_BYTES
  <2> DEFINE st == <<hop>> \o q.stack
             il == (q.int.len + HOP_WORDS) % Bytes
             ir == (q.int.remaining_hop_cnt - 1) % Bytes
  <2>2. Int_transit(p, hop) =
          [q EXCEPT !.stack = st, !.int.len = il, !.int.remaining_hop_cnt = ir]
      BY <1>2 DEF Int_transit
  <2>3. st \in Seq(Hops)
    <3>1. q.stack \in Seq(Hops) /\ <<hop>> \in Seq(Hops)
      BY <2>1, Fields
    <3> QED
      BY <3>1
  <2>4. il \in Byte /\ ir \in Byte
      BY <2>1, Fields, ByteArithmetic
  <2> HIDE DEF q, st, il, ir
  <2>5. [q EXCEPT !.stack = st, !.int.len = il, !.int.remaining_hop_cnt = ir] \in PacketType
      BY <2>1, <2>3, <2>4 DEF PacketType, PacketsOf
  <2>6. [q EXCEPT !.stack = st, !.int.len = il, !.int.remaining_hop_cnt = ir].rest = q.rest
      BY <2>1 DEF PacketType, PacketsOf
  <2> QED
      BY <2>1, <2>2, <2>5, <2>6
<1> QED
    BY <1>1, <1>2

\* Taking the changing words out of the checksum and the changed ones in.
LEMMA WithoutKeepsSum ==
    ASSUME NEW p \in PacketType
    PROVE  /\ checksum_without(p) \in Word
           /\ (p.rest + checksum_without(p)) % (Words - 1)
                = (p.rest + p.totalLen + FirstWord(p) + p.checksum) % (Words - 1)
<1> DEFINE c == ip_checksum_sub(p.checksum, p.totalLen)
<1>1. p.totalLen \in Word /\ p.checksum \in Word /\ p.rest \in Int /\ FirstWord(p) \in Word
    BY FirstWordFits DEF PacketType, PacketsOf
<1>2. c \in Word
    BY <1>1, Subtracts
<1>3. p.rest + FirstWord(p) \in Int
    BY <1>1 DEF Word
<1>4. (p.rest + FirstWord(p) + c) % (Words - 1)
        = (p.rest + FirstWord(p) + p.totalLen + p.checksum) % (Words - 1)
    BY <1>1, <1>3, SubtractKeepsSum
<1>5. (p.rest + ip_checksum_sub(c, FirstWord(p))) % (Words - 1)
        = (p.rest + FirstWord(p) + c) % (Words - 1)
    BY <1>1, <1>2, SubtractKeepsSum
<1>6. p.rest + FirstWord(p) + p.totalLen + p.checksum
        = p.rest + p.totalLen + FirstWord(p) + p.checksum
    BY <1>1 DEF Word
<1>7. checksum_without(p) = ip_checksum_sub(c, FirstWord(p))
    BY DEF checksum_without
<1>8. ip_checksum_sub(c, FirstWord(p)) \in Word
    BY <1>1, <1>2, Subtracts
<1> QED
    BY <1>4, <1>5, <1>6, <1>7, <1>8

LEMMA WithKeepsSum ==
    ASSUME NEW p \in PacketType, NEW checksum \in Word
    PROVE  /\ checksum_with(checksum, p) \in Word
           /\ (p.rest + p.totalLen + FirstWord(p) + checksum_with(checksum, p)) % (Words - 1)
                = (p.rest + checksum) % (Words - 1)
<1> DEFINE c == ip_checksum_add(checksum, p.totalLen)
<1>1. p.totalLen \in Word /\ p.rest \in Int /\ FirstWord(p) \in Word
    BY FirstWordFits DEF PacketType, PacketsOf
<1>2. c \in Word
    BY <1>1, Adds
<1>3. p.rest + p.totalLen \in Int
    BY <1>1 DEF Word
<1>4. (p.rest + p.totalLen + c) % (Words - 1) = (p.rest + checksum) % (Words - 1)
    BY <1>1, AddKeepsSum
<1>5. (p.rest + p.totalLen + FirstWord(p) + ip_checksum_add(c, FirstWord(p))) % (Words - 1)
        = (p.rest + p.totalLen + c) % (Words - 1)
    BY <1>1, <1>2, <1>3, AddKeepsSum
<1>6. checksum_with(checksum, p) = ip_checksum_add(c, FirstWord(p))
    BY DEF checksum_with
<1>7. ip_checksum_add(c, FirstWord(p)) \in Word
    BY <1>1, <1>2, Adds
<1> QED
    BY <1>4, <1>5, <1>6, <1>7

Sound(p) == ValidChecksum(p.checksum, p.rest + p.totalLen + FirstWord(p))

\* A node forwards a packet of the right type, with a valid checksum if it had one.
LEMMA IngressKeeps ==
    ASSUME NEW p \in PacketType, NEW SRC_ENABLE \in BOOLEAN, NEW seq \in Word, NEW hop \in Hops
    PROVE  /\ ingress(p, SRC_ENABLE, seq, hop) \in PacketType
           /\ Sound(p) => Sound(ingress(p, SRC_ENABLE, seq, hop))
<1>1. CASE p.l4 = "other"
    BY <1>1 DEF ingress
<1>2. CASE p.l4 # "other"
  <2> DEFINE sourced == IF SRC_ENABLE THEN configure_source(p, seq) ELSE p
             marked  == Int_transit(sourced, hop)
             c == checksum_with(checksum_without(p), marked)
             q == [marked EXCEPT !.checksum = c]
  <2>1. sourced \in PacketType /\ sourced.rest = p.rest
      BY SourceType
  <2>2. marked \in PacketType /\ marked.rest = p.rest
    <3> HIDE DEF sourced
    <3> QED
      BY <2>1, TransitType
  <2>3. ingress(p, SRC_ENABLE, seq, hop) = q
      BY <1>2 DEF ingress
  <2> HIDE DEF sourced, marked
  <2>4. c \in Word
      BY <2>2, WithoutKeepsSum, WithKeepsSum
  <2>5. (p.rest + marked.totalLen + FirstWord(marked) + c) % (Words - 1)
          = (p.rest + p.totalLen + FirstWord(p) + p.checksum) % (Words - 1)
      BY <2>2, WithoutKeepsSum, WithKeepsSum
  <2>6. /\ q \in PacketType /\ q.rest = p.rest /\ q.checksum = c
        /\ q.totalLen = marked.totalLen /\ FirstWord(q) = FirstWord(marked)
    <3> HIDE DEF c
    <3> QED
      BY <2>2, <2>4, NewChecksum DEF FirstWord
  <2> HIDE DEF q, c
  <2> QED
      BY <2>3, <2>5, <2>6 DEF Sound, ValidChecksum
<1> QED
    BY <1>1, <1>2

-----------------------------------------------------------------------------
IInv == TypeOK /\ ChecksumStaysValid

LEMMA Initially == Init => IInv
<1> SUFFICES ASSUME Init PROVE IInv
    OBVIOUS
<1>1. TypeOK
    BY PathAssumption, WordsAssumption DEF Init, TypeOK, Word
<1>2. OnTheWay = {}
    BY DEF Init, OnTheWay
<1> QED
    BY <1>1, <1>2 DEF IInv, ChecksumStaysValid

LEMMA Inductive == IInv /\ [Next]_vars => IInv'
<1> SUFFICES ASSUME IInv, [Next]_vars PROVE IInv'
    OBVIOUS
<1> USE DEF IInv
<1>0. /\ link \in [1 .. N -> SUBSET PacketType]
      /\ \A n \in 1 .. N : \A p \in link[n] : Sound(p)
    BY DEF TypeOK, ChecksumStaysValid, OnTheWay, Sound
<1>a. SUFFICES /\ TypeOK'
               /\ \A n \in 1 .. N : \A p \in link'[n] : Sound(p)
    BY DEF ChecksumStaysValid, OnTheWay, Sound, FirstWord, ValidChecksum
<1>1. ASSUME NEW p \in unsent, Send(p)
      PROVE  TypeOK' /\ \A n \in 1 .. N : \A q \in link'[n] : Sound(q)
  <2>1. p \in PacketType /\ Sound(p)
      BY <1>1, PathAssumption DEF TypeOK, Sound
  <2> QED
      BY <1>0, <1>1, <2>1, PathAssumption DEF Send, TypeOK
<1>2. ASSUME NEW n \in 1 .. N, NEW p \in link[n], Forward(n, p)
      PROVE  TypeOK' /\ \A i \in 1 .. N : \A q \in link'[i] : Sound(q)
  <2> DEFINE seq == (reg1[n] + 1) % Words
             hop == [node |-> n, ingress |-> now, egress |-> now + 1]
             isSource == n \in sources
             q == ingress(p, isSource, seq, hop)
  <2>1. p \in PacketType /\ Sound(p)
      BY <1>0
  <2>2. seq \in Word /\ hop \in Hops
      BY <1>2, WordsAssumption, PathAssumption DEF TypeOK, Word, Hops
  <2>3. q \in PacketType /\ Sound(q)
    <3>1. isSource \in BOOLEAN
      OBVIOUS
    <3> HIDE DEF seq, hop, isSource
    <3> QED
      BY <2>1, <2>2, <3>1, IngressKeeps
  <2>4. /\ link' = [link EXCEPT ![n] = @ \ {p}, ![n + 1] = @ \cup {q}]
        /\ reg1' = [reg1 EXCEPT ![n] = IF n \in sources /\ p.l4 # "other" THEN seq ELSE @]
        /\ n + 1 \in 1 .. N
        /\ now' = now + 2
        /\ UNCHANGED <<sources, unsent, frames>>
      BY <1>2, PathAssumption DEF Forward
  <2> HIDE DEF seq, q
  <2>5. TypeOK'
      BY <1>0, <2>2, <2>3, <2>4 DEF TypeOK
  <2>6. \A i \in 1 .. N : \A r \in link'[i] : r = q \/ r \in link[i]
      BY <1>0, <2>4
  <2> QED
      BY <1>0, <2>3, <2>5, <2>6
<1>3. ASSUME NEW p \in link[N], Deliver(p)
      PROVE  TypeOK' /\ \A n \in 1 .. N : \A q \in link'[n] : Sound(q)
  <2>1. p \in PacketType
      BY <1>0, PathAssumption
  <2> QED
      BY <1>0, <1>3, <2>1, PathAssumption DEF Deliver, TypeOK
<1>4. ASSUME NEW n \in 1 .. N, NEW p \in link[n], Lose(n, p)
      PROVE  TypeOK' /\ \A i \in 1 .. N : \A q \in link'[i] : Sound(q)
    BY <1>0, <1>4 DEF Lose, TypeOK
<1>5. CASE UNCHANGED vars
    BY <1>0, <1>5 DEF vars, TypeOK
<1> QED
    BY <1>1, <1>2, <1>3, <1>4, <1>5 DEF Next

LEMMA Invariance == Spec => []IInv
BY Initially, Inductive, PTL DEF Spec

\* Packets on the way and the nodes' registers keep their types, whatever the
\* path is and wherever the sources are.
THEOREM PathTypes == Spec => []TypeOK
BY Invariance, PTL DEF IInv

\* The IPv4 checksum of every packet stays valid at every node: the word by
\* word update of int.p4 is right for all header values and path lengths.
THEOREM ChecksumsStayValid == Spec => []ChecksumStaysValid
BY Invariance, PTL DEF IInv

-----------------------------------------------------------------------------
(* What a node does to the fields of a packet. *)

\* A new checksum is all the rest of the ingress control changes.
LEMMA IngressFields ==
    ASSUME NEW p \in PacketType, p.l4 # "other", NEW SRC_ENABLE \in BOOLEAN,
           NEW seq \in Word, NEW hop \in Hops
    PROVE  LET marked == Int_transit(IF SRC_ENABLE THEN configure_source(p, seq) ELSE p, hop)
               q == ingress(p, SRC_ENABLE, seq, hop)
           IN  /\ marked \in PacketType
               /\ q.id = marked.id /\ q.l4 = marked.l4 /\ q.seq = marked.seq
               /\ q.dscp = marked.dscp /\ q.totalLen = marked.totalLen /\ q.len = marked.len
               /\ q.int = marked.int /\ q.stack = marked.stack
<1> DEFINE sourced == IF SRC_ENABLE THEN configure_source(p, seq) ELSE p
           marked == Int_transit(sourced, hop)
           c == checksum_with(checksum_without(p), marked)
<1>1. sourced \in PacketType
    BY SourceType
<1>2. marked \in PacketType
  <2> HIDE DEF sourced
  <2> QED
    BY <1>1, TransitType
<1>3. ingress(p, SRC_ENABLE, seq, hop) = [marked EXCEPT !.checksum = c]
    BY DEF ingress
<1> HIDE DEF marked, c
<1>4. LET q == [marked EXCEPT !.checksum = c]
      IN  /\ q.id = marked.id /\ q.l4 = marked.l4 /\ q.seq = marked.seq
          /\ q.dscp = marked.dscp /\ q.totalLen = marked.totalLen /\ q.len = marked.len
          /\ q.int = marked.int /\ q.stack = marked.stack
    BY <1>2 DEF PacketType, PacketsOf
<1> QED
    BY <1>2, <1>3, <1>4 DEF marked, sourced

LEMMA LengthenedFields ==
    ASSUME NEW p \in PacketType, NEW n \in Nat
    PROVE  LET q == Lengthened(p, n)
           IN  /\ q.id = p.id /\ q.l4 = p.l4 /\ q.seq = p.seq /\ q.dscp = p.dscp
               /\ q.int = p.int /\ q.stack = p.stack
               /\ q.totalLen = (p.totalLen + n) % Words
               /\ q.len = IF p.l4 = "udp" THEN (p.len + n) % Words ELSE p.len
BY DEF PacketType, PacketsOf, Lengthened

LEMMA SourceFields ==
    ASSUME NEW p \in PacketType, NEW seq \in Word
    PROVE  LET q == configure_source(p, seq)
           IN  /\ q.id = p.id /\ q.l4 = p.l4 /\ q.seq = p.seq
               /\ q.dscp = IPv4_DSCP_INT /\ q.stack = p.stack
               /\ q.int = [valid |-> TRUE, len |-> 3, dscp |-> p.dscp,
                           remaining_hop_cnt |-> Bytes - 1, seq |-> seq]
               /\ q.totalLen = (p.totalLen + 12) % Words
               /\ q.len = IF p.l4 = "udp" THEN (p.len + 12) % Words ELSE p.len
<1> DEFINE r == Lengthened(p, INT_ALL_HEADER_LEN_BYTES)
           h == [valid |-> TRUE, len |-> 3, dscp |-> p.dscp,
                 remaining_hop_cnt |-> Bytes - 1, seq |-> seq]
<1>1. /\ r \in PacketType
      /\ r.id = p.id /\ r.l4 = p.l4 /\ r.seq = p.seq /\ r.stack = p.stack
      /\ r.totalLen = (p.totalLen + 12) % Words
      /\ r.len = IF p.l4 = "udp" THEN (p.len + 12) % Words ELSE p.len
    BY LengthenedFields, LengthenedType DEF INT_ALL_HEADER_LEN_BYTES
<1>2. configure_source(p, seq) = [r EXCEPT !.int = h, !.dscp = IPv4_DSCP_INT]
    BY DEF configure_source
<1> HIDE DEF r, h
<1>3. LET q == [r EXCEPT !.int = h, !.dscp = IPv4_DSCP_INT]
      IN  /\ q.id = r.id /\ q.l4 = r.l4 /\ q.seq = r.seq /\ q.stack = r.stack
          /\ q.dscp = IPv4_DSCP_INT /\ q.int = h
          /\ q.totalLen = r.totalLen /\ q.len = r.len
    BY <1>1 DEF PacketType, PacketsOf
<1> QED
    BY <1>1, <1>2, <1>3 DEF h

LEMMA TransitFields ==
    ASSUME NEW p \in PacketType, p.int.valid, NEW hop \in Hops
    PROVE  LET q == Int_transit(p, hop)
           IN  /\ q.id = p.id /\ q.l4 = p.l4 /\ q.seq = p.seq /\ q.dscp = p.dscp
               /\ q.int.valid /\ q.int.dscp = p.int.dscp
               /\ q.stack = <<hop>> \o p.stack
               /\ q.int.len = (p.int.len + 6) % Bytes
               /\ q.int.remaining_hop_cnt = (p.int.remaining_hop_cnt - 1) % Bytes
               /\ q.totalLen = (p.totalLen + 24) % Words
               /\ q.len = IF p.l4 = "udp" THEN (p.len + 24) % Words ELSE p.len
<1> DEFINE r == Lengthened(p, HOP_BYTES)
           st == <<hop>> \o r.stack
           il == (r.int.len + HOP_WORDS) % Bytes
           ir == (r.int.remaining_hop_cnt - 1) % Bytes
<1>1. /\ r \in PacketType
      /\ r.id = p.id /\ r.l4 = p.l4 /\ r.seq = p.seq /\ r.dscp = p.dscp
      /\ r.int = p.int /\ r.stack = p.stack
      /\ r.totalLen = (p.totalLen + 24) % Words
      /\ r.len = IF p.l4 = "udp" THEN (p.len + 24) % Words ELSE p.len
    BY LengthenedFields, LengthenedType DEF HOP_BYTES
<1>2. Int_transit(p, hop) =
        [r EXCEPT !.stack = st, !.int.len = il, !.int.remaining_hop_cnt = ir]
    BY DEF Int_transit
<1>3. st = <<hop>> \o p.stack /\ il = (p.int.len + 6) % Bytes
      /\ ir = (p.int.remaining_hop_cnt - 1) % Bytes
    BY <1>1 DEF HOP_WORDS
<1> HIDE DEF r, st, il, ir
<1>4. LET q == [r EXCEPT !.stack = st, !.int.len = il, !.int.remaining_hop_cnt = ir]
      IN  /\ q.id = r.id /\ q.l4 = r.l4 /\ q.seq = r.seq /\ q.dscp = r.dscp
          /\ q.totalLen = r.totalLen /\ q.len = r.len /\ q.stack = st
          /\ q.int.valid = r.int.valid /\ q.int.dscp = r.int.dscp
          /\ q.int.len = il /\ q.int.remaining_hop_cnt = ir
    BY <1>1 DEF PacketType, PacketsOf
<1> QED
    BY <1>1, <1>2, <1>3, <1>4

-----------------------------------------------------------------------------
(* The records. *)

LEMMA Pushed ==
    ASSUME NEW hop \in Hops, NEW stack \in Seq(Hops)
    PROVE  LET new == <<hop>> \o stack
           IN  /\ Len(new) = Len(stack) + 1 /\ new[1] = hop
               /\ \A i \in 2 .. Len(stack) + 1 : new[i] = stack[i - 1]
OBVIOUS

\* A path has one source, and a packet's hop count can tell its nodes apart.
OneSource == \A S \in SourceSets : \A s, t \in S : s = t
HopsFit   == N <= Bytes

\* The records of the nodes s to n - 1, the newest first.
Recorded(stack, s, n) ==
    /\ Len(stack) = n - s
    /\ \A i \in 1 .. n - s :
        /\ stack[i].node = n - i
        /\ stack[i].egress = stack[i].ingress + 1
        /\ i > 1 => stack[i].egress <= stack[i - 1].ingress

\* What is true of a packet on its way to node n.
Untouched(p, n) ==
    /\ p.stack = <<>> /\ p.dscp = Original(p).dscp
    /\ p.l4 = "other" \/ \A s \in sources : s >= n

Marked(p, n) ==
    /\ p.l4 # "other" /\ p.dscp = IPv4_DSCP_INT /\ p.int.dscp = Original(p).dscp
    /\ \E s \in sources :
        /\ s < n /\ Recorded(p.stack, s, n)
        /\ p.int.remaining_hop_cnt = Bytes - 1 - (n - s)

OnItsPath(p, n) == IF p.int.valid THEN Marked(p, n) ELSE Untouched(p, n)

Past(p) == \A i \in 1 .. Len(p.stack) : p.stack[i].egress <= now

LEMMA RecordedOneMore ==
    ASSUME NEW n \in 1 .. N, NEW s \in 1 .. n, NEW stack \in Seq(Hops), Recorded(stack, s, n),
           \A i \in 1 .. Len(stack) : stack[i].egress <= now, now \in Nat, N \in Nat
    PROVE  LET new == <<[node |-> n, ingress |-> now, egress |-> now + 1]>> \o stack
           IN  /\ Recorded(new, s, n + 1)
               /\ \A i \in 1 .. Len(new) : new[i].egress <= now + 2
<1> DEFINE hop == [node |-> n, ingress |-> now, egress |-> now + 1]
           new == <<hop>> \o stack
<1>1. hop \in Hops
    BY DEF Hops
<1>2. /\ Len(new) = Len(stack) + 1 /\ new[1] = hop
      /\ \A i \in 2 .. Len(stack) + 1 : new[i] = stack[i - 1]
    BY <1>1, Pushed
<1>3. \A i \in 1 .. Len(stack) : stack[i] \in Hops
    OBVIOUS
<1> HIDE DEF new
<1>4. Len(new) = (n + 1) - s
    BY <1>2 DEF Recorded
<1>5. ASSUME NEW i \in 1 .. (n + 1) - s
      PROVE  /\ new[i].node = (n + 1) - i
             /\ new[i].egress = new[i].ingress + 1
             /\ i > 1 => new[i].egress <= new[i - 1].ingress
             /\ new[i].egress <= now + 2
  <2>1. CASE i = 1
      BY <1>2, <2>1
  <2>2. CASE i > 1
    <3>1. new[i] = stack[i - 1] /\ i - 1 \in 1 .. n - s /\ i - 1 \in 1 .. Len(stack)
        BY <1>2, <2>2 DEF Recorded
    <3>2. /\ stack[i - 1].node = n - (i - 1)
          /\ stack[i - 1].egress = stack[i - 1].ingress + 1
          /\ i - 1 > 1 => stack[i - 1].egress <= stack[(i - 1) - 1].ingress
        BY <3>1 DEF Recorded
    <3>3. stack[i - 1].egress <= now /\ stack[i - 1].egress \in Nat
        BY <1>3, <3>1 DEF Hops
    <3>4. i > 1 => new[i].egress <= new[i - 1].ingress
      <4>1. CASE i = 2
        <5>1. i - 1 = 1
          BY <4>1
        <5> QED
          BY <1>2, <3>1, <3>3, <5>1
      <4>2. CASE i > 2
        <5>1. new[i - 1] = stack[(i - 1) - 1]
          <6>1. i - 1 \in 2 .. Len(stack) + 1
            BY <4>2 DEF Recorded
          <6> QED
            BY <1>2, <6>1
        <5> QED
          BY <3>1, <3>2, <4>2, <5>1
      <4> QED
          BY <2>2, <4>1, <4>2
    <3> QED
        BY <3>1, <3>2, <3>3, <3>4, SMTT(30)
  <2> QED
      BY <2>1, <2>2
<1> QED
    BY <1>4, <1>5 DEF Recorded, new

LEMMA OnItsPathOneMore ==
    ASSUME NEW n \in 1 .. N, NEW p \in PacketType, NEW seq \in Word, n < N, now \in Nat,
           sources \in SourceSets, OneSource, HopsFit, OnItsPath(p, n), Past(p)
    PROVE  LET hop == [node |-> n, ingress |-> now, egress |-> now + 1]
               q == ingress(p, n \in sources, seq, hop)
           IN  /\ OnItsPath(q, n + 1)
               /\ \A i \in 1 .. Len(q.stack) : q.stack[i].egress <= now + 2
<1> DEFINE hop == [node |-> n, ingress |-> now, egress |-> now + 1]
           isSource == n \in sources
           q == ingress(p, isSource, seq, hop)
<1> SUFFICES /\ OnItsPath(q, n + 1)
             /\ \A i \in 1 .. Len(q.stack) : q.stack[i].egress <= now + 2
    OBVIOUS
<1>0. /\ hop \in Hops /\ isSource \in BOOLEAN /\ N \in Nat
      /\ \A s \in sources : s \in 1 .. N
      /\ p.stack \in Seq(Hops)
  <2>1. N \in Nat /\ \A s \in sources : s \in 1 .. N
    BY PathAssumption
  <2>2. hop \in Hops
    BY <2>1 DEF Hops
  <2> QED
    BY <2>1, <2>2, Fields
<1>1. CASE p.l4 = "other"
  <2>1. q = p
      BY <1>1 DEF ingress
  <2>2. Untouched(p, n) /\ ~p.int.valid
      BY <1>1 DEF OnItsPath, Marked
  <2>3. Untouched(p, n + 1)
      BY <1>1, <2>2 DEF Untouched
  <2> QED
      BY <1>1, <2>1, <2>2, <2>3 DEF OnItsPath, Untouched
<1> DEFINE marked == Int_transit(IF isSource THEN configure_source(p, seq) ELSE p, hop)
<1>2. CASE p.l4 # "other"
  <2>0. /\ marked \in PacketType
        /\ q.id = marked.id /\ q.l4 = marked.l4 /\ q.dscp = marked.dscp
        /\ q.int = marked.int /\ q.stack = marked.stack
    <3> HIDE DEF hop, isSource
    <3> QED
      BY <1>0, <1>2, IngressFields
  <2>1. CASE p.int.valid
    <3>1. Marked(p, n)
        BY <2>1 DEF OnItsPath
    <3>2. PICK s \in sources : /\ s < n /\ Recorded(p.stack, s, n)
                               /\ p.int.remaining_hop_cnt = Bytes - 1 - (n - s)
        BY <3>1 DEF Marked
    <3>3. ~isSource
        BY <3>2 DEF OneSource
    <3>4. marked = Int_transit(p, hop)
        BY <3>3
    <3> HIDE DEF marked, q
    <3>5. /\ marked.id = p.id /\ marked.l4 = p.l4 /\ marked.dscp = p.dscp
          /\ marked.int.valid /\ marked.int.dscp = p.int.dscp
          /\ marked.stack = <<hop>> \o p.stack
          /\ marked.int.remaining_hop_cnt = (p.int.remaining_hop_cnt - 1) % Bytes
      <4> HIDE DEF hop
      <4> QED
        BY <1>0, <2>1, <3>4, TransitFields
    <3>6. /\ Recorded(<<hop>> \o p.stack, s, n + 1)
          /\ \A i \in 1 .. Len(<<hop>> \o p.stack) : (<<hop>> \o p.stack)[i].egress <= now + 2
      <4>1. s \in 1 .. n
        BY <1>0, <3>2
      <4> QED
        BY <1>0, <3>2, <4>1, RecordedOneMore DEF Past
    <3>7. (p.int.remaining_hop_cnt - 1) % Bytes = Bytes - 1 - ((n + 1) - s)
      <4>1. s \in 1 .. n /\ Bytes - 1 - ((n + 1) - s) \in 0 .. Bytes - 1
        BY <1>0, <3>2, WidthAssumption DEF HopsFit
      <4>2. p.int.remaining_hop_cnt - 1 = Bytes - 1 - ((n + 1) - s)
        BY <1>0, <3>2, <4>1, WidthAssumption
      <4> QED
        BY <4>1, <4>2, WidthAssumption
    <3>8. Original(q) = Original(p)
        BY <2>0, <3>5 DEF Original
    <3>9. Marked(q, n + 1)
      <4>1. s < n + 1
        BY <1>0, <3>2
      <4> QED
        BY <2>0, <3>1, <3>5, <3>6, <3>7, <3>8, <4>1 DEF Marked
    <3> HIDE DEF hop
    <3> QED
        BY <2>0, <3>5, <3>6, <3>9 DEF OnItsPath
  <2>2. CASE ~p.int.valid /\ isSource
    <3> DEFINE r == configure_source(p, seq)
    <3>1. Untouched(p, n)
        BY <2>2 DEF OnItsPath
    <3>2. /\ r \in PacketType
          /\ r.id = p.id /\ r.l4 = p.l4 /\ r.dscp = IPv4_DSCP_INT /\ r.stack = p.stack
          /\ r.int = [valid |-> TRUE, len |-> 3, dscp |-> p.dscp,
                      remaining_hop_cnt |-> Bytes - 1, seq |-> seq]
        BY SourceType, SourceFields
    <3>3. marked = Int_transit(r, hop)
        BY <2>2
    <3> HIDE DEF marked, q, r
    <3>4. /\ r.int.valid /\ r.int.dscp = p.dscp /\ r.int.remaining_hop_cnt = Bytes - 1
        BY <3>2
    <3>5. /\ marked.id = p.id /\ marked.l4 = p.l4 /\ marked.dscp = IPv4_DSCP_INT
          /\ marked.int.valid /\ marked.int.dscp = p.dscp
          /\ marked.stack = <<hop>> \o p.stack
          /\ marked.int.remaining_hop_cnt = ((Bytes - 1) - 1) % Bytes
      <4> HIDE DEF hop
      <4>1. /\ marked.id = r.id /\ marked.l4 = r.l4 /\ marked.dscp = r.dscp
            /\ marked.int.valid /\ marked.int.dscp = r.int.dscp
            /\ marked.stack = <<hop>> \o r.stack
            /\ marked.int.remaining_hop_cnt = (r.int.remaining_hop_cnt - 1) % Bytes
        BY <1>0, <3>2, <3>3, <3>4, TransitFields
      <4> QED
        BY <3>2, <3>4, <4>1
    <3>6. /\ Recorded(<<hop>> \o p.stack, n, n + 1)
          /\ \A i \in 1 .. Len(<<hop>> \o p.stack) : (<<hop>> \o p.stack)[i].egress <= now + 2
      <4>1. Recorded(p.stack, n, n) /\ Len(p.stack) = 0
        BY <3>1 DEF Recorded, Untouched
      <4> QED
        BY <1>0, <4>1, RecordedOneMore
    <3>7. ((Bytes - 1) - 1) % Bytes = Bytes - 1 - ((n + 1) - n)
        BY WidthAssumption
    <3>8. Original(q) = Original(p)
        BY <2>0, <3>5 DEF Original
    <3>9. Marked(q, n + 1)
      <4>1. n < n + 1
        OBVIOUS
      <4> QED
        BY <1>2, <2>0, <2>2, <3>1, <3>5, <3>6, <3>7, <3>8, <4>1 DEF Marked, Untouched
    <3> HIDE DEF hop
    <3> QED
        BY <2>0, <3>5, <3>6, <3>9 DEF OnItsPath
  <2>3. CASE ~p.int.valid /\ ~isSource
    <3>1. marked = p
        BY <2>3 DEF Int_transit
    <3>2. Untouched(p, n)
        BY <2>3 DEF OnItsPath
    <3> HIDE DEF marked, q
    <3>3. Original(q) = Original(p)
        BY <2>0, <3>1 DEF Original
    <3>4. \A s \in sources : s >= n + 1
        BY <1>0, <1>2, <2>3, <3>2 DEF Untouched
    <3>5. Untouched(q, n + 1)
        BY <2>0, <3>1, <3>2, <3>3, <3>4 DEF Untouched
    <3> QED
        BY <2>0, <2>3, <3>1, <3>2, <3>5 DEF OnItsPath, Untouched
  <2> QED
      BY <2>1, <2>2, <2>3
<1> QED
    BY <1>1, <1>2

-----------------------------------------------------------------------------
(* The invariant: IInv, of IntPath_proofs, and where the records are. *)

Travelling == \A n \in 1 .. N : \A p \in link[n] : OnItsPath(p, n) /\ Past(p)

Delivered ==
    \A d \in frames :
        /\ d.packet.l4 # "other" /\ OnItsPath(d.packet, N)
        /\ \E tstamp : d.frame = Int_sink(d.packet, tstamp)

RInv == Travelling /\ Delivered

LEMMA FreshOnItsPath ==
    ASSUME NEW p \in Packets, sources \in SourceSets
    PROVE  OnItsPath(p, 1) /\ Past(p)
<1>1. p.stack = <<>> /\ ~p.int.valid
    BY PathAssumption DEF NoInt
<1>2. Original(p) = p
    BY PathAssumption DEF Original
<1>3. \A s \in sources : s >= 1
    BY PathAssumption
<1> QED
    BY <1>1, <1>2, <1>3 DEF OnItsPath, Untouched, Past

LEMMA RecordsInitially == Init => RInv
BY DEF Init, RInv, Travelling, Delivered

LEMMA RecordsInductive ==
    ASSUME OneSource, HopsFit
    PROVE  RInv /\ IInv /\ IInv' /\ [Next]_vars => RInv'
<1> SUFFICES ASSUME RInv, IInv, IInv', [Next]_vars PROVE RInv'
    OBVIOUS
<1>0. /\ link \in [1 .. N -> SUBSET PacketType] /\ link' \in [1 .. N -> SUBSET PacketType]
      /\ now \in Nat /\ reg1 \in [1 .. N -> Word] /\ sources \in SourceSets
      /\ unsent \subseteq Packets /\ N \in Nat /\ N \in 1 .. N
    BY PathAssumption DEF IInv, TypeOK
<1>a. Travelling /\ Delivered
    BY DEF RInv
<1>b. ASSUME sources' = sources, NEW p, NEW n, OnItsPath(p, n)
      PROVE  OnItsPath(p, n)'
    BY <1>b DEF OnItsPath, Marked, Untouched
<1>c. ASSUME NEW p \in PacketType, Past(p), now' \in {now, now + 1, now + 2}
      PROVE  Past(p)'
  <2>1. \A i \in 1 .. Len(p.stack) : p.stack[i] \in Hops
      BY Fields
  <2> QED
      BY <1>0, <1>c, <2>1 DEF Past, Hops
<1>d. ASSUME sources' = sources, frames' = frames
      PROVE  Delivered'
    BY <1>a, <1>b, <1>d DEF Delivered
<1>1. ASSUME NEW p \in unsent, Send(p)
      PROVE  RInv'
  <2>1. p \in Packets /\ OnItsPath(p, 1) /\ Past(p)
      BY <1>0, FreshOnItsPath
  <2>2. /\ sources' = sources /\ frames' = frames /\ now' = now
        /\ \A n \in 1 .. N : \A q \in link'[n] : q \in link[n] \/ (n = 1 /\ q = p)
      BY <1>0, <1>1 DEF Send
  <2>3. Travelling'
    <3> SUFFICES ASSUME NEW n \in 1 .. N, NEW q \in link'[n]
                 PROVE  (OnItsPath(q, n) /\ Past(q))'
      BY DEF Travelling
    <3>1. q \in PacketType /\ OnItsPath(q, n) /\ Past(q)
      BY <1>0, <1>a, <2>1, <2>2 DEF Travelling
    <3> QED
      BY <1>b, <1>c, <2>2, <3>1
  <2> QED
      BY <1>d, <2>2, <2>3 DEF RInv
<1>2. ASSUME NEW n \in 1 .. N, NEW p \in link[n], Forward(n, p)
      PROVE  RInv'
  <2> DEFINE seq == (reg1[n] + 1) % Words
             q == ingress(p, n \in sources, seq, [node |-> n, ingress |-> now, egress |-> now + 1])
  <2>1. p \in PacketType /\ seq \in Word /\ n < N /\ OnItsPath(p, n) /\ Past(p)
    <3>1. p \in PacketType /\ n < N /\ OnItsPath(p, n) /\ Past(p)
      BY <1>0, <1>2, <1>a DEF Forward, Travelling
    <3>2. seq \in Word
      BY <1>0, WordSum
    <3> QED
      BY <3>1, <3>2
  <2>2. OnItsPath(q, n + 1) /\ \A i \in 1 .. Len(q.stack) : q.stack[i].egress <= now + 2
    <3> HIDE DEF seq
    <3> QED
      BY <1>0, <2>1, OnItsPathOneMore
  <2>3. /\ sources' = sources /\ frames' = frames /\ now' = now + 2 /\ n + 1 \in 1 .. N
        /\ link' = [link EXCEPT ![n] = @ \ {p}, ![n + 1] = @ \cup {q}]
      BY <1>0, <1>2, <2>1 DEF Forward
  <2> HIDE DEF seq, q
  <2>4. \A i \in 1 .. N : \A r \in link'[i] : r \in link[i] \/ (i = n + 1 /\ r = q)
      BY <1>0, <2>3
  <2>5. Travelling'
    <3> SUFFICES ASSUME NEW i \in 1 .. N, NEW r \in link'[i]
                 PROVE  (OnItsPath(r, i) /\ Past(r))'
      BY DEF Travelling
    <3>1. CASE r \in link[i]
      <4>1. r \in PacketType /\ OnItsPath(r, i) /\ Past(r)
        BY <1>0, <1>a, <3>1 DEF Travelling
      <4> QED
        BY <1>b, <1>c, <2>3, <4>1
    <3>2. CASE i = n + 1 /\ r = q
      <4>1. OnItsPath(r, i) /\ \A j \in 1 .. Len(r.stack) : r.stack[j].egress <= now + 2
        BY <2>2, <3>2
      <4>2. OnItsPath(r, i)'
        BY <1>b, <2>3, <4>1
      <4>3. Past(r)'
        BY <2>3, <4>1 DEF Past
      <4> QED
        BY <4>2, <4>3
    <3> QED
      BY <2>4, <3>1, <3>2
  <2> QED
      BY <1>d, <2>3, <2>5 DEF RInv
<1>3. ASSUME NEW p \in link[N], Deliver(p)
      PROVE  RInv'
  <2>1. /\ sources' = sources /\ now' = now + 1
        /\ \A n \in 1 .. N : \A q \in link'[n] : q \in link[n]
      BY <1>0, <1>3 DEF Deliver
  <2>2. Travelling'
    <3> SUFFICES ASSUME NEW n \in 1 .. N, NEW q \in link'[n]
                 PROVE  (OnItsPath(q, n) /\ Past(q))'
      BY DEF Travelling
    <3>1. q \in PacketType /\ OnItsPath(q, n) /\ Past(q)
      BY <1>0, <1>a, <2>1 DEF Travelling
    <3> QED
      BY <1>b, <1>c, <2>1, <3>1
  <2>3. Delivered'
    <3> SUFFICES ASSUME NEW d \in frames'
                 PROVE  /\ d.packet.l4 # "other" /\ OnItsPath(d.packet, N)'
                        /\ \E tstamp : d.frame = Int_sink(d.packet, tstamp)
      BY DEF Delivered
    <3>1. CASE d \in frames
      BY <1>a, <1>b, <2>1, <3>1 DEF Delivered
    <3>2. CASE p.l4 # "other" /\ d = [packet |-> p, frame |-> Int_sink(p, now)]
      <4>1. OnItsPath(p, N)
        BY <1>0, <1>a DEF Travelling
      <4> QED
        BY <1>b, <2>1, <3>2, <4>1
    <3> QED
      BY <1>3, <3>1, <3>2 DEF Deliver
  <2> QED
      BY <2>2, <2>3 DEF RInv
<1>4. ASSUME NEW n \in 1 .. N, NEW p \in link[n], Lose(n, p)
      PROVE  RInv'
  <2>1. /\ sources' = sources /\ now' = now /\ frames' = frames
        /\ \A i \in 1 .. N : \A q \in link'[i] : q \in link[i]
      BY <1>0, <1>4 DEF Lose
  <2>2. Travelling'
    <3> SUFFICES ASSUME NEW i \in 1 .. N, NEW q \in link'[i]
                 PROVE  (OnItsPath(q, i) /\ Past(q))'
      BY DEF Travelling
    <3>1. q \in PacketType /\ OnItsPath(q, i) /\ Past(q)
      BY <1>0, <1>a, <2>1 DEF Travelling
    <3> QED
      BY <1>b, <1>c, <2>1, <3>1
  <2> QED
      BY <1>d, <2>1, <2>2 DEF RInv
<1>5. CASE UNCHANGED vars
  <2>1. sources' = sources /\ now' = now /\ frames' = frames /\ link' = link
      BY <1>5 DEF vars
  <2>2. Travelling'
    <3> SUFFICES ASSUME NEW i \in 1 .. N, NEW q \in link[i]
                 PROVE  (OnItsPath(q, i) /\ Past(q))'
      BY <2>1 DEF Travelling
    <3>1. q \in PacketType /\ OnItsPath(q, i) /\ Past(q)
      BY <1>0, <1>a DEF Travelling
    <3> QED
      BY <1>b, <1>c, <2>1, <3>1
  <2> QED
      BY <1>d, <2>1, <2>2 DEF RInv
<1> QED
    BY <1>1, <1>2, <1>3, <1>4, <1>5 DEF Next

LEMMA RecordsInvariant ==
    ASSUME OneSource, HopsFit
    PROVE  Spec => []RInv
<1>1. RInv /\ IInv /\ IInv' /\ [Next]_vars => RInv'
    BY RecordsInductive
<1> QED
    BY RecordsInitially, <1>1, Invariance, PTL DEF Spec

LEMMA RecordsArePath ==
    ASSUME IInv, RInv, OneSource, HopsFit
    PROVE  StackIsPath
<1> SUFFICES ASSUME NEW n \in 1 .. N, NEW p \in link[n]
             PROVE  LET hops == Len(p.stack)
                    IN  /\ \A i \in 1 .. hops :
                             /\ p.stack[i].node = n - i
                             /\ i > 1 => p.stack[i].egress <= p.stack[i - 1].ingress
                        /\ p.int.valid <=> (hops > 0 /\ p.stack[hops].node \in sources)
                        /\ p.int.valid => p.int.remaining_hop_cnt = Bytes - 1 - hops
                        /\ p.int.valid => (p.dscp = IPv4_DSCP_INT /\ p.int.dscp = Original(p).dscp)
                        /\ (p.l4 # "other" /\ \E s \in sources : s < n) => p.int.valid
    BY DEF StackIsPath
<1>0. /\ OnItsPath(p, n) /\ N \in Nat /\ p.int.valid \in BOOLEAN
      /\ \A s \in sources : s \in 1 .. N
  <2>1. p \in PacketType /\ sources \in SourceSets /\ OnItsPath(p, n)
      BY DEF RInv, Travelling, IInv, TypeOK
  <2>2. p.int.valid \in BOOLEAN
      BY <2>1 DEF PacketType, PacketsOf
  <2> QED
      BY <2>1, <2>2, PathAssumption
<1>1. CASE p.int.valid
  <2>1. Marked(p, n)
      BY <1>0, <1>1 DEF OnItsPath
  <2>2. PICK s \in sources : /\ s < n /\ Recorded(p.stack, s, n)
                             /\ p.int.remaining_hop_cnt = Bytes - 1 - (n - s)
      BY <2>1 DEF Marked
  <2>3. Len(p.stack) = n - s /\ n - s > 0 /\ n - (n - s) = s
      BY <1>0, <2>2 DEF Recorded
  <2>4. p.stack[n - s].node = s
      BY <1>0, <2>2, <2>3 DEF Recorded
  <2> QED
      BY <1>1, <2>1, <2>2, <2>3, <2>4 DEF Recorded, Marked
<1>2. CASE ~p.int.valid
  <2>1. p.stack = <<>> /\ (p.l4 = "other" \/ \A s \in sources : s >= n)
      BY <1>0, <1>2 DEF OnItsPath, Untouched
  <2>2. Len(p.stack) = 0
      BY <2>1
  <2> QED
      BY <1>0, <1>2, <2>1, <2>2
<1> QED
    BY <1>0, <1>1, <1>2

\* A packet carries one record of each node from its source on, the newest in
\* front, with times in the order of the path, and hop count and marking agree
\* with them: for every length of the path, every place of the source and
\* whatever packets are lost or overtake each other.
THEOREM StacksArePaths ==
    ASSUME OneSource, HopsFit
    PROVE  Spec => []StackIsPath
<1>1. IInv /\ RInv => StackIsPath
    BY RecordsArePath
<1> QED
    BY <1>1, RecordsInvariant, Invariance, PTL

-----------------------------------------------------------------------------
(* The lengths. *)

\* The path is short enough for the 8 bits of the shim's length, and no packet
\* grows beyond the 16 bits of the other two.
LengthsFit ==
    /\ 3 + 6 * (N - 1) < Bytes
    /\ \A p \in Packets :
        /\ p.totalLen + (12 + 24 * (N - 1)) < Words
        /\ p.l4 = "udp" => p.len + (12 + 24 * (N - 1)) < Words

LEMMA ShimFitsHops == LengthsFit => HopsFit
BY PathAssumption, WidthAssumption DEF LengthsFit, HopsFit

Added(p) == IF p.int.valid THEN 12 + 24 * Len(p.stack) ELSE 0

Measured(p) ==
    /\ Original(p) \in Packets /\ p.l4 = Original(p).l4
    /\ p.totalLen = Original(p).totalLen + Added(p)
    /\ p.l4 = "udp" => p.len = Original(p).len + Added(p)
    /\ p.int.valid => p.int.len = 3 + 6 * Len(p.stack)

LInv ==
    /\ \A n \in 1 .. N : \A p \in link[n] : Measured(p)
    /\ \A d \in frames : Measured(d.packet)

\* No packet has more records than there were nodes.
LEMMA FewRecords ==
    ASSUME NEW n \in 1 .. N, NEW p \in PacketType, OnItsPath(p, n), sources \in SourceSets
    PROVE  Len(p.stack) \in 0 .. n - 1 /\ (p.int.valid => p.l4 # "other" /\ Len(p.stack) > 0)
<1>0. N \in Nat /\ \A s \in sources : s \in 1 .. N
    BY PathAssumption
<1>1. CASE p.int.valid
    BY <1>0, <1>1 DEF OnItsPath, Marked, Recorded
<1>2. CASE ~p.int.valid
  <2>1. p.stack = <<>>
      BY <1>2 DEF OnItsPath, Untouched
  <2> QED
      BY <1>0, <1>2, <2>1
<1> QED
    BY <1>1, <1>2

LEMMA NoWrap ==
    ASSUME NEW m \in Nat, NEW x \in 0 .. m - 1
    PROVE  x % m = x
OBVIOUS

LEMMA FreshMeasured == \A p \in Packets : Measured(p)
<1> SUFFICES ASSUME NEW p \in Packets PROVE Measured(p)
    OBVIOUS
<1>1. p.stack = <<>> /\ ~p.int.valid /\ p \in PacketType
    BY PathAssumption DEF NoInt
<1>2. Original(p) = p
    BY PathAssumption DEF Original
<1>3. p.totalLen \in Nat /\ p.len \in Nat
    BY <1>1, Fields, WordsAssumption DEF Word
<1> QED
    BY <1>1, <1>2, <1>3 DEF Measured, Added

LEMMA MeasuredOneMore ==
    ASSUME NEW n \in 1 .. N, NEW p \in PacketType, NEW seq \in Word, NEW hop \in Hops, n < N,
           sources \in SourceSets, OneSource, LengthsFit, OnItsPath(p, n), Measured(p)
    PROVE  Measured(ingress(p, n \in sources, seq, hop))
<1> DEFINE isSource == n \in sources
           q == ingress(p, isSource, seq, hop)
           marked == Int_transit(IF isSource THEN configure_source(p, seq) ELSE p, hop)
           k == Len(p.stack)
<1>0. /\ isSource \in BOOLEAN /\ N \in Nat /\ p.stack \in Seq(Hops) /\ k \in 0 .. n - 1
      /\ Original(p) \in Packets /\ Words \in Nat /\ Bytes \in Nat /\ Bytes > 3
  <2>1. N \in Nat /\ isSource \in BOOLEAN /\ p.stack \in Seq(Hops)
      BY PathAssumption, Fields
  <2> QED
      BY <2>1, FewRecords, WordsAssumption, WidthAssumption DEF Measured
<1>b. /\ 12 + 24 * (k + 1) \in Nat /\ 12 + 24 * (k + 1) <= 12 + 24 * (N - 1)
      /\ 12 + 24 * k \in Nat
      /\ 3 + 6 * (k + 1) \in 0 .. Bytes - 1
    BY <1>0 DEF LengthsFit
<1>w. Original(p).totalLen \in Nat /\ Original(p).len \in Nat
    BY <1>0, Fields, PathAssumption, WordsAssumption DEF Word
<1>t. Original(p).totalLen + (12 + 24 * (k + 1)) \in 0 .. Words - 1
  <2>1. Original(p).totalLen + (12 + 24 * (N - 1)) < Words
      BY <1>0 DEF LengthsFit
  <2> HIDE DEF k
  <2> QED
      BY <1>0, <1>b, <1>w, <2>1
<1>u. p.l4 = "udp" => Original(p).len + (12 + 24 * (k + 1)) \in 0 .. Words - 1
  <2>1. p.l4 = "udp" => Original(p).len + (12 + 24 * (N - 1)) < Words
      BY <1>0 DEF LengthsFit, Measured
  <2> HIDE DEF k
  <2> QED
      BY <1>0, <1>b, <1>w, <2>1
<1>1. CASE p.l4 = "other"
    BY <1>1 DEF ingress
<1>2. CASE p.l4 # "other"
  <2>0. /\ marked \in PacketType
        /\ q.id = marked.id /\ q.l4 = marked.l4 /\ q.totalLen = marked.totalLen
        /\ q.len = marked.len /\ q.int = marked.int /\ q.stack = marked.stack
    <3> HIDE DEF isSource
    <3> QED
      BY <1>0, <1>2, IngressFields
  <2>1. SUFFICES Measured(marked)
    <3> HIDE DEF marked, q
    <3>1. Original(q) = Original(marked)
      BY <2>0 DEF Original
    <3> QED
      BY <2>0, <3>1 DEF Measured, Added, q
  <2>2. CASE p.int.valid
    <3>1. ~isSource
        BY <2>2 DEF OneSource, OnItsPath, Marked
    <3>2. marked = Int_transit(p, hop)
        BY <3>1
    <3> HIDE DEF marked
    <3>3. /\ marked.id = p.id /\ marked.l4 = p.l4 /\ marked.int.valid
          /\ marked.stack = <<hop>> \o p.stack
          /\ marked.int.len = (p.int.len + 6) % Bytes
          /\ marked.totalLen = (p.totalLen + 24) % Words
          /\ marked.len = IF p.l4 = "udp" THEN (p.len + 24) % Words ELSE p.len
        BY <2>2, <3>2, TransitFields
    <3>4. Len(marked.stack) = k + 1 /\ Original(marked) = Original(p)
      <4>1. Len(<<hop>> \o p.stack) = k + 1
        BY <1>0, Pushed
      <4> QED
        BY <3>3, <4>1 DEF Original
    <3>5. marked.int.len = 3 + 6 * (k + 1)
      <4>1. p.int.len + 6 = 3 + 6 * (k + 1)
        BY <1>0, <2>2 DEF Measured
      <4> QED
        BY <1>0, <1>b, <3>3, <4>1, NoWrap
    <3>6. marked.totalLen = Original(p).totalLen + (12 + 24 * (k + 1))
      <4>1. p.totalLen + 24 = Original(p).totalLen + (12 + 24 * (k + 1))
        BY <1>0, <1>w, <2>2 DEF Measured, Added
      <4> QED
        BY <1>0, <1>t, <3>3, <4>1, NoWrap
    <3>7. p.l4 = "udp" => marked.len = Original(p).len + (12 + 24 * (k + 1))
      <4>1. p.l4 = "udp" => p.len + 24 = Original(p).len + (12 + 24 * (k + 1))
        BY <1>0, <1>w, <2>2 DEF Measured, Added
      <4> QED
        BY <1>0, <1>u, <3>3, <4>1, NoWrap
    <3> HIDE DEF k
    <3> QED
        BY <1>0, <3>3, <3>4, <3>5, <3>6, <3>7 DEF Measured, Added
  <2>3. CASE ~p.int.valid /\ isSource
    <3> DEFINE r == configure_source(p, seq)
    <3>1. /\ r \in PacketType
          /\ r.id = p.id /\ r.l4 = p.l4 /\ r.stack = p.stack
          /\ r.int = [valid |-> TRUE, len |-> 3, dscp |-> p.dscp,
                      remaining_hop_cnt |-> Bytes - 1, seq |-> seq]
          /\ r.totalLen = (p.totalLen + 12) % Words
          /\ r.len = IF p.l4 = "udp" THEN (p.len + 12) % Words ELSE p.len
        BY SourceType, SourceFields
    <3>2. marked = Int_transit(r, hop)
        BY <2>3
    <3> HIDE DEF marked, r
    <3>3. r.int.valid /\ r.int.len = 3
        BY <3>1
    <3>4. /\ marked.id = r.id /\ marked.l4 = r.l4 /\ marked.int.valid
          /\ marked.stack = <<hop>> \o r.stack
          /\ marked.int.len = (r.int.len + 6) % Bytes
          /\ marked.totalLen = (r.totalLen + 24) % Words
          /\ marked.len = IF r.l4 = "udp" THEN (r.len + 24) % Words ELSE r.len
        BY <3>1, <3>2, <3>3, TransitFields
    <3>5. k = 0
      <4>1. p.stack = <<>>
        BY <2>3 DEF OnItsPath, Untouched
      <4> QED
        BY <4>1
    <3>6. Len(marked.stack) = k + 1 /\ Original(marked) = Original(p)
      <4>1. Len(<<hop>> \o p.stack) = k + 1
        BY <1>0, Pushed
      <4> QED
        BY <3>1, <3>4, <4>1 DEF Original
    <3>7. marked.int.len = 3 + 6 * (k + 1)
      <4>1. r.int.len + 6 = 3 + 6 * (k + 1)
        BY <3>3, <3>5
      <4> QED
        BY <1>0, <1>b, <3>4, <4>1, NoWrap
    <3>8. marked.totalLen = Original(p).totalLen + (12 + 24 * (k + 1))
      <4>1. p.totalLen = Original(p).totalLen
        BY <1>w, <2>3 DEF Measured, Added
      <4>2. p.totalLen + 12 \in 0 .. Words - 1
        BY <1>0, <1>t, <1>w, <3>5, <4>1
      <4>3. r.totalLen = Original(p).totalLen + 12
        BY <1>0, <3>1, <4>1, <4>2, NoWrap
      <4>4. r.totalLen + 24 = Original(p).totalLen + (12 + 24 * (k + 1))
        BY <1>w, <3>5, <4>3
      <4> QED
        BY <1>0, <1>t, <3>4, <4>4, NoWrap
    <3>9. p.l4 = "udp" => marked.len = Original(p).len + (12 + 24 * (k + 1))
      <4> SUFFICES ASSUME p.l4 = "udp"
                   PROVE  marked.len = Original(p).len + (12 + 24 * (k + 1))
        OBVIOUS
      <4>1. p.len = Original(p).len
        BY <1>w, <2>3 DEF Measured, Added
      <4>2. p.len + 12 \in 0 .. Words - 1
        BY <1>0, <1>u, <1>w, <3>5, <4>1
      <4>3. r.len = Original(p).len + 12
        BY <1>0, <3>1, <4>1, <4>2, NoWrap
      <4>4. r.len + 24 = Original(p).len + (12 + 24 * (k + 1))
        BY <1>w, <3>5, <4>3
      <4> QED
        BY <1>0, <1>u, <3>1, <3>4, <4>4, NoWrap
    <3> HIDE DEF k
    <3> QED
        BY <1>0, <3>1, <3>4, <3>6, <3>7, <3>8, <3>9 DEF Measured, Added
  <2>4. CASE ~p.int.valid /\ ~isSource
      BY <2>4 DEF Int_transit
  <2> QED
      BY <2>2, <2>3, <2>4
<1> QED
    BY <1>1, <1>2

LEMMA LengthsInductive ==
    ASSUME OneSource, LengthsFit
    PROVE  LInv /\ RInv /\ IInv /\ [Next]_vars => LInv'
<1> SUFFICES ASSUME LInv, RInv, IInv, [Next]_vars PROVE LInv'
    OBVIOUS
<1>0. /\ link \in [1 .. N -> SUBSET PacketType] /\ now \in Nat /\ reg1 \in [1 .. N -> Word]
      /\ sources \in SourceSets /\ unsent \subseteq Packets /\ N \in Nat /\ N \in 1 .. N
    BY PathAssumption DEF IInv, TypeOK
<1>a. SUFFICES /\ \A n \in 1 .. N : \A p \in link'[n] : Measured(p)
               /\ \A d \in frames' : Measured(d.packet)
    BY DEF LInv, Measured, Added, Original
<1>b. /\ \A n \in 1 .. N : \A p \in link[n] : Measured(p)
      /\ \A d \in frames : Measured(d.packet)
    BY DEF LInv
<1>1. ASSUME NEW p \in unsent, Send(p)
      PROVE  /\ \A n \in 1 .. N : \A q \in link'[n] : Measured(q)
             /\ \A d \in frames' : Measured(d.packet)
  <2>1. /\ frames' = frames
        /\ \A n \in 1 .. N : \A q \in link'[n] : q \in link[n] \/ q = p
      BY <1>0, <1>1 DEF Send
  <2> QED
      BY <1>0, <1>b, <2>1, FreshMeasured
<1>2. ASSUME NEW n \in 1 .. N, NEW p \in link[n], Forward(n, p)
      PROVE  /\ \A i \in 1 .. N : \A r \in link'[i] : Measured(r)
             /\ \A d \in frames' : Measured(d.packet)
  <2> DEFINE seq == (reg1[n] + 1) % Words
             hop == [node |-> n, ingress |-> now, egress |-> now + 1]
             q == ingress(p, n \in sources, seq, hop)
  <2>1. p \in PacketType /\ n < N /\ OnItsPath(p, n) /\ Measured(p)
      BY <1>0, <1>2, <1>b DEF Forward, RInv, Travelling
  <2>2. seq \in Word /\ hop \in Hops
      BY <1>0, WordSum DEF Hops
  <2>3. Measured(q)
    <3> HIDE DEF seq, hop
    <3> QED
      BY <1>0, <2>1, <2>2, MeasuredOneMore
  <2>4. /\ frames' = frames /\ n + 1 \in 1 .. N
        /\ link' = [link EXCEPT ![n] = @ \ {p}, ![n + 1] = @ \cup {q}]
      BY <1>0, <1>2, <2>1 DEF Forward
  <2> HIDE DEF q
  <2>5. \A i \in 1 .. N : \A r \in link'[i] : r \in link[i] \/ r = q
      BY <1>0, <2>4
  <2> QED
      BY <1>b, <2>3, <2>4, <2>5
<1>3. ASSUME NEW p \in link[N], Deliver(p)
      PROVE  /\ \A n \in 1 .. N : \A q \in link'[n] : Measured(q)
             /\ \A d \in frames' : Measured(d.packet)
  <2>1. \A n \in 1 .. N : \A q \in link'[n] : q \in link[n]
      BY <1>0, <1>3 DEF Deliver
  <2>2. \A d \in frames' : d \in frames \/ d.packet = p
      BY <1>3 DEF Deliver
  <2> QED
      BY <1>0, <1>b, <2>1, <2>2
<1>4. ASSUME NEW n \in 1 .. N, NEW p \in link[n], Lose(n, p)
      PROVE  /\ \A i \in 1 .. N : \A q \in link'[i] : Measured(q)
             /\ \A d \in frames' : Measured(d.packet)
  <2>1. frames' = frames /\ \A i \in 1 .. N : \A q \in link'[i] : q \in link[i]
      BY <1>0, <1>4 DEF Lose
  <2> QED
      BY <1>b, <2>1
<1>5. CASE UNCHANGED vars
    BY <1>5, <1>b DEF vars
<1> QED
    BY <1>1, <1>2, <1>3, <1>4, <1>5 DEF Next

LEMMA LengthsInvariant ==
    ASSUME OneSource, LengthsFit
    PROVE  Spec => [](IInv /\ RInv /\ LInv)
<1>1. LInv /\ RInv /\ IInv /\ [Next]_vars => LInv'
    BY LengthsInductive
<1>2. Init => LInv
    BY DEF Init, LInv
<1>3. Spec => []RInv
    BY ShimFitsHops, RecordsInvariant
<1> QED
    BY <1>1, <1>2, <1>3, Invariance, PTL DEF Spec

\* The lengths of IPv4, UDP and shim agree with the headers and records in the
\* packet, wherever it is, as long as the path is short enough for the 8 bits
\* of the shim's length (42 records) and no packet grows beyond 16 bits.
THEOREM LengthsStayRight ==
    ASSUME OneSource, LengthsFit
    PROVE  Spec => []LengthsAgree
<1>1. IInv /\ RInv /\ LInv => LengthsAgree
  <2> SUFFICES ASSUME IInv, LInv, NEW n \in 1 .. N, NEW p \in link[n]
               PROVE  /\ p.totalLen = Original(p).totalLen + Added(p)
                      /\ p.l4 = "udp" => p.len = Original(p).len + Added(p)
                      /\ p.int.valid => 4 * p.int.len = Added(p)
      BY DEF LengthsAgree, OnTheWay, Added, INT_ALL_HEADER_LEN_BYTES, HOP_BYTES
  <2>1. Measured(p) /\ p.stack \in Seq(Hops)
      BY Fields DEF LInv, IInv, TypeOK
  <2> QED
      BY <2>1 DEF Measured, Added
<1> QED
    BY <1>1, LengthsInvariant, PTL

-----------------------------------------------------------------------------
(* The report. *)

LEMMA FrameReported ==
    ASSUME NEW p \in PacketType, NEW tstamp, p.l4 # "other", OnItsPath(p, N), Measured(p),
           sources \in SourceSets, OneSource, LengthsFit
    PROVE  LET r == Reported(Int_sink(p, tstamp))
               hops == Len(p.stack)
           IN  /\ DOMAIN r.node_meta = 0 .. hops
               /\ \A i \in 1 .. hops :
                    r.node_meta[i - 1].hop_delay = p.stack[i].egress - p.stack[i].ingress
               /\ (p.l4 = "udp" \/ p.seq # 0) => r.header.protocol = p.l4
<1> DEFINE f == Received(Int_sink(p, tstamp))
           r == Reported(Int_sink(p, tstamp))
           hops == Len(p.stack)
<1>0. /\ N \in Nat /\ N \in 1 .. N /\ \A s \in sources : s \in 1 .. N - 1
      /\ \E s \in sources : TRUE
      /\ p.stack \in Seq(Hops) /\ p.l4 \in {"udp", "tcp"} /\ Bytes \in Nat /\ Bytes > 3
  <2>1. N \in Nat /\ N \in 1 .. N /\ sources \subseteq 1 .. N - 1 /\ sources # {}
      BY PathAssumption
  <2>2. p.stack \in Seq(Hops) /\ p.l4 \in {"udp", "tcp"}
      BY Fields DEF PacketType, PacketsOf
  <2>3. \E s \in sources : TRUE
      BY <2>1
  <2> QED
      BY <2>1, <2>2, <2>3, WidthAssumption
<1>1. p.int.valid
    BY <1>0 DEF OnItsPath, Untouched
<1>2. hops \in 1 .. N - 1
    BY <1>0, <1>1, FewRecords
<1>3. f.meta_cnt = hops /\ f.metas = p.stack
  <2>1. p.int.len - 3 = 6 * hops /\ 6 * hops \in 0 .. Bytes - 1
      BY <1>0, <1>1, <1>2 DEF Measured, LengthsFit
  <2>2. (p.int.len - 3) % Bytes = 6 * hops
      BY <1>0, <2>1, NoWrap
  <2>3. (6 * hops) \div 6 = hops
    <3> HIDE DEF hops
    <3> QED
      BY <1>0, <1>2
  <2> QED
      BY <2>2, <2>3 DEF Received, Int_sink, HOP_WORDS
<1>4. f.seq = IF p.l4 = "tcp" THEN p.seq ELSE 0
    BY DEF Received, Int_sink
<1>5. r = Report(f, [seq |-> 0, prev_dstTs |-> 0], [i \in 0 .. N |-> 0], FALSE)
    BY DEF Reported
<1> HIDE DEF f
<1>6. r.node_meta = [i \in 0 .. f.meta_cnt |-> get_int_node_data(f, i, [j \in 0 .. N |-> 0][i])]
    BY <1>5 DEF Report
<1>7. r.header.protocol = IF f.seq = 0 THEN "udp" ELSE "tcp"
    BY <1>5 DEF Report, get_int_header_data
<1> HIDE DEF r
<1>8. ASSUME NEW i \in 1 .. hops
      PROVE  r.node_meta[i - 1].hop_delay = p.stack[i].egress - p.stack[i].ingress
  <2>1. i - 1 \in 0 .. f.meta_cnt /\ i - 1 < f.meta_cnt /\ (i - 1) + 1 = i
      BY <1>2, <1>3
  <2>2. r.node_meta[i - 1].hop_delay = Minus(f.metas[(i - 1) + 1].egress, Entered(f, i - 1))
      BY <1>6, <2>1 DEF get_int_node_data
  <2>3. Entered(f, i - 1) = p.stack[i].ingress
      BY <1>3, <2>1 DEF Entered
  <2>4. p.stack[i] \in Hops
      BY <1>0
  <2>5. p.stack[i].egress = p.stack[i].ingress + 1
      BY <1>0, <1>1 DEF OnItsPath, Marked, Recorded
  <2>6. Minus(p.stack[i].egress, p.stack[i].ingress) = 1
      BY <2>4, <2>5, TelemetryAssumption DEF Minus, Hops
  <2> QED
      BY <1>3, <2>1, <2>2, <2>3, <2>4, <2>5, <2>6 DEF Hops
<1> QED
    BY <1>0, <1>3, <1>4, <1>6, <1>7, <1>8 DEF r

\* The collector finds one record per node in front of the sink in every frame,
\* and reports the delays of these nodes: the lengths the nodes wrote, the sink
\* takes apart and the collector divides fit together.
THEOREM PathsAreReported ==
    ASSUME OneSource, LengthsFit
    PROVE  Spec => []ReportsThePath
<1>1. IInv /\ RInv /\ LInv => ReportsThePath
  <2> SUFFICES ASSUME IInv, RInv, LInv, NEW d \in frames
               PROVE  LET r == Reported(d.frame)
                          hops == Len(d.packet.stack)
                      IN  /\ DOMAIN r.node_meta = 0 .. hops
                          /\ \A i \in 1 .. hops :
                               r.node_meta[i - 1].hop_delay
                                 = d.packet.stack[i].egress - d.packet.stack[i].ingress
                          /\ (d.packet.l4 = "udp" \/ d.packet.seq # 0)
                                => r.header.protocol = d.packet.l4
      BY DEF ReportsThePath
  <2>1. /\ d.packet \in PacketType /\ sources \in SourceSets
        /\ d.packet.l4 # "other" /\ OnItsPath(d.packet, N) /\ Measured(d.packet)
      BY DEF IInv, TypeOK, RInv, Delivered, LInv
  <2>2. PICK tstamp : d.frame = Int_sink(d.packet, tstamp)
      BY DEF RInv, Delivered
  <2> QED
      BY <2>1, <2>2, FrameReported
<1> QED
    BY <1>1, LengthsInvariant, PTL
=============================================================================
