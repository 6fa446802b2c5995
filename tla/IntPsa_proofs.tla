---------------------------- MODULE IntPsa_proofs ----------------------------
(***************************************************************************)
(* Theorems about IntPsa: whatever generate.py is called with, whichever   *)
(* packets the hosts send and whatever is lost, packets carry the records  *)
(* of their first nodes, their lengths are those of their headers, a       *)
(* collector can take the stack apart, no transit node touches the         *)
(* validity of the checksum, and the reports are numbered without gaps.    *)
(***************************************************************************)
EXTENDS IntPsa, NumberTheorems

-----------------------------------------------------------------------------
(* Numbers of 8 and 16 bits, packets, and how many words records take. *)

Byte  == 0 .. 255
Field == 0 .. Values16 - 1

\* Sums modulo 2^16 - 1, and values of a byte that is only 0 or 1.
SumField == 0 .. Values16 - 2
Mark     == {0, 1}

\* The metadata headers of the mask.
Headers == 0 .. 7

Record == [node : Nat, headers : SUBSET Headers]

PacketWith(Stacks) ==
    [host : HostPackets, number : Nat, passed : Nat,
     dscp : Byte, totalLen : Field, udpLen : Field, ipSum : SumField,
     int : BOOLEAN, shimLen : Byte, shimDscp : Byte, hop_info : Field, mask : Byte, c_e : Mark,
     stack : Stacks]

Packet == PacketWith(Seq(Record))

\* What a node may find in ck_helper.
Helper == [old_totalLen : Int, old_dscp : Int, ipv4_dscp : Int]

LEMMA Numbers ==
    /\ \A x \in Field : x \in Nat /\ x \in Int
    /\ \A x \in Byte : x \in Nat /\ x \in Int
    /\ \A x \in SumField : x \in Nat /\ x \in Int
BY DEF Field, Byte, SumField, Values16

LEMMA Widths ==
    /\ Values16 \in Nat /\ Values16 > 0 /\ Values16 - 1 \in Nat /\ Values16 - 1 > 0
    /\ Values16 >= 65536
BY DEF Values16

LEMMA Remainders ==
    /\ \A x \in Int : x % Values16 \in Field
    /\ \A x \in Int : x % (Values16 - 1) \in SumField
    /\ \A x \in Int : x % 256 \in Byte
<1> SUFFICES ASSUME NEW x \in Int
             PROVE  x % Values16 \in Field /\ x % (Values16 - 1) \in SumField /\ x % 256 \in Byte
    OBVIOUS
<1> DEFINE m == Values16
           n == Values16 - 1
           b == 256
<1>1. m \in Nat /\ m > 0 /\ n \in Nat /\ n > 0 /\ b \in Nat /\ b > 0
      /\ n - 1 = Values16 - 2 /\ b - 1 = 255
    BY Widths
<1> HIDE DEF m, n, b
<1>2. x % m \in 0 .. m - 1 /\ x % n \in 0 .. n - 1 /\ x % b \in 0 .. b - 1
    BY <1>1, Division
<1>3. x % b \in Byte
    BY <1>1, <1>2 DEF Byte
<1>4. x % n \in SumField
    BY <1>1, <1>2 DEF SumField
<1>5. x % m \in Field
    BY <1>2 DEF Field, m
<1> QED
    BY <1>3, <1>4, <1>5 DEF m, n, b

LEMMA FiniteHeaders == IsFiniteSet(Headers)
<1> DEFINE a == 0
           b == 7
<1>1. a \in Int /\ b \in Int /\ Headers = a .. b
    BY DEF Headers
<1> HIDE DEF a, b
<1> QED
    BY <1>1, FS_Interval

LEMMA WordsType ==
    ASSUME NEW headers \in SUBSET Headers
    PROVE  Words(headers) \in Nat
<1>2. IsFiniteSet(headers) /\ IsFiniteSet(headers \cap {4, 5})
    BY FiniteHeaders, FS_Subset
<1> QED
    BY <1>2, FS_CardinalityType DEF Words

\* The words of two disjoint sets of headers.
LEMMA WordsOfBoth ==
    ASSUME NEW A \in SUBSET Headers, NEW B \in SUBSET Headers, A \cap B = {}
    PROVE  Words(A \cup B) = Words(A) + Words(B)
<1> DEFINE P == A \cap {4, 5}
           Q == B \cap {4, 5}
<1>2. IsFiniteSet(A) /\ IsFiniteSet(B) /\ IsFiniteSet(P) /\ IsFiniteSet(Q)
    BY FiniteHeaders, FS_Subset
<1>3. (A \cup B) \cap {4, 5} = P \cup Q /\ P \cap Q = {}
    OBVIOUS
<1>4. ASSUME NEW S, NEW T, IsFiniteSet(S), IsFiniteSet(T), S \cap T = {}
      PROVE  /\ Cardinality(S) \in Nat /\ Cardinality(T) \in Nat
             /\ Cardinality(S \cup T) = Cardinality(S) + Cardinality(T)
  <2>1. Cardinality(S \cap T) = 0
      BY <1>4, FS_EmptySet
  <2>2. Cardinality(S \cup T) = Cardinality(S) + Cardinality(T) - Cardinality(S \cap T)
      BY <1>4, FS_Union
  <2>3. Cardinality(S) \in Nat /\ Cardinality(T) \in Nat
      BY <1>4, FS_CardinalityType
  <2> QED
      BY <2>1, <2>2, <2>3
<1> HIDE DEF P, Q
<1>5. /\ Cardinality(A) \in Nat /\ Cardinality(B) \in Nat
      /\ Cardinality(P) \in Nat /\ Cardinality(Q) \in Nat
      /\ Cardinality(A \cup B) = Cardinality(A) + Cardinality(B)
      /\ Cardinality(P \cup Q) = Cardinality(P) + Cardinality(Q)
    BY <1>2, <1>3, <1>4
<1>6. Words(A) = Cardinality(A) + Cardinality(P) /\ Words(B) = Cardinality(B) + Cardinality(Q)
    BY DEF Words, P, Q
<1>7. Words(A \cup B) = Cardinality(A \cup B) + Cardinality(P \cup Q)
    BY <1>3, Zenon DEF Words
<1> QED
    BY <1>5, <1>6, <1>7

LEMMA WordsOfNone == WordsOf(<<>>) = 0
BY SumOfNone DEF WordsOf

\* One record more in front of a stack.
LEMMA Pushed ==
    ASSUME NEW new \in Record, NEW stack \in Seq(Record)
    PROVE  LET all == <<new>> \o stack
           IN  /\ all \in Seq(Record)
               /\ Len(all) = Len(stack) + 1 /\ all[1] = new
               /\ \A i \in 2 .. Len(stack) + 1 : all[i] = stack[i - 1]
               /\ WordsOf(stack) \in Nat
               /\ WordsOf(all) = WordsOf(stack) + Words(new.headers)
<1> DEFINE all == <<new>> \o stack
           n == Len(stack)
           f == [i \in 1 .. n |-> Words(stack[i].headers)]
           g == [i \in 1 .. n + 1 |-> Words(all[i].headers)]
<1>1. <<new>> \in Seq(Record)
    OBVIOUS
<1>2. /\ all \in Seq(Record) /\ Len(all) = n + 1 /\ all[1] = new /\ n \in Nat
      /\ \A i \in 2 .. n + 1 : all[i] = stack[i - 1]
      /\ DOMAIN stack = 1 .. n /\ DOMAIN all = 1 .. n + 1
    BY <1>1
<1>3. WordsOf(stack) = SumFunction(f) /\ WordsOf(all) = SumFunction(g)
    BY <1>2 DEF WordsOf
<1>4. \A r \in Record : Words(r.headers) \in Nat
    BY WordsType DEF Record
<1> HIDE DEF all, n
<1>5. /\ f \in [1 .. n -> Nat] /\ g \in [1 .. n + 1 -> Nat]
      /\ f \in [1 .. n -> Int] /\ g \in [1 .. n + 1 -> Int]
      /\ \A i \in 1 .. n : g[i + 1] = f[i]
      /\ g[1] = Words(new.headers)
  <2>1. \A i \in 1 .. n : Words(stack[i].headers) \in Nat
      BY <1>2, <1>4
  <2>2. \A i \in 1 .. n + 1 : Words(all[i].headers) \in Nat
      BY <1>2, <1>4
  <2>3. \A i \in 1 .. n : all[i + 1] = stack[i]
      BY <1>2
  <2>4. 1 \in 1 .. n + 1 /\ \A i \in 1 .. n : i + 1 \in 1 .. n + 1
      BY <1>2
  <2> QED
      BY <1>2, <2>1, <2>2, <2>3, <2>4, SMTT(30)
<1>6. IsFiniteSet(1 .. n)
    BY <1>2, FS_Interval
<1> HIDE DEF f, g
<1>7. SumFunction(f) \in Nat
  <2>1. 0 \in Nat /\ \A a, b \in Nat : a + b \in Nat
      OBVIOUS
  <2> QED
      BY <1>5, <1>6, <2>1, SumType, Zenon
<1>8. SumFunction(g) = g[1] + SumFunction(f)
    BY <1>2, <1>5, SumInFront
<1>9. g[1] \in Nat
    BY <1>4, <1>5
<1>10. /\ WordsOf(stack) \in Nat
       /\ WordsOf(all) = WordsOf(stack) + Words(new.headers)
    BY <1>3, <1>5, <1>7, <1>8, <1>9
<1> QED
    BY <1>2, <1>10 DEF all, n

-----------------------------------------------------------------------------
(* What the entries of the two tables set and count. *)

\* The words the actions of a mask count, and the headers it asks for.
WordsCounted(mask) == tb_int_inst_0003(mask).words + tb_int_inst_0407(mask).words
HeadersSet(mask)   == tb_int_inst_0003(mask).headers \cup tb_int_inst_0407(mask).headers
HeadersAsked(mask) == OfNibble(mask \div 16, 0) \cup OfNibble(mask % 16, 4)

LEMMA NibbleHeaders ==
    /\ \A nibble : OfNibble(nibble, 0) \in SUBSET (0 .. 3)
    /\ \A nibble : OfNibble(nibble, 4) \in SUBSET (4 .. 7)
BY DEF OfNibble

LEMMA TableCounts ==
    ASSUME NEW mask \in Byte
    PROVE  /\ HeadersSet(mask) \in SUBSET Headers
           /\ WordsCounted(mask) \in Nat
           /\ ~MisCounted(mask) =>
                /\ Words(HeadersSet(mask)) = WordsCounted(mask)
                /\ Words(HeadersAsked(mask)) = WordsCounted(mask)
<1> DEFINE upper == OfNibble((mask \div 16) % 16, 0)
           lower == OfNibble(mask % 16, 4)
<1>1. upper \in SUBSET (0 .. 3) /\ lower \in SUBSET (4 .. 7)
    BY NibbleHeaders, Zenon
<1>2. tb_int_inst_0407(mask).headers = lower /\ tb_int_inst_0407(mask).words = Words(lower)
    BY DEF tb_int_inst_0407
<1>3. CASE MisCounted(mask)
  <2>1. tb_int_inst_0003(mask) = [headers |-> {5, 2}, words |-> 3]
      BY <1>3 DEF tb_int_inst_0003, MisCounted
  <2>0. lower \in SUBSET Headers /\ {5, 2} \in SUBSET Headers
      BY <1>1 DEF Headers
  <2> HIDE DEF upper, lower
  <2>2. Words(lower) \in Nat
      BY <2>0, WordsType
  <2> QED
      BY <2>0, <1>2, <1>3, <2>1, <2>2 DEF HeadersSet, WordsCounted
<1>4. CASE ~MisCounted(mask)
  <2>1. /\ tb_int_inst_0003(mask).headers = upper
        /\ tb_int_inst_0003(mask).words = Cardinality(upper)
      BY <1>4 DEF tb_int_inst_0003, MisCounted
  <2>2. (mask \div 16) % 16 = mask \div 16
      BY DEF Byte
  <2>3. HeadersAsked(mask) = upper \cup lower
      BY <2>2, Zenon DEF HeadersAsked
  <2> HIDE DEF upper, lower
  <2>4. upper \in SUBSET Headers /\ lower \in SUBSET Headers /\ upper \cap lower = {}
        /\ upper \cap {4, 5} = {}
      BY <1>1 DEF Headers
  <2>5. /\ Words(upper) \in Nat /\ Words(lower) \in Nat
        /\ Words(upper \cup lower) = Words(upper) + Words(lower)
      BY <2>4, WordsType, WordsOfBoth
  <2>7. IsFiniteSet(upper)
      BY <2>4, FiniteHeaders, FS_Subset
  <2>8. Cardinality(upper) \in Nat
      BY <2>7, FS_CardinalityType
  <2>9. Words(upper) = Cardinality(upper)
    <3>1. Cardinality({}) = 0
      BY FS_EmptySet
    <3>2. Words(upper) = Cardinality(upper) + Cardinality({})
      BY <2>4, Zenon DEF Words
    <3> QED
      BY <2>8, <3>1, <3>2
  <2> QED
      BY <1>2, <2>1, <2>3, <2>4, <2>5, <2>9 DEF HeadersSet, WordsCounted
<1> QED
    BY <1>3, <1>4

-----------------------------------------------------------------------------
(* What the steps of a node do to a packet. *)

LEMMA HopInfoRange ==
    ASSUME NEW n \in Nat, n <= 255, NEW l \in Nat, l <= 255
    PROVE  /\ 256 * l + n \in 0 .. Values16 - 1
           /\ (256 * l + n) - (10 * (n \div 16) + (n % 16)) \in Nat
<1>1. 256 * l + n \in Nat /\ 256 * l + n < 65536
    OBVIOUS
<1>2. 256 * l + n \in 0 .. Values16 - 1
    BY <1>1, Widths
<1>3. (256 * l + n) - (10 * (n \div 16) + (n % 16)) \in Nat
    OBVIOUS
<1> QED
    BY <1>2, <1>3

\* The values of a rule fit their fields, and so does the hop count where the
\* nodes stop.
LEMMA RuleValues ==
    ASSUME generated \in Parameters
    PROVE  /\ \A flow : RuleOf(flow).hop_info \in Field /\ RuleOf(flow).ins_mask \in Byte
           /\ HOP_INFO - MAX_HOP_16 \in Nat
<1>1. /\ generated.n \in Nat /\ generated.n <= 255 /\ HOP_META_LEN \in Nat /\ HOP_META_LEN <= 255
      /\ generated.a \in Nat /\ generated.a <= 15 /\ generated.k \in Nat /\ generated.k <= 15
    BY ParametersAssumption DEF HOP_META_LEN
<1>2. HOP_INFO \in Field /\ HOP_INFO - MAX_HOP_16 \in Nat
    BY <1>1, HopInfoRange, ZenonT(60) DEF HOP_INFO, MAX_HOP_16, Field
<1>3. INSTRUCTION_MASK_COMPLET \in Byte
    BY <1>1 DEF INSTRUCTION_MASK_COMPLET, Byte
<1>4. default_conf.hop_info = HOP_INFO /\ default_conf.ins_mask = INSTRUCTION_MASK_COMPLET
    BY DEF default_conf
<1>5. \A f \in DOMAIN SourceTable :
        SourceTable[f].hop_info \in Field /\ SourceTable[f].ins_mask \in Byte
    BY TablesAssumption DEF Field, Byte
<1> QED
    BY <1>2, <1>3, <1>4, <1>5 DEF RuleOf

LEMMA PairFields == \A a, b : [p |-> a, ck |-> b].p = a /\ [p |-> a, ck |-> b].ck = b
OBVIOUS

LEMMA HeaderLength == INT_ALL_HEADER_LEN_BYTES = 20 /\ INT_ALL_HEADER_LEN_BYTES \div 4 = 5
BY DEF INT_ALL_HEADER_LEN_BYTES

LEMMA Configured ==
    ASSUME NEW s, NEW rule, s.p \in Packet, s.ck \in Helper,
           rule.hop_info \in Field, rule.ins_mask \in Byte
    PROVE  LET p == s.p
               t == configure_source(s, rule)
               q == t.p
           IN  /\ t.ck \in Helper /\ q \in Packet /\ q.int /\ q.host = p.host
               /\ q.number = p.number /\ q.passed = p.passed /\ q.stack = p.stack
               /\ q.hop_info = rule.hop_info /\ q.mask = rule.ins_mask /\ q.c_e = 0
               /\ q.shimLen = 5 /\ q.totalLen = (p.totalLen + 20) % Values16
               /\ q.host.proto = "udp" => q.udpLen = (p.udpLen + 20) % Values16
<1> DEFINE p == s.p
           sl == INT_ALL_HEADER_LEN_BYTES \div 4
           hi == rule.hop_info
           mask == rule.ins_mask
           tl == (p.totalLen + INT_ALL_HEADER_LEN_BYTES) % Values16
           ul == IF p.host.proto = "udp" THEN (p.udpLen + INT_ALL_HEADER_LEN_BYTES) % Values16
                 ELSE p.udpLen
           q == [p EXCEPT !.int = TRUE, !.shimLen = sl, !.c_e = 0, !.hop_info = hi,
                          !.mask = mask, !.shimDscp = p.dscp, !.dscp = IPv4_DSCP_INT,
                          !.totalLen = tl, !.udpLen = ul]
           ck == [old_dscp |-> 0, old_totalLen |-> p.totalLen, ipv4_dscp |-> IPv4_DSCP_INT]
<1>1. configure_source(s, rule).p = q /\ configure_source(s, rule).ck = ck
    BY PairFields, Zenon DEF configure_source
<1>2. p.totalLen \in Field /\ p.udpLen \in Field /\ p.dscp \in Byte
    BY DEF Packet, PacketWith
<1>3. ck \in Helper
    BY <1>2, Numbers DEF Helper, IPv4_DSCP_INT
<1>4. p.totalLen + INT_ALL_HEADER_LEN_BYTES \in Int /\ p.udpLen + INT_ALL_HEADER_LEN_BYTES \in Int
    BY <1>2, Numbers, HeaderLength
<1>5. /\ tl \in Field /\ ul \in Field
      /\ tl = (p.totalLen + 20) % Values16
      /\ p.host.proto = "udp" => ul = (p.udpLen + 20) % Values16
    BY <1>2, <1>4, Remainders, HeaderLength
<1>6. sl = 5 /\ sl \in Byte /\ 0 \in Mark /\ IPv4_DSCP_INT \in Byte
    BY HeaderLength DEF Byte, Mark, IPv4_DSCP_INT
<1>7. p \in Packet /\ hi \in Field /\ mask \in Byte
    OBVIOUS
<1> HIDE DEF sl, hi, mask, tl, ul, p, ck
<1>8. /\ q \in Packet /\ q.int /\ q.host = p.host
      /\ q.number = p.number /\ q.passed = p.passed /\ q.stack = p.stack
      /\ q.hop_info = hi /\ q.mask = mask /\ q.c_e = 0
      /\ q.shimLen = sl /\ q.totalLen = tl /\ q.udpLen = ul
    BY <1>2, <1>5, <1>6, <1>7 DEF Packet, PacketWith
<1> HIDE DEF q
<1>9. q.host.proto = "udp" => q.udpLen = (p.udpLen + 20) % Values16
    BY <1>5, <1>8
<1> USE DEF hi, mask, p
<1> QED
    BY <1>1, <1>3, <1>5, <1>6, <1>8, <1>9, Zenon

LEMMA Inserted ==
    ASSUME NEW p \in Packet
    PROVE  LET q == InsertMetadata(p)
               w == WordsCounted(p.mask)
           IN  /\ q \in Packet /\ q.int = p.int /\ q.host = p.host
               /\ q.number = p.number /\ q.passed = p.passed
               /\ q.dscp = p.dscp /\ q.ipSum = p.ipSum /\ q.mask = p.mask
               /\ q.hop_info = (p.hop_info - 1) % Values16 /\ q.c_e = p.c_e
               /\ q.shimLen = (p.shimLen + w) % 256
               /\ q.totalLen = (p.totalLen + 4 * w) % Values16
               /\ q.host.proto = "udp" => q.udpLen = (p.udpLen + 4 * w) % Values16
               /\ Len(q.stack) = Len(p.stack) + 1 /\ q.stack[1].node = p.passed
               /\ \A i \in 2 .. Len(p.stack) + 1 : q.stack[i] = p.stack[i - 1]
               /\ WordsOf(q.stack) = WordsOf(p.stack) + Words(HeadersSet(p.mask))
<1> DEFINE w == WordsCounted(p.mask)
           new == [node |-> p.passed, headers |-> HeadersSet(p.mask)]
           st == <<new>> \o p.stack
           tl == (p.totalLen + 4 * w) % Values16
           ul == IF p.host.proto = "udp" THEN (p.udpLen + 4 * w) % Values16 ELSE p.udpLen
           sl == (p.shimLen + w) % 256
           hi == (p.hop_info - 1) % Values16
           q == [p EXCEPT !.hop_info = hi, !.totalLen = tl, !.udpLen = ul,
                          !.shimLen = sl, !.stack = st]
<1>1. InsertMetadata(p) = q
    BY Zenon DEF InsertMetadata, WordsCounted, HeadersSet
<1>2. /\ p.totalLen \in Field /\ p.udpLen \in Field /\ p.shimLen \in Byte /\ p.hop_info \in Field
      /\ p.mask \in Byte /\ p.stack \in Seq(Record) /\ p.passed \in Nat
    BY DEF Packet, PacketWith
<1>3. w \in Nat /\ new \in Record
    BY <1>2, TableCounts DEF Record
<1>4. new.node = p.passed /\ new.headers = HeadersSet(p.mask)
    OBVIOUS
<1> HIDE DEF w, new
<1>5. /\ p.totalLen + 4 * w \in Int /\ p.udpLen + 4 * w \in Int
      /\ p.shimLen + w \in Int /\ p.hop_info - 1 \in Int
    BY <1>2, <1>3, Numbers
<1>6. hi \in Field /\ tl \in Field /\ ul \in Field /\ sl \in Byte
  <2>1. hi \in Field /\ tl \in Field /\ (p.udpLen + 4 * w) % Values16 \in Field
      BY <1>5, Remainders
  <2>2. sl \in Byte
      BY <1>5, Remainders
  <2> QED
      BY <1>2, <2>1, <2>2
<1>7. /\ st \in Seq(Record) /\ Len(st) = Len(p.stack) + 1 /\ st[1] = new
      /\ \A i \in 2 .. Len(p.stack) + 1 : st[i] = p.stack[i - 1]
      /\ WordsOf(st) = WordsOf(p.stack) + Words(new.headers)
    BY <1>2, <1>3, Pushed
<1>8. p.host.proto = "udp" => ul = (p.udpLen + 4 * w) % Values16
    OBVIOUS
<1>9. hi = (p.hop_info - 1) % Values16 /\ tl = (p.totalLen + 4 * w) % Values16
      /\ sl = (p.shimLen + w) % 256
    OBVIOUS
<1> HIDE DEF tl, ul, sl, hi, st
<1>10. /\ q \in Packet /\ q.int = p.int /\ q.host = p.host
       /\ q.number = p.number /\ q.passed = p.passed
       /\ q.dscp = p.dscp /\ q.ipSum = p.ipSum /\ q.mask = p.mask
       /\ q.hop_info = hi /\ q.c_e = p.c_e /\ q.shimLen = sl /\ q.totalLen = tl
       /\ q.udpLen = ul /\ q.stack = st
    BY <1>6, <1>7 DEF Packet, PacketWith
<1> HIDE DEF q
<1>11. q.host.proto = "udp" => q.udpLen = (p.udpLen + 4 * w) % Values16
    BY <1>8, <1>10
<1>12. /\ Len(q.stack) = Len(p.stack) + 1 /\ q.stack[1].node = p.passed
       /\ \A i \in 2 .. Len(p.stack) + 1 : q.stack[i] = p.stack[i - 1]
       /\ WordsOf(q.stack) = WordsOf(p.stack) + Words(HeadersSet(p.mask))
    BY <1>4, <1>7, <1>10, Zenon
<1> USE DEF w
<1> QED
    BY <1>1, <1>9, <1>10, <1>11, <1>12, Zenon

LEMMA Exceeded ==
    ASSUME NEW p \in Packet
    PROVE  LET q == int_hop_exceeded(p)
           IN  /\ q \in Packet /\ q.int = p.int /\ q.host = p.host
               /\ q.number = p.number /\ q.passed = p.passed
               /\ q.dscp = p.dscp /\ q.ipSum = p.ipSum /\ q.mask = p.mask
               /\ q.hop_info = p.hop_info /\ q.shimLen = p.shimLen
               /\ q.totalLen = p.totalLen /\ q.udpLen = p.udpLen /\ q.stack = p.stack
               /\ q.c_e = 1
<1> DEFINE c == p.c_e + 1
           q == [p EXCEPT !.c_e = c]
<1>1. int_hop_exceeded(p) = IF p.c_e = 0 \/ p.c_e = 256 THEN q ELSE p
    BY DEF int_hop_exceeded
<1>2. p.c_e \in Mark
    BY DEF Packet, PacketWith
<1>3. CASE p.c_e = 0
  <2>1. c = 1 /\ 1 \in Mark
      BY <1>3 DEF Mark
  <2> HIDE DEF c
  <2>2. /\ q \in Packet /\ q.int = p.int /\ q.host = p.host
        /\ q.number = p.number /\ q.passed = p.passed
        /\ q.dscp = p.dscp /\ q.ipSum = p.ipSum /\ q.mask = p.mask
        /\ q.hop_info = p.hop_info /\ q.shimLen = p.shimLen
        /\ q.totalLen = p.totalLen /\ q.udpLen = p.udpLen /\ q.stack = p.stack
        /\ q.c_e = 1
      BY <2>1 DEF Packet, PacketWith
  <2> HIDE DEF q
  <2> QED
      BY <1>1, <1>3, <2>2
<1>4. CASE p.c_e # 0
  <2>1. p.c_e = 1
      BY <1>2, <1>4 DEF Mark
  <2>2. int_hop_exceeded(p) = p
      BY <1>1, <2>1
  <2> QED
      BY <2>1, <2>2
<1> QED
    BY <1>3, <1>4

LEMMA Passed ==
    ASSUME NEW p \in Packet
    PROVE  LET q == [p EXCEPT !.passed = @ + 1]
           IN  /\ q \in Packet /\ q.int = p.int /\ q.host = p.host
               /\ q.number = p.number /\ q.passed = p.passed + 1 /\ q.passed \in Nat
               /\ q.dscp = p.dscp /\ q.ipSum = p.ipSum /\ q.mask = p.mask
               /\ q.hop_info = p.hop_info /\ q.shimLen = p.shimLen
               /\ q.totalLen = p.totalLen /\ q.udpLen = p.udpLen /\ q.stack = p.stack
               /\ q.c_e = p.c_e
<1> DEFINE n == p.passed + 1
           q == [p EXCEPT !.passed = n]
<1>1. n \in Nat
    BY DEF Packet, PacketWith
<1> HIDE DEF n
<1>2. /\ q \in Packet /\ q.int = p.int /\ q.host = p.host
      /\ q.number = p.number /\ q.passed = n
      /\ q.dscp = p.dscp /\ q.ipSum = p.ipSum /\ q.mask = p.mask
      /\ q.hop_info = p.hop_info /\ q.shimLen = p.shimLen
      /\ q.totalLen = p.totalLen /\ q.udpLen = p.udpLen /\ q.stack = p.stack
      /\ q.c_e = p.c_e
    BY <1>1 DEF Packet, PacketWith
<1> QED
    BY <1>1, <1>2, Zenon DEF n

\* What the deparser sends on; of the checksum only what it becomes where the
\* node is not the source.
LEMMA DeparsedPacket ==
    ASSUME NEW Stacks, NEW s, s.p \in PacketWith(Stacks), s.ck \in Helper, NEW source
    PROVE  LET p == s.p
               q == Deparsed(s, source)
           IN  /\ q \in PacketWith(Stacks) /\ q.int = p.int /\ q.host = p.host
               /\ q.number = p.number /\ q.passed = p.passed
               /\ q.dscp = p.dscp /\ q.mask = p.mask
               /\ q.hop_info = p.hop_info /\ q.shimLen = p.shimLen
               /\ q.totalLen = p.totalLen /\ q.udpLen = p.udpLen /\ q.stack = p.stack
               /\ q.c_e = p.c_e
               /\ ~source => q.ipSum = (p.ipSum - s.ck.old_totalLen + p.totalLen) % (Values16 - 1)
<1> DEFINE p == s.p
           d == IF source THEN s.ck.ipv4_dscp - s.ck.old_dscp ELSE 0
           raw == p.ipSum - s.ck.old_totalLen + p.totalLen + d
           sum == raw % (Values16 - 1)
           q == [p EXCEPT !.ipSum = sum]
<1>1. Deparsed(s, source) = q
    BY Zenon DEF Deparsed
<1>2. /\ p.ipSum \in SumField /\ p.totalLen \in Field
      /\ s.ck.old_totalLen \in Int /\ s.ck.ipv4_dscp \in Int /\ s.ck.old_dscp \in Int
    BY DEF PacketWith, Helper
<1>3. d \in Int /\ (~source => d = 0)
    BY <1>2
<1> HIDE DEF d
<1>4. raw \in Int
    BY <1>2, <1>3, Numbers
<1>5. ~source => raw = p.ipSum - s.ck.old_totalLen + p.totalLen
    BY <1>2, <1>3, Numbers
<1>6. ~source => sum = (p.ipSum - s.ck.old_totalLen + p.totalLen) % (Values16 - 1)
    BY <1>5, Zenon
<1> HIDE DEF raw
<1>7. sum \in SumField
    BY <1>4, Remainders
<1> HIDE DEF sum
<1>8. p \in PacketWith(Stacks)
    OBVIOUS
<1> HIDE DEF p
<1>9. /\ q \in PacketWith(Stacks) /\ q.int = p.int /\ q.host = p.host
      /\ q.number = p.number /\ q.passed = p.passed
      /\ q.dscp = p.dscp /\ q.mask = p.mask
      /\ q.hop_info = p.hop_info /\ q.shimLen = p.shimLen
      /\ q.totalLen = p.totalLen /\ q.udpLen = p.udpLen /\ q.stack = p.stack
      /\ q.c_e = p.c_e /\ q.ipSum = sum
    BY <1>7, <1>8 DEF PacketWith
<1> HIDE DEF q
<1> QED
    BY <1>1, <1>6, <1>9, Zenon DEF p

\* What the sink strips is a packet again, but for its stack.
LEMMA StrippedPacket ==
    ASSUME NEW s, s.p \in Packet, s.ck \in Helper
    PROVE  \E Stacks : /\ Deparsed(remove_int(s), FALSE) \in PacketWith(Stacks)
                       /\ Deparsed(remove_int(s), FALSE).host = s.p.host
                       /\ Deparsed(remove_int(s), FALSE).passed = s.p.passed
<1> DEFINE p == s.p
           dscp == p.shimDscp
           tl == (p.totalLen - INT_ALL_HEADER_LEN_BYTES) % Values16
           ul == IF p.host.proto = "udp" THEN (tl - INT_ALL_HEADER_LEN_BYTES) % Values16
                 ELSE p.udpLen
           st == SelectSeq(p.stack, LAMBDA r : r.node # p.passed)
           Stacks == Seq(Record) \cup {st}
           q == [p EXCEPT !.dscp = dscp, !.totalLen = tl, !.udpLen = ul, !.int = FALSE,
                          !.stack = st]
           ck == [s.ck EXCEPT !.old_totalLen = p.totalLen, !.old_dscp = IPv4_DSCP_INT,
                              !.ipv4_dscp = 0]
           t == remove_int(s)
<1>1. t.p = q /\ t.ck = ck
    BY PairFields, Zenon DEF remove_int
<1>2. /\ p.totalLen \in Field /\ p.udpLen \in Field /\ p.shimDscp \in Byte
      /\ p.stack \in Seq(Record)
    BY DEF Packet, PacketWith
<1>3. tl \in Field
  <2>1. p.totalLen \in Int
      BY <1>2, Numbers
  <2>2. p.totalLen - INT_ALL_HEADER_LEN_BYTES \in Int
      BY <2>1, HeaderLength
  <2> QED
      BY <2>2, Remainders
<1> HIDE DEF tl
<1>4. (tl - INT_ALL_HEADER_LEN_BYTES) % Values16 \in Field
  <2>1. tl \in Int
      BY <1>3, Numbers
  <2>2. tl - INT_ALL_HEADER_LEN_BYTES \in Int
      BY <2>1, HeaderLength
  <2> QED
      BY <2>2, Remainders
<1>5. ul \in Field /\ dscp \in Byte
    BY <1>2, <1>4
<1>6. st \in Stacks /\ \A x \in Seq(Record) : x \in Stacks
    OBVIOUS
<1>7. ck \in Helper
  <2> DEFINE l == p.totalLen
             old == IPv4_DSCP_INT
             new == 0
  <2>1. l \in Int /\ old \in Int /\ new \in Int /\ s.ck \in Helper
    <3>1. l \in Int
      BY <1>2, Numbers
    <3>2. old \in Int /\ new \in Int
      BY DEF IPv4_DSCP_INT
    <3> QED
      BY <3>1, <3>2
  <2> HIDE DEF l, old, new
  <2>2. [s.ck EXCEPT !.old_totalLen = l, !.old_dscp = old, !.ipv4_dscp = new] \in Helper
      BY <2>1 DEF Helper
  <2> QED
      BY <2>2, Zenon DEF l, old, new
<1>8. p \in Packet
    OBVIOUS
<1> HIDE DEF p, dscp, ul, st, Stacks, ck, t
<1>9. q \in PacketWith(Stacks) /\ q.host = p.host /\ q.passed = p.passed
    BY <1>3, <1>5, <1>6, <1>8 DEF Packet, PacketWith
<1> HIDE DEF q
<1>10. t.p \in PacketWith(Stacks) /\ t.ck \in Helper
    BY <1>1, <1>7, <1>9
<1>11. /\ Deparsed(t, FALSE) \in PacketWith(Stacks)
       /\ Deparsed(t, FALSE).host = t.p.host /\ Deparsed(t, FALSE).passed = t.p.passed
    BY <1>10, DeparsedPacket, ZenonT(60)
<1> QED
    BY <1>1, <1>9, <1>11, Zenon DEF p, t

-----------------------------------------------------------------------------
(* One node more. *)

\* A field that is added to twice, cut to its width each time.
LEMMA Further ==
    ASSUME NEW m \in Nat, m > 0, NEW x \in Int, NEW d \in Int, NEW old, old = x % m
    PROVE  (old + d) % m = (x + d) % m
<1>1. ((x % m) + d) % m = (x + d) % m
    BY ModOfSum
<1> QED
    BY <1>1

\* The lengths are those of the headers, as far as their bits go, and every
\* record takes the words the mask stands for.
Sized(p) ==
    ~MisCounted(p.mask) =>
        /\ WordsOf(p.stack) = Len(p.stack) * WordsCounted(p.mask)
        /\ p.totalLen = (p.host.len + 20 + 4 * WordsOf(p.stack)) % Values16
        /\ p.host.proto = "udp" => p.udpLen = (p.host.len + 4 * WordsOf(p.stack)) % Values16
        /\ p.shimLen = (5 + WordsOf(p.stack)) % 256

LEMMA HostValues ==
    ASSUME NEW h \in HostPackets
    PROVE  /\ h.len \in Nat /\ h.len >= 28 /\ h.len \in Field
           /\ h.dscp \in Byte /\ h.route \in Nat /\ h.route >= 2
BY PacketsAssumption, Widths DEF Field, Byte

LEMMA StackWords ==
    ASSUME NEW p \in Packet
    PROVE  WordsOf(p.stack) \in Nat /\ Len(p.stack) \in Nat /\ WordsCounted(p.mask) \in Nat
<1>1. p.stack \in Seq(Record) /\ p.mask \in Byte
    BY DEF Packet, PacketWith
<1>2. [node |-> 0, headers |-> {}] \in Record
    BY DEF Record
<1>3. WordsOf(p.stack) \in Nat
    BY <1>1, <1>2, Pushed
<1> QED
    BY <1>1, <1>3, TableCounts

LEMMA InsertedSized ==
    ASSUME NEW p \in Packet, Sized(p)
    PROVE  Sized(InsertMetadata(p))
<1> DEFINE q == InsertMetadata(p)
           a == WordsCounted(p.mask)
           w == WordsOf(p.stack)
           v == WordsOf(q.stack)
           n == Len(p.stack)
           m == Values16
           b == 256
           len == p.host.len
<1>1. /\ q.host = p.host /\ q.mask = p.mask
      /\ q.shimLen = (p.shimLen + a) % 256
      /\ q.totalLen = (p.totalLen + 4 * a) % Values16
      /\ q.host.proto = "udp" => q.udpLen = (p.udpLen + 4 * a) % Values16
      /\ Len(q.stack) = n + 1 /\ v = w + Words(HeadersSet(p.mask))
    BY Inserted, Zenon
<1> SUFFICES ASSUME ~MisCounted(p.mask) PROVE Sized(q)
    BY <1>1 DEF Sized
<1>2. Words(HeadersSet(p.mask)) = a
  <2>1. p.mask \in Byte
      BY DEF Packet, PacketWith
  <2> QED
      BY <2>1, TableCounts
<1>3. w \in Nat /\ n \in Nat /\ a \in Nat /\ len \in Nat
  <2>1. p.host \in HostPackets
      BY DEF Packet, PacketWith
  <2> QED
      BY <2>1, StackWords, HostValues
<1>4. /\ w = n * a
      /\ p.totalLen = (len + 20 + 4 * w) % m
      /\ p.host.proto = "udp" => p.udpLen = (len + 4 * w) % m
      /\ p.shimLen = (5 + w) % b
    BY Zenon DEF Sized
<1>5. m \in Nat /\ m > 0 /\ b \in Nat /\ b > 0
    BY Widths
<1> HIDE DEF q, a, w, n, m, b, len
<1>6. v = w + a
    BY <1>1, <1>2
<1> HIDE DEF v
<1>7. len + 20 + 4 * w \in Int /\ len + 4 * w \in Int /\ 5 + w \in Int /\ 4 * a \in Int /\ a \in Int
    BY <1>3
<1>8. /\ v = (n + 1) * a
      /\ len + 20 + 4 * v = (len + 20 + 4 * w) + 4 * a
      /\ len + 4 * v = (len + 4 * w) + 4 * a
      /\ 5 + v = (5 + w) + a
    BY <1>3, <1>4, <1>6
<1>9. (p.totalLen + 4 * a) % m = ((len + 20 + 4 * w) + 4 * a) % m
    BY <1>4, <1>5, <1>7, Further
<1>10. p.host.proto = "udp" => (p.udpLen + 4 * a) % m = ((len + 4 * w) + 4 * a) % m
    BY <1>4, <1>5, <1>7, Further
<1>11. (p.shimLen + a) % b = ((5 + w) + a) % b
    BY <1>4, <1>5, <1>7, Further
<1>12. /\ v = Len(q.stack) * a
       /\ q.totalLen = (len + 20 + 4 * v) % m
       /\ q.host.proto = "udp" => q.udpLen = (len + 4 * v) % m
       /\ q.shimLen = (5 + v) % b
    BY <1>1, <1>8, <1>9, <1>10, <1>11 DEF m, b
<1> QED
    BY <1>1, <1>12 DEF Sized, v, a, len, m, b

\* The hop count goes down by one with every record.
CountsDown(p) ==
    p.hop_info = (RuleOf(p.host.flow).hop_info - Len(p.stack)) % Values16

\* How many records the nodes let in: they stop at one value of hop_info.
Allowed(p) == RuleOf(p.host.flow).hop_info - (HOP_INFO - MAX_HOP_16)

\* Where that is the number the rule says.
Limited(p) == generated.n < 10 /\ MetaLen(p) = HOP_META_LEN

LEMMA LimitIsFound ==
    ASSUME NEW p, Limited(p), generated \in Parameters
    PROVE  Allowed(p) = MaxHop(p) /\ MaxHop(p) \in Nat
<1> DEFINE n == generated.n
           rule == RuleOf(p.host.flow).hop_info
<1>1. n \in Nat /\ n < 10
    BY ParametersAssumption DEF Limited
<1>2. rule \in Nat
    BY RuleValues, Numbers
<1>3. rule \div 256 = 6
    BY DEF Limited, MetaLen, HOP_META_LEN
<1>4. HOP_INFO - MAX_HOP_16 = (256 * 6 + n) - (10 * (n \div 16) + (n % 16))
    BY DEF HOP_INFO, MAX_HOP_16, HOP_META_LEN
<1>5. Allowed(p) = rule - (HOP_INFO - MAX_HOP_16) /\ MaxHop(p) = rule % 256
    BY DEF Allowed, MaxHop
<1> HIDE DEF n, rule
<1>6. n \div 16 = 0 /\ n % 16 = n
    BY <1>1
<1>7. rule % 256 \in Nat /\ rule = 256 * 6 + (rule % 256)
    BY <1>2, <1>3
<1> QED
    BY <1>1, <1>2, <1>4, <1>5, <1>6, <1>7

\* The records of p are those of the first nodes, when it has passed m.
CountedTo(p, m) ==
    LET hops == IF m <= Allowed(p) THEN m ELSE Allowed(p)
    IN  /\ Len(p.stack) = hops
        /\ \A i \in 1 .. hops : p.stack[i].node = hops + 1 - i
        /\ p.hop_info = RuleOf(p.host.flow).hop_info - hops
        /\ p.c_e = IF m > hops THEN 1 ELSE 0

\* A source the packet has passed gave it INT headers of the rule for its flow.
Begun(p) ==
    /\ p.passed >= 1 /\ p.host.proto # "other"
    /\ p.mask = RuleOf(p.host.flow).ins_mask
    /\ Sized(p) /\ CountsDown(p)

Carrying(p) == Begun(p) /\ (Limited(p) => CountedTo(p, p.passed))

\* A packet without INT headers is what the host sent, at its source at least.
Plain(p) ==
    p.passed = 0 =>
        /\ p.stack = <<>> /\ p.totalLen = p.host.len
        /\ p.host.proto = "udp" => p.udpLen = p.host.len - 20

InFlight(p) == p \in Packet /\ (IF p.int THEN Carrying(p) ELSE Plain(p))

\* What a node works on is still the packet p, with its checksum, and the length
\* the checksum is updated from is that p came with.
Kept(t, p) ==
    /\ t.p.int /\ t.p.host = p.host /\ t.p.number = p.number
    /\ t.p.passed = p.passed /\ t.p.dscp = p.dscp /\ t.p.ipSum = p.ipSum
    /\ t.ck \in Helper /\ t.ck.old_totalLen = p.totalLen

\* It puts its record in front, or marks the packet.
LEMMA TransitCounts ==
    ASSUME NEW s, s.p \in Packet, s.ck \in Helper, s.p.int,
           Begun(s.p), Limited(s.p) => CountedTo(s.p, s.p.passed - 1),
           generated \in Parameters
    PROVE  InFlight(Transit(s).p) /\ Kept(Transit(s), s.p)
<1> DEFINE p == s.p
           q == Transit(s).p
           m == p.passed
           rule == RuleOf(p.host.flow).hop_info
           stop == HOP_INFO - MAX_HOP_16
           allowed == Allowed(p)
           k == IF m - 1 <= allowed THEN m - 1 ELSE allowed
           old == p.totalLen
<1>c. /\ Transit(s).ck \in Helper /\ Transit(s).ck.old_totalLen = p.totalLen
      /\ p.passed \in Nat
  <2>1. Transit(s).ck = [s.ck EXCEPT !.old_totalLen = old]
      BY PairFields, Zenon DEF Transit
  <2>2. p.totalLen \in Int /\ p.passed \in Nat
    <3>1. p.totalLen \in Field /\ p.passed \in Nat
      BY DEF Packet, PacketWith
    <3> QED
      BY <3>1, Numbers
  <2> HIDE DEF old
  <2>3. old \in Int
      BY <2>2 DEF old
  <2>4. [s.ck EXCEPT !.old_totalLen = old] \in Helper
        /\ [s.ck EXCEPT !.old_totalLen = old].old_totalLen = old
      BY <2>3 DEF Helper
  <2> QED
      BY <2>1, <2>2, <2>4 DEF old
<1> SUFFICES /\ InFlight(q) /\ q.int /\ q.host = p.host /\ q.number = p.number
             /\ q.passed = p.passed /\ q.dscp = p.dscp /\ q.ipSum = p.ipSum
    BY <1>c, Zenon DEF Kept
<1>0. /\ q = IF HopsLeft(p) THEN InsertMetadata(p) ELSE int_hop_exceeded(p)
      /\ HopsLeft(p) <=> p.hop_info # stop
  <2>1. q = IF ~p.int THEN p ELSE IF HopsLeft(p) THEN InsertMetadata(p) ELSE int_hop_exceeded(p)
      BY PairFields, Zenon DEF Transit
  <2> QED
      BY <2>1, Zenon DEF HopsLeft
<1>n. /\ rule \in 0 .. Values16 - 1 /\ stop \in Nat /\ allowed = rule - stop
      /\ m \in Nat /\ m >= 1 /\ Values16 \in Nat /\ Values16 >= 65536
  <2>1. m \in Nat /\ m >= 1
      BY <1>c DEF Begun
  <2>2. allowed = rule - stop
      BY DEF Allowed
  <2>3. rule \in 0 .. Values16 - 1
      BY RuleValues DEF Field
  <2> QED
      BY <2>1, <2>2, <2>3, RuleValues, Widths
<1>i. p \in Packet /\ p.int /\ Begun(p)
    OBVIOUS
<1>l. ASSUME Limited(p)
      PROVE  /\ allowed \in Nat /\ Len(p.stack) = k /\ p.hop_info = rule - k
             /\ \A i \in 1 .. k : p.stack[i].node = k + 1 - i
             /\ p.c_e = IF m - 1 > k THEN 1 ELSE 0
    BY <1>l, <1>n, LimitIsFound DEF CountedTo
<1>h. ASSUME q.host = p.host
      PROVE  Limited(q) = Limited(p) /\ Allowed(q) = allowed
             /\ RuleOf(q.host.flow).hop_info = rule
    BY <1>h DEF Limited, Allowed, MetaLen
<1>1. CASE p.hop_info # stop
  <2>1. /\ q \in Packet /\ q.int /\ q.host = p.host /\ q.passed = m
        /\ q.number = p.number /\ q.mask = p.mask /\ q.dscp = p.dscp /\ q.ipSum = p.ipSum
        /\ Sized(q)
        /\ q.hop_info = (p.hop_info - 1) % Values16 /\ q.c_e = p.c_e
        /\ Len(q.stack) = Len(p.stack) + 1 /\ q.stack[1].node = m
        /\ \A i \in 2 .. Len(p.stack) + 1 : q.stack[i] = p.stack[i - 1]
    <3>1. q = InsertMetadata(p)
      BY <1>0, <1>1
    <3>2. Sized(q)
      BY <1>i, <3>1, InsertedSized DEF Begun
    <3> HIDE DEF q, p
    <3> QED
      BY <1>i, <3>1, <3>2, Inserted DEF m
  <2> HIDE DEF q, p, m, rule, stop, allowed
  <2>2. ASSUME Limited(q)
        PROVE  CountedTo(q, m)
    <3>1. Limited(p) /\ Allowed(q) = allowed /\ RuleOf(q.host.flow).hop_info = rule
        BY <1>h, <2>1, <2>2
    <3>2. k = m - 1 /\ m <= allowed /\ allowed \in Nat
      <4>1. /\ allowed \in Nat /\ p.hop_info = rule - k /\ p.hop_info # stop
            /\ rule \in Int /\ stop \in Nat /\ allowed = rule - stop /\ m \in Nat
        BY <1>1, <1>l, <1>n, <3>1
      <4> QED
        BY <4>1
    <3>3. /\ Len(p.stack) = m - 1 /\ p.hop_info = rule - (m - 1) /\ p.c_e = 0
          /\ \A i \in 1 .. m - 1 : p.stack[i].node = m - i
      <4>1. \A i \in 1 .. m - 1 : p.stack[i].node = k + 1 - i
        BY <1>l, <3>1, <3>2
      <4>2. Len(p.stack) = k /\ p.hop_info = rule - k /\ p.c_e = IF m - 1 > k THEN 1 ELSE 0
        BY <1>l, <3>1
      <4> HIDE DEF k
      <4> QED
        BY <1>n, <3>2, <4>1, <4>2
    <3>4. (p.hop_info - 1) % Values16 = rule - m
      <4>1. p.hop_info - 1 = rule - m /\ rule - m \in 0 .. Values16 - 1
        BY <1>n, <3>2, <3>3
      <4> QED
        BY <1>n, <4>1, ModShort
    <3>5. ASSUME NEW i \in 1 .. m
          PROVE  q.stack[i].node = m + 1 - i
      <4>1. CASE i = 1
        BY <1>n, <2>1, <4>1
      <4>2. CASE i # 1
        <5>1. i \in 2 .. Len(p.stack) + 1 /\ i - 1 \in 1 .. m - 1
          BY <1>n, <3>3, <4>2
        <5>2. q.stack[i] = p.stack[i - 1] /\ p.stack[i - 1].node = m - (i - 1)
          BY <2>1, <3>3, <5>1
        <5> QED
          BY <1>n, <5>1, <5>2
      <4> QED
        BY <4>1, <4>2
    <3>6. Len(q.stack) = m /\ q.hop_info = rule - m /\ q.c_e = 0
        BY <1>n, <2>1, <3>3, <3>4
    <3> QED
        BY <1>n, <3>1, <3>2, <3>5, <3>6 DEF CountedTo
  <2>3. CountsDown(q)
    <3> DEFINE x == rule - Len(p.stack)
               had == p.hop_info
               d == -1
    <3>1. rule \in Int /\ Len(p.stack) \in Nat /\ had \in Int
        BY <1>i, <1>n, Numbers DEF Packet, PacketWith, p
    <3>2. x \in Int /\ d \in Int /\ rule - Len(q.stack) = x + d /\ had - 1 = had + d
        BY <2>1, <3>1
    <3>3. had = x % Values16
        BY <1>i DEF Begun, CountsDown, rule
    <3> HIDE DEF x, had, d
    <3>4. (had + d) % Values16 = (x + d) % Values16
      <4> DEFINE v == Values16
      <4>1. v \in Nat /\ v > 0 /\ had = x % v
        BY <3>3, Widths
      <4> HIDE DEF v
      <4>2. (had + d) % v = (x + d) % v
        BY <3>2, <4>1, Further
      <4> QED
        BY <4>2 DEF v
    <3>5. RuleOf(q.host.flow).hop_info = rule
        BY <1>h, <2>1
    <3> QED
        BY <2>1, <3>2, <3>4, <3>5 DEF CountsDown, had
  <2>4. Begun(q)
      BY <1>i, <2>1, <2>3 DEF Begun, m
  <2> QED
      BY <2>1, <2>2, <2>4 DEF InFlight, Carrying, m
<1>2. CASE p.hop_info = stop
  <2>1. /\ q \in Packet /\ q.int /\ q.host = p.host /\ q.passed = m
        /\ q.number = p.number /\ q.mask = p.mask /\ q.dscp = p.dscp /\ q.ipSum = p.ipSum
        /\ q.hop_info = p.hop_info /\ q.stack = p.stack /\ q.c_e = 1
        /\ q.shimLen = p.shimLen /\ q.totalLen = p.totalLen /\ q.udpLen = p.udpLen
    <3> HIDE DEF q, p
    <3> QED
      BY <1>0, <1>2, <1>i, Exceeded DEF m
  <2> HIDE DEF q, p, m, rule, stop, allowed
  <2>2. ASSUME Limited(q)
        PROVE  CountedTo(q, m)
    <3>1. Limited(p) /\ Allowed(q) = allowed /\ RuleOf(q.host.flow).hop_info = rule
        BY <1>h, <2>1, <2>2
    <3>2. k = allowed /\ allowed <= m - 1 /\ allowed \in Nat
        BY <1>2, <1>l, <1>n, <3>1
    <3>3. /\ Len(p.stack) = k /\ p.hop_info = rule - k
          /\ \A i \in 1 .. k : p.stack[i].node = k + 1 - i
          /\ p.c_e = IF m - 1 > k THEN 1 ELSE 0
        BY <1>l, <3>1
    <3> HIDE DEF k
    <3>4. q.c_e = 1 /\ m > allowed
        BY <1>n, <2>1, <3>2, <3>3
    <3> QED
        BY <1>n, <2>1, <3>1, <3>2, <3>3, <3>4 DEF CountedTo
  <2>3. Begun(q)
      BY <1>i, <2>1 DEF Begun, Sized, CountsDown, m
  <2> QED
      BY <2>1, <2>2, <2>3 DEF InFlight, Carrying, m
<1> QED
    BY <1>1, <1>2

LEMMA FreshInFlight ==
    ASSUME NEW host \in HostPackets, packets \in Nat
    PROVE  LET f == Fresh(host)
           IN  /\ InFlight(f) /\ f.host = host /\ f.passed = 0
               /\ f.number = packets + 1 /\ ~f.int
<1> DEFINE f == Fresh(host)
           number == packets + 1
           ul == IF host.proto = "udp" THEN host.len - 20 ELSE 0
           sum == (host.len + host.dscp) % (Values16 - 1)
           none == <<>>
           no == FALSE
           zero == 0
           ready == [host |-> host, number |-> number, passed |-> zero,
                     dscp |-> host.dscp, totalLen |-> host.len, udpLen |-> ul, ipSum |-> sum,
                     int |-> no, shimLen |-> zero, shimDscp |-> zero, hop_info |-> zero,
                     mask |-> zero, c_e |-> zero, stack |-> none]
<1>1. f = ready
    BY Zenon DEF Fresh
<1>2. number \in Nat /\ none \in Seq(Record) /\ no \in BOOLEAN /\ ~no /\ zero \in Nat
    OBVIOUS
<1>3. zero \in Byte /\ zero \in Mark /\ zero \in Field
    BY Widths DEF Byte, Mark, Field
<1>4. host.dscp \in Byte /\ host.len \in Field /\ host.len \in Nat /\ host.len >= 28
    BY HostValues
<1>5. ul \in Field
    BY <1>4, Widths DEF Field
<1>6. host.dscp \in Nat
    BY <1>4, Numbers
<1>7. host.len + host.dscp \in Int
    BY <1>4, <1>6
<1>8. sum \in SumField
    BY <1>7, Remainders
<1>9. host.proto = "udp" => ul = host.len - 20
    OBVIOUS
<1> HIDE DEF f, number, ul, sum, none, no, zero
<1>10. ready \in Packet
    BY <1>2, <1>3, <1>4, <1>5, <1>8 DEF Packet, PacketWith
<1>11. /\ ready.host = host /\ ready.passed = zero /\ ready.number = number
       /\ ready.int = no /\ ready.stack = none /\ ready.totalLen = host.len /\ ready.udpLen = ul
    OBVIOUS
<1> HIDE DEF ready
<1>12. Plain(f)
    BY <1>1, <1>9, <1>11 DEF Plain, none
<1>13. InFlight(f)
    BY <1>1, <1>2, <1>10, <1>11, <1>12 DEF InFlight
<1> QED
    BY <1>1, <1>2, <1>11, <1>13 DEF number, zero, f

\* What the source makes of a packet as the host sent it.
LEMMA SourceBegins ==
    ASSUME NEW s, s.p \in Packet, s.ck \in Helper, s.p.passed = 1, s.p.host.proto # "other",
           s.p.stack = <<>>, s.p.totalLen = s.p.host.len,
           s.p.host.proto = "udp" => s.p.udpLen = s.p.host.len - 20,
           generated \in Parameters
    PROVE  LET p == s.p
               t == configure_source(s, RuleOf(p.host.flow))
           IN  /\ t.p \in Packet /\ t.ck \in Helper /\ t.p.int /\ Begun(t.p)
               /\ t.p.host = p.host /\ t.p.number = p.number /\ t.p.passed = p.passed
               /\ Limited(t.p) => CountedTo(t.p, t.p.passed - 1)
<1> DEFINE p == s.p
           rule == RuleOf(p.host.flow)
           t == configure_source(s, rule)
           q == t.p
<1>1. rule.hop_info \in Field /\ rule.ins_mask \in Byte
    BY RuleValues
<1> HIDE DEF rule
<1>2. /\ t.ck \in Helper /\ q \in Packet /\ q.int /\ q.host = p.host
      /\ q.number = p.number /\ q.passed = p.passed /\ q.stack = p.stack
      /\ q.hop_info = rule.hop_info /\ q.mask = rule.ins_mask /\ q.c_e = 0
      /\ q.shimLen = 5 /\ q.totalLen = (p.totalLen + 20) % Values16
      /\ q.host.proto = "udp" => q.udpLen = (p.udpLen + 20) % Values16
    BY <1>1, Configured
<1> HIDE DEF t, q
<1>3. WordsOf(q.stack) = 0 /\ Len(q.stack) = 0
    BY <1>2, WordsOfNone
<1>4. p.host.len \in Nat
  <2>1. p.host \in HostPackets
      BY DEF Packet, PacketWith
  <2> QED
      BY <2>1, HostValues
<1>5. WordsCounted(q.mask) \in Nat
    BY <1>2, StackWords
<1>6. Sized(q)
  <2> DEFINE len == p.host.len
             a == WordsCounted(q.mask)
             w == WordsOf(q.stack)
             b == 256
             five == 5
  <2>1. len \in Nat /\ a \in Nat /\ w = 0 /\ p.totalLen = len
        /\ (p.host.proto = "udp" => p.udpLen = len - 20)
        /\ five \in 0 .. b - 1 /\ b \in Nat /\ b > 0
      BY <1>3, <1>4, <1>5
  <2>2. five % b = five
      BY <2>1, ModShort
  <2>3. q.shimLen = five /\ five + w = five
      BY <1>2, <2>1
  <2>4. q.shimLen = (five + w) % b
      BY <2>2, <2>3
  <2> HIDE DEF len, a, w, b
  <2>5. w = 0 * a /\ len + 20 + 4 * w = len + 20 /\ (len - 20) + 20 = len + 4 * w
      BY <2>1
  <2>6. q.totalLen = (len + 20 + 4 * w) % Values16
      BY <1>2, <2>1, <2>5
  <2>7. q.host.proto = "udp" => q.udpLen = (len + 4 * w) % Values16
      BY <1>2, <2>1, <2>5
  <2>8. w = Len(q.stack) * a
      BY <1>3, <2>5
  <2>9. q.host.len = len
      BY <1>2 DEF len
  <2> HIDE DEF q
  <2>10. /\ WordsOf(q.stack) = Len(q.stack) * WordsCounted(q.mask)
         /\ q.totalLen = (q.host.len + 20 + 4 * WordsOf(q.stack)) % Values16
         /\ q.host.proto = "udp" => q.udpLen = (q.host.len + 4 * WordsOf(q.stack)) % Values16
         /\ q.shimLen = (5 + WordsOf(q.stack)) % 256
      BY <2>4, <2>6, <2>7, <2>8, <2>9, Zenon DEF a, w, b, five
  <2> QED
      BY <2>10, Zenon DEF Sized
<1>c. CountsDown(q)
  <2> DEFINE h == rule.hop_info
  <2>1. h \in 0 .. Values16 - 1 /\ h \in Int
      BY <1>1, Numbers DEF Field
  <2>2. h % Values16 = h /\ h - 0 = h
      BY <2>1, Widths, ModShort
  <2>3. RuleOf(q.host.flow).hop_info = h
      BY <1>2 DEF rule
  <2> HIDE DEF h
  <2> QED
      BY <1>2, <1>3, <2>2, <2>3 DEF CountsDown, h
<1>7. Begun(q)
    BY <1>2, <1>6, <1>c DEF Begun, rule
<1>8. Limited(q) => CountedTo(q, q.passed - 1)
  <2> SUFFICES ASSUME Limited(q) PROVE CountedTo(q, q.passed - 1)
      OBVIOUS
  <2>1. 0 <= Allowed(q)
      BY LimitIsFound
  <2>2. q.passed - 1 = 0
      BY <1>2
  <2>3. rule.hop_info \in Int /\ RuleOf(q.host.flow).hop_info = rule.hop_info
    <3>1. rule.hop_info \in Int
        BY <1>1, Numbers
    <3> QED
        BY <1>2, <3>1 DEF rule
  <2> QED
      BY <1>2, <1>3, <2>1, <2>2, <2>3 DEF CountedTo
<1> QED
    BY <1>2, <1>7, <1>8 DEF t, q, rule

\* At any node.
LEMMA NodeKeeps ==
    ASSUME NEW p, InFlight(p), NEW ck \in Helper, generated \in Parameters
    PROVE  LET r == AtNode(p, ck)
           IN  /\ InFlight(r.p) /\ r.ck \in Helper
               /\ r.p.host = p.host /\ r.p.number = p.number /\ r.p.passed = p.passed + 1
               /\ p.int => /\ r.p.int /\ r.p.dscp = p.dscp /\ r.p.ipSum = p.ipSum
                           /\ r.ck.old_totalLen = p.totalLen
<1> DEFINE n == [p EXCEPT !.passed = @ + 1]
           s == [p |-> n, ck |-> ck]
           t == IF IsSource(s.p) THEN tb_int_source(s) ELSE s
           r == AtNode(p, ck)
<1>1. r = IF p.host.proto = "other" THEN s ELSE Transit(t)
    BY Zenon DEF AtNode
<1>2. p \in Packet /\ p.passed \in Nat /\ p.int \in BOOLEAN
    BY DEF InFlight, Packet, PacketWith
<1>3. /\ n \in Packet /\ n.int = p.int /\ n.host = p.host
      /\ n.number = p.number /\ n.passed = p.passed + 1 /\ n.passed \in Nat
      /\ n.dscp = p.dscp /\ n.ipSum = p.ipSum /\ n.mask = p.mask
      /\ n.hop_info = p.hop_info /\ n.shimLen = p.shimLen
      /\ n.totalLen = p.totalLen /\ n.udpLen = p.udpLen /\ n.stack = p.stack
      /\ n.c_e = p.c_e
    BY <1>2, Passed
<1>4. s.p = n /\ s.ck = ck
    OBVIOUS
<1> HIDE DEF n, s, r
<1>5. IsSource(s.p) <=> p.passed = 0
    BY <1>2, <1>3, <1>4 DEF IsSource
<1>6. CASE p.int
  <2>1. Carrying(p) /\ p.passed >= 1 /\ p.host.proto # "other"
      BY <1>6 DEF InFlight, Carrying, Begun
  <2>2. r = Transit(s)
      BY <1>1, <1>2, <1>5, <2>1
  <2>3. Begun(n)
      BY <1>2, <1>3, <2>1 DEF Carrying, Begun, Sized, CountsDown
  <2>4. Limited(n) => CountedTo(n, n.passed - 1)
    <3>1. Limited(n) = Limited(p) /\ Allowed(n) = Allowed(p)
        BY <1>3 DEF Limited, Allowed, MetaLen
    <3>2. n.passed - 1 = p.passed
        BY <1>2, <1>3
    <3>3. CountedTo(p, p.passed) => CountedTo(n, p.passed)
        BY <1>3, <3>1 DEF CountedTo
    <3> QED
        BY <2>1, <3>1, <3>2, <3>3 DEF Carrying
  <2>5. InFlight(r.p) /\ Kept(r, n)
      BY <1>3, <1>4, <1>6, <2>2, <2>3, <2>4, TransitCounts
  <2> QED
      BY <1>3, <2>5 DEF Kept, r
<1>7. CASE ~p.int /\ p.host.proto # "other" /\ p.passed = 0 /\ Monitored(n.host.flow)
  <2>1. t = configure_source(s, RuleOf(n.host.flow))
      BY <1>4, <1>5, <1>7 DEF tb_int_source
  <2>2. /\ n.stack = <<>> /\ n.passed = 1 /\ n.totalLen = n.host.len
        /\ n.host.proto = "udp" => n.udpLen = n.host.len - 20
      BY <1>3, <1>7 DEF InFlight, Plain
  <2> HIDE DEF t
  <2>3. /\ t.p \in Packet /\ t.ck \in Helper /\ t.p.int /\ Begun(t.p)
        /\ t.p.host = n.host /\ t.p.number = n.number /\ t.p.passed = n.passed
        /\ Limited(t.p) => CountedTo(t.p, t.p.passed - 1)
      BY <1>3, <1>4, <1>7, <2>1, <2>2, SourceBegins
  <2>4. InFlight(Transit(t).p) /\ Kept(Transit(t), t.p)
      BY <2>3, TransitCounts
  <2>5. r = Transit(t)
      BY <1>1, <1>7 DEF t
  <2> QED
      BY <1>3, <1>7, <2>3, <2>4, <2>5 DEF Kept, r
<1>8. CASE ~p.int /\ ~(p.host.proto # "other" /\ p.passed = 0 /\ Monitored(n.host.flow))
  <2>1. p.host.proto = "other" \/ t = s
      BY <1>4, <1>5, <1>8 DEF tb_int_source
  <2>2. Transit(s).p = n /\ Transit(s).ck \in Helper
    <3> DEFINE l == n.totalLen
    <3>1. Transit(s).p = n /\ Transit(s).ck = [ck EXCEPT !.old_totalLen = l]
        BY <1>3, <1>4, <1>8, PairFields, Zenon DEF Transit
    <3>2. l \in Field
        BY <1>3 DEF Packet, PacketWith
    <3>3. l \in Int
        BY <3>2, Numbers
    <3> HIDE DEF l
    <3>4. [ck EXCEPT !.old_totalLen = l] \in Helper
        BY <3>3 DEF Helper
    <3> QED
        BY <3>1, <3>4
  <2>3. r.p = n /\ r.ck \in Helper
      BY <1>1, <1>4, <2>1, <2>2
  <2>4. Plain(n)
      BY <1>2, <1>3 DEF Plain
  <2> QED
      BY <1>3, <1>8, <2>3, <2>4 DEF InFlight, r
<1> QED
    BY <1>6, <1>7, <1>8

LEMMA HelperValues == \A ck \in Helpers : ck \in Helper
<1>1. Undefined \subseteq Int
    BY NumbersAssumption, Widths
<1> QED
    BY <1>1 DEF Helpers, Helper

ChecksumValues(m, dscp, old, new, sum) ==
    /\ m \in Nat /\ m > 0
    /\ dscp \in Int /\ old \in Int /\ new \in Int /\ sum \in Int

Missing(m, len, dscp, sum) == (len + dscp - sum) % m
Updated(m, sum, old, new)  == (sum - old + new) % m

\* By how much the checksum misses, before and after the deparser's update.
LEMMA DriftKept ==
    \A m, dscp, old, new, sum : ChecksumValues(m, dscp, old, new, sum) =>
        Missing(m, new, dscp, Updated(m, sum, old, new)) = Missing(m, old, dscp, sum)
<1> SUFFICES ASSUME NEW m, NEW dscp, NEW old, NEW new, NEW sum,
                    ChecksumValues(m, dscp, old, new, sum)
             PROVE  (new + dscp - ((sum - old + new) % m)) % m = (old + dscp - sum) % m
    BY Zenon DEF Missing, Updated
<1>0. m \in Nat /\ m > 0 /\ dscp \in Int /\ old \in Int /\ new \in Int /\ sum \in Int
    BY DEF ChecksumValues
<1> DEFINE a == new + dscp
           b == sum - old + new
<1>1. a \in Int /\ b \in Int /\ a - b = old + dscp - sum
    BY <1>0
<1> HIDE DEF a, b
<1>2. (a - (b % m)) % m = (a - b) % m
    BY <1>0, <1>1, ModOfSum
<1> QED
    BY <1>0, <1>1, <1>2 DEF a, b

\* What a node sends on is in order again, and its checksum as right as before.
LEMMA EmittedInFlight ==
    ASSUME NEW p, InFlight(p), NEW q \in Emitted(p), generated \in Parameters
    PROVE  /\ InFlight(q) /\ q.host = p.host /\ q.number = p.number
           /\ q.passed = p.passed + 1
           /\ p.int => Drift(q) = Drift(p)
<1>1. PICK ck \in Helpers : q = Deparsed(AtNode(p, ck), p.passed = 0)
    BY DEF Emitted
<1> DEFINE r == AtNode(p, ck)
           source == p.passed = 0
<1>2. ck \in Helper
    BY HelperValues
<1>3. /\ InFlight(r.p) /\ r.ck \in Helper
      /\ r.p.host = p.host /\ r.p.number = p.number /\ r.p.passed = p.passed + 1
      /\ p.int => /\ r.p.int /\ r.p.dscp = p.dscp /\ r.p.ipSum = p.ipSum
                  /\ r.ck.old_totalLen = p.totalLen
    BY <1>2, NodeKeeps
<1>4. q = Deparsed(r, source)
    BY <1>1
<1>5. p.int => ~source
    BY DEF InFlight, Carrying, Begun
<1> HIDE DEF r, source
<1>6. r.p \in PacketWith(Seq(Record)) /\ PacketWith(Seq(Record)) = Packet
    BY <1>3 DEF InFlight, Packet
<1>7. /\ q \in Packet /\ q.int = r.p.int /\ q.host = r.p.host
      /\ q.number = r.p.number /\ q.passed = r.p.passed
      /\ q.dscp = r.p.dscp /\ q.mask = r.p.mask
      /\ q.hop_info = r.p.hop_info /\ q.shimLen = r.p.shimLen
      /\ q.totalLen = r.p.totalLen /\ q.udpLen = r.p.udpLen /\ q.stack = r.p.stack
      /\ q.c_e = r.p.c_e
      /\ ~source => q.ipSum = (r.p.ipSum - r.ck.old_totalLen + r.p.totalLen) % (Values16 - 1)
    BY <1>3, <1>4, <1>6, DeparsedPacket
<1>8. Limited(q) = Limited(r.p) /\ Allowed(q) = Allowed(r.p)
    BY <1>7 DEF Limited, Allowed, MetaLen
<1>9. CountedTo(r.p, r.p.passed) => CountedTo(q, q.passed)
    BY <1>7, <1>8 DEF CountedTo
<1>10. Begun(r.p) => Begun(q)
    BY <1>7 DEF Begun, Sized, CountsDown
<1>11. Plain(r.p) => Plain(q)
    BY <1>7 DEF Plain
<1>12. InFlight(q)
    BY <1>3, <1>7, <1>8, <1>9, <1>10, <1>11 DEF InFlight, Carrying
<1>13. ASSUME p.int
       PROVE  Drift(q) = Drift(p)
  <2> DEFINE w == Values16 - 1
             d == p.dscp
             before == p.totalLen
             after == q.totalLen
             x == p.ipSum
  <2>1. q.ipSum = (x - before + after) % w /\ q.dscp = d
      BY <1>3, <1>5, <1>7, <1>13
  <2>2. d \in Byte /\ before \in Field /\ after \in Field /\ x \in SumField
      BY <1>7 DEF InFlight, Packet, PacketWith
  <2>3. w \in Nat /\ w > 0 /\ d \in Int /\ before \in Int /\ after \in Int /\ x \in Int
      BY <2>2, Widths, Numbers
  <2>4. Drift(p) = (before + d - x) % w /\ Drift(q) = (after + d - q.ipSum) % w
      BY <2>1 DEF Drift
  <2> HIDE DEF w, d, before, after, x
  <2>5. ChecksumValues(w, d, before, after, x)
      BY <2>3 DEF ChecksumValues
  <2>6. Missing(w, after, d, Updated(w, x, before, after)) = Missing(w, before, d, x)
      BY <2>5, DriftKept
  <2> QED
      BY <2>1, <2>4, <2>6, Zenon DEF Missing, Updated
<1> QED
    BY <1>3, <1>7, <1>12, <1>13

-----------------------------------------------------------------------------
(* The invariant. *)

Reported == {reports[n].packet : n \in DOMAIN reports}

\* A packet without its INT headers: of the records left only their number is
\* not known.
Stripped(p) == p.passed <= p.host.route /\ \E Stacks : p \in PacketWith(Stacks)

PacketsInOrder ==
    /\ generated \in Parameters
    /\ packets \in Nat /\ packets <= MaxPackets
    /\ \A p \in flying : InFlight(p) /\ p.passed < p.host.route
    /\ \A p \in Reported : InFlight(p) /\ p.int /\ p.passed <= p.host.route
    /\ \A p \in stripped : Stripped(p)

\* A packet is in one place: no two have the same number.
OnePacketANumber ==
    /\ \A p \in flying \cup Reported : p.number <= packets
    /\ \A p, q \in flying : p.number = q.number => p = q
    /\ \A p \in flying : \A q \in Reported : p.number # q.number

\* The register holds the number of the next report.
Numbered ==
    /\ \E S : reports \in Seq(S)
    /\ report_seq_num_register = Len(reports) % SeqNumbers
    /\ ReportsNumbered

IInv == PacketsInOrder /\ OnePacketANumber /\ Numbered

LEMMA SameParameters ==
    ASSUME generated' = generated, NEW p, InFlight(p)
    PROVE  InFlight(p)'
<1>1. \A flow : RuleOf(flow)' = RuleOf(flow)
    BY DEF RuleOf, default_conf, HOP_INFO, INSTRUCTION_MASK_COMPLET
<1>2. (HOP_INFO - MAX_HOP_16)' = HOP_INFO - MAX_HOP_16
    BY DEF HOP_INFO, MAX_HOP_16
<1>3. Allowed(p)' = Allowed(p)
    BY <1>1, <1>2 DEF Allowed
<1>4. Limited(p)' = Limited(p)
    BY <1>1 DEF Limited, MetaLen
<1>5. CountedTo(p, p.passed)' = CountedTo(p, p.passed)
    BY <1>1, <1>3 DEF CountedTo
<1>6. Begun(p)' = Begun(p)
    BY <1>1 DEF Begun, CountsDown
<1> QED
    BY <1>4, <1>5, <1>6 DEF InFlight, Carrying

LEMMA Initially == Init => IInv
<1> SUFFICES ASSUME Init PROVE IInv
    OBVIOUS
<1>1. /\ reports = <<>> /\ report_seq_num_register = 0 /\ flying = {} /\ stripped = {}
      /\ generated \in Parameters /\ packets = 0
    BY DEF Init
<1>2. DOMAIN reports = {} /\ Len(reports) = 0 /\ reports \in Seq({})
    BY <1>1
<1>3. 0 % SeqNumbers = 0
    BY NumbersAssumption
<1>4. PacketsInOrder
    BY <1>1, <1>2, NumbersAssumption DEF PacketsInOrder, Reported
<1>5. ReportsNumbered
    BY <1>2 DEF ReportsNumbered
<1>6. Numbered
    BY <1>1, <1>2, <1>3, <1>5 DEF Numbered
<1>7. OnePacketANumber
    BY <1>1, <1>2 DEF OnePacketANumber, Reported
<1> QED
    BY <1>4, <1>6, <1>7 DEF IInv

\* What a step that sends no report leaves alone.
Quiet == UNCHANGED <<generated, report_seq_num_register, reports>>

LEMMA QuietNumbers ==
    ASSUME IInv, Quiet
    PROVE  Numbered' /\ Reported' = Reported
BY DEF Quiet, IInv, Numbered, ReportsNumbered, Reported

\* The report of a packet has the number the register holds.
LEMMA ReportAdded ==
    ASSUME IInv, NEW q,
           reports' = Append(reports, [seq_num |-> report_seq_num_register, packet |-> q]),
           report_seq_num_register' = (report_seq_num_register + 1) % SeqNumbers
    PROVE  Numbered' /\ Reported' = Reported \cup {q}
<1> DEFINE new == [seq_num |-> report_seq_num_register, packet |-> q]
<1>1. PICK S : reports \in Seq(S)
    BY DEF IInv, Numbered
<1> DEFINE T == S \cup {new}
<1>2. /\ reports' \in Seq(T) /\ Len(reports') = Len(reports) + 1
      /\ DOMAIN reports = 1 .. Len(reports) /\ DOMAIN reports' = 1 .. Len(reports) + 1
      /\ \A n \in 1 .. Len(reports) : reports'[n] = reports[n]
      /\ reports'[Len(reports) + 1] = new
      /\ Len(reports) \in Nat
  <2>1. reports \in Seq(T) /\ new \in T
      BY <1>1
  <2>2. reports' = Append(reports, new)
      OBVIOUS
  <2> HIDE DEF T, new
  <2> QED
      BY <2>1, <2>2
<1>3. new.packet = q /\ new.seq_num = report_seq_num_register
    OBVIOUS
<1> HIDE DEF T, new
<1>4. Reported' = Reported \cup {q}
  <2>1. ASSUME NEW n \in 1 .. Len(reports) + 1
        PROVE  reports'[n].packet \in Reported \cup {q}
    <3>1. CASE n = Len(reports) + 1
        BY <1>2, <1>3, <3>1
    <3>2. CASE n # Len(reports) + 1
      <4>1. n \in 1 .. Len(reports)
        BY <1>2, <3>2
      <4> QED
        BY <1>2, <4>1 DEF Reported
    <3> QED
        BY <3>1, <3>2
  <2>2. \A r \in Reported : \E n \in 1 .. Len(reports) + 1 : r = reports'[n].packet
    <3> SUFFICES ASSUME NEW n \in 1 .. Len(reports)
                 PROVE  \E k \in 1 .. Len(reports) + 1 : reports[n].packet = reports'[k].packet
        BY <1>2 DEF Reported
    <3>1. n \in 1 .. Len(reports) + 1
        BY <1>2
    <3> QED
        BY <1>2, <3>1
  <2>3. Len(reports) + 1 \in 1 .. Len(reports) + 1 /\ reports'[Len(reports) + 1].packet = q
      BY <1>2, <1>3
  <2>4. Reported' = {reports'[n].packet : n \in 1 .. Len(reports) + 1}
      BY <1>2 DEF Reported
  <2> QED
      BY <2>1, <2>2, <2>3, <2>4
<1>5. report_seq_num_register' = Len(reports') % SeqNumbers
  <2> DEFINE len == Len(reports)
             one == 1
  <2>1. len \in Nat /\ len \in Int /\ one \in Int /\ SeqNumbers \in Nat /\ SeqNumbers > 0
      BY <1>2, NumbersAssumption
  <2>2. report_seq_num_register = len % SeqNumbers
      BY DEF IInv, Numbered
  <2> HIDE DEF len, one
  <2>3. ((len % SeqNumbers) + one) % SeqNumbers = (len + one) % SeqNumbers
      BY <2>1, ModOfSum
  <2> QED
      BY <1>2, <2>2, <2>3 DEF len, one
<1>6. ReportsNumbered'
  <2> SUFFICES ASSUME NEW n \in 1 .. Len(reports) + 1
               PROVE  reports'[n].seq_num = (n - 1) % SeqNumbers
      BY <1>2 DEF ReportsNumbered
  <2>1. CASE n = Len(reports) + 1
    <3>1. n - 1 = Len(reports)
      BY <1>2, <2>1
    <3> QED
      BY <1>2, <1>3, <2>1, <3>1 DEF IInv, Numbered
  <2>2. CASE n # Len(reports) + 1
    <3>1. n \in 1 .. Len(reports)
      BY <1>2, <2>2
    <3> QED
      BY <1>2, <3>1 DEF IInv, Numbered, ReportsNumbered
  <2> QED
      BY <2>1, <2>2
<1> QED
    BY <1>2, <1>4, <1>5, <1>6 DEF Numbered

\* What becomes of a packet at a node that is not the last, or is.
LEMMA Onward ==
    ASSUME IInv, NEW p \in flying, NEW q \in Emitted(p)
    PROVE  /\ InFlight(q) /\ q.number = p.number
           /\ q.passed <= q.host.route
           /\ ~IsSink(q) => q.passed < q.host.route
           /\ p.int => Drift(q) = Drift(p)
<1>1. InFlight(p) /\ p.passed < p.host.route /\ generated \in Parameters
    BY DEF IInv, PacketsInOrder
<1>2. /\ InFlight(q) /\ q.host = p.host /\ q.number = p.number
      /\ q.passed = p.passed + 1
      /\ p.int => Drift(q) = Drift(p)
    BY <1>1, EmittedInFlight
<1>3. p.passed \in Nat /\ p.host.route \in Nat
  <2>1. p.passed \in Nat /\ p.host \in HostPackets
      BY <1>1 DEF InFlight, Packet, PacketWith
  <2> QED
      BY <2>1, HostValues
<1> QED
    BY <1>1, <1>2, <1>3 DEF IsSink

\* Where the packets of the next state come from.
Origin(r) ==
    \/ r \in flying \cup Reported
    \/ r.number = packets + 1
    \/ \E p \in flying : r \in Emitted(p)

\* What a step may do: every packet in flight or reported has an origin, and
\* everything is in order again.
Safe == IInv' /\ \A r \in flying' \cup Reported' : Origin(r)

LEMMA SendIsSafe ==
    ASSUME IInv, NEW host \in HostPackets, Send(host)
    PROVE  Safe
<1> DEFINE f == Fresh(host)
<1>1. /\ flying' = flying \cup {f} /\ packets' = packets + 1 /\ stripped' = stripped
      /\ generated' = generated /\ Quiet /\ packets < MaxPackets
    BY DEF Send, Quiet
<1>2. Numbered' /\ Reported' = Reported
    BY <1>1, QuietNumbers
<1>3. packets \in Nat /\ packets <= MaxPackets /\ MaxPackets \in Nat
    BY NumbersAssumption DEF IInv, PacketsInOrder
<1>4. InFlight(f) /\ f.host = host /\ f.passed = 0 /\ f.number = packets + 1
    BY <1>3, FreshInFlight
<1>5. f.passed < f.host.route
    BY <1>4, HostValues
<1> HIDE DEF f
<1>6. \A r : InFlight(r) => InFlight(r)'
    BY <1>1, SameParameters
<1>7. PacketsInOrder'
    BY <1>1, <1>2, <1>3, <1>4, <1>5, <1>6 DEF IInv, PacketsInOrder, Stripped
<1>8. \A r \in flying \cup Reported : r.number \in Nat /\ r.number <= packets
    BY DEF IInv, PacketsInOrder, OnePacketANumber, InFlight, Packet, PacketWith
<1>9. \A r \in flying' \cup Reported' : r.number <= packets'
    BY <1>1, <1>2, <1>3, <1>4, <1>8
<1>10. \A r \in flying \cup Reported : r.number # f.number
    BY <1>3, <1>4, <1>8
<1>11. OnePacketANumber'
    BY <1>1, <1>2, <1>9, <1>10 DEF IInv, OnePacketANumber
<1>12. \A r \in flying' \cup Reported' : Origin(r)
    BY <1>1, <1>2, <1>4 DEF Origin
<1> QED
    BY <1>2, <1>7, <1>11, <1>12 DEF Safe, IInv

\* A packet is lost, goes on, or loses its INT headers: those in flight are the
\* old ones but p, and perhaps what p became.
LEMMA ForwardIsSafe ==
    ASSUME IInv, NEW p \in flying, Quiet, packets' = packets,
           \A r \in stripped' : Stripped(r),
           \/ flying' = flying \ {p}
           \/ \E q \in Emitted(p) : ~IsSink(q) /\ flying' = (flying \ {p}) \cup {q}
    PROVE  Safe
<1>1. Numbered' /\ Reported' = Reported
    BY QuietNumbers
<1>2. \A r : InFlight(r) => InFlight(r)'
    BY SameParameters DEF Quiet
<1>3. \A r \in flying' :
        \/ r \in flying /\ r # p
        \/ r \in Emitted(p) /\ ~IsSink(r)
    OBVIOUS
<1>4. \A r \in flying' : InFlight(r) /\ r.passed < r.host.route
    BY <1>3, Onward DEF IInv, PacketsInOrder
<1>5. PacketsInOrder'
  <2>1. \A r \in stripped' : Stripped(r)'
      BY DEF Stripped
  <2> QED
      BY <1>1, <1>2, <1>4, <2>1 DEF IInv, PacketsInOrder, Quiet
<1>6. \A q \in Emitted(p) : q.number = p.number
    BY Onward
<1>7. \A r \in flying' \cup Reported' : r.number <= packets'
    BY <1>1, <1>3, <1>6 DEF IInv, OnePacketANumber
<1>8. \A r \in flying' : \A q \in Reported' : r.number # q.number
    BY <1>1, <1>3, <1>6 DEF IInv, OnePacketANumber
<1>9. \A r, q \in flying' : r.number = q.number => r = q
    BY <1>6 DEF IInv, OnePacketANumber
<1>10. \A r \in flying' \cup Reported' : Origin(r)
    BY <1>1, <1>3 DEF Origin
<1> QED
    BY <1>1, <1>5, <1>7, <1>8, <1>9, <1>10 DEF Safe, IInv, OnePacketANumber

LEMMA ReportIsSafe ==
    ASSUME IInv, NEW p \in flying, SendReport(p)
    PROVE  Safe
<1>1. PICK q \in Emitted(p) :
        q.int /\ reports' = Append(reports, [seq_num |-> report_seq_num_register, packet |-> q])
    BY DEF SendReport
<1>2. /\ generated' = generated /\ flying' = flying \ {p} /\ packets' = packets
      /\ stripped' = stripped
      /\ report_seq_num_register' = (report_seq_num_register + 1) % SeqNumbers
    BY DEF SendReport
<1>3. Numbered' /\ Reported' = Reported \cup {q}
    BY <1>1, <1>2, ReportAdded
<1>4. InFlight(q) /\ q.number = p.number /\ q.passed <= q.host.route
    BY Onward
<1>5. \A r : InFlight(r) => InFlight(r)'
    BY <1>2, SameParameters
<1>6. PacketsInOrder'
    BY <1>1, <1>2, <1>3, <1>4, <1>5 DEF IInv, PacketsInOrder, Stripped
<1>7. OnePacketANumber'
    BY <1>2, <1>3, <1>4 DEF IInv, OnePacketANumber
<1>8. \A r \in flying' \cup Reported' : Origin(r)
    BY <1>2, <1>3 DEF Origin
<1> QED
    BY <1>3, <1>6, <1>7, <1>8 DEF Safe, IInv

LEMMA StripIsSafe ==
    ASSUME IInv, NEW p \in flying, Strip(p)
    PROVE  Safe
<1>1. PICK ck \in Helpers :
        stripped' = stripped \cup {Deparsed(remove_int(AtNode(p, ck)), FALSE)}
    BY DEF Strip
<1> DEFINE s == AtNode(p, ck)
           q == Deparsed(remove_int(s), FALSE)
<1>2. /\ InFlight(p) /\ p.passed < p.host.route /\ generated \in Parameters
      /\ ck \in Helper
    BY HelperValues DEF IInv, PacketsInOrder
<1>3. InFlight(s.p) /\ s.ck \in Helper /\ s.p.host = p.host /\ s.p.passed = p.passed + 1
    BY <1>2, NodeKeeps
<1>4. p.passed \in Nat /\ p.host.route \in Nat
  <2>1. p.passed \in Nat /\ p.host \in HostPackets
      BY <1>2 DEF InFlight, Packet, PacketWith
  <2> QED
      BY <2>1, HostValues
<1> HIDE DEF s
<1>5. \E Stacks : q \in PacketWith(Stacks) /\ q.host = s.p.host /\ q.passed = s.p.passed
    BY <1>3, StrippedPacket DEF InFlight
<1> HIDE DEF q
<1>6. Stripped(q)
    BY <1>2, <1>3, <1>4, <1>5 DEF Stripped
<1>7. \A r \in stripped' : Stripped(r)
    BY <1>1, <1>6 DEF IInv, PacketsInOrder, q, s
<1>8. Quiet /\ packets' = packets /\ flying' = flying \ {p}
    BY DEF Strip, Quiet
<1> QED
    BY <1>7, <1>8, ForwardIsSafe

LEMMA StepIsSafe == IInv /\ [Next]_vars => Safe
<1> SUFFICES ASSUME IInv, [Next]_vars PROVE Safe
    OBVIOUS
<1>0. \A r \in stripped : Stripped(r)
    BY DEF IInv, PacketsInOrder
<1>1. ASSUME NEW host \in HostPackets, Send(host)
      PROVE  Safe
    BY <1>1, SendIsSafe
<1>2. ASSUME NEW p \in flying, Lose(p)
      PROVE  Safe
    BY <1>0, <1>2, ForwardIsSafe DEF Lose, Quiet
<1>3. ASSUME NEW p \in flying, Forward(p)
      PROVE  Safe
  <2>1. PICK q \in Emitted(p) :
          flying' = (flying \ {p}) \cup (IF IsSink(q) THEN {} ELSE {q})
      BY <1>3 DEF Forward
  <2>2. Quiet /\ packets' = packets /\ stripped' = stripped
      BY <1>3 DEF Forward, Quiet
  <2>3. CASE IsSink(q)
    <3>1. flying' = flying \ {p}
        BY <2>1, <2>3
    <3> QED
        BY <1>0, <2>2, <3>1, ForwardIsSafe
  <2>4. CASE ~IsSink(q)
    <3>1. flying' = (flying \ {p}) \cup {q}
        BY <2>1, <2>4
    <3> QED
        BY <1>0, <2>2, <2>4, <3>1, ForwardIsSafe
  <2> QED
      BY <2>3, <2>4
<1>4. ASSUME NEW p \in flying, SendReport(p)
      PROVE  Safe
    BY <1>4, ReportIsSafe
<1>5. ASSUME NEW p \in flying, Strip(p)
      PROVE  Safe
    BY <1>5, StripIsSafe
<1>6. CASE UNCHANGED vars
  <2>1. /\ Quiet /\ packets' = packets /\ flying' = flying /\ stripped' = stripped
        /\ generated' = generated
      BY <1>6 DEF vars, Quiet
  <2>2. Numbered' /\ Reported' = Reported
      BY <2>1, QuietNumbers
  <2>3. \A r : InFlight(r) => InFlight(r)'
      BY <2>1, SameParameters
  <2>4. PacketsInOrder'
      BY <2>1, <2>2, <2>3 DEF IInv, PacketsInOrder, Stripped
  <2>5. OnePacketANumber'
      BY <2>1, <2>2 DEF IInv, OnePacketANumber
  <2>6. \A r \in flying' \cup Reported' : Origin(r)
      BY <2>1, <2>2 DEF Origin
  <2> QED
      BY <2>2, <2>4, <2>5, <2>6 DEF Safe, IInv
<1> QED
    BY <1>1, <1>2, <1>3, <1>4, <1>5, <1>6 DEF Next

LEMMA Invariance == Spec => []IInv
<1>1. IInv /\ [Next]_vars => IInv'
    BY StepIsSafe DEF Safe
<1> QED
    BY <1>1, Initially, PTL DEF Spec

-----------------------------------------------------------------------------
(* The theorems. *)

LEMMA InvariantPackets ==
    ASSUME IInv
    PROVE  /\ generated \in Parameters
           /\ \A p \in Monitoring : InFlight(p) /\ p.int /\ Carrying(p)
           /\ \A p \in Monitoring : p.passed <= p.host.route
           /\ Monitoring \subseteq flying \cup Reported
<1>1. Monitoring \subseteq flying \cup Reported
    BY DEF Monitoring, Reported
<1>2. \A p \in Monitoring : InFlight(p) /\ p.int
    BY DEF IInv, PacketsInOrder, Reported, Monitoring
<1>3. \A p \in Monitoring : p.passed <= p.host.route
  <2>1. \A p \in flying : p.passed <= p.host.route
    <3> SUFFICES ASSUME NEW p \in flying PROVE p.passed <= p.host.route
        OBVIOUS
    <3>1. InFlight(p) /\ p.passed < p.host.route
        BY DEF IInv, PacketsInOrder
    <3>2. p.passed \in Nat /\ p.host \in HostPackets
        BY <3>1 DEF InFlight, Packet, PacketWith
    <3>3. p.host.route \in Nat
        BY <3>2, HostValues
    <3> QED
        BY <3>1, <3>2, <3>3
  <2> QED
      BY <1>1, <2>1 DEF IInv, PacketsInOrder
<1> QED
    BY <1>1, <1>2, <1>3 DEF IInv, PacketsInOrder, InFlight

\* Every field stays within its width, also where lengths wrap, and no packet
\* passes more nodes than its path has, whatever the parameters and tables.
THEOREM PsaTypes == Spec => []TypeOK
<1>1. IInv => TypeOK
  <2> SUFFICES ASSUME IInv PROVE TypeOK
      OBVIOUS
  <2>1. ASSUME NEW Stacks, NEW p \in PacketWith(Stacks), p.passed <= p.host.route
        PROVE  /\ p.host \in HostPackets
               /\ p.passed \in 0 .. p.host.route
               /\ p.dscp \in 0 .. 255
               /\ {p.totalLen, p.udpLen, p.hop_info} \subseteq 0 .. Values16 - 1
               /\ p.ipSum \in 0 .. Values16 - 2
               /\ p.shimLen \in 0 .. 255
               /\ p.c_e \in {0, 1}
    <3>1. /\ p.host \in HostPackets /\ p.passed \in Nat /\ p.dscp \in Byte
          /\ p.totalLen \in Field /\ p.udpLen \in Field /\ p.hop_info \in Field
          /\ p.ipSum \in SumField /\ p.shimLen \in Byte /\ p.c_e \in Mark
        BY DEF PacketWith
    <3>2. p.passed \in 0 .. p.host.route
        BY <2>1, <3>1, HostValues
    <3>3. p.dscp \in 0 .. 255 /\ p.shimLen \in 0 .. 255
        BY <3>1, Zenon DEF Byte
    <3>4. {p.totalLen, p.udpLen, p.hop_info} \subseteq 0 .. Values16 - 1
        BY <3>1 DEF Field
    <3>5. p.ipSum \in 0 .. Values16 - 2
        BY <3>1, Zenon DEF SumField
    <3> QED
        BY <3>1, <3>2, <3>3, <3>4, <3>5, Zenon DEF Mark
  <2>2. \A p \in flying \cup stripped \cup Monitoring :
          p.passed <= p.host.route /\ \E Stacks : p \in PacketWith(Stacks)
    <3>1. \A p \in Monitoring : p.passed <= p.host.route /\ p \in Packet
        BY InvariantPackets DEF InFlight
    <3>2. \A p \in flying : p.passed <= p.host.route /\ p \in Packet
      <4> SUFFICES ASSUME NEW p \in flying PROVE p.passed <= p.host.route /\ p \in Packet
        OBVIOUS
      <4>1. p.passed < p.host.route /\ p \in Packet
        BY DEF IInv, PacketsInOrder, InFlight
      <4>2. p.passed \in Nat /\ p.host \in HostPackets
        BY <4>1 DEF Packet, PacketWith
      <4>3. p.host.route \in Nat
        BY <4>2, HostValues
      <4> QED
        BY <4>1, <4>2, <4>3
    <3>3. \A p \in stripped : p.passed <= p.host.route /\ \E Stacks : p \in PacketWith(Stacks)
        BY DEF IInv, PacketsInOrder, Stripped
    <3> QED
        BY <3>1, <3>2, <3>3 DEF Packet
  <2>3. report_seq_num_register \in 0 .. SeqNumbers - 1
    <3>1. Len(reports) \in Nat
        BY DEF IInv, Numbered
    <3>2. SeqNumbers \in Nat /\ SeqNumbers > 0
        BY NumbersAssumption
    <3> QED
        BY <3>1, <3>2, Division DEF IInv, Numbered
  <2>4. packets \in 0 .. MaxPackets /\ generated \in Parameters
      BY NumbersAssumption DEF IInv, PacketsInOrder
  <2> QED
      BY <2>1, <2>2, <2>3, <2>4 DEF TypeOK
<1> QED
    BY <1>1, Invariance, PTL

\* The reports of the sink carry consecutive numbers, whatever is lost on the
\* way and whatever else the sink forwards or strips.
THEOREM ReportNumbersConsecutive == Spec => []ReportsNumbered
BY Invariance, PTL DEF IInv, Numbered

LEMMA Smaller ==
    ASSUME NEW a \in Int, NEW b \in Int
    PROVE  Min({a, b}) = IF a <= b THEN a ELSE b
<1> DEFINE m == IF a <= b THEN a ELSE b
<1>1. m \in {a, b} /\ \A y \in {a, b} : m <= y
    OBVIOUS
<1>2. \A x \in {a, b} : (\A y \in {a, b} : x <= y) => x = m
    OBVIOUS
<1> QED
    BY <1>1, <1>2 DEF Min

\* Where -n reads the same in hexadecimal and in decimal, a packet whose rule
\* announces the generated metadata length carries the records of the first
\* nodes of its path, one each, the newest in front, up to the number in the
\* lower byte of the rule, and is marked exactly if a node left its record out:
\* for every path length, every such rule and every mask.
THEOREM FirstNodesRecorded == Spec => []FirstHopsRecorded
<1>1. IInv => FirstHopsRecorded
  <2> SUFFICES ASSUME IInv, NEW p \in Monitoring, Limited(p)
               PROVE  FirstHopsIn(p)
      BY DEF FirstHopsRecorded, Limited
  <2>1. InFlight(p) /\ Carrying(p) /\ generated \in Parameters
      BY InvariantPackets
  <2>2. CountedTo(p, p.passed)
      BY <2>1 DEF Carrying
  <2>3. p.passed \in Nat /\ p.stack \in Seq(Record)
      BY <2>1 DEF InFlight, Packet, PacketWith
  <2>4. MaxHop(p) \in Int /\ Allowed(p) = MaxHop(p)
      BY <2>1, LimitIsFound
  <2> DEFINE hops == IF p.passed <= MaxHop(p) THEN p.passed ELSE MaxHop(p)
  <2>5. Min({p.passed, MaxHop(p)}) = hops
      BY <2>3, <2>4, Smaller
  <2>6. /\ DOMAIN p.stack = 1 .. hops
        /\ \A i \in 1 .. hops : p.stack[i].node = hops + 1 - i
        /\ p.c_e = IF p.passed > hops THEN 1 ELSE 0
      BY <2>2, <2>3, <2>4 DEF CountedTo
  <2> HIDE DEF hops
  <2> QED
      BY <2>5, <2>6 DEF FirstHopsIn
<1> QED
    BY <1>1, Invariance, PTL

\* IPv4, UDP and shim length are those of the packet with the headers that are
\* emitted, for every mask but 0x3_, however often a length has wrapped.
THEOREM LengthsAreOfHeaders == Spec => []LengthsAgree
<1>1. IInv => LengthsAgree
  <2> SUFFICES ASSUME IInv, NEW p \in Monitoring, ~MisCounted(p.mask)
               PROVE  /\ p.totalLen = (p.host.len + IntBytes(p)) % Values16
                      /\ p.host.proto = "udp" => p.udpLen = (p.totalLen - 20) % Values16
                      /\ p.shimLen = (IntBytes(p) \div 4) % 256
      BY DEF LengthsAgree
  <2>1. p \in Packet /\ Sized(p)
      BY InvariantPackets DEF InFlight, Carrying, Begun
  <2> DEFINE w == WordsOf(p.stack)
             len == p.host.len
             bytes == IntBytes(p)
             d == -20
             all == len + 20 + 4 * w
  <2>2. w \in Nat /\ len \in Nat
    <3>1. p.host \in HostPackets
        BY <2>1 DEF Packet, PacketWith
    <3> QED
        BY <2>1, <3>1, StackWords, HostValues
  <2>3. /\ p.totalLen = all % Values16
        /\ p.host.proto = "udp" => p.udpLen = (len + 4 * w) % Values16
        /\ p.shimLen = (5 + w) % 256
      BY <2>1 DEF Sized
  <2>4. bytes = 20 + 4 * w
      BY HeaderLength DEF IntBytes
  <2> HIDE DEF w, len, bytes
  <2>5. /\ bytes \div 4 = 5 + w /\ len + bytes = all /\ all \in Int
        /\ len + 4 * w = all + d /\ d \in Int
      BY <2>2, <2>4
  <2>6. p.totalLen \in Nat
    <3>1. p.totalLen \in Field
        BY <2>1 DEF Packet, PacketWith
    <3> QED
        BY <3>1, Numbers
  <2>7. p.totalLen - 20 = p.totalLen + d
      BY <2>6
  <2> HIDE DEF all, d
  <2>8. (p.totalLen + d) % Values16 = (all + d) % Values16
    <3> DEFINE m == Values16
               old == p.totalLen
    <3>1. m \in Nat /\ m > 0 /\ all \in Int /\ d \in Int /\ old = all % m
        BY <2>3, <2>5, Widths
    <3> HIDE DEF m, old
    <3>2. (old + d) % m = (all + d) % m
        BY <3>1, Further
    <3> QED
        BY <3>2 DEF m, old
  <2> QED
      BY <2>3, <2>5, <2>7, <2>8, Zenon DEF len, bytes
<1> QED
    BY <1>1, Invariance, PTL

\* What is left of the hop count and the upper byte of hop_info tell where each
\* record begins, for every rule that announces the words of its mask, as long
\* as there are not more records than the rule says.
THEOREM StacksCanBeSplit == Spec => []StackCanBeSplit
<1>1. IInv => StackCanBeSplit
  <2> SUFFICES ASSUME IInv, NEW p \in Monitoring, Len(p.stack) <= MaxHop(p),
                      MetaLen(p) = Words(HeadersAsked(RuleOf(p.host.flow).ins_mask)),
                      ~MisCounted(RuleOf(p.host.flow).ins_mask), IntBytes(p) \div 4 < 256
               PROVE  /\ p.hop_info \div 256 = MetaLen(p)
                      /\ p.shimLen - INT_ALL_HEADER_LEN_BYTES \div 4
                           = MetaLen(p) * (RuleOf(p.host.flow).hop_info - p.hop_info)
      BY Zenon DEF StackCanBeSplit, HeadersAsked
  <2> DEFINE l == MetaLen(p)
             rule == RuleOf(p.host.flow).hop_info
             n == Len(p.stack)
             w == WordsOf(p.stack)
  <2>1. /\ p \in Packet /\ Sized(p) /\ CountsDown(p) /\ generated \in Parameters
        /\ p.mask = RuleOf(p.host.flow).ins_mask
      BY InvariantPackets DEF InFlight, Carrying, Begun
  <2>2. /\ n \in Nat /\ w \in Nat /\ p.mask \in Byte /\ p.passed \in Nat
        /\ p.hop_info \in Field /\ p.shimLen \in Byte
      BY <2>1, StackWords DEF Packet, PacketWith
  <2>3. rule \in Field /\ rule \in Nat /\ l \in Nat
    <3>1. rule \in Field /\ rule \in Nat
        BY <2>1, RuleValues, Numbers
    <3> QED
        BY <3>1 DEF MetaLen
  <2>4. n <= rule % 256 /\ rule \div 256 = l
      BY DEF MetaLen, MaxHop
  <2>5. w = n * l
    <3>1. WordsCounted(p.mask) = l
        BY <2>1, <2>2, TableCounts
    <3> QED
        BY <2>1, <3>1 DEF Sized
  <2>6. IntBytes(p) = 20 + 4 * w
      BY HeaderLength DEF IntBytes
  <2>7. p.shimLen = (5 + w) % 256
      BY <2>1 DEF Sized
  <2>a. p.hop_info = (rule - n) % Values16
      BY <2>1 DEF CountsDown
  <2> HIDE DEF l, rule, n, w
  <2>b. p.hop_info = rule - n
    <3>1. rule <= Values16 - 1
        BY <2>3 DEF Field
    <3>2. rule - n \in 0 .. Values16 - 1
        BY <2>2, <2>3, <2>4, <3>1, Widths
    <3> QED
        BY <2>a, <3>2, Widths, ModShort
  <2>8. p.shimLen = 5 + w
    <3>1. 5 + w < 256
        BY <2>2, <2>6
    <3> QED
        BY <2>2, <2>7, <3>1
  <2>9. p.hop_info \div 256 = l
      BY <2>2, <2>3, <2>4, <2>b
  <2>10. p.shimLen - 5 = l * (rule - p.hop_info)
    <3>1. rule - p.hop_info = n
        BY <2>2, <2>3, <2>b
    <3> QED
        BY <2>2, <2>3, <2>5, <2>8, <3>1
  <2> QED
      BY <2>9, <2>10, HeaderLength DEF l, rule
<1> QED
    BY <1>1, Invariance, PTL

\* No node changes by how much the checksum of a packet with INT headers
\* misses: what the source made wrong stays exactly as wrong.
THEOREM TransitLeavesDrift == Spec => TransitKeepsChecksum
<1>1. IInv /\ [Next]_vars =>
        \A q \in Monitoring' : \A p \in flying :
            (p.int /\ q.number = p.number) => Drift(q) = Drift(p)
  <2> SUFFICES ASSUME IInv, [Next]_vars, NEW q \in Monitoring', NEW p \in flying,
                      p.int, q.number = p.number
               PROVE  Drift(q) = Drift(p)
      BY Zenon
  <2>1. Origin(q)
    <3>1. q \in flying' \cup Reported'
        BY DEF Monitoring, Reported
    <3> QED
        BY <3>1, StepIsSafe DEF Safe
  <2>2. CASE q \in flying \cup Reported
    <3>1. q = p
        BY <2>2 DEF IInv, OnePacketANumber
    <3> QED
        BY <3>1
  <2>3. CASE q.number = packets + 1
    <3>1. p.number <= packets /\ p.number \in Nat /\ packets \in Nat
        BY DEF IInv, OnePacketANumber, PacketsInOrder, InFlight, Packet, PacketWith
    <3> QED
        BY <2>3, <3>1
  <2>4. CASE \E o \in flying : q \in Emitted(o)
    <3>1. PICK o \in flying : q \in Emitted(o)
        BY <2>4
    <3>2. q.number = o.number /\ (o.int => Drift(q) = Drift(o))
        BY <3>1, Onward
    <3>3. o = p
        BY <3>2 DEF IInv, OnePacketANumber
    <3> QED
        BY <3>2, <3>3
  <2> QED
      BY <2>1, <2>2, <2>3, <2>4 DEF Origin
<1> QED
    BY <1>1, Invariance, PTL DEF Spec, TransitKeepsChecksum
=============================================================================
