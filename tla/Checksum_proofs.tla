--------------------------- MODULE Checksum_proofs ---------------------------
(***************************************************************************)
(* Replacing a word of a header by way of ip_checksum_sub and              *)
(* ip_checksum_add keeps its checksum valid, for every width and value.    *)
(***************************************************************************)
EXTENDS Checksum, NumberTheorems

\* ip_checksum_sub keeps the width, and takes value from the one's complement,
\* modulo Words - 1: the borrow is the modulus.
LEMMA Subtracts ==
    ASSUME NEW c \in Word, NEW value \in Word
    PROVE  /\ ip_checksum_sub(c, value) \in Word
           /\ ip_checksum_sub(c, value) \in {c + value, c + value - (Words - 1)}
BY WordsAssumption DEF Word, ip_checksum_sub, Not

\* ip_checksum_add puts value back the same way.
LEMMA Adds ==
    ASSUME NEW c \in Word, NEW value \in Word
    PROVE  /\ ip_checksum_add(c, value) \in Word
           /\ ip_checksum_add(c, value) \in {c - value, c - value + (Words - 1)}
BY WordsAssumption DEF Word, ip_checksum_add, Not

\* Either step leaves the checked sum of a header what it was.
LEMMA SubtractKeepsSum ==
    ASSUME NEW c \in Word, NEW value \in Word, NEW sum \in Int
    PROVE  (sum + ip_checksum_sub(c, value)) % (Words - 1) = (sum + value + c) % (Words - 1)
<1> DEFINE m == Words - 1
           a == sum + value + c
<1>1. m \in Nat /\ m > 0 /\ a \in Int
    BY WordsAssumption DEF Word
<1>2. (a - m) % m = a % m
  <2> HIDE DEF m, a
  <2> QED
    BY <1>1, ModStep
<1>3. ip_checksum_sub(c, value) \in {c + value, c + value - m}
    BY Subtracts
<1>4. sum + ip_checksum_sub(c, value) \in {a, a - m}
    BY <1>1, <1>3, WordsAssumption DEF Word
<1> QED
    BY <1>2, <1>4

LEMMA AddKeepsSum ==
    ASSUME NEW c \in Word, NEW value \in Word, NEW sum \in Int
    PROVE  (sum + value + ip_checksum_add(c, value)) % (Words - 1) = (sum + c) % (Words - 1)
<1> DEFINE m == Words - 1
           a == sum + c
<1>1. m \in Nat /\ m > 0 /\ a \in Int
    BY WordsAssumption DEF Word
<1>2. (a + m) % m = a % m
  <2> HIDE DEF m, a
  <2> QED
    BY <1>1, ModStep
<1>3. ip_checksum_add(c, value) \in {c - value, c - value + m}
    BY Adds
<1>4. sum + value + ip_checksum_add(c, value) \in {a, a + m}
    BY <1>1, <1>3, WordsAssumption DEF Word
<1> QED
    BY <1>2, <1>4
=============================================================================
