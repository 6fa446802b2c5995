--------------------------- MODULE NumberTheorems ---------------------------
(***************************************************************************)
(* Facts about numbers that several proofs need.                           *)
(*                                                                         *)
(* Remainders: what % and \div mean, and that multiples of the modulus do  *)
(* not change a remainder.                                                 *)
(*                                                                         *)
(* Sums of the values of a function: what SumFunction of the community     *)
(* module Functions computes.  It adds the values in an order that CHOOSE  *)
(* decides; the theorems say that the sum is the same in every order.      *)
(* Each induction is over the size of a set, as the search for a smallest  *)
(* counterexample.                                                         *)
(***************************************************************************)
EXTENDS Functions, FiniteSetTheorems, TLAPS

-----------------------------------------------------------------------------
(* Remainders. *)

\* A product of an integer of at least 1 and one of at least 0.
LEMMA AtLeast ==
    ASSUME NEW m \in Nat, NEW k \in Int, k >= 1
    PROVE  m * k >= m
OBVIOUS

\* Quotient and remainder exist and are unique.
LEMMA Division ==
    ASSUME NEW m \in Nat, m > 0, NEW a \in Int
    PROVE  /\ a \div m \in Int
           /\ a % m \in 0 .. m - 1
           /\ a = m * (a \div m) + (a % m)
OBVIOUS

LEMMA Remainder ==
    ASSUME NEW m \in Nat, m > 0, NEW q \in Int, NEW r \in 0 .. m - 1
    PROVE  (m * q + r) % m = r
<1> DEFINE a == m * q + r
           d == q - (a \div m)
<1>1. a \in Int
    OBVIOUS
<1>2. m * d = (a % m) - r /\ d \in Int /\ a % m \in 0 .. m - 1
    BY <1>1, Division
<1>3. ~(d >= 1)
    BY <1>2, AtLeast
<1>4. ~(d <= -1)
  <2>1. SUFFICES ASSUME d <= -1 PROVE FALSE
    OBVIOUS
  <2>2. m * (-d) >= m
    BY <1>2, <2>1, AtLeast
  <2> QED
    BY <1>2, <2>2
<1>5. d = 0
    BY <1>2, <1>3, <1>4
<1> QED
    BY <1>2, <1>5

\* One subtraction or addition of the modulus does not change a remainder.
LEMMA ModShift ==
    ASSUME NEW m \in Nat, m > 0, NEW a \in Int, NEW k \in Int
    PROVE  (a + m * k) % m = a % m
<1> DEFINE q == (a \div m) + k
           r == a % m
<1>1. a + m * k = m * q + r /\ q \in Int /\ r \in 0 .. m - 1
    BY Division
<1>2. (m * q + r) % m = r
  <2> HIDE DEF q, r
  <2> QED
    BY <1>1, Remainder
<1> QED
    BY <1>1, <1>2

LEMMA ModStep ==
    ASSUME NEW m \in Nat, m > 0, NEW a \in Int
    PROVE  /\ (a + m) % m = a % m
           /\ (a - m) % m = a % m
<1> DEFINE up == 1
           down == -1
<1>1. up \in Int /\ down \in Int /\ a + m * up = a + m /\ a + m * down = a - m
    OBVIOUS
<1> HIDE DEF up, down
<1>2. (a + m * up) % m = a % m
    BY <1>1, ModShift
<1>3. (a + m * down) % m = a % m
    BY <1>1, ModShift
<1> QED
    BY <1>1, <1>2, <1>3

LEMMA ModShort ==
    ASSUME NEW m \in Nat, m > 0, NEW a \in 0 .. m - 1
    PROVE  a % m = a
<1> DEFINE q == 0
<1>1. q \in Int /\ m * q + a = a
    OBVIOUS
<1>2. (m * q + a) % m = a
  <2> HIDE DEF q
  <2> QED
    BY <1>1, Remainder
<1> QED
    BY <1>1, <1>2

\* A remainder taken inside a sum does not change the remainder of the sum.
LEMMA ModOfSum ==
    ASSUME NEW m \in Nat, m > 0, NEW a \in Int, NEW b \in Int
    PROVE  /\ (a + (b % m)) % m = (a + b) % m
           /\ (a - (b % m)) % m = (a - b) % m
           /\ ((b % m) + a) % m = (b + a) % m
           /\ (b % m) % m = b % m
<1> DEFINE q == b \div m
           r == b % m
           n == -q
           up == a + b
           down == a - b
<1>1. q \in Int /\ r \in 0 .. m - 1 /\ b = m * q + r
    BY Division
<1>2. n \in Int /\ up \in Int /\ down \in Int
    BY <1>1
<1>3. a + r = up + m * n /\ a - r = down + m * q /\ r + a = up + m * n /\ b + a = up
    BY <1>1
<1> HIDE DEF q, r, n
<1>4. (up + m * n) % m = up % m /\ (down + m * q) % m = down % m
  <2> HIDE DEF up, down
  <2> QED
    BY <1>1, <1>2, ModShift
<1>5. r % m = r
    BY <1>1, ModShort
<1> QED
    BY <1>3, <1>4, <1>5 DEF r

LEMMA Quotient ==
    ASSUME NEW m \in Nat, m > 0, NEW q \in Int, NEW r \in 0 .. m - 1
    PROVE  (m * q + r) \div m = q
<1> DEFINE a == m * q + r
           t == a \div m
           d == q - t
<1>1. a \in Int
    OBVIOUS
<1>2. t \in Int /\ a = m * t + (a % m)
    BY <1>1, Division
<1>3. a % m = r
    BY Remainder
<1>4. m * d = 0 /\ d \in Int
    BY <1>2, <1>3
<1>5. ~(d >= 1)
    BY <1>4, AtLeast
<1>6. ~(-d >= 1)
  <2>1. m * (-d) = 0 /\ -d \in Int
    BY <1>4
  <2> QED
    BY <2>1, AtLeast
<1> QED
    BY <1>2, <1>4, <1>5, <1>6

\* Between two multiples there is none.
LEMMA NextMultiple ==
    ASSUME NEW m \in Nat, m > 0, NEW k \in Int, NEW p \in Int,
           p % m = 0, (k - 1) * m < p, p <= k * m
    PROVE  p = k * m
<1> DEFINE q == p \div m
<1>1. q \in Int /\ p = m * q + (p % m)
    BY Division
<1> HIDE DEF q
<1>2. p = m * q
    BY <1>1
<1>3. CASE q >= k + 1
  <2>1. q - k \in Int /\ q - k >= 1
      BY <1>1, <1>3
  <2>2. m * (q - k) >= m
      BY <2>1, AtLeast
  <2> QED
      BY <1>1, <1>2, <2>2
<1>4. CASE q <= k - 1
  <2>1. k - q \in Int /\ k - q >= 1
      BY <1>1, <1>4
  <2>2. m * (k - q) >= m
      BY <2>1, AtLeast
  <2> QED
      BY <1>1, <1>2, <2>2
<1>5. CASE q = k
    BY <1>2, <1>5
<1> QED
    BY <1>1, <1>3, <1>4, <1>5

LEMMA IsMultiple ==
    ASSUME NEW m \in Nat, m > 0, NEW k \in Int
    PROVE  (k * m) % m = 0
<1>1. 0 \in 0 .. m - 1
    OBVIOUS
<1>2. (m * k + 0) % m = 0
    BY <1>1, Remainder
<1>3. m * k + 0 = k * m
    OBVIOUS
<1> QED
    BY <1>2, <1>3

LEMMA MoreBy ==
    ASSUME NEW m \in Nat, m > 0, NEW k \in Int
    PROVE  /\ k * m \in Int /\ (k - 1) * m \in Int
           /\ k * m = (k - 1) * m + m
OBVIOUS

\* A remainder modulo a multiple of the modulus.
LEMMA ModOfMod ==
    ASSUME NEW m \in Nat, m > 0, NEW k \in Nat, k > 0, m % k = 0, NEW a \in Int
    PROVE  (a % m) % k = a % k
<1> DEFINE t == m \div k
           q == a \div m
           n == -(t * q)
<1>1. t \in Int /\ m = k * t
    BY Division
<1>2. q \in Int /\ a = m * q + (a % m) /\ a % m \in Int
    BY Division
<1>3. n \in Int /\ m * q = -(k * n)
  <2> HIDE DEF t, q
  <2> QED
    BY <1>1, <1>2
<1>4. a % m = a + k * n
    BY <1>1, <1>2, <1>3
<1> HIDE DEF n
<1> QED
    BY <1>3, <1>4, ModShift

\* Two differences from the same number.
LEMMA ModDifferences ==
    ASSUME NEW m \in Nat, m > 0, NEW a \in Int, NEW b \in Int, NEW e \in Int
    PROVE  /\ (((a - e) % m) - ((b - e) % m)) % m = (a - b) % m
           /\ ((a - e) % m) % m = (a - e) % m
           /\ (a - a) % m = 0
<1> DEFINE x == a - e
           y == b - e
           n == -y
           z == a - a
           r == x % m
<1>1. x \in Int /\ y \in Int /\ n \in Int /\ x - y = a - b /\ x + n = x - y /\ z = 0
    OBVIOUS
<1> HIDE DEF x, y, z, n
<1>2. r \in Int
    BY <1>1, Division
<1>3. r + n = r - y
    BY <1>2 DEF n
<1>4. (r - (y % m)) % m = (r - y) % m
  <2> HIDE DEF r
  <2> QED
    BY <1>1, <1>2, ModOfSum
<1>5. (r + n) % m = (x + n) % m
    BY <1>1, ModOfSum
<1>6. r % m = x % m
    BY <1>1, ModOfSum
<1>7. z % m = 0
    BY <1>1, ModShort
<1>8. (r - (y % m)) % m = (a - b) % m
    BY <1>1, <1>3, <1>4, <1>5, Zenon
<1> QED
    BY <1>6, <1>7, <1>8 DEF x, y, z

\* A wrapped difference, seen through a modulus that divides the wrap.
LEMMA ModTwice ==
    ASSUME NEW m \in Nat, m > 0, NEW k \in Nat, k > 0, m % k = 0,
           NEW a \in Int, NEW b \in Int, NEW d \in Int, a % k = b % k
    PROVE  (a + (d % m)) % k = (b + d) % k
<1> DEFINE r == d % m
<1>1. r \in Int
    BY Division
<1>2. r % k = d % k
    BY ModOfMod
<1>3. (a + r) % k = (a + (r % k)) % k
  <2> HIDE DEF r
  <2> QED
    BY <1>1, ModOfSum
<1>4. (a + (d % k)) % k = (a + d) % k
    BY ModOfSum
<1>5. (a + d) % k = ((a % k) + d) % k
    BY ModOfSum
<1>6. ((b % k) + d) % k = (b + d) % k
    BY ModOfSum
<1> HIDE DEF r
<1>7. (a + r) % k = (b + d) % k
    BY <1>2, <1>3, <1>4, <1>5, <1>6, Zenon
<1> QED
    BY <1>7 DEF r

-----------------------------------------------------------------------------
(* The smallest of a set of numbers, and of a set of finite sets. *)

LEMMA Smallest ==
    ASSUME NEW T \in SUBSET Nat, T # {}
    PROVE  \E x \in T : \A y \in T : x <= y
<1>1. \E x \in T : \A y \in T : ~(<<y, x>> \in OpToRel(<, Nat))
    BY NatLessThanWellFounded, WFMin
<1>2. ASSUME NEW x \in Nat, NEW y \in Nat, ~(<<y, x>> \in OpToRel(<, Nat))
      PROVE  x <= y
    BY <1>2 DEF OpToRel
<1> QED
    BY <1>1, <1>2

\* Induction up to a number.
LEMMA UpTo ==
    ASSUME NEW c \in Nat, NEW T, 0 \in T, \A n \in 0 .. c - 1 : n \in T => n + 1 \in T
    PROVE  0 .. c \subseteq T
<1> DEFINE wrong == {n \in 0 .. c : n \notin T}
<1> SUFFICES ASSUME wrong # {} PROVE FALSE
    OBVIOUS
<1>1. PICK x \in wrong : \A y \in wrong : x <= y
  <2>1. wrong \in SUBSET Nat
    OBVIOUS
  <2> QED
    BY <2>1, Smallest
<1>2. x \in 0 .. c /\ x \notin T /\ x # 0
    BY <1>1
<1>3. x - 1 \in 0 .. c - 1 /\ x - 1 \notin wrong
    BY <1>1, <1>2
<1>4. x - 1 \in T /\ (x - 1) + 1 = x
    BY <1>2, <1>3
<1> QED
    BY <1>2, <1>3, <1>4

\* Of the finite sets with some property one is smallest: all sets with an
\* element less lack the property.
LEMMA SmallestSet ==
    ASSUME NEW X, X # {}, \A T \in X : IsFiniteSet(T)
    PROVE  \E T \in X : \A x \in T : T \ {x} \notin X
<1> DEFINE sizes == {Cardinality(T) : T \in X}
<1>1. sizes \in SUBSET Nat /\ sizes # {}
    BY FS_CardinalityType
<1>2. PICK n \in sizes : \A m \in sizes : n <= m
    BY <1>1, Smallest
<1>3. PICK T \in X : n = Cardinality(T)
    BY <1>2
<1>4. \A x \in T : T \ {x} \notin X
  <2> SUFFICES ASSUME NEW x \in T, T \ {x} \in X PROVE FALSE
      OBVIOUS
  <2>1. Cardinality(T \ {x}) = Cardinality(T) - 1
      BY FS_RemoveElement
  <2>2. Cardinality(T) \in Nat
      BY FS_CardinalityType
  <2> QED
      BY <1>2, <1>3, <2>1, <2>2
<1> QED
    BY <1>4

-----------------------------------------------------------------------------
(* The recursive function behind SumFunction. *)

First(s) == CHOOSE x \in s : TRUE

\* iter[s] is the sum of f over s.
Sums(f, S, iter) ==
    iter = [s \in SUBSET S |-> IF s = {} THEN 0 ELSE f[First(s)] + iter[s \ {First(s)}]]

LEMMA FirstIsElement ==
    ASSUME NEW s, s # {}
    PROVE  First(s) \in s
BY DEF First

\* There are partial sums of sets with up to n elements, for any n.
LEMMA SumsExist ==
    ASSUME NEW S, IsFiniteSet(S), NEW f
    PROVE  \E iter : Sums(f, S, iter)
<1> DEFINE Small(n) == {s \in SUBSET S : Cardinality(s) <= n}
           Partial(n, g) == g = [s \in Small(n) |->
                              IF s = {} THEN 0 ELSE f[First(s)] + g[s \ {First(s)}]]
           lacking == {n \in Nat : ~ \E g : Partial(n, g)}
<1>1. \A s \in SUBSET S :
        IsFiniteSet(s) /\ Cardinality(s) \in Nat /\ Cardinality(s) <= Cardinality(S)
    BY FS_Subset, FS_CardinalityType
<1>2. \A s \in SUBSET S : s # {} =>
          /\ s \ {First(s)} \in SUBSET S
          /\ Cardinality(s \ {First(s)}) = Cardinality(s) - 1
    BY <1>1, FirstIsElement, FS_RemoveElement
<1>3. 0 \notin lacking
  <2> DEFINE g == [s \in Small(0) |-> 0]
  <2>1. \A s \in Small(0) : s = {}
      BY <1>1, FS_EmptySet
  <2>2. g = [s \in Small(0) |-> IF s = {} THEN 0 ELSE f[First(s)] + g[s \ {First(s)}]]
      BY <2>1
  <2> QED
      BY <2>2
<1>4. \A n \in Nat : n \notin lacking => n + 1 \notin lacking
  <2> SUFFICES ASSUME NEW n \in Nat, NEW g, Partial(n, g)
               PROVE  \E h : Partial(n + 1, h)
      OBVIOUS
  <2> DEFINE h == [s \in Small(n + 1) |->
                    IF s = {} THEN 0 ELSE f[First(s)] + g[s \ {First(s)}]]
  <2>1. \A s \in Small(n) : s \in Small(n + 1) /\ h[s] = g[s]
    <3> TAKE s \in Small(n)
    <3>1. s \in Small(n + 1)
        BY <1>1
    <3>2. h[s] = IF s = {} THEN 0 ELSE f[First(s)] + g[s \ {First(s)}]
        BY <3>1
    <3> HIDE DEF Small, h
    <3>3. g[s] = IF s = {} THEN 0 ELSE f[First(s)] + g[s \ {First(s)}]
        OBVIOUS
    <3> QED
        BY <3>1, <3>2, <3>3
  <2>2. \A s \in Small(n + 1) : s # {} => s \ {First(s)} \in Small(n)
      BY <1>1, <1>2
  <2>3. \A s \in Small(n + 1) : s # {} => g[s \ {First(s)}] = h[s \ {First(s)}]
      BY <2>1, <2>2
  <2> HIDE DEF Small
  <2>4. h = [s \in Small(n + 1) |-> IF s = {} THEN 0 ELSE f[First(s)] + h[s \ {First(s)}]]
      BY <2>3
  <2> QED
      BY <2>4
<1>5. lacking = {}
  <2> SUFFICES ASSUME lacking # {} PROVE FALSE
      OBVIOUS
  <2>1. PICK n \in lacking : \A m \in lacking : n <= m
      BY Smallest
  <2>2. n \in Nat \ {0}
      BY <2>1, <1>3
  <2> HIDE DEF lacking
  <2>3. n - 1 \in Nat /\ n - 1 \notin lacking
      BY <2>1, <2>2
  <2> QED
      BY <1>4, <2>1, <2>2, <2>3
<1>6. Cardinality(S) \in Nat /\ Small(Cardinality(S)) = SUBSET S
    BY <1>1
<1>7. PICK g : Partial(Cardinality(S), g)
    BY <1>5, <1>6
<1> QED
    BY <1>6, <1>7 DEF Sums

LEMMA SumFunctionIsSum ==
    ASSUME NEW f
    PROVE  SumFunction(f) = (CHOOSE iter : Sums(f, DOMAIN f, iter))[DOMAIN f]
BY DEF SumFunction, SumFunctionOnSet, FoldFunctionOnSet, MapThenFoldSet, Sums, First

LEMMA SumFunctionSums ==
    ASSUME NEW f, IsFiniteSet(DOMAIN f)
    PROVE  \E iter : Sums(f, DOMAIN f, iter) /\ SumFunction(f) = iter[DOMAIN f]
BY SumsExist, SumFunctionIsSum

-----------------------------------------------------------------------------
(* Every partial sum is an integer and does not depend on the order. *)

LEMMA SumsStep ==
    ASSUME NEW S, IsFiniteSet(S), NEW f, NEW iter, Sums(f, S, iter)
    PROVE  /\ iter[{}] = 0
           /\ \A T \in SUBSET S : T # {} =>
                /\ First(T) \in T
                /\ iter[T] = f[First(T)] + iter[T \ {First(T)}]
           /\ \A T \in SUBSET S : IsFiniteSet(T)
<1>1. \A T \in SUBSET S : iter[T] = IF T = {} THEN 0 ELSE f[First(T)] + iter[T \ {First(T)}]
    BY DEF Sums
<1> QED
    BY <1>1, FirstIsElement, FS_Subset

LEMMA SumsType ==
    ASSUME NEW S, IsFiniteSet(S), NEW f, NEW iter, Sums(f, S, iter),
           NEW V, 0 \in V, \A a, b \in V : a + b \in V,
           \A x \in S : f[x] \in V
    PROVE  \A T \in SUBSET S : iter[T] \in V
<1> DEFINE wrong == {T \in SUBSET S : iter[T] \notin V}
<1> SUFFICES ASSUME wrong # {} PROVE FALSE
    OBVIOUS
<1>1. PICK T \in wrong : \A x \in T : T \ {x} \notin wrong
    BY SumsStep, SmallestSet
<1>2. T # {}
  <2>1. iter[{}] \in V
      BY SumsStep
  <2> QED
      BY <1>1, <2>1
<1>3. First(T) \in T /\ iter[T] = f[First(T)] + iter[T \ {First(T)}]
    BY <1>1, <1>2, SumsStep
<1>4. f[First(T)] \in V /\ iter[T \ {First(T)}] \in V
    BY <1>1, <1>3
<1> QED
    BY <1>1, <1>3, <1>4

LEMMA SumsAnyOrder ==
    ASSUME NEW S, IsFiniteSet(S), NEW f, NEW iter, Sums(f, S, iter),
           \A x \in S : f[x] \in Int
    PROVE  \A T \in SUBSET S : \A x \in T : iter[T] = f[x] + iter[T \ {x}]
<1> DEFINE right(T) == \A x \in T : iter[T] = f[x] + iter[T \ {x}]
           wrong == {T \in SUBSET S : ~right(T)}
<1> SUFFICES ASSUME wrong # {} PROVE FALSE
    OBVIOUS
<1>1. PICK T \in wrong : \A x \in T : T \ {x} \notin wrong
    BY SumsStep, SmallestSet
<1>2. PICK x \in T : iter[T] # f[x] + iter[T \ {x}]
    BY <1>1
<1> DEFINE c == First(T)
<1>3. c \in T /\ iter[T] = f[c] + iter[T \ {c}]
    BY <1>2, SumsStep
<1>4. c # x
    BY <1>2, <1>3
<1>5. right(T \ {c}) /\ right(T \ {x})
    BY <1>1, <1>2, <1>3
<1> HIDE DEF c
<1>6. /\ iter[T \ {c}] = f[x] + iter[(T \ {c}) \ {x}]
      /\ iter[T \ {x}] = f[c] + iter[(T \ {x}) \ {c}]
    BY <1>2, <1>3, <1>4, <1>5
<1>7. (T \ {c}) \ {x} = (T \ {x}) \ {c} /\ (T \ {x}) \ {c} \in SUBSET S
    OBVIOUS
<1> DEFINE both == iter[(T \ {x}) \ {c}]
<1>8. f[x] \in Int /\ f[c] \in Int /\ both \in Int
    BY <1>2, <1>3, <1>7, SumsType
<1>9. iter[T] = f[c] + (f[x] + both)
    BY <1>3, <1>6, <1>7
<1>10. f[x] + iter[T \ {x}] = f[x] + (f[c] + both)
    BY <1>6
<1> HIDE DEF both
<1>11. f[c] + (f[x] + both) = f[x] + (f[c] + both)
    BY <1>8
<1> QED
    BY <1>2, <1>9, <1>10, <1>11

LEMMA SumsAgree ==
    ASSUME NEW S, IsFiniteSet(S), NEW f, NEW iterF, Sums(f, S, iterF),
           NEW R \in SUBSET S, NEW g, NEW iterG, Sums(g, R, iterG),
           \A x \in R : f[x] = g[x]
    PROVE  \A T \in SUBSET R : iterF[T] = iterG[T]
<1> DEFINE wrong == {T \in SUBSET R : iterF[T] # iterG[T]}
<1> SUFFICES ASSUME wrong # {} PROVE FALSE
    OBVIOUS
<1>0. IsFiniteSet(R)
    BY FS_Subset
<1>1. PICK T \in wrong : \A x \in T : T \ {x} \notin wrong
    BY <1>0, SumsStep, SmallestSet
<1>2. T \in SUBSET S /\ T \in SUBSET R /\ iterF[T] # iterG[T]
    BY <1>1
<1>3. T # {}
    BY <1>0, <1>2, SumsStep
<1>4. /\ First(T) \in T
      /\ iterF[T] = f[First(T)] + iterF[T \ {First(T)}]
      /\ iterG[T] = g[First(T)] + iterG[T \ {First(T)}]
    BY <1>0, <1>2, <1>3, SumsStep
<1>5. iterF[T \ {First(T)}] = iterG[T \ {First(T)}]
    BY <1>1, <1>4
<1> QED
    BY <1>2, <1>4, <1>5

-----------------------------------------------------------------------------
(* What is used of sums elsewhere. *)

THEOREM SumOfNone ==
    ASSUME NEW f, DOMAIN f = {}
    PROVE  SumFunction(f) = 0
<1>1. IsFiniteSet(DOMAIN f)
    BY FS_EmptySet
<1> QED
    BY <1>1, SumFunctionSums, SumsStep

\* A sum stays in a set that is closed under addition, as Nat, Int and {0} are.
THEOREM SumType ==
    ASSUME NEW S, IsFiniteSet(S), NEW V, 0 \in V, \A a, b \in V : a + b \in V,
           NEW f \in [S -> V]
    PROVE  SumFunction(f) \in V
<1>1. PICK iter : Sums(f, S, iter) /\ SumFunction(f) = iter[S]
    BY SumFunctionSums
<1>2. \A x \in S : f[x] \in V
    OBVIOUS
<1> QED
    BY <1>1, <1>2, SumsType

THEOREM SumIsInt ==
    ASSUME NEW f, IsFiniteSet(DOMAIN f), f \in [DOMAIN f -> Int]
    PROVE  SumFunction(f) \in Int
<1>1. 0 \in Int /\ \A a, b \in Int : a + b \in Int
    OBVIOUS
<1> QED
    BY <1>1, SumType

\* The value of any one element can be taken out of the sum.
THEOREM SumWithout ==
    ASSUME NEW S, IsFiniteSet(S), NEW f \in [S -> Int], NEW x \in S,
           NEW g \in [S \ {x} -> Int], \A y \in S \ {x} : g[y] = f[y]
    PROVE  SumFunction(f) = f[x] + SumFunction(g)
<1>1. IsFiniteSet(S \ {x})
    BY FS_Subset
<1>2. PICK iterF : Sums(f, S, iterF) /\ SumFunction(f) = iterF[S]
    BY SumFunctionSums
<1>3. PICK iterG : Sums(g, S \ {x}, iterG) /\ SumFunction(g) = iterG[S \ {x}]
    BY <1>1, SumFunctionSums
<1>4. iterF[S] = f[x] + iterF[S \ {x}]
    BY <1>2, SumsAnyOrder
<1>5. iterF[S \ {x}] = iterG[S \ {x}]
    BY <1>2, <1>3, SumsAgree
<1> QED
    BY <1>2, <1>3, <1>4, <1>5

\* g has the values of f, but perhaps for x.
ChangedAt(g, f, x) ==
    LET S == DOMAIN f
    IN  /\ IsFiniteSet(S) /\ x \in S
        /\ f \in [S -> Int] /\ g \in [S -> Int]
        /\ \A y \in S \ {x} : g[y] = f[y]

THEOREM SumChanged ==
    \A g, f, x : ChangedAt(g, f, x) => SumFunction(g) = SumFunction(f) + g[x] - f[x]
<1> TAKE g, f, x
<1> DEFINE S == DOMAIN f
           rest == [y \in S \ {x} |-> f[y]]
<1> HAVE ChangedAt(g, f, x)
<1>0. /\ IsFiniteSet(S) /\ x \in S
      /\ f \in [S -> Int] /\ g \in [S -> Int]
      /\ \A y \in S \ {x} : g[y] = f[y]
    BY DEF ChangedAt
<1> HIDE DEF S
<1>1. /\ rest \in [S \ {x} -> Int]
      /\ \A y \in S \ {x} : rest[y] = f[y] /\ rest[y] = g[y]
    BY <1>0
<1> HIDE DEF rest
<1>2. SumFunction(f) = f[x] + SumFunction(rest) /\ SumFunction(g) = g[x] + SumFunction(rest)
    BY <1>0, <1>1, SumWithout
<1>3. SumFunction(rest) \in Int /\ f[x] \in Int /\ g[x] \in Int
  <2>1. IsFiniteSet(S \ {x})
      BY <1>0, FS_Subset
  <2> QED
      BY <1>0, <1>1, <2>1, SumIsInt
<1> QED
    BY <1>2, <1>3

\* g has the values of f, and one more, at x.
OneMore(g, f, x) ==
    LET S == DOMAIN f
    IN  /\ IsFiniteSet(S) /\ f \in [S -> Int]
        /\ x \notin S
        /\ g \in [S \cup {x} -> Int]
        /\ \A y \in S : g[y] = f[y]

THEOREM SumOneMore ==
    \A g, f, x : OneMore(g, f, x) => SumFunction(g) = SumFunction(f) + g[x]
<1> TAKE g, f, x
<1> DEFINE S == DOMAIN f
           R == S \cup {x}
<1> HAVE OneMore(g, f, x)
<1>0. /\ IsFiniteSet(S) /\ f \in [S -> Int] /\ x \notin S
      /\ g \in [R -> Int] /\ \A y \in S : g[y] = f[y]
    BY DEF OneMore
<1>1. IsFiniteSet(R) /\ x \in R /\ R \ {x} = S
    BY <1>0, FS_AddElement
<1> HIDE DEF R, S
<1>2. SumFunction(f) \in Int /\ g[x] \in Int
    BY <1>0, <1>1, SumIsInt
<1>3. SumFunction(g) = g[x] + SumFunction(f)
  <2>1. f \in [R \ {x} -> Int] /\ \A y \in R \ {x} : f[y] = g[y]
      BY <1>0, <1>1
  <2> QED
      BY <1>0, <1>1, <2>1, SumWithout
<1> QED
    BY <1>2, <1>3

\* A value more at the end of a sequence.
THEOREM SumAppended ==
    ASSUME NEW n \in Nat, NEW f \in [1 .. n -> Int], NEW g \in [1 .. n + 1 -> Int],
           \A i \in 1 .. n : g[i] = f[i]
    PROVE  SumFunction(g) = SumFunction(f) + g[n + 1]
<1>1. n + 1 \notin 1 .. n /\ g \in [(1 .. n) \cup {n + 1} -> Int]
    OBVIOUS
<1>2. IsFiniteSet(1 .. n)
    BY FS_Interval
<1>3. OneMore(g, f, n + 1)
    BY <1>1, <1>2 DEF OneMore
<1> QED
    BY <1>3, SumOneMore, Zenon

\* A value more in front of a sequence.
THEOREM SumInFront ==
    ASSUME NEW n \in Nat, NEW f \in [1 .. n -> Int], NEW g \in [1 .. n + 1 -> Int],
           \A i \in 1 .. n : g[i + 1] = f[i]
    PROVE  SumFunction(g) = g[1] + SumFunction(f)
<1> DEFINE F(k) == [i \in 1 .. k |-> f[i]]
           G(k) == [i \in 1 .. k |-> g[i]]
           right == {k \in 0 .. n : SumFunction(G(k + 1)) = g[1] + SumFunction(F(k))}
<1>1. 0 \in right
  <2> DEFINE none == F(0)
             one == G(1)
  <2>1. SumFunction(none) = 0
      BY SumOfNone
  <2>2. 0 \in Nat /\ none \in [1 .. 0 -> Int] /\ one \in [1 .. 0 + 1 -> Int] /\ one[0 + 1] = g[1]
        /\ \A i \in 1 .. 0 : one[i] = none[i]
      OBVIOUS
  <2> HIDE DEF none, one
  <2>3. SumFunction(one) = SumFunction(none) + one[0 + 1]
      BY <2>2, SumAppended
  <2>4. SumFunction(one) = g[1] + SumFunction(none)
      BY <2>1, <2>2, <2>3
  <2> QED
      BY <2>4 DEF none, one
<1>2. ASSUME NEW k \in 0 .. n - 1, k \in right
      PROVE  k + 1 \in right
  <2> DEFINE old == F(k)
             new == F(k + 1)
             oldG == G(k + 1)
             newG == G(k + 1 + 1)
  <2>1. /\ k \in Nat /\ k + 1 \in Nat
        /\ old \in [1 .. k -> Int] /\ new \in [1 .. k + 1 -> Int]
        /\ oldG \in [1 .. k + 1 -> Int] /\ newG \in [1 .. k + 1 + 1 -> Int]
        /\ \A i \in 1 .. k : new[i] = old[i]
        /\ \A i \in 1 .. k + 1 : newG[i] = oldG[i]
        /\ newG[k + 1 + 1] = new[k + 1] /\ new[k + 1] \in Int /\ g[1] \in Int
      OBVIOUS
  <2>2. SumFunction(oldG) = g[1] + SumFunction(old)
      BY <1>2
  <2>3. IsFiniteSet(1 .. k)
      BY <2>1, FS_Interval
  <2> HIDE DEF old, new, oldG, newG
  <2>4. SumFunction(new) = SumFunction(old) + new[k + 1]
      BY <2>1, SumAppended
  <2>5. SumFunction(newG) = SumFunction(oldG) + newG[k + 1 + 1]
      BY <2>1, SumAppended
  <2>6. SumFunction(old) \in Int
      BY <2>1, <2>3, SumIsInt
  <2>7. SumFunction(newG) = g[1] + SumFunction(new)
      BY <2>1, <2>2, <2>4, <2>5, <2>6
  <2>8. k + 1 \in 0 .. n
      OBVIOUS
  <2> QED
      BY <2>7, <2>8 DEF new, newG
<1>3. 0 .. n \subseteq right
  <2> HIDE DEF right
  <2> QED
      BY <1>1, <1>2, UpTo
<1>4. F(n) = f /\ G(n + 1) = g /\ n \in 0 .. n
    OBVIOUS
<1> QED
    BY <1>3, <1>4

\* The sum of the values up to an index.
PartialSum(f, j) == SumFunction([i \in 0 .. j |-> f[i]])

THEOREM PartialSums ==
    ASSUME NEW c \in Nat, NEW f \in [0 .. c -> Int]
    PROVE  /\ \A j \in 0 .. c : PartialSum(f, j) \in Int
           /\ PartialSum(f, 0) = f[0]
           /\ \A j \in 0 .. c - 1 : PartialSum(f, j + 1) = PartialSum(f, j) + f[j + 1]
           /\ PartialSum(f, c) = SumFunction(f)
<1> DEFINE part(j) == [i \in 0 .. j |-> f[i]]
<1>1. ASSUME NEW j \in 0 .. c
      PROVE  part(j) \in [0 .. j -> Int] /\ IsFiniteSet(0 .. j) /\ PartialSum(f, j) \in Int
  <2>1. part(j) \in [0 .. j -> Int]
    OBVIOUS
  <2>2. IsFiniteSet(0 .. j)
    BY FS_Interval
  <2>3. DOMAIN part(j) = 0 .. j
    OBVIOUS
  <2>4. SumFunction(part(j)) \in Int
    <3> DEFINE g == part(j)
    <3>1. g \in [DOMAIN g -> Int] /\ IsFiniteSet(DOMAIN g)
      BY <2>1, <2>2, <2>3
    <3> HIDE DEF g
    <3>2. SumFunction(g) \in Int
      BY <3>1, SumIsInt
    <3> QED
      BY <3>2 DEF g
  <2> QED
    BY <2>1, <2>2, <2>4 DEF PartialSum
<1>2. PartialSum(f, 0) = f[0]
  <2> DEFINE none == [i \in {} |-> f[i]]
             g == part(0)
             zero == 0
  <2>1. DOMAIN none = {} /\ none \in [{} -> Int]
    OBVIOUS
  <2>2. 0 .. 0 = {0}
    OBVIOUS
  <2>3. g \in [{zero} -> Int] /\ g[zero] = f[0]
    BY <2>2
  <2> HIDE DEF none, g, zero
  <2>4. OneMore(g, none, zero)
    BY <2>1, <2>3, FS_EmptySet DEF OneMore
  <2>5. SumFunction(g) = SumFunction(none) + g[zero]
    BY <2>4, SumOneMore, Zenon
  <2>6. SumFunction(none) = 0
    BY <2>1, SumOfNone
  <2>7. f[0] \in Int
    OBVIOUS
  <2>8. SumFunction(g) = f[0]
    BY <2>3, <2>5, <2>6, <2>7
  <2> QED
    BY <2>8 DEF PartialSum, g
<1>3. ASSUME NEW j \in 0 .. c - 1
      PROVE  PartialSum(f, j + 1) = PartialSum(f, j) + f[j + 1]
  <2> DEFINE g == part(j)
             h == part(j + 1)
             x == j + 1
  <2>1. j \in 0 .. c /\ j + 1 \in 0 .. c
    OBVIOUS
  <2>2. /\ g \in [0 .. j -> Int] /\ IsFiniteSet(0 .. j) /\ DOMAIN g = 0 .. j
        /\ 0 .. j + 1 = (0 .. j) \cup {x} /\ x \notin 0 .. j
        /\ h \in [0 .. j + 1 -> Int] /\ \A y \in 0 .. j : h[y] = g[y]
        /\ h[x] = f[j + 1]
    BY <1>1, <2>1
  <2> HIDE DEF g, h, x
  <2>3. OneMore(h, g, x)
    BY <2>2 DEF OneMore
  <2>4. SumFunction(h) = SumFunction(g) + h[x]
    BY <2>3, SumOneMore, Zenon
  <2> QED
    BY <2>2, <2>4 DEF PartialSum, g, h
<1>4. PartialSum(f, c) = SumFunction(f)
  <2>1. part(c) = f
    OBVIOUS
  <2> QED
    BY <2>1 DEF PartialSum
<1> QED
    BY <1>1, <1>2, <1>3, <1>4

LEMMA MinusIsInt == \A x, y \in Int : x - y \in Int
OBVIOUS

LEMMA MinusBetween == \A x, y, z \in Int : z - x = (y - x) + (z - y)
OBVIOUS

\* Each difference of plus and minus is what to has grown by, modulo m.
Differences(m, c, from, plus, minus, to) ==
    /\ (plus[0] - minus[0]) % m = (to[0] - from) % m
    /\ \A i \in 0 .. c - 1 :
        (plus[i + 1] - minus[i + 1]) % m = (to[i + 1] - to[i]) % m

\* A sum of differences, each up to what the next is measured from, is one
\* difference: modulo m, for additions and deductions.
THEOREM Telescope ==
    ASSUME NEW m \in Nat, m > 0, NEW c \in Nat, NEW from \in Int,
           NEW plus \in [0 .. c -> Int], NEW minus \in [0 .. c -> Int], NEW to \in [0 .. c -> Int],
           Differences(m, c, from, plus, minus, to)
    PROVE  (SumFunction(plus) - SumFunction(minus)) % m = (to[c] - from) % m
<1> DEFINE P(j) == PartialSum(plus, j)
           M(j) == PartialSum(minus, j)
           right == {j \in 0 .. c : (P(j) - M(j)) % m = (to[j] - from) % m}
<1>1. /\ \A j \in 0 .. c : P(j) \in Int
      /\ P(0) = plus[0]
      /\ \A j \in 0 .. c - 1 : P(j + 1) = P(j) + plus[j + 1]
      /\ P(c) = SumFunction(plus)
    BY PartialSums
<1>2. /\ \A j \in 0 .. c : M(j) \in Int
      /\ M(0) = minus[0]
      /\ \A j \in 0 .. c - 1 : M(j + 1) = M(j) + minus[j + 1]
      /\ M(c) = SumFunction(minus)
    BY PartialSums
<1> HIDE DEF P, M
<1>3. 0 \in right
  <2>1. (plus[0] - minus[0]) % m = (to[0] - from) % m
    BY Zenon DEF Differences
  <2>2. (P(0) - M(0)) % m = (to[0] - from) % m
    BY <1>1, <1>2, <2>1, Zenon
  <2>3. 0 \in 0 .. c
    OBVIOUS
  <2> QED
    BY <2>2, <2>3, Zenon
<1>4. ASSUME NEW j \in 0 .. c - 1, j \in right
      PROVE  j + 1 \in right
  <2> DEFINE d == plus[j + 1] - minus[j + 1]
             e == to[j + 1] - to[j]
             a == P(j) - M(j)
             b == to[j] - from
  <2>1. /\ j \in 0 .. c /\ j + 1 \in 0 .. c
        /\ plus[j + 1] \in Int /\ minus[j + 1] \in Int /\ to[j] \in Int /\ to[j + 1] \in Int
    OBVIOUS
  <2>2. P(j) \in Int /\ M(j) \in Int
    BY <1>1, <1>2, <2>1
  <2>3. d \in Int /\ e \in Int /\ a \in Int /\ b \in Int
    BY <2>1, <2>2, MinusIsInt, Zenon
  <2>4. d % m = e % m /\ a % m = b % m
    BY <1>4, Zenon DEF Differences
  <2>5. P(j + 1) = P(j) + plus[j + 1] /\ M(j + 1) = M(j) + minus[j + 1]
    BY <1>1, <1>2
  <2>6. P(j + 1) - M(j + 1) = a + d /\ to[j + 1] - from = b + e
    <3>1. P(j + 1) - M(j + 1) = a + d
      <4>1. P(j + 1) - M(j + 1) = (P(j) + plus[j + 1]) - (M(j) + minus[j + 1])
        BY <2>5, Zenon
      <4>2. (P(j) + plus[j + 1]) - (M(j) + minus[j + 1]) = a + d
        <5> DEFINE p == P(j)
                   q == M(j)
                   x == plus[j + 1]
                   y == minus[j + 1]
        <5>1. p \in Int /\ q \in Int /\ x \in Int /\ y \in Int
          BY <2>1, <2>2, Zenon
        <5> HIDE DEF p, q, x, y
        <5>2. (p + x) - (q + y) = (p - q) + (x - y)
          BY <5>1
        <5> QED
          BY <5>2, Zenon DEF p, q, x, y
      <4> QED
        BY <4>1, <4>2, Zenon
    <3>2. to[j + 1] - from = b + e
      BY <2>1, MinusBetween, Zenon
    <3> QED
      BY <3>1, <3>2, Zenon
  <2>7. (a + d) % m = (b + e) % m
    <3> HIDE DEF a, b, d, e
    <3>1. (a + d) % m = (a + (d % m)) % m /\ (a + e) % m = (a + (e % m)) % m
      BY <2>3, ModOfSum
    <3>2. (a + e) % m = ((a % m) + e) % m /\ (b + e) % m = ((b % m) + e) % m
      BY <2>3, ModOfSum
    <3> QED
      BY <2>4, <3>1, <3>2
  <2> HIDE DEF a, b, d, e
  <2> QED
    BY <2>1, <2>6, <2>7, Zenon
<1>5. c \in right
  <2> HIDE DEF right
  <2>1. 0 .. c \subseteq right
    BY <1>3, <1>4, UpTo
  <2> QED
    BY <2>1
<1> QED
    BY <1>1, <1>2, <1>5, Zenon

\* A last value that measures from where the sum stands takes it to d.
THEOREM SumCatchesUp ==
    ASSUME NEW m \in Nat, m > 0, NEW g, NEW f, NEW x, NEW d \in 0 .. m - 1,
           OneMore(g, f, x), g[x] = (d - (SumFunction(f) % m)) % m
    PROVE  SumFunction(g) % m = d
<1> DEFINE s == SumFunction(f)
           p == s % m
           e == d - p
<1>1. SumFunction(g) = s + g[x]
    BY SumOneMore, Zenon
<1>2. s \in Int
    BY SumIsInt, Zenon DEF OneMore
<1> HIDE DEF s
<1>3. p \in Int
    BY <1>2, Division
<1>4. e \in Int /\ p + e = d
    BY <1>3
<1>5. (s + (e % m)) % m = (s + e) % m /\ (s + e) % m = (p + e) % m
  <2> HIDE DEF e
  <2>1. (s + (e % m)) % m = (s + e) % m
    BY <1>2, <1>4, ModOfSum
  <2>2. (p + e) % m = (s + e) % m
    BY <1>2, <1>4, ModOfSum
  <2> QED
    BY <2>1, <2>2
<1>6. d % m = d
    BY ModShort
<1>7. g[x] = e % m
    BY DEF s
<1> HIDE DEF e, p
<1> QED
    BY <1>1, <1>4, <1>5, <1>6, <1>7, Zenon
=============================================================================
