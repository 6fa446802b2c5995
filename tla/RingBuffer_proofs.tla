-------------------------- MODULE RingBuffer_proofs --------------------------
(***************************************************************************)
(* For every number of slots and every set of values: the ring buffer is   *)
(* type correct, its invariant is inductive, its two threads never race on *)
(* a slot, and every step of it is a step of the queue it promises.        *)
(***************************************************************************)
EXTENDS RingBuffer, TLAPS

-----------------------------------------------------------------------------
(* Arithmetic around the ring. *)

\* next (ringbuffer.h) moves one slot up and wraps at the last one.
LEMMA NextSlot ==
    ASSUME NEW i \in Slots
    PROVE  /\ next(i) \in Slots
           /\ next(i) = IF i + 1 = Size THEN 0 ELSE i + 1
<1>1. CASE i + 1 = Size
  <2>1. Size % Size = 0
    BY SizeAssumption
  <2> QED
    BY <1>1, <2>1, SizeAssumption DEF next, Slots
<1>2. CASE i + 1 # Size
  <2>1. i \in Nat /\ i + 1 < Size
    BY <1>2, SizeAssumption DEF Slots
  <2>2. (i + 1) % Size = i + 1
    BY <2>1, SizeAssumption
  <2> QED
    BY <1>2, <2>1, <2>2, SizeAssumption DEF next, Slots
<1> QED
  BY <1>1, <1>2

\* The distance between two slots is smaller than the ring, and 0 only from a
\* slot to itself.
LEMMA DistRange ==
    ASSUME NEW a \in Slots, NEW b \in Slots
    PROVE  /\ Dist(a, b) \in 0 .. Size - 1
           /\ (Dist(a, b) = 0) <=> (a = b)
BY SizeAssumption DEF Dist, Slots

\* The head moves away from the tail by one slot, unless it would reach it;
\* then, and only then, the ring is full.
LEMMA DistHeadMoves ==
    ASSUME NEW a \in Slots, NEW b \in Slots
    PROVE  /\ (next(b) = a) <=> (Dist(a, b) = Size - 1)
           /\ (next(b) # a) => (Dist(a, next(b)) = Dist(a, b) + 1)
BY NextSlot, SizeAssumption DEF Dist, Slots

\* The tail moves towards the head by one slot, unless the ring is empty.
LEMMA DistTailMoves ==
    ASSUME NEW a \in Slots, NEW b \in Slots, a # b
    PROVE  Dist(next(a), b) = Dist(a, b) - 1
BY NextSlot, SizeAssumption DEF Dist, Slots

\* The slot after a is the farthest from it.
LEMMA DistFromNext ==
    ASSUME NEW a \in Slots
    PROVE  Dist(next(a), a) = Size - 1
BY NextSlot, SizeAssumption DEF Dist, Slots

\* Seen from a, slot b comes before slot c when it is nearer to c than a is.
LEMMA DistBetween ==
    ASSUME NEW a \in Slots, NEW b \in Slots, NEW c \in Slots,
           Dist(b, c) > 0, Dist(a, c) >= Dist(b, c)
    PROVE  Dist(a, b) < Dist(a, c)
BY SizeAssumption DEF Dist, Slots

\* Walking the distance between two slots leads from one to the other, and
\* walking less leads to a slot that is nearer.
LEMMA PlusDist ==
    ASSUME NEW a \in Slots, NEW b \in Slots
    PROVE  /\ Plus(a, Dist(a, b)) = b
           /\ \A i \in 0 .. Size - 1 : Plus(a, i) \in Slots /\ Dist(a, Plus(a, i)) = i
BY SizeAssumption DEF Dist, Plus, Slots

\* Walking from the slot after a takes one step less.
LEMMA PlusNext ==
    ASSUME NEW a \in Slots, NEW i \in 1 .. Size - 1
    PROVE  Plus(next(a), i - 1) = Plus(a, i)
BY NextSlot, SizeAssumption DEF Plus, Slots

-----------------------------------------------------------------------------
(* The stores of an atomic. *)

\* An access to slot s takes it out of every view and changes nothing else.
LEMMA UnorderedStores ==
    ASSUME NEW stores \in Seq(Stores), NEW s \in Slots
    PROVE  /\ Unordered(stores, s) \in Seq(Stores)
           /\ Len(Unordered(stores, s)) = Len(stores)
           /\ DOMAIN Unordered(stores, s) = DOMAIN stores
           /\ \A k \in DOMAIN stores :
                /\ Unordered(stores, s)[k].idx = stores[k].idx
                /\ Unordered(stores, s)[k].view = stores[k].view \ {s}
<1>1. \A k \in DOMAIN stores : stores[k] \in Stores
  OBVIOUS
<1>2. \A k \in DOMAIN stores :
         /\ Unordered(stores, s)[k] \in Stores
         /\ Unordered(stores, s)[k].idx = stores[k].idx
         /\ Unordered(stores, s)[k].view = stores[k].view \ {s}
  BY <1>1 DEF Unordered, Stores
<1>3. DOMAIN stores = 1 .. Len(stores) /\ Len(stores) \in Nat
  OBVIOUS
<1>4. Unordered(stores, s) \in [1 .. Len(stores) -> Stores]
  BY <1>2, <1>3, Zenon DEF Unordered
<1>5. /\ Unordered(stores, s) \in Seq(Stores)
      /\ Len(Unordered(stores, s)) = Len(stores)
  BY <1>3, <1>4
<1> QED
  BY <1>2, <1>3, <1>4, <1>5

\* A release store is the new last store; it makes every slot visible.
LEMMA ReleaseStores ==
    ASSUME NEW stores \in Seq(Stores), stores # <<>>, NEW i \in Slots
    PROVE  /\ ReleaseStore(stores, i) \in Seq(Stores)
           /\ ReleaseStore(stores, i) # <<>>
           /\ Len(ReleaseStore(stores, i)) = Len(stores) + 1
           /\ DOMAIN ReleaseStore(stores, i) = 1 .. Len(stores) + 1
           /\ Newest(ReleaseStore(stores, i)).idx = i
           /\ ReleaseStore(stores, i)[Len(stores) + 1].idx = i
           /\ ReleaseStore(stores, i)[Len(stores) + 1].view = Slots
           /\ \A k \in DOMAIN stores : ReleaseStore(stores, i)[k] = stores[k]
           /\ ReleaseStore(stores, i)[1] = stores[1]
BY DEF ReleaseStore, Newest, Stores

\* Moving past a store drops the first one.
LEMMA FirstStoreDropped ==
    ASSUME NEW stores \in Seq(Stores), Len(stores) > 1
    PROVE  /\ Tail(stores) \in Seq(Stores)
           /\ Tail(stores) # <<>>
           /\ Len(Tail(stores)) = Len(stores) - 1
           /\ DOMAIN Tail(stores) = 1 .. Len(stores) - 1
           /\ Newest(Tail(stores)) = Newest(stores)
           /\ \A k \in DOMAIN Tail(stores) :
                k + 1 \in DOMAIN stores /\ Tail(stores)[k] = stores[k + 1]
BY SMTT(30) DEF Newest

\* The two indices a thread can load are slots.
LEMMA IndicesAreSlots ==
    ASSUME TypeOK
    PROVE  /\ head \in Slots /\ tail \in Slots
           /\ Len(head_) \in DOMAIN head_ /\ Len(tail_) \in DOMAIN tail_
           /\ 1 \in DOMAIN head_ /\ 1 \in DOMAIN tail_
           /\ \A k \in DOMAIN head_ : head_[k] \in Stores /\ head_[k].idx \in Slots
           /\ \A j \in DOMAIN tail_ : tail_[j] \in Stores /\ tail_[j].idx \in Slots
<1>1. \A k \in DOMAIN head_ : head_[k] \in Stores
  BY DEF TypeOK
<1>2. \A j \in DOMAIN tail_ : tail_[j] \in Stores
  BY DEF TypeOK
<1>3. Len(head_) \in DOMAIN head_ /\ 1 \in DOMAIN head_
  BY DEF TypeOK
<1>4. Len(tail_) \in DOMAIN tail_ /\ 1 \in DOMAIN tail_
  BY DEF TypeOK
<1> QED
  BY <1>1, <1>2, <1>3, <1>4 DEF Stores, head, tail, Newest

-----------------------------------------------------------------------------
(* Type correctness. *)

LEMMA InitTypeOK == Init => TypeOK
<1> SUFFICES ASSUME Init PROVE TypeOK
  OBVIOUS
<1>1. 0 \in Slots
  BY SizeAssumption DEF Slots
<1>2. [idx |-> 0, view |-> Slots] \in Stores
  BY <1>1 DEF Stores
<1> QED
  BY <1>1, <1>2 DEF Init, TypeOK

LEMMA NextTypeOK == TypeOK /\ [Next]_vars => TypeOK'
<1> SUFFICES ASSUME TypeOK, [Next]_vars PROVE TypeOK'
  OBVIOUS
<1> USE IndicesAreSlots
<1>1. CASE PushRefused
  BY <1>1 DEF PushRefused, TypeOK, AcquireLoad, Stores, popVars
<1>2. ASSUME NEW v \in Values, PushAccepted(v) PROVE TypeOK'
  BY <1>2 DEF PushAccepted, TypeOK, AcquireLoad, Stores, popVars
<1>3. CASE PushWrite
  <2>1. head_' \in Seq(Stores) /\ head_' # <<>>
    BY <1>3, UnorderedStores DEF PushWrite, TypeOK
  <2>2. ring_' \in [Slots -> Values \cup {NoValue}]
    BY <1>3 DEF PushWrite, TypeOK
  <2> QED
    BY <1>3, <2>1, <2>2 DEF PushWrite, TypeOK, popVars
<1>4. CASE PushPublish
  <2>1. head_' \in Seq(Stores) /\ head_' # <<>>
    BY <1>4, NextSlot, ReleaseStores DEF PushPublish, TypeOK
  <2> QED
    BY <1>4, <2>1 DEF PushPublish, TypeOK, popVars
<1>5. CASE PopRefused
  BY <1>5 DEF PopRefused, TypeOK, AcquireLoad, Stores, pushVars
<1>6. CASE PopAccepted
  BY <1>6 DEF PopAccepted, TypeOK, AcquireLoad, Stores, pushVars
<1>7. CASE PopRead
  <2>1. tail_' \in Seq(Stores) /\ tail_' # <<>>
    BY <1>7, UnorderedStores DEF PopRead, TypeOK
  <2> QED
    BY <1>7, <2>1 DEF PopRead, TypeOK, pushVars
<1>8. CASE PopPublish
  <2>1. tail_' \in Seq(Stores) /\ tail_' # <<>>
    BY <1>8, NextSlot, ReleaseStores DEF PopPublish, TypeOK
  <2> QED
    BY <1>8, <2>1 DEF PopPublish, TypeOK, pushVars
<1>9. CASE HeadVisible
  BY <1>9, FirstStoreDropped DEF HeadVisible, TypeOK, pushVars, popVars
<1>10. CASE TailVisible
  BY <1>10, FirstStoreDropped DEF TailVisible, TypeOK, pushVars, popVars
<1>11. CASE UNCHANGED vars
  BY <1>11 DEF vars, pushVars, popVars, TypeOK
<1> QED
  BY <1>1, <1>2, <1>3, <1>4, <1>5, <1>6, <1>7, <1>8, <1>9, <1>10, <1>11
  DEF Next, PushStep, PopStep

\* The ring buffer's state keeps its types: in particular the two atomics
\* always hold slots of ring_, so push and pop never index outside of it.
THEOREM TypeCorrect == Spec => []TypeOK
<1>1. Init => TypeOK
  BY InitTypeOK
<1>2. TypeOK /\ [Next]_vars => TypeOK'
  BY NextTypeOK
<1> QED
  BY <1>1, <1>2, PTL DEF Spec

-----------------------------------------------------------------------------
(* The inductive invariant. *)

\* What Order says of the distances a step changes: no item lies beyond what
\* the consumer sees first, and no tail is nearer to the head than the newest.
LEMMA Distances ==
    ASSUME TypeOK, Order
    PROVE  /\ \A k \in DOMAIN head_ :
                Dist(tail, head_[k].idx) = Dist(tail, head_[1].idx) + (k - 1)
           /\ \A j \in DOMAIN tail_ :
                Dist(tail_[j].idx, head) = (Len(tail_) - j) + Dist(tail, head)
           /\ Dist(tail, head) = Dist(tail, head_[1].idx) + (Len(head_) - 1)
           /\ (tail # head_[1].idx) =>
                tail # head /\ \A k \in DOMAIN head_ : tail # head_[k].idx
           /\ (next(head) # tail_[1].idx) =>
                \A j \in DOMAIN tail_ : next(head) # tail_[j].idx
<1> USE IndicesAreSlots
<1>1. DOMAIN head_ = 1 .. Len(head_) /\ DOMAIN tail_ = 1 .. Len(tail_)
  BY DEF TypeOK
<1>2. \A k \in DOMAIN head_ :
         Dist(tail, head_[k].idx) = Dist(tail, head_[1].idx) + (k - 1)
  <2> SUFFICES ASSUME NEW k \in DOMAIN head_
               PROVE  Dist(tail, head_[k].idx) = Dist(tail, head_[1].idx) + (k - 1)
    OBVIOUS
  <2>1. Dist(tail_[Len(tail_)].idx, head_[k].idx)
          = (Len(tail_) - Len(tail_)) + Dist(tail, head_[1].idx) + (k - 1)
    BY DEF Order
  <2>2. Dist(tail, head_[1].idx) \in Nat
    BY DistRange, SizeAssumption
  <2> QED
    BY <1>1, <2>1, <2>2 DEF tail, Newest
<1>3. Dist(tail, head) = Dist(tail, head_[1].idx) + (Len(head_) - 1)
  BY <1>2 DEF head, Newest
<1>4. \A j \in DOMAIN tail_ :
         Dist(tail_[j].idx, head) = (Len(tail_) - j) + Dist(tail, head)
  <2> SUFFICES ASSUME NEW j \in DOMAIN tail_
               PROVE  Dist(tail_[j].idx, head) = (Len(tail_) - j) + Dist(tail, head)
    OBVIOUS
  <2>1. Dist(tail_[j].idx, head_[Len(head_)].idx)
          = (Len(tail_) - j) + Dist(tail, head_[1].idx) + (Len(head_) - 1)
    BY DEF Order
  <2>2. Dist(tail, head_[1].idx) \in Nat
    BY DistRange, SizeAssumption
  <2> QED
    BY <1>1, <1>3, <2>1, <2>2 DEF head, Newest
<1>5. ASSUME tail # head_[1].idx, NEW k \in DOMAIN head_
      PROVE  tail # head_[k].idx
  <2>1. Dist(tail, head_[1].idx) \in Nat /\ Dist(tail, head_[1].idx) # 0
    BY <1>5, DistRange, SizeAssumption
  <2>2. Dist(tail, head_[k].idx) # 0
    BY <1>1, <1>2, <2>1
  <2> QED
    BY <2>2, DistRange
<1>6. ASSUME next(head) # tail_[1].idx, NEW j \in DOMAIN tail_
      PROVE  next(head) # tail_[j].idx
  <2>1. Dist(tail_[1].idx, head) # Size - 1
    BY <1>6, DistHeadMoves
  <2>2. Dist(tail_[1].idx, head) = (Len(tail_) - 1) + Dist(tail, head)
    BY <1>4
  <2>3. Dist(tail_[j].idx, head) = (Len(tail_) - j) + Dist(tail, head)
    BY <1>4
  <2>4. Dist(tail_[1].idx, head) \in 0 .. Size - 1 /\ Dist(tail, head) \in Nat
    BY DistRange, SizeAssumption
  <2>5. Dist(tail_[j].idx, head) # Size - 1
    BY <1>1, <2>1, <2>2, <2>3, <2>4, SizeAssumption
  <2> QED
    BY <2>5, DistHeadMoves
<1>7. (tail # head_[1].idx) => tail # head
  BY <1>5 DEF head, Newest
<1> QED
  BY <1>2, <1>3, <1>4, <1>5, <1>6, <1>7

LEMMA InitInvariant == Init => RingInvariant
<1> SUFFICES ASSUME Init PROVE RingInvariant
  OBVIOUS
<1>1. 0 \in Slots
  BY SizeAssumption DEF Slots
<1>2. head = 0 /\ tail = 0 /\ Len(head_) = 1 /\ Len(tail_) = 1
  BY DEF Init, head, tail, Newest
<1>3. DOMAIN head_ = {1} /\ DOMAIN tail_ = {1}
  BY DEF Init
<1>4. head_[1].idx = 0 /\ tail_[1].idx = 0 /\ head_[1].view = Slots /\ tail_[1].view = Slots
  BY DEF Init
<1>5. Dist(0, 0) = 0
  BY DEF Dist
<1>6. Order
  BY <1>2, <1>3, <1>4, <1>5 DEF Order
<1>7. HeadViews /\ TailViews
  BY <1>3, <1>4 DEF HeadViews, TailViews
<1>8. Phases /\ NoDataRace
  BY DEF Init, Phases, NoDataRace
<1> QED
  BY <1>6, <1>7, <1>8 DEF RingInvariant

\* A step that stores to neither atomic keeps what is said of the two.
LEMMA AtomicsUnchanged ==
    ASSUME Order, HeadViews, TailViews, UNCHANGED <<head_, tail_>>
    PROVE  Order' /\ HeadViews' /\ TailViews' /\ head' = head /\ tail' = tail
BY DEF Order, HeadViews, TailViews, head, tail, Newest

\* push writes the slot above every item the consumer can read: the items,
\* what their stores make visible and what the consumer may rely on stay.
LEMMA PushWriteInvariant ==
    ASSUME TypeOK, RingInvariant, PushWrite
    PROVE  RingInvariant'
<1> USE IndicesAreSlots DEF RingInvariant
<1>1. /\ tail_' = tail_ /\ tail' = tail
      /\ head' = head
      /\ DOMAIN head_' = DOMAIN head_ /\ Len(head_') = Len(head_)
      /\ \A k \in DOMAIN head_ :
            /\ head_'[k].idx = head_[k].idx
            /\ head_'[k].view = head_[k].view \ {head}
  BY UnorderedStores, SMTT(30) DEF PushWrite, TypeOK, head, tail, Newest
<1>2. Order'
  BY <1>1 DEF Order
<1>3. \A k \in DOMAIN head_ : Dist(tail, head_[k].idx) <= Dist(tail, head)
  <2> SUFFICES ASSUME NEW k \in DOMAIN head_
               PROVE  Dist(tail, head_[k].idx) <= Dist(tail, head)
    OBVIOUS
  <2>1. /\ Dist(tail, head_[k].idx) = Dist(tail, head_[1].idx) + (k - 1)
        /\ Dist(tail, head) = Dist(tail, head_[1].idx) + (Len(head_) - 1)
    BY Distances
  <2>2. k \in Nat /\ k <= Len(head_) /\ Dist(tail, head_[1].idx) \in Nat
    BY DistRange, SizeAssumption DEF TypeOK
  <2> QED
    BY <2>1, <2>2
<1>4. HeadViews'
  <2> SUFFICES ASSUME NEW k \in DOMAIN head_, NEW s \in Slots,
                      Dist(tail, s) < Dist(tail, head_[k].idx)
               PROVE  s \in head_'[k].view
    BY <1>1 DEF HeadViews
  <2>1. s \in head_[k].view
    BY DEF HeadViews
  <2>2. Dist(tail, s) < Dist(tail, head)
    BY <1>3, DistRange, SizeAssumption
  <2> QED
    BY <1>1, <2>1, <2>2, DistRange, SizeAssumption
<1>5. TailViews'
  BY <1>1 DEF TailViews
<1>6. (pcPop # "idle") => (tail # head)
  BY Distances DEF Phases
<1>7. Phases'
  BY <1>1, <1>6 DEF Phases, PushWrite, TypeOK, popVars
<1>8. NoDataRace'
  BY <1>1, <1>6 DEF NoDataRace, PushWrite, popVars
<1> QED
  BY <1>2, <1>4, <1>5, <1>7, <1>8

\* push publishes one more item; there was room for it for every tail the
\* producer may still see.
LEMMA PushPublishInvariant ==
    ASSUME TypeOK, RingInvariant, PushPublish
    PROVE  RingInvariant'
<1> USE IndicesAreSlots DEF RingInvariant
<1>1. /\ tail_' = tail_ /\ tail' = tail
      /\ head' = next(head) /\ head' \in Slots
      /\ Len(head_') = Len(head_) + 1 /\ DOMAIN head_' = 1 .. Len(head_) + 1
      /\ head_'[1] = head_[1]
      /\ head_'[Len(head_) + 1].idx = next(head)
      /\ head_'[Len(head_) + 1].view = Slots
      /\ \A k \in DOMAIN head_ : head_'[k] = head_[k]
  <2>1. head_ \in Seq(Stores) /\ head_ # <<>> /\ next(head) \in Slots
    BY NextSlot DEF TypeOK
  <2>2. head_' = ReleaseStore(head_, next(head)) /\ tail_' = tail_
    BY DEF PushPublish
  <2>3. /\ Len(head_') = Len(head_) + 1 /\ DOMAIN head_' = 1 .. Len(head_) + 1
        /\ Newest(head_').idx = next(head)
        /\ head_'[Len(head_) + 1].idx = next(head)
        /\ head_'[Len(head_) + 1].view = Slots
        /\ \A k \in DOMAIN head_ : head_'[k] = head_[k]
        /\ head_'[1] = head_[1]
    BY <2>1, <2>2, ReleaseStores, ZenonT(60)
  <2>4. head' = next(head) /\ tail' = tail
    BY <2>2, <2>3 DEF head, tail
  <2> QED
    BY <2>1, <2>2, <2>3, <2>4
<1>2. \A j \in DOMAIN tail_ : Dist(tail_[j].idx, next(head)) = Dist(tail_[j].idx, head) + 1
  BY Distances, DistHeadMoves DEF Phases, PushPublish
<1>3. DOMAIN head_ = 1 .. Len(head_) /\ DOMAIN tail_ = 1 .. Len(tail_)
      /\ Len(head_) \in Nat /\ Len(tail_) \in Nat
  BY DEF TypeOK
<1>4. Dist(tail, head_[1].idx) \in Nat
  BY DistRange, SizeAssumption
<1>5. ASSUME NEW j \in DOMAIN tail_, NEW k \in 1 .. Len(head_) + 1
      PROVE  Dist(tail_[j].idx, head_'[k].idx)
               = (Len(tail_) - j) + Dist(tail, head_[1].idx) + (k - 1)
  <2>1. CASE k \in DOMAIN head_
    BY <1>1, <2>1 DEF Order
  <2>2. CASE k = Len(head_) + 1
    <3>1. Dist(tail_[j].idx, head) = (Len(tail_) - j) + Dist(tail, head)
      BY Distances
    <3>2. Dist(tail, head) = Dist(tail, head_[1].idx) + (Len(head_) - 1)
      BY Distances
    <3> QED
      BY <1>1, <1>2, <1>3, <1>4, <2>2, <3>1, <3>2
  <2> QED
    BY <1>3, <2>1, <2>2
<1>6. Order'
  <2> SUFFICES ASSUME NEW j \in DOMAIN tail_', NEW k \in DOMAIN head_'
               PROVE  Dist(tail_'[j].idx, head_'[k].idx)
                        = (Len(tail_') - j) + Dist(tail', head_'[1].idx) + (k - 1)
    BY DEF Order
  <2>1. tail_' = tail_ /\ tail' = tail /\ head_'[1] = head_[1]
        /\ j \in DOMAIN tail_ /\ k \in 1 .. Len(head_) + 1
    BY <1>1
  <2>2. Dist(tail_[j].idx, head_'[k].idx)
          = (Len(tail_) - j) + Dist(tail, head_[1].idx) + (k - 1)
    BY <1>5, <2>1
  <2> QED
    BY <2>1, <2>2
<1>7. HeadViews'
  BY <1>1, <1>3 DEF HeadViews
<1>8. TailViews'
  <2> SUFFICES ASSUME NEW j \in DOMAIN tail_, NEW s \in Slots,
                      Dist(tail_[j].idx, s) >= Dist(tail_[j].idx, next(head))
               PROVE  s \in tail_[j].view
    BY <1>1 DEF TailViews
  <2>1. Dist(tail_[j].idx, s) >= Dist(tail_[j].idx, head)
    BY <1>2, DistRange, SizeAssumption, SMTT(30)
  <2> QED
    BY <2>1 DEF TailViews
<1>9. Phases'
  BY <1>1 DEF Phases, PushPublish, popVars
<1>10. NoDataRace'
  BY <1>1 DEF NoDataRace, PushPublish, popVars
<1> QED
  BY <1>6, <1>7, <1>8, <1>9, <1>10

\* pop reads the first item, which no free slot of any tail is.
LEMMA PopReadInvariant ==
    ASSUME TypeOK, RingInvariant, PopRead
    PROVE  RingInvariant'
<1> USE IndicesAreSlots DEF RingInvariant
<1>1. /\ head_' = head_ /\ head' = head
      /\ tail' = tail
      /\ DOMAIN tail_' = DOMAIN tail_ /\ Len(tail_') = Len(tail_)
      /\ \A j \in DOMAIN tail_ :
            /\ tail_'[j].idx = tail_[j].idx
            /\ tail_'[j].view = tail_[j].view \ {tail}
  BY UnorderedStores DEF PopRead, TypeOK, head, tail, Newest
<1>2. Order'
  BY <1>1 DEF Order
<1>3. tail # head
  BY Distances DEF Phases, PopRead
<1>4. \A j \in DOMAIN tail_ : Dist(tail_[j].idx, tail) < Dist(tail_[j].idx, head)
  <2> SUFFICES ASSUME NEW j \in DOMAIN tail_
               PROVE  Dist(tail_[j].idx, tail) < Dist(tail_[j].idx, head)
    OBVIOUS
  <2>1. Dist(tail_[j].idx, head) = (Len(tail_) - j) + Dist(tail, head)
    BY Distances
  <2>2. Dist(tail, head) > 0 /\ Len(tail_) - j >= 0 /\ Len(tail_) - j \in Int
    BY <1>3, DistRange, SizeAssumption DEF TypeOK
  <2>3. Len(tail_) - j < Dist(tail_[j].idx, head)
    BY <2>1, <2>2, DistRange, SizeAssumption
  <2> QED
    BY <2>1, <2>2, <2>3, DistBetween, DistRange, SizeAssumption
<1>5. HeadViews'
  BY <1>1 DEF HeadViews
<1>6. TailViews'
  <2> SUFFICES ASSUME NEW j \in DOMAIN tail_, NEW s \in Slots,
                      Dist(tail_[j].idx, s) >= Dist(tail_[j].idx, head)
               PROVE  s \in tail_'[j].view
    BY <1>1 DEF TailViews
  <2>1. s \in tail_[j].view
    BY DEF TailViews
  <2>2. s # tail
    BY <1>4, DistRange, SizeAssumption
  <2> QED
    BY <1>1, <2>1, <2>2
<1>7. Phases'
  BY <1>1 DEF Phases, PopRead, pushVars
<1>8. NoDataRace'
  BY <1>1, <1>3 DEF NoDataRace, PopRead, pushVars
<1> QED
  BY <1>2, <1>5, <1>6, <1>7, <1>8

\* pop gives the slot it read back to the producer.
LEMMA PopPublishInvariant ==
    ASSUME TypeOK, RingInvariant, PopPublish
    PROVE  RingInvariant'
<1> USE IndicesAreSlots DEF RingInvariant
<1>1. /\ head_' = head_ /\ head' = head
      /\ tail' = next(tail) /\ tail' \in Slots
      /\ Len(tail_') = Len(tail_) + 1 /\ DOMAIN tail_' = 1 .. Len(tail_) + 1
      /\ tail_'[1] = tail_[1]
      /\ tail_'[Len(tail_) + 1].idx = next(tail)
      /\ tail_'[Len(tail_) + 1].view = Slots
      /\ \A j \in DOMAIN tail_ : tail_'[j] = tail_[j]
  <2>1. tail_ \in Seq(Stores) /\ tail_ # <<>> /\ next(tail) \in Slots
    BY NextSlot DEF TypeOK
  <2>2. tail_' = ReleaseStore(tail_, next(tail)) /\ head_' = head_
    BY DEF PopPublish
  <2>3. /\ Len(tail_') = Len(tail_) + 1 /\ DOMAIN tail_' = 1 .. Len(tail_) + 1
        /\ Newest(tail_').idx = next(tail)
        /\ tail_'[Len(tail_) + 1].idx = next(tail)
        /\ tail_'[Len(tail_) + 1].view = Slots
        /\ \A k \in DOMAIN tail_ : tail_'[k] = tail_[k]
        /\ tail_'[1] = tail_[1]
    BY <2>1, <2>2, ReleaseStores, ZenonT(60)
  <2>4. tail' = next(tail) /\ head' = head
    BY <2>2, <2>3 DEF head, tail
  <2> QED
    BY <2>1, <2>2, <2>3, <2>4
<1>2. \A k \in DOMAIN head_ : tail # head_[k].idx
  BY Distances DEF Phases, PopPublish
<1>3. \A k \in DOMAIN head_ : Dist(next(tail), head_[k].idx) = Dist(tail, head_[k].idx) - 1
  BY <1>2, DistTailMoves
<1>4. DOMAIN head_ = 1 .. Len(head_) /\ DOMAIN tail_ = 1 .. Len(tail_)
      /\ Len(head_) \in Nat /\ Len(tail_) \in Nat
  BY DEF TypeOK
<1>5. Dist(tail, head_[1].idx) \in Nat
  BY DistRange, SizeAssumption
<1>6. ASSUME NEW j \in 1 .. Len(tail_) + 1, NEW k \in DOMAIN head_
      PROVE  Dist(tail_'[j].idx, head_[k].idx)
               = (Len(tail_) + 1 - j) + Dist(next(tail), head_[1].idx) + (k - 1)
  <2>1. Dist(next(tail), head_[1].idx) = Dist(tail, head_[1].idx) - 1
    BY <1>3
  <2>2. CASE j \in DOMAIN tail_
    <3>1. Dist(tail_[j].idx, head_[k].idx)
            = (Len(tail_) - j) + Dist(tail, head_[1].idx) + (k - 1)
      BY <2>2 DEF Order
    <3> QED
      BY <1>1, <1>4, <1>5, <2>1, <2>2, <3>1
  <2>3. CASE j = Len(tail_) + 1
    <3>1. Dist(tail, head_[k].idx) = Dist(tail, head_[1].idx) + (k - 1)
      BY Distances
    <3> QED
      BY <1>1, <1>3, <1>4, <1>5, <2>1, <2>3, <3>1
  <2> QED
    BY <1>4, <2>2, <2>3
<1>7. Order'
  <2> SUFFICES ASSUME NEW j \in DOMAIN tail_', NEW k \in DOMAIN head_'
               PROVE  Dist(tail_'[j].idx, head_'[k].idx)
                        = (Len(tail_') - j) + Dist(tail', head_'[1].idx) + (k - 1)
    BY DEF Order
  <2>1. head_' = head_ /\ tail' = next(tail) /\ Len(tail_') = Len(tail_) + 1
        /\ j \in 1 .. Len(tail_) + 1 /\ k \in DOMAIN head_
    BY <1>1
  <2>2. Dist(tail_'[j].idx, head_[k].idx)
          = (Len(tail_) + 1 - j) + Dist(next(tail), head_[1].idx) + (k - 1)
    BY <1>6, <2>1
  <2> QED
    BY <2>1, <2>2
<1>8. HeadViews'
  <2> SUFFICES ASSUME NEW k \in DOMAIN head_, NEW s \in Slots,
                      Dist(next(tail), s) < Dist(next(tail), head_[k].idx)
               PROVE  s \in head_[k].view
    BY <1>1 DEF HeadViews
  <2>1. s # tail
    <3>1. Dist(next(tail), tail) = Size - 1
      BY DistFromNext
    <3> QED
      BY <1>1, <3>1, DistRange, SizeAssumption, SMTT(30)
  <2>2. Dist(next(tail), s) = Dist(tail, s) - 1
    BY <2>1, DistTailMoves
  <2>3. Dist(tail, s) < Dist(tail, head_[k].idx)
    BY <1>3, <2>2, DistRange, SizeAssumption
  <2> QED
    BY <2>3 DEF HeadViews
<1>9. TailViews'
  BY <1>1, <1>4 DEF TailViews
<1>10. Phases'
  BY <1>1 DEF Phases, PopPublish, pushVars
<1>11. NoDataRace'
  BY <1>1 DEF NoDataRace, PopPublish, pushVars
<1> QED
  BY <1>7, <1>8, <1>9, <1>10, <1>11

\* A thread moving past a store of the other one only learns of more items,
\* or of more room.
LEMMA HeadVisibleInvariant ==
    ASSUME TypeOK, RingInvariant, HeadVisible
    PROVE  RingInvariant'
<1> USE IndicesAreSlots DEF RingInvariant
<1>1. /\ tail_' = tail_ /\ tail' = tail
      /\ head' = head
      /\ Len(head_') = Len(head_) - 1 /\ DOMAIN head_' = 1 .. Len(head_) - 1
      /\ \A k \in DOMAIN head_' : k + 1 \in DOMAIN head_ /\ head_'[k] = head_[k + 1]
      /\ Len(head_) \in Nat
  BY FirstStoreDropped DEF HeadVisible, TypeOK, head, tail
<1>2. DOMAIN head_ = 1 .. Len(head_) /\ Len(head_) > 1 /\ head_'[1] = head_[2]
  BY <1>1 DEF HeadVisible, TypeOK
<1>3. Dist(tail, head_[2].idx) = Dist(tail, head_[1].idx) + 1
  BY <1>2, Distances
<1>4. Dist(tail, head_[1].idx) \in Nat /\ Len(tail_) \in Nat
      /\ DOMAIN tail_ = 1 .. Len(tail_)
  BY DistRange, SizeAssumption DEF TypeOK
<1>5. Order'
  <2> SUFFICES ASSUME NEW j \in DOMAIN tail_', NEW k \in DOMAIN head_'
               PROVE  Dist(tail_'[j].idx, head_'[k].idx)
                        = (Len(tail_') - j) + Dist(tail', head_'[1].idx) + (k - 1)
    BY DEF Order
  <2>1. j \in DOMAIN tail_ /\ k + 1 \in DOMAIN head_ /\ head_'[k] = head_[k + 1]
    BY <1>1
  <2>2. Dist(tail_[j].idx, head_[k + 1].idx)
          = (Len(tail_) - j) + Dist(tail, head_[1].idx) + ((k + 1) - 1)
    BY <2>1 DEF Order
  <2> QED
    BY <1>1, <1>2, <1>3, <1>4, <2>1, <2>2
<1>6. HeadViews'
  <2> SUFFICES ASSUME NEW k \in DOMAIN head_', NEW s \in Slots,
                      Dist(tail, s) < Dist(tail, head_'[k].idx)
               PROVE  s \in head_'[k].view
    BY <1>1 DEF HeadViews
  <2>1. k + 1 \in DOMAIN head_ /\ head_'[k] = head_[k + 1]
    BY <1>1
  <2> QED
    BY <2>1 DEF HeadViews
<1>7. TailViews'
  BY <1>1 DEF TailViews
<1>8. (pcPop # "idle") => (tail # head_[2].idx)
  BY <1>2, Distances DEF Phases
<1>9. Phases'
  BY <1>1, <1>2, <1>8 DEF Phases, HeadVisible, pushVars, popVars
<1>10. NoDataRace'
  BY <1>1 DEF NoDataRace, HeadVisible, pushVars, popVars
<1> QED
  BY <1>5, <1>6, <1>7, <1>9, <1>10

LEMMA TailVisibleInvariant ==
    ASSUME TypeOK, RingInvariant, TailVisible
    PROVE  RingInvariant'
<1> USE IndicesAreSlots DEF RingInvariant
<1>1. /\ head_' = head_ /\ head' = head
      /\ tail' = tail
      /\ Len(tail_') = Len(tail_) - 1 /\ 1 \in DOMAIN tail_'
      /\ \A j \in DOMAIN tail_' : j + 1 \in DOMAIN tail_ /\ tail_'[j] = tail_[j + 1]
  BY FirstStoreDropped DEF TailVisible, TypeOK, head, tail
<1>2. DOMAIN tail_ = 1 .. Len(tail_) /\ Len(tail_) > 1 /\ tail_'[1] = tail_[2]
  BY <1>1 DEF TailVisible, TypeOK
<1>3. Dist(tail, head_[1].idx) \in Nat /\ DOMAIN head_ = 1 .. Len(head_)
  BY DistRange, SizeAssumption DEF TypeOK
<1>4. Order'
  <2> SUFFICES ASSUME NEW j \in DOMAIN tail_', NEW k \in DOMAIN head_'
               PROVE  Dist(tail_'[j].idx, head_'[k].idx)
                        = (Len(tail_') - j) + Dist(tail', head_'[1].idx) + (k - 1)
    BY DEF Order
  <2>1. k \in DOMAIN head_ /\ j + 1 \in DOMAIN tail_ /\ tail_'[j] = tail_[j + 1]
    BY <1>1
  <2>2. Dist(tail_[j + 1].idx, head_[k].idx)
          = (Len(tail_) - (j + 1)) + Dist(tail, head_[1].idx) + (k - 1)
    BY <2>1 DEF Order
  <2> QED
    BY <1>1, <1>2, <1>3, <2>1, <2>2
<1>5. HeadViews'
  BY <1>1 DEF HeadViews
<1>6. TailViews'
  <2> SUFFICES ASSUME NEW j \in DOMAIN tail_', NEW s \in Slots,
                      Dist(tail_'[j].idx, s) >= Dist(tail_'[j].idx, head)
               PROVE  s \in tail_'[j].view
    BY <1>1 DEF TailViews
  <2>1. j + 1 \in DOMAIN tail_ /\ tail_'[j] = tail_[j + 1]
    BY <1>1
  <2> QED
    BY <2>1 DEF TailViews
<1>7. (pcPush # "idle") => (next(head) # tail_[2].idx)
  BY <1>2, Distances DEF Phases
<1>8. Phases'
  BY <1>1, <1>2, <1>7 DEF Phases, TailVisible, pushVars, popVars
<1>9. NoDataRace'
  BY <1>1 DEF NoDataRace, TailVisible, pushVars, popVars
<1> QED
  BY <1>4, <1>5, <1>6, <1>8, <1>9

LEMMA NextInvariant == TypeOK /\ RingInvariant /\ [Next]_vars => RingInvariant'
<1> SUFFICES ASSUME TypeOK, RingInvariant, [Next]_vars PROVE RingInvariant'
  OBVIOUS
<1> USE IndicesAreSlots DEF RingInvariant
<1>1. ASSUME UNCHANGED <<head_, tail_>>,
             Phases', NoDataRace'
      PROVE  RingInvariant'
  BY <1>1, AtomicsUnchanged
<1>2. CASE PushRefused
  BY <1>1, <1>2, AtomicsUnchanged
  DEF PushRefused, Phases, NoDataRace, AcquireLoad, popVars
<1>3. ASSUME NEW v \in Values, PushAccepted(v) PROVE RingInvariant'
  <2>1. head \in tail_[1].view
    BY DistRange, SizeAssumption DEF TailViews
  <2> QED
    BY <1>1, <1>3, <2>1, AtomicsUnchanged
    DEF PushAccepted, Phases, NoDataRace, AcquireLoad, popVars
<1>4. CASE PopRefused
  BY <1>1, <1>4, AtomicsUnchanged
  DEF PopRefused, Phases, NoDataRace, AcquireLoad, pushVars
<1>5. CASE PopAccepted
  <2>1. Dist(tail, tail) = 0 /\ Dist(tail, head_[1].idx) \in Nat \ {0}
    BY <1>5, DistRange, SizeAssumption DEF PopAccepted
  <2>2. tail \in head_[1].view
    BY <2>1 DEF HeadViews
  <2> QED
    BY <1>1, <1>5, <2>2, AtomicsUnchanged
    DEF PopAccepted, Phases, NoDataRace, AcquireLoad, pushVars
<1>6. CASE UNCHANGED vars
  BY <1>1, <1>6, AtomicsUnchanged DEF vars, pushVars, popVars, Phases, NoDataRace
<1> QED
  BY <1>2, <1>3, <1>4, <1>5, <1>6, PushWriteInvariant, PushPublishInvariant,
     PopReadInvariant, PopPublishInvariant, HeadVisibleInvariant, TailVisibleInvariant
  DEF Next, PushStep, PopStep

\* Order, phases and views hold in every reachable state, for every size of
\* the ring: this is why the two threads may share it with no lock.
THEOREM InvariantHolds == Spec => []RingInvariant
<1>1. Init => TypeOK /\ RingInvariant
  BY InitTypeOK, InitInvariant
<1>2. TypeOK /\ RingInvariant /\ [Next]_vars => (TypeOK /\ RingInvariant)'
  BY NextTypeOK, NextInvariant
<1> QED
  BY <1>1, <1>2, PTL DEF Spec

\* push never writes a slot that pop may still be copying and pop never reads
\* one that push may still be filling, whatever stores are still invisible.
THEOREM RaceFree == Spec => []NoDataRace
<1>1. RingInvariant => NoDataRace
  BY DEF RingInvariant
<1> QED
  BY <1>1, InvariantHolds, PTL

-----------------------------------------------------------------------------
(* The ring buffer implements the queue. *)

\* Append and Tail, element by element.
LEMMA AppendElements ==
    ASSUME NEW S, NEW s \in Seq(S), NEW v \in S
    PROVE  /\ Append(s, v) \in Seq(S)
           /\ Len(Append(s, v)) = Len(s) + 1
           /\ \A i \in 1 .. Len(s) : Append(s, v)[i] = s[i]
           /\ Append(s, v)[Len(s) + 1] = v
OBVIOUS

LEMMA TailElements ==
    ASSUME NEW S, NEW s \in Seq(S), s # <<>>
    PROVE  /\ Tail(s) \in Seq(S)
           /\ Len(Tail(s)) = Len(s) - 1
           /\ \A i \in 1 .. Len(s) - 1 : Tail(s)[i] = s[i + 1]
           /\ Head(s) = s[1]
OBVIOUS

\* Sequences of the same length with the same elements are equal.
LEMMA SameElements ==
    ASSUME NEW S, NEW s \in Seq(S), NEW t \in Seq(S), Len(s) = Len(t),
           \A i \in 1 .. Len(s) : s[i] = t[i]
    PROVE  s = t
OBVIOUS

\* There is one item per slot from the tail to the head.
LEMMA ItemsInRing ==
    ASSUME NEW S, NEW r \in [Slots -> S], NEW t \in Slots, NEW h \in Slots
    PROVE  /\ ItemsBetween(r, t, h) \in Seq(S)
           /\ Len(ItemsBetween(r, t, h)) = Dist(t, h)
           /\ \A i \in 1 .. Dist(t, h) : ItemsBetween(r, t, h)[i] = r[Plus(t, i - 1)]
<1>1. Dist(t, h) \in Nat /\ Dist(t, h) <= Size - 1
  BY DistRange, SizeAssumption
<1>2. \A i \in 1 .. Dist(t, h) : r[Plus(t, i - 1)] \in S
  BY <1>1, PlusDist, SizeAssumption
<1>3. ItemsBetween(r, t, h) \in [1 .. Dist(t, h) -> S]
  BY <1>2 DEF ItemsBetween
<1>4. ItemsBetween(r, t, h) \in Seq(S) /\ Len(ItemsBetween(r, t, h)) = Dist(t, h)
  BY <1>1, <1>3
<1>5. \A i \in 1 .. Dist(t, h) : ItemsBetween(r, t, h)[i] = r[Plus(t, i - 1)]
  BY DEF ItemsBetween
<1> QED
  BY <1>4, <1>5

LEMMA ItemsCount ==
    ASSUME NEW r, NEW t \in Slots, NEW h \in Slots
    PROVE  Len(ItemsBetween(r, t, h)) = Dist(t, h)
<1>1. Dist(t, h) \in Nat
  BY DistRange, SizeAssumption
<1> QED
  BY <1>1 DEF ItemsBetween

\* The slot at the head holds no item: writing it changes none.
LEMMA HeadSlotIsFree ==
    ASSUME NEW r, NEW r2, NEW t \in Slots, NEW h \in Slots,
           \A s \in Slots : s # h => r2[s] = r[s]
    PROVE  ItemsBetween(r2, t, h) = ItemsBetween(r, t, h)
<1>1. ASSUME NEW i \in 1 .. Dist(t, h)
      PROVE  Plus(t, i - 1) \in Slots /\ Plus(t, i - 1) # h
  <2>1. i - 1 \in 0 .. Size - 1 /\ i - 1 < Dist(t, h)
    BY DistRange, SizeAssumption
  <2>2. Plus(t, i - 1) \in Slots /\ Dist(t, Plus(t, i - 1)) = i - 1
    BY <2>1, PlusDist
  <2> QED
    BY <2>1, <2>2, DistRange
<1> QED
  BY <1>1 DEF ItemsBetween

\* When the head moves past a slot, the value in it is appended.
LEMMA ItemAppended ==
    ASSUME NEW S, NEW r \in [Slots -> S], NEW t \in Slots, NEW h \in Slots, next(h) # t
    PROVE  ItemsBetween(r, t, next(h)) = Append(ItemsBetween(r, t, h), r[h])
<1> DEFINE old == ItemsBetween(r, t, h)
           new == ItemsBetween(r, t, next(h))
<1>1. PICK n \in Nat : n = Dist(t, h)
  BY DistRange, SizeAssumption
<1>2. Dist(t, next(h)) = n + 1 /\ next(h) \in Slots
  BY <1>1, DistHeadMoves, NextSlot
<1>3. r[Plus(t, n)] = r[h] /\ r[h] \in S
  BY <1>1, PlusDist
<1>4. /\ old \in Seq(S) /\ Len(old) = n
      /\ \A i \in 1 .. n : old[i] = r[Plus(t, i - 1)]
  BY <1>1, ItemsInRing, ZenonT(60)
<1>5. /\ new \in Seq(S) /\ Len(new) = Dist(t, next(h))
      /\ \A i \in 1 .. Dist(t, next(h)) : new[i] = r[Plus(t, i - 1)]
  BY <1>2, ItemsInRing, ZenonT(60)
<1> HIDE DEF old, new
<1>6. /\ Append(old, r[h]) \in Seq(S)
      /\ Len(Append(old, r[h])) = n + 1
      /\ \A i \in 1 .. n : Append(old, r[h])[i] = old[i]
      /\ Append(old, r[h])[n + 1] = r[h]
  BY <1>3, <1>4, AppendElements
<1>7. ASSUME NEW i \in 1 .. n + 1 PROVE new[i] = Append(old, r[h])[i]
  <2>1. new[i] = r[Plus(t, i - 1)]
    BY <1>2, <1>5
  <2>2. CASE i \in 1 .. n
    BY <1>4, <1>6, <2>1, <2>2
  <2>3. CASE i = n + 1
    <3>1. i - 1 = n
      BY <2>3
    <3> QED
      BY <1>3, <1>6, <2>1, <2>3, <3>1
  <2>4. i \in 1 .. n \/ i = n + 1
    OBVIOUS
  <2> QED
    BY <2>2, <2>3, <2>4, Zenon
<1>8. new = Append(old, r[h])
  BY <1>2, <1>5, <1>6, <1>7, SameElements
<1> QED
  BY <1>8 DEF old, new

\* When the tail moves past a slot, the first item is gone and the others stay.
LEMMA ItemRemoved ==
    ASSUME NEW S, NEW r \in [Slots -> S], NEW t \in Slots, NEW h \in Slots, t # h
    PROVE  /\ ItemsBetween(r, t, h) # <<>>
           /\ Head(ItemsBetween(r, t, h)) = r[t]
           /\ ItemsBetween(r, next(t), h) = Tail(ItemsBetween(r, t, h))
<1> DEFINE old == ItemsBetween(r, t, h)
           new == ItemsBetween(r, next(t), h)
<1>1. PICK n \in 1 .. Size - 1 : n = Dist(t, h)
  BY DistRange, SizeAssumption
<1>2. Dist(next(t), h) = n - 1 /\ next(t) \in Slots
  BY <1>1, DistTailMoves, NextSlot
<1>3. /\ old \in Seq(S) /\ Len(old) = n
      /\ \A i \in 1 .. n : old[i] = r[Plus(t, i - 1)]
  BY <1>1, ItemsInRing, ZenonT(60)
<1>4. /\ new \in Seq(S) /\ Len(new) = Dist(next(t), h)
      /\ \A i \in 1 .. Dist(next(t), h) : new[i] = r[Plus(next(t), i - 1)]
  BY <1>2, ItemsInRing, ZenonT(60)
<1>5. Plus(t, 1 - 1) = t
  BY SizeAssumption DEF Plus, Slots
<1> HIDE DEF old, new
<1>6. old # <<>> /\ old[1] = r[t]
  BY <1>3, <1>5
<1>7. /\ Tail(old) \in Seq(S) /\ Len(Tail(old)) = n - 1
      /\ \A i \in 1 .. n - 1 : Tail(old)[i] = old[i + 1]
      /\ Head(old) = old[1]
  BY <1>3, <1>6, TailElements
<1>8. ASSUME NEW i \in 1 .. n - 1 PROVE new[i] = Tail(old)[i]
  <2>1. i + 1 \in 1 .. n /\ (i + 1) - 1 = i /\ i \in 1 .. Size - 1
    BY SizeAssumption
  <2>2. Plus(next(t), i - 1) = Plus(t, i)
    BY <2>1, PlusNext
  <2>3. new[i] = r[Plus(next(t), i - 1)]
    BY <1>2, <1>4
  <2> QED
    BY <1>3, <1>7, <2>1, <2>2, <2>3
<1>9. new = Tail(old)
  BY <1>2, <1>4, <1>7, <1>8, SameElements
<1> QED
  BY <1>6, <1>7, <1>9 DEF old, new

\* What the queue's guards mean for the ring.
LEMMA AbstractQueueFacts ==
    ASSUME TypeOK, RingInvariant
    PROVE  /\ AbstractQueue.items = ItemsBetween(ring_, tail, head)
           /\ Queue!HasRoom(AbstractQueue) <=> (next(head) # tail_[1].idx)
           /\ Queue!HasItem(AbstractQueue) <=> (tail # head_[1].idx)
<1> USE IndicesAreSlots
<1>1. PICK n \in Nat : n = Dist(tail, head_[1].idx)
  BY DistRange, SizeAssumption
<1>2. PICK m \in Nat : m = Dist(tail, head)
  BY DistRange, SizeAssumption
<1>3. Len(head_) \in Nat /\ Len(tail_) \in Nat /\ 1 \in DOMAIN tail_
  BY DEF TypeOK
<1>4. m = n + (Len(head_) - 1)
  BY <1>1, <1>2, Distances DEF RingInvariant
<1>5. Dist(tail_[1].idx, head) = (Len(tail_) - 1) + m
  BY <1>2, <1>3, Distances DEF RingInvariant
<1>6. Len(AbstractQueue.items) = m
  <2>1. head \in Slots /\ tail \in Slots
    OBVIOUS
  <2>2. Len(ItemsBetween(ring_, tail, head)) = Dist(tail, head)
    BY <2>1, ItemsCount
  <2> QED
    BY <1>2, <2>2 DEF AbstractQueue
<1>7. Dist(tail_[1].idx, head) \in 0 .. Size - 1
      /\ ((next(head) = tail_[1].idx) <=> (Dist(tail_[1].idx, head) = Size - 1))
  BY DistRange, DistHeadMoves
<1>8. Queue!HasRoom(AbstractQueue) <=> (m + (Len(tail_) - 1) < Size - 1)
  BY <1>6 DEF Queue!HasRoom, AbstractQueue
<1>9. Queue!HasItem(AbstractQueue) <=> (Len(head_) - 1 < m)
  BY <1>6 DEF Queue!HasItem, AbstractQueue
<1>10. (n = 0) <=> (tail = head_[1].idx)
  BY <1>1, DistRange
<1>11. Queue!HasRoom(AbstractQueue) <=> (next(head) # tail_[1].idx)
  BY <1>3, <1>5, <1>7, <1>8, SizeAssumption
<1>12. Queue!HasItem(AbstractQueue) <=> (tail # head_[1].idx)
  BY <1>3, <1>4, <1>9, <1>10
<1> QED
  BY <1>11, <1>12 DEF AbstractQueue

LEMMA InitImplementsQueue == Init => Queue!Init
<1> SUFFICES ASSUME Init PROVE Queue!Init
  OBVIOUS
<1>1. head = 0 /\ tail = 0 /\ Len(head_) = 1 /\ Len(tail_) = 1
  BY DEF Init, head, tail, Newest
<1>2. Dist(0, 0) = 0
  BY DEF Dist
<1>3. ItemsBetween(ring_, 0, 0) = <<>>
  BY <1>2 DEF ItemsBetween
<1>4. AbstractQueue = Queue!EmptyQueue
  BY <1>1, <1>3 DEF AbstractQueue, Queue!EmptyQueue
<1> QED
  BY <1>4 DEF Init, Queue!Init

\* Every step of the ring is a step of the queue or leaves it alone: a push
\* happens when its store publishes it, a pop when its store gives the slot
\* back, a refusal when the loads of the call find the ring full or empty.
LEMMA NextImplementsQueue ==
    ASSUME TypeOK, TypeOK', RingInvariant, [Next]_vars
    PROVE  [Queue!Next]_(Queue!vars)
<1> USE IndicesAreSlots
<1>1. /\ AbstractQueue.items = ItemsBetween(ring_, tail, head)
      /\ Queue!HasRoom(AbstractQueue) <=> (next(head) # tail_[1].idx)
      /\ Queue!HasItem(AbstractQueue) <=> (tail # head_[1].idx)
  BY AbstractQueueFacts
<1>2. /\ ring_ \in [Slots -> Values \cup {NoValue}]
      /\ head_ \in Seq(Stores) /\ head_ # <<>>
      /\ tail_ \in Seq(Stores) /\ tail_ # <<>>
      /\ next(head) \in Slots /\ next(tail) \in Slots
  BY NextSlot DEF TypeOK
<1>3. ASSUME UNCHANGED <<ring_, head_, tail_>>
      PROVE  AbstractQueue' = AbstractQueue
  BY <1>3 DEF AbstractQueue, head, tail, Newest
<1>4. CASE PushRefused
  <2>1. AbstractQueue' = AbstractQueue
    BY <1>3, <1>4 DEF PushRefused
  <2>2. Queue!RefusePush
    BY <1>1, <1>4, <2>1 DEF PushRefused, Queue!RefusePush, popVars
  <2> QED
    BY <2>2 DEF Queue!Next
<1>5. ASSUME NEW v \in Values, PushAccepted(v) PROVE UNCHANGED Queue!vars
  BY <1>3, <1>5 DEF PushAccepted, Queue!vars, popVars
<1>6. CASE PushWrite
  <2>1. /\ head' = head /\ tail' = tail /\ Len(head_') = Len(head_) /\ tail_' = tail_
    BY <1>6, UnorderedStores DEF PushWrite, TypeOK, head, tail, Newest
  <2>2. \A s \in Slots : s # head => ring_'[s] = ring_[s]
    BY <1>2, <1>6 DEF PushWrite
  <2>3. ItemsBetween(ring_', tail, head) = ItemsBetween(ring_, tail, head)
    BY <2>2, HeadSlotIsFree
  <2>4. AbstractQueue' = AbstractQueue
    BY <2>1, <2>3 DEF AbstractQueue
  <2> QED
    BY <1>6, <2>4 DEF PushWrite, Queue!vars, popVars
<1>7. CASE PushPublish
  <2>1. head_' = ReleaseStore(head_, next(head)) /\ tail_' = tail_ /\ ring_' = ring_
    BY <1>7 DEF PushPublish
  <2>2. Newest(head_').idx = next(head) /\ Len(head_') = Len(head_) + 1
    BY <1>2, <2>1, ReleaseStores
  <2>3. head' = next(head) /\ tail' = tail
    BY <2>1, <2>2 DEF head, tail
  <2>4. /\ next(head) # tail_[1].idx /\ next(head) # tail
        /\ ring_[head] = pushing /\ pushing \in Values
    BY <1>7, Distances DEF RingInvariant, Phases, PushPublish, TypeOK, tail, Newest
  <2>5. ItemsBetween(ring_, tail, next(head)) = Append(ItemsBetween(ring_, tail, head), pushing)
    BY <1>2, <2>4, ItemAppended
  <2>6. AbstractQueue' = [items |-> Append(ItemsBetween(ring_, tail, head), pushing),
                          unseenPushes |-> (Len(head_) - 1) + 1,
                          unseenPops |-> Len(tail_) - 1]
    <3>1. (Len(head_) + 1) - 1 = (Len(head_) - 1) + 1
      BY <1>2
    <3> QED
      BY <2>1, <2>2, <2>3, <2>5, <3>1 DEF AbstractQueue
  <2>7. AbstractQueue' = Queue!Pushed(AbstractQueue, pushing)
    BY <2>6 DEF AbstractQueue, Queue!Pushed
  <2>8. Queue!Push(pushing)
    BY <1>1, <1>7, <2>4, <2>7 DEF PushPublish, Queue!Push, popVars
  <2> QED
    BY <2>4, <2>8 DEF Queue!Next
<1>8. CASE PopRefused
  <2>1. AbstractQueue' = AbstractQueue
    BY <1>3, <1>8 DEF PopRefused
  <2>2. Queue!RefusePop
    BY <1>1, <1>8, <2>1 DEF PopRefused, Queue!RefusePop, pushVars
  <2> QED
    BY <2>2 DEF Queue!Next
<1>9. CASE PopAccepted
  BY <1>3, <1>9 DEF PopAccepted, Queue!vars, pushVars
<1>10. CASE PopRead
  <2>1. /\ head' = head /\ tail' = tail /\ Len(tail_') = Len(tail_)
        /\ head_' = head_ /\ ring_' = ring_
    BY <1>10, UnorderedStores DEF PopRead, TypeOK, head, tail, Newest
  <2>2. AbstractQueue' = AbstractQueue
    BY <2>1 DEF AbstractQueue
  <2> QED
    BY <1>10, <2>2 DEF PopRead, Queue!vars, pushVars
<1>11. CASE PopPublish
  <2>1. tail_' = ReleaseStore(tail_, next(tail)) /\ head_' = head_ /\ ring_' = ring_
    BY <1>11 DEF PopPublish
  <2>2. Newest(tail_').idx = next(tail) /\ Len(tail_') = Len(tail_) + 1
    BY <1>2, <2>1, ReleaseStores
  <2>3. tail' = next(tail) /\ head' = head
    BY <2>1, <2>2 DEF head, tail
  <2>4. tail # head_[1].idx /\ tail # head /\ popping = ring_[tail]
    BY <1>11, Distances DEF RingInvariant, Phases, PopPublish
  <2>5. /\ Head(ItemsBetween(ring_, tail, head)) = popping
        /\ ItemsBetween(ring_, next(tail), head) = Tail(ItemsBetween(ring_, tail, head))
    BY <1>2, <2>4, ItemRemoved
  <2>6. AbstractQueue' = [items |-> Tail(ItemsBetween(ring_, tail, head)),
                          unseenPushes |-> Len(head_) - 1,
                          unseenPops |-> (Len(tail_) - 1) + 1]
    <3>1. (Len(tail_) + 1) - 1 = (Len(tail_) - 1) + 1
      BY <1>2
    <3> QED
      BY <2>1, <2>2, <2>3, <2>5, <3>1 DEF AbstractQueue
  <2>7. AbstractQueue' = Queue!Popped(AbstractQueue)
    BY <2>6 DEF AbstractQueue, Queue!Popped
  <2>8. Queue!Pop
    BY <1>1, <1>11, <2>4, <2>5, <2>7 DEF PopPublish, Queue!Pop, pushVars
  <2> QED
    BY <2>8 DEF Queue!Next
<1>12. CASE HeadVisible
  <2>1. Newest(head_') = Newest(head_) /\ Len(head_') = Len(head_) - 1 /\ Len(head_) > 1
    BY <1>2, <1>12, FirstStoreDropped DEF HeadVisible
  <2>2. head' = head /\ tail' = tail /\ ring_' = ring_ /\ tail_' = tail_
    BY <1>12, <2>1 DEF HeadVisible, head, tail
  <2>3. AbstractQueue' = Queue!PushShown(AbstractQueue)
    BY <2>1, <2>2 DEF AbstractQueue, Queue!PushShown
  <2>4. AbstractQueue.unseenPushes > 0
    BY <1>2, <2>1 DEF AbstractQueue
  <2>5. Queue!ShowPush
    BY <1>12, <2>3, <2>4 DEF HeadVisible, Queue!ShowPush, pushVars, popVars
  <2> QED
    BY <2>5 DEF Queue!Next
<1>13. CASE TailVisible
  <2>1. Newest(tail_') = Newest(tail_) /\ Len(tail_') = Len(tail_) - 1 /\ Len(tail_) > 1
    BY <1>2, <1>13, FirstStoreDropped DEF TailVisible
  <2>2. head' = head /\ tail' = tail /\ ring_' = ring_ /\ head_' = head_
    BY <1>13, <2>1 DEF TailVisible, head, tail
  <2>3. AbstractQueue' = Queue!PopShown(AbstractQueue)
    BY <2>1, <2>2 DEF AbstractQueue, Queue!PopShown
  <2>4. AbstractQueue.unseenPops > 0
    BY <1>2, <2>1 DEF AbstractQueue
  <2>5. Queue!ShowPop
    BY <1>13, <2>3, <2>4 DEF TailVisible, Queue!ShowPop, pushVars, popVars
  <2> QED
    BY <2>5 DEF Queue!Next
<1>14. CASE UNCHANGED vars
  BY <1>3, <1>14 DEF vars, pushVars, popVars, Queue!vars
<1> QED
  BY <1>4, <1>5, <1>6, <1>7, <1>8, <1>9, <1>10, <1>11, <1>12, <1>13, <1>14
  DEF Next, PushStep, PopStep

\* ringbuffer.h keeps the promise of ReportQueue: for any number of slots,
\* whatever the two threads do and however late they see each other's stores,
\* each item pushed is popped once and in order, a push fails only if the
\* producer sees Size - 1 items, a pop only if the consumer sees none.
THEOREM RingImplementsQueue == Spec => ImplementsQueue
<1>1. Init => Queue!Init
  BY InitImplementsQueue
<1>2. TypeOK /\ TypeOK' /\ RingInvariant /\ [Next]_vars => [Queue!Next]_(Queue!vars)
  BY NextImplementsQueue
<1> QED
  BY <1>1, <1>2, TypeCorrect, InvariantHolds, PTL
  DEF Spec, ImplementsQueue, Queue!Spec
=============================================================================
