----------------------------- MODULE RingBuffer -----------------------------
(***************************************************************************)
(* ringbuffer<T, Size> (ringbuffer.h): the queue between the packet loop,  *)
(* its only producer, and one sender thread, its only consumer, on a       *)
(* machine with the C++ memory model.                                      *)
(*                                                                         *)
(* head_ and tail_ are atomics with one writer each.  The module keeps the *)
(* stores of each in modification order: the first is the one the other    *)
(* thread reads, the last is the newest one, which its writer reads.  The  *)
(* other thread moves to the next store in a step of its own, so it may be *)
(* arbitrarily late.  A store also carries the slots whose accesses by its *)
(* writer an acquiring thread is ordered after; that is what the memory    *)
(* orders of the code are about.  An access to a slot that the accessing   *)
(* thread is not ordered after would be a data race, undefined behaviour.  *)
(***************************************************************************)
EXTENDS Integers, Sequences

CONSTANTS Size,    \* number of slots of ring_ (RING_BUFFER_SIZE)
          Values,  \* what is queued (telemetric_hdr_t)
          NoValue  \* no value

ASSUME SizeAssumption == Size \in Nat \ {0}
ASSUME NoValueAssumption == NoValue \notin Values

VARIABLES
    ring_,     \* the slots
    head_,     \* stores to head_ the consumer has still to move past
    tail_,     \* stores to tail_ the producer has still to move past
    writable,  \* slots the producer may write: ordered after every read of them
    readable,  \* slots the consumer may read: ordered after every write of them
    pcPush,    \* where push stands
    pushing,   \* the argument of push
    pushRet,   \* what the last push returned
    pcPop,     \* where pop stands
    popping,   \* the value pop has copied out of the ring
    popRet     \* what the last pop returned: a value, or NoValue for false

pushVars == <<pcPush, pushing, pushRet>>
popVars  == <<pcPop, popping, popRet>>
vars == <<ring_, head_, tail_, writable, readable, pushVars, popVars>>

Slots == 0 .. Size - 1

Stores == [idx : Slots, view : SUBSET Slots]

\* Mutant: the index is not wrapped at the last slot.
nextUnwrapped(current) == current + 1

next(current) == (current + 1) % Size

Newest(stores) == stores[Len(stores)]

head == Newest(head_).idx  \* the producer's relaxed load of its own atomic
tail == Newest(tail_).idx  \* the consumer's relaxed load of its own atomic

\* Mutant: memory_order_relaxed in place of memory_order_release.
RelaxedStore(stores, i) == Append(stores, [idx |-> i, view |-> {}])

\* store(i, memory_order_release): orders every access its writer made so far
\* before whoever acquires it.
ReleaseStore(stores, i) == Append(stores, [idx |-> i, view |-> Slots])

\* Mutant: memory_order_relaxed in place of memory_order_acquire.
RelaxedLoad(ordered, stores) == ordered

\* load(memory_order_acquire): the slots the loading thread is ordered on
\* after it, ordered being those before.
AcquireLoad(ordered, stores) == ordered \cup stores[1].view

\* A new access to slot s is not covered by the stores made before it.
Unordered(stores, s) ==
    [k \in DOMAIN stores |-> [stores[k] EXCEPT !.view = @ \ {s}]]

Init ==
    /\ ring_ = [s \in Slots |-> NoValue]
    /\ head_ = <<[idx |-> 0, view |-> Slots]>>
    /\ tail_ = <<[idx |-> 0, view |-> Slots]>>
    /\ writable = Slots
    /\ readable = Slots
    /\ pcPush = "idle" /\ pushing = NoValue /\ pushRet = TRUE
    /\ pcPop = "idle" /\ popping = NoValue /\ popRet = NoValue

-----------------------------------------------------------------------------
\* push: the two loads find the ring full.
PushRefused ==
    /\ pcPush = "idle"
    /\ next(head) = tail_[1].idx
    /\ writable' = AcquireLoad(writable, tail_)
    /\ pushRet' = FALSE
    /\ UNCHANGED <<ring_, head_, tail_, readable, pcPush, pushing, popVars>>

\* Mutant: push does not compare the next head with the tail.
PushUnchecked(v) ==
    /\ pcPush = "idle"
    /\ writable' = AcquireLoad(writable, tail_)
    /\ pcPush' = "write"
    /\ pushing' = v
    /\ UNCHANGED <<ring_, head_, tail_, readable, pushRet, popVars>>

\* push: the two loads find room for v.
PushAccepted(v) ==
    /\ pcPush = "idle"
    /\ next(head) # tail_[1].idx
    /\ writable' = AcquireLoad(writable, tail_)
    /\ pcPush' = "write"
    /\ pushing' = v
    /\ UNCHANGED <<ring_, head_, tail_, readable, pushRet, popVars>>

\* push: ring_[head] = value
PushWrite ==
    /\ pcPush = "write"
    /\ ring_' = [ring_ EXCEPT ![head] = pushing]
    /\ readable' = readable \ {head}
    /\ head_' = Unordered(head_, head)
    /\ pcPush' = "publish"
    /\ UNCHANGED <<tail_, writable, pushing, pushRet, popVars>>

\* push: head_.store(next_head), return true
PushPublish ==
    /\ pcPush = "publish"
    /\ head_' = ReleaseStore(head_, next(head))
    /\ pcPush' = "idle"
    /\ pushing' = NoValue
    /\ pushRet' = TRUE
    /\ UNCHANGED <<ring_, tail_, writable, readable, popVars>>

\* Mutant: pop takes a ring with one item for an empty one.
PopRefusedEarly ==
    /\ pcPop = "idle"
    /\ head_[1].idx \in {tail, next(tail)}
    /\ readable' = AcquireLoad(readable, head_)
    /\ popRet' = NoValue
    /\ UNCHANGED <<ring_, head_, tail_, writable, pushVars, pcPop, popping>>

\* pop: the two loads find the ring empty.
PopRefused ==
    /\ pcPop = "idle"
    /\ tail = head_[1].idx
    /\ readable' = AcquireLoad(readable, head_)
    /\ popRet' = NoValue
    /\ UNCHANGED <<ring_, head_, tail_, writable, pushVars, pcPop, popping>>

\* pop: the two loads find an item.
PopAccepted ==
    /\ pcPop = "idle"
    /\ tail # head_[1].idx
    /\ readable' = AcquireLoad(readable, head_)
    /\ pcPop' = "read"
    /\ UNCHANGED <<ring_, head_, tail_, writable, pushVars, popping, popRet>>

\* pop: value = ring_[tail]
PopRead ==
    /\ pcPop = "read"
    /\ popping' = ring_[tail]
    /\ writable' = writable \ {tail}
    /\ tail_' = Unordered(tail_, tail)
    /\ pcPop' = "publish"
    /\ UNCHANGED <<ring_, head_, readable, pushVars, popRet>>

\* Mutant: pop returns without storing the new tail.
PopUnpublished ==
    /\ pcPop = "publish"
    /\ pcPop' = "idle"
    /\ popping' = NoValue
    /\ popRet' = popping
    /\ UNCHANGED <<ring_, head_, tail_, writable, readable, pushVars>>

\* pop: tail_.store(next(tail)), return true
PopPublish ==
    /\ pcPop = "publish"
    /\ tail_' = ReleaseStore(tail_, next(tail))
    /\ pcPop' = "idle"
    /\ popping' = NoValue
    /\ popRet' = popping
    /\ UNCHANGED <<ring_, head_, writable, readable, pushVars>>

\* The consumer's next load of head_ (the producer's of tail_) may see one
\* store more.
HeadVisible ==
    /\ Len(head_) > 1
    /\ head_' = Tail(head_)
    /\ UNCHANGED <<ring_, tail_, writable, readable, pushVars, popVars>>

TailVisible ==
    /\ Len(tail_) > 1
    /\ tail_' = Tail(tail_)
    /\ UNCHANGED <<ring_, head_, writable, readable, pushVars, popVars>>

-----------------------------------------------------------------------------
PushStep == PushRefused \/ (\E v \in Values : PushAccepted(v)) \/ PushWrite \/ PushPublish
PopStep == PopRefused \/ PopAccepted \/ PopRead \/ PopPublish

Next == PushStep \/ PopStep \/ HeadVisible \/ TailVisible

Spec == Init /\ [][Next]_vars

\* A push that began finishes, the sender thread keeps calling pop, and a
\* store becomes visible in finite time; nobody is obliged to push.
FairSpec ==
    /\ Spec
    /\ WF_vars(PushWrite \/ PushPublish)
    /\ WF_vars(PopStep)
    /\ WF_vars(HeadVisible)
    /\ WF_vars(TailVisible)

-----------------------------------------------------------------------------
TypeOK ==
    /\ ring_ \in [Slots -> Values \cup {NoValue}]
    /\ head_ \in Seq(Stores) /\ head_ # <<>>
    /\ tail_ \in Seq(Stores) /\ tail_ # <<>>
    /\ writable \subseteq Slots
    /\ readable \subseteq Slots
    /\ pcPush \in {"idle", "write", "publish"}
    /\ pushing \in Values \cup {NoValue}
    /\ (pcPush # "idle") => (pushing \in Values)
    /\ pushRet \in BOOLEAN
    /\ pcPop \in {"idle", "read", "publish"}
    /\ popping \in Values \cup {NoValue}
    /\ popRet \in Values \cup {NoValue}

\* Neither thread ever accesses a slot it is not ordered on: the producer
\* writes ring_[head] only after every read of it by the consumer, and the
\* consumer reads ring_[tail] only after every write of it by the producer.
\* This is what the release stores and acquire loads of push and pop buy.
NoDataRace ==
    /\ (pcPush = "write") => (head \in writable)
    /\ (pcPop = "read") => (tail \in readable)

-----------------------------------------------------------------------------
\* Steps forward around the ring from slot a to slot b, and the slot i steps
\* after a.
Dist(a, b) == IF a <= b THEN b - a ELSE b + Size - a
Plus(a, i) == IF a + i < Size THEN a + i ELSE a + i - Size

\* The items of a ring r with its tail at slot t and its head at slot h.
ItemsBetween(r, t, h) == [i \in 1 .. Dist(t, h) |-> r[Plus(t, i - 1)]]

\* The queue the ring stands for: the slots from tail to head, where the two
\* threads lag behind by the stores they have not moved past.
AbstractQueue ==
    [items |-> ItemsBetween(ring_, tail, head),
     unseenPushes |-> Len(head_) - 1,
     unseenPops |-> Len(tail_) - 1]

Queue == INSTANCE ReportQueue WITH Capacity <- Size - 1, q <- AbstractQueue

\* The ring is the promised queue: every item comes out once and in order, a
\* push is refused only when the producer sees Size - 1 items and a pop only
\* when the consumer sees none.
ImplementsQueue == Queue!Spec

\* ... and it keeps the queue's promise of progress.
ImplementsFairQueue == Queue!FairSpec

\* Every slot that holds an item is given back: no report stays in the ring
\* forever, even when the producer refills it as fast as it can.
EverySlotDrains ==
    \A s \in Slots :
        (Dist(tail, s) < Dist(tail, head)) ~> ~(Dist(tail, s) < Dist(tail, head))

\* A refused push does not stay refused: the producer sees room again.
RoomReturns ==
    (Size > 1) => ((~pushRet) ~> (next(head) # tail_[1].idx))

-----------------------------------------------------------------------------
(* The inductive invariant behind the properties above. *)

\* Each atomic moves one slot per store, and around the ring come first the
\* tails the producer has not moved past, then the items the consumer sees,
\* then the items it does not see yet.
Order ==
    \A j \in DOMAIN tail_, k \in DOMAIN head_ :
        Dist(tail_[j].idx, head_[k].idx)
            = (Len(tail_) - j) + Dist(tail, head_[1].idx) + (k - 1)

\* What the loads of a call found still holds when the call acts on it.
Phases ==
    /\ (pcPush # "idle") => (next(head) # tail_[1].idx)
    /\ (pcPush = "publish") => (ring_[head] = pushing)
    /\ (pcPop # "idle") => (tail # head_[1].idx)
    /\ (pcPop = "publish") => (popping = ring_[tail])

\* Whoever acquires a store to head_ may read every item below it; whoever
\* acquires a store to tail_ may write every slot above it that is free.
HeadViews ==
    \A k \in DOMAIN head_, s \in Slots :
        (Dist(tail, s) < Dist(tail, head_[k].idx)) => (s \in head_[k].view)

TailViews ==
    \A j \in DOMAIN tail_, s \in Slots :
        (Dist(tail_[j].idx, s) >= Dist(tail_[j].idx, head)) => (s \in tail_[j].view)

\* The order of the two atomics around the ring, what each call may still
\* rely on, and what each store makes visible; with TypeOK it is inductive.
RingInvariant ==
    Order /\ Phases /\ HeadViews /\ TailViews /\ NoDataRace
=============================================================================
