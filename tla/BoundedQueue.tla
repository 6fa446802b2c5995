---------------------------- MODULE BoundedQueue ----------------------------
(***************************************************************************)
(* A bounded queue between one producing and one consuming thread, as a    *)
(* value: the operators a module needs to hold such queues in its state.   *)
(* Each thread learns what the other one did with a delay, so beside its   *)
(* items a queue counts the pushes its consumer has not seen yet and the   *)
(* pops its producer has not seen yet.                                     *)
(***************************************************************************)
EXTENDS Naturals, Sequences

CONSTANT Capacity  \* how many items fit: Size - 1 for ringbuffer<T, Size>

ASSUME CapacityAssumption == Capacity \in Nat

EmptyQueue == [items |-> <<>>, unseenPushes |-> 0, unseenPops |-> 0]

\* The producer counts an item until it has seen the pop that removed it.
HasRoom(q) == Len(q.items) + q.unseenPops < Capacity

\* The consumer does not count an item until it has seen its push.
HasItem(q) == q.unseenPushes < Len(q.items)

Pushed(q, v) ==
    [items |-> Append(q.items, v),
     unseenPushes |-> q.unseenPushes + 1,
     unseenPops |-> q.unseenPops]

Popped(q) ==
    [items |-> Tail(q.items),
     unseenPushes |-> q.unseenPushes,
     unseenPops |-> q.unseenPops + 1]

\* One more push is seen by the consumer, one more pop by the producer.
PushShown(q) == [q EXCEPT !.unseenPushes = @ - 1]
PopShown(q)  == [q EXCEPT !.unseenPops = @ - 1]

Queues(V) ==
    {q \in [items : Seq(V), unseenPushes : Nat, unseenPops : Nat] :
        /\ Len(q.items) + q.unseenPops <= Capacity
        /\ q.unseenPushes <= Len(q.items)}
=============================================================================
