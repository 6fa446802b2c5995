---------------------------- MODULE ReportQueue -----------------------------
(***************************************************************************)
(* What ringbuffer<T, Size> promises to the thread that pushes and to the  *)
(* thread that pops: a first-in first-out queue that loses, duplicates and *)
(* invents nothing, that refuses a push only when the producer sees it     *)
(* full and a pop only when the consumer sees it empty.                    *)
(***************************************************************************)
EXTENDS BoundedQueue

CONSTANTS Values,  \* what is queued (telemetric_hdr_t)
          NoValue  \* the answer of a pop that returned false, not one of Values

VARIABLES
    q,        \* the queue
    pushRet,  \* what the last push returned
    popRet    \* what the last pop returned: a value, or NoValue for false

vars == <<q, pushRet, popRet>>

Init ==
    /\ q = EmptyQueue
    /\ pushRet = TRUE
    /\ popRet = NoValue

Push(v) ==
    /\ HasRoom(q)
    /\ q' = Pushed(q, v)
    /\ pushRet' = TRUE
    /\ UNCHANGED popRet

RefusePush ==
    /\ ~HasRoom(q)
    /\ pushRet' = FALSE
    /\ UNCHANGED <<q, popRet>>

Pop ==
    /\ HasItem(q)
    /\ q' = Popped(q)
    /\ popRet' = Head(q.items)
    /\ UNCHANGED pushRet

RefusePop ==
    /\ ~HasItem(q)
    /\ popRet' = NoValue
    /\ UNCHANGED <<q, pushRet>>

ShowPush ==
    /\ q.unseenPushes > 0
    /\ q' = PushShown(q)
    /\ UNCHANGED <<pushRet, popRet>>

ShowPop ==
    /\ q.unseenPops > 0
    /\ q' = PopShown(q)
    /\ UNCHANGED <<pushRet, popRet>>

Next ==
    \/ \E v \in Values : Push(v)
    \/ RefusePush
    \/ Pop
    \/ RefusePop
    \/ ShowPush
    \/ ShowPop

Spec == Init /\ [][Next]_vars

\* The sender thread keeps popping and stores become visible; nobody is
\* obliged to push.
FairSpec ==
    Spec /\ WF_vars(Pop) /\ WF_vars(ShowPush) /\ WF_vars(ShowPop)
=============================================================================
