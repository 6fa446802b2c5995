------------------------- MODULE IntExporter_proofs -------------------------
(***************************************************************************)
(* For every number of senders, ring capacity and set of options: the      *)
(* exporter is type correct, sendData serves the rings in turn, drops a    *)
(* report only when every ring refused it, no report is lost or sent       *)
(* twice, each ring's reports keep their order all the way to the socket,  *)
(* and the counter of a sender is the size of its batch.                   *)
(***************************************************************************)
EXTENDS IntExporter, SequenceTheorems, NumberTheorems, TLAPS

-----------------------------------------------------------------------------
(* Queues and sequences. *)

\* What the operations of a thread make of a queue, while their guards hold.
LEMMA QueueSteps ==
    ASSUME NEW V, NEW q \in Queues(V)
    PROVE  /\ q.items \in Seq(V)
           /\ \A v \in V : HasRoom(q) =>
                Pushed(q, v) \in Queues(V) /\ Pushed(q, v).items = Append(q.items, v)
           /\ HasItem(q) =>
                /\ q.items # <<>>
                /\ Popped(q) \in Queues(V) /\ Popped(q).items = Tail(q.items)
           /\ q.unseenPushes > 0 =>
                PushShown(q) \in Queues(V) /\ PushShown(q).items = q.items
           /\ q.unseenPops > 0 =>
                PopShown(q) \in Queues(V) /\ PopShown(q).items = q.items
<1>1. /\ q.items \in Seq(V) /\ q.unseenPushes \in Nat /\ q.unseenPops \in Nat
      /\ Len(q.items) + q.unseenPops <= Capacity
      /\ q.unseenPushes <= Len(q.items)
      /\ Len(q.items) \in Nat
      /\ q = [items |-> q.items, unseenPushes |-> q.unseenPushes, unseenPops |-> q.unseenPops]
    BY DEF Queues
<1>2. ASSUME NEW v \in V, HasRoom(q)
      PROVE  Pushed(q, v) \in Queues(V) /\ Pushed(q, v).items = Append(q.items, v)
    BY <1>1, <1>2, CapacityAssumption DEF HasRoom, Pushed, Queues
<1>3. ASSUME HasItem(q)
      PROVE  /\ q.items # <<>>
             /\ Popped(q) \in Queues(V) /\ Popped(q).items = Tail(q.items)
  <2>1. q.items # <<>>
      BY <1>1, <1>3 DEF HasItem
  <2>2. Tail(q.items) \in Seq(V) /\ Len(Tail(q.items)) = Len(q.items) - 1
      BY <1>1, <2>1
  <2> QED
      BY <1>1, <1>3, <2>1, <2>2, CapacityAssumption DEF HasItem, Popped, Queues
<1>4. ASSUME q.unseenPushes > 0
      PROVE  PushShown(q) \in Queues(V) /\ PushShown(q).items = q.items
    BY <1>1, <1>4, CapacityAssumption DEF PushShown, Queues
<1>5. ASSUME q.unseenPops > 0
      PROVE  PopShown(q) \in Queues(V) /\ PopShown(q).items = q.items
    BY <1>1, <1>5, CapacityAssumption DEF PopShown, Queues
<1> QED
    BY <1>1, <1>2, <1>3, <1>4, <1>5

\* What a socket was given, what is in the data and what is in the ring.
Joined(a, b, c) == a \o b \o c

\* Reports change their place without changing their order: the data is sent,
LEMMA SendKeepsOrder ==
    ASSUME NEW S, NEW a \in Seq(S), NEW b \in Seq(S), NEW c \in Seq(S)
    PROVE  Joined(a \o b, <<>>, c) = Joined(a, b, c)
BY ConcatProperties, ConcatEmptySeq DEF Joined

\* a report is popped from the ring into the data,
LEMMA PopKeepsOrder ==
    ASSUME NEW S, NEW a \in Seq(S), NEW b \in Seq(S), NEW c \in Seq(S), c # <<>>
    PROVE  Joined(a, Append(b, Head(c)), Tail(c)) = Joined(a, b, c)
<1>1. a \o b \in Seq(S)
    BY ConcatProperties
<1>2. Head(c) \in S /\ Tail(c) \in Seq(S) /\ c = <<Head(c)>> \o Tail(c)
    OBVIOUS
<1>3. Append(b, Head(c)) = b \o <<Head(c)>> /\ <<Head(c)>> \in Seq(S)
    BY <1>2, AppendIsConcat
<1>4. a \o (b \o <<Head(c)>>) = (a \o b) \o <<Head(c)>>
    BY <1>3, ConcatAssociative
<1>5. ((a \o b) \o <<Head(c)>>) \o Tail(c) = (a \o b) \o (<<Head(c)>> \o Tail(c))
    BY <1>1, <1>2, <1>3, ConcatAssociative, SMTT(30)
<1> QED
    BY <1>2, <1>3, <1>4, <1>5 DEF Joined

\* or a report is pushed behind the others.
LEMMA PushKeepsOrder ==
    ASSUME NEW S, NEW a \in Seq(S), NEW b \in Seq(S), NEW c \in Seq(S), NEW v \in S
    PROVE  Joined(a, b, Append(c, v)) = Append(Joined(a, b, c), v)
<1>1. a \o b \in Seq(S) /\ a \o b \o c \in Seq(S)
    BY ConcatProperties
<1>2. Append(c, v) = c \o <<v>> /\ <<v>> \in Seq(S)
    BY AppendIsConcat
<1>3. Append((a \o b) \o c, v) = ((a \o b) \o c) \o <<v>>
    BY <1>1, AppendIsConcat
<1>4. ((a \o b) \o c) \o <<v>> = (a \o b) \o (c \o <<v>>)
    BY <1>1, <1>2, ConcatAssociative
<1> QED
    BY <1>2, <1>3, <1>4 DEF Joined

-----------------------------------------------------------------------------
(* Type correctness. *)

\* The next ring is one up, or the first after the last.
LEMMA NextRingIs ==
    ASSUME TypeOK, m_th_num > 0, m_rr_index \in 0 .. m_th_num - 1
    PROVE  /\ m_th_num \in Nat
           /\ NextRing \in 0 .. m_th_num - 1
           /\ NextRing \in Senders
           /\ NextRing = IF m_rr_index + 1 = m_th_num THEN 0 ELSE m_rr_index + 1
<1> DEFINE n == m_th_num
           m == m_rr_index
<1>1. n \in Nat /\ n > 0 /\ m \in 0 .. n - 1 /\ n <= MaxSenders /\ MaxSenders \in Nat
    BY ExporterAssumption, OptionAssumption DEF TypeOK, m_th_num
<1>2. (m + 1) % n = IF m + 1 = n THEN 0 ELSE m + 1
  <2> HIDE DEF n, m
  <2>1. CASE m + 1 = n
      BY <1>1, <2>1
  <2>2. CASE m + 1 # n
      BY <1>1, <2>2
  <2> QED
      BY <2>1, <2>2
<1>3. (m + 1) % n \in 0 .. n - 1
  <2> HIDE DEF n, m
  <2> QED
      BY <1>1, <1>2
<1> QED
    BY <1>1, <1>2, <1>3 DEF NextRing, Senders

\* The index of the round robin stays below the number of rings.
IndexInRange == m_th_num > 0 => m_rr_index \in 0 .. m_th_num - 1

Types == TypeOK /\ IndexInRange

LEMMA TypesInit == Init => Types
<1>1. EmptyQueue \in Queues(Reports)
    BY CapacityAssumption DEF EmptyQueue, Queues
<1> QED
    BY <1>1, ExporterAssumption, OptionAssumption DEF Init, Types, TypeOK, IndexInRange, Senders, m_th_num

\* What the constants are assumed to be, with the options in force.
LEMMA Numbers ==
    ASSUME TypeOK
    PROVE  /\ m_th_num \in 0 .. MaxSenders /\ MaxSenders \in Nat
           /\ MaxReports \in Nat /\ PopThreshold \in Nat
           /\ HopCounts \subseteq Nat
           /\ 0 .. m_th_num - 1 \subseteq Senders
           /\ \A s \in Senders : s \in Nat
BY ExporterAssumption, OptionAssumption DEF TypeOK, m_th_num, Senders

\* No step changes the options.
LEMMA OptionsFixed ==
    ASSUME Main \/ (\E s \in Senders : Sender(s) \/ Visible(s))
    PROVE  opt' = opt /\ m_th_num' = m_th_num
BY DEF Main, Construct, StartSender, UnknownProtocol, SendData, SendDataStep, PushReport,
       PushRefused, GiveUp, Exit, Sender, Connected, ConnectFailed, PollEmpty, PollReport,
       Sent, Visible, PushBecomesVisible, PopBecomesVisible, m_th_num

LEMMA MainKeepsTypes ==
    ASSUME Types, Main
    PROVE  TypeOK' /\ IndexInRange'
<1> USE DEF mainVars, senderVars
<1>0. /\ TypeOK /\ IndexInRange
      /\ m_th_num \in 0 .. MaxSenders /\ MaxSenders \in Nat
      /\ MaxReports \in Nat /\ PopThreshold \in Nat /\ HopCounts \subseteq Nat
      /\ 0 .. m_th_num - 1 \subseteq Senders
      /\ m_th_num' = m_th_num
    BY Numbers, OptionsFixed DEF Types
<1>1. CASE StartSender
    BY <1>0, <1>1 DEF StartSender, TypeOK, IndexInRange, Senders
<1>2. CASE UnknownProtocol
    BY <1>0, <1>2 DEF UnknownProtocol, TypeOK, IndexInRange
<1>3. ASSUME NEW h \in HopCounts, SendData(h)
      PROVE  TypeOK' /\ IndexInRange'
  <2>1. sending' \in Reports \cup {NoReport}
      BY <1>0, <1>3 DEF SendData, TypeOK, Reports
  <2>2. nextId' \in 1 .. MaxReports + 1 /\ attempt' \in 0 .. m_th_num'
      BY <1>0, <1>3 DEF SendData, TypeOK
  <2> QED
      BY <1>0, <1>3, <2>1, <2>2 DEF SendData, TypeOK, IndexInRange
<1>4. CASE PushReport
  <2>1. m_th_num > 0 /\ sending \in Reports
      BY <1>0, <1>4 DEF PushReport, TypeOK
  <2>2. NextRing \in Senders /\ NextRing \in 0 .. m_th_num - 1
      BY <1>0, <2>1, NextRingIs DEF IndexInRange
  <2>3. Pushed(rings[NextRing], sending) \in Queues(Reports)
      BY <1>0, <1>4, <2>1, <2>2, QueueSteps DEF PushReport, TypeOK
  <2>4. rings' \in [Senders -> Queues(Reports)] /\ attempt' \in 0 .. m_th_num'
      BY <1>0, <1>4, <2>2, <2>3 DEF PushReport, TypeOK
  <2> QED
      BY <1>0, <1>4, <2>1, <2>2, <2>4 DEF PushReport, TypeOK, IndexInRange
<1>5. CASE PushRefused
  <2>1. m_th_num > 0
      BY <1>0, <1>5 DEF PushRefused, TypeOK
  <2>2. NextRing \in Senders /\ NextRing \in 0 .. m_th_num - 1
      BY <1>0, <2>1, NextRingIs DEF IndexInRange
  <2>3. attempt' \in 0 .. m_th_num'
      BY <1>0, <1>5 DEF PushRefused, TypeOK
  <2>4. refused' \in [Senders -> Nat]
    <3>1. refused[NextRing] + 1 \in Nat
        BY <1>0, <2>2 DEF TypeOK
    <3> QED
        BY <1>0, <1>5, <3>1 DEF PushRefused, TypeOK
  <2> QED
      BY <1>0, <1>5, <2>2, <2>3, <2>4 DEF PushRefused, TypeOK, IndexInRange
<1>6. CASE GiveUp
    BY <1>0, <1>6 DEF GiveUp, TypeOK, IndexInRange
<1>7. CASE Exit
    BY <1>0, <1>7 DEF Exit, TypeOK, IndexInRange
<1> QED
    BY <1>1, <1>2, <1>3, <1>4, <1>5, <1>6, <1>7 DEF Main, Construct, SendDataStep

LEMMA SenderKeepsTypes ==
    ASSUME Types, NEW s \in Senders, Sender(s) \/ Visible(s)
    PROVE  TypeOK' /\ IndexInRange'
<1> USE DEF mainVars, senderVars
<1>0. /\ TypeOK /\ IndexInRange
      /\ m_th_num \in 0 .. MaxSenders /\ MaxSenders \in Nat
      /\ MaxReports \in Nat /\ PopThreshold \in Nat /\ HopCounts \subseteq Nat
      /\ 0 .. m_th_num - 1 \subseteq Senders
      /\ m_th_num' = m_th_num
    BY Numbers, OptionsFixed DEF Types
<1>1. CASE Connected(s)
    BY <1>0, <1>1 DEF Connected, TypeOK, IndexInRange
<1>2. CASE ConnectFailed(s)
    BY <1>0, <1>2 DEF ConnectFailed, TypeOK, IndexInRange
<1>3. CASE PollEmpty(s)
    BY <1>0, <1>3 DEF PollEmpty, TypeOK, IndexInRange
<1>4. CASE PollReport(s)
  <2>1. rings[s] \in Queues(Reports) /\ HasItem(rings[s])
      BY <1>0, <1>4 DEF PollReport, TypeOK
  <2>2. Popped(rings[s]) \in Queues(Reports) /\ Head(rings[s].items) \in Reports
      BY <2>1, QueueSteps, HeadTailProperties
  <2>3. add_report(Head(rings[s].items)) \in Nat
    <3>1. Head(rings[s].items).hops \in Nat
        BY <1>0, <2>2 DEF Reports
    <3> QED
        BY <3>1 DEF add_report
  <2>4. rings' \in [Senders -> Queues(Reports)] /\ flush' \in [Senders -> 0 .. PopThreshold + 1]
      BY <1>0, <1>4, <2>2 DEF PollReport, TypeOK
  <2>5. data' \in [Senders -> Seq(Reports)]
    <3>1. Append(data[s], Head(rings[s].items)) \in Seq(Reports)
        BY <1>0, <2>2, AppendProperties DEF TypeOK
    <3> QED
        BY <1>0, <1>4, <3>1 DEF PollReport, TypeOK
  <2>6. it' \in [Senders -> Nat]
    <3>1. it[s] + add_report(Head(rings[s].items)) \in Nat
        BY <1>0, <2>3 DEF TypeOK
    <3> QED
        BY <1>0, <1>4, <3>1, ZenonT(60) DEF PollReport, TypeOK
  <2>7. pc' \in [Senders -> {"none", "connect", "poll", "send"}]
      BY <1>0, <1>4 DEF PollReport, TypeOK
  <2> QED
      BY <1>0, <1>4, <2>4, <2>5, <2>6, <2>7 DEF PollReport, TypeOK, IndexInRange
<1>5. CASE Sent(s)
  <2>1. Ids(data[s]) \subseteq 1 .. MaxReports
    <3>1. data[s] \in Seq(Reports)
        BY <1>0 DEF TypeOK
    <3>2. \A i \in DOMAIN data[s] : data[s][i] \in Reports
        BY <3>1, LenProperties
    <3> QED
        BY <3>2 DEF Ids, Reports
  <2>2. unnoticed' \subseteq 1 .. MaxReports
      BY <1>0, <1>5, <2>1 DEF Sent, TypeOK
  <2>3. sent' \in [Senders -> Seq(Reports)] /\ data' \in [Senders -> Seq(Reports)]
    <3>1. sent[s] \o data[s] \in Seq(Reports) /\ <<>> \in Seq(Reports)
        BY <1>0, ConcatProperties DEF TypeOK
    <3> QED
        BY <1>0, <1>5, <3>1 DEF Sent, TypeOK
  <2> QED
      BY <1>0, <1>5, <2>2, <2>3 DEF Sent, TypeOK, IndexInRange
<1>6. CASE PushBecomesVisible(s)
  <2>1. PushShown(rings[s]) \in Queues(Reports)
      BY <1>0, <1>6, QueueSteps DEF PushBecomesVisible, TypeOK
  <2> QED
      BY <1>0, <1>6, <2>1 DEF PushBecomesVisible, TypeOK, IndexInRange
<1>7. CASE PopBecomesVisible(s)
  <2>1. PopShown(rings[s]) \in Queues(Reports)
      BY <1>0, <1>7, QueueSteps DEF PopBecomesVisible, TypeOK
  <2> QED
      BY <1>0, <1>7, <2>1 DEF PopBecomesVisible, TypeOK, IndexInRange
<1> QED
    BY <1>1, <1>2, <1>3, <1>4, <1>5, <1>6, <1>7 DEF Sender, Visible

LEMMA TypesKept ==
    ASSUME Types, [Next]_vars
    PROVE  Types'
<1>1. CASE Next
    BY <1>1, MainKeepsTypes, SenderKeepsTypes DEF Next, Types
<1>2. CASE UNCHANGED vars
    BY <1>2 DEF vars, mainVars, senderVars, Types, TypeOK, IndexInRange, m_th_num
<1> QED
    BY <1>1, <1>2

-----------------------------------------------------------------------------
(* What a step does to the reports a ring has accepted. *)

LEMMA AcceptedIsSequence ==
    ASSUME TypeOK, NEW s \in Senders
    PROVE  /\ Accepted(s) \in Seq(Reports)
           /\ sent[s] \in Seq(Reports) /\ data[s] \in Seq(Reports)
           /\ rings[s] \in Queues(Reports) /\ rings[s].items \in Seq(Reports)
<1>1. /\ sent[s] \in Seq(Reports) /\ data[s] \in Seq(Reports)
      /\ rings[s] \in Queues(Reports)
    BY DEF TypeOK
<1>2. rings[s].items \in Seq(Reports)
    BY <1>1, QueueSteps
<1> QED
    BY <1>1, <1>2, ConcatProperties DEF Accepted

\* Without a host no report is offered, so no sender pops and forgets one.
NothingWithoutHost ==
    ~opt.hostValid =>
        /\ sending = NoReport
        /\ \A s \in Senders : rings[s].items = <<>>

\* A step of a sender moves reports on and changes no order.
LEMMA SenderKeepsAccepted ==
    ASSUME Types, NothingWithoutHost, NEW s \in Senders, Sender(s) \/ Visible(s),
           NEW t \in Senders
    PROVE  Accepted(t)' = Accepted(t)
<1>0. TypeOK
    BY DEF Types
<1> DEFINE Unmoved == sent'[t] = sent[t] /\ data'[t] = data[t] /\ rings'[t].items = rings[t].items
<1>1. ASSUME Unmoved
      PROVE  Accepted(t)' = Accepted(t)
    BY <1>1 DEF Accepted
<1>2. CASE s # t
    BY <1>0, <1>1, <1>2 DEF Sender, Connected, ConnectFailed, PollEmpty, PollReport, Sent,
          Visible, PushBecomesVisible, PopBecomesVisible, senderVars, TypeOK
<1>3. CASE s = t /\ (Connected(s) \/ ConnectFailed(s) \/ PollEmpty(s))
    BY <1>1, <1>3 DEF Connected, ConnectFailed, PollEmpty, senderVars
<1>4. CASE s = t /\ PollReport(s)
  <2>1. rings[t] \in Queues(Reports) /\ HasItem(rings[t])
      BY <1>0, <1>4, AcceptedIsSequence DEF PollReport
  <2>2. rings[t].items # <<>> /\ Popped(rings[t]).items = Tail(rings[t].items)
      BY <2>1, QueueSteps
  <2>3. opt.hostValid
      BY <2>2 DEF NothingWithoutHost
  <2>4. /\ sent'[t] = sent[t]
        /\ data'[t] = Append(data[t], Head(rings[t].items))
        /\ rings'[t].items = Tail(rings[t].items)
      BY <1>0, <1>4, <2>2, <2>3 DEF PollReport, TypeOK
  <2>5. sent[t] \in Seq(Reports) /\ data[t] \in Seq(Reports) /\ rings[t].items \in Seq(Reports)
      BY <1>0, AcceptedIsSequence
  <2>6. Joined(sent[t], data'[t], rings'[t].items) = Joined(sent[t], data[t], rings[t].items)
      BY <2>2, <2>4, <2>5, PopKeepsOrder
  <2> QED
      BY <2>4, <2>6 DEF Accepted, Joined
<1>5. CASE s = t /\ Sent(s)
  <2>1. /\ sent'[t] = sent[t] \o data[t]
        /\ data'[t] = <<>>
        /\ rings'[t].items = rings[t].items
      BY <1>0, <1>5 DEF Sent, TypeOK
  <2>2. Joined(sent[t] \o data[t], <<>>, rings[t].items) = Joined(sent[t], data[t], rings[t].items)
      BY <1>0, AcceptedIsSequence, SendKeepsOrder
  <2> QED
      BY <2>1, <2>2 DEF Accepted, Joined
<1>6. CASE s = t /\ Visible(s)
  <2>1. rings[t] \in Queues(Reports)
      BY <1>0, AcceptedIsSequence
  <2>2. rings'[t].items = rings[t].items
      BY <1>0, <1>6, <2>1, QueueSteps DEF Visible, PushBecomesVisible, PopBecomesVisible, TypeOK
  <2> QED
      BY <1>1, <1>6, <2>2 DEF Visible, PushBecomesVisible, PopBecomesVisible, senderVars
<1> QED
    BY <1>2, <1>3, <1>4, <1>5, <1>6 DEF Sender

\* Of the main thread's steps only an accepted push changes what rings accepted.
LEMMA PushAppends ==
    ASSUME Types, PushReport
    PROVE  /\ NextRing \in 0 .. m_th_num - 1 /\ NextRing \in Senders
           /\ sending \in Reports
           /\ \A t \in Senders :
                Accepted(t)' = IF t = NextRing THEN Append(Accepted(t), sending) ELSE Accepted(t)
<1>0. TypeOK /\ m_th_num > 0 /\ m_rr_index \in 0 .. m_th_num - 1 /\ sending \in Reports
  <2>1. TypeOK
      BY DEF Types
  <2>2. m_th_num \in Nat /\ attempt \in Nat /\ attempt < m_th_num
      BY <2>1, Numbers DEF TypeOK, PushReport
  <2> QED
      BY <2>1, <2>2 DEF Types, IndexInRange, TypeOK, PushReport
<1>1. NextRing \in 0 .. m_th_num - 1 /\ NextRing \in Senders
    BY <1>0, NextRingIs
<1>2. sent' = sent /\ data' = data
      /\ rings' = [rings EXCEPT ![NextRing] = Pushed(@, sending)]
    BY DEF PushReport, senderVars
<1>3. ASSUME NEW t \in Senders, t = NextRing
      PROVE  Accepted(t)' = Append(Accepted(t), sending)
  <2>1. rings[t] \in Queues(Reports) /\ HasRoom(rings[t])
      BY <1>0, <1>3, AcceptedIsSequence DEF PushReport
  <2>2. Pushed(rings[t], sending).items = Append(rings[t].items, sending)
      BY DEF Pushed
  <2>3. rings'[t].items = Append(rings[t].items, sending)
      BY <1>0, <1>2, <1>3, <2>2 DEF TypeOK
  <2>4. sent[t] \in Seq(Reports) /\ data[t] \in Seq(Reports) /\ rings[t].items \in Seq(Reports)
      BY <1>0, AcceptedIsSequence
  <2>5. Joined(sent[t], data[t], Append(rings[t].items, sending))
            = Append(Joined(sent[t], data[t], rings[t].items), sending)
    <3>1. \A a, b, c \in Seq(Reports) : \A v \in Reports :
             Joined(a, b, Append(c, v)) = Append(Joined(a, b, c), v)
        BY PushKeepsOrder
    <3> QED
        BY <1>0, <2>4, <3>1
  <2> QED
      BY <1>2, <2>3, <2>5 DEF Accepted, Joined
<1>4. ASSUME NEW t \in Senders, t # NextRing
      PROVE  Accepted(t)' = Accepted(t)
    BY <1>0, <1>2, <1>4 DEF Accepted, TypeOK
<1> QED
    BY <1>0, <1>1, <1>3, <1>4

\* The other steps of the main thread leave the rings and their reports alone.
LEMMA MainKeepsAccepted ==
    ASSUME Main, ~PushReport, NEW t \in Senders
    PROVE  Accepted(t)' = Accepted(t) /\ rings' = rings
BY DEF Main, Construct, StartSender, UnknownProtocol, SendData, SendDataStep, PushRefused,
       GiveUp, Exit, senderVars, Accepted

LEMMA HostInit == Init => NothingWithoutHost
BY DEF Init, NothingWithoutHost, EmptyQueue

LEMMA HostKept ==
    ASSUME Types, NothingWithoutHost, Main \/ \E s \in Senders : Sender(s) \/ Visible(s)
    PROVE  NothingWithoutHost'
<1>0. TypeOK /\ opt' = opt
    BY OptionsFixed DEF Types
<1>1. CASE Main
  <2>1. CASE opt.hostValid
      BY <1>0, <2>1 DEF NothingWithoutHost
  <2>2. CASE ~opt.hostValid
    <3>1. ~PushReport /\ \A h \in HopCounts : ~SendData(h)
        BY <2>2 DEF NothingWithoutHost, PushReport, SendData
    <3>2. rings' = rings /\ sending' \in {sending, NoReport}
        BY <1>1, <3>1 DEF Main, Construct, StartSender, UnknownProtocol, SendDataStep,
              PushRefused, GiveUp, Exit, mainVars
    <3> QED
        BY <1>0, <2>2, <3>2 DEF NothingWithoutHost
  <2> QED
      BY <2>1, <2>2
<1>2. ASSUME NEW s \in Senders, Sender(s) \/ Visible(s)
      PROVE  NothingWithoutHost'
  <2>1. sending' = sending
      BY <1>2 DEF Sender, Connected, ConnectFailed, PollEmpty, PollReport, Sent, Visible,
            PushBecomesVisible, PopBecomesVisible, mainVars
  <2>2. ASSUME ~opt.hostValid, NEW t \in Senders
        PROVE  rings'[t].items = <<>>
    <3>1. rings[t].items = <<>> /\ rings[s] \in Queues(Reports) /\ rings[s].items = <<>>
        BY <1>0, <2>2, AcceptedIsSequence DEF NothingWithoutHost
    <3>2. ~PollReport(s)
        BY <3>1, QueueSteps DEF PollReport
    <3>3. rings'[t].items = rings[t].items
        BY <1>0, <1>2, <3>1, <3>2, QueueSteps DEF Sender, Connected, ConnectFailed, PollEmpty, Sent,
              Visible, PushBecomesVisible, PopBecomesVisible, TypeOK
    <3> QED
        BY <3>1, <3>3
  <2> QED
      BY <1>0, <2>1, <2>2 DEF NothingWithoutHost
<1> QED
    BY <1>1, <1>2

-----------------------------------------------------------------------------
(* The order of the reports. *)

\* Numbers grow: what a ring accepted is older than the report sendData holds,
\* which is older than the next one.
Ordered ==
    /\ sending # NoReport => sending.id < nextId
    /\ \A s \in Senders : \A i \in DOMAIN Accepted(s) :
        /\ Accepted(s)[i].id < nextId
        /\ sending # NoReport => Accepted(s)[i].id < sending.id
    /\ SentInOrder

LEMMA AcceptedInit ==
    ASSUME Init, NEW s \in Senders
    PROVE  Accepted(s) = <<>>
<1>1. Accepted(s) = <<>> \o <<>> \o <<>>
    BY DEF Init, Accepted, EmptyQueue
<1>2. <<>> \in Seq(Reports) /\ <<>> \o <<>> = <<>>
    BY EmptySeq, ConcatEmptySeq
<1> QED
    BY <1>1, <1>2

LEMMA OrderedInit == Init => Ordered
<1> SUFFICES ASSUME Init PROVE Ordered
    OBVIOUS
<1>1. \A s \in Senders : DOMAIN Accepted(s) = {}
    BY AcceptedInit
<1> QED
    BY <1>1 DEF Ordered, SentInOrder, Init

\* A step that only moves reports on keeps the order.
LEMMA OrderedStays ==
    ASSUME Ordered, nextId' = nextId, sending' \in {sending, NoReport},
           \A s \in Senders : Accepted(s)' = Accepted(s)
    PROVE  Ordered'
BY DEF Ordered, SentInOrder

LEMMA OrderedKept ==
    ASSUME Types, NothingWithoutHost, Ordered,
           Main \/ \E s \in Senders : Sender(s) \/ Visible(s)
    PROVE  Ordered'
<1>0. TypeOK
    BY DEF Types
<1>1. CASE PushReport
  <2>1. sending' = NoReport /\ sending # NoReport /\ nextId' = nextId /\ nextId \in Nat
      BY <1>0, <1>1, Numbers DEF PushReport, TypeOK
  <2>2. sending \in Reports /\ sending.id \in Nat /\ sending.id < nextId
      BY <1>0, <1>1, <2>1, PushAppends DEF Reports, Ordered
  <2>3. ASSUME NEW s \in Senders
        PROVE  /\ \A i \in DOMAIN Accepted(s)' : Accepted(s)'[i].id < nextId
               /\ \A i, j \in DOMAIN Accepted(s)' :
                    i < j => Accepted(s)'[i].id < Accepted(s)'[j].id
    <3> DEFINE old == Accepted(s)
    <3>1. /\ \A i \in DOMAIN old : old[i].id < nextId /\ old[i].id < sending.id
          /\ \A i, j \in DOMAIN old : i < j => old[i].id < old[j].id
        BY <2>1 DEF Ordered, SentInOrder
    <3>2. CASE s # NextRing
      <4>1. Accepted(s)' = old
          BY <1>1, <3>2, PushAppends
      <4> QED
          BY <3>1, <4>1
    <3>3. CASE s = NextRing
      <4>1. Accepted(s)' = Append(old, sending)
          BY <1>1, <3>3, PushAppends
      <4>2. old \in Seq(Reports)
          BY <1>0, AcceptedIsSequence
      <4> HIDE DEF old
      <4>3. /\ DOMAIN old = 1 .. Len(old) /\ Len(old) \in Nat
            /\ DOMAIN Append(old, sending) = 1 .. Len(old) + 1
            /\ \A i \in 1 .. Len(old) : Append(old, sending)[i] = old[i]
            /\ Append(old, sending)[Len(old) + 1] = sending
          BY <2>2, <4>2, AppendProperties, LenProperties
      <4> QED
          BY <2>2, <3>1, <4>1, <4>3
    <3> QED
        BY <3>2, <3>3
  <2> QED
      BY <2>1, <2>3 DEF Ordered, SentInOrder
<1>2. ASSUME NEW h \in HopCounts, SendData(h)
      PROVE  Ordered'
  <2>1. /\ nextId' = nextId + 1 /\ nextId \in Nat
        /\ sending'.id = nextId
      BY <1>0, <1>2, Numbers DEF SendData, TypeOK
  <2>2. \A s \in Senders : Accepted(s)' = Accepted(s)
      BY <1>2 DEF SendData, senderVars, Accepted
  <2>3. \A s \in Senders : \A i \in DOMAIN Accepted(s) :
            Accepted(s)[i].id < nextId /\ Accepted(s)[i].id \in Nat
    <3>1. ASSUME NEW s \in Senders, NEW i \in DOMAIN Accepted(s)
          PROVE  Accepted(s)[i].id \in Nat
      <4>1. Accepted(s)[i] \in Reports
          BY <1>0, AcceptedIsSequence, LenProperties
      <4> QED
          BY <4>1 DEF Reports
    <3> QED
        BY <3>1 DEF Ordered
  <2> QED
      BY <2>1, <2>2, <2>3 DEF Ordered, SentInOrder
<1>3. CASE Main /\ ~PushReport /\ ~\E h \in HopCounts : SendData(h)
  <2>1. nextId' = nextId /\ sending' \in {sending, NoReport}
      BY <1>3 DEF Main, Construct, StartSender, UnknownProtocol, SendDataStep, PushRefused,
            GiveUp, Exit, mainVars
  <2> QED
      BY <1>3, <2>1, MainKeepsAccepted, OrderedStays
<1>4. ASSUME NEW s \in Senders, Sender(s) \/ Visible(s)
      PROVE  Ordered'
  <2>1. nextId' = nextId /\ sending' = sending
      BY <1>4 DEF Sender, Connected, ConnectFailed, PollEmpty, PollReport, Sent, Visible,
            PushBecomesVisible, PopBecomesVisible, mainVars
  <2> QED
      BY <1>4, <2>1, SenderKeepsAccepted, OrderedStays
<1> QED
    BY <1>1, <1>2, <1>3, <1>4

-----------------------------------------------------------------------------
(* The round robin, and the drops. *)

Rings == 0 .. m_th_num - 1

\* How many turns other rings have before ring s has its next one, when there
\* are n rings and ring m had the last turn.
TurnsBefore(n, m, s) == IF s > m THEN s - m - 1 ELSE s - m - 1 + n

\* The turn of a ring, pushed to or refusing: it is the last now, and the
\* others move up.
LEMMA TurnMoves ==
    ASSUME NEW n \in Nat, NEW m \in 0 .. n - 1, NEW s \in 0 .. n - 1,
           NEW next, next = IF m + 1 = n THEN 0 ELSE m + 1
    PROVE  /\ TurnsBefore(n, m, s) \in 0 .. n - 1
           /\ TurnsBefore(n, m, s) = 0 <=> s = next
           /\ TurnsBefore(n, next, s) =
                IF s = next THEN n - 1 ELSE TurnsBefore(n, m, s) - 1
BY DEF TurnsBefore

Turns(s) == Len(Accepted(s)) + refused[s]

TurnOf(s) == TurnsBefore(m_th_num, m_rr_index, s)

\* A ring whose turn comes sooner had no more turns than the one that waits
\* longer, and no ring is two turns behind.
TurnOrder ==
    \A s, t \in Rings :
        /\ Turns(s) <= Turns(t) + 1
        /\ TurnOf(s) <= TurnOf(t) => Turns(s) <= Turns(t)

\* Each ring refused as often as reports were dropped, and those tried in the
\* running call once more.
DropAccount ==
    \A s \in Rings :
        /\ pkt_drop <= refused[s]
        /\ (sending # NoReport /\ TurnOf(s) + attempt >= m_th_num) => pkt_drop < refused[s]

\* A step in which the next ring has its turn.
TurnStep ==
    /\ m_th_num > 0
    /\ m_rr_index' = NextRing
    /\ \A s \in Rings : Turns(s)' = Turns(s) + (IF s = NextRing THEN 1 ELSE 0)

\* A step in which none has.
NoTurnStep ==
    /\ m_rr_index' = m_rr_index
    /\ \A s \in Rings : Turns(s)' = Turns(s)

LEMMA TurnsAreNat ==
    ASSUME Types, NEW s \in Rings
    PROVE  /\ s \in Senders
           /\ Turns(s) \in Nat /\ refused[s] \in Nat /\ Len(Accepted(s)) \in Nat
           /\ m_th_num \in Nat /\ m_th_num > 0 /\ m_rr_index \in 0 .. m_th_num - 1
           /\ TurnOf(s) \in 0 .. m_th_num - 1
<1>1. TypeOK /\ s \in Senders /\ m_th_num \in Nat
    BY Numbers DEF Types, Rings
<1>2. m_th_num > 0 /\ s \in 0 .. m_th_num - 1
    BY <1>1 DEF Rings
<1>3. m_rr_index \in 0 .. m_th_num - 1
    BY <1>2 DEF Types, IndexInRange
<1>4. Len(Accepted(s)) \in Nat /\ refused[s] \in Nat
  <2>1. Accepted(s) \in Seq(Reports)
      BY <1>1, AcceptedIsSequence
  <2> QED
      BY <1>1, <2>1, LenProperties DEF TypeOK
<1>5. TurnOf(s) \in 0 .. m_th_num - 1
    BY <1>1, <1>2, <1>3 DEF TurnOf, TurnsBefore
<1> QED
    BY <1>1, <1>2, <1>3, <1>4, <1>5 DEF Turns

\* When the next ring has its turn, all others are one turn nearer to theirs.
LEMMA TurnPasses ==
    ASSUME Types, m_th_num' = m_th_num, m_rr_index' = NextRing, NEW s \in Rings
    PROVE  /\ TurnOf(s) = 0 <=> s = NextRing
           /\ TurnOf(s)' = IF s = NextRing THEN m_th_num - 1 ELSE TurnOf(s) - 1
<1>1. NextRing = IF m_rr_index + 1 = m_th_num THEN 0 ELSE m_rr_index + 1
    BY TurnsAreNat, NextRingIs DEF Types
<1>2. m_th_num \in Nat /\ m_rr_index \in 0 .. m_th_num - 1 /\ s \in 0 .. m_th_num - 1
    BY TurnsAreNat DEF Rings
<1>3. /\ TurnsBefore(m_th_num, m_rr_index, s) = 0 <=> s = NextRing
      /\ TurnsBefore(m_th_num, NextRing, s) =
            IF s = NextRing THEN m_th_num - 1 ELSE TurnsBefore(m_th_num, m_rr_index, s) - 1
    BY <1>1, <1>2, TurnMoves
<1>4. TurnOf(s)' = TurnsBefore(m_th_num, NextRing, s)
    BY DEF TurnOf
<1> QED
    BY <1>3, <1>4 DEF TurnOf

LEMMA TurnOrderKept ==
    ASSUME Types, TurnOrder, m_th_num' = m_th_num, TurnStep \/ NoTurnStep
    PROVE  TurnOrder'
<1>1. CASE NoTurnStep
    BY <1>1 DEF NoTurnStep, TurnOrder, TurnOf, Rings
<1>2. CASE TurnStep
  <2>1. Rings' = Rings
      BY DEF Rings
  <2>2. \A s \in Rings :
          /\ TurnOf(s) = 0 <=> s = NextRing
          /\ TurnOf(s)' = IF s = NextRing THEN m_th_num - 1 ELSE TurnOf(s) - 1
      BY <1>2, TurnPasses DEF TurnStep
  <2>3. NextRing \in Rings
      BY <1>2, NextRingIs, Numbers DEF TurnStep, Types, IndexInRange, Rings
  <2>4. ASSUME NEW s \in Rings, NEW t \in Rings
        PROVE  /\ Turns(s)' <= Turns(t)' + 1
               /\ TurnOf(s)' <= TurnOf(t)' => Turns(s)' <= Turns(t)'
    <3>1. /\ Turns(s) \in Nat /\ Turns(t) \in Nat /\ m_th_num \in Nat
          /\ TurnOf(s) \in 0 .. m_th_num - 1 /\ TurnOf(t) \in 0 .. m_th_num - 1
        BY TurnsAreNat
    <3>2. /\ Turns(s) <= Turns(t) + 1
          /\ TurnOf(s) <= TurnOf(t) => Turns(s) <= Turns(t)
        BY DEF TurnOrder
    <3>3. /\ Turns(s)' = Turns(s) + (IF s = NextRing THEN 1 ELSE 0)
          /\ Turns(t)' = Turns(t) + (IF t = NextRing THEN 1 ELSE 0)
        BY <1>2 DEF TurnStep
    <3> QED
        BY <2>2, <3>1, <3>2, <3>3
  <2> QED
      BY <2>1, <2>4 DEF TurnOrder
<1> QED
    BY <1>1, <1>2

\* Every step is one in which the next ring has its turn, or none has.
LEMMA Steps ==
    ASSUME Types, NothingWithoutHost, Main \/ \E s \in Senders : Sender(s) \/ Visible(s)
    PROVE  m_th_num' = m_th_num /\ (TurnStep \/ NoTurnStep)
<1>0. TypeOK /\ m_th_num' = m_th_num
    BY OptionsFixed DEF Types
<1>1. CASE PushReport
  <2>1. m_th_num > 0 /\ m_rr_index' = NextRing /\ refused' = refused
      BY <1>0, <1>1, PushAppends, Numbers DEF PushReport
  <2>2. ASSUME NEW s \in Rings
        PROVE  Turns(s)' = Turns(s) + (IF s = NextRing THEN 1 ELSE 0)
    <3>1. s \in Senders /\ Accepted(s) \in Seq(Reports) /\ sending \in Reports
        BY <1>0, <1>1, TurnsAreNat, AcceptedIsSequence, PushAppends
    <3>2. Len(Append(Accepted(s), sending)) = Len(Accepted(s)) + 1
        BY <3>1, AppendProperties
    <3>3. Accepted(s)' = IF s = NextRing THEN Append(Accepted(s), sending) ELSE Accepted(s)
        BY <1>1, <3>1, PushAppends
    <3> QED
      <4>1. Len(Accepted(s)') = Len(Accepted(s)) + (IF s = NextRing THEN 1 ELSE 0)
          BY <3>2, <3>3, TurnsAreNat
      <4>2. Turns(s)' = Len(Accepted(s)') + refused[s]
          BY <2>1 DEF Turns
      <4> QED
          BY <4>1, <4>2, TurnsAreNat DEF Turns
  <2> QED
      BY <1>0, <2>1, <2>2 DEF TurnStep
<1>2. CASE PushRefused
  <2>1. /\ m_th_num > 0 /\ m_rr_index' = NextRing
        /\ refused' = [refused EXCEPT ![NextRing] = @ + 1]
      BY <1>0, <1>2, Numbers DEF PushRefused, TypeOK
  <2>2. ASSUME NEW s \in Rings
        PROVE  Turns(s)' = Turns(s) + (IF s = NextRing THEN 1 ELSE 0)
    <3>1. s \in Senders /\ Accepted(s)' = Accepted(s)
        BY <1>2, TurnsAreNat DEF PushRefused, senderVars, Accepted
    <3>2. refused'[s] = refused[s] + (IF s = NextRing THEN 1 ELSE 0)
        BY <1>0, <2>1, <3>1, TurnsAreNat, SMTT(30) DEF TypeOK
    <3> QED
        BY <3>1, <3>2, TurnsAreNat DEF Turns
  <2> QED
      BY <1>0, <2>1, <2>2 DEF TurnStep
<1>3. CASE Main /\ ~PushReport /\ ~PushRefused
  <2>1. m_rr_index' = m_rr_index /\ refused' = refused
      BY <1>3 DEF Main, Construct, StartSender, UnknownProtocol, SendData, SendDataStep,
            GiveUp, Exit, mainVars
  <2> QED
      BY <1>0, <1>3, <2>1, MainKeepsAccepted, TurnsAreNat DEF NoTurnStep, Turns
<1>4. ASSUME NEW s \in Senders, Sender(s) \/ Visible(s)
      PROVE  NoTurnStep
  <2>1. m_rr_index' = m_rr_index /\ refused' = refused
      BY <1>4 DEF Sender, Connected, ConnectFailed, PollEmpty, PollReport, Sent, Visible,
            PushBecomesVisible, PopBecomesVisible, mainVars
  <2> QED
      BY <1>4, <2>1, SenderKeepsAccepted, TurnsAreNat DEF NoTurnStep, Turns
<1> QED
    BY <1>0, <1>1, <1>2, <1>3, <1>4

LEMMA TurnOrderInit ==
    ASSUME Init
    PROVE  TurnOrder /\ DropAccount
<1>1. Types
    BY TypesInit
<1>2. ASSUME NEW s \in Rings
      PROVE  Turns(s) = 0 /\ refused[s] = 0
  <2>1. s \in Senders
      BY <1>1, TurnsAreNat
  <2>2. Len(Accepted(s)) = 0
      BY <2>1, AcceptedInit
  <2> QED
      BY <2>1, <2>2 DEF Turns, Init
<1>3. sending = NoReport /\ pkt_drop = 0
    BY DEF Init
<1> QED
    BY <1>2, <1>3 DEF TurnOrder, DropAccount

LEMMA DropAccountKept ==
    ASSUME Types, DropAccount, Main \/ \E s \in Senders : Sender(s) \/ Visible(s)
    PROVE  DropAccount'
<1>0. TypeOK /\ m_th_num' = m_th_num /\ Rings' = Rings
    BY OptionsFixed DEF Types, Rings
<1>1. CASE PushReport
    BY <1>0, <1>1 DEF PushReport, DropAccount
<1>2. ASSUME NEW h \in HopCounts, SendData(h)
      PROVE  DropAccount'
  <2>1. /\ pkt_drop' = pkt_drop /\ refused' = refused /\ attempt' = 0
        /\ \A s \in Rings : TurnOf(s)' = TurnOf(s)
      BY <1>0, <1>2 DEF SendData, TurnOf
  <2>2. \A s \in Rings : ~(TurnOf(s)' + attempt' >= m_th_num')
      BY <1>0, <2>1, TurnsAreNat
  <2> QED
      BY <1>0, <2>1, <2>2 DEF DropAccount
<1>3. CASE PushRefused
  <2>1. /\ pkt_drop' = pkt_drop /\ sending' = sending /\ sending # NoReport
        /\ m_rr_index' = NextRing /\ attempt' = attempt + 1
        /\ refused' = [refused EXCEPT ![NextRing] = @ + 1]
        /\ attempt \in Nat /\ m_th_num > 0
      BY <1>0, <1>3, Numbers DEF PushRefused, TypeOK
  <2>2. ASSUME NEW s \in Rings
        PROVE  /\ pkt_drop <= refused'[s]
               /\ TurnOf(s)' + (attempt + 1) >= m_th_num => pkt_drop < refused'[s]
    <3>1. /\ refused'[s] = refused[s] + (IF s = NextRing THEN 1 ELSE 0)
          /\ refused[s] \in Nat /\ pkt_drop \in Nat
        BY <1>0, <2>1, TurnsAreNat, SMTT(30) DEF TypeOK
    <3>2. TurnOf(s)' = IF s = NextRing THEN m_th_num - 1 ELSE TurnOf(s) - 1
        BY <1>0, <2>1, TurnPasses
    <3>3. /\ pkt_drop <= refused[s]
          /\ TurnOf(s) + attempt >= m_th_num => pkt_drop < refused[s]
        BY <2>1 DEF DropAccount
    <3> QED
        BY <2>1, <3>1, <3>2, <3>3, TurnsAreNat
  <2> QED
      BY <1>0, <2>1, <2>2 DEF DropAccount
<1>4. CASE GiveUp
  <2>1. /\ pkt_drop' = pkt_drop + 1 /\ refused' = refused /\ sending' = NoReport
        /\ sending # NoReport /\ attempt >= m_th_num /\ attempt \in Nat /\ pkt_drop \in Nat
      BY <1>0, <1>4, Numbers DEF GiveUp, TypeOK
  <2>2. ASSUME NEW s \in Rings
        PROVE  pkt_drop + 1 <= refused[s]
    <3>1. TurnOf(s) + attempt >= m_th_num
        BY <2>1, TurnsAreNat
    <3> QED
        BY <2>1, <3>1, TurnsAreNat DEF DropAccount
  <2> QED
      BY <1>0, <2>1, <2>2 DEF DropAccount
<1>5. CASE Construct \/ Exit \/ \E s \in Senders : Sender(s) \/ Visible(s)
  <2>1. UNCHANGED <<pkt_drop, refused, sending, attempt, m_rr_index>>
      BY <1>5 DEF Construct, StartSender, UnknownProtocol, Exit, Sender, Connected, ConnectFailed,
            PollEmpty, PollReport, Sent, Visible, PushBecomesVisible, PopBecomesVisible, mainVars
  <2> QED
      BY <1>0, <2>1 DEF DropAccount, TurnOf
<1> QED
    BY <1>1, <1>2, <1>3, <1>4, <1>5 DEF Main, SendDataStep

-----------------------------------------------------------------------------
(* The batches. *)

\* How many records the reports of a batch are.
Records(reports) == SumFunction([i \in DOMAIN reports |-> reports[i].hops + 2])

LEMMA RecordsAppended ==
    /\ Records(<<>>) = 0
    /\ \A q \in Seq(Reports), r \in Reports :
         Records(Append(q, r)) = Records(q) + (r.hops + 2)
<1>1. Records(<<>>) = 0
    BY SumOfNone DEF Records
<1>2. ASSUME NEW q \in Seq(Reports), NEW r \in Reports
      PROVE  Records(Append(q, r)) = Records(q) + (r.hops + 2)
  <2> DEFINE f == [i \in DOMAIN q |-> q[i].hops + 2]
             a == Append(q, r)
             g == [i \in DOMAIN a |-> a[i].hops + 2]
             n == Len(q)
  <2>1. /\ n \in Nat /\ DOMAIN q = 1 .. n /\ DOMAIN a = 1 .. n + 1
        /\ \A i \in 1 .. n : a[i] = q[i] /\ q[i] \in Reports
        /\ a[n + 1] = r /\ a \in Seq(Reports)
      BY AppendProperties, LenProperties
  <2>2. \A x \in Reports : x.hops + 2 \in Int
    <3> TAKE x \in Reports
    <3>1. x.hops \in Nat
        BY ExporterAssumption DEF Reports
    <3> QED
        BY <3>1
  <2>3. f \in [1 .. n -> Int] /\ \A i \in 1 .. n : g[i] = f[i]
      BY <2>1, <2>2
  <2>4. g \in [1 .. n + 1 -> Int] /\ g[n + 1] = r.hops + 2
    <3>1. \A i \in 1 .. n + 1 : a[i] \in Reports
        BY <2>1, LenProperties
    <3> QED
        BY <2>1, <2>2, <3>1
  <2> HIDE DEF f, g, n, a
  <2>5. SumFunction(g) = SumFunction(f) + g[n + 1]
      BY <2>1, <2>3, <2>4, SumAppended
  <2> QED
      BY <2>4, <2>5 DEF Records, f, g, a
<1> QED
    BY <1>1, <1>2

\* How many reports a batch of so many records may hold, at that place: each is
\* two records at least, and an HTTP sender takes another one only when there is
\* none or room for a record.
Limited(place, records, reports) ==
    /\ records >= 2 * reports
    /\ IsHttp => /\ reports <= 1 \/ 2 * reports <= opt.batch + 1
                 /\ place = "poll" => reports = 0 \/ records < opt.batch

\* Beside the property: senders start in order, with no record.
Batches ==
    /\ BatchAccounting
    /\ \A s \in Senders :
        /\ s >= started => pc[s] = "none"
        /\ pc[s] \in {"none", "connect"} => it[s] = 0
        /\ Limited(pc[s], it[s], Len(data[s]))

LEMMA BatchesInit == Init => Batches
<1>1. Init => \A s \in Senders : Limited(pc[s], it[s], Len(data[s]))
    BY OptionAssumption DEF Init, Limited
<1> QED
    BY <1>1, RecordsAppended, ExporterAssumption
       DEF Init, Batches, BatchAccounting, Records, Senders, m_th_num

\* The steps that read or change nothing of a batch.
LEMMA BatchesStay ==
    ASSUME Batches, opt' = opt, started' = started, UNCHANGED <<pc, it, data>>
    PROVE  Batches'
BY DEF Batches, BatchAccounting, IsHttp, Limited

LEMMA MainKeepsBatches ==
    ASSUME Types, Batches, Main
    PROVE  Batches'
<1>0. TypeOK /\ opt' = opt
    BY OptionsFixed DEF Types
<1>1. CASE StartSender
  <2>1. /\ started' = started + 1 /\ started \in Nat
        /\ pc' = [pc EXCEPT ![started] = "connect"]
        /\ it' = it /\ data' = data
      BY <1>0, <1>1, Numbers DEF StartSender, TypeOK
  <2>2. ASSUME NEW s \in Senders
        PROVE  /\ s \in Nat
               /\ pc'[s] = IF s = started THEN "connect" ELSE pc[s]
               /\ s = started => pc[s] = "none"
    <3>1. s \in Nat
        BY <1>0, Numbers
    <3> QED
        BY <1>0, <2>1, <3>1 DEF TypeOK, Batches
  <2> QED
      BY <1>0, <2>1, <2>2 DEF Batches, BatchAccounting, IsHttp, Limited
<1>2. CASE Main /\ ~StartSender
  <2>1. started' = started /\ UNCHANGED <<pc, it, data>>
      BY <1>2 DEF Main, Construct, UnknownProtocol, SendData, SendDataStep, PushReport,
            PushRefused, GiveUp, Exit, mainVars, senderVars
  <2> QED
      BY <1>0, <2>1, BatchesStay
<1> QED
    BY <1>1, <1>2

LEMMA SenderKeepsBatches ==
    ASSUME Types, Batches, NEW s \in Senders, Sender(s) \/ Visible(s)
    PROVE  Batches'
<1>0. TypeOK /\ opt' = opt
    BY OptionsFixed DEF Types
<1>1. CASE ConnectFailed(s) \/ Visible(s)
    BY <1>0, <1>1, BatchesStay DEF ConnectFailed, Visible, PushBecomesVisible,
          PopBecomesVisible, mainVars, senderVars
<1> DEFINE Batch(t) ==
        /\ it'[t] = Records(data'[t])
        /\ pc'[t] = "send" => data'[t] # <<>>
        /\ (IsHttp /\ pc'[t] = "poll" /\ opt.batch > 0) => it'[t] < opt.batch
        /\ t >= started => pc'[t] = "none"
        /\ pc'[t] \in {"none", "connect"} => it'[t] = 0
        /\ Limited(pc'[t], it'[t], Len(data'[t]))
<1>2. ASSUME started' = started, \A t \in Senders : Batch(t)
      PROVE  Batches'
    BY <1>0, <1>2 DEF Batches, BatchAccounting, IsHttp, Records, Limited
<1>3. ASSUME Connected(s) \/ PollEmpty(s) \/ PollReport(s) \/ Sent(s)
      PROVE  /\ started' = started
             /\ \A t \in Senders \ {s} : Batch(t)
             /\ s < started
  <2>1. started' = started
      BY <1>3 DEF Connected, PollEmpty, PollReport, Sent, mainVars
  <2>2. ASSUME NEW t \in Senders \ {s}
        PROVE  it'[t] = it[t] /\ data'[t] = data[t] /\ pc'[t] = pc[t]
      BY <1>0, <1>3 DEF Connected, PollEmpty, PollReport, Sent, TypeOK
  <2>3. pc[s] # "none" /\ s \in Nat /\ started \in Nat
      BY <1>0, <1>3, Numbers, SMTT(30) DEF Connected, PollEmpty, PollReport, Sent, TypeOK
  <2>4. s < started
      BY <2>3 DEF Batches
  <2> QED
      BY <2>1, <2>2, <2>4 DEF Batches, BatchAccounting, Records
<1>4. /\ it[s] \in Nat /\ data[s] \in Seq(Reports) /\ opt.batch \in Nat
      /\ Len(data[s]) \in Nat
      /\ s \in Nat /\ started \in Nat
  <2>1. it[s] \in Nat /\ data[s] \in Seq(Reports)
      BY <1>0 DEF TypeOK
  <2>2. Len(data[s]) \in Nat
      BY <2>1, LenProperties
  <2>3. opt.batch \in Nat
      BY <1>0, OptionAssumption DEF TypeOK
  <2>4. s \in Nat /\ started \in Nat
      BY <1>0, Numbers, SMTT(30) DEF TypeOK
  <2> QED
      BY <2>1, <2>2, <2>3, <2>4
<1>5. /\ it[s] = Records(data[s])
      /\ pc[s] = "send" => data[s] # <<>>
      /\ (IsHttp /\ pc[s] = "poll" /\ opt.batch > 0) => it[s] < opt.batch
      /\ pc[s] \in {"none", "connect"} => it[s] = 0
      /\ Limited(pc[s], it[s], Len(data[s]))
    BY DEF Batches, BatchAccounting, Records
<1>6. CASE Connected(s)
  <2>1. pc'[s] = "poll" /\ pc[s] = "connect" /\ it'[s] = it[s] /\ data'[s] = data[s]
      BY <1>0, <1>6 DEF Connected, TypeOK
  <2>2. Limited(pc'[s], it'[s], Len(data'[s]))
      BY <1>4, <1>5, <2>1 DEF Limited
  <2>3. Batch(s)
      BY <1>3, <1>4, <1>5, <1>6, <2>1, <2>2
  <2> QED
      BY <1>2, <1>3, <1>6, <2>3
<1>7. CASE PollEmpty(s)
  <2>1. /\ pc[s] = "poll" /\ it'[s] = it[s] /\ data'[s] = data[s]
        /\ \/ pc'[s] = "send" /\ data[s] # <<>>
           \/ pc'[s] = "poll"
      BY <1>0, <1>7 DEF PollEmpty, TypeOK
  <2>2. Limited(pc'[s], it'[s], Len(data'[s]))
      BY <1>4, <1>5, <2>1 DEF Limited
  <2>3. Batch(s)
      BY <1>3, <1>4, <1>5, <1>7, <2>1, <2>2
  <2> QED
      BY <1>2, <1>3, <1>7, <2>3
<1>8. CASE PollReport(s)
  <2> DEFINE r == Head(rings[s].items)
  <2>1. CASE ~opt.hostValid
    <3>1. pc' = pc /\ it' = it /\ data' = data
        BY <1>8, <2>1 DEF PollReport
    <3> QED
        BY <1>0, <1>3, <1>8, <3>1, BatchesStay
  <2>2. CASE opt.hostValid
    <3>1. r \in Reports
      <4>1. rings[s] \in Queues(Reports) /\ HasItem(rings[s])
          BY <1>0, <1>8 DEF PollReport, TypeOK
      <4> QED
          BY <4>1, QueueSteps, HeadTailProperties
    <3>2. r.hops \in Nat
        BY <1>0, <3>1, Numbers DEF Reports
    <3>3. /\ pc[s] = "poll"
          /\ data'[s] = Append(data[s], r)
          /\ it'[s] = it[s] + add_report(r)
          /\ pc'[s] = IF BatchFull(it'[s]) THEN "send" ELSE "poll"
        BY <1>0, <1>8, <2>2 DEF PollReport, TypeOK
    <3> HIDE DEF r
    <3>4. it'[s] = Records(data'[s])
        BY <1>4, <1>5, <3>1, <3>2, <3>3, RecordsAppended DEF add_report
    <3>5. data'[s] # <<>>
        BY <1>4, <3>1, <3>3, AppendProperties
    <3>6. (IsHttp /\ pc'[s] = "poll") => it'[s] < opt.batch
      <4>1. it'[s] \in Nat
          BY <1>4, <3>2, <3>3 DEF add_report
      <4>2. IsHttp => ~IsUdp
          BY DEF IsHttp, IsUdp
      <4> QED
          BY <1>4, <3>3, <4>1, <4>2 DEF BatchFull, HttpBatchFull
    <3>7. pc'[s] \in {"send", "poll"}
        BY <3>3
    <3>8. Limited(pc'[s], it'[s], Len(data'[s]))
      <4>1. Len(data'[s]) = Len(data[s]) + 1
          BY <1>4, <3>1, <3>3, AppendProperties
      <4>2. it'[s] = it[s] + r.hops + 2
          BY <1>4, <3>2, <3>3 DEF add_report
      <4>3. /\ it[s] >= 2 * Len(data[s])
            /\ IsHttp => Len(data[s]) = 0 \/ it[s] < opt.batch
          BY <1>5, <3>3 DEF Limited
      <4> QED
          BY <1>4, <3>2, <3>6, <4>1, <4>2, <4>3, SMTT(30) DEF Limited
    <3>9. Batch(s)
        BY <1>3, <1>4, <1>8, <3>4, <3>5, <3>6, <3>7, <3>8
    <3> QED
        BY <1>2, <1>3, <1>8, <3>9
  <2> QED
      BY <2>1, <2>2
<1>9. CASE Sent(s)
  <2>1. pc'[s] = "poll" /\ it'[s] = 0 /\ data'[s] = <<>>
      BY <1>0, <1>9 DEF Sent, TypeOK
  <2>2. Limited(pc'[s], it'[s], Len(data'[s]))
      BY <1>4, <2>1 DEF Limited
  <2>3. Batch(s)
      BY <1>3, <1>4, <1>9, <2>1, <2>2, RecordsAppended
  <2> QED
      BY <1>2, <1>3, <1>9, <2>3
<1> QED
    BY <1>1, <1>6, <1>7, <1>8, <1>9 DEF Sender

-----------------------------------------------------------------------------
(* Where the reports are. *)

AcceptedCounts == [s \in Senders |-> Len(Accepted(s))]

OneOf == IF sending = NoReport THEN 0 ELSE 1

\* Each number given out belongs to a dropped report, to the one being sent or
\* to one that a ring accepted ...
Counted == nextId - 1 = pkt_drop + OneOf + SumFunction(AcceptedCounts)

\* ... and no two rings accepted the same.
Apart == \A s, t \in Senders : s # t => Ids(Accepted(s)) \cap Ids(Accepted(t)) = {}

LEMMA SendersFinite == IsFiniteSet(Senders)
<1>1. 0 \in Int /\ MaxSenders - 1 \in Int
    BY ExporterAssumption
<1> QED
    BY <1>1, FS_Interval DEF Senders

LEMMA OnceInit == Init => Counted /\ Apart
<1> SUFFICES ASSUME Init PROVE Counted /\ Apart
    OBVIOUS
<1>1. AcceptedCounts \in [Senders -> {0}] /\ \A s \in Senders : Accepted(s) = <<>>
    BY AcceptedInit DEF AcceptedCounts
<1>2. SumFunction(AcceptedCounts) \in {0}
  <2>1. 0 \in {0} /\ \A a, b \in {0} : a + b \in {0}
      OBVIOUS
  <2> QED
      BY <1>1, <2>1, SendersFinite, SumType
<1>3. \A s \in Senders : Ids(Accepted(s)) = {}
    BY <1>1 DEF Ids
<1> QED
    BY <1>2, <1>3 DEF Init, Counted, Apart, OneOf

LEMMA CountsAreNumbers ==
    ASSUME TypeOK
    PROVE  /\ AcceptedCounts \in [Senders -> Int]
           /\ SumFunction(AcceptedCounts) \in Int
           /\ OneOf \in Int /\ nextId \in Int /\ pkt_drop \in Int
<1>1. ASSUME NEW s \in Senders
      PROVE  Len(Accepted(s)) \in Int
  <2>1. Accepted(s) \in Seq(Reports)
      BY AcceptedIsSequence
  <2> QED
      BY <2>1, LenProperties
<1>2. AcceptedCounts \in [Senders -> Int]
    BY <1>1 DEF AcceptedCounts
<1>3. DOMAIN AcceptedCounts = Senders
    BY DEF AcceptedCounts
<1>4. SumFunction(AcceptedCounts) \in Int
    BY <1>2, <1>3, SendersFinite, SumIsInt
<1> QED
    BY <1>2, <1>4, ExporterAssumption DEF TypeOK, OneOf

\* Steps that leave the accepted reports alone.
LEMMA AcceptedStay ==
    ASSUME \A s \in Senders : Accepted(s)' = Accepted(s)
    PROVE  /\ SumFunction(AcceptedCounts)' = SumFunction(AcceptedCounts)
           /\ Apart => Apart'
<1>1. AcceptedCounts' = AcceptedCounts
    BY DEF AcceptedCounts
<1>2. SumFunction(AcceptedCounts') = SumFunction(AcceptedCounts)
    BY <1>1
<1> QED
    BY <1>2 DEF Apart, Ids

LEMMA IdsAppended ==
    ASSUME NEW S, NEW q \in Seq(S), NEW r \in S
    PROVE  Ids(Append(q, r)) = Ids(q) \cup {r.id}
<1> DEFINE a == Append(q, r)
           n == Len(q)
<1>1. /\ n \in Nat /\ DOMAIN q = 1 .. n /\ DOMAIN a = 1 .. n + 1
      /\ \A i \in 1 .. n : a[i] = q[i]
      /\ a[n + 1] = r
    BY AppendProperties, LenProperties
<1> HIDE DEF a, n
<1>2. Ids(a) = Ids(q) \cup {a[n + 1].id}
    BY <1>1 DEF Ids
<1> QED
    BY <1>1, <1>2 DEF a

\* A push: one report more, with a number that no ring has.
LEMMA PushKeepsOnce ==
    ASSUME Types, Ordered, Counted, Apart, PushReport
    PROVE  Counted' /\ Apart'
<1>0. TypeOK
    BY DEF Types
<1> DEFINE ring == NextRing
<1>1. /\ ring \in Senders /\ sending \in Reports
      /\ \A t \in Senders :
           Accepted(t)' = IF t = ring THEN Append(Accepted(t), sending) ELSE Accepted(t)
    BY PushAppends
<1>2. /\ sending # NoReport /\ sending' = NoReport
      /\ nextId' = nextId /\ pkt_drop' = pkt_drop
    BY DEF PushReport
<1> HIDE DEF ring
<1>3. \A t \in Senders : Accepted(t) \in Seq(Reports) /\ Len(Accepted(t)) \in Nat
    BY <1>0, AcceptedIsSequence, LenProperties
<1>4. SumFunction(AcceptedCounts') = SumFunction(AcceptedCounts) + 1
  <2> DEFINE f == AcceptedCounts
             g == AcceptedCounts'
  <2>1. \A t \in Senders : g[t] = IF t = ring THEN f[t] + 1 ELSE f[t]
    <3> TAKE t \in Senders
    <3>1. g[t] = Len(Accepted(t)') /\ f[t] = Len(Accepted(t))
        BY DEF AcceptedCounts
    <3>2. Len(Append(Accepted(t), sending)) = Len(Accepted(t)) + 1
        BY <1>1, <1>3, AppendProperties
    <3> QED
        BY <1>1, <3>1, <3>2
  <2>2. f \in [Senders -> Int]
      BY <1>0, CountsAreNumbers
  <2>3. DOMAIN g = Senders /\ g = [t \in Senders |-> g[t]]
      BY DEF AcceptedCounts
  <2> HIDE DEF f, g
  <2>4. g \in [Senders -> Int]
    <3>1. \A t \in Senders : g[t] \in Int
        BY <2>1, <2>2
    <3> QED
        BY <2>3, <3>1
  <2>5. ChangedAt(g, f, ring)
      BY <1>1, <2>1, <2>2, <2>4, SendersFinite DEF ChangedAt
  <2>6. SumFunction(g) = SumFunction(f) + g[ring] - f[ring]
      BY <2>5, SumChanged, Zenon
  <2>7. SumFunction(f) \in Int /\ f[ring] \in Int /\ g[ring] = f[ring] + 1
      BY <1>0, <1>1, <2>1, <2>2, CountsAreNumbers DEF f
  <2> QED
      BY <2>6, <2>7 DEF f, g
<1>5. Counted'
  <2>1. OneOf = 1 /\ OneOf' = 0
      BY <1>2 DEF OneOf
  <2>2. nextId - 1 = pkt_drop + 1 + SumFunction(AcceptedCounts)
      BY <2>1 DEF Counted
  <2>3. nextId - 1 = pkt_drop + 0 + SumFunction(AcceptedCounts')
      BY <1>0, <1>4, <2>2, CountsAreNumbers
  <2> QED
      BY <1>2, <2>1, <2>3 DEF Counted
<1>6. \A t \in Senders : sending.id \notin Ids(Accepted(t))
  <2>1. sending.id \in Nat
      BY <1>0, <1>1, Numbers DEF Reports
  <2>2. \A t \in Senders : \A i \in DOMAIN Accepted(t) : Accepted(t)[i].id # sending.id
    <3> TAKE t \in Senders
    <3> TAKE i \in DOMAIN Accepted(t)
    <3>1. Accepted(t)[i] \in Reports
        BY <1>3, LenProperties
    <3>2. Accepted(t)[i].id \in Nat /\ Accepted(t)[i].id < sending.id
        BY <1>2, <3>1, Numbers DEF Reports, Ordered
    <3> QED
        BY <2>1, <3>2
  <2> QED
      BY <2>2 DEF Ids
<1>7. \A t \in Senders :
        Ids(Accepted(t))' = IF t = ring THEN Ids(Accepted(t)) \cup {sending.id}
                            ELSE Ids(Accepted(t))
  <2> TAKE t \in Senders
  <2>1. Ids(Append(Accepted(t), sending)) = Ids(Accepted(t)) \cup {sending.id}
      BY <1>1, <1>3, IdsAppended
  <2>2. Ids(Accepted(t))' = Ids(Accepted(t)')
      BY DEF Ids
  <2> QED
      BY <1>1, <2>1, <2>2
<1>8. Apart'
    BY <1>6, <1>7 DEF Apart
<1> QED
    BY <1>5, <1>8

LEMMA OnceKept ==
    ASSUME Types, NothingWithoutHost, Ordered, Counted, Apart,
           Main \/ \E s \in Senders : Sender(s) \/ Visible(s)
    PROVE  Counted' /\ Apart'
<1>0. TypeOK
    BY DEF Types
<1> DEFINE sum == SumFunction(AcceptedCounts)
<1>1. /\ sum \in Int /\ nextId \in Int /\ pkt_drop \in Int
      /\ nextId - 1 = pkt_drop + OneOf + sum
    BY <1>0, CountsAreNumbers DEF Counted
<1>2. ASSUME \A s \in Senders : Accepted(s)' = Accepted(s),
             nextId' - 1 = pkt_drop' + OneOf' + sum
      PROVE  Counted' /\ Apart'
    BY <1>2, AcceptedStay DEF Counted
<1> HIDE DEF sum
<1>3. CASE PushReport
    BY <1>3, PushKeepsOnce
<1>4. ASSUME NEW h \in HopCounts, SendData(h)
      PROVE  Counted' /\ Apart'
  <2>1. nextId' = nextId + 1 /\ pkt_drop' = pkt_drop /\ sending = NoReport
      BY <1>4 DEF SendData
  <2>2. sending' # NoReport
    <3>1. sending' = [id |-> nextId, hops |-> h] /\ nextId \in 1 .. MaxReports
        BY <1>0, <1>4, Numbers DEF SendData, TypeOK
    <3>2. sending' \in Reports
        BY <3>1 DEF Reports
    <3> QED
        BY <3>2, ExporterAssumption
  <2>3. OneOf = 0 /\ OneOf' = 1
      BY <2>1, <2>2 DEF OneOf
  <2>4. \A s \in Senders : Accepted(s)' = Accepted(s)
      BY <1>4 DEF SendData, senderVars, Accepted
  <2> QED
      BY <1>1, <1>2, <2>1, <2>3, <2>4
<1>5. CASE GiveUp
  <2>1. /\ nextId' = nextId /\ pkt_drop' = pkt_drop + 1
        /\ sending # NoReport /\ sending' = NoReport
      BY <1>5 DEF GiveUp
  <2>2. OneOf = 1 /\ OneOf' = 0
      BY <2>1 DEF OneOf
  <2>3. \A s \in Senders : Accepted(s)' = Accepted(s)
      BY <1>5 DEF GiveUp, senderVars, Accepted
  <2> QED
      BY <1>1, <1>2, <2>1, <2>2, <2>3
<1>6. CASE Construct \/ PushRefused \/ Exit
  <2>1. UNCHANGED <<nextId, pkt_drop, sending, sent, data, rings>>
      BY <1>6 DEF Construct, StartSender, UnknownProtocol, PushRefused, Exit, mainVars, senderVars
  <2>2. OneOf' = OneOf /\ \A s \in Senders : Accepted(s)' = Accepted(s)
      BY <2>1 DEF OneOf, Accepted
  <2> QED
      BY <1>1, <1>2, <2>1, <2>2
<1>7. ASSUME NEW s \in Senders, Sender(s) \/ Visible(s)
      PROVE  Counted' /\ Apart'
  <2>1. nextId' = nextId /\ sending' = sending /\ pkt_drop' = pkt_drop
      BY <1>7 DEF Sender, Connected, ConnectFailed, PollEmpty, PollReport, Sent, Visible,
            PushBecomesVisible, PopBecomesVisible, mainVars
  <2>2. OneOf' = OneOf
      BY <2>1 DEF OneOf
  <2>3. \A t \in Senders : Accepted(t)' = Accepted(t)
      BY <1>7, SenderKeepsAccepted
  <2> QED
      BY <1>1, <1>2, <2>1, <2>2, <2>3
<1> QED
    BY <1>3, <1>4, <1>5, <1>6, <1>7 DEF Main, SendDataStep

\* With the numbers in order it is the property.
LEMMA OnceIs ==
    ASSUME Types, Ordered, Counted, Apart
    PROVE  EveryReportOnce
<1>1. ASSUME sending # NoReport, NEW s \in Senders
      PROVE  sending.id \notin Ids(Accepted(s))
  <2>1. sending.id \in Nat
      BY <1>1, Numbers DEF Types, TypeOK, Reports
  <2>2. ASSUME NEW i \in DOMAIN Accepted(s)
        PROVE  Accepted(s)[i].id # sending.id
    <3>1. Accepted(s)[i] \in Reports
        BY AcceptedIsSequence, LenProperties DEF Types
    <3>2. Accepted(s)[i].id \in Nat /\ Accepted(s)[i].id < sending.id
        BY <1>1, <3>1, Numbers DEF Types, Reports, Ordered
    <3> QED
        BY <2>1, <3>2
  <2> QED
      BY <2>2 DEF Ids
<1> QED
    BY <1>1 DEF Counted, Apart, OneOf, AcceptedCounts, EveryReportOnce

-----------------------------------------------------------------------------
(* The theorems. *)

\* Beside the types and the properties: nothing is in the rings without a
\* host, numbers grow, turns are taken in order, the drops are accounted for,
\* and a sender that has not connected has no batch.
IInv ==
    /\ Types /\ NothingWithoutHost
    /\ Ordered /\ Counted /\ Apart
    /\ TurnOrder /\ DropAccount
    /\ Batches

LEMMA Inductive == IInv /\ [Next]_vars => IInv'
<1> SUFFICES ASSUME IInv, [Next]_vars PROVE IInv'
    OBVIOUS
<1>1. CASE Next
  <2>1. Main \/ \E s \in Senders : Sender(s) \/ Visible(s)
      BY <1>1 DEF Next
  <2> QED
    <3>1. Types' /\ NothingWithoutHost' /\ Ordered' /\ Counted' /\ Apart'
        BY <1>1, <2>1, TypesKept, HostKept, OrderedKept, OnceKept DEF IInv
    <3>2. TurnOrder' /\ DropAccount'
        BY <2>1, Steps, TurnOrderKept, DropAccountKept DEF IInv
    <3>3. Batches'
        BY <2>1, MainKeepsBatches, SenderKeepsBatches DEF IInv
    <3> QED
        BY <3>1, <3>2, <3>3 DEF IInv
<1>2. CASE UNCHANGED vars
  <2>1. NothingWithoutHost' /\ Ordered' /\ TurnOrder' /\ DropAccount'
      BY <1>2 DEF vars, mainVars, senderVars, IInv, NothingWithoutHost, Ordered, SentInOrder,
            Accepted, TurnOrder, DropAccount, Turns, TurnOf, Rings, m_th_num
  <2>2. Counted' /\ Apart'
    <3>1. \A s \in Senders : Accepted(s)' = Accepted(s)
        BY <1>2 DEF vars, senderVars, Accepted
    <3> QED
        BY <1>2, <3>1, AcceptedStay DEF IInv, Counted, OneOf, vars, mainVars
  <2>3. Batches'
      BY <1>2, BatchesStay DEF vars, mainVars, senderVars, IInv
  <2> QED
      BY <1>2, <2>1, <2>2, <2>3, TypesKept DEF IInv
<1> QED
    BY <1>1, <1>2

LEMMA Invariance == Spec => []IInv
<1>1. Init => IInv
    BY TypesInit, HostInit, OrderedInit, TurnOrderInit, OnceInit, BatchesInit DEF IInv
<1> QED
    BY <1>1, Inductive, PTL DEF Spec

\* The exporter, its rings and its senders keep their types.
THEOREM ExporterTypes == Spec => []TypeOK
BY Invariance, PTL DEF IInv, Types

\* Each ring's reports reach the socket in the order of the packet loop, none
\* twice, whatever the sockets answer.
THEOREM ReportsStayInOrder == Spec => []SentInOrder
BY Invariance, PTL DEF IInv, Ordered

\* Every report is dropped and counted, in the running call, or accepted by
\* exactly one ring and then in one place on its way to the socket.
THEOREM ReportsAreInOnePlace == Spec => []EveryReportOnce
<1>1. IInv => EveryReportOnce
    BY OnceIs DEF IInv
<1> QED
    BY <1>1, Invariance, PTL

\* The counter of a sender is the number of records in its batch, on every path.
THEOREM BatchesAreAccounted == Spec => []BatchAccounting
BY Invariance, PTL DEF IInv, Batches

\* sendData serves the rings in turn, however often it is refused.
THEOREM RingsTakeTurns == Spec => []RoundRobin
<1>1. TurnOrder => RoundRobin
    BY DEF TurnOrder, RoundRobin, Turns, Rings
<1> QED
    BY <1>1, Invariance, PTL DEF IInv

\* A report is dropped only after every ring refused it.
THEOREM DropsAreRefusedByAll == Spec => []DropsRefusedByAll
<1>1. DropAccount => DropsRefusedByAll
    BY DEF DropAccount, DropsRefusedByAll, Rings
<1> QED
    BY <1>1, Invariance, PTL DEF IInv

\* Once all senders are connected, no exception of theirs ends the process.
THEOREM OnlyConnectingIsFatal == Spec => ConnectedSurvives
<1>1. ASSUME TypeOK, Next, started = m_th_num, \A s \in Senders : pc[s] # "connect"
      PROVE  process' # "terminated"
  <2>1. process = "up" /\ ~(started < m_th_num)
      BY <1>1, Numbers DEF Next
  <2>2. CASE Main
      BY <2>1, <2>2 DEF Main, Construct, StartSender, UnknownProtocol, SendData, SendDataStep,
            PushReport, PushRefused, GiveUp, Exit
  <2>3. CASE \E s \in Senders : Sender(s) \/ Visible(s)
      BY <1>1, <2>1, <2>3 DEF Sender, Connected, ConnectFailed, PollEmpty, PollReport, Sent,
            Visible, PushBecomesVisible, PopBecomesVisible
  <2> QED
      BY <1>1, <2>2, <2>3 DEF Next
<1> QED
    BY <1>1, ExporterTypes, PTL DEF Spec, ConnectedSurvives
=============================================================================
