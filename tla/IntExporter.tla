---------------------------- MODULE IntExporter -----------------------------
(***************************************************************************)
(* IntExporter and its sender threads (p4_influxdb.cc): the packet loop    *)
(* hands each report to sendData, which puts it round robin into one of    *)
(* the ring buffers; each ring has one sender thread, which collects the   *)
(* records of the reports into a batch and sends it to InfluxDB, by HTTP   *)
(* or by UDP.  A ring is a queue of BoundedQueue: RingBuffer is shown to   *)
(* implement that queue.  A report is its number and its count of hops;    *)
(* the text of its records is left out.                                    *)
(***************************************************************************)
EXTENDS BoundedQueue, FiniteSets, FiniteSetsExt, SequencesExt

CONSTANTS
    Options,          \* what parse_arguments may leave in opt
    MaxSenders,       \* bound: ring buffers and sender threads
    PopThreshold,     \* POP_THRESHOLD: empty polls before a flush
    DatagramRecords,  \* how many records fit in one UDP datagram
    HopCounts,        \* how many hops a report may have (meta_cnt)
    MaxReports,       \* bound: how many reports the packet loop produces
    NoReport

Reports == [id : 1 .. MaxReports, hops : HopCounts]

ASSUME OptionAssumption ==
    \A o \in Options :
        /\ o.hostValid \in BOOLEAN           \* option -c was given
        /\ o.batch \in Nat                   \* option -b
        /\ o.raw_buffer \in 0 .. MaxSenders  \* option -i

ASSUME ExporterAssumption ==
    /\ MaxSenders \in Nat
    /\ PopThreshold \in Nat \ {0}
    /\ DatagramRecords \in Nat
    /\ HopCounts \subseteq Nat
    /\ MaxReports \in Nat
    /\ NoReport \notin Reports

Senders == 0 .. MaxSenders - 1

VARIABLES
    process,     \* "up", "exited" from main, or "terminated" by an exception
    opt,         \* the options; opt.protocol is option -r
    started,     \* senders the constructor has started
    nextId,      \* the next report of the packet loop
    m_rr_index,  \* round robin index
    sending,     \* the argument of the running sendData
    attempt,     \* its loop variable i
    pkt_drop,    \* reports given up by sendData
    rings,       \* m_ring_buffs
    pc,          \* where each sender stands
    data,        \* reports whose records are in the sender's data string
    it,          \* number of records in it
    flush,       \* empty polls since the last report; counted up to PopThreshold + 1
    \* history of the run, read by no action
    refused,     \* pushes each ring refused
    sent,        \* reports each sender handed to its socket, in order
    unnoticed    \* numbers of the reports that were not stored by a send that returned

m_th_num == opt.raw_buffer

IsHttp == opt.protocol \in {"http", "https"}
IsUdp  == opt.protocol = "udp"

mainVars == <<started, nextId, m_rr_index, sending, attempt, pkt_drop, refused>>
senderVars == <<pc, data, it, flush, sent, unnoticed>>
vars == <<process, opt, mainVars, rings, senderVars>>

Init ==
    /\ process = "up"
    /\ opt \in Options
    /\ started = 0
    /\ nextId = 1
    /\ m_rr_index = 0
    /\ sending = NoReport /\ attempt = 0 /\ pkt_drop = 0
    /\ rings = [s \in Senders |-> EmptyQueue]
    /\ pc = [s \in Senders |-> "none"]
    /\ data = [s \in Senders |-> <<>>]
    /\ it = [s \in Senders |-> 0]
    /\ flush = [s \in Senders |-> 0]
    /\ refused = [s \in Senders |-> 0]
    /\ sent = [s \in Senders |-> <<>>]
    /\ unnoticed = {}

-----------------------------------------------------------------------------
(* The main thread: the constructor, then sendData for one report at a time. *)

StartSender ==
    /\ started < m_th_num
    /\ IsUdp \/ IsHttp
    /\ started' = started + 1
    /\ pc' = [pc EXCEPT ![started] = "connect"]
    /\ UNCHANGED <<process, opt, nextId, m_rr_index, sending, attempt,
                   pkt_drop, refused, rings, data, it, flush, sent, unnoticed>>

\* throw std::runtime_error("Unknown protocol"), which main does not catch
UnknownProtocol ==
    /\ started < m_th_num
    /\ ~(IsUdp \/ IsHttp)
    /\ process' = "terminated"
    /\ UNCHANGED <<opt, mainVars, rings, senderVars>>

\* report_to_influx calls sendData for the next report.
SendData(hops) ==
    /\ started = m_th_num
    /\ sending = NoReport
    /\ opt.hostValid
    /\ nextId <= MaxReports
    /\ sending' = [id |-> nextId, hops |-> hops]
    /\ attempt' = 0
    /\ nextId' = nextId + 1
    /\ UNCHANGED <<process, opt, started, m_rr_index, pkt_drop, refused,
                   rings, senderVars>>

NextRing == (m_rr_index + 1) % m_th_num

\* Mutant: the index advances only past rings that refuse.
PushReportStaying ==
    /\ sending # NoReport
    /\ attempt < m_th_num
    /\ HasRoom(rings[NextRing])
    /\ rings' = [rings EXCEPT ![NextRing] = Pushed(@, sending)]
    /\ sending' = NoReport
    /\ attempt' = 0
    /\ UNCHANGED <<process, opt, started, nextId, m_rr_index, pkt_drop, refused, senderVars>>

\* One turn of the loop: the push is accepted, EXIT_SUCCESS ...
PushReport ==
    /\ sending # NoReport
    /\ attempt < m_th_num
    /\ HasRoom(rings[NextRing])
    /\ m_rr_index' = NextRing
    /\ rings' = [rings EXCEPT ![NextRing] = Pushed(@, sending)]
    /\ sending' = NoReport
    /\ attempt' = 0
    /\ UNCHANGED <<process, opt, started, nextId, pkt_drop, refused, senderVars>>

\* Mutant: the loop runs once too often (i <= m_th_num).
PushRefusedOnceMore ==
    /\ sending # NoReport
    /\ m_th_num > 0 /\ attempt <= m_th_num
    /\ ~HasRoom(rings[NextRing])
    /\ m_rr_index' = NextRing
    /\ attempt' = attempt + 1
    /\ refused' = [refused EXCEPT ![NextRing] = @ + 1]
    /\ UNCHANGED <<process, opt, started, nextId, sending, pkt_drop, rings, senderVars>>

\* Mutant: a refused push is retried until a ring has room.
PushRefusedForever ==
    /\ sending # NoReport
    /\ attempt < m_th_num
    /\ ~HasRoom(rings[NextRing])
    /\ m_rr_index' = NextRing
    /\ refused' = [refused EXCEPT ![NextRing] = 1]
    /\ UNCHANGED <<process, opt, started, nextId, sending, attempt, pkt_drop,
                   rings, senderVars>>

\* ... or refused, and the next ring is tried.
PushRefused ==
    /\ sending # NoReport
    /\ attempt < m_th_num
    /\ ~HasRoom(rings[NextRing])
    /\ m_rr_index' = NextRing
    /\ attempt' = attempt + 1
    /\ refused' = [refused EXCEPT ![NextRing] = @ + 1]
    /\ UNCHANGED <<process, opt, started, nextId, sending, pkt_drop, rings, senderVars>>

\* Mutant: the call gives up before it tried every ring.
GiveUpEarly ==
    /\ sending # NoReport
    /\ attempt + 1 >= m_th_num
    /\ pkt_drop' = pkt_drop + 1
    /\ sending' = NoReport
    /\ attempt' = 0
    /\ UNCHANGED <<process, opt, started, nextId, m_rr_index, refused, rings, senderVars>>

\* Mutant: the failure is not counted.
GiveUpSilently ==
    /\ sending # NoReport
    /\ attempt >= m_th_num
    /\ sending' = NoReport
    /\ attempt' = 0
    /\ UNCHANGED <<process, opt, started, nextId, m_rr_index, pkt_drop, refused,
                   rings, senderVars>>

\* EXIT_FAILURE: report_to_influx counts the report as dropped.
GiveUp ==
    /\ sending # NoReport
    /\ attempt >= m_th_num
    /\ pkt_drop' = pkt_drop + 1
    /\ sending' = NoReport
    /\ attempt' = 0
    /\ UNCHANGED <<process, opt, started, nextId, m_rr_index, refused, rings, senderVars>>

\* The packet loop sees the stop flag between two packets and main returns;
\* the detached senders end with the process, wherever they are.
Exit ==
    /\ started = m_th_num
    /\ sending = NoReport
    /\ process' = "exited"
    /\ UNCHANGED <<opt, mainVars, rings, senderVars>>

-----------------------------------------------------------------------------
(* InfluxDB and the network. *)

\* The answers to an HTTP request: whether curl got one, its status code, and
\* whether the database stored the batch.  A request may time out before or
\* after that.
HttpAnswers ==
    {[curl |-> TRUE, code |-> 204, stored |-> TRUE]}
    \cup [curl : {TRUE}, code : {400, 401, 404, 500, 503}, stored : {FALSE}]
    \cup [curl : {FALSE}, code : {0}, stored : BOOLEAN]

treatCurlResponse(a) ==
    \/ ~a.curl
    \/ a.code = 404
    \/ a.code >= 400 /\ a.code < 500
    \/ a.code > 500

DatagramTooLong(records) == records > DatagramRecords

\* What may become of a batch of so many records: whether send throws and
\* whether the batch is stored.  The socket may refuse any datagram and refuses
\* one that is too long; one it takes arrives or not, and the sender does not
\* learn which.
Outcomes(records) ==
    IF IsUdp
    THEN [raises : {TRUE}, stored : {FALSE}]
            \cup IF DatagramTooLong(records) THEN {} ELSE [raises : {FALSE}, stored : BOOLEAN]
    ELSE {[raises |-> treatCurlResponse(a), stored |-> a.stored] : a \in HttpAnswers}

-----------------------------------------------------------------------------
(* A sender thread. *)

\* add_report: the record of the report, one per hop and one for the sink.
add_report(r) == 1 + (r.hops + 1)

\* Mutant: http_sender compares as udp_sender does.
HttpBatchFullExactly(records) == records = opt.batch

HttpBatchFull(records) == records >= opt.batch
UdpBatchFull(records) == records = opt.batch

BatchFull(records) ==
    IF IsUdp THEN UdpBatchFull(records) ELSE HttpBatchFull(records)

\* The HTTP constructor posts an empty line and the UDP constructor resolves
\* the host; the exception of either ends the process.
Connected(s) ==
    /\ pc[s] = "connect"
    /\ pc' = [pc EXCEPT ![s] = "poll"]
    /\ UNCHANGED <<process, opt, mainVars, rings, data, it, flush, sent, unnoticed>>

ConnectFailed(s) ==
    /\ pc[s] = "connect"
    /\ process' = "terminated"
    /\ UNCHANGED <<opt, mainVars, rings, senderVars>>

\* Mutant: an idle http_sender keeps an unfinished batch, as udp_sender does.
PollEmptyUnflushed(s) ==
    /\ IsHttp
    /\ pc[s] = "poll"
    /\ ~HasItem(rings[s])
    /\ flush[s] <= PopThreshold
    /\ flush' = [flush EXCEPT ![s] = @ + 1]
    /\ UNCHANGED <<process, opt, mainVars, rings, pc, data, it, sent, unnoticed>>

\* pop finds nothing: http_sender counts and, after PopThreshold empty polls,
\* sends what it has.  udp_sender only sleeps, which changes nothing.
PollEmpty(s) ==
    /\ IsHttp
    /\ pc[s] = "poll"
    /\ ~HasItem(rings[s])
    /\ flush[s] <= PopThreshold
    /\ flush' = [flush EXCEPT ![s] = @ + 1]
    /\ pc' = [pc EXCEPT ![s] =
                 IF flush'[s] = PopThreshold /\ data[s] # <<>> /\ opt.hostValid
                 THEN "send" ELSE "poll"]
    /\ UNCHANGED <<process, opt, mainVars, rings, data, it, sent, unnoticed>>

\* pop delivers a report: its records are added and a full batch is sent.
PollReport(s) ==
    /\ pc[s] = "poll"
    /\ HasItem(rings[s])
    /\ rings' = [rings EXCEPT ![s] = Popped(@)]
    /\ flush' = [flush EXCEPT ![s] = 0]
    /\ IF opt.hostValid
       THEN LET r == Head(rings[s].items)
            IN  /\ data' = [data EXCEPT ![s] = Append(@, r)]
                /\ it' = [it EXCEPT ![s] = @ + add_report(r)]
                /\ pc' = [pc EXCEPT ![s] = IF BatchFull(it'[s]) THEN "send" ELSE "poll"]
       ELSE UNCHANGED <<data, it, pc>>
    /\ UNCHANGED <<process, opt, mainVars, sent, unnoticed>>

Ids(reports) == {reports[i].id : i \in DOMAIN reports}

\* Mutant: a batch whose send threw is kept and sent again with the next one.
SentAgain(s) ==
    /\ pc[s] = "send"
    /\ \E o \in Outcomes(it[s]) :
        /\ unnoticed' = IF o.stored \/ o.raises THEN unnoticed ELSE unnoticed \cup Ids(data[s])
        /\ it' = [it EXCEPT ![s] = IF o.raises THEN @ ELSE 0]
        /\ data' = [data EXCEPT ![s] = IF o.raises THEN @ ELSE <<>>]
    /\ sent' = [sent EXCEPT ![s] = @ \o data[s]]
    /\ pc' = [pc EXCEPT ![s] = "poll"]
    /\ UNCHANGED <<process, opt, mainVars, rings, flush>>

\* Mutant: the counter is reset only when send returns.
SentCounterKept(s) ==
    /\ pc[s] = "send"
    /\ \E o \in Outcomes(it[s]) :
        /\ unnoticed' = IF o.stored \/ o.raises THEN unnoticed ELSE unnoticed \cup Ids(data[s])
        /\ it' = [it EXCEPT ![s] = IF o.raises THEN @ ELSE 0]
    /\ sent' = [sent EXCEPT ![s] = @ \o data[s]]
    /\ data' = [data EXCEPT ![s] = <<>>]
    /\ pc' = [pc EXCEPT ![s] = "poll"]
    /\ UNCHANGED <<process, opt, mainVars, rings, flush>>

\* Mutant: the exception of send leaves the thread.
SentUncaught(s) ==
    /\ pc[s] = "send"
    /\ \E o \in Outcomes(it[s]) :
        /\ unnoticed' = IF o.stored \/ o.raises THEN unnoticed ELSE unnoticed \cup Ids(data[s])
        /\ process' = IF o.raises THEN "terminated" ELSE process
    /\ sent' = [sent EXCEPT ![s] = @ \o data[s]]
    /\ it' = [it EXCEPT ![s] = 0]
    /\ data' = [data EXCEPT ![s] = <<>>]
    /\ pc' = [pc EXCEPT ![s] = "poll"]
    /\ UNCHANGED <<opt, mainVars, rings, flush>>

\* send returns or throws; the exception is caught and the batch is gone
\* either way.
Sent(s) ==
    /\ pc[s] = "send"
    /\ \E o \in Outcomes(it[s]) :
         unnoticed' = IF o.stored \/ o.raises THEN unnoticed ELSE unnoticed \cup Ids(data[s])
    /\ sent' = [sent EXCEPT ![s] = @ \o data[s]]
    /\ it' = [it EXCEPT ![s] = 0]
    /\ data' = [data EXCEPT ![s] = <<>>]
    /\ pc' = [pc EXCEPT ![s] = "poll"]
    /\ UNCHANGED <<process, opt, mainVars, rings, flush>>

-----------------------------------------------------------------------------
(* The two threads of a ring see each other's stores with a delay. *)

PushBecomesVisible(s) ==
    /\ rings[s].unseenPushes > 0
    /\ rings' = [rings EXCEPT ![s] = PushShown(@)]
    /\ UNCHANGED <<process, opt, mainVars, senderVars>>

PopBecomesVisible(s) ==
    /\ rings[s].unseenPops > 0
    /\ rings' = [rings EXCEPT ![s] = PopShown(@)]
    /\ UNCHANGED <<process, opt, mainVars, senderVars>>

-----------------------------------------------------------------------------
SendDataStep == PushReport \/ PushRefused \/ GiveUp

Construct == StartSender \/ UnknownProtocol

Main == Construct \/ (\E h \in HopCounts : SendData(h)) \/ SendDataStep \/ Exit

Sender(s) ==
    Connected(s) \/ ConnectFailed(s) \/ PollEmpty(s) \/ PollReport(s) \/ Sent(s)

Visible(s) == PushBecomesVisible(s) \/ PopBecomesVisible(s)

Next ==
    /\ process = "up"
    /\ Main \/ \E s \in Senders : Sender(s) \/ Visible(s)

Spec == Init /\ [][Next]_vars

\* The main thread runs: the constructor and a call of sendData go on.
MainFairSpec == Spec /\ WF_vars(process = "up" /\ (Construct \/ SendDataStep))

\* So may the senders, whose requests end after CURLOPT_TIMEOUT at the latest,
\* with stores that become visible.
SendersRun ==
    \A s \in Senders :
        /\ WF_vars(process = "up" /\ Sender(s))
        /\ WF_vars(process = "up" /\ PushBecomesVisible(s))
        /\ WF_vars(process = "up" /\ PopBecomesVisible(s))

-----------------------------------------------------------------------------
TypeOK ==
    /\ process \in {"up", "exited", "terminated"}
    /\ opt \in Options
    /\ started \in 0 .. m_th_num
    /\ nextId \in 1 .. MaxReports + 1
    /\ m_rr_index \in Senders \cup {0}
    /\ sending \in Reports \cup {NoReport}
    /\ attempt \in 0 .. m_th_num
    /\ pkt_drop \in Nat
    /\ rings \in [Senders -> Queues(Reports)]
    /\ pc \in [Senders -> {"none", "connect", "poll", "send"}]
    /\ data \in [Senders -> Seq(Reports)]
    /\ it \in [Senders -> Nat]
    /\ flush \in [Senders -> 0 .. PopThreshold + 1]
    /\ refused \in [Senders -> Nat]
    /\ sent \in [Senders -> Seq(Reports)]
    /\ unnoticed \subseteq 1 .. MaxReports

\* The reports that went into ring s, in the order they will have been sent.
Accepted(s) == sent[s] \o data[s] \o rings[s].items

\* Every report the packet loop produced is in exactly one place: dropped and
\* counted in pkt_drop, in the running call, in one ring, in one batch, or
\* sent once.  sendData, pop and the batch handling of the senders lose and
\* duplicate none, whatever the sockets answer.
EveryReportOnce ==
    /\ nextId - 1 = pkt_drop + (IF sending = NoReport THEN 0 ELSE 1)
                        + SumFunction([s \in Senders |-> Len(Accepted(s))])
    /\ \A s, t \in Senders : s # t => Ids(Accepted(s)) \cap Ids(Accepted(t)) = {}
    /\ sending # NoReport => \A s \in Senders : sending.id \notin Ids(Accepted(s))

\* One ring's reports reach the socket in the order the packet loop received
\* them, none twice (reports of different rings may overtake each other).
SentInOrder ==
    \A s \in Senders : \A i, j \in DOMAIN Accepted(s) :
        i < j => Accepted(s)[i].id < Accepted(s)[j].id

\* The counter a sender decides by is the number of records in its data: the
\* two are reset together on every path, the failing ones included; and an
\* HTTP sender that polls always has room for another record in its batch.
BatchAccounting ==
    \A s \in Senders :
        /\ it[s] = SumFunction([i \in DOMAIN data[s] |-> data[s][i].hops + 2])
        /\ pc[s] = "send" => data[s] # <<>>
        /\ (IsHttp /\ pc[s] = "poll" /\ opt.batch > 0) => it[s] < opt.batch

\* sendData offers reports to the rings in turn: no ring ever had two turns
\* more than another, however often pushes were refused and calls gave up.
RoundRobin ==
    LET turns(s) == Len(Accepted(s)) + refused[s]
    IN  \A s, t \in 0 .. m_th_num - 1 : turns(s) <= turns(t) + 1

\* A report is dropped only after every ring refused it: while one ring has
\* room, a slow database behind the others costs no report.
DropsRefusedByAll ==
    \A s \in 0 .. m_th_num - 1 : pkt_drop <= refused[s]

\* Once every sender has connected, no answer of the database and no refused
\* datagram ends the process: what send throws is caught in the thread.
ConnectedSurvives ==
    [][(started = m_th_num /\ \A s \in Senders : pc[s] # "connect")
         => process' # "terminated"]_vars

\* A report accepted by sendData is handed to the socket, even when no further
\* report ever arrives: http_sender flushes an unfinished batch when it idles.
\* (udp_sender does not, so nothing is claimed of it.)
AcceptedIsSent ==
    SendersRun => \A n \in 1 .. MaxReports :
        (IsHttp /\ \E s \in Senders : n \in Ids(Accepted(s)))
            ~> (process # "up" \/ \E s \in Senders : n \in Ids(sent[s]))

\* sendData returns whatever the senders do: a database that does not answer
\* never stops the packet loop.
SendDataReturns ==
    (sending # NoReport) ~> (process # "up" \/ sending = NoReport)

\* "How many reports send at once" (p4int.cc, print_help): no batch holds more
\* than that many.
BatchLimit ==
    \A s \in Senders : Len(data[s]) <= opt.batch

\* "throw InfluxDBException when CURL fails on POSTing or response code != 200"
\* (HTTP.h): a batch the database refused is reported to the sender.
FailureRaises ==
    IsHttp => unnoticed = {}
=============================================================================
