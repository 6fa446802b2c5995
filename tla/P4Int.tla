------------------------------- MODULE P4Int --------------------------------
(***************************************************************************)
(* The packet loop of the collector (p4int.cc): main receives the sink's   *)
(* report frames from a raw socket, turns each into telemetric data with   *)
(* the help of what it remembers of earlier frames, and offers every       *)
(* smpl_rate-th to the exporter, whose sendData accepts or refuses it      *)
(* (module IntExporter).  SIGINT sets the stop flag the loop looks at.     *)
(* What is computed from one frame is in module Telemetry.                 *)
(***************************************************************************)
EXTENDS Telemetry, FiniteSets, SequencesExt

CONSTANTS
    Frames,         \* the frames that may arrive
    Options,        \* what parse_arguments may leave in opt
    MAX_NODES,      \* size of prev_timestamps
    SocketRoom,     \* frames the socket buffers, the kernel drops more
    MaxFrames,      \* bound: how many frames arrive
    MaxFailures,    \* bound: how many calls of recvfrom fail
    NoFrame         \* the buffer before the first frame

Keys  == {f.key : f \in Frames}
Ports == {f.port : f \in Frames}

ASSUME OptionAssumption ==
    \A o \in Options :
        /\ o.hostValid \in BOOLEAN  \* option -c was given
        /\ o.smpl_rate \in Nat      \* option -m
        /\ o.tstmp \in BOOLEAN      \* option -t

\* A frame of MAX_NODES hops or more would be written past prev_timestamps,
\* with undefined effect: such frames are left out.
ASSUME CollectorAssumption ==
    /\ MAX_NODES \in Nat \ {0}
    /\ SocketRoom \in Nat /\ MaxFrames \in Nat /\ MaxFailures \in Nat
    /\ \A f \in Frames :
        /\ f \in FramesOf(Keys, Ports)
        /\ f.meta_cnt < MAX_NODES
        /\ Len(f.metas) = Max({f.meta_cnt, 1})
    /\ NoFrame \notin Frames

VARIABLES
    opt,              \* the options
    socket,           \* frames received by the kernel
    arrived, failed,  \* bounded counters of frames and of failures
    stop,             \* set by setup_stop
    pc,               \* where loop_proccess stands
    buffer,           \* what the last successful recvfrom left there
    flow_map,         \* per key: the last sequence number and dstTs
    prev_timestamps,  \* per hop index: the last timestamp
    pkt_cnt, pkt_drop,
    processed         \* history: the reports made, and what became of each

environment == <<socket, arrived, failed>>
memory == <<flow_map, prev_timestamps, pkt_cnt, pkt_drop, processed>>
vars == <<opt, environment, stop, pc, buffer, memory>>

Init ==
    /\ opt \in Options
    /\ socket = <<>> /\ arrived = 0 /\ failed = 0
    /\ stop = FALSE
    /\ pc = "check"
    /\ buffer = NoFrame
    /\ flow_map = [k \in Keys |-> [seq |-> 0, prev_dstTs |-> 0]]
    /\ prev_timestamps = [i \in 0 .. MAX_NODES - 1 |-> 0]
    /\ pkt_cnt = 0 /\ pkt_drop = 0
    /\ processed = <<>>

-----------------------------------------------------------------------------
(* The environment. *)

Arrive(f) ==
    /\ arrived < MaxFrames
    /\ Len(socket) < SocketRoom
    /\ socket' = Append(socket, f)
    /\ arrived' = arrived + 1
    /\ UNCHANGED <<opt, failed, stop, pc, buffer, memory>>

\* SIGINT: the handler sets the flag; a recvfrom that waits is restarted.
setup_stop ==
    /\ stop' = TRUE
    /\ UNCHANGED <<opt, environment, pc, buffer, memory>>

-----------------------------------------------------------------------------
(* loop_proccess. *)

\* Mutant: the flag is not volatile and the loop keeps the value it first read.
CheckStopCached ==
    /\ pc = "check"
    /\ pc' = "receive"
    /\ UNCHANGED <<opt, environment, stop, buffer, memory>>

\* while (!stop)
CheckStop ==
    /\ pc = "check"
    /\ pc' = IF stop THEN "exited" ELSE "receive"
    /\ UNCHANGED <<opt, environment, stop, buffer, memory>>

\* recvfrom waits for a frame and copies it into the buffer ...
Receive ==
    /\ pc = "receive"
    /\ socket # <<>>
    /\ buffer' = Head(socket)
    /\ socket' = Tail(socket)
    /\ pc' = "process"
    /\ UNCHANGED <<opt, arrived, failed, stop, memory>>

\* ... or fails, when the device goes down; the loop does not look at the
\* result and goes on with what the buffer holds.
ReceiveFails ==
    /\ pc = "receive"
    /\ failed < MaxFailures
    /\ failed' = failed + 1
    /\ pc' = "process"
    /\ UNCHANGED <<opt, socket, arrived, stop, buffer, memory>>

ReportOf(f) == Report(f, flow_map[f.key], prev_timestamps, opt.tstmp)

\* opt.hostValid && (pkt_cnt % opt.smpl_rate == 0)
Sampled == opt.hostValid /\ pkt_cnt % opt.smpl_rate = 0

\* Option -m 0: the remainder is undefined, and the processor ends the process.
Divides0 == opt.hostValid /\ opt.smpl_rate = 0

\* Mutant: a refused report is not counted.
process_packet_uncounted(f, outcome) ==
    /\ pc = "process"
    /\ ~Divides0
    /\ outcome \in IF Sampled THEN {"accepted", "dropped"} ELSE {"skipped"}
    /\ processed' = Append(processed, [report |-> ReportOf(f), outcome |-> outcome])
    /\ flow_map' = [flow_map EXCEPT ![f.key] =
                      [seq |-> ReportOf(f).header.seqNum, prev_dstTs |-> f.dstTs]]
    /\ prev_timestamps' = [i \in DOMAIN prev_timestamps |->
                             IF i <= f.meta_cnt THEN Entered(f, i) ELSE prev_timestamps[i]]
    /\ pkt_cnt' = pkt_cnt + 1
    /\ pc' = "check"
    /\ UNCHANGED <<opt, environment, stop, buffer, pkt_drop>>

\* Mutant: the last timestamp of the sink is not stored.
process_packet_forgetful(f, outcome) ==
    /\ pc = "process"
    /\ ~Divides0
    /\ outcome \in IF Sampled THEN {"accepted", "dropped"} ELSE {"skipped"}
    /\ processed' = Append(processed, [report |-> ReportOf(f), outcome |-> outcome])
    /\ pkt_drop' = pkt_drop + (IF outcome = "dropped" THEN 1 ELSE 0)
    /\ flow_map' = [flow_map EXCEPT ![f.key] =
                      [seq |-> ReportOf(f).header.seqNum, prev_dstTs |-> f.dstTs]]
    /\ prev_timestamps' = [i \in DOMAIN prev_timestamps |->
                             IF i < f.meta_cnt THEN Entered(f, i) ELSE prev_timestamps[i]]
    /\ pkt_cnt' = pkt_cnt + 1
    /\ pc' = "check"
    /\ UNCHANGED <<opt, environment, stop, buffer>>

\* process_packet, report_to_influx and the packet counter; outcome is what
\* becomes of the report.
process_packet(f, outcome) ==
    /\ pc = "process"
    /\ ~Divides0
    /\ outcome \in IF Sampled THEN {"accepted", "dropped"} ELSE {"skipped"}
    /\ processed' = Append(processed, [report |-> ReportOf(f), outcome |-> outcome])
    /\ pkt_drop' = pkt_drop + (IF outcome = "dropped" THEN 1 ELSE 0)
    /\ flow_map' = [flow_map EXCEPT ![f.key] =
                      [seq |-> ReportOf(f).header.seqNum, prev_dstTs |-> f.dstTs]]
    /\ prev_timestamps' = [i \in DOMAIN prev_timestamps |->
                             IF i <= f.meta_cnt THEN Entered(f, i) ELSE prev_timestamps[i]]
    /\ pkt_cnt' = pkt_cnt + 1
    /\ pc' = "check"
    /\ UNCHANGED <<opt, environment, stop, buffer>>

ProcessBuffer(outcome) ==
    /\ buffer # NoFrame
    /\ process_packet(buffer, outcome)

\* The stack's old contents, taken for a frame: any report may come of them ...
ProcessUninitialised(outcome) ==
    /\ buffer = NoFrame
    /\ \E f \in Frames : process_packet(f, outcome)

\* ... or, when hop_meta_len reads as 0, a division by zero, as with -m 0.
DivideByZero ==
    /\ pc = "process"
    /\ buffer = NoFrame \/ Divides0
    /\ pc' = "terminated"
    /\ UNCHANGED <<opt, environment, stop, buffer, memory>>

-----------------------------------------------------------------------------
Ended == pc \in {"exited", "terminated"}

Outcomes == {"accepted", "dropped", "skipped"}

Process(outcome) == ProcessBuffer(outcome) \/ ProcessUninitialised(outcome)

Loop ==
    CheckStop \/ Receive \/ DivideByZero \/ \E outcome \in Outcomes : Process(outcome)

\* Frames and signals may still come between the loop's end and that of main.
Next ==
    /\ pc # "terminated"
    /\ (\E f \in Frames : Arrive(f)) \/ setup_stop \/ ReceiveFails \/ Loop

Spec == Init /\ [][Next]_vars

\* The process runs; recvfrom returns once a frame is there.
FairSpec == Spec /\ WF_vars(Loop)

-----------------------------------------------------------------------------
TypeOK ==
    /\ opt \in Options
    /\ socket \in Seq(Frames)
    /\ arrived \in 0 .. MaxFrames /\ failed \in 0 .. MaxFailures
    /\ stop \in BOOLEAN
    /\ pc \in {"check", "receive", "process", "exited", "terminated"}
    /\ buffer \in Frames \cup {NoFrame}
    /\ flow_map \in [Keys -> [seq : Nat, prev_dstTs : Timestamps]]
    /\ prev_timestamps \in [0 .. MAX_NODES - 1 -> Timestamps]
    /\ pkt_cnt \in Nat /\ pkt_drop \in 0 .. pkt_cnt
    /\ Len(processed) = pkt_cnt
    /\ \A n \in DOMAIN processed : processed[n].report.delay \in Timestamps

Reports == [n \in DOMAIN processed |-> processed[n].report]

ReportsOf(k) == {n \in DOMAIN Reports : Reports[n].header.key = k}
ReportsOn(i) == {n \in DOMAIN Reports : i \in DOMAIN Reports[n].node_meta}

\* The gaps the reports of a key announce add up to the number it has reached:
\* a packet that was late, lost or seen twice is announced by one report and
\* taken back by another, whatever the order of arrival and of UDP and TCP.
GapsAddUp ==
    \A k \in Keys :
        SumFunction([n \in ReportsOf(k) |-> Reports[n].header.reordering + 1])
            = flow_map[k].seq

\* The jitters of a key add up to its last timestamp, and those of a hop index
\* to the last timestamp of that index, modulo 2^64: no report measures from a
\* timestamp another one measured from before.
JittersAddUp ==
    /\ \A k \in Keys :
        SumFunction([n \in ReportsOf(k) |-> Reports[n].header.sink_jitter]) % Wrap
            = flow_map[k].prev_dstTs
    /\ \A i \in 0 .. MAX_NODES - 1 :
        SumFunction([n \in ReportsOn(i) |-> Reports[n].node_meta[i].hop_jitter]) % Wrap
            = prev_timestamps[i]

\* The delay of a report is made up of its hop and link delays (a link delay
\* is reported as the earlier timestamp minus the later one) and agrees with
\* its two timestamps, also when these are cut to 48 bits.
DelayAddsUp(r) ==
    LET hops == DOMAIN r.node_meta
    IN  /\ Cardinality(hops) > 1 =>
             r.delay = (SumFunction([i \in hops |-> r.node_meta[i].hop_delay])
                         - SumFunction([i \in hops |-> r.node_meta[i].link_delay])) % Wrap
        /\ (r.origTs + r.delay) % Cut = r.dstTs % Cut

DelaysAddUp == \A n \in DOMAIN Reports : DelayAddsUp(Reports[n])

Outcome(o) == {n \in DOMAIN processed : processed[n].outcome = o}

\* One packet in smpl_rate is offered to the exporter, starting with the
\* first, and each of those is accepted or counted in pkt_drop.
SampledOffered ==
    IF opt.hostValid /\ opt.smpl_rate > 0
    THEN /\ Cardinality(Outcome("accepted")) + pkt_drop
              = (pkt_cnt + opt.smpl_rate - 1) \div opt.smpl_rate
         /\ pkt_drop = Cardinality(Outcome("dropped"))
    ELSE Outcome("skipped") = DOMAIN processed

\* SIGINT ends the loop with the next frame at the latest, however many are
\* waiting (without a frame recvfrom goes on waiting).
StopsWithNextFrame ==
    (stop /\ socket # <<>>) ~> Ended

\* "Flow is defined by src IP, dst IP, src TCP/UDP port, dst TCP/UDP port"
\* (int_source.p4): the jitter of a report is the time since the one before
\* it of the same flow.
JitterOfItsFlow ==
    \A n \in DOMAIN processed :
        LET h == Reports[n].header
            earlier == {m \in 1 .. n - 1 :
                          /\ Reports[m].header.key = h.key
                          /\ Reports[m].header.port = h.port}
        IN  earlier # {} =>
              h.sink_jitter % Cut = (Reports[n].dstTs - Reports[Max(earlier)].dstTs) % Cut
=============================================================================
