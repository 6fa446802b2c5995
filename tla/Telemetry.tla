----------------------------- MODULE Telemetry ------------------------------
(***************************************************************************)
(* What the collector computes from one report frame (p4int.cc), given     *)
(* what it remembers of earlier ones.  Timestamps are unsigned and wrap.   *)
(*                                                                         *)
(* A frame is a record:                                                    *)
(*   key       the first 8 bytes, the source and the destination address   *)
(*   port      the source and the destination port                         *)
(*   seq       0 in the report of a UDP packet                             *)
(*   dstTs     when the packet reached the sink                            *)
(*   meta_cnt  meta_len / hop_meta_len                                     *)
(*   metas     the records of the hops; there is room for at least one,    *)
(*             which the code reads even when meta_len announces none      *)
(***************************************************************************)
EXTENDS Integers, Sequences, FiniteSetsExt

CONSTANTS
    Wrap,           \* 2^64: how many timestamps there are
    Cut             \* 2^48: what option -t cuts timestamps to

ASSUME TelemetryAssumption ==
    Wrap \in Nat /\ Wrap > 1 /\ Cut \in Nat \ {0} /\ Wrap % Cut = 0

Timestamps == 0 .. Wrap - 1

FramesOf(keys, ports) ==
    [key : keys, port : ports, seq : Nat, dstTs : Timestamps, meta_cnt : Nat,
     metas : Seq([ingress : Timestamps, egress : Timestamps])]

\* Mutant: the differences are signed.
MinusSigned(a, b) == a - b

\* Subtraction of uint64_t.
Minus(a, b) == (a - b) % Wrap

\* Mutant: only a report of a TCP packet numbers the flow.
get_int_header_data_unnumbered(f, meta) ==
    [key |-> f.key, port |-> f.port,
     protocol |-> IF f.seq = 0 THEN "udp" ELSE "tcp",
     seqNum |-> IF f.seq = 0 THEN meta.seq + 1 ELSE f.seq,
     reordering |-> IF f.seq = 0 THEN 0 ELSE f.seq - meta.seq,
     sink_jitter |-> Minus(f.dstTs, meta.prev_dstTs)]

\* What the report says of the packet; meta is what is known of its flow.
get_int_header_data(f, meta) ==
    [key |-> f.key, port |-> f.port,
     protocol |-> IF f.seq = 0 THEN "udp" ELSE "tcp",
     seqNum |-> IF f.seq = 0 THEN meta.seq + 1 ELSE f.seq,
     reordering |-> IF f.seq = 0 THEN 0 ELSE f.seq - meta.seq - 1,
     sink_jitter |-> Minus(f.dstTs, meta.prev_dstTs)]

\* When the packet entered the hop of index i; the sink is the last one.
Entered(f, i) == IF i < f.meta_cnt THEN f.metas[i + 1].ingress ELSE f.dstTs

\* Mutant: tmp_eg_timestamp stays the one of the first hop.
LeftBeforeFirst(f, i) == f.metas[1].egress

\* tmp_eg_timestamp: when the packet left the hop listed before index i.
LeftBefore(f, i) == f.metas[Max({i, 1})].egress

\* What the report says of the hop of index i and of the link before it;
\* previous is the last timestamp of that index.
get_int_node_data(f, i, previous) ==
    [hop_delay  |-> IF i < f.meta_cnt THEN Minus(f.metas[i + 1].egress, Entered(f, i)) ELSE 0,
     link_delay |-> IF i = 0 /\ f.meta_cnt > 0 THEN 0 ELSE Minus(LeftBefore(f, i), Entered(f, i)),
     hop_jitter |-> Minus(Entered(f, i), previous)]

\* Option -t cuts the two timestamps of the report.
Shown(ts, tstmp) == IF tstmp THEN ts % Cut ELSE ts

\* The report, with the memory of the flow and of the hop indices.
Report(f, meta, prev_timestamps, tstmp) ==
    [header |-> get_int_header_data(f, meta),
     origTs |-> Shown(f.metas[1].ingress, tstmp),
     dstTs  |-> Shown(f.dstTs, tstmp),
     delay  |-> Minus(f.dstTs, f.metas[1].ingress),
     node_meta |-> [i \in 0 .. f.meta_cnt |-> get_int_node_data(f, i, prev_timestamps[i])]]
=============================================================================
