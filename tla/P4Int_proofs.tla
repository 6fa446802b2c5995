---------------------------- MODULE P4Int_proofs ----------------------------
(***************************************************************************)
(* Theorems about P4Int: for every set of frames, all options and numbers  *)
(* of frames and failures, and all clocks that wrap, the differences the   *)
(* collector reports add up to what it remembers, and of the sampled       *)
(* reports none is lost uncounted.                                         *)
(***************************************************************************)
EXTENDS P4Int, NumberTheorems

Indices == 0 .. MAX_NODES - 1

Memory == [seq : Nat, prev_dstTs : Timestamps]

HeaderData ==
    [key : Keys, port : Ports, protocol : {"udp", "tcp"},
     seqNum : Nat, reordering : Int, sink_jitter : Timestamps]

NodeData == [hop_delay : Timestamps, link_delay : Timestamps, hop_jitter : Timestamps]

ReportType ==
    [header : HeaderData, origTs : Int, dstTs : Int, delay : Timestamps,
     node_meta : UNION {[0 .. c -> NodeData] : c \in Indices}]

-----------------------------------------------------------------------------
(* One report. *)

LEMMA Constants ==
    /\ Wrap \in Nat /\ Wrap > 1 /\ Cut \in Nat /\ Cut > 0 /\ Wrap % Cut = 0
    /\ MAX_NODES \in Nat /\ MAX_NODES > 0
    /\ 0 \in Timestamps /\ Timestamps \subseteq Int
BY TelemetryAssumption, CollectorAssumption DEF Timestamps

LEMMA MinusType ==
    ASSUME NEW a \in Int, NEW b \in Int
    PROVE  Minus(a, b) \in Timestamps
<1> DEFINE d == a - b
<1>1. d \in Int
    OBVIOUS
<1> HIDE DEF d
<1>2. d % Wrap \in 0 .. Wrap - 1
    BY <1>1, Constants, Division
<1> QED
    BY <1>2 DEF Minus, Timestamps, d

LEMMA LargerOf ==
    ASSUME NEW n \in Nat
    PROVE  Max({n, 1}) = IF n = 0 THEN 1 ELSE n
BY DEF Max

\* There is a record for every index below that of the sink, and one at least.
LEMMA FrameFields ==
    ASSUME NEW f \in Frames
    PROVE  /\ f.key \in Keys /\ f.port \in Ports /\ f.seq \in Nat /\ f.dstTs \in Timestamps
           /\ f.meta_cnt \in Indices
           /\ \A i \in 1 .. f.meta_cnt : f.metas[i].ingress \in Timestamps
                                         /\ f.metas[i].egress \in Timestamps
           /\ f.metas[1].ingress \in Timestamps /\ f.metas[1].egress \in Timestamps
<1>1. f \in FramesOf(Keys, Ports) /\ f.meta_cnt < MAX_NODES /\ Len(f.metas) = Max({f.meta_cnt, 1})
    BY CollectorAssumption
<1>2. /\ f.key \in Keys /\ f.port \in Ports /\ f.seq \in Nat /\ f.dstTs \in Timestamps
      /\ f.meta_cnt \in Nat /\ f.metas \in Seq([ingress : Timestamps, egress : Timestamps])
    BY <1>1 DEF FramesOf
<1>3. \A i \in 1 .. Len(f.metas) : f.metas[i] \in [ingress : Timestamps, egress : Timestamps]
  <2> DEFINE R == [ingress : Timestamps, egress : Timestamps]
             m == f.metas
  <2>1. m \in Seq(R)
    BY <1>2
  <2> HIDE DEF R, m
  <2>2. \A i \in 1 .. Len(m) : m[i] \in R
    BY <2>1
  <2> QED
    BY <2>2 DEF R, m
<1>4. 1 \in 1 .. Len(f.metas) /\ \A i \in 1 .. f.meta_cnt : i \in 1 .. Len(f.metas)
    BY <1>1, <1>2, LargerOf
<1>5. \A i \in 1 .. Len(f.metas) : f.metas[i].ingress \in Timestamps
                                  /\ f.metas[i].egress \in Timestamps
    BY <1>3
<1>6. f.meta_cnt \in Indices
    BY <1>1, <1>2, Constants DEF Indices
<1> QED
    BY <1>2, <1>4, <1>5, <1>6, Zenon

LEMMA EnteredType ==
    ASSUME NEW f \in Frames, NEW i \in 0 .. f.meta_cnt
    PROVE  /\ Entered(f, i) \in Timestamps
           /\ LeftBefore(f, i) \in Timestamps
           /\ i < f.meta_cnt => f.metas[i + 1].egress \in Timestamps
           /\ LeftBefore(f, i) = IF i = 0 THEN f.metas[1].egress ELSE f.metas[i].egress
<1>1. f.meta_cnt \in Nat /\ i \in Nat
    BY FrameFields, Constants DEF Indices
<1>2. i < f.meta_cnt => i + 1 \in 1 .. f.meta_cnt
    BY <1>1
<1>3. i # 0 => i \in 1 .. f.meta_cnt
    BY <1>1
<1>4. LeftBefore(f, i) = IF i = 0 THEN f.metas[1].egress ELSE f.metas[i].egress
    BY <1>1, LargerOf DEF LeftBefore
<1> QED
    BY <1>2, <1>3, <1>4, FrameFields DEF Entered

LEMMA NodeDataType ==
    ASSUME NEW f \in Frames, NEW i \in 0 .. f.meta_cnt, NEW previous \in Timestamps
    PROVE  get_int_node_data(f, i, previous) \in NodeData
<1> DEFINE d == get_int_node_data(f, i, previous)
<1>1. Entered(f, i) \in Int /\ LeftBefore(f, i) \in Int /\ previous \in Int
    BY EnteredType, Constants
<1>2. i < f.meta_cnt => Minus(f.metas[i + 1].egress, Entered(f, i)) \in Timestamps
  <2>1. i < f.meta_cnt => f.metas[i + 1].egress \in Int
    BY EnteredType, Constants
  <2> QED
    BY <1>1, <2>1, MinusType
<1>3. Minus(LeftBefore(f, i), Entered(f, i)) \in Timestamps
    BY <1>1, MinusType
<1>4. Minus(Entered(f, i), previous) \in Timestamps
    BY <1>1, MinusType
<1> QED
    BY <1>2, <1>3, <1>4, Constants DEF get_int_node_data, NodeData

LEMMA HeaderDataType ==
    ASSUME NEW f \in Frames, NEW meta \in Memory
    PROVE  /\ get_int_header_data(f, meta) \in HeaderData
           /\ get_int_header_data(f, meta).key = f.key
<1>1. meta.seq \in Nat /\ meta.prev_dstTs \in Int
    BY Constants DEF Memory
<1>2. f.key \in Keys /\ f.port \in Ports /\ f.seq \in Nat /\ f.dstTs \in Int
    BY FrameFields, Constants
<1>3. Minus(f.dstTs, meta.prev_dstTs) \in Timestamps
    BY <1>1, <1>2, MinusType
<1> QED
    BY <1>1, <1>2, <1>3 DEF get_int_header_data, HeaderData

LEMMA ShownIsInt ==
    ASSUME NEW ts \in Timestamps, NEW tstmp \in BOOLEAN
    PROVE  /\ Shown(ts, tstmp) \in Int
           /\ Shown(ts, tstmp) % Cut = ts % Cut
<1>1. ts \in Int /\ 0 \in Int
    BY Constants
<1>2. ts % Cut \in Int /\ (ts % Cut) % Cut = ts % Cut
    BY <1>1, Constants, Division, ModOfSum
<1> QED
    BY <1>1, <1>2 DEF Shown

LEMMA ReportHasType ==
    ASSUME NEW f \in Frames, NEW meta \in Memory,
           NEW prev \in [Indices -> Timestamps], NEW tstmp \in BOOLEAN
    PROVE  Report(f, meta, prev, tstmp) \in ReportType
<1> DEFINE r == Report(f, meta, prev, tstmp)
<1>1. f.meta_cnt \in Indices
    BY FrameFields
<1>2. \A i \in 0 .. f.meta_cnt : i \in Indices
    BY <1>1, Constants DEF Indices
<1>3. ASSUME NEW i \in 0 .. f.meta_cnt PROVE get_int_node_data(f, i, prev[i]) \in NodeData
    BY <1>2, NodeDataType
<1>4. r.node_meta \in [0 .. f.meta_cnt -> NodeData]
    BY <1>3 DEF Report
<1>5. r.node_meta \in UNION {[0 .. c -> NodeData] : c \in Indices}
    BY <1>1, <1>4
<1>6. r.header \in HeaderData
    BY HeaderDataType DEF Report
<1>7. r.origTs \in Int /\ r.dstTs \in Int
    BY FrameFields, ShownIsInt DEF Report
<1>8. r.delay \in Timestamps
    BY FrameFields, Constants, MinusType DEF Report
<1>9. r = [header |-> r.header, origTs |-> r.origTs, dstTs |-> r.dstTs, delay |-> r.delay,
           node_meta |-> r.node_meta]
    BY DEF Report
<1> HIDE DEF r
<1>10. r \in ReportType
    BY <1>5, <1>6, <1>7, <1>8, <1>9 DEF ReportType
<1> QED
    BY <1>10 DEF r

\* Two differences from the same timestamp.
LEMMA MinusMinus ==
    ASSUME NEW a \in Int, NEW b \in Int, NEW e \in Int
    PROVE  /\ (Minus(a, e) - Minus(b, e)) % Wrap = (a - b) % Wrap
           /\ Minus(a, e) % Wrap = (a - e) % Wrap
           /\ Minus(a, a) = 0
<1>1. Wrap \in Nat /\ Wrap > 0
    BY Constants
<1> QED
    BY <1>1, ModDifferences, ZenonT(60) DEF Minus

NodesOf(f, prev) == [i \in 0 .. f.meta_cnt |-> get_int_node_data(f, i, prev[i])]

\* The hops and the links of a path lie end to end.
LEMMA HopsAddUp ==
    ASSUME NEW f \in Frames, NEW prev \in [Indices -> Timestamps], f.meta_cnt # 0
    PROVE  (SumFunction([i \in 0 .. f.meta_cnt |-> NodesOf(f, prev)[i].hop_delay])
             - SumFunction([i \in 0 .. f.meta_cnt |-> NodesOf(f, prev)[i].link_delay])) % Wrap
                 = Minus(f.dstTs, f.metas[1].ingress)
<1> USE DEF NodesOf
<1> DEFINE c == f.meta_cnt
           data == NodesOf(f, prev)
           plus == [i \in 0 .. c |-> data[i].hop_delay]
           minus == [i \in 0 .. c |-> data[i].link_delay]
           to == [i \in 0 .. c |-> IF i < c THEN f.metas[i + 1].egress ELSE f.dstTs]
           from == f.metas[1].ingress
<1>1. c \in Nat /\ c > 0 /\ \A i \in 0 .. c : i \in Indices
    BY FrameFields, Constants DEF Indices
<1>2. /\ from \in Int /\ f.dstTs \in Int
      /\ \A i \in 1 .. c : f.metas[i].ingress \in Int /\ f.metas[i].egress \in Int
    BY FrameFields, Constants
<1>3. \A i \in 0 .. c : data[i] \in NodeData
    BY <1>1, NodeDataType
<1>4. plus \in [0 .. c -> Int] /\ minus \in [0 .. c -> Int]
    BY <1>3, Constants DEF NodeData
<1>5. to \in [0 .. c -> Int]
    BY <1>1, <1>2
<1>6. (plus[0] - minus[0]) % Wrap = (to[0] - from) % Wrap
  <2>1. 0 \in 0 .. c /\ 0 < c /\ 1 \in 1 .. c
    BY <1>1
  <2>2. plus[0] = Minus(f.metas[1].egress, from) /\ minus[0] = 0 /\ to[0] = f.metas[1].egress
    BY <1>1, <2>1 DEF get_int_node_data, Entered
  <2>3. plus[0] \in Int
    BY <1>4, <2>1
  <2> HIDE DEF plus, minus, to, from
  <2>4. plus[0] - minus[0] = plus[0]
    BY <2>2, <2>3
  <2>5. Minus(f.metas[1].egress, from) % Wrap = (f.metas[1].egress - from) % Wrap
    BY <1>2, <2>1, MinusMinus
  <2> QED
    BY <2>2, <2>4, <2>5, Zenon
<1>7. ASSUME NEW i \in 0 .. c - 1
      PROVE  (plus[i + 1] - minus[i + 1]) % Wrap = (to[i + 1] - to[i]) % Wrap
  <2> DEFINE j == i + 1
             e == Entered(f, j)
  <2>1. j \in 0 .. c /\ i \in 0 .. c /\ j \in 1 .. c /\ i < c /\ j # 0
    BY <1>1
  <2>2. to[i] = f.metas[j].egress /\ to[i] \in Int /\ to[j] \in Int
      BY <1>5, <2>1
  <2>3. e \in Int /\ LeftBefore(f, j) = f.metas[j].egress
    BY <2>1, EnteredType, Constants
  <2>4. minus[j] = Minus(to[i], e)
    BY <2>1, <2>2, <2>3 DEF get_int_node_data
  <2>5. plus[j] = Minus(to[j], e)
    <3>1. CASE j < c
      BY <2>1, <3>1 DEF get_int_node_data
    <3>2. CASE ~(j < c)
      <4>1. plus[j] = 0 /\ e = f.dstTs /\ to[j] = f.dstTs
        BY <2>1, <3>2 DEF get_int_node_data, Entered
      <4>2. Minus(f.dstTs, f.dstTs) = 0
        BY <1>2, MinusMinus
      <4> QED
        BY <4>1, <4>2
    <3> QED
      BY <3>1, <3>2
  <2> HIDE DEF e, plus, minus, to
  <2>6. (Minus(to[j], e) - Minus(to[i], e)) % Wrap = (to[j] - to[i]) % Wrap
    BY <2>2, <2>3, MinusMinus
  <2> QED
    BY <2>4, <2>5, <2>6, Zenon
<1>8. to[c] = f.dstTs
    BY <1>1
<1> HIDE DEF plus, minus, to, from, c
<1>9. Differences(Wrap, c, from, plus, minus, to)
    BY <1>6, <1>7, Zenon DEF Differences
<1>10. (SumFunction(plus) - SumFunction(minus)) % Wrap = (to[c] - from) % Wrap
  <2>1. Wrap \in Nat /\ Wrap > 0
    BY Constants
  <2> QED
    BY <1>1, <1>2, <1>4, <1>5, <1>9, <2>1, Telescope, ZenonT(60)
<1>11. (SumFunction(plus) - SumFunction(minus)) % Wrap = Minus(f.dstTs, f.metas[1].ingress)
    BY <1>8, <1>10, Zenon DEF Minus, from
<1> QED
    BY <1>11 DEF plus, minus, c

LEMMA ReportAddsUp ==
    ASSUME NEW f \in Frames, NEW meta \in Memory,
           NEW prev \in [Indices -> Timestamps], NEW tstmp \in BOOLEAN
    PROVE  DelayAddsUp(Report(f, meta, prev, tstmp))
<1> DEFINE r == Report(f, meta, prev, tstmp)
           hops == DOMAIN r.node_meta
           in == f.metas[1].ingress
<1>1. hops = 0 .. f.meta_cnt /\ f.meta_cnt \in Nat
    BY FrameFields, Constants DEF Report, Indices
<1>2. ASSUME Cardinality(hops) > 1
      PROVE  r.delay = (SumFunction([i \in hops |-> r.node_meta[i].hop_delay])
                         - SumFunction([i \in hops |-> r.node_meta[i].link_delay])) % Wrap
  <2>1. f.meta_cnt # 0
    <3> DEFINE z == 0
    <3>1. z \in Int /\ ~(z > z) /\ z - z + 1 = 1
      OBVIOUS
    <3> HIDE DEF z
    <3>2. Cardinality(z .. z) = 1
      BY <3>1, FS_Interval, Zenon
    <3>3. ~(1 > 1)
      OBVIOUS
    <3> QED
      BY <1>1, <1>2, <3>2, <3>3, Zenon DEF z
  <2>2. r.delay = Minus(f.dstTs, in)
    BY DEF Report
  <2>3. r.node_meta = NodesOf(f, prev)
    BY DEF Report, NodesOf
  <2> HIDE DEF r
  <2> QED
    BY <1>1, <2>1, <2>2, <2>3, HopsAddUp
<1>3. (r.origTs + r.delay) % Cut = r.dstTs % Cut
  <2> DEFINE o == r.origTs
             d == f.dstTs - in
  <2>1. in \in Timestamps /\ f.dstTs \in Timestamps
    BY FrameFields
  <2>2. o \in Int /\ o % Cut = in % Cut /\ r.dstTs % Cut = f.dstTs % Cut
    BY <2>1, ShownIsInt DEF Report
  <2>3. in \in Int /\ d \in Int /\ in + d = f.dstTs
    <3>1. in \in Int /\ f.dstTs \in Int
      BY <2>1, Constants
    <3> QED
      BY <3>1
  <2>4. r.delay = d % Wrap
    BY DEF Report, Minus
  <2> HIDE DEF r, o, d, in
  <2>5. Wrap \in Nat /\ Wrap > 0 /\ Cut \in Nat /\ Cut > 0 /\ Wrap % Cut = 0
    BY Constants
  <2>6. (o + (d % Wrap)) % Cut = (in + d) % Cut
    BY <2>2, <2>3, <2>5, ModTwice, ZenonT(60)
  <2> QED
    BY <2>2, <2>3, <2>4, <2>6, Zenon DEF o
<1> QED
    BY <1>2, <1>3, Zenon DEF DelayAddsUp

-----------------------------------------------------------------------------
(* The memory of the collector and the reports so far. *)

Entries == [report : ReportType, outcome : Outcomes]

Typed == processed \in Seq(Entries)

IInv ==
    /\ TypeOK
    /\ Typed
    /\ GapsAddUp
    /\ JittersAddUp
    /\ DelaysAddUp
    /\ SampledOffered

LEMMA ReportsAre ==
    ASSUME Typed
    PROVE  /\ Len(processed) \in Nat
           /\ DOMAIN processed = 1 .. Len(processed) /\ DOMAIN Reports = 1 .. Len(processed)
           /\ IsFiniteSet(1 .. Len(processed))
           /\ \A n \in 1 .. Len(processed) :
                /\ Reports[n] = processed[n].report
                /\ Reports[n] \in ReportType
                /\ processed[n].outcome \in Outcomes
<1>1. Len(processed) \in Nat /\ DOMAIN processed = 1 .. Len(processed)
    BY DEF Typed
<1>2. ASSUME NEW n \in 1 .. Len(processed)
      PROVE  processed[n] \in Entries
  <2> HIDE DEF Entries
  <2> QED
    BY <1>2 DEF Typed
<1>3. DOMAIN Reports = 1 .. Len(processed)
      /\ \A n \in 1 .. Len(processed) : Reports[n] = processed[n].report
    BY <1>1 DEF Reports
<1>4. IsFiniteSet(1 .. Len(processed))
    BY <1>1, FS_Interval
<1>5. \A n \in 1 .. Len(processed) : /\ processed[n].report \in ReportType
                                     /\ processed[n].outcome \in Outcomes
    BY <1>2 DEF Entries
<1> QED
    BY <1>1, <1>3, <1>4, <1>5

LEMMA ReportFields ==
    ASSUME NEW r \in ReportType
    PROVE  /\ r.header.key \in Keys
           /\ r.header.reordering \in Int
           /\ r.header.sink_jitter \in Int
           /\ r.delay \in Timestamps
           /\ \A i \in DOMAIN r.node_meta : r.node_meta[i].hop_jitter \in Int
<1>1. r.header \in HeaderData /\ r.delay \in Timestamps
    BY DEF ReportType
<1>2. PICK c \in Indices : r.node_meta \in [0 .. c -> NodeData]
    BY DEF ReportType
<1>3. \A i \in DOMAIN r.node_meta : r.node_meta[i] \in NodeData
    BY <1>2
<1>4. \A i \in DOMAIN r.node_meta : r.node_meta[i].hop_jitter \in Timestamps
    BY <1>3 DEF NodeData
<1> QED
    BY <1>1, <1>4, Constants DEF HeaderData

\* The report of a frame.
LEMMA ThisReport ==
    ASSUME TypeOK, NEW f \in Frames
    PROVE  /\ flow_map[f.key] \in Memory /\ opt.tstmp \in BOOLEAN
           /\ flow_map[f.key].seq \in Nat /\ flow_map[f.key].prev_dstTs \in Int
           /\ prev_timestamps \in [Indices -> Timestamps]
           /\ ReportOf(f) \in ReportType
           /\ DelayAddsUp(ReportOf(f))
           /\ ReportOf(f).header = get_int_header_data(f, flow_map[f.key])
           /\ ReportOf(f).node_meta =
                [i \in 0 .. f.meta_cnt |-> get_int_node_data(f, i, prev_timestamps[i])]
<1>1. f.key \in Keys
    BY FrameFields
<1>2. flow_map[f.key] \in Memory
    BY <1>1 DEF TypeOK, Memory
<1>3. opt.tstmp \in BOOLEAN
    BY OptionAssumption DEF TypeOK
<1>4. prev_timestamps \in [Indices -> Timestamps]
    BY DEF TypeOK, Indices
<1>5. flow_map[f.key].seq \in Nat /\ flow_map[f.key].prev_dstTs \in Int
    BY <1>2, Constants DEF Memory
<1>6. ReportOf(f) \in ReportType /\ DelayAddsUp(ReportOf(f))
    BY <1>2, <1>3, <1>4, ReportHasType, ReportAddsUp DEF ReportOf
<1> QED
    BY <1>2, <1>3, <1>4, <1>5, <1>6 DEF ReportOf, Report

\* Processing a frame adds its report behind the others.
LEMMA OneMoreReport ==
    ASSUME TypeOK, Typed, NEW f \in Frames, NEW outcome \in Outcomes,
           process_packet(f, outcome)
    PROVE  LET x == Len(processed) + 1
           IN  /\ Typed'
               /\ Len(processed') = x
               /\ DOMAIN Reports' = (DOMAIN Reports) \cup {x} /\ x \notin DOMAIN Reports
               /\ DOMAIN processed' = (DOMAIN processed) \cup {x} /\ x \notin DOMAIN processed
               /\ \A n \in DOMAIN Reports : Reports'[n] = Reports[n]
               /\ \A n \in DOMAIN processed : processed'[n] = processed[n]
               /\ Reports'[x] = ReportOf(f)
               /\ processed'[x].outcome = outcome
<1> DEFINE entry == [report |-> ReportOf(f), outcome |-> outcome]
           x == Len(processed) + 1
<1>1. entry \in Entries
    BY ThisReport DEF Entries
<1>2. processed' = Append(processed, entry)
    BY DEF process_packet
<1>3. entry.report = ReportOf(f) /\ entry.outcome = outcome
    OBVIOUS
<1> HIDE DEF entry
<1>4. processed' \in Seq(Entries)
  <2> HIDE DEF Entries
  <2> QED
    BY <1>1, <1>2 DEF Typed
<1>5. /\ Len(processed) \in Nat /\ Len(processed') = x
      /\ DOMAIN processed = 1 .. Len(processed) /\ DOMAIN processed' = 1 .. x
      /\ \A n \in 1 .. Len(processed) : processed'[n] = processed[n]
      /\ processed'[x] = entry
  <2> HIDE DEF Entries
  <2> QED
    BY <1>1, <1>2 DEF Typed
<1>6. 1 .. x = (1 .. Len(processed)) \cup {x} /\ x \notin 1 .. Len(processed)
    BY <1>5
<1>7. Reports = [n \in DOMAIN processed |-> processed[n].report]
      /\ Reports' = [n \in DOMAIN processed' |-> processed'[n].report]
    BY DEF Reports
<1> HIDE DEF x
<1>8. Typed'
    BY <1>4 DEF Typed
<1> QED
    BY <1>3, <1>5, <1>6, <1>7, <1>8, Zenon DEF x

LEMMA ReportsOfSet ==
    ASSUME Typed, NEW k
    PROVE  /\ ReportsOf(k) \subseteq DOMAIN Reports
           /\ IsFiniteSet(ReportsOf(k))
           /\ \A n \in ReportsOf(k) :
                Reports[n].header.reordering \in Int /\ Reports[n].header.sink_jitter \in Int
<1>1. ReportsOf(k) \subseteq DOMAIN Reports
    BY DEF ReportsOf
<1>2. IsFiniteSet(ReportsOf(k))
    BY <1>1, ReportsAre, FS_Subset
<1>3. \A n \in DOMAIN Reports :
        Reports[n].header.reordering \in Int /\ Reports[n].header.sink_jitter \in Int
    BY ReportsAre, ReportFields
<1> QED
    BY <1>1, <1>2, <1>3

LEMMA ReportsOnSet ==
    ASSUME Typed, NEW i
    PROVE  /\ ReportsOn(i) \subseteq DOMAIN Reports
           /\ IsFiniteSet(ReportsOn(i))
           /\ \A n \in ReportsOn(i) : Reports[n].node_meta[i].hop_jitter \in Int
<1>1. ReportsOn(i) \subseteq DOMAIN Reports
    BY DEF ReportsOn
<1>2. IsFiniteSet(ReportsOn(i))
    BY <1>1, ReportsAre, FS_Subset
<1>3. \A n \in ReportsOn(i) : Reports[n] \in ReportType /\ i \in DOMAIN Reports[n].node_meta
    BY ReportsAre DEF ReportsOn
<1>4. \A n \in ReportsOn(i) : Reports[n].node_meta[i].hop_jitter \in Int
    BY <1>3, ReportFields
<1> QED
    BY <1>1, <1>2, <1>4

\* The new report joins those of its key and those on each of its hops.
LEMMA SetsGrow ==
    ASSUME TypeOK, Typed, NEW f \in Frames, NEW outcome \in Outcomes,
           process_packet(f, outcome)
    PROVE  LET x == Len(processed) + 1
           IN  /\ ReportsOf(f.key)' = ReportsOf(f.key) \cup {x}
               /\ \A k : k # f.key => ReportsOf(k)' = ReportsOf(k)
               /\ \A i \in 0 .. f.meta_cnt : ReportsOn(i)' = ReportsOn(i) \cup {x}
               /\ \A i : i \notin 0 .. f.meta_cnt => ReportsOn(i)' = ReportsOn(i)
<1> DEFINE x == Len(processed) + 1
<1>1. /\ DOMAIN Reports' = (DOMAIN Reports) \cup {x}
      /\ \A n \in DOMAIN Reports : Reports'[n] = Reports[n]
      /\ Reports'[x] = ReportOf(f) /\ x \notin DOMAIN Reports
    BY OneMoreReport
<1> HIDE DEF x
<1>2. ReportOf(f).header.key = f.key
    BY ThisReport, HeaderDataType
<1>3. DOMAIN ReportOf(f).node_meta = 0 .. f.meta_cnt
    BY ThisReport
<1>4. /\ \A k : ReportsOf(k) = {n \in DOMAIN Reports : Reports[n].header.key = k}
      /\ \A k : ReportsOf(k)' = {n \in DOMAIN Reports' : Reports'[n].header.key = k}
      /\ \A i : ReportsOn(i) = {n \in DOMAIN Reports : i \in DOMAIN Reports[n].node_meta}
      /\ \A i : ReportsOn(i)' = {n \in DOMAIN Reports' : i \in DOMAIN Reports'[n].node_meta}
    BY DEF ReportsOf, ReportsOn
<1>5. ReportsOf(f.key)' = ReportsOf(f.key) \cup {x}
    BY <1>1, <1>2, <1>4
<1>6. ASSUME NEW k, k # f.key PROVE ReportsOf(k)' = ReportsOf(k)
    BY <1>1, <1>2, <1>4, <1>6
<1>7. ASSUME NEW i \in 0 .. f.meta_cnt PROVE ReportsOn(i)' = ReportsOn(i) \cup {x}
    BY <1>1, <1>3, <1>4, <1>7
<1>8. ASSUME NEW i, i \notin 0 .. f.meta_cnt PROVE ReportsOn(i)' = ReportsOn(i)
    BY <1>1, <1>3, <1>4, <1>8
<1> QED
    BY <1>5, <1>6, <1>7, <1>8 DEF x

LEMMA GapsStep ==
    ASSUME TypeOK, Typed, GapsAddUp, NEW f \in Frames, NEW outcome \in Outcomes,
           process_packet(f, outcome)
    PROVE  GapsAddUp'
<1> SUFFICES ASSUME NEW k \in Keys
             PROVE  SumFunction([n \in ReportsOf(k)' |-> Reports'[n].header.reordering + 1])
                        = flow_map'[k].seq
    BY DEF GapsAddUp
<1> DEFINE old == [n \in ReportsOf(k) |-> Reports[n].header.reordering + 1]
           new == [n \in ReportsOf(k)' |-> Reports'[n].header.reordering + 1]
           x == Len(processed) + 1
           h == ReportOf(f).header
<1>1. SumFunction(old) = flow_map[k].seq
    BY DEF GapsAddUp
<1>2. /\ ReportsOf(k) \subseteq DOMAIN Reports /\ IsFiniteSet(ReportsOf(k))
      /\ \A n \in ReportsOf(k) : Reports[n].header.reordering \in Int
    BY ReportsOfSet
<1>3. /\ x \notin DOMAIN Reports /\ Reports'[x] = ReportOf(f)
      /\ \A n \in DOMAIN Reports : Reports'[n] = Reports[n]
    BY OneMoreReport
<1>4. flow_map' = [flow_map EXCEPT ![f.key] = [seq |-> h.seqNum, prev_dstTs |-> f.dstTs]]
    BY DEF process_packet
<1>5. DOMAIN flow_map = Keys /\ f.key \in Keys
    BY FrameFields DEF TypeOK
<1>6. CASE k = f.key
  <2>1. ReportsOf(k)' = ReportsOf(k) \cup {x}
    BY <1>6, SetsGrow
  <2>2. h.seqNum = flow_map[k].seq + (h.reordering + 1) /\ h.reordering + 1 \in Int
    <3>1. flow_map[k].seq \in Nat /\ f.seq \in Nat /\ h = get_int_header_data(f, flow_map[k])
      BY <1>6, ThisReport, FrameFields
    <3> HIDE DEF h
    <3> QED
      BY <3>1 DEF get_int_header_data
  <2>3. flow_map'[k].seq = h.seqNum
    BY <1>4, <1>5, <1>6
  <2>4. new[x] = h.reordering + 1
    BY <1>3, <2>1
  <2> HIDE DEF h
  <2>5. OneMore(new, old, x)
    <3>1. old \in [ReportsOf(k) -> Int] /\ DOMAIN old = ReportsOf(k)
      BY <1>2
    <3>2. \A n \in ReportsOf(k) : new[n] = old[n]
      BY <1>2, <1>3, <2>1
    <3>3. new \in [ReportsOf(k) \cup {x} -> Int]
      <4>1. DOMAIN new = ReportsOf(k) \cup {x} /\ new = [n \in DOMAIN new |-> new[n]]
        BY <2>1
      <4> HIDE DEF new, x
      <4>2. \A n \in ReportsOf(k) \cup {x} : new[n] \in Int
        BY <3>1, <3>2, <2>2, <2>4
      <4> QED
        BY <4>1, <4>2
    <3> HIDE DEF new, old, x
    <3> QED
      BY <1>2, <1>3, <3>1, <3>2, <3>3 DEF OneMore
  <2> HIDE DEF new, old, x
  <2>6. SumFunction(new) = SumFunction(old) + new[x]
    BY <2>5, SumOneMore, Zenon
  <2>7. SumFunction(new) = flow_map'[k].seq
    BY <1>1, <2>2, <2>3, <2>4, <2>6
  <2> QED
    BY <2>7 DEF new
<1>7. CASE k # f.key
  <2>1. ReportsOf(k)' = ReportsOf(k)
    BY <1>7, SetsGrow
  <2>2. flow_map'[k] = flow_map[k]
    BY <1>4, <1>5, <1>7
  <2>3. new = old
    BY <1>2, <1>3, <2>1
  <2> QED
    BY <1>1, <2>2, <2>3
<1> QED
    BY <1>6, <1>7

\* The two halves of JittersAddUp.
KeyJitters(k) == [n \in ReportsOf(k) |-> Reports[n].header.sink_jitter]
HopJitters(i) == [n \in ReportsOn(i) |-> Reports[n].node_meta[i].hop_jitter]

LEMMA KeyJittersStep ==
    ASSUME TypeOK, Typed, NEW f \in Frames, NEW outcome \in Outcomes,
           process_packet(f, outcome), NEW k \in Keys,
           SumFunction(KeyJitters(k)) % Wrap = flow_map[k].prev_dstTs
    PROVE  SumFunction(KeyJitters(k)') % Wrap = flow_map'[k].prev_dstTs
<1> DEFINE old == KeyJitters(k)
           new == KeyJitters(k)'
           x == Len(processed) + 1
           h == ReportOf(f).header
<1>1. /\ ReportsOf(k) \subseteq DOMAIN Reports /\ IsFiniteSet(ReportsOf(k))
      /\ \A n \in ReportsOf(k) : Reports[n].header.sink_jitter \in Int
    BY ReportsOfSet
<1>2. /\ x \notin DOMAIN Reports /\ Reports'[x] = ReportOf(f)
      /\ \A n \in DOMAIN Reports : Reports'[n] = Reports[n]
    BY OneMoreReport
<1>3. flow_map' = [flow_map EXCEPT ![f.key] = [seq |-> h.seqNum, prev_dstTs |-> f.dstTs]]
    BY DEF process_packet
<1>4. DOMAIN flow_map = Keys /\ f.key \in Keys
    BY FrameFields DEF TypeOK
<1>5. CASE k = f.key
  <2>1. ReportsOf(k)' = ReportsOf(k) \cup {x}
    BY <1>5, SetsGrow
  <2>2. h.sink_jitter = (f.dstTs - flow_map[k].prev_dstTs) % Wrap /\ h.sink_jitter \in Int
    <3>1. h = get_int_header_data(f, flow_map[k]) /\ ReportOf(f) \in ReportType
      BY <1>5, ThisReport
    <3> QED
      BY <3>1, ReportFields DEF get_int_header_data, Minus
  <2>3. flow_map'[k].prev_dstTs = f.dstTs
    BY <1>3, <1>4, <1>5
  <2>4. new[x] = h.sink_jitter
    BY <1>2, <2>1 DEF KeyJitters
  <2> HIDE DEF h
  <2>5. OneMore(new, old, x)
    <3>1. old \in [ReportsOf(k) -> Int] /\ DOMAIN old = ReportsOf(k)
      BY <1>1 DEF KeyJitters
    <3>2. \A n \in ReportsOf(k) : new[n] = old[n]
      BY <1>1, <1>2, <2>1 DEF KeyJitters
    <3>3. new \in [ReportsOf(k) \cup {x} -> Int]
      <4>1. DOMAIN new = ReportsOf(k) \cup {x} /\ new = [n \in DOMAIN new |-> new[n]]
        BY <2>1 DEF KeyJitters
      <4> HIDE DEF new, x
      <4>2. \A n \in ReportsOf(k) \cup {x} : new[n] \in Int
        BY <3>1, <3>2, <2>2, <2>4
      <4> QED
        BY <4>1, <4>2
    <3> HIDE DEF new, old, x
    <3> QED
      BY <1>1, <1>2, <3>1, <3>2, <3>3 DEF OneMore
  <2>6. new[x] = (f.dstTs - (SumFunction(old) % Wrap)) % Wrap
    BY <2>2, <2>4
  <2>7. Wrap \in Nat /\ Wrap > 0 /\ f.dstTs \in 0 .. Wrap - 1
    BY Constants, FrameFields DEF Timestamps
  <2> HIDE DEF new, old, x
  <2>8. SumFunction(new) % Wrap = f.dstTs
    BY <2>5, <2>6, <2>7, SumCatchesUp, Zenon
  <2> QED
    BY <2>3, <2>8 DEF new
<1>6. CASE k # f.key
  <2>1. ReportsOf(k)' = ReportsOf(k)
    BY <1>6, SetsGrow
  <2>2. flow_map'[k] = flow_map[k]
    BY <1>3, <1>4, <1>6
  <2>3. new = old
    BY <1>1, <1>2, <2>1 DEF KeyJitters
  <2> QED
    BY <2>2, <2>3
<1> QED
    BY <1>5, <1>6

LEMMA HopJittersStep ==
    ASSUME TypeOK, Typed, NEW f \in Frames, NEW outcome \in Outcomes,
           process_packet(f, outcome), NEW i \in Indices,
           SumFunction(HopJitters(i)) % Wrap = prev_timestamps[i]
    PROVE  SumFunction(HopJitters(i)') % Wrap = prev_timestamps'[i]
<1> DEFINE old == HopJitters(i)
           new == HopJitters(i)'
           x == Len(processed) + 1
           jitter == ReportOf(f).node_meta[i].hop_jitter
<1>1. /\ ReportsOn(i) \subseteq DOMAIN Reports /\ IsFiniteSet(ReportsOn(i))
      /\ \A n \in ReportsOn(i) : Reports[n].node_meta[i].hop_jitter \in Int
    BY ReportsOnSet
<1>2. /\ x \notin DOMAIN Reports /\ Reports'[x] = ReportOf(f)
      /\ \A n \in DOMAIN Reports : Reports'[n] = Reports[n]
    BY OneMoreReport
<1>3. prev_timestamps' = [j \in DOMAIN prev_timestamps |->
                            IF j <= f.meta_cnt THEN Entered(f, j) ELSE prev_timestamps[j]]
    BY DEF process_packet
<1>4. DOMAIN prev_timestamps = Indices /\ i \in Nat /\ f.meta_cnt \in Nat
    BY FrameFields, Constants DEF TypeOK, Indices
<1>5. CASE i <= f.meta_cnt
  <2>0. i \in 0 .. f.meta_cnt
    BY <1>4, <1>5
  <2>1. ReportsOn(i)' = ReportsOn(i) \cup {x}
    BY <2>0, SetsGrow
  <2>2. jitter = (Entered(f, i) - prev_timestamps[i]) % Wrap /\ jitter \in Int
    <3>1. /\ ReportOf(f).node_meta =
               [j \in 0 .. f.meta_cnt |-> get_int_node_data(f, j, prev_timestamps[j])]
          /\ ReportOf(f) \in ReportType
      BY ThisReport
    <3> DEFINE r == ReportOf(f)
    <3>2. jitter = get_int_node_data(f, i, prev_timestamps[i]).hop_jitter
      BY <2>0, <3>1, Zenon
    <3>3. jitter = Minus(Entered(f, i), prev_timestamps[i])
      BY <3>2 DEF get_int_node_data
    <3>4. i \in DOMAIN r.node_meta
      BY <2>0, <3>1
    <3> HIDE DEF r
    <3>5. r.node_meta[i].hop_jitter \in Int
      BY <3>1, <3>4, ReportFields, Zenon DEF r
    <3> QED
      BY <3>3, <3>5, Zenon DEF Minus, r
  <2>3. prev_timestamps'[i] = Entered(f, i)
    BY <1>3, <1>4, <1>5
  <2>4. new[x] = jitter
    BY <1>2, <2>1 DEF HopJitters
  <2> HIDE DEF jitter
  <2>5. OneMore(new, old, x)
    <3>1. old \in [ReportsOn(i) -> Int] /\ DOMAIN old = ReportsOn(i)
      BY <1>1 DEF HopJitters
    <3>2. \A n \in ReportsOn(i) : new[n] = old[n]
      BY <1>1, <1>2, <2>1 DEF HopJitters
    <3>3. new \in [ReportsOn(i) \cup {x} -> Int]
      <4>1. DOMAIN new = ReportsOn(i) \cup {x} /\ new = [n \in DOMAIN new |-> new[n]]
        BY <2>1 DEF HopJitters
      <4> HIDE DEF new, x
      <4>2. \A n \in ReportsOn(i) \cup {x} : new[n] \in Int
        BY <3>1, <3>2, <2>2, <2>4
      <4> QED
        BY <4>1, <4>2
    <3> HIDE DEF new, old, x
    <3> QED
      BY <1>1, <1>2, <3>1, <3>2, <3>3 DEF OneMore
  <2>6. new[x] = (Entered(f, i) - (SumFunction(old) % Wrap)) % Wrap
    BY <2>2, <2>4
  <2>7. Wrap \in Nat /\ Wrap > 0 /\ Entered(f, i) \in 0 .. Wrap - 1
    BY <2>0, Constants, EnteredType DEF Timestamps
  <2> HIDE DEF new, old, x
  <2>8. SumFunction(new) % Wrap = Entered(f, i)
    BY <2>5, <2>6, <2>7, SumCatchesUp, Zenon
  <2> QED
    BY <2>3, <2>8 DEF new
<1>6. CASE ~(i <= f.meta_cnt)
  <2>1. ReportsOn(i)' = ReportsOn(i)
    BY <1>4, <1>6, SetsGrow
  <2>2. prev_timestamps'[i] = prev_timestamps[i]
    BY <1>3, <1>4, <1>6
  <2>3. new = old
    BY <1>1, <1>2, <2>1 DEF HopJitters
  <2> QED
    BY <2>2, <2>3
<1> QED
    BY <1>5, <1>6

LEMMA JittersStep ==
    ASSUME TypeOK, Typed, JittersAddUp, NEW f \in Frames, NEW outcome \in Outcomes,
           process_packet(f, outcome)
    PROVE  JittersAddUp'
<1>1. ASSUME NEW k \in Keys
      PROVE  SumFunction(KeyJitters(k)') % Wrap = flow_map'[k].prev_dstTs
  <2>1. SumFunction(KeyJitters(k)) % Wrap = flow_map[k].prev_dstTs
    BY DEF JittersAddUp, KeyJitters
  <2> QED
    BY <2>1, KeyJittersStep
<1>2. ASSUME NEW i \in Indices
      PROVE  SumFunction(HopJitters(i)') % Wrap = prev_timestamps'[i]
  <2>1. SumFunction(HopJitters(i)) % Wrap = prev_timestamps[i]
    BY DEF JittersAddUp, HopJitters, Indices
  <2> QED
    BY <2>1, HopJittersStep
<1> QED
    BY <1>1, <1>2 DEF JittersAddUp, KeyJitters, HopJitters, Indices

LEMMA DelaysStep ==
    ASSUME TypeOK, Typed, DelaysAddUp, NEW f \in Frames, NEW outcome \in Outcomes,
           process_packet(f, outcome)
    PROVE  DelaysAddUp'
<1> DEFINE x == Len(processed) + 1
<1>1. /\ DOMAIN Reports' = (DOMAIN Reports) \cup {x}
      /\ \A n \in DOMAIN Reports : Reports'[n] = Reports[n]
      /\ Reports'[x] = ReportOf(f)
    BY OneMoreReport
<1>2. DelayAddsUp(ReportOf(f))
    BY ThisReport
<1>3. \A n \in DOMAIN Reports : DelayAddsUp(Reports[n])
    BY DEF DelaysAddUp
<1> HIDE DEF x
<1>4. \A n \in DOMAIN Reports' : DelayAddsUp(Reports'[n])
    BY <1>1, <1>2, <1>3, Zenon
<1> QED
    BY <1>4, Zenon DEF DelaysAddUp

-----------------------------------------------------------------------------
(* Which reports are offered. *)

Sampling == opt.hostValid /\ opt.smpl_rate > 0

\* One of r numbers in a row is a multiple of r.
LEMMA OneInR ==
    ASSUME NEW r \in Nat, r > 0, NEW p \in Nat
    PROVE  (p + 1 + r - 1) \div r = ((p + r - 1) \div r) + (IF p % r = 0 THEN 1 ELSE 0)
<1> DEFINE q == p \div r
           s == p % r
           q1 == q + 1
           s1 == s - 1
           r1 == r - 1
<1>1. q \in Int /\ s \in 0 .. r - 1 /\ p = r * q + s
    BY Division
<1>2. p + 1 + r - 1 = r * q1 + s
    BY <1>1
<1>3. (r * q1 + s) \div r = q1
  <2>1. q1 \in Int
    BY <1>1
  <2> HIDE DEF q1, s
  <2> QED
    BY <1>1, <2>1, Quotient
<1>4. CASE s = 0
  <2>1. p + r - 1 = r * q + r1 /\ r1 \in 0 .. r - 1
    BY <1>1, <1>4
  <2>2. (r * q + r1) \div r = q
    <3> HIDE DEF q, r1
    <3> QED
      BY <1>1, <2>1, Quotient
  <2> QED
    BY <1>1, <1>2, <1>3, <1>4, <2>1, <2>2
<1>5. CASE s # 0
  <2>1. p + r - 1 = r * q1 + s1 /\ s1 \in 0 .. r - 1 /\ q1 \in Int
    BY <1>1, <1>5
  <2>2. (r * q1 + s1) \div r = q1
    <3> HIDE DEF q1, s1
    <3> QED
      BY <2>1, Quotient
  <2> QED
    BY <1>1, <1>2, <1>3, <1>5, <2>1, <2>2
<1> QED
    BY <1>4, <1>5

LEMMA OutcomeSets ==
    ASSUME Typed, NEW o
    PROVE  IsFiniteSet(Outcome(o)) /\ Cardinality(Outcome(o)) \in Nat
                                   /\ Outcome(o) \subseteq DOMAIN processed
<1>1. Outcome(o) \subseteq DOMAIN processed
    BY DEF Outcome
<1>2. IsFiniteSet(Outcome(o))
    BY <1>1, ReportsAre, FS_Subset
<1> QED
    BY <1>1, <1>2, FS_CardinalityType

\* The report of a frame is counted under its outcome, and nowhere else.
LEMMA OutcomesGrow ==
    ASSUME TypeOK, Typed, NEW f \in Frames, NEW outcome \in Outcomes,
           process_packet(f, outcome)
    PROVE  /\ Outcome(outcome)' = Outcome(outcome) \cup {Len(processed) + 1}
           /\ Cardinality(Outcome(outcome)') = Cardinality(Outcome(outcome)) + 1
           /\ \A o : o # outcome => Outcome(o)' = Outcome(o)
<1> DEFINE x == Len(processed) + 1
<1>1. /\ DOMAIN processed' = (DOMAIN processed) \cup {x} /\ x \notin DOMAIN processed
      /\ \A n \in DOMAIN processed : processed'[n] = processed[n]
      /\ processed'[x].outcome = outcome
    BY OneMoreReport
<1> HIDE DEF x
<1>2. /\ \A o : Outcome(o) = {n \in DOMAIN processed : processed[n].outcome = o}
      /\ \A o : Outcome(o)' = {n \in DOMAIN processed' : processed'[n].outcome = o}
    BY DEF Outcome
<1>3. Outcome(outcome)' = Outcome(outcome) \cup {x}
    BY <1>1, <1>2
<1>4. x \notin Outcome(outcome)
    BY <1>1, <1>2
<1>5. \A o : o # outcome => Outcome(o)' = Outcome(o)
    BY <1>1, <1>2
<1>6. Cardinality(Outcome(outcome) \cup {x}) = Cardinality(Outcome(outcome)) + 1
    BY <1>4, OutcomeSets, FS_AddElement
<1> QED
    BY <1>3, <1>5, <1>6 DEF x

LEMMA SampledStep ==
    ASSUME TypeOK, Typed, SampledOffered, NEW f \in Frames, NEW outcome \in Outcomes,
           process_packet(f, outcome)
    PROVE  SampledOffered'
<1> DEFINE r == opt.smpl_rate
           accepted == Cardinality(Outcome("accepted"))
           dropped == Cardinality(Outcome("dropped"))
<1>1. /\ opt' = opt /\ pkt_cnt' = pkt_cnt + 1
      /\ pkt_drop' = pkt_drop + (IF outcome = "dropped" THEN 1 ELSE 0)
      /\ ~(opt.hostValid /\ r = 0)
      /\ outcome \in IF opt.hostValid /\ pkt_cnt % r = 0
                     THEN {"accepted", "dropped"} ELSE {"skipped"}
    BY DEF process_packet, Sampled, Divides0
<1>2. r \in Nat /\ pkt_cnt \in Nat /\ pkt_drop \in Nat /\ accepted \in Nat /\ dropped \in Nat
  <2>1. opt \in Options /\ pkt_cnt \in Nat /\ pkt_drop \in 0 .. pkt_cnt
    BY DEF TypeOK
  <2>2. r \in Nat
    BY <2>1, OptionAssumption
  <2>3. accepted \in Nat /\ dropped \in Nat
    BY OutcomeSets
  <2> QED
    BY <2>1, <2>2, <2>3
<1>3. CASE Sampling
  <2>1. /\ accepted + pkt_drop = (pkt_cnt + r - 1) \div r
        /\ pkt_drop = dropped
    BY <1>3 DEF SampledOffered, Sampling
  <2>2. r > 0 /\ opt.hostValid
    BY <1>3 DEF Sampling
  <2>3. (pkt_cnt + 1 + r - 1) \div r
          = ((pkt_cnt + r - 1) \div r) + (IF pkt_cnt % r = 0 THEN 1 ELSE 0)
    BY <1>2, <2>2, OneInR
  <2>4. Cardinality(Outcome("accepted")') = accepted + (IF outcome = "accepted" THEN 1 ELSE 0)
    <3>1. "accepted" # outcome => Outcome("accepted")' = Outcome("accepted")
      BY OutcomesGrow
    <3>2. "accepted" = outcome => Cardinality(Outcome("accepted")') = accepted + 1
      BY OutcomesGrow
    <3> QED
      BY <1>2, <3>1, <3>2
  <2>5. Cardinality(Outcome("dropped")') = dropped + (IF outcome = "dropped" THEN 1 ELSE 0)
    <3>1. "dropped" # outcome => Outcome("dropped")' = Outcome("dropped")
      BY OutcomesGrow
    <3>2. "dropped" = outcome => Cardinality(Outcome("dropped")') = dropped + 1
      BY OutcomesGrow
    <3> QED
      BY <1>2, <3>1, <3>2
  <2>6. IF pkt_cnt % r = 0 THEN outcome \in {"accepted", "dropped"} ELSE outcome = "skipped"
    BY <1>1, <2>2
  <2> DEFINE a1 == Cardinality(Outcome("accepted")')
             d1 == Cardinality(Outcome("dropped")')
             quota == (pkt_cnt + r - 1) \div r
             quota1 == (pkt_cnt + 1 + r - 1) \div r
             due == pkt_cnt % r = 0
  <2>7. a1 + pkt_drop' = quota1 /\ pkt_drop' = d1
    <3>1. a1 = accepted + (IF outcome = "accepted" THEN 1 ELSE 0)
          /\ d1 = dropped + (IF outcome = "dropped" THEN 1 ELSE 0)
      BY <2>4, <2>5
    <3>2. accepted + pkt_drop = quota /\ pkt_drop = dropped
      BY <2>1
    <3>3. quota1 = quota + (IF due THEN 1 ELSE 0)
      BY <2>3
    <3>4. IF due THEN outcome \in {"accepted", "dropped"} ELSE outcome = "skipped"
      BY <2>6
    <3> HIDE DEF a1, d1, quota, quota1, due, accepted, dropped
    <3> QED
      BY <1>1, <1>2, <3>1, <3>2, <3>3, <3>4
  <2>8. quota1 = (pkt_cnt' + opt'.smpl_rate - 1) \div opt'.smpl_rate
    BY <1>1
  <2> QED
    BY <1>1, <2>2, <2>7, <2>8 DEF SampledOffered
<1>4. CASE ~Sampling
  <2>1. ~opt.hostValid
    BY <1>1, <1>2, <1>4 DEF Sampling
  <2>2. outcome = "skipped" /\ Outcome("skipped") = DOMAIN processed
    BY <1>1, <2>1 DEF SampledOffered
  <2>3. Outcome("skipped")' = DOMAIN processed'
    BY <2>2, OutcomesGrow, OneMoreReport
  <2> QED
    BY <1>1, <2>1, <2>3 DEF SampledOffered
<1> QED
    BY <1>3, <1>4

-----------------------------------------------------------------------------
(* The steps. *)

LEMMA TypesStep ==
    ASSUME TypeOK, Typed, NEW f \in Frames, NEW outcome \in Outcomes,
           process_packet(f, outcome)
    PROVE  TypeOK'
<1>1. /\ UNCHANGED <<opt, socket, arrived, failed, stop, buffer>>
      /\ pc' = "check"
      /\ pkt_cnt' = pkt_cnt + 1
      /\ pkt_drop' = pkt_drop + (IF outcome = "dropped" THEN 1 ELSE 0)
    BY DEF process_packet, environment
<1>2. pkt_cnt' \in Nat /\ pkt_drop' \in 0 .. pkt_cnt'
    BY <1>1 DEF TypeOK
<1>3. flow_map' \in [Keys -> [seq : Nat, prev_dstTs : Timestamps]]
  <2>1. flow_map' = [flow_map EXCEPT ![f.key] =
                        [seq |-> ReportOf(f).header.seqNum, prev_dstTs |-> f.dstTs]]
    BY DEF process_packet
  <2>2. ReportOf(f).header.seqNum \in Nat
    BY ThisReport, HeaderDataType DEF HeaderData
  <2>3. f.dstTs \in Timestamps
    BY FrameFields
  <2> QED
    BY <2>1, <2>2, <2>3 DEF TypeOK
<1>4. prev_timestamps' \in [0 .. MAX_NODES - 1 -> Timestamps]
  <2>1. prev_timestamps' = [i \in DOMAIN prev_timestamps |->
                              IF i <= f.meta_cnt THEN Entered(f, i) ELSE prev_timestamps[i]]
    BY DEF process_packet
  <2>2. prev_timestamps \in [Indices -> Timestamps]
    BY DEF TypeOK, Indices
  <2>3. ASSUME NEW i \in Indices, i <= f.meta_cnt
        PROVE  Entered(f, i) \in Timestamps
    <3>1. f.meta_cnt \in Indices
      BY FrameFields
    <3>2. i \in 0 .. f.meta_cnt
      BY <2>3, <3>1, Constants DEF Indices
    <3> QED
      BY <3>2, EnteredType
  <2> QED
    BY <2>1, <2>2, <2>3 DEF Indices
<1>5. Len(processed') = pkt_cnt'
    BY <1>1, OneMoreReport DEF TypeOK
<1>6. \A n \in DOMAIN processed' : processed'[n].report.delay \in Timestamps
  <2>1. Typed'
    BY OneMoreReport
  <2>2. \A n \in DOMAIN processed' :
          processed'[n].report \in ReportType
    <3>1. /\ DOMAIN processed' = 1 .. Len(processed')
          /\ \A n \in 1 .. Len(processed') : processed'[n] \in Entries
      <4> HIDE DEF Entries
      <4> QED
        BY <2>1 DEF Typed
    <3> QED
      BY <3>1 DEF Entries
  <2> QED
    BY <2>2, ReportFields
<1> QED
    BY <1>1, <1>2, <1>3, <1>4, <1>5, <1>6 DEF TypeOK

\* Steps that process no frame leave the memory and the reports alone.
LEMMA MemoryKept ==
    ASSUME IInv, UNCHANGED <<opt, memory>>, TypeOK'
    PROVE  IInv'
<1>1. UNCHANGED <<opt, flow_map, prev_timestamps, pkt_cnt, pkt_drop, processed>>
    BY DEF memory
<1>2. Reports' = Reports
    BY <1>1 DEF Reports
<1>3. Typed'
    BY <1>1 DEF IInv, Typed
<1>4. \A k : ReportsOf(k)' = ReportsOf(k)
    BY <1>2 DEF ReportsOf
<1>5. \A i : ReportsOn(i)' = ReportsOn(i)
    BY <1>2 DEF ReportsOn
<1>6. GapsAddUp'
    BY <1>1, <1>2, <1>4 DEF IInv, GapsAddUp
<1>7. JittersAddUp'
    BY <1>1, <1>2, <1>4, <1>5 DEF IInv, JittersAddUp
<1>8. DelaysAddUp'
    BY <1>2 DEF IInv, DelaysAddUp
<1>9. \A o : Outcome(o)' = Outcome(o)
    BY <1>1 DEF Outcome
<1>10. SampledOffered'
    BY <1>1, <1>9 DEF IInv, SampledOffered
<1> QED
    BY <1>3, <1>6, <1>7, <1>8, <1>10 DEF IInv

LEMMA Initially == Init => IInv
<1> SUFFICES ASSUME Init PROVE IInv
    OBVIOUS
<1>1. TypeOK
  <2>1. flow_map \in [Keys -> [seq : Nat, prev_dstTs : Timestamps]]
    BY Constants DEF Init
  <2>2. prev_timestamps \in [0 .. MAX_NODES - 1 -> Timestamps]
    BY Constants DEF Init
  <2>3. arrived \in 0 .. MaxFrames /\ failed \in 0 .. MaxFailures
    BY CollectorAssumption DEF Init
  <2>4. Len(processed) = pkt_cnt /\ DOMAIN processed = {} /\ socket \in Seq(Frames)
        /\ pkt_cnt \in Nat /\ pkt_drop \in 0 .. pkt_cnt
    BY DEF Init
  <2> QED
    BY <2>1, <2>2, <2>3, <2>4 DEF Init, TypeOK
<1>2. processed = <<>> /\ pkt_cnt = 0 /\ pkt_drop = 0
    BY DEF Init
<1>3. Typed
    BY <1>2 DEF Typed
<1>4. DOMAIN processed = {} /\ DOMAIN Reports = {}
    BY <1>2 DEF Reports
<1>5. GapsAddUp
  <2> SUFFICES ASSUME NEW k \in Keys
               PROVE  SumFunction([n \in ReportsOf(k) |-> Reports[n].header.reordering + 1])
                          = flow_map[k].seq
    BY DEF GapsAddUp
  <2> DEFINE none == [n \in ReportsOf(k) |-> Reports[n].header.reordering + 1]
  <2>1. DOMAIN none = {}
    BY <1>4 DEF ReportsOf
  <2> HIDE DEF none
  <2>2. SumFunction(none) = 0
    BY <2>1, SumOfNone
  <2> QED
    BY <2>2 DEF Init, none
<1>6. ASSUME NEW f, DOMAIN f = {} PROVE SumFunction(f) % Wrap = 0
  <2>1. SumFunction(f) = 0
    BY <1>6, SumOfNone
  <2>2. 0 % Wrap = 0
    BY Constants
  <2> QED
    BY <2>1, <2>2
<1>7. JittersAddUp
  <2>1. ASSUME NEW k \in Keys
        PROVE  SumFunction(KeyJitters(k)) % Wrap = flow_map[k].prev_dstTs
    <3>1. DOMAIN KeyJitters(k) = {}
      BY <1>4 DEF KeyJitters, ReportsOf
    <3>2. SumFunction(KeyJitters(k)) % Wrap = 0
      BY <1>6, <3>1
    <3> QED
      BY <3>2 DEF Init
  <2>2. ASSUME NEW i \in 0 .. MAX_NODES - 1
        PROVE  SumFunction(HopJitters(i)) % Wrap = prev_timestamps[i]
    <3>1. DOMAIN HopJitters(i) = {}
      BY <1>4 DEF HopJitters, ReportsOn
    <3>2. SumFunction(HopJitters(i)) % Wrap = 0
      BY <1>6, <3>1
    <3> QED
      BY <3>2 DEF Init
  <2> QED
    BY <2>1, <2>2 DEF JittersAddUp, KeyJitters, HopJitters
<1>8. DelaysAddUp
    BY <1>4 DEF DelaysAddUp
<1>9. SampledOffered
  <2>1. \A o : Outcome(o) = {}
    BY <1>4 DEF Outcome
  <2>2. Cardinality({}) = 0
    BY FS_EmptySet
  <2>3. ASSUME opt.hostValid /\ opt.smpl_rate > 0
        PROVE  (0 + opt.smpl_rate - 1) \div opt.smpl_rate = 0
    <3> DEFINE r == opt.smpl_rate
               q == 0
               r1 == r - 1
    <3>1. r \in Nat /\ r > 0
      BY <1>1, <2>3, OptionAssumption DEF TypeOK
    <3> HIDE DEF r
    <3>2. q \in Int /\ r1 \in 0 .. r - 1 /\ 0 + r - 1 = r * q + r1
      BY <3>1
    <3> HIDE DEF q, r1
    <3>3. (r * q + r1) \div r = q
      BY <3>1, <3>2, Quotient
    <3> QED
      BY <3>2, <3>3 DEF q, r
  <2>4. Outcome("accepted") = {} /\ Outcome("dropped") = {} /\ Outcome("skipped") = {}
    BY <2>1
  <2>5. 0 + 0 = 0
    OBVIOUS
  <2> QED
    BY <1>2, <1>4, <2>2, <2>3, <2>4, <2>5, Zenon DEF SampledOffered
<1> QED
    BY <1>1, <1>3, <1>5, <1>7, <1>8, <1>9 DEF IInv

LEMMA ProcessStep ==
    ASSUME IInv, NEW f \in Frames, NEW outcome \in Outcomes, process_packet(f, outcome)
    PROVE  IInv'
<1>1. TypeOK /\ Typed /\ GapsAddUp /\ JittersAddUp /\ DelaysAddUp /\ SampledOffered
    BY DEF IInv
<1>2. TypeOK'
    BY <1>1, TypesStep
<1>3. Typed'
    BY <1>1, OneMoreReport
<1>4. GapsAddUp'
    BY <1>1, GapsStep
<1>5. JittersAddUp'
    BY <1>1, JittersStep
<1>6. DelaysAddUp'
    BY <1>1, DelaysStep
<1>7. SampledOffered'
    BY <1>1, SampledStep
<1> QED
    BY <1>2, <1>3, <1>4, <1>5, <1>6, <1>7 DEF IInv

LEMMA Inductive == IInv /\ [Next]_vars => IInv'
<1> SUFFICES ASSUME IInv, [Next]_vars PROVE IInv'
    OBVIOUS
<1> USE DEF environment, memory
<1>0. TypeOK
    BY DEF IInv
<1>1. ASSUME NEW f \in Frames, Arrive(f) PROVE IInv'
  <2>1. socket' \in Seq(Frames)
    BY <1>0, <1>1 DEF TypeOK, Arrive
  <2>2. TypeOK' /\ UNCHANGED <<opt, memory>>
    BY <1>0, <1>1, <2>1, CollectorAssumption DEF TypeOK, Arrive
  <2> QED
    BY <2>2, MemoryKept
<1>2. CASE setup_stop
  <2>1. TypeOK' /\ UNCHANGED <<opt, memory>>
    BY <1>0, <1>2 DEF TypeOK, setup_stop
  <2> QED
    BY <2>1, MemoryKept
<1>3. CASE ReceiveFails
  <2>1. TypeOK' /\ UNCHANGED <<opt, memory>>
    BY <1>0, <1>3, CollectorAssumption DEF TypeOK, ReceiveFails
  <2> QED
    BY <2>1, MemoryKept
<1>4. CASE CheckStop
  <2>1. TypeOK' /\ UNCHANGED <<opt, memory>>
    BY <1>0, <1>4 DEF TypeOK, CheckStop
  <2> QED
    BY <2>1, MemoryKept
<1>5. CASE Receive
  <2>1. Head(socket) \in Frames /\ Tail(socket) \in Seq(Frames)
    BY <1>0, <1>5 DEF TypeOK, Receive
  <2>2. TypeOK' /\ UNCHANGED <<opt, memory>>
    BY <1>0, <1>5, <2>1 DEF TypeOK, Receive
  <2> QED
    BY <2>2, MemoryKept
<1>6. CASE DivideByZero
  <2>1. TypeOK' /\ UNCHANGED <<opt, memory>>
    BY <1>0, <1>6 DEF TypeOK, DivideByZero
  <2> QED
    BY <2>1, MemoryKept
<1>7. ASSUME NEW outcome \in Outcomes, Process(outcome) PROVE IInv'
  <2>1. PICK f \in Frames : process_packet(f, outcome)
    BY <1>0, <1>7 DEF TypeOK, Process, ProcessBuffer, ProcessUninitialised
  <2> QED
    BY <2>1, ProcessStep
<1>8. CASE UNCHANGED vars
  <2>1. TypeOK' /\ UNCHANGED <<opt, memory>>
    BY <1>0, <1>8 DEF TypeOK, vars
  <2> QED
    BY <2>1, MemoryKept
<1> QED
    BY <1>1, <1>2, <1>3, <1>4, <1>5, <1>6, <1>7, <1>8 DEF Next, Loop

-----------------------------------------------------------------------------
(* The theorems. *)

LEMMA Invariance == Spec => []IInv
BY Initially, Inductive, PTL DEF Spec

\* The loop's state keeps its types; no delay it reports is negative.
THEOREM CollectorTypes == Spec => []TypeOK
BY Invariance, PTL DEF IInv

\* Whatever is lost, repeated or reordered on the way to the collector, the
\* gaps it reports for a pair of hosts add up to the number it has reached.
THEOREM GapsTelescope == Spec => []GapsAddUp
BY Invariance, PTL DEF IInv

\* The jitters of a pair of hosts, and those of a hop index, add up to the last
\* timestamp, for clocks of every width.
THEOREM JittersTelescope == Spec => []JittersAddUp
BY Invariance, PTL DEF IInv

\* Every report's delay is the sum of its hops and links, for every length of
\* path, and the difference of its two timestamps even when they are cut.
THEOREM DelaysTelescope == Spec => []DelaysAddUp
BY Invariance, PTL DEF IInv

\* For every rate one report in smpl_rate is offered, and each is accepted or
\* counted as dropped.
THEOREM OneInSmplRate == Spec => []SampledOffered
BY Invariance, PTL DEF IInv
=============================================================================
