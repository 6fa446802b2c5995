# Verification of int-platform-dpdk

TLA+ models of the In-band Network Telemetry platform in this repository, the
TLC configurations that check them on small instances, and TLAPS proofs of what
holds for every size. Paths below are relative to `src/`; `p4int_influxdb/`
stands for `int_t4p4s_dpdk/p4int_influxdb/`, `int_v1.0/` for
`int_t4p4s_dpdk/p4src/int_v1.0/`.

## The system

Packets cross INT nodes. The first (source) inserts INT headers, each node on
the way (transit) adds a record with its timestamps in front of the earlier
records, the last (sink) turns the headers into a report frame. The collector
on the sink's host reads report frames from a raw socket, computes delays,
jitters and reorderings, and writes them to InfluxDB.

| part | state it keeps | operations | interacts with |
|---|---|---|---|
| t4p4s data plane (`int_v1.0/`) | sequence register; packet headers | `Int_source`, `Int_transit`, `Int_sink`, checksum subtract/add, parser, deparser | next node (packet), collector (report frame) |
| p4c-dpdk data plane (`int_p4c-dpdk/src/int/int_template.p4`) | report sequence register; tables; packet headers | `configure_source`, instruction tables, hop limit, length and checksum updates, `send_report`, `remove_int`, forwarding | next node, collector, control plane (tables) |
| generator and CLI scripts (`generate.py`, `swx_p4c.sh`, `*-table`, `int-cli`) | files | render the template, compile, load tables | p4c-dpdk program |
| process (`p4int.cc`) | `opt`, `errno` | `parse_arguments`, `prepare_socket`, `main` | command line, SIGINT, packet loop (call), exporter (constructor) |
| packet loop (`p4int.cc`) | `flow_map`, `prev_timestamps`, counters, `stop`, receive buffer | `loop_proccess`, `process_packet`, `report_to_influx`, `setup_stop` | raw socket, SIGINT, `IntExporter::sendData` (call) |
| exporter (`p4_influxdb.cc`) | `m_ring_buffs`, `m_rr_index` | constructor, `sendData` | packet loop (call), one ring per sender thread |
| ring (`ringbuffer.h`) | `ring_`, `head_`, `tail_` | `push`, `pop` | shared memory between the packet loop and one sender |
| sender threads (`http_sender`, `udp_sender`) | `data`, `it`, `flush` | poll, add records, send, flush | ring, socket |
| sockets (`HTTP.cc`, `UDP.cc`) | curl handles, endpoint | connect, `send`, response treatment | InfluxDB |
| bootstrap, hugepages, Makefile | none | installation, start-up | host |

What makes it hard:

- the ring is lock free: its correctness is in four memory orders and one free
  slot, and tests on x86 cannot tell a wrong order from a right one;
- sender threads run at the database's speed, the packet loop at the wire's;
  full rings, failing requests, idle periods and batches interact;
- the collector's memory of earlier frames makes every report depend on all
  the earlier ones, whose order the network decides;
- headers, lengths and checksums are updated piecemeal by several nodes, with
  8- and 16-bit fields and actions selected by tables.

Correctness, part by part:

- ring: race free; a FIFO queue that loses, duplicates and invents nothing;
  refusals only when it is full or empty; always drains;
- exporter and senders: each report is in exactly one place, per-ring order,
  counter and batch agree, rings take turns, drops are counted and happen only
  when every ring refused, accepted reports reach the socket, `sendData`
  returns;
- packet loop: gaps, jitters and delays telescope to what the collector
  remembers; every `smpl_rate`-th packet is offered and accounted for; the loop
  stops on the signal;
- process: it runs with the options of its command line; what the packet loop
  counts as exported is what the senders hold or sent; little is lost at the
  exit; a signal ends it in whatever phase it is;
- data planes: lengths, hop counts and checksums agree with the headers that
  are there after any path; the sink's report says what the nodes recorded;
  nodes add records up to the limit the source wrote (they do not, for some
  limits, see `HopLimit`); reports are numbered.

PROJECT.json lists the parts under `components` and the places where each is
hard to test under `hazards`.

## Modules

| module | models | built on |
|---|---|---|
| `BoundedQueue` | a bounded queue between two threads as a value, with delayed visibility | |
| `ReportQueue` | what the ring promises: the abstract queue | `BoundedQueue` |
| `RingBuffer` | `ringbuffer.h` under the C++ memory model | `ReportQueue` (refinement) |
| `NumberTheorems` | facts about remainders and sums that the proofs share | TLAPS |
| `RingBuffer_proofs` | theorems about `RingBuffer` | `RingBuffer`, TLAPS |
| `IntExporter` | exporter, sender threads, sockets | `BoundedQueue` for its rings |
| `IntExporter_proofs` | theorems about `IntExporter` | `IntExporter`, `NumberTheorems` |
| `Telemetry` | what the collector computes from one frame | |
| `P4Int` | the packet loop | `Telemetry` |
| `P4Int_proofs` | theorems about `P4Int` | `P4Int`, `NumberTheorems` |
| `Options` | the command line of the collector | |
| `Collector` | the process from its command line to its end | `Options`; composes `P4Int` and `IntExporter`, refines each |
| `Collector_proofs` | both refinements, and theorems about the process | `Collector`; instances of `P4Int_proofs` and `IntExporter_proofs` |
| `Checksum` | the one's complement update of `int.p4` | |
| `Checksum_proofs` | lemmas: taking a word out and putting one in keeps a header valid | `Checksum`, `NumberTheorems` |
| `IntNode` | what a t4p4s node does to one packet | `Checksum` |
| `IntPath` | packets along a path of nodes, and the collector's report of them | `IntNode`, `Telemetry` |
| `IntPath_proofs` | theorems about `IntPath`: types, checksum, records, lengths, the report | `IntPath`, `Checksum_proofs` |
| `IntPsa` | the INT program for p4c-dpdk along a path of nodes | |
| `IntPsa_proofs` | theorems about `IntPsa` | `IntPsa`, `NumberTheorems` |
| `MC*` | the instances TLC checks | |

### RingBuffer

`push` is split at its memory accesses: the two loads (`PushRefused`,
`PushAccepted`), the write of the slot (`PushWrite`), the store of the new head
(`PushPublish`); `pop` likewise. `head_` and `tail_` have one writer each. A
variable holds the stores to it that the other thread has still to move past,
oldest first: the other thread loads the first, the writer the last, and
`HeadVisible`/`TailVisible` let the other thread move on, at any time. So a load
may be arbitrarily old, but never goes back (coherence).

Each store carries a view: the slots whose accesses by the storing thread an
acquire load of that store is ordered after. A release store carries all slots,
and a later access to a slot takes that slot out of the views of the earlier
stores (`Unordered`). `writable` and `readable` are the slots the producer and
the consumer are ordered on. An access outside them would be a data race
(`NoDataRace`): what a memory order must rule out is thus a state predicate,
and relaxing one of the four orders breaks it.

The copy of a slot is one step. That is sound where `NoDataRace` holds: no
other thread's access to the slot can fall into it.

`AbstractQueue` maps the state to a queue: the slots from tail to head, with the
stores the other thread has not moved past as pushes and pops still unseen. A
push takes effect at `PushPublish`, a pop at `PopPublish`.

### IntExporter

The exporter's rings are `BoundedQueue` values, which is what `RingBuffer` is
shown to implement; a report accepted by a ring is one step here. Reports are
numbered by the packet loop and have a number of hops, which determines their
number of records (`add_report`). One action is one pass of the code's
loops up to the next place where another thread can tell the difference: one
attempt of `sendData` (`PushReport`, `PushRefused`), one poll of a sender
(`PollEmpty`, `PollReport`), one call of `send` with the reset behind it
(`Sent`). `HttpAnswers` are the answers of InfluxDB as libcurl delivers them:
stored, refused with a status, or timed out before or after it was stored;
`treatCurlResponse` decides which of them throw. A datagram that is too long is
refused; another one may be refused too, or sent, and then it may get lost. `refused`, `sent` and `unnoticed` are
history. `https` behaves as `http` in everything modelled.

The hazard that a sender's constructor throws is `ConnectFailed`: the exception
leaves a detached thread and ends the process. `ConnectedSurvives` says that
this is the only exception that does. `Exit` is main's return, which ends the
threads wherever they are. `opt` is any of the `Options` that the parsed command
line may be; it also says how many senders there are (`m_th_num`) and whether
there is a host at all. `Sent` never ends the process, and `EveryReportOnce` counts
what it sends, stored or not, as handed to the socket: what the code gives up there
without a word is the subject of `FailureRaises`.

### P4Int

One action per step of `loop_proccess`: the check of the flag, `recvfrom`
(`Receive`, or `ReceiveFails`, after which the code goes on with the old
buffer), `process_packet` with everything it calls. The signal handler may run
between any two. The computation itself is in `Telemetry`, as operators on a
frame and the memory. Timestamps are numbers modulo `Wrap` (2^64), cut modulo `Cut`
(2^48) with option `-t`; the memory a frame leaves is `flow_map`, keyed by the
two addresses, and `prev_timestamps`, keyed by hop index. A frame that announces
no hop still has one record's worth of bytes after its header, which the code
reads as the source's timestamps. Before the first frame the buffer is
uninitialised: processing it may give any report or end the process. Option
`-m 0` ends the process too, at the first report (`DivideByZero`).

`sendData` answers yes or no here; `IntExporter` says when. `processed` is
history. Frames with `MAX_NODES` hops or more are excluded by
`CollectorAssumption`, because the write past `prev_timestamps` is undefined.

### Options and Collector

`parse_arguments` is a fold of `Parse`, one turn of the getopt loop, over the
command line. It keeps what is easily overlooked: `protocol` and `port` start
with what the memory held; `atoi` and `strtoumax` saturate at both ends of their
types and are then cut to the width of the field, negative numbers included; `errno` is set by any of them and never reset, and `-p`
is the only option that looks at it; `-h` and an unknown option end the process.

`OptionsAsGiven` says that each option takes effect as it was given last, as far as
its field has room for the number. A port above 16 bits is the gap: the message
"Port is higher than 16bits!" (`p4int.cc:412`) is printed only for a number above
64 bits, or after `ERANGE` from an earlier option. 70000 is taken, as 4464; a good
port behind an out-of-range `-m` is refused. Both are in the run (with the widths
scaled), and the property claims nothing of them: it neither asks for the refusal
the message announces nor takes 4464 for what was given.

`Collector` is the process. `phase` is where `main` stands up to the handler's
registration; then the actions of `P4Int` and of `IntExporter` run on shared
variables, `opt` and `pkt_drop` among them. `sendData` is called in the middle of
`process_packet`: `OfferReport` begins the call, and the step of the exporter that
ends it (`PushReport`, `GiveUp`) is in the same step the update of the loop's
memory (`process_packet` of `P4Int`). That update comes before the call in the
code, but only the main thread reads that memory, so nothing can tell.
`SIGINT` before the handler is registered kills the process; later it sets the
flag. When `main` returns the senders are gone with what they held.

`ImplementsLoop` is a refinement: with the exporter, its senders and the phases
hidden, the process is `P4Int` with the options the command line will lead to
(`OptAhead`). It shows that what is checked of the loop alone, where `sendData` is
a free choice, holds of the loop in the process. `ImplementsExporter` is the other
one: with the loop and the phases hidden the process is `IntExporter`; an end that is
not the exporter's (`EndsOutside`: an option, the socket, SIGINT before the handler,
a loop that was terminated) looks to it like no more calls of `sendData`.

### IntNode and IntPath

A packet is a record of the fields that decide something: the marking, the
lengths and the checksum of IPv4, `udp.len`, the shim and INT header, and the
stack of INT records behind it. The IPv4 words that no node changes are one
number, their sum (`rest`), which is all a checksum sees of them. The stages are
operators: `configure_source`, `Int_transit`, `Int_sink`; `ingress` is the
control of that name with the checksum update around the first two. Since the
deparser emits a node's record behind the INT header and before the payload,
which is where the earlier records are, `Int_transit` puts it in front. Additions
are modulo 2^16 (`Words`) or 2^8 (`Bytes`) as in P4.

`IntPath` has nodes 1 to `N`, of which the last is the sink and those in
`sources` are compiled with `SRC_ENABLE`; `link[n]` is the set of packets on the
way to node `n`, so they overtake each other freely, and `Lose` takes one away.
`Forward` is a node's whole pass over a packet, with one tick of the clock for
each of its two timestamps and the sequence register `reg1`, written by one
packet at a time. `Deliver` is the sink's. The nodes' clocks agree, as with PTP.
`Received` and `Reported` hand the sink's frame to the collector's computation.

`PathAssumption` leaves out what reads fields of headers that are not there: a
sink that no source precedes, and a host that uses the INT code point itself.
The `id` of a packet is the model's: it names the packet the host sent, whatever
the nodes have made of it since.

### IntPsa

All nodes of a path come from one call of `generate.py`, whose parameters are
`generated`: the hop limit `-n`, the two nibbles of the instruction mask `-a` and
`-k`, and `-g`, which leaves the default actions out. The metadata length has the
default 6: `-l` on the command line is a string, which the template's format
`{:02x}` refuses.
A packet carries the fields that decide something; a metadata header is its
number, and a node's record the set of them. `tb_int_inst_0003` and
`tb_int_inst_0407` are the entries of the two table files: what they set and how
many words they count. A node's work is an operator on the packet and on
`ck_helper`, the user metadata the deparser updates the checksum from:
`tb_int_source`, `Transit`, `remove_int`, `Deparsed`, in the order of the code.
What a packet does not write `ck_helper` holds from before (`Undefined`).

Four things are easily lost in a model and kept here: `-n` is written as two
hexadecimal digits and read back once behind `0x` and once as a decimal number
(`HOP_INFO`, `MAX_HOP_16`); the hop limit is an equality on the field that holds
the metadata length and the hop count together; `0003_i3` sets header 5 where the
mask asks for header 3; `remove_int` takes off `total_hops_len`, which nothing
writes, and removes only the headers the sink itself inserted.

The IPv4 checksum is the sum it stands for, modulo 2^16 - 1, since the deparser's
`Checksum` extern adds and subtracts words in one's complement. `LengthsAgree` is
modulo the widths of the fields, which long stacks do reach. `HopLimit` is what
template and documents say of the limit, and does not hold; `FirstHopsRecorded` is
the same for those limits that read alike as hexadecimal and decimal digits (`-n`
below 10) and the rules that announce the metadata length of the nodes; its limit is the
rule's own, which need not be `-n`. `StackCanBeSplit`,
the relation a collector needs to cut the stack into records, has the conditions
under which the program keeps it: the rule announces as many words as its mask asks
for, no more nodes than it allows added a record, no header is counted twice
(`MisCounted`, the mask with nibble 3), and fewer than 256 words are behind the
shim, whose length has 8 bits. `Timestamp_t` has
64 bits and `PortId_t` 16: they are defined by the compiler's `psa.p4`, outside
this repository.

## Runs

| run | question | instance |
|---|---|---|
| `RingBuffer` | Is the ring race free, and is it the queue, with progress? | 4 slots, 2 values; no bound on time or on the number of items |
| `Exporter` | Are reports kept, ordered, batched, spread and dropped as they should, and do exceptions of `send` stay in the thread? Is an accepted report sent without further traffic (HTTP)? Does `sendData` return even with senders that stand still? | 0, 1 and 2 senders, rings of 1, 5 reports of 1 hop, batches of 6 or 4 records or of every report, HTTP, UDP and an unknown protocol, with and without a host |
| `ExporterUdpBatch` | Is a UDP batch bounded by option `-b`? It is not. | 1 sender, batch of 4 records, 3 records a report |
| `ExporterHttpError` | Is a refused batch always noticed? It is not. | 1 sender, 1 report |
| `P4IntLoop` | Do the reported differences agree with the memory, the counters with the sampling, and does the loop stop? | 5 frames of three flows, 4 arrivals in any order and number, 1 failing receive, clocks that wrap at 8, sampling rates 2 and 0, with and without a host |
| `P4IntFlows` | Does each flow have its own jitter? It does not. | the same frames, 3 arrivals |
| `IntPath` | Do lengths, marking, records and checksums of every packet agree at every node, and does the collector get the nodes' delays? | 4 nodes, source first or second, a UDP, a TCP and another packet, full 16-bit words |
| `IntPathOrig` | Is the report's origin timestamp that of the source? It is not. | 3 nodes |
| `Collector` | Does the process run with the options given, keep each accepted report once, lose little at its exit, and end on SIGINT in any phase? Does it implement `P4Int` and `IntExporter`? | 15 starts, 2 frames, 2 arrivals, 1 failing receive, up to 2 senders, rings of 1 |
| `IntPsa` | Do lengths, records, hop limit, report numbers and checksum updates agree, whatever the parameters and tables? | 3 calls of `generate.py`, 3 packets out of 5 kinds, paths of 2 to 11 nodes, undefined values 0 and 32 |
| `IntPsaHopLimit` | Do as many nodes add their record as `-n` says? They do not. | `-n 16`, 12 nodes, 1 packet |
| `IntPsaChecksum` | Is the IPv4 checksum valid? It is not. | 3 nodes, 1 packet |

Why the bounds are enough:

- 4 slots hold up to 3 items: empty, full, partly full, wrapped, and every lag
  of either thread occur; two values tell reordering and duplication apart.
  `RingBuffer_proofs` removes the bound.
- Rings of one item make refusals frequent; two rings make turns, and five
  reports let each ring refuse, drain and refuse again. A report of one hop is three
  records: the batch of six is reached exactly (3+3), that of four is jumped over,
  and both are left unfinished. Reports of one and of two hops are mixed in the run
  `Collector`, and `BatchAccounting` is proved for every number of hops. `PopThreshold` is 2 in place of 10: it is
  reached, passed and reset. The process may end in any state, so these runs do
  not check for deadlock.
- The frames of `P4IntLoop` contain a gap, a reordered number, a UDP flow with
  the same hosts as a TCP flow, a clock that goes back, and paths of 0, 1 and 2
  hops; four arrivals include repetitions. `MAX_NODES` is 3, so the last entry
  of `prev_timestamps` is used.
- Four nodes give stacks of 0 to 3 records and a node in front of the source.
  The checksums of the packets are chosen so that both borrow and carry occur
  and the sum 65535 is met; `ChecksumsStayValid` removes this bound. Shim length
  and hop count would wrap at 42 and 256 nodes, beyond any run here.
- The command lines of `Collector` are one per way through `main`: options given
  twice, 0, 1 and 2 senders, a sampling rate of 0, a port with more than 16 bits
  and one with more than 64, numbers at the ends of `long` and beyond, negative ones,
  an `ERANGE` left by an earlier option, no host, no
  protocol with two contents of the stack, `-h`, an unknown option. The integer
  widths are scaled (2^10, 2^12, 2^14 for 2^16, 2^32, 2^64), which keeps that each
  divides the next. Two arrivals and a failing receive fill two rings of one item
  and make a third report that must be dropped or wait.
- The parameters of `IntPsa` are the defaults of `generate.py`; `-n 2` with `-g` and
  another mask; and `-n 16`, of which the two readings differ. The table has a rule
  for six words and three hops, which is more than `-n 2` and less than `-n 4`, and one
  for all eight headers, whose metadata length the nodes do not know, so that they
  step past its limit. Packets find a rule, the default or none, at a sink that
  reports, strips or does neither; the longest path (11) is longer than every limit
  but that of `-n 16`, which `IntPsaHopLimit` passes with 12 nodes. Two values of the
  sequence register make it wrap.

### Fairness

- `RingBuffer`: a `push` that began finishes, the sender thread keeps calling
  `pop` (`while(!ring->pop(..))` in both senders), and a store becomes visible
  in finite time (C++ asks this of atomics). Nobody is obliged to push.
- `IntExporter`, `MainFairSpec`: the main thread is scheduled. This alone gives
  `SendDataReturns`. `AcceptedIsSent` has one more hypothesis, in the property:
  `SendersRun`, that the senders are scheduled too, whose requests end after
  `CURLOPT_TIMEOUT` (`HTTP.cc:48`) at the latest. New reports, connection
  failures and the exit are under no obligation. For UDP `AcceptedIsSent` is
  not claimed: `udp_sender` has no flush.
- `Collector`: the main thread is scheduled, and `recvfrom` returns when a frame
  waits. The senders owe nothing: `SignalEnds` holds also when the database never
  answers.
- `P4Int`: the process is scheduled and `recvfrom` returns when a frame waits.
  Without a frame a stop request waits: `signal` restarts the call.
- `IntPath` and `IntPsa` have safety properties only: a packet may be lost
  anywhere.

### What the violated properties show

- `BatchLimit`: `it == opt->batch` (`p4_influxdb.cc:158`) misses when the
  counter, which grows by hops + 2, jumps over the batch size.
- `FailureRaises`: `responseCode > 500` (`HTTP.cc:188`) lets 500 pass.
- `JitterOfItsFlow`: `map_key` is the addresses only (`p4int.cc:304`), although
  a flow is defined by addresses and ports (`int_source.p4:62`).
- `OrigIsSource`: the collector takes the first record for the source's
  (`p4int.cc:228`), but the first is that of the last node before the sink, so
  `origTs` and `delay` leave out the rest of the path. The hop delays are right
  (`ReportsThePath`), in the order from the sink back.
- `HopLimit`: `generate.py` writes `-n` with hexadecimal digits, of which
  `headers_template.p4:54` makes the hexadecimal number in `HOP_INFO` and `:50` the
  decimal one in `MAX_HOP_16`; the node compares `hop_info` with their difference
  (`int_template.p4:706`). With `-n 16` the eleventh node already finds its limit,
  leaves its record out and marks the packet, although "Maximum number of transit
  nodes" (`generate.py:26`) is 16 and the packet itself still says that 6 hops are left. For the same
  reason a rule with another metadata length than 6 meets its limit hundreds of nodes later, if at all:
  `hop_info` also holds that length and differs in it.
- `ChecksumValid`: `configure_source` saves the length it found for the checksum
  update, and the transit section, which the source executes too, overwrites it
  with the length that already includes the INT headers (`int_template.p4:699`).
  The checksum of each packet with INT headers is therefore off by the 20 bytes
  the source added; later nodes neither mend it nor add to it
  (`TransitKeepsChecksum`).

## Proofs

`RingBuffer_proofs` proves for every `Size` above 0 and every set of values,
from `SizeAssumption` and `NoValueAssumption` alone:

1. `TypeCorrect`: `Spec => []TypeOK`.
2. `InvariantHolds`: `Spec => []RingInvariant`, where `TypeOK /\ RingInvariant`
   is inductive. It is needed because `NoDataRace` is not inductive: that a slot
   is readable when it is read depends on the view of the store that announced
   it, and on which slots lie between the indices. `Order` says how the lagging
   indices lie around the ring, `Phases` what a call may still rely on after
   its loads, `HeadViews` and `TailViews` what acquiring a store gives. The
   run `RingBuffer` checks the same invariant.
3. `RaceFree`: `Spec => []NoDataRace`.
4. `RingImplementsQueue`: `Spec => ImplementsQueue`: each step is a step of
   `ReportQueue` or leaves the queue unchanged. The lemmas about `Dist`, `Plus`
   and `ItemsBetween` say how the distance around the ring and the sequence of
   items change when an index advances.

`Checksum_proofs` and `IntPath_proofs` prove, from `WordsAssumption`,
`WidthAssumption` and `PathAssumption`, for every path length, placement of the
sources and set of packets:

5. `PathTypes`: `Spec => []TypeOK`.
6. `ChecksumsStayValid`: `Spec => []ChecksumStaysValid`. The conjunction of the
   two is inductive. A step changes a packet by `ingress` only (`IngressKeeps`),
   and that takes two words out of the checksum and puts two in. What is kept is
   the sum of checksum and words modulo 2^16 - 1: `SubtractKeepsSum` and
   `AddKeepsSum` say so for one word, `WithoutKeepsSum` and `WithKeepsSum` for
   the two. The lemmas split on the hand-made borrow and carry.

The rest of `IntPath_proofs` needs also `TelemetryAssumption` and two conditions its
theorems state: the path has one source (`OneSource`: a second one would overwrite
the headers of the first), and it is short enough for the counters it relies on
(`HopsFit`, at most 2^8 nodes; `LengthsFit`, at most 43 nodes with the sink, and no
packet that outgrows 16 bits).

7. `StacksArePaths`: `Spec => []StackIsPath`. The property alone is not inductive:
   `OnItsPath` adds that an unmarked packet has no records and its own code point,
   and that the oldest record of a marked one is the source's, so that the source
   never marks twice; `Past`, that no record is from the future, without which the
   next one could be older than those behind it. `RecordedOneMore` is the step.
8. `LengthsStayRight`: `Spec => []LengthsAgree`. `Measured` gives the three lengths
   as functions of the number of records, which `FewRecords` bounds by the nodes
   passed; so no addition wraps (`NoWrap`).
9. `PathsAreReported`: `Spec => []ReportsThePath`. A frame is the sink's of a packet
   that arrived in order (`Delivered`); its `meta_len` divided by `hop_meta_len` is
   then the number of records, and the subtraction of timestamps does not wrap.

`IntExporter_proofs` proves, from `ExporterAssumption`, `OptionAssumption` and
`CapacityAssumption`, for every number of senders, capacity of the rings and set of
options:

10. `ExporterTypes`: `Spec => []TypeOK`, by `Types`, which also gives the types of
    history and rings.
11. `ReportsStayInOrder`: `Spec => []SentInOrder`. `Ordered` adds that every number
    a ring has accepted is below that of the report being sent, and that below
    `nextId`. A step of a sender moves a report from its ring into its batch and
    from there to what was sent; their concatenation `Accepted` stays.
12. `RingsTakeTurns`: `Spec => []RoundRobin`. Turns that differ by at most one do not
    say which ring is next; `TurnOrder` says that a ring whose turn comes sooner had
    no more of them than one whose turn comes later.
13. `DropsAreRefusedByAll`: `Spec => []DropsRefusedByAll`. `DropAccount` counts: each
    ring refused at least as often as reports were dropped, and once more if the
    running call has tried it.
14. `ReportsAreInOnePlace`: `Spec => []EveryReportOnce`. Each number given out belongs
    to a dropped report, to the one being sent or to one that a ring accepted
    (`Counted`, a sum over the senders), and no two rings accepted the same
    (`Apart`). Only a push changes both, and it adds the newest number to one ring.
15. `BatchesAreAccounted`: `Spec => []BatchAccounting`. `Batches` adds that a sender
    that has not connected has no record, that each report is two records at least,
    and that an HTTP sender polls only with a batch that is empty or not full
    (`Limited`).
16. `OnlyConnectingIsFatal`: `Spec => ConnectedSurvives`, from `TypeOK`, action by action:
    once all senders run, none of the steps that end the process is enabled.

`P4Int_proofs` proves, from `TelemetryAssumption`, `OptionAssumption` and
`CollectorAssumption`, for every set of frames, option and width of the clocks:

17. `CollectorTypes`: `Spec => []TypeOK`. `Typed` adds the types of all reports made.
18. `GapsTelescope`: `Spec => []GapsAddUp`.
19. `JittersTelescope`: `Spec => []JittersAddUp`, for a flow and for a hop index.
20. `DelaysTelescope`: `Spec => []DelaysAddUp`. These three are inductive together
    with the types: a new report adds its difference to the sum of its own key or
    index and leaves the others (`OneMoreReport`, `SumOneMore`), and the memory the
    difference was taken against is the one the step overwrites. The differences are
    modulo the clock's width, so the sums are; with `-t`, whose cut is coarser than
    the clock, `ModTwice` is what makes them agree. Within a report the delays of
    the hops and links telescope (`Telescope`).
21. `OneInSmplRate`: `Spec => []SampledOffered`. `OneInR` counts the multiples of the
    sampling rate up to `pkt_cnt`, which are the packets whose report was offered.

`Collector_proofs` proves, from `OptionsAssumption`, `ProcessAssumption` and
`InstanceAssumption`, for every set of command lines:

22. `ProcessImplementsLoop`: `Spec => ImplementsLoop`. Init maps to `P4Int`'s, `LoopSteps`
    map to its steps, `HiddenSteps` to stutters. The invariant it needs is small:
    before the command line is parsed nothing has been received or sent, and a loop
    that was terminated took the process with it.
23. `ProcessImplementsExporter`: `Spec => ImplementsExporter`. `ExporterSteps` map to the
    exporter's steps, `OtherSteps` to stutters: until the phase "run" no ring has a
    report and no sender has started, and after an end from outside nothing moves.
24. `ProcessHasTypes`: `Spec => []TypeOK`. By the two refinements the invariants of
    `P4Int_proofs` and `IntExporter_proofs` hold of the process (`LoopInvariance`,
    `ExporterInvariance`), where they are used as instances and not proved again.
25. `OptionsAreThoseGiven`: `Spec => []OptionsAsGiven`, for command lines of any length.
    `Parsed` says option by option what the last occurrence decides, `LastGiven` that
    one turn of getopt keeps it; `ParseArgumentsIs` is the conclusion for the fold.
    `NumberIsKept` and `PortIsKept` are the arithmetic: saturation and cut leave a
    number alone that the field has room for.
26. `LossIsBounded`: `Spec => []LossAtExit`, from the invariant of the exporter: what is
    accepted and not sent is in a ring, which has a capacity, or in a batch, which
    has a limit.
27. `ReportsReachTheirSender`: `Spec => []EndToEnd`. The invariant `FromFrameToSender`
    relates the two halves of the process, which share nothing but the running call:
    `Linked` says how far the loop's packet counter is while report `nextId - 1` is
    offered and between two offers; `Matched`, that what the rings accepted and what
    the loop counts as accepted are the same reports, in places that `Place`
    computes from their numbers.

`IntPsa_proofs` proves, from `ParametersAssumption`, `TablesAssumption`,
`PacketsAssumption` and `NumbersAssumption`, for every call of `generate.py`, tables,
packets and length of the paths:

28. `PsaTypes`: `Spec => []TypeOK`, by the type `Packet` of what is under way.
29. `ReportNumbersConsecutive`: `Spec => []ReportsNumbered`, with the register as the
    number of reports modulo its size (`Numbered`).
30. `FirstNodesRecorded`: `Spec => []FirstHopsRecorded`. `CountedTo` relates hop count,
    mark and records to the nodes passed: that the hop count is the source's less the
    records is what makes the equality the nodes test the limit, and it is one under
    the property's conditions only (`LimitIsFound`). `CountsDown` is the half that needs
    no condition. `TransitCounts` is
    the step; a packet without INT headers that passed a node never gets them.
31. `LengthsAreOfHeaders`: `Spec => []LengthsAgree`. `Sized` gives the three lengths as
    sums over the records modulo the fields' widths. `TableCounts` says that the
    words the two instruction tables count are those of the headers they set, for
    every mask but the one with nibble 3; `InsertedSized` is the step.
32. `StacksCanBeSplit`: `Spec => []StackCanBeSplit`, from `Sized` and `CountsDown`.
33. `TransitLeavesDrift`: `Spec => TransitKeepsChecksum`. The property compares a packet
    with the one of the same number before the step; that these are the same packet
    is `OnePacketANumber` (`Origin`). `DriftKept` is the arithmetic.

`NumberTheorems` has what these share about `%` and `\div` and about sums. The induction
theorems of the library have an operator as parameter and cannot be instantiated
here, so each induction is written as the search for a smallest counterexample
(`Smallest`, `SmallestSet`), which well-foundedness of the naturals gives. `SumFunction`
adds in an order that `CHOOSE` decides; `SumsAnyOrder` makes the order immaterial, and
`SumOneMore`, `SumChanged`, `SumAppended`, `SumInFront` say how a sum grows.

What is proved and what is assumed about constants: `NoReport` and `NoFrame` are not
reports and frames; a `long` holds every `uint32_t` (`Options`; 64 and 32
bits where DPDK runs); the bounds of `Collector` give every packet a
number for its report (`MaxFrames + MaxFailures <= MaxReports`), since the code has no such
bound; frames have fewer than `MAX_NODES` hops, beyond which the behaviour is undefined.

Only model-checked: all liveness (`ImplementsFairQueue`, `EverySlotDrains`,
`RoomReturns`, `AcceptedIsSent`, `SendDataReturns`, `StopsWithNextFrame`, `SignalEnds`),
which is out of the provers' reach, and the six properties that do not hold. Every
safety property of a passing run is a theorem.

## Plan

In this order, the most important behaviour first:

1. done: ring, exporter and senders, packet loop.
2. done: `IntNode`, `IntPath`, `Checksum`.
3. done: `IntPsa`.
4. done: `Options` and `Collector`, the composition of loop and exporter.
5. done: proofs of all safety properties, of `ImplementsQueue` and of the two
   refinements in `Collector`.
6. Left: that a path of `IntPath` with two sources, or longer than the counters, is
   what the conditions of its theorems say it is (they are only shown to be
   sufficient); the safety half of the hypotheses under which `AcceptedIsSent` and
   `SignalEnds` hold.

## Not modelled, and why

- `query`, `createDatabase`, `load_flt`, `convertToUnixNs`: nothing calls them.
- Options that only name things or print (`-d`, `-u`, `-s`, `-k`, `-f`, `-l`, `-v`),
  and what is printed; delays between polls (`delay_usecs`), which are steps that
  change nothing.
- The text of the line protocol: only the number of records matters here.
- Bootstrap, hugepage and build scripts: commands on the host.
- t4p4s: what a node does with fields of headers that a packet lacks, or with
  payload taken for headers; IPv4 options; the port, queue and level 2
  identifiers of a record, and `int_hop_exceeded`, which nothing calls.
- t4p4s: several cores on the sequence register. `reg1` is read and written
  twice for a packet (`int_source.p4:44`), so two cores may give two packets one
  number. Nothing in the repository promises unique numbers, and how t4p4s locks
  a register is decided by its code generator, which is not part of it.
- p4c-dpdk: the UDP checksum, into which the deparser adds fields of headers
  that are not valid; the lengths of the report's outer headers; forwarding
  tables and ports; a node that is source and sink at once, which crashes
  according to the source; `tb_int_transit` without a default action, after which
  lengths grow from uninitialised metadata.
- `generate.py`, `swx_p4c.sh` and `int-cli` beyond the constants they produce:
  command-line plumbing around external tools.
