------------------------------ MODULE IntPath -------------------------------
(***************************************************************************)
(* A path of t4p4s nodes to the collector: packets cross the nodes one by  *)
(* one, over links that lose and reorder; the last node is the sink, whose *)
(* frames the collector turns into reports.  The nodes' clocks agree.      *)
(***************************************************************************)
EXTENDS IntNode, Telemetry, FiniteSets

CONSTANTS
    N,           \* how many nodes; node N has SINK_ENABLE
    SourceSets,  \* which nodes may have SRC_ENABLE
    Packets      \* what the host sends, in any order

PacketType ==
    PacketsOf({p.id : p \in Packets}, {p.key : p \in Packets}, {p.port : p \in Packets})

\* Every packet passes a source before the sink, and none has the code point of
\* INT before that: otherwise fields of headers that are not there are read.
ASSUME PathAssumption ==
    /\ N \in Nat \ {0}
    /\ SourceSets \subseteq (SUBSET (1 .. N - 1)) \ {{}}
    /\ \A p \in Packets :
        /\ p \in PacketType
        /\ p.int = NoInt /\ p.stack = <<>> /\ p.dscp # IPv4_DSCP_INT
        /\ ValidChecksum(p.checksum, p.rest + p.totalLen + FirstWord(p))
        /\ \A q \in Packets : p.id = q.id => p = q

VARIABLES
    now,      \* the clock
    sources,  \* the nodes compiled with SRC_ENABLE
    unsent,   \* packets the host has still to send
    link,     \* per node: the packets on the way to it
    reg1,     \* per node: the sequence register
    frames    \* what the sink sent to the collector, with the packet

vars == <<now, sources, unsent, link, reg1, frames>>

Init ==
    /\ now = 1
    /\ sources \in SourceSets
    /\ unsent = Packets
    /\ link = [n \in 1 .. N |-> {}]
    /\ reg1 = [n \in 1 .. N |-> 0]
    /\ frames = {}

-----------------------------------------------------------------------------
Send(p) ==
    /\ p \in unsent
    /\ unsent' = unsent \ {p}
    /\ link' = [link EXCEPT ![1] = @ \cup {p}]
    /\ UNCHANGED <<now, sources, reg1, frames>>

\* Node n, before the sink, processes and forwards p.
Forward(n, p) ==
    /\ n < N
    /\ p \in link[n]
    /\ LET seq == (reg1[n] + 1) % Words
           hop == [node |-> n, ingress |-> now, egress |-> now + 1]
       IN  /\ link' = [link EXCEPT ![n] = @ \ {p},
                                   ![n + 1] = @ \cup {ingress(p, n \in sources, seq, hop)}]
           /\ reg1' = [reg1 EXCEPT ![n] = IF n \in sources /\ p.l4 # "other" THEN seq ELSE @]
    /\ now' = now + 2
    /\ UNCHANGED <<sources, unsent, frames>>

\* The sink turns p into a report frame; what is neither UDP nor TCP leaves.
Deliver(p) ==
    /\ p \in link[N]
    /\ link' = [link EXCEPT ![N] = @ \ {p}]
    /\ frames' = IF p.l4 = "other" THEN frames
                 ELSE frames \cup {[packet |-> p, frame |-> Int_sink(p, now)]}
    /\ now' = now + 1
    /\ UNCHANGED <<sources, unsent, reg1>>

Lose(n, p) ==
    /\ p \in link[n]
    /\ link' = [link EXCEPT ![n] = @ \ {p}]
    /\ UNCHANGED <<now, sources, unsent, reg1, frames>>

Next ==
    \/ \E p \in unsent : Send(p)
    \/ \E n \in 1 .. N : \E p \in link[n] : Forward(n, p) \/ Lose(n, p)
    \/ \E p \in link[N] : Deliver(p)

Spec == Init /\ [][Next]_vars

-----------------------------------------------------------------------------
OnTheWay == UNION {link[n] : n \in 1 .. N}

\* The packet the host sent, of which p is what became on the way.
Original(p) == CHOOSE o \in Packets : o.id = p.id

TypeOK ==
    /\ now \in Nat
    /\ sources \in SourceSets
    /\ unsent \subseteq Packets
    /\ reg1 \in [1 .. N -> Word]
    /\ link \in [1 .. N -> SUBSET PacketType]
    /\ \A d \in frames : d.packet \in PacketType

\* The three lengths a packet carries agree with the headers and records that
\* are in it, wherever it is: those of IPv4 and UDP with what was added to the
\* packet the host sent, that of the shim, in words, with the INT headers.
LengthsAgree ==
    \A p \in OnTheWay :
        LET added == IF p.int.valid
                     THEN INT_ALL_HEADER_LEN_BYTES + HOP_BYTES * Len(p.stack) ELSE 0
        IN  /\ p.totalLen = Original(p).totalLen + added
            /\ p.l4 = "udp" => p.len = Original(p).len + added
            /\ p.int.valid => 4 * p.int.len = added

\* The IPv4 checksum, updated word by word at every node, stays valid.
ChecksumStaysValid ==
    \A p \in OnTheWay : ValidChecksum(p.checksum, p.rest + p.totalLen + FirstWord(p))

\* A packet carries one record of each node from the source on, the newest
\* first, with times in the order of the path; the hop count and the marking
\* agree with it.
StackIsPath ==
    \A n \in 1 .. N : \A p \in link[n] :
        LET hops == Len(p.stack)
        IN  /\ \A i \in 1 .. hops :
                 /\ p.stack[i].node = n - i
                 /\ i > 1 => p.stack[i].egress <= p.stack[i - 1].ingress
            /\ p.int.valid <=> (hops > 0 /\ p.stack[hops].node \in sources)
            /\ p.int.valid => p.int.remaining_hop_cnt = Bytes - 1 - hops
            /\ p.int.valid => (p.dscp = IPv4_DSCP_INT /\ p.int.dscp = Original(p).dscp)
            /\ (p.l4 # "other" /\ \E s \in sources : s < n) => p.int.valid

-----------------------------------------------------------------------------
(* The collector. *)

\* process_packet: the frame with the number of hops computed from it.
Received(f) ==
    [key |-> f.key, port |-> f.port, seq |-> f.seq, dstTs |-> f.dstTs,
     meta_cnt |-> f.meta_len \div f.hop_meta_len, metas |-> f.metas]

\* The report of a frame of a new flow, without option -t.
Reported(f) ==
    Report(Received(f), [seq |-> 0, prev_dstTs |-> 0], [i \in 0 .. N |-> 0], FALSE)

\* The collector finds one record per node in front of the sink, and the delays
\* it reports for them are those of the nodes; a UDP packet has number 0, and
\* a TCP packet with another number is told apart from it.
ReportsThePath ==
    \A d \in frames :
        LET r == Reported(d.frame)
            hops == Len(d.packet.stack)
        IN  /\ DOMAIN r.node_meta = 0 .. hops
            /\ \A i \in 1 .. hops :
                 r.node_meta[i - 1].hop_delay = d.packet.stack[i].egress - d.packet.stack[i].ingress
            /\ (d.packet.l4 = "udp" \/ d.packet.seq # 0) => r.header.protocol = d.packet.l4

\* "Convert source timestamp" (p4int.cc, get_int_node_data): the timestamp a
\* report gives as the packet's origin is the one of the source.
OrigIsSource ==
    \A d \in frames :
        Reported(d.frame).origTs = d.packet.stack[Len(d.packet.stack)].ingress
=============================================================================
