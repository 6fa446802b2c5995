------------------------------- MODULE IntPsa -------------------------------
(***************************************************************************)
(* The INT program for the p4c-dpdk compiler (int_p4c-dpdk/src): packets   *)
(* pass a source, transit nodes and a sink, all generated by generate.py   *)
(* with the same parameters.  A node inserts the metadata headers the      *)
(* instruction mask asks for, as long as the hop count allows it; the sink *)
(* turns the packet into a report or strips the INT headers.               *)
(* A header is its number (int_set_header_0 to _7), metadata values are    *)
(* left out, and so is the UDP checksum, into which the deparser adds the  *)
(* fields of headers that are not valid.  The IPv4 checksum is the sum it  *)
(* stands for: subtract and add are then those of numbers modulo 2^16 - 1. *)
(***************************************************************************)
EXTENDS Integers, FiniteSets, FiniteSetsExt, Functions, Sequences

CONSTANTS
    Parameters,   \* what generate.py may be called with
    SourceTable,  \* entries of tb_int_source, by flow
    SinkTable,    \* entries of table_sink_config, by UDP source port
    HostPackets,  \* packets the hosts may send, with the number of nodes ahead
    Undefined,    \* values a field may have that was never written
    MaxPackets,   \* bound: how many packets are sent
    SeqNumbers    \* 2^32, the values of report_seq_num_register

\* -n in hexadecimal needs digits that are decimal ones too, or headers.p4 does
\* not compile.  -l is no parameter: from the command line it comes as a string,
\* which the template's format refuses.
ASSUME ParametersAssumption ==
    \A g \in Parameters :
        /\ g.n \in 1 .. 255 /\ g.n \div 16 < 10 /\ g.n % 16 < 10
        /\ g.a \in 0 .. 15 /\ g.k \in 0 .. 15 /\ g.g \in BOOLEAN

Values16 == 65536  \* 2^16

ASSUME TablesAssumption ==
    /\ \A f \in DOMAIN SourceTable :
        SourceTable[f].hop_info \in 0 .. Values16 - 1 /\ SourceTable[f].ins_mask \in 0 .. 255
    /\ \A port \in DOMAIN SinkTable : SinkTable[port] \in {"send_report", "remove_int"}

\* A packet the host sends with DSCP 0x20 would be parsed as if INT headers
\* followed: such packets are left out.
ASSUME PacketsAssumption ==
    \A h \in HostPackets :
        /\ h.proto \in {"udp", "tcp", "other"}
        /\ h.dscp \in 0 .. 255 /\ h.dscp % 64 # 32
        /\ h.len \in 28 .. Values16 - 1
        /\ h.route \in Nat \ (0 .. 1)

ASSUME NumbersAssumption ==
    Undefined \subseteq 0 .. Values16 - 1 /\ MaxPackets \in Nat /\ SeqNumbers \in Nat \ {0}

VARIABLES
    generated,  \* the parameters all nodes were generated with
    packets,    \* how many packets were sent
    flying,     \* packets on their way between two nodes
    stripped,   \* packets the sink took the INT headers from
    report_seq_num_register,
    reports     \* what the sink sent to the collector, in order

vars == <<generated, packets, flying, stripped, report_seq_num_register, reports>>

-----------------------------------------------------------------------------
(* headers.p4 as generate.py writes it. *)

HOP_META_LEN == 6
IPv4_DSCP_INT == 32
INT_ALL_HEADER_LEN_BYTES == 6 + 14

\* -n is written with two hexadecimal digits, and these are put behind 0x in
\* HOP_INFO but stand alone, as a decimal number, in MAX_HOP_16.
HOP_INFO   == 256 * HOP_META_LEN + generated.n
MAX_HOP_16 == 10 * (generated.n \div 16) + (generated.n % 16)

INSTRUCTION_MASK_COMPLET == 16 * generated.a + generated.k

\* Words of the metadata headers 0 to 7.  The widths of PortId_t and of
\* Timestamp_t, 16 and 64 bits here, are those of the compiler's psa.p4.
Words(headers) == Cardinality(headers) + Cardinality(headers \cap {4, 5})

-----------------------------------------------------------------------------
(* MyIngress: a node works on the packet p and on ck_helper. *)

configure_source(s, rule) ==
    [p  |-> [s.p EXCEPT !.int = TRUE,
                        !.shimLen = INT_ALL_HEADER_LEN_BYTES \div 4,
                        !.c_e = 0,
                        !.hop_info = rule.hop_info,
                        !.mask = rule.ins_mask,
                        !.shimDscp = s.p.dscp,
                        !.dscp = IPv4_DSCP_INT,
                        !.totalLen = (@ + INT_ALL_HEADER_LEN_BYTES) % Values16,
                        !.udpLen = IF s.p.host.proto = "udp"
                                   THEN (@ + INT_ALL_HEADER_LEN_BYTES) % Values16 ELSE @],
     ck |-> [old_dscp |-> 0, old_totalLen |-> s.p.totalLen, ipv4_dscp |-> IPv4_DSCP_INT]]

default_conf == [hop_info |-> HOP_INFO, ins_mask |-> INSTRUCTION_MASK_COMPLET]

Monitored(flow) == flow \in DOMAIN SourceTable \/ ~generated.g

RuleOf(flow) == IF flow \in DOMAIN SourceTable THEN SourceTable[flow] ELSE default_conf

tb_int_source(s) ==
    IF Monitored(s.p.host.flow) THEN configure_source(s, RuleOf(s.p.host.flow)) ELSE s

\* The headers whose bit is set: bit 3 of the nibble stands for the first.
OfNibble(nibble, first) == {first + i : i \in {i \in 0 .. 3 : (nibble \div 2^(3 - i)) % 2 = 1}}

\* The entries of the two tables: the headers they set and the words they
\* count.  0003_i3 sets header 5 where the mask asks for header 3.
tb_int_inst_0003(mask) ==
    LET nibble == (mask \div 16) % 16
    IN  IF nibble = 3
        THEN [headers |-> {5, 2}, words |-> 3]
        ELSE [headers |-> OfNibble(nibble, 0), words |-> Cardinality(OfNibble(nibble, 0))]

\* Mutant: the egress timestamp is counted as one word.
tb_int_inst_0407_short(mask) ==
    LET headers == OfNibble(mask % 16, 4)
    IN  [headers |-> headers, words |-> Words(headers) - Cardinality(headers \cap {5})]

tb_int_inst_0407(mask) ==
    LET headers == OfNibble(mask % 16, 4)
    IN  [headers |-> headers, words |-> Words(headers)]

\* Mutant: c_e is not looked at.
int_hop_exceeded_again(p) == [p EXCEPT !.c_e = @ + 1]

int_hop_exceeded(p) == IF p.c_e = 0 \/ p.c_e = 256 THEN [p EXCEPT !.c_e = @ + 1] ELSE p

\* Mutant: the count is compared after its decrement.
HopsLeftAfter(p) == p.hop_info - 1 # HOP_INFO - MAX_HOP_16

HopsLeft(p) == p.hop_info # HOP_INFO - MAX_HOP_16

\* The new headers are emitted in front of those of the nodes before.
InsertMetadata(p) ==
    LET upper == tb_int_inst_0003(p.mask)
        lower == tb_int_inst_0407(p.mask)
        words == upper.words + lower.words
    IN  [p EXCEPT !.hop_info = (@ - 1) % Values16,
                  !.totalLen = (@ + 4 * words) % Values16,
                  !.udpLen = IF p.host.proto = "udp" THEN (@ + 4 * words) % Values16 ELSE @,
                  !.shimLen = (@ + words) % 256,
                  !.stack = <<[node |-> p.passed, headers |-> upper.headers \cup lower.headers]>> \o @]

\* Mutant: the hop count goes down also at a node that inserts nothing.
TransitCounted(s) ==
    [p  |-> IF ~s.p.int THEN s.p
            ELSE IF HopsLeft(s.p) THEN InsertMetadata(s.p)
            ELSE int_hop_exceeded([s.p EXCEPT !.hop_info = (@ - 1) % Values16]),
     ck |-> [s.ck EXCEPT !.old_totalLen = s.p.totalLen]]

\* Mutant: ck_helper is set when the lengths have been updated.
TransitLate(s) ==
    LET p == IF ~s.p.int THEN s.p
             ELSE IF HopsLeft(s.p) THEN InsertMetadata(s.p)
             ELSE int_hop_exceeded(s.p)
    IN  [p |-> p, ck |-> [s.ck EXCEPT !.old_totalLen = p.totalLen]]

\* The section TRANSIT, which every node executes.
Transit(s) ==
    [p  |-> IF ~s.p.int THEN s.p
            ELSE IF HopsLeft(s.p) THEN InsertMetadata(s.p)
            ELSE int_hop_exceeded(s.p),
     ck |-> [s.ck EXCEPT !.old_totalLen = s.p.totalLen]]

\* total_hops_len is never written: the pipeline's memory holds 0.
remove_int(s) ==
    LET totalLen == (s.p.totalLen - INT_ALL_HEADER_LEN_BYTES) % Values16
    IN  [p  |-> [s.p EXCEPT !.dscp = s.p.shimDscp,
                            !.totalLen = totalLen,
                            !.udpLen = IF s.p.host.proto = "udp"
                                       THEN (totalLen - INT_ALL_HEADER_LEN_BYTES) % Values16 ELSE @,
                            !.int = FALSE,
                            !.stack = SelectSeq(@, LAMBDA r : r.node # s.p.passed)],
         ck |-> [s.ck EXCEPT !.old_totalLen = s.p.totalLen,
                             !.old_dscp = IPv4_DSCP_INT,
                             !.ipv4_dscp = 0]]

\* MyIngressDeparser.
Deparsed(s, source) ==
    [s.p EXCEPT !.ipSum = (@ - s.ck.old_totalLen + s.p.totalLen
                           + (IF source THEN s.ck.ipv4_dscp - s.ck.old_dscp ELSE 0)) % (Values16 - 1)]

-----------------------------------------------------------------------------
(* The nodes of the path. *)

\* A packet as the host sends it.
Fresh(host) ==
    [host |-> host, number |-> packets + 1, passed |-> 0,
     dscp |-> host.dscp, totalLen |-> host.len,
     udpLen |-> IF host.proto = "udp" THEN host.len - 20 ELSE 0,
     ipSum |-> (host.len + host.dscp) % (Values16 - 1),
     int |-> FALSE, shimLen |-> 0, shimDscp |-> 0, hop_info |-> 0, mask |-> 0, c_e |-> 0,
     stack |-> <<>>]

Init ==
    /\ generated \in Parameters
    /\ packets = 0
    /\ flying = {} /\ stripped = {}
    /\ report_seq_num_register = 0
    /\ reports = <<>>

Send(host) ==
    /\ packets < MaxPackets
    /\ packets' = packets + 1
    /\ flying' = flying \cup {Fresh(host)}
    /\ UNCHANGED <<generated, stripped, report_seq_num_register, reports>>

Lose(p) ==
    /\ flying' = flying \ {p}
    /\ UNCHANGED <<generated, packets, stripped, report_seq_num_register, reports>>

IsSource(p) == p.passed = 1
IsSink(p)   == p.passed = p.host.route

\* What a node makes of a packet before the section SINK; ck holds what
\* ck_helper happens to hold.  Other protocols only pass the deparser.
AtNode(p, ck) ==
    LET s == [p |-> [p EXCEPT !.passed = @ + 1], ck |-> ck]
    IN  IF p.host.proto = "other" THEN s
        ELSE Transit(IF IsSource(s.p) THEN tb_int_source(s) ELSE s)

Helpers == [old_totalLen : Undefined, old_dscp : Undefined, ipv4_dscp : Undefined]

\* table_sink_config is looked up by the UDP source port, for a TCP packet
\* too, where it may be anything.
SinkActions(p) ==
    IF p.host.proto = "udp" /\ p.host.port \in DOMAIN SinkTable THEN {SinkTable[p.host.port]}
    ELSE {IF generated.g THEN "NoAction" ELSE "send_report"}
            \cup {SinkTable[port] : port \in IF p.host.proto = "udp" THEN {} ELSE DOMAIN SinkTable}

\* What the node sends on.
Emitted(p) == {Deparsed(AtNode(p, ck), p.passed = 0) : ck \in Helpers}

\* A node that is not the sink, and a sink that finds no INT headers or no
\* action for them.
Forward(p) ==
    /\ \E q \in Emitted(p) :
        /\ ~IsSink(q) \/ ~q.int \/ "NoAction" \in SinkActions(q)
        /\ flying' = (flying \ {p}) \cup IF IsSink(q) THEN {} ELSE {q}
    /\ UNCHANGED <<generated, packets, stripped, report_seq_num_register, reports>>

\* Mutant: the register is read and not written back.
SendReportUncounted(p) ==
    /\ \E q \in Emitted(p) :
        /\ IsSink(q) /\ q.int /\ "send_report" \in SinkActions(q)
        /\ reports' = Append(reports, [seq_num |-> report_seq_num_register, packet |-> q])
    /\ flying' = flying \ {p}
    /\ UNCHANGED <<generated, packets, stripped, report_seq_num_register>>

\* The report is sent in front of the packet, which goes no further.
SendReport(p) ==
    /\ \E q \in Emitted(p) :
        /\ IsSink(q) /\ q.int /\ "send_report" \in SinkActions(q)
        /\ reports' = Append(reports, [seq_num |-> report_seq_num_register, packet |-> q])
    /\ report_seq_num_register' = (report_seq_num_register + 1) % SeqNumbers
    /\ flying' = flying \ {p}
    /\ UNCHANGED <<generated, packets, stripped>>

Strip(p) ==
    /\ \E s \in {AtNode(p, ck) : ck \in Helpers} :
        /\ IsSink(s.p) /\ s.p.int /\ "remove_int" \in SinkActions(s.p)
        /\ stripped' = stripped \cup {Deparsed(remove_int(s), FALSE)}
    /\ flying' = flying \ {p}
    /\ UNCHANGED <<generated, packets, report_seq_num_register, reports>>

Next ==
    \/ \E host \in HostPackets : Send(host)
    \/ \E p \in flying : Lose(p) \/ Forward(p) \/ SendReport(p) \/ Strip(p)

Spec == Init /\ [][Next]_vars

-----------------------------------------------------------------------------
\* Packets with INT headers, on their way or inside a report.
Monitoring == {p \in flying : p.int} \cup {reports[n].packet : n \in DOMAIN reports}

TypeOK ==
    /\ generated \in Parameters
    /\ packets \in 0 .. MaxPackets
    /\ \A p \in flying \cup stripped \cup Monitoring :
        /\ p.host \in HostPackets
        /\ p.passed \in 0 .. p.host.route
        /\ p.dscp \in 0 .. 255
        /\ {p.totalLen, p.udpLen, p.hop_info} \subseteq 0 .. Values16 - 1
        /\ p.ipSum \in 0 .. Values16 - 2
        /\ p.shimLen \in 0 .. 255
        /\ p.c_e \in {0, 1}
    /\ report_seq_num_register \in 0 .. SeqNumbers - 1

MisCounted(mask) == (mask \div 16) % 16 = 3

WordsOf(stack) == SumFunction([i \in DOMAIN stack |-> Words(stack[i].headers)])

\* Bytes of the INT headers and of the metadata of all nodes.
IntBytes(p) == INT_ALL_HEADER_LEN_BYTES + 4 * WordsOf(p.stack)

\* The lengths in the IPv4, UDP and shim headers, which the nodes add to one
\* after the other from the counts of two tables, agree with the headers that
\* are emitted, as far as their 16 and 8 bits go.  The mask 0x3_ is left out: of
\* 0003_i3 and an action of 0407 that sets header 5 as well only one header
\* comes out and two are counted.
LengthsAgree ==
    \A p \in Monitoring :
        ~MisCounted(p.mask) =>
            /\ p.totalLen = (p.host.len + IntBytes(p)) % Values16
            /\ p.host.proto = "udp" => p.udpLen = (p.totalLen - 20) % Values16
            /\ p.shimLen = (IntBytes(p) \div 4) % 256

\* What the rule of the packet's source says, as int_template.p4 and
\* Comparison.md read it: the words of one record, and the number of nodes that
\* may insert theirs.
MetaLen(p) == RuleOf(p.host.flow).hop_info \div 256
MaxHop(p)  == RuleOf(p.host.flow).hop_info % 256

\* The metadata in the packet are those of the first nodes of its path, the
\* newest in front, one set each, up to that number; and the packet is marked
\* as soon as a node had to leave its own out.
FirstHopsIn(p) ==
    LET hops == Min({p.passed, MaxHop(p)})
    IN  /\ [i \in DOMAIN p.stack |-> p.stack[i].node] = [i \in 1 .. hops |-> hops + 1 - i]
        /\ p.c_e = IF p.passed > hops THEN 1 ELSE 0

\* "Upper 8b corresponds to HOP_META_LEN lower 8b to MAX_HOP" (Comparison.md),
\* "Maximum number of transit nodes" (generate.py, -n): every packet has the
\* records of as many nodes as its rule allows.
HopLimit ==
    \A p \in Monitoring : FirstHopsIn(p)

\* It has, where the nodes find the limit: they compare the whole hop_info with
\* a constant into which -n went once in hexadecimal and once in decimal, and
\* in which the metadata length is their own.
FirstHopsRecorded ==
    \A p \in Monitoring :
        (generated.n < 10 /\ MetaLen(p) = HOP_META_LEN) => FirstHopsIn(p)

\* The two numbers a collector takes the stack apart with: what is left of the
\* hop count tells the number of records, and each has the words the rule
\* announces, if these are the words of its mask (nothing checks that they
\* are), as long as the nodes keep to the rule's number and shim.len can say
\* it.  The mask 0x3_ is left out here too: 0003_i3 counts 3 words where the
\* mask asks for 2.
StackCanBeSplit ==
    \A p \in Monitoring :
        LET rule == RuleOf(p.host.flow)
            asked == OfNibble(rule.ins_mask \div 16, 0) \cup OfNibble(rule.ins_mask % 16, 4)
        IN  /\ Len(p.stack) <= MaxHop(p) /\ MetaLen(p) = Words(asked)
            /\ ~MisCounted(rule.ins_mask) /\ IntBytes(p) \div 4 < 256
            => /\ p.hop_info \div 256 = MetaLen(p)
               /\ p.shimLen - INT_ALL_HEADER_LEN_BYTES \div 4
                    = MetaLen(p) * (rule.hop_info - p.hop_info)

\* By how much the IPv4 checksum misses the header.
Drift(p) == (p.totalLen + p.dscp - p.ipSum) % (Values16 - 1)

\* A checksum that was right stays right at the transit nodes and at a sink
\* that reports, whatever these insert; and one that was wrong stays wrong, so
\* that no node hides what happened before it.
TransitKeepsChecksum ==
    [][\A q \in Monitoring' :
        \A p \in flying :
            (p.int /\ q.number = p.number) => Drift(q) = Drift(p)]_vars

\* "Seq numbers | OK" (Comparison.md): the reports carry consecutive numbers,
\* although packets that are stripped, or that carry no INT headers, pass the
\* same sink in between.
ReportsNumbered ==
    \A n \in DOMAIN reports : reports[n].seq_num = (n - 1) % SeqNumbers

\* "Checksum | OK" (Comparison.md): the IPv4 checksum of every packet with INT
\* headers is valid.
ChecksumValid ==
    \A p \in Monitoring : Drift(p) = 0
=============================================================================
