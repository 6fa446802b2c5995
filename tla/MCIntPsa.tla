------------------------------ MODULE MCIntPsa ------------------------------
EXTENDS IntPsa, TLC

\* The defaults of generate.py; rules only; and a hop count that has two digits
\* in hexadecimal.
MCParameters ==
    {[n |-> 4,  a |-> 12, k |-> 12, g |-> FALSE],
     [n |-> 2,  a |-> 15, k |-> 8,  g |-> TRUE],
     [n |-> 16, a |-> 12, k |-> 12, g |-> FALSE]}

MCDefaults == {[n |-> 4, a |-> 12, k |-> 12, g |-> FALSE]}

TwoDigits == {[n |-> 16, a |-> 12, k |-> 12, g |-> FALSE]}

\* Six words for three hops; all eight headers for two, whose limit the nodes
\* do not find.
MCSourceTable ==
    "three" :> [hop_info |-> 6 * 256 + 3, ins_mask |-> 15 * 16 + 8]
    @@ "all" :> [hop_info |-> 10 * 256 + 2, ins_mask |-> 255]

MCSinkTable == 1 :> "remove_int" @@ 2 :> "send_report"

Host(proto, flow, port, dscp, route) ==
    [proto |-> proto, flow |-> flow, port |-> port, dscp |-> dscp, len |-> 60, route |-> route]

MCHostPackets ==
    {Host("udp", "three", 1, 8, 5), Host("udp", "three", 2, 8, 5),
     Host("udp", "other", 3, 0, 11), Host("tcp", "all", 0, 0, 4),
     Host("other", "other", 0, 0, 2)}

OneHost == {Host("udp", "other", 3, 0, 3)}

FarHost == {Host("udp", "other", 3, 0, 12)}

EmptyTable == <<>>
=============================================================================
