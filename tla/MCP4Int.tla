------------------------------ MODULE MCP4Int -------------------------------
(* P4Int for TLC: a few frames of three flows, the first two of which have  *)
(* the same addresses; paths of no, one and two hops.                       *)
EXTENDS P4Int

Hop(ingress, egress) == [ingress |-> ingress, egress |-> egress]

Frame(key, port, seq, dstTs, meta_cnt, metas) ==
    [key |-> key, port |-> port, seq |-> seq, dstTs |-> dstTs,
     meta_cnt |-> meta_cnt, metas |-> metas]

MCFrames ==
    {Frame("a", "web", 2, 5, 2, <<Hop(1, 2), Hop(3, 4)>>),  \* TCP, twice
     Frame("a", "web", 1, 6, 1, <<Hop(4, 5)>>),             \* TCP, reordered
     Frame("a", "dns", 0, 7, 2, <<Hop(2, 3), Hop(4, 6)>>),  \* UDP, same hosts
     Frame("b", "dns", 0, 1, 1, <<Hop(6, 7)>>),             \* UDP, clock wraps
     Frame("b", "ntp", 0, 3, 0, <<Hop(7, 1)>>)}             \* UDP, no hop

Opt(hostValid, smpl_rate, tstmp) ==
    [hostValid |-> hostValid, smpl_rate |-> smpl_rate, tstmp |-> tstmp]

MCLoopOptions == {Opt(TRUE, 2, TRUE), Opt(TRUE, 0, FALSE), Opt(FALSE, 0, FALSE)}

MCFlowsOptions == {Opt(TRUE, 1, FALSE)}
=============================================================================
