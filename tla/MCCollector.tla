---------------------------- MODULE MCCollector -----------------------------
(* Collector for TLC: two frames, and command lines that run, that run      *)
(* without a use, that fail, and that end the process later.               *)
EXTENDS Collector

Arg(letter, value) == [letter |-> letter, value |-> value]
Flag(letter) == Arg(letter, "")

Frame(key, seq, dstTs, meta_cnt) ==
    [key |-> key, port |-> "web", seq |-> seq, dstTs |-> dstTs, meta_cnt |-> meta_cnt,
     metas |-> [i \in 1 .. meta_cnt |-> [ingress |-> i, egress |-> i + 1]]]

MCFrames == {Frame("a", 1, 5, 1), Frame("b", 0, 7, 2)}

Host == <<Flag("c"), Arg("r", "http")>>

MCCommands ==
    {Host \o <<Arg("p", 86), Arg("b", 4), Arg("b", 1)>>,
     Host \o <<Arg("b", 1), Arg("i", 2), Flag("t")>>,
     <<Flag("c"), Arg("r", "udp"), Arg("b", 3), Arg("m", 2)>>,
     Host \o <<Arg("i", 0)>>,                  \* no sender at all
     <<Arg("r", "http")>>,                     \* no host
     <<Flag("c")>>,                            \* no protocol
     Host \o <<Arg("m", 0)>>,
     Host \o <<Arg("m", 8192), Arg("p", 86)>>, \* -m leaves ERANGE to -p
     Host \o <<Arg("p", 1100)>>,               \* more than 16 bits
     Host \o <<Arg("p", 16384)>>,              \* more than 64 bits
     Host \o <<Arg("b", 8191), Arg("p", 1023), Arg("i", 1 - 4096)>>,  \* the last without ERANGE
     Host \o <<Arg("b", 0 - 8193), Arg("p", 86)>>,
     Host \o <<Flag("h")>>, <<Flag("?")>> \o Host}

Stale(protocol) ==
    [hostValid |-> TRUE, batch |-> 7, tstmp |-> TRUE, smpl_rate |-> 7, raw_buffer |-> 1,
     protocol |-> protocol, port |-> 7]

MCStarts ==
    [argv : MCCommands, opt : {Stale("")}]
    \cup {[argv |-> <<Flag("c")>>, opt |-> Stale("udp")]}
=============================================================================
