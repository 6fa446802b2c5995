--------------------------- MODULE MCIntExporter ----------------------------
(* IntExporter for TLC: the options of the runs. *)
EXTENDS IntExporter

Opt(raw_buffer, batch, protocol) ==
    [raw_buffer |-> raw_buffer, batch |-> batch, protocol |-> protocol, hostValid |-> TRUE]

\* Two senders of each protocol; one, whose batch is filled by the second
\* report or by any; none; no host; and "tcp", which is unknown.
MCExporterOptions ==
    {Opt(2, 6, "http"), Opt(2, 6, "udp"), Opt(1, 4, "http"), Opt(1, 0, "https"),
     Opt(0, 6, "http"), Opt(2, 6, "tcp"), [Opt(1, 6, "http") EXCEPT !.hostValid = FALSE]}

MCUdpOptions == {Opt(1, 4, "udp")}

MCHttpOptions == {Opt(1, 3, "http")}
=============================================================================
