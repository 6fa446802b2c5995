----------------------------- MODULE MCIntPath ------------------------------
(* IntPath for TLC: one UDP, one TCP and one other packet, with checksums   *)
(* near the ends of the 16 bits.                                           *)
EXTENDS IntPath

\* The checksum of a header whose other words add up to sum.
ChecksumOf(sum) == (Words - 1) - (sum % (Words - 1))

Packet(id, l4, seq, dscp, totalLen, rest) ==
    [id |-> id, l4 |-> l4, key |-> "a", port |-> "web", seq |-> seq, dscp |-> dscp,
     totalLen |-> totalLen, rest |-> rest, len |-> IF l4 = "udp" THEN totalLen - 20 ELSE 0,
     checksum |-> ChecksumOf(rest + totalLen + 17664 + 4 * dscp),
     int |-> NoInt, stack |-> <<>>]

MCPackets ==
    {Packet(1, "udp", 0, 0, 60, 47811),     \* the sum is 65535
     Packet(2, "tcp", 7, 46, 1400, 46300),  \* adding overflows
     Packet(3, "other", 0, 0, 84, 1000)}

MCSourceSets == {{1}, {2}}
OneSource == {{1}}
=============================================================================
