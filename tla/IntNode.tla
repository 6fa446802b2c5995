------------------------------ MODULE IntNode -------------------------------
(***************************************************************************)
(* What one node of the t4p4s program (int_v1.0) does to one packet: the   *)
(* ingress control with its source, transit and sink stages, between the   *)
(* parser and the deparser.                                                *)
(*                                                                         *)
(* A packet is a record:                                                   *)
(*   l4                    "udp", "tcp" or "other"                         *)
(*   key, port, seq        addresses, ports, the TCP sequence number       *)
(*   dscp, totalLen, checksum   fields of the IPv4 header that change      *)
(*   rest                  the sum of its other words                      *)
(*   len                   udp.len                                         *)
(*   int                   the INT shim and header                         *)
(*   stack                 the INT records behind it, in packet order      *)
(* A packet has the INT code point exactly when it carries INT headers.    *)
(***************************************************************************)
EXTENDS Checksum, Sequences

CONSTANT Bytes  \* 2^8: how many values a bit<8> has

\* The first word of an IPv4 header, version to ecn, is below 17917.
ASSUME WidthAssumption == Bytes \in Nat /\ Bytes > 3 /\ Words > 17916

Byte == 0 .. Bytes - 1

IPv4_DSCP_INT == 32
INT_ALL_HEADER_LEN_BYTES == 12  \* shim and header
HOP_BYTES == 24                 \* the record of one node
HOP_WORDS == 6                  \* hop_metadata_len

Hops == [node : Nat, ingress : Nat, egress : Nat]

PacketsOf(ids, keys, ports) ==
    [id : ids, l4 : {"udp", "tcp", "other"}, key : keys, port : ports, seq : Nat,
     dscp : 0 .. 63, totalLen : Word, rest : Nat, len : Word, checksum : Word,
     int : [valid : BOOLEAN, len : Byte, dscp : 0 .. 63, remaining_hop_cnt : Byte, seq : Word],
     stack : Seq(Hops)]

NoInt == [valid |-> FALSE, len |-> 0, dscp |-> 0, remaining_hop_cnt |-> 0, seq |-> 0]

\* version ++ ihl ++ dscp ++ ecn
FirstWord(p) == 17664 + 4 * p.dscp

\* udp.len grows; the field of a TCP packet does not exist.
Lengthened(p, n) ==
    [p EXCEPT !.totalLen = (@ + n) % Words,
              !.len = IF p.l4 = "udp" THEN (@ + n) % Words ELSE @]

\* Int_source: the table has no entries and this default action.
configure_source(p, seq) ==
    [Lengthened(p, INT_ALL_HEADER_LEN_BYTES) EXCEPT
        !.int = [valid |-> TRUE, len |-> 3,  \* INT_ALL_HEADER_LEN_BYTES >> 2
                 dscp |-> p.dscp, remaining_hop_cnt |-> Bytes - 1, seq |-> seq],
        !.dscp = IPv4_DSCP_INT]

\* Mutant: the length in the shim is not updated.
Int_transit_unshimmed(p, hop) ==
    IF ~p.int.valid THEN p
    ELSE [Lengthened(p, HOP_BYTES) EXCEPT
            !.stack = <<hop>> \o @,
            !.int.remaining_hop_cnt = (@ - 1) % Bytes]

\* Mutant: the record is put behind those of the earlier nodes.
Int_transit_behind(p, hop) ==
    IF ~p.int.valid THEN p
    ELSE [Lengthened(p, HOP_BYTES) EXCEPT
            !.stack = Append(@, hop),
            !.int.len = (@ + HOP_WORDS) % Bytes,
            !.int.remaining_hop_cnt = (@ - 1) % Bytes]

\* Int_transit: the deparser puts the node's record right behind the headers.
Int_transit(p, hop) ==
    IF ~p.int.valid THEN p
    ELSE [Lengthened(p, HOP_BYTES) EXCEPT
            !.stack = <<hop>> \o @,
            !.int.len = (@ + HOP_WORDS) % Bytes,
            !.int.remaining_hop_cnt = (@ - 1) % Bytes]

\* The words of p that may change, out of its checksum and back in.
checksum_without(p) ==
    ip_checksum_sub(ip_checksum_sub(p.checksum, p.totalLen), FirstWord(p))

checksum_with(checksum, p) ==
    ip_checksum_add(ip_checksum_add(checksum, p.totalLen), FirstWord(p))

\* The ingress control of a node without SINK_ENABLE.
ingress(p, SRC_ENABLE, seq, hop) ==
    IF p.l4 = "other" THEN p
    ELSE LET sourced == IF SRC_ENABLE THEN configure_source(p, seq) ELSE p
             marked  == Int_transit(sourced, hop)
         IN  [marked EXCEPT !.checksum = checksum_with(checksum_without(p), marked)]

\* Mutant: the length of a record is given in bytes.
Int_sink_in_bytes(p, tstamp) ==
    [key |-> p.key, port |-> p.port, seq |-> IF p.l4 = "tcp" THEN p.seq ELSE 0,
     dstTs |-> tstamp,
     meta_len |-> (p.int.len - 3) % Bytes, hop_meta_len |-> HOP_BYTES,
     metas |-> p.stack]

\* Int_sink: the report frame of a UDP or TCP packet with INT headers.
Int_sink(p, tstamp) ==
    [key |-> p.key, port |-> p.port, seq |-> IF p.l4 = "tcp" THEN p.seq ELSE 0,
     dstTs |-> tstamp,
     meta_len |-> (p.int.len - 3) % Bytes, hop_meta_len |-> HOP_WORDS,
     metas |-> p.stack]
=============================================================================
