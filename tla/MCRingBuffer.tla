---------------------------- MODULE MCRingBuffer ----------------------------
(* RingBuffer for TLC.  The values are not declared symmetric: the run has *)
(* liveness properties.                                                    *)
EXTENDS RingBuffer
=============================================================================
