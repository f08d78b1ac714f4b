-------------------------- MODULE MCRingBufferSPSC ---------------------------
(* RingBufferSPSC on a buffer of a few bytes. *)
EXTENDS RingBufferSPSC
==============================================================================
