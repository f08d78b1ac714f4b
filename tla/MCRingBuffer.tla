---------------------------- MODULE MCRingBuffer -----------------------------
(* RingBuffer on a buffer of a few bytes. *)
EXTENDS RingBuffer
==============================================================================
