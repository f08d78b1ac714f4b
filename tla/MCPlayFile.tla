----------------------------- MODULE MCPlayFile ------------------------------
(* PlayFile with a file of a few frames and periods of two. *)
EXTENDS PlayFile
==============================================================================
