----------------------------- MODULE MCAudioRxTx -----------------------------
(* AudioRxTx with short buffers and few messages in flight. *)
EXTENDS AudioRxTx
==============================================================================
