------------------------------ MODULE AudioLink ------------------------------
(***************************************************************************)
(* What jack_audio_send and jack_audio_receive have in common: the OSC     *)
(* messages they exchange and the two directions of the UDP link between   *)
(* them.  The link belongs to neither program; it is modelled from how the *)
(* two use it, which is send and forget.                                   *)
(***************************************************************************)
EXTENDS Integers, Sequences

CONSTANTS
  LocalRate,   \* the sample rate of the receiver's JACK server
  NoRate,      \* a remote_sample_rate of 0: not known yet
  MaxWire,     \* bound: messages in flight in one direction; more are lost
  MaxFaults    \* bound: messages lost, programs killed, /buffer requests

ASSUME LinkAssumption ==
  /\ LocalRate # NoRate
  /\ MaxWire \in Nat \ {0} /\ MaxFaults \in Nat

VARIABLES
  to_receiver, to_sender,  \* messages in flight, oldest first
  faults                   \* how many faults happened

link_vars == <<to_receiver, to_sender, faults>>

(* /offer and /audio, with what the receiver reads of them.                *)
Offer(rate) == [path |-> "/offer", rate |-> rate]
Audio(number, rate, channels) ==
  [path |-> "/audio", number |-> number, rate |-> rate, channels |-> channels]

Answers == {"/accept", "/deny", "/pause"}

(* lo_send_message *)
Sent(wire, message) == IF Len(wire) < MaxWire THEN Append(wire, message) ELSE wire

Fault == faults < MaxFaults /\ faults' = faults + 1

Without(wire, i) == SubSeq(wire, 1, i - 1) \o SubSeq(wire, i + 1, Len(wire))

LinkInit == to_receiver = <<>> /\ to_sender = <<>> /\ faults = 0

(* A message gets lost. *)
Lose ==
  /\ Fault
  /\ \/ /\ \E i \in DOMAIN to_receiver : to_receiver' = Without(to_receiver, i)
        /\ UNCHANGED to_sender
     \/ /\ \E i \in DOMAIN to_sender : to_sender' = Without(to_sender, i)
        /\ UNCHANGED to_receiver

==============================================================================
