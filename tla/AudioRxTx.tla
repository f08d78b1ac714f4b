------------------------------ MODULE AudioRxTx ------------------------------
(***************************************************************************)
(* jack_audio_send and jack_audio_receive over a link that may lose        *)
(* messages, either program being killed and started again.                *)
(***************************************************************************)
EXTENDS AudioSend, AudioReceive

vars == <<link_vars, sender, receive_vars>>

Init == LinkInit /\ SenderInit /\ ReceiverInit

Next == \/ Sender /\ UNCHANGED receive_vars
        \/ Receiver /\ UNCHANGED sender
        \/ Lose /\ UNCHANGED <<sender, receive_vars>>

Spec == Init /\ [][Next]_vars

(* JACK runs both callbacks every cycle, both OSC threads and both main    *)
(* loops run, and only MaxFaults messages are lost.  Nobody has to start a *)
(* program again.                                                          *)
FairSpec ==
  /\ Spec
  /\ WF_vars(sender_process /\ UNCHANGED receive_vars)
  /\ WF_vars(sender_osc /\ UNCHANGED receive_vars)
  /\ WF_vars(SenderStops /\ UNCHANGED receive_vars)
  /\ WF_vars(receiver_osc /\ UNCHANGED sender)
  /\ WF_vars(receiver_process /\ UNCHANGED sender)
  /\ WF_vars(ReceiverStops /\ UNCHANGED sender)

------------------------------------------------------------------------------
TypeOK ==
  /\ Len(to_receiver) <= MaxWire /\ Len(to_sender) <= MaxWire
  /\ \A i \in DOMAIN to_sender : to_sender[i] \in Answers
  /\ faults \in 0 .. MaxFaults
  /\ sender.msg_sequence_number \in 1 .. MaxNumber
  /\ sender.cycle \in {"idle", "offered", "sent", "count_offer", "count_audio"}
  /\ receiver.message_number \in 0 .. MaxNumber
  /\ receiver.port_count \in 0 .. OutputPorts
  /\ receiver.remote_sample_rate \in SenderRates \cup {NoRate}
  /\ receiver.pre_buffer_counter \in Nat
  /\ rb \in Seq(Port) /\ Len(rb) <= Capacity
  /\ osc.at \in {"idle", "enable", "write", "count"}
  /\ cycle.at \in {"idle", "silence", "zero", "read"}
  /\ ports \in [Port -> Port \cup {Silence}]

(* Each output port plays the sender's channel of the same number: "test   *)
(* correct channel mapping (sender channel n == receiver channel n)"       *)
(* (audio_rxtx/tests/test1.sh:4).                                          *)
ChannelsMatch == \A p \in Port : ports[p] \in {p, Silence}

(* A receiver that is still buffering when a cycle is over left silence in *)
(* its ports: "receiver fills playout buffer at any time with zero         *)
(* (silence) if there is no audio data to play (yet/anymore)"              *)
(* (audio_rxtx/doc/sequence_diagram.txt:11-12).                            *)
SilentWhileBuffering ==
  [][ cycle.at = "silence" /\ cycle' = IdleCycle =>
        \A p \in Port : ports'[p] = Silence ]_vars

(* Sender and receiver find each other, in whatever order they are         *)
(* started, stopped and started again, and audio is played again and       *)
(* again as long as both run ("the order of program startup of sender and  *)
(* receiver doesn't make a difference", sequence_diagram.txt:9).           *)
StreamIsHeard ==
  <>[](sender.up /\ receiver.up /\ sender.rate = LocalRate) =>
    []<>(receiver.process_enabled /\ cycle.at = "read")

(* A sender whose audio is incompatible ends once it is told so, as long   *)
(* as there is a receiver to tell it: "sender will shutdown once received  *)
(* a /deny" (sequence_diagram.txt:46-47).                                  *)
IncompatibleSenderStops ==
  (sender.up /\ sender.rate # LocalRate) ~> (~sender.up \/ ~receiver.up)

==============================================================================
