----------------------------- MODULE AudioForward ----------------------------
(***************************************************************************)
(* A sender over UDP, audio_post_send, a receiver over TCP: the chain of   *)
(* audio_rxtx/doc/audio_post_send_TCP.txt, each of the three with a period *)
(* of its own length.                                                      *)
(***************************************************************************)
EXTENDS AudioPostSend, AudioPeriods, SequencesExt

vars == <<post_vars, play_vars>>

Init == PostInit /\ PlayInit

ReceiverConnects ==
  /\ ~tcp.up /\ tcp' = [tcp EXCEPT !.up = TRUE]
  /\ UNCHANGED <<source, post, convert_vars, main, faults, count, play_vars>>

(* The receiver ends: what it has not read is lost. *)
ReceiverLeaves ==
  /\ tcp.up /\ Fault
  /\ tcp' = [up |-> FALSE, wire |-> <<>>]
  /\ PlayRestarts
  /\ UNCHANGED <<source, post, convert_vars, main, count>>

(* A message without blobs has no handler. *)
ReceiverReads ==
  /\ tcp.wire # <<>> /\ play_osc.at = "idle"
  /\ IF Head(tcp.wire).blobs = <<>> THEN UNCHANGED play_vars ELSE PlayTakes(Head(tcp.wire))
  /\ tcp' = [tcp EXCEPT !.wire = Tail(@)]
  /\ UNCHANGED <<source, post, convert_vars, main, faults, count>>

ReceiverWorks == ReceiverReads \/ ((PlayOsc \/ PlayCycle) /\ UNCHANGED post_vars)

Next == \/ (Post \/ PostSurroundings) /\ UNCHANGED play_vars
        \/ ReceiverConnects \/ ReceiverLeaves \/ ReceiverWorks

Spec == Init /\ [][Next]_vars

(* Both threads of audio_post_send run, and the receiver's two.            *)
FairSpec == /\ Spec
            /\ WF_vars(PostMain /\ UNCHANGED play_vars)
            /\ WF_vars(AudioContinues /\ UNCHANGED play_vars)
            /\ WF_vars(ReceiverReads)
            /\ WF_vars(PlayOsc /\ UNCHANGED post_vars)

------------------------------------------------------------------------------
Sample == [channel : 1 .. OutputPorts, number : 1 .. MaxFrames]

TypeOK ==
  /\ post.message_number_out \in 0 .. MaxNumberOut
  /\ post.port_count \in 0 .. OutputPorts
  /\ rb \in Seq(Sample) /\ Len(rb) <= BufferSize
  /\ rb_helper \in Seq(Sample) /\ play_rb \in Seq(Sample) /\ play_helper \in Seq(Sample)
  /\ main.at \in {"poll", "loop", "read"} /\ Len(main.blobs) <= OutputPorts
  /\ Len(tcp.wire) <= MaxWire
  /\ faults \in 0 .. MaxFaults

(* The blobs are one period of each channel, the same one.                 *)
Aligned(blobs, period) ==
  \A i \in DOMAIN blobs :
    /\ Len(blobs[i]) = period
    /\ \A n \in DOMAIN blobs[i] :
         /\ blobs[i][n].channel = i
         /\ blobs[i][n].number = blobs[1][n].number
         /\ n > 1 => blobs[i][n].number > blobs[i][n - 1].number

(* Whatever the sender's period, a message that is forwarded holds one     *)
(* forward period of each channel, the samples of the same moment and in   *)
(* order (audio_handler of audio_post_send), as long as all messages have  *)
(* the same number of channels.                                            *)
ForwardAligned ==
  ~count.mixed => \A i \in DOMAIN tcp.wire : Aligned(tcp.wire[i].blobs, ForwardPeriod)

(* The same holds at the end of the chain: "can run at different period    *)
(* sizes" (audio_rxtx/doc/jack_audio_receive.man.asciidoc:20).             *)
PortsInStep ==
  ~count.mixed => Aligned(SelectSeq(speakers, LAMBDA s : s # <<>>), PlayPeriod)

(* No sample that audio_handler took is lost silently: it is in one of the *)
(* buffers, or was forwarded under a number, or its period is one whose    *)
(* send failed, and periods fail whole (process() of audio_post_send).     *)
Waiting == Len(rb) + Len(rb_helper) + Len(FlattenSeq(osc.pieces)) + Len(FlattenSeq(main.blobs))

AllAccounted ==
  PostListens =>
    count.taken * OutputPorts =
      Waiting + OutputPorts * ForwardPeriod * (post.message_number_out + count.failed)

(* Once a message is handled, rb_helper holds less than one period of this *)
(* program, so that its size never cuts a blob short.                      *)
HelperIsDrained ==
  /\ (post.up /\ osc.at = "idle") => Len(rb_helper) < ForwardPeriod * OutputPorts
  /\ play_osc.at = "idle" => Len(play_helper) < PlayPeriod * PlayPorts

(* With a receiver that stays, what was collected is sent.                 *)
BufferIsSent == <>[](tcp.up /\ PostListens) => []<>(Len(rb) < ForwardPeriod * OutputPorts)

==============================================================================
