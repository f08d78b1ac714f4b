----------------------------- MODULE AudioPeriods ----------------------------
(***************************************************************************)
(* jack_audio_receive with a sender whose period has another length: the   *)
(* part of osc_audio_handler after the check of the sample rate, and a     *)
(* cycle of process() that plays.  AudioReceive has the rest, with equal   *)
(* periods.  The messages come over TCP, the option --tcp, so that none is *)
(* lost while the connection stays.                                        *)
(***************************************************************************)
EXTENDS Integers, Sequences

CONSTANTS
  PlayPorts,    \* option --out
  PlayPeriod,   \* the period of the receiver's JACK server
  PlayBuffer,   \* option --max: max_buffer_size, in mc periods
  PlayPre       \* option --pre: pre_buffer_size

ASSUME PeriodsAssumption ==
  /\ {PlayPorts, PlayPeriod, PlayBuffer, PlayPre} \subseteq Nat \ {0}

VARIABLES
  play,     \* the program's globals
  play_rb, play_helper, play_osc,   \* see AudioConvert
  speakers  \* what the last cycle put into each port

play_vars == <<play, play_rb, play_helper, play_osc, speakers>>

Converter == INSTANCE AudioConvert
             WITH Period <- PlayPeriod, Size <- PlayBuffer * PlayPorts * PlayPeriod,
                  rb <- play_rb, rb_helper <- play_helper, osc <- play_osc

NewPlay == [message_number |-> 0, port_count |-> PlayPorts, remote_period_size |-> 0,
            process_enabled |-> FALSE, pre_buffer_counter |-> 0]

Quiet == [p \in 1 .. PlayPorts |-> <<>>]

PlayInit == play = NewPlay /\ Converter!Init /\ speakers = Quiet

(* The program ends and is started again. *)
PlayRestarts ==
  /\ play' = NewPlay /\ speakers' = Quiet
  /\ play_rb' = <<>> /\ play_helper' = <<>> /\ play_osc' = Converter!Idle

(* What osc_audio_handler makes of the globals, for a message of that      *)
(* number with so many blobs of that length.                               *)
Arrived(number, channels, period) ==
  LET restarted == \/ play.message_number > number
                   \/ number = 1
                   \/ play.remote_period_size = 0
      ready == ~restarted /\ play.pre_buffer_counter >= PlayPre
  IN  [message_number |-> number,
       port_count |-> IF channels < PlayPorts THEN channels ELSE PlayPorts,
       remote_period_size |-> IF restarted THEN period ELSE play.remote_period_size,
       process_enabled |-> play.process_enabled \/ ready,
       pre_buffer_counter |-> IF restarted THEN 0 ELSE play.pre_buffer_counter]

PlayTakes(message) ==
  LET p == Arrived(message.number, Len(message.blobs), Len(message.blobs[1]))
  IN  /\ play' = p
      /\ IF Converter!HasRoom(p.port_count)
         THEN Converter!Begins(SubSeq(message.blobs, 1, p.port_count), p.remote_period_size)
         ELSE UNCHANGED <<play_helper, play_osc>>
      /\ UNCHANGED <<play_rb, speakers>>

(* The counter only matters until it reaches pre_buffer_size. *)
PlayWrites ==
  /\ Converter!Writes
  /\ play' = [play EXCEPT !.pre_buffer_counter =
                IF Converter!Completes /\ @ < PlayPre THEN @ + 1 ELSE @]
  /\ UNCHANGED speakers

PlayOsc == \/ PlayWrites
           \/ Converter!Joins /\ UNCHANGED <<play, speakers>>
           \/ Converter!Returns /\ UNCHANGED <<play, speakers>>

(* A cycle of process(): all ports or none. *)
PlayCycle ==
  LET mc == play.port_count * PlayPeriod
  IN  /\ play.process_enabled
      /\ IF Len(play_rb) >= mc
         THEN /\ speakers' = [p \in 1 .. PlayPorts |->
                               IF p <= play.port_count
                               THEN Converter!Piece(play_rb, (p - 1) * PlayPeriod, PlayPeriod)
                               ELSE <<>>]
              /\ play_rb' = Converter!Rest(play_rb, mc)
         ELSE speakers' = Quiet /\ UNCHANGED play_rb
      /\ UNCHANGED <<play, play_helper, play_osc>>

==============================================================================
