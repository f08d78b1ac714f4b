---------------------------- MODULE AudioReceive -----------------------------
(***************************************************************************)
(* jack_audio_receive: the OSC thread answers offers and writes the        *)
(* periods of /audio messages to the ring buffer, one rb_write per         *)
(* channel; JACK's process callback reads them back, one rb_read per port. *)
(* They share process_enabled, pre_buffer_counter, port_count and          *)
(* requested_drop_count without a lock.                                    *)
(*                                                                         *)
(* Sender and receiver have the same period size.  A period of one channel *)
(* is one item of the ring buffer, and the channel's number all that is    *)
(* kept of it.  zero_on_underflow has its default, so that an underflow    *)
(* silences the ports.                                                     *)
(***************************************************************************)
EXTENDS AudioLink

CONSTANTS
  OutputPorts,         \* option --out: output_port_count
  PreBuffer,           \* option --pre: pre_buffer_size, in periods
  MaxBuffer,           \* option --max: max_buffer_size, in periods
  RebufferOnRestart,   \* option --rere
  RebufferOnUnderflow, \* option --reuf
  CloseOnIncomp,       \* option --close
  RequestedPre,        \* what a /buffer message may ask for: the fill level
  RequestedMax         \* and the maximum, both in periods

ASSUME ReceiveAssumption ==
  /\ {OutputPorts, PreBuffer} \subseteq Nat \ {0}
  /\ MaxBuffer \in Nat /\ MaxBuffer >= PreBuffer
  /\ {RebufferOnRestart, RebufferOnUnderflow, CloseOnIncomp} \subseteq BOOLEAN
  /\ RequestedPre \cup RequestedMax \subseteq Nat

VARIABLES
  receiver,   \* the program's globals
  rb,         \* the ring buffer's items, oldest first
  osc,        \* where the OSC thread is in a handler, and its locals
  cycle,      \* where the process callback is
  ports       \* what each output port's JACK buffer holds

receive_vars == <<receiver, rb, osc, cycle, ports>>

Port    == 0 .. OutputPorts - 1
Silence == -1

NewReceiver ==
  [up |-> TRUE, shutdown_in_progress |-> FALSE, process_enabled |-> FALSE,
   message_number |-> 0, port_count |-> OutputPorts, remote_sample_rate |-> NoRate,
   pre_buffer_counter |-> 0, pre_buffer_size |-> PreBuffer,
   max_buffer_size |-> MaxBuffer, requested_drop_count |-> 0, sender_host |-> FALSE]

IdleOsc   == [at |-> "idle", channel |-> 0, loaded |-> 0]
IdleCycle == [at |-> "idle", port |-> 0]

Fresh(up) ==
  /\ receiver' = [NewReceiver EXCEPT !.up = up]
  /\ rb' = <<>> /\ osc' = IdleOsc /\ cycle' = IdleCycle
  /\ ports' = [p \in Port |-> Silence]

ReceiverInit ==
  /\ receiver = [NewReceiver EXCEPT !.up = FALSE]
  /\ rb = <<>> /\ osc = IdleOsc /\ cycle = IdleCycle
  /\ ports = [p \in Port |-> Silence]

ReceiverStarts == ~receiver.up /\ Fresh(TRUE) /\ UNCHANGED link_vars

------------------------------------------------------------------------------
(* The OSC thread.                                                         *)

Capacity == receiver.max_buffer_size * OutputPorts

(* The head of the wire, if it is of that kind, reaches the program.  It   *)
(* is dropped if the program is not up or is shutting down.                *)
ReceiverTakes(path) ==
  /\ osc.at = "idle"
  /\ to_receiver # <<>> /\ Head(to_receiver).path = path
  /\ to_receiver' = Tail(to_receiver)
  /\ UNCHANGED faults

ReceiverListens == receiver.up /\ ~receiver.shutdown_in_progress

Answer(path) == to_sender' = Sent(to_sender, path)
NoAnswer     == UNCHANGED to_sender

ReceiverIgnores ==
  /\ ~ReceiverListens
  /\ ReceiverTakes("/offer") \/ ReceiverTakes("/audio")
  /\ NoAnswer
  /\ UNCHANGED receive_vars

osc_offer_handler ==
  LET offered == Head(to_receiver).rate
  IN  /\ ReceiverListens /\ ReceiverTakes("/offer")
      /\ IF offered = LocalRate
         THEN /\ receiver' = [receiver EXCEPT !.remote_sample_rate = offered,
                                              !.sender_host = TRUE]
              /\ Answer("/accept")
         ELSE IF ~CloseOnIncomp
         THEN Answer("/deny") /\ UNCHANGED receiver
         ELSE /\ receiver' = [receiver EXCEPT !.shutdown_in_progress = TRUE]
              /\ NoAnswer
      /\ UNCHANGED <<rb, osc, cycle, ports>>

(* A slip of SenderRestarted: what is buffered is not counted.             *)
SenderRestartedFromZero(r, m) ==
  [r EXCEPT !.sender_host = TRUE,
            !.remote_sample_rate = m.rate,
            !.process_enabled = @ /\ ~RebufferOnRestart,
            !.pre_buffer_counter = 0]

(* The globals once an /audio message m was found to be the first of a     *)
(* sender: --rere starts to buffer again, on top of what there is.         *)
SenderRestarted(r, m) ==
  [r EXCEPT !.sender_host = TRUE,
            !.remote_sample_rate = m.rate,
            !.process_enabled = @ /\ ~RebufferOnRestart,
            !.pre_buffer_counter =
               IF RebufferOnRestart THEN Len(rb) \div r.port_count ELSE 0]

(* osc_audio_handler up to the check of the sample rate. *)
AudioArrives ==
  LET m == Head(to_receiver)
      r == [receiver EXCEPT !.message_number = m.number,
              !.port_count = IF m.channels < OutputPorts THEN m.channels ELSE OutputPorts]
      restarted == \/ receiver.message_number > m.number
                   \/ m.number = 1
                   \/ receiver.remote_sample_rate = NoRate
      Handles == osc' = [IdleOsc EXCEPT !.at = "enable"]
      Closes(s) == /\ receiver' = [s EXCEPT !.shutdown_in_progress = TRUE]
                   /\ NoAnswer /\ UNCHANGED osc
  IN  /\ ReceiverListens /\ ReceiverTakes("/audio")
      /\ IF r.port_count < 1 THEN Closes(r)
         ELSE IF ~restarted THEN receiver' = r /\ NoAnswer /\ Handles
         ELSE IF m.rate = LocalRate
         THEN receiver' = SenderRestarted(r, m) /\ NoAnswer /\ Handles
         ELSE IF CloseOnIncomp THEN Closes(SenderRestarted(r, m))
         ELSE /\ receiver' = [SenderRestarted(r, m) EXCEPT
                                !.message_number = 0, !.remote_sample_rate = NoRate]
              /\ Answer("/deny") /\ Handles
      /\ UNCHANGED <<rb, cycle, ports>>

(* A slip of AudioEnables: room for one channel is taken for enough.       *)
AudioEnablesForOneChannel ==
  /\ osc.at = "enable"
  /\ receiver' = [receiver EXCEPT !.process_enabled =
                    @ \/ receiver.pre_buffer_counter >= receiver.pre_buffer_size]
  /\ osc' = IF Capacity - Len(rb) < 1 THEN IdleOsc ELSE [osc EXCEPT !.at = "write"]
  /\ UNCHANGED <<link_vars, rb, cycle, ports>>

(* Playing starts once enough periods were buffered; the message itself is *)
(* dropped if a whole multi-channel period does not fit.                   *)
AudioEnables ==
  /\ osc.at = "enable"
  /\ receiver' = [receiver EXCEPT !.process_enabled =
                    @ \/ receiver.pre_buffer_counter >= receiver.pre_buffer_size]
  /\ osc' = IF Capacity - Len(rb) < receiver.port_count
            THEN IdleOsc ELSE [osc EXCEPT !.at = "write"]
  /\ UNCHANGED <<link_vars, rb, cycle, ports>>

AudioWrites ==
  LET more == osc.channel + 1 < receiver.port_count
  IN  /\ osc.at = "write"
      /\ rb' = IF Len(rb) < Capacity THEN Append(rb, osc.channel) ELSE rb
      /\ osc' = IF more THEN [osc EXCEPT !.channel = @ + 1]
                ELSE [IdleOsc EXCEPT !.at = "count", !.loaded = receiver.pre_buffer_counter]
      /\ UNCHANGED <<link_vars, receiver, cycle, ports>>

(* The counter only matters until it reaches pre_buffer_size. *)
AudioCounts ==
  /\ osc.at = "count"
  /\ receiver' = [receiver EXCEPT !.pre_buffer_counter =
                    IF osc.loaded < receiver.pre_buffer_size
                    THEN osc.loaded + 1 ELSE osc.loaded]
  /\ osc' = IdleOsc
  /\ UNCHANGED <<link_vars, rb, cycle, ports>>

(* A new maximum makes a new, empty ring buffer; what is then there is     *)
(* topped up to the requested fill, or the callback is asked to drop.      *)
osc_buffer_handler(pre_arg, max_arg) ==
  LET pre  == IF pre_arg < 1 THEN 1 ELSE pre_arg
      max  == IF max_arg < pre THEN pre ELSE max_arg
      kept == IF max = receiver.max_buffer_size THEN rb ELSE <<>>
      have == Len(kept) \div receiver.port_count
      r    == [receiver EXCEPT !.max_buffer_size = max]
  IN  /\ ReceiverListens /\ osc.at = "idle" /\ Fault
      /\ rb' = kept
      /\ receiver' =
           IF pre > have
           THEN [r EXCEPT !.pre_buffer_size = pre - have,
                          !.pre_buffer_counter = 0, !.process_enabled = FALSE]
           ELSE [r EXCEPT !.requested_drop_count = @ + have - pre]
      /\ UNCHANGED <<to_receiver, to_sender, osc, cycle, ports>>

receiver_osc == \/ ReceiverIgnores \/ osc_offer_handler \/ AudioArrives
                \/ AudioEnables \/ AudioWrites \/ AudioCounts

------------------------------------------------------------------------------
(* process()                                                               *)

InCycle(step) == receiver.up /\ cycle.at = step

UnlessStopped == receiver.process_enabled /\ ~receiver.shutdown_in_progress

CycleSilent ==
  /\ InCycle("idle") /\ receiver.shutdown_in_progress
  /\ ports' = [p \in Port |-> Silence]
  /\ UNCHANGED <<link_vars, receiver, rb, osc, cycle>>

(* Buffering: the loop that would write silence looks at process_enabled   *)
(* again for each port and returns unless it was set in between.           *)
CycleNotEnabled ==
  /\ InCycle("idle") /\ ~receiver.shutdown_in_progress /\ ~receiver.process_enabled
  /\ cycle' = [at |-> "silence", port |-> 0]
  /\ UNCHANGED <<link_vars, receiver, rb, osc, ports>>

CycleLooksAgain ==
  /\ InCycle("silence")
  /\ IF UnlessStopped /\ cycle.port < receiver.port_count
     THEN /\ cycle' = [cycle EXCEPT !.port = @ + 1]
          /\ ports' = [ports EXCEPT ![cycle.port] = Silence]
     ELSE cycle' = IdleCycle /\ UNCHANGED ports
  /\ UNCHANGED <<link_vars, receiver, rb, osc>>

(* Not enough for a cycle: the ports are zeroed one after the other, as    *)
(* long as playing stays enabled.                                          *)
CycleUnderflows ==
  /\ InCycle("idle") /\ UnlessStopped
  /\ Len(rb) < receiver.port_count
  /\ cycle' = [at |-> "zero", port |-> 0]
  /\ UNCHANGED <<link_vars, receiver, rb, osc, ports>>

(* A slip of CycleZeroes: the ports keep what they hold.                   *)
CycleZeroesNothing ==
  /\ InCycle("zero") /\ cycle.port < OutputPorts
  /\ cycle' = IF UnlessStopped THEN [cycle EXCEPT !.port = @ + 1] ELSE IdleCycle
  /\ UNCHANGED <<link_vars, receiver, rb, osc, ports>>

CycleZeroes ==
  /\ InCycle("zero") /\ cycle.port < OutputPorts
  /\ IF UnlessStopped
     THEN /\ cycle' = [cycle EXCEPT !.port = @ + 1]
          /\ ports' = [ports EXCEPT ![cycle.port] = Silence]
     ELSE cycle' = IdleCycle /\ UNCHANGED ports
  /\ UNCHANGED <<link_vars, receiver, rb, osc>>

CycleRebuffers ==
  /\ InCycle("zero") /\ cycle.port >= OutputPorts
  /\ receiver' = IF RebufferOnUnderflow
                 THEN [receiver EXCEPT !.pre_buffer_counter = 0, !.process_enabled = FALSE]
                 ELSE receiver
  /\ cycle' = IdleCycle
  /\ UNCHANGED <<link_vars, rb, osc, ports>>

CycleBegins ==
  /\ InCycle("idle") /\ UnlessStopped
  /\ Len(rb) >= receiver.port_count
  /\ cycle' = [at |-> "read", port |-> 0]
  /\ UNCHANGED <<link_vars, receiver, rb, osc, ports>>

(* One channel after the other, as long as playing stays enabled. *)
CycleReads ==
  /\ InCycle("read") /\ cycle.port < receiver.port_count
  /\ IF UnlessStopped
     THEN /\ cycle' = [cycle EXCEPT !.port = @ + 1]
          /\ IF rb # <<>>
             THEN rb' = Tail(rb) /\ ports' = [ports EXCEPT ![cycle.port] = Head(rb)]
             ELSE UNCHANGED <<rb, ports>>
     ELSE cycle' = IdleCycle /\ UNCHANGED <<rb, ports>>
  /\ UNCHANGED <<link_vars, receiver, osc>>

CycleEnds ==
  LET drop  == receiver.requested_drop_count * receiver.port_count
  IN  /\ InCycle("read") /\ cycle.port >= receiver.port_count
      /\ rb' = SubSeq(rb, drop + 1, Len(rb))
      /\ receiver' = [receiver EXCEPT !.requested_drop_count = 0]
      /\ cycle' = IdleCycle
      /\ UNCHANGED <<link_vars, osc, ports>>

receiver_process == \/ CycleSilent \/ CycleNotEnabled \/ CycleLooksAgain
                    \/ CycleUnderflows \/ CycleZeroes \/ CycleRebuffers
                    \/ CycleBegins \/ CycleReads \/ CycleEnds

------------------------------------------------------------------------------
(* signal_handler: the sender is told to pause, unless --close was given.  *)
ReceiverEnds ==
  /\ receiver.up
  /\ to_sender' = IF receiver.sender_host /\ ~CloseOnIncomp
                  THEN Sent(to_sender, "/pause") ELSE to_sender
  /\ UNCHANGED to_receiver
  /\ Fresh(FALSE)

(* The main loop finds shutdown_in_progress set. *)
ReceiverStops == receiver.shutdown_in_progress /\ ReceiverEnds /\ UNCHANGED faults

(* A signal, a /quit message or the end of a test run (--limit). *)
ReceiverIsClosed == ReceiverEnds /\ Fault

Receiver == \/ ReceiverStarts \/ receiver_osc
            \/ \E pre \in RequestedPre, max \in RequestedMax : osc_buffer_handler(pre, max)
            \/ receiver_process \/ ReceiverStops \/ ReceiverIsClosed

==============================================================================
