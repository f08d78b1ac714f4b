---------------------------- MODULE AudioPostSend ----------------------------
(***************************************************************************)
(* audio_post_send: the thread of the UDP server takes /audio messages of  *)
(* a sender into a ring buffer, the main thread sends what is there to a   *)
(* receiver over TCP.  No lock is used; port_count, process_enabled and    *)
(* sample_rate are set by the one and read by the other.                   *)
(*                                                                         *)
(* The sender, the UDP link and the TCP connection are external: a message *)
(* of the sender arrives or is lost, a connection is there or not.  All    *)
(* senders use the same width of a sample, so that sizes are counted in    *)
(* samples.                                                                *)
(***************************************************************************)
EXTENDS Integers, Sequences

CONSTANTS
  OutputPorts,    \* option --out: output_port_count
  ForwardPeriod,  \* period_size
  BufferSize,     \* option --max: the size of the ring buffers, in samples
  Senders,        \* [rate, channels, period, compatible]: what may send to it
  NoRate,         \* a remote_sample_rate of 0
  DefaultRate,    \* sample_rate as the program starts
  MaxFrames,      \* bound: samples of one channel all senders send
  MaxWire,        \* bound: messages the TCP connection holds
  MaxNumberOut,   \* bound: message_number_out is not counted any further
  MaxFaults       \* bound: messages lost, programs ended, senders changed

ASSUME PostSendAssumption ==
  /\ {OutputPorts, ForwardPeriod, BufferSize, MaxWire} \subseteq Nat \ {0}
  /\ {MaxFrames, MaxFaults, MaxNumberOut} \subseteq Nat
  /\ \A s \in Senders :
       s.period \in Nat \ {0} /\ s.channels \in Nat /\ s.compatible \in BOOLEAN

VARIABLES
  source,     \* the sender: which, its next number, whether it was accepted
  post,       \* the program's globals
  rb, rb_helper, osc,  \* see AudioConvert
  main,       \* where the main thread is in process(), and the blobs it read
  tcp,        \* whether a receiver is connected, and what it has not read yet
  faults,
  count       \* history: samples per channel all senders sent, those the
              \* handler did not drop, mc periods that failed to be forwarded,
              \* and whether the number of channels ever changed

convert_vars == <<rb, rb_helper, osc>>
post_vars    == <<source, post, convert_vars, main, tcp, faults, count>>

Convert == INSTANCE AudioConvert WITH Period <- ForwardPeriod, Size <- BufferSize

NewPost ==
  [up |-> TRUE, shutdown_in_progress |-> FALSE, process_enabled |-> FALSE,
   message_number |-> 0, message_number_out |-> 0, port_count |-> OutputPorts,
   sample_rate |-> DefaultRate, remote_sample_rate |-> NoRate,
   remote_period_size |-> 0, sender_host |-> FALSE]

IdleMain     == [at |-> "poll", blobs |-> <<>>]
NewSource(s) == [is |-> s, number |-> 1, accepted |-> FALSE]
NoCount      == [sent |-> 0, taken |-> 0, failed |-> 0, mixed |-> FALSE]

PostInit ==
  /\ \E s \in Senders : source = NewSource(s)
  /\ post = NewPost /\ Convert!Init /\ main = IdleMain
  /\ tcp = [up |-> FALSE, wire |-> <<>>]
  /\ faults = 0 /\ count = NoCount

Fault == faults < MaxFaults /\ faults' = faults + 1

PostListens == post.up /\ ~post.shutdown_in_progress

------------------------------------------------------------------------------
(* The UDP server's thread.                                                *)

(* The settings of the offer are taken over before it is looked at, so     *)
(* that only the format version can make it incompatible.                  *)
offer_handler ==
  LET s == source.is
  IN  /\ PostListens /\ osc.at = "idle" /\ ~source.accepted
      /\ post' = IF s.compatible
                 THEN [post EXCEPT !.sample_rate = s.rate, !.remote_sample_rate = s.rate,
                                   !.remote_period_size = s.period, !.sender_host = TRUE]
                 ELSE [post EXCEPT !.sample_rate = s.rate]
      /\ source' = [source EXCEPT !.accepted = s.compatible]
      /\ UNCHANGED <<convert_vars, main, tcp, faults, count>>

(* The blobs of the next message: each channel's samples, numbered.        *)
Blobs(channels) ==
  [i \in 1 .. channels |->
     [n \in 1 .. source.is.period |-> [channel |-> i, number |-> count.sent + n]]]

SourceSends ==
  /\ source.accepted /\ count.sent + source.is.period <= MaxFrames
  /\ source' = [source EXCEPT !.number = @ + 1]

(* A message reaches audio_handler.  It is dropped if an mc period does    *)
(* not fit; otherwise its blobs are written, see AudioConvert.             *)
audio_handler ==
  LET s    == source.is
      used == IF s.channels < OutputPorts THEN s.channels ELSE OutputPorts
      p    == [post EXCEPT !.message_number = source.number, !.port_count = used]
      restarted == \/ post.message_number > source.number
                   \/ source.number = 1
                   \/ post.remote_sample_rate = NoRate
                   \/ post.remote_period_size = 0
      q    == IF restarted
              THEN [p EXCEPT !.sender_host = TRUE, !.remote_sample_rate = s.rate,
                             !.remote_period_size = s.period]
              ELSE p
      sent == [count EXCEPT !.sent = @ + s.period,
                            !.mixed = @ \/ (post.message_number > 0 /\ used # post.port_count)]
  IN  /\ PostListens /\ osc.at = "idle" /\ SourceSends
      /\ IF used < 1
         THEN /\ post' = [p EXCEPT !.shutdown_in_progress = TRUE]
              /\ count' = [sent EXCEPT !.mixed = TRUE]
              /\ UNCHANGED <<rb_helper, osc>>
         ELSE /\ post' = [q EXCEPT !.process_enabled = TRUE]
              /\ IF Convert!HasRoom(used)
                 THEN /\ Convert!Begins(Blobs(used), q.remote_period_size)
                      /\ count' = [sent EXCEPT !.taken = @ + s.period]
                 ELSE /\ count' = sent
                      /\ UNCHANGED <<rb_helper, osc>>
      /\ UNCHANGED <<rb, main, tcp, faults>>

WritesPeriod   == Convert!Writes
CollectsPeriod == Convert!Joins
HandlerReturns == Convert!Returns

AudioContinues ==
  /\ post.up
  /\ WritesPeriod \/ CollectsPeriod \/ HandlerReturns
  /\ UNCHANGED <<source, post, main, tcp, faults, count>>

------------------------------------------------------------------------------
(* The main thread: process(), called every 10 ms, or 700 ms after it      *)
(* failed, and the check of shutdown_in_progress before it.                *)

(* A slip of PeriodIsThere: more than one period has to be there.          *)
MoreIsThere == Len(rb) > post.port_count * ForwardPeriod

PeriodIsThere == Len(rb) >= post.port_count * ForwardPeriod

ProcessBegins ==
  /\ post.up /\ main.at = "poll" /\ PostListens /\ post.process_enabled
  /\ main' = [main EXCEPT !.at = "loop"]
  /\ UNCHANGED <<source, post, convert_vars, tcp, faults, count>>

ProcessLoops ==
  /\ main.at = "loop"
  /\ main' = [main EXCEPT !.at = IF PeriodIsThere THEN "read" ELSE "poll"]
  /\ UNCHANGED <<source, post, convert_vars, tcp, faults, count>>

(* What membuf holds after rb_read: what was not there to be read is left  *)
(* of the channel before.                                                  *)
Membuf ==
  LET got == Convert!rb_read(rb, ForwardPeriod)
  IN  IF Len(got) = ForwardPeriod THEN got
      ELSE got \o SubSeq(main.blobs[Len(main.blobs)], Len(got) + 1, ForwardPeriod)

(* A slip of ProcessReads: as many channels as there is data for.          *)
ProcessReadsAll ==
  /\ main.at = "read" /\ Len(rb) >= ForwardPeriod
  /\ main' = [main EXCEPT !.blobs = Append(@, Membuf)]
  /\ rb' = Convert!Rest(rb, ForwardPeriod)
  /\ UNCHANGED <<source, post, rb_helper, osc, tcp, faults, count>>

ProcessReads ==
  /\ main.at = "read" /\ Len(main.blobs) < post.port_count
  /\ main' = [main EXCEPT !.blobs = Append(@, Membuf)]
  /\ rb' = Convert!Rest(rb, ForwardPeriod)
  /\ UNCHANGED <<source, post, rb_helper, osc, tcp, faults, count>>

Forwarded == [number |-> post.message_number_out, rate |-> post.sample_rate,
              blobs |-> main.blobs]

(* A slip of ProcessSends: a send that fails is numbered as well.          *)
ProcessSendsAndNumbers ==
  /\ main.at = "read" /\ Len(main.blobs) >= post.port_count
  /\ post' = [post EXCEPT !.message_number_out = IF @ < MaxNumberOut THEN @ + 1 ELSE @]
  /\ \/ /\ tcp.up /\ Len(tcp.wire) < MaxWire
        /\ tcp' = [tcp EXCEPT !.wire = Append(@, Forwarded)]
        /\ main' = [at |-> "loop", blobs |-> <<>>]
        /\ UNCHANGED count
     \/ /\ ~tcp.up
        /\ count' = [count EXCEPT !.failed = @ + 1]
        /\ main' = IdleMain
        /\ UNCHANGED tcp
  /\ UNCHANGED <<source, convert_vars, faults>>

(* A send that succeeds is numbered, one that fails is not repeated.  TCP  *)
(* makes the sender wait for a receiver that does not read.                *)
ProcessSends ==
  /\ main.at = "read" /\ Len(main.blobs) >= post.port_count
  /\ \/ /\ tcp.up /\ Len(tcp.wire) < MaxWire
        /\ tcp' = [tcp EXCEPT !.wire = Append(@, Forwarded)]
        /\ post' = [post EXCEPT !.message_number_out = IF @ < MaxNumberOut THEN @ + 1 ELSE @]
        /\ main' = [at |-> "loop", blobs |-> <<>>]
        /\ UNCHANGED count
     \/ /\ ~tcp.up
        /\ count' = [count EXCEPT !.failed = @ + 1]
        /\ main' = IdleMain
        /\ UNCHANGED <<tcp, post>>
  /\ UNCHANGED <<source, convert_vars, faults>>

(* signal_handler: tells the sender to pause, frees both buffers, exits.   *)
PostEnds ==
  /\ post' = [NewPost EXCEPT !.up = FALSE]
  /\ rb' = <<>> /\ rb_helper' = <<>> /\ osc' = Convert!Idle
  /\ main' = IdleMain
  /\ source' = [source EXCEPT !.accepted = @ /\ ~post.sender_host]
  /\ count' = [count EXCEPT !.taken = 0, !.failed = 0]
  /\ UNCHANGED tcp

PostStops    == post.shutdown_in_progress /\ main.at = "poll" /\ PostEnds /\ UNCHANGED faults
PostIsClosed == post.up /\ Fault /\ PostEnds

PostStarts ==
  /\ ~post.up /\ post' = NewPost
  /\ UNCHANGED <<source, convert_vars, main, tcp, faults, count>>

------------------------------------------------------------------------------
(* The surroundings.                                                       *)

(* A message is lost on its way, or because the program is not up. *)
MessageIsLost ==
  /\ SourceSends /\ Fault
  /\ count' = [count EXCEPT !.sent = @ + source.is.period]
  /\ UNCHANGED <<post, convert_vars, main, tcp>>

(* A sender ends, another one (or the same) starts. *)
SenderChanges ==
  /\ Fault
  /\ \E s \in Senders : source' = NewSource(s)
  /\ UNCHANGED <<post, convert_vars, main, tcp, count>>

PostMain == ProcessBegins \/ ProcessLoops \/ ProcessReads \/ ProcessSends \/ PostStops
PostOsc  == offer_handler \/ audio_handler \/ AudioContinues
Post     == PostMain \/ PostOsc \/ PostIsClosed \/ PostStarts

PostSurroundings == MessageIsLost \/ SenderChanges

==============================================================================
