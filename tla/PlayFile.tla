------------------------------ MODULE PlayFile -------------------------------
(***************************************************************************)
(* jack_playfile playing one file whose rate is JACK's own: the disk       *)
(* thread reads frames into rb_resampled_interleaved, JACK's process       *)
(* callback moves them through rb_deinterleaved to the output ports, and   *)
(* the main thread handles the keys that change what the other two do.     *)
(* The three share the transport and running structs, the seek request and *)
(* the buffers without any lock.                                           *)
(*                                                                         *)
(* A frame is the number of its place in the file; a sample is a channel   *)
(* and a frame.  A call of a ring buffer function that changes a buffer is *)
(* one step (what goes on inside one is RingBufferSPSC's subject).  Where  *)
(* the disk thread has found the end, each store to a field that a key     *)
(* stores too is a step, and each test of one; elsewhere the assignments   *)
(* of a thread between two such calls or tests are taken together.  All    *)
(* that a key does is one step, and so is a rewind: the code sets          *)
(* seek_frames_in_progress meanwhile, so that a key hit within is ignored  *)
(* or erased, and last_seek_pos and the samples played may be of two       *)
(* different rounds.                                                       *)
(***************************************************************************)
EXTENDS Integers, Sequences

CONSTANTS
  FileFrames,        \* frames the file holds
  FrameOffset,       \* running->frame_offset: first frame to play
  FrameCount,        \* running->frame_count: how many to play
  Channels,          \* running->channel_count
  Period,            \* jack->period_frames
  ResampledSize,     \* capacity of rb_resampled_interleaved, in frames
  DeinterleavedSize, \* capacity of rb_deinterleaved, in frames
  LoopEnabled,       \* what transport->loop_enabled may be at the start
  PauseAtEnd,        \* what transport->pause_at_end may be at the start
  UseJackTransport,  \* transport->use_jack_transport
  SeekStep,          \* seek_frames_per_hit
  Keys,              \* the keys the user may hit
  MaxKeys,           \* bound: how many keys are hit
  Word               \* bound: unsigned frame counts are kept modulo this

ASSUME PlayAssumption ==
  /\ {FrameOffset, ResampledSize, DeinterleavedSize, MaxKeys, Word} \subseteq Nat
  /\ {FileFrames, FrameCount, Channels, Period, SeekStep} \subseteq Nat \ {0}
  /\ FrameOffset + FrameCount <= FileFrames
  /\ 2 * Period + 2 <= ResampledSize /\ Period <= DeinterleavedSize
  /\ Word > 3 * FileFrames + 2 * Period + 2
  /\ LoopEnabled \subseteq BOOLEAN /\ PauseAtEnd \subseteq BOOLEAN
  /\ Keys \subseteq {"space", "backward", "forward", "start", "end", "loop", "pae", "next"}

VARIABLES
  file_pos,          \* where the sound file reader stands
  frames_to_seek,    \* the position a seek request asks for
  total_frames_read_from_file,
  no_more_input_data,            \* what all_frames_read() answers
  reset_ringbuffers_in_progress,
  transport, running,            \* the structs of that name
  resampled,         \* rb_resampled_interleaved: frames, oldest first
  deinterleaved,     \* rb_deinterleaved: samples, oldest first
  samples_read,      \* its total_bytes_read, in samples
  disk,              \* where the disk thread is, and the frames it just read
  process,           \* where the process callback is, and its locals
  output,            \* what the last cycle put out on each channel
  next_frame,        \* history: the frame the listener is due to hear next
  keys_hit,          \* how many keys were hit
  leaving            \* history: whether the last of them asked for another file, and
                     \* the disk thread then erased the seek it asked for

seek_vars   == <<frames_to_seek, file_pos, total_frames_read_from_file>>
buffer_vars == <<resampled, deinterleaved, samples_read>>
flag_vars   == <<no_more_input_data, reset_ringbuffers_in_progress>>
heard_vars  == <<output, next_frame>>
key_vars    == <<keys_hit, leaving>>
vars == <<seek_vars, buffer_vars, flag_vars, heard_vars, transport, running,
          disk, process, key_vars>>

End     == FrameOffset + FrameCount
Channel == 0 .. Channels - 1
Silence == [c \in Channel |-> <<>>]
Stale   == -1    \* in place of a frame: a value left in the callback's own buffer

Least(a, b) == IF a < b THEN a ELSE b
Most(a, b)  == IF a < b THEN b ELSE a

(* The most frames one disk read asks for: a period and some more. *)
sndfile_request_frames == Period + Most(2, Period \div 10)

FirstOf(s, n) == SubSeq(s, 1, Least(n, Len(s)))
After(s, n)   == SubSeq(s, n + 1, Len(s))

Init ==
  /\ file_pos = 0
  /\ frames_to_seek = FrameOffset
  /\ total_frames_read_from_file = 0
  /\ no_more_input_data = FALSE
  /\ reset_ringbuffers_in_progress = FALSE
  /\ transport \in [is_playing : {TRUE}, loop_enabled : LoopEnabled,
                    pause_at_end : PauseAtEnd, is_idling_at_end : {FALSE}]
  /\ running = [seek_frames_in_progress |-> FrameOffset > 0,
                last_seek_pos |-> FrameOffset, shutdown_in_progress |-> FALSE]
  /\ resampled = <<>> /\ deinterleaved = <<>> /\ samples_read = 0
  /\ disk = [at |-> "top", got |-> 0]
  /\ process = [at |-> "starting", n |-> 0, channel |-> 0]
  /\ output = Silence /\ next_frame = FrameOffset
  /\ keys_hit = 0 /\ leaving = "no"

------------------------------------------------------------------------------
(* The disk thread.                                                        *)

DiskGoes(from, to) == disk.at = from /\ disk' = [disk EXCEPT !.at = to]

DiskSeekDue ==
  /\ running.seek_frames_in_progress
  /\ DiskGoes("top", "drop_deinterleaved")
  /\ reset_ringbuffers_in_progress' = TRUE
  /\ UNCHANGED <<seek_vars, buffer_vars, no_more_input_data, heard_vars,
                 transport, running, process, key_vars>>

DiskNoSeek ==
  /\ ~running.seek_frames_in_progress
  /\ DiskGoes("top", "space")
  /\ UNCHANGED <<seek_vars, buffer_vars, flag_vars, heard_vars,
                 transport, running, process, key_vars>>

DiskDropDeinterleaved ==
  /\ DiskGoes("drop_deinterleaved", "drop_resampled")
  /\ deinterleaved' = <<>> /\ samples_read' = 0
  /\ UNCHANGED <<seek_vars, resampled, flag_vars, heard_vars,
                 transport, running, process, key_vars>>

DiskDropResampled ==
  /\ DiskGoes("drop_resampled", "seek")
  /\ resampled' = <<>>
  /\ reset_ringbuffers_in_progress' = FALSE
  /\ UNCHANGED <<seek_vars, deinterleaved, samples_read, no_more_input_data,
                 heard_vars, transport, running, process, key_vars>>

DiskSeek ==
  /\ DiskGoes("seek", "clear_request")
  /\ file_pos' = Least(frames_to_seek, FileFrames)
  /\ running' = [running EXCEPT !.last_seek_pos = file_pos']
  /\ next_frame' = file_pos'
  /\ UNCHANGED <<frames_to_seek, total_frames_read_from_file, buffer_vars,
                 flag_vars, output, transport, process, key_vars>>

DiskClearRequest ==
  /\ DiskGoes("clear_request", "clear_target")
  /\ running' = [running EXCEPT !.seek_frames_in_progress = FALSE]
  /\ UNCHANGED <<seek_vars, buffer_vars, flag_vars, heard_vars,
                 transport, process, key_vars>>

DiskClearTarget ==
  /\ DiskGoes("clear_target", "restart")
  /\ frames_to_seek' = 0
  /\ total_frames_read_from_file' = (running.last_seek_pos - FrameOffset) % Word
  /\ UNCHANGED <<file_pos, buffer_vars, flag_vars, heard_vars,
                 transport, running, process, key_vars>>

(* Slips of Rewind: to the file's start, and with the count left as it is. *)
RewindToFileStart ==
  /\ total_frames_read_from_file' = 0
  /\ no_more_input_data' = FALSE
  /\ file_pos' = 0
  /\ running' = [running EXCEPT !.last_seek_pos = FrameOffset,
                                !.seek_frames_in_progress = FALSE]

RewindWithoutCount ==
  /\ no_more_input_data' = FALSE
  /\ file_pos' = FrameOffset
  /\ running' = [running EXCEPT !.last_seek_pos = FrameOffset,
                                !.seek_frames_in_progress = FALSE]
  /\ UNCHANGED total_frames_read_from_file

(* The file is rewound for the next round of a loop. *)
Rewind ==
  /\ total_frames_read_from_file' = 0
  /\ no_more_input_data' = FALSE
  /\ file_pos' = FrameOffset
  /\ running' = [running EXCEPT !.last_seek_pos = FrameOffset,
                                !.seek_frames_in_progress = FALSE]

DiskRestart ==
  /\ DiskGoes("restart", IF total_frames_read_from_file >= FrameCount
                         THEN "seek_ended" ELSE "space")
  /\ no_more_input_data' = FALSE
  /\ transport' = [transport EXCEPT !.is_idling_at_end = FALSE]
  /\ UNCHANGED <<seek_vars, buffer_vars, reset_ringbuffers_in_progress, heard_vars,
                 running, process, key_vars>>

(* The seek led to the end, where the player may pause or loop. *)
DiskSeekEnded ==
  /\ DiskGoes("seek_ended", IF transport.pause_at_end THEN "seek_idles" ELSE "seek_loop_due")
  /\ no_more_input_data' = TRUE
  /\ UNCHANGED <<seek_vars, buffer_vars, reset_ringbuffers_in_progress, heard_vars,
                 transport, running, process, key_vars>>

DiskSeekIdles ==
  /\ DiskGoes("seek_idles", "seek_pauses")
  /\ transport' = [transport EXCEPT !.is_idling_at_end = TRUE]
  /\ UNCHANGED <<seek_vars, buffer_vars, flag_vars, heard_vars, running, process, key_vars>>

DiskSeekPauses ==
  /\ DiskGoes("seek_pauses", "seek_loop_due")
  /\ transport' = [transport EXCEPT !.is_playing = FALSE]
  /\ UNCHANGED <<seek_vars, buffer_vars, flag_vars, heard_vars, running, process, key_vars>>

DiskSeekLoopDue ==
  /\ DiskGoes("seek_loop_due", IF transport.loop_enabled THEN "seek_loops" ELSE "space")
  /\ UNCHANGED <<seek_vars, buffer_vars, flag_vars, heard_vars, transport, running,
                 process, key_vars>>

DiskSeekLoops ==
  /\ DiskGoes("seek_loops", "top")
  /\ Rewind
  /\ transport' = [transport EXCEPT !.is_idling_at_end = FALSE]
  /\ UNCHANGED <<frames_to_seek, buffer_vars, reset_ringbuffers_in_progress,
                 heard_vars, process, key_vars>>

(* A slip of DiskSpace: room for a period is taken for enough.             *)
DiskSpaceForAPeriod ==
  /\ DiskGoes("space", IF ResampledSize - Len(resampled) < Period THEN "wait" ELSE "read")
  /\ UNCHANGED <<seek_vars, buffer_vars, flag_vars, heard_vars,
                 transport, running, process, key_vars>>

DiskSpace ==
  /\ DiskGoes("space", IF ResampledSize - Len(resampled) < sndfile_request_frames
                       THEN "wait" ELSE "read")
  /\ UNCHANGED <<seek_vars, buffer_vars, flag_vars, heard_vars,
                 transport, running, process, key_vars>>

(* The file is read and its frames written to the buffer, unless there is  *)
(* nothing left to read or the thread idles at the end.                    *)
DiskRead ==
  LET to_go == (FrameCount - total_frames_read_from_file) % Word
      n     == IF transport.is_idling_at_end THEN 0
               ELSE Least(Least(to_go, sndfile_request_frames), FileFrames - file_pos)
  IN  /\ disk.at = "read"
      /\ disk' = [at |-> IF n > 0 THEN "account" ELSE "wait", got |-> n]
      /\ resampled' = resampled \o [i \in 1 .. n |-> file_pos + i - 1]
      /\ file_pos' = file_pos + n
      /\ no_more_input_data' = (n = 0 \/ no_more_input_data)
      /\ UNCHANGED <<frames_to_seek, total_frames_read_from_file, deinterleaved,
                     samples_read, reset_ringbuffers_in_progress, heard_vars,
                     transport, running, process, key_vars>>

DiskAccount ==
  LET total == (total_frames_read_from_file + disk.got) % Word
      ended == total >= FrameCount
  IN  /\ disk.at = "account"
      /\ disk' = [at |-> IF ended THEN "at_end" ELSE "wait", got |-> 0]
      /\ total_frames_read_from_file' = total
      /\ no_more_input_data' = (ended \/ no_more_input_data)
      /\ UNCHANGED <<file_pos, frames_to_seek, buffer_vars, reset_ringbuffers_in_progress,
                     heard_vars, transport, running, process, key_vars>>

(* At the end the player may pause: what the steps to "loop_due" store     *)
(* goes by what pause_at_end was found to be, whatever was hit since.      *)
DiskAtEnd ==
  /\ DiskGoes("at_end", IF transport.pause_at_end THEN "pauses" ELSE "loop_due")
  /\ UNCHANGED <<seek_vars, buffer_vars, flag_vars, heard_vars, transport, running,
                 process, key_vars>>

DiskPauses ==
  /\ DiskGoes("pauses", "ends_seek")
  /\ total_frames_read_from_file' = FrameCount
  /\ transport' = [transport EXCEPT !.is_playing = FALSE]
  /\ UNCHANGED <<file_pos, frames_to_seek, buffer_vars, flag_vars, heard_vars, running,
                 process, key_vars>>

DiskEndsSeek ==
  /\ DiskGoes("ends_seek", "ends_target")
  /\ running' = [running EXCEPT !.seek_frames_in_progress = FALSE]
  /\ leaving' = IF leaving = "asked" THEN "erased" ELSE leaving
  /\ UNCHANGED <<seek_vars, buffer_vars, flag_vars, heard_vars, transport, process, keys_hit>>

DiskEndsTarget ==
  /\ DiskGoes("ends_target", "idles")
  /\ frames_to_seek' = 0
  /\ UNCHANGED <<file_pos, total_frames_read_from_file, buffer_vars, flag_vars, heard_vars,
                 transport, running, process, key_vars>>

DiskIdles ==
  /\ DiskGoes("idles", "loop_due")
  /\ transport' = [transport EXCEPT !.is_idling_at_end = TRUE]
  /\ UNCHANGED <<seek_vars, buffer_vars, flag_vars, heard_vars, running, process, key_vars>>

DiskLoopDue ==
  /\ DiskGoes("loop_due", IF transport.loop_enabled THEN "loops" ELSE "wait")
  /\ UNCHANGED <<seek_vars, buffer_vars, flag_vars, heard_vars, transport, running,
                 process, key_vars>>

DiskLoops ==
  /\ DiskGoes("loops", "wait")
  /\ Rewind
  /\ samples_read' = 0
  /\ transport' = [transport EXCEPT !.is_idling_at_end = FALSE]
  /\ UNCHANGED <<frames_to_seek, resampled, deinterleaved,
                 reset_ringbuffers_in_progress, heard_vars, process, key_vars>>

Disk == \/ DiskSeekDue \/ DiskNoSeek
        \/ DiskDropDeinterleaved \/ DiskDropResampled
        \/ DiskSeek \/ DiskClearRequest \/ DiskClearTarget
        \/ DiskRestart \/ DiskSeekEnded \/ DiskSeekIdles \/ DiskSeekPauses
        \/ DiskSeekLoopDue \/ DiskSeekLoops
        \/ DiskSpace \/ DiskRead \/ DiskAccount
        \/ DiskAtEnd \/ DiskPauses \/ DiskEndsSeek \/ DiskEndsTarget \/ DiskIdles
        \/ DiskLoopDue \/ DiskLoops

------------------------------------------------------------------------------
(* The process callback, run once per JACK cycle.                          *)

(* A slip of it: nobody is woken. *)
request_without_waking == disk' = disk

(* The disk thread holds the mutex except while it waits, so the callback  *)
(* wakes it if it waits and gives up otherwise.                            *)
req_buffer_from_disk_thread ==
  disk' = IF disk.at = "wait" THEN [disk EXCEPT !.at = "top"] ELSE disk

(* Before the callback is enabled, main asks for frames a few times, with a *)
(* pause after each.                                                       *)
MainPrimes ==
  /\ process.at = "starting"
  /\ req_buffer_from_disk_thread
  /\ UNCHANGED <<seek_vars, buffer_vars, flag_vars, heard_vars, transport,
                 running, process, key_vars>>

MainEnablesProcess ==
  /\ process.at = "starting"
  /\ process' = [process EXCEPT !.at = "idle"]
  /\ UNCHANGED <<seek_vars, buffer_vars, flag_vars, heard_vars, transport,
                 running, disk, key_vars>>

(* The callback goes on with nothing, or with n frames of each channel.    *)
ProcessDoes(from, to, n) ==
  /\ ~running.shutdown_in_progress
  /\ process.at = from
  /\ process' = [at |-> to, n |-> n, channel |-> 0]

ProcessGoes(from, to) == ProcessDoes(from, to, 0)

(* A step of a loop over the channels, and what comes after the last.      *)
NextChannel(from, to) ==
  /\ ~running.shutdown_in_progress
  /\ process.at = from
  /\ process' = IF process.channel + 1 < Channels
                THEN [process EXCEPT !.channel = @ + 1]
                ELSE [process EXCEPT !.at = to, !.channel = 0,
                                     !.n = IF to = "advance" THEN @ ELSE 0]

ProcessBegins ==
  /\ \E p \in IF UseJackTransport THEN BOOLEAN ELSE {transport.is_playing} :
       transport' = [transport EXCEPT !.is_playing = p]
  /\ \/ /\ reset_ringbuffers_in_progress
        /\ ProcessGoes("idle", "idle")
        /\ output' = Silence
        /\ UNCHANGED disk
     \/ /\ ~reset_ringbuffers_in_progress
        /\ transport.is_idling_at_end
        /\ ProcessGoes("idle", "idle")
        /\ output' = Silence
        /\ req_buffer_from_disk_thread
     \/ /\ ~reset_ringbuffers_in_progress
        /\ ~transport.is_idling_at_end
        /\ ProcessGoes("idle", IF transport'.is_playing \/ transport.loop_enabled
                               THEN "deinterleave" ELSE "check")
        /\ UNCHANGED <<disk, output>>
  /\ UNCHANGED <<seek_vars, buffer_vars, flag_vars, next_frame, running, key_vars>>

(* jack_deinterleave: at most a period of the next frames is used, if the  *)
(* other buffer has room for them.                                         *)
DeinterleaveBegins ==
  LET use  == Least(Len(resampled), Period)
      room == (DeinterleavedSize * Channels - Len(deinterleaved)) \div Channels
  IN  /\ IF use >= 1 /\ room >= use
         THEN ProcessDoes("deinterleave", "write", use)
         ELSE ProcessGoes("deinterleave", "check")
      /\ UNCHANGED <<seek_vars, buffer_vars, flag_vars, heard_vars, transport,
                     running, disk, key_vars>>

(* One channel's samples of these frames are copied out and appended.  The *)
(* copy fails if a seek dropped the frames in between; what the callback's *)
(* own buffer held before is then appended.                                *)
DeinterleaveWrites ==
  /\ NextChannel("write", "advance")
  /\ deinterleaved' = deinterleaved \o
       [i \in 1 .. process.n |->
          <<process.channel, IF process.n <= Len(resampled) THEN resampled[i] ELSE Stale>>]
  /\ UNCHANGED <<seek_vars, resampled, samples_read, flag_vars, heard_vars,
                 transport, running, disk, key_vars>>

DeinterleaveAdvances ==
  /\ ProcessGoes("advance", "check")
  /\ resampled' = After(resampled, process.n)
  /\ UNCHANGED <<seek_vars, deinterleaved, samples_read, flag_vars, heard_vars,
                 transport, running, disk, key_vars>>

(* A slip of ProcessChecksEnd: what is still buffered is not looked at.    *)
ProcessChecksEndOfInput ==
  /\ ProcessGoes("check", IF no_more_input_data THEN "idle" ELSE "output")
  /\ running' = [running EXCEPT !.shutdown_in_progress = no_more_input_data]
  /\ output' = IF no_more_input_data THEN Silence ELSE output
  /\ UNCHANGED <<seek_vars, buffer_vars, flag_vars, next_frame, transport,
                 disk, key_vars>>

ProcessChecksEnd ==
  LET ended == no_more_input_data /\ resampled = <<>> /\ deinterleaved = <<>>
  IN  /\ ProcessGoes("check", IF ended THEN "idle" ELSE "output")
      /\ running' = [running EXCEPT !.shutdown_in_progress = ended]
      /\ output' = IF ended THEN Silence ELSE output
      /\ UNCHANGED <<seek_vars, buffer_vars, flag_vars, next_frame, transport,
                     disk, key_vars>>

(* Nothing is put out while paused or seeking. *)
Mute == ~transport.is_playing
          \/ (running.seek_frames_in_progress /\ ~transport.loop_enabled)

(* A slip of ProcessMutes: the disk thread is not woken while muted.       *)
ProcessMutesOnly ==
  /\ Mute
  /\ ProcessGoes("output", "idle")
  /\ output' = Silence
  /\ UNCHANGED <<seek_vars, buffer_vars, flag_vars, next_frame, transport,
                 running, disk, key_vars>>

ProcessMutes ==
  /\ Mute
  /\ ProcessGoes("output", "idle")
  /\ output' = Silence
  /\ req_buffer_from_disk_thread
  /\ UNCHANGED <<seek_vars, buffer_vars, flag_vars, next_frame, transport,
                 running, key_vars>>

FramesAvailable == Len(deinterleaved) \div Channels

ProcessPutsOut ==
  /\ ~Mute
  /\ \/ /\ FramesAvailable >= Period
        /\ ProcessDoes("output", "read", Period)
        /\ UNCHANGED <<output, running, disk>>
     \/ /\ 1 <= FramesAvailable /\ FramesAvailable < Period /\ no_more_input_data
        /\ ProcessDoes("output", "read", FramesAvailable)
        /\ UNCHANGED <<output, running, disk>>
     \/ /\ FramesAvailable < 1 /\ no_more_input_data
        /\ ProcessGoes("output", "idle")
        /\ running' = [running EXCEPT !.shutdown_in_progress = TRUE]
        /\ output' = Silence
        /\ UNCHANGED disk
     \/ /\ FramesAvailable < Period /\ ~no_more_input_data
        /\ ProcessGoes("output", "idle")
        /\ output' = Silence
        /\ req_buffer_from_disk_thread
        /\ UNCHANGED running
  /\ UNCHANGED <<seek_vars, buffer_vars, flag_vars, next_frame, transport, key_vars>>

(* One channel after the other reads its n samples.  A partial period is   *)
(* not followed by a request.                                              *)
ProcessReads ==
  LET got  == FirstOf(deinterleaved, process.n)
      last == process.channel + 1 = Channels
      heard == output'[0]
  IN  /\ NextChannel("read", IF process.n = Period THEN "request" ELSE "idle")
      /\ output' = [output EXCEPT ![process.channel] = got]
      /\ deinterleaved' = After(deinterleaved, process.n)
      /\ samples_read' = samples_read + Len(got)
      /\ next_frame' = IF last /\ heard # <<>> /\ heard[Len(heard)][2] # Stale
                       THEN heard[Len(heard)][2] + 1 ELSE next_frame
      /\ UNCHANGED <<seek_vars, resampled, flag_vars, transport, running, disk,
                     key_vars>>

ProcessRequests ==
  /\ ProcessGoes("request", "idle")
  /\ req_buffer_from_disk_thread
  /\ UNCHANGED <<seek_vars, buffer_vars, flag_vars, heard_vars, transport, running,
                 key_vars>>

jack_process ==
  \/ MainEnablesProcess
  \/ ProcessBegins
  \/ DeinterleaveBegins \/ DeinterleaveWrites \/ DeinterleaveAdvances
  \/ ProcessChecksEnd \/ ProcessMutes \/ ProcessPutsOut
  \/ ProcessReads \/ ProcessRequests

------------------------------------------------------------------------------
(* The keys.                                                               *)

Hit(key) ==
  /\ key \in Keys /\ keys_hit < MaxKeys
  /\ process.at # "starting" /\ ~running.shutdown_in_progress
  /\ keys_hit' = keys_hit + 1 /\ leaving' = (IF key = "next" THEN "asked" ELSE "no")
  /\ UNCHANGED <<file_pos, total_frames_read_from_file, buffer_vars, flag_vars,
                 heard_vars, disk, process>>

seek_frames_absolute(frame) ==
  /\ frames_to_seek' = Least(End, Most(FrameOffset, frame))
  /\ running' = [running EXCEPT !.seek_frames_in_progress = TRUE]

NoSeek == UNCHANGED <<frames_to_seek, running>>

get_current_play_position_in_file ==
  Least(End, running.last_seek_pos + samples_read \div Channels)

seek_frames(step) ==
  LET here == get_current_play_position_in_file
      seek == IF step > 0 THEN Least(End - here, step) ELSE Most(FrameOffset - here, step)
  IN  IF running.seek_frames_in_progress THEN NoSeek
      ELSE seek_frames_absolute(here + seek)

IdlingAtEnd == transport.pause_at_end /\ transport.is_idling_at_end

ctrl_toggle_play ==
  /\ Hit("space")
  /\ transport' = IF IdlingAtEnd THEN transport
                  ELSE [transport EXCEPT !.is_idling_at_end = FALSE, !.is_playing = ~@]
  /\ NoSeek

ctrl_seek_backward ==
  Hit("backward") /\ seek_frames(0 - SeekStep) /\ UNCHANGED transport

ctrl_seek_forward ==
  /\ Hit("forward")
  /\ IF IdlingAtEnd
     THEN NoSeek /\ UNCHANGED transport
     ELSE /\ transport' = [transport EXCEPT !.is_idling_at_end = FALSE]
          /\ seek_frames(SeekStep)

ctrl_seek_start ==
  Hit("start") /\ seek_frames_absolute(FrameOffset) /\ UNCHANGED transport

ctrl_seek_end ==
  /\ Hit("end")
  /\ IF transport.is_idling_at_end THEN NoSeek ELSE seek_frames_absolute(End)
  /\ UNCHANGED transport

ctrl_toggle_loop ==
  /\ Hit("loop")
  /\ transport' = [transport EXCEPT !.loop_enabled = ~@]
  /\ IF transport'.loop_enabled /\ no_more_input_data
     THEN seek_frames_absolute(FrameOffset) ELSE NoSeek

ctrl_toggle_pause_at_end ==
  /\ Hit("pae")
  /\ transport' = [transport EXCEPT
       !.pause_at_end = ~@,
       !.is_idling_at_end = @ \/ (~transport.pause_at_end /\ no_more_input_data)]
  /\ NoSeek


(* The next or the previous file, and quitting, end this one the same way. *)
ctrl_load_next_file ==
  /\ Hit("next")
  /\ transport' = [is_playing |-> TRUE, loop_enabled |-> FALSE,
                   pause_at_end |-> FALSE, is_idling_at_end |-> FALSE]
  /\ seek_frames_absolute(End)

Key == \/ ctrl_toggle_play \/ ctrl_seek_backward \/ ctrl_seek_forward
       \/ ctrl_seek_start \/ ctrl_seek_end \/ ctrl_toggle_loop
       \/ ctrl_toggle_pause_at_end \/ ctrl_load_next_file

(* The main loop finds shutdown_in_progress set and leaves this file. *)
Leave == running.shutdown_in_progress /\ UNCHANGED vars

Next == MainPrimes \/ Disk \/ jack_process \/ Key \/ Leave

Spec == Init /\ [][Next]_vars

(* JACK runs the callback every cycle, once main has enabled it, and the   *)
(* disk thread is scheduled; nobody has to hit a key.                      *)
FairSpec == Spec /\ WF_vars(Disk) /\ WF_vars(jack_process)

------------------------------------------------------------------------------
Frame  == 0 .. FileFrames
Sample == Channel \X (Frame \cup {Stale})

TypeOK ==
  /\ file_pos \in Frame
  /\ frames_to_seek \in 0 .. End
  /\ total_frames_read_from_file \in 0 .. Word - 1
  /\ {no_more_input_data, reset_ringbuffers_in_progress} \subseteq BOOLEAN
  /\ transport \in [{"is_playing", "loop_enabled", "pause_at_end",
                     "is_idling_at_end"} -> BOOLEAN]
  /\ running \in [seek_frames_in_progress : BOOLEAN, last_seek_pos : Frame,
                  shutdown_in_progress : BOOLEAN]
  /\ resampled \in Seq(Frame) /\ Len(resampled) <= ResampledSize
  /\ deinterleaved \in Seq(Sample)
  /\ Len(deinterleaved) <= Channels * DeinterleavedSize
  /\ samples_read \in Nat
  /\ process.at \in {"starting", "idle", "deinterleave", "write", "advance",
                     "check", "output", "read", "request"}
  /\ process.n \in 0 .. Period /\ process.channel \in Channel
  /\ output \in [Channel -> Seq(Sample)]
  /\ next_frame \in Frame

(* What comes after the last frame is the first one, in a loop.            *)
Due(i) == IF next_frame + i > End
          THEN FrameOffset + ((next_frame + i - 1 - FrameOffset) % FrameCount)
          ELSE next_frame + i - 1

(* Every port plays the frames of the file in order: each cycle goes on    *)
(* where the cycle before it ended, on every channel, through underruns,   *)
(* partial reads and the seam of a loop (jackaudio.h:207-244, 322-366).    *)
PlaysInOrder ==
  [][ ProcessReads =>
        \A i \in DOMAIN output'[process.channel] :
          output'[process.channel][i][2] = Due(i) ]_vars

(* A port only gets samples of its own channel: the blocks that            *)
(* jack_deinterleave writes and those that jack_process reads line up      *)
(* ("if not limited, deinterleaved block align borked", jackaudio.h:218).  *)
ChannelsAligned ==
  \A c \in Channel : \A i \in DOMAIN output[c] : output[c][i][1] = c

(* As long as no key is hit, the player that leaves a file has put out all *)
(* of it but for what one disk read gave it: those frames are left unheard *)
(* when they arrive, as the last ones, in a cycle that had nothing to play *)
(* (jackaudio.h:290-308, 376-389).                                         *)
LosesAtMostOneRead ==
  running.shutdown_in_progress =>
    \/ next_frame = End
    \/ Len(resampled) = End - next_frame /\ Len(resampled) <= sndfile_request_frames

(* A file that neither loops nor pauses at its end is left in the end, so  *)
(* that the next one gets its turn.                                        *)
FileIsLeft ==
  ~transport.loop_enabled /\ ~transport.pause_at_end => <>running.shutdown_in_progress

(* A seek does not stay pending: the disk thread is woken and serves it,   *)
(* or the player leaves the file (jack_playfile.c:818-866, 938-949).       *)
SeekIsServed ==
  running.seek_frames_in_progress ~>
    (~running.seek_frames_in_progress \/ running.shutdown_in_progress)

(* A loop goes round for ever: its first frame is put out again and again, *)
(* unless the player is also to pause at the end.  Only a disk thread that *)
(* is late by all that was buffered can end it: its last read arrives as   *)
(* above, or all of it is played before the file is rewound.               *)
LoopGoesRound ==
  transport.loop_enabled /\ ~transport.pause_at_end =>
    \/ []<>(\E i \in DOMAIN output[0] : output[0][i][2] = FrameOffset)
    \/ <>(running.shutdown_in_progress /\ (resampled # <<>> \/ disk.at = "loops"))

(* The key for the next file ends a looping or a pausing one, unless       *)
(* another key is hit first: "*> greater than*:: Load next file"           *)
(* (doc/jack_playfile.man.asciidoc:284, control.h:323-341).                *)
NextFileIsReached == leaving # "no" ~> (running.shutdown_in_progress \/ leaving = "no")


==============================================================================
