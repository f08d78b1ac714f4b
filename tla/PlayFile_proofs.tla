--------------------------- MODULE PlayFile_proofs ---------------------------
(***************************************************************************)
(* Proofs about PlayFile, for every file, period, buffer size and order of *)
(* the steps of the disk thread, the callback and the main thread: the     *)
(* types of the state, whatever keys are hit, and, for one channel and     *)
(* without keys, that the frames are put out in order through the seam of  *)
(* a loop and that no more than one read of them is lost at the end.       *)
(***************************************************************************)
EXTENDS PlayFile, SequenceTheorems, TLAPS

(* The frames that can be read of the file. *)
InFile == 0 .. FileFrames - 1

(* What the callback puts in its buffer. *)
Played == Channel \X (InFile \cup {Stale})

SeekOK ==
  /\ file_pos \in Frame /\ frames_to_seek \in 0 .. End
  /\ total_frames_read_from_file \in 0 .. Word - 1

Transports == [is_playing : BOOLEAN, loop_enabled : BOOLEAN, pause_at_end : BOOLEAN,
               is_idling_at_end : BOOLEAN]

StructsOK ==
  /\ no_more_input_data \in BOOLEAN /\ reset_ringbuffers_in_progress \in BOOLEAN
  /\ transport \in Transports
  /\ running \in [seek_frames_in_progress : BOOLEAN, last_seek_pos : Frame,
                  shutdown_in_progress : BOOLEAN]

(* Room for what will be read was there when the disk thread looked, and   *)
(* nobody else fills the buffer.                                           *)
ResampledOK ==
  /\ resampled \in Seq(InFile) /\ Len(resampled) <= ResampledSize
  /\ disk.at = "read" => Len(resampled) + sndfile_request_frames <= ResampledSize

(* Where the disk thread decides what comes after the end.                 *)
Ending == {"at_end", "pauses", "ends_seek", "ends_target", "idles", "loop_due"}

DiskOK ==
  disk \in [at : {"top", "drop_deinterleaved", "drop_resampled", "seek", "clear_request",
                  "clear_target", "restart", "seek_ended", "seek_idles", "seek_pauses",
                  "seek_loop_due", "seek_loops", "space", "wait", "read", "account", "loops"}
                   \cup Ending,
            got : Nat]

(* In the middle of a block there is room for the channels to come. *)
DeinterleavedOK ==
  /\ deinterleaved \in Seq(Played) /\ Len(deinterleaved) <= Channels * DeinterleavedSize
  /\ process.at = "write" =>
       Len(deinterleaved) + (Channels - process.channel) * process.n
         <= Channels * DeinterleavedSize

ProcessOK ==
  process \in [at : {"starting", "idle", "deinterleave", "write", "advance",
                     "check", "output", "read", "request"},
               n : 0 .. Period, channel : Channel]

HeardOK ==
  output \in [Channel -> Seq(Played)] /\ next_frame \in Frame /\ samples_read \in Nat

TInv == /\ SeekOK /\ StructsOK /\ ResampledOK /\ DiskOK
        /\ DeinterleavedOK /\ ProcessOK /\ HeardOK

(* What the proofs use of the constants. *)
LEMMA Sizes ==
  /\ FileFrames \in Nat \ {0} /\ FrameOffset \in Nat /\ FrameCount \in Nat \ {0}
  /\ Channels \in Nat \ {0} /\ Period \in Nat \ {0} /\ ResampledSize \in Nat
  /\ DeinterleavedSize \in Nat /\ End \in Nat /\ End <= FileFrames /\ End > FrameOffset
  /\ sndfile_request_frames \in Nat /\ sndfile_request_frames > Period
  /\ Word \in Nat \ {0} /\ FrameCount < Word /\ SeekStep \in Nat \ {0}
  /\ Period <= DeinterleavedSize
  /\ FrameOffset + FrameCount = End
<1>1. Period \div 10 \in Nat
  BY PlayAssumption
<1>2. /\ FileFrames \in Nat \ {0} /\ FrameOffset \in Nat /\ FrameCount \in Nat \ {0}
      /\ Channels \in Nat \ {0} /\ Period \in Nat \ {0} /\ DeinterleavedSize \in Nat
      /\ SeekStep \in Nat \ {0} /\ Period <= DeinterleavedSize
      /\ FrameOffset + FrameCount <= FileFrames
  BY PlayAssumption
<1>3. ResampledSize \in Nat /\ Word \in Nat
  BY PlayAssumption
<1>4. Word > 3 * FileFrames + 2 * Period + 2
  BY PlayAssumption
<1>5. sndfile_request_frames \in Nat /\ sndfile_request_frames > Period
  BY <1>1, <1>2 DEF sndfile_request_frames, Most
<1>6. Word \in Nat \ {0} /\ FrameCount < Word
  BY <1>2, <1>3, <1>4
<1> QED
  BY <1>2, <1>3, <1>5, <1>6 DEF End

(* What is left of b of a, q times over. *)
LEMMA Fits ==
  ASSUME NEW a \in Nat, NEW b \in Nat \ {0}, NEW q \in Nat, a \div b >= q
  PROVE  b * q <= a
<1>1. PICK d \in Nat : d = a \div b
  OBVIOUS
<1>2. b * d <= a
  BY <1>1
<1>3. b * q <= b * d
  BY <1>1
<1> QED
  BY <1>2, <1>3

(* A rest is below what it was divided by. *)
LEMMA Modulo == ASSUME NEW a \in Int, NEW b \in Nat \ {0} PROVE a % b \in 0 .. b - 1
OBVIOUS

(* A quotient of naturals is one. *)
LEMMA Quotient == ASSUME NEW a \in Nat, NEW b \in Nat \ {0} PROVE a \div b \in Nat
OBVIOUS

(* So is their product. *)
LEMMA Product == ASSUME NEW a \in Nat, NEW b \in Nat PROVE a * b \in Nat
OBVIOUS

(* A transport struct is a function of its four fields. *)
LEMMA TransportFields ==
  Transports = [{"is_playing", "loop_enabled", "pause_at_end", "is_idling_at_end"} -> BOOLEAN]
BY DEF Transports


(* All starts empty and in range. *)
LEMMA TInvInit == Init => TInv
<1> SUFFICES ASSUME Init
             PROVE  TInv
  OBVIOUS
<1>1. SeekOK
  BY Sizes DEF Init, SeekOK, Frame
<1>2. StructsOK
  <2>1. transport \in Transports
    BY PlayAssumption DEF Init, Transports
  <2>2. running = [seek_frames_in_progress |-> FrameOffset > 0,
                   last_seek_pos |-> FrameOffset, shutdown_in_progress |-> FALSE]
    BY DEF Init
  <2>3. FrameOffset \in Frame
    BY Sizes DEF Frame
  <2>4. running \in [seek_frames_in_progress : BOOLEAN, last_seek_pos : Frame,
                     shutdown_in_progress : BOOLEAN]
    <3>1. CASE FrameOffset > 0
      <4>1. (FrameOffset > 0) = TRUE
        BY <3>1
      <4>2. running = [seek_frames_in_progress |-> TRUE, last_seek_pos |-> FrameOffset,
                       shutdown_in_progress |-> FALSE]
        BY <2>2, <4>1, Zenon
      <4> QED
        BY <2>3, <4>2
    <3>2. CASE ~(FrameOffset > 0)
      <4>1. (FrameOffset > 0) = FALSE
        BY <3>2
      <4>2. running = [seek_frames_in_progress |-> FALSE, last_seek_pos |-> FrameOffset,
                       shutdown_in_progress |-> FALSE]
        BY <2>2, <4>1, Zenon
      <4> QED
        BY <2>3, <4>2
    <3> QED
      BY <3>1, <3>2
  <2> QED
    BY <2>1, <2>4 DEF Init, StructsOK
<1>3. ResampledOK /\ DiskOK
  BY Sizes DEF Init, ResampledOK, DiskOK
<1>4. DeinterleavedOK
  BY Sizes, Product DEF Init, DeinterleavedOK
<1>5. ProcessOK /\ HeardOK
  BY Sizes DEF Init, ProcessOK, HeardOK, Silence, Channel, Frame
<1> QED
  BY <1>1, <1>2, <1>3, <1>4, <1>5 DEF TInv

(* A key's seek stays in what is played of the file. *)
LEMMA SeeksInRange ==
  ASSUME TInv, NEW step \in Int, seek_frames(step)
  PROVE  /\ frames_to_seek' \in 0 .. End
         /\ \/ running' = running
            \/ running' = [running EXCEPT !.seek_frames_in_progress = TRUE]
<1>1. CASE running.seek_frames_in_progress
  BY <1>1 DEF seek_frames, NoSeek, TInv, SeekOK
<1>2. CASE ~running.seek_frames_in_progress
  <2>1. PICK f : f = get_current_play_position_in_file +
                      (IF step > 0 THEN Least(End - get_current_play_position_in_file, step)
                       ELSE Most(FrameOffset - get_current_play_position_in_file, step))
    OBVIOUS
  <2>2. seek_frames_absolute(f)
    BY <1>2, <2>1 DEF seek_frames
  <2>3. get_current_play_position_in_file \in Int
    <3>1. samples_read \div Channels \in Nat
      BY Sizes, Quotient DEF TInv, HeardOK
    <3>2. running.last_seek_pos \in Int
      BY Sizes DEF TInv, StructsOK, Frame
    <3> QED
      BY <3>1, <3>2, Sizes DEF get_current_play_position_in_file, Least
  <2>4. f \in Int
    BY <2>1, <2>3, Sizes DEF Least, Most
  <2> QED
    BY <2>2, <2>4, Sizes DEF seek_frames_absolute, Least, Most
<1> QED
  BY <1>1, <1>2

(* The reader and the seek request stay in the file, the count in its word. *)
LEMMA SeekKept == TInv /\ [Next]_vars => SeekOK'
<1> SUFFICES ASSUME TInv, [Next]_vars
             PROVE  SeekOK'
  OBVIOUS
<1> DEFINE total == total_frames_read_from_file
<1>1. /\ file_pos \in 0 .. FileFrames /\ frames_to_seek \in 0 .. End /\ total \in 0 .. Word - 1
      /\ running.last_seek_pos \in 0 .. FileFrames
  BY DEF TInv, SeekOK, StructsOK, Frame
<1>2. CASE UNCHANGED seek_vars
  BY <1>1, <1>2 DEF SeekOK, seek_vars, Frame
<1>3. CASE DiskSeek
  BY <1>1, <1>3, Sizes DEF DiskSeek, SeekOK, Least, Frame
<1>4. CASE DiskClearTarget
  <2>1. (running.last_seek_pos - FrameOffset) % Word \in 0 .. Word - 1
    <3>1. running.last_seek_pos - FrameOffset \in Int
      BY <1>1, Sizes
    <3> QED
      BY <3>1, Sizes, Modulo
  <2> QED
    BY <1>1, <1>4, <2>1, Sizes DEF DiskClearTarget, SeekOK, Frame
<1>5. CASE Rewind /\ UNCHANGED frames_to_seek
  BY <1>1, <1>5, Sizes DEF Rewind, SeekOK, Frame
<1>6. CASE DiskRead
  <2>1. PICK n : /\ n = IF transport.is_idling_at_end THEN 0
                        ELSE Least(Least((FrameCount - total) % Word, sndfile_request_frames),
                                   FileFrames - file_pos)
                 /\ file_pos' = file_pos + n /\ frames_to_seek' = frames_to_seek
                 /\ total' = total
    BY <1>6 DEF DiskRead
  <2>2. (FrameCount - total) % Word \in Nat
    BY <1>1, Sizes, Modulo
  <2>3. n \in 0 .. FileFrames - file_pos
    BY <1>1, <2>1, <2>2, Sizes DEF Least
  <2> QED
    BY <1>1, <2>1, <2>3, Sizes DEF SeekOK, Frame
<1>7. CASE DiskAccount
  <2>1. (total + disk.got) % Word \in 0 .. Word - 1
    <3>1. total + disk.got \in Int
      BY <1>1, Sizes DEF TInv, DiskOK
    <3> QED
      BY <3>1, Sizes, Modulo
  <2>2. file_pos' = file_pos /\ frames_to_seek' = frames_to_seek
        /\ total' = (total + disk.got) % Word
    BY <1>7 DEF DiskAccount
  <2> QED
    BY <1>1, <2>1, <2>2, Sizes DEF SeekOK, Frame
<1>9. CASE DiskPauses \/ DiskEndsTarget
  BY <1>1, <1>9, Sizes DEF DiskPauses, DiskEndsTarget, SeekOK, Frame
<1>8. CASE Key
  <2>1. frames_to_seek' \in 0 .. End
    <3>1. CASE NoSeek
      BY <1>1, <3>1 DEF NoSeek
    <3>2. CASE \E f \in {FrameOffset, End} : seek_frames_absolute(f)
      BY <3>2, Sizes DEF seek_frames_absolute, Least, Most
    <3>3. CASE \E step \in {SeekStep, 0 - SeekStep} : seek_frames(step)
      BY <3>3, Sizes, SeeksInRange
    <3> QED
      BY <1>8, <3>1, <3>2, <3>3
         DEF Key, ctrl_toggle_play, ctrl_seek_backward, ctrl_seek_forward, ctrl_seek_start,
             ctrl_seek_end, ctrl_toggle_loop, ctrl_toggle_pause_at_end, ctrl_load_next_file
  <2>2. UNCHANGED <<file_pos, total>>
    BY <1>8 DEF Key, Hit, ctrl_toggle_play, ctrl_seek_backward, ctrl_seek_forward,
             ctrl_seek_start, ctrl_seek_end, ctrl_toggle_loop, ctrl_toggle_pause_at_end,
             ctrl_load_next_file
  <2> QED
    BY <1>1, <2>1, <2>2 DEF SeekOK, Frame
<1> QED
  BY <1>2, <1>3, <1>4, <1>5, <1>6, <1>7, <1>8, <1>9
     DEF Next, vars, MainPrimes, Leave, Disk, DiskSeekDue, DiskNoSeek,
          DiskDropDeinterleaved, DiskDropResampled, DiskClearRequest, DiskRestart,
          DiskSeekEnded, DiskSeekIdles, DiskSeekPauses, DiskSeekLoopDue, DiskSeekLoops,
          DiskSpace, DiskLoops, DiskAtEnd, DiskPauses, DiskEndsSeek, DiskEndsTarget,
          DiskIdles, DiskLoopDue, jack_process, MainEnablesProcess, ProcessBegins,
          DeinterleaveBegins, DeinterleaveWrites, DeinterleaveAdvances, ProcessChecksEnd,
          ProcessMutes, ProcessPutsOut, ProcessReads, ProcessRequests

(* The structs and flags stay Boolean. *)
LEMMA StructsKept == TInv /\ [Next]_vars => StructsOK'
<1> SUFFICES ASSUME TInv, [Next]_vars
             PROVE  StructsOK'
  OBVIOUS
<1> DEFINE Runnings == [seek_frames_in_progress : BOOLEAN, last_seek_pos : Frame,
                        shutdown_in_progress : BOOLEAN]
<1>1. /\ transport \in Transports /\ running \in Runnings
      /\ no_more_input_data \in BOOLEAN /\ reset_ringbuffers_in_progress \in BOOLEAN
  BY DEF TInv, StructsOK
<1>2. no_more_input_data' \in BOOLEAN /\ reset_ringbuffers_in_progress' \in BOOLEAN
  BY <1>1 DEF Next, vars, flag_vars, MainPrimes, Leave, Disk, DiskSeekDue, DiskNoSeek,
       DiskDropDeinterleaved, DiskDropResampled, DiskSeek, DiskClearRequest,
       DiskClearTarget, DiskRestart, DiskSeekEnded, DiskSeekIdles, DiskSeekPauses,
       DiskSeekLoopDue, DiskSeekLoops, DiskSpace, DiskRead, DiskAccount, DiskLoops,
       DiskAtEnd, DiskPauses, DiskEndsSeek, DiskEndsTarget, DiskIdles, DiskLoopDue,
       Rewind, jack_process, MainEnablesProcess, ProcessBegins, DeinterleaveBegins,
       DeinterleaveWrites, DeinterleaveAdvances, ProcessChecksEnd, ProcessMutes,
       ProcessPutsOut, ProcessReads, ProcessRequests, Key, Hit, ctrl_toggle_play,
       ctrl_seek_backward, ctrl_seek_forward, ctrl_seek_start, ctrl_seek_end,
       ctrl_toggle_loop, ctrl_toggle_pause_at_end, ctrl_load_next_file
<1>3. running' \in Runnings
  <2>1. CASE running' = running
    BY <1>1, <2>1
  <2>2. CASE DiskSeek
    <3>1. file_pos' \in Frame
      BY SeekKept DEF SeekOK
    <3> QED
      BY <1>1, <2>2, <3>1 DEF DiskSeek
  <2>3. CASE Rewind
    <3>1. FrameOffset \in Frame
      BY Sizes DEF Frame
    <3> QED
      BY <1>1, <2>3, <3>1 DEF Rewind
  <2>4. CASE \E b \in BOOLEAN : running' = [running EXCEPT !.seek_frames_in_progress = b]
    BY <1>1, <2>4
  <2>5. CASE \E b \in BOOLEAN : running' = [running EXCEPT !.shutdown_in_progress = b]
    BY <1>1, <2>5
  <2>6. CASE DiskEndsSeek
    BY <2>4, <2>6 DEF DiskEndsSeek
  <2>7. CASE ProcessChecksEnd
    <3>1. PICK b \in BOOLEAN : running' = [running EXCEPT !.shutdown_in_progress = b]
      BY <2>7 DEF ProcessChecksEnd
    <3> QED
      BY <2>5, <3>1
  <2>8. CASE Key
    <3>1. CASE NoSeek
      BY <2>1, <3>1 DEF NoSeek
    <3>2. CASE \E f : seek_frames_absolute(f)
      BY <2>4, <3>2 DEF seek_frames_absolute
    <3>3. CASE \E step \in {SeekStep, 0 - SeekStep} : seek_frames(step)
      <4>1. PICK step \in Int : seek_frames(step)
        BY <3>3, Sizes
      <4>2. running' = running \/ running' = [running EXCEPT !.seek_frames_in_progress = TRUE]
        BY <4>1, SeeksInRange
      <4> QED
        BY <2>1, <2>4, <4>2
    <3> QED
      BY <2>8, <3>1, <3>2, <3>3
         DEF Key, ctrl_toggle_play, ctrl_seek_backward, ctrl_seek_forward, ctrl_seek_start,
             ctrl_seek_end, ctrl_toggle_loop, ctrl_toggle_pause_at_end, ctrl_load_next_file
  <2>9. CASE DiskClearRequest
    BY <2>4, <2>9 DEF DiskClearRequest
  <2>10. CASE ProcessPutsOut
    BY <2>1, <2>5, <2>10 DEF ProcessPutsOut
  <2> QED
    BY <2>1, <2>2, <2>3, <2>6, <2>7, <2>8, <2>9, <2>10
       DEF Next, vars, MainPrimes, Leave, Disk, DiskSeekDue, DiskNoSeek,
            DiskDropDeinterleaved, DiskDropResampled, DiskClearTarget, DiskRestart,
            DiskSeekEnded, DiskSeekIdles, DiskSeekPauses, DiskSeekLoopDue, DiskSeekLoops,
            DiskSpace, DiskRead, DiskAccount, DiskLoops, DiskAtEnd, DiskPauses, DiskEndsSeek,
            DiskEndsTarget, DiskIdles, DiskLoopDue, jack_process, MainEnablesProcess,
            ProcessBegins, DeinterleaveBegins, DeinterleaveWrites, DeinterleaveAdvances,
            ProcessMutes, ProcessReads, ProcessRequests
<1>4. transport' \in Transports
  <2>1. CASE transport' = transport
    BY <1>1, <2>1
  <2>2. CASE DiskRestart \/ DiskSeekLoops \/ DiskLoops
    BY <1>1, <2>2 DEF DiskRestart, DiskSeekLoops, DiskLoops, Transports
  <2>4. CASE DiskSeekIdles \/ DiskSeekPauses \/ DiskPauses \/ DiskIdles
    BY <1>1, <2>4 DEF DiskSeekIdles, DiskSeekPauses, DiskPauses, DiskIdles, Transports
  <2>5. CASE ProcessBegins
    BY <1>1, <2>5 DEF ProcessBegins, Transports
  <2>6. CASE Key
    <3>1. CASE ctrl_toggle_play
      BY <1>1, <3>1 DEF ctrl_toggle_play, Transports
    <3>2. CASE ctrl_toggle_loop
      BY <1>1, <3>2 DEF ctrl_toggle_loop, Transports
    <3>3. CASE ctrl_toggle_pause_at_end
      BY <1>1, <1>2, <3>3 DEF ctrl_toggle_pause_at_end, Transports
    <3>4. CASE ctrl_load_next_file
      BY <3>4 DEF ctrl_load_next_file, Transports
    <3>5. CASE ctrl_seek_forward
      BY <1>1, <3>5 DEF ctrl_seek_forward, Transports
    <3>6. CASE ctrl_seek_backward \/ ctrl_seek_start \/ ctrl_seek_end
      BY <1>1, <3>6 DEF ctrl_seek_backward, ctrl_seek_start, ctrl_seek_end
    <3> QED
      BY <2>6, <3>1, <3>2, <3>3, <3>4, <3>5, <3>6 DEF Key
  <2> QED
    BY <2>1, <2>2, <2>4, <2>5, <2>6
       DEF Next, vars, MainPrimes, Leave, Disk, DiskSeekDue, DiskNoSeek, DiskDropDeinterleaved,
         DiskDropResampled, DiskSeek, DiskClearRequest, DiskClearTarget,
         DiskSeekEnded, DiskSeekLoopDue, DiskSpace, DiskRead, DiskAccount, DiskAtEnd,
         DiskEndsSeek, DiskEndsTarget, DiskLoopDue, jack_process, MainEnablesProcess,
         DeinterleaveBegins, DeinterleaveWrites, DeinterleaveAdvances,
         ProcessChecksEnd, ProcessMutes, ProcessPutsOut, ProcessReads, ProcessRequests
<1> QED
  BY <1>2, <1>3, <1>4 DEF StructsOK

(* A function from 1 .. n is a sequence of length n. *)
LEMMA FunctionIsSeq ==
  ASSUME NEW S, NEW n \in Nat, NEW f \in [1 .. n -> S]
  PROVE  f \in Seq(S) /\ Len(f) = n
OBVIOUS

(* A block is added at the end. *)
LEMMA BlockAdded ==
  ASSUME NEW S, NEW s \in Seq(S), NEW n \in Nat, NEW f \in [1 .. n -> S]
  PROVE  /\ s \o f \in Seq(S) /\ Len(s \o f) = Len(s) + n
         /\ \A i \in 1 .. Len(s) + n :
              (s \o f)[i] = IF i <= Len(s) THEN s[i] ELSE f[i - Len(s)]
<1>1. f \in Seq(S) /\ Len(f) = n
  BY FunctionIsSeq
<1> QED
  BY <1>1, ConcatProperties

(* The first n are taken off the front. *)
LEMMA FrontTaken ==
  ASSUME NEW S, NEW s \in Seq(S), NEW n \in Nat
  PROVE  /\ After(s, n) \in Seq(S)
         /\ Len(After(s, n)) = IF n <= Len(s) THEN Len(s) - n ELSE 0
         /\ \A i \in 1 .. Len(s) - n : After(s, n)[i] = s[n + i]
         /\ FirstOf(s, n) \in Seq(S) /\ Len(FirstOf(s, n)) = Least(n, Len(s))
         /\ \A i \in 1 .. Least(n, Len(s)) : FirstOf(s, n)[i] = s[i]
<1>1. PICK l \in Nat : l = Len(s)
  OBVIOUS
<1>2. \A i \in 1 .. l : s[i] \in S
  BY <1>1
<1>3. /\ After(s, n) \in Seq(S) /\ Len(After(s, n)) = IF n + 1 <= l THEN l - (n + 1) + 1 ELSE 0
      /\ \A i \in 1 .. l - (n + 1) + 1 : After(s, n)[i] = s[n + 1 + i - 1]
  <2>1. n + 1 \in Int /\ \A i \in n + 1 .. l : s[i] \in S
    BY <1>2
  <2> QED
    BY <1>1, <2>1, SubSeqProperties DEF After
<1>4. PICK k \in Nat : k = Least(n, l) /\ k <= l
  BY DEF Least
<1>5. /\ FirstOf(s, n) \in Seq(S) /\ Len(FirstOf(s, n)) = IF 1 <= k THEN k - 1 + 1 ELSE 0
      /\ \A i \in 1 .. k - 1 + 1 : FirstOf(s, n)[i] = s[1 + i - 1]
  <2>1. \A i \in 1 .. k : s[i] \in S
    BY <1>2, <1>4
  <2>2. FirstOf(s, n) = SubSeq(s, 1, k)
    BY <1>1, <1>4 DEF FirstOf
  <2> QED
    BY <2>1, <2>2, SubSeqProperties
<1> QED
  BY <1>1, <1>3, <1>4, <1>5

(* How much one read gives. *)
ReadCount ==
  IF transport.is_idling_at_end THEN 0
  ELSE Least(Least((FrameCount - total_frames_read_from_file) % Word, sndfile_request_frames),
             FileFrames - file_pos)

(* A read asks for no more than the file still has. *)
LEMMA ReadInRange ==
  TInv => ReadCount \in 0 .. sndfile_request_frames /\ ReadCount <= FileFrames - file_pos
<1> SUFFICES ASSUME TInv
             PROVE  ReadCount \in 0 .. sndfile_request_frames /\ ReadCount <= FileFrames - file_pos
  OBVIOUS
<1>1. PICK m : m = (FrameCount - total_frames_read_from_file) % Word
  OBVIOUS
<1>2. m \in Nat
  <2>1. FrameCount - total_frames_read_from_file \in Int
    BY Sizes DEF TInv, SeekOK
  <2>2. m \in 0 .. Word - 1
    BY <1>1, <2>1, Sizes, Modulo, Zenon
  <2> QED
    BY <2>2, Sizes
<1>3. file_pos \in 0 .. FileFrames
  BY DEF TInv, SeekOK, Frame
<1> QED
  BY <1>1, <1>2, <1>3, Sizes DEF ReadCount, Least

(* The disk thread stays on its way. *)
LEMMA DiskKept == TInv /\ [Next]_vars => DiskOK'
<1> SUFFICES ASSUME TInv, [Next]_vars
             PROVE  DiskOK'
  OBVIOUS
<1>1. DiskOK
  BY DEF TInv
<1>2. CASE UNCHANGED disk \/ req_buffer_from_disk_thread
  BY <1>1, <1>2 DEF DiskOK, req_buffer_from_disk_thread
<1>3. CASE Disk
  <2>1. CASE DiskRead
    <3>1. disk' = [at |-> IF ReadCount > 0 THEN "account" ELSE "wait", got |-> ReadCount]
      BY <2>1 DEF DiskRead, ReadCount
    <3>2. ReadCount \in Nat
      BY ReadInRange, Sizes
    <3> QED
      BY <3>1, <3>2 DEF DiskOK
  <2>2. CASE DiskAccount
    BY <1>1, <2>2 DEF DiskAccount, DiskOK, Ending
  <2>3. CASE ~DiskRead /\ ~DiskAccount
    BY <1>1, <1>3, <2>3 DEF Disk, DiskOK, DiskGoes, DiskSeekDue, DiskNoSeek,
         DiskDropDeinterleaved, DiskDropResampled, DiskSeek, DiskClearRequest,
         DiskClearTarget, DiskRestart, DiskSeekEnded, DiskSeekIdles, DiskSeekPauses,
         DiskSeekLoopDue, DiskSeekLoops, DiskSpace, DiskLoops, DiskAtEnd, DiskPauses,
         DiskEndsSeek, DiskEndsTarget, DiskIdles, DiskLoopDue, Ending
  <2> QED
    BY <2>1, <2>2, <2>3
<1> QED
  BY <1>2, <1>3
     DEF Next, vars, MainPrimes, Leave, jack_process, MainEnablesProcess, ProcessBegins,
         DeinterleaveBegins, DeinterleaveWrites, DeinterleaveAdvances, ProcessChecksEnd,
         ProcessMutes, ProcessPutsOut, ProcessReads, ProcessRequests, Key, Hit,
         ctrl_toggle_play, ctrl_seek_backward, ctrl_seek_forward, ctrl_seek_start,
         ctrl_seek_end, ctrl_toggle_loop, ctrl_toggle_pause_at_end, ctrl_load_next_file

(* There is room for every read. *)
LEMMA ResampledKept == TInv /\ [Next]_vars => ResampledOK'
<1> SUFFICES ASSUME TInv, [Next]_vars
             PROVE  ResampledOK'
  OBVIOUS
<1>1. /\ resampled \in Seq(InFile) /\ Len(resampled) <= ResampledSize
      /\ disk.at = "read" => Len(resampled) + sndfile_request_frames <= ResampledSize
  BY DEF TInv, ResampledOK
<1>2. CASE DiskSpace
  BY <1>1, <1>2, Sizes DEF DiskSpace, DiskGoes, buffer_vars, ResampledOK
<1>3. CASE DiskRead
  <2>1. /\ resampled' = resampled \o [i \in 1 .. ReadCount |-> file_pos + i - 1]
        /\ disk.at = "read" /\ disk'.at # "read"
    BY <1>3 DEF DiskRead, ReadCount
  <2>2. ReadCount \in Nat /\ ReadCount <= sndfile_request_frames
    BY ReadInRange, Sizes
  <2>3. [i \in 1 .. ReadCount |-> file_pos + i - 1] \in [1 .. ReadCount -> InFile]
    <3>1. ASSUME NEW i \in 1 .. ReadCount
          PROVE  file_pos + i - 1 \in InFile
      BY <2>2, Sizes, ReadInRange DEF TInv, SeekOK, Frame, InFile
    <3> QED
      BY <3>1
  <2>4. resampled' \in Seq(InFile) /\ Len(resampled') = Len(resampled) + ReadCount
    BY <1>1, <2>1, <2>2, <2>3, BlockAdded
  <2> QED
    BY <1>1, <2>1, <2>2, <2>4, Sizes DEF ResampledOK
<1>4. CASE DiskDropResampled
  BY <1>4, Sizes DEF DiskDropResampled, DiskGoes, ResampledOK
<1>5. CASE DeinterleaveAdvances
  <2>1. resampled' = After(resampled, process.n) /\ disk' = disk /\ process.n \in Nat
    BY <1>5, Sizes DEF DeinterleaveAdvances, TInv, ProcessOK
  <2>2. /\ resampled' \in Seq(InFile)
        /\ Len(resampled') = IF process.n <= Len(resampled) THEN Len(resampled) - process.n ELSE 0
    BY <1>1, <2>1, FrontTaken
  <2> QED
    BY <1>1, <2>1, <2>2, Sizes DEF ResampledOK
<1>6. CASE UNCHANGED resampled /\ (disk'.at = "read" => disk.at = "read")
  BY <1>1, <1>6 DEF ResampledOK
<1>7. req_buffer_from_disk_thread => (disk'.at = "read" => disk.at = "read")
  BY DEF req_buffer_from_disk_thread, TInv, DiskOK
<1>8. CASE Disk /\ ~DiskSpace /\ ~DiskRead /\ ~DiskDropResampled
  <2>1. UNCHANGED resampled
    BY <1>8 DEF Disk, buffer_vars, DiskSeekDue, DiskNoSeek, DiskDropDeinterleaved,
         DiskSeek, DiskClearRequest, DiskClearTarget, DiskRestart, DiskSeekEnded,
         DiskSeekIdles, DiskSeekPauses, DiskSeekLoopDue, DiskSeekLoops, DiskAccount,
         DiskLoops, DiskAtEnd, DiskPauses, DiskEndsSeek, DiskEndsTarget, DiskIdles,
         DiskLoopDue
  <2>2. disk'.at # "read"
    BY <1>8 DEF TInv, DiskOK, Disk, DiskGoes, DiskSeekDue, DiskNoSeek,
         DiskDropDeinterleaved, DiskSeek, DiskClearRequest, DiskClearTarget, DiskRestart,
         DiskSeekEnded, DiskSeekIdles, DiskSeekPauses, DiskSeekLoopDue, DiskSeekLoops,
         DiskAccount, DiskLoops, DiskAtEnd, DiskPauses, DiskEndsSeek, DiskEndsTarget,
         DiskIdles, DiskLoopDue
  <2> QED
    BY <1>6, <2>1, <2>2
<1> QED
  BY <1>2, <1>3, <1>4, <1>5, <1>6, <1>7, <1>8
     DEF Next, vars, buffer_vars, MainPrimes, Leave, jack_process, MainEnablesProcess,
         ProcessBegins, DeinterleaveBegins, DeinterleaveWrites, ProcessChecksEnd,
         ProcessMutes, ProcessPutsOut, ProcessReads, ProcessRequests, Key, Hit,
         ctrl_toggle_play, ctrl_seek_backward, ctrl_seek_forward, ctrl_seek_start,
         ctrl_seek_end, ctrl_toggle_loop, ctrl_toggle_pause_at_end, ctrl_load_next_file

(* The callback stays on its way, and never uses more than a period. *)
LEMMA ProcessKept == TInv /\ [Next]_vars => ProcessOK'
<1> SUFFICES ASSUME TInv, [Next]_vars
             PROVE  ProcessOK'
  OBVIOUS
<1> DEFINE Places == {"starting", "idle", "deinterleave", "write", "advance",
                      "check", "output", "read", "request"}
<1>1. ProcessOK /\ 0 \in Channel /\ 0 \in 0 .. Period /\ Period \in 0 .. Period
  BY Sizes DEF TInv, Channel
<1>2. CASE UNCHANGED process
  BY <1>1, <1>2 DEF ProcessOK
<1>3. CASE MainEnablesProcess
  BY <1>1, <1>3 DEF MainEnablesProcess, ProcessOK
<1>4. CASE \E from, to \in Places, n \in 0 .. Period : ProcessDoes(from, to, n)
  BY <1>1, <1>4 DEF ProcessDoes, ProcessOK
<1>5. CASE \E from, to \in Places : NextChannel(from, to)
  <2>1. PICK from \in Places, to \in Places : NextChannel(from, to)
    BY <1>5
  <2>2. CASE process.channel + 1 < Channels
    <3>1. process' = [process EXCEPT !.channel = @ + 1]
      BY <2>1, <2>2 DEF NextChannel
    <3>2. process.channel + 1 \in Channel
      BY <1>1, <2>2, Sizes DEF ProcessOK, Channel
    <3> QED
      BY <1>1, <3>1, <3>2 DEF ProcessOK
  <2>3. CASE ~(process.channel + 1 < Channels)
    <3>1. \E n \in {0, process.n} :
             process' = [process EXCEPT !.at = to, !.channel = 0, !.n = n]
      BY <2>1, <2>3 DEF NextChannel
    <3> QED
      BY <1>1, <2>1, <3>1 DEF ProcessOK
  <2> QED
    BY <2>2, <2>3
<1>6. CASE ProcessBegins
  BY <1>1, <1>4, <1>6 DEF ProcessBegins, ProcessGoes
<1>7. CASE DeinterleaveBegins
  <2>1. Least(Len(resampled), Period) \in 0 .. Period
    BY Sizes DEF TInv, ResampledOK, Least
  <2> QED
    BY <1>1, <1>4, <1>7, <2>1 DEF DeinterleaveBegins, ProcessGoes
<1>8. CASE DeinterleaveWrites \/ ProcessReads
  <2>1. \E from, to \in Places : NextChannel(from, to)
    BY <1>8 DEF DeinterleaveWrites, ProcessReads
  <2> QED
    BY <1>5, <2>1
<1>9. CASE DeinterleaveAdvances \/ ProcessChecksEnd \/ ProcessMutes \/ ProcessRequests
  BY <1>1, <1>4, <1>9 DEF DeinterleaveAdvances, ProcessChecksEnd, ProcessMutes,
                          ProcessRequests, ProcessGoes
<1>10. CASE ProcessPutsOut
  <2>1. FramesAvailable \in Nat
    BY Sizes, Quotient DEF FramesAvailable, TInv, DeinterleavedOK
  <2>2. FramesAvailable < Period => FramesAvailable \in 0 .. Period
    BY <2>1, Sizes
  <2> QED
    BY <1>1, <1>4, <1>10, <2>2 DEF ProcessPutsOut, ProcessGoes
<1> QED
  BY <1>2, <1>3, <1>6, <1>7, <1>8, <1>9, <1>10
     DEF Next, vars, MainPrimes, Leave, Disk, DiskSeekDue, DiskNoSeek,
          DiskDropDeinterleaved, DiskDropResampled, DiskSeek, DiskClearRequest,
          DiskClearTarget, DiskRestart, DiskSeekEnded, DiskSeekIdles, DiskSeekPauses,
          DiskSeekLoopDue, DiskSeekLoops, DiskSpace, DiskRead, DiskAccount, DiskLoops,
          DiskAtEnd, DiskPauses, DiskEndsSeek, DiskEndsTarget, DiskIdles, DiskLoopDue,
          jack_process, Key, Hit, ctrl_toggle_play, ctrl_seek_backward,
          ctrl_seek_forward, ctrl_seek_start, ctrl_seek_end, ctrl_toggle_loop,
          ctrl_toggle_pause_at_end, ctrl_load_next_file

(* The rest of a block of n frames fits where nothing is. *)
LEMMA BlockFits ==
  ASSUME NEW c \in Nat, NEW k \in 0 .. c, NEW n \in Nat, NEW d \in Nat, n <= d
  PROVE  /\ (c - k) * n \in Nat /\ (c - k) * n <= c * d
         /\ k < c => (c - k) * n = n + (c - (k + 1)) * n /\ (c - (k + 1)) * n \in Nat
<1>1. c - k \in Nat /\ (k < c => c - (k + 1) \in Nat)
  OBVIOUS
<1>2. (c - k) * n \in Nat /\ (k < c => (c - (k + 1)) * n \in Nat)
  BY <1>1, Product
<1>3. (c - k) * n <= c * n
  BY <1>1
<1>4. c * n <= c * d
  OBVIOUS
<1>5. k < c => (c - k) * n = n + (c - (k + 1)) * n
  OBVIOUS
<1>6. c * n \in Nat /\ c * d \in Nat
  BY Product
<1> QED
  BY <1>2, <1>3, <1>4, <1>5, <1>6

(* There is room for every block that jack_deinterleave writes. *)
LEMMA DeinterleavedKept == TInv /\ [Next]_vars => DeinterleavedOK'
<1> SUFFICES ASSUME TInv, [Next]_vars
             PROVE  DeinterleavedOK'
  OBVIOUS
<1> DEFINE most == Channels * DeinterleavedSize
           room == (DeinterleavedSize * Channels - Len(deinterleaved)) \div Channels
           rest == (Channels - process.channel) * process.n
<1>1. /\ deinterleaved \in Seq(Played) /\ Len(deinterleaved) <= most
      /\ process.at = "write" => Len(deinterleaved) + rest <= most
  BY DEF TInv, DeinterleavedOK
<1>2. most \in Nat /\ Len(deinterleaved) \in Nat
  BY <1>1, Sizes, Product
<1>3. /\ process.channel \in 0 .. Channels /\ process.channel < Channels
      /\ process.n \in Nat /\ process.n <= DeinterleavedSize
  BY Sizes DEF TInv, ProcessOK, Channel
<1>4. rest \in Nat /\ rest <= most
  BY <1>3, Sizes, BlockFits
<1>5. CASE UNCHANGED deinterleaved /\ (UNCHANGED process \/ process'.at # "write")
  BY <1>1, <1>5 DEF DeinterleavedOK
<1>6. CASE DiskDropDeinterleaved
  <2>1. deinterleaved' = <<>> /\ process' = process
    BY <1>6 DEF DiskDropDeinterleaved
  <2> QED
    BY <1>2, <1>4, <2>1 DEF DeinterleavedOK
<1>7. CASE DeinterleaveBegins
  <2> DEFINE use == Least(Len(resampled), Period)
  <2>1. CASE use >= 1 /\ room >= use
    <3>1. process' = [at |-> "write", n |-> use, channel |-> 0] /\ deinterleaved' = deinterleaved
      BY <1>7, <2>1 DEF DeinterleaveBegins, ProcessDoes, buffer_vars
    <3>2. use \in Nat
      BY Sizes DEF TInv, ResampledOK, Least
    <3>3. DeinterleavedSize * Channels = most
      BY Sizes
    <3>4. PICK a \in Nat : a = DeinterleavedSize * Channels - Len(deinterleaved)
      BY <1>1, <1>2, <3>3
    <3>5. Channels * use <= a
      BY <2>1, <3>2, <3>4, Sizes, Fits
    <3>6. Channels * use \in Nat /\ (Channels - 0) * use = Channels * use
      BY <3>2, Sizes, Product
    <3>7. Len(deinterleaved) + (Channels - 0) * use <= most
      BY <1>2, <3>3, <3>4, <3>5, <3>6
    <3> QED
      BY <1>1, <3>1, <3>7 DEF DeinterleavedOK
  <2>2. CASE ~(use >= 1 /\ room >= use)
    BY <1>5, <1>7, <2>2 DEF DeinterleaveBegins, ProcessGoes, ProcessDoes, buffer_vars
  <2> QED
    BY <2>1, <2>2
<1>8. CASE DeinterleaveWrites
  <2> DEFINE block == [i \in 1 .. process.n |->
                         <<process.channel,
                           IF process.n <= Len(resampled) THEN resampled[i] ELSE Stale>>]
  <2>1. process.at = "write" /\ deinterleaved' = deinterleaved \o block
    BY <1>8 DEF DeinterleaveWrites, NextChannel
  <2>2. block \in [1 .. process.n -> Played]
    <3>1. ASSUME NEW i \in 1 .. process.n
          PROVE  (IF process.n <= Len(resampled) THEN resampled[i] ELSE Stale)
                   \in InFile \cup {Stale}
      BY <1>3 DEF TInv, ResampledOK
    <3>2. process.channel \in Channel
      BY DEF TInv, ProcessOK
    <3> QED
      BY <3>1, <3>2 DEF Played
  <2>3. /\ deinterleaved' \in Seq(Played)
        /\ Len(deinterleaved') = Len(deinterleaved) + process.n
    <3>1. PICK b, n, s : b = block /\ n = process.n /\ s = deinterleaved
      OBVIOUS
    <3>2. b \in [1 .. n -> Played] /\ n \in Nat /\ s \in Seq(Played)
      BY <1>1, <1>3, <2>2, <3>1, Zenon
    <3>3. s \o b \in Seq(Played) /\ Len(s \o b) = Len(s) + n
      BY <3>2, BlockAdded
    <3> QED
      BY <2>1, <3>1, <3>3, Zenon
  <2>4. /\ rest = process.n + (Channels - (process.channel + 1)) * process.n
        /\ (Channels - (process.channel + 1)) * process.n \in Nat
    BY <1>3, Sizes, BlockFits
  <2>5. Len(deinterleaved') + (Channels - (process.channel + 1)) * process.n <= most
    BY <1>1, <1>2, <1>3, <2>1, <2>3, <2>4
  <2>6. Len(deinterleaved') <= most
    BY <1>2, <2>3, <2>4, <2>5
  <2>7. process'.at = "write" => /\ process'.channel = process.channel + 1
                                 /\ process'.n = process.n
    BY <1>8 DEF DeinterleaveWrites, NextChannel, TInv, ProcessOK
  <2> QED
    BY <2>3, <2>5, <2>6, <2>7 DEF DeinterleavedOK
<1>9. CASE ProcessReads
  <2>1. deinterleaved' = After(deinterleaved, process.n)
    BY <1>9 DEF ProcessReads
  <2>2. /\ deinterleaved' \in Seq(Played)
        /\ Len(deinterleaved') = IF process.n <= Len(deinterleaved)
                                 THEN Len(deinterleaved) - process.n ELSE 0
    BY <1>1, <1>3, <2>1, FrontTaken
  <2>3. process'.at # "write"
    BY <1>9 DEF ProcessReads, NextChannel, TInv, ProcessOK
  <2> QED
    BY <1>1, <1>2, <1>3, <2>2, <2>3 DEF DeinterleavedOK
<1>10. CASE MainEnablesProcess
  BY <1>5, <1>10 DEF MainEnablesProcess, TInv, ProcessOK, buffer_vars
<1> QED
  BY <1>5, <1>6, <1>7, <1>8, <1>9, <1>10
     DEF Next, vars, buffer_vars, MainPrimes, Leave, Disk, DiskSeekDue, DiskNoSeek,
          DiskDropResampled, DiskSeek, DiskClearRequest, DiskClearTarget, DiskRestart,
          DiskSeekEnded, DiskSeekIdles, DiskSeekPauses, DiskSeekLoopDue, DiskSeekLoops,
          DiskSpace, DiskRead, DiskAccount, DiskLoops, DiskAtEnd, DiskPauses,
          DiskEndsSeek, DiskEndsTarget, DiskIdles, DiskLoopDue, jack_process,
          ProcessBegins, DeinterleaveAdvances, ProcessChecksEnd, ProcessMutes,
          ProcessPutsOut, ProcessRequests, ProcessGoes, ProcessDoes, Key, Hit,
          ctrl_toggle_play, ctrl_seek_backward, ctrl_seek_forward, ctrl_seek_start,
          ctrl_seek_end, ctrl_toggle_loop, ctrl_toggle_pause_at_end, ctrl_load_next_file

(* What is put out are samples, and what is due is a frame of the file. *)
LEMMA HeardKept == TInv /\ [Next]_vars => HeardOK'
<1> SUFFICES ASSUME TInv, [Next]_vars
             PROVE  HeardOK'
  OBVIOUS
<1>1. output \in [Channel -> Seq(Played)] /\ next_frame \in Frame /\ samples_read \in Nat
  BY DEF TInv, HeardOK
<1>2. Silence \in [Channel -> Seq(Played)]
  BY DEF Silence
<1>3. CASE ProcessReads
  <2> DEFINE got == FirstOf(deinterleaved, process.n)
             heard == output'[0]
  <2>1. got \in Seq(Played)
    BY FrontTaken, Sizes DEF TInv, DeinterleavedOK, ProcessOK
  <2>2. output' \in [Channel -> Seq(Played)]
    <3>1. output' = [output EXCEPT ![process.channel] = got]
      BY <1>3 DEF ProcessReads
    <3> QED
      BY <1>1, <2>1, <3>1
  <2>3. samples_read' \in Nat
    <3>1. samples_read' = samples_read + Len(got)
      BY <1>3 DEF ProcessReads
    <3>2. Len(got) \in Nat
      BY <2>1
    <3> QED
      BY <1>1, <3>1, <3>2
  <2>4. next_frame' \in Frame
    <3>1. heard \in Seq(Played)
      BY <2>2, Sizes DEF Channel
    <3>2. CASE heard # <<>> /\ heard[Len(heard)][2] # Stale
      <4>1. heard[Len(heard)] \in Played
        BY <3>1, <3>2
      <4>2. heard[Len(heard)][2] \in InFile
        BY <3>2, <4>1 DEF Played
      <4>3. heard[Len(heard)][2] + 1 \in Frame
        BY <4>2, Sizes DEF InFile, Frame
      <4> QED
        BY <1>1, <1>3, <4>3 DEF ProcessReads
    <3>3. CASE ~(heard # <<>> /\ heard[Len(heard)][2] # Stale)
      BY <1>1, <1>3, <3>3 DEF ProcessReads
    <3> QED
      BY <3>2, <3>3
  <2> QED
    BY <2>2, <2>3, <2>4 DEF HeardOK
<1>4. ASSUME output' \in {output, Silence}, next_frame' = next_frame, samples_read' \in {samples_read, 0}
      PROVE  HeardOK'
  BY <1>1, <1>2, <1>4 DEF HeardOK
<1>5. CASE DiskSeek
  <2>1. next_frame' \in Frame
    BY <1>5, SeekKept DEF DiskSeek, SeekOK
  <2> QED
    BY <1>1, <1>5, <2>1 DEF DiskSeek, HeardOK, buffer_vars
<1> QED
  BY <1>3, <1>4, <1>5
     DEF Next, vars, buffer_vars, heard_vars, MainPrimes, Leave, Disk, DiskSeekDue,
          DiskNoSeek, DiskDropDeinterleaved, DiskDropResampled, DiskClearRequest,
          DiskClearTarget, DiskRestart, DiskSeekEnded, DiskSeekIdles, DiskSeekPauses,
          DiskSeekLoopDue, DiskSeekLoops, DiskSpace, DiskRead, DiskAccount, DiskLoops,
          DiskAtEnd, DiskPauses, DiskEndsSeek, DiskEndsTarget, DiskIdles, DiskLoopDue,
          jack_process, MainEnablesProcess, ProcessBegins, DeinterleaveBegins,
          DeinterleaveWrites, DeinterleaveAdvances, ProcessChecksEnd, ProcessMutes,
          ProcessPutsOut, ProcessRequests, Key, Hit, ctrl_toggle_play,
          ctrl_seek_backward, ctrl_seek_forward, ctrl_seek_start, ctrl_seek_end,
          ctrl_toggle_loop, ctrl_toggle_pause_at_end, ctrl_load_next_file

(* Together: the invariant is inductive. *)
LEMMA TInvNext == TInv /\ [Next]_vars => TInv'
BY SeekKept, StructsKept, DiskKept, ResampledKept, ProcessKept, DeinterleavedKept, HeardKept
   DEF TInv

(* What the invariant says of types is what the runs check. *)
LEMMA TInvTypes == TInv => TypeOK
<1> SUFFICES ASSUME TInv
             PROVE  TypeOK
  OBVIOUS
<1>1. resampled \in Seq(Frame)
  <2>1. InFile \subseteq Frame
    BY Sizes DEF InFile, Frame
  <2> QED
    BY <2>1 DEF TInv, ResampledOK
<1>2. Played \subseteq Sample
  BY Sizes DEF Played, Sample, InFile, Frame
<1>3. deinterleaved \in Seq(Sample) /\ output \in [Channel -> Seq(Sample)]
  <2>1. deinterleaved \in Seq(Sample)
    BY <1>2 DEF TInv, DeinterleavedOK
  <2>2. \A c \in Channel : output[c] \in Seq(Sample)
    BY <1>2 DEF TInv, HeardOK
  <2> QED
    BY <2>1, <2>2 DEF TInv, HeardOK
<1> QED
  BY <1>1, <1>3, TransportFields
     DEF TypeOK, TInv, SeekOK, StructsOK, ResampledOK, DeinterleavedOK, ProcessOK, HeardOK

(* Whatever keys are hit at whatever moment of the other two threads, the  *)
(* positions stay within the file and the unsigned counts within a word,   *)
(* no sample is of a frame the file does not have, and neither buffer ever *)
(* holds more than it can, although the disk thread and the callback look  *)
(* at the room in one step and fill it in later ones (jackaudio.h:207-244, *)
(* jack_playfile.c:741-754, 883).                                          *)
THEOREM TypeCorrect == Spec => []TypeOK
<1>1. Spec => []TInv
  BY TInvInit, TInvNext, PTL DEF Spec
<1> QED
  BY <1>1, TInvTypes, PTL

------------------------------------------------------------------------------
(* Without keys, and with one channel: what is heard goes on where it was. *)

(* No key is hit; the file has one channel: with more, a block shorter     *)
(* than a period shifts them (jackaudio.h, 218).                           *)
Undisturbed == (Keys = {} \/ MaxKeys = 0) /\ Channels = 1

(* Where a frame is in what is played, over and over. *)
Cycle(x) == (x - FrameOffset) % FrameCount

(* The i-th frame of what is played from the first on. *)
Nth(first, i) == FrameOffset + Cycle(first + i - 1)

(* Before the seek to the first frame has been served there is nothing. *)
SeekingFirst ==
  /\ resampled = <<>> /\ deinterleaved = <<>> /\ ~no_more_input_data
  /\ total_frames_read_from_file = 0 /\ next_frame = FrameOffset
  /\ running.last_seek_pos = FrameOffset
  /\ ~transport.is_idling_at_end /\ ~running.shutdown_in_progress
  /\ process.at \in {"starting", "idle", "deinterleave", "check", "output"}
  /\ \/ /\ disk.at \in {"top", "drop_deinterleaved", "drop_resampled", "seek"}
        /\ running.seek_frames_in_progress /\ frames_to_seek = FrameOffset
     \/ disk.at = "clear_request" /\ file_pos = FrameOffset
     \/ /\ disk.at \in {"clear_target", "restart"} /\ file_pos = FrameOffset
        /\ ~running.seek_frames_in_progress

(* The frames at the front of resampled that deinterleaved has as well. *)
Doubled == IF process.at = "advance" THEN process.n ELSE 0

Ahead == Len(deinterleaved) + Len(resampled) - Doubled

(* What is buffered are the frames that are due, and those that will be    *)
(* read come after them.                                                   *)
BufferedInOrder ==
  /\ \A i \in 1 .. Len(deinterleaved) : deinterleaved[i] = <<0, Nth(next_frame, i)>>
  /\ \A i \in 1 .. Len(resampled) - Doubled :
       resampled[Doubled + i] = Nth(next_frame, Len(deinterleaved) + i)
  /\ next_frame \in FrameOffset .. End /\ file_pos \in FrameOffset .. End
  /\ file_pos <= next_frame + Ahead
  /\ Cycle(file_pos) = Cycle(next_frame + Ahead)

(* How far the disk thread is. *)
ReadSoFar ==
  /\ disk.at \in {"top", "space", "wait", "read", "account", "loops"} \cup Ending
  /\ ~running.seek_frames_in_progress
  /\ total_frames_read_from_file + (IF disk.at = "account" THEN disk.got ELSE 0)
       = file_pos - FrameOffset
  /\ no_more_input_data \/ transport.is_idling_at_end \/ disk.at \in Ending \cup {"loops"}
       => file_pos = End

(* What the callback has found. *)
FoundSoFar ==
  /\ process.at = "write" => process.n >= 1 /\ process.n <= Len(resampled)
  /\ process.at = "advance" => /\ process.n >= 1 /\ process.n <= Len(resampled)
                               /\ deinterleaved # <<>>
  /\ process.at = "read" => process.n >= 1 /\ process.n <= Len(deinterleaved)

(* The disk thread read once since the callback found nothing to play. *)
OneRead ==
  /\ Len(resampled) <= sndfile_request_frames
  /\ disk.at \in {"account", "loops", "wait"} \cup Ending
  /\ file_pos = End => next_frame = End \/ Len(resampled) = End - next_frame

FoundNothing ==
  process.at \in {"check", "output"} /\ deinterleaved = <<>> /\ transport.is_playing =>
    resampled = <<>> \/ OneRead

Left ==
  running.shutdown_in_progress =>
    /\ process.at # "starting"
    /\ \/ next_frame = End
       \/ /\ Len(resampled) = End - next_frame /\ Len(resampled) <= sndfile_request_frames
          /\ disk.at \in {"account", "loops", "wait"} \cup Ending

Ordered == BufferedInOrder /\ ReadSoFar /\ FoundSoFar /\ FoundNothing /\ Left

OrderInv == TInv /\ keys_hit = 0 /\ (SeekingFirst \/ Ordered)

(* The quotient and the rest, and that there are no others. *)
(* A quotient of naturals is one. *)
LEMMA QuotientRest ==
  ASSUME NEW a \in Int, NEW m \in Nat \ {0}, NEW d \in Int, d = a \div m
  PROVE  a % m = a - m * d /\ m * d <= a /\ m * d > a - m
OBVIOUS

(* Whatever is q times m and a rest below m has that rest. *)
LEMMA OnlyQuotient ==
  ASSUME NEW a \in Int, NEW m \in Nat \ {0}, NEW q \in Int, NEW r \in 0 .. m - 1, a = m * q + r
  PROVE  a % m = r
<1>1. PICK p \in Int : p = m * q
  OBVIOUS
<1>2. p <= a /\ p > a - m
  BY <1>1
<1>3. a \div m = q
  BY <1>1, <1>2
<1> QED
  BY <1>1, <1>3, QuotientRest

(* Numbers of the same rest have the same rest when the same is added. *)
LEMMA SameRest ==
  ASSUME NEW a \in Int, NEW b \in Int, NEW k \in Int, NEW m \in Nat \ {0}, a % m = b % m
  PROVE  (a + k) % m = (b + k) % m
<1>1. PICK p \in Int, q \in Int, t \in Int :
         p = a \div m /\ q = b \div m /\ t = (b + k) \div m
  OBVIOUS
<1>2. PICK s \in 0 .. m - 1 : s = (b + k) % m
  OBVIOUS
<1>3. a - m * p = b - m * q
  BY <1>1, QuotientRest
<1>4. b + k = m * t + s
  BY <1>1, <1>2, QuotientRest
<1>5. m * (p - q + t) = m * p - m * q + m * t
  OBVIOUS
<1>6. a + k = m * (p - q + t) + s
  <2>1. m * p \in Int /\ m * q \in Int /\ m * t \in Int
    OBVIOUS
  <2> QED
    BY <1>3, <1>4, <1>5, <2>1
<1>7. p - q + t \in Int /\ a + k \in Int
  OBVIOUS
<1> QED
  BY <1>2, <1>6, <1>7, OnlyQuotient

(* A number less than m is its own rest. *)
LEMMA OwnRest ==
  ASSUME NEW m \in Nat \ {0}, NEW r \in 0 .. m - 1
  PROVE  r % m = r
OBVIOUS

(* Two numbers less than m apart do not have the same rest. *)
LEMMA OtherRest ==
  ASSUME NEW a \in Int, NEW b \in Int, NEW m \in Nat \ {0}, a < b, b < a + m
  PROVE  a % m # b % m
<1> SUFFICES ASSUME a % m = b % m
             PROVE  FALSE
  OBVIOUS
<1>1. PICK k \in Int : k = 0 - a
  OBVIOUS
<1>2. (a + k) % m = (b + k) % m
  BY SameRest
<1>3. a + k \in 0 .. m - 1 /\ b + k \in 0 .. m - 1 /\ a + k # b + k
  BY <1>1
<1>4. (a + k) % m = a + k /\ (b + k) % m = b + k
  BY <1>3, OwnRest
<1> QED
  BY <1>2, <1>3, <1>4

(* The same for places in what is played. *)
LEMMA CycleType == \A x \in Int : Cycle(x) \in 0 .. FrameCount - 1
<1> SUFFICES ASSUME NEW x \in Int
             PROVE  Cycle(x) \in 0 .. FrameCount - 1
  OBVIOUS
<1>1. x - FrameOffset \in Int
  BY Sizes
<1> QED
  BY <1>1, Sizes, Modulo DEF Cycle

(* Frames at the same place of the cycle stay so when both go on by k. *)
LEMMA CycleGoesOn ==
  ASSUME NEW x \in Int, NEW y \in Int, NEW k \in Int, Cycle(x) = Cycle(y)
  PROVE  Cycle(x + k) = Cycle(y + k)
<1>1. PICK a \in Int, b \in Int : a = x - FrameOffset /\ b = y - FrameOffset
  BY Sizes
<1>2. (a + k) % FrameCount = (b + k) % FrameCount
  <2>1. a % FrameCount = b % FrameCount
    BY <1>1, Zenon DEF Cycle
  <2>2. PICK m \in Nat \ {0} : m = FrameCount
    BY Sizes
  <2>3. a % m = b % m
    BY <2>1, <2>2
  <2>4. (a + k) % m = (b + k) % m
    BY <1>1, <2>2, <2>3, SameRest
  <2> QED
    BY <2>2, <2>4
<1>3. PICK c \in Int, d \in Int : c = x + k /\ d = y + k
  OBVIOUS
<1>4. c - FrameOffset = a + k /\ d - FrameOffset = b + k
  BY <1>1, <1>3, Sizes
<1>5. Cycle(c) = Cycle(d)
  BY <1>2, <1>4 DEF Cycle
<1> QED
  BY <1>3, <1>5

(* In the first round a frame is where it is in the file. *)
LEMMA CycleOnce == \A x \in FrameOffset .. End - 1 : Cycle(x) = x - FrameOffset
<1> SUFFICES ASSUME NEW x \in FrameOffset .. End - 1
             PROVE  Cycle(x) = x - FrameOffset
  OBVIOUS
<1>1. x - FrameOffset \in 0 .. FrameCount - 1
  BY Sizes
<1> QED
  BY <1>1, Sizes, OwnRest DEF Cycle

(* A place of the cycle, taken as a frame of the first round, is that place. *)
LEMMA CycleAgain ==
  ASSUME NEW x \in Int
  PROVE  Cycle(FrameOffset + Cycle(x)) = Cycle(x)
<1>1. Cycle(x) \in 0 .. FrameCount - 1
  BY CycleType
<1>2. PICK y : y = FrameOffset + Cycle(x)
  OBVIOUS
<1>3. y \in FrameOffset .. End - 1 /\ y - FrameOffset = Cycle(x)
  BY <1>1, <1>2, Sizes
<1>4. Cycle(y) = Cycle(x)
  BY <1>3, CycleOnce
<1> QED
  BY <1>2, <1>4

(* The end is where the loop begins. *)
LEMMA CycleEnds == Cycle(End) = Cycle(FrameOffset)
<1>1. End - FrameOffset = FrameCount /\ FrameOffset - FrameOffset = 0
  BY Sizes
<1>2. FrameCount % FrameCount = 0 /\ 0 % FrameCount = 0
  <2>1. FrameCount = FrameCount * 1 + 0 /\ 0 \in 0 .. FrameCount - 1
    BY Sizes
  <2>2. FrameCount % FrameCount = 0
    BY <2>1, Sizes, OnlyQuotient
  <2> QED
    BY <2>1, <2>2, Sizes, OwnRest
<1> QED
  BY <1>1, <1>2 DEF Cycle

(* Two frames less than a round apart are at different places. *)
LEMMA CycleDiffers ==
  ASSUME NEW x \in Int, NEW y \in Int, x < y, y < x + FrameCount
  PROVE  Cycle(x) # Cycle(y)
<1>1. PICK a \in Int, b \in Int : a = x - FrameOffset /\ b = y - FrameOffset
  BY Sizes
<1>2. a < b /\ b < a + FrameCount
  BY <1>1, Sizes
<1> QED
  BY <1>1, <1>2, Sizes, OtherRest DEF Cycle

(* What the lemmas about a step need of the state before it. *)
LEMMA Known ==
  ASSUME Undisturbed, TInv, Ordered
  PROVE  /\ Channel = {0} /\ process.channel = 0 /\ process.n \in Nat /\ process.n <= Period
         /\ Len(deinterleaved) \in Nat /\ Len(resampled) \in Nat
         /\ Doubled \in 0 .. Len(resampled) /\ Ahead \in Nat
         /\ next_frame \in FrameOffset .. End /\ file_pos \in FrameOffset .. End
         /\ \A i \in Int : Nth(next_frame, i) \in FrameOffset .. End - 1
<1>1. Channel = {0} /\ process.channel = 0
  BY DEF Undisturbed, Channel, TInv, ProcessOK
<1>2. process.n \in Nat /\ process.n <= Period
  BY Sizes DEF TInv, ProcessOK
<1>3. Len(deinterleaved) \in Nat /\ Len(resampled) \in Nat
  BY DEF TInv, DeinterleavedOK, ResampledOK
<1>4. Doubled \in 0 .. Len(resampled)
  BY <1>2, <1>3 DEF Doubled, Ordered, FoundSoFar
<1>5. next_frame \in FrameOffset .. End /\ file_pos \in FrameOffset .. End
  BY DEF Ordered, BufferedInOrder
<1>6. ASSUME NEW i \in Int
      PROVE  Nth(next_frame, i) \in FrameOffset .. End - 1
  <2>1. next_frame + i - 1 \in Int
    BY <1>5, Sizes
  <2>2. Cycle(next_frame + i - 1) \in 0 .. FrameCount - 1
    BY <2>1, CycleType
  <2> QED
    BY <2>2, Sizes DEF Nth
<1>7. Ahead \in Nat
  BY <1>3, <1>4 DEF Ahead
<1> QED
  BY <1>1, <1>2, <1>3, <1>4, <1>5, <1>6, <1>7, Zenon

(* A step that changes neither buffer nor what is due. *)
LEMMA BuffersKept ==
  ASSUME BufferedInOrder, UNCHANGED <<deinterleaved, resampled, next_frame, file_pos>>,
         Doubled' = Doubled
  PROVE  BufferedInOrder'
BY DEF BufferedInOrder, Ahead, Nth, Cycle

(* A read appends the frames that follow those ahead of the listener. *)
LEMMA ReadOrdered ==
  ASSUME Undisturbed, TInv, Ordered, DiskRead
  PROVE  Ordered'
<1> DEFINE n == ReadCount
           r == Len(resampled)
           d == Len(deinterleaved)
<1>1. /\ disk.at = "read" /\ disk' = [at |-> IF n > 0 THEN "account" ELSE "wait", got |-> n]
      /\ resampled' = resampled \o [i \in 1 .. n |-> file_pos + i - 1]
      /\ file_pos' = file_pos + n /\ no_more_input_data' = (n = 0 \/ no_more_input_data)
      /\ UNCHANGED <<total_frames_read_from_file, deinterleaved, transport, running, process,
                     next_frame>>
  BY DEF DiskRead, ReadCount, heard_vars
<1>2. /\ r \in Nat /\ d \in Nat /\ Doubled \in 0 .. r /\ Ahead = d + r - Doubled
      /\ next_frame \in FrameOffset .. End /\ file_pos \in FrameOffset .. End
  BY Known DEF Ahead
<1>3. total_frames_read_from_file = file_pos - FrameOffset
  BY <1>1, <1>2, Sizes DEF Ordered, ReadSoFar, TInv, SeekOK
<1>4. /\ n \in Nat /\ n \in 0 .. End - file_pos /\ n <= sndfile_request_frames
      /\ n = 0 => file_pos = End
  <2>1. PICK g \in 0 .. Word - 1 : g = FrameCount - total_frames_read_from_file
    BY <1>2, <1>3, Sizes
  <2>2. g % Word = g /\ g = End - file_pos
    <3>1. PICK w \in Nat \ {0} : w = Word
      BY Sizes
    <3>2. g \in 0 .. w - 1
      BY <2>1, <3>1
    <3>3. g % w = g
      BY <3>1, <3>2, OwnRest
    <3> QED
      BY <1>2, <1>3, <2>1, <3>1, <3>3, Sizes
  <2>3. n = IF transport.is_idling_at_end THEN 0
            ELSE Least(Least(g, sndfile_request_frames), FileFrames - file_pos)
    BY <2>1, <2>2 DEF ReadCount
  <2>4. transport.is_idling_at_end => file_pos = End
    BY DEF Ordered, ReadSoFar
  <2>5. g \in Int /\ sndfile_request_frames \in Nat \ {0} /\ FileFrames - file_pos >= g
    <3>1. End \in Int /\ file_pos \in Int /\ FileFrames \in Int /\ End <= FileFrames
      BY <1>2, Sizes
    <3>2. sndfile_request_frames \in Nat \ {0}
      BY Sizes
    <3> QED
      BY <2>2, <3>1, <3>2
  <2>6. Least(Least(g, sndfile_request_frames), FileFrames - file_pos)
          = Least(g, sndfile_request_frames)
    BY <1>2, <2>5, Sizes DEF Least
  <2>7. CASE transport.is_idling_at_end
    BY <1>2, <2>3, <2>4, <2>5, <2>7, Sizes
  <2>8. CASE ~transport.is_idling_at_end
    <3>1. n = Least(g, sndfile_request_frames)
      BY <2>3, <2>6, <2>8
    <3> HIDE DEF n
    <3> QED
      BY <1>2, <2>1, <2>2, <2>5, <3>1, Sizes DEF Least
  <2> QED
    BY <2>7, <2>8
<1>5. /\ resampled' \in Seq(InFile) /\ Len(resampled') = r + n
      /\ \A k \in 1 .. r + n : resampled'[k] = IF k <= r THEN resampled[k]
                                               ELSE file_pos + (k - r) - 1
  <2>1. PICK m, f : m = n /\ f = [i \in 1 .. m |-> file_pos + i - 1]
    OBVIOUS
  <2>2. m \in Nat /\ f \in [1 .. m -> InFile]
    <3>1. \A i \in 1 .. m : file_pos + i - 1 \in InFile
      BY <1>2, <1>4, <2>1, Sizes DEF InFile
    <3> QED
      BY <1>4, <2>1, <3>1
  <2>3. resampled \in Seq(InFile) /\ resampled' = resampled \o f
    BY <1>1, <2>1 DEF TInv, ResampledOK
  <2>4. /\ resampled' \in Seq(InFile) /\ Len(resampled') = r + m
        /\ \A k \in 1 .. r + m : resampled'[k] = IF k <= r THEN resampled[k] ELSE f[k - r]
    BY <2>2, <2>3, BlockAdded
  <2>5. \A k \in 1 .. r + m : ~(k <= r) => k - r \in 1 .. m
    BY <1>2, <2>2
  <2> QED
    BY <2>1, <2>4, <2>5
<1>6. Doubled' = Doubled /\ Ahead' = Ahead + n
  <2>1. Doubled' = Doubled
    BY <1>1 DEF Doubled
  <2> QED
    BY <1>1, <1>2, <1>4, <1>5, <2>1 DEF Ahead
<1>7. next_frame' = next_frame
  BY <1>1
<1>8. BufferedInOrder'
  <2>1. \A i \in 1 .. Len(deinterleaved') : deinterleaved'[i] = <<0, Nth(next_frame', i)>>
    BY <1>1, <1>2, <1>7 DEF Ordered, BufferedInOrder
  <2>2. ASSUME NEW i \in 1 .. Len(resampled') - Doubled'
        PROVE  resampled'[Doubled' + i] = Nth(next_frame', Len(deinterleaved') + i)
    <3>1. /\ i \in Int /\ Doubled + i \in 1 .. r + n /\ d + i \in Int
          /\ Len(deinterleaved') = d
      BY <1>1, <1>2, <1>4, <1>5, <1>6
    <3>2. CASE Doubled + i <= r
      <4>1. i \in 1 .. r - Doubled
        BY <1>2, <3>1, <3>2
      <4> QED
        BY <1>5, <1>6, <1>7, <3>1, <3>2, <4>1 DEF Ordered, BufferedInOrder
    <3>3. CASE ~(Doubled + i <= r)
      <4>0. Doubled + i - r - 1 \in 0 .. n - 1
        <5>1. n \in Nat /\ r \in Nat /\ Doubled \in Int
          BY <1>2, <1>4
        <5> HIDE DEF n
        <5> QED
          BY <3>1, <3>3, <5>1
      <4>1. PICK j \in 0 .. n - 1 : j = Doubled + i - r - 1
        BY <4>0
      <4>2. resampled'[Doubled' + i] = file_pos + j
        <5>1. resampled'[Doubled + i] = file_pos + ((Doubled + i) - r) - 1
          <6> HIDE DEF n, r
          <6>1. PICK k \in 1 .. r + n : k = Doubled + i /\ ~(k <= r)
            BY <3>1, <3>3
          <6>2. resampled'[k] = file_pos + (k - r) - 1
            BY <1>5, <6>1
          <6> QED
            BY <6>1, <6>2
        <5>2. file_pos + ((Doubled + i) - r) - 1 = file_pos + j
          <6> HIDE DEF n
          <6>1. file_pos \in Int /\ Doubled \in Int /\ i \in Int /\ r \in Int
            BY <1>2, <3>1, Sizes
          <6>2. j \in Int /\ j = Doubled + i - r - 1
            BY <4>1
          <6> QED
            BY <6>1, <6>2
        <5> QED
          BY <1>6, <5>1, <5>2
      <4>3. Cycle(file_pos + j) = (file_pos + j) - FrameOffset
        <5>1. file_pos + j \in FrameOffset .. End - 1
          <6>1. End \in Int /\ file_pos \in Int /\ FrameOffset <= file_pos /\ FrameOffset \in Int
            BY <1>2, Sizes
          <6>2. n \in Int /\ n <= End - file_pos /\ j \in Int /\ 0 <= j /\ j <= n - 1
            BY <1>4, <4>1, <6>1
          <6> HIDE DEF n
          <6> QED
            BY <6>1, <6>2
        <5> QED
          BY <5>1, CycleOnce, Zenon
      <4>4. Cycle(next_frame + Ahead + j) = Cycle(file_pos + j)
        <5>1. next_frame + Ahead \in Int /\ file_pos \in Int /\ j \in Int
          BY <1>2, <1>4, <4>1, Sizes
        <5>2. Cycle(next_frame + Ahead) = Cycle(file_pos)
          BY DEF Ordered, BufferedInOrder
        <5> QED
          BY <5>1, <5>2, CycleGoesOn
      <4>5. next_frame + Ahead + j = next_frame + (d + i) - 1
        BY <1>2, <1>4, <3>1, <4>1, Sizes
      <4>6. Nth(next_frame, d + i) = file_pos + j
        <5>1. Nth(next_frame, d + i) = FrameOffset + ((file_pos + j) - FrameOffset)
          BY <4>3, <4>4, <4>5 DEF Nth
        <5> QED
          BY <1>2, <1>4, <4>1, <5>1, Sizes
      <4> QED
        BY <1>7, <3>1, <4>2, <4>6
    <3> QED
      BY <3>2, <3>3
  <2>3. next_frame' \in FrameOffset .. End /\ file_pos' \in FrameOffset .. End
    BY <1>1, <1>2, <1>4, Sizes
  <2>4. file_pos' <= next_frame' + Ahead'
    BY <1>1, <1>2, <1>4, <1>6, Sizes DEF Ordered, BufferedInOrder
  <2>5. Cycle(file_pos') = Cycle(next_frame' + Ahead')
    <3>1. PICK x \in Int, y \in Int, k \in Int : x = file_pos /\ y = next_frame + Ahead /\ k = n
      <4>1. next_frame \in Int /\ Ahead \in Int /\ file_pos \in Int
        BY <1>2, Sizes
      <4>2. next_frame + Ahead \in Int /\ n \in Int
        BY <1>4, <4>1
      <4> HIDE DEF n
      <4> QED
        BY <4>1, <4>2
    <3>2. Cycle(x + k) = Cycle(y + k)
      BY <3>1, CycleGoesOn DEF Ordered, BufferedInOrder
    <3>3. file_pos' = x + k /\ next_frame' + Ahead' = y + k
      BY <1>1, <1>2, <1>4, <1>6, <3>1, Sizes
    <3> QED
      BY <3>2, <3>3
  <2> QED
    BY <2>1, <2>2, <2>3, <2>4, <2>5 DEF BufferedInOrder
<1>9. ReadSoFar'
  <2>1. total_frames_read_from_file' + (IF disk'.at = "account" THEN disk'.got ELSE 0)
          = file_pos' - FrameOffset
    <3>1. CASE n > 0
      BY <1>1, <1>2, <1>3, <1>4, <3>1, Sizes
    <3>2. CASE n = 0
      BY <1>1, <1>2, <1>3, <3>2, Sizes
    <3> QED
      BY <1>4, <3>1, <3>2
  <2>2. disk'.at \in {"account", "wait"} /\ UNCHANGED running
    BY <1>1
  <2>3. no_more_input_data' \/ transport'.is_idling_at_end => file_pos' = End
    <3>1. no_more_input_data \/ transport.is_idling_at_end => file_pos = End
      BY DEF Ordered, ReadSoFar
    <3>2. CASE n = 0
      BY <1>1, <1>2, <1>4, <3>2, Sizes
    <3>3. CASE n # 0
      <4>1. file_pos # End
        BY <1>2, <1>4, <3>3, Sizes
      <4> QED
        BY <1>1, <3>1, <3>3, <4>1
    <3> QED
      BY <3>2, <3>3
  <2> QED
    BY <2>1, <2>2, <2>3 DEF Ordered, ReadSoFar, Ending
<1>10. FoundSoFar'
  <2>1. UNCHANGED <<process, deinterleaved>> /\ Len(resampled') >= Len(resampled)
    BY <1>1, <1>2, <1>4, <1>5
  <2>2. process.n \in Nat /\ Len(resampled') \in Nat
    BY <1>2, <1>4, <1>5, Known
  <2> QED
    BY <1>2, <2>1, <2>2 DEF Ordered, FoundSoFar
<1>11. FoundNothing'
  <2> SUFFICES ASSUME process.at \in {"check", "output"}, deinterleaved = <<>>,
                      transport.is_playing
               PROVE  OneRead'
    BY <1>1 DEF FoundNothing
  <2>1. r = 0 /\ d = 0 /\ Doubled = 0
    BY <1>1 DEF Ordered, FoundNothing, OneRead, Doubled, Ending
  <2>2. file_pos <= next_frame /\ Cycle(file_pos) = Cycle(next_frame)
    BY <1>2, <2>1, Sizes DEF Ordered, BufferedInOrder
  <2>3. next_frame = file_pos \/ next_frame = End
    <3>1. CASE file_pos < next_frame /\ next_frame # End
      <4>1. next_frame < file_pos + FrameCount
        BY <1>2, <3>1, Sizes
      <4> QED
        BY <1>2, <2>2, <3>1, <4>1, Sizes, CycleDiffers
    <3> QED
      BY <1>2, <2>2, <3>1, Sizes
  <2>4. file_pos' = End => next_frame' = End \/ Len(resampled') = End - next_frame'
    BY <1>1, <1>2, <1>4, <1>5, <2>1, <2>3, Sizes
  <2>5. Len(resampled') <= sndfile_request_frames
    BY <1>4, <1>5, <2>1, Sizes
  <2>6. disk'.at \in {"account", "wait"}
    BY <1>1
  <2> QED
    BY <2>4, <2>5, <2>6 DEF OneRead
<1>12. Left'
  BY <1>1 DEF Ordered, Left, Ending
<1> QED
  BY <1>8, <1>9, <1>10, <1>11, <1>12 DEF Ordered

(* The disk thread adds the frames to its count, and may find the end. *)
LEMMA AccountOrdered ==
  ASSUME Undisturbed, TInv, Ordered, DiskAccount
  PROVE  Ordered'
<1> DEFINE total == total_frames_read_from_file
<1>1. /\ disk.at = "account" /\ disk'.at \in {"at_end", "wait"}
      /\ UNCHANGED <<file_pos, resampled, deinterleaved, next_frame, transport, running, process>>
  BY DEF DiskAccount, buffer_vars, heard_vars
<1>2. PICK g \in 0 .. FrameCount : /\ g = file_pos - FrameOffset /\ g = total + disk.got
                                   /\ g % Word = g /\ (g >= FrameCount <=> file_pos = End)
  <2>1. PICK g \in 0 .. FrameCount : g = file_pos - FrameOffset
    BY Known, Sizes
  <2>2. g = total + disk.got
    BY <1>1, <2>1 DEF Ordered, ReadSoFar
  <2>3. PICK w \in Nat \ {0} : w = Word
    BY Sizes
  <2>4. g \in 0 .. w - 1
    BY <2>1, <2>3, Sizes
  <2>5. g % w = g
    BY <2>3, <2>4, OwnRest
  <2>6. g >= FrameCount <=> file_pos = End
    <3>1. file_pos \in FrameOffset .. End
      BY Known
    <3> QED
      BY <2>1, <3>1, Sizes
  <2> QED
    BY <2>1, <2>2, <2>3, <2>5, <2>6
<1>3. BufferedInOrder'
  BY <1>1, BuffersKept DEF Ordered, Doubled
<1>4. ReadSoFar'
  <2>2. ~running'.seek_frames_in_progress
    BY <1>1 DEF Ordered, ReadSoFar
  <2>4. total' = g
    BY <1>2 DEF DiskAccount
  <2>5. no_more_input_data' \/ transport'.is_idling_at_end
          \/ disk'.at \in Ending \cup {"loops"} => file_pos = End
    <3>1. no_more_input_data \/ transport.is_idling_at_end => file_pos = End
      BY DEF Ordered, ReadSoFar
    <3>2. CASE g >= FrameCount
      BY <1>2, <3>2
    <3>3. CASE ~(g >= FrameCount)
      <4>1. no_more_input_data' = no_more_input_data /\ disk'.at = "wait"
        BY <1>2, <3>3 DEF DiskAccount, TInv, StructsOK
      <4> QED
        BY <1>1, <3>1, <4>1 DEF Ending
    <3> QED
      BY <3>2, <3>3
  <2> QED
    BY <1>1, <1>2, <2>2, <2>4, <2>5, Sizes DEF ReadSoFar, Ending
<1>5. FoundSoFar'
  BY <1>1 DEF Ordered, FoundSoFar
<1>6. FoundNothing' /\ Left'
  BY <1>1 DEF Ordered, FoundNothing, OneRead, Left, Ending
<1> QED
  BY <1>3, <1>4, <1>5, <1>6 DEF Ordered

(* At the end it decides whether to pause and to loop, field by field: it  *)
(* moves no frames.                                                        *)
LEMMA EndingOrdered ==
  ASSUME Undisturbed, TInv, Ordered,
         DiskAtEnd \/ DiskPauses \/ DiskEndsSeek \/ DiskEndsTarget \/ DiskIdles \/ DiskLoopDue
  PROVE  Ordered'
<1>1. /\ disk.at \in Ending /\ disk'.at \in Ending \cup {"loops", "wait"}
      /\ UNCHANGED <<file_pos, resampled, deinterleaved, next_frame, no_more_input_data, process>>
  BY DEF DiskAtEnd, DiskPauses, DiskEndsSeek, DiskEndsTarget, DiskIdles, DiskLoopDue, DiskGoes,
         TInv, DiskOK, Ending, seek_vars, buffer_vars, flag_vars, heard_vars
<1>2. file_pos = End /\ ~running.seek_frames_in_progress
      /\ total_frames_read_from_file = file_pos - FrameOffset
  <2>1. disk.at # "account"
    BY <1>1 DEF Ending
  <2>2. total_frames_read_from_file \in Int
    BY Sizes DEF TInv, SeekOK
  <2> QED
    BY <1>1, <2>1, <2>2 DEF Ordered, ReadSoFar
<1>3. total_frames_read_from_file' = file_pos - FrameOffset
  BY <1>2, Sizes DEF DiskAtEnd, DiskPauses, DiskEndsSeek, DiskEndsTarget, DiskIdles, DiskLoopDue,
                     seek_vars
<1>4. /\ ~running'.seek_frames_in_progress
      /\ running'.shutdown_in_progress = running.shutdown_in_progress
      /\ transport'.is_playing => transport.is_playing
  BY <1>2 DEF DiskAtEnd, DiskPauses, DiskEndsSeek, DiskEndsTarget, DiskIdles, DiskLoopDue,
              TInv, StructsOK, Transports
<1>5. BufferedInOrder'
  BY <1>1, BuffersKept DEF Ordered, Doubled
<1>6. ReadSoFar'
  BY <1>1, <1>2, <1>3, <1>4 DEF ReadSoFar, Ending
<1>7. FoundSoFar'
  BY <1>1 DEF Ordered, FoundSoFar
<1>8. FoundNothing' /\ Left'
  BY <1>1, <1>4 DEF Ordered, FoundNothing, OneRead, Left
<1> QED
  BY <1>5, <1>6, <1>7, <1>8 DEF Ordered

(* The file is rewound when it was read to its end: what comes next is the *)
(* same place of the cycle.                                                *)
LEMMA LoopsOrdered ==
  ASSUME Undisturbed, TInv, Ordered, DiskLoops
  PROVE  Ordered'
<1>1. /\ disk.at = "loops" /\ disk'.at = "wait" /\ file_pos' = FrameOffset
      /\ total_frames_read_from_file' = 0 /\ no_more_input_data' = FALSE
      /\ UNCHANGED <<resampled, deinterleaved, next_frame, process>>
  BY DEF DiskLoops, DiskGoes, Rewind, TInv, DiskOK, heard_vars
<1>2. file_pos = End
  BY <1>1 DEF Ordered, ReadSoFar
<1>3. /\ transport'.is_playing = transport.is_playing /\ ~transport'.is_idling_at_end
      /\ running'.shutdown_in_progress = running.shutdown_in_progress
      /\ ~running'.seek_frames_in_progress
  BY DEF DiskLoops, Rewind, TInv, StructsOK, Transports
<1>4. BufferedInOrder'
  <2>1. Doubled' = Doubled /\ Ahead' = Ahead
    BY <1>1 DEF Doubled, Ahead
  <2>2. file_pos' \in FrameOffset .. End /\ file_pos' <= next_frame' + Ahead'
    BY <1>1, <2>1, Known, Sizes
  <2>3. Cycle(file_pos') = Cycle(next_frame' + Ahead')
    BY <1>1, <1>2, <2>1, CycleEnds DEF Ordered, BufferedInOrder
  <2> QED
    BY <1>1, <2>1, <2>2, <2>3 DEF Ordered, BufferedInOrder
<1>5. ReadSoFar'
  BY <1>1, <1>3, Sizes DEF ReadSoFar, Ending
<1>6. FoundSoFar' /\ Left'
  BY <1>1, <1>3 DEF Ordered, FoundSoFar, Left
<1>7. FoundNothing'
  <2>1. file_pos' # End
    BY <1>1, Sizes
  <2> QED
    BY <1>1, <1>3, <2>1 DEF Ordered, FoundNothing, OneRead
<1> QED
  BY <1>4, <1>5, <1>6, <1>7 DEF Ordered

(* With no seek pending, every step of the disk thread keeps the order. *)
LEMMA DiskOrdered ==
  ASSUME Undisturbed, TInv, Ordered, Disk
  PROVE  Ordered'
<1>1. disk.at \in {"top", "space", "wait", "read", "account", "loops"} \cup Ending
      /\ ~running.seek_frames_in_progress
  BY DEF Ordered, ReadSoFar
<1>2. CASE DiskNoSeek \/ DiskSpace
  <2>1. /\ disk.at \in {"top", "space"} /\ disk'.at \in {"space", "wait", "read"}
        /\ UNCHANGED <<file_pos, total_frames_read_from_file, resampled, deinterleaved,
                       no_more_input_data, next_frame, transport, running, process>>
    BY <1>2 DEF DiskNoSeek, DiskSpace, DiskGoes, TInv, DiskOK, seek_vars, buffer_vars,
                flag_vars, heard_vars
  <2>2. BufferedInOrder'
    BY <2>1, BuffersKept DEF Ordered, Doubled
  <2>3. ReadSoFar' /\ FoundSoFar'
    BY <2>1 DEF Ordered, ReadSoFar, FoundSoFar, Ending
  <2>4. FoundNothing' /\ Left'
    BY <2>1 DEF Ordered, FoundNothing, OneRead, Left, Ending
  <2> QED
    BY <2>2, <2>3, <2>4 DEF Ordered
<1>3. CASE DiskRead \/ DiskAccount \/ DiskLoops
  BY <1>3, ReadOrdered, AccountOrdered, LoopsOrdered
<1>4. CASE DiskAtEnd \/ DiskPauses \/ DiskEndsSeek \/ DiskEndsTarget \/ DiskIdles \/ DiskLoopDue
  BY <1>4, EndingOrdered
<1> QED
  BY <1>1, <1>2, <1>3, <1>4 DEF Ending, Disk, DiskGoes, DiskSeekDue, DiskDropDeinterleaved,
       DiskDropResampled, DiskSeek, DiskClearRequest, DiskClearTarget, DiskRestart,
       DiskSeekEnded, DiskSeekIdles, DiskSeekPauses, DiskSeekLoopDue, DiskSeekLoops

(* A step that moves no frames. *)
LEMMA QuietOrdered ==
  ASSUME Undisturbed, TInv, Ordered,
         UNCHANGED <<deinterleaved, resampled, next_frame, file_pos,
                     total_frames_read_from_file, no_more_input_data>>,
         disk' = disk \/ req_buffer_from_disk_thread,
         transport'.is_idling_at_end = transport.is_idling_at_end,
         running'.seek_frames_in_progress = running.seek_frames_in_progress,
         process.at # "advance", process'.at \notin {"write", "advance"},
         process'.at = "read" => process'.n >= 1 /\ process'.n <= Len(deinterleaved),
         FoundNothing', Left'
  PROVE  Ordered'
<1>1. BufferedInOrder'
  BY BuffersKept DEF Ordered, Doubled
<1>2. ReadSoFar'
  <2>1. disk' = disk \/ (disk.at = "wait" /\ disk'.at = "top")
    BY DEF req_buffer_from_disk_thread, TInv, DiskOK
  <2> QED
    BY <2>1 DEF Ordered, ReadSoFar, Ending
<1>3. FoundSoFar'
  BY DEF FoundSoFar
<1> QED
  BY <1>1, <1>2, <1>3 DEF Ordered

(* Main only starts the callback. *)
LEMMA MainOrdered ==
  ASSUME Undisturbed, TInv, Ordered, MainPrimes \/ MainEnablesProcess
  PROVE  Ordered'
<1>1. /\ process.at = "starting" /\ process'.at \in {"starting", "idle"}
      /\ ~running.shutdown_in_progress
  BY DEF MainPrimes, MainEnablesProcess, Ordered, Left, TInv, ProcessOK
<1>2. UNCHANGED <<deinterleaved, resampled, next_frame, file_pos, total_frames_read_from_file,
                  no_more_input_data, transport, running>>
  BY DEF MainPrimes, MainEnablesProcess, seek_vars, buffer_vars, flag_vars, heard_vars
<1>3. disk' = disk \/ req_buffer_from_disk_thread
  BY DEF MainPrimes, MainEnablesProcess
<1>4. FoundNothing' /\ Left'
  BY <1>1, <1>2 DEF FoundNothing, Left
<1> QED
  BY <1>1, <1>2, <1>3, <1>4, QuietOrdered

(* A cycle that plays nothing goes on without taking frames. *)
LEMMA BeginsOrdered ==
  ASSUME Undisturbed, TInv, Ordered, ProcessBegins
  PROVE  Ordered'
<1>1. /\ process.at = "idle" /\ process'.at \in {"idle", "deinterleave", "check"}
      /\ ~running.shutdown_in_progress
      /\ process'.at = "check" => ~transport'.is_playing
  BY DEF ProcessBegins, ProcessGoes, ProcessDoes
<1>2. UNCHANGED <<deinterleaved, resampled, next_frame, file_pos, total_frames_read_from_file,
                  no_more_input_data, running>>
  BY DEF ProcessBegins, seek_vars, buffer_vars, flag_vars
<1>3. disk' = disk \/ req_buffer_from_disk_thread
  BY DEF ProcessBegins
<1>4. transport'.is_idling_at_end = transport.is_idling_at_end
  BY DEF ProcessBegins, TInv, StructsOK, Transports
<1>5. FoundNothing' /\ Left'
  BY <1>1, <1>2 DEF FoundNothing, Left
<1> QED
  BY <1>1, <1>2, <1>3, <1>4, <1>5, QuietOrdered

(* Waking the disk thread changes nothing in the buffers. *)
LEMMA MutesOrdered ==
  ASSUME Undisturbed, TInv, Ordered, ProcessMutes \/ ProcessRequests
  PROVE  Ordered'
<1>1. /\ process.at \in {"output", "request"} /\ process'.at = "idle"
      /\ ~running.shutdown_in_progress
  BY DEF ProcessMutes, ProcessRequests, ProcessGoes, ProcessDoes
<1>2. UNCHANGED <<deinterleaved, resampled, next_frame, file_pos, total_frames_read_from_file,
                  no_more_input_data, transport, running>>
  BY DEF ProcessMutes, ProcessRequests, seek_vars, buffer_vars, flag_vars, heard_vars
<1>3. req_buffer_from_disk_thread
  BY DEF ProcessMutes, ProcessRequests
<1>4. FoundNothing' /\ Left'
  BY <1>1, <1>2 DEF FoundNothing, Left
<1> QED
  BY <1>1, <1>2, <1>3, <1>4, QuietOrdered

(* With one channel a sample is a frame. *)
LEMMA OneChannel ==
  ASSUME NEW a \in Int, Undisturbed
  PROVE  a \div Channels = a /\ a * Channels = a
<1>1. a \div 1 = a /\ a * 1 = a
  OBVIOUS
<1> QED
  BY <1>1, Zenon DEF Undisturbed

(* The end is found when nothing is left, and then all was heard. *)
LEMMA EndOrdered ==
  ASSUME Undisturbed, TInv, Ordered, ProcessChecksEnd
  PROVE  Ordered'
<1> DEFINE ended == no_more_input_data /\ resampled = <<>> /\ deinterleaved = <<>>
<1>1. /\ process.at = "check" /\ process'.at \in {"idle", "output"}
      /\ ~running.shutdown_in_progress
      /\ process'.at = IF ended THEN "idle" ELSE "output"
  BY DEF ProcessChecksEnd, ProcessGoes, ProcessDoes
<1>2. UNCHANGED <<deinterleaved, resampled, next_frame, file_pos, total_frames_read_from_file,
                  no_more_input_data, transport, disk>>
  BY DEF ProcessChecksEnd, seek_vars, buffer_vars, flag_vars
<1>3. /\ running'.seek_frames_in_progress = running.seek_frames_in_progress
      /\ running'.shutdown_in_progress <=> ended
  BY DEF ProcessChecksEnd, TInv, StructsOK
<1>4. FoundNothing'
  BY <1>1, <1>2 DEF Ordered, FoundNothing, OneRead
<1>5. Left'
  <2> SUFFICES ASSUME ended
               PROVE  process'.at # "starting" /\ next_frame' = End
    BY <1>3 DEF Left
  <2>1. file_pos = End /\ Ahead = 0
    BY <1>1 DEF Ordered, ReadSoFar, Ahead, Doubled
  <2>2. next_frame = End
    BY <2>1, Known, Sizes DEF Ordered, BufferedInOrder
  <2> QED
    BY <1>1, <1>2, <2>2
<1> QED
  BY <1>1, <1>2, <1>3, <1>4, <1>5, QuietOrdered

(* With nothing to play after the last read, only that read is left unheard. *)
LEMMA PutsOutOrdered ==
  ASSUME Undisturbed, TInv, Ordered, ProcessPutsOut
  PROVE  Ordered'
<1>1. /\ process.at = "output" /\ process'.at \in {"read", "idle"}
      /\ ~running.shutdown_in_progress /\ transport.is_playing
  BY DEF ProcessPutsOut, ProcessGoes, ProcessDoes, Mute
<1>2. UNCHANGED <<deinterleaved, resampled, next_frame, file_pos, total_frames_read_from_file,
                  no_more_input_data, transport>>
  BY DEF ProcessPutsOut, seek_vars, buffer_vars, flag_vars
<1>3. disk' = disk \/ req_buffer_from_disk_thread
  BY DEF ProcessPutsOut
<1>4. running'.seek_frames_in_progress = running.seek_frames_in_progress
  BY DEF ProcessPutsOut, TInv, StructsOK
<1>5. FramesAvailable = Len(deinterleaved)
  <2>1. PICK a \in Int : a = Len(deinterleaved)
    BY Known
  <2> QED
    BY <2>1, OneChannel DEF FramesAvailable
<1>6. process'.at = "read" => process'.n >= 1 /\ process'.n <= Len(deinterleaved)
  <2>1. Len(deinterleaved) \in Nat /\ Period \in Nat \ {0}
    BY Known, Sizes
  <2>2. CASE FramesAvailable >= Period /\ ProcessDoes("output", "read", Period)
    BY <1>5, <2>1, <2>2 DEF ProcessDoes
  <2>3. CASE 1 <= FramesAvailable /\ ProcessDoes("output", "read", FramesAvailable)
    BY <1>5, <2>1, <2>3 DEF ProcessDoes
  <2>4. CASE ProcessGoes("output", "idle")
    BY <2>4 DEF ProcessGoes, ProcessDoes
  <2> QED
    BY <2>2, <2>3, <2>4 DEF ProcessPutsOut
<1>7. FoundNothing'
  BY <1>1 DEF FoundNothing
<1>8. Left'
  <2>1. running'.shutdown_in_progress =>
          no_more_input_data /\ FramesAvailable < 1 /\ disk' = disk
    BY <1>1 DEF ProcessPutsOut
  <2> SUFFICES ASSUME no_more_input_data, FramesAvailable < 1, disk' = disk
               PROVE  Left'
    BY <2>1 DEF Left
  <2>2. deinterleaved = <<>> /\ Len(deinterleaved) = 0
    BY <1>5, Known DEF TInv, DeinterleavedOK
  <2>3. file_pos = End
    BY DEF Ordered, ReadSoFar
  <2>4. CASE resampled = <<>>
    <3>1. Ahead = 0
      BY <1>1, <2>2, <2>4 DEF Ahead, Doubled
    <3>2. next_frame = End
      BY <2>3, <3>1, Known, Sizes DEF Ordered, BufferedInOrder
    <3> QED
      BY <1>1, <1>2, <3>2 DEF Left
  <2>5. CASE OneRead
    BY <1>1, <1>2, <2>3, <2>5 DEF OneRead, Left
  <2> QED
    BY <1>1, <2>2, <2>4, <2>5 DEF Ordered, FoundNothing
<1> QED
  BY <1>1, <1>2, <1>3, <1>4, <1>6, <1>7, <1>8, QuietOrdered


(* The callback uses what frames are there, if there is room for them; as  *)
(* there is room when the other buffer is empty, it goes on with nothing   *)
(* only if there is nothing to use.                                        *)
LEMMA DeinterleaveBeginsOrdered ==
  ASSUME Undisturbed, TInv, Ordered, DeinterleaveBegins
  PROVE  Ordered'
<1>1. /\ process.at = "deinterleave" /\ ~running.shutdown_in_progress
      /\ UNCHANGED <<deinterleaved, resampled, next_frame, file_pos, running, transport, disk,
                     total_frames_read_from_file, no_more_input_data>>
  BY DEF DeinterleaveBegins, ProcessGoes, ProcessDoes, seek_vars, buffer_vars, flag_vars,
         heard_vars
<1>2. PICK use, room : /\ use = Least(Len(resampled), Period)
                       /\ room = (DeinterleavedSize * Channels - Len(deinterleaved)) \div Channels
                       /\ IF use >= 1 /\ room >= use
                          THEN ProcessDoes("deinterleave", "write", use)
                          ELSE ProcessDoes("deinterleave", "check", 0)
  BY DEF DeinterleaveBegins, ProcessGoes
<1>3. room = DeinterleavedSize - Len(deinterleaved)
  <2>1. DeinterleavedSize \in Int /\ DeinterleavedSize - Len(deinterleaved) \in Int
    <3>1. DeinterleavedSize \in Nat
      BY Sizes
    <3>2. Len(deinterleaved) \in Nat
      BY Known
    <3> QED
      BY <3>1, <3>2
  <2>2. PICK a \in Int, b \in Int : a = DeinterleavedSize /\ b = DeinterleavedSize - Len(deinterleaved)
    BY <2>1
  <2>3. a * Channels = a /\ b \div Channels = b
    BY OneChannel
  <2> QED
    BY <1>2, <2>2, <2>3
<1>4. use \in Nat /\ use <= Len(resampled) /\ use <= Period /\ (use = 0 => Len(resampled) = 0)
  <2>1. Len(resampled) \in Nat /\ Period \in Nat \ {0}
    BY Known, Sizes
  <2> QED
    BY <1>2, <2>1 DEF Least
<1>5. \/ process'.at = "write" /\ process'.n = use /\ use >= 1
      \/ process'.at = "check" /\ ~(use >= 1 /\ room >= use)
  BY <1>2 DEF ProcessDoes
<1>6. BufferedInOrder'
  BY <1>1, <1>5, BuffersKept DEF Ordered, Doubled
<1>7. ReadSoFar'
  BY <1>1 DEF Ordered, ReadSoFar
<1>8. FoundSoFar'
  BY <1>1, <1>4, <1>5 DEF FoundSoFar
<1>9. FoundNothing'
  <2> SUFFICES ASSUME process'.at = "check", deinterleaved = <<>>
               PROVE  resampled = <<>>
    BY <1>1, <1>5 DEF FoundNothing
  <2>1. room >= use
    BY <1>3, <1>4, Sizes
  <2>2. use = 0
    BY <1>4, <1>5, <2>1
  <2> QED
    BY <1>4, <2>2 DEF TInv, ResampledOK
<1>10. Left'
  BY <1>1 DEF Left
<1> QED
  BY <1>6, <1>7, <1>8, <1>9, <1>10 DEF Ordered

(* The frames used are in both buffers until the callback advances. *)
LEMMA DeinterleaveWritesOrdered ==
  ASSUME Undisturbed, TInv, Ordered, DeinterleaveWrites
  PROVE  Ordered'
<1> DEFINE n == process.n
           d == Len(deinterleaved)
<1>1. /\ process.at = "write" /\ ~running.shutdown_in_progress
      /\ process'.at = "advance" /\ process'.n = n
      /\ UNCHANGED <<resampled, next_frame, file_pos, running, transport, disk,
                     total_frames_read_from_file, no_more_input_data>>
  <2>1. ~(process.channel + 1 < Channels)
    <3>1. process.channel = 0 /\ Channels = 1
      BY Known DEF Undisturbed
    <3> QED
      BY <3>1
  <2>2. NextChannel("write", "advance")
    BY DEF DeinterleaveWrites
  <2>3. /\ process.at = "write" /\ ~running.shutdown_in_progress
        /\ process'.at = "advance" /\ process'.n = n
    BY <2>1, <2>2 DEF NextChannel, TInv, ProcessOK
  <2> QED
    BY <2>3 DEF DeinterleaveWrites, seek_vars, flag_vars, heard_vars
<1>2. /\ n \in Nat /\ n >= 1 /\ n <= Len(resampled) /\ d \in Nat /\ Len(resampled) \in Nat
      /\ process.channel = 0 /\ Doubled = 0 /\ Doubled' = n
  BY <1>1, Known DEF Ordered, FoundSoFar, Doubled
<1>3. /\ Len(deinterleaved') = d + n
      /\ \A k \in 1 .. d + n : deinterleaved'[k] = IF k <= d THEN deinterleaved[k]
                                                   ELSE <<0, resampled[k - d]>>
  <2>1. PICK m, f : m = n /\ f = [i \in 1 .. m |-> <<0, resampled[i]>>]
    OBVIOUS
  <2>2. deinterleaved' = deinterleaved \o f
    BY <1>2, <2>1 DEF DeinterleaveWrites
  <2>3. m \in Nat /\ f \in [1 .. m -> Played]
    <3>1. resampled \in Seq(InFile) /\ Channel = {0}
      BY Known DEF TInv, ResampledOK
    <3>2. \A i \in 1 .. m : resampled[i] \in InFile
      BY <1>2, <2>1, <3>1
    <3> QED
      BY <1>2, <2>1, <3>1, <3>2 DEF Played
  <2>4. deinterleaved \in Seq(Played)
    BY DEF TInv, DeinterleavedOK
  <2>5. /\ Len(deinterleaved') = d + m
        /\ \A k \in 1 .. d + m : deinterleaved'[k] = IF k <= d THEN deinterleaved[k] ELSE f[k - d]
    BY <2>2, <2>3, <2>4, BlockAdded
  <2>6. \A k \in 1 .. d + m : ~(k <= d) => k - d \in 1 .. m
    BY <1>2, <2>3
  <2> QED
    BY <2>1, <2>5, <2>6
<1>4. Ahead' = Ahead
  BY <1>1, <1>2, <1>3 DEF Ahead
<1>5. \A i \in 1 .. Len(resampled) : resampled[i] = Nth(next_frame, d + i)
  BY <1>2 DEF Ordered, BufferedInOrder
<1>6. BufferedInOrder'
  <2>1. ASSUME NEW i \in 1 .. Len(deinterleaved')
        PROVE  deinterleaved'[i] = <<0, Nth(next_frame', i)>>
    <3>1. CASE i <= d
      <4>0. i \in 1 .. d + n
        BY <1>3
      <4>1. i \in 1 .. d
        BY <1>2, <3>1, <4>0
      <4>2. deinterleaved'[i] = deinterleaved[i]
        BY <1>3, <3>1, <4>0
      <4> QED
        BY <1>1, <4>1, <4>2 DEF Ordered, BufferedInOrder
    <3>2. CASE ~(i <= d)
      <4>1. i - d \in 1 .. Len(resampled) /\ d + (i - d) = i
        BY <1>2, <1>3, <3>2
      <4>2. resampled[i - d] = Nth(next_frame, i)
        BY <1>5, <4>1
      <4> QED
        BY <1>1, <1>3, <3>2, <4>2
    <3> QED
      BY <3>1, <3>2
  <2>2. ASSUME NEW i \in 1 .. Len(resampled') - Doubled'
        PROVE  resampled'[Doubled' + i] = Nth(next_frame', Len(deinterleaved') + i)
    <3>1. n + i \in 1 .. Len(resampled) /\ d + (n + i) = Len(deinterleaved') + i
      BY <1>1, <1>2, <1>3
    <3> QED
      BY <1>1, <1>2, <1>5, <3>1
  <2> QED
    BY <1>1, <1>4, <2>1, <2>2 DEF Ordered, BufferedInOrder
<1>7. ReadSoFar'
  BY <1>1 DEF Ordered, ReadSoFar
<1>8. FoundSoFar'
  BY <1>1, <1>2, <1>3 DEF FoundSoFar
<1>9. FoundNothing' /\ Left'
  BY <1>1 DEF FoundNothing, Left
<1> QED
  BY <1>6, <1>7, <1>8, <1>9 DEF Ordered

(* The frames used are taken off the first buffer. *)
LEMMA DeinterleaveAdvancesOrdered ==
  ASSUME Undisturbed, TInv, Ordered, DeinterleaveAdvances
  PROVE  Ordered'
<1> DEFINE n == process.n
           r == Len(resampled)
<1>1. /\ process.at = "advance" /\ ~running.shutdown_in_progress /\ process'.at = "check"
      /\ resampled' = After(resampled, n)
      /\ UNCHANGED <<deinterleaved, next_frame, file_pos, running, transport, disk,
                     total_frames_read_from_file, no_more_input_data>>
  BY DEF DeinterleaveAdvances, ProcessGoes, ProcessDoes, seek_vars, flag_vars, heard_vars
<1>2. /\ n \in Nat /\ n >= 1 /\ n <= r /\ r \in Nat /\ Len(deinterleaved) \in Nat
      /\ Doubled = n /\ Doubled' = 0 /\ deinterleaved # <<>>
  BY <1>1, Known DEF Ordered, FoundSoFar, Doubled
<1>3. /\ Len(resampled') = r - n
      /\ \A i \in 1 .. r - n : resampled'[i] = resampled[n + i]
  <2>1. resampled \in Seq(InFile)
    BY DEF TInv, ResampledOK
  <2>2. PICK m \in Nat : m = n
    BY <1>2
  <2>3. /\ Len(After(resampled, m)) = IF m <= r THEN r - m ELSE 0
        /\ \A i \in 1 .. r - m : After(resampled, m)[i] = resampled[m + i]
    BY <2>1, FrontTaken
  <2> QED
    BY <1>1, <1>2, <2>2, <2>3
<1>4. Ahead' = Ahead
  BY <1>1, <1>2, <1>3 DEF Ahead
<1>5. BufferedInOrder'
  <2>1. \A i \in 1 .. Len(resampled') - Doubled' :
          resampled'[Doubled' + i] = Nth(next_frame', Len(deinterleaved') + i)
    <3> SUFFICES ASSUME NEW i \in 1 .. Len(resampled') - Doubled'
                 PROVE  resampled'[Doubled' + i] = Nth(next_frame', Len(deinterleaved') + i)
      OBVIOUS
    <3>0. i \in 1 .. r - n /\ Doubled' + i = i
      BY <1>2, <1>3
    <3>1. resampled'[Doubled' + i] = resampled[n + i]
      BY <1>3, <3>0
    <3>2. resampled[n + i] = Nth(next_frame, Len(deinterleaved) + i)
      BY <1>2, <3>0 DEF Ordered, BufferedInOrder
    <3> QED
      BY <1>1, <3>1, <3>2
  <2> QED
    BY <1>1, <1>4, <2>1 DEF Ordered, BufferedInOrder
<1>6. ReadSoFar' /\ FoundSoFar'
  BY <1>1 DEF Ordered, ReadSoFar, FoundSoFar
<1>7. FoundNothing' /\ Left'
  BY <1>1, <1>2 DEF FoundNothing, Left
<1> QED
  BY <1>5, <1>6, <1>7 DEF Ordered


(* The first n frames are heard, and the next one is due.                  *)
LEMMA ReadsOrdered ==
  ASSUME Undisturbed, TInv, Ordered, ProcessReads
  PROVE  Ordered'
<1> DEFINE n == process.n
           d == Len(deinterleaved)
           got == FirstOf(deinterleaved, n)
<1>1. /\ process.at = "read" /\ ~running.shutdown_in_progress
      /\ process'.at \in {"request", "idle"}
      /\ deinterleaved' = After(deinterleaved, n)
      /\ UNCHANGED <<resampled, file_pos, running, transport, disk,
                     total_frames_read_from_file, no_more_input_data>>
  <2>1. ~(process.channel + 1 < Channels)
    <3>1. process.channel = 0 /\ Channels = 1
      BY Known DEF Undisturbed
    <3> QED
      BY <3>1
  <2>2. process.at = "read" /\ ~running.shutdown_in_progress /\ process'.at \in {"request", "idle"}
    BY <2>1 DEF ProcessReads, NextChannel, TInv, ProcessOK
  <2> QED
    BY <2>2 DEF ProcessReads, seek_vars, flag_vars
<1>2. /\ n \in Nat /\ n >= 1 /\ n <= d /\ d \in Nat /\ Len(resampled) \in Nat
      /\ Doubled = 0 /\ Doubled' = 0
  BY <1>1, Known DEF Ordered, FoundSoFar, Doubled
<1>3. next_frame \in Int /\ Ahead \in Int /\ file_pos \in FrameOffset .. End
  BY Known, Sizes
<1>0. Nth(next_frame, n) \in FrameOffset .. End - 1 /\ Nth(next_frame, n) \in Int
  <2>1. \A i \in Int : Nth(next_frame, i) \in FrameOffset .. End - 1
    BY Known
  <2>2. n \in Int
    BY <1>2
  <2>3. Nth(next_frame, n) \in FrameOffset .. End - 1
    BY <2>1, <2>2
  <2> QED
    BY <2>3, Sizes
<1>4. /\ Len(deinterleaved') = d - n
      /\ \A i \in 1 .. d - n : deinterleaved'[i] = deinterleaved[n + i]
      /\ Len(got) = n /\ got[n] = deinterleaved[n]
  <2>1. deinterleaved \in Seq(Played)
    BY DEF TInv, DeinterleavedOK
  <2>2. PICK m \in Nat : m = n
    BY <1>2
  <2>3. /\ Len(After(deinterleaved, m)) = IF m <= d THEN d - m ELSE 0
        /\ \A i \in 1 .. d - m : After(deinterleaved, m)[i] = deinterleaved[m + i]
        /\ Len(FirstOf(deinterleaved, m)) = Least(m, d)
        /\ \A i \in 1 .. Least(m, d) : FirstOf(deinterleaved, m)[i] = deinterleaved[i]
    BY <2>1, FrontTaken
  <2>4. Least(m, d) = m /\ m \in 1 .. m
    BY <1>2, <2>2 DEF Least
  <2> QED
    BY <1>1, <1>2, <2>2, <2>3, <2>4
<1>5. next_frame' = Nth(next_frame, n) + 1
  <2>1. output'[0] = got
    <3>1. 0 \in Channel /\ process.channel = 0 /\ output \in [Channel -> Seq(Played)]
      BY Known DEF TInv, HeardOK
    <3> QED
      BY <3>1 DEF ProcessReads
  <2>2. got # <<>> /\ got[Len(got)] = <<0, Nth(next_frame, n)>>
    <3>1. n \in 1 .. d
      BY <1>2
    <3>2. deinterleaved[n] = <<0, Nth(next_frame, n)>>
      BY <3>1 DEF Ordered, BufferedInOrder
    <3> QED
      BY <1>2, <1>4, <3>2
  <2>3. got[Len(got)][2] = Nth(next_frame, n)
    BY <2>2
  <2>4. Nth(next_frame, n) # Stale
    BY <1>0, Sizes DEF Stale
  <2>5. process.channel + 1 = Channels
    <3>1. process.channel = 0 /\ Channels = 1
      BY Known DEF Undisturbed
    <3> QED
      BY <3>1
  <2> HIDE DEF got
  <2> QED
    BY <2>1, <2>2, <2>3, <2>4, <2>5 DEF ProcessReads
<1>6. next_frame' \in FrameOffset + 1 .. End /\ next_frame' \in Int
  BY <1>0, <1>5, Sizes
<1>7. Cycle(next_frame') = Cycle(next_frame + n)
  <2>1. PICK x \in Int, y \in Int : x = next_frame + n - 1 /\ y = Nth(next_frame, n)
    BY <1>0, <1>2, <1>3
  <2>2. y = FrameOffset + Cycle(x)
    BY <1>2, <1>3, <2>1 DEF Nth
  <2>3. Cycle(y) = Cycle(x)
    BY <2>2, CycleAgain
  <2>4. Cycle(y + 1) = Cycle(x + 1)
    BY <2>3, CycleGoesOn
  <2>5. x + 1 = next_frame + n /\ y + 1 = next_frame'
    <3>1. n \in Int
      BY <1>2
    <3> HIDE DEF n
    <3> QED
      BY <1>3, <1>5, <2>1, <3>1
  <2> QED
    BY <2>4, <2>5
<1>8. \A i \in Int : Nth(next_frame', i) = Nth(next_frame, n + i)
  <2> SUFFICES ASSUME NEW i \in Int
               PROVE  Nth(next_frame', i) = Nth(next_frame, n + i)
    OBVIOUS
  <2>1. PICK x \in Int, y \in Int, k \in Int : x = next_frame' /\ y = next_frame + n /\ k = i - 1
    BY <1>2, <1>3, <1>6
  <2>2. Cycle(x + k) = Cycle(y + k)
    BY <1>7, <2>1, CycleGoesOn
  <2>3. x + k = next_frame' + i - 1 /\ y + k = next_frame + (n + i) - 1
    <3> HIDE DEF n
    <3> QED
      BY <1>2, <1>3, <1>6, <2>1
  <2> QED
    BY <2>2, <2>3 DEF Nth
<1>9. Ahead' = Ahead - n
  BY <1>1, <1>2, <1>4 DEF Ahead
<1>10. BufferedInOrder'
  <2>1. ASSUME NEW i \in 1 .. Len(deinterleaved')
        PROVE  deinterleaved'[i] = <<0, Nth(next_frame', i)>>
    <3>1. i \in 1 .. d - n
      BY <1>4
    <3>2. i \in Int /\ n + i \in 1 .. d
      BY <1>2, <3>1
    <3>3. deinterleaved'[i] = deinterleaved[n + i]
      BY <1>4, <3>1
    <3>4. deinterleaved[n + i] = <<0, Nth(next_frame, n + i)>>
      BY <3>2 DEF Ordered, BufferedInOrder
    <3> QED
      BY <1>8, <3>2, <3>3, <3>4
  <2>2. ASSUME NEW i \in 1 .. Len(resampled') - Doubled'
        PROVE  resampled'[Doubled' + i] = Nth(next_frame', Len(deinterleaved') + i)
    <3>1. i \in 1 .. Len(resampled) - Doubled /\ Doubled' + i = Doubled + i
      BY <1>1, <1>2
    <3>2. resampled[Doubled + i] = Nth(next_frame, d + i)
      BY <3>1 DEF Ordered, BufferedInOrder
    <3>3. PICK j \in Int : j = Len(deinterleaved') + i
      BY <1>2, <1>4
    <3>4. n + j = d + i
      <4>1. n \in Int /\ d \in Int /\ i \in Int
        BY <1>2
      <4> HIDE DEF n, d
      <4> QED
        BY <1>4, <3>3, <4>1
    <3> QED
      BY <1>1, <1>8, <3>1, <3>2, <3>3, <3>4
  <2>3. Cycle(file_pos) = Cycle(next_frame' + Ahead')
    <3>1. PICK x \in Int, y \in Int, k \in Int : x = next_frame' /\ y = next_frame + n /\ k = Ahead - n
      BY <1>2, <1>3, <1>6
    <3>2. Cycle(x + k) = Cycle(y + k)
      BY <1>7, <3>1, CycleGoesOn
    <3>3. x + k = next_frame' + Ahead' /\ y + k = next_frame + Ahead
      <4> HIDE DEF n
      <4> QED
        BY <1>2, <1>3, <1>9, <3>1
    <3>4. Cycle(file_pos) = Cycle(next_frame + Ahead)
      BY DEF Ordered, BufferedInOrder
    <3> QED
      BY <3>2, <3>3, <3>4
  <2>4. file_pos <= next_frame' + Ahead'
    <3>1. Ahead' \in Nat /\ next_frame' \in Int /\ file_pos \in Int
      BY <1>1, <1>2, <1>3, <1>4, <1>6, Sizes DEF Ahead
    <3>2. PICK f \in Int, a \in Nat, y \in Int : f = next_frame' /\ a = Ahead' /\ y = file_pos
      BY <3>1
    <3>4. PICK x \in Int : x = f + a
      OBVIOUS
    <3>3. CASE x < y
      <4>1. y < x + FrameCount
        <5>1. FrameOffset \in Int /\ FrameCount \in Int /\ End = FrameOffset + FrameCount
          BY Sizes
        <5>2. next_frame' >= FrameOffset + 1 /\ file_pos <= End
          BY <1>3, <1>6, <5>1
        <5>3. f >= FrameOffset + 1 /\ y <= FrameOffset + FrameCount
          BY <3>2, <5>1, <5>2
        <5>4. f \in Int /\ a \in Nat /\ y \in Int /\ x = f + a
          BY <3>2, <3>4
        <5> QED
          BY <5>1, <5>3, <5>4
      <4>2. Cycle(x) # Cycle(y)
        BY <3>3, <4>1, CycleDiffers
      <4> QED
        BY <2>3, <3>2, <3>4, <4>2
    <3>5. ~(x < y) => y <= x
      OBVIOUS
    <3>6. next_frame' + Ahead' = x /\ file_pos = y
      BY <3>2, <3>4, Zenon
    <3> QED
      BY <3>3, <3>5, <3>6, Zenon
  <2>5. next_frame' \in FrameOffset .. End /\ file_pos \in FrameOffset .. End
    BY <1>3, <1>6, Sizes
  <2> QED
    BY <1>1, <2>1, <2>2, <2>3, <2>4, <2>5 DEF BufferedInOrder
<1>11. ReadSoFar' /\ FoundSoFar'
  BY <1>1 DEF Ordered, ReadSoFar, FoundSoFar
<1>12. FoundNothing' /\ Left'
  BY <1>1 DEF FoundNothing, Left
<1> QED
  BY <1>10, <1>11, <1>12 DEF Ordered


(* The i-th frame from the one that is due on is due then. *)
LEMMA NthIsDue ==
  ASSUME NEW i \in Nat \ {0}, next_frame \in FrameOffset .. End
  PROVE  Nth(next_frame, i) = Due(i)
<1>1. next_frame \in Int /\ FrameOffset \in Int /\ End \in Int /\ FrameOffset <= next_frame
  BY Sizes
<1>2. PICK x \in Int : x = next_frame + i - 1
  BY <1>1
<1>3. CASE next_frame + i > End
  <2>1. x - FrameOffset = next_frame + i - 1 - FrameOffset
    BY <1>1, <1>2
  <2> QED
    BY <1>2, <1>3, <2>1 DEF Due, Nth, Cycle
<1>4. CASE ~(next_frame + i > End)
  <2>1. x \in FrameOffset .. End - 1
    BY <1>1, <1>2, <1>4
  <2>2. Cycle(x) = x - FrameOffset
    BY <2>1, CycleOnce
  <2>3. FrameOffset + (x - FrameOffset) = x
    BY <1>1
  <2> QED
    BY <1>2, <1>4, <2>2, <2>3 DEF Due, Nth
<1> QED
  BY <1>3, <1>4

(* When the seek has been served, the first frame is due and is read next. *)
LEMMA SeekingFirstKept ==
  ASSUME Undisturbed, TInv, SeekingFirst, Disk \/ MainPrimes \/ jack_process
  PROVE  SeekingFirst' \/ Ordered'
<1>1. /\ resampled = <<>> /\ deinterleaved = <<>> /\ ~no_more_input_data
      /\ total_frames_read_from_file = 0 /\ next_frame = FrameOffset
      /\ running.last_seek_pos = FrameOffset
      /\ ~transport.is_idling_at_end /\ ~running.shutdown_in_progress
      /\ process.at \in {"starting", "idle", "deinterleave", "check", "output"}
      /\ disk.at # "wait"
  BY DEF SeekingFirst
<1>2. CASE Disk
  <2>1. CASE DiskSeekDue \/ DiskDropDeinterleaved \/ DiskDropResampled
    <3>1. /\ disk.at \in {"top", "drop_deinterleaved", "drop_resampled"}
          /\ disk'.at \in {"drop_deinterleaved", "drop_resampled", "seek"}
      BY <2>1 DEF DiskSeekDue, DiskDropDeinterleaved, DiskDropResampled, DiskGoes, TInv, DiskOK
    <3>2. /\ UNCHANGED <<file_pos, frames_to_seek, total_frames_read_from_file, next_frame,
                         transport, running, process, no_more_input_data>>
          /\ resampled' = <<>> /\ deinterleaved' = <<>>
      BY <1>1, <2>1 DEF DiskSeekDue, DiskDropDeinterleaved, DiskDropResampled,
         seek_vars, buffer_vars, flag_vars, heard_vars
    <3> QED
      BY <1>1, <3>1, <3>2 DEF SeekingFirst
  <2>2. CASE DiskSeek
    <3>1. file_pos' = FrameOffset
      BY <1>1, <2>2, Sizes DEF SeekingFirst, DiskSeek, DiskGoes, Least
    <3>2. running'.last_seek_pos = FrameOffset /\ ~running'.shutdown_in_progress
      BY <1>1, <2>2, <3>1 DEF DiskSeek, TInv, StructsOK
    <3>3. disk'.at = "clear_request"
      BY <2>2 DEF DiskSeek, DiskGoes, TInv, DiskOK
    <3> QED
      BY <1>1, <2>2, <3>1, <3>2, <3>3 DEF SeekingFirst, DiskSeek, buffer_vars, flag_vars
  <2>3. CASE DiskClearRequest
    <3>1. /\ disk'.at = "clear_target" /\ file_pos = FrameOffset
          /\ running' = [running EXCEPT !.seek_frames_in_progress = FALSE]
      BY <2>3 DEF SeekingFirst, DiskClearRequest, DiskGoes, TInv, DiskOK
    <3>2. /\ ~running'.seek_frames_in_progress /\ ~running'.shutdown_in_progress
          /\ running'.last_seek_pos = FrameOffset
      BY <1>1, <3>1 DEF TInv, StructsOK
    <3> QED
      BY <1>1, <2>3, <3>1, <3>2
         DEF SeekingFirst, DiskClearRequest, seek_vars, buffer_vars, flag_vars, heard_vars
  <2>4. CASE DiskClearTarget
    <3>1. total_frames_read_from_file' = 0
      <4>1. PICK w \in Nat \ {0} : w = Word
        BY Sizes
      <4>2. 0 % w = 0
        BY OwnRest
      <4>3. running.last_seek_pos - FrameOffset = 0
        BY <1>1, Sizes
      <4> QED
        BY <2>4, <4>1, <4>2, <4>3 DEF DiskClearTarget
    <3>2. /\ disk'.at = "restart" /\ file_pos = FrameOffset
          /\ ~running.seek_frames_in_progress
      BY <2>4 DEF SeekingFirst, DiskClearTarget, DiskGoes, TInv, DiskOK
    <3> QED
      BY <1>1, <2>4, <3>1, <3>2
         DEF SeekingFirst, DiskClearTarget, buffer_vars, flag_vars, heard_vars
  <2>5. CASE DiskRestart
    <3>1. /\ disk'.at = "space" /\ file_pos = FrameOffset /\ ~running.seek_frames_in_progress
          /\ no_more_input_data' = FALSE
      BY <1>1, <2>5, Sizes DEF SeekingFirst, DiskRestart, DiskGoes, TInv, DiskOK
    <3>2. ~transport'.is_idling_at_end
      BY <2>5 DEF DiskRestart, TInv, StructsOK, Transports
    <3>3. UNCHANGED <<resampled, deinterleaved, file_pos, total_frames_read_from_file, next_frame,
                      running, process>>
      BY <2>5 DEF DiskRestart, seek_vars, buffer_vars, heard_vars
    <3>4. BufferedInOrder'
      <4>1. Doubled' = 0 /\ Ahead' = 0 /\ Len(deinterleaved') = 0 /\ Len(resampled') = 0
        BY <1>1, <3>3 DEF Doubled, Ahead
      <4>2. next_frame' = FrameOffset /\ file_pos' = FrameOffset /\ FrameOffset + 0 = FrameOffset
        BY <1>1, <3>1, <3>3, Sizes
      <4>3. FrameOffset \in FrameOffset .. End /\ FrameOffset <= FrameOffset
        BY Sizes
      <4> QED
        BY <4>1, <4>2, <4>3 DEF BufferedInOrder
    <3>5. ReadSoFar'
      BY <1>1, <3>1, <3>2, <3>3, Sizes DEF ReadSoFar, Ending
    <3>6. FoundSoFar' /\ FoundNothing' /\ Left'
      BY <1>1, <3>3 DEF FoundSoFar, FoundNothing, Left
    <3> QED
      BY <3>4, <3>5, <3>6 DEF Ordered
  <2> QED
    BY <1>2, <2>1, <2>2, <2>3, <2>4, <2>5
       DEF SeekingFirst, Disk, DiskNoSeek, DiskGoes, DiskSeekEnded, DiskSeekIdles,
            DiskSeekPauses, DiskSeekLoopDue, DiskSeekLoops, DiskSpace, DiskRead,
            DiskAccount, DiskLoops, DiskAtEnd, DiskPauses, DiskEndsSeek, DiskEndsTarget,
            DiskIdles, DiskLoopDue
<1>3. CASE MainPrimes \/ jack_process
  <2>1. process'.at \in {"starting", "idle", "deinterleave", "check", "output"}
    <3>1. CASE DeinterleaveBegins
      <4>1. Least(Len(resampled), Period) = 0
        BY <1>1, Sizes DEF Least
      <4> QED
        BY <3>1, <4>1 DEF DeinterleaveBegins, ProcessGoes, ProcessDoes
    <3>2. CASE ProcessPutsOut
      <4>1. FramesAvailable = 0
        BY <1>1, OneChannel DEF FramesAvailable
      <4> QED
        BY <3>2, <4>1, Sizes DEF ProcessPutsOut, ProcessGoes, ProcessDoes
    <3> QED
      BY <1>1, <1>3, <3>1, <3>2
         DEF MainPrimes, jack_process, MainEnablesProcess, ProcessBegins, DeinterleaveWrites,
             DeinterleaveAdvances, ProcessChecksEnd, ProcessMutes, ProcessReads, ProcessRequests,
             NextChannel, ProcessGoes, ProcessDoes, TInv, ProcessOK
  <2>2. UNCHANGED <<resampled, deinterleaved, file_pos, frames_to_seek, no_more_input_data,
                    total_frames_read_from_file, next_frame, disk>>
    BY <1>1, <1>3 DEF MainPrimes, jack_process, MainEnablesProcess, ProcessBegins,
             DeinterleaveBegins, DeinterleaveWrites,
             DeinterleaveAdvances, ProcessChecksEnd, ProcessMutes, ProcessPutsOut, ProcessReads,
             ProcessRequests, NextChannel, ProcessGoes, ProcessDoes, req_buffer_from_disk_thread,
             seek_vars, buffer_vars, flag_vars, heard_vars
  <2>3. ~transport'.is_idling_at_end
    BY <1>1, <1>3 DEF MainPrimes, jack_process, MainEnablesProcess, ProcessBegins,
             DeinterleaveBegins, DeinterleaveWrites,
             DeinterleaveAdvances, ProcessChecksEnd, ProcessMutes, ProcessPutsOut, ProcessReads,
             ProcessRequests, TInv, StructsOK, Transports
  <2>4. /\ ~running'.shutdown_in_progress /\ running'.last_seek_pos = FrameOffset
        /\ running'.seek_frames_in_progress = running.seek_frames_in_progress
    <3>1. running' = running \/ running' = [running EXCEPT !.shutdown_in_progress = FALSE]
      BY <1>1, <1>3 DEF MainPrimes, jack_process, MainEnablesProcess, ProcessBegins,
             DeinterleaveBegins, DeinterleaveWrites,
             DeinterleaveAdvances, ProcessChecksEnd, ProcessMutes, ProcessPutsOut, ProcessReads,
             ProcessRequests
    <3> QED
      BY <1>1, <3>1 DEF TInv, StructsOK
  <2> QED
    BY <1>1, <2>1, <2>2, <2>3, <2>4 DEF SeekingFirst
<1> QED
  BY <1>2, <1>3

(* At the start nothing is buffered, and the first frame is due or sought. *)
LEMMA OrderInit == Undisturbed /\ Init => OrderInv
<1> SUFFICES ASSUME Undisturbed, Init
             PROVE  OrderInv
  OBVIOUS
<1>1. TInv /\ keys_hit = 0
  BY TInvInit DEF Init
<1>2. CASE FrameOffset > 0
  <2>1. (FrameOffset > 0) = TRUE
    BY <1>2
  <2>2. running = [seek_frames_in_progress |-> TRUE, last_seek_pos |-> FrameOffset,
                   shutdown_in_progress |-> FALSE]
    BY <2>1, Zenon DEF Init
  <2>3. SeekingFirst
    <3>1. transport.is_idling_at_end = FALSE
      BY DEF Init
    <3>2. /\ running.seek_frames_in_progress /\ running.last_seek_pos = FrameOffset
          /\ ~running.shutdown_in_progress
      BY <2>2
    <3>3. disk.at = "top" /\ process.at = "starting"
      BY DEF Init
    <3> QED
      BY <3>1, <3>2, <3>3 DEF Init, SeekingFirst
  <2> QED
    BY <1>1, <2>3 DEF OrderInv
<1>3. CASE ~(FrameOffset > 0)
  <2>1. FrameOffset = 0
    BY <1>3, Sizes
  <2>2. BufferedInOrder
    <3>1. Doubled = 0 /\ Ahead = 0 /\ Len(deinterleaved) = 0 /\ Len(resampled) = 0
      BY DEF Init, Doubled, Ahead
    <3>2. next_frame = 0 /\ file_pos = 0 /\ 0 \in FrameOffset .. End
      BY <2>1, Sizes DEF Init
    <3> QED
      BY <2>1, <3>1, <3>2 DEF BufferedInOrder
  <2>3. ReadSoFar
    <3>1. (FrameOffset > 0) = FALSE
      BY <1>3
    <3>2. running = [seek_frames_in_progress |-> FALSE, last_seek_pos |-> FrameOffset,
                     shutdown_in_progress |-> FALSE]
      BY <3>1, Zenon DEF Init
    <3>3. ~running.seek_frames_in_progress
      BY <3>2
    <3>4. disk.at = "top" /\ total_frames_read_from_file = 0 /\ file_pos = 0
          /\ no_more_input_data = FALSE /\ transport.is_idling_at_end = FALSE
      BY DEF Init
    <3> QED
      BY <2>1, <3>3, <3>4 DEF ReadSoFar, Ending
  <2>4. FoundSoFar /\ FoundNothing /\ Left
    BY DEF Init, FoundSoFar, FoundNothing, Left
  <2> QED
    BY <1>1, <2>2, <2>3, <2>4 DEF OrderInv, Ordered
<1> QED
  BY <1>1, <1>2, <1>3 DEF OrderInv

(* No key is hit. *)
LEMMA NoKeys == ASSUME Undisturbed, keys_hit = 0 PROVE ~Key
BY DEF Undisturbed, Key, Hit, ctrl_toggle_play, ctrl_seek_backward, ctrl_seek_forward,
       ctrl_seek_start, ctrl_seek_end, ctrl_toggle_loop, ctrl_toggle_pause_at_end,
       ctrl_load_next_file

(* No step disturbs the order. *)
LEMMA OrderNext == Undisturbed /\ OrderInv /\ [Next]_vars => OrderInv'
<1> SUFFICES ASSUME Undisturbed, OrderInv, [Next]_vars
             PROVE  OrderInv'
  OBVIOUS
<1>1. TInv /\ TInv' /\ keys_hit = 0 /\ (SeekingFirst \/ Ordered)
  BY TInvNext DEF OrderInv
<1>2. UNCHANGED vars \/ Disk \/ MainPrimes \/ jack_process
  BY <1>1, NoKeys DEF Next, Leave
<1>3. keys_hit' = 0
  BY <1>1, <1>2 DEF vars, key_vars, MainPrimes, Disk, DiskSeekDue, DiskNoSeek,
       DiskDropDeinterleaved, DiskDropResampled, DiskSeek, DiskClearRequest,
       DiskClearTarget, DiskRestart, DiskSeekEnded, DiskSeekIdles, DiskSeekPauses,
       DiskSeekLoopDue, DiskSeekLoops, DiskSpace, DiskRead, DiskAccount, DiskLoops,
       DiskAtEnd, DiskPauses, DiskEndsSeek, DiskEndsTarget, DiskIdles, DiskLoopDue,
       jack_process, MainEnablesProcess, ProcessBegins, DeinterleaveBegins,
       DeinterleaveWrites, DeinterleaveAdvances, ProcessChecksEnd, ProcessMutes,
       ProcessPutsOut, ProcessReads, ProcessRequests
<1>4. CASE UNCHANGED vars
  <2>1. UNCHANGED <<file_pos, frames_to_seek, total_frames_read_from_file, resampled,
                    deinterleaved, no_more_input_data, next_frame, transport, running, disk,
                    process>>
    BY <1>4 DEF vars, seek_vars, buffer_vars, flag_vars, heard_vars
  <2>2. SeekingFirst => SeekingFirst'
    BY <2>1 DEF SeekingFirst
  <2>3. Ordered => Ordered'
    <3>1. BufferedInOrder => BufferedInOrder'
      BY <2>1, BuffersKept DEF Doubled
    <3> QED
      BY <2>1, <3>1 DEF Ordered, ReadSoFar, FoundSoFar, FoundNothing, OneRead, Left
  <2> QED
    BY <1>1, <1>3, <2>2, <2>3 DEF OrderInv
<1>5. CASE SeekingFirst /\ (Disk \/ MainPrimes \/ jack_process)
  BY <1>1, <1>3, <1>5, SeekingFirstKept DEF OrderInv
<1>6. CASE Ordered /\ (Disk \/ MainPrimes \/ jack_process)
  <2>1. Ordered'
    BY <1>1, <1>6, DiskOrdered, MainOrdered, BeginsOrdered, DeinterleaveBeginsOrdered,
       DeinterleaveWritesOrdered, DeinterleaveAdvancesOrdered, EndOrdered, MutesOrdered,
       PutsOutOrdered, ReadsOrdered DEF jack_process
  <2> QED
    BY <1>1, <1>3, <2>1 DEF OrderInv
<1> QED
  BY <1>1, <1>2, <1>4, <1>5, <1>6

(* With neither keys nor a second channel, of every file, size of buffers  *)
(* and order of the two threads' steps: when the player leaves, all but    *)
(* one read of the file has been heard (jackaudio.h:290-308, 376-389).     *)
THEOREM LosesOneRead == ASSUME Undisturbed PROVE Spec => []LosesAtMostOneRead
<1>1. Init => OrderInv
  BY OrderInit
<1>2. OrderInv /\ [Next]_vars => OrderInv'
  BY OrderNext
<1>3. OrderInv => LosesAtMostOneRead
  BY DEF OrderInv, SeekingFirst, Ordered, Left, LosesAtMostOneRead
<1> QED
  BY <1>1, <1>2, <1>3, PTL DEF Spec

(* The same way: every cycle puts out the frames that are due, in order    *)
(* (jackaudio.h:207-244, 322-366).                                         *)
THEOREM HeardInOrder == ASSUME Undisturbed PROVE Spec => PlaysInOrder
<1>1. Init => OrderInv
  BY OrderInit
<1>2. OrderInv /\ [Next]_vars => OrderInv'
  BY OrderNext
<1>3. OrderInv /\ [Next]_vars =>
        [ProcessReads => \A i \in DOMAIN output'[process.channel] :
                           output'[process.channel][i][2] = Due(i)]_vars
  <2> SUFFICES ASSUME OrderInv, ProcessReads
               PROVE  \A i \in DOMAIN output'[process.channel] :
                        output'[process.channel][i][2] = Due(i)
    OBVIOUS
  <2>1. TInv /\ Ordered /\ process.at = "read"
    BY DEF OrderInv, SeekingFirst, ProcessReads, NextChannel
  <2>2. PICK n \in Nat : n = process.n /\ n <= Len(deinterleaved)
    BY <2>1, Known DEF Ordered, FoundSoFar
  <2>3. output'[process.channel] = FirstOf(deinterleaved, n)
    <3>1. process.channel \in Channel /\ output \in [Channel -> Seq(Played)]
      BY <2>1 DEF TInv, HeardOK, ProcessOK
    <3> QED
      BY <2>2, <3>1 DEF ProcessReads
  <2>4. deinterleaved \in Seq(Played) /\ Len(deinterleaved) \in Nat
    BY <2>1 DEF TInv, DeinterleavedOK
  <2>5. /\ FirstOf(deinterleaved, n) \in Seq(Played)
        /\ Len(FirstOf(deinterleaved, n)) = n
        /\ \A i \in 1 .. n : FirstOf(deinterleaved, n)[i] = deinterleaved[i]
    <3>1. Least(n, Len(deinterleaved)) = n
      BY <2>2, <2>4 DEF Least
    <3> QED
      BY <2>4, <3>1, FrontTaken
  <2>6. ASSUME NEW i \in 1 .. n
        PROVE  FirstOf(deinterleaved, n)[i][2] = Due(i)
    <3>1. i \in 1 .. Len(deinterleaved) /\ i \in Nat \ {0}
      BY <2>2, <2>4
    <3>2. deinterleaved[i] = <<0, Nth(next_frame, i)>> /\ next_frame \in FrameOffset .. End
      BY <2>1, <3>1 DEF Ordered, BufferedInOrder
    <3>3. Nth(next_frame, i) = Due(i)
      BY <3>1, <3>2, NthIsDue
    <3> QED
      BY <2>5, <3>2, <3>3
  <2> QED
    BY <2>3, <2>5, <2>6
<1> QED
  BY <1>1, <1>2, <1>3, PTL DEF Spec, PlaysInOrder

==============================================================================
