----------------------------- MODULE PlaySession -----------------------------
(***************************************************************************)
(* jack_playfile's main thread around the playing of a file (PlayFile):    *)
(* the playlist, the next file, and JACK's going and coming back           *)
(* (jack_playfile.c main, playlist.h, jackaudio.h), and which decoder has  *)
(* the file open (sndin.h).  The jumps of main are the values of           *)
(* session_at.                                                             *)
(***************************************************************************)
EXTENDS Integers, Sequences, SequencesExt

CONSTANTS
  Arguments,    \* the files named, those in directories among them
  FormatOf,     \* the decoder that takes each of them; "none"
  Playable,     \* those with frames to play in the selection (open_init_file)
  FitsRate,     \* those whose rate the resampler can do (rs_new)
  MaxEvents,    \* bound: keys hit, files that vanish, times that JACK goes
  AtAnyTime     \* TRUE: JACK may also go while main prepares a file, and be back
                \* for a session that does not reconnect

Decoders == {"sndfile", "ogg", "opus", "mpg123"}

ASSUME SessionAssumption ==
  /\ Arguments \in Seq(STRING \ {"none"})
  /\ FormatOf \in [Range(Arguments) -> Decoders \cup {"none"}]
  /\ MaxEvents \in Nat /\ AtAnyTime \in BOOLEAN

VARIABLES
  files_to_play, current_playlist_index, no_more_files_to_play,
  backward,               \* playlist_advance_direction
  prepare_for_next_file,
  played,                 \* running->shutdown_in_progress, and _signalled
  jack,                   \* client, server_down, process_enabled, try_reconnect
  jack_is_up,
  session_at,             \* where main is
  file_open,              \* the file that open_init_file opened, or "none"
  reader,                 \* the decoder by its flags, and the handle of each
  opens,                  \* the files that sin_open can open still
  tried, erased,          \* history: files that were tested, and found bogus
  quit,                   \* history: the user asked for the end
  events                  \* keys, vanished files and JACK's goings so far

playlist_vars == <<files_to_play, current_playlist_index, no_more_files_to_play, tried, erased,
                   file_open, reader>>
env_vars      == <<jack_is_up, opens, quit, events>>
session_vars  == <<playlist_vars, backward, prepare_for_next_file, played, jack,
                   session_at, env_vars>>

(* pl_create tests each argument and keeps those that open: the playlist   *)
(* after the first i arguments.                                            *)
Kept[i \in 0 .. Len(Arguments)] ==
  IF i = 0 THEN <<>>
  ELSE IF FormatOf[Arguments[i]] # "none" THEN Append(Kept[i - 1], Arguments[i]) ELSE Kept[i - 1]

Playlist == Kept[Len(Arguments)]

SessionInit ==
  /\ files_to_play = Playlist /\ current_playlist_index = 0
  /\ no_more_files_to_play = FALSE /\ backward = FALSE
  /\ prepare_for_next_file = FALSE
  /\ played = [shutdown_in_progress |-> FALSE, signalled |-> FALSE]
  /\ jack \in [client : {"NULL"}, server_down : {TRUE}, process_enabled : {FALSE},
               try_reconnect : BOOLEAN]
  /\ jack_is_up \in BOOLEAN
  /\ session_at = "first file"
  /\ file_open = "none" /\ opens = Range(Playlist)
  /\ reader = [decoder |-> "sndfile", handle |-> [d \in Decoders |-> "NULL"]]
  /\ tried = {} /\ erased = {} /\ quit = FALSE /\ events = 0

ShutdownInProgress(on) == played' = [played EXCEPT !.shutdown_in_progress = on]

------------------------------------------------------------------------------
(* The reader. *)

(* The decoders that were tried in vain before d: their open gave NULL.    *)
InVain(d) == CASE d = "opus" -> {"sndfile"}
               [] d \in {"mpg123", "none"} -> {"sndfile", "opus"}
               [] OTHER -> {}

(* libsndfile opens an ogg file too, is closed, and its handle is kept.    *)
HandlesAfter(h, d) ==
  [x \in Decoders |-> CASE x = d -> "open"
                        [] x \in InVain(d) -> "NULL"
                        [] x = "sndfile" /\ d = "ogg" -> "closed"
                        [] OTHER -> h[x]]

(* A slip of FlagsFor: they are not reset before.                          *)
FlagsOnly(r, d) == IF d \in {"none", "sndfile"} THEN r.decoder ELSE d

FlagsFor(r, d) == IF d = "none" THEN "sndfile" ELSE d

(* sin_open of a file that d takes.  One that is not there returns before  *)
(* a decoder was tried. *)
sin_open(r, d, there) ==
  [decoder |-> FlagsFor(r, d),
   handle  |-> IF there THEN HandlesAfter(r.handle, d) ELSE r.handle]

(* The handle that the flags name, whatever it is. *)
sin_close(r) == [r EXCEPT !.handle[r.decoder] = "NULL"]

------------------------------------------------------------------------------
(* The playlist. *)

pl_set_next_index(i, back) == IF back THEN i - 1 ELSE i + 1

(* A slip of PastTheEnd: the last file is taken for the end.               *)
AtTheLast(i) == i >= Len(files_to_play) - 1

PastTheEnd(i) == i >= Len(files_to_play)

(* pl_open_check_file of index i, then open_init_file: a file that does    *)
(* not open any more is erased.                                            *)
Here(i) == files_to_play[i + 1]

OpenFile(i, r) ==
  IF PastTheEnd(i)
  THEN /\ no_more_files_to_play' = TRUE
       /\ file_open' = "none" /\ reader' = r
       /\ UNCHANGED <<files_to_play, tried, erased>>
  ELSE /\ tried' = tried \cup {Here(i)}
       /\ IF Here(i) \in opens
          THEN /\ file_open' = Here(i)
               /\ LET d == FormatOf[Here(i)]
                  IN  reader' = sin_open(sin_close(sin_open(r, d, TRUE)), d, TRUE)
               /\ UNCHANGED <<files_to_play, erased>>
          ELSE /\ file_open' = "none"
               /\ \E there \in BOOLEAN : reader' = sin_open(r, "none", there)
               /\ files_to_play' = RemoveAt(files_to_play, i + 1)
               /\ erased' = erased \cup {Here(i)}
       /\ UNCHANGED no_more_files_to_play

Opened(i) == ~PastTheEnd(i) /\ Here(i) \in opens \cap Playable

(* The loop before JACK is looked for: the index goes on, also when the    *)
(* file was erased. *)
FirstFile ==
  /\ session_at = "first file"
  /\ OpenFile(current_playlist_index, reader)
  /\ IF Opened(current_playlist_index)
     THEN session_at' = "outer loop" /\ UNCHANGED current_playlist_index
     ELSE /\ session_at' = IF no_more_files_to_play' THEN "failed" ELSE "first file"
          /\ current_playlist_index' = pl_set_next_index(current_playlist_index, FALSE)
  /\ UNCHANGED <<backward, prepare_for_next_file, played, jack, env_vars>>

------------------------------------------------------------------------------
(* The outer loop: JACK.  A session that is over jumps to the main loop.   *)
jack_wait_connect ==
  /\ session_at = "outer loop"
  /\ IF played.shutdown_in_progress
     THEN session_at' = "main loop" /\ UNCHANGED jack
     ELSE \/ /\ jack.client = "NULL" /\ jack_is_up
             /\ jack' = [jack EXCEPT !.client = "opened"]
             /\ session_at' = "connected"
          \/ /\ jack.client # "NULL"
             /\ session_at' = "connected" /\ UNCHANGED jack
          \/ /\ jack.client = "NULL" /\ ~jack_is_up /\ ~jack.try_reconnect
             /\ session_at' = "failed" /\ UNCHANGED jack
  /\ UNCHANGED <<playlist_vars, backward, prepare_for_next_file, played, env_vars>>

(* jack_post_init, and rs_new, which may not know the ratio.  What is read *)
(* of a file that is not open is left from one before.                     *)
jack_post_init ==
  /\ session_at = "connected"
  /\ jack' = [jack EXCEPT !.server_down = FALSE]
  /\ \/ file_open \in FitsRate \cup {"none"}
        /\ session_at' = "primed" /\ UNCHANGED played
     \/ file_open \notin FitsRate
        /\ session_at' = "main loop" /\ ShutdownInProgress(TRUE)
  /\ UNCHANGED <<playlist_vars, backward, prepare_for_next_file, env_vars>>

(* The rest of the outer loop: callbacks, ports and activation are for a   *)
(* client that is new.                                                     *)
Starts ==
  /\ session_at = "primed"
  /\ IF ~prepare_for_next_file /\ jack.client = "gone"
     THEN session_at' = "failed" /\ UNCHANGED <<jack, prepare_for_next_file>>
     ELSE /\ session_at' = "main loop"
          /\ jack' = [jack EXCEPT !.process_enabled = TRUE,
                        !.client = IF prepare_for_next_file THEN @ ELSE "active"]
          /\ prepare_for_next_file' = FALSE
  /\ UNCHANGED <<playlist_vars, backward, played, env_vars>>

------------------------------------------------------------------------------
(* The main loop. *)
Over == \/ played.shutdown_in_progress /\ ~played.signalled
        \/ jack.server_down /\ ~jack.try_reconnect

MainLoop ==
  /\ session_at = "main loop"
  /\ \/ /\ jack.server_down /\ jack.try_reconnect
        /\ session_at' = "start all over"
        /\ UNCHANGED <<played, prepare_for_next_file, jack>>
     \/ /\ ~(jack.server_down /\ jack.try_reconnect)
        /\ Over
        /\ played' = [shutdown_in_progress |-> TRUE, signalled |-> TRUE]
        /\ IF no_more_files_to_play
           THEN session_at' = "done" /\ UNCHANGED <<prepare_for_next_file, jack>>
           ELSE /\ session_at' = "start all over"
                /\ prepare_for_next_file' = TRUE
                /\ jack' = [jack EXCEPT !.process_enabled = FALSE]
  /\ UNCHANGED <<playlist_vars, backward, env_vars>>

(* A slip of Cleared: the signalled shutdown is not cleared.               *)
ClearedByHalf == [played EXCEPT !.shutdown_in_progress = FALSE]

Cleared == [shutdown_in_progress |-> FALSE, signalled |-> FALSE]

(* _start_all_over: for JACK, or for the next file. *)
StartAllOver ==
  /\ session_at = "start all over"
  /\ session_at' = IF jack.server_down THEN "outer loop" ELSE "next file"
  /\ jack' = [jack EXCEPT !.process_enabled = FALSE,
                          !.client = IF jack.server_down THEN "NULL" ELSE @]
  /\ played' = Cleared
  /\ UNCHANGED <<playlist_vars, backward, prepare_for_next_file, env_vars>>

NextFile ==
  LET next == pl_set_next_index(current_playlist_index, backward)
      i    == IF next < 0 THEN 0 ELSE next
  IN  /\ session_at = "next file"
      /\ current_playlist_index' = i
      /\ OpenFile(i, sin_close(reader))
      /\ backward' = FALSE
      /\ ShutdownInProgress(~Opened(i))
      /\ session_at' = "outer loop"
      /\ UNCHANGED <<prepare_for_next_file, jack, env_vars>>

------------------------------------------------------------------------------
(* The callback has put out the last frame, or was asked to (PlayFile).    *)
FileEnds ==
  /\ jack.client = "active" /\ jack.process_enabled /\ ~played.shutdown_in_progress
  /\ ShutdownInProgress(TRUE)
  /\ UNCHANGED <<playlist_vars, backward, prepare_for_next_file, jack, session_at, env_vars>>

Event == events < MaxEvents /\ events' = events + 1

(* ctrl_quit, ctrl_load_prev_file: what they set beside the seek to the end. *)
KeyHit ==
  /\ Event /\ session_at = "main loop" /\ ~Over /\ ~jack.server_down
  /\ \/ no_more_files_to_play' = TRUE /\ quit' = TRUE /\ UNCHANGED backward
     \/ backward' = TRUE /\ UNCHANGED <<no_more_files_to_play, quit>>
  /\ UNCHANGED <<files_to_play, current_playlist_index, tried, erased, file_open, reader,
                 prepare_for_next_file, played, jack, session_at, jack_is_up, opens>>

(* "must have changed or was deleted" *)
FileVanishes ==
  /\ Event
  /\ \E f \in opens : opens' = opens \ {f}
  /\ UNCHANGED <<playlist_vars, backward, prepare_for_next_file, played, jack,
                 session_at, jack_is_up, quit>>

(* JACK goes: it tells a client with callbacks (jack_shutdown_handler). *)
JackGoes ==
  /\ Event /\ jack_is_up
  /\ AtAnyTime \/ jack.client # "active" \/ (session_at = "main loop" /\ jack.process_enabled)
  /\ jack_is_up' = FALSE
  /\ jack' = [jack EXCEPT !.client = IF @ = "NULL" THEN @ ELSE "gone",
                          !.server_down = @ \/ jack.client = "active"]
  /\ UNCHANGED <<playlist_vars, backward, prepare_for_next_file, played, session_at, opens,
                 quit>>

JackComes ==
  /\ ~jack_is_up
  /\ AtAnyTime \/ jack.try_reconnect \/ session_at = "first file"
  /\ jack_is_up' = TRUE
  /\ UNCHANGED <<playlist_vars, backward, prepare_for_next_file, played, jack,
                 session_at, opens, quit, events>>

MainOfPlayfile == \/ FirstFile \/ jack_wait_connect \/ jack_post_init \/ Starts
                  \/ MainLoop \/ StartAllOver \/ NextFile

SessionNext == MainOfPlayfile \/ FileEnds \/ KeyHit \/ FileVanishes \/ JackGoes \/ JackComes

(* The main thread runs; a file ends some time when it is played.          *)
SessionSpec ==
  /\ SessionInit /\ [][SessionNext]_session_vars
  /\ WF_session_vars(MainOfPlayfile) /\ WF_session_vars(FileEnds)

------------------------------------------------------------------------------
SessionTypes ==
  /\ Range(files_to_play) \subseteq Range(Playlist) /\ current_playlist_index \in 0 .. Len(Playlist) + 1
  /\ reader \in [decoder : Decoders, handle : [Decoders -> {"NULL", "open", "closed"}]]
  /\ jack.client \in {"NULL", "opened", "active", "gone"}
  /\ session_at \in {"first file", "outer loop", "connected", "primed", "main loop",
                     "start all over", "next file", "failed", "done"}

(* While the callback is enabled, the file is open in the decoder that the *)
(* flags name, and that is the one which takes it: whatever files failed   *)
(* to open before, and however often JACK went (sin_open, sin_close).      *)
PlaysWhatIsOpen ==
  jack.process_enabled =>
    /\ file_open # "none" /\ reader.decoder = FormatOf[file_open]
    /\ reader.handle[reader.decoder] = "open"

(* When the playlist is at its end, each file of it was tried, but for     *)
(* those right after one that was erased: the index goes on as well        *)
(* (pl_open_check_file, pl_set_next_index).                                *)
SkippedAfterErased ==
  no_more_files_to_play /\ ~quit =>
    \A k \in DOMAIN Playlist :
      Playlist[k] \in tried \/ (k > 1 /\ Playlist[k - 1] \in erased)

(* JACK being there in the end, main plays the files to the last and ends, *)
(* however often JACK went and keys were hit before (main, "outer loop,    *)
(* start over if JACK went down and came back").                           *)
PlaysOrLeaves == <>[]jack_is_up => <>(session_at \in {"done", "failed"})

==============================================================================
