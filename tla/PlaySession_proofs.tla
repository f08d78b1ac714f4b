------------------------- MODULE PlaySession_proofs -------------------------
(***************************************************************************)
(* What a session of jack_playfile promises for any playlist: what is      *)
(* played is open, and no file is left untried but one behind a file that  *)
(* was erased.                                                             *)
(*                                                                         *)
(* The first is a matter of the way that main takes to the next file: all  *)
(* of it is silent.  The second compares the list, which shrinks, with the *)
(* one that was there first: some increasing map has where each file that  *)
(* is left was then, and all up to the current one were looked at.         *)
(***************************************************************************)
EXTENDS PlaySession, WellFoundedInduction, TLAPS

(* A set of numbers has a least one: induction, as these proofs use it.    *)
LEMMA LeastElement ==
  ASSUME NEW S, S \subseteq Nat, S # {}
  PROVE  \E n \in S : \A k \in S : n <= k
<1> DEFINE R == OpToRel(<, Nat)
<1>1. IsWellFoundedOn(R, Nat)
  BY NatLessThanWellFounded, Zenon
<1>2. \A x, y \in Nat : y < x => <<y, x>> \in R
  BY DEF OpToRel
<1> HIDE DEF R
<1>3. PICK n \in S : \A y \in S : ~ (<<y, n>> \in R)
  BY <1>1, WFMin, Zenon
<1>4. \A k \in S : n <= k
  <2> TAKE k \in S
  <2>1. n \in Nat /\ k \in Nat
    OBVIOUS
  <2>2. ~(k < n)
    BY <1>2, <1>3, <2>1, Zenon
  <2> QED
    BY <2>1, <2>2
<1> QED
  BY <1>4

------------------------------------------------------------------------------
(* The playlist.  Its definition is recursive: that there is a function as *)
(* it says is the first thing to prove.                                    *)
Longer(before, i) ==
  IF i = 0 THEN <<>>
  ELSE IF FormatOf[Arguments[i]] # "none" THEN Append(before[i - 1], Arguments[i])
       ELSE before[i - 1]

IsKept(f, n) == f = [i \in 0 .. n |-> Longer(f, i)]

(* For each number of arguments there is a list for each of its parts. *)
LEMMA KeptExists == \A n \in Nat : \E f : IsKept(f, n)
<1> DEFINE Bad == {n \in Nat : \A f : ~IsKept(f, n)}
<1> SUFFICES ASSUME NEW b \in Bad
             PROVE  FALSE
  OBVIOUS
<1>1. PICK n \in Bad : \A k \in Bad : n <= k
  <2>1. Bad \subseteq Nat /\ Bad # {}
    OBVIOUS
  <2> HIDE DEF Bad
  <2> QED
    BY <2>1, LeastElement
<1>2. CASE n = 0
  <2> DEFINE f == [i \in 0 .. 0 |-> <<>>]
  <2>1. IsKept(f, 0)
    BY DEF IsKept, Longer
  <2> QED
    BY <1>2, <2>1
<1>3. CASE n # 0
  <2>1. n \in Nat /\ n - 1 \in Nat
    BY <1>3
  <2>2. n - 1 \notin Bad
    BY <1>1, <2>1
  <2>3. PICK f : IsKept(f, n - 1)
    BY <2>1, <2>2
  <2> DEFINE g == [i \in 0 .. n |-> IF i < n THEN f[i] ELSE Longer(f, n)]
  <2>4. \A i \in 0 .. n : Longer(g, i) = Longer(f, i)
    BY <2>1 DEF Longer
  <2>5. \A i \in 0 .. n - 1 : f[i] = Longer(f, i)
    BY <2>3 DEF IsKept
  <2>6. \A i \in 0 .. n : g[i] = Longer(g, i)
    <3> TAKE i \in 0 .. n
    <3>1. CASE i < n
      BY <2>1, <2>4, <2>5, <3>1
    <3>2. CASE i = n
      BY <2>1, <2>4, <3>2
    <3> QED
      BY <2>1, <3>1, <3>2
  <2>7. IsKept(g, n)
    BY <2>6 DEF IsKept
  <2> QED
    BY <2>7
<1> QED
  BY <1>2, <1>3

(* Kept is as its definition says. *)
LEMMA KeptIsKept == IsKept(Kept, Len(Arguments))
<1>1. Len(Arguments) \in Nat
  BY SessionAssumption DEF SessionAssumption
<1>2. \E f : IsKept(f, Len(Arguments))
  BY <1>1, KeptExists
<1>3. Kept = CHOOSE f : IsKept(f, Len(Arguments))
  BY DEF Kept, IsKept, Longer
<1> QED
  BY <1>2, <1>3

(* The files named that a decoder takes. *)
Openable == {f \in Range(Arguments) : FormatOf[f] # "none"}

(* The playlist is a sequence of such files. *)
LEMMA PlaylistType == Playlist \in Seq(Openable)
<1> DEFINE N == Len(Arguments)
<1>1. N \in Nat
  BY SessionAssumption DEF SessionAssumption
<1>2. \A i \in 0 .. N : Kept[i] = Longer(Kept, i)
  BY KeptIsKept DEF IsKept
<1>3. \A i \in 1 .. N : FormatOf[Arguments[i]] # "none" => Arguments[i] \in Openable
  BY SessionAssumption DEF SessionAssumption, Openable, Range
<1> DEFINE Bad == {n \in 0 .. N : Kept[n] \notin Seq(Openable)}
<1>4. ASSUME NEW b \in Bad
      PROVE  FALSE
  <2>1. PICK n \in Bad : \A k \in Bad : n <= k
    <3>1. Bad \subseteq Nat
      BY <1>1
    <3>2. Bad # {}
      BY <1>4
    <3> HIDE DEF Bad
    <3> QED
      BY <3>1, <3>2, LeastElement
  <2>2. n \in 0 .. N /\ Kept[n] \notin Seq(Openable)
    OBVIOUS
  <2>3. n # 0
    <3>1. Kept[0] = <<>>
      BY <1>1, <1>2 DEF Longer
    <3>2. <<>> \in Seq(Openable)
      OBVIOUS
    <3> QED
      BY <2>2, <3>1, <3>2
  <2>4. n \in 1 .. N /\ n - 1 \in 0 .. N /\ n - 1 < n
    BY <1>1, <2>2, <2>3
  <2>5. n - 1 \notin Bad
    BY <1>1, <2>1, <2>4
  <2>6. Kept[n - 1] \in Seq(Openable)
    BY <2>4, <2>5
  <2>7. Kept[n] = Longer(Kept, n)
    BY <1>2, <2>2
  <2>8. Kept[n] \in Seq(Openable)
    BY <1>3, <2>3, <2>4, <2>6, <2>7 DEF Longer
  <2> QED
    BY <2>2, <2>8
<1>5. Kept[N] \in Seq(Openable)
  BY <1>1, <1>4
<1> QED
  BY <1>5 DEF Playlist

------------------------------------------------------------------------------
(* What is played is open.                                                 *)

(* JACK does not go and come back while main prepares a file: the wait for *)
(* JACK in the next outer loop would not see it (jackaudio.h, 202).        *)
GoesWhilePlaying == ~AtAnyTime

Handles == {"NULL", "open", "closed"}

ReaderOK == reader \in [decoder : Decoders, handle : [Decoders -> Handles]]

SessionOK ==
  /\ ReaderOK
  /\ jack \in [client : {"NULL", "opened", "active", "gone"}, server_down : BOOLEAN,
               process_enabled : BOOLEAN, try_reconnect : BOOLEAN]
  /\ played \in [shutdown_in_progress : BOOLEAN, signalled : BOOLEAN]
  /\ opens \subseteq Openable

(* A file that is open is so in the decoder that takes it. *)
OpenIsRight ==
  file_open # "none" => /\ FormatOf[file_open] \in Decoders
                        /\ reader.decoder = FormatOf[file_open]
                        /\ reader.handle[reader.decoder] = "open"

(* Without one, main is on its way to the next, and JACK was not lost      *)
(* since: nothing but that way leads to the next file.                     *)
SilentWithoutFile ==
  file_open = "none" =>
    /\ ~jack.process_enabled
    /\ session_at \notin {"connected", "primed"}
    /\ session_at \in {"outer loop", "main loop"} => played.shutdown_in_progress
    /\ session_at \in {"outer loop", "main loop", "start all over"} => ~jack.server_down

SilentBetween ==
  /\ session_at \in {"first file", "next file"} => ~jack.process_enabled
  /\ session_at = "next file" => ~jack.server_down

SInv == SessionOK /\ OpenIsRight /\ SilentWithoutFile /\ SilentBetween

(* sin_open of a file that a decoder takes, whatever was open before. *)
LEMMA DecoderOpens ==
  ASSUME NEW r, r \in [decoder : Decoders, handle : [Decoders -> Handles]], NEW d \in Decoders
  PROVE  /\ sin_open(r, d, TRUE) \in [decoder : Decoders, handle : [Decoders -> Handles]]
         /\ sin_open(r, d, TRUE).decoder = d
         /\ sin_open(r, d, TRUE).handle[d] = "open"
<1>1. FlagsFor(r, d) = d
  BY DEF FlagsFor, Decoders
<1>2. HandlesAfter(r.handle, d) \in [Decoders -> Handles]
  BY DEF HandlesAfter, Handles
<1>3. HandlesAfter(r.handle, d)[d] = "open"
  <2>1. d \notin InVain(d)
    BY DEF InVain, Decoders
  <2>2. HandlesAfter(r.handle, d)[d] =
          CASE d = d -> "open" [] d \in InVain(d) -> "NULL"
            [] d = "sndfile" /\ d = "ogg" -> "closed" [] OTHER -> r.handle[d]
    BY DEF HandlesAfter
  <2> QED
    BY <2>1, <2>2
<1> HIDE DEF Decoders, Handles
<1> QED
  BY <1>1, <1>2, <1>3 DEF sin_open

(* sin_open in vain, and sin_close, leave a reader too. *)
LEMMA StaysReader ==
  ASSUME NEW r, r \in [decoder : Decoders, handle : [Decoders -> Handles]]
  PROVE  /\ sin_close(r) \in [decoder : Decoders, handle : [Decoders -> Handles]]
         /\ \A there \in BOOLEAN :
              sin_open(r, "none", there) \in [decoder : Decoders, handle : [Decoders -> Handles]]
<1>1. sin_close(r) \in [decoder : Decoders, handle : [Decoders -> Handles]]
  <2>1. "NULL" \in Handles
    BY DEF Handles
  <2> QED
    BY <2>1 DEF sin_close
<1>2. ASSUME NEW there \in BOOLEAN
      PROVE  sin_open(r, "none", there) \in [decoder : Decoders, handle : [Decoders -> Handles]]
  <2>1. FlagsFor(r, "none") \in Decoders
    BY DEF FlagsFor, Decoders
  <2>2. HandlesAfter(r.handle, "none") \in [Decoders -> Handles]
    BY DEF HandlesAfter, Handles
  <2> QED
    BY <2>1, <2>2 DEF sin_open
<1> QED
  BY <1>1, <1>2

(* pl_open_check_file: the file that is open after it is as it should be.  *)
LEMMA OpensWell ==
  ASSUME NEW i, NEW r, r \in [decoder : Decoders, handle : [Decoders -> Handles]],
         opens \subseteq Openable, OpenFile(i, r)
  PROVE  ReaderOK' /\ OpenIsRight' /\ (Opened(i) => file_open' # "none")
<1>1. CASE PastTheEnd(i)
  BY <1>1 DEF OpenFile, ReaderOK, OpenIsRight, Opened
<1>2. CASE ~PastTheEnd(i) /\ Here(i) \in opens
  <2> DEFINE f == Here(i)  d == FormatOf[Here(i)]
  <2>1. f # "none" /\ d \in Decoders
    BY <1>2, SessionAssumption DEF SessionAssumption, Openable, Range
  <2>2. file_open' = f /\ reader' = sin_open(sin_close(sin_open(r, d, TRUE)), d, TRUE)
    BY <1>2 DEF OpenFile
  <2>3. sin_close(sin_open(r, d, TRUE)) \in [decoder : Decoders, handle : [Decoders -> Handles]]
    BY <2>1, DecoderOpens, StaysReader
  <2> HIDE DEF d, f
  <2>4. /\ reader' \in [decoder : Decoders, handle : [Decoders -> Handles]]
        /\ reader'.decoder = d /\ reader'.handle[d] = "open"
    BY <2>1, <2>2, <2>3, DecoderOpens
  <2>5. FormatOf[f] = d
    BY DEF d, f
  <2> QED
    BY <2>1, <2>2, <2>4, <2>5 DEF ReaderOK, OpenIsRight
<1>3. CASE ~PastTheEnd(i) /\ Here(i) \notin opens
  <2>1. file_open' = "none" /\ \E there \in BOOLEAN : reader' = sin_open(r, "none", there)
    BY <1>3 DEF OpenFile
  <2> QED
    BY <1>3, <2>1, StaysReader DEF ReaderOK, OpenIsRight, Opened
<1> QED
  BY <1>1, <1>2, <1>3

(* Nothing is open at first.                                               *)
LEMMA SInvInit == SessionInit => SInv
<1> SUFFICES ASSUME SessionInit
             PROVE  SInv
  OBVIOUS
<1>1. Range(Playlist) \subseteq Openable
  BY PlaylistType DEF Range
<1>2. [d \in Decoders |-> "NULL"] \in [Decoders -> Handles] /\ "sndfile" \in Decoders
  BY DEF Handles, Decoders
<1>3. ReaderOK
  BY <1>2 DEF SessionInit, ReaderOK
<1> QED
  BY <1>1, <1>3 DEF SessionInit, SInv, SessionOK, OpenIsRight, SilentWithoutFile, SilentBetween

(* The invariant is inductive as long as JACK goes only while main plays.  *)
LEMMA SInvNext == GoesWhilePlaying /\ SInv /\ [SessionNext]_session_vars => SInv'
<1> SUFFICES ASSUME GoesWhilePlaying, SInv, [SessionNext]_session_vars
             PROVE  SInv'
  OBVIOUS
<1> USE DEF SInv, SessionOK, SilentWithoutFile, SilentBetween
<1>1. CASE FirstFile
  <2>1. OpenFile(current_playlist_index, reader) /\ reader \in [decoder : Decoders, handle : [Decoders -> Handles]]
    BY <1>1 DEF FirstFile, ReaderOK
  <2>2. ReaderOK' /\ OpenIsRight' /\ (Opened(current_playlist_index) => file_open' # "none")
    BY <2>1, OpensWell
  <2> QED
    BY <1>1, <2>2 DEF FirstFile, env_vars
<1>2. CASE NextFile
  <2> DEFINE next == pl_set_next_index(current_playlist_index, backward)
             i == IF next < 0 THEN 0 ELSE next
  <2>1. OpenFile(i, sin_close(reader))
    BY <1>2 DEF NextFile
  <2> HIDE DEF i
  <2>2. sin_close(reader) \in [decoder : Decoders, handle : [Decoders -> Handles]]
    BY StaysReader DEF ReaderOK
  <2>3. ReaderOK' /\ OpenIsRight' /\ (Opened(i) => file_open' # "none")
    BY <2>1, <2>2, OpensWell
  <2>4. /\ session_at = "next file" /\ session_at' = "outer loop"
        /\ played' = [played EXCEPT !.shutdown_in_progress = ~Opened(i)]
        /\ UNCHANGED <<jack, opens>>
    BY <1>2 DEF NextFile, ShutdownInProgress, env_vars, i
  <2>5. Opened(i) \in BOOLEAN
    BY DEF Opened
  <2> HIDE DEF next
  <2> QED
    BY <2>3, <2>4, <2>5
<1> USE DEF ReaderOK, OpenIsRight, playlist_vars, env_vars, ShutdownInProgress
<1> HIDE DEF Decoders
<1>3. CASE jack_wait_connect
  BY <1>3 DEF jack_wait_connect
<1>4. CASE jack_post_init
  BY <1>4 DEF jack_post_init
<1>5. CASE Starts
  BY <1>5 DEF Starts
<1>6. CASE MainLoop
  <2>1. session_at = "main loop"
    BY <1>6 DEF MainLoop
  <2>2. CASE /\ jack.server_down /\ session_at' = "start all over"
             /\ UNCHANGED <<played, prepare_for_next_file, jack>>
    BY <1>6, <2>1, <2>2 DEF MainLoop
  <2>3. CASE /\ played' = [shutdown_in_progress |-> TRUE, signalled |-> TRUE]
             /\ session_at' = "done" /\ UNCHANGED <<prepare_for_next_file, jack>>
    BY <1>6, <2>1, <2>3 DEF MainLoop
  <2>4. CASE /\ played' = [shutdown_in_progress |-> TRUE, signalled |-> TRUE]
             /\ session_at' = "start all over"
             /\ jack' = [jack EXCEPT !.process_enabled = FALSE]
    BY <1>6, <2>1, <2>4 DEF MainLoop
  <2> QED
    BY <1>6, <2>2, <2>3, <2>4 DEF MainLoop
<1>7. CASE StartAllOver
  BY <1>7 DEF StartAllOver, Cleared
<1>8. CASE FileEnds
  BY <1>8 DEF FileEnds
<1>9. CASE KeyHit
  BY <1>9 DEF KeyHit, Event
<1>10. CASE FileVanishes
  BY <1>10 DEF FileVanishes, Event
<1>11. CASE JackGoes
  BY <1>11 DEF JackGoes, Event, GoesWhilePlaying
<1>12. CASE JackComes
  BY <1>12 DEF JackComes
<1>13. CASE UNCHANGED session_vars
  BY <1>13 DEF session_vars
<1> QED
  BY <1>1, <1>2, <1>3, <1>4, <1>5, <1>6, <1>7, <1>8, <1>9, <1>10, <1>11, <1>12, <1>13
     DEF SessionNext, MainOfPlayfile

(* While the callback is enabled, the file is open in the decoder that     *)
(* takes it, for any playlist, whatever of it vanishes meanwhile.          *)
THEOREM OpenWhilePlayed ==
  ASSUME GoesWhilePlaying
  PROVE  SessionSpec => []PlaysWhatIsOpen
<1>1. SInv => PlaysWhatIsOpen
  BY DEF SInv, OpenIsRight, SilentWithoutFile, PlaysWhatIsOpen
<1>2. SInv /\ [SessionNext]_session_vars => SInv'
  BY SInvNext, GoesWhilePlaying
<1> QED
  BY <1>1, <1>2, SInvInit, PTL DEF SessionSpec

------------------------------------------------------------------------------
(* Which files of the playlist are skipped.                                *)

(* h has where each file that is left was in the playlist; what is not     *)
(* left was tried, and erased.                                             *)
Places(h) ==
  /\ h \in [DOMAIN files_to_play -> DOMAIN Playlist]
  /\ \A j, k \in DOMAIN files_to_play : j < k => h[j] < h[k]
  /\ \A j \in DOMAIN files_to_play : files_to_play[j] = Playlist[h[j]]
  /\ \A k \in DOMAIN Playlist :
       (\A j \in DOMAIN files_to_play : h[j] # k) => Playlist[k] \in erased \cap tried

(* What SkippedAfterErased says of one file. *)
TriedOrSkipped(k) == Playlist[k] \in tried \/ (k > 1 /\ Playlist[k - 1] \in erased)

UpTo(h, n) == \A j \in DOMAIN files_to_play : j <= n => TriedOrSkipped(h[j])

(* The files up to the current one: a file is looked at before main leaves *)
(* the first loop, and the index is one ahead in it.                       *)
InFirstLoop == session_at \in {"first file", "failed"}

Examined ==
  IF InFirstLoop THEN current_playlist_index ELSE current_playlist_index + 1

(* The first n of the files that are left were tried or skipped. *)
Looked(n) == \E h : Places(h) /\ UpTo(h, n)

TriedInv ==
  /\ files_to_play \in Seq(Openable) /\ current_playlist_index \in Nat
  /\ Looked(Examined)
  /\ SkippedAfterErased

(* What RemoveAt leaves. *)
LEMMA RemovesOne ==
  ASSUME NEW S, NEW s \in Seq(S), NEW p \in 1 .. Len(s)
  PROVE  /\ RemoveAt(s, p) \in Seq(S)
         /\ Len(RemoveAt(s, p)) = Len(s) - 1
         /\ \A j \in 1 .. Len(s) - 1 : RemoveAt(s, p)[j] = IF j < p THEN s[j] ELSE s[j + 1]
<1> DEFINE left == SubSeq(s, 1, p - 1)  right == SubSeq(s, p + 1, Len(s))
<1>1. /\ left \in Seq(S) /\ Len(left) = p - 1
      /\ \A j \in 1 .. p - 1 : left[j] = s[j]
  OBVIOUS
<1>2. /\ right \in Seq(S) /\ Len(right) = Len(s) - p
      /\ \A j \in 1 .. Len(s) - p : right[j] = s[p + j]
  OBVIOUS
<1>3. RemoveAt(s, p) = left \o right
  BY DEF RemoveAt
<1> HIDE DEF left, right
<1>4. left \o right \in Seq(S) /\ Len(left \o right) = Len(s) - 1
  <2>1. left \o right \in Seq(S) /\ Len(left \o right) = Len(left) + Len(right)
    <3>1. left \in Seq(S) /\ right \in Seq(S)
      BY <1>1, <1>2
    <3> QED
      BY <3>1
  <2>2. (p - 1) + (Len(s) - p) = Len(s) - 1
    OBVIOUS
  <2> QED
    BY <1>1, <1>2, <2>1, <2>2
<1>5. ASSUME NEW j \in 1 .. Len(s) - 1
      PROVE  (left \o right)[j] = IF j < p THEN s[j] ELSE s[j + 1]
  <2>1. ASSUME j < p
        PROVE  (left \o right)[j] = s[j]
    <3>1. j \in 1 .. p - 1
      BY <2>1
    <3> QED
      BY <1>1, <1>2, <3>1
  <2>2. ASSUME j >= p
        PROVE  (left \o right)[j] = s[j + 1]
    <3>1. (left \o right)[j] = right[j - (p - 1)]
      BY <1>1, <1>2, <2>2
    <3>2. j - (p - 1) \in 1 .. Len(s) - p /\ p + (j - (p - 1)) = j + 1
      BY <2>2
    <3>3. right[j - (p - 1)] = s[p + (j - (p - 1))]
      BY <1>2, <3>2
    <3> QED
      BY <2>2, <3>1, <3>2, <3>3
  <2>3. j < p \/ j >= p
    OBVIOUS
  <2>4. j >= p => ~(j < p)
    OBVIOUS
  <2> QED
    BY <2>1, <2>2, <2>3, <2>4, Zenon
<1> QED
  BY <1>3, <1>4, <1>5

(* pl_open_check_file past the end: all that is left was looked at. *)
LEMMA EndIsAll ==
  ASSUME NEW i \in Nat, NEW h, files_to_play \in Seq(Openable), Places(h), UpTo(h, i),
         PastTheEnd(i)
  PROVE  \A k \in DOMAIN Playlist : TriedOrSkipped(k)
<1>1. \A j \in DOMAIN files_to_play : j <= i
  BY DEF PastTheEnd
<1> QED
  BY <1>1 DEF Places, UpTo, TriedOrSkipped

(* A file that opens. *)
LEMMA OpenedIsTried ==
  ASSUME NEW i \in Nat, NEW h, files_to_play \in Seq(Openable), Places(h), UpTo(h, i),
         i + 1 \in DOMAIN files_to_play,
         tried' = tried \cup {Here(i)}, UNCHANGED <<files_to_play, erased>>
  PROVE  Places(h)' /\ UpTo(h, i + 1)'
<1>1. Places(h)'
  BY DEF Places
<1>2. ASSUME NEW j \in DOMAIN files_to_play, j <= i + 1
      PROVE  TriedOrSkipped(h[j])'
  <2>1. j \in Nat
    OBVIOUS
  <2>2. CASE j <= i
    <3>1. TriedOrSkipped(h[j])
      BY <1>2, <2>2 DEF UpTo
    <3> QED
      BY <3>1 DEF TriedOrSkipped
  <2>3. CASE j = i + 1
    <3>1. Playlist[h[j]] = Here(i)
      BY <2>3 DEF Places, Here
    <3> QED
      BY <3>1 DEF TriedOrSkipped
  <2> QED
    BY <1>2, <2>1, <2>2, <2>3
<1> QED
  BY <1>1, <1>2 DEF UpTo

(* A file that is erased: the one after it takes its place, and that place *)
(* counts as looked at.                                                    *)
LEMMA ErasedIsSkipped ==
  ASSUME NEW i \in Nat, NEW h, files_to_play \in Seq(Openable), Places(h), UpTo(h, i),
         i + 1 \in DOMAIN files_to_play,
         tried' = tried \cup {Here(i)}, erased' = erased \cup {Here(i)},
         files_to_play' = RemoveAt(files_to_play, i + 1)
  PROVE  \E g : Places(g)' /\ UpTo(g, i + 1)'
<1>a. PICK n : n = Len(files_to_play)
  OBVIOUS
<1>b. PICK p : p = i + 1
  OBVIOUS
<1>c. PICK g : g = [j \in 1 .. n - 1 |-> IF j < p THEN h[j] ELSE h[j + 1]]
  OBVIOUS
<1>1. /\ p \in 1 .. n /\ n \in Nat /\ DOMAIN files_to_play = 1 .. n
      /\ DOMAIN files_to_play' = 1 .. n - 1
      /\ \A j \in 1 .. n - 1 :
           files_to_play'[j] = IF j < p THEN files_to_play[j] ELSE files_to_play[j + 1]
  <2>1. p \in 1 .. n /\ n \in Nat /\ DOMAIN files_to_play = 1 .. n
    BY <1>a, <1>b
  <2>2. /\ files_to_play' \in Seq(Openable) /\ Len(files_to_play') = n - 1
        /\ \A j \in 1 .. n - 1 :
             files_to_play'[j] = IF j < p THEN files_to_play[j] ELSE files_to_play[j + 1]
    BY <1>a, <1>b, <2>1, RemovesOne
  <2> QED
    BY <2>1, <2>2
<1>2. /\ h \in [1 .. n -> DOMAIN Playlist]
      /\ \A j, k \in 1 .. n : j < k => h[j] < h[k]
      /\ \A j \in 1 .. n : files_to_play[j] = Playlist[h[j]]
      /\ \A k \in DOMAIN Playlist :
           (\A j \in 1 .. n : h[j] # k) => Playlist[k] \in erased \cap tried
  BY <1>1 DEF Places
<1>3. DOMAIN Playlist \subseteq Nat \ {0}
  BY PlaylistType
<1>4. Playlist[h[p]] = Here(i)
  BY <1>1, <1>2, <1>b DEF Here
<1>5. Places(g)'
  <2>1. g \in [1 .. n - 1 -> DOMAIN Playlist]
    BY <1>1, <1>2, <1>c
  <2>2. ASSUME NEW j \in 1 .. n - 1, NEW k \in 1 .. n - 1, j < k
        PROVE  g[j] < g[k]
    BY <1>1, <1>2, <1>c, <2>2
  <2>3. \A j \in 1 .. n - 1 : files_to_play'[j] = Playlist[g[j]]
    BY <1>1, <1>2, <1>c
  <2>4. ASSUME NEW k \in DOMAIN Playlist, \A j \in 1 .. n - 1 : g[j] # k
        PROVE  Playlist[k] \in (erased \cap tried)'
    <3>1. CASE k = h[p]
      BY <1>4, <3>1
    <3>2. CASE k # h[p]
      <4>1. ASSUME NEW j \in 1 .. n
            PROVE  h[j] # k
        <5>1. CASE j < p
          <6>1. j \in 1 .. n - 1 /\ g[j] = h[j]
            BY <1>1, <1>c, <5>1
          <6> QED
            BY <2>4, <6>1
        <5>2. CASE j > p
          <6>1. j - 1 \in 1 .. n - 1 /\ g[j - 1] = h[j]
            BY <1>1, <1>c, <5>2
          <6> QED
            BY <2>4, <6>1
        <5> QED
          BY <1>1, <3>2, <5>1, <5>2
      <4> QED
        BY <1>2, <4>1
    <3> QED
      BY <3>1, <3>2
  <2> QED
    BY <1>1, <2>1, <2>2, <2>3, <2>4 DEF Places
<1>6. ASSUME NEW j \in 1 .. n - 1, j <= p
      PROVE  TriedOrSkipped(g[j])'
  <2>1. CASE j < p
    <3>1. g[j] = h[j] /\ j <= i /\ j \in 1 .. n
      BY <1>1, <1>b, <1>c, <2>1
    <3>2. TriedOrSkipped(h[j])
      BY <1>1, <3>1 DEF UpTo
    <3> QED
      BY <3>1, <3>2 DEF TriedOrSkipped
  <2>2. CASE j = p
    <3>0. PICK k : k = h[p + 1]
      OBVIOUS
    <3>1. g[j] = k /\ p + 1 \in 1 .. n
      BY <1>1, <1>c, <2>2, <3>0
    <3>2. k \in DOMAIN Playlist /\ h[p] \in DOMAIN Playlist /\ h[p] < k /\ k \in Nat /\ h[p] \in Nat \ {0}
      BY <1>1, <1>2, <1>3, <3>0, <3>1
    <3>3. k > 1 /\ k - 1 \in DOMAIN Playlist
      BY <3>2, PlaylistType
    <3>4. CASE h[p] = k - 1
      BY <1>4, <3>1, <3>3, <3>4 DEF TriedOrSkipped
    <3>5. CASE h[p] # k - 1
      <4>1. ASSUME NEW l \in 1 .. n
            PROVE  h[l] # k - 1
        <5>1. CASE l <= p
          <6>1. h[l] = h[p] \/ h[l] < h[p]
            BY <1>1, <1>2, <5>1
          <6> QED
            BY <1>2, <1>3, <3>2, <3>5, <6>1
        <5>2. CASE l > p
          <6>1. l = p + 1 \/ p + 1 < l
            BY <1>1, <5>2
          <6>2. h[l] = k \/ k < h[l]
            BY <1>1, <1>2, <3>0, <3>1, <6>1
          <6> QED
            BY <1>2, <1>3, <3>2, <6>2
        <5> QED
          BY <1>1, <5>1, <5>2
      <4>2. Playlist[k - 1] \in erased
        BY <1>2, <3>3, <4>1
      <4> QED
        BY <3>1, <3>3, <4>2 DEF TriedOrSkipped
    <3> QED
      BY <3>4, <3>5
  <2> QED
    BY <1>1, <1>6, <2>1, <2>2
<1>7. UpTo(g, p)'
  BY <1>1, <1>6 DEF UpTo
<1> QED
  BY <1>5, <1>7, <1>b

(* pl_open_check_file of the file i, all before it being looked at. *)
LEMMA OpenCheckTries ==
  ASSUME NEW i \in Nat, NEW r, TriedInv, Looked(i), OpenFile(i, r), quit' = quit
  PROVE  files_to_play' \in Seq(Openable) /\ Looked(i + 1)' /\ SkippedAfterErased'
<1>1. PICK h : Places(h) /\ UpTo(h, i)
  BY DEF Looked
<1>2. files_to_play \in Seq(Openable)
  BY DEF TriedInv
<1>3. CASE PastTheEnd(i)
  <2>1. \A k \in DOMAIN Playlist : TriedOrSkipped(k)
    BY <1>1, <1>2, <1>3, EndIsAll
  <2>2. UNCHANGED <<files_to_play, tried, erased>>
    BY <1>3 DEF OpenFile
  <2>3. Places(h)'
    BY <1>1, <2>2 DEF Places
  <2>4. \A j \in DOMAIN files_to_play : h[j] \in DOMAIN Playlist
    BY <1>1 DEF Places
  <2>5. UpTo(h, i + 1)'
    BY <2>1, <2>2, <2>4 DEF UpTo, TriedOrSkipped
  <2>6. SkippedAfterErased'
    BY <2>1, <2>2 DEF SkippedAfterErased, TriedOrSkipped
  <2> QED
    BY <1>2, <2>2, <2>3, <2>5, <2>6 DEF Looked
<1>4. CASE ~PastTheEnd(i)
  <2>1. i + 1 \in DOMAIN files_to_play
    BY <1>2, <1>4 DEF PastTheEnd
  <2>2. /\ tried' = tried \cup {Here(i)} /\ UNCHANGED no_more_files_to_play
        /\ \/ UNCHANGED <<files_to_play, erased>>
           \/ /\ files_to_play' = RemoveAt(files_to_play, i + 1)
              /\ erased' = erased \cup {Here(i)}
    BY <1>4 DEF OpenFile
  <2>3. \E g : Places(g)' /\ UpTo(g, i + 1)'
    BY <1>1, <1>2, <2>1, <2>2, OpenedIsTried, ErasedIsSkipped
  <2>4. files_to_play' \in Seq(Openable)
    BY <1>2, <2>1, <2>2, RemovesOne
  <2>5. tried \subseteq tried' /\ erased \subseteq erased'
    BY <2>2
  <2>6. SkippedAfterErased'
    BY <2>2, <2>5 DEF TriedInv, SkippedAfterErased
  <2> QED
    BY <2>3, <2>4, <2>6 DEF Looked
<1> QED
  BY <1>3, <1>4

(* Less that counts as looked at. *)
LEMMA LookedAtLess ==
  ASSUME NEW m \in Nat, NEW n \in Nat, m <= n, files_to_play \in Seq(Openable), Looked(n)
  PROVE  Looked(m)
<1>1. PICK h : Places(h) /\ UpTo(h, n)
  BY DEF Looked
<1>2. ASSUME NEW j \in DOMAIN files_to_play, j <= m
      PROVE  TriedOrSkipped(h[j])
  <2>1. j \in Nat
    OBVIOUS
  <2>2. j <= n
    BY <1>2, <2>1
  <2> QED
    BY <1>1, <2>2 DEF UpTo
<1> QED
  BY <1>1, <1>2 DEF Looked, UpTo

(* What has no part in it: less may count as looked at. *)
LEMMA TriedKept ==
  ASSUME TriedInv, UNCHANGED <<files_to_play, current_playlist_index, tried, erased>>,
         no_more_files_to_play' /\ ~quit' => no_more_files_to_play /\ ~quit,
         InFirstLoop => InFirstLoop'
  PROVE  TriedInv'
<1>0. PICK i : i = current_playlist_index
  OBVIOUS
<1>1. i \in Nat /\ files_to_play \in Seq(Openable) /\ Looked(Examined) /\ SkippedAfterErased
  BY <1>0 DEF TriedInv
<1>2. SkippedAfterErased'
  BY <1>1 DEF SkippedAfterErased
<1>3. \A n : Looked(n) => Looked(n)'
  BY DEF Looked, Places, UpTo, TriedOrSkipped
<1>4. PICK m, n : m = Examined' /\ n = Examined
  OBVIOUS
<1>5. m \in Nat /\ n \in Nat /\ m <= n
  <2>1. CASE InFirstLoop
    BY <1>0, <1>1, <1>4, <2>1 DEF Examined
  <2>2. CASE ~InFirstLoop
    BY <1>0, <1>1, <1>4, <2>2 DEF Examined
  <2> QED
    BY <2>1, <2>2
<1>6. Looked(m)'
  BY <1>1, <1>3, <1>4, <1>5, LookedAtLess, Zenon
<1>7. Looked(Examined)'
  BY <1>4, <1>6 DEF Looked, UpTo
<1> QED
  BY <1>0, <1>1, <1>2, <1>7 DEF TriedInv

(* The playlist is all there, and nothing was looked at.                   *)
LEMMA TriedInit == SessionInit => TriedInv
<1> SUFFICES ASSUME SessionInit
             PROVE  TriedInv
  OBVIOUS
<1>1. files_to_play \in Seq(Openable) /\ files_to_play = Playlist /\ current_playlist_index = 0
  BY PlaylistType DEF SessionInit
<1>2. PICK h : h = [j \in DOMAIN Playlist |-> j]
  OBVIOUS
<1>3. Places(h)
  BY <1>1, <1>2, PlaylistType DEF Places
<1>4. Examined = 0
  BY DEF SessionInit, Examined, InFirstLoop
<1>5. UpTo(h, Examined)
  BY <1>1, <1>4 DEF UpTo
<1>6. SkippedAfterErased
  BY DEF SessionInit, SkippedAfterErased
<1> QED
  BY <1>1, <1>3, <1>5, <1>6 DEF TriedInv, Looked

(* The first loop tries the current file.                                  *)
LEMMA FirstFileTries == TriedInv /\ FirstFile => TriedInv'
<1> SUFFICES ASSUME TriedInv, FirstFile
             PROVE  TriedInv'
  OBVIOUS
<1>0. PICK i : i = current_playlist_index
  OBVIOUS
<1>1. i \in Nat /\ Looked(Examined)
  BY <1>0 DEF TriedInv
<1>2. Examined = i
  BY <1>0 DEF FirstFile, Examined, InFirstLoop
<1>3. OpenFile(i, reader) /\ quit' = quit
  BY <1>0 DEF FirstFile, env_vars
<1>4. PICK r : r = reader
  OBVIOUS
<1>5. files_to_play' \in Seq(Openable) /\ Looked(i + 1)' /\ SkippedAfterErased'
  <2>1. Looked(i) /\ OpenFile(i, r)
    BY <1>1, <1>2, <1>3, <1>4
  <2> QED
    BY <1>1, <1>3, <2>1, OpenCheckTries, Zenon
<1>6. current_playlist_index' \in Nat /\ Examined' = i + 1
  <2>1. CASE Opened(current_playlist_index)
    <3>1. current_playlist_index' = i /\ ~InFirstLoop'
      BY <1>0, <2>1 DEF FirstFile, InFirstLoop
    <3> QED
      BY <1>1, <3>1 DEF Examined
  <2>2. CASE ~Opened(current_playlist_index)
    <3>1. current_playlist_index' = i + 1 /\ InFirstLoop'
      BY <1>0, <2>2 DEF FirstFile, InFirstLoop, pl_set_next_index
    <3> QED
      BY <1>1, <3>1 DEF Examined
  <2> QED
    BY <2>1, <2>2
<1>7. Looked(Examined)'
  BY <1>5, <1>6 DEF Looked, UpTo
<1> QED
  BY <1>5, <1>6, <1>7 DEF TriedInv

(* The next file, or the one before it: it is tried.                       *)
LEMMA NextFileTries == TriedInv /\ NextFile => TriedInv'
<1> SUFFICES ASSUME TriedInv, NextFile
             PROVE  TriedInv'
  OBVIOUS
<1>0. PICK n : n = current_playlist_index
  OBVIOUS
<1>1. n \in Nat /\ Looked(Examined) /\ files_to_play \in Seq(Openable)
  BY <1>0 DEF TriedInv
<1>2. Examined = n + 1
  BY <1>0 DEF NextFile, Examined, InFirstLoop
<1>3. PICK i, r : /\ r = sin_close(reader)
                  /\ i = LET next == pl_set_next_index(current_playlist_index, backward)
                         IN  IF next < 0 THEN 0 ELSE next
  OBVIOUS
<1>4. current_playlist_index' = i /\ OpenFile(i, r) /\ quit' = quit /\ ~InFirstLoop'
  BY <1>3 DEF NextFile, env_vars, InFirstLoop
<1>5. i \in Nat /\ i <= n + 1
  <2>1. PICK next : next = pl_set_next_index(current_playlist_index, backward)
    OBVIOUS
  <2>2. next = n - 1 \/ next = n + 1
    BY <1>0, <2>1 DEF pl_set_next_index
  <2>3. i = IF next < 0 THEN 0 ELSE next
    BY <1>3, <2>1
  <2>4. n \in Nat
    BY <1>1
  <2>5. CASE next < 0
    BY <2>3, <2>4, <2>5
  <2>6. CASE ~(next < 0)
    BY <2>2, <2>3, <2>4, <2>6
  <2> QED
    BY <2>5, <2>6
<1>6. Looked(i)
  <2>1. n + 1 \in Nat
    BY <1>1
  <2>2. Looked(n + 1)
    BY <1>1, <1>2
  <2> QED
    BY <1>1, <1>5, <2>1, <2>2, LookedAtLess, Zenon
<1>7. files_to_play' \in Seq(Openable) /\ Looked(i + 1)' /\ SkippedAfterErased'
  BY <1>4, <1>5, <1>6, OpenCheckTries, Zenon
<1>8. Examined' = i + 1
  BY <1>4 DEF Examined
<1>9. Looked(Examined)'
  BY <1>7, <1>8 DEF Looked, UpTo
<1> QED
  BY <1>4, <1>5, <1>7, <1>9 DEF TriedInv

(* The invariant is inductive.                                             *)
LEMMA TriedNext == TriedInv /\ [SessionNext]_session_vars => TriedInv'
<1> SUFFICES ASSUME TriedInv, [SessionNext]_session_vars
             PROVE  TriedInv'
  OBVIOUS
<1>1. CASE FirstFile
  BY <1>1, FirstFileTries
<1>2. CASE NextFile
  BY <1>2, NextFileTries
<1>3. CASE KeyHit
  <2>1. UNCHANGED <<files_to_play, current_playlist_index, tried, erased, session_at>>
    BY <1>3 DEF KeyHit
  <2>2. no_more_files_to_play' /\ ~quit' => no_more_files_to_play /\ ~quit
    <3>1. CASE no_more_files_to_play' = TRUE /\ quit' = TRUE
      BY <3>1
    <3>2. CASE no_more_files_to_play' = no_more_files_to_play /\ quit' = quit
      BY <3>2
    <3> QED
      BY <1>3, <3>1, <3>2 DEF KeyHit
  <2>3. InFirstLoop => InFirstLoop'
    BY <2>1 DEF InFirstLoop
  <2> QED
    BY <2>1, <2>2, <2>3, TriedKept
<1>4. ASSUME UNCHANGED <<files_to_play, current_playlist_index, tried, erased,
                         no_more_files_to_play, quit>>,
             InFirstLoop => InFirstLoop'
      PROVE  TriedInv'
  BY <1>4, TriedKept
<1> USE DEF playlist_vars, env_vars, InFirstLoop
<1>5. CASE jack_wait_connect
  BY <1>4, <1>5 DEF jack_wait_connect
<1>6. CASE jack_post_init
  BY <1>4, <1>6 DEF jack_post_init
<1>7. CASE Starts
  BY <1>4, <1>7 DEF Starts
<1>8. CASE MainLoop
  BY <1>4, <1>8 DEF MainLoop
<1>9. CASE StartAllOver
  BY <1>4, <1>9 DEF StartAllOver
<1>10. CASE FileEnds
  BY <1>4, <1>10 DEF FileEnds
<1>11. CASE FileVanishes
  BY <1>4, <1>11 DEF FileVanishes
<1>12. CASE JackGoes
  BY <1>4, <1>12 DEF JackGoes
<1>13. CASE JackComes
  BY <1>4, <1>13 DEF JackComes
<1>14. CASE UNCHANGED session_vars
  BY <1>4, <1>14 DEF session_vars
<1> QED
  BY <1>1, <1>2, <1>3, <1>5, <1>6, <1>7, <1>8, <1>9, <1>10, <1>11, <1>12, <1>13, <1>14
     DEF SessionNext, MainOfPlayfile

(* At the end of the playlist each file of it was tried, or comes right    *)
(* after one that was erased: for any playlist, whatever of it vanishes,   *)
(* however often the user goes back a file and JACK goes and comes.        *)
THEOREM TriedToTheEnd == SessionSpec => []SkippedAfterErased
<1>1. TriedInv => SkippedAfterErased
  BY DEF TriedInv
<1> QED
  BY <1>1, TriedInit, TriedNext, PTL DEF SessionSpec
==============================================================================
