---------------------------- MODULE AudioConvert -----------------------------
(***************************************************************************)
(* How the OSC thread of jack_audio_receive, and that of audio_post_send,  *)
(* brings the periods of a sender to the length of its own: a message      *)
(* holds one blob per channel; the ring buffer rb is to hold, for one      *)
(* multi-channel (mc) period after the other, Period samples of each       *)
(* channel.  Shorter blobs are collected in rb_helper first.  rb is read   *)
(* by another thread while the handler runs, so that every rb_write is a   *)
(* step.  The ring buffers are those of audio_rxtx/src/rb.h.               *)
(***************************************************************************)
EXTENDS Integers, Sequences, SequencesExt

CONSTANTS
  Period,  \* period_size of this program, in samples
  Size     \* bytes of rb and of rb_helper, counted in samples

VARIABLES
  rb, rb_helper,  \* what can be read, oldest first
  osc             \* what the handler still has to write: pieces, each of one
                  \* channel, and whether rb_helper is to be looked at after

Idle == [at |-> "idle", pieces |-> <<>>, ports |-> 0, remote |-> 0]

Init == rb = <<>> /\ rb_helper = <<>> /\ osc = Idle

rb_can_write(buffer) == Size - Len(buffer)

rb_write(buffer, items) ==
  buffer \o SubSeq(items, 1, IF Len(items) > rb_can_write(buffer)
                             THEN rb_can_write(buffer) ELSE Len(items))

(* What rb_read(count) gives, and what it leaves.                          *)
rb_read(buffer, count) == SubSeq(buffer, 1, IF count > Len(buffer) THEN Len(buffer) ELSE count)

Rest(buffer, count) == SubSeq(buffer, count + 1, Len(buffer))

Piece(items, from, count) == SubSeq(items, from + 1, from + count)

(* A slip of JoinedPieces: in the order of the messages.                   *)
JoinedAsTheyCame(block, remote, ports) ==
  [j \in 1 .. ports * (Period \div remote) |-> Piece(block, (j - 1) * remote, remote)]

(* The pieces of one period, taken from as many messages in rb_helper as   *)
(* it takes, in the order of the channels.                                 *)
JoinedPieces(block, remote, ports) ==
  LET times == Period \div remote
  IN  [j \in 1 .. ports * times |->
         LET i == (j - 1) \div times
             k == (j - 1) % times
         IN  Piece(block, k * remote * ports + i * remote, remote)]

(* A slip of SplitPieces: the offset into the blobs runs faster than the   *)
(* channel.                                                                *)
SplitByPiece(blobs, remote) ==
  LET ports == Len(blobs)
  IN  [j \in 1 .. ports * (remote \div Period) |->
         Piece(blobs[((j - 1) % ports) + 1], ((j - 1) % (remote \div Period)) * Period, Period)]

(* The pieces of as many periods as a blob holds.                          *)
SplitPieces(blobs, remote) ==
  LET ports == Len(blobs)
  IN  [j \in 1 .. ports * (remote \div Period) |->
         Piece(blobs[((j - 1) % ports) + 1], ((j - 1) \div ports) * Period, Period)]

HasRoom(ports) == rb_can_write(rb) >= Period * ports

(* What the handler does with the blobs of a message it does not drop.     *)
Begins(blobs, remote) ==
  LET writing == [at |-> "write", pieces |-> blobs, ports |-> Len(blobs), remote |-> remote]
  IN  \/ Period = remote /\ osc' = writing /\ UNCHANGED rb_helper
      \/ Period > remote /\ osc' = [writing EXCEPT !.at = "join", !.pieces = <<>>]
                         /\ rb_helper' = rb_write(rb_helper, FlattenSeq(blobs))
      \/ Period < remote /\ osc' = [writing EXCEPT !.pieces = SplitPieces(blobs, remote)]
                         /\ UNCHANGED rb_helper

Writes ==
  /\ osc.pieces # <<>>
  /\ rb' = rb_write(rb, Head(osc.pieces))
  /\ osc' = [osc EXCEPT !.pieces = Tail(@)]
  /\ UNCHANGED rb_helper

(* This write completes an mc period. *)
Completes == IF osc.at = "join" THEN Len(osc.pieces) = 1
             ELSE (Len(osc.pieces) - 1) % osc.ports = 0

(* A slip of MayJoin: more than one period is waited for.                  *)
MayJoinLater == /\ osc.at = "join" /\ osc.pieces = <<>>
                /\ Len(rb_helper) > Period * osc.ports
                /\ HasRoom(osc.ports)

MayJoin == /\ osc.at = "join" /\ osc.pieces = <<>>
           /\ Len(rb_helper) >= Period * osc.ports
           /\ HasRoom(osc.ports)

Joins ==
  /\ MayJoin
  /\ osc' = [osc EXCEPT !.pieces = JoinedPieces(SubSeq(rb_helper, 1, Period * osc.ports),
                                                osc.remote, osc.ports)]
  /\ rb_helper' = Rest(rb_helper, Period * osc.ports)
  /\ UNCHANGED rb

Returns ==
  /\ osc.at # "idle" /\ osc.pieces = <<>> /\ ~MayJoin
  /\ osc' = Idle
  /\ UNCHANGED <<rb, rb_helper>>

==============================================================================
