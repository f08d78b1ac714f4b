------------------------------ MODULE ByteQueue ------------------------------
(***************************************************************************)
(* The calls of example-clients/rb.h that the OSC bridge and the tty       *)
(* bridge make, on the queue of bytes that the ring buffer is for its      *)
(* caller (RingBuffer and BoundedFifo relate the two).                     *)
(***************************************************************************)
EXTENDS Integers, Sequences

(* A slip of Limited: the space is not looked at.                          *)
AllAsked(count, available) == count

(* The count of bytes that a call moves: what was asked for, or what there is. *)
Limited(count, available) == IF count > available THEN available ELSE count

rb_can_read(rb) == Len(rb)

rb_can_write(rb, size) == size - Len(rb)

rb_write(rb, size, source) ==
  rb \o SubSeq(source, 1, Limited(Len(source), rb_can_write(rb, size)))

(* What rb_read copies; it advances the read index as rb_skip does. *)
rb_read(rb, count) == SubSeq(rb, 1, Limited(count, rb_can_read(rb)))

rb_skip(rb, count) == SubSeq(rb, Limited(count, rb_can_read(rb)) + 1, Len(rb))

rb_peek_byte_at(rb, offset) == rb[offset + 1]

==============================================================================
