------------------------------ MODULE RingIndex ------------------------------
(***************************************************************************)
(* The index arithmetic of rb.h: what the functions that take a ring       *)
(* buffer's indices compute from them, without any state of their own.     *)
(* The byte store has Size cells, numbered from 0.  The read index is the  *)
(* next cell to read, the write index the next cell to write; when the two *)
(* meet, the flag last_was_write alone tells a full buffer from an empty   *)
(* one.                                                                    *)
(***************************************************************************)
EXTENDS Integers, Sequences

CONSTANT Size        \* rb->size, the number of bytes the buffer can hold

ASSUME SizeAssumption == Size \in Nat \ {0}

Index == 0 .. Size - 1

AtMost(a, b) == IF a > b THEN b ELSE a

(* A slip of CanRead: a full buffer taken for an empty one.                *)
CanReadWithoutFlag(r, w, last_was_write) ==
  IF r = w THEN 0 ELSE IF r < w THEN w - r ELSE w + Size - r

(* Bytes in front of the read index r up to the write index w. *)
CanRead(r, w, last_was_write) ==
  IF r = w THEN IF last_was_write THEN Size ELSE 0
  ELSE IF r < w THEN w - r ELSE w + Size - r

(* Bytes in front of the write index w up to the read index r. *)
CanWrite(r, w, last_was_write) ==
  IF r = w THEN IF last_was_write THEN 0 ELSE Size
  ELSE IF r < w THEN Size - w + r ELSE r - w

(* linear_end % Size; no caller passes 2 * Size or more. *)
Wrap(linear_end) == IF linear_end < Size THEN linear_end ELSE linear_end - Size

(* The one or two linear pieces an access of n bytes at index from falls   *)
(* into: copy_count_1 bytes from there, copy_count_2 from the start.       *)
Segments(from, n) ==
  IF from + n > Size THEN <<Size - from, from + n - Size>> ELSE <<n, 0>>

(* A slip of Advance: the index is left at the end of the store.           *)
AdvanceUnwrapped(from, seg) == IF seg[2] = 0 THEN from + seg[1] ELSE seg[2]

(* Where an index stands after an access of those pieces. *)
Advance(from, seg) == IF seg[2] = 0 THEN Wrap(from + seg[1]) ELSE Wrap(seg[2])

(* The memcpy out of the two pieces: the bytes the caller receives. *)
CopyOut(cells, from, seg) ==
  [i \in 1 .. seg[1] + seg[2] |->
     IF i <= seg[1] THEN cells[from + i - 1] ELSE cells[i - seg[1] - 1]]

(* The memcpy of the bytes of s into the two pieces. *)
CopyIn(cells, from, seg, s) ==
  [c \in Index |->
     IF from <= c /\ c < from + seg[1] THEN s[c - from + 1]
     ELSE IF c < seg[2] THEN s[seg[1] + c + 1]
     ELSE cells[c]]

(* The cells an access of n bytes at index from touches. *)
Touched(from, n) ==
  LET seg == Segments(from, n)
  IN  (from .. from + seg[1] - 1) \cup (0 .. seg[2] - 1)

==============================================================================
