----------------------------- MODULE RingBuffer ------------------------------
(***************************************************************************)
(* The ring buffer of rb.h used by one caller at a time: every function    *)
(* that reads or moves its indices, each as one step.  What happens when   *)
(* two threads are inside at once is the subject of RingBufferSPSC.        *)
(*                                                                         *)
(* The counts callers pass are constants, so that a model can say which    *)
(* callers it is about.                                                    *)
(***************************************************************************)
EXTENDS RingIndex

CONSTANTS
  Byte,          \* the values a byte can have
  WriteCounts,   \* counts passed to rb_write
  ReadCounts,    \* counts passed to rb_read, rb_peek and the advance functions
  OverCounts,    \* counts passed to rb_overread and rb_overadvance_read_index
  PeekOffsets,   \* offsets passed to rb_peek_at
  MaxStat        \* bound: no call is made once a counter is above it

ASSUME CallAssumption ==
  /\ WriteCounts \subseteq Nat
  /\ ReadCounts \subseteq Nat
  /\ OverCounts \subseteq Nat
  /\ PeekOffsets \subseteq Nat
  /\ MaxStat \in Nat
  /\ Byte # {}

VARIABLES
  cells,           \* the byte store behind buf_ptr(rb)
  read_index,
  write_index,
  last_was_write,
  stats,           \* the five total_ counters
  result           \* what the last call gave its caller

indices == <<read_index, write_index, last_was_write>>
vars    == <<cells, indices, stats, result>>

NoStats == [read |-> 0, write |-> 0, peek |-> 0, underflows |-> 0, overflows |-> 0]

Nothing == [count |-> 0, data |-> <<>>, offset |-> 0]

Gives(n, data) == result' = [Nothing EXCEPT !.count = n, !.data = data]

rb_can_read  == CanRead(read_index, write_index, last_was_write)
rb_can_write == CanWrite(read_index, write_index, last_was_write)

(* Counts a call that asked for count and did n of it. *)
Counted(s, field, miss, n, count) ==
  [s EXCEPT ![field] = @ + n, ![miss] = IF n < count THEN @ + 1 ELSE @]

Init ==
  /\ cells \in [Index -> Byte]
  /\ read_index = 0 /\ write_index = 0 /\ last_was_write = FALSE
  /\ stats = NoStats
  /\ result = Nothing

------------------------------------------------------------------------------
(* Reading.  rb_generic_read and rb_generic_advance_read_index move the    *)
(* read index alike; only the first copies the bytes out.                  *)

(* The read index moves over n bytes, and takes the write index along when *)
(* it passes it.                                                           *)
MoveReadIndex(n, over) ==
  /\ read_index' = Advance(read_index, Segments(read_index, n))
  /\ write_index' = IF over /\ rb_can_read < n THEN read_index' ELSE write_index
  /\ last_was_write' = FALSE

(* How much of count a call does: all that is there, or, in an "over"      *)
(* call, up to a whole buffer whatever is there.                           *)
ReadAmount(count, over) == AtMost(count, IF over THEN Size ELSE rb_can_read)

rb_generic_read(count, over) ==
  \/ /\ count = 0 \/ (~over /\ rb_can_read = 0)
     /\ Gives(0, <<>>)
     /\ UNCHANGED <<cells, indices, stats>>
  \/ /\ count > 0 /\ (over \/ rb_can_read > 0)
     /\ LET n == ReadAmount(count, over)
        IN  /\ MoveReadIndex(n, over)
            /\ stats' = Counted(stats, "read", "underflows", n, count)
            /\ Gives(n, CopyOut(cells, read_index, Segments(read_index, n)))
     /\ UNCHANGED cells

rb_generic_advance_read_index(count, over) ==
  \/ /\ count = 0
     /\ Gives(0, <<>>)
     /\ UNCHANGED <<cells, indices, stats>>
  \/ /\ count > 0 /\ ~over /\ rb_can_read = 0
     /\ stats' = [stats EXCEPT !.underflows = @ + 1]
     /\ Gives(0, <<>>)
     /\ UNCHANGED <<cells, indices>>
  \/ /\ count > 0 /\ (over \/ rb_can_read > 0)
     /\ LET n == ReadAmount(count, over)
        IN  /\ MoveReadIndex(n, over)
            /\ stats' = Counted(stats, "read", "underflows", n, count)
            /\ Gives(n, <<>>)
     /\ UNCHANGED cells

rb_read                   == \E n \in ReadCounts : rb_generic_read(n, FALSE)
rb_overread               == \E n \in OverCounts : rb_generic_read(n, TRUE)
rb_advance_read_index     == \E n \in ReadCounts : rb_generic_advance_read_index(n, FALSE)
rb_overadvance_read_index == \E n \in OverCounts : rb_generic_advance_read_index(n, TRUE)
rb_drop                   == rb_generic_advance_read_index(rb_can_read, FALSE)

------------------------------------------------------------------------------
(* Writing.  There is no early return for a count of zero: such a call     *)
(* moves nothing but still sets last_was_write.                            *)

MoveWriteIndex(n) ==
  /\ write_index' = Advance(write_index, Segments(write_index, n))
  /\ last_was_write' = TRUE
  /\ UNCHANGED read_index

rb_write(s) ==
  \/ /\ rb_can_write = 0
     /\ Gives(0, <<>>)
     /\ UNCHANGED <<cells, indices, stats>>
  \/ /\ rb_can_write > 0
     /\ LET n == AtMost(Len(s), rb_can_write)
        IN  /\ cells' = CopyIn(cells, write_index, Segments(write_index, n), s)
            /\ MoveWriteIndex(n)
            /\ stats' = Counted(stats, "write", "overflows", n, Len(s))
            /\ Gives(n, <<>>)

rb_advance_write_index(count) ==
  \/ /\ count = 0
     /\ Gives(0, <<>>)
     /\ UNCHANGED <<cells, indices, stats>>
  \/ /\ count > 0 /\ rb_can_write = 0
     /\ stats' = [stats EXCEPT !.overflows = @ + 1]
     /\ Gives(0, <<>>)
     /\ UNCHANGED <<cells, indices>>
  \/ /\ count > 0 /\ rb_can_write > 0
     /\ LET n == AtMost(count, rb_can_write)
        IN  /\ MoveWriteIndex(n)
            /\ stats' = Counted(stats, "write", "overflows", n, count)
            /\ Gives(n, <<>>)
     /\ UNCHANGED cells

(* The caller of rb_get_write_regions stores a byte through the pointers   *)
(* it was given, before it calls rb_advance_write_index.                   *)
rb_get_write_regions == Segments(write_index, rb_can_write)

StoreInWriteRegion(b) ==
  /\ \E c \in (write_index .. write_index + rb_get_write_regions[1] - 1)
              \cup (0 .. rb_get_write_regions[2] - 1) :
       cells' = [cells EXCEPT ![c] = b]
  /\ UNCHANGED <<indices, stats, result>>

------------------------------------------------------------------------------
(* Looking without taking.                                                 *)

(* The two pieces rb_peek_at copies n bytes from, and the index it starts  *)
(* at.  The second piece is computed by the code with the offset taken off *)
(* a second time; when that would be negative the C count wraps and the    *)
(* copy leaves the buffers, which the model shows as no second piece.      *)
PeekFrom(offset) == Wrap(read_index + offset)

PeekSegments(n, offset) ==
  IF read_index + offset + n <= Size \/ read_index + offset >= Size
  THEN <<n, 0>>
  ELSE LET second == read_index + offset + n - Size - offset
       IN  <<Size - (read_index + offset), IF second < 0 THEN 0 ELSE second>>

rb_peek_at(count, offset) ==
  /\ \/ /\ count = 0
        /\ Gives(0, <<>>)
        /\ UNCHANGED stats
     \/ /\ count > 0 /\ rb_can_read <= offset
        /\ Gives(0, <<>>)
        /\ stats' = [stats EXCEPT !.underflows = @ + 1]
     \/ /\ count > 0 /\ rb_can_read > offset
        /\ LET n == AtMost(count, rb_can_read - offset)
           IN  /\ Gives(n, CopyOut(cells, PeekFrom(offset), PeekSegments(n, offset)))
               /\ stats' = Counted(stats, "peek", "underflows", n, count)
  /\ UNCHANGED <<cells, indices>>

ByteAt(offset) == cells[IF Size <= read_index + offset
                        THEN read_index + offset - Size ELSE read_index + offset]

rb_peek_byte_at(offset) ==
  /\ IF rb_can_read <= offset
     THEN /\ Gives(0, <<>>)
          /\ stats' = [stats EXCEPT !.underflows = @ + 1]
     ELSE /\ Gives(1, <<ByteAt(offset)>>)
          /\ stats' = [stats EXCEPT !.peek = @ + 1]
  /\ UNCHANGED <<cells, indices>>

(* rb_peek_byte_at at 0, 1, 2, ... until the byte is seen or the data ends. *)
rb_find_byte(b) ==
  LET places == {offset \in 0 .. rb_can_read - 1 : ByteAt(offset) = b}
  IN  /\ \/ /\ places = {}
            /\ result' = Nothing
            /\ stats' = [stats EXCEPT !.peek = @ + rb_can_read, !.underflows = @ + 1]
         \/ \E first \in places :
              /\ \A p \in places : first <= p
              /\ result' = [Nothing EXCEPT !.count = 1, !.offset = first]
              /\ stats' = [stats EXCEPT !.peek = @ + first + 1]
      /\ UNCHANGED <<cells, indices>>

------------------------------------------------------------------------------
rb_reset_stats ==
  /\ stats' = NoStats
  /\ result' = Nothing
  /\ UNCHANGED <<cells, indices>>

(* A slip of rb_reset: the counters keep counting. *)
rb_reset_indices_only ==
  /\ read_index' = 0 /\ write_index' = 0 /\ last_was_write' = FALSE
  /\ result' = Nothing
  /\ UNCHANGED <<cells, stats>>

rb_reset ==
  /\ read_index' = 0 /\ write_index' = 0 /\ last_was_write' = FALSE
  /\ stats' = NoStats
  /\ result' = Nothing
  /\ UNCHANGED cells

StatsBound == \A field \in DOMAIN stats : stats[field] <= MaxStat

Reading == rb_read \/ rb_overread \/ rb_advance_read_index
             \/ rb_overadvance_read_index \/ rb_drop

Writing ==
  \/ \E n \in WriteCounts : \E s \in [1 .. n -> Byte] : rb_write(s)
  \/ \E n \in ReadCounts : rb_advance_write_index(n)
  \/ \E b \in Byte : StoreInWriteRegion(b)

Looking ==
  \/ \E n \in ReadCounts, offset \in PeekOffsets : rb_peek_at(n, offset)
  \/ \E offset \in 0 .. Size : rb_peek_byte_at(offset)
  \/ \E b \in Byte : rb_find_byte(b)

Next == \/ StatsBound /\ (Reading \/ Writing \/ Looking)
        \/ rb_reset_stats
        \/ rb_reset

Spec == Init /\ [][Next]_vars

------------------------------------------------------------------------------
TypeOK ==
  /\ cells \in [Index -> Byte]
  /\ read_index \in Index
  /\ write_index \in Index
  /\ last_was_write \in BOOLEAN
  /\ stats \in [DOMAIN NoStats -> Nat]

(* The readable bytes, oldest first: the queue the indices stand for. *)
Readable == CopyOut(cells, read_index, Segments(read_index, rb_can_read))

(* The ring buffer is a bounded FIFO: whatever sequence of calls its       *)
(* owner makes, what each call returns and copies out is what a plain      *)
(* queue of at most Size bytes would give (rb.h:814-832, 864-919).         *)
Fifo == INSTANCE BoundedFifo WITH queue <- Readable

FifoSpec == Fifo!Spec

(* Every byte counted as written is either still readable or counted as    *)
(* read, as long as nobody reads past the end or resets the counters of a  *)
(* buffer that is not empty: the play position of jack_playfile is         *)
(* computed from total_bytes_read.                                         *)
NeverMoreReadable == stats.write <= stats.read + rb_can_read

==============================================================================
