--------------------------- MODULE RingBufferSPSC ----------------------------
(***************************************************************************)
(* One thread in rb_write and another in rb_read of the same ring buffer,  *)
(* each access to a shared field being a step of its own, in the order the *)
(* source makes them: the indices are loaded, the bytes are copied, the    *)
(* thread's own index is stored, and last_was_write is stored last.  The   *)
(* fields are volatile, so the accesses are neither merged nor reordered.  *)
(*                                                                         *)
(* The callers ask for any count at any time, as rb.h allows: rb_read and  *)
(* rb_write limit themselves, and nothing else keeps the threads apart.    *)
(*                                                                         *)
(* The bytes written are numbered from 0, so that what a read copies shows *)
(* which bytes it got.                                                     *)
(***************************************************************************)
EXTENDS RingIndex

CONSTANTS
  Counts,        \* counts the two callers ask for
  MaxWritten     \* bound: bytes written in a run

ASSUME CallerAssumption == Counts \subseteq Nat \ {0} /\ MaxWritten \in Nat

VARIABLES
  cells, read_index, write_index, last_was_write,
  reader, writer,    \* where each thread is in its call, and its locals
  written,           \* history: bytes stored by finished index stores of the writer
  taken,             \* history: bytes the reader has moved its index over
  raced              \* history: an index was stored between two accesses of the
                     \* other thread that belong together

shared == <<cells, read_index, write_index, last_was_write>>
vars   == <<shared, reader, writer, written, taken, raced>>

(* A thread's locals: the count asked for, the n bytes its call is limited *)
(* to, and what the reader's call got.                                     *)
Idle == [at |-> "idle", count |-> 0, n |-> 0, got |-> <<>>]

Init ==
  /\ cells = [c \in Index |-> -1]
  /\ read_index = 0 /\ write_index = 0 /\ last_was_write = FALSE
  /\ reader = Idle /\ writer = Idle
  /\ written = 0 /\ taken = 0 /\ raced = FALSE

(* An index is stored while the other thread has found the indices equal   *)
(* and has still to load the flag, or it meets the index the other thread  *)
(* has just stored without its flag.                                       *)
Races(other) ==
  \/ other.at = "call_flag"
  \/ other.at = "flag" /\ read_index' = write_index'

------------------------------------------------------------------------------
(* The reader.  It is the only thread to store read_index.                 *)

(* The answer `can' of rb_generic_read's own rb_can_read.                  *)
ReaderLimited(can) ==
  reader' = IF can = 0 THEN Idle
            ELSE [reader EXCEPT !.at = "copy", !.n = AtMost(reader.count, can)]

ReaderWants(count) ==
  /\ reader.at = "idle"
  /\ reader' = [reader EXCEPT !.at = "call", !.count = count]
  /\ UNCHANGED <<shared, writer, written, taken, raced>>

(* rb_can_read: write_index is loaded, and last_was_write only if the      *)
(* indices were found equal.                                               *)
ReaderLoadsIndex ==
  /\ reader.at = "call"
  /\ \/ read_index = write_index /\ reader' = [reader EXCEPT !.at = "call_flag"]
     \/ read_index # write_index /\ ReaderLimited(CanRead(read_index, write_index, FALSE))
  /\ UNCHANGED <<shared, writer, written, taken, raced>>

ReaderLoadsFlag ==
  /\ reader.at = "call_flag"
  /\ ReaderLimited(IF last_was_write THEN Size ELSE 0)
  /\ UNCHANGED <<shared, writer, written, taken, raced>>

ReaderCopies ==
  /\ reader.at = "copy"
  /\ reader' = [reader EXCEPT !.at = "index",
                  !.got = CopyOut(cells, read_index, Segments(read_index, reader.n))]
  /\ UNCHANGED <<shared, writer, written, taken, raced>>

ReaderStoresIndex ==
  /\ reader.at = "index"
  /\ read_index' = Advance(read_index, Segments(read_index, reader.n))
  /\ taken' = taken + reader.n
  /\ reader' = [reader EXCEPT !.at = "flag"]
  /\ UNCHANGED <<cells, write_index, last_was_write, writer, written>>
  /\ raced' = (raced \/ Races(writer))

(* A slip of ReaderStoresFlag: the flag is left as it was.                 *)
ReaderStoresNoFlag ==
  /\ reader.at = "flag"
  /\ reader' = Idle
  /\ UNCHANGED <<shared, writer, written, taken, raced>>

ReaderStoresFlag ==
  /\ reader.at = "flag"
  /\ last_was_write' = FALSE
  /\ reader' = Idle
  /\ UNCHANGED <<cells, read_index, write_index, writer, written, taken, raced>>

Reader == \/ \E count \in Counts : ReaderWants(count)
          \/ ReaderLoadsIndex \/ ReaderLoadsFlag \/ ReaderCopies
          \/ ReaderStoresIndex \/ ReaderStoresFlag

------------------------------------------------------------------------------
(* The writer.  It is the only thread to store write_index and the cells.  *)

(* The answer `can' of rb_write's own rb_can_write.                        *)
WriterLimited(can) ==
  writer' = IF can = 0 THEN Idle
            ELSE [writer EXCEPT !.at = "copy", !.n = AtMost(writer.count, can)]

WriterWants(count) ==
  /\ writer.at = "idle" /\ written + count <= MaxWritten
  /\ writer' = [writer EXCEPT !.at = "call", !.count = count]
  /\ UNCHANGED <<shared, reader, written, taken, raced>>

WriterLoadsIndex ==
  /\ writer.at = "call"
  /\ \/ read_index = write_index /\ writer' = [writer EXCEPT !.at = "call_flag"]
     \/ read_index # write_index /\ WriterLimited(CanWrite(read_index, write_index, FALSE))
  /\ UNCHANGED <<shared, reader, written, taken, raced>>

WriterLoadsFlag ==
  /\ writer.at = "call_flag"
  /\ WriterLimited(IF last_was_write THEN 0 ELSE Size)
  /\ UNCHANGED <<shared, reader, written, taken, raced>>

WriterCopies ==
  /\ writer.at = "copy"
  /\ cells' = CopyIn(cells, write_index, Segments(write_index, writer.n),
                     [i \in 1 .. writer.n |-> written + i - 1])
  /\ writer' = [writer EXCEPT !.at = "index"]
  /\ UNCHANGED <<read_index, write_index, last_was_write, reader, written, taken, raced>>

WriterStoresIndex ==
  /\ writer.at = "index"
  /\ write_index' = Advance(write_index, Segments(write_index, writer.n))
  /\ written' = written + writer.n
  /\ writer' = [writer EXCEPT !.at = "flag"]
  /\ UNCHANGED <<cells, read_index, last_was_write, reader, taken>>
  /\ raced' = (raced \/ Races(reader))

(* A slip of WriterStoresFlag: the flag is left as it was.                 *)
WriterStoresNoFlag ==
  /\ writer.at = "flag"
  /\ writer' = Idle
  /\ UNCHANGED <<shared, reader, written, taken, raced>>

WriterStoresFlag ==
  /\ writer.at = "flag"
  /\ last_was_write' = TRUE
  /\ writer' = Idle
  /\ UNCHANGED <<cells, read_index, write_index, reader, written, taken, raced>>

Writer == \/ \E count \in Counts : WriterWants(count)
          \/ WriterLoadsIndex \/ WriterLoadsFlag \/ WriterCopies
          \/ WriterStoresIndex \/ WriterStoresFlag

Next == Reader \/ Writer

Spec == Init /\ [][Next]_vars

------------------------------------------------------------------------------
Place == {"idle", "call", "call_flag", "copy", "index", "flag"}

TypeOK ==
  /\ cells \in [Index -> -1 .. MaxWritten - 1]
  /\ read_index \in Index /\ write_index \in Index
  /\ last_was_write \in BOOLEAN /\ raced \in BOOLEAN
  /\ reader.at \in Place /\ reader.n \in 0 .. Size
  /\ writer.at \in Place /\ writer.n \in 0 .. Size
  /\ written \in Nat /\ taken \in Nat

(* Each read copies the bytes that come next in the order they were        *)
(* written, none lost and none twice: "it can be safely accessed by two    *)
(* threads simultaneously -- one reading from the buffer and the other     *)
(* writing to it -- without using any synchronization" (rb.h:7-10).        *)
ReadsInOrder ==
  reader.at = "index" =>
    \A i \in 1 .. reader.n : reader.got[i] = taken + i - 1

(* The two copies never touch the same cell at the same time, and neither  *)
(* side takes more bytes, or fills more cells, than there are (rb.h:754,   *)
(* 877).                                                                   *)
CopiesDisjoint ==
  /\ taken <= written /\ written <= taken + Size
  /\ reader.at \in {"copy", "index"} => taken + reader.n <= written
  /\ writer.at \in {"copy", "index"} => written + writer.n <= taken + Size
  /\ reader.at = "copy" /\ writer.at = "copy" =>
       Touched(read_index, reader.n) \cap Touched(write_index, writer.n) = {}

(* What does hold of that claim: a read copies the bytes that come next,   *)
(* at every size, count and interleaving, until an index is stored in one  *)
(* of the two windows of Races (rb.h:696-701, 729-734, 792-807, 908-915).  *)
(* No other order of the accesses makes a read go wrong.                   *)
InOrderUnlessRaced == raced \/ ReadsInOrder

(* Nor does any other order let the copies of rb.h:788-796 and 904-912     *)
(* meet in a cell, or either side go past what is there to read or free to *)
(* write.                                                                  *)
ApartUnlessRaced == raced \/ CopiesDisjoint

==============================================================================
