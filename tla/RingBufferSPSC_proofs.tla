------------------------ MODULE RingBufferSPSC_proofs ------------------------
(***************************************************************************)
(* How far the claim at rb.h:7-10 goes: one reader and one writer get at   *)
(* the unsynchronised ring buffer in any order, ask for any counts at any  *)
(* time, and a read still copies the bytes that come next until an index   *)
(* is stored in one of the two windows of Races.  Up to then the flag      *)
(* tells a full buffer from an empty one wherever a thread may load it,    *)
(* although both threads store it and neither looks at the other.          *)
(***************************************************************************)
EXTENDS RingBufferSPSC, RingIndex_proofs

(* The bytes between the two indices. *)
Held == written - taken

(* The bytes that are in the store, the writer's finished copy included. *)
Filled == Held + (IF writer.at = "index" THEN writer.n ELSE 0)

Local == {"at", "count", "n", "got"}

Apart ==
  /\ written \in Nat /\ taken \in Nat
  /\ Held \in 0 .. Size
  /\ read_index \in Index
  /\ write_index = Wrap(read_index + Held)

(* Where the indices meet, the flag says on which side, unless the thread  *)
(* that made them meet has still to store it.                              *)
FlagTells ==
  /\ Held = 0 => last_was_write = FALSE \/ reader.at = "flag"
  /\ Held = Size => last_was_write = TRUE \/ writer.at = "flag"

InStore == \A p \in 0 .. Size - 1 :
             p < Filled => cells[Wrap(read_index + p)] = taken + p

ReaderOK ==
  /\ DOMAIN reader = Local
  /\ reader.at \in Place
  /\ reader.count \in Nat /\ reader.n \in Nat
  /\ reader.at \in {"call", "call_flag"} => reader.count >= 1
  /\ reader.at = "call_flag" => Held \in {0, Size}
  /\ reader.at \in {"copy", "index"} => 1 <= reader.n /\ reader.n <= Held
  /\ reader.at = "index" => \A i \in 1 .. reader.n : reader.got[i] = taken + i - 1
  /\ reader.at = "flag" => Held < Size

WriterOK ==
  /\ DOMAIN writer = Local
  /\ writer.at \in Place
  /\ writer.count \in Nat /\ writer.n \in Nat
  /\ writer.at \in {"call", "call_flag"} => writer.count >= 1
  /\ writer.at = "call_flag" => Held \in {0, Size}
  /\ writer.at \in {"copy", "index"} => 1 <= writer.n /\ Held + writer.n <= Size
  /\ writer.at = "flag" => 0 < Held

Orderly == Apart /\ FlagTells /\ InStore /\ ReaderOK /\ WriterOK

IInv == raced \in BOOLEAN /\ (raced = FALSE => Orderly)

------------------------------------------------------------------------------
(* A part of what is held, and the rest of it. *)
LEMMA PartAndRest ==
  ASSUME NEW h \in 0 .. Size, NEW m \in Nat, m >= 1, m <= h
  PROVE  /\ m \in 0 .. Size /\ h \in Nat
         /\ h - m \in 0 .. Size - 1 /\ h - m \in Nat /\ h - m \in 0 .. Size
         /\ m + (h - m) = h /\ m + (h - m) <= Size /\ h - m < Size
BY SMT, SizeAssumption

(* Wrapping twice is wrapping once, up to a whole round. *)
LEMMA WrapRound ==
  ASSUME NEW from \in Index, NEW n \in Nat, NEW m \in Nat, n + m <= Size
  PROVE  Wrap(Wrap(from + n) + m) = Wrap(from + (n + m))
BY SMT, SizeAssumption DEF Wrap, Index

(* The empty buffer both threads find satisfies the invariant. *)
LEMMA InitIInv == ASSUME Init PROVE IInv
<1>1. Held = 0 /\ Filled = 0 /\ 0 \in 0 .. Size /\ 0 # Size
  BY SizeAssumption, SMT DEF Init, Held, Filled, Idle
<1>2. Apart
  BY <1>1, SizeAssumption, SMT DEF Init, Apart, Wrap, Index
<1>3. FlagTells
  BY <1>1 DEF Init, FlagTells
<1>4. InStore
  BY <1>1, SMT DEF InStore
<1>5. ReaderOK /\ WriterOK
  BY SMT DEF Init, ReaderOK, WriterOK, Idle, Local, Place
<1> QED BY <1>2, <1>3, <1>4, <1>5 DEF IInv, Orderly, Init

(* The indices are equal only when the buffer is empty or full, and a      *)
(* check of them is exact otherwise.                                       *)
LEMMA ChecksAreExact ==
  ASSUME Apart
  PROVE  /\ read_index = write_index <=> Held \in {0, Size}
         /\ Held \notin {0, Size} =>
              /\ CanRead(read_index, write_index, FALSE) = Held
              /\ CanWrite(read_index, write_index, FALSE) = Size - Held
<1>1. CASE Held \in {0, Size}
  <2>1. ASSUME NEW r \in Index PROVE Wrap(r + 0) = r /\ Wrap(r + Size) = r
    BY <2>1, SMT, SizeAssumption DEF Wrap, Index
  <2> QED BY <1>1, <2>1 DEF Apart
<1>2. CASE Held \notin {0, Size}
  <2>1. Held \in 1 .. Size - 1
    <3>1. ASSUME NEW h \in 0 .. Size, h # 0, h # Size PROVE h \in 1 .. Size - 1
      BY <3>1, SMT, SizeAssumption
    <3> QED BY <1>2, <3>1 DEF Apart
  <2> QED BY <1>2, <2>1, RoomBetween DEF Apart
<1> QED BY <1>1, <1>2

(* A step of the reader that stores nothing leaves the rest as it is. *)
LEMMA ReaderOnly ==
  ASSUME Orderly, UNCHANGED <<shared, writer, written, taken>>,
         reader.at # "flag"
  PROVE  Apart' /\ FlagTells' /\ InStore' /\ WriterOK' /\ Held' = Held
BY DEF Orderly, Apart, FlagTells, InStore, WriterOK, Held, Filled, shared

(* A step of the writer that stores nothing leaves the rest as it is. *)
LEMMA WriterOnly ==
  ASSUME Orderly, UNCHANGED <<shared, reader, written, taken>>,
         writer.at # "flag", Filled' = Filled
  PROVE  Apart' /\ FlagTells' /\ InStore' /\ ReaderOK' /\ Held' = Held
BY DEF Orderly, Apart, FlagTells, InStore, ReaderOK, Held, shared

(* What a call limits itself to is some of what its check answered.        *)
LEMMA LimitIsPart ==
  ASSUME NEW count \in Nat, count >= 1, NEW can \in 0 .. Size, can # 0
  PROVE  AtMost(count, can) \in Nat /\ 1 <= AtMost(count, can) /\ AtMost(count, can) <= can
BY SMT, SizeAssumption DEF AtMost

(* The reader goes on with a correct answer. *)
LEMMA ReaderGoesOn ==
  ASSUME ReaderOK, Held \in 0 .. Size, reader.at \in {"call", "call_flag"},
         Held' = Held, ReaderLimited(Held)
  PROVE  ReaderOK'
<1>1. CASE Held = 0
  <2>1. reader' = Idle
    BY <1>1 DEF ReaderLimited
  <2> QED BY <2>1, SMT DEF ReaderOK, Idle, Local, Place
<1>2. CASE Held # 0
  <2> DEFINE n == AtMost(reader.count, Held)
  <2>1. reader' = [reader EXCEPT !.at = "copy", !.n = n]
    BY <1>2 DEF ReaderLimited
  <2>2. n \in Nat /\ 1 <= n /\ n <= Held
    BY <1>2, LimitIsPart DEF ReaderOK
  <2> HIDE DEF n
  <2>3. /\ DOMAIN reader' = Local /\ reader'.at = "copy" /\ reader'.n = n
        /\ reader'.count = reader.count
    BY <2>1, SMT DEF ReaderOK, Local
  <2> QED BY <2>2, <2>3 DEF ReaderOK, Place
<1> QED BY <1>1, <1>2

(* So does the writer. *)
LEMMA WriterGoesOn ==
  ASSUME WriterOK, Held \in 0 .. Size, writer.at \in {"call", "call_flag"},
         Held' = Held, WriterLimited(Size - Held)
  PROVE  WriterOK' /\ writer'.at \notin {"index", "flag"}
<1>1. CASE Size - Held = 0
  <2>1. writer' = Idle
    BY <1>1 DEF WriterLimited
  <2> QED BY <2>1, SMT DEF WriterOK, Idle, Local, Place
<1>2. CASE Size - Held # 0
  <2> DEFINE n == AtMost(writer.count, Size - Held)
  <2>1. writer' = [writer EXCEPT !.at = "copy", !.n = n]
    BY <1>2 DEF WriterLimited
  <2>2. n \in Nat /\ 1 <= n /\ Held + n <= Size
    <3>1. Size - Held \in 0 .. Size
      BY SMT, SizeAssumption
    <3>2. n \in Nat /\ 1 <= n /\ n <= Size - Held
      BY <1>2, <3>1, LimitIsPart DEF WriterOK
    <3> HIDE DEF n
    <3>3. ASSUME NEW h \in 0 .. Size, NEW m \in Nat, m <= Size - h PROVE h + m <= Size
      BY <3>3, SMT, SizeAssumption
    <3> QED BY <3>2, <3>3
  <2> HIDE DEF n
  <2>3. /\ DOMAIN writer' = Local /\ writer'.at = "copy" /\ writer'.n = n
        /\ writer'.count = writer.count
    BY <2>1, SMT DEF WriterOK, Local
  <2> QED BY <2>2, <2>3 DEF WriterOK, Place
<1> QED BY <1>1, <1>2

(* One step per access of rb_can_read and rb_generic_read. *)
LEMMA ReaderKeeps == ASSUME Orderly, Reader, raced' = FALSE PROVE Orderly'
<1>1. ASSUME NEW count \in Counts, ReaderWants(count) PROVE Orderly'
  <2>1. ReaderOK'
    BY <1>1, CallerAssumption, SMT DEF Orderly, ReaderOK, ReaderWants, Held, Local, Place
  <2> QED BY <1>1, <2>1, ReaderOnly DEF ReaderWants, Orderly
<1>2. CASE ReaderLoadsIndex
  <2>0. /\ UNCHANGED <<shared, writer, written, taken>> /\ reader.at = "call"
        /\ Held \in 0 .. Size
    BY <1>2 DEF ReaderLoadsIndex, Orderly, Apart
  <2>1. Apart' /\ FlagTells' /\ InStore' /\ WriterOK' /\ Held' = Held
    BY <2>0, ReaderOnly
  <2>2. CASE Held \in {0, Size}
    <3>1. reader' = [reader EXCEPT !.at = "call_flag"]
      BY <1>2, <2>2, ChecksAreExact DEF ReaderLoadsIndex, Orderly
    <3>2. ReaderOK'
      BY <2>0, <2>1, <2>2, <3>1, SMT DEF Orderly, ReaderOK, Local, Place
    <3> QED BY <2>1, <3>2 DEF Orderly
  <2>3. CASE Held \notin {0, Size}
    <3>1. ReaderLimited(Held)
      BY <1>2, <2>3, ChecksAreExact DEF ReaderLoadsIndex, Orderly
    <3>2. ReaderOK'
      BY <2>0, <2>1, <3>1, ReaderGoesOn DEF Orderly
    <3> QED BY <2>1, <3>2 DEF Orderly
  <2> QED BY <2>2, <2>3
<1>3. CASE ReaderLoadsFlag
  <2>0. /\ UNCHANGED <<shared, writer, written, taken>> /\ reader.at = "call_flag"
        /\ Held \in 0 .. Size /\ Held \in {0, Size}
    BY <1>3 DEF ReaderLoadsFlag, Orderly, Apart, ReaderOK
  <2>1. Apart' /\ FlagTells' /\ InStore' /\ WriterOK' /\ Held' = Held
    BY <2>0, ReaderOnly
  <2>2. CASE (IF last_was_write THEN Size ELSE 0) = Held
    <3>1. ReaderLimited(Held)
      BY <1>3, <2>2 DEF ReaderLoadsFlag
    <3> QED BY <2>0, <2>1, <3>1, ReaderGoesOn DEF Orderly
  <2>3. CASE (IF last_was_write THEN Size ELSE 0) # Held
    \* only the full buffer whose writer has still to store the flag: it is taken for empty
    <3>1. last_was_write # TRUE
      BY <2>0, <2>3, SizeAssumption DEF Orderly, FlagTells
    <3>2. (IF last_was_write THEN Size ELSE 0) = 0
      BY <2>0, <2>3, SizeAssumption DEF Orderly, FlagTells
    <3>3. reader' = Idle
      BY <1>3, <3>2 DEF ReaderLoadsFlag, ReaderLimited
    <3>4. ReaderOK'
      BY <3>3, SMT DEF ReaderOK, Idle, Local, Place
    <3> QED BY <2>1, <3>4 DEF Orderly
  <2> QED BY <2>2, <2>3
<1>4. CASE ReaderCopies
  <2> DEFINE n == reader.n
  <2> DEFINE bytes == CopyOut(cells, read_index, Segments(read_index, n))
  <2>1. /\ n \in 0 .. Size /\ n \in Nat /\ n <= Held /\ Held \in 0 .. Size /\ n >= 1
    BY <1>4, PartAndRest DEF ReaderCopies, Orderly, Apart, ReaderOK
  <2>2. \A i \in 1 .. n : bytes[i] = cells[Wrap(read_index + (i - 1))]
    BY <2>1, CopyOutCells DEF Orderly, Apart
  <2>3. ASSUME NEW i \in 1 .. n PROVE bytes[i] = taken + i - 1
    <3>1. i - 1 \in 0 .. Size - 1 /\ i - 1 < Filled
      BY <2>1, SMT, SizeAssumption DEF Filled, Orderly, WriterOK
    <3>2. cells[Wrap(read_index + (i - 1))] = taken + (i - 1)
      BY <3>1 DEF Orderly, InStore
    <3>3. taken + (i - 1) = taken + i - 1
      BY SMT DEF Orderly, Apart
    <3> QED BY <2>2, <3>2, <3>3
  <2>4. Apart' /\ FlagTells' /\ InStore' /\ WriterOK' /\ Held' = Held
    BY <1>4, ReaderOnly DEF ReaderCopies
  <2>5. /\ DOMAIN reader' = Local /\ reader'.at = "index" /\ reader'.n = n
        /\ reader'.count = reader.count /\ reader'.got = bytes
    BY <1>4, SMT DEF ReaderCopies, Orderly, ReaderOK, Local
  <2>6. taken' = taken
    BY <1>4 DEF ReaderCopies
  <2> HIDE DEF bytes
  <2>7. ReaderOK'
    BY <2>1, <2>3, <2>4, <2>5, <2>6, SMT DEF Orderly, ReaderOK, Place
  <2> QED BY <2>4, <2>7 DEF Orderly
<1>5. CASE ReaderStoresIndex
  <2> DEFINE n == reader.n
  <2>1. /\ n \in 0 .. Size /\ n \in Nat /\ n <= Held /\ Held \in 0 .. Size /\ n >= 1
    BY <1>5, PartAndRest DEF ReaderStoresIndex, Orderly, Apart, ReaderOK
  <2>2. read_index' = Wrap(read_index + n) /\ read_index' \in Index
    BY <1>5, <2>1, AdvanceWraps DEF ReaderStoresIndex, Orderly, Apart
  <2>3. /\ taken' = taken + n /\ written' = written /\ writer' = writer
        /\ cells' = cells /\ write_index' = write_index /\ last_was_write' = last_was_write
    BY <1>5 DEF ReaderStoresIndex
  <2>4. /\ taken' \in Nat /\ Held' = Held - n /\ Filled' = Filled - n
        /\ Held' \in 0 .. Size /\ Held' < Size /\ Held' + n = Held
    BY <2>1, <2>3, SMT, SizeAssumption DEF Held, Filled, Orderly, Apart, WriterOK
  <2>5. Apart'
    <3>1. Wrap(Wrap(read_index + n) + (Held - n)) = Wrap(read_index + (n + (Held - n)))
      <4> DEFINE rest == Held - n
      <4>1. rest \in Nat /\ n + rest <= Size /\ n \in Nat /\ read_index \in Index
        BY <2>1, PartAndRest DEF Orderly, Apart
      <4> HIDE DEF rest
      <4>2. Wrap(Wrap(read_index + n) + rest) = Wrap(read_index + (n + rest))
        BY <4>1, WrapRound
      <4> QED BY <4>2 DEF rest
    <3>2. n + (Held - n) = Held
      BY <2>1, PartAndRest
    <3>3. Wrap(read_index' + Held') = write_index'
      BY <2>2, <2>3, <2>4, <3>1, <3>2 DEF Orderly, Apart
    <3> QED BY <2>2, <2>3, <2>4, <3>3 DEF Orderly, Apart
  \* the store was in neither window
  <2>6. writer.at # "call_flag" /\ (writer.at = "flag" => Held' # 0)
    <3>1. ~Races(writer)
      BY <1>5 DEF ReaderStoresIndex
    <3>2. Held' = 0 => read_index' = write_index'
      <4>1. ASSUME NEW r \in Index PROVE Wrap(r + 0) = r
        BY <4>1, SMT, SizeAssumption DEF Wrap, Index
      <4> QED BY <2>2, <2>5, <4>1 DEF Apart
    <3> QED BY <2>3, <3>1, <3>2 DEF Races
  <2>7. InStore'
    <3> SUFFICES ASSUME NEW p \in 0 .. Size - 1, p < Filled'
                 PROVE  cells'[Wrap(read_index' + p)] = taken' + p
      BY DEF InStore
    <3>1. Filled \in Nat /\ Filled <= Size
      BY <2>1, SMT, SizeAssumption DEF Filled, Orderly, WriterOK
    <3>2. n + p \in 0 .. Size - 1 /\ n + p < Filled /\ p \in Nat
      BY <2>1, <2>4, <3>1, SMT, SizeAssumption
    <3>3. Wrap(read_index' + p) = Wrap(read_index + (n + p))
      BY <2>1, <2>2, <3>2, WrapTwice, SMT, SizeAssumption DEF Orderly, Apart
    <3>4. cells[Wrap(read_index + (n + p))] = taken + (n + p)
      BY <3>2 DEF Orderly, InStore
    <3>5. taken + (n + p) = taken' + p
      BY <2>1, <2>3, <3>2, SMT DEF Orderly, Apart
    <3> QED BY <2>3, <3>3, <3>4, <3>5
  <2>8. /\ DOMAIN reader' = Local /\ reader'.at = "flag" /\ reader'.n = n
        /\ reader'.count = reader.count
    BY <1>5, SMT DEF ReaderStoresIndex, Orderly, ReaderOK, Local
  <2>9. ReaderOK'
    BY <2>1, <2>4, <2>8 DEF Orderly, ReaderOK, Place
  <2>10. WriterOK'
    <3>1. ASSUME NEW m \in Nat, Held + m <= Size PROVE Held' + m <= Size
      BY <2>1, <2>4, <3>1, SMT, SizeAssumption
    <3>2. writer.at = "flag" => 0 < Held'
      BY <2>4, <2>6, SMT, SizeAssumption
    <3> QED BY <2>3, <2>6, <3>1, <3>2 DEF Orderly, WriterOK
  <2>11. FlagTells'
    BY <2>4, <2>8, SizeAssumption, SMT DEF FlagTells
  <2> QED BY <2>5, <2>7, <2>9, <2>10, <2>11 DEF Orderly
<1>6. CASE ReaderStoresFlag
  <2>1. ReaderOK'
    BY <1>6, SMT DEF ReaderOK, ReaderStoresFlag, Idle, Local, Place
  <2>2. Held' = Held /\ Held < Size /\ Held \in 0 .. Size
    BY <1>6 DEF ReaderStoresFlag, Held, Orderly, ReaderOK, Apart
  <2>3. Apart' /\ InStore' /\ WriterOK'
    BY <1>6, <2>2 DEF ReaderStoresFlag, Orderly, Apart, InStore, WriterOK, Filled
  <2>4. Held # Size
    BY <2>2, SMT, SizeAssumption
  <2>5. FlagTells'
    BY <1>6, <2>2, <2>4 DEF ReaderStoresFlag, FlagTells
  <2> QED BY <2>1, <2>3, <2>5 DEF Orderly
<1> QED BY <1>1, <1>2, <1>3, <1>4, <1>5, <1>6 DEF Reader

(* Once round: from the write index on to a byte that is held. *)
LEMMA OnceRound ==
  ASSUME NEW from \in Index, NEW h \in 0 .. Size, NEW p \in 0 .. h - 1
  PROVE  /\ Wrap(Wrap(from + h) + (Size - h + p)) = Wrap(from + p)
         /\ Size - h + p \in 0 .. Size - 1
BY SMT, SizeAssumption DEF Wrap, Index

(* What is held and what is being written fit the buffer. *)
LEMMA PastTheHeld ==
  ASSUME NEW h \in 0 .. Size, NEW m \in Nat, m >= 1, h + m <= Size
  PROVE  h + m \in 0 .. Size /\ m \in 0 .. Size /\ 0 < h + m /\ h \in Nat /\ h < Size
BY SMT, SizeAssumption

(* One step per access of rb_can_write and rb_write. *)
LEMMA WriterKeeps == ASSUME Orderly, Writer, raced' = FALSE PROVE Orderly'
<1>1. ASSUME NEW count \in Counts, WriterWants(count) PROVE Orderly'
  <2>1. WriterOK' /\ Filled' = Filled
    BY <1>1, CallerAssumption, SMT DEF Orderly, WriterOK, WriterWants, Held, Filled, Local, Place
  <2> QED BY <1>1, <2>1, WriterOnly DEF WriterWants, Orderly
<1>2. CASE WriterLoadsIndex
  <2>0. /\ UNCHANGED <<shared, reader, written, taken>> /\ writer.at = "call"
        /\ Held \in 0 .. Size /\ Held' = Held
    BY <1>2 DEF WriterLoadsIndex, Orderly, Apart, Held
  <2>1. WriterOK' /\ writer'.at \notin {"index", "flag"}
    <3>1. CASE Held \in {0, Size}
      <4>1. writer' = [writer EXCEPT !.at = "call_flag"]
        BY <1>2, <3>1, ChecksAreExact DEF WriterLoadsIndex, Orderly
      <4> QED BY <2>0, <3>1, <4>1, SMT DEF Orderly, WriterOK, Local, Place
    <3>2. CASE Held \notin {0, Size}
      <4>1. WriterLimited(Size - Held)
        BY <1>2, <3>2, ChecksAreExact DEF WriterLoadsIndex, Orderly
      <4> QED BY <2>0, <4>1, WriterGoesOn DEF Orderly
    <3> QED BY <3>1, <3>2
  <2>2. Filled' = Filled
    BY <2>0, <2>1 DEF Filled
  <2> QED BY <2>0, <2>1, <2>2, WriterOnly DEF Orderly
<1>3. CASE WriterLoadsFlag
  <2>0. /\ UNCHANGED <<shared, reader, written, taken>> /\ writer.at = "call_flag"
        /\ Held \in 0 .. Size /\ Held \in {0, Size} /\ Held' = Held
    BY <1>3 DEF WriterLoadsFlag, Orderly, Apart, WriterOK, Held
  <2>1. WriterOK' /\ writer'.at \notin {"index", "flag"}
    <3>1. CASE (IF last_was_write THEN 0 ELSE Size) = Size - Held
      <4>1. WriterLimited(Size - Held)
        BY <1>3, <3>1 DEF WriterLoadsFlag
      <4> QED BY <2>0, <4>1, WriterGoesOn DEF Orderly
    <3>2. CASE (IF last_was_write THEN 0 ELSE Size) # Size - Held
      \* only the empty buffer whose reader has still to store the flag: it is taken for full
      <4>1. Size - Size = 0 /\ Size - 0 = Size
        BY SMT, SizeAssumption
      <4>2. (IF last_was_write THEN 0 ELSE Size) = 0
        BY <2>0, <3>2, <4>1 DEF Orderly, FlagTells
      <4>3. writer' = Idle
        BY <1>3, <4>2 DEF WriterLoadsFlag, WriterLimited
      <4> QED BY <4>3, SMT DEF WriterOK, Idle, Local, Place
    <3> QED BY <3>1, <3>2
  <2>2. Filled' = Filled
    BY <2>0, <2>1 DEF Filled
  <2> QED BY <2>0, <2>1, <2>2, WriterOnly DEF Orderly
<1>4. CASE WriterCopies
  <2> DEFINE n == writer.n
  <2> DEFINE bytes == [i \in 1 .. n |-> written + i - 1]
  <2>1. /\ n \in Nat /\ n >= 1 /\ Held + n <= Size /\ Held \in 0 .. Size /\ n \in 0 .. Size
        /\ Held < Size /\ Held \in Nat
    BY <1>4, PastTheHeld DEF WriterCopies, Orderly, Apart, WriterOK
  <2>2. /\ UNCHANGED <<read_index, write_index, last_was_write, reader, written, taken>>
        /\ cells' = CopyIn(cells, write_index, Segments(write_index, n), bytes)
    BY <1>4 DEF WriterCopies
  <2>3. write_index \in Index /\ write_index = Wrap(read_index + Held) /\ read_index \in Index
    BY <2>1, WrapType, SMT, SizeAssumption DEF Orderly, Apart, Index
  <2>4. \A j \in 0 .. Size - 1 :
          /\ j < n => cells'[Wrap(write_index + j)] = bytes[j + 1]
          /\ n <= j => cells'[Wrap(write_index + j)] = cells[Wrap(write_index + j)]
    <3> HIDE DEF bytes
    <3> QED BY <2>1, <2>2, <2>3, CopyInCells, CopyInKeeps
  <2>5. /\ DOMAIN writer' = Local /\ writer'.at = "index" /\ writer'.n = n
        /\ writer'.count = writer.count
    BY <1>4, SMT DEF WriterCopies, Orderly, WriterOK, Local
  <2>6. Held' = Held /\ Filled' = Held + n /\ Filled = Held
    BY <1>4, <2>1, <2>2, <2>5, SMT DEF Held, Filled, WriterCopies
  <2>7. Apart' /\ ReaderOK'
    BY <2>2, <2>6 DEF Orderly, Apart, ReaderOK
  <2>8. FlagTells'
    BY <1>4, <2>2, <2>6 DEF Orderly, FlagTells, WriterCopies
  <2>9. WriterOK'
    BY <2>1, <2>5, <2>6, SMT DEF Orderly, WriterOK, Place
  <2> HIDE DEF bytes
  <2>10. InStore'
    <3> SUFFICES ASSUME NEW p \in 0 .. Size - 1, p < Held + n
                 PROVE  cells'[Wrap(read_index + p)] = taken + p
      BY <2>2, <2>6 DEF InStore
    <3>1. CASE p < Held
      <4>1. p \in 0 .. Held - 1
        BY <2>1, <3>1, SMT
      <4> DEFINE j == Size - Held + p
      <4>2. Wrap(write_index + j) = Wrap(read_index + p) /\ j \in 0 .. Size - 1
        BY <2>1, <2>3, <4>1, OnceRound
      <4>3. n <= j
        <5>1. ASSUME NEW h \in 0 .. Size, NEW m \in Nat, h + m <= Size
              PROVE  m <= Size - h + p
          BY <5>1, SMT, SizeAssumption
        <5> QED BY <2>1, <5>1
      <4> HIDE DEF j
      <4>4. cells'[Wrap(read_index + p)] = cells[Wrap(read_index + p)]
        BY <2>4, <4>2, <4>3
      <4> QED BY <2>6, <3>1, <4>4 DEF Orderly, InStore
    <3>2. CASE ~(p < Held)
      <4> DEFINE j == p - Held
      <4>1. /\ j \in 0 .. Size - 1 /\ j \in Nat /\ j < n
            /\ Held + j = p /\ Held + j < Size /\ Held \in Nat
        <5>1. ASSUME NEW h \in 0 .. Size, ~(p < h), p < h + n
              PROVE  /\ p - h \in 0 .. Size - 1 /\ p - h \in Nat /\ p - h < n
                     /\ h + (p - h) = p /\ h + (p - h) < Size /\ h \in Nat
          BY <2>1, <5>1, SMT, SizeAssumption
        <5> QED BY <2>1, <3>2, <5>1
      <4> HIDE DEF j
      <4>2. Wrap(write_index + j) = Wrap(read_index + p)
        <5>1. Wrap(Wrap(read_index + Held) + j) = Wrap(read_index + (Held + j))
          BY <2>3, <4>1, WrapTwice
        <5> QED BY <2>3, <4>1, <5>1
      <4>3. bytes[j + 1] = written + j
        BY <2>1, <4>1, SMT DEF bytes, Orderly, Apart
      <4>4. written + j = taken + p
        BY <4>1, SMT DEF Held, Orderly, Apart
      <4> QED BY <2>4, <4>1, <4>2, <4>3, <4>4
    <3> QED BY <3>1, <3>2
  <2> QED BY <2>7, <2>8, <2>9, <2>10 DEF Orderly
<1>5. CASE WriterStoresIndex
  <2> DEFINE n == writer.n
  <2>1. /\ n \in Nat /\ n >= 1 /\ Held + n <= Size /\ Held \in 0 .. Size /\ n \in 0 .. Size
        /\ Held \in Nat /\ 0 < Held + n /\ Held + n \in 0 .. Size
    BY <1>5, PastTheHeld DEF WriterStoresIndex, Orderly, Apart, WriterOK
  <2>2. /\ UNCHANGED <<cells, read_index, last_was_write, reader, taken>>
        /\ written' = written + n
    BY <1>5 DEF WriterStoresIndex
  <2>3. write_index = Wrap(read_index + Held) /\ read_index \in Index
        /\ write_index \in Index
    BY <2>1, WrapType, SMT, SizeAssumption DEF Orderly, Apart, Index
  <2>4. write_index' = Wrap(write_index + n)
    BY <1>5, <2>1, <2>3, AdvanceWraps DEF WriterStoresIndex
  <2>5. /\ DOMAIN writer' = Local /\ writer'.at = "flag" /\ writer'.n = n
        /\ writer'.count = writer.count
    BY <1>5, SMT DEF WriterStoresIndex, Orderly, WriterOK, Local
  <2>6. Held' = Held + n /\ Filled' = Held + n /\ Filled = Held + n /\ written' \in Nat
    BY <1>5, <2>1, <2>2, <2>5, SMT DEF Held, Filled, WriterStoresIndex, Orderly, Apart
  <2>7. Apart'
    <3>1. Wrap(Wrap(read_index + Held) + n) = Wrap(read_index + (Held + n))
      BY <2>1, <2>3, WrapRound
    <3> QED BY <2>1, <2>2, <2>3, <2>4, <2>6, <3>1 DEF Orderly, Apart
  \* the store was in neither window
  <2>8. reader.at # "call_flag" /\ (reader.at = "flag" => Held' # Size)
    <3>1. ~Races(reader)
      BY <1>5 DEF WriterStoresIndex
    <3>2. Held' = Size => read_index' = write_index'
      <4>1. ASSUME NEW r \in Index PROVE Wrap(r + Size) = r
        BY <4>1, SMT, SizeAssumption DEF Wrap, Index
      <4> QED BY <2>2, <2>3, <2>7, <4>1 DEF Apart
    <3> QED BY <2>2, <3>1, <3>2 DEF Races
  <2>9. InStore'
    BY <2>2, <2>6 DEF Orderly, InStore
  <2>10. ReaderOK'
    <3>1. ASSUME NEW a \in Nat, a <= Held PROVE a <= Held'
      BY <2>1, <2>6, <3>1, SMT
    <3>2. reader.at = "flag" => Held' < Size
      BY <2>1, <2>6, <2>8, SMT, SizeAssumption
    <3> QED BY <2>2, <2>8, <3>1, <3>2 DEF Orderly, ReaderOK
  <2>11. WriterOK'
    BY <2>1, <2>5, <2>6 DEF Orderly, WriterOK, Place
  <2>12. FlagTells'
    BY <2>1, <2>5, <2>6, SMT DEF FlagTells
  <2> QED BY <2>7, <2>9, <2>10, <2>11, <2>12 DEF Orderly
<1>6. CASE WriterStoresFlag
  <2>1. WriterOK'
    BY <1>6, SMT DEF WriterOK, WriterStoresFlag, Idle, Local, Place
  <2>2. Held' = Held /\ 0 < Held /\ Held \in 0 .. Size /\ Filled' = Filled
    BY <1>6, SMT DEF WriterStoresFlag, Held, Orderly, WriterOK, Apart, Filled, Idle
  <2>3. Apart' /\ InStore' /\ ReaderOK'
    BY <1>6, <2>2 DEF WriterStoresFlag, Orderly, Apart, InStore, ReaderOK
  <2>4. Held # 0
    BY <2>2, SMT, SizeAssumption
  <2>5. FlagTells'
    BY <1>6, <2>2, <2>4 DEF WriterStoresFlag, FlagTells
  <2> QED BY <2>1, <2>3, <2>5 DEF Orderly
<1> QED BY <1>1, <1>2, <1>3, <1>4, <1>5, <1>6 DEF Writer

(* No step forgets a race.                                                 *)
LEMMA RacedStays ==
  ASSUME raced \in BOOLEAN, Next
  PROVE  raced' \in BOOLEAN /\ (raced' = FALSE => raced = FALSE)
BY DEF Next, Reader, Writer, Races, ReaderWants, ReaderLoadsIndex, ReaderLoadsFlag, ReaderCopies,
  ReaderStoresIndex, ReaderStoresFlag, WriterWants, WriterLoadsIndex, WriterLoadsFlag,
  WriterCopies, WriterStoresIndex, WriterStoresFlag

(* A step that changes nothing. *)
LEMMA StutterKeeps == ASSUME IInv, UNCHANGED vars PROVE IInv'
BY DEF vars, shared, IInv, Orderly, Apart, FlagTells, InStore, ReaderOK, WriterOK, Held, Filled

(* Every access of either thread keeps the invariant. *)
LEMMA NextKeeps == IInv /\ [Next]_vars => IInv'
<1>1. ASSUME IInv, Next PROVE IInv'
  BY <1>1, ReaderKeeps, WriterKeeps, RacedStays DEF Next, IInv
<1> QED BY <1>1, StutterKeeps

(* The cells an access touches are at the offsets below its count. *)
LEMMA TouchedOffsets ==
  ASSUME NEW from \in Index, NEW n \in 0 .. Size, NEW c \in Touched(from, n)
  PROVE  \E i \in 0 .. Size - 1 : i < n /\ c = Wrap(from + i)
<1>1. CASE c \in from .. from + Segments(from, n)[1] - 1
  <2>1. c - from \in 0 .. Size - 1 /\ c - from < n /\ c = Wrap(from + (c - from))
    BY <1>1, SMT, SizeAssumption DEF Segments, Wrap, Index
  <2> QED BY <2>1
<1>2. CASE c \in 0 .. Segments(from, n)[2] - 1
  <2> DEFINE i == c + Size - from
  <2>1. i \in 0 .. Size - 1 /\ i < n /\ c = Wrap(from + i)
    BY <1>2, SMT, SizeAssumption DEF Segments, Wrap, Index
  <2> QED BY <2>1
<1> QED BY <1>1, <1>2 DEF Touched

(* A read short of the write index and a write short of the read index. *)
LEMMA NeverInTheSameCell ==
  ASSUME NEW r \in Index, NEW h \in 0 .. Size, NEW n \in Nat, n <= h,
         NEW m \in Nat, h + m <= Size
  PROVE  Touched(r, n) \cap Touched(Wrap(r + h), m) = {}
<1> SUFFICES ASSUME NEW c \in Touched(r, n), c \in Touched(Wrap(r + h), m) PROVE FALSE
  OBVIOUS
<1>1. n \in 0 .. Size /\ m \in 0 .. Size /\ h \in Nat /\ Wrap(r + h) \in Index
  BY SMT, SizeAssumption DEF Wrap, Index
<1>2. PICK i \in 0 .. Size - 1 : i < n /\ c = Wrap(r + i)
  BY <1>1, TouchedOffsets
<1>3. PICK j \in 0 .. Size - 1 : j < m /\ c = Wrap(Wrap(r + h) + j)
  BY <1>1, TouchedOffsets
<1>4. j \in Nat /\ h + j < Size /\ h + j \in 0 .. Size - 1 /\ i # h + j
  BY <1>2, <1>3, SMT, SizeAssumption
<1>5. c = Wrap(r + (h + j))
  BY <1>1, <1>3, <1>4, WrapTwice
<1> QED BY <1>2, <1>4, <1>5, WrapInjective

(* As long as nothing raced, the invariant implies both properties. *)
LEMMA OrderlySafe == ASSUME Orderly PROVE ReadsInOrder /\ CopiesDisjoint
<1>1. ReadsInOrder
  BY DEF Orderly, ReaderOK, ReadsInOrder
<1>2. /\ taken <= written /\ written <= taken + Size
  BY SMT, SizeAssumption DEF Orderly, Apart, Held
<1>3. reader.at \in {"copy", "index"} => taken + reader.n <= written
  BY SMT, SizeAssumption DEF Orderly, Apart, Held, ReaderOK
<1>4. writer.at \in {"copy", "index"} => written + writer.n <= taken + Size
  BY SMT, SizeAssumption DEF Orderly, Apart, Held, WriterOK
<1>5. reader.at = "copy" /\ writer.at = "copy" =>
        Touched(read_index, reader.n) \cap Touched(write_index, writer.n) = {}
  BY NeverInTheSameCell DEF Orderly, Apart, ReaderOK, WriterOK
<1> QED BY <1>1, <1>2, <1>3, <1>4, <1>5 DEF CopiesDisjoint

(* A read of rb.h copies the bytes that come next in the order they were   *)
(* written, for every buffer size, every count and every interleaving of   *)
(* the accesses of rb_read and rb_write, until an index is stored between  *)
(* another thread's load of equal indices and its load of the flag, or     *)
(* meets an index whose flag is still to be stored: these two windows are  *)
(* all that is wrong with the claim at rb.h:7-10.                          *)
THEOREM OrderOnlyLostInRace == Spec => []InOrderUnlessRaced
<1>1. Init => IInv
  BY InitIInv
<1>2. IInv /\ [Next]_vars => IInv'
  BY NextKeeps
<1>3. IInv => InOrderUnlessRaced
  BY OrderlySafe DEF IInv, InOrderUnlessRaced
<1> QED BY <1>1, <1>2, <1>3, PTL DEF Spec

(* Up to the same two windows the memcpys of rb.h:754-812 and 877-919      *)
(* never touch a cell at the same time, and neither goes past what is      *)
(* there to read or free to write.                                         *)
THEOREM ApartUntilRace == Spec => []ApartUnlessRaced
<1>1. Init => IInv
  BY InitIInv
<1>2. IInv /\ [Next]_vars => IInv'
  BY NextKeeps
<1>3. IInv => ApartUnlessRaced
  BY OrderlySafe DEF IInv, ApartUnlessRaced
<1> QED BY <1>1, <1>2, <1>3, PTL DEF Spec

------------------------------------------------------------------------------
(* What holds after a race too: the accesses stay in the store.            *)

(* The part of the invariant about the shared fields and the histories.    *)
SharedOK ==
  /\ cells \in [Index -> -1 .. MaxWritten - 1]
  /\ read_index \in Index /\ write_index \in Index
  /\ last_was_write \in BOOLEAN /\ raced \in BOOLEAN
  /\ written \in Nat /\ taken \in Nat

(* The locals of a thread. *)
LocalsOK(t) ==
  /\ DOMAIN t = Local
  /\ t.at \in Place /\ t.n \in 0 .. Size /\ t.count \in Nat

(* What the writer has in hand is within the bound of the run. *)
WithinBound ==
  /\ writer.at \notin {"idle", "flag"} => written + writer.count <= MaxWritten
  /\ writer.at \in {"copy", "index"} => writer.n <= writer.count

TInv == SharedOK /\ LocalsOK(reader) /\ LocalsOK(writer) /\ WithinBound

(* A thread's locals when it is in no call. *)
LEMMA IdleOK == LocalsOK(Idle)
BY SMT, SizeAssumption DEF LocalsOK, Idle, Local, Place

(* A thread that goes on with its call. *)
LEMMA LocalsMove ==
  ASSUME NEW t, LocalsOK(t)
  PROVE  /\ \A a \in Place : LocalsOK([t EXCEPT !.at = a])
         /\ \A a \in Place, c \in Nat : LocalsOK([t EXCEPT !.at = a, !.count = c])
         /\ \A a \in Place, n \in 0 .. Size : LocalsOK([t EXCEPT !.at = a, !.n = n])
         /\ \A a \in Place : \A b : LocalsOK([t EXCEPT !.at = a, !.got = b])
BY SMT DEF LocalsOK, Local

(* However stale the indices are, what a call limits itself to fits.       *)
LEMMA LimitFits ==
  ASSUME NEW count \in Nat, NEW can \in 0 .. Size
  PROVE  AtMost(count, can) \in 0 .. Size /\ AtMost(count, can) <= count
BY SMT, SizeAssumption DEF AtMost

(* The answers of rb_can_read and rb_can_write fit too. *)
LEMMA AnswersFit ==
  ASSUME SharedOK
  PROVE  /\ CanRead(read_index, write_index, FALSE) \in 0 .. Size
         /\ CanWrite(read_index, write_index, FALSE) \in 0 .. Size
         /\ (IF last_was_write THEN Size ELSE 0) \in 0 .. Size
         /\ (IF last_was_write THEN 0 ELSE Size) \in 0 .. Size
<1>1. 0 \in 0 .. Size /\ Size \in 0 .. Size
  BY SMT, SizeAssumption
<1> QED BY <1>1, RoomType, Zenon DEF SharedOK

(* The reader's steps, one by one.                                         *)
LEMMA ReaderKeepsTypes == ASSUME TInv, Reader PROVE TInv'
<1>0. TInv' <=> SharedOK' /\ LocalsOK(reader') /\ LocalsOK(writer') /\ WithinBound'
  BY DEF TInv, LocalsOK
<1>1. ASSUME UNCHANGED <<shared, writer, written, taken, raced>>, LocalsOK(reader') PROVE TInv'
  BY <1>0, <1>1 DEF TInv, SharedOK, WithinBound, shared
<1>2. {"idle", "call", "call_flag", "copy", "index", "flag"} \subseteq Place
  BY DEF Place
<1>3. ASSUME NEW can \in 0 .. Size, ReaderLimited(can)
      PROVE  LocalsOK(reader')
  BY <1>2, <1>3, IdleOK, LocalsMove, LimitFits DEF TInv, LocalsOK, ReaderLimited
<1>5. ASSUME NEW count \in Counts, ReaderWants(count) PROVE TInv'
  BY <1>1, <1>2, <1>5, LocalsMove, CallerAssumption DEF ReaderWants, TInv
<1>6. CASE ReaderLoadsIndex
  <2>1. CASE reader' = [reader EXCEPT !.at = "call_flag"]
    BY <1>1, <1>2, <1>6, <2>1, LocalsMove DEF ReaderLoadsIndex, TInv
  <2>2. CASE ReaderLimited(CanRead(read_index, write_index, FALSE))
    BY <1>1, <1>3, <1>6, <2>2, AnswersFit DEF ReaderLoadsIndex, TInv
  <2> QED BY <1>6, <2>1, <2>2 DEF ReaderLoadsIndex
<1>7. CASE ReaderLoadsFlag
  BY <1>1, <1>3, <1>7, AnswersFit DEF ReaderLoadsFlag, TInv
<1>8. CASE ReaderCopies
  BY <1>1, <1>2, <1>8, LocalsMove DEF ReaderCopies, TInv
<1>9. CASE ReaderStoresIndex
  <2>1. read_index' \in Index
    BY <1>9, AdvanceWraps DEF ReaderStoresIndex, TInv, SharedOK, LocalsOK
  <2>2. taken' \in Nat
    BY <1>9, SMT, SizeAssumption DEF ReaderStoresIndex, TInv, SharedOK, LocalsOK
  <2>3. LocalsOK(reader')
    BY <1>2, <1>9, LocalsMove DEF ReaderStoresIndex, TInv
  <2> QED BY <1>0, <1>9, <2>1, <2>2, <2>3 DEF ReaderStoresIndex, TInv, SharedOK, WithinBound
<1>10. CASE ReaderStoresFlag
  BY <1>0, <1>10, IdleOK DEF ReaderStoresFlag, TInv, SharedOK, WithinBound
<1> QED BY <1>5, <1>6, <1>7, <1>8, <1>9, <1>10 DEF Reader

(* The writer's steps, one by one.                                         *)
LEMMA WriterKeepsTypes == ASSUME TInv, Writer PROVE TInv'
<1>0. TInv' <=> SharedOK' /\ LocalsOK(reader') /\ LocalsOK(writer') /\ WithinBound'
  BY DEF TInv, LocalsOK
<1>1. ASSUME UNCHANGED <<shared, reader, written, taken, raced>>, LocalsOK(writer'), WithinBound'
      PROVE  TInv'
  BY <1>0, <1>1 DEF TInv, SharedOK, shared
<1>2. {"idle", "call", "call_flag", "copy", "index", "flag"} \subseteq Place
  BY DEF Place
<1>3. ASSUME NEW can \in 0 .. Size, WriterLimited(can),
             writer.at \notin {"idle", "flag"}, UNCHANGED written
      PROVE  LocalsOK(writer') /\ WithinBound'
  <2>1. LocalsOK(writer')
    BY <1>2, <1>3, IdleOK, LocalsMove, LimitFits DEF TInv, LocalsOK, WriterLimited
  <2>2. CASE writer' = Idle
    <3>1. writer'.at \in {"idle", "flag"} /\ writer'.at \notin {"copy", "index"}
      BY <2>2 DEF Idle
    <3> QED BY <2>1, <3>1, Zenon DEF WithinBound
  <2>4. CASE writer' = [writer EXCEPT !.at = "copy", !.n = AtMost(writer.count, can)]
    <3>1. AtMost(writer.count, can) <= writer.count
      BY LimitFits DEF TInv, LocalsOK
    <3>2. writer'.count = writer.count /\ writer'.n = AtMost(writer.count, can)
      BY <2>4 DEF TInv, LocalsOK, Local
    <3>3. written' = written /\ written + writer.count <= MaxWritten
      BY <1>3, Zenon DEF TInv, WithinBound
    <3> QED BY <2>1, <3>1, <3>2, <3>3, Zenon DEF WithinBound
  <2> QED BY <1>3, <2>1, <2>2, <2>4 DEF WriterLimited
<1>5. ASSUME NEW count \in Counts, WriterWants(count) PROVE TInv'
  <2>1. LocalsOK(writer')
    BY <1>2, <1>5, LocalsMove, CallerAssumption DEF WriterWants, TInv
  <2>2. WithinBound'
    <3>1. /\ writer'.at = "call" /\ writer'.count = count
          /\ written' + count <= MaxWritten
      BY <1>5 DEF WriterWants, TInv, LocalsOK, Local
    <3> QED BY <3>1, Zenon DEF WithinBound
  <2> QED BY <1>1, <1>5, <2>1, <2>2 DEF WriterWants
<1>6. CASE WriterLoadsIndex
  <2>1. CASE writer' = [writer EXCEPT !.at = "call_flag"]
    <3>1. LocalsOK(writer')
      BY <1>2, <1>6, <2>1, LocalsMove DEF WriterLoadsIndex, TInv
    <3>2. WithinBound'
      BY <1>6, <2>1 DEF WriterLoadsIndex, TInv, LocalsOK, WithinBound, Local
    <3> QED BY <1>1, <1>6, <3>1, <3>2 DEF WriterLoadsIndex
  <2>2. CASE WriterLimited(CanWrite(read_index, write_index, FALSE))
    BY <1>1, <1>3, <1>6, <2>2, AnswersFit DEF WriterLoadsIndex, TInv
  <2> QED BY <1>6, <2>1, <2>2 DEF WriterLoadsIndex
<1>7. CASE WriterLoadsFlag
  BY <1>1, <1>3, <1>7, AnswersFit DEF WriterLoadsFlag, TInv
<1>8. CASE WriterCopies
  <2> DEFINE n == writer.n
             seg == Segments(write_index, n)
             bytes == [i \in 1 .. n |-> written + i - 1]
  <2>1. LocalsOK(writer')
    BY <1>2, <1>8, LocalsMove DEF WriterCopies, TInv
  <2>2. WithinBound'
    BY <1>8 DEF WriterCopies, TInv, LocalsOK, WithinBound, Local
  <2>3. /\ n \in 0 .. Size /\ n \in Nat /\ written \in Nat /\ written + n <= MaxWritten
    <3>1. /\ n \in 0 .. Size /\ writer.count \in Nat /\ written \in Nat
          /\ written + writer.count <= MaxWritten /\ n <= writer.count
      BY <1>8 DEF WriterCopies, TInv, SharedOK, LocalsOK, WithinBound
    <3> QED BY <3>1, CallerAssumption, SMT, SizeAssumption
  <2>4. bytes \in [1 .. n -> -1 .. MaxWritten - 1]
    BY <2>3, CallerAssumption, SMT
  <2>5. CopyIn(cells, write_index, seg, bytes) \in [Index -> -1 .. MaxWritten - 1]
    <3>1. cells \in [Index -> -1 .. MaxWritten - 1] /\ write_index \in Index /\ n <= n
      BY <2>3, SMT DEF TInv, SharedOK
    <3> HIDE DEF n, bytes
    <3> QED BY <2>3, <2>4, <3>1, CopyInStays, Zenon
  <2> QED BY <1>0, <1>8, <2>1, <2>2, <2>5 DEF WriterCopies, TInv, SharedOK
<1>9. CASE WriterStoresIndex
  <2>1. write_index' \in Index
    BY <1>9, AdvanceWraps DEF WriterStoresIndex, TInv, SharedOK, LocalsOK
  <2>2. written' \in Nat
    BY <1>9, SMT, SizeAssumption DEF WriterStoresIndex, TInv, SharedOK, LocalsOK
  <2>3. LocalsOK(writer')
    BY <1>2, <1>9, LocalsMove DEF WriterStoresIndex, TInv
  <2>4. WithinBound'
    BY <1>9 DEF WriterStoresIndex, TInv, LocalsOK, WithinBound, Local
  <2> QED BY <1>0, <1>9, <2>1, <2>2, <2>3, <2>4 DEF WriterStoresIndex, TInv, SharedOK
<1>10. CASE WriterStoresFlag
  <2>1. WithinBound'
    BY <1>10 DEF WriterStoresFlag, WithinBound, Idle
  <2> QED BY <1>0, <1>10, <2>1, IdleOK DEF WriterStoresFlag, TInv, SharedOK
<1> QED BY <1>5, <1>6, <1>7, <1>8, <1>9, <1>10 DEF Writer

(* The indices of the ring buffer never leave the store, and no copy is of *)
(* more than Size bytes, whatever the two threads ask for and however they *)
(* are interleaved: after a race they may read the wrong bytes, but not    *)
(* bytes of something else (rb.h:754-832, 877-919).                        *)
THEOREM TypeCorrect == Spec => []TypeOK
<1>1. Init => TInv
  <2> SUFFICES ASSUME Init PROVE TInv
    OBVIOUS
  <2>1. SharedOK
    <3>1. -1 \in -1 .. MaxWritten - 1 /\ 0 \in Nat
      BY CallerAssumption, SMT
    <3>2. cells \in [Index -> -1 .. MaxWritten - 1]
      BY <3>1, Zenon DEF Init
    <3> QED BY <3>1, <3>2, IndexIsNat, Zenon DEF Init, SharedOK
  <2>2. WithinBound
    BY DEF Init, WithinBound, Idle
  <2> QED BY <2>1, <2>2, IdleOK DEF Init, TInv
<1>2. TInv /\ [Next]_vars => TInv'
  <2>1. ASSUME TInv, UNCHANGED vars PROVE TInv'
    BY <2>1 DEF TInv, SharedOK, LocalsOK, WithinBound, vars, shared
  <2> QED BY <2>1, ReaderKeepsTypes, WriterKeepsTypes DEF Next
<1>3. TInv => TypeOK
  BY DEF TInv, SharedOK, LocalsOK, TypeOK
<1> QED BY <1>1, <1>2, <1>3, PTL DEF Spec

==============================================================================
