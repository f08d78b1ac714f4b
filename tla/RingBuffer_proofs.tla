-------------------------- MODULE RingBuffer_proofs --------------------------
(***************************************************************************)
(* For every size of the buffer and every count its callers pass, the      *)
(* indices stay inside the store and the counters never lose a byte.       *)
(***************************************************************************)
EXTENDS RingBuffer, RingIndex_proofs

IndicesOK == read_index \in Index /\ write_index \in Index /\ last_was_write \in BOOLEAN

Counters == {"read", "write", "peek", "underflows", "overflows"}

StatsOK == stats \in [Counters -> Nat]

(* A call that reads n bytes counts them; one that writes them too.        *)
LEMMA CountedType ==
  ASSUME StatsOK, NEW n \in Nat, NEW count \in Nat
  PROVE  /\ \A field \in {"read", "write", "peek"}, miss \in {"underflows", "overflows"} :
              Counted(stats, field, miss, n, count) \in [Counters -> Nat]
         /\ Counted(stats, "read", "underflows", n, count)["read"] = stats["read"] + n
         /\ Counted(stats, "read", "underflows", n, count)["write"] = stats["write"]
         /\ Counted(stats, "write", "overflows", n, count)["write"] = stats["write"] + n
         /\ Counted(stats, "write", "overflows", n, count)["read"] = stats["read"]
         /\ Counted(stats, "peek", "underflows", n, count)["read"] = stats["read"]
         /\ Counted(stats, "peek", "underflows", n, count)["write"] = stats["write"]
BY SMT DEF StatsOK, Counters, Counted

(* What a call that reads can do of what it was asked for. *)
LEMMA ReadAmountType ==
  ASSUME IndicesOK, NEW count \in Nat \ {0}, NEW over \in BOOLEAN, over \/ rb_can_read > 0
  PROVE  /\ ReadAmount(count, over) \in 1 .. Size
         /\ ~over => ReadAmount(count, over) <= rb_can_read
<1>1. rb_can_read \in 0 .. Size
  BY RoomType DEF IndicesOK, rb_can_read
<1> QED BY <1>1, SMT, SizeAssumption DEF ReadAmount, AtMost

(* The balance of written and read bytes survives a read of n bytes. *)
LEMMA BalanceAfterRead ==
  ASSUME NEW w \in Nat, NEW r \in Nat, NEW a \in Nat, NEW b \in Nat, NEW n \in Nat,
         w <= r + a, a <= b + n
  PROVE  w <= (r + n) + b
BY SMT

(* It survives a write of n bytes. *)
LEMMA BalanceAfterWrite ==
  ASSUME NEW w \in Nat, NEW r \in Nat, NEW a \in Nat, NEW b \in Nat, NEW n \in Nat,
         w <= r + a, a + n <= b
  PROVE  w + n <= r + b
BY SMT

(* A read of more than there was covers what there was. *)
LEMMA BelowTheSum ==
  ASSUME NEW a \in Int, NEW b \in Nat, NEW n \in Nat, a < n
  PROVE  a <= b + n
BY SMT

(* Moving the read index over n bytes takes n bytes off what is readable,  *)
(* or all of it.                                                           *)
LEMMA MoveReadIndexRoom ==
  ASSUME IndicesOK, NEW n \in 1 .. Size, NEW over \in BOOLEAN,
         over \/ n <= rb_can_read, MoveReadIndex(n, over)
  PROVE  IndicesOK' /\ rb_can_read' \in Nat /\ rb_can_read <= rb_can_read' + n
<1>1. read_index' = Wrap(read_index + n) /\ read_index' \in Index
  BY AdvanceWraps DEF MoveReadIndex, IndicesOK
<1>2. IndicesOK'
  BY <1>1 DEF MoveReadIndex, IndicesOK
<1>3. rb_can_read \in 0 .. Size
  BY RoomType DEF IndicesOK, rb_can_read
<1>4. rb_can_read' \in 0 .. Size
  BY <1>2, RoomType DEF IndicesOK, rb_can_read
<1>5. CASE rb_can_read < n
  <2>1. rb_can_read \in Int /\ rb_can_read' \in Nat /\ n \in Nat
    BY <1>3, <1>4, SMT, SizeAssumption
  <2>2. rb_can_read <= rb_can_read' + n
    BY <2>1, <1>5, BelowTheSum
  <2> QED BY <1>2, <2>1, <2>2
<1>6. CASE n <= rb_can_read
  <2>1. write_index' = write_index /\ last_was_write' = FALSE
    BY <1>3, <1>6, SMT, SizeAssumption DEF MoveReadIndex
  <2>2. rb_can_read' = CanRead(Wrap(read_index + n), write_index, FALSE)
    BY <1>1, <2>1 DEF rb_can_read
  <2>3. rb_can_read' = rb_can_read - n
    BY <2>2, <1>6, RoomAfterRead DEF IndicesOK, rb_can_read
  <2> QED BY <1>2, <1>3, <1>4, <2>3, SMT, SizeAssumption
<1> QED BY <1>3, <1>5, <1>6, SMT, SizeAssumption

(* Moving the write index over n bytes makes at least n more readable.     *)
LEMMA MoveWriteIndexRoom ==
  ASSUME IndicesOK, NEW n \in 0 .. Size, n <= rb_can_write, MoveWriteIndex(n)
  PROVE  IndicesOK' /\ rb_can_read' \in Nat /\ rb_can_read + n <= rb_can_read'
<1>1. /\ write_index' = Wrap(write_index + n) /\ write_index' \in Index
      /\ read_index' = read_index /\ last_was_write' = TRUE
  BY AdvanceWraps DEF MoveWriteIndex, IndicesOK
<1>2. IndicesOK'
  BY <1>1 DEF IndicesOK
<1>3. rb_can_read \in 0 .. Size /\ rb_can_read' \in 0 .. Size
  BY <1>2, RoomType DEF IndicesOK, rb_can_read
<1>4. rb_can_read' = CanRead(read_index, Wrap(write_index + n), TRUE)
  BY <1>1 DEF rb_can_read
<1>5. IF n = 0 THEN rb_can_read <= rb_can_read' ELSE rb_can_read' = rb_can_read + n
  BY <1>4, RoomAfterWrite DEF IndicesOK, rb_can_read, rb_can_write
<1> QED BY <1>2, <1>3, <1>5, SMT, SizeAssumption

------------------------------------------------------------------------------
(* The inductive invariant: types, and the balance of the two counters of  *)
(* bytes with what lies between the indices.                               *)
IInv == TypeOK /\ NeverMoreReadable

(* The five total_ counters of rb_t. *)
LEMMA CountersAre == DOMAIN NoStats = Counters
BY DEF NoStats, Counters

(* The invariant in the form the steps use. *)
LEMMA IInvParts ==
  IInv <=> /\ cells \in [Index -> Byte]
           /\ IndicesOK
           /\ StatsOK
           /\ stats["write"] <= stats["read"] + rb_can_read
BY CountersAre DEF IInv, TypeOK, NeverMoreReadable, IndicesOK, StatsOK

(* The same for the state after a step. *)
LEMMA IInvPartsNext ==
  IInv' <=> /\ cells' \in [Index -> Byte]
            /\ IndicesOK'
            /\ stats' \in [Counters -> Nat]
            /\ stats'["write"] <= stats'["read"] + rb_can_read'
<1>1. (DOMAIN NoStats)' = Counters
  BY DEF NoStats, Counters
<1> QED BY <1>1, CountersAre DEF IInv, TypeOK, NeverMoreReadable, IndicesOK

(* The counters start at zero. *)
LEMMA NoStatsType ==
  /\ NoStats \in [Counters -> Nat]
  /\ NoStats["read"] = 0 /\ NoStats["write"] = 0
<1>1. NoStats = [c \in Counters |-> 0]
  BY SMT DEF NoStats, Counters
<1> QED BY <1>1 DEF NoStats, Counters

(* A buffer just created by rb_new satisfies the invariant. *)
LEMMA InitIInv == Init => IInv
<1> SUFFICES ASSUME Init PROVE IInv
  OBVIOUS
<1>1. IndicesOK
  BY IndexIsNat DEF Init, IndicesOK
<1>2. rb_can_read = 0
  BY DEF Init, rb_can_read, CanRead
<1>3. StatsOK /\ stats["write"] = 0 /\ stats["read"] = 0
  BY NoStatsType DEF Init, StatsOK
<1> QED BY <1>1, <1>2, <1>3, IInvParts, SMT DEF Init

(* A call that changes neither the store nor the indices, nor the counters *)
(* of bytes read and written.                                              *)
LEMMA LookingKeeps ==
  ASSUME IInv, UNCHANGED <<cells, indices>>, stats' \in [Counters -> Nat],
         stats'["read"] = stats["read"], stats'["write"] = stats["write"]
  PROVE  IInv'
<1>1. rb_can_read' = rb_can_read
  BY DEF rb_can_read, indices
<1>2. IndicesOK'
  BY IInvParts DEF IndicesOK, indices
<1> QED BY <1>1, <1>2, IInvParts, IInvPartsNext

(* A call that takes n bytes off and counts them.                          *)
LEMMA TakingKeeps ==
  ASSUME IInv, NEW count \in Nat \ {0}, NEW over \in BOOLEAN, over \/ rb_can_read > 0,
         MoveReadIndex(ReadAmount(count, over), over),
         stats' = Counted(stats, "read", "underflows", ReadAmount(count, over), count),
         UNCHANGED cells
  PROVE  IInv'
<1> DEFINE n == ReadAmount(count, over)
<1>1. n \in 1 .. Size /\ n \in Nat /\ (over \/ n <= rb_can_read)
  BY IInvParts, ReadAmountType, SMT, SizeAssumption
<1>2. IndicesOK' /\ rb_can_read' \in Nat /\ rb_can_read <= rb_can_read' + n
  BY <1>1, IInvParts, MoveReadIndexRoom
<1>3. rb_can_read \in Nat
  BY IInvParts, RoomType, SMT, SizeAssumption DEF IndicesOK, rb_can_read
<1>4. /\ stats' \in [Counters -> Nat]
      /\ stats'["read"] = stats["read"] + n
      /\ stats'["write"] = stats["write"]
  BY <1>1, IInvParts, CountedType
<1>5. stats["write"] \in Nat /\ stats["read"] \in Nat
  BY IInvParts, SMT DEF StatsOK, Counters
<1>6. stats'["write"] <= stats'["read"] + rb_can_read'
  BY <1>1, <1>2, <1>3, <1>4, <1>5, IInvParts, BalanceAfterRead
<1> QED BY <1>2, <1>4, <1>6, IInvParts, IInvPartsNext

(* A call that puts n bytes in, or makes n bytes of the store readable.    *)
LEMMA PuttingKeeps ==
  ASSUME IInv, NEW count \in Nat, NEW n \in 0 .. Size, n <= rb_can_write,
         MoveWriteIndex(n), stats' = Counted(stats, "write", "overflows", n, count),
         cells' \in [Index -> Byte]
  PROVE  IInv'
<1>1. n \in Nat
  BY SMT, SizeAssumption
<1>2. IndicesOK' /\ rb_can_read' \in Nat /\ rb_can_read + n <= rb_can_read'
  BY IInvParts, MoveWriteIndexRoom
<1>3. rb_can_read \in Nat
  BY IInvParts, RoomType, SMT, SizeAssumption DEF IndicesOK, rb_can_read
<1>4. /\ stats' \in [Counters -> Nat]
      /\ stats'["write"] = stats["write"] + n
      /\ stats'["read"] = stats["read"]
  BY <1>1, IInvParts, CountedType
<1>5. stats["write"] \in Nat /\ stats["read"] \in Nat
  BY IInvParts, SMT DEF StatsOK, Counters
<1>6. stats'["write"] <= stats'["read"] + rb_can_read'
  BY <1>1, <1>2, <1>3, <1>4, <1>5, IInvParts, BalanceAfterWrite
<1> QED BY <1>2, <1>4, <1>6, IInvPartsNext

(* What a write can do of what it was asked for. *)
LEMMA WriteAmountType ==
  ASSUME IndicesOK, NEW count \in Nat
  PROVE  /\ AtMost(count, rb_can_write) \in 0 .. Size
         /\ AtMost(count, rb_can_write) <= rb_can_write
         /\ AtMost(count, rb_can_write) <= count
<1>1. rb_can_write \in 0 .. Size
  BY RoomType DEF IndicesOK, rb_can_write
<1> QED BY <1>1, SMT, SizeAssumption DEF AtMost

------------------------------------------------------------------------------
(* One lemma per group of calls. *)

(* rb_read, rb_overread, the two advances of the read index, rb_drop. *)
LEMMA ReadingKeeps == ASSUME IInv, Reading PROVE IInv'
<1>1. ASSUME NEW count \in Nat, NEW over \in BOOLEAN, rb_generic_read(count, over)
      PROVE  IInv'
  <2>1. CASE UNCHANGED <<cells, indices, stats>>
    BY <2>1, IInvParts, LookingKeeps DEF StatsOK
  <2>2. CASE /\ count > 0 /\ (over \/ rb_can_read > 0)
             /\ MoveReadIndex(ReadAmount(count, over), over)
             /\ stats' = Counted(stats, "read", "underflows", ReadAmount(count, over), count)
             /\ UNCHANGED cells
    <3>1. count \in Nat \ {0}
      BY <2>2, SMT
    <3> QED BY <2>2, <3>1, TakingKeeps
  <2> QED BY <1>1, <2>1, <2>2 DEF rb_generic_read
<1>2. ASSUME NEW count \in Nat, NEW over \in BOOLEAN,
             rb_generic_advance_read_index(count, over)
      PROVE  IInv'
  <2>1. CASE UNCHANGED <<cells, indices, stats>>
    BY <2>1, IInvParts, LookingKeeps DEF StatsOK
  <2>2. CASE stats' = [stats EXCEPT !.underflows = @ + 1] /\ UNCHANGED <<cells, indices>>
    <3>1. /\ stats' \in [Counters -> Nat] /\ stats'["read"] = stats["read"]
          /\ stats'["write"] = stats["write"]
      BY <2>2, IInvParts, SMT DEF StatsOK, Counters
    <3> QED BY <2>2, <3>1, LookingKeeps
  <2>3. CASE /\ count > 0 /\ (over \/ rb_can_read > 0)
             /\ MoveReadIndex(ReadAmount(count, over), over)
             /\ stats' = Counted(stats, "read", "underflows", ReadAmount(count, over), count)
             /\ UNCHANGED cells
    <3>1. count \in Nat \ {0}
      BY <2>3, SMT
    <3> QED BY <2>3, <3>1, TakingKeeps
  <2> QED BY <1>2, <2>1, <2>2, <2>3 DEF rb_generic_advance_read_index
<1>3. CASE rb_read \/ rb_overread
  BY <1>1, <1>3, CallAssumption DEF rb_read, rb_overread
<1>4. CASE rb_advance_read_index \/ rb_overadvance_read_index
  BY <1>2, <1>4, CallAssumption DEF rb_advance_read_index, rb_overadvance_read_index
<1>5. CASE rb_drop
  <2>1. rb_can_read \in Nat
    BY IInvParts, RoomType, SMT, SizeAssumption DEF IndicesOK, rb_can_read
  <2> QED BY <1>2, <1>5, <2>1 DEF rb_drop
<1> QED BY <1>3, <1>4, <1>5 DEF Reading

(* rb_write, rb_advance_write_index and stores through the regions. *)
LEMMA WritingKeeps == ASSUME IInv, Writing PROVE IInv'
<1> USE IInvParts
<1>1. ASSUME NEW m \in Nat, NEW s \in [1 .. m -> Byte], rb_write(s)
      PROVE  IInv'
  <2>1. CASE UNCHANGED <<cells, indices, stats>>
    BY <2>1, LookingKeeps DEF StatsOK
  <2>2. CASE /\ cells' = CopyIn(cells, write_index,
                                Segments(write_index, AtMost(Len(s), rb_can_write)), s)
             /\ MoveWriteIndex(AtMost(Len(s), rb_can_write))
             /\ stats' = Counted(stats, "write", "overflows",
                                 AtMost(Len(s), rb_can_write), Len(s))
    <3>1. Len(s) = m
      BY SMT
    <3>2. /\ AtMost(m, rb_can_write) \in 0 .. Size
          /\ AtMost(m, rb_can_write) <= rb_can_write /\ AtMost(m, rb_can_write) <= m
      BY WriteAmountType
    <3>3. cells' \in [Index -> Byte]
      BY <2>2, <3>1, <3>2, CopyInStays DEF IndicesOK
    <3> QED BY <2>2, <3>1, <3>2, <3>3, PuttingKeeps
  <2> QED BY <1>1, <2>1, <2>2 DEF rb_write
<1>2. ASSUME NEW count \in Nat, rb_advance_write_index(count)
      PROVE  IInv'
  <2>1. CASE UNCHANGED <<cells, indices, stats>>
    BY <2>1, LookingKeeps DEF StatsOK
  <2>2. CASE stats' = [stats EXCEPT !.overflows = @ + 1] /\ UNCHANGED <<cells, indices>>
    <3>1. /\ stats' \in [Counters -> Nat] /\ stats'["read"] = stats["read"]
          /\ stats'["write"] = stats["write"]
      BY <2>2, SMT DEF StatsOK, Counters
    <3> QED BY <2>2, <3>1, LookingKeeps
  <2>3. CASE /\ MoveWriteIndex(AtMost(count, rb_can_write))
             /\ stats' = Counted(stats, "write", "overflows",
                                 AtMost(count, rb_can_write), count)
             /\ UNCHANGED cells
    <3>1. AtMost(count, rb_can_write) \in 0 .. Size /\ AtMost(count, rb_can_write) <= rb_can_write
      BY WriteAmountType
    <3> QED BY <2>3, <3>1, PuttingKeeps
  <2> QED BY <1>2, <2>1, <2>2, <2>3 DEF rb_advance_write_index
<1>3. ASSUME NEW b \in Byte, StoreInWriteRegion(b)
      PROVE  IInv'
  <2>1. PICK c : cells' = [cells EXCEPT ![c] = b]
    BY <1>3 DEF StoreInWriteRegion
  <2>2. cells' \in [Index -> Byte]
    BY <2>1
  <2>3. UNCHANGED <<read_index, write_index, last_was_write, stats>>
    BY <1>3 DEF StoreInWriteRegion, indices
  <2>4. rb_can_read' = rb_can_read /\ IndicesOK'
    BY <2>3 DEF rb_can_read, IndicesOK
  <2> QED BY <2>2, <2>3, <2>4, IInvPartsNext DEF StatsOK
<1> QED BY <1>1, <1>2, <1>3, CallAssumption DEF Writing

(* Searching and peeking count what they looked at, and change nothing else. *)
LEMMA PeekingKeeps == ASSUME IInv, Looking PROVE IInv'
<1> USE IInvParts
<1>1. rb_can_read \in Nat
  BY RoomType, SMT, SizeAssumption DEF IndicesOK, rb_can_read
<1>2. ASSUME NEW n \in Nat, stats' = [stats EXCEPT !.underflows = @ + 1]
               \/ stats' = [stats EXCEPT !.peek = @ + n]
               \/ stats' = [stats EXCEPT !.peek = @ + n, !.underflows = @ + 1],
             UNCHANGED <<cells, indices>>
      PROVE  IInv'
  <2> DEFINE Kept(s) == s \in [Counters -> Nat] /\ s["read"] = stats["read"]
                          /\ s["write"] = stats["write"]
  <2>1. Kept([stats EXCEPT !.underflows = @ + 1])
    BY SMT DEF StatsOK, Counters
  <2>2. Kept([stats EXCEPT !.peek = @ + n])
    BY SMT DEF StatsOK, Counters
  <2>3. Kept([stats EXCEPT !.peek = @ + n, !.underflows = @ + 1])
    <3>1. n < n + 1 /\ n + 1 \in Nat
      BY SMT
    <3>2. Counted(stats, "peek", "underflows", n, n + 1) =
            [stats EXCEPT !.peek = @ + n, !.underflows = @ + 1]
      BY <3>1 DEF Counted
    <3>3. Kept(Counted(stats, "peek", "underflows", n, n + 1))
      BY <3>1, CountedType
    <3> HIDE DEF Kept
    <3> QED BY <3>2, <3>3
  <2>4. Kept(stats')
    BY <1>2, <2>1, <2>2, <2>3
  <2> QED BY <1>2, <2>4, LookingKeeps
<1>3. ASSUME NEW count \in Nat, NEW offset \in Nat, rb_peek_at(count, offset)
      PROVE  IInv'
  <2>1. CASE UNCHANGED <<cells, indices, stats>>
    BY <2>1, LookingKeeps DEF StatsOK
  <2>2. CASE stats' = [stats EXCEPT !.underflows = @ + 1]
    BY <1>2, <1>3, <2>2 DEF rb_peek_at
  <2>3. CASE /\ rb_can_read > offset
             /\ stats' = Counted(stats, "peek", "underflows",
                                 AtMost(count, rb_can_read - offset), count)
    <3>1. AtMost(count, rb_can_read - offset) \in Nat
      BY <1>1, <2>3, SMT DEF AtMost
    <3>2. /\ stats' \in [Counters -> Nat] /\ stats'["read"] = stats["read"]
          /\ stats'["write"] = stats["write"]
      BY <2>3, <3>1, CountedType
    <3> QED BY <1>3, <3>2, LookingKeeps DEF rb_peek_at
  <2> QED BY <1>3, <2>1, <2>2, <2>3 DEF rb_peek_at
<1>4. ASSUME NEW offset \in Nat, rb_peek_byte_at(offset)
      PROVE  IInv'
  BY <1>2, <1>4 DEF rb_peek_byte_at
<1>5. ASSUME NEW b \in Byte, rb_find_byte(b)
      PROVE  IInv'
  <2>1. CASE stats' = [stats EXCEPT !.peek = @ + rb_can_read, !.underflows = @ + 1]
    BY <1>1, <1>2, <1>5, <2>1 DEF rb_find_byte
  <2>2. CASE \E first \in 0 .. rb_can_read - 1 : stats' = [stats EXCEPT !.peek = @ + first + 1]
    <3>1. PICK first \in 0 .. rb_can_read - 1 : stats' = [stats EXCEPT !.peek = @ + first + 1]
      BY <2>2
    <3>2. /\ stats' \in [Counters -> Nat] /\ stats'["read"] = stats["read"]
          /\ stats'["write"] = stats["write"]
      BY <3>1, SMT DEF StatsOK, Counters
    <3> QED BY <1>5, <3>2, LookingKeeps DEF rb_find_byte
  <2> QED BY <1>5, <2>1, <2>2 DEF rb_find_byte
<1>6. 0 .. Size \subseteq Nat
  BY SMT
<1> QED BY <1>3, <1>4, <1>5, <1>6, CallAssumption DEF Looking

(* rb_reset_stats and rb_reset. *)
LEMMA ResettingKeeps == ASSUME IInv, rb_reset_stats \/ rb_reset PROVE IInv'
<1>1. cells' = cells /\ stats' = NoStats
  BY DEF rb_reset_stats, rb_reset
<1>2. IndicesOK' /\ rb_can_read' \in 0 .. Size
  <2>1. IndicesOK'
    BY IndexIsNat, IInvParts DEF rb_reset_stats, rb_reset, indices, IndicesOK
  <2> QED BY <2>1, RoomType DEF IndicesOK, rb_can_read
<1>3. stats'["write"] <= stats'["read"] + rb_can_read'
  <2>1. rb_can_read' \in Nat /\ stats'["write"] = 0 /\ stats'["read"] = 0
    BY <1>1, <1>2, NoStatsType, SMT, SizeAssumption
  <2>2. ASSUME NEW a \in Nat PROVE 0 <= 0 + a
    BY SMT
  <2> QED BY <2>1, <2>2
<1> QED BY <1>1, <1>2, <1>3, NoStatsType, IInvParts, IInvPartsNext

(* Every call keeps the invariant. *)
LEMMA NextKeeps == IInv /\ [Next]_vars => IInv'
<1> SUFFICES ASSUME IInv, [Next]_vars PROVE IInv'
  OBVIOUS
<1>1. CASE Reading
  BY <1>1, ReadingKeeps
<1>2. CASE Writing
  BY <1>2, WritingKeeps
<1>3. CASE Looking
  BY <1>3, PeekingKeeps
<1>4. CASE rb_reset_stats \/ rb_reset
  BY <1>4, ResettingKeeps
<1>5. CASE UNCHANGED vars
  BY <1>5, IInvParts, LookingKeeps DEF vars, StatsOK
<1> QED BY <1>1, <1>2, <1>3, <1>4, <1>5 DEF Next

(* The ring buffer's indices never leave the byte store and its counters   *)
(* stay natural numbers, whatever its size and whatever counts are passed  *)
(* to rb_read, rb_write and the others (rb.h:754-919, 1220-1337).          *)
THEOREM TypeCorrect == Spec => []TypeOK
<1>1. Init => IInv
  BY InitIInv
<1>2. IInv /\ [Next]_vars => IInv'
  BY NextKeeps
<1>3. IInv => TypeOK
  BY DEF IInv
<1> QED BY <1>1, <1>2, <1>3, PTL DEF Spec

(* No byte counted by total_bytes_write is lost: it is readable or counted *)
(* by total_bytes_read, for every size and every sequence of calls.        *)
THEOREM CountersKeepUp == Spec => []NeverMoreReadable
<1>1. Init => IInv
  BY InitIInv
<1>2. IInv /\ [Next]_vars => IInv'
  BY NextKeeps
<1>3. IInv => NeverMoreReadable
  BY DEF IInv
<1> QED BY <1>1, <1>2, <1>3, PTL DEF Spec

------------------------------------------------------------------------------
(* The queue behind the indices.                                           *)

(* The readable bytes in terms of a store and the indices into it. *)
ReadableOf(c, r, w, f) == CopyOut(c, r, Segments(r, CanRead(r, w, f)))

(* Readable is that of the current state, and of the next one. *)
LEMMA ReadableNow ==
  /\ Readable = ReadableOf(cells, read_index, write_index, last_was_write)
  /\ Readable' = ReadableOf(cells', read_index', write_index', last_was_write')
  /\ rb_can_read' = CanRead(read_index', write_index', last_was_write')
BY DEF Readable, ReadableOf, rb_can_read

(* The queue is as long as rb_can_read says. *)
LEMMA ReadableIs ==
  ASSUME NEW c \in [Index -> Byte], NEW r \in Index, NEW w \in Index, NEW f \in BOOLEAN
  PROVE  /\ IsCopy(ReadableOf(c, r, w, f), Byte, c, r, CanRead(r, w, f))
         /\ ReadableOf(c, r, w, f) \in Seq(Byte)
         /\ Len(ReadableOf(c, r, w, f)) = CanRead(r, w, f)
<1>1. CanRead(r, w, f) \in 0 .. Size
  BY RoomType, Zenon
<1>2. IsCopy(ReadableOf(c, r, w, f), Byte, c, r, CanRead(r, w, f))
  BY <1>1, CopyOutSeq, Zenon DEF ReadableOf
<1> QED BY <1>2, Zenon DEF IsCopy

(* With nothing to read it is empty. *)
LEMMA ReadableEmpty ==
  ASSUME NEW c \in [Index -> Byte], NEW r \in Index, NEW w \in Index, NEW f \in BOOLEAN,
         CanRead(r, w, f) = 0
  PROVE  ReadableOf(c, r, w, f) = << >>
<1>1. ReadableOf(c, r, w, f) \in Seq(Byte) /\ Len(ReadableOf(c, r, w, f)) = 0
  BY ReadableIs, Zenon
<1> QED BY <1>1, EmptySeq

(* The readable cells, counted from the write index. *)
LEMMA ReadableCell ==
  ASSUME NEW r \in Index, NEW w \in Index, NEW m \in 0 .. Size, w = Wrap(r + m),
         NEW n \in 0 .. Size, m + n <= Size, NEW i \in 1 .. m
  PROVE  \E j \in 0 .. Size - 1 : n <= j /\ Wrap(r + (i - 1)) = Wrap(w + j)
<1> DEFINE j == Size - m + (i - 1)
<1>1. j \in 0 .. Size - 1 /\ n <= j /\ Size <= m + j /\ m + j - Size = i - 1
  BY SMT, SizeAssumption
<1>2. Wrap(Wrap(r + m) + j) = Wrap(r + (m + j - Size))
  BY <1>1, SMT, SizeAssumption DEF Wrap, Index
<1> QED BY <1>1, <1>2

(* What is left of a sequence without its first n elements. *)
RestOf(t, n) == SubSeq(t, n + 1, Len(t))

(* A sequence and k bytes after it. *)
Overrun(t, k, whole) == \E junk \in [1 .. k -> Byte] : whole = t \o junk

(* Taking n bytes off the front: the bytes copied out, and those left.     *)
LEMMA ReadableFront ==
  ASSUME NEW c \in [Index -> Byte], NEW r \in Index, NEW w \in Index, NEW f \in BOOLEAN,
         NEW n \in 0 .. CanRead(r, w, f)
  PROVE  CopyOut(c, r, Segments(r, n)) = SubSeq(ReadableOf(c, r, w, f), 1, n)
<1>1. CanRead(r, w, f) \in 0 .. Size /\ n \in 0 .. Size
  BY RoomType, SMT, SizeAssumption
<1>2. IsCopy(CopyOut(c, r, Segments(r, n)), Byte, c, r, n)
  BY <1>1, CopyOutSeq, Zenon
<1>3. IsCopy(ReadableOf(c, r, w, f), Byte, c, r, CanRead(r, w, f))
  BY ReadableIs, Zenon
<1> QED BY <1>1, <1>2, <1>3, FrontCopy, Zenon

(* What is readable is its first m bytes and the rest.                     *)
LEMMA ReadableRest ==
  ASSUME NEW c \in [Index -> Byte], NEW r \in Index, NEW w \in Index, NEW f \in BOOLEAN,
         NEW n \in 1 .. Size, n <= CanRead(r, w, f)
  PROVE  ReadableOf(c, Wrap(r + n), w, FALSE) = RestOf(ReadableOf(c, r, w, f), n)
<1> DEFINE r2 == Wrap(r + n)
           m == CanRead(r, w, f)
           k == CanRead(r2, w, FALSE)
<1>0. r2 \in Index
  BY AdvanceWraps, SMT, SizeAssumption
<1>1. m \in 0 .. Size /\ k \in 0 .. Size
  BY <1>0, RoomType, Zenon
<1>2. k = m - n
  BY RoomAfterRead, Zenon
<1>3. Len(ReadableOf(c, r, w, f)) = m
  BY ReadableIs, Zenon
<1>4. /\ IsCopy(ReadableOf(c, r, w, f), Byte, c, r, m)
      /\ IsCopy(ReadableOf(c, r2, w, FALSE), Byte, c, r2, k)
  BY <1>0, ReadableIs, Zenon
<1> HIDE DEF m, k
<1>5. n \in 0 .. m
  BY <1>1, SMT, SizeAssumption DEF m
<1>6. ReadableOf(c, r2, w, FALSE) = SubSeq(ReadableOf(c, r, w, f), n + 1, m)
  BY <1>0, <1>1, <1>2, <1>4, <1>5, RestCopy
<1> QED BY <1>2, <1>3, <1>6, Zenon DEF m, k, RestOf

(* Going past what there is: the queue, and bytes that are not in it.      *)
LEMMA ReadableOver ==
  ASSUME NEW c \in [Index -> Byte], NEW r \in Index, NEW w \in Index, NEW f \in BOOLEAN,
         NEW n \in 1 .. Size, CanRead(r, w, f) < n
  PROVE  Overrun(ReadableOf(c, r, w, f), n - CanRead(r, w, f), CopyOut(c, r, Segments(r, n)))
<1> DEFINE m == CanRead(r, w, f)
           o == n - m
<1>1. m \in 0 .. Size
  BY RoomType, Zenon
<1>4. IsCopy(ReadableOf(c, r, w, f), Byte, c, r, m)
  BY ReadableIs, Zenon
<1> HIDE DEF m
<1>2. o \in 0 .. Size /\ n = m + o /\ n \in 0 .. Size /\ o \in 1 .. Size - m
  BY <1>1, SMT, SizeAssumption DEF m
<1>3. w = Wrap(r + m)
  BY WriteIndexAhead DEF m
<1> HIDE DEF o
<1> DEFINE junk == CopyOut(c, w, Segments(w, o))
<1>5. junk \in [1 .. o -> Byte] /\ IsCopy(junk, Byte, c, w, o)
  BY <1>2, CopyOutSeq, Zenon
<1>6. IsCopy(CopyOut(c, r, Segments(r, n)), Byte, c, r, n)
  BY <1>2, CopyOutSeq, Zenon
<1> HIDE DEF junk
<1>7. CopyOut(c, r, Segments(r, n)) = ReadableOf(c, r, w, f) \o junk
  <2>1. Follow(r, m, w, o, n)
    BY <1>2, <1>3, Zenon DEF Follow
  <2> DEFINE whole == CopyOut(c, r, Segments(r, n))
             queue == ReadableOf(c, r, w, f)
  <2>2. /\ IsCopy(whole, Byte, c, r, n) /\ IsCopy(queue, Byte, c, r, m)
        /\ IsCopy(junk, Byte, c, w, o)
    BY <1>4, <1>5, <1>6
  <2>3. m \in 0 .. Size /\ o \in 0 .. Size /\ n \in 0 .. Size
    BY <1>1, <1>2
  <2> HIDE DEF whole, queue
  <2>4. whole = queue \o junk
    BY <2>1, <2>2, <2>3, JoinedCopy
  <2> QED BY <2>4 DEF whole, queue
<1>8. Overrun(ReadableOf(c, r, w, f), o, CopyOut(c, r, Segments(r, n)))
  BY <1>5, <1>7, Zenon DEF Overrun
<1> QED BY <1>8, Zenon DEF m, o

(* A store beyond the readable bytes does not show in them.                *)
LEMMA ReadableSame ==
  ASSUME NEW c \in [Index -> Byte], NEW c2 \in [Index -> Byte],
         NEW r \in Index, NEW w \in Index, NEW f \in BOOLEAN,
         Agree(c2, c, r, CanRead(r, w, f))
  PROVE  ReadableOf(c2, r, w, f) = ReadableOf(c, r, w, f)
<1> DEFINE m == CanRead(r, w, f)
<1>1. m \in Nat
  BY RoomType, SMT, SizeAssumption
<1>2. /\ IsCopy(ReadableOf(c, r, w, f), Byte, c, r, m)
      /\ IsCopy(ReadableOf(c2, r, w, f), Byte, c2, r, m)
  BY ReadableIs, Zenon
<1> HIDE DEF m
<1>3. \A i \in 1 .. m : ReadableOf(c2, r, w, f)[i] = ReadableOf(c, r, w, f)[i]
  BY <1>2, Zenon DEF IsCopy, Agree, m
<1> QED BY <1>1, <1>2, <1>3, SameCopy, Zenon DEF IsCopy

(* One sequence is two others, one after the other. *)
Joined(whole, t, u) == whole = t \o u

(* From n bytes after the place w on, the store is as it was. *)
KeptFrom(c2, c, w, n) ==
  \A j \in 0 .. Size - 1 : n <= j => c2[Wrap(w + j)] = c[Wrap(w + j)]

(* Moving the write index over n bytes of a store that agrees with the old *)
(* one on what was readable appends those n bytes.                         *)
LEMMA ReadableMore ==
  ASSUME NEW c \in [Index -> Byte], NEW c2 \in [Index -> Byte],
         NEW r \in Index, NEW w \in Index, NEW f \in BOOLEAN,
         NEW n \in 1 .. Size, n <= CanWrite(r, w, f),
         KeptFrom(c2, c, w, n)
  PROVE  Joined(ReadableOf(c2, r, Wrap(w + n), TRUE),
                ReadableOf(c, r, w, f), CopyOut(c2, w, Segments(w, n)))
<1> DEFINE w2 == Wrap(w + n)
           m == CanRead(r, w, f)
           k == CanRead(r, w2, TRUE)
<1>0. w2 \in Index
  BY AdvanceWraps, SMT, SizeAssumption
<1>1. m \in 0 .. Size /\ k \in 0 .. Size
  BY <1>0, RoomType, Zenon
<1>2. CanWrite(r, w, f) \in 0 .. Size /\ m + CanWrite(r, w, f) = Size
  BY RoomType, Zenon
<1>3. n \in 0 .. Size /\ n # 0
  BY SMT, SizeAssumption
<1>4. k = m + n
  <2>1. IF n = 0 THEN CanRead(r, w, f) <= CanRead(r, Wrap(w + n), TRUE)
                 ELSE CanRead(r, Wrap(w + n), TRUE) = CanRead(r, w, f) + n
    BY <1>3, RoomAfterWrite, Zenon
  <2> QED BY <1>3, <2>1, Zenon
<1>5. w = Wrap(r + m)
  BY WriteIndexAhead, Zenon
<1>6. /\ IsCopy(ReadableOf(c2, r, w, f), Byte, c2, r, m)
      /\ IsCopy(ReadableOf(c2, r, w2, TRUE), Byte, c2, r, k)
  BY <1>0, ReadableIs, Zenon
<1>7. IsCopy(CopyOut(c2, w, Segments(w, n)), Byte, c2, w, n)
  BY <1>3, CopyOutSeq, Zenon
<1> HIDE DEF m, k
<1>8. m + n <= Size
  BY <1>1, <1>2, SMT, SizeAssumption
<1>9. Agree(c2, c, r, m)
  <2> SUFFICES ASSUME NEW i \in 1 .. m PROVE c2[Wrap(r + (i - 1))] = c[Wrap(r + (i - 1))]
    BY DEF Agree
  <2>1. \E j \in 0 .. Size - 1 : n <= j /\ Wrap(r + (i - 1)) = Wrap(w + j)
    BY <1>1, <1>3, <1>5, <1>8, ReadableCell
  <2> QED BY <2>1, Zenon DEF KeptFrom
<1>10. ReadableOf(c2, r, w, f) = ReadableOf(c, r, w, f)
  BY <1>9, ReadableSame DEF m
<1>11. Follow(r, m, w, n, k)
  BY <1>4, <1>5, Zenon DEF Follow
<1>12. ReadableOf(c2, r, w2, TRUE) = ReadableOf(c2, r, w, f) \o CopyOut(c2, w, Segments(w, n))
  <2> DEFINE whole == ReadableOf(c2, r, w2, TRUE)
             queue == ReadableOf(c2, r, w, f)
             more == CopyOut(c2, w, Segments(w, n))
  <2>1. /\ IsCopy(whole, Byte, c2, r, k) /\ IsCopy(queue, Byte, c2, r, m)
        /\ IsCopy(more, Byte, c2, w, n)
    BY <1>6, <1>7
  <2> HIDE DEF whole, queue, more
  <2>2. whole = queue \o more
    BY <1>1, <1>3, <1>11, <2>1, JoinedCopy
  <2> QED BY <2>2 DEF whole, queue, more
<1> QED BY <1>10, <1>12, Zenon DEF Joined

(* The cells of the write regions hold nothing readable. *)
LEMMA RegionIsFree ==
  ASSUME NEW r \in Index, NEW w \in Index, NEW f \in BOOLEAN,
         NEW i \in 1 .. CanRead(r, w, f),
         NEW x \in (w .. w + Segments(w, CanWrite(r, w, f))[1] - 1)
                     \cup (0 .. Segments(w, CanWrite(r, w, f))[2] - 1)
  PROVE  Wrap(r + (i - 1)) # x
<1>1. CASE f
  BY <1>1, SMT, SizeAssumption DEF CanRead, CanWrite, Segments, Wrap, Index
<1>2. CASE ~f
  BY <1>2, SMT, SizeAssumption DEF CanRead, CanWrite, Segments, Wrap, Index
<1> QED BY <1>1, <1>2

------------------------------------------------------------------------------
(* The steps of the queue, in terms of the ring buffer's variables.        *)

(* What both modules say a call gives is the same. *)
LEMMA SameGives ==
  /\ \A n, data : Fifo!Gives(n, data) <=> Gives(n, data)
  /\ Fifo!Nothing = Nothing
BY DEF Fifo!Gives, Fifo!Nothing, Gives, Nothing

(* A count of none and no bytes is nothing. *)
LEMMA GivesNothing == Gives(0, << >>) <=> result' = Nothing
<1>1. /\ Nothing \in [{"count", "data", "offset"} -> {0, << >>}]
      /\ Nothing["count"] = 0 /\ Nothing["data"] = << >>
  BY DEF Nothing
<1>2. \A i \in {"count", "data", "offset"} :
        [Nothing EXCEPT !.count = 0, !.data = << >>][i] = Nothing[i]
  BY <1>1
<1>3. [Nothing EXCEPT !.count = 0, !.data = << >>] = Nothing
  BY <1>1, <1>2
<1> QED BY <1>3, Zenon DEF Gives

(* The n oldest bytes leave. *)
LEMMA TakeStep ==
  ASSUME NEW n \in 0 .. Len(Readable),
         Readable' = SubSeq(Readable, n + 1, Len(Readable)),
         Gives(n, SubSeq(Readable, 1, n)) \/ Gives(n, << >>)
  PROVE  Fifo!Take
BY SameGives, Zenon DEF Fifo!Take, Fifo!Rest, Fifo!Front

(* All of them leave, and more. *)
LEMMA TakeOverStep ==
  ASSUME NEW n, NEW k \in 1 .. Size - Len(Readable), n = Len(Readable) + k, Readable' = << >>,
         (\E junk \in [1 .. k -> Byte] : Gives(n, Readable \o junk)) \/ Gives(n, << >>)
  PROVE  Fifo!TakeOver
BY SameGives, Zenon DEF Fifo!TakeOver, Fifo!Bytes

(* n bytes come in. *)
LEMMA PutStep ==
  ASSUME NEW n \in 0 .. Size - Len(Readable), NEW s \in [1 .. n -> Byte],
         Readable' = Readable \o s, Gives(n, << >>)
  PROVE  Fifo!Put
BY SameGives, Zenon DEF Fifo!Put, Fifo!Bytes

(* n bytes are looked at. *)
LEMMA LookStep ==
  ASSUME NEW n \in 0 .. Len(Readable), NEW offset \in 0 .. Len(Readable) - n,
         Gives(n, SubSeq(Readable, offset + 1, offset + n)), Readable' = Readable
  PROVE  Fifo!Look
BY SameGives, Zenon DEF Fifo!Look

(* A call that does nothing takes no bytes. *)
LEMMA NothingStep ==
  ASSUME IInv, UNCHANGED <<cells, indices>>, result' = Nothing
  PROVE  Fifo!Take
<1>1. Readable \in Seq(Byte)
  BY IInvParts, ReadableNow, ReadableIs DEF IndicesOK
<1>2. Readable' = Readable
  BY DEF Readable, rb_can_read, indices
<1>3. Len(Readable) \in Nat /\ SubSeq(Readable, 0 + 1, Len(Readable)) = Readable
  BY <1>1, SMT
<1>4. 0 \in 0 .. Len(Readable)
  BY <1>3, SMT
<1>5. Gives(0, << >>)
  BY GivesNothing
<1> QED BY <1>2, <1>3, <1>4, <1>5, TakeStep

------------------------------------------------------------------------------
(* Every call is a step of the queue. *)

(* Moving the read index over bytes that are there leaves those after them. *)
LEMMA MoveReadIndexLeaves ==
  ASSUME IInv, NEW over \in BOOLEAN, NEW n \in 1 .. Size, n <= rb_can_read,
         MoveReadIndex(n, over), UNCHANGED cells
  PROVE  /\ CopyOut(cells, read_index, Segments(read_index, n)) = SubSeq(Readable, 1, n)
         /\ Readable' = RestOf(Readable, n)
<1>1. /\ cells \in [Index -> Byte] /\ read_index \in Index /\ write_index \in Index
      /\ last_was_write \in BOOLEAN
  BY IInvParts DEF IndicesOK
<1>2. rb_can_read \in 0 .. Size
  BY <1>1, RoomType DEF rb_can_read
<1>3. /\ read_index' = Wrap(read_index + n) /\ write_index' = write_index
      /\ last_was_write' = FALSE /\ n \in 0 .. rb_can_read
  BY <1>1, <1>2, AdvanceWraps, SMT, SizeAssumption DEF MoveReadIndex
<1>4. CopyOut(cells, read_index, Segments(read_index, n)) = SubSeq(Readable, 1, n)
  BY <1>1, <1>3, ReadableFront, ReadableNow DEF rb_can_read
<1>5. ReadableOf(cells, Wrap(read_index + n), write_index, FALSE)
        = RestOf(ReadableOf(cells, read_index, write_index, last_was_write), n)
  <2>1. n <= CanRead(read_index, write_index, last_was_write)
    BY DEF rb_can_read
  <2>2. \A i \in 1 .. Size :
          i <= CanRead(read_index, write_index, last_was_write)
            => ReadableOf(cells, Wrap(read_index + i), write_index, FALSE)
                 = RestOf(ReadableOf(cells, read_index, write_index, last_was_write), i)
    BY <1>1, ReadableRest, Zenon
  <2> QED BY <2>1, <2>2, Zenon
<1> QED BY <1>3, <1>4, <1>5, ReadableNow

(* Moving the read index takes bytes off the front, as many as it moves    *)
(* over, or all there are.                                                 *)
LEMMA MoveReadIndexTakes ==
  ASSUME IInv, NEW count \in Nat \ {0}, NEW over \in BOOLEAN, over \/ rb_can_read > 0,
         NEW n, n = ReadAmount(count, over), MoveReadIndex(n, over), UNCHANGED cells,
         Gives(n, CopyOut(cells, read_index, Segments(read_index, n))) \/ Gives(n, << >>)
  PROVE  Fifo!Take \/ Fifo!TakeOver
<1> DEFINE q == Readable
<1>1. /\ n \in 1 .. Size /\ (~over => n <= rb_can_read)
  BY IInvParts, ReadAmountType
<1>2. /\ cells \in [Index -> Byte] /\ read_index \in Index /\ write_index \in Index
      /\ last_was_write \in BOOLEAN
  BY IInvParts DEF IndicesOK
<1>3. read_index' = Wrap(read_index + n) /\ read_index' \in Index
  BY <1>1, <1>2, AdvanceWraps, SMT, SizeAssumption DEF MoveReadIndex
<1>4. rb_can_read \in 0 .. Size /\ Len(q) = rb_can_read /\ q \in Seq(Byte)
  BY <1>2, RoomType, ReadableNow, ReadableIs DEF rb_can_read
<1>5. CASE n <= rb_can_read
  <2>1. n \in 0 .. Len(q)
    BY <1>1, <1>4, <1>5, SMT, SizeAssumption
  <2>2. /\ CopyOut(cells, read_index, Segments(read_index, n)) = SubSeq(q, 1, n)
        /\ q' = SubSeq(q, n + 1, Len(q))
    BY <1>1, <1>5, MoveReadIndexLeaves DEF RestOf
  <2> QED BY <2>1, <2>2, TakeStep
<1>6. CASE ~(n <= rb_can_read)
  <2>1. write_index' = read_index' /\ last_was_write' = FALSE /\ rb_can_read < n
    BY <1>1, <1>4, <1>6, SMT, SizeAssumption DEF MoveReadIndex
  <2>2. q' = << >>
    <3>1. CanRead(read_index', write_index', last_was_write') = 0
      BY <2>1 DEF CanRead
    <3> QED BY <1>2, <1>3, <2>1, <3>1, ReadableEmpty, ReadableNow
  <2> DEFINE k == n - Len(q)
  <2>3. k \in 1 .. Size - Len(q) /\ n = Len(q) + k
    BY <1>1, <1>4, <2>1, SMT, SizeAssumption
  <2>4. \E junk \in [1 .. k -> Byte] :
          CopyOut(cells, read_index, Segments(read_index, n)) = q \o junk
    <3>1. Overrun(ReadableOf(cells, read_index, write_index, last_was_write),
                  n - CanRead(read_index, write_index, last_was_write),
                  CopyOut(cells, read_index, Segments(read_index, n)))
      BY <1>1, <1>2, <2>1, ReadableOver DEF rb_can_read
    <3>2. n - CanRead(read_index, write_index, last_was_write) = k
      BY <1>4 DEF rb_can_read
    <3> HIDE DEF k
    <3> QED BY <3>1, <3>2, ReadableNow, Zenon DEF Overrun
  <2> QED BY <2>2, <2>3, <2>4, TakeOverStep, Zenon
<1> QED BY <1>5, <1>6

(* rb_read, rb_overread, the two advances of the read index, rb_drop. *)
LEMMA ReadingTakes == ASSUME IInv, Reading PROVE Fifo!Take \/ Fifo!TakeOver
<1>1. ASSUME NEW count \in Nat, NEW over \in BOOLEAN,
             rb_generic_read(count, over) \/ rb_generic_advance_read_index(count, over)
      PROVE  Fifo!Take \/ Fifo!TakeOver
  <2>1. CASE UNCHANGED <<cells, indices>> /\ Gives(0, << >>)
    <3>1. result' = Nothing
      BY <2>1, GivesNothing
    <3> QED BY <2>1, <3>1, NothingStep
  <2>2. CASE /\ count > 0 /\ (over \/ rb_can_read > 0)
             /\ MoveReadIndex(ReadAmount(count, over), over)
             /\ UNCHANGED cells
             /\ \/ Gives(ReadAmount(count, over),
                         CopyOut(cells, read_index,
                                 Segments(read_index, ReadAmount(count, over))))
                \/ Gives(ReadAmount(count, over), << >>)
    <3>1. count \in Nat \ {0}
      BY <2>2, SMT
    <3> QED BY <2>2, <3>1, MoveReadIndexTakes
  <2> QED BY <1>1, <2>1, <2>2 DEF rb_generic_read, rb_generic_advance_read_index
<1>2. CASE rb_drop
  <2>1. rb_can_read \in Nat
    BY IInvParts, RoomType, SMT, SizeAssumption DEF IndicesOK, rb_can_read
  <2> QED BY <1>1, <1>2, <2>1 DEF rb_drop
<1> QED BY <1>1, <1>2, CallAssumption
     DEF Reading, rb_read, rb_overread, rb_advance_read_index, rb_overadvance_read_index

(* Moving the write index over n bytes of the store puts these in.         *)
LEMMA MoveWriteIndexPuts ==
  ASSUME IInv, NEW n \in 1 .. Size, n <= rb_can_write, MoveWriteIndex(n),
         cells' \in [Index -> Byte], KeptFrom(cells', cells, write_index, n)
  PROVE  /\ Readable' = Readable \o CopyOut(cells', write_index, Segments(write_index, n))
         /\ n \in 0 .. Size - Len(Readable)
<1>1. /\ cells \in [Index -> Byte] /\ read_index \in Index /\ write_index \in Index
      /\ last_was_write \in BOOLEAN
  BY IInvParts DEF IndicesOK
<1>2. /\ write_index' = Wrap(write_index + n) /\ read_index' = read_index
      /\ last_was_write' = TRUE
  BY <1>1, AdvanceWraps, SMT, SizeAssumption DEF MoveWriteIndex
<1>3. n <= CanWrite(read_index, write_index, last_was_write)
  BY DEF rb_can_write
<1>4. ReadableOf(cells', read_index, Wrap(write_index + n), TRUE)
        = ReadableOf(cells, read_index, write_index, last_was_write)
            \o CopyOut(cells', write_index, Segments(write_index, n))
  <2>1. \A i \in 1 .. Size :
          /\ i <= CanWrite(read_index, write_index, last_was_write)
          /\ KeptFrom(cells', cells, write_index, i)
          => Joined(ReadableOf(cells', read_index, Wrap(write_index + i), TRUE),
                    ReadableOf(cells, read_index, write_index, last_was_write),
                    CopyOut(cells', write_index, Segments(write_index, i)))
    BY <1>1, ReadableMore, Zenon
  <2> QED BY <1>3, <2>1, Zenon DEF Joined
<1>5. n \in 0 .. Size - Len(Readable)
  <2>1. /\ rb_can_read \in 0 .. Size /\ rb_can_write \in 0 .. Size
        /\ rb_can_read + rb_can_write = Size
    BY <1>1, RoomType DEF rb_can_read, rb_can_write
  <2>2. Len(Readable) = rb_can_read
    BY <1>1, ReadableNow, ReadableIs DEF rb_can_read
  <2> QED BY <2>1, <2>2, SMT, SizeAssumption
<1> QED BY <1>2, <1>4, <1>5, ReadableNow, Zenon

(* rb_write puts in the first of the caller's bytes. *)
LEMMA WritePuts ==
  ASSUME IInv, NEW m \in Nat, NEW s \in [1 .. m -> Byte], NEW n \in 1 .. Size,
         n <= rb_can_write, n <= m, MoveWriteIndex(n),
         cells' = CopyIn(cells, write_index, Segments(write_index, n), s)
  PROVE  Readable' = Readable \o SubSeq(s, 1, n) /\ n \in 0 .. Size - Len(Readable)
<1>1. cells \in [Index -> Byte] /\ write_index \in Index
  BY IInvParts DEF IndicesOK
<1>2. n \in 0 .. Size
  BY SMT, SizeAssumption
<1>3. cells' \in [Index -> Byte]
  BY <1>1, <1>2, CopyInStays
<1>4. KeptFrom(cells', cells, write_index, n)
  <2>1. KeptFrom(CopyIn(cells, write_index, Segments(write_index, n), s), cells, write_index, n)
    BY <1>1, <1>2, CopyInKeeps, Zenon DEF KeptFrom
  <2> QED BY <2>1
<1> DEFINE t == CopyOut(cells', write_index, Segments(write_index, n))
<1>5. IsCopy(t, Byte, CopyIn(cells, write_index, Segments(write_index, n), s), write_index, n)
  BY <1>1, <1>2, <1>3, CopyOutSeq
<1>6. Readable' = Readable \o t /\ n \in 0 .. Size - Len(Readable)
  BY <1>3, <1>4, MoveWriteIndexPuts
<1> HIDE DEF t
<1>7. t = SubSeq(s, 1, n)
  BY <1>1, <1>2, <1>5, CopyInOut, Zenon
<1> QED BY <1>6, <1>7

(* The first n of a caller's bytes. *)
LEMMA FirstBytes ==
  ASSUME NEW m \in Nat, NEW s \in [1 .. m -> Byte], NEW n \in 1 .. m
  PROVE  SubSeq(s, 1, n) \in [1 .. n -> Byte]
<1>1. s \in Seq(Byte) /\ Len(s) = m
  BY FunctionIsSeq
<1>2. SubSeq(s, 1, n) \in Seq(Byte) /\ Len(SubSeq(s, 1, n)) = n
  BY <1>1, SMT
<1> QED BY <1>2, LenProperties

(* The readable cells are in the store. *)
LEMMA ReadableInStore ==
  ASSUME NEW r \in Index, NEW w \in Index, NEW f \in BOOLEAN, NEW i \in 1 .. CanRead(r, w, f)
  PROVE  Wrap(r + (i - 1)) \in Index
<1>1. CanRead(r, w, f) \in 0 .. Size
  BY RoomType, Zenon
<1> HIDE DEF CanRead
<1> QED BY <1>1, SMT, SizeAssumption DEF Wrap, Index

(* A caller of rb_write passes at least a byte: one of none would make an  *)
(* empty buffer a full one (rb.h:877).                                     *)
SomethingToWrite == 0 \notin WriteCounts

(* rb_write, rb_advance_write_index and stores through the regions. *)
LEMMA WritingPuts ==
  ASSUME IInv, SomethingToWrite, Writing
  PROVE  Fifo!Put \/ Fifo!Take \/ UNCHANGED <<Readable, result>>
<1>1. ASSUME NEW m \in Nat \ {0}, NEW s \in [1 .. m -> Byte], rb_write(s)
      PROVE  Fifo!Put \/ Fifo!Take
  <2>1. CASE UNCHANGED <<cells, indices>> /\ Gives(0, << >>)
    BY <2>1, GivesNothing, NothingStep
  <2>2. CASE /\ rb_can_write > 0
             /\ cells' = CopyIn(cells, write_index,
                                Segments(write_index, AtMost(Len(s), rb_can_write)), s)
             /\ MoveWriteIndex(AtMost(Len(s), rb_can_write))
             /\ Gives(AtMost(Len(s), rb_can_write), << >>)
    <3>1. Len(s) = m
      BY SMT
    <3> DEFINE n == AtMost(m, rb_can_write)
    <3>2. n \in 0 .. Size /\ n <= rb_can_write /\ n <= m
      BY IInvParts, WriteAmountType
    <3>3. rb_can_write \in Nat
      BY IInvParts, RoomType, SMT, SizeAssumption DEF IndicesOK, rb_can_write
    <3>4. n # 0
      BY <2>2, <3>3, SMT DEF AtMost
    <3> HIDE DEF n
    <3>5. n \in 1 .. Size /\ n \in 1 .. m /\ n \in Nat
      BY <3>2, <3>4, SMT, SizeAssumption
    <3>6. Readable' = Readable \o SubSeq(s, 1, n) /\ n \in 0 .. Size - Len(Readable)
      BY <2>2, <3>1, <3>2, <3>5, WritePuts DEF n
    <3>7. SubSeq(s, 1, n) \in [1 .. n -> Byte]
      BY <3>5, FirstBytes
    <3>8. Gives(n, << >>)
      BY <2>2, <3>1 DEF n
    <3> QED BY <3>6, <3>7, <3>8, PutStep, Zenon
  <2> QED BY <1>1, <2>1, <2>2 DEF rb_write
<1>2. ASSUME NEW count \in Nat, rb_advance_write_index(count)
      PROVE  Fifo!Put \/ Fifo!Take
  <2>1. CASE UNCHANGED <<cells, indices>> /\ Gives(0, << >>)
    BY <2>1, GivesNothing, NothingStep
  <2>2. CASE /\ count > 0 /\ rb_can_write > 0
             /\ MoveWriteIndex(AtMost(count, rb_can_write))
             /\ Gives(AtMost(count, rb_can_write), << >>)
             /\ UNCHANGED cells
    <3> DEFINE n == AtMost(count, rb_can_write)
               t == CopyOut(cells', write_index, Segments(write_index, n))
    <3>1. n \in 0 .. Size /\ n <= rb_can_write
      BY IInvParts, WriteAmountType
    <3>2. rb_can_write \in Nat
      BY IInvParts, RoomType, SMT, SizeAssumption DEF IndicesOK, rb_can_write
    <3>3. n # 0
      BY <2>2, <3>2, SMT DEF AtMost
    <3>4. MoveWriteIndex(n) /\ Gives(n, << >>) /\ cells' = cells
      BY <2>2
    <3> HIDE DEF n
    <3>5. n \in 1 .. Size
      BY <3>1, <3>3, SMT, SizeAssumption
    <3>6. cells' \in [Index -> Byte] /\ write_index \in Index
      BY <3>4, IInvParts DEF IndicesOK
    <3>7. KeptFrom(cells', cells, write_index, n)
      BY <3>4, Zenon DEF KeptFrom
    <3>8. Readable' = Readable \o t /\ n \in 0 .. Size - Len(Readable)
      BY <3>1, <3>4, <3>5, <3>6, <3>7, MoveWriteIndexPuts
    <3>9. t \in [1 .. n -> Byte]
      BY <3>1, <3>6, CopyOutSeq
    <3> HIDE DEF t
    <3> QED BY <3>4, <3>8, <3>9, PutStep, Zenon
  <2> QED BY <1>2, <2>1, <2>2 DEF rb_advance_write_index
<1>3. ASSUME NEW b \in Byte, StoreInWriteRegion(b)
      PROVE  UNCHANGED <<Readable, result>>
  <2>1. PICK x \in (write_index .. write_index + rb_get_write_regions[1] - 1)
                     \cup (0 .. rb_get_write_regions[2] - 1) :
               cells' = [cells EXCEPT ![x] = b]
    BY <1>3 DEF StoreInWriteRegion
  <2>2. /\ cells \in [Index -> Byte] /\ read_index \in Index /\ write_index \in Index
        /\ last_was_write \in BOOLEAN /\ cells' \in [Index -> Byte]
    BY <2>1, IInvParts DEF IndicesOK
  <2>3. UNCHANGED <<read_index, write_index, last_was_write, result>>
    BY <1>3 DEF StoreInWriteRegion, indices
  <2>4. Agree(cells', cells, read_index, CanRead(read_index, write_index, last_was_write))
    <3> SUFFICES ASSUME NEW i \in 1 .. CanRead(read_index, write_index, last_was_write)
                 PROVE  cells'[Wrap(read_index + (i - 1))] = cells[Wrap(read_index + (i - 1))]
      BY DEF Agree
    <3>1. Wrap(read_index + (i - 1)) # x
      BY <2>1, <2>2, RegionIsFree DEF rb_get_write_regions, rb_can_write
    <3>2. Wrap(read_index + (i - 1)) \in Index
      BY <2>2, ReadableInStore
    <3> QED BY <2>1, <2>2, <3>1, <3>2, Zenon
  <2>5. Readable' = Readable
    BY <2>2, <2>3, <2>4, ReadableSame, ReadableNow
  <2> QED BY <2>3, <2>5
<1>4. \A m \in WriteCounts : m \in Nat \ {0}
  BY CallAssumption DEF SomethingToWrite
<1> QED BY <1>1, <1>2, <1>3, <1>4, CallAssumption DEF Writing

(* rb_peek_at is asked to skip nothing: what it does of an offset when the *)
(* data wraps is not what a queue would (rb.h:998).                        *)
NothingSkipped == PeekOffsets \subseteq {0}

(* With nothing skipped rb_peek_at copies the bytes rb_read would.         *)
LEMMA PeekIsFront ==
  ASSUME NEW r \in Index, NEW n \in 0 .. Size
  PROVE  /\ Wrap(r + 0) = r
         /\ (IF r + 0 + n <= Size \/ r + 0 >= Size
             THEN <<n, 0>>
             ELSE LET second == r + 0 + n - Size - 0
                  IN  <<Size - (r + 0), IF second < 0 THEN 0 ELSE second>>)
              = Segments(r, n)
<1>1. Wrap(r + 0) = r
  BY SMT, SizeAssumption DEF Wrap, Index
<1>2. CASE r + n <= Size
  BY <1>1, <1>2, SMT, SizeAssumption DEF Segments, Index
<1>3. CASE ~(r + n <= Size)
  BY <1>1, <1>3, SMT, SizeAssumption DEF Segments, Index
<1> QED BY <1>1, <1>2, <1>3

(* One element of a sequence, as a sequence. *)
LEMMA OneElement ==
  ASSUME NEW S, NEW t \in Seq(S), NEW i \in 1 .. Len(t)
  PROVE  SubSeq(t, i, i) = <<t[i]>>
<1> DEFINE u == SubSeq(t, i, i)
           v == <<t[i]>>
<1>1. u \in Seq(S) /\ Len(u) = 1 /\ u[1] = t[i]
  BY SMT
<1>2. v \in Seq(S) /\ Len(v) = 1 /\ v[1] = t[i]
  BY SMT
<1> HIDE DEF u, v
<1>3. 1 \in Nat /\ \A j \in 1 .. 1 : u[j] = v[j]
  BY <1>1, <1>2, SMT
<1>4. u = v
  BY <1>1, <1>2, <1>3, SameCopy, Zenon
<1> QED BY <1>4 DEF u, v

(* A byte looked at by its place is that byte of the queue.                *)
LEMMA ByteInQueue ==
  ASSUME IInv, NEW offset \in 0 .. rb_can_read - 1
  PROVE  /\ offset + 1 \in 1 .. Len(Readable)
         /\ ByteAt(offset) = Readable[offset + 1]
         /\ ByteAt(offset) \in Byte
<1>1. /\ cells \in [Index -> Byte] /\ read_index \in Index /\ write_index \in Index
      /\ last_was_write \in BOOLEAN
  BY IInvParts DEF IndicesOK
<1>2. rb_can_read \in 0 .. Size
  BY <1>1, RoomType DEF rb_can_read
<1>3. IsCopy(Readable, Byte, cells, read_index, rb_can_read)
  BY <1>1, ReadableNow, ReadableIs, Zenon DEF rb_can_read
<1>4. offset + 1 \in 1 .. rb_can_read /\ (offset + 1) - 1 = offset
  BY <1>2, SMT, SizeAssumption
<1>5. Readable[offset + 1] = cells[Wrap(read_index + offset)]
  <2>1. Readable[offset + 1] = cells[Wrap(read_index + ((offset + 1) - 1))]
    BY <1>3, <1>4, Zenon DEF IsCopy
  <2> QED BY <1>4, <2>1
<1>6. ByteAt(offset) = cells[Wrap(read_index + offset)]
  <2>1. (IF Size <= read_index + offset THEN read_index + offset - Size ELSE read_index + offset)
          = Wrap(read_index + offset)
    BY <1>1, <1>2, SMT, SizeAssumption DEF Wrap, Index
  <2> QED BY <2>1, Zenon DEF ByteAt
<1>7. Wrap(read_index + offset) \in Index
  BY <1>1, <1>2, SMT, SizeAssumption DEF Wrap, Index
<1>8. Len(Readable) = rb_can_read
  BY <1>3, Zenon DEF IsCopy
<1> QED BY <1>1, <1>4, <1>5, <1>6, <1>7, <1>8

(* Peeking and searching, with nothing skipped. *)
LEMMA LookingLooks ==
  ASSUME IInv, NothingSkipped, Looking
  PROVE  Fifo!Look \/ Fifo!Find \/ Fifo!Take
<1>1. /\ cells \in [Index -> Byte] /\ read_index \in Index /\ write_index \in Index
      /\ last_was_write \in BOOLEAN
  BY IInvParts DEF IndicesOK
<1>2. rb_can_read \in 0 .. Size /\ rb_can_read \in Nat
  BY <1>1, RoomType, SMT, SizeAssumption DEF rb_can_read
<1>3. Len(Readable) = rb_can_read /\ Readable \in Seq(Byte)
  BY <1>1, ReadableNow, ReadableIs DEF rb_can_read
<1>4. ASSUME UNCHANGED <<cells, indices>> PROVE Readable' = Readable
  BY <1>4 DEF Readable, rb_can_read, indices
<1>5. ASSUME NEW count \in Nat, rb_peek_at(count, 0)
      PROVE  Fifo!Look \/ Fifo!Take
  <2>1. CASE Gives(0, << >>)
    BY <1>5, <2>1, GivesNothing, NothingStep DEF rb_peek_at
  <2>2. CASE /\ count > 0 /\ rb_can_read > 0
             /\ Gives(AtMost(count, rb_can_read - 0),
                      CopyOut(cells, PeekFrom(0),
                              PeekSegments(AtMost(count, rb_can_read - 0), 0)))
    <3> DEFINE n == AtMost(count, rb_can_read - 0)
    <3>1. n \in 0 .. rb_can_read /\ n \in 0 .. Size /\ n \in Nat
      BY <1>2, <2>2, SMT, SizeAssumption DEF AtMost
    <3>2. Gives(n, CopyOut(cells, PeekFrom(0), PeekSegments(n, 0)))
      BY <2>2
    <3> HIDE DEF n
    <3>3. PeekFrom(0) = read_index /\ PeekSegments(n, 0) = Segments(read_index, n)
      BY <1>1, <3>1, PeekIsFront, Zenon DEF PeekFrom, PeekSegments
    <3>4. CopyOut(cells, read_index, Segments(read_index, n)) = SubSeq(Readable, 1, n)
      BY <1>1, <3>1, ReadableFront, ReadableNow DEF rb_can_read
    <3>5. 0 \in 0 .. Len(Readable) - n /\ 0 + 1 = 1 /\ 0 + n = n /\ n \in 0 .. Len(Readable)
      BY <1>2, <1>3, <3>1, SMT
    <3>6. Gives(n, SubSeq(Readable, 0 + 1, 0 + n))
      BY <3>2, <3>3, <3>4, <3>5
    <3>7. Readable' = Readable
      BY <1>4, <1>5 DEF rb_peek_at
    <3> QED BY <3>5, <3>6, <3>7, LookStep
  <2> QED BY <1>5, <2>1, <2>2 DEF rb_peek_at
<1>6. ASSUME NEW offset \in 0 .. Size, rb_peek_byte_at(offset)
      PROVE  Fifo!Look \/ Fifo!Take
  <2>1. CASE rb_can_read <= offset
    BY <1>6, <2>1, GivesNothing, NothingStep DEF rb_peek_byte_at
  <2>2. CASE ~(rb_can_read <= offset)
    <3>1. offset \in 0 .. rb_can_read - 1
      BY <1>2, <2>2, SMT, SizeAssumption
    <3>2. Gives(1, <<ByteAt(offset)>>)
      BY <1>6, <2>2 DEF rb_peek_byte_at
    <3>3. offset + 1 \in 1 .. Len(Readable) /\ ByteAt(offset) = Readable[offset + 1]
      BY <3>1, ByteInQueue
    <3>4. SubSeq(Readable, offset + 1, offset + 1) = <<Readable[offset + 1]>>
      BY <1>3, <3>3, OneElement
    <3>5. 1 \in 0 .. Len(Readable) /\ offset \in 0 .. Len(Readable) - 1
      BY <1>2, <1>3, <3>1, SMT
    <3>6. Readable' = Readable
      BY <1>4, <1>6 DEF rb_peek_byte_at
    <3> QED BY <3>2, <3>3, <3>4, <3>5, <3>6, LookStep
  <2> QED BY <2>1, <2>2
<1>7. ASSUME NEW b \in Byte, rb_find_byte(b)
      PROVE  Fifo!Find
  <2>0. Readable' = Readable
    BY <1>4, <1>7 DEF rb_find_byte
  <2> DEFINE places == {offset \in 0 .. rb_can_read - 1 : ByteAt(offset) = b}
  <2>1. \A i \in 1 .. Len(Readable) : /\ i - 1 \in 0 .. rb_can_read - 1
                                      /\ ByteAt(i - 1) = Readable[i]
    <3> SUFFICES ASSUME NEW i \in 1 .. Len(Readable)
                 PROVE  i - 1 \in 0 .. rb_can_read - 1 /\ ByteAt(i - 1) = Readable[i]
      OBVIOUS
    <3>1. i - 1 \in 0 .. rb_can_read - 1 /\ (i - 1) + 1 = i
      BY <1>2, <1>3, SMT
    <3> QED BY <3>1, ByteInQueue
  <2>2. CASE places = {} /\ result' = Nothing
    <3>1. \A i \in 1 .. Len(Readable) : Readable[i] # b
      BY <2>1, <2>2
    <3> QED BY <2>0, <2>2, <3>1, SameGives, Zenon DEF Fifo!Find
  <2>3. CASE \E first \in places :
               /\ \A p \in places : first <= p
               /\ result' = [Nothing EXCEPT !.count = 1, !.offset = first]
    <3>1. PICK first \in places :
               /\ \A p \in places : first <= p
               /\ result' = [Nothing EXCEPT !.count = 1, !.offset = first]
      BY <2>3
    <3>2. first \in 0 .. rb_can_read - 1 /\ ByteAt(first) = b
      BY <3>1
    <3> DEFINE i == first + 1
    <3>3. i \in 1 .. Len(Readable) /\ Readable[i] = b /\ i - 1 = first
      BY <1>2, <3>2, ByteInQueue, SMT
    <3>4. \A j \in 1 .. i - 1 : Readable[j] # b
      <4> SUFFICES ASSUME NEW j \in 1 .. i - 1, Readable[j] = b PROVE FALSE
        OBVIOUS
      <4>1. j \in 1 .. Len(Readable) /\ ~(first <= j - 1)
        BY <1>2, <1>3, <3>2, SMT
      <4>2. j - 1 \in places
        BY <2>1, <4>1
      <4> QED BY <3>1, <4>1, <4>2
    <3>5. result' = [Fifo!Nothing EXCEPT !.count = 1, !.offset = i - 1]
      BY <3>1, <3>3, SameGives
    <3> HIDE DEF i
    <3> QED BY <2>0, <3>3, <3>4, <3>5, Zenon DEF Fifo!Find
  <2> QED BY <1>7, <2>2, <2>3 DEF rb_find_byte
<1>8. \A offset \in PeekOffsets : offset = 0
  BY DEF NothingSkipped
<1> QED BY <1>5, <1>6, <1>7, <1>8, CallAssumption DEF Looking

(* rb_reset empties the queue; rb_reset_stats leaves it alone. *)
LEMMA ResettingClears ==
  ASSUME IInv, rb_reset_stats \/ rb_reset
  PROVE  Fifo!Take \/ Fifo!Clear
<1>1. CASE rb_reset_stats
  BY <1>1, NothingStep DEF rb_reset_stats
<1>2. CASE rb_reset
  <2>1. Readable' = << >>
    <3>1. /\ cells' \in [Index -> Byte] /\ read_index' \in Index /\ write_index' \in Index
          /\ last_was_write' \in BOOLEAN
      BY <1>2, IInvParts, IndexIsNat DEF rb_reset
    <3>2. CanRead(read_index', write_index', last_was_write') = 0
      BY <1>2 DEF rb_reset, CanRead
    <3> QED BY <3>1, <3>2, ReadableEmpty, ReadableNow
  <2>2. Gives(0, << >>)
    BY <1>2, GivesNothing DEF rb_reset
  <2> QED BY <2>1, <2>2, SameGives, Zenon DEF Fifo!Clear
<1> QED BY <1>1, <1>2

(* A new buffer is an empty queue. *)
LEMMA InitIsEmpty == Init => Fifo!Init
<1> SUFFICES ASSUME Init PROVE Fifo!Init
  OBVIOUS
<1>1. /\ cells \in [Index -> Byte] /\ read_index \in Index /\ write_index \in Index
      /\ last_was_write \in BOOLEAN
  BY IndexIsNat DEF Init
<1>2. CanRead(read_index, write_index, last_was_write) = 0
  BY DEF Init, CanRead
<1>3. Readable = << >>
  BY <1>1, <1>2, ReadableEmpty, ReadableNow
<1> QED BY <1>3, SameGives DEF Init, Fifo!Init

(* Every step of the ring buffer is a step of the queue, or leaves it.     *)
LEMMA StepIsQueueStep ==
  ASSUME SomethingToWrite, NothingSkipped, IInv, [Next]_vars
  PROVE  [Fifo!Next]_(Fifo!vars)
<1>1. CASE Reading
  BY <1>1, ReadingTakes DEF Fifo!Next
<1>2. CASE Writing
  <2>1. Fifo!Put \/ Fifo!Take \/ UNCHANGED <<Readable, result>>
    BY <1>2, WritingPuts
  <2> QED BY <2>1 DEF Fifo!Next, Fifo!vars
<1>3. CASE Looking
  BY <1>3, LookingLooks DEF Fifo!Next
<1>4. CASE rb_reset_stats \/ rb_reset
  BY <1>4, ResettingClears DEF Fifo!Next
<1>5. CASE UNCHANGED vars
  BY <1>5 DEF vars, indices, Fifo!vars, Readable, rb_can_read
<1> QED BY <1>1, <1>2, <1>3, <1>4, <1>5 DEF Next

(* The ring buffer of rb.h, used by one caller at a time, is a bounded     *)
(* first-in first-out queue: whatever its size and the counts passed, what *)
(* each call returns and copies out is what the queue would give, as long  *)
(* as no write is of no bytes and no peek skips any.                       *)
THEOREM ImplementsQueue ==
  ASSUME SomethingToWrite, NothingSkipped
  PROVE  Spec => FifoSpec
<1>1. Init => IInv /\ Fifo!Init
  BY InitIInv, InitIsEmpty
<1>2. IInv /\ [Next]_vars => IInv'
  BY NextKeeps
<1>3. IInv /\ [Next]_vars => [Fifo!Next]_(Fifo!vars)
  BY StepIsQueueStep
<1> QED BY <1>1, <1>2, <1>3, PTL DEF Spec, FifoSpec, Fifo!Spec

------------------------------------------------------------------------------
(* Which bytes: the queue's specification says how many bytes go in and    *)
(* out, not whose they are.                                                *)

(* A write appends the first of the caller's bytes, as many as it says.    *)
WriteAppends ==
  \A m \in WriteCounts \ {0} : \A s \in [1 .. m -> Byte] :
    rb_write(s) => Readable' = Readable \o SubSeq(s, 1, result'.count)

(* A read hands out the oldest bytes, as many as it says, and leaves those *)
(* after them.                                                             *)
ReadTakesFront ==
  \A count \in ReadCounts :
    rb_generic_read(count, FALSE) =>
      /\ result'.data = SubSeq(Readable, 1, result'.count)
      /\ Readable' = RestOf(Readable, result'.count)

(* What a call's record of n bytes holds. *)
LEMMA GivesFields ==
  ASSUME NEW n, NEW data, Gives(n, data)
  PROVE  result'.count = n /\ result'.data = data
BY DEF Gives, Nothing

(* A call that leaves the queue alone has added none of the bytes of s to  *)
(* it, and taken none off.                                                 *)
LEMMA LeavesQueue ==
  ASSUME IInv, UNCHANGED <<cells, indices>>, NEW s
  PROVE  /\ Readable' = RestOf(Readable, 0)
         /\ SubSeq(Readable, 1, 0) = << >>
         /\ Readable' = Readable \o SubSeq(s, 1, 0)
<1>1. Readable \in Seq(Byte)
  BY IInvParts, ReadableNow, ReadableIs DEF IndicesOK
<1>2. Readable' = Readable
  BY DEF Readable, rb_can_read, indices
<1>3. SubSeq(Readable, 0 + 1, Len(Readable)) = Readable
  BY <1>1, SMT
<1>4. SubSeq(Readable, 1, 0) = << >> /\ SubSeq(s, 1, 0) = << >>
  BY SMT
<1>5. Readable \o << >> = Readable
  BY <1>1, ConcatEmptySeq
<1> QED BY <1>2, <1>3, <1>4, <1>5 DEF RestOf

(* A write leaves what was readable in front of what it adds.              *)
LEMMA WritingAppends == IInv => WriteAppends
<1> SUFFICES ASSUME IInv, NEW m \in WriteCounts \ {0}, NEW s \in [1 .. m -> Byte], rb_write(s)
             PROVE  Readable' = Readable \o SubSeq(s, 1, result'.count)
  BY DEF WriteAppends
<1>1. m \in Nat \ {0}
  BY CallAssumption
<1>2. CASE UNCHANGED <<cells, indices>> /\ Gives(0, << >>)
  BY <1>2, LeavesQueue, GivesFields
<1>3. CASE /\ rb_can_write > 0
           /\ cells' = CopyIn(cells, write_index,
                              Segments(write_index, AtMost(Len(s), rb_can_write)), s)
           /\ MoveWriteIndex(AtMost(Len(s), rb_can_write))
           /\ Gives(AtMost(Len(s), rb_can_write), << >>)
  <2>1. Len(s) = m
    BY <1>1, SMT
  <2> DEFINE n == AtMost(m, rb_can_write)
  <2>2. n \in 0 .. Size /\ n <= rb_can_write /\ n <= m
    BY <1>1, IInvParts, WriteAmountType
  <2>3. rb_can_write \in Nat
    BY IInvParts, RoomType, SMT, SizeAssumption DEF IndicesOK, rb_can_write
  <2>4. n # 0
    BY <1>1, <1>3, <2>3, SMT DEF AtMost
  <2>5. Gives(n, << >>) /\ MoveWriteIndex(n)
        /\ cells' = CopyIn(cells, write_index, Segments(write_index, n), s)
    BY <1>3, <2>1
  <2> HIDE DEF n
  <2>6. n \in 1 .. Size
    BY <2>2, <2>4, SMT, SizeAssumption
  <2>7. Readable' = Readable \o SubSeq(s, 1, n)
    BY <1>1, <2>2, <2>5, <2>6, WritePuts
  <2> QED BY <2>5, <2>7, GivesFields
<1> QED BY <1>2, <1>3 DEF rb_write

(* A read takes what was readable first.                                   *)
LEMMA ReadingTakesFront == IInv => ReadTakesFront
<1> SUFFICES ASSUME IInv, NEW count \in ReadCounts, rb_generic_read(count, FALSE)
             PROVE  /\ result'.data = SubSeq(Readable, 1, result'.count)
                    /\ Readable' = RestOf(Readable, result'.count)
  BY DEF ReadTakesFront
<1>1. count \in Nat
  BY CallAssumption
<1>2. CASE UNCHANGED <<cells, indices>> /\ Gives(0, << >>)
  BY <1>2, LeavesQueue, GivesFields
<1>3. CASE /\ count > 0 /\ rb_can_read > 0
           /\ MoveReadIndex(ReadAmount(count, FALSE), FALSE)
           /\ Gives(ReadAmount(count, FALSE),
                    CopyOut(cells, read_index, Segments(read_index, ReadAmount(count, FALSE))))
           /\ UNCHANGED cells
  <2> DEFINE n == ReadAmount(count, FALSE)
  <2>1. n \in 1 .. Size /\ n <= rb_can_read
    <3>1. count \in Nat \ {0}
      BY <1>1, <1>3, SMT
    <3> QED BY <1>3, <3>1, IInvParts, ReadAmountType
  <2>2. MoveReadIndex(n, FALSE) /\ cells' = cells
        /\ Gives(n, CopyOut(cells, read_index, Segments(read_index, n)))
    BY <1>3
  <2> HIDE DEF n
  <2>3. Readable' = RestOf(Readable, n)
        /\ CopyOut(cells, read_index, Segments(read_index, n)) = SubSeq(Readable, 1, n)
    BY <2>1, <2>2, MoveReadIndexLeaves
  <2> QED BY <2>2, <2>3, GivesFields
<1> QED BY <1>2, <1>3 DEF rb_generic_read

(* What is written is appended, in order and unchanged: for every size and *)
(* every sequence of calls, rb_write puts exactly the first of its bytes   *)
(* behind those already there, as many as it says it wrote (rb.h:877-919). *)
THEOREM WritesAppend == Spec => [][WriteAppends]_vars
<1>1. Init => IInv
  BY InitIInv
<1>2. IInv /\ [Next]_vars => IInv'
  BY NextKeeps
<1>3. IInv /\ [Next]_vars => [WriteAppends]_vars
  BY WritingAppends
<1> QED BY <1>1, <1>2, <1>3, PTL DEF Spec

(* What is read is what was written first: rb_read hands out the oldest    *)
(* bytes in order, and those after them stay (rb.h:814-832).               *)
THEOREM ReadsTakeFront == Spec => [][ReadTakesFront]_vars
<1>1. Init => IInv
  BY InitIInv
<1>2. IInv /\ [Next]_vars => IInv'
  BY NextKeeps
<1>3. IInv /\ [Next]_vars => [ReadTakesFront]_vars
  BY ReadingTakesFront
<1> QED BY <1>1, <1>2, <1>3, PTL DEF Spec

==============================================================================
