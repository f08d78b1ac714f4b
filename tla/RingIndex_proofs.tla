-------------------------- MODULE RingIndex_proofs ---------------------------
(***************************************************************************)
(* What the index arithmetic of rb.h returns, for every Size: the lemmas   *)
(* the proofs about the ring buffer rest on.                               *)
(***************************************************************************)
EXTENDS RingIndex, SequenceTheorems, TLAPS

(* The index type is an interval of naturals. *)
LEMMA IndexIsNat == Index \subseteq Nat /\ 0 \in Index
BY SMT, SizeAssumption DEF Index

(* An index moved over at most one round of cells is an index. *)
LEMMA WrapType ==
  ASSUME NEW a \in 0 .. 2 * Size - 1
  PROVE  Wrap(a) \in Index
BY SMT, SizeAssumption DEF Wrap, Index

(* Wrapping twice is wrapping once, as long as one round is not exceeded.  *)
LEMMA WrapTwice ==
  ASSUME NEW from \in Index, NEW n \in Nat, NEW m \in Nat, n + m < Size
  PROVE  Wrap(Wrap(from + n) + m) = Wrap(from + (n + m))
BY SMT, SizeAssumption DEF Wrap, Index

(* Two offsets within one round name two cells. *)
LEMMA WrapInjective ==
  ASSUME NEW from \in Index, NEW i \in 0 .. Size - 1, NEW j \in 0 .. Size - 1,
         Wrap(from + i) = Wrap(from + j)
  PROVE  i = j
BY SMT, SizeAssumption DEF Wrap, Index

(* Every cell is at some offset from a given one. *)
LEMMA WrapOnto ==
  ASSUME NEW from \in Index, NEW c \in Index
  PROVE  \E i \in 0 .. Size - 1 : c = Wrap(from + i)
<1>1. CASE c >= from
  <2>1. c - from \in 0 .. Size - 1 /\ c = Wrap(from + (c - from))
    BY <1>1, SMT, SizeAssumption DEF Wrap, Index
  <2> QED BY <2>1
<1>2. CASE c < from
  <2>1. c + Size - from \in 0 .. Size - 1 /\ c = Wrap(from + (c + Size - from))
    BY <1>2, SMT, SizeAssumption DEF Wrap, Index
  <2> QED BY <2>1
<1> QED BY <1>1, <1>2, SMT, SizeAssumption DEF Index

(* What can be read and what can be written make up the buffer.            *)
LEMMA RoomType ==
  ASSUME NEW r \in Index, NEW w \in Index, NEW f \in BOOLEAN
  PROVE  /\ CanRead(r, w, f) \in 0 .. Size
         /\ CanWrite(r, w, f) \in 0 .. Size
         /\ CanRead(r, w, f) + CanWrite(r, w, f) = Size
<1>1. CASE f
  BY <1>1, SMT, SizeAssumption DEF CanRead, CanWrite, Index
<1>2. CASE ~f
  BY <1>2, SMT, SizeAssumption DEF CanRead, CanWrite, Index
<1> QED BY <1>1, <1>2

(* A write index that is neither empty nor full cells ahead says how many. *)
LEMMA RoomBetween ==
  ASSUME NEW r \in Index, NEW o \in 1 .. Size - 1, NEW f \in BOOLEAN
  PROVE  /\ Wrap(r + o) # r
         /\ CanRead(r, Wrap(r + o), f) = o
         /\ CanWrite(r, Wrap(r + o), f) = Size - o
BY SMT, SizeAssumption DEF CanRead, CanWrite, Wrap, Index

(* Moving the read index over n of the readable bytes takes n off them.    *)
LEMMA RoomAfterRead ==
  ASSUME NEW r \in Index, NEW w \in Index, NEW f \in BOOLEAN, NEW n \in 1 .. Size,
         n <= CanRead(r, w, f)
  PROVE  CanRead(Wrap(r + n), w, FALSE) = CanRead(r, w, f) - n
<1>1. CASE f
  BY <1>1, SMT, SizeAssumption DEF CanRead, Wrap, Index
<1>2. CASE ~f
  BY <1>2, SMT, SizeAssumption DEF CanRead, Wrap, Index
<1> QED BY <1>1, <1>2

(* Moving the write index over n of the free bytes makes n more readable,  *)
(* unless n is zero: that leaves them, or makes an empty buffer a full one. *)
LEMMA RoomAfterWrite ==
  ASSUME NEW r \in Index, NEW w \in Index, NEW f \in BOOLEAN, NEW n \in 0 .. Size,
         n <= CanWrite(r, w, f)
  PROVE  IF n = 0 THEN CanRead(r, w, f) <= CanRead(r, Wrap(w + n), TRUE)
                  ELSE CanRead(r, Wrap(w + n), TRUE) = CanRead(r, w, f) + n
<1>1. CASE f
  BY <1>1, SMT, SizeAssumption DEF CanRead, CanWrite, Wrap, Index
<1>2. CASE ~f
  BY <1>2, SMT, SizeAssumption DEF CanRead, CanWrite, Wrap, Index
<1> QED BY <1>1, <1>2

(* The pieces of an access add up to it.                                   *)
LEMMA SegmentsType ==
  ASSUME NEW from \in Index, NEW n \in 0 .. Size
  PROVE  /\ Segments(from, n)[1] \in 0 .. Size
         /\ Segments(from, n)[2] \in 0 .. Size - 1
         /\ Segments(from, n)[1] + Segments(from, n)[2] = n
         /\ from + Segments(from, n)[1] <= Size
         /\ Segments(from, n)[2] > 0 => from + Segments(from, n)[1] = Size
BY SMT, SizeAssumption DEF Segments, Index

(* An access leaves the index where it belongs.                            *)
LEMMA AdvanceWraps ==
  ASSUME NEW from \in Index, NEW n \in 0 .. Size
  PROVE  /\ Advance(from, Segments(from, n)) = Wrap(from + n)
         /\ Wrap(from + n) \in Index
BY SMT, SizeAssumption DEF Advance, Segments, Wrap, Index

(* The copy out of the store takes the cells in the order of their offsets. *)
LEMMA CopyOutCells ==
  ASSUME NEW cells, NEW from \in Index, NEW n \in 0 .. Size
  PROVE  /\ DOMAIN CopyOut(cells, from, Segments(from, n)) = 1 .. n
         /\ \A i \in 1 .. n :
              CopyOut(cells, from, Segments(from, n))[i] = cells[Wrap(from + (i - 1))]
<1> DEFINE seg == Segments(from, n)
<1>1. seg[1] + seg[2] = n
  BY SegmentsType
<1>2. CopyOut(cells, from, seg) =
        [i \in 1 .. n |-> IF i <= seg[1] THEN cells[from + i - 1] ELSE cells[i - seg[1] - 1]]
  BY <1>1 DEF CopyOut
<1>3. ASSUME NEW i \in 1 .. n
      PROVE  (IF i <= seg[1] THEN cells[from + i - 1] ELSE cells[i - seg[1] - 1])
               = cells[Wrap(from + (i - 1))]
  <2>1. CASE i <= seg[1]
    <3>1. from + i - 1 = Wrap(from + (i - 1))
      BY <2>1, SMT, SizeAssumption DEF Segments, Wrap, Index
    <3> QED BY <2>1, <3>1
  <2>2. CASE ~(i <= seg[1])
    <3>1. i - seg[1] - 1 = Wrap(from + (i - 1))
      BY <2>2, SMT, SizeAssumption DEF Segments, Wrap, Index
    <3> QED BY <2>2, <3>1
  <2> QED BY <2>1, <2>2
<1> QED BY <1>2, <1>3

(* The copy into the store fills the cells of the access in the order of   *)
(* their offsets.                                                          *)
LEMMA CopyInCells ==
  ASSUME NEW cells, NEW s, NEW from \in Index, NEW n \in 0 .. Size
  PROVE  \A j \in 0 .. Size - 1 :
           j < n => CopyIn(cells, from, Segments(from, n), s)[Wrap(from + j)] = s[j + 1]
<1> DEFINE seg == Segments(from, n)
<1> SUFFICES ASSUME NEW j \in 0 .. Size - 1, j < n
             PROVE  CopyIn(cells, from, seg, s)[Wrap(from + j)] = s[j + 1]
  OBVIOUS
<1>1. Wrap(from + j) \in Index
  BY SMT, SizeAssumption DEF Wrap, Index
<1>2. CASE j < seg[1]
  <2>1. /\ from <= Wrap(from + j) /\ Wrap(from + j) < from + seg[1]
        /\ Wrap(from + j) - from + 1 = j + 1
    BY <1>2, SMT, SizeAssumption DEF Segments, Wrap, Index
  <2> QED BY <1>1, <2>1 DEF CopyIn
<1>3. CASE ~(j < seg[1])
  <2>1. /\ ~(from <= Wrap(from + j) /\ Wrap(from + j) < from + seg[1])
        /\ Wrap(from + j) < seg[2]
        /\ seg[1] + Wrap(from + j) + 1 = j + 1
    BY <1>3, SMT, SizeAssumption DEF Segments, Wrap, Index
  <2> QED BY <1>1, <2>1 DEF CopyIn
<1> QED BY <1>2, <1>3

(* It leaves every other cell alone. *)
LEMMA CopyInKeeps ==
  ASSUME NEW cells, NEW s, NEW from \in Index, NEW n \in 0 .. Size
  PROVE  \A j \in 0 .. Size - 1 :
           n <= j => CopyIn(cells, from, Segments(from, n), s)[Wrap(from + j)]
                       = cells[Wrap(from + j)]
<1> DEFINE seg == Segments(from, n)
<1> SUFFICES ASSUME NEW j \in 0 .. Size - 1, n <= j
             PROVE  CopyIn(cells, from, seg, s)[Wrap(from + j)] = cells[Wrap(from + j)]
  OBVIOUS
<1>1. Wrap(from + j) \in Index
  BY SMT, SizeAssumption DEF Wrap, Index
<1>2. /\ ~(from <= Wrap(from + j) /\ Wrap(from + j) < from + seg[1])
      /\ ~(Wrap(from + j) < seg[2])
  BY SMT, SizeAssumption DEF Segments, Wrap, Index
<1> QED BY <1>1, <1>2 DEF CopyIn

(* The bytes copied into the store are the caller's bytes. *)
LEMMA CopyInStays ==
  ASSUME NEW S, NEW cells \in [Index -> S], NEW from \in Index, NEW m \in Nat,
         NEW s \in [1 .. m -> S], NEW n \in 0 .. Size, n <= m
  PROVE  CopyIn(cells, from, Segments(from, n), s) \in [Index -> S]
<1> DEFINE seg == Segments(from, n)
<1>1. /\ seg[1] \in 0 .. Size /\ seg[2] \in 0 .. Size - 1 /\ seg[1] + seg[2] = n
  BY SegmentsType
<1>2. ASSUME NEW c \in Index
      PROVE  (IF from <= c /\ c < from + seg[1] THEN s[c - from + 1]
              ELSE IF c < seg[2] THEN s[seg[1] + c + 1]
              ELSE cells[c]) \in S
  <2>1. CASE from <= c /\ c < from + seg[1]
    <3>1. c - from + 1 \in 1 .. m
      BY <1>1, <2>1, SMTT(30), SizeAssumption DEF Index
    <3> QED BY <2>1, <3>1
  <2>2. CASE ~(from <= c /\ c < from + seg[1]) /\ c < seg[2]
    <3>1. seg[1] + c + 1 \in 1 .. m
      BY <1>1, <2>2, SMTT(30), SizeAssumption DEF Index
    <3> QED BY <2>2, <3>1
  <2>3. CASE ~(from <= c /\ c < from + seg[1]) /\ ~(c < seg[2])
    BY <2>3
  <2> QED BY <2>1, <2>2, <2>3
<1> QED BY <1>2 DEF CopyIn

------------------------------------------------------------------------------
(* What is copied out, as a sequence: the queue that two indices stand for. *)

(* The write index is as far ahead as there is to read. *)
LEMMA WriteIndexAhead ==
  ASSUME NEW r \in Index, NEW w \in Index, NEW f \in BOOLEAN
  PROVE  Wrap(r + CanRead(r, w, f)) = w
<1>1. CASE f
  BY <1>1, SMT, SizeAssumption DEF CanRead, Wrap, Index
<1>2. CASE ~f
  BY <1>2, SMT, SizeAssumption DEF CanRead, Wrap, Index
<1> QED BY <1>1, <1>2

(* A function on 1 .. n is a sequence of that length. *)
LEMMA FunctionIsSeq ==
  ASSUME NEW S, NEW n \in Nat, NEW t \in [1 .. n -> S]
  PROVE  t \in Seq(S) /\ Len(t) = n
BY SMT

(* t is the n bytes found from a place on, a sequence over S. *)
IsCopy(t, S, cells, from, n) ==
  /\ t \in Seq(S)
  /\ Len(t) = n
  /\ \A i \in 1 .. n : t[i] = cells[Wrap(from + (i - 1))]

(* A copy out of the store is a sequence of the bytes it takes. *)
LEMMA CopyOutSeq ==
  ASSUME NEW S, NEW cells \in [Index -> S], NEW from \in Index, NEW n \in 0 .. Size
  PROVE  /\ CopyOut(cells, from, Segments(from, n)) \in [1 .. n -> S]
         /\ IsCopy(CopyOut(cells, from, Segments(from, n)), S, cells, from, n)
<1> DEFINE t == CopyOut(cells, from, Segments(from, n))
<1>1. DOMAIN t = 1 .. n /\ \A i \in 1 .. n : t[i] = cells[Wrap(from + (i - 1))]
  BY CopyOutCells, Zenon
<1>2. ASSUME NEW i \in 1 .. n PROVE Wrap(from + (i - 1)) \in Index
  BY SMT, SizeAssumption DEF Wrap, Index
<1>3. t = [i \in 1 .. n |-> t[i]]
  BY <1>1, Zenon DEF CopyOut
<1> HIDE DEF t
<1>4. t \in [1 .. n -> S]
  <2>1. ASSUME NEW i \in 1 .. n PROVE t[i] \in S
    BY <1>1, <1>2, Zenon
  <2> QED BY <1>3, <2>1, Zenon
<1>5. n \in Nat
  BY SMT, SizeAssumption
<1>6. t \in Seq(S) /\ Len(t) = n
  BY <1>4, <1>5, FunctionIsSeq, Zenon
<1> QED BY <1>1, <1>4, <1>6, Zenon DEF IsCopy, t

(* Two copies of the same bytes are one sequence.                          *)
LEMMA SameCopy ==
  ASSUME NEW S, NEW t \in Seq(S), NEW u \in Seq(S), NEW n \in Nat,
         Len(t) = n, Len(u) = n, \A i \in 1 .. n : t[i] = u[i]
  PROVE  t = u
BY SeqEqual, Zenon

(* A shorter copy from the same place is the front of a longer one.        *)
LEMMA FrontCopy ==
  ASSUME NEW S, NEW cells, NEW from \in Index, NEW m \in 0 .. Size, NEW n \in 0 .. m,
         NEW t, NEW u, IsCopy(t, S, cells, from, m), IsCopy(u, S, cells, from, n)
  PROVE  u = SubSeq(t, 1, n)
<1>1. n \in Nat /\ m \in Nat /\ \A i \in 1 .. n : i \in 1 .. m
  BY SMT, SizeAssumption
<1>2. t \in Seq(S) /\ Len(t) = m /\ u \in Seq(S) /\ Len(u) = n
  BY Zenon DEF IsCopy
<1>3. /\ SubSeq(t, 1, n) \in Seq(S)
      /\ Len(SubSeq(t, 1, n)) = n
      /\ \A i \in 1 .. n : SubSeq(t, 1, n)[i] = t[i]
  BY <1>1, <1>2, SMT
<1>4. \A i \in 1 .. n : u[i] = SubSeq(t, 1, n)[i]
  BY <1>1, <1>3, Zenon DEF IsCopy
<1> QED BY <1>1, <1>2, <1>3, <1>4, SameCopy, Zenon

(* A copy that starts n bytes later is the rest of it.                     *)
LEMMA RestCopy ==
  ASSUME NEW S, NEW cells, NEW from \in Index, NEW m \in 0 .. Size, NEW n \in 0 .. m,
         NEW k \in 0 .. Size, NEW later \in Index, NEW t, NEW u,
         k = m - n, later = Wrap(from + n),
         IsCopy(t, S, cells, from, m), IsCopy(u, S, cells, later, k)
  PROVE  u = SubSeq(t, n + 1, m)
<1> DEFINE rest == SubSeq(t, n + 1, m)
<1>1. n \in Nat /\ m \in Nat /\ k \in Nat
  BY SMT, SizeAssumption
<1>2. t \in Seq(S) /\ Len(t) = m /\ u \in Seq(S) /\ Len(u) = k
  BY Zenon DEF IsCopy
<1>3. rest \in Seq(S) /\ Len(rest) = k /\ \A i \in 1 .. k : rest[i] = t[n + i]
  BY <1>1, <1>2, SMT
<1> HIDE DEF rest
<1>4. ASSUME NEW i \in 1 .. k
      PROVE  u[i] = rest[i]
  <2>1. n + i \in 1 .. m
    BY <1>1, SMT
  <2>2. t[n + i] = cells[Wrap(from + ((n + i) - 1))]
    BY <2>1, Zenon DEF IsCopy
  <2>3. Wrap(later + (i - 1)) = Wrap(from + ((n + i) - 1))
    BY <1>1, SMT, SizeAssumption DEF Wrap, Index
  <2>4. u[i] = cells[Wrap(later + (i - 1))]
    BY Zenon DEF IsCopy
  <2>5. rest[i] = t[n + i]
    BY <1>3
  <2> QED BY <2>2, <2>3, <2>4, <2>5, Zenon
<1>5. u = rest
  BY <1>1, <1>2, <1>3, <1>4, SameCopy, Zenon
<1> QED BY <1>5 DEF rest

(* Two stores hold the same m bytes from a place on. *)
Agree(c, d, from, m) == \A i \in 1 .. m : c[Wrap(from + (i - 1))] = d[Wrap(from + (i - 1))]

(* The n bytes from later on follow the m bytes from from on. *)
Follow(from, m, later, n, k) == later = Wrap(from + m) /\ k = m + n

(* A copy of k bytes is that of the first m and that of the n after them.  *)
LEMMA JoinedCopy ==
  ASSUME NEW S, NEW cells, NEW from \in Index, NEW m \in 0 .. Size,
         NEW n \in 0 .. Size, NEW k \in 0 .. Size, NEW later \in Index,
         Follow(from, m, later, n, k), NEW t, NEW u, NEW v,
         IsCopy(t, S, cells, from, k), IsCopy(u, S, cells, from, m),
         IsCopy(v, S, cells, later, n)
  PROVE  t = u \o v
<1> DEFINE both == u \o v
<1>1. /\ n \in Nat /\ m \in Nat /\ k \in Nat
      /\ k = m + n /\ later = Wrap(from + m)
  BY SMT, SizeAssumption DEF Follow
<1>2. /\ t \in Seq(S) /\ Len(t) = k /\ u \in Seq(S) /\ Len(u) = m
      /\ v \in Seq(S) /\ Len(v) = n
  BY Zenon DEF IsCopy
<1>3. /\ both \in Seq(S) /\ Len(both) = k
      /\ \A i \in 1 .. m : both[i] = u[i]
      /\ \A i \in m + 1 .. k : both[i] = v[i - m]
  BY <1>1, <1>2, SMTT(30)
<1> HIDE DEF both
<1>4. ASSUME NEW i \in 1 .. k
      PROVE  t[i] = both[i]
  <2>0. t[i] = cells[Wrap(from + (i - 1))]
    BY Zenon DEF IsCopy
  <2>1. CASE i <= m
    <3>1. i \in 1 .. m
      BY <1>1, <2>1, SMT
    <3>2. u[i] = cells[Wrap(from + (i - 1))]
      BY <3>1, Zenon DEF IsCopy
    <3> QED BY <1>3, <2>0, <3>1, <3>2, Zenon
  <2>2. CASE ~(i <= m)
    <3>1. i - m \in 1 .. n /\ i \in m + 1 .. k
      BY <1>1, <2>2, SMT
    <3>2. v[i - m] = cells[Wrap(later + ((i - m) - 1))]
      BY <3>1, Zenon DEF IsCopy
    <3>3. Wrap(later + ((i - m) - 1)) = Wrap(from + (i - 1))
      BY <1>1, <2>2, SMT, SizeAssumption DEF Wrap, Index
    <3> QED BY <1>3, <2>0, <3>1, <3>2, <3>3, Zenon
  <2> QED BY <2>1, <2>2
<1>5. t = both
  BY <1>1, <1>2, <1>3, <1>4, SameCopy, Zenon
<1> QED BY <1>5 DEF both

(* What was copied in is what is copied out of the same place.             *)
LEMMA CopyInOut ==
  ASSUME NEW S, NEW cells, NEW m \in Nat, NEW s \in [1 .. m -> S],
         NEW from \in Index, NEW n \in 0 .. Size, n <= m, NEW t,
         IsCopy(t, S, CopyIn(cells, from, Segments(from, n), s), from, n)
  PROVE  t = SubSeq(s, 1, n)
<1> DEFINE after == CopyIn(cells, from, Segments(from, n), s)
           first == SubSeq(s, 1, n)
<1>1. n \in Nat
  BY SMT, SizeAssumption
<1>2. \A j \in 0 .. Size - 1 : j < n => after[Wrap(from + j)] = s[j + 1]
  BY CopyInCells
<1>3. IsCopy(t, S, after, from, n)
  OBVIOUS
<1> HIDE DEF after
<1>4. first \in Seq(S) /\ Len(first) = n /\ \A i \in 1 .. n : first[i] = s[i]
  BY <1>1, SMT
<1> HIDE DEF first
<1>5. ASSUME NEW i \in 1 .. n
      PROVE  t[i] = first[i]
  <2>1. i - 1 \in 0 .. Size - 1 /\ i - 1 < n /\ (i - 1) + 1 = i
    BY <1>1, SMT, SizeAssumption
  <2>2. after[Wrap(from + (i - 1))] = s[(i - 1) + 1]
    BY <1>2, <2>1, Zenon
  <2>3. t[i] = after[Wrap(from + (i - 1))]
    BY <1>3, Zenon DEF IsCopy
  <2> QED BY <1>4, <2>1, <2>2, <2>3, Zenon
<1>6. t = first
  BY <1>1, <1>3, <1>4, <1>5, SameCopy, Zenon DEF IsCopy
<1> QED BY <1>6 DEF first

==============================================================================
