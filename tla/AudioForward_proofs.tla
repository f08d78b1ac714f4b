-------------------------- MODULE AudioForward_proofs --------------------------
(***************************************************************************)
(* What holds of audio_post_send, between senders and a receiver, for any  *)
(* periods, numbers of channels and ports, and sizes of the buffers.       *)
(*                                                                         *)
(* Types first, and that the helper is emptied as far as it can be.  These *)
(* are shown of the converter that both programs use, of any period and    *)
(* size, and then of each of the two.                                      *)
(*                                                                         *)
(* Then the order of the samples.  The samples carry the moment they are   *)
(* from.  The invariant gives one sequence T of all that waits: the blobs  *)
(* that process() has read, what can be read in rb and the pieces that the *)
(* handler has still to write.  T is made of Q blocks, each with one       *)
(* period of every channel, all of the same moments N; the helper holds K  *)
(* blocks of the shorter period r with the moments M.  A piece that is     *)
(* written, a blob that is read, a block that is collected move the bounds *)
(* between the parts, and T stays what it is; messages are put behind it   *)
(* and taken from its front as whole blocks.  That is so as long as the    *)
(* room asked for once is room for all of a message, which is what the     *)
(* assumption on the periods gives.                                        *)
(*                                                                         *)
(* Then the account: the samples taken are those forwarded, failed, held   *)
(* by the main thread and held in the buffers.                             *)
(***************************************************************************)
EXTENDS AudioForward, SequenceTheorems, WellFoundedInduction, TLAPS

--------------------------------------------------------------------------------

(* Arithmetic, and pieces of equal length.                                   *)

(* A set of numbers that is not empty has a least element. *)
LEMMA LeastElement ==
  ASSUME NEW S, S \subseteq Nat, S # {}
  PROVE  \E n \in S : \A k \in S : n <= k
<1> DEFINE R == OpToRel(<, Nat)
<1>1. IsWellFoundedOn(R, Nat)
  BY NatLessThanWellFounded, Zenon
<1>2. \A x, y \in Nat : y < x => <<y, x>> \in R
  BY DEF OpToRel
<1> HIDE DEF R
<1>3. PICK n \in S : \A y \in S : ~ (<<y, n>> \in R)
  BY <1>1, WFMin, Zenon
<1>4. \A k \in S : n <= k
  <2> TAKE k \in S
  <2>1. n \in Nat /\ k \in Nat
    OBVIOUS
  <2>2. ~(k < n)
    BY <1>2, <1>3, <2>1, Zenon
  <2> QED
    BY <2>1, <2>2
<1> QED
  BY <1>4

(* A smaller number of times d is smaller by at least d. *)
LEMMA NextMultiple ==
  ASSUME NEW d \in Nat, NEW x \in Int, NEW y \in Int, x < y
  PROVE  x * d + d <= y * d
<1>1. (y - x - 1) * d >= 0
  OBVIOUS
<1> QED
  BY <1>1

(* What is at most b is at most what b is at most, and the same below b. *)
LEMMA AtMost == \A a, b, c \in Nat : a <= b /\ b <= c => a <= c
OBVIOUS

(* n of l, after y that are followed by l at least within z. *)
LEMMA WithinAll ==
  ASSUME NEW y \in Nat, NEW l \in Nat, NEW z \in Nat, y + l <= z, NEW n \in 1 .. l
  PROVE  y + n \in 1 .. z
OBVIOUS

(* Quotient and remainder of a * d + k. *)
LEMMA DivMod ==
  ASSUME NEW d \in Nat \ {0}, NEW a \in Nat, NEW k \in 0 .. d - 1
  PROVE  (a * d + k) \div d = a /\ (a * d + k) % d = k
<1> DEFINE x == a * d + k
           q == x \div d
           m == x % d
<1>1. x \in Nat /\ q \in Nat /\ m \in 0 .. d - 1 /\ x = q * d + m
  OBVIOUS
<1>2. x = a * d + k
  OBVIOUS
<1> HIDE DEF x, q, m
<1>3. ~(q < a)
  <2>1. q < a => q * d + d <= a * d
    BY <1>1, NextMultiple
  <2>2. q * d \in Int /\ a * d \in Int
    BY <1>1
  <2> QED
    BY <1>1, <1>2, <2>1, <2>2
<1>4. ~(a < q)
  <2>1. a < q => a * d + d <= q * d
    BY <1>1, NextMultiple
  <2>2. q * d \in Int /\ a * d \in Int
    BY <1>1
  <2> QED
    BY <1>1, <1>2, <2>1, <2>2
<1>5. q = a
  BY <1>1, <1>3, <1>4
<1>6. m = k
  BY <1>1, <1>2, <1>5
<1> QED
  BY <1>5, <1>6 DEF x, q, m

(* Any number is its quotient times the divisor, and the remainder. *)
LEMMA Division ==
  ASSUME NEW x \in Nat, NEW d \in Nat \ {0}
  PROVE  /\ x \div d \in Nat /\ x % d \in 0 .. d - 1
         /\ x = (x \div d) * d + (x % d)
OBVIOUS

(* The first pieces of ps, joined. *)
Longer(f, ps, i) == IF i = 1 THEN ps[i] ELSE f[i - 1] \o ps[i]

IsJoined(f, ps, n) == f = [i \in 1 .. n |-> Longer(f, ps, i)]

(* There is a function of the first n pieces, joined. *)
LEMMA JoinedExists == \A ps : \A n \in Nat : \E f : IsJoined(f, ps, n)
<1> SUFFICES ASSUME NEW ps
             PROVE  \A n \in Nat : \E f : IsJoined(f, ps, n)
  OBVIOUS
<1> DEFINE Bad == {n \in Nat : \A f : ~IsJoined(f, ps, n)}
<1> SUFFICES ASSUME NEW b \in Bad
             PROVE  FALSE
  OBVIOUS
<1>1. PICK n \in Bad : \A k \in Bad : n <= k
  <2>1. Bad \subseteq Nat /\ Bad # {}
    OBVIOUS
  <2> HIDE DEF Bad
  <2> QED
    BY <2>1, LeastElement
<1>2. CASE n = 0
  <2> DEFINE f == [i \in 1 .. 0 |-> 0]
  <2>1. IsJoined(f, ps, 0)
    BY DEF IsJoined
  <2> QED
    BY <1>2, <2>1
<1>3. CASE n # 0
  <2>1. n \in Nat /\ n - 1 \in Nat
    BY <1>3
  <2>2. n - 1 \notin Bad
    BY <1>1, <2>1
  <2>3. PICK f : IsJoined(f, ps, n - 1)
    BY <2>1, <2>2
  <2> DEFINE g == [i \in 1 .. n |-> IF i < n THEN f[i] ELSE Longer(f, ps, n)]
  <2>4. \A i \in 1 .. n : Longer(g, ps, i) = Longer(f, ps, i)
    BY <2>1 DEF Longer
  <2>5. \A i \in 1 .. n - 1 : f[i] = Longer(f, ps, i)
    BY <2>3 DEF IsJoined
  <2>6. \A i \in 1 .. n : g[i] = Longer(g, ps, i)
    <3> TAKE i \in 1 .. n
    <3>1. CASE i < n
      BY <2>1, <2>4, <2>5, <3>1
    <3>2. CASE i = n
      BY <2>1, <2>4, <3>2
    <3> QED
      BY <2>1, <3>1, <3>2
  <2>7. IsJoined(g, ps, n)
    BY <2>6 DEF IsJoined
  <2> QED
    BY <2>7
<1> QED
  BY <1>2, <1>3

(* FlattenSeq of the community modules is the last of its values. *)
LEMMA FlattenIsJoined ==
  ASSUME NEW ps, NEW n \in Nat, n = Len(ps), n # 0
  PROVE  \E f : FlattenSeq(ps) = f[n] /\ \A i \in 1 .. n : f[i] = Longer(f, ps, i)
<1> DEFINE f == CHOOSE g : IsJoined(g, ps, n)
<1>1. IsJoined(f, ps, n)
  BY JoinedExists
<1>2. FlattenSeq(ps) = f[n]
  BY DEF FlattenSeq, IsJoined, Longer
<1> HIDE DEF f
<1> QED
  BY <1>1, <1>2 DEF IsJoined

(* One sequence after another. *)
LEMMA Concat ==
  ASSUME NEW S, NEW p \in Seq(S), NEW q \in Seq(S)
  PROVE  /\ p \o q \in Seq(S) /\ Len(p \o q) = Len(p) + Len(q)
         /\ \A i \in 1 .. Len(p) : (p \o q)[i] = p[i]
         /\ \A i \in 1 .. Len(q) : (p \o q)[Len(p) + i] = q[i]
OBVIOUS

(* n elements of p after the first m. *)
LEMMA Sub ==
  ASSUME NEW S, NEW p \in Seq(S), NEW m \in Nat, NEW n \in Nat, m + n <= Len(p)
  PROVE  /\ SubSeq(p, m + 1, m + n) \in Seq(S) /\ Len(SubSeq(p, m + 1, m + n)) = n
         /\ \A i \in 1 .. n : SubSeq(p, m + 1, m + n)[i] = p[m + i]
OBVIOUS

(* Pieces of equal length, joined, one after the other. *)
IsFlat(t, ps, l) ==
  /\ Len(t) = Len(ps) * l
  /\ \A j \in 1 .. Len(ps), n \in 1 .. l : t[(j - 1) * l + n] = ps[j][n]

(* FlattenSeq of pieces of equal length. *)
LEMMA FlatPieces ==
  ASSUME NEW S, NEW l \in Nat, NEW ps \in Seq(Seq(S)), \A j \in 1 .. Len(ps) : Len(ps[j]) = l
  PROVE  FlattenSeq(ps) \in Seq(S) /\ IsFlat(FlattenSeq(ps), ps, l)
<1>1. PICK N \in Nat : N = Len(ps)
  OBVIOUS
<1>2. CASE N = 0
  <2>1. ps = <<>> /\ Len(ps) = 0
    BY <1>1, <1>2, EmptySeq
  <2>2. FlattenSeq(ps) = ps
    BY <2>1 DEF FlattenSeq
  <2>3. PICK t : t = FlattenSeq(ps) /\ t = <<>>
    BY <2>1, <2>2
  <2>4. t \in Seq(S) /\ Len(t) = 0 /\ 0 * l = 0
    BY <2>3
  <2>5. IsFlat(t, ps, l)
    BY <2>1, <2>4 DEF IsFlat
  <2> QED
    BY <2>3, <2>4, <2>5
<1>3. CASE N # 0
  <2>1. PICK f : FlattenSeq(ps) = f[N] /\ \A i \in 1 .. N : f[i] = Longer(f, ps, i)
    BY <1>1, <1>3, FlattenIsJoined
  <2> DEFINE Good(i) == /\ f[i] \in Seq(S) /\ Len(f[i]) = i * l
                        /\ \A j \in 1 .. i, n \in 1 .. l : f[i][(j - 1) * l + n] = ps[j][n]
             Bad == {i \in 1 .. N : ~Good(i)}
  <2>2. ASSUME NEW b \in Bad
        PROVE  FALSE
    <3>1. PICK i \in Bad : \A k \in Bad : i <= k
      <4>1. Bad \subseteq Nat
        <5> HIDE DEF Good
        <5> QED
          BY <1>1
      <4>2. Bad # {}
        BY <2>2
      <4> HIDE DEF Bad
      <4> QED
        BY <4>1, LeastElement
    <3>2. i \in 1 .. N /\ ~Good(i)
      OBVIOUS
    <3>3. ps[i] \in Seq(S) /\ Len(ps[i]) = l
      BY <1>1, <3>2
    <3>4. CASE i = 1
      <4>1. f[i] = ps[i]
        BY <2>1, <3>2, <3>4 DEF Longer
      <4>2. Good(i)
        BY <3>3, <3>4, <4>1
      <4> QED
        BY <3>2, <4>2
    <3>5. CASE i # 1
      <4>0. i \in Nat /\ i \in 1 .. N
        BY <1>1, <3>2
      <4>1. i - 1 \in 1 .. N /\ ~(i <= i - 1)
        <5> HIDE DEF Bad
        <5> QED
          BY <1>1, <3>5, <4>0
      <4>2. Good(i - 1)
        <5> HIDE DEF Good
        <5> QED
          BY <3>1, <4>1
      <4>3. f[i] = f[i - 1] \o ps[i]
        BY <2>1, <3>2, <3>5 DEF Longer
      <4>4. PICK p, z : /\ p = f[i - 1] /\ p \in Seq(S) /\ Len(p) = z
                        /\ z = (i - 1) * l /\ z \in Nat /\ z + l = i * l
        <5>1. (i - 1) * l \in Nat /\ (i - 1) * l + l = i * l
          <6> HIDE DEF Bad, Good
          <6> QED
            BY <4>0, <4>1
        <5> QED
          BY <4>2, <5>1
      <4> HIDE DEF Bad, Good
      <4>5. /\ f[i] \in Seq(S) /\ Len(f[i]) = z + l
            /\ \A k \in 1 .. z : f[i][k] = p[k]
            /\ \A k \in 1 .. l : f[i][z + k] = ps[i][k]
        <5>1. PICK q : q = ps[i] /\ q \in Seq(S) /\ Len(q) = l /\ f[i] = p \o q
          BY <3>3, <4>3, <4>4
        <5>2. /\ p \o q \in Seq(S) /\ Len(p \o q) = z + l
              /\ \A k \in 1 .. z : (p \o q)[k] = p[k]
              /\ \A k \in 1 .. l : (p \o q)[z + k] = q[k]
          <6>1. p \in Seq(S) /\ q \in Seq(S) /\ Len(p) = z /\ Len(q) = l
            BY <4>4, <5>1
          <6>2. /\ p \o q \in Seq(S) /\ Len(p \o q) = Len(p) + Len(q)
                /\ \A k \in 1 .. Len(p) : (p \o q)[k] = p[k]
                /\ \A k \in 1 .. Len(q) : (p \o q)[Len(p) + k] = q[k]
            <7>1. p \o q \in Seq(S) /\ Len(p \o q) = Len(p) + Len(q)
              BY <6>1, Concat
            <7>2. \A k \in 1 .. Len(p) : (p \o q)[k] = p[k]
              BY <6>1, Concat
            <7>3. \A k \in 1 .. Len(q) : (p \o q)[Len(p) + k] = q[k]
              BY <6>1, Concat
            <7> QED
              BY <7>1, <7>2, <7>3
          <6> QED
            BY <6>1, <6>2
        <5> QED
          BY <5>1, <5>2
      <4>6. f[i] \in Seq(S) /\ Len(f[i]) = i * l
        BY <4>4, <4>5
      <4>7. ASSUME NEW j \in 1 .. i, NEW n \in 1 .. l
            PROVE  f[i][(j - 1) * l + n] = ps[j][n]
        <5>1. CASE j = i
          BY <4>4, <4>5, <5>1
        <5>2. CASE j # i
          <6>1. j \in 1 .. i - 1 /\ j - 1 \in Nat
            BY <4>0, <5>2
          <6>2. PICK y \in Nat : y = (j - 1) * l /\ y + l <= z
            <7>1. (j - 1) * l \in Nat /\ j - 1 \in Int /\ i - 1 \in Int /\ j - 1 < i - 1
              BY <4>0, <6>1
            <7>2. (j - 1) * l + l <= (i - 1) * l
              BY <7>1, NextMultiple
            <7> QED
              BY <4>4, <7>1, <7>2
          <6>3. y + n \in 1 .. z
            <7>1. y \in Nat /\ z \in Nat /\ y + l <= z
              BY <4>4, <6>2
            <7> QED
              BY <7>1, WithinAll
          <6>4. f[i][y + n] = p[y + n]
            BY <4>5, <6>3
          <6> QED
            BY <4>2, <4>4, <6>1, <6>2, <6>4 DEF Good
        <5> QED
          BY <5>1, <5>2
      <4> QED
        BY <3>2, <4>6, <4>7 DEF Good
    <3> QED
      BY <3>4, <3>5
  <2>3. Good(N)
    <3>1. N \in 1 .. N /\ N \notin Bad
      <4> HIDE DEF Bad
      <4> QED
        BY <1>1, <1>3, <2>2
    <3> HIDE DEF Good
    <3> QED
      BY <3>1
  <2> QED
    BY <1>1, <2>1, <2>3 DEF IsFlat
<1> QED
  BY <1>2, <1>3

(* Quotient and remainder of a number below y * d. *)
LEMMA DivBelow ==
  ASSUME NEW x \in Nat, NEW d \in Nat \ {0}, NEW y \in Nat, x < y * d
  PROVE  x \div d \in 0 .. y - 1 /\ x % d \in 0 .. d - 1
<1> DEFINE q == x \div d
           m == x % d
<1>1. q \in Nat /\ m \in 0 .. d - 1 /\ x = q * d + m
  BY Division
<1> HIDE DEF q, m
<1>2. ~(y <= q)
  <2>1. y < q => y * d + d <= q * d
    BY <1>1, NextMultiple
  <2>2. q * d \in Nat /\ y * d \in Nat
    BY <1>1
  <2> QED
    BY <1>1, <2>1, <2>2
<1>3. q \in 0 .. y - 1
  BY <1>1, <1>2
<1> QED
  BY <1>1, <1>3 DEF q, m

(* The operators of AudioConvert, of a period and a size that are given.   *)
Put(size, buffer, items) ==
  buffer \o SubSeq(items, 1, IF Len(items) > size - Len(buffer)
                             THEN size - Len(buffer) ELSE Len(items))

PieceOf(items, from, many) == SubSeq(items, from + 1, from + many)

JoinedOf(P, block, remote, ports) ==
  LET times == P \div remote
  IN  [j \in 1 .. ports * times |->
         LET i == (j - 1) \div times
             k == (j - 1) % times
         IN  PieceOf(block, k * remote * ports + i * remote, remote)]

SplitOf(P, blobs, remote) ==
  LET ports == Len(blobs)
  IN  [j \in 1 .. ports * (remote \div P) |->
         PieceOf(blobs[((j - 1) % ports) + 1], ((j - 1) \div ports) * P, P)]

(* rb_write writes no more than there is room for. *)
LEMMA PutFits ==
  ASSUME NEW S, NEW size \in Nat, NEW b \in Seq(S), Len(b) <= size, NEW t \in Seq(S)
  PROVE  /\ Put(size, b, t) \in Seq(S) /\ Len(Put(size, b, t)) <= size
         /\ Len(Put(size, b, t)) <= Len(b) + Len(t)
<1>1. PICK n \in Nat : /\ n = IF Len(t) > size - Len(b) THEN size - Len(b) ELSE Len(t)
                       /\ n <= Len(t) /\ n + Len(b) <= size
  OBVIOUS
<1>2. PICK u \in Seq(S) : u = SubSeq(t, 1, n) /\ Len(u) = n
  <2>1. SubSeq(t, 1, n) \in Seq(S)
    BY <1>1
  <2>2. Len(SubSeq(t, 1, n)) = n
    BY <1>1
  <2> QED
    BY <2>1, <2>2
<1>3. Put(size, b, t) = b \o u
  BY <1>1, <1>2 DEF Put
<1>4. b \o u \in Seq(S) /\ Len(b \o u) = Len(b) + n
  <2>1. b \o u \in Seq(S)
    BY <1>2
  <2>2. Len(b \o u) = Len(b) + Len(u)
    BY <1>2
  <2> QED
    BY <1>2, <2>1, <2>2
<1> QED
  BY <1>1, <1>3, <1>4

(* rb_write writes all of what there is room for. *)
LEMMA PutAll ==
  ASSUME NEW S, NEW size \in Nat, NEW b \in Seq(S), NEW t \in Seq(S), Len(b) + Len(t) <= size
  PROVE  Put(size, b, t) = b \o t
<1>1. SubSeq(t, 1, Len(t)) = t
  OBVIOUS
<1>2. ~(Len(t) > size - Len(b))
  OBVIOUS
<1> QED
  BY <1>1, <1>2 DEF Put

Fits(S, size, b, t) == size \in Nat /\ b \in Seq(S) /\ t \in Seq(S) /\ Len(b) + Len(t) <= size

(* The same, with its hypotheses under a name. *)
LEMMA PutAllFits == \A S, size, b, t : Fits(S, size, b, t) => Put(size, b, t) = b \o t
BY PutAll DEF Fits

(* n samples after the first m. *)
LEMMA PieceType ==
  ASSUME NEW S, NEW p \in Seq(S), NEW m \in Nat, NEW n \in Nat, m + n <= Len(p)
  PROVE  /\ PieceOf(p, m, n) \in Seq(S) /\ Len(PieceOf(p, m, n)) = n
         /\ \A i \in 1 .. n : PieceOf(p, m, n)[i] = p[m + i]
BY Sub DEF PieceOf

PiecesOf(S, P, r, w, ps) ==
  /\ ps \in Seq(Seq(S)) /\ Len(ps) = w * (P \div r)
  /\ \A j \in 1 .. w * (P \div r) : Len(ps[j]) = r

(* The pieces joined lie within the block. *)
LEMMA JoinedType ==
  ASSUME NEW S, NEW P \in Nat, NEW r \in Nat \ {0}, r < P, NEW w \in Nat \ {0},
         NEW block \in Seq(S), Len(block) = P * w
  PROVE  PiecesOf(S, P, r, w, JoinedOf(P, block, r, w))
<1>1. PICK t \in Nat \ {0} : t = P \div r /\ t * r <= P
  <2>1. P \div r \in Nat /\ P % r \in 0 .. r - 1 /\ P = (P \div r) * r + (P % r)
    BY Division
  <2>2. P \div r # 0
    BY <2>1
  <2> QED
    BY <2>1, <2>2
<1> DEFINE From(j) == ((j - 1) % t) * r * w + ((j - 1) \div t) * r
<1>2. ASSUME NEW j \in 1 .. w * t
      PROVE  From(j) \in Nat /\ From(j) + r <= Len(block)
  <2>1. j - 1 \in Nat /\ j - 1 < w * t
    BY <1>1
  <2>2. PICK i, k : /\ i = (j - 1) \div t /\ k = (j - 1) % t
                    /\ i \in 0 .. w - 1 /\ k \in 0 .. t - 1
    BY <1>1, <2>1, DivBelow
  <2>3. PICK a \in Nat : a = r * w
    OBVIOUS
  <2>4. i * r + r <= a /\ i * r \in Nat
    BY <2>2, <2>3, NextMultiple
  <2>5. k * a + a <= t * a /\ k * a \in Nat
    <3>1. k \in Int /\ t \in Int /\ k < t /\ k >= 0
      BY <1>1, <2>2
    <3> QED
      BY <3>1, NextMultiple
  <2>6. t * a <= P * w
    <3>1. t * a = (t * r) * w
      BY <1>1, <2>3
    <3>2. t * r \in Nat /\ (P - t * r) * w >= 0
      BY <1>1
    <3> QED
      BY <1>1, <3>1, <3>2
  <2>7. k * r * w = k * a
    BY <2>2, <2>3
  <2>8. From(j) = k * a + i * r
    BY <2>2, <2>7
  <2> QED
    BY <2>4, <2>5, <2>6, <2>8
<1>3. JoinedOf(P, block, r, w) = [j \in 1 .. w * t |-> PieceOf(block, From(j), r)]
  BY <1>1 DEF JoinedOf
<1>4. \A j \in 1 .. w * t : /\ PieceOf(block, From(j), r) \in Seq(S)
                            /\ Len(PieceOf(block, From(j), r)) = r
  <2> HIDE DEF From
  <2> QED
    BY <1>2, PieceType
<1>5. w * t \in Nat
  BY <1>1
<1> HIDE DEF From
<1>6. PICK ps : ps = JoinedOf(P, block, r, w)
  OBVIOUS
<1>7. ps = [j \in 1 .. w * t |-> PieceOf(block, From(j), r)]
  BY <1>3, <1>6
<1>8. ps \in Seq(Seq(S)) /\ Len(ps) = w * t
  BY <1>4, <1>5, <1>7
<1>9. \A j \in 1 .. w * t : Len(ps[j]) = r
  BY <1>4, <1>7
<1> QED
  BY <1>1, <1>6, <1>8, <1>9, Zenon DEF PiecesOf

(* The pieces of a long period are sequences of samples. *)
LEMMA SplitType ==
  ASSUME NEW S, NEW P \in Nat \ {0}, NEW r \in Nat, P <= r,
         NEW blobs \in Seq(Seq(S)), \A i \in 1 .. Len(blobs) : Len(blobs[i]) = r
  PROVE  SplitOf(P, blobs, r) \in Seq(Seq(S))
<1>1. PICK t \in Nat : t = r \div P /\ t * P <= r
  <2>1. PICK q \in Nat, m \in 0 .. P - 1 : q = r \div P /\ r = q * P + m
    BY Division
  <2>2. q * P \in Nat /\ q * P <= r
    BY <2>1
  <2>3. q = r \div P
    BY <2>1
  <2> QED
    BY <2>2, <2>3
<1>2. PICK w \in Nat : w = Len(blobs)
  OBVIOUS
<1> DEFINE It(j) == PieceOf(blobs[((j - 1) % w) + 1], ((j - 1) \div w) * P, P)
<1>3. ASSUME NEW j \in 1 .. w * t
      PROVE  It(j) \in Seq(S)
  <2>1. j - 1 \in Nat /\ j - 1 < w * t /\ j - 1 < t * w /\ w \in Nat \ {0}
    BY <1>1, <1>2
  <2>2. PICK i, k : /\ k = (j - 1) \div w /\ i = (j - 1) % w
                    /\ k \in 0 .. t - 1 /\ i \in 0 .. w - 1
    BY <1>1, <2>1, DivBelow
  <2>3. k * P + P <= t * P /\ k * P \in Nat
    <3>1. k \in Int /\ t \in Int /\ k < t /\ k >= 0
      BY <1>1, <2>2
    <3> QED
      BY <3>1, NextMultiple
  <2>4. blobs[i + 1] \in Seq(S) /\ Len(blobs[i + 1]) = r
    BY <1>2, <2>2
  <2>5. PieceOf(blobs[i + 1], k * P, P) \in Seq(S)
    BY <1>1, <2>3, <2>4, PieceType
  <2> QED
    BY <2>2, <2>5
<1>4. SplitOf(P, blobs, r) = [j \in 1 .. w * t |-> It(j)]
  BY <1>1, <1>2 DEF SplitOf
<1>5. w * t \in Nat
  BY <1>1
<1> HIDE DEF It
<1> QED
  BY <1>3, <1>4, <1>5

--------------------------------------------------------------------------------

(* What a converter does, and the types of its buffers.                      *)

(* What a converter's steps do, of a period and a size that are given.     *)
ConvWrites(size, b, h, o, b2, h2, o2) ==
  /\ o.pieces # <<>>
  /\ b2 = Put(size, b, Head(o.pieces))
  /\ o2 = [o EXCEPT !.pieces = Tail(@)]
  /\ h2 = h

ConvMayJoin(P, size, b, h, o) ==
  /\ o.at = "join" /\ o.pieces = <<>>
  /\ Len(h) >= P * o.ports
  /\ size - Len(b) >= P * o.ports

ConvJoins(P, size, b, h, o, b2, h2, o2) ==
  /\ ConvMayJoin(P, size, b, h, o)
  /\ o2 = [o EXCEPT !.pieces = JoinedOf(P, SubSeq(h, 1, P * o.ports), o.remote, o.ports)]
  /\ h2 = SubSeq(h, P * o.ports + 1, Len(h))
  /\ b2 = b

ConvReturns(P, size, b, h, o, b2, h2, o2) ==
  /\ o.at # "idle" /\ o.pieces = <<>> /\ ~ConvMayJoin(P, size, b, h, o)
  /\ o2 = [at |-> "idle", pieces |-> <<>>, ports |-> 0, remote |-> 0]
  /\ b2 = b /\ h2 = h

ConvBegins(P, size, h, h2, o2, blobs, remote) ==
  \/ /\ P = remote /\ h2 = h
     /\ o2 = [at |-> "write", pieces |-> blobs, ports |-> Len(blobs), remote |-> remote]
  \/ /\ P > remote /\ h2 = Put(size, h, FlattenSeq(blobs))
     /\ o2 = [at |-> "join", pieces |-> <<>>, ports |-> Len(blobs), remote |-> remote]
  \/ /\ P < remote /\ h2 = h
     /\ o2 = [at |-> "write", pieces |-> SplitOf(P, blobs, remote), ports |-> Len(blobs),
              remote |-> remote]

OscType(S) == [at : {"idle", "write", "join"}, pieces : Seq(Seq(S)), ports : Nat, remote : Nat]

ConvType(S, P, size, b, h, o) ==
  /\ b \in Seq(S) /\ Len(b) <= size
  /\ h \in Seq(S) /\ Len(h) <= size
  /\ o \in OscType(S)
  /\ o.at = "idle" => o.pieces = <<>>
  /\ o.at = "join" => o.ports # 0 /\ o.remote # 0 /\ o.remote < P

(* What is left to be collected fits, once it is looked at.                *)
Drained(P, size, max, b, h, o) ==
  Len(h) >= P * max =>
    /\ o.at = "join" /\ o.pieces = <<>>
    /\ Len(h) >= P * o.ports /\ Len(h) - P * o.ports < P * max
    /\ size - Len(b) >= P * o.ports

ConvOK(S, P, size, max, b, h, o) ==
  ConvType(S, P, size, b, h, o) /\ Drained(P, size, max, b, h, o)

(* The first element and the others. *)
LEMMA TailType ==
  ASSUME NEW S, NEW p \in Seq(S), p # <<>>
  PROVE  Head(p) \in S /\ Tail(p) \in Seq(S) /\ Len(Tail(p)) = Len(p) - 1
OBVIOUS

(* What is left when n elements are taken off. *)
LEMMA RestType ==
  ASSUME NEW S, NEW p \in Seq(S), NEW n \in Nat
  PROVE  /\ SubSeq(p, n + 1, Len(p)) \in Seq(S) /\ Len(SubSeq(p, n + 1, Len(p))) <= Len(p)
         /\ n <= Len(p) => Len(SubSeq(p, n + 1, Len(p))) = Len(p) - n
<1>1. SubSeq(p, n + 1, Len(p)) \in Seq(S)
  OBVIOUS
<1>2. Len(SubSeq(p, n + 1, Len(p))) <= Len(p)
  OBVIOUS
<1>3. n <= Len(p) => Len(SubSeq(p, n + 1, Len(p))) = Len(p) - n
  OBVIOUS
<1> QED
  BY <1>1, <1>2, <1>3

(* Reading from the ring buffer keeps the types of a converter. *)
LEMMA ReadOK ==
  ASSUME NEW S, NEW P \in Nat \ {0}, NEW size \in Nat, NEW max \in Nat, NEW b, NEW h, NEW o,
         ConvOK(S, P, size, max, b, h, o), NEW n \in Nat
  PROVE  ConvOK(S, P, size, max, SubSeq(b, n + 1, Len(b)), h, o)
<1>1. PICK c \in Seq(S) : c = SubSeq(b, n + 1, Len(b)) /\ Len(c) <= Len(b)
  BY RestType DEF ConvOK, ConvType
<1>2. ConvType(S, P, size, c, h, o)
  BY <1>1 DEF ConvOK, ConvType
<1>3. o.ports \in Nat
  BY DEF ConvOK, ConvType, OscType
<1>4. P * o.ports \in Nat
  BY <1>3
<1>5. Drained(P, size, max, c, h, o)
  BY <1>1, <1>4 DEF ConvOK, ConvType, Drained
<1> QED
  BY <1>1, <1>2, <1>5 DEF ConvOK

(* Writing a piece keeps the types of a converter. *)
LEMMA WriteOK ==
  ASSUME NEW S, NEW P \in Nat \ {0}, NEW size \in Nat, NEW max \in Nat, NEW b, NEW h, NEW o,
         ConvOK(S, P, size, max, b, h, o), NEW b2, NEW h2, NEW o2,
         ConvWrites(size, b, h, o, b2, h2, o2)
  PROVE  ConvOK(S, P, size, max, b2, h2, o2)
<1>1. o \in OscType(S) /\ o.pieces \in Seq(Seq(S)) /\ o.pieces # <<>> /\ h2 = h
  BY DEF ConvOK, ConvType, OscType, ConvWrites
<1>2. Head(o.pieces) \in Seq(S) /\ Tail(o.pieces) \in Seq(Seq(S))
  BY <1>1, TailType
<1>3. b2 \in Seq(S) /\ Len(b2) <= size
  BY <1>2, PutFits DEF ConvOK, ConvType, ConvWrites
<1>4. /\ o2 \in OscType(S) /\ o2.pieces = Tail(o.pieces)
      /\ o2.at = o.at /\ o2.ports = o.ports /\ o2.remote = o.remote
  BY <1>1, <1>2 DEF ConvWrites, OscType
<1>5. o.at # "idle" /\ Len(h) < P * max
  <2>1. P * max \in Nat /\ Len(h) \in Nat
    BY DEF ConvOK, ConvType
  <2> QED
    BY <1>1, <2>1 DEF ConvOK, ConvType, Drained
<1>6. ConvType(S, P, size, b2, h2, o2)
  BY <1>1, <1>3, <1>4, <1>5 DEF ConvOK, ConvType
<1>7. Drained(P, size, max, b2, h2, o2)
  <2>1. P * max \in Nat /\ Len(h) \in Nat
    BY DEF ConvOK, ConvType
  <2> QED
    BY <1>1, <1>5, <2>1 DEF Drained
<1> QED
  BY <1>6, <1>7 DEF ConvOK

(* Collecting the pieces of a block keeps the types of a converter. *)
LEMMA JoinOK ==
  ASSUME NEW S, NEW P \in Nat \ {0}, NEW size \in Nat, NEW max \in Nat, NEW b, NEW h, NEW o,
         ConvOK(S, P, size, max, b, h, o), NEW b2, NEW h2, NEW o2,
         ConvJoins(P, size, b, h, o, b2, h2, o2)
  PROVE  ConvOK(S, P, size, max, b2, h2, o2)
<1>1. /\ o \in OscType(S) /\ o.at = "join" /\ h \in Seq(S) /\ b2 = b /\ Len(h) <= size
      /\ o.ports \in Nat \ {0} /\ o.remote \in Nat \ {0} /\ o.remote < P
  BY DEF ConvOK, ConvType, OscType, ConvJoins, ConvMayJoin
<1>2. PICK z \in Nat : z = P * o.ports /\ z <= Len(h)
  BY <1>1 DEF ConvJoins, ConvMayJoin
<1>3. SubSeq(h, 1, z) \in Seq(S) /\ Len(SubSeq(h, 1, z)) = z
  <2>1. SubSeq(h, 1, z) \in Seq(S)
    BY <1>1, <1>2
  <2>2. Len(SubSeq(h, 1, z)) = z
    BY <1>1, <1>2
  <2> QED
    BY <2>1, <2>2
<1>4. JoinedOf(P, SubSeq(h, 1, z), o.remote, o.ports) \in Seq(Seq(S))
  <2>1. PiecesOf(S, P, o.remote, o.ports, JoinedOf(P, SubSeq(h, 1, z), o.remote, o.ports))
    BY <1>1, <1>2, <1>3, JoinedType
  <2> QED
    BY <2>1 DEF PiecesOf
<1>5. h2 \in Seq(S) /\ Len(h2) = Len(h) - z
  <2>1. h2 = SubSeq(h, z + 1, Len(h))
    BY <1>2 DEF ConvJoins
  <2> QED
    BY <1>1, <1>2, <2>1, RestType
<1>6. /\ o2 \in OscType(S)
      /\ o2.at = o.at /\ o2.ports = o.ports /\ o2.remote = o.remote
  BY <1>1, <1>2, <1>4 DEF ConvJoins, OscType
<1>7. ConvType(S, P, size, b2, h2, o2)
  <2>1. b \in Seq(S) /\ Len(b) <= size
    BY DEF ConvOK, ConvType
  <2> QED
    BY <1>1, <1>2, <1>5, <1>6, <2>1 DEF ConvType
<1>8. Len(h2) < P * max
  <2>1. PICK y \in Nat : y = P * max
    OBVIOUS
  <2>2. z > 0
    BY <1>1, <1>2
  <2>3. Len(h) - z < y
    BY <1>1, <1>2, <2>1, <2>2 DEF ConvOK, Drained
  <2> QED
    BY <1>5, <2>1, <2>3
<1>9. Drained(P, size, max, b2, h2, o2)
  <2>1. P * max \in Nat /\ Len(h2) \in Nat
    BY <1>5
  <2> QED
    BY <1>8, <2>1 DEF Drained
<1> QED
  BY <1>7, <1>9 DEF ConvOK

(* The end of a handler keeps the types of a converter. *)
LEMMA ReturnOK ==
  ASSUME NEW S, NEW P \in Nat \ {0}, NEW size \in Nat, NEW max \in Nat, NEW b, NEW h, NEW o,
         ConvOK(S, P, size, max, b, h, o), NEW b2, NEW h2, NEW o2,
         ConvReturns(P, size, b, h, o, b2, h2, o2)
  PROVE  ConvOK(S, P, size, max, b2, h2, o2)
<1>1. o2 \in OscType(S) /\ o2.at = "idle" /\ o2.pieces = <<>> /\ b2 = b /\ h2 = h
  BY DEF ConvReturns, OscType
<1>2. ConvType(S, P, size, b2, h2, o2)
  BY <1>1 DEF ConvOK, ConvType
<1>3. ~(Len(h) >= P * max)
  BY DEF ConvReturns, ConvMayJoin, ConvOK, Drained
<1>4. Drained(P, size, max, b2, h2, o2)
  BY <1>1, <1>3 DEF Drained
<1> QED
  BY <1>2, <1>4 DEF ConvOK

(* n items fit. *)
HasRoomFor(size, b, n) == size - Len(b) >= n

(* The beginning of a handler keeps the types of a converter. *)
LEMMA BeginOK ==
  ASSUME NEW S, NEW P \in Nat \ {0}, NEW size \in Nat, NEW max \in Nat, NEW b, NEW h, NEW o,
         ConvOK(S, P, size, max, b, h, o), o.at = "idle", NEW h2, NEW o2, NEW r \in Nat \ {0},
         NEW blobs \in Seq(Seq(S)), \A i \in 1 .. Len(blobs) : Len(blobs[i]) = r,
         Len(blobs) \in 1 .. max, HasRoomFor(size, b, P * Len(blobs)),
         ConvBegins(P, size, h, h2, o2, blobs, r)
  PROVE  ConvOK(S, P, size, max, b, h2, o2)
<1>1. b \in Seq(S) /\ Len(b) <= size /\ h \in Seq(S) /\ Len(h) <= size
  BY DEF ConvOK, ConvType
<1>2. PICK w \in Nat \ {0} : w = Len(blobs) /\ w <= max
  OBVIOUS
<1>3. PICK y \in Nat, z \in Nat : y = P * max /\ z = P * w /\ z <= y
  <2>1. P * max \in Nat /\ P * w \in Nat /\ P * (max - w) >= 0
    BY <1>2
  <2>2. P * max = P * w + P * (max - w)
    BY <1>2
  <2> QED
    BY <2>1, <2>2
<1>4. Len(h) < y
  <2>1. o.at # "join"
    OBVIOUS
  <2> QED
    BY <1>1, <1>3, <2>1 DEF ConvOK, Drained
<1>5. CASE P = r
  <2>1. h2 = h /\ o2 = [at |-> "write", pieces |-> blobs, ports |-> w, remote |-> r]
    BY <1>2, <1>5 DEF ConvBegins
  <2>2. ConvType(S, P, size, b, h2, o2)
    BY <1>1, <2>1 DEF ConvType, OscType
  <2>3. Drained(P, size, max, b, h2, o2)
    BY <1>1, <1>3, <1>4, <2>1 DEF Drained
  <2> QED
    BY <2>2, <2>3 DEF ConvOK
<1>6. CASE P > r
  <2>1. /\ h2 = Put(size, h, FlattenSeq(blobs))
        /\ o2 = [at |-> "join", pieces |-> <<>>, ports |-> w, remote |-> r]
    BY <1>2, <1>6 DEF ConvBegins
  <2>2. PICK t \in Seq(S) : t = FlattenSeq(blobs) /\ Len(t) = w * r
    BY <1>2, FlatPieces DEF IsFlat
  <2>3. h2 \in Seq(S) /\ Len(h2) <= size /\ Len(h2) <= Len(h) + Len(t)
    BY <1>1, <2>1, <2>2, PutFits
  <2>4. w * r <= z
    <3>1. w * (P - r) >= 0
      BY <1>6
    <3> QED
      BY <1>3, <3>1
  <2>5. ConvType(S, P, size, b, h2, o2)
    <3>1. o2 \in OscType(S)
      BY <2>1 DEF OscType
    <3> QED
      BY <1>1, <1>6, <2>1, <2>3, <3>1 DEF ConvType
  <2>6. Drained(P, size, max, b, h2, o2)
    <3>1. w * r \in Nat /\ Len(h2) \in Nat /\ Len(h) \in Nat
      BY <1>1, <2>3
    <3>2. Len(h2) - z < y
      BY <1>4, <2>2, <2>3, <2>4, <3>1
    <3>3. P * o2.ports = z /\ o2.at = "join" /\ o2.pieces = <<>>
      BY <1>3, <2>1
    <3>4. size - Len(b) >= z
      BY <1>2, <1>3, Zenon DEF HasRoomFor
    <3>5. y = P * max /\ z <= y
      BY <1>3
    <3>6. Len(h2) >= y => Len(h2) >= z
      <4>1. y \in Nat /\ z \in Nat /\ z <= y
        BY <1>3
      <4>2. Len(h2) \in Nat
        BY <2>3
      <4> QED
        BY <4>1, <4>2
    <3>7. Len(h2) >= P * max => Len(h2) >= P * o2.ports
      BY <3>3, <3>5, <3>6, Zenon
    <3>8. Len(h2) - P * o2.ports < P * max
      BY <3>2, <3>3, <3>5, Zenon
    <3>9. size - Len(b) >= P * o2.ports
      BY <3>3, <3>4, Zenon
    <3> QED
      BY <3>3, <3>7, <3>8, <3>9, Zenon DEF Drained
  <2> QED
    BY <2>5, <2>6 DEF ConvOK
<1>7. CASE P < r
  <2>1. h2 = h /\ o2 = [at |-> "write", pieces |-> SplitOf(P, blobs, r), ports |-> w, remote |-> r]
    BY <1>2, <1>7 DEF ConvBegins
  <2>2. SplitOf(P, blobs, r) \in Seq(Seq(S))
    BY <1>7, SplitType
  <2>3. ConvType(S, P, size, b, h2, o2)
    BY <1>1, <2>1, <2>2 DEF ConvType, OscType
  <2>4. Drained(P, size, max, b, h2, o2)
    BY <1>1, <1>3, <1>4, <2>1 DEF Drained
  <2> QED
    BY <2>3, <2>4 DEF ConvOK
<1> QED
  BY <1>5, <1>6, <1>7

--------------------------------------------------------------------------------

(* The types of the three programs.                                          *)

PlaySize == PlayBuffer * PlayPorts * PlayPeriod

(* What the assumptions say of the constants. *)
LEMMA Constants ==
  /\ OutputPorts \in Nat \ {0} /\ ForwardPeriod \in Nat \ {0} /\ BufferSize \in Nat
  /\ MaxWire \in Nat /\ MaxFrames \in Nat /\ MaxFaults \in Nat /\ MaxNumberOut \in Nat
  /\ PlayPorts \in Nat \ {0} /\ PlayPeriod \in Nat \ {0} /\ PlaySize \in Nat
  /\ \A s \in Senders :
       s.period \in Nat \ {0} /\ s.channels \in Nat /\ s.compatible \in BOOLEAN
<1>1. PlayPorts \in Nat \ {0} /\ PlayPeriod \in Nat \ {0} /\ PlayBuffer \in Nat
  BY PeriodsAssumption
<1>2. PlaySize \in Nat
  BY <1>1 DEF PlaySize
<1> QED
  BY PostSendAssumption, <1>1, <1>2

(* The steps of the forwarder's converter. *)
LEMMA PostConverts ==
  /\ Convert!Writes => ConvWrites(BufferSize, rb, rb_helper, osc, rb', rb_helper', osc')
  /\ Convert!Joins => ConvJoins(ForwardPeriod, BufferSize, rb, rb_helper, osc,
                                rb', rb_helper', osc')
  /\ Convert!Returns => ConvReturns(ForwardPeriod, BufferSize, rb, rb_helper, osc,
                                    rb', rb_helper', osc')
<1>1. Convert!Writes => ConvWrites(BufferSize, rb, rb_helper, osc, rb', rb_helper', osc')
  BY DEF Convert!Writes, Convert!rb_write, Convert!rb_can_write, ConvWrites, Put
<1>2. Convert!MayJoin <=> ConvMayJoin(ForwardPeriod, BufferSize, rb, rb_helper, osc)
  BY DEF Convert!MayJoin, Convert!HasRoom, Convert!rb_can_write, ConvMayJoin
<1>3. Convert!Joins => ConvJoins(ForwardPeriod, BufferSize, rb, rb_helper, osc,
                                 rb', rb_helper', osc')
  BY <1>2 DEF Convert!Joins, Convert!JoinedPieces, Convert!Piece, Convert!Rest, ConvJoins,
              JoinedOf, PieceOf
<1>4. Convert!Returns => ConvReturns(ForwardPeriod, BufferSize, rb, rb_helper, osc,
                                     rb', rb_helper', osc')
  BY <1>2 DEF Convert!Returns, Convert!Idle, ConvReturns
<1> QED
  BY <1>1, <1>3, <1>4

(* A record with another list of pieces. *)
LEMMA OneExcept ==
  ASSUME NEW a, NEW b, NEW c, NEW d, NEW f
  PROVE  [[at |-> a, pieces |-> b, ports |-> c, remote |-> d] EXCEPT !.pieces = f]
           = [at |-> a, pieces |-> f, ports |-> c, remote |-> d]
OBVIOUS

(* A handler of the forwarder begins. *)
LEMMA PostConvertBegins ==
  ASSUME NEW blobs, NEW remote, Convert!Begins(blobs, remote)
  PROVE  ConvBegins(ForwardPeriod, BufferSize, rb_helper, rb_helper', osc', blobs, remote)
<1> DEFINE writing == [at |-> "write", pieces |-> blobs, ports |-> Len(blobs), remote |-> remote]
<1>1. \/ ForwardPeriod = remote /\ osc' = writing /\ UNCHANGED rb_helper
      \/ ForwardPeriod > remote /\ osc' = [writing EXCEPT !.at = "join", !.pieces = <<>>]
                         /\ rb_helper' = Convert!rb_write(rb_helper, Convert!FlattenSeq(blobs))
      \/ ForwardPeriod < remote
         /\ osc' = [writing EXCEPT !.pieces = Convert!SplitPieces(blobs, remote)]
         /\ UNCHANGED rb_helper
  BY Zenon DEF Convert!Begins
<1>6. Convert!FlattenSeq(blobs) = FlattenSeq(blobs)
  BY DEF Convert!FlattenSeq, FlattenSeq
<1>2. Convert!rb_write(rb_helper, FlattenSeq(blobs)) = Put(BufferSize, rb_helper, FlattenSeq(blobs))
  BY DEF Convert!rb_write, Convert!rb_can_write, Put
<1>3. Convert!SplitPieces(blobs, remote) = SplitOf(ForwardPeriod, blobs, remote)
  BY DEF Convert!SplitPieces, Convert!Piece, SplitOf, PieceOf
<1>4. [writing EXCEPT !.at = "join", !.pieces = <<>>]
        = [at |-> "join", pieces |-> <<>>, ports |-> Len(blobs), remote |-> remote]
  <2> DEFINE x == [writing EXCEPT !.at = "join", !.pieces = <<>>]
  <2>1. DOMAIN x = {"at", "pieces", "ports", "remote"}
    OBVIOUS
  <2>2. x.at = "join" /\ x.pieces = <<>> /\ x.ports = Len(blobs) /\ x.remote = remote
    OBVIOUS
  <2>3. x = [i \in DOMAIN x |-> x[i]]
    OBVIOUS
  <2> HIDE DEF x
  <2>4. x = [at |-> "join", pieces |-> <<>>, ports |-> Len(blobs), remote |-> remote]
    BY <2>1, <2>2, <2>3
  <2> QED
    BY <2>4 DEF x
<1>5. [writing EXCEPT !.pieces = SplitOf(ForwardPeriod, blobs, remote)]
        = [at |-> "write", pieces |-> SplitOf(ForwardPeriod, blobs, remote), ports |-> Len(blobs),
           remote |-> remote]
  BY OneExcept
<1> QED
  BY <1>1, <1>2, <1>3, <1>4, <1>5, <1>6, Zenon DEF ConvBegins

(* The steps of the receiver's converter. *)
LEMMA PlayConverts ==
  /\ Converter!Writes => ConvWrites(PlaySize, play_rb, play_helper, play_osc,
                                    play_rb', play_helper', play_osc')
  /\ Converter!Joins => ConvJoins(PlayPeriod, PlaySize, play_rb, play_helper, play_osc,
                                  play_rb', play_helper', play_osc')
  /\ Converter!Returns => ConvReturns(PlayPeriod, PlaySize, play_rb, play_helper, play_osc,
                                      play_rb', play_helper', play_osc')
<1>1. Converter!Writes => ConvWrites(PlaySize, play_rb, play_helper, play_osc,
                                     play_rb', play_helper', play_osc')
  BY DEF Converter!Writes, Converter!rb_write, Converter!rb_can_write, ConvWrites, Put, PlaySize
<1>2. Converter!MayJoin <=> ConvMayJoin(PlayPeriod, PlaySize, play_rb, play_helper, play_osc)
  BY DEF Converter!MayJoin, Converter!HasRoom, Converter!rb_can_write, ConvMayJoin, PlaySize
<1>3. Converter!Joins => ConvJoins(PlayPeriod, PlaySize, play_rb, play_helper, play_osc,
                                   play_rb', play_helper', play_osc')
  BY <1>2 DEF Converter!Joins, Converter!JoinedPieces, Converter!Piece, Converter!Rest, ConvJoins,
              JoinedOf, PieceOf
<1>4. Converter!Returns => ConvReturns(PlayPeriod, PlaySize, play_rb, play_helper, play_osc,
                                       play_rb', play_helper', play_osc')
  BY <1>2 DEF Converter!Returns, Converter!Idle, ConvReturns
<1> QED
  BY <1>1, <1>3, <1>4

(* A handler of the receiver begins. *)
LEMMA PlayConvertBegins ==
  ASSUME NEW blobs, NEW remote, Converter!Begins(blobs, remote)
  PROVE  ConvBegins(PlayPeriod, PlaySize, play_helper, play_helper', play_osc', blobs, remote)
<1> DEFINE writing == [at |-> "write", pieces |-> blobs, ports |-> Len(blobs), remote |-> remote]
<1>1. \/ PlayPeriod = remote /\ play_osc' = writing /\ UNCHANGED play_helper
      \/ PlayPeriod > remote /\ play_osc' = [writing EXCEPT !.at = "join", !.pieces = <<>>]
                         /\ play_helper' = Converter!rb_write(play_helper, Converter!FlattenSeq(blobs))
      \/ PlayPeriod < remote
         /\ play_osc' = [writing EXCEPT !.pieces = Converter!SplitPieces(blobs, remote)]
         /\ UNCHANGED play_helper
  BY Zenon DEF Converter!Begins
<1>6. Converter!FlattenSeq(blobs) = FlattenSeq(blobs)
  BY DEF Converter!FlattenSeq, FlattenSeq
<1>2. Converter!rb_write(play_helper, FlattenSeq(blobs)) = Put(PlaySize, play_helper, FlattenSeq(blobs))
  BY DEF Converter!rb_write, Converter!rb_can_write, Put, PlaySize
<1>3. Converter!SplitPieces(blobs, remote) = SplitOf(PlayPeriod, blobs, remote)
  BY DEF Converter!SplitPieces, Converter!Piece, SplitOf, PieceOf
<1>4. [writing EXCEPT !.at = "join", !.pieces = <<>>]
        = [at |-> "join", pieces |-> <<>>, ports |-> Len(blobs), remote |-> remote]
  <2> DEFINE x == [writing EXCEPT !.at = "join", !.pieces = <<>>]
  <2>1. DOMAIN x = {"at", "pieces", "ports", "remote"}
    OBVIOUS
  <2>2. x.at = "join" /\ x.pieces = <<>> /\ x.ports = Len(blobs) /\ x.remote = remote
    OBVIOUS
  <2>3. x = [i \in DOMAIN x |-> x[i]]
    OBVIOUS
  <2> HIDE DEF x
  <2>4. x = [at |-> "join", pieces |-> <<>>, ports |-> Len(blobs), remote |-> remote]
    BY <2>1, <2>2, <2>3
  <2> QED
    BY <2>4 DEF x
<1>5. [writing EXCEPT !.pieces = SplitOf(PlayPeriod, blobs, remote)]
        = [at |-> "write", pieces |-> SplitOf(PlayPeriod, blobs, remote), ports |-> Len(blobs),
           remote |-> remote]
  BY OneExcept
<1> QED
  BY <1>1, <1>2, <1>3, <1>4, <1>5, <1>6, Zenon DEF ConvBegins

Rates    == {DefaultRate} \cup {s.rate : s \in Senders}
BlobList == {b \in Seq(Seq(Sample)) : \A i \in 1 .. Len(b) : Len(b[i]) = ForwardPeriod}
Message  == [number : 0 .. MaxNumberOut, rate : Rates, blobs : BlobList]

PostFields ==
  {"up", "shutdown_in_progress", "process_enabled", "message_number", "message_number_out",
   "port_count", "sample_rate", "remote_sample_rate", "remote_period_size", "sender_host"}

SourceOK ==
  /\ source \in [is : Senders, number : Nat, accepted : BOOLEAN]
  /\ source.accepted => /\ post.up /\ post.sender_host
                        /\ post.remote_period_size = source.is.period

PostOK ==
  /\ DOMAIN post = PostFields
  /\ post.sample_rate \in Rates
  /\ post.message_number_out \in 0 .. MaxNumberOut
  /\ post.port_count \in 0 .. OutputPorts
  /\ post.port_count = 0 => post.shutdown_in_progress

MainOK ==
  /\ main \in [at : {"poll", "loop", "read"}, blobs : BlobList]
  /\ Len(main.blobs) <= OutputPorts
  /\ main.at # "read" => main.blobs = <<>>
  /\ main.at # "poll" => post.up
  /\ (main.at = "read" /\ main.blobs = <<>> /\ post.port_count # 0) => Len(rb) >= ForwardPeriod

TcpOK == tcp \in [up : BOOLEAN, wire : Seq(Message)] /\ Len(tcp.wire) <= MaxWire

CountOK == count.sent \in 0 .. MaxFrames /\ DOMAIN count = {"sent", "taken", "failed", "mixed"}

PlayOK ==
  play \in [message_number : Nat, port_count : 1 .. PlayPorts,
            remote_period_size : {0, ForwardPeriod}, process_enabled : BOOLEAN,
            pre_buffer_counter : Nat]

PostConvOK == ConvOK(Sample, ForwardPeriod, BufferSize, OutputPorts, rb, rb_helper, osc)
PlayConvOK == ConvOK(Sample, PlayPeriod, PlaySize, PlayPorts, play_rb, play_helper, play_osc)

PostInv == /\ SourceOK /\ PostOK /\ MainOK /\ CountOK /\ faults \in 0 .. MaxFaults
           /\ PostConvOK
PlayInv == PlayOK /\ PlayConvOK
TypeInv == PostInv /\ TcpOK /\ PlayInv

(* An empty converter has its types. *)
LEMMA EmptyConv ==
  ASSUME NEW S, NEW P \in Nat \ {0}, NEW size \in Nat, NEW max \in Nat \ {0}, NEW o,
         o = [at |-> "idle", pieces |-> <<>>, ports |-> 0, remote |-> 0]
  PROVE  ConvOK(S, P, size, max, <<>>, <<>>, o)
<1>1. P * max > 0
  OBVIOUS
<1>2. ConvType(S, P, size, <<>>, <<>>, o)
  BY DEF ConvType, OscType
<1>3. Drained(P, size, max, <<>>, <<>>, o)
  BY <1>1 DEF Drained
<1> QED
  BY <1>2, <1>3 DEF ConvOK

(* The globals of a program that was just started. *)
LEMMA FreshPost ==
  /\ DOMAIN NewPost = PostFields /\ NewPost.sample_rate \in Rates
  /\ NewPost.message_number_out \in 0 .. MaxNumberOut
  /\ NewPost.port_count = OutputPorts
BY Constants DEF NewPost, PostFields, Rates

(* No blobs are a list of blobs. *)
LEMMA NoBlobs == <<>> \in BlobList
BY DEF BlobList

(* The types hold at first. *)
LEMMA TypeInit == Init => TypeInv
<1> SUFFICES ASSUME Init
             PROVE  TypeInv
  OBVIOUS
<1> USE DEF Init, PostInit, PlayInit
<1>1. SourceOK
  BY DEF SourceOK, NewSource
<1>2. PostOK
  BY Constants, FreshPost DEF PostOK
<1>3. MainOK
  BY Constants, NoBlobs DEF MainOK, IdleMain
<1>4. CountOK /\ faults \in 0 .. MaxFaults /\ TcpOK
  BY Constants DEF CountOK, NoCount, TcpOK
<1>5. PostConvOK
  BY Constants, EmptyConv DEF PostConvOK, Convert!Init, Convert!Idle
<1>6. PlayOK
  BY Constants DEF PlayOK, NewPlay
<1>7. PlayConvOK
  BY Constants, EmptyConv DEF PlayConvOK, Converter!Init, Converter!Idle
<1> QED
  BY <1>1, <1>2, <1>3, <1>4, <1>5, <1>6, <1>7 DEF TypeInv, PostInv, PlayInv

(* An offer is answered: offer_handler of audio_post_send. *)
LEMMA TypeOffer == PostInv /\ offer_handler => PostInv' /\ UNCHANGED tcp
<1> SUFFICES ASSUME PostInv, offer_handler
             PROVE  PostInv' /\ UNCHANGED tcp
  OBVIOUS
<1>1. /\ UNCHANGED <<rb, rb_helper, osc, main, tcp, faults, count>>
      /\ source' = [source EXCEPT !.accepted = source.is.compatible]
      /\ post' = IF source.is.compatible
                 THEN [post EXCEPT !.sample_rate = source.is.rate,
                                   !.remote_sample_rate = source.is.rate,
                                   !.remote_period_size = source.is.period, !.sender_host = TRUE]
                 ELSE [post EXCEPT !.sample_rate = source.is.rate]
      /\ post.up /\ source.is \in Senders /\ DOMAIN post = PostFields
  BY DEF PostInv, SourceOK, PostOK, offer_handler, PostListens, convert_vars
<1>2. /\ DOMAIN post' = PostFields /\ post'.sample_rate \in Rates
      /\ post'.message_number_out = post.message_number_out /\ post'.port_count = post.port_count
      /\ post'.shutdown_in_progress = post.shutdown_in_progress /\ post'.up = post.up
      /\ source.is.compatible => post'.sender_host /\ post'.remote_period_size = source.is.period
  BY <1>1 DEF Rates, PostFields
<1>3. SourceOK'
  <2>1. source' = [source EXCEPT !.accepted = source.is.compatible]
        /\ source \in [is : Senders, number : Nat, accepted : BOOLEAN]
    BY <1>1 DEF PostInv, SourceOK
  <2>2. source.is.compatible \in BOOLEAN
    BY <1>1, Constants
  <2> QED
    BY <1>1, <1>2, <2>1, <2>2 DEF SourceOK
<1>4. PostOK' /\ MainOK'
  BY <1>1, <1>2 DEF PostInv, PostOK, MainOK
<1> QED
  BY <1>1, <1>3, <1>4 DEF PostInv, CountOK, PostConvOK

(* The blobs of a message, one of each channel. *)
LEMMA BlobsTyped ==
  ASSUME NEW w \in 1 .. OutputPorts, source.is.period \in Nat \ {0},
         count.sent \in Nat, count.sent + source.is.period <= MaxFrames
  PROVE  /\ Blobs(w) \in Seq(Seq(Sample)) /\ Len(Blobs(w)) = w
         /\ \A i \in 1 .. Len(Blobs(w)) : Len(Blobs(w)[i]) = source.is.period
<1> DEFINE r == source.is.period
           It(i) == [n \in 1 .. r |-> [channel |-> i, number |-> count.sent + n]]
<1>1. ASSUME NEW i \in 1 .. w
      PROVE  It(i) \in Seq(Sample) /\ Len(It(i)) = r
  <2>1. ASSUME NEW n \in 1 .. r
        PROVE  [channel |-> i, number |-> count.sent + n] \in Sample
    <3>1. i \in 1 .. OutputPorts /\ count.sent + n \in 1 .. MaxFrames
      BY Constants
    <3> QED
      BY <3>1 DEF Sample
  <2>2. It(i) \in [1 .. r -> Sample]
    BY <2>1
  <2> HIDE DEF It
  <2> QED
    BY <2>2
<1>2. Blobs(w) = [i \in 1 .. w |-> It(i)]
  BY DEF Blobs
<1> HIDE DEF It
<1>3. Blobs(w) \in Seq(Seq(Sample)) /\ Len(Blobs(w)) = w
  BY <1>1, <1>2
<1> QED
  BY <1>1, <1>2, <1>3

Used == IF source.is.channels < OutputPorts THEN source.is.channels ELSE OutputPorts

(* What audio_handler does, without the ring buffer. *)
LEMMA HandlerStep ==
  ASSUME PostInv, audio_handler
  PROVE  /\ PostListens /\ osc.at = "idle" /\ source.accepted
         /\ count.sent + source.is.period <= MaxFrames
         /\ Used \in 0 .. OutputPorts
         /\ source' = [source EXCEPT !.number = @ + 1]
         /\ UNCHANGED <<rb, main, tcp, faults>>
         /\ DOMAIN post' = PostFields /\ post'.up = post.up
         /\ post'.sample_rate = post.sample_rate
         /\ post'.message_number_out = post.message_number_out
         /\ post'.port_count = Used
         /\ post'.sender_host /\ post'.remote_period_size = source.is.period
         /\ Used = 0 => post'.shutdown_in_progress
         /\ DOMAIN count' = DOMAIN count
         /\ count'.sent = count.sent + source.is.period
         /\ \/ UNCHANGED <<rb_helper, osc>>
            \/ /\ Used # 0 /\ BufferSize - Len(rb) >= ForwardPeriod * Used
               /\ Convert!Begins(Blobs(Used), source.is.period)
<1>1. /\ PostListens /\ osc.at = "idle" /\ source.accepted
      /\ count.sent + source.is.period <= MaxFrames
      /\ source' = [source EXCEPT !.number = @ + 1]
      /\ UNCHANGED <<rb, main, tcp, faults>>
  BY DEF audio_handler, SourceSends
<1>2. Used \in 0 .. OutputPorts
  BY Constants DEF PostInv, SourceOK, Used
<1>3. /\ post.up /\ post.sender_host /\ post.remote_period_size = source.is.period
      /\ DOMAIN post = PostFields /\ DOMAIN count = {"sent", "taken", "failed", "mixed"}
  BY <1>1 DEF PostInv, SourceOK, PostOK, CountOK
<1>4. CASE Used < 1
  <2>1. /\ post' = [[post EXCEPT !.message_number = source.number, !.port_count = Used]
                      EXCEPT !.shutdown_in_progress = TRUE]
        /\ count' = [[count EXCEPT !.sent = @ + source.is.period,
                                   !.mixed = @ \/ (post.message_number > 0 /\ Used # post.port_count)]
                      EXCEPT !.mixed = TRUE]
        /\ UNCHANGED <<rb_helper, osc>>
    BY <1>4 DEF audio_handler, Used
  <2>2. DOMAIN count' = DOMAIN count /\ count'.sent = count.sent + source.is.period
    BY <1>3, <2>1
  <2>3. /\ DOMAIN post' = PostFields /\ post'.up = post.up
        /\ post'.sample_rate = post.sample_rate
        /\ post'.message_number_out = post.message_number_out
        /\ post'.port_count = Used /\ post'.sender_host = post.sender_host
        /\ post'.remote_period_size = post.remote_period_size /\ post'.shutdown_in_progress
    BY <1>3, <2>1 DEF PostFields
  <2> QED
    BY <1>1, <1>2, <1>3, <2>1, <2>2, <2>3
<1>5. CASE ~(Used < 1)
  <2> DEFINE p == [post EXCEPT !.message_number = source.number, !.port_count = Used]
             sent == [count EXCEPT !.sent = @ + source.is.period,
                        !.mixed = @ \/ (post.message_number > 0 /\ Used # post.port_count)]
             again == [p EXCEPT !.sender_host = TRUE, !.remote_sample_rate = source.is.rate,
                                !.remote_period_size = source.is.period]
  <2>1. PICK q : /\ q = p \/ q = again
                 /\ post' = [q EXCEPT !.process_enabled = TRUE]
                 /\ \/ count' = sent /\ UNCHANGED <<rb_helper, osc>>
                    \/ /\ Convert!HasRoom(Used)
                       /\ Convert!Begins(Blobs(Used), q.remote_period_size)
                       /\ count' = [sent EXCEPT !.taken = @ + source.is.period]
    BY <1>5 DEF audio_handler, Used
  <2>2. /\ DOMAIN q = PostFields /\ q.up = post.up /\ q.sample_rate = post.sample_rate
        /\ q.message_number_out = post.message_number_out
        /\ q.port_count = Used /\ q.sender_host
        /\ q.remote_period_size = source.is.period
    <3>1. CASE q = p
      BY <1>3, <3>1 DEF PostFields
    <3>2. CASE q = again
      BY <1>3, <3>2 DEF PostFields
    <3> QED
      BY <2>1, <3>1, <3>2
  <2>3. /\ DOMAIN post' = PostFields /\ post'.up = post.up
        /\ post'.sample_rate = post.sample_rate
        /\ post'.message_number_out = post.message_number_out
        /\ post'.port_count = Used /\ post'.sender_host
        /\ post'.remote_period_size = source.is.period
    BY <2>1, <2>2 DEF PostFields
  <2>4. /\ DOMAIN sent = DOMAIN count /\ sent.sent = count.sent + source.is.period
    BY <1>3
  <2>5. DOMAIN count' = DOMAIN count /\ count'.sent = count.sent + source.is.period
    <3> HIDE DEF sent
    <3> QED
      BY <1>3, <2>1, <2>4
  <2>6. \/ UNCHANGED <<rb_helper, osc>>
        \/ /\ Used # 0 /\ BufferSize - Len(rb) >= ForwardPeriod * Used
           /\ Convert!Begins(Blobs(Used), source.is.period)
    BY <1>2, <1>5, <2>1, <2>2 DEF Convert!HasRoom, Convert!rb_can_write
  <2> QED
    BY <1>1, <1>2, <1>3, <1>5, <2>3, <2>5, <2>6
<1> QED
  BY <1>2, <1>4, <1>5

(* A message comes in: audio_handler keeps the types. *)
LEMMA TypeHandler == PostInv /\ audio_handler => PostInv' /\ UNCHANGED tcp
<1> SUFFICES ASSUME PostInv, audio_handler
             PROVE  PostInv' /\ UNCHANGED tcp
  OBVIOUS
<1>1. PICK u \in 0 .. OutputPorts, r \in Nat \ {0} :
        /\ PostListens /\ osc.at = "idle" /\ source.accepted /\ r = source.is.period
        /\ count.sent + r <= MaxFrames /\ u = Used
        /\ source' = [source EXCEPT !.number = @ + 1]
        /\ UNCHANGED <<rb, main, tcp, faults>>
        /\ DOMAIN post' = PostFields /\ post'.up = post.up
        /\ post'.sample_rate = post.sample_rate
        /\ post'.message_number_out = post.message_number_out
        /\ post'.port_count = u
        /\ post'.sender_host /\ post'.remote_period_size = r
        /\ u = 0 => post'.shutdown_in_progress
        /\ DOMAIN count' = DOMAIN count
        /\ count'.sent = count.sent + r
        /\ \/ UNCHANGED <<rb_helper, osc>>
           \/ /\ u # 0 /\ BufferSize - Len(rb) >= ForwardPeriod * u
              /\ Convert!Begins(Blobs(u), r)
  <2>1. source.is \in Senders
    BY DEF PostInv, SourceOK
  <2>2. source.is.period \in Nat \ {0}
    BY <2>1, Constants
  <2> QED
    BY <2>2, HandlerStep, Zenon
<1>2. SourceOK'
  BY <1>1 DEF PostInv, SourceOK, PostListens
<1>3. PostOK'
  BY <1>1 DEF PostInv, PostOK
<1>4. MainOK'
  <2>1. post.port_count # 0 /\ post.up
    BY <1>1 DEF PostInv, PostOK, PostListens
  <2>2. post'.up /\ rb' = rb /\ main' = main
    BY <1>1, <2>1
  <2> QED
    BY <2>1, <2>2 DEF PostInv, MainOK
<1>5. CountOK' /\ faults' \in 0 .. MaxFaults
  <2>1. count'.sent = count.sent + r /\ count.sent + r <= MaxFrames /\ DOMAIN count' = DOMAIN count
    BY <1>1
  <2>2. count.sent \in 0 .. MaxFrames /\ DOMAIN count = {"sent", "taken", "failed", "mixed"}
    BY DEF PostInv, CountOK
  <2>3. count.sent + r \in 0 .. MaxFrames
    BY <2>1, <2>2, Constants
  <2>4. faults' \in 0 .. MaxFaults
    BY <1>1 DEF PostInv
  <2> QED
    BY <2>1, <2>2, <2>3, <2>4 DEF CountOK
<1>6. PostConvOK'
  <2>1. CASE UNCHANGED <<rb_helper, osc>>
    BY <1>1, <2>1 DEF PostInv, PostConvOK
  <2>2. CASE /\ u # 0 /\ BufferSize - Len(rb) >= ForwardPeriod * u
             /\ Convert!Begins(Blobs(u), r)
    <3>1. ConvBegins(ForwardPeriod, BufferSize, rb_helper, rb_helper', osc', Blobs(u), r)
      BY <2>2, PostConvertBegins
    <3>2. PICK blobs \in Seq(Seq(Sample)) :
            /\ blobs = Blobs(u) /\ Len(blobs) = u
            /\ \A i \in 1 .. Len(blobs) : Len(blobs[i]) = r
      <4>1. u \in 1 .. OutputPorts /\ count.sent \in Nat
        BY <2>2, Constants DEF PostInv, CountOK
      <4> QED
        BY <1>1, <4>1, BlobsTyped
    <3>3. Len(blobs) \in 1 .. OutputPorts
      BY <2>2, <3>2, Constants
    <3>4. ConvOK(Sample, ForwardPeriod, BufferSize, OutputPorts, rb, rb_helper', osc')
      <4>1. HasRoomFor(BufferSize, rb, ForwardPeriod * Len(blobs))
        BY <2>2, <3>2, Zenon DEF HasRoomFor
      <4>2. ConvOK(Sample, ForwardPeriod, BufferSize, OutputPorts, rb, rb_helper, osc)
        BY DEF PostInv, PostConvOK
      <4> QED
        BY <1>1, <3>1, <3>2, <3>3, <4>1, <4>2, Constants, BeginOK
    <3> QED
      BY <1>1, <3>4 DEF PostConvOK
  <2> QED
    BY <1>1, <2>1, <2>2
<1> QED
  BY <1>1, <1>2, <1>3, <1>4, <1>5, <1>6 DEF PostInv

(* A write only makes longer what the main thread may read. *)
LEMMA WriteGrows ==
  ASSUME NEW S, NEW size \in Nat, NEW b \in Seq(S), Len(b) <= size, NEW t \in Seq(S)
  PROVE  Len(b) <= Len(Put(size, b, t))
<1>1. PICK n \in Nat : /\ n = IF Len(t) > size - Len(b) THEN size - Len(b) ELSE Len(t)
                       /\ n <= Len(t)
  OBVIOUS
<1>2. SubSeq(t, 1, n) \in Seq(S)
  BY <1>1
<1>3. Put(size, b, t) = b \o SubSeq(t, 1, n)
  BY <1>1 DEF Put
<1> QED
  BY <1>2, <1>3, Concat

(* The steps of audio_handler after the first keep the types. *)
LEMMA TypeContinues == PostInv /\ AudioContinues => PostInv' /\ UNCHANGED tcp
<1> SUFFICES ASSUME PostInv, AudioContinues
             PROVE  PostInv' /\ UNCHANGED tcp
  OBVIOUS
<1>1. UNCHANGED <<source, post, main, tcp, faults, count>>
  BY DEF AudioContinues
<1>2. ConvOK(Sample, ForwardPeriod, BufferSize, OutputPorts, rb, rb_helper, osc)
  BY DEF PostInv, PostConvOK
<1>3. rb \in Seq(Sample) /\ Len(rb) <= BufferSize
  BY <1>2 DEF ConvOK, ConvType
<1>4. PostConvOK' /\ Len(rb') >= Len(rb)
  <2>1. CASE Convert!Writes
    <3>1. ConvWrites(BufferSize, rb, rb_helper, osc, rb', rb_helper', osc')
      BY <2>1, PostConverts
    <3>2. PostConvOK'
      BY <1>2, <3>1, Constants, WriteOK DEF PostConvOK
    <3>3. Head(osc.pieces) \in Seq(Sample)
      BY <1>2, <3>1, TailType DEF ConvOK, ConvType, ConvWrites, OscType
    <3>4. Len(rb) <= Len(Put(BufferSize, rb, Head(osc.pieces)))
      BY <1>3, <3>3, Constants, WriteGrows
    <3>5. rb' = Put(BufferSize, rb, Head(osc.pieces))
      BY <3>1 DEF ConvWrites
    <3>6. Len(rb') \in Nat /\ Len(rb) \in Nat
      BY <1>3, <3>2 DEF PostConvOK, ConvOK, ConvType
    <3> QED
      BY <3>2, <3>4, <3>5, <3>6
  <2>2. CASE Convert!Joins
    <3>1. ConvJoins(ForwardPeriod, BufferSize, rb, rb_helper, osc, rb', rb_helper', osc')
      BY <2>2, PostConverts
    <3>2. PostConvOK'
      BY <1>2, <3>1, Constants, JoinOK DEF PostConvOK
    <3> QED
      BY <1>3, <3>1, <3>2 DEF ConvJoins
  <2>3. CASE Convert!Returns
    <3>1. ConvReturns(ForwardPeriod, BufferSize, rb, rb_helper, osc, rb', rb_helper', osc')
      BY <2>3, PostConverts
    <3>2. PostConvOK'
      BY <1>2, <3>1, Constants, ReturnOK DEF PostConvOK
    <3> QED
      BY <1>3, <3>1, <3>2 DEF ConvReturns
  <2> QED
    BY <2>1, <2>2, <2>3
       DEF AudioContinues, WritesPeriod, CollectsPeriod, HandlerReturns
<1>5. MainOK'
  <2>1. Len(rb) \in Nat /\ Len(rb') \in Nat
    BY <1>3, <1>4 DEF PostConvOK, ConvOK, ConvType
  <2> QED
    BY <1>1, <1>4, <2>1, Constants DEF PostInv, MainOK
<1> QED
  BY <1>1, <1>4, <1>5 DEF PostInv, SourceOK, PostOK, CountOK

(* The types of the main thread and of what it reads. *)
LEMMA RecordFrom ==
  ASSUME PostInv
  PROVE  /\ main \in [at : {"poll", "loop", "read"}, blobs : BlobList]
         /\ rb \in Seq(Sample) /\ Len(rb) \in Nat
BY DEF PostInv, MainOK, PostConvOK, ConvOK, ConvType

(* process() is entered, or goes round its loop. *)
LEMMA TypeProcess ==
  PostInv /\ (ProcessBegins \/ ProcessLoops) => PostInv' /\ UNCHANGED tcp
<1> SUFFICES ASSUME PostInv, ProcessBegins \/ ProcessLoops
             PROVE  PostInv' /\ UNCHANGED tcp
  OBVIOUS
<1>1. /\ UNCHANGED <<source, post, rb, rb_helper, osc, tcp, faults, count>>
      /\ main.at # "read" /\ post.up /\ main.blobs = <<>>
      /\ \/ main' = [main EXCEPT !.at = "loop"]
         \/ main' = [main EXCEPT !.at = "poll"]
         \/ main' = [main EXCEPT !.at = "read"] /\ PeriodIsThere
  BY DEF ProcessBegins, ProcessLoops, PostInv, MainOK, convert_vars
<1>2. main' \in [at : {"poll", "loop", "read"}, blobs : BlobList] /\ main'.blobs = <<>>
  BY <1>1, RecordFrom
<1>3. main'.at = "read" => PeriodIsThere
  BY <1>1, RecordFrom
<1>4. MainOK'
  <2>1. PeriodIsThere /\ post.port_count # 0 => Len(rb) >= ForwardPeriod
    <3>1. PICK n \in Nat : n = post.port_count
      BY Constants DEF PostInv, PostOK
    <3>2. n # 0 => n * ForwardPeriod >= ForwardPeriod
      <4>1. n # 0 => (n - 1) * ForwardPeriod >= 0
        BY Constants
      <4> QED
        BY <4>1, Constants
    <3>3. n * ForwardPeriod \in Nat
      BY Constants
    <3> QED
      BY <3>1, <3>2, <3>3, RecordFrom, Constants DEF PeriodIsThere
  <2>2. rb' = rb /\ post' = post
    BY <1>1
  <2> QED
    BY <1>1, <1>2, <1>3, <2>1, <2>2, Constants DEF MainOK
<1> QED
  BY <1>1, <1>4 DEF PostInv, SourceOK, PostOK, CountOK, PostConvOK

(* A buffer of which the first n samples are written anew. *)
LEMMA MembufType ==
  ASSUME NEW S, NEW P \in Nat \ {0}, NEW b \in Seq(S), NEW m \in Seq(S), Len(m) = P,
         NEW n \in 0 .. P - 1, n <= Len(b)
  PROVE  /\ SubSeq(b, 1, n) \o SubSeq(m, n + 1, P) \in Seq(S)
         /\ Len(SubSeq(b, 1, n) \o SubSeq(m, n + 1, P)) = P
<1>1. PICK p \in Seq(S) : p = SubSeq(b, 1, n) /\ Len(p) = n
  <2>1. SubSeq(b, 1, n) \in Seq(S)
    OBVIOUS
  <2>2. Len(SubSeq(b, 1, n)) = n
    OBVIOUS
  <2> QED
    BY <2>1, <2>2
<1>2. PICK q \in Seq(S) : q = SubSeq(m, n + 1, P) /\ Len(q) = P - n
  <2>1. n \in Nat /\ n <= Len(m)
    OBVIOUS
  <2>2. SubSeq(m, n + 1, Len(m)) \in Seq(S) /\ Len(SubSeq(m, n + 1, Len(m))) = Len(m) - n
    BY <2>1, RestType
  <2> QED
    BY <2>2
<1> QED
  BY <1>1, <1>2, Concat

(* The buffer that is reused for every port: all of it is new if there is    *)
(* enough to be read.                                                        *)
LEMMA MembufTyped ==
  ASSUME PostInv, main.at = "read", Len(main.blobs) < post.port_count
  PROVE  /\ Membuf \in Seq(Sample) /\ Len(Membuf) = ForwardPeriod
         /\ Len(rb) >= ForwardPeriod => Membuf = SubSeq(rb, 1, ForwardPeriod)
<1> DEFINE got == Convert!rb_read(rb, ForwardPeriod)
<1>1. rb \in Seq(Sample) /\ Len(rb) \in Nat
  BY RecordFrom
<1>2. CASE Len(rb) >= ForwardPeriod
  <2>1. got = SubSeq(rb, 1, ForwardPeriod)
    <3>1. ~(ForwardPeriod > Len(rb))
      BY <1>1, <1>2, Constants
    <3> QED
      BY <3>1 DEF Convert!rb_read
  <2>2. got \in Seq(Sample)
    BY <1>1, <1>2, <2>1, Constants
  <2>3. Len(got) = ForwardPeriod
    BY <1>1, <1>2, <2>1, Constants
  <2> HIDE DEF got
  <2>4. Membuf = got
    BY <2>3 DEF Membuf, got
  <2> QED
    BY <2>1, <2>2, <2>3, <2>4
<1>3. CASE ~(Len(rb) >= ForwardPeriod)
  <2>1. PICK n \in 0 .. ForwardPeriod - 1 : n = Len(rb)
    BY <1>1, <1>3, Constants
  <2>2. got = SubSeq(rb, 1, n)
    <3>1. ForwardPeriod > Len(rb)
      BY <1>1, <1>3, Constants
    <3> QED
      BY <2>1, <3>1 DEF Convert!rb_read
  <2>3. Len(got) = n
    BY <1>1, <2>1, <2>2
  <2>4. main.blobs # <<>> /\ main.blobs \in BlobList
    BY <1>3, Constants, RecordFrom DEF PostInv, MainOK, PostOK
  <2>5. PICK m \in Seq(Sample) : m = main.blobs[Len(main.blobs)] /\ Len(m) = ForwardPeriod
    <3>1. main.blobs \in Seq(Seq(Sample)) /\ Len(main.blobs) \in 1 .. Len(main.blobs)
      BY <2>4 DEF BlobList
    <3> QED
      BY <2>4, <3>1 DEF BlobList
  <2> HIDE DEF got
  <2>6. Membuf = got \o SubSeq(m, n + 1, ForwardPeriod)
    BY <2>1, <2>3, <2>5, Constants DEF Membuf, got
  <2>7. n <= Len(rb)
    BY <1>1, <2>1
  <2>8. Membuf = SubSeq(rb, 1, n) \o SubSeq(m, n + 1, ForwardPeriod)
    BY <2>2, <2>6
  <2>9. Membuf \in Seq(Sample) /\ Len(Membuf) = ForwardPeriod
    BY <1>1, <2>5, <2>7, <2>8, Constants, MembufType
  <2> QED
    BY <1>3, <2>9
<1> QED
  BY <1>2, <1>3

(* One more blob of a period. *)
LEMMA AppendBlob ==
  ASSUME NEW b \in BlobList, NEW m \in Seq(Sample), Len(m) = ForwardPeriod
  PROVE  Append(b, m) \in BlobList /\ Len(Append(b, m)) = Len(b) + 1 /\ Append(b, m) # <<>>
<1>1. b \in Seq(Seq(Sample)) /\ \A i \in 1 .. Len(b) : Len(b[i]) = ForwardPeriod
  BY DEF BlobList
<1>2. Append(b, m) \in Seq(Seq(Sample)) /\ Len(Append(b, m)) = Len(b) + 1
  BY <1>1
<1>3. \A i \in 1 .. Len(b) + 1 : Len(Append(b, m)[i]) = ForwardPeriod
  BY <1>1
<1>4. Append(b, m) # <<>>
  <2>1. PICK c \in Seq(Seq(Sample)) : c = Append(b, m) /\ Len(c) = Len(b) + 1
    BY <1>2
  <2>2. Len(b) \in Nat /\ Len(c) # 0
    BY <1>1, <2>1
  <2>3. c # <<>>
    BY <2>2
  <2> QED
    BY <2>1, <2>3
<1> QED
  BY <1>2, <1>3, <1>4 DEF BlobList

(* process() reads the samples of a port. *)
LEMMA TypeReads == PostInv /\ ProcessReads => PostInv' /\ UNCHANGED tcp
<1> SUFFICES ASSUME PostInv, ProcessReads
             PROVE  PostInv' /\ UNCHANGED tcp
  OBVIOUS
<1>1. /\ main.at = "read" /\ Len(main.blobs) < post.port_count
      /\ main' = [main EXCEPT !.blobs = Append(main.blobs, Membuf)]
      /\ rb' = SubSeq(rb, ForwardPeriod + 1, Len(rb))
      /\ UNCHANGED <<source, post, rb_helper, osc, tcp, faults, count>>
  BY DEF ProcessReads, Convert!Rest
<1>2. PICK b \in BlobList : b = main.blobs
  BY RecordFrom
<1>3. PICK m \in Seq(Sample) : m = Membuf /\ Len(m) = ForwardPeriod
  BY <1>1, MembufTyped
<1>4. Append(b, m) \in BlobList /\ Len(Append(b, m)) = Len(b) + 1 /\ Append(b, m) # <<>>
  BY <1>3, AppendBlob
<1>5. /\ main' \in [at : {"poll", "loop", "read"}, blobs : BlobList]
      /\ main'.at = "read" /\ main'.blobs = Append(b, m)
  BY <1>1, <1>2, <1>3, <1>4, RecordFrom
<1>6. Len(main'.blobs) <= OutputPorts
  <2>1. Len(b) \in Nat /\ post.port_count \in 0 .. OutputPorts
    BY DEF BlobList, PostInv, PostOK
  <2> QED
    BY <1>1, <1>2, <1>4, <1>5, <2>1, Constants
<1>7. MainOK'
  BY <1>1, <1>4, <1>5, <1>6 DEF PostInv, MainOK
<1>8. PostConvOK'
  <2>1. ConvOK(Sample, ForwardPeriod, BufferSize, OutputPorts, rb, rb_helper, osc)
    BY DEF PostInv, PostConvOK
  <2>2. ConvOK(Sample, ForwardPeriod, BufferSize, OutputPorts,
               SubSeq(rb, ForwardPeriod + 1, Len(rb)), rb_helper, osc)
    BY <2>1, Constants, ReadOK
  <2> QED
    BY <1>1, <2>2 DEF PostConvOK
<1> QED
  BY <1>1, <1>7, <1>8 DEF PostInv, SourceOK, PostOK, CountOK

(* process() sends a message. *)
LEMMA TypeSends == PostInv /\ TcpOK /\ ProcessSends => PostInv' /\ TcpOK'
<1> SUFFICES ASSUME PostInv, TcpOK, ProcessSends
             PROVE  PostInv' /\ TcpOK'
  OBVIOUS
<1>1. /\ main.at = "read" /\ post.up /\ UNCHANGED <<source, rb, rb_helper, osc, faults>>
  BY DEF ProcessSends, PostInv, MainOK, convert_vars
<1>2. MainOK' /\ main'.blobs = <<>>
  <2>1. main' = [at |-> "loop", blobs |-> <<>>] \/ main' = [at |-> "poll", blobs |-> <<>>]
    BY DEF ProcessSends, IdleMain
  <2>2. post'.up
    <3>1. post' = post \/ post' = [post EXCEPT !.message_number_out = post'.message_number_out]
      BY DEF ProcessSends, PostInv, PostOK, PostFields
    <3> QED
      BY <1>1, <3>1 DEF PostInv, PostOK, PostFields
  <2> QED
    BY <2>1, <2>2, NoBlobs, Constants DEF MainOK
<1>3. CASE /\ tcp.up /\ Len(tcp.wire) < MaxWire
           /\ tcp' = [tcp EXCEPT !.wire = Append(@, Forwarded)]
           /\ post' = [post EXCEPT !.message_number_out = IF @ < MaxNumberOut THEN @ + 1 ELSE @]
           /\ UNCHANGED count
  <2>1. PICK n \in 0 .. MaxNumberOut :
          n = IF post.message_number_out < MaxNumberOut THEN post.message_number_out + 1
              ELSE post.message_number_out
    BY Constants DEF PostInv, PostOK
  <2>2. post' = [post EXCEPT !.message_number_out = n]
    BY <1>3, <2>1
  <2>3. /\ DOMAIN post' = PostFields /\ post'.up = post.up
        /\ post'.sample_rate = post.sample_rate
        /\ post'.message_number_out = n /\ post'.port_count = post.port_count
        /\ post'.sender_host = post.sender_host
        /\ post'.shutdown_in_progress = post.shutdown_in_progress
        /\ post'.remote_period_size = post.remote_period_size
    BY <2>2 DEF PostInv, PostOK, PostFields
  <2>4. PostOK' /\ SourceOK'
    BY <1>1, <2>3 DEF PostInv, PostOK, SourceOK
  <2>5. Forwarded \in Message
    BY RecordFrom DEF Forwarded, Message, PostInv, PostOK
  <2>6. PICK w \in Seq(Message) : w = tcp.wire
    BY DEF TcpOK
  <2>7. Append(w, Forwarded) \in Seq(Message) /\ Len(Append(w, Forwarded)) = Len(w) + 1
    BY <2>5
  <2>8. TcpOK'
    <3>1. tcp'.wire = Append(w, Forwarded) /\ tcp' \in [up : BOOLEAN, wire : Seq(Message)]
      BY <1>3, <2>6, <2>7 DEF TcpOK
    <3>2. Len(w) \in Nat /\ Len(w) + 1 <= MaxWire
      BY <1>3, <2>6, Constants
    <3> QED
      BY <2>7, <3>1, <3>2 DEF TcpOK
  <2> QED
    BY <1>1, <1>2, <1>3, <2>4, <2>8 DEF PostInv, CountOK, PostConvOK
<1>4. CASE ~tcp.up /\ count' = [count EXCEPT !.failed = @ + 1] /\ UNCHANGED <<tcp, post>>
  <2>1. count'.sent = count.sent /\ DOMAIN count' = DOMAIN count
    BY <1>4 DEF PostInv, CountOK
  <2> QED
    BY <1>1, <1>2, <1>4, <2>1
       DEF PostInv, CountOK, PostConvOK, PostOK, SourceOK, TcpOK
<1> QED
  BY <1>3, <1>4 DEF ProcessSends

(* The program stops, or is closed. *)
LEMMA TypeEnds == PostInv /\ (PostStops \/ PostIsClosed) => PostInv' /\ UNCHANGED tcp
<1> SUFFICES ASSUME PostInv, PostStops \/ PostIsClosed
             PROVE  PostInv' /\ UNCHANGED tcp
  OBVIOUS
<1>1. PostEnds
  BY DEF PostStops, PostIsClosed
<1>2. faults' \in 0 .. MaxFaults
  BY Constants DEF PostStops, PostIsClosed, Fault, PostInv
<1>3. SourceOK'
  <2>1. source' = [source EXCEPT !.accepted = source.accepted /\ ~post.sender_host]
    BY <1>1 DEF PostEnds
  <2>2. (source.accepted /\ ~post.sender_host) = FALSE
    BY DEF PostInv, SourceOK
  <2> QED
    BY <2>1, <2>2 DEF PostInv, SourceOK
<1>4. PostOK'
  <2>1. post' = [NewPost EXCEPT !.up = FALSE]
    BY <1>1 DEF PostEnds
  <2>2. /\ DOMAIN post' = PostFields /\ post'.sample_rate = NewPost.sample_rate
        /\ post'.port_count = NewPost.port_count
        /\ post'.message_number_out = NewPost.message_number_out
    BY <2>1, FreshPost DEF PostFields
  <2> QED
    BY <2>2, FreshPost, Constants DEF PostOK
<1>5. MainOK'
  BY <1>1, NoBlobs, Constants DEF PostEnds, IdleMain, MainOK
<1>6. CountOK'
  BY <1>1 DEF PostEnds, PostInv, CountOK
<1>7. PostConvOK'
  BY <1>1, EmptyConv, Constants DEF PostEnds, Convert!Idle, PostConvOK
<1> QED
  BY <1>1, <1>2, <1>3, <1>4, <1>5, <1>6, <1>7 DEF PostInv, PostEnds

(* The program is started. *)
LEMMA TypeStarts == PostInv /\ PostStarts => PostInv' /\ UNCHANGED tcp
<1> SUFFICES ASSUME PostInv, PostStarts
             PROVE  PostInv' /\ UNCHANGED tcp
  OBVIOUS
<1>1. /\ ~post.up /\ post' = NewPost
      /\ UNCHANGED <<source, rb, rb_helper, osc, main, tcp, faults, count>>
  BY DEF PostStarts, convert_vars
<1>2. ~source.accepted /\ main.at = "poll"
  BY <1>1 DEF PostInv, SourceOK, MainOK
<1>3. SourceOK'
  BY <1>1, <1>2 DEF PostInv, SourceOK
<1>4. PostOK'
  BY <1>1, FreshPost, Constants DEF PostOK
<1>5. MainOK'
  BY <1>1, <1>2 DEF PostInv, MainOK
<1> QED
  BY <1>1, <1>3, <1>4, <1>5 DEF PostInv, CountOK, PostConvOK

(* Senders and receivers come and go. *)
LEMMA TypeSurroundings == PostInv /\ PostSurroundings => PostInv' /\ UNCHANGED tcp
<1> SUFFICES ASSUME PostInv, PostSurroundings
             PROVE  PostInv' /\ UNCHANGED tcp
  OBVIOUS
<1>1. UNCHANGED <<post, rb, rb_helper, osc, main, tcp>> /\ faults' \in 0 .. MaxFaults
  BY Constants DEF PostSurroundings, MessageIsLost, SenderChanges, Fault, PostInv, convert_vars
<1>2. SourceOK' /\ CountOK'
  <2>1. CASE MessageIsLost
    <3>1. /\ source' = [source EXCEPT !.number = @ + 1]
          /\ count' = [count EXCEPT !.sent = @ + source.is.period]
          /\ count.sent + source.is.period <= MaxFrames
      BY <2>1 DEF MessageIsLost, SourceSends
    <3>2. source.is.period \in Nat
      BY Constants DEF PostInv, SourceOK
    <3>3. CountOK'
      BY <3>1, <3>2, Constants DEF PostInv, CountOK
    <3>4. SourceOK'
      BY <1>1, <3>1 DEF PostInv, SourceOK
    <3> QED
      BY <3>3, <3>4
  <2>2. CASE SenderChanges
    <3>1. UNCHANGED count /\ \E s \in Senders : source' = NewSource(s)
      BY <2>2 DEF SenderChanges
    <3> QED
      BY <3>1 DEF PostInv, CountOK, SourceOK, NewSource
  <2> QED
    BY <2>1, <2>2 DEF PostSurroundings
<1> QED
  BY <1>1, <1>2 DEF PostInv, PostOK, MainOK, PostConvOK

(* The receiver takes a message. *)
LEMMA TypePlayTakes ==
  ASSUME PlayInv, NEW message \in Message, message.blobs # <<>>, play_osc.at = "idle",
         PlayTakes(message)
  PROVE  PlayInv'
<1> DEFINE channels == Len(message.blobs)
           p == Arrived(message.number, channels, Len(message.blobs[1]))
           u == p.port_count
<1>1. /\ message.blobs \in Seq(Seq(Sample)) /\ channels \in Nat \ {0}
      /\ \A i \in 1 .. channels : Len(message.blobs[i]) = ForwardPeriod
  BY DEF Message, BlobList
<1>2. message.number \in Nat
  BY Constants DEF Message
<1>3. /\ p \in [message_number : Nat, port_count : 1 .. PlayPorts,
                remote_period_size : {0, ForwardPeriod}, process_enabled : BOOLEAN,
                pre_buffer_counter : Nat]
      /\ p.remote_period_size = ForwardPeriod /\ u <= channels
  <2> DEFINE restarted == \/ play.message_number > message.number
                          \/ message.number = 1
                          \/ play.remote_period_size = 0
             ready == ~restarted /\ play.pre_buffer_counter >= PlayPre
  <2>1. p = [message_number |-> message.number,
             port_count |-> IF channels < PlayPorts THEN channels ELSE PlayPorts,
             remote_period_size |-> IF restarted THEN Len(message.blobs[1])
                                    ELSE play.remote_period_size,
             process_enabled |-> play.process_enabled \/ ready,
             pre_buffer_counter |-> IF restarted THEN 0 ELSE play.pre_buffer_counter]
    BY DEF Arrived
  <2>2. Len(message.blobs[1]) = ForwardPeriod
    BY <1>1
  <2>3. (IF restarted THEN Len(message.blobs[1]) ELSE play.remote_period_size) = ForwardPeriod
    BY <2>2 DEF PlayInv, PlayOK
  <2>4. (IF channels < PlayPorts THEN channels ELSE PlayPorts) \in 1 .. PlayPorts
    BY <1>1, Constants
  <2>5. (IF channels < PlayPorts THEN channels ELSE PlayPorts) <= channels
    BY <1>1, Constants
  <2>6. (IF restarted THEN 0 ELSE play.pre_buffer_counter) \in Nat
    BY DEF PlayInv, PlayOK
  <2>7. (play.process_enabled \/ ready) \in BOOLEAN
    OBVIOUS
  <2> HIDE DEF restarted, ready, channels, p
  <2> QED
    BY <1>2, <2>1, <2>3, <2>4, <2>5, <2>6, <2>7
<1>4. /\ play' = p
      /\ \/ /\ Converter!HasRoom(u)
            /\ Converter!Begins(SubSeq(message.blobs, 1, u), p.remote_period_size)
         \/ UNCHANGED <<play_helper, play_osc>>
      /\ UNCHANGED play_rb
  BY DEF PlayTakes
<1> HIDE DEF p, channels
<1>5. PlayOK'
  BY <1>3, <1>4 DEF PlayOK
<1>6. ConvOK(Sample, PlayPeriod, PlaySize, PlayPorts, play_rb, play_helper, play_osc)
  BY DEF PlayInv, PlayConvOK
<1>7. PlayConvOK'
  <2>1. CASE UNCHANGED <<play_helper, play_osc>>
    BY <1>4, <1>6, <2>1 DEF PlayConvOK
  <2>2. CASE /\ Converter!HasRoom(u)
             /\ Converter!Begins(SubSeq(message.blobs, 1, u), ForwardPeriod)
    <3>1. PICK v \in 1 .. PlayPorts : v = u /\ v <= channels
      BY <1>3
    <3>2. PICK blobs \in Seq(Seq(Sample)) :
            /\ blobs = SubSeq(message.blobs, 1, v) /\ Len(blobs) = v
            /\ \A i \in 1 .. Len(blobs) : Len(blobs[i]) = ForwardPeriod
      <4>1. SubSeq(message.blobs, 1, v) \in Seq(Seq(Sample))
        <5>1. v \in Nat /\ 0 + v <= Len(message.blobs)
          BY <1>1, <3>1, Constants DEF channels
        <5>2. SubSeq(message.blobs, 0 + 1, 0 + v) \in Seq(Seq(Sample))
          BY <1>1, <5>1, Sub
        <5> QED
          BY <5>1, <5>2
      <4>2. Len(SubSeq(message.blobs, 1, v)) = v
        BY <1>1, <3>1, Constants DEF channels
      <4>3. \A i \in 1 .. v : Len(SubSeq(message.blobs, 1, v)[i]) = ForwardPeriod
        BY <1>1, <3>1, Constants DEF channels
      <4> QED
        BY <4>1, <4>2, <4>3
    <3>3. ConvBegins(PlayPeriod, PlaySize, play_helper, play_helper', play_osc', blobs,
                     ForwardPeriod)
      BY <2>2, <3>1, <3>2, PlayConvertBegins
    <3>4. HasRoomFor(PlaySize, play_rb, PlayPeriod * Len(blobs))
      BY <2>2, <3>1, <3>2 DEF Converter!HasRoom, Converter!rb_can_write, PlaySize, HasRoomFor
    <3>5. Len(blobs) \in 1 .. PlayPorts
      BY <3>2
    <3>6. ConvOK(Sample, PlayPeriod, PlaySize, PlayPorts, play_rb, play_helper', play_osc')
      BY <1>6, <3>2, <3>3, <3>4, <3>5, Constants, BeginOK
    <3> QED
      BY <1>4, <3>6 DEF PlayConvOK
  <2> QED
    BY <1>3, <1>4, <2>1, <2>2
<1> QED
  BY <1>5, <1>7 DEF PlayInv

(* The steps of the receiver's handler. *)
LEMMA TypePlayOsc == PlayInv /\ PlayOsc => PlayInv'
<1> SUFFICES ASSUME PlayInv, PlayOsc
             PROVE  PlayInv'
  OBVIOUS
<1>1. ConvOK(Sample, PlayPeriod, PlaySize, PlayPorts, play_rb, play_helper, play_osc)
  BY DEF PlayInv, PlayConvOK
<1>2. CASE PlayWrites
  <2>1. PlayOK'
    BY <1>2 DEF PlayWrites, PlayInv, PlayOK
  <2>2. ConvWrites(PlaySize, play_rb, play_helper, play_osc, play_rb', play_helper', play_osc')
    BY <1>2, PlayConverts DEF PlayWrites
  <2>3. PlayConvOK'
    BY <1>1, <2>2, Constants, WriteOK DEF PlayConvOK
  <2> QED
    BY <2>1, <2>3 DEF PlayInv
<1>3. CASE Converter!Joins /\ UNCHANGED <<play, speakers>>
  <2>1. ConvJoins(PlayPeriod, PlaySize, play_rb, play_helper, play_osc,
                  play_rb', play_helper', play_osc')
    BY <1>3, PlayConverts
  <2>2. PlayConvOK'
    BY <1>1, <2>1, Constants, JoinOK DEF PlayConvOK
  <2> QED
    BY <1>3, <2>2 DEF PlayInv, PlayOK
<1>4. CASE Converter!Returns /\ UNCHANGED <<play, speakers>>
  <2>1. ConvReturns(PlayPeriod, PlaySize, play_rb, play_helper, play_osc,
                    play_rb', play_helper', play_osc')
    BY <1>4, PlayConverts
  <2>2. PlayConvOK'
    BY <1>1, <2>1, Constants, ReturnOK DEF PlayConvOK
  <2> QED
    BY <1>4, <2>2 DEF PlayInv, PlayOK
<1> QED
  BY <1>2, <1>3, <1>4 DEF PlayOsc

(* A cycle of the receiver's callback. *)
LEMMA TypePlayCycle == PlayInv /\ PlayCycle => PlayInv'
<1> SUFFICES ASSUME PlayInv, PlayCycle
             PROVE  PlayInv'
  OBVIOUS
<1>1. ConvOK(Sample, PlayPeriod, PlaySize, PlayPorts, play_rb, play_helper, play_osc)
  BY DEF PlayInv, PlayConvOK
<1>2. PICK mc \in Nat : mc = play.port_count * PlayPeriod
  BY Constants DEF PlayInv, PlayOK
<1>3. UNCHANGED <<play, play_helper, play_osc>>
      /\ (play_rb' = play_rb \/ play_rb' = SubSeq(play_rb, mc + 1, Len(play_rb)))
  BY <1>2 DEF PlayCycle, Converter!Rest
<1>4. PlayConvOK'
  <2>1. ConvOK(Sample, PlayPeriod, PlaySize, PlayPorts,
               SubSeq(play_rb, mc + 1, Len(play_rb)), play_helper, play_osc)
    BY <1>1, Constants, ReadOK
  <2> QED
    BY <1>1, <1>3, <2>1 DEF PlayConvOK
<1> QED
  BY <1>3, <1>4 DEF PlayInv, PlayOK

(* All that the receiver does keeps its types. *)
LEMMA TypeReceiver ==
  TcpOK /\ PlayInv /\ (ReceiverConnects \/ ReceiverLeaves \/ ReceiverWorks)
    => TcpOK' /\ PlayInv'
<1> SUFFICES ASSUME TcpOK, PlayInv, ReceiverConnects \/ ReceiverLeaves \/ ReceiverWorks
             PROVE  TcpOK' /\ PlayInv'
  OBVIOUS
<1>1. CASE ReceiverConnects
  BY <1>1 DEF ReceiverConnects, TcpOK, PlayInv, PlayOK, PlayConvOK, play_vars
<1>2. CASE ReceiverLeaves
  <2>1. TcpOK'
    BY <1>2, Constants DEF ReceiverLeaves, TcpOK
  <2>2. PlayOK'
    BY <1>2, Constants DEF ReceiverLeaves, PlayRestarts, PlayOK, NewPlay
  <2>3. PlayConvOK'
    BY <1>2, EmptyConv, Constants DEF ReceiverLeaves, PlayRestarts, PlayConvOK, Converter!Idle
  <2> QED
    BY <2>1, <2>2, <2>3 DEF PlayInv
<1>3. CASE ReceiverReads
  <2>1. /\ tcp.wire # <<>> /\ play_osc.at = "idle"
        /\ IF Head(tcp.wire).blobs = <<>> THEN UNCHANGED play_vars
           ELSE PlayTakes(Head(tcp.wire))
        /\ tcp' = [tcp EXCEPT !.wire = Tail(@)]
    BY <1>3 DEF ReceiverReads
  <2>2. PICK w \in Seq(Message) : w = tcp.wire /\ w # <<>>
    BY <2>1 DEF TcpOK
  <2>3. Head(w) \in Message /\ Tail(w) \in Seq(Message) /\ Len(Tail(w)) = Len(w) - 1
    BY <2>2, TailType
  <2>4. TcpOK'
    <3>1. tcp'.wire = Tail(w) /\ tcp' \in [up : BOOLEAN, wire : Seq(Message)]
      BY <2>1, <2>2, <2>3 DEF TcpOK
    <3>2. Len(w) \in Nat /\ Len(w) <= MaxWire
      BY <2>2 DEF TcpOK
    <3> QED
      BY <2>3, <3>1, <3>2, Constants DEF TcpOK
  <2>5. PlayInv'
    <3>1. CASE Head(w).blobs = <<>>
      BY <2>1, <2>2, <3>1 DEF play_vars, PlayInv, PlayOK, PlayConvOK
    <3>2. CASE Head(w).blobs # <<>>
      BY <2>1, <2>2, <2>3, <3>2, TypePlayTakes
    <3> QED
      BY <3>1, <3>2
  <2> QED
    BY <2>4, <2>5
<1>4. CASE (PlayOsc \/ PlayCycle) /\ UNCHANGED post_vars
  BY <1>4, TypePlayOsc, TypePlayCycle DEF post_vars, TcpOK
<1> QED
  BY <1>1, <1>2, <1>3, <1>4 DEF ReceiverWorks

(* What only the receiver or the connection does. *)
LEMMA PostUntouched ==
  PostInv /\ UNCHANGED <<source, post, convert_vars, main, count>> /\ faults' \in 0 .. MaxFaults
    => PostInv'
BY DEF PostInv, SourceOK, PostOK, MainOK, CountOK, PostConvOK, convert_vars

(* The types are inductive. *)
LEMMA TypeNext == TypeInv /\ [Next]_vars => TypeInv'
<1> SUFFICES ASSUME TypeInv, [Next]_vars
             PROVE  TypeInv'
  OBVIOUS
<1> USE DEF TypeInv
<1>1. CASE (Post \/ PostSurroundings) /\ UNCHANGED play_vars
  <2>1. PlayInv'
    BY <1>1 DEF play_vars, PlayInv, PlayOK, PlayConvOK
  <2>2. PostInv' /\ (UNCHANGED tcp \/ TcpOK')
    BY <1>1, TypeOffer, TypeHandler, TypeContinues, TypeProcess, TypeReads, TypeSends, TypeEnds,
       TypeStarts, TypeSurroundings DEF Post, PostMain, PostOsc
  <2> QED
    BY <2>1, <2>2 DEF TcpOK
<1>2. CASE ReceiverConnects \/ ReceiverLeaves \/ ReceiverWorks
  <2>1. UNCHANGED <<source, post, convert_vars, main, count>> /\ faults' \in 0 .. MaxFaults
    BY <1>2, Constants
       DEF ReceiverConnects, ReceiverLeaves, ReceiverWorks, ReceiverReads, post_vars, Fault,
           PostInv
  <2> QED
    BY <1>2, <2>1, TypeReceiver, PostUntouched
<1>3. CASE UNCHANGED vars
  <2>1. UNCHANGED <<post_vars, play_vars>>
    BY <1>3 DEF vars
  <2> QED
    BY <2>1, PostUntouched DEF post_vars, play_vars, PostInv, TcpOK, PlayInv, PlayOK, PlayConvOK
<1> QED
  BY <1>1, <1>2, <1>3 DEF Next

(* The invariant implies the types that are checked. *)
LEMMA TypeHolds == TypeInv => TypeOK
BY DEF TypeInv, TypeOK, PostInv, PlayInv, PostOK, PostConvOK, PlayConvOK, ConvOK, ConvType, MainOK,
       TcpOK

(* ... and that what the helper holds is less than a block, or can be        *)
(* collected.                                                                *)
LEMMA DrainedHolds == TypeInv => HelperIsDrained
<1> SUFFICES ASSUME TypeInv
             PROVE  HelperIsDrained
  OBVIOUS
<1>1. osc.at = "idle" => Len(rb_helper) < ForwardPeriod * OutputPorts
  <2>1. Len(rb_helper) \in Nat /\ ForwardPeriod * OutputPorts \in Nat
    BY Constants DEF TypeInv, PostInv, PostConvOK, ConvOK, ConvType
  <2> QED
    BY <2>1 DEF TypeInv, PostInv, PostConvOK, ConvOK, Drained
<1>2. play_osc.at = "idle" => Len(play_helper) < PlayPeriod * PlayPorts
  <2>1. Len(play_helper) \in Nat /\ PlayPeriod * PlayPorts \in Nat
    BY Constants DEF TypeInv, PlayInv, PlayConvOK, ConvOK, ConvType
  <2> QED
    BY <2>1 DEF TypeInv, PlayInv, PlayConvOK, ConvOK, Drained
<1> QED
  BY <1>1, <1>2 DEF HelperIsDrained

(* The variables of sender, audio_post_send and receiver have their types,   *)
(* and no buffer is filled beyond its size (AudioForward!TypeOK).            *)
THEOREM TypeCorrect == Spec => []TypeOK
<1>1. TypeInv /\ [Next]_vars => TypeInv'
  BY TypeNext
<1> QED
  BY <1>1, TypeInit, TypeHolds, PTL DEF Spec

(* Once a handler has returned, less than a block is left in rb_helper, or   *)
(* there is no room for one in rb, in both programs (rb_helper and rb of     *)
(* audio_post_send.c and jack_audio_receive.c).                              *)
THEOREM HelperDrained == Spec => []HelperIsDrained
<1>1. TypeInv /\ [Next]_vars => TypeInv'
  BY TypeNext
<1> QED
  BY <1>1, TypeInit, DrainedHolds, PTL DEF Spec

--------------------------------------------------------------------------------

(* Blocks of a period: every channel of the same moments.                    *)

(* What is left after n elements. *)
LEMMA RestAt ==
  ASSUME NEW S, NEW p \in Seq(S), NEW n \in Nat, n <= Len(p)
  PROVE  /\ SubSeq(p, n + 1, Len(p)) \in Seq(S) /\ Len(SubSeq(p, n + 1, Len(p))) = Len(p) - n
         /\ \A i \in 1 .. Len(p) - n : SubSeq(p, n + 1, Len(p))[i] = p[n + i]
<1>1. SubSeq(p, n + 1, Len(p)) \in Seq(S) /\ Len(SubSeq(p, n + 1, Len(p))) = Len(p) - n
  BY RestType
<1>2. \A i \in 1 .. Len(p) - n : SubSeq(p, n + 1, Len(p))[i] = p[n + i]
  OBVIOUS
<1> QED
  BY <1>1, <1>2

(* The first n elements. *)
LEMMA Prefix ==
  ASSUME NEW S, NEW p \in Seq(S), NEW n \in Nat, n <= Len(p)
  PROVE  /\ SubSeq(p, 1, n) \in Seq(S) /\ Len(SubSeq(p, 1, n)) = n
         /\ \A i \in 1 .. n : SubSeq(p, 1, n)[i] = p[i]
<1>1. SubSeq(p, 1, n) \in Seq(S)
  OBVIOUS
<1>2. Len(SubSeq(p, 1, n)) = n
  OBVIOUS
<1>3. \A i \in 1 .. n : SubSeq(p, 1, n)[i] = p[i]
  OBVIOUS
<1> QED
  BY <1>1, <1>2, <1>3

(* one is so many times the other *)
Times(P, t, r) == P = t * r

(* Where sample n of channel c of block q lies. *)
LEMMA GridIndex ==
  ASSUME NEW w \in Nat \ {0}, NEW P \in Nat \ {0}, NEW Q \in Nat, NEW a \in Nat, a = w * P,
         NEW q \in 0 .. Q - 1, NEW c \in 1 .. w, NEW n \in 1 .. P
  PROVE  /\ q * a \in Nat /\ q * a + a <= Q * a
         /\ (c - 1) * P \in Nat /\ (c - 1) * P + P <= a
         /\ q * P \in Nat /\ q * P + P <= Q * P /\ q * P + n \in 1 .. Q * P
         /\ (c - 1) * P + n \in 1 .. a
         /\ q * a + (c - 1) * P + n \in 1 .. Q * a
<1>1. q \in Int /\ Q \in Int /\ q < Q /\ c - 1 \in Int /\ w \in Int /\ c - 1 < w
      /\ q >= 0 /\ c - 1 >= 0
  OBVIOUS
<1>2. q * a \in Nat /\ q * a + a <= Q * a
  BY <1>1, NextMultiple
<1>3. (c - 1) * P \in Nat /\ (c - 1) * P + P <= a
  BY <1>1, NextMultiple
<1>4. q * P \in Nat /\ q * P + P <= Q * P /\ Q * P \in Nat /\ Q * a \in Nat
  BY <1>1, NextMultiple
<1> QED
  BY <1>2, <1>3, <1>4

(* Q blocks of w runs of P samples; a run holds one channel's of P moments. *)
Grid(T, Q, w, P, N) ==
  /\ Len(T) = Q * (w * P) /\ Len(N) = Q * P
  /\ \A q \in 0 .. Q - 1, c \in 1 .. w, n \in 1 .. P :
       T[q * (w * P) + (c - 1) * P + n] = [channel |-> c, number |-> N[q * P + n]]

(* The first blocks are taken off. *)
LEMMA GridDrop ==
  ASSUME NEW S, NEW w \in Nat \ {0}, NEW P \in Nat \ {0}, NEW Q \in Nat, NEW T \in Seq(S),
         NEW N \in Seq(Nat), Grid(T, Q, w, P, N), NEW d \in 0 .. Q
  PROVE  /\ d * (w * P) \in Nat /\ d * (w * P) <= Len(T) /\ d * P \in Nat /\ d * P <= Len(N)
         /\ Grid(SubSeq(T, d * (w * P) + 1, Len(T)), Q - d, w, P,
                 SubSeq(N, d * P + 1, Len(N)))
<1>1. PICK a \in Nat : a = w * P
  OBVIOUS
<1>2. PICK x \in Nat, y \in Nat : x = d * a /\ y = d * P
  OBVIOUS
<1>3. PICK e \in Nat, g \in Nat : /\ e = (Q - d) * a /\ Q * a = e + x
                                  /\ g = (Q - d) * P /\ Q * P = g + y
  <2>1. (Q - d) * a \in Nat /\ Q * a = (Q - d) * a + x
    BY <1>2
  <2>2. (Q - d) * P \in Nat /\ Q * P = (Q - d) * P + y
    BY <1>2
  <2> QED
    BY <2>1, <2>2
<1>9. /\ Len(T) = e + x /\ x <= Len(T) /\ Len(T) - x = e
      /\ Len(N) = g + y /\ y <= Len(N) /\ Len(N) - y = g
  <2>1. Len(T) = Q * a /\ Len(N) = Q * P
    BY <1>1, Zenon DEF Grid
  <2>2. Len(T) = e + x /\ Len(N) = g + y
    BY <1>3, <2>1, Zenon
  <2>3. x \in Nat /\ y \in Nat /\ e \in Nat /\ g \in Nat
    BY <1>2, <1>3
  <2> QED
    BY <2>2, <2>3
<1>4. PICK U : U = SubSeq(T, x + 1, Len(T)) /\ Len(U) = e
               /\ \A i \in 1 .. e : U[i] = T[x + i]
  <2>1. Len(SubSeq(T, x + 1, Len(T))) = e
    BY <1>9, RestAt
  <2>2. \A i \in 1 .. e : SubSeq(T, x + 1, Len(T))[i] = T[x + i]
    BY <1>9, RestAt
  <2> QED
    BY <2>1, <2>2
<1>5. PICK L : L = SubSeq(N, y + 1, Len(N)) /\ Len(L) = g
               /\ \A i \in 1 .. g : L[i] = N[y + i]
  <2>1. Len(SubSeq(N, y + 1, Len(N))) = g
    BY <1>9, RestAt
  <2>2. \A i \in 1 .. g : SubSeq(N, y + 1, Len(N))[i] = N[y + i]
    BY <1>9, RestAt
  <2> QED
    BY <2>1, <2>2
<1>6. ASSUME NEW q \in 0 .. (Q - d) - 1, NEW c \in 1 .. w, NEW n \in 1 .. P
      PROVE  U[q * a + (c - 1) * P + n] = [channel |-> c, number |-> L[q * P + n]]
  <2>1. Q - d \in Nat
    OBVIOUS
  <2>2. /\ q * a + (c - 1) * P + n \in 1 .. (Q - d) * a
        /\ q * P + n \in 1 .. (Q - d) * P
    BY <1>1, <2>1, GridIndex
  <2>3. q + d \in 0 .. Q - 1
    OBVIOUS
  <2>4. T[(q + d) * a + (c - 1) * P + n] = [channel |-> c, number |-> N[(q + d) * P + n]]
    BY <1>1, <2>3 DEF Grid
  <2>5. (q + d) * a + (c - 1) * P + n = x + (q * a + (c - 1) * P + n)
    BY <1>2
  <2>6. (q + d) * P + n = y + (q * P + n)
    BY <1>2
  <2> QED
    BY <1>3, <1>4, <1>5, <2>2, <2>4, <2>5, <2>6
<1>7. Grid(U, Q - d, w, P, L)
  BY <1>1, <1>3, <1>4, <1>5, <1>6 DEF Grid
<1> QED
  BY <1>1, <1>2, <1>9, <1>4, <1>5, <1>7

(* One block: U has the moments B. *)
Block(U, w, P, B) ==
  /\ Len(U) = w * P /\ Len(B) = P
  /\ \A c \in 1 .. w, n \in 1 .. P : U[(c - 1) * P + n] = [channel |-> c, number |-> B[n]]

(* One more block is put behind. *)
LEMMA GridAdd ==
  ASSUME NEW S, NEW w \in Nat \ {0}, NEW P \in Nat \ {0}, NEW Q \in Nat, NEW T \in Seq(S),
         NEW N \in Seq(Nat), Grid(T, Q, w, P, N),
         NEW U \in Seq(S), NEW B \in Seq(Nat), Block(U, w, P, B)
  PROVE  Grid(T \o U, Q + 1, w, P, N \o B)
<1>1. PICK a \in Nat : a = w * P
  OBVIOUS
<1>2. PICK x \in Nat, y \in Nat : x = Q * a /\ y = Q * P
  OBVIOUS
<1>3. Len(T) = x /\ Len(U) = a /\ Len(N) = y /\ Len(B) = P
  BY <1>1, <1>2 DEF Grid, Block
<1>4. PICK V : /\ V = T \o U /\ Len(V) = x + a
               /\ \A i \in 1 .. x : V[i] = T[i]
               /\ \A i \in 1 .. a : V[x + i] = U[i]
  <2>1. Len(T \o U) = Len(T) + Len(U)
    BY Concat
  <2>2. \A i \in 1 .. Len(T) : (T \o U)[i] = T[i]
    BY Concat
  <2>3. \A i \in 1 .. Len(U) : (T \o U)[Len(T) + i] = U[i]
    BY Concat
  <2> QED
    BY <1>3, <2>1, <2>2, <2>3
<1>5. PICK L : /\ L = N \o B /\ Len(L) = y + P
               /\ \A i \in 1 .. y : L[i] = N[i]
               /\ \A i \in 1 .. P : L[y + i] = B[i]
  <2>1. Len(N \o B) = Len(N) + Len(B)
    BY Concat
  <2>2. \A i \in 1 .. Len(N) : (N \o B)[i] = N[i]
    BY Concat
  <2>3. \A i \in 1 .. Len(B) : (N \o B)[Len(N) + i] = B[i]
    BY Concat
  <2> QED
    BY <1>3, <2>1, <2>2, <2>3
<1>6. (Q + 1) * a = x + a /\ (Q + 1) * P = y + P
  BY <1>2
<1>7. ASSUME NEW q \in 0 .. (Q + 1) - 1, NEW c \in 1 .. w, NEW n \in 1 .. P
      PROVE  V[q * a + (c - 1) * P + n] = [channel |-> c, number |-> L[q * P + n]]
  <2>1. CASE q # Q
    <3>1. q \in 0 .. Q - 1
      BY <2>1
    <3>2. q * a + (c - 1) * P + n \in 1 .. x /\ q * P + n \in 1 .. y
      BY <1>1, <1>2, <3>1, GridIndex
    <3>3. T[q * a + (c - 1) * P + n] = [channel |-> c, number |-> N[q * P + n]]
      BY <1>1, <3>1 DEF Grid
    <3> QED
      BY <1>4, <1>5, <3>2, <3>3
  <2>2. CASE q = Q
    <3>1. 0 \in 0 .. 1 - 1
      OBVIOUS
    <3>2. (c - 1) * P + n \in 1 .. a
      BY <1>1, <3>1, GridIndex
    <3>3. U[(c - 1) * P + n] = [channel |-> c, number |-> B[n]]
      BY DEF Block
    <3>4. q * a + (c - 1) * P + n = x + ((c - 1) * P + n)
      BY <1>2, <2>2
    <3>5. q * P + n = y + n
      BY <1>2, <2>2
    <3> QED
      BY <1>4, <1>5, <3>2, <3>3, <3>4, <3>5
  <2> QED
    BY <2>1, <2>2
<1>8. Grid(V, Q + 1, w, P, L)
  BY <1>1, <1>4, <1>5, <1>6, <1>7 DEF Grid
<1> QED
  BY <1>4, <1>5, <1>8

(* Blobs, one of each channel, of the moments B. *)
Voices(ps, w, P, B) ==
  /\ Len(ps) = w /\ Len(B) = P
  /\ \A c \in 1 .. w : /\ Len(ps[c]) = P
                       /\ \A n \in 1 .. P : ps[c][n] = [channel |-> c, number |-> B[n]]

(* The blobs of a message, joined, are one block. *)
LEMMA VoicesFlat ==
  ASSUME NEW S, NEW w \in Nat \ {0}, NEW P \in Nat \ {0}, NEW ps \in Seq(Seq(S)),
         NEW B \in Seq(Nat), Voices(ps, w, P, B)
  PROVE  FlattenSeq(ps) \in Seq(S) /\ Block(FlattenSeq(ps), w, P, B)
<1>1. FlattenSeq(ps) \in Seq(S) /\ IsFlat(FlattenSeq(ps), ps, P)
  BY FlatPieces DEF Voices
<1>2. PICK U \in Seq(S) : U = FlattenSeq(ps) /\ IsFlat(U, ps, P)
  BY <1>1
<1>3. Len(U) = w * P /\ Len(B) = P
  BY <1>2 DEF Voices, IsFlat
<1>4. ASSUME NEW c \in 1 .. w, NEW n \in 1 .. P
      PROVE  U[(c - 1) * P + n] = [channel |-> c, number |-> B[n]]
  <2>1. c \in 1 .. Len(ps)
    BY DEF Voices
  <2>2. U[(c - 1) * P + n] = ps[c][n]
    BY <1>2, <2>1 DEF IsFlat
  <2> QED
    BY <2>2 DEF Voices
<1> QED
  BY <1>2, <1>3, <1>4 DEF Block

(* Where the piece of channel c of message k lies, and where it goes to. *)
PieceNo(c, t, k) == (c - 1) * t + k + 1

JoinIndexed(w, t, r, c, k, i) ==
  LET j == PieceNo(c, t, k)
  IN  /\ j \in 1 .. w * t /\ (j - 1) \div t = c - 1 /\ (j - 1) % t = k
      /\ k * r * w + (c - 1) * r \in Nat
      /\ k * r * w + (c - 1) * r = k * (w * r) + (c - 1) * r
      /\ (k * r * w + (c - 1) * r) + r <= t * (w * r)
      /\ (j - 1) * r + (i + 1) = (c - 1) * (t * r) + (k * r + i + 1)

(* The n-th sample of a collected channel lies in the piece its moment was   *)
(* in.                                                                       *)
LEMMA JoinIndex ==
  ASSUME NEW w \in Nat \ {0}, NEW t \in Nat \ {0}, NEW r \in Nat \ {0},
         NEW c \in 1 .. w, NEW k \in 0 .. t - 1, NEW i \in 0 .. r - 1
  PROVE  JoinIndexed(w, t, r, c, k, i)
<1>0. PICK j : j = PieceNo(c, t, k)
  OBVIOUS
<1>1. PICK y \in Nat : y = (c - 1) * t
  OBVIOUS
<1>2. PICK x \in Nat : x = w * t /\ y + t <= x
  <2>1. c - 1 \in Int /\ w \in Int /\ c - 1 < w
    OBVIOUS
  <2> QED
    BY <1>1, <2>1, NextMultiple
<1>3. j = y + k + 1 /\ j - 1 = y + k
  BY <1>0, <1>1 DEF PieceNo
<1>4. j \in 1 .. x
  BY <1>2, <1>3
<1>5. (y + k) \div t = c - 1 /\ (y + k) % t = k
  <2>1. c - 1 \in Nat
    OBVIOUS
  <2>2. ((c - 1) * t + k) \div t = c - 1 /\ ((c - 1) * t + k) % t = k
    BY <2>1, DivMod
  <2> QED
    BY <1>1, <2>2, Zenon
<1>6. PICK a \in Nat : a = w * r
  OBVIOUS
<1>7. PICK v \in Nat : v = (c - 1) * r /\ v + r <= a
  <2>1. c - 1 \in Int /\ w \in Int /\ c - 1 < w
    OBVIOUS
  <2>2. (c - 1) * r + r <= w * r
    BY <2>1, NextMultiple
  <2> QED
    BY <1>6, <2>2
<1>8. PICK u \in Nat, z \in Nat : u = k * a /\ z = t * a /\ u + a <= z
  <2>1. k \in Int /\ t \in Int /\ k < t
    OBVIOUS
  <2>2. k * a + a <= t * a
    BY <2>1, NextMultiple
  <2> QED
    BY <2>2
<1>9. k * r * w = u
  BY <1>6, <1>8
<1>10. (u + v) + r <= z /\ u + v \in Nat
  BY <1>7, <1>8
<1>11. (y + k) * r + (i + 1) = (c - 1) * (t * r) + (k * r + i + 1)
  <2>1. (y + k) * r = (c - 1) * (t * r) + k * r
    BY <1>1
  <2>2. (c - 1) * (t * r) \in Nat /\ k * r \in Nat
    OBVIOUS
  <2> QED
    BY <2>1, <2>2
<1> QED
  <2>1. j \in 1 .. w * t /\ (j - 1) \div t = c - 1 /\ (j - 1) % t = k
    BY <1>2, <1>3, <1>4, <1>5, Zenon
  <2>2. k * r * w + (c - 1) * r = u + v /\ k * (w * r) + (c - 1) * r = u + v /\ t * (w * r) = z
    BY <1>6, <1>7, <1>8, <1>9, Zenon
  <2>3. (j - 1) * r + (i + 1) = (c - 1) * (t * r) + (k * r + i + 1)
    BY <1>3, <1>11, Zenon
  <2> QED
    BY <1>0, <1>10, <2>1, <2>2, <2>3, Zenon DEF JoinIndexed

JoinedTo(S, ps, w, P, r, t, h, M) ==
  /\ P <= Len(M)
  /\ ps \in Seq(Seq(S)) /\ Len(ps) = w * t
  /\ \A j \in 1 .. Len(ps) : Len(ps[j]) = r
  /\ FlattenSeq(ps) \in Seq(S) /\ IsFlat(FlattenSeq(ps), ps, r)
  /\ Block(FlattenSeq(ps), w, P, SubSeq(M, 1, P))

(* What JoinedPieces takes from the helper is one block of this period. *)
LEMMA JoinedIsBlock ==
  ASSUME NEW S, NEW w \in Nat \ {0}, NEW P \in Nat, NEW r \in Nat \ {0}, NEW t \in Nat \ {0},
         Times(P, t, r), r < P, NEW K \in Nat, t <= K, NEW h \in Seq(S), NEW M \in Seq(Nat),
         Grid(h, K, w, r, M), NEW ps, ps = JoinedOf(P, SubSeq(h, 1, P * w), r, w)
  PROVE  JoinedTo(S, ps, w, P, r, t, h, M)
<1>1. P \div r = t
  <2>1. 0 \in 0 .. r - 1 /\ t * r + 0 = P
    BY DEF Times
  <2> QED
    BY <2>1, DivMod
<1>2. PICK z \in Nat : z = P * w /\ z = w * P /\ z = t * (w * r) /\ z = w * t * r
  <2>1. P * w \in Nat /\ P * w = w * P
    OBVIOUS
  <2>2. P * w = t * (w * r)
    BY DEF Times
  <2>3. P * w = w * t * r
    BY DEF Times
  <2> QED
    BY <2>1, <2>2, <2>3
<1>3. z <= Len(h) /\ P <= Len(M)
  <2>1. PICK a \in Nat : a = w * r
    OBVIOUS
  <2>2. Len(h) = K * a /\ Len(M) = K * r /\ z = t * a
    BY <1>2, <2>1 DEF Grid
  <2>3. (K - t) * a >= 0 /\ (K - t) * r >= 0
    BY <2>1
  <2>4. K * a = (K - t) * a + t * a /\ K * r = (K - t) * r + t * r
    BY <2>1
  <2>5. z <= Len(h)
    BY <2>2, <2>3, <2>4
  <2>6. P <= Len(M)
    BY <2>2, <2>3, <2>4 DEF Times
  <2> QED
    BY <2>5, <2>6
<1>4. PICK block \in Seq(S) : /\ block = SubSeq(h, 1, z) /\ Len(block) = z
                              /\ \A i \in 1 .. z : block[i] = h[i]
  <2>1. SubSeq(h, 1, z) \in Seq(S)
    BY <1>3, Prefix
  <2>2. Len(SubSeq(h, 1, z)) = z
    BY <1>3, Prefix
  <2>3. \A i \in 1 .. z : SubSeq(h, 1, z)[i] = h[i]
    BY <1>3, Prefix
  <2> QED
    BY <2>1, <2>2, <2>3
<1>5. PICK B \in Seq(Nat) : /\ B = SubSeq(M, 1, P) /\ Len(B) = P
                            /\ \A i \in 1 .. P : B[i] = M[i]
  <2>1. SubSeq(M, 1, P) \in Seq(Nat)
    BY <1>3, Prefix
  <2>2. Len(SubSeq(M, 1, P)) = P
    BY <1>3, Prefix
  <2>3. \A i \in 1 .. P : SubSeq(M, 1, P)[i] = M[i]
    BY <1>3, Prefix
  <2> QED
    BY <2>1, <2>2, <2>3
<1>6. /\ ps = JoinedOf(P, block, r, w) /\ ps \in Seq(Seq(S)) /\ Len(ps) = w * t
      /\ \A j \in 1 .. w * t : Len(ps[j]) = r
  <2>1. ps = JoinedOf(P, block, r, w)
    BY <1>2, <1>4
  <2> QED
    <3>1. Len(block) = P * w
      BY <1>2, <1>4
    <3>2. PiecesOf(S, P, r, w, JoinedOf(P, block, r, w))
      BY <1>4, <3>1, JoinedType
    <3> QED
      BY <1>1, <2>1, <3>2, Zenon DEF PiecesOf
<1>7. PICK U \in Seq(S) : U = FlattenSeq(ps) /\ IsFlat(U, ps, r)
  BY <1>6, FlatPieces
<1>8. ASSUME NEW c \in 1 .. w, NEW n \in 1 .. P
      PROVE  U[(c - 1) * P + n] = [channel |-> c, number |-> B[n]]
  <2>1. PICK k \in 0 .. t - 1, i \in 0 .. r - 1 : n - 1 = k * r + i
    <3>1. n - 1 \in Nat /\ n - 1 < t * r
      BY DEF Times
    <3>2. (n - 1) \div r \in 0 .. t - 1 /\ (n - 1) % r \in 0 .. r - 1
      BY <3>1, DivBelow
    <3>3. n - 1 = ((n - 1) \div r) * r + ((n - 1) % r)
      BY <3>1, Division
    <3> QED
      BY <3>2, <3>3
  <2>2. JoinIndexed(w, t, r, c, k, i)
    BY <2>1, JoinIndex, Zenon
  <2>4. PICK j : j = PieceNo(c, t, k)
    OBVIOUS
  <2>3. /\ j \in 1 .. w * t /\ (j - 1) \div t = c - 1 /\ (j - 1) % t = k
        /\ (j - 1) * r + (i + 1) = (c - 1) * (t * r) + (k * r + i + 1)
    BY <2>2, <2>4, Zenon DEF JoinIndexed
  <2>5. ps[j] = PieceOf(block, k * r * w + (c - 1) * r, r)
    BY <1>1, <1>6, <2>3 DEF JoinedOf
  <2>6. PICK from \in Nat : /\ from = k * r * w + (c - 1) * r
                            /\ from = k * (w * r) + (c - 1) * r
                            /\ from + r <= z
    BY <1>2, <2>2, Zenon DEF JoinIndexed
  <2>7. i + 1 \in 1 .. r /\ from + (i + 1) \in 1 .. z
    <3>1. PICK x \in Nat : x = from /\ x + r <= z
      BY <2>6
    <3>2. i + 1 \in 1 .. r /\ x + (i + 1) \in 1 .. z
      BY <3>1
    <3> QED
      BY <3>1, <3>2
  <2>8. ps[j][i + 1] = block[from + (i + 1)]
    <3>1. from + r <= Len(block)
      BY <1>4, <2>6
    <3>2. \A x \in 1 .. r : PieceOf(block, from, r)[x] = block[from + x]
      BY <3>1, PieceType
    <3>3. ps[j] = PieceOf(block, from, r)
      BY <2>5, <2>6, Zenon
    <3> QED
      BY <2>7, <3>2, <3>3, Zenon
  <2>9. block[from + (i + 1)] = [channel |-> c, number |-> M[k * r + (i + 1)]]
    <3>1. k \in 0 .. K - 1
      BY <2>1
    <3>2. h[k * (w * r) + (c - 1) * r + (i + 1)]
            = [channel |-> c, number |-> M[k * r + (i + 1)]]
      BY <2>7, <3>1 DEF Grid
    <3>3. k * (w * r) + (c - 1) * r + (i + 1) = from + (i + 1)
      BY <2>6
    <3> QED
      BY <1>4, <2>7, <3>2, <3>3
  <2>10. k * r + (i + 1) = n
    BY <2>1
  <2>11. (j - 1) * r + (i + 1) = (c - 1) * P + n
    <3>1. t * r = P
      BY DEF Times
    <3>2. k * r + i + 1 = n
      BY <2>1
    <3> QED
      BY <2>3, <3>1, <3>2, Zenon
  <2>12. U[(j - 1) * r + (i + 1)] = ps[j][i + 1]
    BY <1>6, <1>7, <2>3, <2>7 DEF IsFlat
  <2> QED
    BY <1>5, <2>8, <2>9, <2>10, <2>11, <2>12
<1>9. Len(U) = w * P
  BY <1>2, <1>6, <1>7 DEF IsFlat
<1>10. Block(U, w, P, B)
  BY <1>5, <1>8, <1>9 DEF Block
<1>11. \A j \in 1 .. Len(ps) : Len(ps[j]) = r
  BY <1>6
<1> QED
  BY <1>3, <1>5, <1>6, <1>7, <1>10, <1>11 DEF JoinedTo

--------------------------------------------------------------------------------

(* Where each sample lies between the handler and the main thread.           *)

(* After the first x of T come what can be read, b, and the pieces to write. *)
Placed(T, x, b, ps, l) ==
  /\ Len(T) = x + Len(b) + Len(ps) * l
  /\ \A i \in 1 .. Len(b) : b[i] = T[x + i]
  /\ \A j \in 1 .. Len(ps) :
       /\ Len(ps[j]) = l
       /\ \A n \in 1 .. l : ps[j][n] = T[x + Len(b) + (j - 1) * l + n]

(* The blobs that were read are what T begins with.                        *)
Taken(T, blobs, P) ==
  \A j \in 1 .. Len(blobs) : /\ Len(blobs[j]) = P
                             /\ \A n \in 1 .. P : blobs[j][n] = T[(j - 1) * P + n]

(* Where a sample of piece j lies. *)
LEMMA PieceIndex ==
  ASSUME NEW l \in Nat, NEW k \in Nat, NEW j \in 1 .. k, NEW n \in 1 .. l
  PROVE  /\ (j - 1) * l \in Nat /\ (j - 1) * l + l <= k * l /\ k * l \in Nat
         /\ (j - 1) * l + n \in 1 .. k * l
<1>1. j - 1 \in Int /\ k \in Int /\ j - 1 < k
  OBVIOUS
<1>2. (j - 1) * l + l <= k * l
  BY <1>1, NextMultiple
<1>3. PICK x \in Nat, y \in Nat : x = (j - 1) * l /\ y = k * l /\ x + l <= y
  BY <1>2
<1> QED
  BY <1>3

(* The elements but the first. *)
LEMMA TailAt ==
  ASSUME NEW S, NEW p \in Seq(S), p # <<>>
  PROVE  Len(Tail(p)) = Len(p) - 1 /\ \A j \in 1 .. Len(p) - 1 : Tail(p)[j] = p[j + 1]
<1>1. Len(Tail(p)) = Len(p) - 1
  OBVIOUS
<1>2. \A j \in 1 .. Len(p) - 1 : Tail(p)[j] = p[j + 1]
  OBVIOUS
<1> QED
  BY <1>1, <1>2

(* The first piece is written. *)
LEMMA PlacedWrite ==
  ASSUME NEW S, NEW T \in Seq(S), NEW x \in Nat, NEW b \in Seq(S), NEW l \in Nat,
         NEW ps \in Seq(Seq(S)), ps # <<>>, Placed(T, x, b, ps, l)
  PROVE  /\ Placed(T, x, b \o Head(ps), Tail(ps), l) /\ Len(Head(ps)) = l
         /\ Len(ps) * l = l + Len(Tail(ps)) * l
<1>1. PICK k \in Nat \ {0} : k = Len(ps)
  OBVIOUS
<1>2. PICK c \in Seq(S) : c = Head(ps) /\ Len(c) = l
                          /\ \A n \in 1 .. l : c[n] = T[x + Len(b) + n]
  <2>1. Head(ps) = ps[1] /\ 1 \in 1 .. Len(ps)
    BY <1>1
  <2>2. \A n \in 1 .. l : ps[1][n] = T[x + Len(b) + (1 - 1) * l + n]
    BY <2>1 DEF Placed
  <2>3. \A n \in 1 .. l : x + Len(b) + (1 - 1) * l + n = x + Len(b) + n
    OBVIOUS
  <2>4. ps[1] \in Seq(S) /\ Len(ps[1]) = l
    BY <2>1 DEF Placed
  <2> QED
    BY <2>1, <2>2, <2>3, <2>4
<1>3. PICK q : q = Tail(ps) /\ Len(q) = k - 1 /\ \A j \in 1 .. k - 1 : q[j] = ps[j + 1]
  <2>1. Len(Tail(ps)) = k - 1
    BY <1>1, TailAt
  <2>2. \A j \in 1 .. k - 1 : Tail(ps)[j] = ps[j + 1]
    BY <1>1, TailAt
  <2> QED
    BY <2>1, <2>2
<1>4. PICK y \in Nat : y = (k - 1) * l /\ k * l = l + y
  OBVIOUS
<1>5. PICK d : /\ d = b \o c /\ Len(d) = Len(b) + l
               /\ \A i \in 1 .. Len(b) : d[i] = b[i]
               /\ \A i \in 1 .. l : d[Len(b) + i] = c[i]
  <2>1. Len(b \o c) = Len(b) + Len(c)
    BY Concat
  <2>2. \A i \in 1 .. Len(b) : (b \o c)[i] = b[i]
    BY Concat
  <2>3. \A i \in 1 .. Len(c) : (b \o c)[Len(b) + i] = c[i]
    BY Concat
  <2> QED
    BY <1>2, <2>1, <2>2, <2>3
<1>6. Len(T) = x + Len(d) + y
  BY <1>1, <1>4, <1>5 DEF Placed
<1>7. ASSUME NEW i \in 1 .. Len(d)
      PROVE  d[i] = T[x + i]
  <2>1. CASE i <= Len(b)
    BY <1>5, <2>1 DEF Placed
  <2>2. CASE ~(i <= Len(b))
    <3>1. PICK n \in 1 .. l : i = Len(b) + n
      <4>1. i - Len(b) \in 1 .. l /\ i = Len(b) + (i - Len(b))
        BY <1>5, <2>2
      <4> QED
        BY <4>1
    <3>2. x + i = x + Len(b) + n
      BY <3>1
    <3> QED
      BY <1>2, <1>5, <3>1, <3>2
  <2> QED
    BY <2>1, <2>2
<1>8. ASSUME NEW j \in 1 .. k - 1
      PROVE  /\ Len(q[j]) = l
             /\ \A n \in 1 .. l : q[j][n] = T[x + Len(d) + (j - 1) * l + n]
  <2>1. j + 1 \in 1 .. k
    OBVIOUS
  <2>2. /\ Len(ps[j + 1]) = l
        /\ \A n \in 1 .. l : ps[j + 1][n] = T[x + Len(b) + ((j + 1) - 1) * l + n]
    BY <1>1, <2>1 DEF Placed
  <2>3. PICK z \in Nat : z = (j - 1) * l /\ ((j + 1) - 1) * l = l + z
    OBVIOUS
  <2>4. ASSUME NEW n \in 1 .. l
        PROVE  q[j][n] = T[x + Len(d) + (j - 1) * l + n]
    <3>1. ps[j + 1][n] = T[x + Len(b) + (l + z) + n]
      BY <2>2, <2>3, Zenon
    <3>2. x + Len(b) + (l + z) + n = x + Len(d) + z + n
      BY <1>5
    <3>3. q[j] = ps[j + 1]
      BY <1>3
    <3> QED
      BY <2>3, <3>1, <3>2, <3>3, Zenon
  <2>5. Len(q[j]) = l
    BY <1>3, <2>2
  <2> QED
    BY <2>4, <2>5
<1>9. Placed(T, x, d, q, l)
  BY <1>3, <1>4, <1>6, <1>7, <1>8 DEF Placed
<1> QED
  BY <1>1, <1>2, <1>3, <1>4, <1>5, <1>9

(* Some samples are read. *)
LEMMA PlacedRead ==
  ASSUME NEW S, NEW T \in Seq(S), NEW x \in Nat, NEW b \in Seq(S), NEW l \in Nat,
         NEW ps \in Seq(Seq(S)), Placed(T, x, b, ps, l), NEW z \in Nat, z <= Len(b)
  PROVE  Placed(T, x + z, SubSeq(b, z + 1, Len(b)), ps, l)
<1>1. PICK y \in Nat : y = Len(ps) * l
  OBVIOUS
<1>0. PICK e \in Nat : e = Len(b) - z /\ Len(b) = z + e
  OBVIOUS
<1>2. PICK c : c = SubSeq(b, z + 1, Len(b)) /\ Len(c) = e
               /\ \A i \in 1 .. e : c[i] = b[z + i]
  <2>1. Len(SubSeq(b, z + 1, Len(b))) = e
    BY <1>0, RestAt
  <2>2. \A i \in 1 .. e : SubSeq(b, z + 1, Len(b))[i] = b[z + i]
    BY <1>0, RestAt
  <2> QED
    BY <2>1, <2>2
<1>3. Len(T) = (x + z) + Len(c) + y
  <2>1. Len(T) = x + Len(b) + y
    BY <1>1 DEF Placed
  <2>2. Len(c) = e
    BY <1>2
  <2>3. x + Len(b) + y = (x + z) + e + y
    BY <1>0
  <2> QED
    BY <2>1, <2>2, <2>3, Zenon
<1>4. \A i \in 1 .. Len(c) : c[i] = T[(x + z) + i]
  <2>1. \A i \in 1 .. e : (x + z) + i = x + (z + i) /\ z + i \in 1 .. Len(b)
    BY <1>0
  <2>2. \A i \in 1 .. Len(b) : b[i] = T[x + i]
    BY DEF Placed
  <2>3. Len(c) = e /\ \A i \in 1 .. e : c[i] = b[z + i]
    BY <1>2
  <2> QED
    BY <2>1, <2>2, <2>3
<1>5. ASSUME NEW j \in 1 .. Len(ps)
      PROVE  /\ Len(ps[j]) = l
             /\ \A n \in 1 .. l : ps[j][n] = T[(x + z) + Len(c) + (j - 1) * l + n]
  <2>1. PICK u \in Nat : u = (j - 1) * l
    OBVIOUS
  <2>2. \A n \in 1 .. l : (x + z) + e + u + n = x + Len(b) + u + n
    BY <1>0
  <2>3. Len(c) = e
    BY <1>2
  <2> QED
    BY <2>1, <2>2, <2>3 DEF Placed
<1>6. Placed(T, x + z, c, ps, l)
  BY <1>1, <1>3, <1>4, <1>5 DEF Placed
<1> QED
  BY <1>2, <1>6

(* What was read is forgotten. *)
LEMMA PlacedDrop ==
  ASSUME NEW S, NEW T \in Seq(S), NEW x \in Nat, NEW b \in Seq(S), NEW l \in Nat,
         NEW ps \in Seq(Seq(S)), Placed(T, x, b, ps, l), NEW z \in Nat, z <= x
  PROVE  Placed(SubSeq(T, z + 1, Len(T)), x - z, b, ps, l)
<1>1. PICK y \in Nat : y = Len(ps) * l
  OBVIOUS
<1>2. z <= Len(T) /\ Len(T) = x + Len(b) + y
  BY <1>1 DEF Placed
<1>3. PICK U : U = SubSeq(T, z + 1, Len(T)) /\ Len(U) = Len(T) - z
               /\ \A i \in 1 .. Len(T) - z : U[i] = T[z + i]
  <2>1. Len(SubSeq(T, z + 1, Len(T))) = Len(T) - z
    BY <1>2, RestAt
  <2>2. \A i \in 1 .. Len(T) - z : SubSeq(T, z + 1, Len(T))[i] = T[z + i]
    BY <1>2, RestAt
  <2> QED
    BY <2>1, <2>2
<1>4. ASSUME NEW i \in 1 .. Len(b)
      PROVE  b[i] = U[(x - z) + i]
  <2>1. (x - z) + i \in 1 .. Len(T) - z /\ z + ((x - z) + i) = x + i
    BY <1>2
  <2> QED
    BY <1>3, <2>1 DEF Placed
<1>5. ASSUME NEW j \in 1 .. Len(ps)
      PROVE  /\ Len(ps[j]) = l
             /\ \A n \in 1 .. l : ps[j][n] = U[(x - z) + Len(b) + (j - 1) * l + n]
  <2>1. ASSUME NEW n \in 1 .. l
        PROVE  ps[j][n] = U[(x - z) + Len(b) + (j - 1) * l + n]
    <3>1. PICK u \in Nat : u = (j - 1) * l /\ u + n \in 1 .. y
      <4>1. PICK k \in Nat : k = Len(ps)
        OBVIOUS
      <4>2. (j - 1) * l \in Nat /\ (j - 1) * l + n \in 1 .. k * l
        BY <4>1, PieceIndex
      <4> QED
        BY <1>1, <4>1, <4>2
    <3>2. /\ (x - z) + Len(b) + u + n \in 1 .. Len(T) - z
          /\ z + ((x - z) + Len(b) + u + n) = x + Len(b) + u + n
      BY <1>2, <3>1
    <3>3. ps[j][n] = T[x + Len(b) + u + n]
      BY <3>1 DEF Placed
    <3> QED
      BY <1>3, <3>1, <3>2, <3>3
  <2> QED
    BY <2>1 DEF Placed
<1>6. Len(U) = (x - z) + Len(b) + y
  BY <1>2, <1>3
<1>7. Placed(U, x - z, b, ps, l)
  BY <1>1, <1>4, <1>5, <1>6 DEF Placed
<1> QED
  BY <1>3, <1>7

(* The pieces of a new message are to be written. *)
LEMMA PlacedAdd ==
  ASSUME NEW S, NEW T \in Seq(S), NEW x \in Nat, NEW b \in Seq(S), NEW l0 \in Nat,
         Placed(T, x, b, <<>>, l0), NEW l \in Nat, NEW ps \in Seq(Seq(S)),
         \A j \in 1 .. Len(ps) : Len(ps[j]) = l, NEW U \in Seq(S), IsFlat(U, ps, l)
  PROVE  Placed(T \o U, x, b, ps, l)
<1>1. PICK y \in Nat : y = Len(ps) * l /\ Len(U) = y
  <2>1. Len(ps) * l \in Nat
    OBVIOUS
  <2> QED
    BY <2>1 DEF IsFlat
<1>2. Len(T) = x + Len(b)
  BY DEF Placed
<1>3. PICK V : /\ V = T \o U /\ Len(V) = Len(T) + y
               /\ \A i \in 1 .. Len(T) : V[i] = T[i]
               /\ \A i \in 1 .. y : V[Len(T) + i] = U[i]
  <2>1. Len(T \o U) = Len(T) + Len(U)
    BY Concat
  <2>2. \A i \in 1 .. Len(T) : (T \o U)[i] = T[i]
    BY Concat
  <2>3. \A i \in 1 .. Len(U) : (T \o U)[Len(T) + i] = U[i]
    BY Concat
  <2> QED
    BY <1>1, <2>1, <2>2, <2>3
<1>4. ASSUME NEW i \in 1 .. Len(b)
      PROVE  b[i] = V[x + i]
  <2>1. x + i \in 1 .. Len(T)
    BY <1>2
  <2> QED
    BY <1>3, <2>1 DEF Placed
<1>5. ASSUME NEW j \in 1 .. Len(ps), NEW n \in 1 .. l
      PROVE  ps[j][n] = V[x + Len(b) + (j - 1) * l + n]
  <2>1. PICK u \in Nat : u = (j - 1) * l /\ u + n \in 1 .. y
    <3>1. PICK k \in Nat : k = Len(ps)
      OBVIOUS
    <3>2. (j - 1) * l \in Nat /\ (j - 1) * l + n \in 1 .. k * l
      BY <3>1, PieceIndex
    <3> QED
      BY <1>1, <3>1, <3>2
  <2>2. x + Len(b) + u + n = Len(T) + (u + n)
    BY <1>2
  <2>3. U[u + n] = ps[j][n]
    BY <2>1 DEF IsFlat
  <2> QED
    BY <1>3, <2>1, <2>2, <2>3
<1>6. Len(V) = x + Len(b) + y
  BY <1>2, <1>3
<1>7. Placed(V, x, b, ps, l)
  BY <1>1, <1>4, <1>5, <1>6 DEF Placed
<1> QED
  BY <1>3, <1>7

(* What comes behind changes nothing of what was read. *)
LEMMA TakenAdd ==
  ASSUME NEW S, NEW T \in Seq(S), NEW P \in Nat, NEW blobs \in Seq(Seq(S)), Taken(T, blobs, P),
         Len(blobs) * P <= Len(T), NEW U \in Seq(S)
  PROVE  Taken(T \o U, blobs, P)
<1>1. \A i \in 1 .. Len(T) : (T \o U)[i] = T[i]
  BY Concat
<1>2. ASSUME NEW j \in 1 .. Len(blobs), NEW n \in 1 .. P
      PROVE  (T \o U)[(j - 1) * P + n] = T[(j - 1) * P + n]
  <2>1. PICK y \in Nat, u \in Nat : /\ y = Len(blobs) * P /\ u = (j - 1) * P
                                    /\ u + n \in 1 .. y /\ y <= Len(T)
    <3>1. PICK m \in Nat : m = Len(blobs)
      OBVIOUS
    <3>2. (j - 1) * P \in Nat /\ (j - 1) * P + n \in 1 .. m * P /\ m * P \in Nat
      BY <3>1, PieceIndex
    <3> QED
      BY <3>1, <3>2
  <2>2. u + n \in 1 .. Len(T)
    BY <2>1
  <2> QED
    BY <1>1, <2>1, <2>2
<1> QED
  BY <1>2 DEF Taken

(* One more blob is read. *)
LEMMA TakenRead ==
  ASSUME NEW S, NEW T \in Seq(S), NEW P \in Nat, NEW blobs \in Seq(Seq(S)), Taken(T, blobs, P),
         NEW b \in Seq(S), P <= Len(b), NEW ps, NEW l, Placed(T, Len(blobs) * P, b, ps, l)
  PROVE  Taken(T, Append(blobs, SubSeq(b, 1, P)), P)
<1>1. PICK c \in Seq(S) : c = SubSeq(b, 1, P) /\ Len(c) = P /\ \A i \in 1 .. P : c[i] = b[i]
  <2>1. SubSeq(b, 1, P) \in Seq(S)
    BY Prefix
  <2>2. Len(SubSeq(b, 1, P)) = P
    BY Prefix
  <2>3. \A i \in 1 .. P : SubSeq(b, 1, P)[i] = b[i]
    BY Prefix
  <2> QED
    BY <2>1, <2>2, <2>3
<1>2. PICK m \in Nat : m = Len(blobs)
  OBVIOUS
<1>3. PICK d : d = Append(blobs, c) /\ Len(d) = m + 1 /\ d[m + 1] = c
               /\ \A j \in 1 .. m : d[j] = blobs[j]
  <2>1. Len(Append(blobs, c)) = m + 1
    BY <1>2
  <2>2. Append(blobs, c)[m + 1] = c
    BY <1>2
  <2>3. \A j \in 1 .. m : Append(blobs, c)[j] = blobs[j]
    BY <1>2
  <2> QED
    BY <2>1, <2>2, <2>3
<1>4. ASSUME NEW j \in 1 .. m + 1
      PROVE  Len(d[j]) = P /\ \A n \in 1 .. P : d[j][n] = T[(j - 1) * P + n]
  <2>1. CASE j = m + 1
    <3>1. j - 1 = m
      BY <2>1
    <3>2. \A n \in 1 .. P : c[n] = T[m * P + n]
      BY <1>1, <1>2 DEF Placed
    <3> QED
      BY <1>1, <1>3, <2>1, <3>1, <3>2
  <2>2. CASE j # m + 1
    <3>1. j \in 1 .. m
      BY <2>2
    <3> QED
      BY <1>2, <1>3, <3>1 DEF Taken
  <2> QED
    BY <2>1, <2>2
<1> QED
  BY <1>1, <1>3, <1>4 DEF Taken

--------------------------------------------------------------------------------

(* The moments of what waits.                                                *)

(* The moments of each block are in order. *)
Rising(N, Q, P) ==
  \A q \in 0 .. Q - 1, n \in 1 .. P - 1 : N[q * P + n] < N[q * P + (n + 1)]

Increasing(N) == \A x, y \in 1 .. Len(N) : x < y => N[x] < N[y]

Within(N, f, top) == \A x \in 1 .. Len(N) : f < N[x] /\ N[x] <= top

Precede(N, M) == \A x \in 1 .. Len(N), y \in 1 .. Len(M) : N[x] < M[y]

(* One sequence of moments after another. *)
LEMMA ConcatNat ==
  ASSUME NEW A \in Seq(Nat), NEW B \in Seq(Nat)
  PROVE  /\ A \o B \in Seq(Nat) /\ Len(A \o B) = Len(A) + Len(B)
         /\ \A i \in 1 .. Len(A) + Len(B) :
              (A \o B)[i] = IF i <= Len(A) THEN A[i] ELSE B[i - Len(A)]
OBVIOUS

(* Moments in order, and later ones in order behind them. *)
LEMMA JoinMoments ==
  ASSUME NEW A \in Seq(Nat), NEW B \in Seq(Nat), Increasing(B), Precede(A, B)
  PROVE  /\ Increasing(A) => Increasing(A \o B)
         /\ \A M \in Seq(Nat) : Precede(A, M) /\ Precede(B, M) => Precede(A \o B, M)
<1>1. PICK a \in Nat, b \in Nat : a = Len(A) /\ b = Len(B)
  OBVIOUS
<1>2. PICK C \in Seq(Nat) : /\ C = A \o B /\ Len(C) = a + b
                            /\ \A i \in 1 .. a + b : C[i] = IF i <= a THEN A[i] ELSE B[i - a]
  <2>1. A \o B \in Seq(Nat) /\ Len(A \o B) = a + b
    BY <1>1, ConcatNat
  <2>2. \A i \in 1 .. a + b : (A \o B)[i] = IF i <= a THEN A[i] ELSE B[i - a]
    BY <1>1, ConcatNat
  <2> QED
    BY <2>1, <2>2
<1>3. ASSUME Increasing(A), NEW x \in 1 .. a + b, NEW y \in 1 .. a + b, x < y
      PROVE  C[x] < C[y]
  <2>1. CASE y <= a
    BY <1>1, <1>2, <1>3, <2>1 DEF Increasing
  <2>2. CASE x <= a /\ ~(y <= a)
    <3>1. y - a \in 1 .. b /\ x \in 1 .. a
      BY <1>1, <2>2
    <3> QED
      BY <1>1, <1>2, <2>2, <3>1 DEF Precede
  <2>3. CASE ~(x <= a) /\ ~(y <= a)
    <3>1. y - a \in 1 .. b /\ x - a \in 1 .. b /\ x - a < y - a
      BY <1>1, <1>3, <2>3
    <3> QED
      BY <1>1, <1>2, <2>3, <3>1 DEF Increasing
  <2> QED
    BY <1>1, <1>3, <2>1, <2>2, <2>3
<1>4. ASSUME NEW M \in Seq(Nat), Precede(A, M), Precede(B, M), NEW x \in 1 .. a + b,
             NEW y \in 1 .. Len(M)
      PROVE  C[x] < M[y]
  <2>1. CASE x <= a
    BY <1>1, <1>2, <1>4, <2>1 DEF Precede
  <2>2. CASE ~(x <= a)
    <3>1. x - a \in 1 .. b
      BY <1>1, <2>2
    <3> QED
      BY <1>1, <1>2, <1>4, <2>2, <3>1 DEF Precede
  <2> QED
    BY <2>1, <2>2
<1>5. Increasing(A) => Increasing(C)
  BY <1>2, <1>3 DEF Increasing
<1>6. \A M \in Seq(Nat) : Precede(A, M) /\ Precede(B, M) => Precede(C, M)
  BY <1>2, <1>4 DEF Precede
<1> QED
  BY <1>2, <1>5, <1>6

(* Moments between two bounds, and others. *)
LEMMA JoinWithin ==
  ASSUME NEW A \in Seq(Nat), NEW B \in Seq(Nat), NEW f, NEW top, Within(A, f, top), Within(B, f, top)
  PROVE  Within(A \o B, f, top)
<1>1. PICK a \in Nat, b \in Nat : a = Len(A) /\ b = Len(B)
  OBVIOUS
<1>2. Len(A \o B) = a + b
  BY <1>1, ConcatNat
<1>3. \A i \in 1 .. a + b : (A \o B)[i] = IF i <= a THEN A[i] ELSE B[i - a]
  BY <1>1, ConcatNat
<1>4. ASSUME NEW i \in 1 .. a + b
      PROVE  f < (A \o B)[i] /\ (A \o B)[i] <= top
  <2>1. CASE i <= a
    BY <1>1, <1>3, <2>1 DEF Within
  <2>2. CASE ~(i <= a)
    <3>1. i - a \in 1 .. b
      BY <1>1, <2>2
    <3> QED
      BY <1>1, <1>3, <2>2, <3>1 DEF Within
  <2> QED
    BY <2>1, <2>2
<1> QED
  BY <1>2, <1>4 DEF Within

(* The first n moments and the others are in order if all are. *)
LEMMA CutMoments ==
  ASSUME NEW A \in Seq(Nat), NEW n \in Nat, n <= Len(A)
  PROVE  LET B == SubSeq(A, 1, n)
             C == SubSeq(A, n + 1, Len(A))
         IN  /\ B \in Seq(Nat) /\ Len(B) = n /\ \A i \in 1 .. n : B[i] = A[i]
             /\ C \in Seq(Nat) /\ Len(C) = Len(A) - n
             /\ \A i \in 1 .. Len(A) - n : C[i] = A[n + i]
             /\ Increasing(A) => Increasing(B) /\ Increasing(C) /\ Precede(B, C)
             /\ \A f, top : Within(A, f, top) => Within(B, f, top) /\ Within(C, f, top)
             /\ \A M : Precede(A, M) => Precede(B, M) /\ Precede(C, M)
             /\ \A M : Precede(M, A) => Precede(M, B) /\ Precede(M, C)
<1> DEFINE B == SubSeq(A, 1, n)
           C == SubSeq(A, n + 1, Len(A))
<1>0. PICK e \in Nat : e = Len(A) - n /\ Len(A) = n + e
  OBVIOUS
<1>1. B \in Seq(Nat) /\ Len(B) = n
  BY Prefix
<1>2. \A i \in 1 .. n : B[i] = A[i]
  BY Prefix
<1>3. C \in Seq(Nat) /\ Len(C) = e
  BY <1>0, RestAt
<1>4. \A i \in 1 .. e : C[i] = A[n + i]
  BY <1>0, RestAt
<1> HIDE DEF B, C
<1>5. \A i \in 1 .. n : i \in 1 .. Len(A)
  OBVIOUS
<1>6. \A i \in 1 .. e : n + i \in 1 .. Len(A)
  BY <1>0
<1>7. Increasing(A) => Increasing(B)
  BY <1>1, <1>2, <1>5 DEF Increasing
<1>8. Increasing(A) => Increasing(C)
  <2> SUFFICES ASSUME Increasing(A), NEW x \in 1 .. e, NEW y \in 1 .. e, x < y
               PROVE  C[x] < C[y]
    BY <1>3 DEF Increasing
  <2>1. n + x < n + y
    OBVIOUS
  <2> QED
    BY <1>4, <1>6, <2>1 DEF Increasing
<1>9. Increasing(A) => Precede(B, C)
  <2> SUFFICES ASSUME Increasing(A), NEW x \in 1 .. n, NEW y \in 1 .. e
               PROVE  B[x] < C[y]
    BY <1>1, <1>3 DEF Precede
  <2>1. x < n + y
    OBVIOUS
  <2> QED
    BY <1>2, <1>4, <1>5, <1>6, <2>1 DEF Increasing
<1>10. \A f, top : Within(A, f, top) => Within(B, f, top) /\ Within(C, f, top)
  BY <1>1, <1>2, <1>3, <1>4, <1>5, <1>6 DEF Within
<1>11. \A M : Precede(A, M) => Precede(B, M) /\ Precede(C, M)
  BY <1>1, <1>2, <1>3, <1>4, <1>5, <1>6 DEF Precede
<1>12. \A M : Precede(M, A) => Precede(M, B) /\ Precede(M, C)
  BY <1>1, <1>2, <1>3, <1>4, <1>5, <1>6 DEF Precede
<1> QED
  BY <1>0, <1>1, <1>2, <1>3, <1>4, <1>7, <1>8, <1>9, <1>10, <1>11, <1>12 DEF B, C

(* One more block of moments in order. *)
LEMMA RisingAdd ==
  ASSUME NEW P \in Nat \ {0}, NEW Q \in Nat, NEW N \in Seq(Nat), Len(N) = Q * P, Rising(N, Q, P),
         NEW B \in Seq(Nat), Len(B) = P, Increasing(B)
  PROVE  Rising(N \o B, Q + 1, P)
<1>1. PICK y \in Nat : y = Q * P /\ Len(N) = y
  OBVIOUS
<1>2. PICK C : /\ C = N \o B
               /\ \A i \in 1 .. y + P : C[i] = IF i <= y THEN N[i] ELSE B[i - y]
  <2>1. \A i \in 1 .. Len(N) + Len(B) :
           (N \o B)[i] = IF i <= Len(N) THEN N[i] ELSE B[i - Len(N)]
    BY ConcatNat
  <2>2. \A i \in 1 .. y + P : (N \o B)[i] = IF i <= y THEN N[i] ELSE B[i - y]
    BY <1>1, <2>1, Zenon
  <2> QED
    BY <2>2
<1>3. ASSUME NEW q \in 0 .. (Q + 1) - 1, NEW n \in 1 .. P - 1
      PROVE  C[q * P + n] < C[q * P + (n + 1)]
  <2>1. n \in 1 .. P /\ n + 1 \in 1 .. P
    OBVIOUS
  <2>2. CASE q = Q
    <3>1. q * P = y
      BY <1>1, <2>2
    <3>2. /\ C[y + n] = B[n] /\ C[y + (n + 1)] = B[n + 1]
      <4>1. /\ y + n \in 1 .. y + P /\ ~(y + n <= y) /\ (y + n) - y = n
            /\ y + (n + 1) \in 1 .. y + P /\ ~(y + (n + 1) <= y) /\ (y + (n + 1)) - y = n + 1
        BY <1>1, <2>1
      <4> QED
        BY <1>2, <4>1
    <3>3. B[n] < B[n + 1]
      BY <2>1 DEF Increasing
    <3> QED
      BY <3>1, <3>2, <3>3
  <2>3. CASE q # Q
    <3>1. q \in 0 .. Q - 1
      BY <2>3
    <3>2. PICK x \in Nat : x = q * P /\ x + P <= y
      <4>1. q * P \in Nat /\ q \in Int /\ Q \in Int /\ q < Q
        BY <3>1
      <4>2. q * P + P <= Q * P
        BY <4>1, NextMultiple
      <4> QED
        BY <1>1, <4>1, <4>2
    <3>3. /\ x + n \in 1 .. y + P /\ x + n <= y
          /\ x + (n + 1) \in 1 .. y + P /\ x + (n + 1) <= y
      <4>1. x + P <= y
        BY <3>2
      <4> QED
        BY <2>1, <4>1
    <3>4. N[x + n] < N[x + (n + 1)]
      BY <3>1, <3>2 DEF Rising
    <3>5. C[x + n] = N[x + n] /\ C[x + (n + 1)] = N[x + (n + 1)]
      BY <1>2, <3>3
    <3> QED
      BY <3>2, <3>4, <3>5, Zenon
  <2> QED
    BY <2>2, <2>3
<1> QED
  BY <1>2, <1>3 DEF Rising

(* The order of moments is transitive. *)
LEMMA LessThrough ==
  ASSUME NEW u \in Nat, NEW y \in Nat, NEW v \in Nat, u < y, y < v
  PROVE  u < v
OBVIOUS

(* The first block is in order, and the others are. *)
LEMMA RisingDrop ==
  ASSUME NEW P \in Nat \ {0}, NEW Q \in Nat \ {0}, NEW N \in Seq(Nat), Len(N) = Q * P,
         Rising(N, Q, P)
  PROVE  /\ P <= Len(N) /\ Increasing(SubSeq(N, 1, P))
         /\ Rising(SubSeq(N, P + 1, Len(N)), Q - 1, P)
<1>1. PICK e \in Nat : e = (Q - 1) * P /\ Len(N) = P + e /\ Len(N) - P = e
  <2>1. PICK e \in Nat : e = (Q - 1) * P /\ Q * P = P + e
    OBVIOUS
  <2> QED
    BY <2>1
<1>2. P <= Len(N)
  BY <1>1
<1>3. PICK B \in Seq(Nat) : /\ B = SubSeq(N, 1, P) /\ Len(B) = P
                            /\ \A i \in 1 .. P : B[i] = N[i]
  <2>1. P \in Nat
    OBVIOUS
  <2>2. SubSeq(N, 1, P) \in Seq(Nat)
    BY <1>2, <2>1, Prefix
  <2>3. Len(SubSeq(N, 1, P)) = P
    BY <1>2, <2>1, Prefix
  <2>4. \A i \in 1 .. P : SubSeq(N, 1, P)[i] = N[i]
    BY <1>2, <2>1, Prefix
  <2> QED
    BY <2>2, <2>3, <2>4
<1>4. PICK C : /\ C = SubSeq(N, P + 1, Len(N))
               /\ \A i \in 1 .. e : C[i] = N[P + i]
  <2>1. \A i \in 1 .. e : SubSeq(N, P + 1, Len(N))[i] = N[P + i]
    BY <1>1, <1>2, RestAt
  <2> QED
    BY <2>1
<1>5. \A n \in 1 .. P - 1 : B[n] < B[n + 1]
  <2>1. ASSUME NEW n \in 1 .. P - 1
        PROVE  B[n] < B[n + 1]
    <3>1. 0 \in 0 .. Q - 1 /\ 0 * P + n = n /\ 0 * P + (n + 1) = n + 1
      OBVIOUS
    <3>2. N[n] < N[n + 1]
      BY <3>1 DEF Rising
    <3> QED
      BY <1>3, <3>2
  <2> QED
    BY <2>1
<1>6. Increasing(B)
  <2> SUFFICES ASSUME NEW x \in 1 .. P, NEW z \in 1 .. P, x < z, ~(B[x] < B[z])
               PROVE  FALSE
    BY <1>3 DEF Increasing
  <2> DEFINE Bad == {k \in 1 .. P : x < k /\ ~(B[x] < B[k])}
  <2>0. z \in Bad
    OBVIOUS
  <2>1. PICK k \in Bad : \A i \in Bad : k <= i
    <3>1. Bad \subseteq Nat
      OBVIOUS
    <3>2. Bad # {}
      BY <2>0
    <3> HIDE DEF Bad
    <3> QED
      BY <3>1, <3>2, LeastElement
  <2>2. k \in 1 .. P /\ x < k /\ ~(B[x] < B[k])
    OBVIOUS
  <2>3. k - 1 \in 1 .. P - 1 /\ (k - 1) + 1 = k
    BY <2>2
  <2>4. k - 1 \notin Bad
    <3>1. ~(k <= k - 1)
      BY <2>2
    <3> QED
      BY <2>1, <3>1
  <2>5. B[k - 1] < B[k]
    BY <1>5, <2>3
  <2>6. B[x] \in Nat /\ B[k] \in Nat /\ B[k - 1] \in Nat
    BY <1>3, <2>2, <2>3
  <2>7. x = k - 1 \/ B[x] < B[k - 1]
    BY <2>2, <2>3, <2>4
  <2>8. CASE x = k - 1
    BY <2>2, <2>5, <2>8, Zenon
  <2>9. CASE B[x] < B[k - 1]
    <3>1. PICK u \in Nat, v \in Nat, y \in Nat : u = B[x] /\ v = B[k] /\ y = B[k - 1]
      BY <2>6
    <3>2. ~(u < v) /\ y < v /\ u < y
      BY <2>2, <2>5, <2>9, <3>1, Zenon
    <3> QED
      BY <3>2, LessThrough, Zenon
  <2> QED
    BY <2>7, <2>8, <2>9
<1>7. Rising(C, Q - 1, P)
  <2> SUFFICES ASSUME NEW q \in 0 .. (Q - 1) - 1, NEW n \in 1 .. P - 1
               PROVE  C[q * P + n] < C[q * P + (n + 1)]
    BY DEF Rising
  <2>1. PICK x \in Nat : x = q * P /\ x + P <= e /\ (q + 1) * P = P + x
    <3>1. q * P \in Nat /\ q \in Int /\ Q - 1 \in Int /\ q < Q - 1
      OBVIOUS
    <3>2. q * P + P <= (Q - 1) * P
      BY <3>1, NextMultiple
    <3>3. (q + 1) * P = P + q * P
      OBVIOUS
    <3> QED
      BY <1>1, <3>1, <3>2, <3>3
  <2>2. q + 1 \in 0 .. Q - 1
    OBVIOUS
  <2>3. N[(P + x) + n] < N[(P + x) + (n + 1)]
    BY <2>1, <2>2 DEF Rising
  <2>4. x + n \in 1 .. e /\ x + (n + 1) \in 1 .. e
    BY <2>1
  <2>5. (P + x) + n = P + (x + n) /\ (P + x) + (n + 1) = P + (x + (n + 1))
    BY <2>1
  <2>6. C[x + n] = N[P + (x + n)] /\ C[x + (n + 1)] = N[P + (x + (n + 1))]
    BY <1>4, <2>4
  <2> QED
    BY <2>1, <2>3, <2>5, <2>6, Zenon
<1> QED
  BY <1>2, <1>3, <1>4, <1>6, <1>7

(* N: the moments of what is to be forwarded; M: of what is to be joined.  *)
Moments(ord, f, top, P, Q, N, M) ==
  /\ Len(N) = Q * P /\ Rising(N, Q, P) /\ Increasing(M)
  /\ Within(N, f, top) /\ Within(M, f, top)
  /\ ord => Increasing(N) /\ Precede(N, M)

(* The bounds may be wider. *)
LEMMA WithinWiden ==
  ASSUME NEW A \in Seq(Nat), NEW f \in Nat, NEW top \in Nat, NEW g \in Nat, NEW top2 \in Nat,
         g <= f, top <= top2, Within(A, f, top)
  PROVE  Within(A, g, top2)
<1> SUFFICES ASSUME NEW x \in 1 .. Len(A)
             PROVE  g < A[x] /\ A[x] <= top2
  BY DEF Within
<1>1. A[x] \in Nat
  OBVIOUS
<1>2. f < A[x] /\ A[x] <= top
  BY DEF Within
<1> QED
  BY <1>1, <1>2

(* Moments up to a bound come before those beyond it. *)
LEMMA LaterFollow ==
  ASSUME NEW A \in Seq(Nat), NEW B \in Seq(Nat), NEW f, NEW top \in Nat, NEW top2,
         Within(A, f, top), Within(B, top, top2)
  PROVE  Precede(A, B)
<1> SUFFICES ASSUME NEW x \in 1 .. Len(A), NEW y \in 1 .. Len(B)
             PROVE  A[x] < B[y]
  BY DEF Precede
<1>1. A[x] \in Nat /\ B[y] \in Nat
  OBVIOUS
<1>2. A[x] <= top /\ top < B[y]
  BY DEF Within
<1> QED
  BY <1>1, <1>2

(* One more block is one period longer. *)
LEMMA LenAdd ==
  ASSUME NEW P \in Nat, NEW Q \in Nat, NEW y, y = Q * P
  PROVE  y + P = (Q + 1) * P /\ y \in Nat
OBVIOUS

(* A block is collected from the helper. *)
LEMMA MomentsJoin ==
  ASSUME NEW P \in Nat \ {0}, NEW Q \in Nat, NEW N \in Seq(Nat), NEW M \in Seq(Nat),
         NEW ord, NEW f \in Nat, NEW top \in Nat, Moments(ord, f, top, P, Q, N, M), P <= Len(M)
  PROVE  Moments(ord, f, top, P, Q + 1, N \o SubSeq(M, 1, P), SubSeq(M, P + 1, Len(M)))
<1>1. PICK B : /\ B = SubSeq(M, 1, P) /\ B \in Seq(Nat) /\ Len(B) = P
  <2>1. P \in Nat
    OBVIOUS
  <2>2. SubSeq(M, 1, P) \in Seq(Nat)
    BY <2>1, Prefix
  <2>3. Len(SubSeq(M, 1, P)) = P
    BY <2>1, Prefix
  <2> QED
    BY <2>2, <2>3
<1>2. PICK C : C = SubSeq(M, P + 1, Len(M)) /\ C \in Seq(Nat)
  <2>1. P \in Nat
    OBVIOUS
  <2>2. SubSeq(M, P + 1, Len(M)) \in Seq(Nat)
    BY <2>1, RestAt
  <2> QED
    BY <2>2
<1>3. /\ Increasing(B) /\ Increasing(C) /\ Precede(B, C)
      /\ Within(B, f, top) /\ Within(C, f, top)
      /\ Precede(N, M) => Precede(N, B) /\ Precede(N, C)
  <2>1. P \in Nat /\ Increasing(M) /\ Within(M, f, top)
    BY DEF Moments
  <2>2. /\ Increasing(B) /\ Increasing(C) /\ Precede(B, C)
    BY <1>1, <1>2, <2>1, CutMoments
  <2>3. /\ Within(B, f, top) /\ Within(C, f, top)
    BY <1>1, <1>2, <2>1, CutMoments
  <2>4. Precede(N, M) => Precede(N, B) /\ Precede(N, C)
    BY <1>1, <1>2, <2>1, CutMoments
  <2> QED
    BY <2>2, <2>3, <2>4
<1>4. Len(N \o B) = (Q + 1) * P
  <2>1. Len(N \o B) = Len(N) + Len(B)
    BY <1>1, ConcatNat
  <2> QED
    BY <1>1, <2>1, LenAdd DEF Moments
<1>5. Rising(N \o B, Q + 1, P)
  BY <1>1, <1>3, RisingAdd DEF Moments
<1>6. Within(N \o B, f, top)
  BY <1>1, <1>3, JoinWithin DEF Moments
<1>7. ord => Increasing(N \o B) /\ Precede(N \o B, C)
  <2> SUFFICES ASSUME ord
               PROVE  Increasing(N \o B) /\ Precede(N \o B, C)
    OBVIOUS
  <2>1. Increasing(N) /\ Precede(N, B) /\ Precede(N, C)
    BY <1>3 DEF Moments
  <2> QED
    BY <1>1, <1>2, <1>3, <2>1, JoinMoments
<1>8. Moments(ord, f, top, P, Q + 1, N \o B, C)
  BY <1>3, <1>4, <1>5, <1>6, <1>7 DEF Moments
<1> QED
  BY <1>1, <1>2, <1>8

(* A message of this program's period comes in. *)
LEMMA MomentsDirect ==
  ASSUME NEW P \in Nat \ {0}, NEW Q \in Nat, NEW N \in Seq(Nat), NEW M \in Seq(Nat),
         NEW ord, NEW f \in Nat, NEW top \in Nat, Moments(ord, f, top, P, Q, N, M), f <= top,
         NEW B \in Seq(Nat), Len(B) = P, Increasing(B), NEW top2 \in Nat, top <= top2,
         Within(B, top, top2), ord => M = <<>>
  PROVE  Moments(ord, f, top2, P, Q + 1, N \o B, M)
<1>1. Within(N, f, top2) /\ Within(M, f, top2) /\ Within(B, f, top2)
  BY WithinWiden DEF Moments
<1>2. Precede(N, B)
  BY LaterFollow DEF Moments
<1>4. Len(N \o B) = (Q + 1) * P
  <2>1. Len(N \o B) = Len(N) + Len(B)
    BY ConcatNat
  <2> QED
    BY <2>1, LenAdd DEF Moments
<1>5. Rising(N \o B, Q + 1, P)
  BY RisingAdd DEF Moments
<1>6. Within(N \o B, f, top2)
  BY <1>1, JoinWithin
<1>7. ord => Increasing(N \o B)
  BY <1>2, JoinMoments DEF Moments
<1>8. M = <<>> => Precede(N \o B, M)
  BY DEF Precede
<1> QED
  BY <1>1, <1>4, <1>5, <1>6, <1>7, <1>8 DEF Moments

(* A message of a shorter period goes to the helper. *)
LEMMA MomentsHelper ==
  ASSUME NEW P \in Nat \ {0}, NEW Q \in Nat, NEW N \in Seq(Nat), NEW M \in Seq(Nat),
         NEW ord, NEW f \in Nat, NEW top \in Nat, Moments(ord, f, top, P, Q, N, M), f <= top,
         NEW B \in Seq(Nat), Increasing(B), NEW top2 \in Nat, top <= top2, Within(B, top, top2)
  PROVE  Moments(ord, f, top2, P, Q, N, M \o B)
<1>1. Within(N, f, top2) /\ Within(M, f, top2) /\ Within(B, f, top2)
  BY WithinWiden DEF Moments
<1>2. Precede(N, B) /\ Precede(M, B)
  BY LaterFollow DEF Moments
<1>3. Within(M \o B, f, top2)
  BY <1>1, JoinWithin
<1>4. Increasing(M \o B)
  BY <1>2, JoinMoments DEF Moments
<1>5. Precede(N, M) => Precede(N, M \o B)
  <2> SUFFICES ASSUME Precede(N, M), NEW x \in 1 .. Len(N), NEW y \in 1 .. Len(M \o B)
               PROVE  N[x] < (M \o B)[y]
    BY DEF Precede
  <2>1. PICK a \in Nat, b \in Nat : a = Len(M) /\ b = Len(B)
    OBVIOUS
  <2>2. y \in 1 .. a + b
    BY <2>1, ConcatNat
  <2>3. (M \o B)[y] = IF y <= a THEN M[y] ELSE B[y - a]
    <3>1. y \in 1 .. Len(M) + Len(B)
      BY <2>1, <2>2
    <3> QED
      BY <2>1, <3>1, ConcatNat
  <2>4. CASE y <= a
    BY <2>1, <2>2, <2>3, <2>4 DEF Precede
  <2>5. CASE ~(y <= a)
    <3>1. y - a \in 1 .. b
      BY <2>2, <2>5
    <3> QED
      BY <1>2, <2>1, <2>3, <2>5, <3>1 DEF Precede
  <2> QED
    BY <2>4, <2>5
<1> QED
  BY <1>1, <1>3, <1>4, <1>5 DEF Moments

(* The first block is forwarded: what is left is later, if the order is      *)
(* kept.                                                                     *)
LEMMA MomentsSend ==
  ASSUME NEW P \in Nat \ {0}, NEW Q \in Nat \ {0}, NEW N \in Seq(Nat), NEW M \in Seq(Nat),
         NEW ord, NEW f \in Nat, NEW top \in Nat, Moments(ord, f, top, P, Q, N, M)
  PROVE  LET B == SubSeq(N, 1, P)
         IN  /\ B \in Seq(Nat) /\ Len(B) = P /\ \A n \in 1 .. P : B[n] = N[n]
             /\ Increasing(B)
             /\ \E g \in Nat :
                  /\ f <= g /\ g <= top
                  /\ ~ord => g = f
                  /\ ord => Within(B, f, g)
                  /\ Moments(ord, g, top, P, Q - 1, SubSeq(N, P + 1, Len(N)), M)
<1>1. P <= Len(N)
  BY RisingDrop DEF Moments
<1>2. PICK B \in Seq(Nat) : /\ B = SubSeq(N, 1, P) /\ Len(B) = P /\ \A n \in 1 .. P : B[n] = N[n]
  <2>1. P \in Nat
    OBVIOUS
  <2>2. SubSeq(N, 1, P) \in Seq(Nat)
    BY <1>1, <2>1, Prefix
  <2>3. Len(SubSeq(N, 1, P)) = P
    BY <1>1, <2>1, Prefix
  <2>4. \A n \in 1 .. P : SubSeq(N, 1, P)[n] = N[n]
    BY <1>1, <2>1, Prefix
  <2> QED
    BY <2>2, <2>3, <2>4
<1>3. PICK C \in Seq(Nat) : C = SubSeq(N, P + 1, Len(N))
  BY <1>1, RestAt
<1>4. Increasing(B) /\ Rising(C, Q - 1, P)
  BY <1>2, <1>3, RisingDrop DEF Moments
<1>5. Len(C) = (Q - 1) * P
  <2>1. Len(C) = Len(N) - P
    BY <1>1, <1>3, RestAt
  <2>2. Len(N) = Q * P
    BY DEF Moments
  <2>3. Q * P - P = (Q - 1) * P
    OBVIOUS
  <2> QED
    BY <2>1, <2>2, <2>3
<1>6. /\ Within(B, f, top) /\ Within(C, f, top)
      /\ Increasing(N) => Increasing(C) /\ Precede(B, C)
      /\ Precede(N, M) => Precede(B, M) /\ Precede(C, M)
  <2>1. P \in Nat /\ Within(N, f, top)
    BY DEF Moments
  <2>2. Within(B, f, top) /\ Within(C, f, top)
    BY <1>1, <1>2, <1>3, <2>1, CutMoments
  <2>3. Increasing(N) => Increasing(C) /\ Precede(B, C)
    BY <1>1, <1>2, <1>3, <2>1, CutMoments
  <2>4. Precede(N, M) => Precede(B, M) /\ Precede(C, M)
    BY <1>1, <1>2, <1>3, <2>1, CutMoments
  <2> QED
    BY <2>2, <2>3, <2>4
<1>7. CASE ~ord
  <2>1. Moments(ord, f, top, P, Q - 1, C, M)
    BY <1>4, <1>5, <1>6, <1>7 DEF Moments
  <2>2. f <= top
    <3>1. 1 \in 1 .. Len(B)
      BY <1>2
    <3>2. f < B[1] /\ B[1] <= top /\ B[1] \in Nat
      BY <1>6, <3>1 DEF Within
    <3> QED
      BY <3>2
  <2>3. f <= f
    OBVIOUS
  <2> QED
    BY <1>2, <1>3, <1>4, <1>7, <2>1, <2>2, <2>3
<1>8. CASE ord
  <2>1. PICK g \in Nat : g = B[P] /\ f <= g /\ g <= top
    <3>1. P \in 1 .. Len(B)
      BY <1>2
    <3>2. f < B[P] /\ B[P] <= top /\ B[P] \in Nat
      BY <1>6, <3>1 DEF Within
    <3> QED
      BY <3>2
  <2>2. Within(B, f, g)
    <3> SUFFICES ASSUME NEW x \in 1 .. P
                 PROVE  f < B[x] /\ B[x] <= g
      BY <1>2 DEF Within
    <3>1. f < B[x]
      BY <1>2, <1>6 DEF Within
    <3>2. CASE x = P
      BY <2>1, <3>1, <3>2
    <3>3. CASE x # P
      <4>1. x < P /\ P \in 1 .. P
        BY <3>3
      <4>2. B[x] < B[P] /\ B[x] \in Nat
        BY <1>2, <1>4, <4>1 DEF Increasing
      <4> QED
        BY <2>1, <3>1, <4>2
    <3> QED
      BY <3>2, <3>3
  <2>3. ASSUME NEW A \in Seq(Nat), Precede(B, A), Within(A, f, top)
        PROVE  Within(A, g, top)
    <3>1. P \in 1 .. Len(B) /\ B[P] = g
      BY <1>2, <2>1
    <3>2. \A x \in 1 .. Len(A) : g < A[x]
      BY <2>3, <3>1 DEF Precede
    <3>3. \A x \in 1 .. Len(A) : A[x] <= top
      BY <2>3 DEF Within
    <3> QED
      BY <3>2, <3>3 DEF Within
  <2>4. Moments(ord, g, top, P, Q - 1, C, M)
    BY <1>3, <1>4, <1>5, <1>6, <1>8, <2>3 DEF Moments
  <2> QED
    BY <1>2, <1>3, <1>4, <1>8, <2>1, <2>2, <2>4
<1> QED
  BY <1>7, <1>8

--------------------------------------------------------------------------------

(* The flow: what was read, can be read, is to be written and is collected.  *)

PieceLen(P, o) == IF o.at = "join" THEN o.remote ELSE P

(* T: the blobs that were read, what can be read and what is to be written, *)
(* Q whole periods of the moments N; the helper holds K of the moments M.   *)
Pipe(P, w, r, ord, f, top, blobs, b, h, o, T, Q, N, K, M) ==
  /\ Grid(T, Q, w, P, N) /\ Grid(h, K, w, r, M)
  /\ Moments(ord, f, top, P, Q, N, M)
  /\ K # 0 => r < P
  /\ Taken(T, blobs, P) /\ Placed(T, Len(blobs) * P, b, o.pieces, PieceLen(P, o))

FlowSize(P, size, w, r, b, o) ==
  /\ Len(b) + Len(o.pieces) * PieceLen(P, o) <= size
  /\ o.at = "join" => o.remote = r /\ o.ports = w /\ r < P

Flow(S, P, size, w, r, ord, f, top, blobs, b, h, o) ==
  /\ ConvOK(S, P, size, w, b, h, o) /\ FlowSize(P, size, w, r, b, o)
  /\ \E T \in Seq(S), Q \in Nat, N \in Seq(Nat), K \in Nat, M \in Seq(Nat) :
       Pipe(P, w, r, ord, f, top, blobs, b, h, o, T, Q, N, K, M)

(* The types of a converter, one by one. *)
LEMMA FlowTypes ==
  ASSUME NEW S, NEW P \in Nat \ {0}, NEW size \in Nat, NEW w, NEW b, NEW h, NEW o,
         ConvOK(S, P, size, w, b, h, o)
  PROVE  /\ b \in Seq(S) /\ h \in Seq(S) /\ o.pieces \in Seq(Seq(S)) /\ PieceLen(P, o) \in Nat
         /\ Len(b) <= size /\ o \in OscType(S) /\ (o.at = "idle" => o.pieces = <<>>)
BY DEF ConvOK, ConvType, OscType, PieceLen

(* Nothing is on its way. *)
LEMMA EmptyFlow ==
  ASSUME NEW S, NEW P \in Nat \ {0}, NEW size \in Nat, NEW w \in Nat \ {0}, NEW r \in Nat \ {0},
         NEW ord, NEW f \in Nat, NEW top \in Nat,
         NEW o, o = [at |-> "idle", pieces |-> <<>>, ports |-> 0, remote |-> 0]
  PROVE  Flow(S, P, size, w, r, ord, f, top, <<>>, <<>>, <<>>, o)
<1>1. ConvOK(S, P, size, w, <<>>, <<>>, o)
  BY EmptyConv
<1>2. FlowSize(P, size, w, r, <<>>, o)
  <2>1. o.pieces = <<>> /\ PieceLen(P, o) = P /\ o.at # "join"
    BY DEF PieceLen
  <2> QED
    BY <2>1 DEF FlowSize
<1>3. Grid(<<>>, 0, w, P, <<>>) /\ Grid(<<>>, 0, w, r, <<>>)
  BY DEF Grid
<1>4. Moments(ord, f, top, P, 0, <<>>, <<>>)
  BY DEF Moments, Rising, Increasing, Within, Precede
<1>5. Taken(<<>>, <<>>, P)
  BY DEF Taken
<1>6. Placed(<<>>, Len(<<>>) * P, <<>>, o.pieces, PieceLen(P, o))
  <2>1. o.pieces = <<>> /\ PieceLen(P, o) = P /\ Len(<<>>) * P = 0
    BY DEF PieceLen
  <2> QED
    BY <2>1 DEF Placed
<1>7. Pipe(P, w, r, ord, f, top, <<>>, <<>>, <<>>, o, <<>>, 0, <<>>, 0, <<>>)
  BY <1>3, <1>4, <1>5, <1>6 DEF Pipe
<1>8. <<>> \in Seq(S) /\ <<>> \in Seq(Nat) /\ 0 \in Nat
  OBVIOUS
<1> QED
  BY <1>1, <1>2, <1>7, <1>8 DEF Flow

(* Room for all pieces is room for the first, and then for the others. *)
LEMMA WriteSums ==
  ASSUME NEW e \in Nat, NEW l \in Nat, NEW m \in Nat, NEW k \in Nat, NEW size \in Nat,
         m * l = l + k * l, e + m * l <= size
  PROVE  e + l <= size /\ (e + l) + k * l <= size /\ e <= e + l
<1>1. PICK y \in Nat : y = k * l /\ e + (l + y) <= size
  OBVIOUS
<1> QED
  BY <1>1

(* A piece is written to the ring buffer: none of it is lost. *)
LEMMA FlowWrite ==
  ASSUME NEW S, NEW P \in Nat \ {0}, NEW size \in Nat, NEW w \in Nat \ {0}, NEW r \in Nat \ {0},
         NEW ord, NEW f \in Nat, NEW top \in Nat, NEW blobs \in Seq(Seq(S)),
         NEW b, NEW h, NEW o, Flow(S, P, size, w, r, ord, f, top, blobs, b, h, o),
         NEW b2, NEW h2, NEW o2, ConvWrites(size, b, h, o, b2, h2, o2)
  PROVE  /\ Flow(S, P, size, w, r, ord, f, top, blobs, b2, h2, o2)
         /\ Len(b) <= Len(b2)
<1>1. ConvOK(S, P, size, w, b, h, o) /\ FlowSize(P, size, w, r, b, o)
  BY DEF Flow
<1>2. PICK T \in Seq(S), Q \in Nat, N \in Seq(Nat), K \in Nat, M \in Seq(Nat) :
        Pipe(P, w, r, ord, f, top, blobs, b, h, o, T, Q, N, K, M)
  BY DEF Flow
<1>3. ConvOK(S, P, size, w, b2, h2, o2)
  BY <1>1, WriteOK
<1>4. PICK l \in Nat, ps \in Seq(Seq(S)) : l = PieceLen(P, o) /\ ps = o.pieces
  <2>1. PieceLen(P, o) \in Nat /\ o.pieces \in Seq(Seq(S))
    BY <1>1, FlowTypes
  <2> QED
    BY <2>1
<1>20. PICK x \in Nat : x = Len(blobs) * P
  OBVIOUS
<1>5. b \in Seq(S) /\ h2 = h /\ ps # <<>> /\ b2 = Put(size, b, Head(ps))
  BY <1>1, <1>4, FlowTypes DEF ConvWrites
<1>21. o \in OscType(S) /\ o2 = [o EXCEPT !.pieces = Tail(@)]
  BY <1>1, FlowTypes DEF ConvWrites
<1>6. /\ Placed(T, x, b \o Head(ps), Tail(ps), l) /\ Len(Head(ps)) = l
      /\ Len(ps) * l = l + Len(Tail(ps)) * l
  <2>1. Placed(T, x, b, ps, l)
    BY <1>2, <1>4, <1>20 DEF Pipe
  <2>2. b \in Seq(S) /\ T \in Seq(S) /\ ps \in Seq(Seq(S)) /\ ps # <<>>
    BY <1>2, <1>4, <1>5
  <2>3. l \in Nat /\ x \in Nat
    BY <1>4, <1>20
  <2> QED
    BY <2>1, <2>2, <2>3, PlacedWrite
<1>7. o2.pieces = Tail(ps) /\ o2.at = o.at /\ o2.remote = o.remote /\ o2.ports = o.ports
  BY <1>4, <1>21 DEF OscType
<1>8. PieceLen(P, o2) = l
  BY <1>4, <1>7 DEF PieceLen
<1>9. PICK c \in Seq(S) : c = Head(ps) /\ Len(c) = l
  BY <1>4, <1>5, <1>6, TailType
<1>10. PICK e \in Nat, k \in Nat, m \in Nat : e = Len(b) /\ k = Len(Tail(ps)) /\ m = Len(ps)
  <2>1. Tail(ps) \in Seq(Seq(S))
    BY <1>4, <1>5, TailType
  <2>2. Len(b) \in Nat
    BY <1>5
  <2>3. Len(ps) \in Nat
    BY <1>4
  <2>4. Len(Tail(ps)) \in Nat
    BY <2>1
  <2> QED
    BY <2>2, <2>3, <2>4
<1>16. e + l <= size /\ (e + l) + k * l <= size /\ e <= e + l
  <2>1. e + m * l <= size
    BY <1>1, <1>4, <1>10, Zenon DEF FlowSize
  <2>2. m * l = l + k * l
    BY <1>6, <1>10, Zenon
  <2> QED
    BY <1>4, <1>10, <2>1, <2>2, WriteSums, Zenon
<1>11. b2 = b \o c
  <2>1. Len(b) + Len(c) <= size
    BY <1>9, <1>10, <1>16, Zenon
  <2>2. b \in Seq(S) /\ c \in Seq(S)
    BY <1>5, <1>9
  <2>3. Put(size, b, c) = b \o c
    BY <2>1, <2>2, PutAll
  <2> QED
    BY <1>5, <1>9, <2>3, Zenon
<1>12. Len(b2) = e + l
  <2>1. Len(b \o c) = Len(b) + Len(c)
    BY <1>5, <1>9, Concat, Zenon
  <2> QED
    BY <1>9, <1>10, <1>11, <2>1, Zenon
<1>13. FlowSize(P, size, w, r, b2, o2)
  BY <1>1, <1>7, <1>8, <1>10, <1>12, <1>16, Zenon DEF FlowSize
<1>14. Pipe(P, w, r, ord, f, top, blobs, b2, h2, o2, T, Q, N, K, M)
  BY <1>2, <1>4, <1>5, <1>6, <1>7, <1>8, <1>9, <1>11, <1>20 DEF Pipe
<1>15. Len(b) <= Len(b2)
  BY <1>10, <1>12, <1>16, Zenon
<1> QED
  BY <1>3, <1>13, <1>14, <1>15 DEF Flow

(* A handler returns. *)
LEMMA FlowReturn ==
  ASSUME NEW S, NEW P \in Nat \ {0}, NEW size \in Nat, NEW w \in Nat \ {0}, NEW r \in Nat \ {0},
         NEW ord, NEW f \in Nat, NEW top \in Nat, NEW blobs \in Seq(Seq(S)),
         NEW b, NEW h, NEW o, Flow(S, P, size, w, r, ord, f, top, blobs, b, h, o),
         NEW b2, NEW h2, NEW o2, ConvReturns(P, size, b, h, o, b2, h2, o2)
  PROVE  Flow(S, P, size, w, r, ord, f, top, blobs, b2, h2, o2) /\ b2 = b
<1>1. ConvOK(S, P, size, w, b, h, o) /\ FlowSize(P, size, w, r, b, o)
  BY DEF Flow
<1>2. PICK T \in Seq(S), Q \in Nat, N \in Seq(Nat), K \in Nat, M \in Seq(Nat) :
        Pipe(P, w, r, ord, f, top, blobs, b, h, o, T, Q, N, K, M)
  BY DEF Flow
<1>3. ConvOK(S, P, size, w, b2, h2, o2)
  BY <1>1, ReturnOK
<1>4. /\ o.pieces = <<>> /\ o2.pieces = <<>> /\ o2.at = "idle" /\ b2 = b /\ h2 = h
  BY DEF ConvReturns
<1>5. PieceLen(P, o2) = P /\ Len(b) <= size
  BY <1>1, <1>4, FlowTypes DEF PieceLen
<1>6. FlowSize(P, size, w, r, b2, o2)
  BY <1>1, <1>4, <1>5, FlowTypes DEF FlowSize
<1>7. Placed(T, Len(blobs) * P, b2, o2.pieces, PieceLen(P, o2))
  <2>1. Placed(T, Len(blobs) * P, b, <<>>, PieceLen(P, o))
    BY <1>2, <1>4 DEF Pipe
  <2>2. PieceLen(P, o) \in Nat
    BY <1>1, FlowTypes
  <2>3. Len(<<>>) * PieceLen(P, o) = Len(<<>>) * PieceLen(P, o2)
    BY <1>5, <2>2
  <2>4. 1 .. Len(<<>>) = {}
    OBVIOUS
  <2> QED
    BY <1>4, <2>1, <2>3, <2>4 DEF Placed
<1>8. Pipe(P, w, r, ord, f, top, blobs, b2, h2, o2, T, Q, N, K, M)
  BY <1>2, <1>4, <1>7 DEF Pipe
<1> QED
  BY <1>3, <1>4, <1>6, <1>8 DEF Flow

(* What fits still fits when less is there. *)
LEMMA LessFits ==
  ASSUME NEW e \in Nat, NEW y \in Nat, NEW p \in Nat, NEW size \in Nat, e + y <= size
  PROVE  (e - p) + y <= size
OBVIOUS

(* More than nothing is not nothing. *)
LEMMA SumPositive ==
  ASSUME NEW a \in Nat \ {0}, NEW e \in Nat, NEW y \in Nat
  PROVE  a + e + y # 0
OBVIOUS

(* A blob is read from the ring buffer. *)
LEMMA FlowRead ==
  ASSUME NEW S, NEW P \in Nat \ {0}, NEW size \in Nat, NEW w \in Nat \ {0}, NEW r \in Nat \ {0},
         NEW ord, NEW f \in Nat, NEW top \in Nat, NEW blobs \in Seq(Seq(S)),
         NEW b, NEW h, NEW o, Flow(S, P, size, w, r, ord, f, top, blobs, b, h, o), P <= Len(b)
  PROVE  Flow(S, P, size, w, r, ord, f, top, Append(blobs, SubSeq(b, 1, P)),
              SubSeq(b, P + 1, Len(b)), h, o)
<1>1. ConvOK(S, P, size, w, b, h, o) /\ FlowSize(P, size, w, r, b, o)
  BY DEF Flow
<1>2. PICK T \in Seq(S), Q \in Nat, N \in Seq(Nat), K \in Nat, M \in Seq(Nat) :
        Pipe(P, w, r, ord, f, top, blobs, b, h, o, T, Q, N, K, M)
  BY DEF Flow
<1>3. b \in Seq(S) /\ o.pieces \in Seq(Seq(S)) /\ PieceLen(P, o) \in Nat
  BY <1>1, FlowTypes
<1>4. PICK b2 \in Seq(S) : b2 = SubSeq(b, P + 1, Len(b)) /\ Len(b2) = Len(b) - P
  <2>1. P \in Nat
    OBVIOUS
  <2> QED
    BY <1>3, <2>1, RestAt
<1>5. ConvOK(S, P, size, w, b2, h, o)
  BY <1>1, <1>4, ReadOK
<1>6. FlowSize(P, size, w, r, b2, o)
  <2>1. PICK e \in Nat, m \in Nat, l \in Nat : e = Len(b) /\ m = Len(o.pieces) /\ l = PieceLen(P, o)
    BY <1>3
  <2>2. PICK y \in Nat : y = m * l /\ e + y <= size
    <3>1. m * l \in Nat
      BY <2>1
    <3>2. e + m * l <= size
      BY <1>1, <2>1, Zenon DEF FlowSize
    <3> QED
      BY <3>1, <3>2
  <2>3. Len(b2) = e - P
    BY <1>4, <2>1
  <2>4. (e - P) + y <= size
    <3>1. e + y <= size
      BY <2>2, Zenon
    <3> QED
      BY <2>1, <2>2, <3>1, LessFits
  <2> QED
    BY <1>1, <2>1, <2>2, <2>3, <2>4, Zenon DEF FlowSize
<1>7. Taken(T, blobs, P) /\ Placed(T, Len(blobs) * P, b, o.pieces, PieceLen(P, o))
  BY <1>2 DEF Pipe
<1>8. PICK d : d = Append(blobs, SubSeq(b, 1, P)) /\ Len(d) = Len(blobs) + 1
  <2>1. SubSeq(b, 1, P) \in Seq(S)
    BY <1>3, Prefix
  <2>2. Len(Append(blobs, SubSeq(b, 1, P))) = Len(blobs) + 1
    BY <2>1
  <2> QED
    BY <2>2
<1>9. Taken(T, d, P)
  <2>1. T \in Seq(S) /\ P \in Nat
    BY <1>2
  <2>2. Taken(T, Append(blobs, SubSeq(b, 1, P)), P)
    BY <1>3, <1>7, <2>1, TakenRead
  <2> QED
    BY <1>8, <2>2, Zenon
<1>10. Placed(T, Len(d) * P, b2, o.pieces, PieceLen(P, o))
  <2>1. T \in Seq(S) /\ P \in Nat
    BY <1>2
  <2>2. PICK x \in Nat : x = Len(blobs) * P
    OBVIOUS
  <2>3. Placed(T, x, b, o.pieces, PieceLen(P, o))
    BY <1>7, <2>2, Zenon
  <2>4. Placed(T, x + P, SubSeq(b, P + 1, Len(b)), o.pieces, PieceLen(P, o))
    BY <1>3, <2>1, <2>2, <2>3, PlacedRead
  <2>5. x + P = Len(d) * P
    <3>1. PICK m \in Nat : m = Len(blobs)
      OBVIOUS
    <3>2. m * P + P = (m + 1) * P
      BY <3>1
    <3> QED
      BY <1>8, <2>2, <3>1, <3>2, Zenon
  <2> QED
    BY <1>4, <2>4, <2>5, Zenon
<1>11. Pipe(P, w, r, ord, f, top, d, b2, h, o, T, Q, N, K, M)
  BY <1>2, <1>9, <1>10 DEF Pipe
<1> QED
  BY <1>2, <1>4, <1>5, <1>6, <1>8, <1>11 DEF Flow

(* What was read of all channels is sent: it has the same moments in every   *)
(* channel.                                                                  *)
LEMMA FlowSend ==
  ASSUME NEW S, NEW P \in Nat \ {0}, NEW size \in Nat, NEW w \in Nat \ {0}, NEW r \in Nat \ {0},
         NEW ord, NEW f \in Nat, NEW top \in Nat, NEW blobs \in Seq(Seq(S)),
         NEW b, NEW h, NEW o, Flow(S, P, size, w, r, ord, f, top, blobs, b, h, o), Len(blobs) = w
  PROVE  \E B \in Seq(Nat), g \in Nat :
           /\ Voices(blobs, w, P, B) /\ Increasing(B)
           /\ f <= g /\ g <= top
           /\ ~ord => g = f
           /\ ord => Within(B, f, g)
           /\ Flow(S, P, size, w, r, ord, g, top, <<>>, b, h, o)
<1>1. ConvOK(S, P, size, w, b, h, o) /\ FlowSize(P, size, w, r, b, o)
  BY DEF Flow
<1>2. PICK T \in Seq(S), Q \in Nat, N \in Seq(Nat), K \in Nat, M \in Seq(Nat) :
        Pipe(P, w, r, ord, f, top, blobs, b, h, o, T, Q, N, K, M)
  BY DEF Flow
<1>3. b \in Seq(S) /\ o.pieces \in Seq(Seq(S)) /\ PieceLen(P, o) \in Nat
  BY <1>1, FlowTypes
<1>4. PICK a \in Nat \ {0} : a = w * P
  <2>1. w * P \in Nat \ {0}
    OBVIOUS
  <2> QED
    BY <2>1
<1>5. /\ Grid(T, Q, w, P, N) /\ Grid(h, K, w, r, M) /\ Moments(ord, f, top, P, Q, N, M)
      /\ (K # 0 => r < P) /\ Taken(T, blobs, P)
      /\ Placed(T, a, b, o.pieces, PieceLen(P, o))
  BY <1>2, <1>4 DEF Pipe
<1>6. Q # 0
  <2>1. PICK e \in Nat, y \in Nat : e = Len(b) /\ y = Len(o.pieces) * PieceLen(P, o)
    <3>1. Len(b) \in Nat /\ Len(o.pieces) \in Nat
      BY <1>3
    <3>2. Len(o.pieces) * PieceLen(P, o) \in Nat
      BY <1>3, <3>1
    <3> QED
      BY <3>1, <3>2
  <2>2. Len(T) = a + e + y
    BY <1>5, <2>1, Zenon DEF Placed
  <2>3. Len(T) = Q * a
    BY <1>4, <1>5, Zenon DEF Grid
  <2>4. Q = 0 => Q * a = 0
    BY <1>4
  <2>5. a + e + y # 0
    BY <1>4, <2>1, SumPositive
  <2> QED
    BY <2>2, <2>3, <2>4, <2>5, Zenon
<1>7. Q \in Nat \ {0} /\ 1 \in 0 .. Q /\ N \in Seq(Nat) /\ M \in Seq(Nat) /\ T \in Seq(S)
  BY <1>2, <1>6
<1>8. PICK B : /\ B = SubSeq(N, 1, P)
               /\ B \in Seq(Nat) /\ Len(B) = P /\ Increasing(B)
               /\ \A n \in 1 .. P : B[n] = N[n]
  <2>1. SubSeq(N, 1, P) \in Seq(Nat) /\ Len(SubSeq(N, 1, P)) = P /\ Increasing(SubSeq(N, 1, P))
    BY <1>5, <1>7, MomentsSend
  <2>2. \A n \in 1 .. P : SubSeq(N, 1, P)[n] = N[n]
    BY <1>5, <1>7, MomentsSend
  <2> QED
    BY <2>1, <2>2
<1>9. PICK g \in Nat :
        /\ f <= g /\ g <= top
        /\ ~ord => g = f
        /\ ord => Within(B, f, g)
        /\ Moments(ord, g, top, P, Q - 1, SubSeq(N, P + 1, Len(N)), M)
  <2>1. \E g \in Nat :
          /\ f <= g /\ g <= top
          /\ ~ord => g = f
          /\ ord => Within(SubSeq(N, 1, P), f, g)
          /\ Moments(ord, g, top, P, Q - 1, SubSeq(N, P + 1, Len(N)), M)
    BY <1>5, <1>7, MomentsSend
  <2> QED
    BY <1>8, <2>1, Zenon
<1>10. PICK U \in Seq(S), L \in Seq(Nat) :
         /\ U = SubSeq(T, a + 1, Len(T)) /\ L = SubSeq(N, P + 1, Len(N))
         /\ a <= Len(T) /\ Grid(U, Q - 1, w, P, L)
  <2>1. /\ 1 * (w * P) \in Nat /\ 1 * (w * P) <= Len(T) /\ 1 * P \in Nat /\ 1 * P <= Len(N)
        /\ Grid(SubSeq(T, 1 * (w * P) + 1, Len(T)), Q - 1, w, P, SubSeq(N, 1 * P + 1, Len(N)))
    BY <1>2, <1>5, <1>7, GridDrop
  <2>2. 1 * (w * P) = a /\ 1 * P = P
    BY <1>4
  <2>3. a <= Len(T) /\ P <= Len(N)
    BY <2>1, <2>2, Zenon
  <2>4. Grid(SubSeq(T, a + 1, Len(T)), Q - 1, w, P, SubSeq(N, P + 1, Len(N)))
    BY <2>1, <2>2, Zenon
  <2>5. SubSeq(T, a + 1, Len(T)) \in Seq(S)
    BY <1>4, <1>7, <2>3, RestAt
  <2>6. SubSeq(N, P + 1, Len(N)) \in Seq(Nat)
    BY <1>7, <2>3, RestAt
  <2> QED
    BY <2>3, <2>4, <2>5, <2>6
<1>11. Placed(U, Len(<<>>) * P, b, o.pieces, PieceLen(P, o))
  <2>1. Placed(SubSeq(T, a + 1, Len(T)), a - a, b, o.pieces, PieceLen(P, o))
    <3>1. a \in Nat /\ a <= a
      BY <1>4
    <3> QED
      BY <1>3, <1>5, <1>7, <3>1, PlacedDrop
  <2>2. a - a = Len(<<>>) * P
    BY <1>4
  <2> QED
    BY <1>10, <2>1, <2>2, Zenon
<1>12. Taken(U, <<>>, P)
  BY DEF Taken
<1>13. Pipe(P, w, r, ord, g, top, <<>>, b, h, o, U, Q - 1, L, K, M)
  BY <1>5, <1>9, <1>10, <1>11, <1>12, Zenon DEF Pipe
<1>14. Flow(S, P, size, w, r, ord, g, top, <<>>, b, h, o)
  <2>1. Q - 1 \in Nat
    BY <1>7
  <2>2. K \in Nat /\ M \in Seq(Nat) /\ U \in Seq(S) /\ L \in Seq(Nat)
    BY <1>2, <1>10, Zenon
  <2> QED
    BY <1>1, <1>13, <2>1, <2>2, Zenon DEF Flow
<1>15. Voices(blobs, w, P, B)
  <2>1. ASSUME NEW c \in 1 .. w, NEW n \in 1 .. P
        PROVE  blobs[c][n] = [channel |-> c, number |-> B[n]]
    <3>1. blobs[c][n] = T[(c - 1) * P + n]
      BY <1>5 DEF Taken
    <3>2. 0 \in 0 .. Q - 1
      BY <1>7
    <3>3. T[0 * (w * P) + (c - 1) * P + n] = [channel |-> c, number |-> N[0 * P + n]]
      BY <1>5, <3>2 DEF Grid
    <3>4. 0 * (w * P) + (c - 1) * P + n = (c - 1) * P + n /\ 0 * P + n = n
      <4>1. PICK y \in Int : y = (c - 1) * P
        OBVIOUS
      <4>2. 0 * (w * P) = 0 /\ 0 * P = 0
        OBVIOUS
      <4> QED
        BY <4>1, <4>2
    <3>5. B[n] = N[n]
      BY <1>8
    <3> QED
      BY <3>1, <3>3, <3>4, <3>5, Zenon
  <2>2. \A c \in 1 .. w : Len(blobs[c]) = P
    BY <1>5 DEF Taken
  <2> QED
    BY <1>8, <2>1, <2>2 DEF Voices
<1> QED
  BY <1>8, <1>9, <1>14, <1>15

(* The helper holds the messages of a block if it holds the samples of one. *)
LEMMA AtLeastTimes ==
  ASSUME NEW a \in Nat \ {0}, NEW K \in Nat, NEW t \in Nat, NEW z, z = t * a, K * a >= z
  PROVE  t <= K
<1> SUFFICES ASSUME K < t
             PROVE  FALSE
  OBVIOUS
<1>1. K \in Int /\ t \in Int
  OBVIOUS
<1>2. K * a + a <= t * a
  BY <1>1, NextMultiple
<1> QED
  BY <1>2

(* No pieces add nothing. *)
LEMMA NoneAdded ==
  ASSUME NEW x \in Nat, NEW e \in Nat, NEW l \in Nat
  PROVE  x <= x + e + Len(<<>>) * l
OBVIOUS

(* A block is collected from the helper and goes to the ring buffer. *)
LEMMA FlowJoin ==
  ASSUME NEW S, NEW P \in Nat \ {0}, NEW size \in Nat, NEW w \in Nat \ {0}, NEW r \in Nat \ {0},
         NEW t \in Nat \ {0}, Times(P, t, r),
         NEW ord, NEW f \in Nat, NEW top \in Nat, NEW blobs \in Seq(Seq(S)),
         NEW b, NEW h, NEW o, Flow(S, P, size, w, r, ord, f, top, blobs, b, h, o),
         NEW b2, NEW h2, NEW o2, ConvJoins(P, size, b, h, o, b2, h2, o2)
  PROVE  Flow(S, P, size, w, r, ord, f, top, blobs, b2, h2, o2) /\ b2 = b
<1>1. ConvOK(S, P, size, w, b, h, o) /\ FlowSize(P, size, w, r, b, o)
  BY DEF Flow
<1>2. PICK T \in Seq(S), Q \in Nat, N \in Seq(Nat), K \in Nat, M \in Seq(Nat) :
        Pipe(P, w, r, ord, f, top, blobs, b, h, o, T, Q, N, K, M)
  BY DEF Flow
<1>3. ConvOK(S, P, size, w, b2, h2, o2)
  BY <1>1, JoinOK
<1>4. /\ o.at = "join" /\ o.pieces = <<>> /\ b2 = b
      /\ o.remote = r /\ o.ports = w /\ r < P
      /\ Len(h) >= P * w /\ size - Len(b) >= P * w
      /\ h2 = SubSeq(h, P * w + 1, Len(h))
  BY <1>1 DEF ConvJoins, ConvMayJoin, FlowSize
<1>5. PICK ps : /\ ps = JoinedOf(P, SubSeq(h, 1, P * w), r, w)
                /\ o2 = [o EXCEPT !.pieces = ps]
  BY <1>4 DEF ConvJoins
<1>6. /\ o2.at = "join" /\ o2.pieces = ps /\ o2.remote = r /\ o2.ports = w
  <2>1. o \in OscType(S)
    BY <1>1, FlowTypes
  <2> QED
    BY <1>4, <1>5, <2>1 DEF OscType
<1>7. /\ Grid(T, Q, w, P, N) /\ Grid(h, K, w, r, M) /\ Moments(ord, f, top, P, Q, N, M)
      /\ Taken(T, blobs, P) /\ Placed(T, Len(blobs) * P, b, <<>>, PieceLen(P, o))
  BY <1>2, <1>4 DEF Pipe
<1>8. b \in Seq(S) /\ h \in Seq(S)
  BY <1>1, FlowTypes
<1>9. PICK a \in Nat \ {0} : a = w * r
  <2>1. w * r \in Nat \ {0}
    OBVIOUS
  <2> QED
    BY <2>1
<1>10. P * w = t * a /\ P = t * r
  <2>1. P = t * r
    BY DEF Times
  <2>2. (t * r) * w = t * (w * r)
    OBVIOUS
  <2> QED
    BY <1>9, <2>1, <2>2, Zenon
<1>11. t <= K
  <2>1. Len(h) = K * a
    BY <1>7, <1>9, Zenon DEF Grid
  <2>2. K * a >= P * w
    BY <1>4, <2>1, Zenon
  <2>3. K \in Nat
    BY <1>2
  <2> QED
    BY <1>9, <1>10, <2>2, <2>3, AtLeastTimes
<1>12. /\ P <= Len(M)
       /\ ps \in Seq(Seq(S)) /\ Len(ps) = w * t
       /\ \A j \in 1 .. Len(ps) : Len(ps[j]) = r
       /\ FlattenSeq(ps) \in Seq(S) /\ IsFlat(FlattenSeq(ps), ps, r)
       /\ Block(FlattenSeq(ps), w, P, SubSeq(M, 1, P))
  <2>1. P \in Nat /\ K \in Nat /\ M \in Seq(Nat) /\ r < P
    BY <1>2, <1>4
  <2>2. JoinedTo(S, ps, w, P, r, t, h, M)
    BY <1>5, <1>7, <1>8, <1>11, <2>1, JoinedIsBlock
  <2> QED
    BY <2>2, Zenon DEF JoinedTo
<1>13. PICK U \in Seq(S), B \in Seq(Nat), C \in Seq(Nat) :
         U = FlattenSeq(ps) /\ B = SubSeq(M, 1, P) /\ C = SubSeq(M, P + 1, Len(M))
  <2>1. P \in Nat /\ M \in Seq(Nat)
    BY <1>2
  <2>2. SubSeq(M, 1, P) \in Seq(Nat)
    BY <1>12, <2>1, Prefix
  <2>3. SubSeq(M, P + 1, Len(M)) \in Seq(Nat)
    BY <1>12, <2>1, RestAt
  <2> QED
    BY <1>12, <2>2, <2>3
<1>14. Moments(ord, f, top, P, Q + 1, N \o B, C)
  <2>1. Q \in Nat /\ N \in Seq(Nat) /\ M \in Seq(Nat)
    BY <1>2
  <2>2. Moments(ord, f, top, P, Q + 1, N \o SubSeq(M, 1, P), SubSeq(M, P + 1, Len(M)))
    BY <1>7, <1>12, <2>1, MomentsJoin
  <2> QED
    BY <1>13, <2>2, Zenon
<1>15. Grid(T \o U, Q + 1, w, P, N \o B)
  <2>1. Q \in Nat /\ N \in Seq(Nat) /\ T \in Seq(S) /\ U \in Seq(S) /\ B \in Seq(Nat)
    BY <1>2, <1>13
  <2>2. Block(U, w, P, B)
    BY <1>12, <1>13, Zenon
  <2> QED
    BY <1>7, <2>1, <2>2, GridAdd
<1>16. Grid(h2, K - t, w, r, C)
  <2>1. t \in 0 .. K /\ K \in Nat /\ M \in Seq(Nat)
    BY <1>2, <1>11
  <2>2. Grid(SubSeq(h, t * (w * r) + 1, Len(h)), K - t, w, r, SubSeq(M, t * r + 1, Len(M)))
    BY <1>7, <1>8, <2>1, GridDrop
  <2>3. t * (w * r) = P * w
    BY <1>9, <1>10, Zenon
  <2> QED
    BY <1>4, <1>10, <1>13, <2>2, <2>3, Zenon
<1>17. Taken(T \o U, blobs, P)
  <2>1. T \in Seq(S) /\ U \in Seq(S) /\ P \in Nat
    BY <1>2, <1>13
  <2>2. Len(blobs) * P <= Len(T)
    <3>1. Len(T) = Len(blobs) * P + Len(b) + Len(<<>>) * PieceLen(P, o)
      BY <1>7 DEF Placed
    <3>2. PICK x \in Nat, e \in Nat, l \in Nat : x = Len(blobs) * P /\ e = Len(b) /\ l = PieceLen(P, o)
      <4>1. Len(blobs) * P \in Nat
        OBVIOUS
      <4>2. PieceLen(P, o) \in Nat
        BY <1>1, FlowTypes
      <4>3. Len(b) \in Nat
        BY <1>8
      <4> QED
        BY <4>1, <4>2, <4>3
    <3>3. x <= x + e + Len(<<>>) * l
      BY <3>2, NoneAdded
    <3> QED
      BY <3>1, <3>2, <3>3, Zenon
  <2> QED
    BY <1>7, <2>1, <2>2, TakenAdd
<1>18. Placed(T \o U, Len(blobs) * P, b, ps, r)
  <2>1. PICK x \in Nat : x = Len(blobs) * P
    OBVIOUS
  <2>2. PieceLen(P, o) \in Nat /\ r \in Nat
    BY <1>1, FlowTypes
  <2>3. T \in Seq(S) /\ U \in Seq(S) /\ IsFlat(U, ps, r)
    BY <1>2, <1>12, <1>13
  <2>4. Placed(T, x, b, <<>>, PieceLen(P, o))
    BY <1>7, <2>1, Zenon
  <2>5. Placed(T \o U, x, b, ps, r)
    BY <1>8, <1>12, <2>1, <2>2, <2>3, <2>4, PlacedAdd
  <2> QED
    BY <2>1, <2>5, Zenon
<1>19. PieceLen(P, o2) = r
  BY <1>6 DEF PieceLen
<1>20. Pipe(P, w, r, ord, f, top, blobs, b2, h2, o2, T \o U, Q + 1, N \o B, K - t, C)
  BY <1>4, <1>6, <1>14, <1>15, <1>16, <1>17, <1>18, <1>19, Zenon DEF Pipe
<1>21. FlowSize(P, size, w, r, b2, o2)
  <2>1. PICK e \in Nat, z \in Nat : e = Len(b) /\ z = P * w
    <3>1. P * w \in Nat
      OBVIOUS
    <3> QED
      BY <1>8, <3>1
  <2>2. Len(ps) * r = z
    <3>1. (w * t) * r = (t * r) * w
      OBVIOUS
    <3> QED
      BY <1>10, <1>12, <2>1, <3>1, Zenon
  <2>3. size - e >= z
    BY <1>4, <2>1, Zenon
  <2>4. e + z <= size
    BY <2>1, <2>3
  <2> QED
    BY <1>4, <1>6, <1>19, <2>1, <2>2, <2>4, Zenon DEF FlowSize
<1>22. T \o U \in Seq(S) /\ Q + 1 \in Nat /\ N \o B \in Seq(Nat) /\ K - t \in Nat /\ C \in Seq(Nat)
  <2>1. T \o U \in Seq(S) /\ N \o B \in Seq(Nat)
    BY <1>2, <1>13, Concat
  <2>2. Q + 1 \in Nat /\ K - t \in Nat
    BY <1>2, <1>11
  <2> QED
    BY <1>13, <2>1, <2>2, Zenon
<1> QED
  BY <1>3, <1>4, <1>20, <1>21, <1>22, Zenon DEF Flow

(* More has been sent. *)
LEMMA FlowTop ==
  ASSUME NEW S, NEW P \in Nat \ {0}, NEW size \in Nat, NEW w, NEW r,
         NEW ord, NEW f \in Nat, NEW top \in Nat, NEW blobs, NEW b, NEW h, NEW o,
         Flow(S, P, size, w, r, ord, f, top, blobs, b, h, o), NEW top2 \in Nat, top <= top2
  PROVE  Flow(S, P, size, w, r, ord, f, top2, blobs, b, h, o)
<1>1. PICK T \in Seq(S), Q \in Nat, N \in Seq(Nat), K \in Nat, M \in Seq(Nat) :
        Pipe(P, w, r, ord, f, top, blobs, b, h, o, T, Q, N, K, M)
  BY DEF Flow
<1>2. Moments(ord, f, top2, P, Q, N, M)
  <2>1. Moments(ord, f, top, P, Q, N, M)
    BY <1>1 DEF Pipe
  <2>2. Within(N, f, top2) /\ Within(M, f, top2)
    <3>1. N \in Seq(Nat) /\ M \in Seq(Nat) /\ f <= f
      BY <1>1
    <3> QED
      BY <2>1, <3>1, WithinWiden DEF Moments
  <2> QED
    BY <2>1, <2>2 DEF Moments
<1>3. Pipe(P, w, r, ord, f, top2, blobs, b, h, o, T, Q, N, K, M)
  BY <1>1, <1>2, Zenon DEF Pipe
<1> QED
  BY <1>1, <1>3 DEF Flow

(* A helper without a full block has room for a message more. *)
LEMMA HelperFits ==
  ASSUME NEW a \in Nat \ {0}, NEW K \in Nat, NEW t \in Nat, NEW z \in Nat, z = t * a, K * a < z
  PROVE  K * a + a <= z
<1>1. CASE K < t
  BY <1>1, NextMultiple
<1>2. CASE ~(K < t)
  <2>1. (K - t) * a >= 0
    BY <1>2
  <2>2. K * a = (K - t) * a + t * a
    OBVIOUS
  <2> QED
    BY <2>1, <2>2
<1> QED
  BY <1>1, <1>2

(* With the same period the blobs are written as they are. *)
LEMMA BeginsDirect ==
  ASSUME NEW P \in Nat \ {0}, NEW size, NEW h, NEW h2, NEW o2, NEW ps,
         ConvBegins(P, size, h, h2, o2, ps, P)
  PROVE  h2 = h /\ o2 = [at |-> "write", pieces |-> ps, ports |-> Len(ps), remote |-> P]
<1>1. ~(P > P) /\ ~(P < P)
  OBVIOUS
<1> QED
  BY <1>1, Zenon DEF ConvBegins

(* A message of this program's period comes in. *)
LEMMA BeginDirect ==
  ASSUME NEW S, NEW P \in Nat \ {0}, NEW size \in Nat, NEW w \in Nat \ {0}, NEW r \in Nat \ {0},
         NEW ord, NEW f \in Nat, NEW top \in Nat, NEW blobs \in Seq(Seq(S)),
         NEW b, NEW h, NEW o, Flow(S, P, size, w, r, ord, f, top, blobs, b, h, o),
         o.at = "idle", f <= top, NEW top2 \in Nat, top <= top2,
         NEW ps \in Seq(Seq(S)), NEW B \in Seq(Nat), Voices(ps, w, P, B),
         Increasing(B), Within(B, top, top2), ord => r = P,
         HasRoomFor(size, b, P * w), NEW h2, NEW o2, ConvBegins(P, size, h, h2, o2, ps, P)
  PROVE  Flow(S, P, size, w, r, ord, f, top2, blobs, b, h2, o2)
<1>1. ConvOK(S, P, size, w, b, h, o) /\ FlowSize(P, size, w, r, b, o)
  BY DEF Flow
<1>2. PICK T \in Seq(S), Q \in Nat, N \in Seq(Nat), K \in Nat, M \in Seq(Nat) :
        Pipe(P, w, r, ord, f, top, blobs, b, h, o, T, Q, N, K, M)
  BY DEF Flow
<1>3. Len(ps) = w /\ Len(B) = P /\ \A i \in 1 .. Len(ps) : Len(ps[i]) = P
  BY DEF Voices
<1>4. ConvOK(S, P, size, w, b, h2, o2)
  <2>1. Len(ps) \in 1 .. w
    BY <1>3
  <2>2. HasRoomFor(size, b, P * Len(ps))
    BY <1>3, Zenon
  <2>3. P \in Nat \ {0} /\ size \in Nat /\ w \in Nat /\ ps \in Seq(Seq(S)) /\ o.at = "idle"
    OBVIOUS
  <2> QED
    BY <1>1, <1>3, <2>1, <2>2, <2>3, BeginOK
<1>5. h2 = h /\ o2.at = "write" /\ o2.pieces = ps
  <2>1. h2 = h /\ o2 = [at |-> "write", pieces |-> ps, ports |-> Len(ps), remote |-> P]
    BY BeginsDirect
  <2> QED
    BY <2>1
<1>6. b \in Seq(S) /\ h \in Seq(S) /\ PieceLen(P, o) \in Nat /\ o.pieces = <<>>
  BY <1>1, FlowTypes
<1>7. PieceLen(P, o2) = P
  BY <1>5 DEF PieceLen
<1>8. FlowSize(P, size, w, r, b, o2)
  <2>1. PICK e \in Nat, z \in Nat : e = Len(b) /\ z = P * w /\ z = w * P
    <3>1. P * w \in Nat /\ P * w = w * P
      OBVIOUS
    <3>2. Len(b) \in Nat
      BY <1>6
    <3> QED
      BY <3>1, <3>2
  <2>2. size - e >= z
    BY <2>1, Zenon DEF HasRoomFor
  <2>3. e + z <= size
    BY <2>1, <2>2
  <2>4. o2.at # "join"
    BY <1>5
  <2> QED
    BY <1>3, <1>5, <1>7, <2>1, <2>3, <2>4, Zenon DEF FlowSize
<1>9. PICK U \in Seq(S) : U = FlattenSeq(ps) /\ IsFlat(U, ps, P) /\ Block(U, w, P, B)
  <2>1. FlattenSeq(ps) \in Seq(S) /\ Block(FlattenSeq(ps), w, P, B)
    BY VoicesFlat
  <2>2. P \in Nat
    OBVIOUS
  <2>3. IsFlat(FlattenSeq(ps), ps, P)
    BY <1>3, <2>2, FlatPieces
  <2> QED
    BY <2>1, <2>3
<1>10. /\ Grid(T, Q, w, P, N) /\ Grid(h, K, w, r, M) /\ Moments(ord, f, top, P, Q, N, M)
       /\ Taken(T, blobs, P) /\ Placed(T, Len(blobs) * P, b, <<>>, PieceLen(P, o))
       /\ K # 0 => r < P
  BY <1>2, <1>6 DEF Pipe
<1>11. T \in Seq(S) /\ Q \in Nat /\ N \in Seq(Nat) /\ K \in Nat /\ M \in Seq(Nat)
  BY <1>2
<1>12. ord => M = <<>>
  <2> SUFFICES ASSUME ord
               PROVE  M = <<>>
    OBVIOUS
  <2>1. K = 0
    BY <1>10
  <2>2. Len(M) = 0 * r /\ 0 * r = 0
    BY <1>10, <2>1 DEF Grid
  <2>3. Len(M) = 0
    BY <2>2, Zenon
  <2> QED
    BY <1>11, <2>3
<1>13. Moments(ord, f, top2, P, Q + 1, N \o B, M)
  BY <1>3, <1>10, <1>11, <1>12, MomentsDirect
<1>14. Grid(T \o U, Q + 1, w, P, N \o B)
  BY <1>9, <1>10, <1>11, GridAdd
<1>15. PICK x \in Nat : x = Len(blobs) * P
  OBVIOUS
<1>16. Placed(T, x, b, <<>>, PieceLen(P, o))
  BY <1>10, <1>15, Zenon
<1>17. Taken(T \o U, blobs, P)
  <2>1. x <= Len(T)
    <3>1. Len(b) \in Nat
      BY <1>6
    <3>2. Len(T) = x + Len(b) + Len(<<>>) * PieceLen(P, o)
      BY <1>16 DEF Placed
    <3>3. x <= x + Len(b) + Len(<<>>) * PieceLen(P, o)
      BY <1>6, <1>15, <3>1, NoneAdded
    <3> QED
      BY <3>2, <3>3, Zenon
  <2>2. P \in Nat /\ Len(blobs) * P <= Len(T)
    BY <1>15, <2>1
  <2> QED
    BY <1>9, <1>10, <1>11, <2>2, TakenAdd
<1>18. Placed(T \o U, x, b, ps, P)
  <2>1. P \in Nat
    OBVIOUS
  <2> QED
    BY <1>3, <1>6, <1>9, <1>11, <1>15, <1>16, <2>1, PlacedAdd
<1>19. Pipe(P, w, r, ord, f, top2, blobs, b, h2, o2, T \o U, Q + 1, N \o B, K, M)
  BY <1>5, <1>7, <1>10, <1>13, <1>14, <1>15, <1>17, <1>18, Zenon DEF Pipe
<1>20. T \o U \in Seq(S) /\ N \o B \in Seq(Nat)
  BY <1>9, <1>11, Concat
<1>21. Q + 1 \in Nat
  BY <1>11
<1> QED
  BY <1>4, <1>8, <1>11, <1>19, <1>20, <1>21, Zenon DEF Flow

(* A message of a shorter period comes in. *)
LEMMA BeginHelper ==
  ASSUME NEW S, NEW P \in Nat \ {0}, NEW size \in Nat, NEW w \in Nat \ {0}, NEW r \in Nat \ {0},
         NEW t \in Nat \ {0}, Times(P, t, r), r < P,
         NEW ord, NEW f \in Nat, NEW top \in Nat, NEW blobs \in Seq(Seq(S)),
         NEW b, NEW h, NEW o, Flow(S, P, size, w, r, ord, f, top, blobs, b, h, o),
         o.at = "idle", f <= top, NEW top2 \in Nat, top <= top2,
         NEW ps \in Seq(Seq(S)), NEW B \in Seq(Nat), Voices(ps, w, r, B),
         Increasing(B), Within(B, top, top2),
         HasRoomFor(size, b, P * w), NEW h2, NEW o2, ConvBegins(P, size, h, h2, o2, ps, r)
  PROVE  Flow(S, P, size, w, r, ord, f, top2, blobs, b, h2, o2)
<1>1. ConvOK(S, P, size, w, b, h, o) /\ FlowSize(P, size, w, r, b, o)
  BY DEF Flow
<1>2. PICK T \in Seq(S), Q \in Nat, N \in Seq(Nat), K \in Nat, M \in Seq(Nat) :
        Pipe(P, w, r, ord, f, top, blobs, b, h, o, T, Q, N, K, M)
  BY DEF Flow
<1>3. Len(ps) = w /\ Len(B) = r /\ \A i \in 1 .. Len(ps) : Len(ps[i]) = r
  BY DEF Voices
<1>4. ConvOK(S, P, size, w, b, h2, o2)
  <2>1. Len(ps) \in 1 .. w
    BY <1>3
  <2>2. HasRoomFor(size, b, P * Len(ps))
    BY <1>3, Zenon
  <2>3. P \in Nat \ {0} /\ size \in Nat /\ w \in Nat /\ ps \in Seq(Seq(S)) /\ o.at = "idle"
    OBVIOUS
  <2> QED
    BY <1>1, <1>3, <2>1, <2>2, <2>3, BeginOK
<1>5. /\ h2 = Put(size, h, FlattenSeq(ps))
      /\ o2.at = "join" /\ o2.pieces = <<>> /\ o2.remote = r /\ o2.ports = w
  <2>1. ~(P = r) /\ ~(P < r)
    OBVIOUS
  <2>2. /\ h2 = Put(size, h, FlattenSeq(ps))
        /\ o2 = [at |-> "join", pieces |-> <<>>, ports |-> Len(ps), remote |-> r]
    BY <2>1, Zenon DEF ConvBegins
  <2> QED
    BY <1>3, <2>2
<1>6. b \in Seq(S) /\ h \in Seq(S) /\ PieceLen(P, o) \in Nat /\ o.pieces = <<>> /\ Len(b) <= size
  BY <1>1, FlowTypes
<1>7. PieceLen(P, o2) = r
  BY <1>5 DEF PieceLen
<1>8. FlowSize(P, size, w, r, b, o2)
  <2>1. Len(<<>>) * r = 0
    OBVIOUS
  <2>2. Len(b) + 0 <= size
    BY <1>6
  <2>3. Len(o2.pieces) * PieceLen(P, o2) = 0
    BY <1>5, <1>7, <2>1
  <2>4. Len(b) + Len(o2.pieces) * PieceLen(P, o2) <= size
    BY <2>2, <2>3, Zenon
  <2> QED
    BY <1>5, <2>4, Zenon DEF FlowSize
<1>9. PICK U \in Seq(S) : U = FlattenSeq(ps) /\ Block(U, w, r, B)
  BY VoicesFlat
<1>10. /\ Grid(T, Q, w, P, N) /\ Grid(h, K, w, r, M) /\ Moments(ord, f, top, P, Q, N, M)
       /\ Taken(T, blobs, P) /\ Placed(T, Len(blobs) * P, b, <<>>, PieceLen(P, o))
  BY <1>2, <1>6 DEF Pipe
<1>11. T \in Seq(S) /\ Q \in Nat /\ N \in Seq(Nat) /\ K \in Nat /\ M \in Seq(Nat)
  BY <1>2
<1>12. PICK a \in Nat \ {0}, z \in Nat : a = w * r /\ z = P * w /\ z = t * a
  <2>1. w * r \in Nat \ {0} /\ P * w \in Nat
    OBVIOUS
  <2>2. (t * r) * w = t * (w * r)
    OBVIOUS
  <2>3. P * w = t * (w * r)
    BY <2>2, Zenon DEF Times
  <2> QED
    BY <2>1, <2>3
<1>13. h2 = h \o U
  <2>1. Len(h) < z
    <3>1. ~(Len(h) >= P * w)
      <4>1. o.at # "join"
        OBVIOUS
      <4> QED
        BY <1>1, <4>1 DEF ConvOK, Drained
    <3>2. Len(h) \in Nat
      BY <1>6
    <3> QED
      BY <1>12, <3>1, <3>2
  <2>2. Len(h) = K * a
    BY <1>10, <1>12, Zenon DEF Grid
  <2>3. K * a + a <= z
    <3>1. K * a < z
      BY <2>1, <2>2, Zenon
    <3>2. t \in Nat /\ K \in Nat
      BY <1>11
    <3> QED
      BY <1>12, <3>1, <3>2, HelperFits
  <2>4. Len(U) = a
    BY <1>9, <1>12, Zenon DEF Block
  <2>5. Len(h) + Len(U) <= z
    BY <2>2, <2>3, <2>4, Zenon
  <2>6. z <= size
    <3>1. size - Len(b) >= z
      BY <1>12, Zenon DEF HasRoomFor
    <3>2. Len(b) \in Nat
      BY <1>6
    <3> QED
      BY <1>12, <3>1, <3>2
  <2>7. Len(h) + Len(U) <= size
    <3>1. Len(h) \in Nat /\ Len(U) \in Nat
      <4>1. h \in Seq(S) /\ U \in Seq(S)
        BY <1>6, <1>9
      <4> QED
        BY <4>1
    <3>2. Len(h) + Len(U) \in Nat
      BY <3>1
    <3>3. z \in Nat
      BY <1>12
    <3> QED
      BY <2>5, <2>6, <3>2, <3>3, AtMost, Zenon
  <2>8. Put(size, h, U) = h \o U
    <3>1. h \in Seq(S) /\ U \in Seq(S)
      BY <1>6, <1>9
    <3>2. size \in Nat
      OBVIOUS
    <3>3. Fits(S, size, h, U)
      BY <2>7, <3>1, <3>2, Zenon DEF Fits
    <3> QED
      BY <3>3, PutAllFits
  <2> QED
    BY <1>5, <1>9, <2>8, Zenon
<1>14. Grid(h2, K + 1, w, r, M \o B)
  BY <1>6, <1>9, <1>10, <1>11, <1>13, GridAdd
<1>15. Moments(ord, f, top2, P, Q, N, M \o B)
  BY <1>10, <1>11, MomentsHelper
<1>16. Placed(T, Len(blobs) * P, b, <<>>, r)
  <2>1. Len(<<>>) * PieceLen(P, o) = Len(<<>>) * r
    BY <1>6
  <2>2. 1 .. Len(<<>>) = {}
    OBVIOUS
  <2> QED
    BY <1>10, <2>1, <2>2 DEF Placed
<1>17. Pipe(P, w, r, ord, f, top2, blobs, b, h2, o2, T, Q, N, K + 1, M \o B)
  BY <1>5, <1>7, <1>10, <1>14, <1>15, <1>16, Zenon DEF Pipe
<1>18. M \o B \in Seq(Nat)
  BY <1>11, Concat
<1>19. K + 1 \in Nat
  BY <1>11
<1> QED
  BY <1>4, <1>8, <1>11, <1>17, <1>18, <1>19, Zenon DEF Flow

(* What holds as a message is taken whose blobs ps are of the moments B.   *)
Beginning(S, P, size, w, r, ord, f, top, blobs, b, h, o, top2, ps, B, rr, h2, o2) ==
  /\ Flow(S, P, size, w, r, ord, f, top, blobs, b, h, o)
  /\ o.at = "idle" /\ f <= top /\ top2 \in Nat /\ top <= top2
  /\ ps \in Seq(Seq(S)) /\ B \in Seq(Nat) /\ rr \in {r, P}
  /\ Voices(ps, w, rr, B) /\ Increasing(B) /\ Within(B, top, top2)
  /\ ord => rr = r
  /\ HasRoomFor(size, b, P * w) /\ ConvBegins(P, size, h, h2, o2, ps, rr)

(* A message of either period comes in. *)
LEMMA FlowBegin ==
  ASSUME NEW S, NEW P \in Nat \ {0}, NEW size \in Nat, NEW w \in Nat \ {0}, NEW r \in Nat \ {0},
         NEW t \in Nat \ {0}, Times(P, t, r),
         NEW ord, NEW f \in Nat, NEW top \in Nat, NEW blobs \in Seq(Seq(S)),
         NEW b, NEW h, NEW o, NEW top2, NEW ps, NEW B, NEW rr, NEW h2, NEW o2,
         Beginning(S, P, size, w, r, ord, f, top, blobs, b, h, o, top2, ps, B, rr, h2, o2)
  PROVE  Flow(S, P, size, w, r, ord, f, top2, blobs, b, h2, o2)
<1>1. CASE rr = P
  <2>1. ord => r = P
    BY <1>1 DEF Beginning
  <2> QED
    BY <1>1, <2>1, BeginDirect DEF Beginning
<1>2. CASE rr # P
  <2>1. r < P /\ rr = r
    <3>1. PICK y \in Nat : y = (t - 1) * r /\ t * r = y + r
      <4>1. (t - 1) * r \in Nat /\ t * r = (t - 1) * r + r
        OBVIOUS
      <4> QED
        BY <4>1
    <3>2. P = y + r
      BY <3>1, Zenon DEF Times
    <3> QED
      BY <1>2, <3>1, <3>2 DEF Beginning
  <2> QED
    BY <2>1, BeginHelper DEF Beginning
<1> QED
  BY <1>1, <1>2 DEF Beginning

--------------------------------------------------------------------------------

(* Every step of audio_post_send keeps the flow.                             *)

(* A sender that is accepted has r samples in a period, or as many as this *)
(* program; if order is to be kept, all of them have r.                    *)
SendersHave(r, ord) ==
  \A s \in Senders : s.compatible => s.period \in {r, ForwardPeriod} /\ (ord => s.period = r)

SourceInv == source.number \in Nat \ {0} /\ (source.accepted => source.is.compatible)

Fresh == /\ ~post.process_enabled /\ main = IdleMain
         /\ osc = Convert!Idle /\ rb = <<>> /\ rb_helper = <<>>

(* Enough is there for what the main thread has still to read.             *)
ToRead == main.at = "read" =>
            /\ Len(main.blobs) <= post.port_count
            /\ (post.port_count - Len(main.blobs)) * ForwardPeriod <= Len(rb)

PostFlow(r, ord, f) ==
  /\ SourceInv /\ post.message_number \in Nat /\ f <= count.sent
  /\ ~count.mixed =>
       /\ post.message_number = 0 => Fresh
       /\ post.message_number # 0 =>
            /\ post.port_count \in Nat \ {0} /\ ToRead
            /\ Flow(Sample, ForwardPeriod, BufferSize, post.port_count, r, ord, f, count.sent,
                    main.blobs, rb, rb_helper, osc)

(* What audio_handler does to the numbers of messages and channels. *)
LEMMA HandlerMore ==
  ASSUME PostInv, audio_handler
  PROVE  /\ post'.message_number = source.number
         /\ Used = 0 => count'.mixed
         /\ ~count'.mixed => ~count.mixed /\ (post.message_number > 0 => Used = post.port_count)
<1>3. DOMAIN post = PostFields /\ DOMAIN count = {"sent", "taken", "failed", "mixed"}
      /\ Used \in 0 .. OutputPorts
  BY HandlerStep DEF PostInv, PostOK, CountOK
<1>4. CASE Used < 1
  <2>1. /\ post' = [[post EXCEPT !.message_number = source.number, !.port_count = Used]
                      EXCEPT !.shutdown_in_progress = TRUE]
        /\ count' = [[count EXCEPT !.sent = @ + source.is.period,
                                   !.mixed = @ \/ (post.message_number > 0 /\ Used # post.port_count)]
                      EXCEPT !.mixed = TRUE]
    BY <1>4 DEF audio_handler, Used
  <2>2. count'.mixed
    BY <1>3, <2>1
  <2>3. post'.message_number = source.number
    BY <1>3, <2>1 DEF PostFields
  <2> QED
    BY <2>2, <2>3
<1>5. CASE ~(Used < 1)
  <2> DEFINE p == [post EXCEPT !.message_number = source.number, !.port_count = Used]
             sent == [count EXCEPT !.sent = @ + source.is.period,
                        !.mixed = @ \/ (post.message_number > 0 /\ Used # post.port_count)]
             again == [p EXCEPT !.sender_host = TRUE, !.remote_sample_rate = source.is.rate,
                                !.remote_period_size = source.is.period]
  <2>1. PICK q : /\ q = p \/ q = again
                 /\ post' = [q EXCEPT !.process_enabled = TRUE]
                 /\ count' = sent \/ count' = [sent EXCEPT !.taken = @ + source.is.period]
    BY <1>5 DEF audio_handler, Used
  <2>2. DOMAIN q = PostFields /\ q.message_number = source.number
    <3>1. CASE q = p
      BY <1>3, <3>1 DEF PostFields
    <3>2. CASE q = again
      BY <1>3, <3>2 DEF PostFields
    <3> QED
      BY <2>1, <3>1, <3>2
  <2>3. post'.message_number = source.number
    BY <2>1, <2>2 DEF PostFields
  <2>4. DOMAIN sent = DOMAIN count
        /\ sent.mixed = (count.mixed \/ (post.message_number > 0 /\ Used # post.port_count))
    BY <1>3
  <2>5. count'.mixed = sent.mixed
    <3> HIDE DEF sent
    <3> QED
      BY <1>3, <2>1, <2>4
  <2>6. Used # 0
    BY <1>5
  <2> QED
    BY <2>3, <2>4, <2>5, <2>6
<1> QED
  BY <1>3, <1>4, <1>5

(* The blobs of a message are the next moments of every channel. *)
LEMMA BlobsVoices ==
  ASSUME NEW w \in 1 .. OutputPorts, NEW p \in Nat \ {0}, p = source.is.period,
         NEW c \in Nat, c = count.sent, c + p <= MaxFrames
  PROVE  \E B \in Seq(Nat) : /\ Voices(Blobs(w), w, p, B) /\ Increasing(B)
                             /\ Within(B, c, c + p)
<1>1. PICK B : B = [n \in 1 .. p |-> c + n]
  OBVIOUS
<1>2. B \in [1 .. p -> Nat]
  BY <1>1
<1>3. B \in Seq(Nat) /\ Len(B) = p
  BY <1>2
<1>4. \A n \in 1 .. p : B[n] = c + n
  BY <1>1
<1>5. Increasing(B) /\ Within(B, c, c + p)
  BY <1>3, <1>4 DEF Increasing, Within
<1>6. Blobs(w) = [i \in 1 .. w |-> [n \in 1 .. p |-> [channel |-> i, number |-> c + n]]]
  BY DEF Blobs
<1>7. Len(Blobs(w)) = w
  BY <1>6
<1>8. \A i \in 1 .. w : Blobs(w)[i] = [n \in 1 .. p |-> [channel |-> i, number |-> c + n]]
  BY <1>6
<1>9. ASSUME NEW i \in 1 .. w
      PROVE  /\ Len(Blobs(w)[i]) = p
             /\ \A n \in 1 .. p : Blobs(w)[i][n] = [channel |-> i, number |-> B[n]]
  <2>1. PICK v : v = Blobs(w)[i] /\ v = [n \in 1 .. p |-> [channel |-> i, number |-> c + n]]
    BY <1>8
  <2>2. Len(v) = p
    BY <2>1
  <2>3. \A n \in 1 .. p : v[n] = [channel |-> i, number |-> c + n]
    BY <2>1
  <2> QED
    BY <1>4, <2>1, <2>2, <2>3
<1>10. Voices(Blobs(w), w, p, B)
  BY <1>3, <1>7, <1>9 DEF Voices
<1> QED
  BY <1>3, <1>5, <1>10

(* A message comes in, or is dropped as a whole. *)
LEMMA FlowHandler ==
  ASSUME NEW r \in Nat \ {0}, NEW t \in Nat \ {0}, Times(ForwardPeriod, t, r),
         NEW ord, NEW f \in Nat, SendersHave(r, ord),
         PostInv, PostFlow(r, ord, f), audio_handler
  PROVE  PostFlow(r, ord, f)'
<1>1. PICK u \in 0 .. OutputPorts, p \in Nat \ {0} :
        /\ osc.at = "idle" /\ source.accepted /\ p = source.is.period
        /\ count.sent + p <= MaxFrames /\ u = Used
        /\ source' = [source EXCEPT !.number = @ + 1]
        /\ UNCHANGED <<rb, main>>
        /\ post'.port_count = u
        /\ count'.sent = count.sent + p
        /\ \/ UNCHANGED <<rb_helper, osc>>
           \/ /\ u # 0 /\ BufferSize - Len(rb) >= ForwardPeriod * u
              /\ Convert!Begins(Blobs(u), p)
  <2>1. source.is \in Senders
    BY DEF PostInv, SourceOK
  <2>2. source.is.period \in Nat \ {0}
    BY <2>1, Constants
  <2> QED
    BY <2>2, HandlerStep, Zenon
<1>2. PICK c \in Nat : c = count.sent /\ f <= c
  BY Constants DEF PostInv, CountOK, PostFlow
<1>3. SourceInv' /\ post'.message_number \in Nat \ {0} /\ f <= count'.sent
  <2>1. SourceInv /\ source \in [is : Senders, number : Nat, accepted : BOOLEAN]
    BY DEF PostFlow, PostInv, SourceOK
  <2>2. post'.message_number = source.number
    BY HandlerMore
  <2>3. SourceInv' /\ post'.message_number \in Nat \ {0}
    BY <1>1, <2>1, <2>2 DEF SourceInv
  <2> QED
    BY <1>1, <1>2, <2>3
<1>4. ASSUME ~count'.mixed
      PROVE  /\ u \in 1 .. OutputPorts /\ ToRead'
             /\ Flow(Sample, ForwardPeriod, BufferSize, u, r, ord, f, c + p,
                     main.blobs, rb, rb_helper', osc')
  <2>1. /\ u \in 1 .. OutputPorts /\ ~count.mixed
        /\ post.message_number > 0 => u = post.port_count
    BY <1>1, <1>4, HandlerMore
  <2>2. ForwardPeriod \in Nat \ {0} /\ BufferSize \in Nat /\ u \in Nat \ {0}
    BY <2>1, Constants
  <2>3. ToRead' /\ Flow(Sample, ForwardPeriod, BufferSize, u, r, ord, f, c, main.blobs, rb,
                        rb_helper, osc)
    <3>1. CASE post.message_number = 0
      <4>1. Fresh
        BY <2>1, <3>1 DEF PostFlow
      <4>2. ToRead'
        BY <1>1, <4>1 DEF Fresh, ToRead, IdleMain
      <4>3. Flow(Sample, ForwardPeriod, BufferSize, u, r, ord, f, c, <<>>, <<>>, <<>>, osc)
        BY <1>2, <2>2, <4>1, EmptyFlow DEF Fresh, Convert!Idle
      <4> QED
        BY <4>1, <4>2, <4>3 DEF Fresh, IdleMain
    <3>2. CASE post.message_number # 0
      <4>1. post.message_number > 0
        BY <3>2 DEF PostFlow
      <4>2. u = post.port_count
        BY <2>1, <4>1
      <4>3. ToRead /\ Flow(Sample, ForwardPeriod, BufferSize, u, r, ord, f, c, main.blobs, rb,
                        rb_helper, osc)
        BY <1>2, <2>1, <3>2, <4>2 DEF PostFlow
      <4>4. ToRead'
        BY <1>1, <4>2, <4>3 DEF ToRead
      <4> QED
        BY <4>3, <4>4
    <3> QED
      BY <3>1, <3>2
  <2>4. main.blobs \in Seq(Seq(Sample))
    BY RecordFrom DEF BlobList
  <2>5. c + p \in Nat /\ c <= c + p
    BY <1>1, <1>2
  <2>6. CASE UNCHANGED <<rb_helper, osc>>
    <3>1. Flow(Sample, ForwardPeriod, BufferSize, u, r, ord, f, c + p, main.blobs, rb,
               rb_helper, osc)
      BY <1>2, <2>2, <2>3, <2>4, <2>5, FlowTop
    <3> QED
      BY <2>1, <2>3, <2>6, <3>1
  <2>7. CASE /\ u # 0 /\ BufferSize - Len(rb) >= ForwardPeriod * u
             /\ Convert!Begins(Blobs(u), p)
    <3>1. ConvBegins(ForwardPeriod, BufferSize, rb_helper, rb_helper', osc', Blobs(u), p)
      BY <2>7, PostConvertBegins
    <3>2. PICK ps \in Seq(Seq(Sample)) : ps = Blobs(u)
      <4>1. source.is.period \in Nat \ {0} /\ count.sent \in Nat
            /\ count.sent + source.is.period <= MaxFrames
        BY <1>1, <1>2
      <4>2. Blobs(u) \in Seq(Seq(Sample))
        BY <2>1, <4>1, BlobsTyped
      <4> QED
        BY <4>2
    <3>3. PICK B \in Seq(Nat) : Voices(ps, u, p, B) /\ Increasing(B) /\ Within(B, c, c + p)
      <4>1. c + p <= MaxFrames
        BY <1>1, <1>2
      <4>2. \E B \in Seq(Nat) : /\ Voices(Blobs(u), u, p, B) /\ Increasing(B)
                                /\ Within(B, c, c + p)
        BY <1>1, <1>2, <2>1, <4>1, BlobsVoices
      <4> QED
        BY <3>2, <4>2
    <3>4. p \in {r, ForwardPeriod} /\ (ord => p = r)
      <4>1. source.is \in Senders /\ source.is.compatible
        BY <1>1 DEF PostFlow, SourceInv, PostInv, SourceOK
      <4> QED
        BY <1>1, <4>1 DEF SendersHave
    <3>5. Flow(Sample, ForwardPeriod, BufferSize, u, r, ord, f, c + p,
                     main.blobs, rb, rb_helper', osc')
      <4>1. ConvBegins(ForwardPeriod, BufferSize, rb_helper, rb_helper', osc', ps, p)
        BY <3>1, <3>2
      <4>2. osc.at = "idle" /\ BufferSize - Len(rb) >= ForwardPeriod * u
        BY <1>1, <2>7
      <4>3. PICK v \in Nat : v = c + p
        BY <2>5
      <4>4. c \in Nat /\ f <= c /\ c <= v
        BY <1>2, <2>5, <4>3
      <4>5. /\ Flow(Sample, ForwardPeriod, BufferSize, u, r, ord, f, c, main.blobs, rb,
                    rb_helper, osc)
            /\ Voices(ps, u, p, B) /\ Increasing(B) /\ Within(B, c, v)
        BY <2>3, <3>3, <4>3
      <4>6. ps \in Seq(Seq(Sample)) /\ B \in Seq(Nat) /\ v \in Nat
        BY <3>2, <3>3, <4>3
      <4>7. Flow(Sample, ForwardPeriod, BufferSize, u, r, ord, f, v,
                 main.blobs, rb, rb_helper', osc')
        <5>1. Beginning(Sample, ForwardPeriod, BufferSize, u, r, ord, f, c, main.blobs, rb,
                        rb_helper, osc, v, ps, B, p, rb_helper', osc')
          BY <3>4, <4>1, <4>2, <4>4, <4>5, <4>6, Zenon DEF Beginning, HasRoomFor
        <5> QED
          BY <2>2, <2>4, <4>4, <5>1, FlowBegin
      <4> QED
        BY <4>3, <4>7
    <3> QED
      BY <2>1, <2>3, <3>5
  <2> QED
    BY <1>1, <2>6, <2>7
<1> QED
  BY <1>1, <1>2, <1>3, <1>4 DEF PostFlow

(* An offer changes nothing of what waits. *)
LEMMA FlowOffer ==
  ASSUME NEW r, NEW ord, NEW f, PostInv, PostFlow(r, ord, f), offer_handler
  PROVE  PostFlow(r, ord, f)'
<1>1. /\ UNCHANGED <<rb, rb_helper, osc, main, count>>
      /\ source' = [source EXCEPT !.accepted = source.is.compatible]
      /\ post' = IF source.is.compatible
                 THEN [post EXCEPT !.sample_rate = source.is.rate,
                                   !.remote_sample_rate = source.is.rate,
                                   !.remote_period_size = source.is.period, !.sender_host = TRUE]
                 ELSE [post EXCEPT !.sample_rate = source.is.rate]
      /\ DOMAIN post = PostFields
  BY DEF PostInv, PostOK, offer_handler, convert_vars
<1>2. /\ post'.message_number = post.message_number /\ post'.port_count = post.port_count
      /\ post'.process_enabled = post.process_enabled
  BY <1>1 DEF PostFields
<1>3. SourceInv'
  <2>1. SourceInv /\ source \in [is : Senders, number : Nat, accepted : BOOLEAN]
    BY DEF PostFlow, PostInv, SourceOK
  <2> QED
    BY <1>1, <2>1 DEF SourceInv
<1> QED
  BY <1>1, <1>2, <1>3 DEF PostFlow, Fresh, ToRead

(* process() goes on only if there is enough for all ports. *)
LEMMA ProcessToRead ==
  ASSUME PostInv, ProcessBegins \/ ProcessLoops, post.port_count \in Nat \ {0}
  PROVE  ToRead'
<1>6. /\ UNCHANGED <<post, rb>> /\ main.blobs = <<>>
      /\ \/ main' = [main EXCEPT !.at = "loop"]
         \/ main' = [main EXCEPT !.at = "poll"]
         \/ main' = [main EXCEPT !.at = "read"] /\ PeriodIsThere
  BY DEF ProcessBegins, ProcessLoops, PostInv, MainOK, convert_vars
<1>7. main'.blobs = main.blobs /\ (main'.at = "read" => PeriodIsThere)
  BY <1>6, RecordFrom
<1> SUFFICES ASSUME main'.at = "read"
             PROVE  ToRead'
  BY DEF ToRead
<1>1. PeriodIsThere /\ rb' = rb /\ post' = post /\ main'.blobs = <<>>
  BY <1>6, <1>7
<1>2. Len(main'.blobs) = 0
  BY <1>1
<1>3. PICK n \in Nat \ {0} : n = post.port_count
  OBVIOUS
<1>4. 0 <= n /\ n - 0 = n
  OBVIOUS
<1>5. n * ForwardPeriod <= Len(rb)
  <2>1. Len(rb) \in Nat /\ n * ForwardPeriod \in Nat
    BY RecordFrom, Constants
  <2> QED
    BY <1>1, <1>3, <2>1 DEF PeriodIsThere
<1> QED
  BY <1>1, <1>2, <1>3, <1>4, <1>5 DEF ToRead

(* process() is entered, or goes round its loop. *)
LEMMA FlowProcess ==
  ASSUME NEW r, NEW ord, NEW f, PostInv, PostFlow(r, ord, f), ProcessBegins \/ ProcessLoops
  PROVE  PostFlow(r, ord, f)'
<1>1. /\ UNCHANGED <<source, post, rb, rb_helper, osc, count>>
      /\ main.blobs = <<>>
      /\ \/ main' = [main EXCEPT !.at = "loop"] /\ (post.process_enabled \/ main.at = "loop")
         \/ main' = [main EXCEPT !.at = "poll"] /\ main.at = "loop"
         \/ main' = [main EXCEPT !.at = "read"] /\ main.at = "loop" /\ PeriodIsThere
  BY DEF ProcessBegins, ProcessLoops, PostInv, MainOK, convert_vars
<1>2. main'.blobs = main.blobs /\ (main'.at = "read" => PeriodIsThere)
  BY <1>1, RecordFrom
<1>3. Fresh => ~(post.process_enabled \/ main.at = "loop")
  BY DEF Fresh, IdleMain
<1>4. Fresh => FALSE
  BY <1>1, <1>3
<1>5. post.port_count \in Nat \ {0} => ToRead'
  BY ProcessToRead
<1> QED
  BY <1>1, <1>2, <1>4, <1>5 DEF PostFlow, SourceInv

(* More can be read than before: there still is enough. *)
LEMMA GrowsToRead ==
  ASSUME post' = post, main' = main, post.port_count \in Nat, ToRead,
         main.blobs \in Seq(Seq(Sample)), rb \in Seq(Sample), rb' \in Seq(Sample),
         Len(rb) <= Len(rb') \/ rb' = rb
  PROVE  ToRead'
<1> SUFFICES ASSUME main.at = "read"
             PROVE  ToRead'
  BY DEF ToRead
<1>1. PICK z \in Int : z = (post.port_count - Len(main.blobs)) * ForwardPeriod
  <2>1. Len(main.blobs) \in Nat /\ ForwardPeriod \in Nat
    BY Constants
  <2>2. (post.port_count - Len(main.blobs)) * ForwardPeriod \in Int
    BY <2>1
  <2> QED
    BY <2>2
<1>2. PICK d \in Nat, e \in Nat : d = Len(rb) /\ e = Len(rb')
  OBVIOUS
<1>3. z <= d /\ d <= e
  <2>1. z <= d
    BY <1>1, <1>2, Zenon DEF ToRead
  <2>2. d <= e
    BY <1>2
  <2> QED
    BY <2>1, <2>2
<1>4. z <= e
  <2>1. z \in Int /\ d \in Nat /\ e \in Nat
    BY <1>1, <1>2
  <2> QED
    BY <1>3, <2>1
<1> QED
  BY <1>1, <1>2, <1>4, Zenon DEF ToRead

(* The steps of audio_handler after the first. *)
LEMMA FlowContinues ==
  ASSUME NEW r \in Nat \ {0}, NEW t \in Nat \ {0}, Times(ForwardPeriod, t, r),
         NEW ord, NEW f \in Nat, PostInv, PostFlow(r, ord, f), AudioContinues
  PROVE  PostFlow(r, ord, f)'
<1>1. UNCHANGED <<source, post, main, count>>
  BY DEF AudioContinues
<1>2. ASSUME ~count.mixed
      PROVE  post.message_number # 0
  <2>1. Fresh => FALSE
    <3> SUFFICES ASSUME Fresh
                 PROVE  FALSE
      OBVIOUS
    <3>1. osc.at = "idle" /\ osc.pieces = <<>>
      BY DEF Fresh, Convert!Idle
    <3> QED
      BY <3>1, PostConverts
         DEF AudioContinues, WritesPeriod, CollectsPeriod, HandlerReturns,
             ConvWrites, ConvJoins, ConvMayJoin, ConvReturns
  <2> QED
    BY <1>2, <2>1 DEF PostFlow
<1>3. ASSUME ~count.mixed
      PROVE  /\ Flow(Sample, ForwardPeriod, BufferSize, post.port_count, r, ord, f, count.sent,
                     main.blobs, rb', rb_helper', osc')
             /\ ToRead'
  <2>1. PICK w \in Nat \ {0}, c \in Nat :
          w = post.port_count /\ c = count.sent
    BY <1>2, <1>3 DEF PostFlow, PostInv, CountOK
  <2>2. Flow(Sample, ForwardPeriod, BufferSize, w, r, ord, f, c, main.blobs, rb, rb_helper, osc)
        /\ ToRead
    BY <1>2, <1>3, <2>1 DEF PostFlow
  <2>3. ForwardPeriod \in Nat \ {0} /\ BufferSize \in Nat /\ main.blobs \in Seq(Seq(Sample))
    BY Constants, RecordFrom DEF BlobList
  <2>4. /\ Flow(Sample, ForwardPeriod, BufferSize, w, r, ord, f, c, main.blobs,
                rb', rb_helper', osc')
        /\ Len(rb) <= Len(rb') \/ rb' = rb
    <3>1. CASE Convert!Writes
      <4>1. ConvWrites(BufferSize, rb, rb_helper, osc, rb', rb_helper', osc')
        BY <3>1, PostConverts
      <4> QED
        BY <2>1, <2>2, <2>3, <4>1, FlowWrite
    <3>2. CASE Convert!Joins
      <4>1. ConvJoins(ForwardPeriod, BufferSize, rb, rb_helper, osc, rb', rb_helper', osc')
        BY <3>2, PostConverts
      <4>2. Flow(Sample, ForwardPeriod, BufferSize, w, r, ord, f, c, main.blobs,
                 rb', rb_helper', osc')
        BY <2>1, <2>2, <2>3, <4>1, FlowJoin
      <4>3. rb' = rb
        BY <4>1 DEF ConvJoins
      <4> QED
        BY <4>2, <4>3
    <3>3. CASE Convert!Returns
      <4>1. ConvReturns(ForwardPeriod, BufferSize, rb, rb_helper, osc, rb', rb_helper', osc')
        BY <3>3, PostConverts
      <4>2. Flow(Sample, ForwardPeriod, BufferSize, w, r, ord, f, c, main.blobs,
                 rb', rb_helper', osc')
        BY <2>1, <2>2, <2>3, <4>1, FlowReturn
      <4>3. rb' = rb
        BY <4>1 DEF ConvReturns
      <4> QED
        BY <4>2, <4>3
    <3> QED
      BY <3>1, <3>2, <3>3
         DEF AudioContinues, WritesPeriod, CollectsPeriod, HandlerReturns
  <2>5. ToRead'
    <3>1. Len(rb) <= Len(rb') \/ rb' = rb
      BY <2>4
    <3>2. rb \in Seq(Sample) /\ rb' \in Seq(Sample)
      BY <2>2, <2>3, <2>4 DEF Flow, ConvOK, ConvType
    <3>3. post' = post /\ main' = main /\ post.port_count \in Nat
      BY <1>1, <2>1
    <3> QED
      BY <2>2, <2>3, <3>1, <3>2, <3>3, GrowsToRead
  <2> QED
    BY <2>1, <2>4, <2>5
<1> QED
  BY <1>1, <1>2, <1>3 DEF PostFlow, SourceInv

(* A blob is read whole, and enough is left for the other ports. *)
LEMMA ReadsToRead ==
  ASSUME PostInv, ProcessReads, post.port_count \in Nat \ {0}, ToRead
  PROVE  /\ ForwardPeriod <= Len(rb) /\ ToRead' /\ Membuf = SubSeq(rb, 1, ForwardPeriod)
<1>2. /\ main.at = "read" /\ Len(main.blobs) < post.port_count
      /\ main' = [main EXCEPT !.blobs = Append(main.blobs, Membuf)]
      /\ rb' = SubSeq(rb, ForwardPeriod + 1, Len(rb))
      /\ UNCHANGED <<source, post, rb_helper, osc, count>>
  BY DEF ProcessReads, Convert!Rest
<1>10. main'.blobs = Append(main.blobs, Membuf) /\ main'.at = "read"
  BY <1>2, RecordFrom
<1>1. PICK w \in Nat \ {0} : w = post.port_count
  OBVIOUS
<1>3. ForwardPeriod \in Nat \ {0} /\ main.blobs \in Seq(Seq(Sample)) /\ rb \in Seq(Sample)
  BY Constants, RecordFrom DEF BlobList
<1>4. PICK m \in Nat, k \in Nat : m = Len(main.blobs) /\ w = m + (k + 1) /\ w - m = k + 1
  <2>1. PICK m \in Nat : m = Len(main.blobs)
    BY <1>3
  <2>2. m < w
    BY <1>2, <1>1, <2>1
  <2>3. PICK k \in Nat : k = w - m - 1
    BY <1>1, <2>1, <2>2
  <2>4. w = m + (k + 1) /\ w - m = k + 1
    BY <1>1, <2>1, <2>3
  <2> QED
    BY <2>1, <2>3, <2>4
<1>5. PICK y \in Nat, d \in Nat : /\ y = k * ForwardPeriod /\ (k + 1) * ForwardPeriod = y + ForwardPeriod
                                  /\ d = Len(rb)
  <2>1. k * ForwardPeriod \in Nat /\ (k + 1) * ForwardPeriod = k * ForwardPeriod + ForwardPeriod
    BY <1>3, <1>4
  <2>2. Len(rb) \in Nat
    BY <1>3
  <2> QED
    BY <2>1, <2>2
<1>6. y + ForwardPeriod <= d
  <2>1. (w - Len(main.blobs)) * ForwardPeriod <= Len(rb)
    BY <1>2, <1>1 DEF ToRead
  <2> QED
    BY <1>4, <1>5, <2>1, Zenon
<1>7. ForwardPeriod <= d /\ y <= d - ForwardPeriod
  <2>1. y \in Nat /\ d \in Nat
    BY <1>5
  <2> QED
    BY <1>3, <1>6, <2>1
<1>8. Membuf = SubSeq(rb, 1, ForwardPeriod)
  <2>1. Len(rb) >= ForwardPeriod
    BY <1>3, <1>5, <1>7
  <2> QED
    BY <1>2, <2>1, MembufTyped
<1>9. ToRead'
  <2>1. Len(main'.blobs) = m + 1
    <3>1. SubSeq(rb, 1, ForwardPeriod) \in Seq(Sample)
      <4>1. ForwardPeriod \in Nat /\ ForwardPeriod <= Len(rb)
        BY <1>3, <1>5, <1>7
      <4> QED
        BY <1>3, <4>1, Prefix
    <3>2. Len(Append(main.blobs, SubSeq(rb, 1, ForwardPeriod))) = Len(main.blobs) + 1
      BY <1>3, <3>1
    <3> QED
      BY <1>10, <1>4, <1>8, <3>2, Zenon
  <2>2. Len(rb') = d - ForwardPeriod
    <3>1. ForwardPeriod \in Nat /\ ForwardPeriod <= Len(rb)
      BY <1>3, <1>5, <1>7
    <3> QED
      BY <1>2, <1>3, <1>5, <3>1, RestAt
  <2>3. m + 1 <= w /\ w - (m + 1) = k
    BY <1>1, <1>4
  <2>4. post' = post
    BY <1>2
  <2> QED
    BY <1>1, <1>5, <1>7, <2>1, <2>2, <2>3, <2>4, Zenon DEF ToRead
<1> QED
  BY <1>5, <1>7, <1>8, <1>9

(* process() reads the samples of a port. *)
LEMMA FlowReads ==
  ASSUME NEW r \in Nat \ {0}, NEW ord, NEW f \in Nat, PostInv, PostFlow(r, ord, f), ProcessReads
  PROVE  PostFlow(r, ord, f)'
<1>1. /\ main.at = "read" /\ Len(main.blobs) < post.port_count
      /\ main' = [main EXCEPT !.blobs = Append(main.blobs, Membuf)]
      /\ rb' = SubSeq(rb, ForwardPeriod + 1, Len(rb))
      /\ UNCHANGED <<source, post, rb_helper, osc, count>>
  BY DEF ProcessReads, Convert!Rest
<1>2. ASSUME ~count.mixed
      PROVE  post.message_number # 0
  BY <1>1, <1>2 DEF PostFlow, Fresh, IdleMain
<1>3. main'.blobs = Append(main.blobs, Membuf) /\ main'.at = "read"
  BY <1>1, RecordFrom
<1>4. ASSUME ~count.mixed
      PROVE  /\ Flow(Sample, ForwardPeriod, BufferSize, post.port_count, r, ord, f, count.sent,
                     main'.blobs, rb', rb_helper, osc)
             /\ ToRead'
  <2>1. PICK w \in Nat \ {0}, c \in Nat :
          w = post.port_count /\ c = count.sent
    BY <1>2, <1>4 DEF PostFlow, PostInv, CountOK
  <2>2. Flow(Sample, ForwardPeriod, BufferSize, w, r, ord, f, c, main.blobs, rb, rb_helper, osc)
        /\ ToRead
    BY <1>2, <1>4, <2>1 DEF PostFlow
  <2>3. ForwardPeriod \in Nat \ {0} /\ BufferSize \in Nat /\ main.blobs \in Seq(Seq(Sample))
        /\ rb \in Seq(Sample)
    BY Constants, RecordFrom DEF BlobList
  <2>8. /\ ForwardPeriod <= Len(rb) /\ ToRead' /\ Membuf = SubSeq(rb, 1, ForwardPeriod)
    BY <1>1, <2>1, <2>2, ReadsToRead
  <2>9. Flow(Sample, ForwardPeriod, BufferSize, w, r, ord, f, c,
             Append(main.blobs, SubSeq(rb, 1, ForwardPeriod)),
             SubSeq(rb, ForwardPeriod + 1, Len(rb)), rb_helper, osc)
    <3>1. ForwardPeriod <= Len(rb)
      BY <2>8
    <3> QED
      BY <2>1, <2>2, <2>3, <3>1, FlowRead
  <2> QED
    BY <1>1, <1>3, <2>1, <2>8, <2>9
<1> QED
  BY <1>1, <1>2, <1>3, <1>4 DEF PostFlow, SourceInv

(* process() sends: the blobs are of the same moments, and if the order is   *)
(* kept they come before all that waits.                                     *)
LEMMA FlowSends ==
  ASSUME NEW r \in Nat \ {0}, NEW ord, NEW f \in Nat, PostInv, PostFlow(r, ord, f), ProcessSends
  PROVE  \E g \in Nat :
           /\ f <= g /\ (~ord => g = f) /\ PostFlow(r, ord, g)'
           /\ ~count.mixed =>
                \E B \in Seq(Nat) : /\ Voices(main.blobs, post.port_count, ForwardPeriod, B)
                                    /\ Increasing(B) /\ (ord => Within(B, f, g))
<1>1. /\ main.at = "read" /\ Len(main.blobs) >= post.port_count
      /\ UNCHANGED <<source, rb, rb_helper, osc>>
      /\ main' = [at |-> "loop", blobs |-> <<>>] \/ main' = [at |-> "poll", blobs |-> <<>>]
  BY DEF ProcessSends, convert_vars, IdleMain
<1>2. main'.blobs = <<>> /\ main'.at # "read"
  BY <1>1
<1>3. /\ post'.message_number = post.message_number /\ post'.port_count = post.port_count
      /\ post'.process_enabled = post.process_enabled
  <2>1. DOMAIN post = PostFields
    BY DEF PostInv, PostOK
  <2>2. post' = post \/ \E n : post' = [post EXCEPT !.message_number_out = n]
    BY DEF ProcessSends
  <2> QED
    BY <2>1, <2>2 DEF PostFields
<1>4. count'.sent = count.sent /\ count'.mixed = count.mixed
  BY DEF ProcessSends, PostInv, CountOK
<1>5. SourceInv'
  BY <1>1 DEF PostFlow, SourceInv
<1>6. CASE count.mixed
  <2>1. PostFlow(r, ord, f)'
    BY <1>3, <1>4, <1>5, <1>6 DEF PostFlow
  <2>2. f <= f
    OBVIOUS
  <2> QED
    BY <1>6, <2>1, <2>2
<1>7. CASE ~count.mixed
  <2>1. post.message_number # 0
    BY <1>1, <1>7 DEF PostFlow, Fresh, IdleMain
  <2>2. PICK w \in Nat \ {0}, c \in Nat : w = post.port_count /\ c = count.sent
    BY <1>7, <2>1 DEF PostFlow, PostInv, CountOK
  <2>3. Flow(Sample, ForwardPeriod, BufferSize, w, r, ord, f, c, main.blobs, rb, rb_helper, osc)
        /\ ToRead
    BY <1>7, <2>1, <2>2 DEF PostFlow
  <2>4. ForwardPeriod \in Nat \ {0} /\ BufferSize \in Nat /\ main.blobs \in Seq(Seq(Sample))
    BY Constants, RecordFrom DEF BlobList
  <2>5. Len(main.blobs) = w
    <3>1. PICK n \in Nat : n = Len(main.blobs)
      BY <2>4
    <3>2. n <= w /\ n >= w
      BY <1>1, <2>2, <2>3, <3>1 DEF ToRead
    <3> QED
      BY <2>2, <3>1, <3>2
  <2>6. PICK B \in Seq(Nat), g \in Nat :
           /\ Voices(main.blobs, w, ForwardPeriod, B) /\ Increasing(B)
           /\ f <= g /\ g <= c
           /\ ~ord => g = f
           /\ ord => Within(B, f, g)
           /\ Flow(Sample, ForwardPeriod, BufferSize, w, r, ord, g, c, <<>>, rb, rb_helper, osc)
    BY <2>2, <2>3, <2>4, <2>5, FlowSend
  <2>7. ToRead'
    BY <1>2 DEF ToRead
  <2>8. Flow(Sample, ForwardPeriod, BufferSize, post'.port_count, r, ord, g, count'.sent,
             main'.blobs, rb', rb_helper', osc')
    BY <1>1, <1>2, <1>3, <1>4, <2>2, <2>6
  <2>9. PostFlow(r, ord, g)'
    <3>1. post'.message_number \in Nat /\ post'.message_number # 0
      BY <1>3, <2>1 DEF PostFlow
    <3>2. g <= count'.sent /\ post'.port_count \in Nat \ {0}
      BY <1>3, <1>4, <2>2, <2>6
    <3> QED
      BY <1>5, <2>7, <2>8, <3>1, <3>2 DEF PostFlow
  <2> QED
    BY <2>2, <2>6, <2>9
<1> QED
  BY <1>6, <1>7

(* The program stops: nothing waits any more. *)
LEMMA FlowEnds ==
  ASSUME NEW r, NEW ord, NEW f, PostInv, PostFlow(r, ord, f), PostStops \/ PostIsClosed
  PROVE  PostFlow(r, ord, f)' /\ post'.message_number = 0
<1>1. /\ post' = [NewPost EXCEPT !.up = FALSE]
      /\ source' = [source EXCEPT !.accepted = source.accepted /\ ~post.sender_host]
      /\ rb' = <<>> /\ rb_helper' = <<>> /\ osc' = Convert!Idle /\ main' = IdleMain
      /\ count' = [count EXCEPT !.taken = 0, !.failed = 0]
  BY DEF PostStops, PostIsClosed, PostEnds
<1>2. post'.message_number = 0 /\ post'.process_enabled = FALSE
  BY <1>1 DEF NewPost
<1>3. Fresh'
  BY <1>1, <1>2 DEF Fresh, Convert!Idle, IdleMain
<1>4. SourceInv'
  <2>1. (source.accepted /\ ~post.sender_host) = FALSE
    BY DEF PostInv, SourceOK
  <2>2. source' = [source EXCEPT !.accepted = FALSE]
    BY <1>1, <2>1
  <2>3. source'.accepted = FALSE /\ source'.number = source.number
    BY <2>2 DEF PostInv, SourceOK
  <2> QED
    BY <2>3 DEF PostFlow, SourceInv
<1>5. count'.sent = count.sent
  BY <1>1 DEF PostInv, CountOK
<1> QED
  BY <1>2, <1>3, <1>4, <1>5 DEF PostFlow

(* The program is started. *)
LEMMA FlowStarts ==
  ASSUME NEW r, NEW ord, NEW f, PostInv, PostFlow(r, ord, f), PostStarts,
         post.message_number = 0
  PROVE  PostFlow(r, ord, f)'
<1>1. post' = NewPost /\ UNCHANGED <<source, rb, rb_helper, osc, main, count>>
  BY DEF PostStarts, convert_vars
<1>2. post'.message_number = 0 /\ post'.process_enabled = FALSE
  BY <1>1 DEF NewPost
<1>3. ~count.mixed => Fresh'
  BY <1>1, <1>2 DEF PostFlow, Fresh
<1> QED
  BY <1>1, <1>2, <1>3 DEF PostFlow, SourceInv

(* Senders come and go: a new one is accepted if the period fits. *)
LEMMA FlowSurroundings ==
  ASSUME NEW r \in Nat \ {0}, NEW ord, NEW f \in Nat, PostInv, PostFlow(r, ord, f),
         PostSurroundings
  PROVE  PostFlow(r, ord, f)'
<1>1. UNCHANGED <<post, rb, rb_helper, osc, main>>
  BY DEF PostSurroundings, MessageIsLost, SenderChanges, convert_vars
<1>2. CASE MessageIsLost
  <2>1. /\ source' = [source EXCEPT !.number = @ + 1]
        /\ count' = [count EXCEPT !.sent = @ + source.is.period]
    BY <1>2 DEF MessageIsLost, SourceSends
  <2>2. PICK c \in Nat, d \in Nat : c = count.sent /\ d = c + source.is.period /\ c <= d
    BY Constants DEF PostInv, SourceOK, CountOK
  <2>3. count'.sent = d /\ count'.mixed = count.mixed
    BY <2>1, <2>2 DEF PostInv, CountOK
  <2>4. SourceInv'
    <3>1. SourceInv /\ source \in [is : Senders, number : Nat, accepted : BOOLEAN]
      BY DEF PostFlow, PostInv, SourceOK
    <3> QED
      BY <2>1, <3>1 DEF SourceInv
  <2>5. f <= d
    BY <2>2 DEF PostFlow
  <2>6. ASSUME NEW w, Flow(Sample, ForwardPeriod, BufferSize, w, r, ord, f, c, main.blobs, rb,
                           rb_helper, osc)
        PROVE  Flow(Sample, ForwardPeriod, BufferSize, w, r, ord, f, d, main.blobs, rb,
                    rb_helper, osc)
    BY <2>2, <2>6, FlowTop, Constants
  <2>7. ASSUME ~count.mixed, post.message_number # 0
        PROVE  Flow(Sample, ForwardPeriod, BufferSize, post.port_count, r, ord, f, d, main.blobs,
                    rb, rb_helper, osc)
    BY <2>2, <2>6, <2>7 DEF PostFlow
  <2> QED
    BY <1>1, <2>3, <2>4, <2>5, <2>7 DEF PostFlow, Fresh, ToRead
<1>3. CASE SenderChanges
  <2>1. PICK s \in Senders : source' = NewSource(s) /\ UNCHANGED count
    BY <1>3 DEF SenderChanges
  <2>2. SourceInv'
    BY <2>1 DEF SourceInv, NewSource
  <2> QED
    BY <1>1, <2>1, <2>2 DEF PostFlow, Fresh, ToRead
<1> QED
  BY <1>2, <1>3 DEF PostSurroundings

(* Nothing waits at first. *)
LEMMA FlowInit ==
  ASSUME NEW r, NEW ord, Init
  PROVE  PostFlow(r, ord, 0)
<1>1. /\ post = NewPost /\ rb = <<>> /\ rb_helper = <<>> /\ osc = Convert!Idle
      /\ main = IdleMain /\ count = NoCount
  BY DEF Init, PostInit, Convert!Init, Convert!Idle
<1>2. SourceInv
  BY DEF Init, PostInit, NewSource, SourceInv
<1>3. post.message_number = 0 /\ ~post.process_enabled /\ count.sent = 0
  BY <1>1 DEF NewPost, NoCount
<1>4. 0 <= count.sent
  BY <1>3
<1> QED
  BY <1>1, <1>2, <1>3, <1>4 DEF PostFlow, Fresh

--------------------------------------------------------------------------------

(* What is on its way to the receiver.                                       *)

Above(blobs, f) == \A c \in 1 .. Len(blobs) : \A n \in 1 .. Len(blobs[c]) : f < blobs[c][n].number
Upto(blobs, g)  == \A c \in 1 .. Len(blobs) : \A n \in 1 .. Len(blobs[c]) : blobs[c][n].number <= g

Earlier(a, b) ==
  \A c \in 1 .. Len(a), d \in 1 .. Len(b) : \A n \in 1 .. Len(a[c]), m \in 1 .. Len(b[d]) :
    a[c][n].number < b[d][m].number

InOrder(wire) ==
  \A i, j \in 1 .. Len(wire) : i < j => Earlier(wire[i].blobs, wire[j].blobs)

(* What is on its way to the receiver, none of it later than f. *)
WireOK(wire, ord, f) ==
  /\ \A i \in 1 .. Len(wire) : /\ Aligned(wire[i].blobs, ForwardPeriod)
                               /\ ord => Upto(wire[i].blobs, f)
  /\ ord => InOrder(wire)

(* Blobs of the same moments are aligned. *)
LEMMA VoicesAligned ==
  ASSUME NEW P \in Nat \ {0}, NEW w \in Nat, NEW blobs \in Seq(Seq(Sample)), NEW B \in Seq(Nat),
         Voices(blobs, w, P, B), Increasing(B)
  PROVE  Aligned(blobs, P)
<1>1. DOMAIN blobs = 1 .. w /\ Len(B) = P
  BY DEF Voices
<1>2. ASSUME NEW i \in 1 .. w
      PROVE  /\ Len(blobs[i]) = P /\ DOMAIN blobs[i] = 1 .. P
             /\ \A n \in 1 .. P : blobs[i][n].channel = i /\ blobs[i][n].number = B[n]
  <2>1. blobs[i] \in Seq(Sample) /\ Len(blobs[i]) = P
    BY <1>1 DEF Voices
  <2>2. DOMAIN blobs[i] = 1 .. P
    BY <2>1
  <2>3. ASSUME NEW n \in 1 .. P
        PROVE  blobs[i][n].channel = i /\ blobs[i][n].number = B[n]
    <3>1. PICK x : x = blobs[i][n] /\ x = [channel |-> i, number |-> B[n]]
      BY DEF Voices
    <3>2. x.channel = i /\ x.number = B[n]
      BY <3>1
    <3> QED
      BY <3>1, <3>2
  <2> QED
    BY <2>1, <2>2, <2>3
<1>3. ASSUME NEW i \in 1 .. w, NEW n \in 1 .. P
      PROVE  /\ blobs[i][n].channel = i
             /\ blobs[i][n].number = blobs[1][n].number
             /\ n > 1 => blobs[i][n].number > blobs[i][n - 1].number
  <2>1. 1 \in 1 .. w
    OBVIOUS
  <2>2. blobs[i][n].channel = i /\ blobs[i][n].number = B[n] /\ blobs[1][n].number = B[n]
    BY <1>2, <2>1
  <2>3. ASSUME n > 1
        PROVE  blobs[i][n].number > blobs[i][n - 1].number
    <3>1. n - 1 \in 1 .. P /\ n - 1 < n
      BY <2>3
    <3>2. blobs[i][n - 1].number = B[n - 1]
      BY <1>2, <3>1
    <3>3. B[n - 1] < B[n]
      BY <1>1, <3>1 DEF Increasing
    <3>4. B[n - 1] \in Nat /\ B[n] \in Nat
      BY <1>1, <3>1
    <3> QED
      BY <2>2, <3>2, <3>3, <3>4
  <2> QED
    BY <2>2, <2>3
<1> QED
  BY <1>1, <1>2, <1>3 DEF Aligned

(* Blobs of moments between f and g. *)
LEMMA VoicesWithin ==
  ASSUME NEW P \in Nat \ {0}, NEW w \in Nat, NEW blobs \in Seq(Seq(Sample)), NEW B \in Seq(Nat),
         NEW f \in Nat, NEW g \in Nat, Voices(blobs, w, P, B), Within(B, f, g)
  PROVE  Above(blobs, f) /\ Upto(blobs, g)
<1>1. ASSUME NEW c \in 1 .. Len(blobs), NEW n \in 1 .. Len(blobs[c])
      PROVE  f < blobs[c][n].number /\ blobs[c][n].number <= g
  <2>1. c \in 1 .. w /\ Len(blobs[c]) = P /\ Len(B) = P
    BY DEF Voices
  <2>2. n \in 1 .. P
    BY <2>1
  <2>3. blobs[c][n].number = B[n]
    <3>1. PICK x : x = blobs[c][n] /\ x = [channel |-> c, number |-> B[n]]
      BY <2>1, <2>2 DEF Voices
    <3>2. x.number = B[n]
      BY <3>1
    <3> QED
      BY <3>1, <3>2
  <2> QED
    BY <2>1, <2>2, <2>3 DEF Within
<1> QED
  BY <1>1 DEF Above, Upto

(* Blobs up to f come before blobs beyond f. *)
LEMMA EarlierThan ==
  ASSUME NEW a \in BlobList, NEW b \in BlobList, NEW f \in Nat, Upto(a, f), Above(b, f)
  PROVE  Earlier(a, b)
<1> SUFFICES ASSUME NEW c \in 1 .. Len(a), NEW d \in 1 .. Len(b),
                    NEW n \in 1 .. Len(a[c]), NEW m \in 1 .. Len(b[d])
             PROVE  a[c][n].number < b[d][m].number
  BY DEF Earlier
<1>1. a[c] \in Seq(Sample) /\ b[d] \in Seq(Sample)
  BY DEF BlobList
<1>2. a[c][n] \in Sample /\ b[d][m] \in Sample
  BY <1>1
<1>3. a[c][n].number \in Int /\ b[d][m].number \in Int
  <2>1. \A s \in Sample : s.number \in Int
    BY DEF Sample
  <2> QED
    BY <1>2, <2>1
<1>4. a[c][n].number <= f /\ f < b[d][m].number
  BY DEF Upto, Above
<1> QED
  BY <1>3, <1>4

(* Blobs up to f are up to any later moment. *)
LEMMA UptoWiden ==
  ASSUME NEW a \in BlobList, NEW f \in Nat, NEW g \in Nat, f <= g, Upto(a, f)
  PROVE  Upto(a, g)
<1> SUFFICES ASSUME NEW c \in 1 .. Len(a), NEW n \in 1 .. Len(a[c])
             PROVE  a[c][n].number <= g
  BY DEF Upto
<1>1. a[c] \in Seq(Sample)
  BY DEF BlobList
<1>2. a[c][n] \in Sample
  BY <1>1
<1>3. a[c][n].number \in Int
  BY <1>2, Constants DEF Sample
<1>4. a[c][n].number <= f
  BY DEF Upto
<1> QED
  BY <1>3, <1>4

(* A message of later moments is sent. *)
LEMMA WireAppend ==
  ASSUME NEW wire \in Seq(Message), NEW m \in Message, NEW ord, NEW f \in Nat, NEW g \in Nat,
         f <= g, WireOK(wire, ord, f), Aligned(m.blobs, ForwardPeriod),
         ord => Above(m.blobs, f) /\ Upto(m.blobs, g)
  PROVE  WireOK(Append(wire, m), ord, g)
<1>1. PICK n \in Nat, new \in Seq(Message) :
        /\ n = Len(wire) /\ new = Append(wire, m) /\ Len(new) = n + 1
        /\ new[n + 1] = m
        /\ \A i \in 1 .. n : new[i] = wire[i]
  <2>1. PICK n \in Nat : n = Len(wire)
    OBVIOUS
  <2>5. Append(wire, m) \in Seq(Message)
    OBVIOUS
  <2>2. PICK new \in Seq(Message) : new = Append(wire, m)
    BY <2>5
  <2>3. Len(new) = n + 1 /\ new[n + 1] = m
    BY <2>1, <2>2
  <2>4. \A i \in 1 .. n : new[i] = wire[i]
    BY <2>1, <2>2
  <2> QED
    BY <2>1, <2>2, <2>3, <2>4
<1>2. ASSUME NEW i \in 1 .. n
      PROVE  wire[i].blobs \in BlobList
  <2>1. PICK x \in Message : x = wire[i]
    BY <1>1
  <2>2. x.blobs \in BlobList
    BY <2>1 DEF Message
  <2> QED
    BY <2>1, <2>2
<1>3. m.blobs \in BlobList
  BY DEF Message
<1>4. ASSUME NEW i \in 1 .. n + 1
      PROVE  Aligned(new[i].blobs, ForwardPeriod) /\ (ord => Upto(new[i].blobs, g))
  <2>1. CASE i \in 1 .. n
    <3>1. new[i] = wire[i] /\ wire[i].blobs \in BlobList
      BY <1>1, <1>2, <2>1
    <3>2. Aligned(wire[i].blobs, ForwardPeriod) /\ (ord => Upto(wire[i].blobs, f))
      BY <1>1, <2>1 DEF WireOK
    <3>3. ord => Upto(wire[i].blobs, g)
      BY <3>1, <3>2, UptoWiden
    <3> QED
      BY <3>1, <3>2, <3>3
  <2>2. CASE i = n + 1
    BY <1>1, <2>2
  <2> QED
    BY <1>1, <2>1, <2>2
<1>5. ASSUME ord, NEW i \in 1 .. n + 1, NEW j \in 1 .. n + 1, i < j
      PROVE  Earlier(new[i].blobs, new[j].blobs)
  <2>1. i \in 1 .. n
    BY <1>1, <1>5
  <2>2. CASE j \in 1 .. n
    <3>1. Earlier(wire[i].blobs, wire[j].blobs)
      BY <1>1, <1>5, <2>1, <2>2 DEF WireOK, InOrder
    <3> QED
      BY <1>1, <2>1, <2>2, <3>1
  <2>3. CASE j = n + 1
    <3>1. wire[i].blobs \in BlobList /\ Upto(wire[i].blobs, f) /\ Above(m.blobs, f)
      BY <1>1, <1>2, <1>5, <2>1 DEF WireOK
    <3>2. Earlier(wire[i].blobs, m.blobs)
      BY <1>3, <3>1, EarlierThan
    <3> QED
      BY <1>1, <2>1, <2>3, <3>2
  <2> QED
    BY <1>1, <2>2, <2>3
<1>6. ord => InOrder(new)
  BY <1>1, <1>5 DEF InOrder
<1> QED
  BY <1>1, <1>4, <1>6 DEF WireOK

(* A message is received. *)
LEMMA WireTail ==
  ASSUME NEW wire \in Seq(Message), wire # <<>>, NEW ord, NEW f, WireOK(wire, ord, f)
  PROVE  WireOK(Tail(wire), ord, f)
<1>1. PICK n \in Nat, new \in Seq(Message) :
        /\ Len(wire) = n + 1 /\ new = Tail(wire) /\ Len(new) = n
        /\ \A i \in 1 .. n : new[i] = wire[i + 1]
  <2>1. PICK n \in Nat : Len(wire) = n + 1
    <3>1. Len(wire) \in Nat /\ Len(wire) # 0
      OBVIOUS
    <3>2. Len(wire) - 1 \in Nat /\ Len(wire) = (Len(wire) - 1) + 1
      BY <3>1
    <3> QED
      BY <3>2
  <2>2. Tail(wire) \in Seq(Message) /\ Len(Tail(wire)) = n
        /\ \A i \in 1 .. n : Tail(wire)[i] = wire[i + 1]
    BY <2>1
  <2> QED
    BY <2>1, <2>2
<1>2. \A i \in 1 .. n : i + 1 \in 1 .. Len(wire)
  BY <1>1
<1>3. \A i, j \in 1 .. n : i < j => i + 1 < j + 1
  OBVIOUS
<1>4. ord => InOrder(new)
  BY <1>1, <1>2, <1>3 DEF WireOK, InOrder
<1>5. \A i \in 1 .. n : Aligned(new[i].blobs, ForwardPeriod) /\ (ord => Upto(new[i].blobs, f))
  BY <1>1, <1>2 DEF WireOK
<1> QED
  BY <1>1, <1>4, <1>5 DEF WireOK

DownIsNew == ~post.up => post.message_number = 0

(* What no message that is forwarded brings about. *)
Keeps == DownIsNew' /\ (~count'.mixed => ~count.mixed)

(* The number of messages is that of this run of the program. *)
LEMMA KeepsPost ==
  ASSUME PostInv, DownIsNew, Post \/ PostSurroundings
  PROVE  Keeps
<1>1. DOMAIN post = PostFields /\ DOMAIN count = {"sent", "taken", "failed", "mixed"}
  BY DEF PostInv, PostOK, CountOK
<1>2. CASE offer_handler
  <2>1. count' = count /\ post.up
    BY <1>2 DEF offer_handler, PostListens
  <2>2. post'.up
    BY <1>1, <1>2, <2>1 DEF offer_handler, PostFields
  <2> QED
    BY <2>1, <2>2 DEF Keeps, DownIsNew
<1>3. CASE audio_handler
  <2>1. post'.up
    BY <1>3, HandlerStep DEF PostListens
  <2> QED
    BY <1>3, <2>1, HandlerMore DEF Keeps, DownIsNew
<1>4. CASE AudioContinues \/ ProcessBegins \/ ProcessLoops \/ ProcessReads
  <2>1. post' = post /\ count' = count
    BY <1>4 DEF AudioContinues, ProcessBegins, ProcessLoops, ProcessReads
  <2> QED
    BY <2>1 DEF Keeps, DownIsNew
<1>5. CASE ProcessSends
  <2>1. post' = post \/ \E n : post' = [post EXCEPT !.message_number_out = n]
    BY <1>5 DEF ProcessSends
  <2>2. post'.up = post.up /\ post'.message_number = post.message_number
    BY <1>1, <2>1 DEF PostFields
  <2>3. count'.mixed = count.mixed
    BY <1>1, <1>5 DEF ProcessSends
  <2> QED
    BY <2>2, <2>3 DEF Keeps, DownIsNew
<1>6. CASE PostStops \/ PostIsClosed
  <2>1. post' = [NewPost EXCEPT !.up = FALSE] /\ count' = [count EXCEPT !.taken = 0, !.failed = 0]
    BY <1>6 DEF PostStops, PostIsClosed, PostEnds
  <2>2. post'.message_number = 0 /\ count'.mixed = count.mixed
    BY <1>1, <2>1 DEF NewPost
  <2> QED
    BY <2>2 DEF Keeps, DownIsNew
<1>7. CASE PostStarts
  <2>1. post' = NewPost /\ count' = count
    BY <1>7 DEF PostStarts
  <2>2. post'.up
    BY <2>1 DEF NewPost
  <2> QED
    BY <2>1, <2>2 DEF Keeps, DownIsNew
<1>8. CASE PostSurroundings
  <2>1. post' = post /\ count'.mixed = count.mixed
    BY <1>1, <1>8 DEF PostSurroundings, MessageIsLost, SenderChanges
  <2> QED
    BY <2>1 DEF Keeps, DownIsNew
<1> QED
  BY <1>2, <1>3, <1>4, <1>5, <1>6, <1>7, <1>8 DEF Post, PostMain, PostOsc

(* What is not sent stays in its order. *)
LEMMA FlowSame ==
  ASSUME NEW r \in Nat \ {0}, NEW t \in Nat \ {0}, Times(ForwardPeriod, t, r),
         NEW ord, NEW f \in Nat, SendersHave(r, ord), PostInv, DownIsNew, PostFlow(r, ord, f),
         Post \/ PostSurroundings, ~ProcessSends
  PROVE  PostFlow(r, ord, f)' /\ UNCHANGED tcp
<1>1. UNCHANGED tcp
  BY TypeOffer, TypeHandler, TypeContinues, TypeProcess, TypeReads, TypeEnds, TypeStarts,
     TypeSurroundings DEF Post, PostMain, PostOsc
<1> SUFFICES PostFlow(r, ord, f)'
  BY <1>1
<1>2. CASE offer_handler
  BY <1>2, FlowOffer
<1>3. CASE audio_handler
  BY <1>3, FlowHandler
<1>4. CASE AudioContinues
  BY <1>4, FlowContinues
<1>5. CASE ProcessBegins \/ ProcessLoops
  BY <1>5, FlowProcess
<1>6. CASE ProcessReads
  BY <1>6, FlowReads
<1>7. CASE PostStops \/ PostIsClosed
  BY <1>7, FlowEnds
<1>8. CASE PostStarts
  <2>1. post.message_number = 0
    BY <1>8 DEF PostStarts, DownIsNew
  <2> QED
    BY <1>8, <2>1, FlowStarts
<1>9. CASE PostSurroundings
  BY <1>9, FlowSurroundings
<1> QED
  BY <1>2, <1>3, <1>4, <1>5, <1>6, <1>7, <1>8, <1>9 DEF Post, PostMain, PostOsc

(* The inductive invariant: TypeInv, and for some moment f: what is on its *)
(* way is not later than f, what waits in audio_post_send is.              *)
AlignInv(r, ord) ==
  /\ TypeInv /\ DownIsNew
  /\ \E f \in Nat : /\ PostFlow(r, ord, f)
                    /\ ~count.mixed => WireOK(tcp.wire, ord, f)

(* The invariant holds at first. *)
LEMMA AlignInit ==
  ASSUME NEW r, NEW ord, Init
  PROVE  AlignInv(r, ord)
<1>1. TypeInv
  BY TypeInit
<1>2. DownIsNew /\ tcp.wire = <<>>
  BY DEF Init, PostInit, NewPost, DownIsNew
<1>3. WireOK(tcp.wire, ord, 0)
  BY <1>2 DEF WireOK, InOrder
<1>4. PostFlow(r, ord, 0) /\ 0 \in Nat
  BY FlowInit
<1> QED
  BY <1>1, <1>2, <1>3, <1>4 DEF AlignInv

(* A message is sent. *)
LEMMA AlignSends ==
  ASSUME NEW r \in Nat \ {0}, NEW ord, NEW f \in Nat, PostInv, TcpOK, PostFlow(r, ord, f),
         ~count.mixed => WireOK(tcp.wire, ord, f), ProcessSends
  PROVE  \E g \in Nat : /\ PostFlow(r, ord, g)'
                        /\ ~count.mixed => WireOK(tcp'.wire, ord, g)
<1>1. PICK g \in Nat :
           /\ f <= g /\ (~ord => g = f) /\ PostFlow(r, ord, g)'
           /\ ~count.mixed =>
                \E B \in Seq(Nat) : /\ Voices(main.blobs, post.port_count, ForwardPeriod, B)
                                    /\ Increasing(B) /\ (ord => Within(B, f, g))
  BY FlowSends
<1>2. ASSUME ~count.mixed
      PROVE  WireOK(tcp'.wire, ord, g)
  <2>1. PICK w \in Seq(Message) : w = tcp.wire
    BY DEF TcpOK
  <2>2. WireOK(w, ord, f)
    BY <1>2, <2>1
  <2>3. PICK B \in Seq(Nat) : /\ Voices(main.blobs, post.port_count, ForwardPeriod, B)
                              /\ Increasing(B) /\ (ord => Within(B, f, g))
    BY <1>1, <1>2
  <2>4. PICK n \in Nat : n = post.port_count
    BY DEF PostInv, PostOK
  <2>5. main.blobs \in Seq(Seq(Sample)) /\ ForwardPeriod \in Nat \ {0}
    BY Constants, RecordFrom DEF BlobList
  <2>6. Aligned(main.blobs, ForwardPeriod)
    BY <2>3, <2>4, <2>5, VoicesAligned
  <2>7. ord => Above(main.blobs, f) /\ Upto(main.blobs, g)
    BY <2>3, <2>4, <2>5, VoicesWithin
  <2>8. WireOK(Append(w, Forwarded), ord, g)
    <3>1. PICK m \in Message : m = Forwarded
      <4>1. Forwarded \in Message
        BY RecordFrom DEF Forwarded, Message, PostInv, PostOK
      <4> QED
        BY <4>1
    <3>2. m.blobs = main.blobs
      BY <3>1 DEF Forwarded
    <3>3. Aligned(m.blobs, ForwardPeriod) /\ (ord => Above(m.blobs, f) /\ Upto(m.blobs, g))
      BY <2>6, <2>7, <3>2
    <3> QED
      BY <1>1, <2>2, <3>1, <3>3, WireAppend
  <2>9. ~ord => WireOK(w, ord, g)
    BY <1>1, <2>2
  <2>10. ord => WireOK(w, ord, g)
    <3>1. ASSUME NEW i \in 1 .. Len(w), ord
          PROVE  Upto(w[i].blobs, g)
      <4>1. w[i].blobs \in BlobList
        <5>1. PICK x \in Message : x = w[i]
          OBVIOUS
        <5>2. x.blobs \in BlobList
          BY <5>1 DEF Message
        <5> QED
          BY <5>1, <5>2
      <4>2. Upto(w[i].blobs, f)
        BY <2>2, <3>1 DEF WireOK
      <4> QED
        BY <1>1, <4>1, <4>2, UptoWiden
    <3> QED
      BY <2>2, <3>1 DEF WireOK
  <2>11. tcp'.wire = w \/ tcp'.wire = Append(w, Forwarded)
    BY <2>1 DEF ProcessSends, TcpOK
  <2> QED
    BY <2>8, <2>9, <2>10, <2>11
<1> QED
  BY <1>1, <1>2

(* The invariant is inductive. *)
LEMMA AlignNext ==
  ASSUME NEW r \in Nat \ {0}, NEW t \in Nat \ {0}, Times(ForwardPeriod, t, r),
         NEW ord, SendersHave(r, ord), AlignInv(r, ord), [Next]_vars
  PROVE  AlignInv(r, ord)'
<1>1. TypeInv'
  BY TypeNext DEF AlignInv
<1>2. PostInv /\ TcpOK /\ DownIsNew
  BY DEF AlignInv, TypeInv
<1>3. PICK f \in Nat : PostFlow(r, ord, f) /\ (~count.mixed => WireOK(tcp.wire, ord, f))
  BY DEF AlignInv
<1>4. CASE (Post \/ PostSurroundings) /\ ~ProcessSends
  <2>1. PostFlow(r, ord, f)' /\ UNCHANGED tcp
    BY <1>2, <1>3, <1>4, FlowSame
  <2>2. Keeps
    BY <1>2, <1>4, KeepsPost
  <2> QED
    BY <1>1, <1>3, <2>1, <2>2 DEF AlignInv, Keeps
<1>5. CASE ProcessSends
  <2>1. PICK g \in Nat : PostFlow(r, ord, g)' /\ (~count.mixed => WireOK(tcp'.wire, ord, g))
    BY <1>2, <1>3, <1>5, AlignSends
  <2>2. Keeps
    BY <1>2, <1>5, KeepsPost DEF Post, PostMain
  <2> QED
    BY <1>1, <2>1, <2>2 DEF AlignInv, Keeps
<1>6. CASE ReceiverConnects \/ ReceiverLeaves \/ ReceiverWorks \/ UNCHANGED vars
  <2>1. UNCHANGED <<source, post, rb, rb_helper, osc, main, count>>
    BY <1>6 DEF ReceiverConnects, ReceiverLeaves, ReceiverWorks, ReceiverReads, vars, post_vars,
                convert_vars
  <2>2. PostFlow(r, ord, f)' /\ DownIsNew'
    BY <1>2, <1>3, <2>1 DEF PostFlow, SourceInv, Fresh, ToRead, DownIsNew
  <2>3. PICK w \in Seq(Message) : w = tcp.wire
    BY <1>2 DEF TcpOK
  <2>4. tcp'.wire = w \/ tcp'.wire = <<>> \/ (w # <<>> /\ tcp'.wire = Tail(w))
    BY <1>2, <1>6, <2>3
       DEF ReceiverConnects, ReceiverLeaves, ReceiverWorks, ReceiverReads, vars, post_vars, TcpOK
  <2>5. WireOK(w, ord, f) => WireOK(Tail(w), ord, f) \/ w = <<>>
    BY <2>3, WireTail
  <2>6. WireOK(<<>>, ord, f)
    BY DEF WireOK, InOrder
  <2>7. ~count'.mixed => WireOK(tcp'.wire, ord, f)
    BY <1>3, <2>1, <2>3, <2>4, <2>5, <2>6
  <2> QED
    BY <1>1, <2>2, <2>7 DEF AlignInv
<1> QED
  BY <1>4, <1>5, <1>6 DEF Next

(* A remainder of 0: one is so many times the other. *)
LEMMA Multiple ==
  ASSUME NEW P \in Nat \ {0}, NEW r \in Nat \ {0}, P % r = 0
  PROVE  \E t \in Nat \ {0} : Times(P, t, r) /\ t = P \div r
<1>1. PICK t \in Nat, z \in Nat : t = P \div r /\ z = t * r /\ P = z
  <2>1. P \in Nat /\ P \div r \in Nat /\ P = (P \div r) * r + (P % r)
    BY Division
  <2>2. (P \div r) * r \in Nat
    BY <2>1
  <2>3. P = (P \div r) * r
    BY <2>1, <2>2
  <2> QED
    BY <2>1, <2>2, <2>3, Zenon
<1>2. t # 0
  <2>1. SUFFICES ASSUME t = 0
                 PROVE  FALSE
    OBVIOUS
  <2>2. z = 0 * r
    BY <1>1, <2>1, Zenon
  <2>3. z = 0
    BY <2>2
  <2> QED
    BY <1>1, <2>3
<1>3. Times(P, t, r)
  BY <1>1, Zenon DEF Times
<1> QED
  BY <1>1, <1>2, <1>3

(* The invariant implies that what is on its way is aligned. *)
LEMMA AlignHolds ==
  ASSUME NEW r, NEW ord, AlignInv(r, ord)
  PROVE  ForwardAligned
<1>1. PICK f \in Nat : ~count.mixed => WireOK(tcp.wire, ord, f)
  BY DEF AlignInv
<1>2. DOMAIN tcp.wire = 1 .. Len(tcp.wire)
  BY DEF AlignInv, TypeInv, TcpOK
<1> QED
  BY <1>1, <1>2 DEF WireOK, ForwardAligned

(* Every message that audio_post_send forwards has the samples of the same   *)
(* moments, one after the other, in all of its channels, whatever the        *)
(* senders, their numbers of channels and their coming and going, as long as *)
(* each has the period of audio_post_send or all shorter ones have the same  *)
(* r (AudioForward!ForwardAligned; audio_handler and process() of            *)
(* audio_post_send.c).  With two shorter periods it does not hold: see       *)
(* README.                                                                   *)
THEOREM ForwardStaysAligned ==
  ASSUME NEW r \in Nat \ {0}, ForwardPeriod % r = 0,
         \A s \in Senders : s.compatible => s.period \in {r, ForwardPeriod}
  PROVE  Spec => []ForwardAligned
<1>1. PICK t \in Nat \ {0} : Times(ForwardPeriod, t, r)
  BY Multiple, Constants
<1>2. SendersHave(r, FALSE)
  BY DEF SendersHave
<1>3. Init => AlignInv(r, FALSE)
  BY AlignInit
<1>4. AlignInv(r, FALSE) /\ [Next]_vars => AlignInv(r, FALSE)'
  BY <1>1, <1>2, AlignNext
<1>5. AlignInv(r, FALSE) => ForwardAligned
  BY AlignHolds
<1> QED
  BY <1>3, <1>4, <1>5, PTL DEF Spec

WireInOrder == ~count.mixed => InOrder(tcp.wire)

(* ... and if the senders all have the same period, the messages are         *)
(* forwarded in the order of their moments: nothing is forwarded twice or    *)
(* after something later.  With senders of two periods it does not hold:     *)
(* what is left of one waits in the helper.                                  *)
THEOREM ForwardKeepsOrder ==
  ASSUME NEW r \in Nat \ {0}, ForwardPeriod % r = 0,
         \A s \in Senders : s.compatible => s.period = r
  PROVE  Spec => []WireInOrder
<1>1. PICK t \in Nat \ {0} : Times(ForwardPeriod, t, r)
  BY Multiple, Constants
<1>2. SendersHave(r, TRUE)
  BY DEF SendersHave
<1>3. Init => AlignInv(r, TRUE)
  BY AlignInit
<1>4. AlignInv(r, TRUE) /\ [Next]_vars => AlignInv(r, TRUE)'
  BY <1>1, <1>2, AlignNext
<1>5. AlignInv(r, TRUE) => WireInOrder
  BY DEF AlignInv, WireOK, WireInOrder
<1> QED
  BY <1>3, <1>4, <1>5, PTL DEF Spec

--------------------------------------------------------------------------------

(* The account: taken from senders, forwarded, held.                         *)

(* What is to be written has the length it should have, and room. *)
Loaded(P, size, w, b, o) ==
  /\ \A j \in 1 .. Len(o.pieces) : Len(o.pieces[j]) = PieceLen(P, o)
  /\ Len(b) + Len(o.pieces) * PieceLen(P, o) <= size
  /\ o.at = "join" => P % o.remote = 0 /\ o.ports = w

Volume(P, b, h, o) == Len(b) + Len(h) + Len(o.pieces) * PieceLen(P, o)

(* The same sum in another order. *)
LEMMA Sums ==
  ASSUME NEW e \in Nat, NEW l \in Nat, NEW g \in Nat, NEW y \in Nat
  PROVE  e + l + g + y = e + g + (l + y) /\ (e + l) + g + y = e + g + y + l
OBVIOUS

(* The number of samples in the buffers. *)
LEMMA VolumeType ==
  ASSUME NEW S, NEW P \in Nat \ {0}, NEW size \in Nat, NEW w, NEW b, NEW h, NEW o,
         ConvOK(S, P, size, w, b, h, o)
  PROVE  Volume(P, b, h, o) \in Nat
<1>3. /\ b \in Seq(S) /\ h \in Seq(S) /\ o.pieces \in Seq(Seq(S))
      /\ PieceLen(P, o) \in Nat
  BY FlowTypes
<1>1. Len(b) \in Nat /\ Len(h) \in Nat /\ Len(o.pieces) \in Nat /\ PieceLen(P, o) \in Nat
  BY <1>3
<1>2. Len(o.pieces) * PieceLen(P, o) \in Nat
  BY <1>1
<1> QED
  BY <1>1, <1>2 DEF Volume

(* A piece is written: nothing is lost. *)
LEMMA VolumeWrite ==
  ASSUME NEW S, NEW P \in Nat \ {0}, NEW size \in Nat, NEW w \in Nat \ {0},
         NEW b, NEW h, NEW o, ConvOK(S, P, size, w, b, h, o), Loaded(P, size, w, b, o),
         NEW b2, NEW h2, NEW o2, ConvWrites(size, b, h, o, b2, h2, o2)
  PROVE  /\ Loaded(P, size, w, b2, o2)
         /\ Volume(P, b2, h2, o2) = Volume(P, b, h, o)
         /\ Len(b) <= Len(b2)
<1>1. b \in Seq(S) /\ h \in Seq(S) /\ o \in OscType(S) /\ o.pieces \in Seq(Seq(S))
      /\ PieceLen(P, o) \in Nat
  BY FlowTypes
<1>2. PICK l \in Nat, ps \in Seq(Seq(S)) : l = PieceLen(P, o) /\ ps = o.pieces
  BY <1>1
<1>3. ps # <<>> /\ b2 = Put(size, b, Head(ps)) /\ o2 = [o EXCEPT !.pieces = Tail(@)] /\ h2 = h
  BY <1>2 DEF ConvWrites
<1>4. o2.pieces = Tail(ps) /\ o2.at = o.at /\ o2.remote = o.remote /\ o2.ports = o.ports
  BY <1>1, <1>2, <1>3 DEF OscType
<1>5. PieceLen(P, o2) = l
  BY <1>2, <1>4 DEF PieceLen
<1>6. PICK c \in Seq(S), qs \in Seq(Seq(S)) :
        c = Head(ps) /\ qs = Tail(ps) /\ Len(qs) = Len(ps) - 1
  BY <1>2, <1>3, TailType
<1>7. PICK e \in Nat, k \in Nat : e = Len(b) /\ k = Len(qs)
  <2>1. Len(b) \in Nat
    BY <1>1
  <2>2. Len(qs) \in Nat
    BY <1>6
  <2> QED
    BY <2>1, <2>2
<1>8. PICK m \in Nat : m = Len(ps) /\ m = k + 1
  <2>1. PICK m \in Nat : m = Len(ps)
    BY <1>2
  <2>2. k = m - 1
    BY <1>6, <1>7, <2>1
  <2>3. m = k + 1
    BY <1>7, <2>1, <2>2
  <2> QED
    BY <2>1, <2>3
<1>9. Len(c) = l /\ \A j \in 1 .. k : Len(qs[j]) = l
  <2>1. \A j \in 1 .. m : Len(ps[j]) = l
    BY <1>2, <1>8 DEF Loaded
  <2>2. c = ps[1] /\ \A j \in 1 .. k : qs[j] = ps[j + 1]
    BY <1>2, <1>3, <1>6, <1>7, <1>8
  <2>3. 1 \in 1 .. m /\ \A j \in 1 .. k : j + 1 \in 1 .. m
    BY <1>7, <1>8
  <2> QED
    BY <2>1, <2>2, <2>3
<1>10. m * l = l + k * l
  BY <1>2, <1>7, <1>8
<1>11. e + l <= size /\ (e + l) + k * l <= size /\ e <= e + l
  <2>1. e + m * l <= size
    BY <1>2, <1>7, <1>8, Zenon DEF Loaded
  <2> QED
    BY <1>2, <1>7, <1>8, <1>10, <2>1, WriteSums, Zenon
<1>12. b2 = b \o c
  <2>1. Len(b) + Len(c) <= size
    BY <1>7, <1>9, <1>11, Zenon
  <2>2. Put(size, b, c) = b \o c
    <3>1. b \in Seq(S) /\ c \in Seq(S)
      BY <1>1, <1>6
    <3>2. Fits(S, size, b, c)
      BY <2>1, <3>1, Zenon DEF Fits
    <3> QED
      BY <3>2, PutAllFits
  <2> QED
    BY <1>3, <1>6, <2>2, Zenon
<1>13. Len(b2) = e + l
  <2>1. Len(b \o c) = Len(b) + Len(c)
    BY <1>1, <1>6, Concat, Zenon
  <2> QED
    BY <1>7, <1>9, <1>12, <2>1, Zenon
<1>14. Loaded(P, size, w, b2, o2)
  <2>1. Len(b2) + Len(o2.pieces) * PieceLen(P, o2) <= size
    BY <1>4, <1>5, <1>6, <1>7, <1>11, <1>13, Zenon
  <2>2. o2.at = "join" => P % o2.remote = 0 /\ o2.ports = w
    BY <1>4 DEF Loaded
  <2> QED
    BY <1>4, <1>5, <1>6, <1>7, <1>9, <2>1, <2>2 DEF Loaded
<1>15. Volume(P, b2, h2, o2) = Volume(P, b, h, o)
  <2>1. PICK g \in Nat, y \in Nat : g = Len(h) /\ y = k * l
    BY <1>1, <1>2, <1>7
  <2>2. Volume(P, b2, h2, o2) = e + l + g + y
    BY <1>3, <1>4, <1>5, <1>6, <1>7, <1>13, <2>1, Zenon DEF Volume
  <2>3. Volume(P, b, h, o) = e + g + m * l
    BY <1>2, <1>7, <1>8, <2>1, Zenon DEF Volume
  <2>4. m * l = l + y
    BY <1>10, <2>1
  <2>5. e + l + g + y = e + g + (l + y)
    <3>1. e \in Nat
      BY <1>7
    <3>2. l \in Nat
      BY <1>2
    <3>3. g \in Nat /\ y \in Nat
      BY <2>1
    <3> QED
      BY <3>1, <3>2, <3>3, Sums
  <2> QED
    BY <2>2, <2>3, <2>4, <2>5, Zenon
<1> QED
  BY <1>7, <1>11, <1>13, <1>14, <1>15

(* A handler returns: nothing is lost. *)
LEMMA VolumeReturn ==
  ASSUME NEW S, NEW P \in Nat \ {0}, NEW size \in Nat, NEW w \in Nat \ {0},
         NEW b, NEW h, NEW o, ConvOK(S, P, size, w, b, h, o), Loaded(P, size, w, b, o),
         NEW b2, NEW h2, NEW o2, ConvReturns(P, size, b, h, o, b2, h2, o2)
  PROVE  /\ Loaded(P, size, w, b2, o2)
         /\ Volume(P, b2, h2, o2) = Volume(P, b, h, o)
         /\ b2 = b
<1>1. /\ o.pieces = <<>> /\ b2 = b /\ h2 = h
      /\ o2 = [at |-> "idle", pieces |-> <<>>, ports |-> 0, remote |-> 0]
  BY DEF ConvReturns
<1>2. o2.at = "idle" /\ o2.pieces = <<>> /\ PieceLen(P, o2) = P
  BY <1>1 DEF PieceLen
<1>3. PieceLen(P, o) \in Nat /\ b \in Seq(S) /\ Len(b) <= size
  BY FlowTypes
<1>4. Len(o2.pieces) * PieceLen(P, o2) = 0 /\ Len(o.pieces) * PieceLen(P, o) = 0
      /\ Len(o2.pieces) = 0
  BY <1>1, <1>2, <1>3
<1>5. Loaded(P, size, w, b2, o2)
  <2>1. Len(b) + 0 <= size
    BY <1>3
  <2> QED
    BY <1>1, <1>2, <1>4, <2>1 DEF Loaded
<1>6. Volume(P, b2, h2, o2) = Volume(P, b, h, o)
  BY <1>1, <1>4 DEF Volume
<1> QED
  BY <1>1, <1>5, <1>6

(* A period is read: the buffers have so much less. *)
LEMMA VolumeRead ==
  ASSUME NEW S, NEW P \in Nat \ {0}, NEW size \in Nat, NEW w \in Nat \ {0},
         NEW b, NEW h, NEW o, ConvOK(S, P, size, w, b, h, o), Loaded(P, size, w, b, o),
         P <= Len(b)
  PROVE  /\ Loaded(P, size, w, SubSeq(b, P + 1, Len(b)), o)
         /\ Volume(P, b, h, o) = Volume(P, SubSeq(b, P + 1, Len(b)), h, o) + P
<1>1. b \in Seq(S) /\ h \in Seq(S) /\ o.pieces \in Seq(Seq(S)) /\ PieceLen(P, o) \in Nat
  BY FlowTypes
<1>2. PICK c \in Seq(S) : c = SubSeq(b, P + 1, Len(b)) /\ Len(c) = Len(b) - P
  <2>1. P \in Nat
    OBVIOUS
  <2> QED
    BY <1>1, <2>1, RestType
<1>3. PICK y \in Nat : y = Len(o.pieces) * PieceLen(P, o)
  <2>1. Len(o.pieces) \in Nat /\ PieceLen(P, o) \in Nat
    BY <1>1
  <2>2. Len(o.pieces) * PieceLen(P, o) \in Nat
    BY <2>1
  <2> QED
    BY <2>2
<1>4. PICK d \in Nat, e \in Nat, g \in Nat : d = Len(b) /\ e = Len(c) /\ g = Len(h) /\ d = e + P
  <2>1. Len(b) \in Nat /\ Len(c) \in Nat
    BY <1>1, <1>2
  <2>2. Len(h) \in Nat
    BY <1>1
  <2>3. Len(b) = Len(c) + P
    BY <1>2, <2>1
  <2> QED
    BY <2>1, <2>2, <2>3
<1>5. d + y <= size
  BY <1>3, <1>4, Zenon DEF Loaded
<1>6. e + y <= size /\ d + g + y = e + g + y + P
  <2>1. PICK v \in Nat : v = y
    BY <1>3
  <2>2. e + v <= size /\ d + g + v = e + g + v + P
    BY <1>4, <1>5, <2>1
  <2> QED
    BY <2>1, <2>2
<1>7. Loaded(P, size, w, c, o)
  BY <1>3, <1>4, <1>6, Zenon DEF Loaded
<1>8. Volume(P, b, h, o) = Volume(P, c, h, o) + P
  BY <1>3, <1>4, <1>6, Zenon DEF Volume
<1> QED
  BY <1>2, <1>7, <1>8

(* A block is collected: nothing is lost. *)
LEMMA VolumeJoin ==
  ASSUME NEW S, NEW P \in Nat \ {0}, NEW size \in Nat, NEW w \in Nat \ {0},
         NEW b, NEW h, NEW o, ConvOK(S, P, size, w, b, h, o), Loaded(P, size, w, b, o),
         NEW b2, NEW h2, NEW o2, ConvJoins(P, size, b, h, o, b2, h2, o2)
  PROVE  /\ Loaded(P, size, w, b2, o2)
         /\ Volume(P, b2, h2, o2) = Volume(P, b, h, o)
         /\ b2 = b
<1>1. /\ o \in OscType(S) /\ o.at = "join" /\ h \in Seq(S) /\ b \in Seq(S) /\ b2 = b
      /\ o.remote \in Nat \ {0} /\ o.remote < P /\ o.ports = w /\ o.pieces = <<>>
      /\ P % o.remote = 0
  BY DEF ConvOK, ConvType, OscType, ConvJoins, ConvMayJoin, Loaded
<1>2. PICK r \in Nat \ {0} : r = o.remote /\ r < P /\ P % r = 0
  BY <1>1
<1>3. PICK z \in Nat, hl \in Nat, e \in Nat : z = P * w /\ hl = Len(h) /\ e = Len(b)
  <2>1. Len(h) \in Nat
    BY <1>1
  <2>2. Len(b) \in Nat
    BY <1>1
  <2>3. P * w \in Nat
    OBVIOUS
  <2> QED
    BY <2>1, <2>2, <2>3
<1>4. z <= hl /\ e + z <= size
  <2>1. hl >= z /\ size - e >= z
    BY <1>1, <1>3, Zenon DEF ConvJoins, ConvMayJoin
  <2>2. e \in Nat /\ z \in Nat /\ hl \in Nat
    BY <1>3
  <2> QED
    BY <2>1, <2>2
<1>5. PICK block : block = SubSeq(h, 1, z) /\ block \in Seq(S) /\ Len(block) = z
  <2>1. z <= Len(h)
    BY <1>3, <1>4
  <2>2. SubSeq(h, 1, z) \in Seq(S) /\ Len(SubSeq(h, 1, z)) = z
    BY <1>1, <1>3, <2>1, Prefix
  <2> QED
    BY <2>2
<1>6. PICK ps : ps = JoinedOf(P, block, r, w) /\ PiecesOf(S, P, r, w, ps)
  <2>1. Len(block) = P * w
    BY <1>3, <1>5, Zenon
  <2>2. PiecesOf(S, P, r, w, JoinedOf(P, block, r, w))
    BY <1>2, <1>5, <2>1, JoinedType
  <2> QED
    BY <2>2
<1>7. PICK m \in Nat : m = w * (P \div r) /\ m * r = z
  <2>1. PICK t \in Nat \ {0} : Times(P, t, r) /\ t = P \div r
    BY <1>2, Multiple
  <2>2. (w * t) * r = w * (t * r)
    OBVIOUS
  <2>3. w * (t * r) = P * w
    <3>1. w * P = P * w
      OBVIOUS
    <3> QED
      BY <2>1, <3>1, Zenon DEF Times
  <2>4. w * t \in Nat
    OBVIOUS
  <2> QED
    BY <1>3, <2>1, <2>2, <2>3, <2>4, Zenon
<1>8. /\ o2.pieces = ps /\ o2.at = "join" /\ o2.remote = r /\ o2.ports = w
      /\ h2 = SubSeq(h, z + 1, Len(h))
  <2>1. o2 = [o EXCEPT !.pieces = ps]
    BY <1>1, <1>2, <1>3, <1>5, <1>6, Zenon DEF ConvJoins
  <2>2. h2 = SubSeq(h, z + 1, Len(h))
    BY <1>1, <1>3, Zenon DEF ConvJoins
  <2> QED
    BY <1>1, <1>2, <2>1, <2>2 DEF OscType
<1>9. PieceLen(P, o2) = r /\ PieceLen(P, o) = r
  BY <1>1, <1>2, <1>8 DEF PieceLen
<1>10. Len(ps) = m /\ \A j \in 1 .. m : Len(ps[j]) = r
  BY <1>6, <1>7, Zenon DEF PiecesOf
<1>11. Loaded(P, size, w, b2, o2)
  <2>1. Len(b2) + Len(o2.pieces) * PieceLen(P, o2) <= size
    BY <1>1, <1>3, <1>4, <1>7, <1>8, <1>9, <1>10, Zenon
  <2>2. \A j \in 1 .. Len(o2.pieces) : Len(o2.pieces[j]) = PieceLen(P, o2)
    BY <1>8, <1>9, <1>10, Zenon
  <2> QED
    BY <1>2, <1>8, <2>1, <2>2, Zenon DEF Loaded
<1>12. Len(h2) = hl - z
  BY <1>1, <1>3, <1>4, <1>8, RestType
<1>13. Volume(P, b2, h2, o2) = Volume(P, b, h, o)
  <2>1. Volume(P, b2, h2, o2) = e + (hl - z) + z
    BY <1>1, <1>3, <1>7, <1>8, <1>9, <1>10, <1>12, Zenon DEF Volume
  <2>2. Volume(P, b, h, o) = e + hl + 0
    <3>1. Len(o.pieces) * PieceLen(P, o) = 0
      <4>1. Len(o.pieces) = 0 /\ 0 * r = 0
        BY <1>1
      <4> QED
        BY <1>9, <4>1, Zenon
    <3> QED
      BY <1>3, <3>1, Zenon DEF Volume
  <2>3. e \in Nat /\ hl \in Nat /\ z \in Nat
    BY <1>3
  <2>4. e + (hl - z) + z = e + hl + 0
    BY <1>4, <2>3
  <2> QED
    BY <2>1, <2>2, <2>4, Zenon
<1> QED
  BY <1>1, <1>11, <1>13

(* The blobs of a message that is not dropped, one of each of the w ports. *)
VoicesOf(S, w, p, ps) ==
  ps \in Seq(Seq(S)) /\ Len(ps) = w /\ \A i \in 1 .. w : Len(ps[i]) = p

RoomForTwo(P, size, w, b) == 2 * (P * w) <= size /\ size - Len(b) >= P * w

(* A message comes in: the buffers hold so much more. *)
LEMMA VolumeBegin ==
  ASSUME NEW S, NEW P \in Nat \ {0}, NEW size \in Nat, NEW w \in Nat \ {0},
         NEW b, NEW h, NEW o, ConvOK(S, P, size, w, b, h, o), o.at = "idle",
         RoomForTwo(P, size, w, b), NEW p \in Nat \ {0}, P % p = 0, NEW ps, VoicesOf(S, w, p, ps),
         NEW h2, NEW o2, ConvBegins(P, size, h, h2, o2, ps, p)
  PROVE  /\ Loaded(P, size, w, b, o2)
         /\ Volume(P, b, h2, o2) = Volume(P, b, h, o) + w * p
<1>1. b \in Seq(S) /\ h \in Seq(S) /\ o.pieces = <<>> /\ Len(b) <= size
  BY FlowTypes
<1>2. PICK z \in Nat, g \in Nat, e \in Nat : z = P * w /\ g = Len(h) /\ e = Len(b)
  <2>1. Len(h) \in Nat
    BY <1>1
  <2>2. Len(b) \in Nat
    BY <1>1
  <2>3. P * w \in Nat
    OBVIOUS
  <2> QED
    BY <2>1, <2>2, <2>3
<1>3. e + z <= size /\ 2 * z <= size /\ e <= size
  <2>1. size - e >= z /\ 2 * z <= size /\ e <= size
    BY <1>1, <1>2, Zenon DEF RoomForTwo
  <2>2. e \in Nat /\ z \in Nat
    BY <1>2
  <2> QED
    BY <2>1, <2>2
<1>4. g < z
  <2>1. ~(g >= z)
    BY <1>2, Zenon DEF ConvOK, Drained
  <2>2. g \in Nat /\ z \in Nat
    BY <1>2
  <2> QED
    BY <2>1, <2>2
<1>5. Volume(P, b, h, o) = e + g + 0
  <2>1. PieceLen(P, o) = P /\ Len(o.pieces) = 0
    BY <1>1 DEF PieceLen
  <2>2. 0 * P = 0
    OBVIOUS
  <2>3. Len(o.pieces) * PieceLen(P, o) = 0
    BY <2>1, <2>2, Zenon
  <2> QED
    BY <1>2, <2>3, Zenon DEF Volume
<1>6. PICK t \in Nat \ {0} : Times(P, t, p)
  BY Multiple
<1>7. p <= P
  <2>1. PICK k \in Nat : k = t - 1
    BY <1>6
  <2>2. t * p = k * p + p /\ k * p \in Nat
    BY <1>6, <2>1
  <2>3. P = k * p + p
    BY <1>6, <2>2, Zenon DEF Times
  <2> QED
    BY <2>2, <2>3
<1>8. PICK y \in Nat : y = w * p /\ y <= z
  <2>1. w * (P - p) >= 0 /\ w * p \in Nat
    BY <1>7
  <2>2. P * w = w * p + w * (P - p)
    OBVIOUS
  <2> QED
    BY <1>2, <2>1, <2>2
<1>9. CASE P = p
  <2>1. h2 = h /\ o2 = [at |-> "write", pieces |-> ps, ports |-> Len(ps), remote |-> p]
    BY <1>9 DEF ConvBegins
  <2>2. o2.at = "write" /\ o2.pieces = ps /\ PieceLen(P, o2) = p
    BY <1>9, <2>1 DEF PieceLen
  <2>3. Len(o2.pieces) * PieceLen(P, o2) = y
    BY <1>8, <2>2, Zenon DEF VoicesOf
  <2>4. e + y <= size
    BY <1>2, <1>3, <1>8
  <2>5. Loaded(P, size, w, b, o2)
    <3>1. Len(b) + Len(o2.pieces) * PieceLen(P, o2) <= size
      BY <1>2, <2>3, <2>4, Zenon
    <3>2. \A j \in 1 .. Len(o2.pieces) : Len(o2.pieces[j]) = PieceLen(P, o2)
      BY <2>2, Zenon DEF VoicesOf
    <3> QED
      BY <2>2, <3>1, <3>2 DEF Loaded
  <2>6. Volume(P, b, h2, o2) = e + g + y
    BY <1>2, <2>1, <2>3, Zenon DEF Volume
  <2>7. e + g + y = (e + g + 0) + y
    BY <1>2, <1>8
  <2> QED
    BY <1>5, <1>8, <2>5, <2>6, <2>7, Zenon
<1>10. CASE p < P
  <2>1. /\ h2 = Put(size, h, FlattenSeq(ps))
        /\ o2 = [at |-> "join", pieces |-> <<>>, ports |-> Len(ps), remote |-> p]
    BY <1>10 DEF ConvBegins
  <2>2. /\ o2.at = "join" /\ o2.pieces = <<>> /\ PieceLen(P, o2) = p /\ o2.remote = p
        /\ o2.ports = w
    BY <2>1 DEF PieceLen, VoicesOf
  <2>3. PICK u \in Seq(S) : u = FlattenSeq(ps) /\ Len(u) = y
    <3>1. ps \in Seq(Seq(S)) /\ \A i \in 1 .. Len(ps) : Len(ps[i]) = p
      BY DEF VoicesOf
    <3>2. FlattenSeq(ps) \in Seq(S) /\ IsFlat(FlattenSeq(ps), ps, p)
      BY <3>1, FlatPieces
    <3>3. Len(FlattenSeq(ps)) = y
      BY <1>8, <3>2, Zenon DEF IsFlat, VoicesOf
    <3> QED
      BY <3>2, <3>3
  <2>4. g + y <= size
    <3>1. g \in Nat /\ z \in Nat
      BY <1>2
    <3>2. y \in Nat /\ y <= z
      BY <1>8
    <3> QED
      BY <1>3, <1>4, <3>1, <3>2
  <2>5. h2 = h \o u
    <3>1. Len(h) + Len(u) <= size
      BY <1>2, <2>3, <2>4, Zenon
    <3>3. h \in Seq(S) /\ u \in Seq(S)
      BY <1>1, <2>3
    <3>2. Put(size, h, u) = h \o u
      BY <3>1, <3>3, PutAll
    <3> QED
      BY <2>1, <2>3, <3>2, Zenon
  <2>6. Len(h2) = g + y
    <3>1. Len(h \o u) = Len(h) + Len(u)
      BY <1>1, <2>3, Concat
    <3> QED
      BY <1>2, <2>3, <2>5, <3>1, Zenon
  <2>7. Len(o2.pieces) * PieceLen(P, o2) = 0 /\ Len(o2.pieces) = 0
    <3>1. Len(o2.pieces) = 0 /\ 0 * p = 0
      BY <2>2
    <3> QED
      BY <2>2, <3>1, Zenon
  <2>8. Loaded(P, size, w, b, o2)
    <3>1. e + 0 <= size
      BY <1>2, <1>3
    <3>2. Len(b) + Len(o2.pieces) * PieceLen(P, o2) <= size
      BY <1>2, <2>7, <3>1, Zenon
    <3> QED
      BY <2>2, <2>7, <3>2 DEF Loaded
  <2>9. Volume(P, b, h2, o2) = e + (g + y) + 0
    BY <1>2, <2>6, <2>7, Zenon DEF Volume
  <2>10. e + (g + y) + 0 = (e + g + 0) + y
    BY <1>2, <1>8
  <2> QED
    BY <1>5, <1>8, <2>8, <2>9, <2>10, Zenon
<1> QED
  BY <1>7, <1>9, <1>10

(* All of a message is kept, and all of an mc period is forwarded. *)
WholeParts ==
  /\ 2 * (ForwardPeriod * OutputPorts) <= BufferSize
  /\ MaxFrames <= MaxNumberOut * ForwardPeriod
  /\ \A s \in Senders : s.compatible => /\ s.channels = 0 \/ s.channels >= OutputPorts
                                        /\ ForwardPeriod % s.period = 0

Balanced(taken, w, v, L, P, n) == taken * w = v + L * P + (w * P) * n

InBuffers == Volume(ForwardPeriod, rb, rb_helper, osc)

Live ==
  /\ post.port_count = OutputPorts
  /\ count.taken \in Nat /\ count.failed \in Nat /\ count.taken <= count.sent
  /\ Loaded(ForwardPeriod, BufferSize, OutputPorts, rb, osc) /\ ToRead
  /\ Balanced(count.taken, OutputPorts, InBuffers, Len(main.blobs), ForwardPeriod,
              post.message_number_out + count.failed)

AccountInv ==
  /\ SourceInv
  /\ ~post.up => post.message_number_out = 0 /\ ~post.shutdown_in_progress
  /\ ~post.shutdown_in_progress => Live

(* What audio_handler counts: a message is taken as a whole, or not at all. *)
LEMMA HandlerCounts ==
  ASSUME PostInv, audio_handler
  PROVE  /\ count'.failed = count.failed
         /\ Used # 0 => /\ post'.shutdown_in_progress = post.shutdown_in_progress
                        /\ \/ count'.taken = count.taken /\ UNCHANGED <<rb_helper, osc>>
                           \/ /\ count'.taken = count.taken + source.is.period
                              /\ BufferSize - Len(rb) >= ForwardPeriod * Used
                              /\ Convert!Begins(Blobs(Used), source.is.period)
<1>3. DOMAIN post = PostFields /\ DOMAIN count = {"sent", "taken", "failed", "mixed"}
      /\ Used \in 0 .. OutputPorts
      /\ post.sender_host /\ post.remote_period_size = source.is.period
  BY HandlerStep DEF PostInv, PostOK, CountOK, SourceOK
<1>4. CASE Used < 1
  <2>1. count' = [[count EXCEPT !.sent = @ + source.is.period,
                                !.mixed = @ \/ (post.message_number > 0 /\ Used # post.port_count)]
                      EXCEPT !.mixed = TRUE]
    BY <1>4 DEF audio_handler, Used
  <2>2. count'.failed = count.failed
    BY <1>3, <2>1
  <2>3. Used = 0
    BY <1>3, <1>4
  <2> QED
    BY <2>2, <2>3
<1>5. CASE ~(Used < 1)
  <2> DEFINE p == [post EXCEPT !.message_number = source.number, !.port_count = Used]
             sent == [count EXCEPT !.sent = @ + source.is.period,
                        !.mixed = @ \/ (post.message_number > 0 /\ Used # post.port_count)]
             again == [p EXCEPT !.sender_host = TRUE, !.remote_sample_rate = source.is.rate,
                                !.remote_period_size = source.is.period]
  <2>1. PICK q : /\ q = p \/ q = again
                 /\ post' = [q EXCEPT !.process_enabled = TRUE]
                 /\ \/ count' = sent /\ UNCHANGED <<rb_helper, osc>>
                    \/ /\ Convert!HasRoom(Used)
                       /\ Convert!Begins(Blobs(Used), q.remote_period_size)
                       /\ count' = [sent EXCEPT !.taken = @ + source.is.period]
    BY <1>5 DEF audio_handler, Used
  <2>2. /\ DOMAIN q = PostFields /\ q.remote_period_size = source.is.period
        /\ q.shutdown_in_progress = post.shutdown_in_progress
    <3>1. CASE q = p
      BY <1>3, <3>1 DEF PostFields
    <3>2. CASE q = again
      BY <1>3, <3>2 DEF PostFields
    <3> QED
      BY <2>1, <3>1, <3>2
  <2>3. post'.shutdown_in_progress = post.shutdown_in_progress
    BY <2>1, <2>2 DEF PostFields
  <2>4. DOMAIN sent = DOMAIN count /\ sent.failed = count.failed /\ sent.taken = count.taken
    BY <1>3
  <2>5. /\ count'.failed = count.failed
        /\ \/ count'.taken = count.taken /\ UNCHANGED <<rb_helper, osc>>
           \/ /\ count'.taken = count.taken + source.is.period
              /\ Convert!HasRoom(Used)
              /\ Convert!Begins(Blobs(Used), source.is.period)
    <3> HIDE DEF sent, p, again
    <3> QED
      BY <1>3, <2>1, <2>2, <2>4
  <2> QED
    BY <2>3, <2>5 DEF Convert!HasRoom, Convert!rb_can_write
<1> QED
  BY <1>3, <1>4, <1>5

(* Nothing in the buffers changes. *)
LEMMA AccountSame ==
  ASSUME Live, post'.port_count = post.port_count,
         post'.message_number_out = post.message_number_out,
         UNCHANGED <<rb, rb_helper, osc, main>>,
         count'.taken = count.taken, count'.failed = count.failed,
         count.sent \in Nat, count'.sent \in Nat, count.sent <= count'.sent
  PROVE  Live'
<1>1. count'.taken <= count'.sent
  BY DEF Live
<1> QED
  BY <1>1 DEF Live, ToRead, InBuffers

(* An offer is answered. *)
LEMMA AccountOffer ==
  ASSUME PostInv, AccountInv, offer_handler
  PROVE  AccountInv'
<1>1. /\ UNCHANGED <<rb, rb_helper, osc, main, count>> /\ PostListens
      /\ source' = [source EXCEPT !.accepted = source.is.compatible]
      /\ post' = IF source.is.compatible
                 THEN [post EXCEPT !.sample_rate = source.is.rate,
                                   !.remote_sample_rate = source.is.rate,
                                   !.remote_period_size = source.is.period, !.sender_host = TRUE]
                 ELSE [post EXCEPT !.sample_rate = source.is.rate]
      /\ DOMAIN post = PostFields
  BY DEF PostInv, PostOK, offer_handler, convert_vars
<1>2. /\ post'.message_number_out = post.message_number_out /\ post'.port_count = post.port_count
      /\ post'.shutdown_in_progress = post.shutdown_in_progress /\ post'.up = post.up
  BY <1>1 DEF PostFields
<1>3. SourceInv'
  <2>1. SourceInv /\ source \in [is : Senders, number : Nat, accepted : BOOLEAN]
    BY DEF AccountInv, PostInv, SourceOK
  <2> QED
    BY <1>1, <2>1 DEF SourceInv
<1>4. count.sent \in Nat /\ count.sent <= count.sent
  BY Constants DEF PostInv, CountOK
<1>5. ~post'.shutdown_in_progress => Live'
  BY <1>1, <1>2, <1>4, AccountSame DEF AccountInv
<1> QED
  BY <1>1, <1>2, <1>3, <1>5 DEF AccountInv

(* process() is entered, or goes round its loop. *)
LEMMA AccountProcess ==
  ASSUME PostInv, AccountInv, ProcessBegins \/ ProcessLoops
  PROVE  AccountInv'
<1>1. /\ UNCHANGED <<source, post, rb, rb_helper, osc, count>>
      /\ \/ main' = [main EXCEPT !.at = "loop"]
         \/ main' = [main EXCEPT !.at = "poll"]
         \/ main' = [main EXCEPT !.at = "read"]
  BY DEF ProcessBegins, ProcessLoops, convert_vars
<1>2. main'.blobs = main.blobs
  BY <1>1, RecordFrom
<1>3. post.port_count = OutputPorts => ToRead'
  BY ProcessToRead, Constants
<1> QED
  BY <1>1, <1>2, <1>3 DEF AccountInv, SourceInv, Live, InBuffers

(* A message comes in. *)
LEMMA AccountHandler ==
  ASSUME WholeParts, PostInv, AccountInv, audio_handler
  PROVE  AccountInv'
<1>1. PICK p \in Nat \ {0}, c \in Nat :
        /\ p = source.is.period /\ c = count.sent /\ PostListens /\ osc.at = "idle"
        /\ source' = [source EXCEPT !.number = @ + 1]
        /\ UNCHANGED <<rb, main>>
        /\ post'.port_count = Used /\ post'.up = post.up
        /\ post'.message_number_out = post.message_number_out
        /\ Used = 0 => post'.shutdown_in_progress
        /\ count'.sent = c + p
  <2>1. source.is.period \in Nat \ {0} /\ count.sent \in Nat
    BY Constants DEF PostInv, SourceOK, CountOK
  <2> QED
    BY <2>1, HandlerStep, Zenon
<1>2. SourceInv' /\ source.is.compatible /\ source.is \in Senders
  <2>1. SourceInv /\ source \in [is : Senders, number : Nat, accepted : BOOLEAN]
    BY DEF AccountInv, PostInv, SourceOK
  <2>2. source.accepted
    BY HandlerStep
  <2> QED
    BY <1>1, <2>1, <2>2 DEF SourceInv
<1>3. Used = 0 \/ Used = OutputPorts
  <2>1. source.is.channels = 0 \/ source.is.channels >= OutputPorts
    BY <1>2 DEF WholeParts
  <2>2. source.is.channels \in Nat /\ OutputPorts \in Nat
    BY <1>2, Constants
  <2> QED
    BY <2>1, <2>2 DEF Used
<1>4. CASE Used = 0
  BY <1>1, <1>2, <1>4 DEF AccountInv, PostListens
<1>5. CASE Used # 0
  <2>1. Used = OutputPorts /\ Live /\ count.taken \in Nat /\ count.taken <= c
    BY <1>1, <1>3, <1>5 DEF AccountInv, PostListens, Live
  <2>2. ToRead'
    BY <1>1, <2>1 DEF Live, ToRead
  <2>3. CASE count'.taken = count.taken /\ UNCHANGED <<rb_helper, osc>>
    <3>1. c <= c + p
      BY <1>1
    <3>2. Live'
      BY <1>1, <2>1, <2>3, <3>1, HandlerCounts, AccountSame DEF Live
    <3> QED
      BY <1>1, <1>2, <3>2 DEF AccountInv, PostListens
  <2>4. CASE /\ count'.taken = count.taken + p
             /\ BufferSize - Len(rb) >= ForwardPeriod * Used
             /\ Convert!Begins(Blobs(Used), source.is.period)
    <3>1. PICK w \in Nat \ {0}, k \in Nat : w = OutputPorts /\ k = count.taken
      BY <2>1, Constants
    <3>2. PICK ps : ps = Blobs(w) /\ VoicesOf(Sample, w, p, ps)
      <4>1. count.sent + p <= MaxFrames
        BY <1>1, HandlerStep
      <4>2. Blobs(w) \in Seq(Seq(Sample))
        BY <1>1, <2>1, <3>1, <4>1, BlobsTyped
      <4>3. w \in 1 .. OutputPorts /\ c + p <= MaxFrames
        BY <1>1, <3>1, <4>1
      <4>4. PICK B \in Seq(Nat) : Voices(Blobs(w), w, p, B)
        BY <1>1, <4>3, BlobsVoices
      <4>5. Len(Blobs(w)) = w /\ \A i \in 1 .. w : Len(Blobs(w)[i]) = p
        BY <4>4 DEF Voices
      <4> QED
        BY <4>2, <4>5 DEF VoicesOf
    <3>3. ConvBegins(ForwardPeriod, BufferSize, rb_helper, rb_helper', osc', ps, p)
      <4>1. Convert!Begins(ps, p)
        BY <1>1, <2>1, <2>4, <3>1, <3>2
      <4> QED
        BY <4>1, PostConvertBegins
    <3>4. /\ Loaded(ForwardPeriod, BufferSize, w, rb, osc')
          /\ Volume(ForwardPeriod, rb, rb_helper', osc') = InBuffers + w * p
      <4>1. RoomForTwo(ForwardPeriod, BufferSize, w, rb)
        BY <2>1, <2>4, <3>1 DEF WholeParts, RoomForTwo
      <4>2. ConvOK(Sample, ForwardPeriod, BufferSize, w, rb, rb_helper, osc)
        BY <3>1 DEF PostInv, PostConvOK
      <4>3. ForwardPeriod % p = 0
        BY <1>1, <1>2 DEF WholeParts
      <4>4. ForwardPeriod \in Nat \ {0} /\ BufferSize \in Nat /\ osc.at = "idle"
        BY <1>1, Constants
      <4>5. Loaded(ForwardPeriod, BufferSize, w, rb, osc')
        BY <3>1, <3>2, <3>3, <4>1, <4>2, <4>3, <4>4, <1>1, VolumeBegin
      <4>6. Volume(ForwardPeriod, rb, rb_helper', osc')
              = Volume(ForwardPeriod, rb, rb_helper, osc) + w * p
        BY <3>1, <3>2, <3>3, <4>1, <4>2, <4>3, <4>4, <1>1, VolumeBegin
      <4> QED
        BY <4>5, <4>6 DEF InBuffers
    <3>5. PICK v \in Nat, v2 \in Nat : v = InBuffers /\ v2 = InBuffers' /\ v2 = v + w * p
      <4>1. InBuffers \in Nat
        BY VolumeType, Constants DEF PostInv, PostConvOK, InBuffers
      <4>2. InBuffers' = InBuffers + w * p
        BY <1>1, <3>4 DEF InBuffers
      <4>3. InBuffers + w * p \in Nat
        BY <4>1
      <4> QED
        BY <4>1, <4>2, <4>3
    <3>6. PICK L \in Nat, P \in Nat, n \in Int :
            /\ L = Len(main.blobs) /\ P = ForwardPeriod
            /\ n = post.message_number_out + count.failed
      <4>1. Len(main.blobs) \in Nat
        BY RecordFrom DEF BlobList
      <4>2. post.message_number_out + count.failed \in Int
        BY <2>1, Constants DEF Live, PostInv, PostOK
      <4> QED
        BY <4>1, <4>2, Constants
    <3>7. Balanced(k, w, v, L, P, n)
      BY <2>1, <3>1, <3>5, <3>6, Zenon DEF Live
    <3>8. Balanced(k + p, w, v2, L, P, n)
      <4>1. PICK x \in Int, y \in Int : x = L * P /\ y = (w * P) * n
        OBVIOUS
      <4>2. k * w = v + x + y
        BY <3>7, <4>1, Zenon DEF Balanced
      <4>3. (k + p) * w = k * w + w * p
        OBVIOUS
      <4>4. PICK z \in Nat : z = w * p
        OBVIOUS
      <4>5. (k + p) * w = v + x + y + z
        BY <4>2, <4>3, <4>4, Zenon
      <4>6. v + x + y + z = (v + z) + x + y
        BY <3>5, <4>1, <4>4
      <4>7. v2 = v + z
        BY <3>5, <4>4, Zenon
      <4> QED
        BY <4>1, <4>5, <4>6, <4>7, Zenon DEF Balanced
    <3>9. k + p \in Nat /\ k + p <= c + p
      BY <1>1, <2>1, <3>1
    <3>10. Live'
      <4>1. /\ post'.port_count = OutputPorts /\ count'.failed = count.failed
            /\ count'.taken = k + p
        BY <1>1, <2>1, <2>4, <3>1, HandlerCounts
      <4>2. Balanced(count'.taken, OutputPorts, InBuffers', Len(main'.blobs), ForwardPeriod,
                     post'.message_number_out + count'.failed)
        BY <1>1, <3>1, <3>5, <3>6, <3>8, <4>1
      <4> QED
        BY <1>1, <2>1, <2>2, <3>1, <3>4, <3>9, <4>1, <4>2 DEF Live
    <3> QED
      BY <1>1, <1>2, <3>10 DEF AccountInv, PostListens
  <2> QED
    BY <1>1, <1>5, <2>3, <2>4, HandlerCounts
<1> QED
  BY <1>4, <1>5

(* The steps of audio_handler after the first. *)
LEMMA AccountContinues ==
  ASSUME PostInv, AccountInv, AudioContinues, PostInv'
  PROVE  AccountInv'
<1>1. UNCHANGED <<source, post, main, count>>
  BY DEF AudioContinues
<1>2. ASSUME ~post.shutdown_in_progress
      PROVE  Live'
  <2>1. Live
    BY <1>2 DEF AccountInv
  <2>2. /\ ConvOK(Sample, ForwardPeriod, BufferSize, OutputPorts, rb, rb_helper, osc)
        /\ Loaded(ForwardPeriod, BufferSize, OutputPorts, rb, osc)
    BY <2>1 DEF PostInv, PostConvOK, Live
  <2>3. ForwardPeriod \in Nat \ {0} /\ BufferSize \in Nat /\ OutputPorts \in Nat \ {0}
    BY Constants
  <2>4. /\ Loaded(ForwardPeriod, BufferSize, OutputPorts, rb', osc')
        /\ InBuffers' = InBuffers
        /\ Len(rb) <= Len(rb') \/ rb' = rb
    <3>1. CASE Convert!Writes
      <4>1. ConvWrites(BufferSize, rb, rb_helper, osc, rb', rb_helper', osc')
        BY <3>1, PostConverts
      <4> QED
        BY <2>2, <2>3, <4>1, VolumeWrite DEF InBuffers
    <3>2. CASE Convert!Joins
      <4>1. ConvJoins(ForwardPeriod, BufferSize, rb, rb_helper, osc, rb', rb_helper', osc')
        BY <3>2, PostConverts
      <4> QED
        BY <2>2, <2>3, <4>1, VolumeJoin DEF InBuffers
    <3>3. CASE Convert!Returns
      <4>1. ConvReturns(ForwardPeriod, BufferSize, rb, rb_helper, osc, rb', rb_helper', osc')
        BY <3>3, PostConverts
      <4> QED
        BY <2>2, <2>3, <4>1, VolumeReturn DEF InBuffers
    <3> QED
      BY <3>1, <3>2, <3>3
         DEF AudioContinues, WritesPeriod, CollectsPeriod, HandlerReturns
  <2>5. ToRead'
    <3>1. rb \in Seq(Sample) /\ rb' \in Seq(Sample)
      BY DEF PostInv, PostConvOK, ConvOK, ConvType
    <3>2. main.blobs \in Seq(Seq(Sample))
      BY RecordFrom DEF BlobList
    <3>3. post' = post /\ main' = main /\ post.port_count \in Nat /\ ToRead
      BY <1>1, <2>1, <2>3 DEF Live
    <3> QED
      BY <2>4, <3>1, <3>2, <3>3, GrowsToRead
  <2> QED
    BY <1>1, <2>1, <2>4, <2>5 DEF Live
<1> QED
  BY <1>1, <1>2 DEF AccountInv, SourceInv

(* process() reads the samples of a port. *)
LEMMA AccountReads ==
  ASSUME PostInv, AccountInv, ProcessReads
  PROVE  AccountInv'
<1>1. /\ main' = [main EXCEPT !.blobs = Append(main.blobs, Membuf)]
      /\ rb' = SubSeq(rb, ForwardPeriod + 1, Len(rb))
      /\ UNCHANGED <<source, post, rb_helper, osc, count>>
  BY DEF ProcessReads, Convert!Rest
<1>2. main'.blobs = Append(main.blobs, Membuf)
  BY <1>1, RecordFrom
<1>3. ASSUME ~post.shutdown_in_progress
      PROVE  Live'
  <2>1. Live /\ post.port_count \in Nat \ {0} /\ ToRead
    BY <1>3, Constants DEF AccountInv, Live
  <2>2. ForwardPeriod <= Len(rb) /\ ToRead' /\ Membuf = SubSeq(rb, 1, ForwardPeriod)
    BY <2>1, ReadsToRead
  <2>3. PICK P \in Nat \ {0}, w \in Nat \ {0} : P = ForwardPeriod /\ w = OutputPorts
    BY Constants
  <2>4. /\ ConvOK(Sample, P, BufferSize, w, rb, rb_helper, osc)
        /\ Loaded(P, BufferSize, w, rb, osc) /\ P <= Len(rb) /\ BufferSize \in Nat
    BY <2>1, <2>2, <2>3, Constants DEF PostInv, PostConvOK, Live
  <2>5. Loaded(P, BufferSize, w, rb', osc')
    <3>1. Loaded(P, BufferSize, w, SubSeq(rb, P + 1, Len(rb)), osc)
      BY <2>3, <2>4, VolumeRead
    <3> QED
      BY <1>1, <2>3, <3>1
  <2>6. InBuffers = InBuffers' + P
    <3>1. Volume(P, rb, rb_helper, osc)
            = Volume(P, SubSeq(rb, P + 1, Len(rb)), rb_helper, osc) + P
      BY <2>3, <2>4, VolumeRead
    <3> QED
      BY <1>1, <2>3, <3>1 DEF InBuffers
  <2>7. PICK v \in Nat, v2 \in Int : v = InBuffers /\ v2 = InBuffers' /\ v = v2 + P
    <3>1. InBuffers \in Nat
      BY <2>3, <2>4, VolumeType DEF InBuffers
    <3>2. ConvOK(Sample, P, BufferSize, w, SubSeq(rb, P + 1, Len(rb)), rb_helper, osc)
      BY <2>3, <2>4, ReadOK
    <3>3. Volume(P, SubSeq(rb, P + 1, Len(rb)), rb_helper, osc) \in Nat
      BY <2>3, <2>4, <3>2, VolumeType
    <3>4. InBuffers' \in Nat
      BY <1>1, <2>3, <3>3 DEF InBuffers
    <3>5. PICK v \in Nat : v = InBuffers
      BY <3>1
    <3>6. PICK v2 \in Int : v2 = InBuffers'
      BY <3>4
    <3>7. v = v2 + P
      BY <2>6, <3>5, <3>6, Zenon
    <3> QED
      BY <3>5, <3>6, <3>7
  <2>8. PICK L \in Nat : L = Len(main.blobs) /\ Len(main'.blobs) = L + 1
    <3>1. main.blobs \in Seq(Seq(Sample)) /\ rb \in Seq(Sample)
      BY RecordFrom DEF BlobList
    <3>2. SubSeq(rb, 1, ForwardPeriod) \in Seq(Sample)
      BY <2>2, <2>3, <3>1, Prefix
    <3>3. Len(Append(main.blobs, SubSeq(rb, 1, ForwardPeriod))) = Len(main.blobs) + 1
      BY <3>1, <3>2
    <3>4. Len(main.blobs) \in Nat
      BY <3>1
    <3> QED
      BY <1>2, <2>2, <3>3, <3>4, Zenon
  <2>9. PICK k \in Nat, n \in Int :
          k = count.taken /\ n = post.message_number_out + count.failed
    <3>1. post.message_number_out + count.failed \in Int
      BY <2>1, Constants DEF Live, PostInv, PostOK
    <3> QED
      BY <2>1, <3>1 DEF Live
  <2>10. Balanced(k, w, v, L, P, n)
    BY <2>1, <2>3, <2>7, <2>8, <2>9, Zenon DEF Live
  <2>11. Balanced(k, w, v2, L + 1, P, n)
    <3>1. PICK x \in Int, y \in Int : x = L * P /\ y = (w * P) * n
      OBVIOUS
    <3>2. k * w = v + x + y
      BY <2>10, <3>1, Zenon DEF Balanced
    <3>3. (L + 1) * P = x + P
      <4>1. (L + 1) * P = L * P + P
        OBVIOUS
      <4> QED
        BY <3>1, <4>1
    <3>4. v + x + y = v2 + (x + P) + y
      BY <2>7, <3>1
    <3> QED
      BY <3>1, <3>2, <3>3, <3>4, Zenon DEF Balanced
  <2> QED
    BY <1>1, <2>1, <2>2, <2>3, <2>5, <2>7, <2>8, <2>9, <2>11 DEF Live
<1> QED
  BY <1>1, <1>3 DEF AccountInv, SourceInv

(* As long as there is something to be forwarded, there is a number for it. *)
LEMMA NumberLeft ==
  ASSUME NEW w \in Nat \ {0}, NEW P \in Nat \ {0}, NEW k \in Nat, NEW F \in Nat, NEW M \in Nat,
         NEW v \in Nat, NEW q \in Nat, NEW g \in Nat, k <= F, F <= M * P,
         Balanced(k, w, v, w, P, q + g)
  PROVE  q < M
<1> SUFFICES ASSUME M <= q
             PROVE  FALSE
  OBVIOUS
<1>1. PICK a \in Nat : a = w * P
  OBVIOUS
<1>2. PICK b \in Nat : b = a * (q + g)
  <2>1. q + g \in Nat
    OBVIOUS
  <2> QED
    BY <1>1, <2>1
<1>3. k * w = v + a + b
  BY <1>1, <1>2, Zenon DEF Balanced
<1>4. PICK d \in Nat : d = a * M /\ d <= b
  <2>1. PICK e \in Nat : e = q + g - M /\ q + g = M + e
    OBVIOUS
  <2>2. a * (M + e) = a * M + a * e /\ a * M \in Nat /\ a * e \in Nat
    BY <1>1, <2>1
  <2>3. b = a * M + a * e
    BY <1>2, <2>1, <2>2, Zenon
  <2> QED
    BY <1>2, <2>2, <2>3
<1>5. k * w <= d
  <2>1. PICK c \in Nat : c = M * P /\ k <= c
    OBVIOUS
  <2>2. k * w <= c * w
    <3>1. (c - k) * w >= 0
      BY <2>1
    <3>2. c * w = k * w + (c - k) * w
      BY <2>1
    <3> QED
      BY <3>1, <3>2
  <2>3. (M * P) * w = (w * P) * M
    OBVIOUS
  <2>4. c * w = d
    BY <1>1, <1>4, <2>1, <2>3, Zenon
  <2> QED
    BY <2>2, <2>4
<1>6. a > 0
  BY <1>1
<1>7. PICK x \in Nat : x = k * w
  OBVIOUS
<1>8. x = v + a + b /\ x <= d
  BY <1>3, <1>5, <1>7, Zenon
<1>9. b \in Nat /\ d \in Nat /\ a \in Nat /\ d <= b
  BY <1>1, <1>2, <1>4
<1> QED
  BY <1>6, <1>7, <1>8, <1>9

(* process() sends a message, or fails to and counts that. *)
LEMMA AccountSends ==
  ASSUME WholeParts, PostInv, AccountInv, ProcessSends
  PROVE  AccountInv'
<1>1. /\ main.at = "read" /\ Len(main.blobs) >= post.port_count
      /\ UNCHANGED <<source, rb, rb_helper, osc>>
      /\ main' = [at |-> "loop", blobs |-> <<>>] \/ main' = [at |-> "poll", blobs |-> <<>>]
  BY DEF ProcessSends, convert_vars, IdleMain
<1>2. main'.blobs = <<>> /\ main'.at # "read"
  BY <1>1
<1>3. DOMAIN post = PostFields /\ DOMAIN count = {"sent", "taken", "failed", "mixed"}
      /\ main.at # "poll" /\ post.up
  BY <1>1 DEF PostInv, PostOK, CountOK, MainOK
<1>4. /\ post' = post \/ \E n : post' = [post EXCEPT !.message_number_out = n]
      /\ count' = count \/ count' = [count EXCEPT !.failed = @ + 1]
  BY DEF ProcessSends
<1>5. /\ post'.port_count = post.port_count /\ post'.up
      /\ post'.shutdown_in_progress = post.shutdown_in_progress
      /\ count'.taken = count.taken /\ count'.sent = count.sent
  BY <1>3, <1>4 DEF PostFields
<1>6. ASSUME ~post.shutdown_in_progress
      PROVE  Live'
  <2>1. Live
    BY <1>6 DEF AccountInv
  <2>2. PICK w \in Nat \ {0}, P \in Nat \ {0}, k \in Nat, q \in Nat, g \in Nat :
          /\ w = OutputPorts /\ P = ForwardPeriod /\ k = count.taken
          /\ q = post.message_number_out /\ g = count.failed
    <3>1. OutputPorts \in Nat \ {0} /\ ForwardPeriod \in Nat \ {0}
      BY Constants
    <3>2. count.taken \in Nat /\ count.failed \in Nat
      BY <2>1 DEF Live
    <3>3. post.message_number_out \in Nat
      BY Constants DEF PostInv, PostOK
    <3> QED
      BY <3>1, <3>2, <3>3
  <2>3. PICK v \in Nat : v = InBuffers
    <3>1. InBuffers \in Nat
      BY VolumeType, Constants DEF PostInv, PostConvOK, InBuffers
    <3> QED
      BY <3>1
  <2>4. Len(main.blobs) = w
    <3>1. PICK n \in Nat : n = Len(main.blobs)
      BY RecordFrom DEF BlobList
    <3>2. n <= w /\ n >= w
      BY <1>1, <2>1, <2>2, <3>1 DEF Live, ToRead
    <3> QED
      BY <2>2, <3>1, <3>2
  <2>5. Balanced(k, w, v, w, P, q + g)
    BY <2>1, <2>2, <2>3, <2>4, Zenon DEF Live
  <2>6. q < MaxNumberOut
    <3>1. k <= MaxFrames
      <4>1. PICK c \in Nat : c = count.sent /\ c <= MaxFrames
        BY Constants DEF PostInv, CountOK
      <4>2. k <= c
        BY <2>1, <2>2, <4>1 DEF Live
      <4> QED
        BY <2>2, <4>1, <4>2, Constants
    <3>2. MaxFrames <= MaxNumberOut * P
      BY <2>2 DEF WholeParts
    <3> QED
      BY <2>2, <2>3, <2>5, <3>1, <3>2, NumberLeft, Constants
  <2>7. post'.message_number_out + count'.failed = q + g + 1
    <3>1. CASE /\ post' = [post EXCEPT !.message_number_out =
                                   IF @ < MaxNumberOut THEN @ + 1 ELSE @]
               /\ UNCHANGED count
      <4>1. post'.message_number_out = q + 1 /\ count'.failed = g
        BY <1>3, <2>2, <2>6, <3>1 DEF PostFields
      <4> QED
        BY <2>2, <4>1
    <3>2. CASE UNCHANGED post /\ count' = [count EXCEPT !.failed = @ + 1]
      <4>1. post'.message_number_out = q /\ count'.failed = g + 1
        BY <1>3, <2>2, <3>2
      <4> QED
        BY <2>2, <4>1
    <3> QED
      BY <3>1, <3>2 DEF ProcessSends
  <2>8. count'.failed \in Nat
    <3>1. count'.failed = g \/ count'.failed = g + 1
      BY <1>3, <1>4, <2>2
    <3> QED
      BY <2>2, <3>1
  <2>9. Balanced(k, w, v, 0, P, q + g + 1)
    <3>1. PICK a \in Nat, n \in Nat : a = w * P /\ n = q + g
      OBVIOUS
    <3>2. PICK y \in Nat : y = a * n
      BY <3>1
    <3>3. k * w = v + a + y
      BY <2>5, <3>1, <3>2, Zenon DEF Balanced
    <3>4. a * (n + 1) = a * n + a
      BY <3>1
    <3>5. a * (n + 1) = y + a
      BY <3>2, <3>4, Zenon
    <3>6. 0 * P = 0
      OBVIOUS
    <3>7. v + a + y = v + 0 + (y + a)
      <4>1. a \in Nat /\ y \in Nat
        BY <3>1, <3>2
      <4> QED
        BY <2>3, <4>1
    <3> QED
      BY <3>1, <3>3, <3>5, <3>6, <3>7, Zenon DEF Balanced
  <2>10. Len(main'.blobs) = 0 /\ ToRead' /\ InBuffers' = InBuffers
    BY <1>1, <1>2 DEF ToRead, InBuffers
  <2>11. Balanced(count'.taken, OutputPorts, InBuffers', Len(main'.blobs), ForwardPeriod,
                  post'.message_number_out + count'.failed)
    BY <1>5, <2>2, <2>3, <2>7, <2>9, <2>10, Zenon
  <2> QED
    BY <1>1, <1>5, <2>1, <2>8, <2>10, <2>11 DEF Live
<1> QED
  BY <1>1, <1>5, <1>6 DEF AccountInv, SourceInv

(* Nothing taken, nothing sent, nothing held. *)
LEMMA NothingToAccount ==
  ASSUME NEW t, NEW n, NEW v, t = 0, n = 0, v = 0,
         NEW w \in Nat \ {0}, NEW P \in Nat \ {0}
  PROVE  Balanced(t, w, v, 0, P, n)
<1>1. 0 * w = 0 /\ 0 * P = 0 /\ (w * P) * 0 = 0 /\ 0 + 0 + 0 = 0
  OBVIOUS
<1> QED
  BY <1>1 DEF Balanced

(* The program is new, and has nothing yet. *)
HasNothing ==
  /\ post.port_count = OutputPorts /\ post.message_number_out = 0
  /\ rb = <<>> /\ rb_helper = <<>> /\ osc = Convert!Idle /\ main = IdleMain
  /\ count.taken = 0 /\ count.failed = 0 /\ count.sent \in Nat

(* A new program has nothing to account for. *)
LEMMA NothingIsLive == HasNothing => Live
<1> SUFFICES ASSUME HasNothing
             PROVE  Live
  OBVIOUS
<1> USE DEF HasNothing
<1>1. osc.pieces = <<>> /\ osc.at = "idle" /\ main.blobs = <<>> /\ main.at = "poll"
  BY DEF Convert!Idle, IdleMain
<1>2. PieceLen(ForwardPeriod, osc) = ForwardPeriod /\ Len(osc.pieces) = 0 /\ Len(rb) = 0
      /\ Len(rb_helper) = 0 /\ Len(main.blobs) = 0
  BY <1>1 DEF PieceLen
<1>3. 0 * ForwardPeriod = 0 /\ 0 + 0 = 0 /\ 0 + 0 + 0 = 0 /\ 0 <= BufferSize
  BY Constants
<1>4. Loaded(ForwardPeriod, BufferSize, OutputPorts, rb, osc)
  <2>1. Len(rb) + Len(osc.pieces) * PieceLen(ForwardPeriod, osc) <= BufferSize
    BY <1>2, <1>3, Zenon
  <2> QED
    BY <1>1, <1>2, <2>1 DEF Loaded
<1>5. InBuffers = 0
  BY <1>2, <1>3, Zenon DEF InBuffers, Volume
<1>6. ToRead
  BY <1>1 DEF ToRead
<1>7. post.message_number_out + count.failed = 0 /\ count.taken <= count.sent
  OBVIOUS
<1>8. Balanced(count.taken, OutputPorts, InBuffers, Len(main.blobs), ForwardPeriod,
               post.message_number_out + count.failed)
  BY <1>2, <1>5, <1>7, NothingToAccount, Constants
<1> QED
  BY <1>4, <1>6, <1>7, <1>8 DEF Live

(* ... in the next state as well. *)
LEMMA NothingIsLiveNext == HasNothing' => Live'
BY NothingIsLive, PTL

(* The program stops. *)
LEMMA AccountEnds ==
  ASSUME PostInv, AccountInv, PostStops \/ PostIsClosed
  PROVE  AccountInv'
<1>1. /\ post' = [NewPost EXCEPT !.up = FALSE]
      /\ source' = [source EXCEPT !.accepted = source.accepted /\ ~post.sender_host]
      /\ rb' = <<>> /\ rb_helper' = <<>> /\ osc' = Convert!Idle /\ main' = IdleMain
      /\ count' = [count EXCEPT !.taken = 0, !.failed = 0]
  BY DEF PostStops, PostIsClosed, PostEnds
<1>2. post'.message_number_out = 0 /\ post'.port_count = OutputPorts
      /\ ~post'.shutdown_in_progress
  BY <1>1 DEF NewPost
<1>3. SourceInv'
  <2>1. (source.accepted /\ ~post.sender_host) = FALSE
    BY DEF PostInv, SourceOK
  <2>2. source' = [source EXCEPT !.accepted = FALSE]
    BY <1>1, <2>1
  <2>3. source'.accepted = FALSE /\ source'.number = source.number
    BY <2>2 DEF PostInv, SourceOK
  <2> QED
    BY <2>3 DEF AccountInv, SourceInv
<1>4. count'.taken = 0 /\ count'.failed = 0 /\ count'.sent = count.sent
  BY <1>1 DEF PostInv, CountOK
<1>5. count'.sent \in Nat
  BY <1>4, Constants DEF PostInv, CountOK
<1>6. Live'
  <2>1. /\ post'.port_count = OutputPorts /\ post'.message_number_out = 0
        /\ rb' = <<>> /\ rb_helper' = <<>> /\ osc' = (Convert!Idle)' /\ main' = IdleMain'
    BY <1>1, <1>2 DEF Convert!Idle, IdleMain
  <2> QED
    BY <1>4, <1>5, <2>1, NothingIsLiveNext DEF HasNothing
<1> QED
  BY <1>2, <1>3, <1>6 DEF AccountInv

(* The program is started. *)
LEMMA AccountStarts ==
  ASSUME PostInv, AccountInv, PostStarts
  PROVE  AccountInv'
<1>1. post' = NewPost /\ ~post.up /\ UNCHANGED <<source, rb, rb_helper, osc, main, count>>
  BY DEF PostStarts, convert_vars
<1>2. Live /\ post.message_number_out = 0
  BY <1>1 DEF AccountInv
<1>3. post'.message_number_out = 0 /\ post'.port_count = OutputPorts /\ post'.up
  BY <1>1 DEF NewPost
<1>4. count.sent \in Nat /\ count.sent <= count.sent
  BY Constants DEF PostInv, CountOK
<1>5. Live'
  BY <1>1, <1>2, <1>3, <1>4, AccountSame DEF Live
<1> QED
  BY <1>1, <1>3, <1>5 DEF AccountInv, SourceInv

(* Senders come and go. *)
LEMMA AccountSurroundings ==
  ASSUME PostInv, AccountInv, PostSurroundings
  PROVE  AccountInv'
<1>1. UNCHANGED <<post, rb, rb_helper, osc, main>>
  BY DEF PostSurroundings, MessageIsLost, SenderChanges, convert_vars
<1>2. CASE MessageIsLost
  <2>1. /\ source' = [source EXCEPT !.number = @ + 1]
        /\ count' = [count EXCEPT !.sent = @ + source.is.period]
    BY <1>2 DEF MessageIsLost, SourceSends
  <2>2. PICK c \in Nat, d \in Nat : c = count.sent /\ d = c + source.is.period /\ c <= d
    BY Constants DEF PostInv, SourceOK, CountOK
  <2>3. count'.sent = d /\ count'.taken = count.taken /\ count'.failed = count.failed
    BY <2>1, <2>2 DEF PostInv, CountOK
  <2>4. SourceInv'
    <3>1. SourceInv /\ source \in [is : Senders, number : Nat, accepted : BOOLEAN]
      BY DEF AccountInv, PostInv, SourceOK
    <3> QED
      BY <2>1, <3>1 DEF SourceInv
  <2>5. ~post.shutdown_in_progress => Live'
    BY <1>1, <2>2, <2>3, AccountSame DEF AccountInv
  <2> QED
    BY <1>1, <2>4, <2>5 DEF AccountInv
<1>3. CASE SenderChanges
  <2>1. PICK s \in Senders : source' = NewSource(s) /\ UNCHANGED count
    BY <1>3 DEF SenderChanges
  <2>2. SourceInv'
    BY <2>1 DEF SourceInv, NewSource
  <2> QED
    BY <1>1, <2>1, <2>2 DEF AccountInv, Live, ToRead, InBuffers
<1> QED
  BY <1>2, <1>3 DEF PostSurroundings

(* The account holds at first. *)
LEMMA AccountInit == Init => AccountInv
<1> SUFFICES ASSUME Init
             PROVE  AccountInv
  OBVIOUS
<1>1. /\ post = NewPost /\ rb = <<>> /\ rb_helper = <<>> /\ osc = Convert!Idle
      /\ main = IdleMain /\ count = NoCount
  BY DEF Init, PostInit, Convert!Init, Convert!Idle
<1>2. SourceInv
  BY DEF Init, PostInit, NewSource, SourceInv
<1>3. post.message_number_out = 0 /\ post.port_count = OutputPorts /\ post.up
  BY <1>1 DEF NewPost
<1>4. count.taken = 0 /\ count.failed = 0 /\ count.sent \in Nat
  BY <1>1 DEF NoCount
<1>5. Live
  BY <1>1, <1>3, <1>4, NothingIsLive DEF HasNothing
<1> QED
  BY <1>2, <1>3, <1>5 DEF AccountInv

(* The account is inductive. *)
LEMMA AccountNext ==
  ASSUME WholeParts, TypeInv, AccountInv, [Next]_vars
  PROVE  AccountInv'
<1>1. PostInv /\ PostInv'
  BY TypeNext DEF TypeInv
<1>2. CASE Post \/ PostSurroundings
  <2>1. CASE offer_handler
    BY <1>1, <2>1, AccountOffer
  <2>2. CASE audio_handler
    BY <1>1, <2>2, AccountHandler
  <2>3. CASE AudioContinues
    BY <1>1, <2>3, AccountContinues
  <2>4. CASE ProcessBegins \/ ProcessLoops
    BY <1>1, <2>4, AccountProcess
  <2>5. CASE ProcessReads
    BY <1>1, <2>5, AccountReads
  <2>6. CASE ProcessSends
    BY <1>1, <2>6, AccountSends
  <2>7. CASE PostStops \/ PostIsClosed
    BY <1>1, <2>7, AccountEnds
  <2>8. CASE PostStarts
    BY <1>1, <2>8, AccountStarts
  <2>9. CASE PostSurroundings
    BY <1>1, <2>9, AccountSurroundings
  <2> QED
    BY <1>2, <2>1, <2>2, <2>3, <2>4, <2>5, <2>6, <2>7, <2>8, <2>9 DEF Post, PostMain, PostOsc
<1>3. CASE ReceiverConnects \/ ReceiverLeaves \/ ReceiverWorks \/ UNCHANGED vars
  <2>1. UNCHANGED <<source, post, rb, rb_helper, osc, main, count>>
    BY <1>3 DEF ReceiverConnects, ReceiverLeaves, ReceiverWorks, ReceiverReads, vars, post_vars,
                convert_vars
  <2> QED
    BY <2>1 DEF AccountInv, SourceInv, Live, ToRead, InBuffers
<1> QED
  BY <1>2, <1>3 DEF Next

(* The invariant implies the account that is checked. *)
LEMMA AccountHolds ==
  ASSUME TypeInv, AccountInv
  PROVE  AllAccounted
<1> SUFFICES ASSUME PostListens
             PROVE  count.taken * OutputPorts =
                      Waiting + OutputPorts * ForwardPeriod * (post.message_number_out + count.failed)
  BY DEF AllAccounted
<1>1. Live
  BY DEF PostListens, AccountInv
<1>2. /\ rb \in Seq(Sample) /\ rb_helper \in Seq(Sample) /\ osc.pieces \in Seq(Seq(Sample))
      /\ PieceLen(ForwardPeriod, osc) \in Nat
      /\ main.blobs \in Seq(Seq(Sample)) /\ \A i \in 1 .. Len(main.blobs) : Len(main.blobs[i]) = ForwardPeriod
  <2>1. ConvOK(Sample, ForwardPeriod, BufferSize, OutputPorts, rb, rb_helper, osc)
    BY DEF TypeInv, PostInv, PostConvOK
  <2>2. /\ rb \in Seq(Sample) /\ rb_helper \in Seq(Sample) /\ osc.pieces \in Seq(Seq(Sample))
        /\ PieceLen(ForwardPeriod, osc) \in Nat
    BY <2>1, FlowTypes, Constants
  <2>3. main.blobs \in BlobList
    BY DEF TypeInv, PostInv, MainOK
  <2> QED
    BY <2>2, <2>3 DEF BlobList
<1>3. Len(FlattenSeq(osc.pieces)) = Len(osc.pieces) * PieceLen(ForwardPeriod, osc)
  <2>1. \A j \in 1 .. Len(osc.pieces) : Len(osc.pieces[j]) = PieceLen(ForwardPeriod, osc)
    BY <1>1 DEF Live, Loaded
  <2>2. IsFlat(FlattenSeq(osc.pieces), osc.pieces, PieceLen(ForwardPeriod, osc))
    BY <1>2, <2>1, FlatPieces
  <2> QED
    BY <2>2 DEF IsFlat
<1>4. Len(FlattenSeq(main.blobs)) = Len(main.blobs) * ForwardPeriod
  <2>1. IsFlat(FlattenSeq(main.blobs), main.blobs, ForwardPeriod)
    BY <1>2, FlatPieces, Constants
  <2> QED
    BY <2>1 DEF IsFlat
<1>5. Waiting = InBuffers + Len(main.blobs) * ForwardPeriod
  BY <1>3, <1>4, Zenon DEF Waiting, InBuffers, Volume
<1> QED
  BY <1>1, <1>5, Zenon DEF Live, Balanced

(* What audio_post_send takes from its senders it forwards, counts as not    *)
(* sent, or still holds (AudioForward!AllAccounted): if the ring buffer has  *)
(* room for two periods of all ports, senders have no fewer channels than    *)
(* there are ports, and their periods divide that of the program.  That      *)
(* message_number_out is not counted beyond MaxNumberOut must not matter     *)
(* either: it is a bound of the model.                                       *)
THEOREM NothingLostSilently ==
  ASSUME WholeParts
  PROVE  Spec => []AllAccounted
<1>1. Init => TypeInv /\ AccountInv
  BY TypeInit, AccountInit
<1>2. TypeInv /\ AccountInv /\ [Next]_vars => (TypeInv /\ AccountInv)'
  BY TypeNext, AccountNext
<1>3. TypeInv /\ AccountInv => AllAccounted
  BY AccountHolds
<1> QED
  BY <1>1, <1>2, <1>3, PTL DEF Spec

================================================================================
