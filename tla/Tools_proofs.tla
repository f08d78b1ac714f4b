---------------------------- MODULE Tools_proofs ----------------------------
(***************************************************************************)
(* What the small programs promise, for every value of their constants:    *)
(* jack_step's count, the records of the OSC bridge, the messages of the   *)
(* tty bridge, the notes and the silence of the tone generator, and the    *)
(* shared buffers these programs and others meet in.                       *)
(*                                                                         *)
(* jack_step goes through as many cycles as were asked for, whatever the   *)
(* numbers entered and however signals, JACK and the main loop interfere.  *)
(* The count that is left lies in run_n_cycles, one more than the cycles   *)
(* to come: the cycle a number is entered in is the first it asks for.     *)
(*                                                                         *)
(* The two bridges put things of several parts into a ring buffer in       *)
(* several steps and take them out in several others.  For both the        *)
(* invariant says what a prefix of well formed content is, part by part,   *)
(* how far the writer and the reader are in it, and what is all there; it  *)
(* does not say how long anything is, and so holds for every capacity.     *)
(*                                                                         *)
(* The tone generator's samples are computed one after the other by a      *)
(* function of the sample's number, and a key that is let go is left out   *)
(* of note_vector by another: of both it is shown that they exist, and     *)
(* what they are, by the least number that would be an exception.          *)
(*                                                                         *)
(* Under the contract of rb_free, that the others are done before it is    *)
(* called, a process that has its rb_t has the whole buffer mapped, and    *)
(* others can open it as well: for any number of users, sizes, versions,   *)
(* and wherever one of them ends or fails.                                 *)
(***************************************************************************)
EXTENDS Gen, JackStep, OscBridges, SharedSegment, Tty, SequenceTheorems, WellFoundedInduction, TLAPS

(* A set of numbers has a least one: induction, as these proofs use it.    *)
LEMMA LeastElement ==
  ASSUME NEW S, S \subseteq Nat, S # {}
  PROVE  \E n \in S : \A k \in S : n <= k
<1> DEFINE R == OpToRel(<, Nat)
<1>1. IsWellFoundedOn(R, Nat)
  BY NatLessThanWellFounded, Zenon
<1>2. \A x, y \in Nat : y < x => <<y, x>> \in R
  BY DEF OpToRel
<1> HIDE DEF R
<1>3. PICK n \in S : \A y \in S : ~ (<<y, n>> \in R)
  BY <1>1, WFMin, Zenon
<1>4. \A k \in S : n <= k
  <2> TAKE k \in S
  <2>1. n \in Nat /\ k \in Nat
    OBVIOUS
  <2>2. ~(k < n)
    BY <1>2, <1>3, <2>1, Zenon
  <2> QED
    BY <2>1, <2>2
<1> QED
  BY <1>4

------------------------------------------------------------------------------
(* jack_step.                                                              *)
(* Cycles that will pass before input is asked for again. *)
Ahead == IF run_n_cycles > 1 THEN run_n_cycles - 1 ELSE 0

StepCounted ==
  /\ run_n_cycles \in Nat /\ asked \in Nat /\ done \in Nat
  /\ callback \in {"idle", "waits"}

StepInv ==
  /\ StepCounted
  /\ callback = "idle" => asked = done + Ahead
  /\ callback = "waits" => asked = done /\ Ahead = 0

------------------------------------------------------------------------------
(* What the counting depends on: what leaves it alone keeps it. *)
Counting == <<run_n_cycles, callback, asked, done>>

(* What leaves the count alone keeps the invariant.                        *)
LEMMA CountingKept == StepInv /\ UNCHANGED Counting => StepInv'
BY DEF StepInv, StepCounted, Ahead, Counting

(* No cycle was asked for and none is done.                                *)
LEMMA StepInvInit == StepInit => StepInv
BY DEF StepInit, StepInv, StepCounted, Ahead

(* A cycle of JACK: one more is done, or the callback waits.               *)
LEMMA StepProcessKeeps == StepInv /\ step_process => StepInv'
<1> SUFFICES ASSUME StepInv, step_process
             PROVE  StepInv'
  OBVIOUS
<1>1. CASE MayRun
  BY <1>1 DEF StepInv, StepCounted, Ahead, step_process, MayRun
<1>2. CASE ~MayRun
  BY <1>2 DEF StepInv, StepCounted, Ahead, step_process, MayRun
<1> QED
  BY <1>1, <1>2

(* A line is entered: the cycle that waited is the first of it.            *)
LEMMA EntersKeeps == StepInv /\ Enters => StepInv'
<1> SUFFICES ASSUME StepInv, Enters
             PROVE  StepInv'
  OBVIOUS
<1>0. asked = done /\ callback = "waits"
  BY DEF StepInv, Enters
<1>1. ASSUME NEW n \in Numbers,
             run_n_cycles' = n, callback' = "idle", asked' = asked + n, done' = done + 1
      PROVE  StepInv'
  <2>1. n \in Nat /\ n >= 1
    BY StepAssumption DEF StepAssumption
  <2> QED
    BY <1>0, <1>1, <2>1 DEF StepInv, StepCounted, Ahead
<1>2. CASE run_n_cycles' = 0 /\ callback' = "idle" /\ asked' = asked + 1 /\ done' = done + 1
  BY <1>0, <1>2 DEF StepInv, StepCounted, Ahead
<1>3. CASE run_n_cycles' = 0 /\ UNCHANGED <<callback, asked, done>>
  BY <1>0, <1>3 DEF StepInv, StepCounted, Ahead
<1> QED
  BY <1>1, <1>2, <1>3 DEF Enters

(* The invariant is inductive.                                             *)
LEMMA StepInvNext == StepInv /\ [StepNext]_step_vars => StepInv'
<1> SUFFICES ASSUME StepInv, [StepNext]_step_vars
             PROVE  StepInv'
  OBVIOUS
<1>1. CASE step_process
  BY <1>1, StepProcessKeeps
<1>2. CASE Enters
  BY <1>2, EntersKeeps
<1>3. CASE freewheel
  BY <1>3, CountingKept DEF freewheel, Counting
<1>4. CASE MainReturns
  BY <1>4, CountingKept DEF MainReturns, Counting, flags
<1>5. CASE MainClears
  BY <1>5, CountingKept DEF MainClears, Counting
<1>6. CASE Exits
  BY <1>6, CountingKept DEF Exits, Counting, flags
<1>7. ASSUME NEW sig \in {"INT", "TERM"}, signal_handler(sig)
      PROVE  StepInv'
  BY <1>7, CountingKept DEF signal_handler, Counting
<1>8. CASE UNCHANGED step_vars
  BY <1>8, CountingKept DEF step_vars, flags, Counting
<1> QED
  BY <1>1, <1>2, <1>3, <1>4, <1>5, <1>6, <1>7, <1>8 DEF StepNext, Program

(* The counting is right whatever is entered and whatever interferes.      *)
THEOREM Counts == StepSpec => []StepInv
<1> QED
  BY StepInvInit, StepInvNext, PTL DEF StepSpec

(* Input is asked for again when as many cycles as were entered are gone   *)
(* through, for every number: the cycle the number is entered in is the    *)
(* first of them (process, jack_step.c).                                   *)
THEOREM AsksAfterThatMany == StepSpec => []CyclesAsAsked
<1>1. StepInv => CyclesAsAsked
  BY DEF StepInv, StepCounted, Ahead, CyclesAsAsked
<1> QED
  BY <1>1, Counts, PTL

------------------------------------------------------------------------------
(* The records of the bridge.  What was written and is not yet forgotten   *)
(* is what the callback holds and what the ring buffer still has.          *)
Pieces == [id : Nat, part : {"pos", "size", "message"}, pos : Nat]

Pending == process_in.got \o rb

(* Where the record that begins at k ends. *)
EndOf(s, g, k) == k + 1 + g[s[k].id].size

(* What is there of the record that begins at k is as it was written, and  *)
(* the next one follows. *)
RecordAt(s, g, k) ==
  /\ s[k].id \in DOMAIN g
  /\ k + 1 <= Len(s) => s[k + 1] = Part(s[k].id, "size", s[k].pos)
  /\ \A j \in k + 2 .. EndOf(s, g, k) : j <= Len(s) => s[j] = Part(s[k].id, "message", s[k].pos)
  /\ EndOf(s, g, k) + 1 <= Len(s) => s[EndOf(s, g, k) + 1].part = "pos"

Entire(s, g, k) == EndOf(s, g, k) <= Len(s)

Formed(s, g) ==
  /\ Len(s) > 0 => s[1].part = "pos"
  /\ \A k \in 1 .. Len(s) : s[k].part = "pos" => RecordAt(s, g, k)

(* t is s and something more. *)
IsLonger(s, t) == Len(s) <= Len(t) /\ \A k \in 1 .. Len(s) : t[k] = s[k]

(* t is s without its first p elements. *)
RestAfter(s, t, p) == Len(t) = Len(s) - p /\ \A i \in 1 .. Len(s) - p : t[i] = s[p + i]

(* Each message has a size.                                                *)
LEMMA SizeOfMessage ==
  ASSUME NEW g \in Seq(Messages), NEW i \in DOMAIN g
  PROVE  g[i].size \in Nat \ {0}
BY OscAssumption DEF OscAssumption

(* A record that is all there, and is not the last or is followed by a new *)
(* one, is in a longer sequence as well.                                   *)
LEMMA RecordStays ==
  ASSUME NEW s \in Seq(Pieces), NEW t \in Seq(Pieces), NEW g \in Seq(Messages),
         IsLonger(s, t), NEW k \in 1 .. Len(s), RecordAt(s, g, k), Entire(s, g, k),
         \/ EndOf(s, g, k) < Len(s)
         \/ Len(s) + 1 <= Len(t) => t[Len(s) + 1].part = "pos"
  PROVE  RecordAt(t, g, k) /\ Entire(t, g, k)
<1>1. PICK n : n = g[s[k].id].size
  OBVIOUS
<1>2. n \in Nat \ {0}
  BY <1>1, SizeOfMessage DEF RecordAt
<1>3. EndOf(s, g, k) = k + 1 + n /\ EndOf(t, g, k) = k + 1 + n /\ t[k] = s[k]
  BY <1>1 DEF EndOf, IsLonger
<1>4. k \in Nat /\ Len(s) \in Nat /\ Len(t) \in Nat /\ k + 1 + n <= Len(s) /\ Len(s) <= Len(t)
  BY <1>3 DEF Entire, IsLonger
<1>5. s[k].id \in DOMAIN g
  BY DEF RecordAt
<1>6. t[k + 1] = Part(s[k].id, "size", s[k].pos)
  <2>1. k + 1 \in 1 .. Len(s)
    BY <1>2, <1>4
  <2> QED
    BY <2>1 DEF RecordAt, IsLonger
<1>7. ASSUME NEW j \in k + 2 .. k + 1 + n
      PROVE  t[j] = Part(s[k].id, "message", s[k].pos)
  <2>1. j \in 1 .. Len(s)
    BY <1>2, <1>4
  <2> QED
    BY <1>3, <2>1 DEF RecordAt, IsLonger
<1>8. ASSUME k + 1 + n + 1 <= Len(t)
      PROVE  t[k + 1 + n + 1].part = "pos"
  <2>1. CASE k + 1 + n < Len(s)
    <3>1. k + 1 + n + 1 \in 1 .. Len(s)
      BY <1>2, <1>4, <2>1
    <3> QED
      BY <1>3, <3>1 DEF RecordAt, IsLonger
  <2>2. CASE k + 1 + n = Len(s)
    BY <1>3, <1>4, <1>8, <2>2
  <2> QED
    BY <1>2, <1>4, <2>1, <2>2
<1>9. Entire(t, g, k)
  BY <1>2, <1>3, <1>4 DEF Entire
<1> QED
  BY <1>3, <1>5, <1>6, <1>7, <1>8, <1>9 DEF RecordAt

(* No part of a record but its first is a position. *)
LEMMA OnlyFirst ==
  ASSUME NEW s \in Seq(Pieces), NEW g \in Seq(Messages), NEW k \in 1 .. Len(s),
         RecordAt(s, g, k), Entire(s, g, k)
  PROVE  /\ s[k + 1].part = "size"
         /\ \A j \in k + 2 .. EndOf(s, g, k) : s[j].part = "message"
         /\ EndOf(s, g, k) \in Nat /\ EndOf(s, g, k) >= k + 2
<1>1. g[s[k].id].size \in Nat \ {0}
  BY SizeOfMessage DEF RecordAt
<1>2. EndOf(s, g, k) \in Nat /\ EndOf(s, g, k) >= k + 2
  <2>1. PICK z : z = g[s[k].id].size /\ z \in Nat \ {0} /\ EndOf(s, g, k) = k + 1 + z
    BY <1>1 DEF EndOf
  <2> QED
    BY <2>1
<1>3. k + 1 <= Len(s) /\ \A j \in k + 2 .. EndOf(s, g, k) : j <= Len(s)
  BY <1>2 DEF Entire
<1> HIDE DEF EndOf
<1> QED
  BY <1>2, <1>3 DEF RecordAt, Part

(* Every record is all there, but for one that begins at k. *)
EndedBut(s, g, k) == \A i \in 1 .. Len(s) : s[i].part = "pos" /\ i # k => Entire(s, g, i)

(* The handler's three writes. *)
LEMMA PositionWritten ==
  ASSUME NEW s \in Seq(Pieces), NEW t \in Seq(Pieces), NEW g \in Seq(Messages),
         Formed(s, g), EndedBut(s, g, 0), IsLonger(s, t), Len(t) = Len(s) + 1,
         NEW id \in DOMAIN g, NEW pos, t[Len(t)] = Part(id, "pos", pos)
  PROVE  Formed(t, g) /\ EndedBut(t, g, Len(t))
<1>1. ASSUME NEW k \in 1 .. Len(s), t[k].part = "pos"
      PROVE  RecordAt(t, g, k) /\ Entire(t, g, k)
  <2>1. s[k].part = "pos" /\ k # 0
    BY <1>1 DEF IsLonger
  <2>2. RecordAt(s, g, k) /\ Entire(s, g, k)
    BY <2>1 DEF Formed, EndedBut
  <2>3. t[Len(s) + 1].part = "pos"
    BY DEF Part
  <2> QED
    BY <2>2, <2>3, RecordStays
<1>2. RecordAt(t, g, Len(t))
  <2>1. t[Len(t)].id = id
    BY DEF Part
  <2>2. g[id].size \in Nat
    BY SizeOfMessage
  <2>3. EndOf(t, g, Len(t)) \in Nat /\ EndOf(t, g, Len(t)) > Len(t)
    BY <2>1, <2>2 DEF EndOf
  <2> QED
    BY <2>1, <2>3 DEF RecordAt
<1>3. t[1].part = "pos"
  <2>1. CASE Len(s) = 0
    BY <2>1 DEF Part
  <2>2. CASE Len(s) # 0
    BY <2>2 DEF Formed, IsLonger
  <2> QED
    BY <2>1, <2>2
<1>4. \A k \in 1 .. Len(t) : k \in 1 .. Len(s) \/ k = Len(t)
  OBVIOUS
<1> QED
  BY <1>1, <1>2, <1>3, <1>4 DEF Formed, EndedBut

(* The second write: the size.                                             *)
LEMMA LengthWritten ==
  ASSUME NEW s \in Seq(Pieces), NEW t \in Seq(Pieces), NEW g \in Seq(Messages),
         Formed(s, g), EndedBut(s, g, Len(s)), IsLonger(s, t), Len(t) = Len(s) + 1, Len(s) > 0,
         NEW id \in DOMAIN g, NEW pos, s[Len(s)] = Part(id, "pos", pos),
         t[Len(t)] = Part(id, "size", pos)
  PROVE  Formed(t, g) /\ EndedBut(t, g, Len(t) - 1)
<1>1. ASSUME NEW k \in 1 .. Len(s), t[k].part = "pos", k # Len(s)
      PROVE  RecordAt(t, g, k) /\ Entire(t, g, k)
  <2>1. s[k].part = "pos"
    BY <1>1 DEF IsLonger
  <2>2. RecordAt(s, g, k) /\ Entire(s, g, k)
    BY <1>1, <2>1 DEF Formed, EndedBut
  <2>3. EndOf(s, g, k) # Len(s)
    <3>1. s[Len(s)].part = "pos"
      BY DEF Part
    <3> QED
      BY <2>2, <3>1, OnlyFirst
  <2>4. EndOf(s, g, k) < Len(s)
    BY <2>2, <2>3, OnlyFirst DEF Entire
  <2> QED
    BY <2>2, <2>4, RecordStays
<1>2. RecordAt(t, g, Len(s))
  <2>1. t[Len(s)] = Part(id, "pos", pos)
    BY DEF IsLonger
  <2>2. t[Len(s)].id = id /\ t[Len(s)].pos = pos
    BY <2>1 DEF Part
  <2>3. g[id].size \in Nat \ {0}
    BY SizeOfMessage
  <2>4. EndOf(t, g, Len(s)) \in Nat /\ EndOf(t, g, Len(s)) > Len(t)
    BY <2>2, <2>3 DEF EndOf
  <2> QED
    BY <2>2, <2>4 DEF RecordAt
<1>3. t[1].part = "pos"
  BY DEF Formed, IsLonger
<1>4. \A k \in 1 .. Len(t) : t[k].part = "pos" => k \in 1 .. Len(s)
  BY DEF Part
<1> QED
  BY <1>1, <1>2, <1>3, <1>4 DEF Formed, EndedBut

(* The third write: the message, as many bytes as its size says.           *)
LEMMA MessageWritten ==
  ASSUME NEW s \in Seq(Pieces), NEW t \in Seq(Pieces), NEW g \in Seq(Messages),
         Formed(s, g), EndedBut(s, g, Len(s) - 1), IsLonger(s, t), Len(s) > 1,
         NEW id \in DOMAIN g, NEW pos, Len(t) = Len(s) + g[id].size,
         s[Len(s) - 1] = Part(id, "pos", pos), s[Len(s)] = Part(id, "size", pos),
         \A j \in Len(s) + 1 .. Len(t) : t[j] = Part(id, "message", pos)
  PROVE  Formed(t, g) /\ EndedBut(t, g, 0)
<1>0. PICK l : l = Len(s) - 1 /\ l \in 1 .. Len(s)
  OBVIOUS
<1>1. ASSUME NEW k \in 1 .. Len(s), t[k].part = "pos", k # l
      PROVE  RecordAt(t, g, k) /\ Entire(t, g, k)
  <2>1. s[k].part = "pos"
    BY <1>1 DEF IsLonger
  <2>2. RecordAt(s, g, k) /\ Entire(s, g, k)
    BY <1>0, <1>1, <2>1 DEF Formed, EndedBut
  <2>3. EndOf(s, g, k) # Len(s)
    <3>1. s[Len(s)].part = "size"
      BY DEF Part
    <3> QED
      BY <2>2, <3>1, OnlyFirst
  <2>4. EndOf(s, g, k) < Len(s)
    BY <2>2, <2>3, OnlyFirst DEF Entire
  <2> QED
    BY <2>2, <2>4, RecordStays
<1>2. RecordAt(t, g, l) /\ Entire(t, g, l)
  <2>1. t[l] = Part(id, "pos", pos) /\ t[l + 1] = Part(id, "size", pos)
    <3>1. t[l] = s[l]
      BY <1>0 DEF IsLonger
    <3>2. l + 1 = Len(s) /\ t[Len(s)] = s[Len(s)]
      BY <1>0 DEF IsLonger
    <3> QED
      BY <1>0, <3>1, <3>2
  <2>2. t[l].id = id /\ t[l].pos = pos
    BY <2>1 DEF Part
  <2>3. g[id].size \in Nat \ {0}
    BY SizeOfMessage
  <2>4. EndOf(t, g, l) = Len(t)
    BY <1>0, <2>2, <2>3 DEF EndOf
  <2>5. \A j \in l + 2 .. Len(t) : t[j] = Part(id, "message", pos)
    BY <1>0
  <2> QED
    BY <2>1, <2>2, <2>4, <2>5 DEF RecordAt, Entire
<1>3. t[1].part = "pos"
  BY DEF Formed, IsLonger
<1>4. \A k \in 1 .. Len(t) : t[k].part = "pos" => k \in 1 .. Len(s)
  <2>1. \A k \in Len(s) + 1 .. Len(t) : t[k].part # "pos"
    BY DEF Part
  <2>2. \A k \in 1 .. Len(t) : k \in 1 .. Len(s) \/ k \in Len(s) + 1 .. Len(t)
    OBVIOUS
  <2> QED
    BY <2>1, <2>2
<1> QED
  BY <1>1, <1>2, <1>3, <1>4 DEF Formed, EndedBut

(* The first record is forgotten once the event is written.  A position    *)
(* in what is left is d further in what there was.                         *)
LEMMA FirstForgotten ==
  ASSUME NEW s \in Seq(Pieces), NEW t \in Seq(Pieces), NEW g \in Seq(Messages),
         Formed(s, g), Len(s) > 0, Entire(s, g, 1),
         NEW d, d = EndOf(s, g, 1), RestAfter(s, t, d),
         NEW m, NEW n, EndedBut(s, g, m), m > d => n = m - d, m \in Nat
  PROVE  Formed(t, g) /\ EndedBut(t, g, n)
<1>1. RecordAt(s, g, 1) /\ 1 \in 1 .. Len(s)
  BY DEF Formed
<1>2. d \in Nat /\ d >= 3 /\ d <= Len(s)
  BY <1>1, OnlyFirst DEF Entire
<1>0. Len(t) = Len(s) - d /\ \A j \in 1 .. Len(t) : j + d \in 1 .. Len(s) /\ t[j] = s[j + d]
  BY <1>2 DEF RestAfter
<1>3. ASSUME NEW k \in 1 .. Len(t), t[k].part = "pos"
      PROVE  RecordAt(t, g, k) /\ (k # n => Entire(t, g, k))
  <2>1. k + d \in 1 .. Len(s) /\ t[k] = s[k + d]
    BY <1>0
  <2>2. RecordAt(s, g, k + d)
    BY <1>3, <2>1 DEF Formed
  <2>3. PICK z : z = g[t[k].id].size
    OBVIOUS
  <2>4. z \in Nat \ {0}
    BY <2>1, <2>2, <2>3, SizeOfMessage DEF RecordAt
  <2>5. EndOf(t, g, k) = k + 1 + z /\ EndOf(s, g, k + d) = k + d + 1 + z
    BY <2>1, <2>3 DEF EndOf
  <2>6. t[k].id \in DOMAIN g
    BY <2>1, <2>2 DEF RecordAt
  <2>7. ASSUME k + 1 <= Len(t)
        PROVE  t[k + 1] = Part(t[k].id, "size", t[k].pos)
    <3>1. t[k + 1] = s[k + d + 1] /\ k + d + 1 <= Len(s)
      <4>1. k + 1 \in 1 .. Len(t) /\ (k + 1) + d = k + d + 1
        BY <1>2, <2>7
      <4>2. t[k + 1] = s[(k + 1) + d] /\ (k + 1) + d <= Len(s)
        BY <1>0, <4>1
      <4> QED
        BY <4>1, <4>2
    <3> QED
      BY <2>1, <2>2, <3>1 DEF RecordAt
  <2>8. ASSUME NEW j \in k + 2 .. k + 1 + z, j <= Len(t)
        PROVE  t[j] = Part(t[k].id, "message", t[k].pos)
    <3>1. j \in 1 .. Len(t) /\ j + d \in k + d + 2 .. k + d + 1 + z
      BY <1>2, <2>4, <2>8
    <3>2. t[j] = s[j + d] /\ j + d <= Len(s)
      BY <1>0, <3>1
    <3> QED
      BY <2>1, <2>2, <2>5, <3>1, <3>2 DEF RecordAt
  <2>9. ASSUME k + 1 + z + 1 <= Len(t)
        PROVE  t[k + 1 + z + 1].part = "pos"
    <3>1. t[k + 1 + z + 1] = s[k + d + 1 + z + 1] /\ k + d + 1 + z + 1 <= Len(s)
      <4>1. k + 1 + z + 1 \in 1 .. Len(t) /\ (k + 1 + z + 1) + d = k + d + 1 + z + 1
        BY <1>2, <2>4, <2>9
      <4>2. t[k + 1 + z + 1] = s[(k + 1 + z + 1) + d] /\ (k + 1 + z + 1) + d <= Len(s)
        BY <1>0, <4>1
      <4> QED
        BY <4>1, <4>2
    <3> QED
      BY <2>2, <2>5, <3>1 DEF RecordAt
  <2>10. RecordAt(t, g, k)
    BY <2>5, <2>6, <2>7, <2>8, <2>9 DEF RecordAt
  <2>11. k + d = m => k = n
    BY <1>2
  <2>12. k # n => Entire(s, g, k + d)
    BY <1>3, <2>1, <2>11 DEF EndedBut
  <2>13. Entire(s, g, k + d) => Entire(t, g, k)
    BY <1>0, <1>2, <2>4, <2>5 DEF Entire
  <2> QED
    BY <2>10, <2>12, <2>13
<1>4. ASSUME Len(t) > 0
      PROVE  t[1].part = "pos"
  <2>1. d + 1 <= Len(s) /\ t[1] = s[d + 1]
    BY <1>0, <1>2, <1>4
  <2> QED
    BY <1>1, <2>1 DEF RecordAt
<1> QED
  BY <1>3, <1>4 DEF Formed, EndedBut

(* What the callback reads it holds, nothing comes or goes. *)
LEMMA ReadingKeeps ==
  ASSUME NEW a \in Seq(Pieces), NEW b \in Seq(Pieces), NEW n \in 0 .. Len(b)
  PROVE  (a \o rb_read(b, n)) \o rb_skip(b, n) = a \o b
<1>1. Len(b) \in Nat /\ n \in Nat /\ ~(n > Len(b))
  OBVIOUS
<1>2. rb_read(b, n) = SubSeq(b, 1, n) /\ rb_skip(b, n) = SubSeq(b, n + 1, Len(b))
  BY <1>1, Zenon DEF rb_read, rb_skip, Limited, rb_can_read
<1>3. 1 \in 1 .. Len(b) + 1 /\ n \in 1 - 1 .. Len(b) /\ Len(b) \in n .. Len(b)
  BY <1>1
<1>4. SubSeq(b, 1, n) \o SubSeq(b, n + 1, Len(b)) = SubSeq(b, 1, Len(b))
  BY <1>3, ConcatAdjacentSubSeq, Zenon
<1>5. SubSeq(b, 1, Len(b)) = b
  BY SubSeqFull, Zenon
<1>6. SubSeq(b, 1, n) \in Seq(Pieces) /\ SubSeq(b, n + 1, Len(b)) \in Seq(Pieces)
  OBVIOUS
<1>7. PICK x, y : x = SubSeq(b, 1, n) /\ y = SubSeq(b, n + 1, Len(b))
  OBVIOUS
<1>8. x \in Seq(Pieces) /\ y \in Seq(Pieces)
  BY <1>6, <1>7, Zenon
<1>9. (a \o x) \o y = a \o (x \o y)
  <2>1. a \in Seq(Pieces) /\ x \in Seq(Pieces) /\ y \in Seq(Pieces)
    BY <1>1, <1>8
  <2> QED
    BY <2>1, ConcatAssociative, SMTT(30)
<1> QED
  BY <1>2, <1>4, <1>5, <1>7, <1>9, Zenon

------------------------------------------------------------------------------
(* The record that the handler has begun starts there; 0 if it has not.    *)
Begun == CASE handler.at = "size"    -> Len(Pending)
           [] handler.at = "message" -> Len(Pending) - 1
           [] OTHER                  -> 0

BridgeOK ==
  /\ given \in Seq(Messages) /\ rb \in Seq(Pieces) /\ frame \in Nat
  /\ handler \in [at : {"idle", "pos", "size", "message"}, id : Nat, pos : Nat]
  /\ process_in \in [at : {"idle", "loop", "size", "message", "write"}, got : Seq(Pieces)]
  /\ handler.at # "idle" => handler.id \in DOMAIN given

WellFormed == Formed(Pending, given) /\ EndedBut(Pending, given, Begun)

(* The handler goes on where it was. *)
LastPieces ==
  /\ handler.at = "size" =>
       /\ Len(Pending) > 0
       /\ Pending[Len(Pending)] = Part(handler.id, "pos", handler.pos)
  /\ handler.at = "message" =>
       /\ Len(Pending) > 1
       /\ Pending[Len(Pending) - 1] = Part(handler.id, "pos", handler.pos)
       /\ Pending[Len(Pending)] = Part(handler.id, "size", handler.pos)

(* The space that was there when a message came is there until it is       *)
(* written: the callback only makes more of it.                            *)
SpaceLeft(n) == given[handler.id].size + n <= BridgeCapacity - Len(rb)

Room == /\ handler.at = "pos"     => SpaceLeft(2)
        /\ handler.at = "size"    => SpaceLeft(1)
        /\ handler.at = "message" => SpaceLeft(0)

(* The callback reads a record that is all there. *)
Held ==
  /\ running # "in" => process_in.at = "idle"
  /\ process_in.at \in {"idle", "loop"} => process_in.got = <<>>
  /\ process_in.at \in {"size", "message", "write"} =>
       Len(Pending) > 0 /\ Entire(Pending, given, 1)
  /\ process_in.at = "size"    => Len(process_in.got) = 1
  /\ process_in.at = "message" => Len(process_in.got) = 2
  /\ process_in.at = "write"   => Len(process_in.got) = EndOf(Pending, given, 1)

OscInv == BridgeOK /\ WellFormed /\ LastPieces /\ Room /\ Held

(* What the callback holds is the beginning of what is pending. *)
LEMMA PendingParts ==
  ASSUME BridgeOK
  PROVE  /\ Pending \in Seq(Pieces)
         /\ Len(Pending) = Len(process_in.got) + Len(rb)
         /\ \A j \in 1 .. Len(process_in.got) : Pending[j] = process_in.got[j]
         /\ \A j \in 1 .. Len(rb) : Pending[Len(process_in.got) + j] = rb[j]
         /\ process_in.got = <<>> => Pending = rb
<1>1. PICK a, b : a = process_in.got /\ b = rb
  OBVIOUS
<1>2. a \in Seq(Pieces) /\ b \in Seq(Pieces) /\ Pending = a \o b
  BY <1>1 DEF BridgeOK, Pending
<1>3. a \o b \in Seq(Pieces) /\ Len(a \o b) = Len(a) + Len(b)
  BY <1>2
<1>4. \A j \in 1 .. Len(a) : (a \o b)[j] = a[j]
  BY <1>2
<1>5. \A j \in 1 .. Len(b) : (a \o b)[Len(a) + j] = b[j]
  BY <1>2
<1>6. a = <<>> => a \o b = b
  BY <1>2, ConcatEmptySeq
<1> QED
  BY <1>1, <1>2, <1>3, <1>4, <1>5, <1>6, Zenon

(* What the callback holds when it writes an event is one record.          *)
LEMMA HeldIsWhole == OscInv => RecordsWhole
<1> SUFFICES ASSUME OscInv, process_in.got # <<>>
             PROVE  LET r == Record(process_in.got[1].id, process_in.got[1].pos)
                    IN  /\ IsPrefix(process_in.got, r)
                        /\ process_in.at = "write" => process_in.got = r
  BY DEF RecordsWhole
<1>1. PICK a, s : a = process_in.got /\ s = Pending
  OBVIOUS
<1>2. PICK g : g = given
  OBVIOUS
<1>3. a \in Seq(Pieces) /\ s \in Seq(Pieces) /\ g \in Seq(Messages)
  BY <1>1, <1>2, PendingParts DEF OscInv, BridgeOK
<1>4. /\ process_in.at \in {"size", "message", "write"}
      /\ Len(s) > 0 /\ Entire(s, g, 1) /\ Formed(s, g)
  BY <1>1, <1>2 DEF OscInv, Held, BridgeOK, WellFormed
<1>5. RecordAt(s, g, 1) /\ 1 \in 1 .. Len(s)
  BY <1>3, <1>4 DEF Formed
<1>6. PICK id, pos, n : id = s[1].id /\ pos = s[1].pos /\ n = g[id].size
  OBVIOUS
<1>7. n \in Nat \ {0} /\ EndOf(s, g, 1) = n + 2
  <2>1. id \in DOMAIN g
    BY <1>5, <1>6 DEF RecordAt
  <2>2. n \in Nat \ {0}
    BY <1>3, <1>6, <2>1, SizeOfMessage
  <2> QED
    BY <1>6, <2>2 DEF EndOf
<1>8. Len(a) > 0 /\ Len(a) <= n + 2 /\ (process_in.at = "write" => Len(a) = n + 2)
  <2>1. process_in.at = "size" => Len(a) = 1
    BY <1>1 DEF OscInv, Held
  <2>2. process_in.at = "message" => Len(a) = 2
    BY <1>1 DEF OscInv, Held
  <2>3. process_in.at = "write" => Len(a) = n + 2
    BY <1>1, <1>2, <1>7 DEF OscInv, Held
  <2>4. Len(a) = 1 \/ Len(a) = 2 \/ Len(a) = n + 2
    BY <1>4, <2>1, <2>2, <2>3
  <2>5. n \in Nat \ {0}
    BY <1>7
  <2>6. Len(a) > 0 /\ Len(a) <= n + 2
    <3>1. PICK l : l = Len(a)
      OBVIOUS
    <3>2. l = 1 \/ l = 2 \/ l = n + 2
      BY <2>4, <3>1
    <3>3. l > 0 /\ l <= n + 2
      BY <2>5, <3>2
    <3> QED
      BY <3>1, <3>3
  <2> QED
    BY <2>3, <2>6
<1>9. Len(s) >= n + 2 /\ Len(a) <= Len(s)
  BY <1>4, <1>7, <1>8 DEF Entire
<1>10. \A j \in 1 .. Len(a) : a[j] = s[j]
  BY <1>1, PendingParts DEF OscInv
<1>11. s[1] = Part(id, "pos", pos)
  <2>1. s[1] \in Pieces /\ s[1].part = "pos"
    BY <1>3, <1>4, <1>5 DEF Formed
  <2> QED
    BY <1>6, <2>1 DEF Part, Pieces
<1>12. s[2] = Part(id, "size", pos)
  <2>1. 1 + 1 <= Len(s)
    BY <1>3, <1>7, <1>9
  <2> QED
    BY <1>5, <1>6, <2>1 DEF RecordAt
<1>13. \A j \in 3 .. n + 2 : s[j] = Part(id, "message", pos)
  <2>1. \A j \in 1 + 2 .. EndOf(s, g, 1) : j <= Len(s) => s[j] = Part(id, "message", pos)
    BY <1>5, <1>6 DEF RecordAt
  <2> QED
    BY <1>3, <1>7, <1>9, <2>1
<1>14. PICK r : r = Record(id, pos)
  OBVIOUS
<1>15. r \in Seq(Pieces) /\ Len(r) = n + 2 /\ \A j \in 1 .. n + 2 : r[j] = s[j]
  <2>1. PICK c, e : c = <<Part(id, "pos", pos), Part(id, "size", pos)>>
                    /\ e = [u \in 1 .. n |-> Part(id, "message", pos)]
    OBVIOUS
  <2>2. id \in Nat /\ pos \in Nat
    <3>1. s[1] \in Pieces
      BY <1>3, <1>5
    <3> QED
      BY <1>6, <3>1 DEF Pieces
  <2>3. \A p \in {"pos", "size", "message"} : Part(id, p, pos) \in Pieces
    BY <2>2 DEF Part, Pieces
  <2>4. c \in Seq(Pieces) /\ Len(c) = 2 /\ c[1] = Part(id, "pos", pos) /\ c[2] = Part(id, "size", pos)
    BY <2>1, <2>3
  <2>5. e \in Seq(Pieces) /\ Len(e) = n /\ \A u \in 1 .. n : e[u] = Part(id, "message", pos)
    BY <1>7, <2>1, <2>3
  <2>6. r = c \o e
    BY <1>2, <1>6, <1>14, <2>1 DEF Record, Body
  <2>a. n \in Nat
    BY <1>7
  <2>b. /\ c \o e \in Seq(Pieces) /\ Len(c \o e) = Len(c) + Len(e)
        /\ \A j \in 1 .. Len(c) + Len(e) :
             (c \o e)[j] = IF j <= Len(c) THEN c[j] ELSE e[j - Len(c)]
    <3>1. c \in Seq(Pieces) /\ e \in Seq(Pieces)
      BY <2>4, <2>5
    <3> QED
      BY <3>1, ConcatProperties, Zenon
  <2>7. /\ c \o e \in Seq(Pieces) /\ Len(c \o e) = n + 2
        /\ \A j \in 1 .. n + 2 : (c \o e)[j] = IF j <= 2 THEN c[j] ELSE e[j - 2]
    <3>1. Len(c) = 2 /\ Len(e) = n
      BY <2>4, <2>5
    <3>2. 2 + n = n + 2
      BY <2>a
    <3> QED
      BY <2>b, <3>1, <3>2
  <2>8. (c \o e)[1] = c[1] /\ (c \o e)[2] = c[2]
    BY <2>7, <2>a
  <2>9. ASSUME NEW j \in 3 .. n + 2
        PROVE  (c \o e)[j] = s[j]
    <3>1. j - 2 \in 1 .. n /\ j \in 1 .. n + 2 /\ ~(j <= 2)
      BY <2>a
    <3>2. (c \o e)[j] = e[j - 2]
      BY <2>7, <3>1
    <3>3. e[j - 2] = Part(id, "message", pos)
      BY <2>5, <3>1
    <3> QED
      BY <1>13, <3>2, <3>3
  <2>10. \A j \in 1 .. n + 2 : j = 1 \/ j = 2 \/ j \in 3 .. n + 2
    BY <1>7
  <2> QED
    BY <1>7, <1>11, <1>12, <2>4, <2>6, <2>7, <2>8, <2>9, <2>10
<1>16. Len(a) <= Len(r) /\ \A j \in 1 .. Len(a) : a[j] = r[j]
  BY <1>3, <1>7, <1>8, <1>10, <1>15
<1>17. IsPrefix(a, r)
  BY <1>3, <1>15, <1>16 DEF IsPrefix
<1>18. process_in.at = "write" => a = r
  BY <1>3, <1>8, <1>15, <1>16, SeqEqual
<1>19. a[1].id = id /\ a[1].pos = pos
  BY <1>3, <1>6, <1>8, <1>10
<1> QED
  BY <1>1, <1>14, <1>17, <1>18, <1>19

------------------------------------------------------------------------------
(* Each step. *)

(* The bridge begins with nothing given.                                   *)
LEMMA OscInvInit == OscInit => OscInv
<1> SUFFICES ASSUME OscInit
             PROVE  OscInv
  OBVIOUS
<1>1. BridgeOK
  BY DEF OscInit, BridgeOK
<1>2. Pending = <<>>
  BY DEF OscInit, Pending
<1>3. WellFormed
  BY <1>2 DEF WellFormed, Formed, EndedBut
<1> QED
  BY <1>1, <1>3 DEF OscInit, OscInv, LastPieces, Room, Held

(* A message that arrives changes none of those that came before. *)
LEMMA GivenGrows ==
  ASSUME NEW g \in Seq(Messages), NEW m \in Messages, NEW s \in Seq(Pieces)
  PROVE  /\ \A i \in DOMAIN g : i \in DOMAIN Append(g, m) /\ Append(g, m)[i] = g[i]
         /\ Formed(s, g) => Formed(s, Append(g, m))
         /\ \A k : Formed(s, g) /\ EndedBut(s, g, k) => EndedBut(s, Append(g, m), k)
<1>1. \A i \in DOMAIN g : i \in DOMAIN Append(g, m) /\ Append(g, m)[i] = g[i]
  OBVIOUS
<1>2. PICK h : h = Append(g, m)
  OBVIOUS
<1>3. \A i \in DOMAIN g : i \in DOMAIN h /\ h[i] = g[i]
  BY <1>1, <1>2
<1>4. ASSUME NEW k \in 1 .. Len(s), RecordAt(s, g, k)
      PROVE  RecordAt(s, h, k) /\ EndOf(s, h, k) = EndOf(s, g, k)
  BY <1>3, <1>4 DEF RecordAt, EndOf
<1>5. Formed(s, g) => Formed(s, h)
  BY <1>4 DEF Formed
<1>6. \A k : Formed(s, g) /\ EndedBut(s, g, k) => EndedBut(s, h, k)
  BY <1>4 DEF Formed, EndedBut, Entire
<1> QED
  BY <1>1, <1>2, <1>5, <1>6

(* A message arrives; the handler begins if there is room for its record.  *)
LEMMA ArrivesKeeps == ASSUME NEW m \in Messages, OscInv, Arrives(m) PROVE OscInv'
<1>1. PICK g, s : g = given /\ s = Pending
  OBVIOUS
<1>2. g \in Seq(Messages) /\ s \in Seq(Pieces) /\ handler.at = "idle"
  BY <1>1, PendingParts DEF OscInv, BridgeOK, Arrives
<1>3. /\ given' = Append(g, m) /\ Pending' = s
      /\ UNCHANGED <<rb, process_in, frame, running>>
  BY <1>1 DEF Arrives, Pending
<1>4. Formed(s, g) /\ EndedBut(s, g, 0)
  BY <1>1, <1>2 DEF OscInv, WellFormed, Begun
<1>5. Formed(s, Append(g, m)) /\ EndedBut(s, Append(g, m), 0)
  BY <1>2, <1>4, GivenGrows
<1>6. handler' = handler \/ (handler' = [at |-> "pos", id |-> Len(g) + 1, pos |-> frame] /\ Fits(m))
  BY <1>1 DEF Arrives, frames_since_cycle_start
<1>7. BridgeOK'
  <2>1. Append(g, m) \in Seq(Messages) /\ Len(g) + 1 \in DOMAIN Append(g, m) /\ Len(g) + 1 \in Nat
    BY <1>2
  <2> QED
    BY <1>2, <1>3, <1>6, <2>1 DEF OscInv, BridgeOK
<1>8. handler'.at \in {"idle", "pos"}
  BY <1>2, <1>6
<1>9. WellFormed'
  <2>1. Begun' = 0
    BY <1>8 DEF Begun
  <2> QED
    BY <1>3, <1>5, <2>1 DEF WellFormed
<1>10. LastPieces'
  BY <1>8 DEF LastPieces
<1>11. Room'
  <2>1. CASE handler' = handler
    BY <1>2, <2>1 DEF Room
  <2>2. CASE handler' = [at |-> "pos", id |-> Len(g) + 1, pos |-> frame] /\ Fits(m)
    <3>1. given'[handler'.id] = m
      BY <1>2, <1>3, <2>2
    <3>2. SpaceLeft(2)'
      BY <1>3, <2>2, <3>1 DEF SpaceLeft, Fits, rb_can_write
    <3> QED
      BY <2>2, <3>2 DEF Room
  <2> QED
    BY <1>6, <2>1, <2>2
<1>12. Held'
  <2>1. ASSUME Len(s) > 0
        PROVE  EndOf(s, Append(g, m), 1) = EndOf(s, g, 1)
    <3>1. s[1].id \in DOMAIN g
      BY <1>2, <1>4, <2>1 DEF Formed, RecordAt
    <3> QED
      BY <1>2, <3>1, GivenGrows DEF EndOf
  <2> QED
    BY <1>1, <1>3, <2>1 DEF OscInv, Held, Entire
<1> QED
  BY <1>7, <1>9, <1>10, <1>11, <1>12 DEF OscInv

(* rb_write of a piece for which there is room: it comes behind all that   *)
(* is pending.                                                             *)
LEMMA PieceWritten ==
  ASSUME BridgeOK, NEW piece \in Seq(Pieces), Len(piece) <= BridgeCapacity - Len(rb),
         rb' = rb_write(rb, BridgeCapacity, piece), process_in' = process_in
  PROVE  /\ rb' \in Seq(Pieces) /\ Len(rb') = Len(rb) + Len(piece)
         /\ Pending' \in Seq(Pieces) /\ Len(Pending') = Len(Pending) + Len(piece)
         /\ IsLonger(Pending, Pending')
         /\ \A j \in 1 .. Len(piece) : Pending'[Len(Pending) + j] = piece[j]
<1>1. PICK a, b, c : a = process_in.got /\ b = rb /\ c = rb'
  OBVIOUS
<1>2. a \in Seq(Pieces) /\ b \in Seq(Pieces)
  BY <1>1 DEF BridgeOK
<1>3. c = b \o piece
  <2>1. Len(piece) \in Nat /\ Len(b) \in Nat /\ BridgeCapacity \in Nat
    BY <1>2, OscAssumption DEF OscAssumption
  <2>2. ~(Len(piece) > BridgeCapacity - Len(b))
    BY <1>1, <2>1
  <2>3. SubSeq(piece, 1, Len(piece)) = piece
    BY SubSeqFull, Zenon
  <2> QED
    BY <1>1, <2>2, <2>3, Zenon DEF rb_write, rb_can_write, Limited
<1>4. c \in Seq(Pieces) /\ Len(c) = Len(b) + Len(piece)
  BY <1>2, <1>3, ConcatProperties
<1>5. PICK s, t : s = a \o b /\ t = a \o c
  OBVIOUS
<1>6. s \in Seq(Pieces) /\ t = s \o piece
  <2>1. a \o b \in Seq(Pieces)
    BY <1>2, ConcatProperties
  <2>2. (a \o b) \o piece = a \o (b \o piece)
    BY <1>2, ConcatAssociative, SMTT(30)
  <2> QED
    BY <1>3, <1>5, <2>1, <2>2, Zenon
<1>7. t \in Seq(Pieces) /\ Len(t) = Len(s) + Len(piece)
  BY <1>6, ConcatProperties
<1>8. \A j \in 1 .. Len(s) : t[j] = s[j]
  BY <1>6
<1>9. \A j \in 1 .. Len(piece) : t[Len(s) + j] = piece[j]
  BY <1>6
<1>10. IsLonger(s, t)
  BY <1>6, <1>7, <1>8 DEF IsLonger
<1>11. Pending = s /\ Pending' = t
  BY <1>1, <1>5 DEF Pending
<1> QED
  BY <1>1, <1>4, <1>6, <1>7, <1>9, <1>10, <1>11, Zenon


(* The callback's record stays where it is when more comes behind it. *)
LEMMA HeldStays ==
  ASSUME OscInv, IsLonger(Pending, Pending'), Pending' \in Seq(Pieces),
         UNCHANGED <<given, process_in, running>>
  PROVE  Held'
<1>1. PICK s, t, g : s = Pending /\ t = Pending' /\ g = given
  OBVIOUS
<1>2. s \in Seq(Pieces) /\ t \in Seq(Pieces) /\ IsLonger(s, t) /\ g \in Seq(Messages)
  BY <1>1, PendingParts DEF OscInv, BridgeOK
<1>3. ASSUME Len(s) > 0, Entire(s, g, 1)
      PROVE  Len(t) > 0 /\ Entire(t, g, 1) /\ EndOf(t, g, 1) = EndOf(s, g, 1)
  <2>0. Len(s) \in Nat /\ Len(t) \in Nat /\ Len(s) > 0
    BY <1>2, <1>3
  <2>1. Len(t) >= Len(s) /\ t[1] = s[1]
    <3>1. Len(s) <= Len(t) /\ \A i \in 1 .. Len(s) : t[i] = s[i]
      BY <1>2 DEF IsLonger
    <3>2. 1 \in 1 .. Len(s)
      BY <2>0
    <3> QED
      BY <2>0, <3>1, <3>2
  <2>2. s[1].id \in DOMAIN g
    BY <1>1, <1>2, <1>3 DEF OscInv, WellFormed, Formed, RecordAt
  <2>3. g[s[1].id].size \in Nat
    BY <1>2, <2>2, SizeOfMessage
  <2>4. EndOf(t, g, 1) = EndOf(s, g, 1) /\ EndOf(s, g, 1) \in Nat
    BY <2>1, <2>3 DEF EndOf
  <2> QED
    BY <1>2, <1>3, <2>1, <2>4 DEF Entire
<1> QED
  BY <1>1, <1>3 DEF OscInv, Held

(* The handler makes one of its three writes.                              *)
LEMMA HandlerKeeps == OscInv /\ default_msg_handler => OscInv'
<1> SUFFICES ASSUME OscInv, default_msg_handler
             PROVE  OscInv'
  OBVIOUS
<1>0. PICK id, pos, n, g : id = handler.id /\ pos = handler.pos /\ g = given /\ n = g[id].size
  OBVIOUS
<1>1. /\ g \in Seq(Messages) /\ id \in DOMAIN g /\ id \in Nat /\ pos \in Nat
      /\ Pending \in Seq(Pieces) /\ BridgeOK
      /\ handler.at \in {"pos", "size", "message"}
  BY <1>0, PendingParts DEF OscInv, BridgeOK, default_msg_handler
<1>2. n \in Nat \ {0}
  BY <1>0, <1>1, SizeOfMessage
<1>3. UNCHANGED <<given, process_in, frame, running>>
  BY DEF default_msg_handler
<1>4. \A p \in {"pos", "size", "message"} : Part(id, p, pos) \in Pieces
  BY <1>1 DEF Part, Pieces
<1>5. PICK s, t : s = Pending /\ t = Pending'
  OBVIOUS
<1>6. Formed(s, g) /\ s \in Seq(Pieces)
  BY <1>0, <1>1, <1>5 DEF OscInv, WellFormed
<1>7. rb \in Seq(Pieces) /\ Len(rb) \in Nat /\ BridgeCapacity \in Nat
  BY OscAssumption DEF OscInv, BridgeOK, OscAssumption
<1>8. CASE handler.at = "pos"
  <2>1. PICK piece : piece = <<Part(id, "pos", pos)>>
    OBVIOUS
  <2>2. rb' = rb_write(rb, BridgeCapacity, piece) /\ handler' = [handler EXCEPT !.at = "size"]
    BY <1>0, <1>8, <2>1 DEF default_msg_handler
  <2>3. piece \in Seq(Pieces) /\ Len(piece) = 1 /\ piece[1] = Part(id, "pos", pos)
    BY <1>4, <2>1
  <2>4. n + 2 <= BridgeCapacity - Len(rb)
    BY <1>0, <1>8 DEF OscInv, Room, SpaceLeft
  <2>5. Len(piece) <= BridgeCapacity - Len(rb)
    BY <1>2, <1>7, <2>3, <2>4
  <2>6. /\ rb' \in Seq(Pieces) /\ Len(rb') = Len(rb) + 1
        /\ t \in Seq(Pieces) /\ Len(t) = Len(s) + 1 /\ IsLonger(s, t)
        /\ t[Len(s) + 1] = Part(id, "pos", pos)
    <3>1. /\ rb' \in Seq(Pieces) /\ Len(rb') = Len(rb) + Len(piece)
          /\ Pending' \in Seq(Pieces) /\ Len(Pending') = Len(Pending) + Len(piece)
          /\ IsLonger(Pending, Pending')
          /\ \A j \in 1 .. Len(piece) : Pending'[Len(Pending) + j] = piece[j]
      BY <1>1, <1>3, <2>2, <2>3, <2>5, PieceWritten
    <3>2. 1 \in 1 .. Len(piece)
      BY <2>3
    <3> QED
      BY <1>5, <2>3, <3>1, <3>2
  <2>7. handler'.at = "size" /\ handler'.id = id /\ handler'.pos = pos
        /\ handler' \in [at : {"idle", "pos", "size", "message"}, id : Nat, pos : Nat]
    BY <1>0, <2>2 DEF OscInv, BridgeOK
  <2>8. EndedBut(s, g, 0)
    BY <1>0, <1>5, <1>8 DEF OscInv, WellFormed, Begun
  <2>9. Formed(t, g) /\ EndedBut(t, g, Len(t))
    BY <1>1, <1>6, <2>6, <2>8, PositionWritten
  <2>10. BridgeOK'
    BY <1>0, <1>1, <1>3, <2>6, <2>7 DEF BridgeOK
  <2>11. WellFormed'
    BY <1>0, <1>3, <1>5, <2>7, <2>9 DEF WellFormed, Begun
  <2>12. LastPieces'
    BY <1>5, <1>6, <2>6, <2>7 DEF LastPieces
  <2>13. Room'
    <3>1. PICK r, q, c : r = Len(rb) /\ q = Len(rb') /\ c = BridgeCapacity
      OBVIOUS
    <3>2. r \in Nat /\ c \in Nat /\ q = r + 1 /\ n + 2 <= c - r
      BY <1>7, <2>4, <2>6, <3>1
    <3>3. n + 1 <= c - q
      BY <1>2, <3>2
    <3>4. handler'.at = "size" /\ handler'.id = id /\ given' = g
      BY <1>0, <1>3, <2>7
    <3>5. SpaceLeft(1)'
      BY <1>0, <3>1, <3>3, <3>4 DEF SpaceLeft
    <3> QED
      BY <3>4, <3>5 DEF Room
  <2>14. Held'
    BY <1>3, <1>5, <2>6, HeldStays
  <2> QED
    BY <2>10, <2>11, <2>12, <2>13, <2>14 DEF OscInv
<1>9. CASE handler.at = "size"
  <2>1. PICK piece : piece = <<Part(id, "size", pos)>>
    OBVIOUS
  <2>2. rb' = rb_write(rb, BridgeCapacity, piece) /\ handler' = [handler EXCEPT !.at = "message"]
    BY <1>0, <1>9, <2>1 DEF default_msg_handler
  <2>3. piece \in Seq(Pieces) /\ Len(piece) = 1 /\ piece[1] = Part(id, "size", pos)
    BY <1>4, <2>1
  <2>4. n + 1 <= BridgeCapacity - Len(rb)
    BY <1>0, <1>9 DEF OscInv, Room, SpaceLeft
  <2>5. Len(piece) <= BridgeCapacity - Len(rb)
    BY <1>2, <1>7, <2>3, <2>4
  <2>6. /\ rb' \in Seq(Pieces) /\ Len(rb') = Len(rb) + 1
        /\ t \in Seq(Pieces) /\ Len(t) = Len(s) + 1 /\ IsLonger(s, t)
        /\ t[Len(s) + 1] = Part(id, "size", pos)
    <3>1. /\ rb' \in Seq(Pieces) /\ Len(rb') = Len(rb) + Len(piece)
          /\ Pending' \in Seq(Pieces) /\ Len(Pending') = Len(Pending) + Len(piece)
          /\ IsLonger(Pending, Pending')
          /\ \A j \in 1 .. Len(piece) : Pending'[Len(Pending) + j] = piece[j]
      BY <1>1, <1>3, <2>2, <2>3, <2>5, PieceWritten
    <3>2. 1 \in 1 .. Len(piece)
      BY <2>3
    <3> QED
      BY <1>5, <2>3, <3>1, <3>2
  <2>7. handler'.at = "message" /\ handler'.id = id /\ handler'.pos = pos
        /\ handler' \in [at : {"idle", "pos", "size", "message"}, id : Nat, pos : Nat]
    BY <1>0, <2>2 DEF OscInv, BridgeOK
  <2>8. EndedBut(s, g, Len(s)) /\ Len(s) > 0 /\ s[Len(s)] = Part(id, "pos", pos)
    BY <1>0, <1>5, <1>9 DEF OscInv, WellFormed, LastPieces, Begun
  <2>9. Formed(t, g) /\ EndedBut(t, g, Len(t) - 1)
    BY <1>1, <1>6, <2>6, <2>8, LengthWritten
  <2>10. BridgeOK'
    BY <1>0, <1>1, <1>3, <2>6, <2>7 DEF BridgeOK
  <2>11. WellFormed'
    BY <1>0, <1>3, <1>5, <2>7, <2>9 DEF WellFormed, Begun
  <2>12. LastPieces'
    <3>1. Len(t) > 1 /\ Len(t) - 1 = Len(s) /\ t[Len(s)] = s[Len(s)]
      BY <1>6, <2>6, <2>8 DEF IsLonger
    <3> QED
      BY <1>5, <1>6, <2>6, <2>7, <2>8, <3>1 DEF LastPieces
  <2>13. Room'
    <3>1. PICK r, q, c : r = Len(rb) /\ q = Len(rb') /\ c = BridgeCapacity
      OBVIOUS
    <3>2. r \in Nat /\ c \in Nat /\ q = r + 1 /\ n + 1 <= c - r
      BY <1>7, <2>4, <2>6, <3>1
    <3>3. n + 0 <= c - q
      BY <1>2, <3>2
    <3>4. handler'.at = "message" /\ handler'.id = id /\ given' = g
      BY <1>0, <1>3, <2>7
    <3>5. SpaceLeft(0)'
      BY <1>0, <3>1, <3>3, <3>4 DEF SpaceLeft
    <3> QED
      BY <3>4, <3>5 DEF Room
  <2>14. Held'
    BY <1>3, <1>5, <2>6, HeldStays
  <2> QED
    BY <2>10, <2>11, <2>12, <2>13, <2>14 DEF OscInv
<1>10. CASE handler.at = "message"
  <2>1. PICK piece : piece = [u \in 1 .. n |-> Part(id, "message", pos)]
    OBVIOUS
  <2>2. rb' = rb_write(rb, BridgeCapacity, piece) /\ handler' = [handler EXCEPT !.at = "idle"]
    BY <1>0, <1>10, <2>1 DEF default_msg_handler, Body
  <2>3. /\ piece \in Seq(Pieces) /\ Len(piece) = n
        /\ \A u \in 1 .. n : piece[u] = Part(id, "message", pos)
    BY <1>2, <1>4, <2>1
  <2>4. Len(piece) <= BridgeCapacity - Len(rb)
    BY <1>0, <1>2, <1>7, <1>10, <2>3 DEF OscInv, Room, SpaceLeft
  <2>6. /\ rb' \in Seq(Pieces)
        /\ t \in Seq(Pieces) /\ Len(t) = Len(s) + n /\ IsLonger(s, t)
        /\ \A u \in 1 .. n : t[Len(s) + u] = Part(id, "message", pos)
    BY <1>1, <1>3, <1>5, <2>2, <2>3, <2>4, PieceWritten
  <2>7. handler'.at = "idle"
        /\ handler' \in [at : {"idle", "pos", "size", "message"}, id : Nat, pos : Nat]
    BY <1>0, <2>2 DEF OscInv, BridgeOK
  <2>8. /\ EndedBut(s, g, Len(s) - 1) /\ Len(s) > 1
        /\ s[Len(s) - 1] = Part(id, "pos", pos) /\ s[Len(s)] = Part(id, "size", pos)
    BY <1>0, <1>5, <1>10 DEF OscInv, WellFormed, LastPieces, Begun
  <2>a. \A j \in Len(s) + 1 .. Len(t) : t[j] = Part(id, "message", pos)
    <3> TAKE j \in Len(s) + 1 .. Len(t)
    <3>1. j - Len(s) \in 1 .. n /\ Len(s) + (j - Len(s)) = j
      BY <1>2, <1>6, <2>6
    <3> QED
      BY <2>6, <3>1
  <2>9. Formed(t, g) /\ EndedBut(t, g, 0)
    BY <1>0, <1>1, <1>6, <2>6, <2>8, <2>a, MessageWritten
  <2>10. BridgeOK'
    BY <1>0, <1>1, <1>3, <2>6, <2>7 DEF BridgeOK
  <2>11. WellFormed'
    BY <1>0, <1>3, <1>5, <2>7, <2>9 DEF WellFormed, Begun
  <2>12. LastPieces' /\ Room'
    BY <2>7 DEF LastPieces, Room
  <2>14. Held'
    BY <1>3, <1>5, <2>6, HeldStays
  <2> QED
    BY <2>10, <2>11, <2>12, <2>14 DEF OscInv
<1> QED
  BY <1>1, <1>8, <1>9, <1>10

(* rb_read of n parts that are there: what is pending stays as it is. *)
LEMMA PartsRead ==
  ASSUME OscInv, NEW n \in 1 .. Len(rb), NEW next, Reads(n, next),
         next \in {"size", "message", "write"}, process_in.at # "idle",
         Len(Pending) > 0, Entire(Pending, given, 1),
         next = "size" => Len(process_in.got) + n = 1,
         next = "message" => Len(process_in.got) + n = 2,
         next = "write" => Len(process_in.got) + n = EndOf(Pending, given, 1)
  PROVE  OscInv'
<1>1. PICK a, b, x, y : a = process_in.got /\ b = rb /\ x = rb_read(rb, n) /\ y = rb_skip(rb, n)
  OBVIOUS
<1>2. a \in Seq(Pieces) /\ b \in Seq(Pieces) /\ n \in 1 .. Len(b)
  BY <1>1 DEF OscInv, BridgeOK
<1>3. /\ process_in' = [at |-> next, got |-> a \o x] /\ rb' = y
      /\ UNCHANGED <<given, handler, frame, running>>
  BY <1>1 DEF Reads
<1>4. Pending' = Pending
  <2>1. n \in 0 .. Len(b)
    BY <1>2
  <2>2. (a \o x) \o y = a \o b
    BY <1>1, <1>2, <2>1, ReadingKeeps, Zenon
  <2> QED
    BY <1>1, <1>3, <2>2 DEF Pending
<1>5. /\ x \in Seq(Pieces) /\ Len(x) = n /\ y \in Seq(Pieces) /\ Len(y) = Len(b) - n
  <2>1. ~(n > Len(b))
    BY <1>2
  <2>2. x = SubSeq(b, 1, n) /\ y = SubSeq(b, n + 1, Len(b))
    BY <1>1, <2>1, Zenon DEF rb_read, rb_skip, Limited, rb_can_read
  <2> QED
    BY <1>2, <2>2
<1>6. a \o x \in Seq(Pieces) /\ Len(a \o x) = Len(a) + n
  <2>1. a \o x \in Seq(Pieces) /\ Len(a \o x) = Len(a) + Len(x)
    <3>1. a \in Seq(Pieces) /\ x \in Seq(Pieces)
      BY <1>2, <1>5
    <3> QED
      BY <3>1, ConcatProperties, Zenon
  <2> QED
    BY <1>5, <2>1, Zenon
<1>7. BridgeOK'
  BY <1>3, <1>5, <1>6 DEF OscInv, BridgeOK
<1>8. WellFormed' /\ LastPieces'
  BY <1>3, <1>4 DEF OscInv, WellFormed, LastPieces, Begun
<1>9. Room'
  <2>1. \A i \in {0, 1, 2} : handler.at # "idle" /\ SpaceLeft(i) => SpaceLeft(i)'
    <3> SUFFICES ASSUME NEW i \in {0, 1, 2}, handler.at # "idle", SpaceLeft(i)
                 PROVE  SpaceLeft(i)'
      OBVIOUS
    <3>1. given[handler.id].size \in Nat
      BY SizeOfMessage DEF OscInv, BridgeOK
    <3>2. PICK z, l, k : z = given[handler.id].size /\ l = Len(b) /\ k = Len(y)
      OBVIOUS
    <3>3. z + i <= BridgeCapacity - l /\ l \in Nat /\ k = l - n /\ z \in Nat
      BY <1>1, <1>2, <1>5, <3>1, <3>2 DEF SpaceLeft
    <3>4. z + i <= BridgeCapacity - k
      BY <1>2, <3>3, OscAssumption DEF OscAssumption
    <3> QED
      BY <1>3, <3>2, <3>4 DEF SpaceLeft
  <2>2. Room
    BY DEF OscInv
  <2> QED
    BY <1>3, <2>1, <2>2 DEF Room
<1>10. Held'
  BY <1>1, <1>3, <1>4, <1>6 DEF OscInv, Held
<1> QED
  BY <1>7, <1>8, <1>9, <1>10 DEF OscInv

(* What process looks at is enough: a record is there as a whole when more *)
(* than the header is.                                                     *)
LEMMA PositionKeeps == OscInv /\ ReadsPosition => OscInv'
<1> SUFFICES ASSUME OscInv, ReadsPosition
             PROVE  OscInv'
  OBVIOUS
<1>1. process_in.at = "loop" /\ process_in.got = <<>> /\ Len(rb) > 2 /\ Reads(1, "size")
  BY DEF ReadsPosition, MoreToRead, rb_can_read, OscInv, Held
<1>2. Pending = rb /\ rb \in Seq(Pieces)
  BY <1>1, PendingParts DEF OscInv, BridgeOK
<1>3. Begun # 1
  <2>1. PICK l : l = Len(Pending)
    OBVIOUS
  <2>2. l \in Nat /\ l > 2
    BY <1>1, <1>2, <2>1
  <2>3. Begun \in {l, l - 1, 0}
    BY <2>1 DEF Begun
  <2> QED
    BY <2>2, <2>3
<1>4. Entire(Pending, given, 1) /\ Len(Pending) > 0
  BY <1>1, <1>2, <1>3 DEF OscInv, WellFormed, Formed, EndedBut
<1>5. 1 \in 1 .. Len(rb) /\ Len(process_in.got) + 1 = 1
  BY <1>1, <1>2
<1> QED
  BY <1>1, <1>4, <1>5, PartsRead

(* The header and the message are all there when the first part was. *)
LEMMA RestIsThere ==
  ASSUME OscInv, process_in.at \in {"size", "message"}
  PROVE  /\ Len(Pending) > 0 /\ Entire(Pending, given, 1)
         /\ Pending[1].id \in DOMAIN given
         /\ given[Pending[1].id].size \in Nat \ {0}
         /\ EndOf(Pending, given, 1) = given[Pending[1].id].size + 2
         /\ EndOf(Pending, given, 1) - Len(process_in.got) <= Len(rb)
         /\ Pending[2] = Part(Pending[1].id, "size", Pending[1].pos)
<1>1. PICK s, g, z, e : /\ s = Pending /\ g = given /\ z = g[s[1].id].size
                        /\ e = EndOf(Pending, given, 1)
  OBVIOUS
<1>2. s \in Seq(Pieces) /\ g \in Seq(Messages)
  BY <1>1, PendingParts DEF OscInv, BridgeOK
<1>3. Len(s) > 0 /\ Entire(s, g, 1) /\ RecordAt(s, g, 1)
  BY <1>1, <1>2 DEF OscInv, Held, WellFormed, Formed
<1>4. s[1].id \in DOMAIN g
  BY <1>3 DEF RecordAt
<1>5. z \in Nat \ {0}
  BY <1>1, <1>2, <1>4, SizeOfMessage
<1>6. EndOf(s, g, 1) = z + 2 /\ e = z + 2
  BY <1>1, <1>5 DEF EndOf
<1>7. z + 2 <= Len(s)
  BY <1>3, <1>6 DEF Entire
<1>8. s[2] = Part(s[1].id, "size", s[1].pos)
  <2>1. 1 + 1 <= Len(s)
    BY <1>2, <1>5, <1>7
  <2> QED
    BY <1>3, <2>1 DEF RecordAt
<1>9. e - Len(process_in.got) <= Len(rb)
  <2>1. PICK l, m : l = Len(process_in.got) /\ m = Len(rb)
    OBVIOUS
  <2>2. l \in Nat /\ m \in Nat /\ Len(s) = l + m
    BY <1>1, <2>1, PendingParts DEF OscInv, BridgeOK
  <2>3. e - l <= m
    BY <1>5, <1>6, <1>7, <2>2
  <2> QED
    BY <2>1, <2>3
<1> QED
  BY <1>1, <1>3, <1>4, <1>5, <1>6, <1>8, <1>9, Zenon

(* The callback reads the size.                                            *)
LEMMA LengthKeeps == OscInv /\ ReadsLength => OscInv'
<1> SUFFICES ASSUME OscInv, ReadsLength
             PROVE  OscInv'
  OBVIOUS
<1>1. process_in.at = "size" /\ Reads(1, "message") /\ Len(process_in.got) = 1
  BY DEF ReadsLength, OscInv, Held
<1>2. PICK z : z = given[Pending[1].id].size
  OBVIOUS
<1>3. z \in Nat \ {0} /\ z + 2 - 1 <= Len(rb) /\ Len(rb) \in Nat
  BY <1>1, <1>2, RestIsThere DEF OscInv, BridgeOK
<1>4. 1 \in 1 .. Len(rb)
  BY <1>3
<1>5. Len(Pending) > 0 /\ Entire(Pending, given, 1)
  BY <1>1, RestIsThere
<1> QED
  BY <1>1, <1>4, <1>5, PartsRead

(* The callback reads the message.                                         *)
LEMMA MessageKeeps == OscInv /\ ReadsMessage => OscInv'
<1> SUFFICES ASSUME OscInv, ReadsMessage
             PROVE  OscInv'
  OBVIOUS
<1>1. process_in.at = "message" /\ Len(process_in.got) = 2
  BY DEF ReadsMessage, OscInv, Held
<1>2. PICK z : z = given[Pending[1].id].size
  OBVIOUS
<1>3. process_in.got[2] = Pending[2]
  BY <1>1, PendingParts DEF OscInv
<1>4. process_in.got[2].id = Pending[1].id
  BY <1>1, <1>3, RestIsThere DEF Part
<1>5. Reads(z, "write")
  BY <1>2, <1>4 DEF ReadsMessage
<1>6. /\ z \in Nat \ {0} /\ z + 2 - 2 <= Len(rb) /\ Len(rb) \in Nat
      /\ EndOf(Pending, given, 1) = z + 2
  BY <1>1, <1>2, RestIsThere DEF OscInv, BridgeOK
<1>7. z \in 1 .. Len(rb) /\ Len(process_in.got) + z = EndOf(Pending, given, 1)
  BY <1>1, <1>6
<1>8. Len(Pending) > 0 /\ Entire(Pending, given, 1)
  BY <1>1, RestIsThere
<1> QED
  BY <1>1, <1>5, <1>7, <1>8, PartsRead

(* The callback writes the event and forgets the record.                   *)
LEMMA EventKeeps == OscInv /\ WritesEvent => OscInv'
<1> SUFFICES ASSUME OscInv, WritesEvent
             PROVE  OscInv'
  OBVIOUS
<1>1. /\ process_in.at = "write" /\ process_in' = [at |-> "loop", got |-> <<>>]
      /\ UNCHANGED <<given, rb, handler, frame, running>>
  BY DEF WritesEvent, queue
<1>2. PICK s, t, g, d, m : s = Pending /\ t = rb /\ g = given /\ d = Len(process_in.got) /\ m = Begun
  OBVIOUS
<1>3. /\ s \in Seq(Pieces) /\ t \in Seq(Pieces) /\ g \in Seq(Messages) /\ d \in Nat
      /\ Len(s) = d + Len(t) /\ \A j \in 1 .. Len(t) : s[d + j] = t[j]
  BY <1>2, PendingParts DEF OscInv, BridgeOK
<1>4. Formed(s, g) /\ EndedBut(s, g, m) /\ Len(s) > 0 /\ Entire(s, g, 1) /\ d = EndOf(s, g, 1)
  BY <1>1, <1>2 DEF OscInv, WellFormed, Held
<1>5. Len(t) = Len(s) - d /\ \A j \in 1 .. Len(t) : t[j] = s[j + d]
  BY <1>3
<1>r. RestAfter(s, t, d)
  BY <1>3 DEF RestAfter
<1>6. RecordAt(s, g, 1) /\ 1 \in 1 .. Len(s)
  BY <1>3, <1>4 DEF Formed
<1>7. d >= 3 /\ s[2].part = "size" /\ \A j \in 3 .. d : s[j].part = "message"
  <2>1. /\ s[1 + 1].part = "size" /\ \A j \in 1 + 2 .. EndOf(s, g, 1) : s[j].part = "message"
        /\ EndOf(s, g, 1) \in Nat /\ EndOf(s, g, 1) >= 1 + 2
    <3>1. s \in Seq(Pieces) /\ g \in Seq(Messages) /\ Entire(s, g, 1)
      BY <1>3, <1>4
    <3> QED
      BY <1>6, <3>1, OnlyFirst
  <2> HIDE DEF EndOf
  <2> QED
    BY <1>4, <2>1
<1>8. Pending' = t
  BY <1>1, <1>2, <1>3, ConcatEmptySeq DEF Pending
<1>9. PICK n : n = Begun'
  OBVIOUS
<1>10. CASE handler.at \in {"idle", "pos"}
  <2>1. m = 0 /\ n = 0
    BY <1>1, <1>2, <1>9, <1>10 DEF Begun
  <2>a. m \in Nat /\ ~(m > d)
    BY <1>3, <2>1
  <2>2. Formed(t, g) /\ EndedBut(t, g, n)
    BY <1>3, <1>4, <1>r, <2>a, FirstForgotten
  <2>3. WellFormed' /\ LastPieces'
    BY <1>1, <1>2, <1>8, <1>9, <1>10, <2>2 DEF WellFormed, LastPieces
  <2> QED
    BY <1>1, <2>3 DEF OscInv, BridgeOK, Room, SpaceLeft, Held
<1>11. CASE handler.at = "size"
  <2>1. m = Len(s) /\ n = Len(t) /\ s[Len(s)] = Part(handler.id, "pos", handler.pos)
    BY <1>1, <1>2, <1>8, <1>9, <1>11 DEF OscInv, LastPieces, Begun
  <2>2. Len(t) > 0
    <3>1. s[Len(s)].part = "pos"
      BY <2>1 DEF Part
    <3>2. Len(s) # d
      BY <1>3, <1>7, <3>1
    <3> QED
      BY <1>3, <3>2
  <2>3. m \in Nat /\ (m > d => n = m - d)
    BY <1>3, <1>5, <2>1
  <2>4. Formed(t, g) /\ EndedBut(t, g, n)
    BY <1>3, <1>4, <1>r, <2>3, FirstForgotten, Zenon
  <2>5. t[Len(t)] = s[Len(s)]
    BY <1>3, <2>2
  <2>6. WellFormed' /\ LastPieces'
    BY <1>1, <1>2, <1>8, <1>9, <1>11, <2>1, <2>2, <2>4, <2>5 DEF WellFormed, LastPieces
  <2> QED
    BY <1>1, <2>6 DEF OscInv, BridgeOK, Room, SpaceLeft, Held
<1>12. CASE handler.at = "message"
  <2>1. /\ m = Len(s) - 1 /\ n = Len(t) - 1 /\ Len(s) > 1
        /\ s[Len(s) - 1] = Part(handler.id, "pos", handler.pos)
        /\ s[Len(s)] = Part(handler.id, "size", handler.pos)
    BY <1>1, <1>2, <1>8, <1>9, <1>12 DEF OscInv, LastPieces, Begun
  <2>2. Len(t) > 1
    <3>1. s[Len(s) - 1].part = "pos" /\ s[Len(s)].part = "size"
      BY <2>1 DEF Part
    <3>2. Len(s) # d
      BY <1>3, <1>7, <3>1
    <3>3. Len(s) - 1 # d
      BY <1>3, <1>7, <3>1
    <3> QED
      BY <1>3, <3>2, <3>3
  <2>3. m \in Nat /\ (m > d => n = m - d)
    BY <1>3, <1>5, <2>1
  <2>4. Formed(t, g) /\ EndedBut(t, g, n)
    BY <1>3, <1>4, <1>r, <2>3, FirstForgotten, Zenon
  <2>5. t[Len(t)] = s[Len(s)] /\ t[Len(t) - 1] = s[Len(s) - 1]
    <3>1. Len(t) \in 1 .. Len(t) /\ Len(t) - 1 \in 1 .. Len(t)
      BY <1>3, <2>2
    <3>2. Len(t) + d = Len(s) /\ Len(t) - 1 + d = Len(s) - 1
      BY <1>3
    <3> QED
      BY <1>5, <3>1, <3>2
  <2>6. WellFormed' /\ LastPieces'
    BY <1>1, <1>2, <1>8, <1>9, <1>12, <2>1, <2>2, <2>4, <2>5 DEF WellFormed, LastPieces
  <2> QED
    BY <1>1, <2>6 DEF OscInv, BridgeOK, Room, SpaceLeft, Held
<1> QED
  BY <1>10, <1>11, <1>12 DEF OscInv, BridgeOK

(* Steps that leave the queue and what the callback holds alone. *)
LEMMA QueueKept ==
  ASSUME OscInv, UNCHANGED <<given, rb, handler>>, frame' \in Nat,
         \/ process_in' = process_in /\ running' = running
         \/ /\ process_in' \in [at : {"idle", "loop"}, got : {<<>>}] /\ process_in.got = <<>>
            /\ running' # "in" => process_in'.at = "idle"
  PROVE  OscInv'
<1>1. process_in'.got = process_in.got
  OBVIOUS
<1>2. Pending' = Pending
  BY <1>1 DEF Pending
<1>3. BridgeOK'
  BY DEF OscInv, BridgeOK
<1>4. WellFormed' /\ LastPieces' /\ Room'
  BY <1>2 DEF OscInv, WellFormed, LastPieces, Room, SpaceLeft, Begun
<1>5. Held'
  BY <1>2 DEF OscInv, Held
<1> QED
  BY <1>3, <1>4, <1>5 DEF OscInv

(* The invariant is inductive.                                             *)
LEMMA OscInvNext == OscInv /\ [OscNext]_osc_vars => OscInv'
<1> SUFFICES ASSUME OscInv, [OscNext]_osc_vars
             PROVE  OscInv'
  OBVIOUS
<1>0. frame \in Nat /\ 0 \in Nat /\ frame + 1 \in Nat
  BY DEF OscInv, BridgeOK
<1>1. ASSUME NEW m \in Messages, Arrives(m)
      PROVE  OscInv'
  BY <1>1, ArrivesKeeps
<1>2. CASE Server
  BY <1>2, HandlerKeeps DEF Server
<1>3. CASE FramePasses
  BY <1>0, <1>3, QueueKept DEF FramePasses, queue
<1>4. CASE CycleStarts
  <2>1. process_in.got = <<>>
    BY <1>4 DEF CycleStarts, OscInv, Held
  <2> QED
    BY <1>0, <1>4, <2>1, QueueKept DEF CycleStarts, queue
<1>5. CASE ReadsPosition
  BY <1>5, PositionKeeps
<1>6. CASE ReadsLength
  BY <1>6, LengthKeeps
<1>7. CASE ReadsMessage
  BY <1>7, MessageKeeps
<1>8. CASE WritesEvent
  BY <1>8, EventKeeps
<1>9. CASE ProcessReturns
  <2>1. process_in.got = <<>> /\ process_in \in [at : {"idle", "loop", "size", "message", "write"}, got : Seq(Pieces)]
    BY <1>9 DEF ProcessReturns, OscInv, Held, BridgeOK
  <2> QED
    BY <1>0, <1>9, <2>1, QueueKept DEF ProcessReturns, queue
<1>10. CASE filter_process \/ bridge_out_process
  <2>1. /\ UNCHANGED <<given, rb, handler, process_in, frame>>
        /\ running # "in" /\ running' # "in"
    BY <1>10 DEF filter_process, bridge_out_process, queue
  <2>2. process_in.at = "idle" /\ process_in.got = <<>>
    BY <2>1 DEF OscInv, Held
  <2>3. process_in' \in [at : {"idle", "loop"}, got : {<<>>}]
    BY <2>1, <2>2 DEF OscInv, BridgeOK
  <2> QED
    BY <1>0, <2>1, <2>2, <2>3, QueueKept
<1>11. CASE UNCHANGED osc_vars
  BY <1>0, <1>11, QueueKept DEF osc_vars, queue
<1> QED
  BY <1>1, <1>2, <1>3, <1>4, <1>5, <1>6, <1>7, <1>8, <1>9, <1>10, <1>11 DEF OscNext, Jack

(* The callback reads whole records, one at a time, whatever messages of   *)
(* whatever size arrive, and whichever of the three writes of one it runs  *)
(* between.                                                                *)
THEOREM ReadsWholeRecords == OscSpec => []RecordsWhole
BY OscInvInit, OscInvNext, HeldIsWhole, PTL DEF OscSpec

------------------------------------------------------------------------------
(* The bytes of the tty bridge. *)
TtyBytes == [kind : Kinds, of : Nat, k : Nat]

Devices == [of : Nat, length : Kinds, k : Nat, stray : Nat]

(* What is there of the message that begins at i is as it was sent, and    *)
(* what follows it is no part of a message that began before.              *)
MessageAt(s, i) ==
  /\ s[i].kind \in 1 .. 3
  /\ \A j \in 1 .. 2 : j < s[i].kind /\ i + j <= Len(s) => s[i + j] = Byte(0, s[i].of, j + 1)
  /\ i + s[i].kind <= Len(s) => s[i + s[i].kind].k <= 1

AllThere(s, i) == i + s[i].kind <= Len(s) + 1

Stream(s) ==
  /\ Len(s) > 0 => s[1].k <= 1
  /\ \A i \in 1 .. Len(s) : s[i].k = 0 => s[i].kind = 0 /\ (i + 1 <= Len(s) => s[i + 1].k <= 1)
  /\ \A i \in 1 .. Len(s) : s[i].k = 1 => MessageAt(s, i)
  /\ \A i, j \in 1 .. Len(s) : i < j => /\ s[i].of <= s[j].of
                                        /\ s[j].k <= 1 => s[i].of < s[j].of

(* All messages are there, but for the one that the device is sending.     *)
OpenAt(s, d) == IF d.k < d.length THEN Len(s) - d.k + 1 ELSE 0

EndsAs(s, d) ==
  /\ \A i \in 1 .. Len(s) : s[i].of <= d.of
  /\ \A i \in 1 .. Len(s) : s[i].k = 1 /\ i # OpenAt(s, d) => AllThere(s, i)
  /\ d.k < d.length => /\ OpenAt(s, d) \in 1 .. Len(s) /\ d.k >= 1
                       /\ s[OpenAt(s, d)] = Byte(d.length, d.of, 1)

(* A message of s that ends before the last byte is in t as well. *)
LEMMA MessageStays ==
  ASSUME NEW s \in Seq(TtyBytes), NEW t \in Seq(TtyBytes), IsLonger(s, t), NEW i \in 1 .. Len(s),
         MessageAt(s, i), AllThere(s, i),
         \/ i + s[i].kind <= Len(s)
         \/ Len(s) + 1 <= Len(t) => t[Len(s) + 1].k <= 1
  PROVE  MessageAt(t, i) /\ AllThere(t, i)
<1>1. PICK n : n = s[i].kind
  OBVIOUS
<1>2. n \in 1 .. 3 /\ t[i] = s[i] /\ Len(s) <= Len(t) /\ i + n <= Len(s) + 1
  BY <1>1 DEF MessageAt, IsLonger, AllThere
<1>3. ASSUME NEW j \in 1 .. 2, j < n
      PROVE  t[i + j] = Byte(0, t[i].of, j + 1)
  <2>1. i + j \in 1 .. Len(s)
    BY <1>2, <1>3
  <2>2. s[i + j] = Byte(0, s[i].of, j + 1)
    BY <1>1, <1>3, <2>1 DEF MessageAt
  <2>3. t[i + j] = s[i + j]
    BY <2>1 DEF IsLonger
  <2> QED
    BY <1>2, <2>2, <2>3
<1>4. ASSUME i + n <= Len(t)
      PROVE  t[i + n].k <= 1
  <2>1. CASE i + n <= Len(s)
    <3>1. i + n \in 1 .. Len(s)
      BY <1>2, <2>1
    <3> QED
      BY <1>1, <3>1 DEF MessageAt, IsLonger
  <2>2. CASE i + n = Len(s) + 1
    BY <1>1, <1>4, <2>2
  <2> QED
    BY <1>2, <2>1, <2>2
<1> QED
  BY <1>1, <1>2, <1>3, <1>4 DEF MessageAt, AllThere

(* The next byte of the message that the device is sending. *)
LEMMA BodySent ==
  ASSUME NEW s \in Seq(TtyBytes), NEW t \in Seq(TtyBytes), NEW d \in Devices, NEW e \in Devices,
         Stream(s), EndsAs(s, d), d.k < d.length, IsLonger(s, t), Len(t) = Len(s) + 1,
         t[Len(t)] = Byte(0, d.of, d.k + 1), e = [d EXCEPT !.k = d.k + 1]
  PROVE  Stream(t) /\ EndsAs(t, e)
<1>1. PICK n, k, of, l, h : n = d.length /\ k = d.k /\ of = d.of /\ l = Len(s) /\ h = l - k + 1
  OBVIOUS
<1>2. /\ n \in 0 .. 3 /\ k \in Nat /\ of \in Nat /\ l \in Nat /\ k < n /\ k >= 1
      /\ e.k = k + 1 /\ e.length = n /\ e.of = of
  BY <1>1 DEF Devices, Kinds, EndsAs
<1>3. h \in 1 .. l /\ OpenAt(s, d) = h /\ s[h] = Byte(n, of, 1)
  BY <1>1 DEF EndsAs, OpenAt
<1>4. MessageAt(s, h) /\ s[h].kind = n /\ s[h].of = of
  BY <1>1, <1>3 DEF Stream, Byte
<1>5. \A j \in 1 .. k - 1 : s[h + j] = Byte(0, of, j + 1)
  <2> TAKE j \in 1 .. k - 1
  <2>1. j \in 1 .. 2 /\ j < n /\ h + j <= l
    BY <1>1, <1>2, <1>3
  <2> QED
    BY <1>1, <1>4, <2>1 DEF MessageAt
<1>6. s[l].of = of /\ s[l].k = k
  <2>1. CASE k = 1
    BY <1>1, <1>2, <1>3, <2>1 DEF Byte
  <2>2. CASE k # 1
    <3>0. l \in Nat /\ k \in Nat /\ k >= 1 /\ h = l - k + 1
      BY <1>1, <1>2
    <3>1. k - 1 \in 1 .. k - 1 /\ h + (k - 1) = l
      BY <2>2, <3>0
    <3>2. s[l] = Byte(0, of, k - 1 + 1)
      BY <1>5, <3>1
    <3> QED
      BY <1>2, <3>2 DEF Byte
  <2> QED
    BY <2>1, <2>2
<1>7. /\ t \in Seq(TtyBytes) /\ Len(t) = l + 1 /\ \A i \in 1 .. l : t[i] = s[i]
      /\ t[l + 1] = Byte(0, of, k + 1)
  BY <1>1 DEF IsLonger
<1>8. \A i \in 1 .. l + 1 : i \in 1 .. l \/ i = l + 1
  BY <1>2
<1>9. t[l + 1].k = k + 1 /\ t[l + 1].of = of /\ t[l + 1].kind = 0
  BY <1>7 DEF Byte
<1>10. ASSUME NEW i \in 1 .. l, s[i].k = 1, i # h
       PROVE  MessageAt(t, i) /\ AllThere(t, i)
  <2>1. MessageAt(s, i) /\ AllThere(s, i)
    BY <1>1, <1>3, <1>10 DEF Stream, EndsAs
  <2>2. PICK m : m = s[i].kind /\ m \in 1 .. 3
    BY <2>1 DEF MessageAt
  <2>3. i + m # l + 1
    <3> SUFFICES ASSUME i + m = l + 1
                 PROVE  FALSE
      OBVIOUS
    <3>0. i + (m - 1) = l
      <4>1. l \in Nat
        BY <1>2
      <4> QED
        BY <2>2, <4>1
    <3>1. s[l].of = s[i].of
      <4>1. CASE m = 1
        <5>1. i = l
          BY <1>2, <4>1
        <5> QED
          BY <5>1
      <4>2. CASE m # 1
        <5>1. m - 1 \in 1 .. 2 /\ m - 1 < m
          BY <2>2, <4>2
        <5>2. s[l] = Byte(0, s[i].of, m - 1 + 1)
          BY <1>1, <2>1, <2>2, <3>0, <5>1 DEF MessageAt
        <5> QED
          BY <5>2 DEF Byte
      <4> QED
        BY <4>1, <4>2
    <3>2. CASE i < h
      <4>1. s[i].of < s[h].of
        BY <1>1, <1>3, <3>2 DEF Stream, Byte
      <4>2. s[i].of = of /\ s[h].of = of
        BY <1>4, <1>6, <3>1
      <4> QED
        BY <1>2, <4>1, <4>2
    <3>3. CASE i > h
      <4>1. s[h].of < s[i].of
        BY <1>1, <1>3, <1>10, <3>3 DEF Stream
      <4>2. s[i].of = of /\ s[h].of = of
        BY <1>4, <1>6, <3>1
      <4> QED
        BY <1>2, <4>1, <4>2
    <3> QED
      BY <1>2, <1>3, <1>10, <3>2, <3>3
  <2>4. i + m <= l
    BY <1>1, <1>2, <2>1, <2>2, <2>3 DEF AllThere
  <2> QED
    BY <1>1, <2>1, <2>2, <2>4, MessageStays
<1>11. MessageAt(t, h) /\ t[h] = Byte(n, of, 1)
  <2>1. t[h].kind = n /\ t[h].of = of /\ n \in 1 .. 3 /\ t[h] = s[h]
    BY <1>2, <1>3, <1>4, <1>7
  <2>2. ASSUME NEW j \in 1 .. 2, j < n, h + j <= l + 1
        PROVE  t[h + j] = Byte(0, of, j + 1)
    <3>1. CASE j \in 1 .. k - 1
      <4>1. h + j \in 1 .. l
        <5>1. h = l - k + 1 /\ h \in 1 .. l /\ l \in Nat /\ k \in Nat
          BY <1>1, <1>2, <1>3
        <5> QED
          BY <3>1, <5>1
      <4> QED
        BY <1>5, <1>7, <3>1, <4>1
    <3>2. CASE j = k
      <4>1. h + j = l + 1
        BY <1>1, <1>2, <3>2
      <4> QED
        BY <1>7, <3>2, <4>1
    <3> QED
      BY <1>1, <1>2, <2>2, <3>1, <3>2
  <2>3. h + n <= l + 1 => n = k
    BY <1>1, <1>2
  <2> QED
    BY <1>2, <1>3, <1>7, <2>1, <2>2, <2>3 DEF MessageAt
<1>12. Stream(t)
  <2>1. t[1].k <= 1
    BY <1>1, <1>2, <1>3, <1>7, SMTT(30) DEF Stream
  <2>2. ASSUME NEW i \in 1 .. l + 1, t[i].k = 0
        PROVE  t[i].kind = 0 /\ (i + 1 <= l + 1 => t[i + 1].k <= 1)
    <3>1. i \in 1 .. l /\ i # l
      BY <1>2, <1>6, <1>7, <1>8, <1>9, <2>2
    <3>2. i + 1 \in 1 .. l
      BY <1>2, <3>1
    <3> QED
      BY <1>1, <1>7, <2>2, <3>1, <3>2 DEF Stream
  <2>3. ASSUME NEW i \in 1 .. l + 1, t[i].k = 1
        PROVE  MessageAt(t, i)
    <3>1. i \in 1 .. l
      BY <1>2, <1>8, <1>9, <2>3
    <3> QED
      BY <1>7, <1>10, <1>11, <2>3, <3>1
  <2>4. ASSUME NEW i \in 1 .. l + 1, NEW j \in 1 .. l + 1, i < j
        PROVE  t[i].of <= t[j].of /\ (t[j].k <= 1 => t[i].of < t[j].of)
    <3>1. i \in 1 .. l
      BY <1>2, <2>4
    <3>2. CASE j \in 1 .. l
      BY <1>1, <1>7, <2>4, <3>1, <3>2 DEF Stream
    <3>3. CASE j = l + 1
      <4>1. s[i].of <= of
        BY <1>1, <3>1 DEF EndsAs
      <4> QED
        BY <1>2, <1>7, <1>9, <3>1, <3>3, <4>1
    <3> QED
      BY <1>8, <3>2, <3>3
  <2> QED
    BY <1>7, <2>1, <2>2, <2>3, <2>4 DEF Stream
<1>13. EndsAs(t, e)
  <2>1. \A i \in 1 .. l + 1 : t[i].of <= of
    BY <1>1, <1>2, <1>7, <1>8, <1>9 DEF EndsAs
  <2>2. CASE k + 1 < n
    <3>1. OpenAt(t, e) = h
      BY <1>1, <1>2, <1>7, <2>2 DEF OpenAt
    <3>2. ASSUME NEW i \in 1 .. l + 1, t[i].k = 1, i # h
          PROVE  AllThere(t, i)
      <4>1. i \in 1 .. l
        BY <1>2, <1>8, <1>9, <3>2
      <4> QED
        BY <1>7, <1>10, <3>2, <4>1
    <3>3. h \in 1 .. l + 1
      BY <1>2, <1>3
    <3> QED
      BY <1>2, <1>7, <1>11, <2>1, <3>1, <3>2, <3>3 DEF EndsAs
  <2>3. CASE k + 1 = n
    <3>1. AllThere(t, h)
      BY <1>1, <1>2, <1>3, <1>4, <1>7, <2>3 DEF AllThere
    <3>2. ASSUME NEW i \in 1 .. l + 1, t[i].k = 1
          PROVE  AllThere(t, i)
      <4>1. i \in 1 .. l
        BY <1>2, <1>8, <1>9, <3>2
      <4> QED
        BY <1>7, <1>10, <3>1, <3>2, <4>1
    <3>3. ~(e.k < e.length)
      BY <1>2, <2>3
    <3> QED
      BY <1>2, <1>7, <2>1, <3>2, <3>3 DEF EndsAs
  <2> QED
    BY <1>2, <2>2, <2>3
<1> QED
  BY <1>12, <1>13

(* A new command, or a byte that is no part of a message. *)
LEMMA BorderSent ==
  ASSUME NEW s \in Seq(TtyBytes), NEW t \in Seq(TtyBytes), NEW d \in Devices, NEW e \in Devices,
         Stream(s), EndsAs(s, d), d.k = d.length, IsLonger(s, t), Len(t) = Len(s) + 1,
         e.of = d.of + 1, NEW n \in Kinds, t[Len(t)].kind = n, t[Len(t)].of = e.of,
         \/ n # 0 /\ t[Len(t)].k = 1 /\ e.length = n /\ e.k = 1
         \/ n = 0 /\ t[Len(t)].k = 0 /\ e.length = 0 /\ e.k = 0
  PROVE  Stream(t) /\ EndsAs(t, e)
<1>1. PICK l, of, c : l = Len(s) /\ of = d.of /\ c = t[Len(t)]
  OBVIOUS
<1>2. /\ l \in Nat /\ of \in Nat /\ OpenAt(s, d) = 0 /\ e.of = of + 1
      /\ c.kind = n /\ c.of = of + 1 /\ n \in 0 .. 3 /\ c.k \in {0, 1}
      /\ (c.k = 1 => n # 0) /\ (c.k = 0 => n = 0)
  BY <1>1 DEF Devices, Kinds, OpenAt
<1>3. Len(t) = l + 1 /\ t[l + 1] = c /\ \A i \in 1 .. l : t[i] = s[i]
  BY <1>1 DEF IsLonger
<1>4. \A i \in 1 .. l + 1 : i \in 1 .. l \/ i = l + 1
  BY <1>2
<1>5. c.k <= 1
  BY <1>2
<1>6. ASSUME NEW i \in 1 .. l, s[i].k = 1
      PROVE  MessageAt(t, i) /\ AllThere(t, i)
  <2>1. MessageAt(s, i) /\ AllThere(s, i)
    BY <1>1, <1>2, <1>6 DEF Stream, EndsAs
  <2>2. t[Len(s) + 1].k <= 1
    BY <1>1, <1>3, <1>5
  <2> QED
    BY <1>1, <2>1, <2>2, MessageStays
<1>7. c.k = 1 => MessageAt(t, l + 1)
  BY <1>2, <1>3 DEF MessageAt
<1>8. Stream(t)
  <2>1. t[1].k <= 1
    <3>1. CASE l = 0
      BY <1>3, <1>5, <3>1
    <3>2. CASE l # 0
      BY <1>1, <1>2, <1>3, <3>2 DEF Stream
    <3> QED
      BY <3>1, <3>2
  <2>2. ASSUME NEW i \in 1 .. l + 1, t[i].k = 0
        PROVE  t[i].kind = 0 /\ (i + 1 <= l + 1 => t[i + 1].k <= 1)
    <3>1. CASE i = l + 1
      BY <1>2, <1>3, <2>2, <3>1
    <3>2. CASE i \in 1 .. l
      <4>1. i = l \/ i + 1 \in 1 .. l
        BY <1>2, <3>2
      <4>2. s[i].kind = 0 /\ (i + 1 <= l => s[i + 1].k <= 1)
        BY <1>1, <1>3, <2>2, <3>2 DEF Stream
      <4> QED
        BY <1>2, <1>3, <1>5, <3>2, <4>1, <4>2
    <3> QED
      BY <1>4, <3>1, <3>2
  <2>3. ASSUME NEW i \in 1 .. l + 1, t[i].k = 1
        PROVE  MessageAt(t, i)
    BY <1>3, <1>4, <1>6, <1>7, <2>3
  <2>4. ASSUME NEW i \in 1 .. l + 1, NEW j \in 1 .. l + 1, i < j
        PROVE  t[i].of <= t[j].of /\ (t[j].k <= 1 => t[i].of < t[j].of)
    <3>1. i \in 1 .. l
      BY <1>2, <2>4
    <3>2. CASE j \in 1 .. l
      BY <1>1, <1>3, <2>4, <3>1, <3>2 DEF Stream
    <3>3. CASE j = l + 1
      <4>1. s[i].of <= of
        BY <1>1, <3>1 DEF EndsAs
      <4>2. s[i].of \in Nat
        <5>1. s[i] \in TtyBytes
          BY <1>1, <3>1
        <5> QED
          BY <5>1 DEF TtyBytes
      <4> QED
        BY <1>2, <1>3, <3>1, <3>3, <4>1, <4>2
    <3> QED
      BY <1>4, <3>2, <3>3
  <2> QED
    BY <1>3, <2>1, <2>2, <2>3, <2>4 DEF Stream
<1>9. EndsAs(t, e)
  <2>1. \A i \in 1 .. l + 1 : t[i].of <= e.of
    <3> TAKE i \in 1 .. l + 1
    <3>1. CASE i \in 1 .. l
      <4>1. s[i].of <= of
        BY <1>1, <3>1 DEF EndsAs
      <4>2. s[i].of \in Nat
        <5>1. s[i] \in TtyBytes
          BY <1>1, <3>1
        <5> QED
          BY <5>1 DEF TtyBytes
      <4> QED
        BY <1>2, <1>3, <3>1, <4>1, <4>2
    <3>2. CASE i = l + 1
      BY <1>2, <1>3, <3>2
    <3> QED
      BY <1>4, <3>1, <3>2
  <2>2. CASE e.k < e.length
    <3>1. e.k = 1 /\ e.length = n /\ c.k = 1
      BY <1>1, <1>2, <2>2
    <3>2. OpenAt(t, e) = l + 1
      BY <1>2, <1>3, <2>2, <3>1 DEF OpenAt
    <3>3. \A i \in 1 .. l + 1 : t[i].k = 1 /\ i # l + 1 => AllThere(t, i)
      BY <1>3, <1>4, <1>6
    <3>4. c = Byte(n, e.of, 1)
      <4>1. c \in TtyBytes
        BY <1>1, <1>2
      <4> QED
        BY <1>2, <3>1, <4>1 DEF TtyBytes, Byte
    <3> QED
      BY <1>2, <1>3, <2>1, <3>1, <3>2, <3>3, <3>4 DEF EndsAs
  <2>3. CASE ~(e.k < e.length)
    <3>1. c.k = 1 => AllThere(t, l + 1)
      BY <1>1, <1>2, <1>3, <2>3 DEF AllThere
    <3>2. \A i \in 1 .. l + 1 : t[i].k = 1 => AllThere(t, i)
      BY <1>3, <1>4, <1>6, <3>1
    <3> QED
      BY <1>3, <2>1, <2>3, <3>2 DEF EndsAs
  <2> QED
    BY <2>2, <2>3
<1> QED
  BY <1>8, <1>9

(* Nothing in the queue, and no message begun. *)
LEMMA NothingPending ==
  ASSUME NEW d \in Devices, d.k = d.length
  PROVE  Stream(<<>>) /\ EndsAs(<<>>, d)
<1>1. ~(d.k < d.length)
  BY DEF Devices, Kinds
<1> QED
  BY <1>1 DEF Stream, EndsAs

(* The bytes before the first command are no part of a message.            *)
LEMMA StrayBytes ==
  ASSUME NEW s \in Seq(TtyBytes), Stream(s), NEW skip \in 0 .. Len(s),
         \A i \in 1 .. skip : s[i].kind = 0
  PROVE  \A i \in 1 .. skip : s[i].k = 0
<1> DEFINE Bad == {i \in 1 .. skip : s[i].k # 0}
<1> SUFFICES ASSUME NEW b \in Bad
             PROVE  FALSE
  OBVIOUS
<1>1. PICK i \in Bad : \A j \in Bad : i <= j
  <2>1. Bad \subseteq Nat /\ Bad # {}
    OBVIOUS
  <2> HIDE DEF Bad
  <2> QED
    BY <2>1, LeastElement
<1>2. i \in 1 .. Len(s) /\ s[i].kind = 0 /\ s[i].k # 0
  OBVIOUS
<1>3. s[i].k # 1
  BY <1>2 DEF Stream, MessageAt
<1>4. s[i].k <= 1
  <2>1. CASE i = 1
    BY <1>2, <2>1 DEF Stream
  <2>2. CASE i # 1
    <3>1. i - 1 \in 1 .. Len(s) /\ (i - 1) + 1 = i /\ i <= Len(s) /\ i - 1 \in 1 .. skip
      BY <1>2, <2>2
    <3>2. s[i - 1].k = 0
      BY <1>1, <3>1
    <3> QED
      BY <3>1, <3>2 DEF Stream
  <2> QED
    BY <2>1, <2>2
<1>5. s[i].k \in Nat
  <2>1. s[i] \in TtyBytes
    BY <1>2
  <2> QED
    BY <2>1 DEF TtyBytes
<1> QED
  BY <1>2, <1>3, <1>4, <1>5

(* n bytes come before the first command of s, or before its end.          *)
FirstAfter(s, n) == /\ \A i \in 1 .. n : s[i].kind = 0
                    /\ n < Len(s) => s[n + 1].kind # 0

(* There is a first command, or none at all.                               *)
LEMMA FirstCommand ==
  ASSUME NEW s \in Seq(TtyBytes)
  PROVE  \E n \in 0 .. Len(s) : FirstAfter(s, n)
<1> DEFINE Least == {n \in 0 .. Len(s) : n < Len(s) => s[n + 1].kind # 0}
<1>1. PICK n \in Least : \A k \in Least : n <= k
  <2>1. Len(s) \in Least
    OBVIOUS
  <2>2. Least \subseteq Nat /\ Least # {}
    BY <2>1
  <2> HIDE DEF Least
  <2> QED
    BY <2>2, LeastElement
<1>2. ASSUME NEW i \in 1 .. n
      PROVE  s[i].kind = 0
  <2>1. i - 1 \in 0 .. Len(s) /\ i - 1 < Len(s) /\ (i - 1) + 1 = i /\ i - 1 < n
    OBVIOUS
  <2>2. i - 1 \notin Least
    BY <1>1, <2>1
  <2> QED
    BY <2>1, <2>2
<1> QED
  BY <1>2 DEF FirstAfter

(* The first command begins a message. *)
LEMMA CommandBegins ==
  ASSUME NEW s \in Seq(TtyBytes), Stream(s), NEW h \in 1 .. Len(s),
         \A i \in 1 .. h - 1 : s[i].kind = 0, s[h].kind # 0
  PROVE  s[h].k = 1 /\ MessageAt(s, h)
<1>1. s[h].k <= 1
  <2>1. CASE h = 1
    BY <2>1 DEF Stream
  <2>2. CASE h # 1
    <3>1. /\ h - 1 \in 1 .. h - 1 /\ h - 1 \in 0 .. Len(s) /\ h - 1 \in 1 .. Len(s)
          /\ h - 1 + 1 <= Len(s) /\ h - 1 + 1 = h
      BY <2>2
    <3>2. s[h - 1].k = 0
      BY <3>1, StrayBytes
    <3> QED
      BY <3>1, <3>2 DEF Stream
  <2> QED
    BY <2>1, <2>2
<1>2. s[h].k # 0
  BY DEF Stream
<1>3. s[h].k \in Nat
  <2>1. s[h] \in TtyBytes
    OBVIOUS
  <2> QED
    BY <2>1 DEF TtyBytes
<1>4. s[h].k = 1
  BY <1>1, <1>2, <1>3
<1> QED
  BY <1>4 DEF Stream

(* The bytes of a message that is all there. *)
LEMMA MessageBytes ==
  ASSUME NEW s \in Seq(TtyBytes), NEW h \in 1 .. Len(s), NEW n \in 1 .. 3,
         MessageAt(s, h), s[h].k = 1, s[h].kind = n, h + n - 1 <= Len(s)
  PROVE  \A j \in 1 .. n :
           s[h + j - 1] = Byte(IF j = 1 THEN n ELSE 0, s[h].of, j)
<1> TAKE j \in 1 .. n
<1>1. CASE j = 1
  <2>1. s[h] \in TtyBytes /\ h + j - 1 = h
    BY <1>1
  <2>2. s[h] = Byte(n, s[h].of, 1)
    BY <2>1 DEF TtyBytes, Byte
  <2> QED
    BY <1>1, <2>1, <2>2
<1>2. CASE j # 1
  <2>1. j - 1 \in 1 .. 2 /\ j - 1 < n /\ h + (j - 1) <= Len(s) /\ h + (j - 1) = h + j - 1
        /\ (j - 1) + 1 = j
    BY <1>2
  <2>2. s[h + (j - 1)] = Byte(0, s[h].of, (j - 1) + 1)
    BY <2>1 DEF MessageAt
  <2> QED
    BY <1>2, <2>1, <2>2
<1> QED
  BY <1>1, <1>2

(* What follows the end of a message is well formed by itself. *)
LEMMA RestIsStream ==
  ASSUME NEW s \in Seq(TtyBytes), NEW t \in Seq(TtyBytes), NEW p \in 0 .. Len(s),
         RestAfter(s, t, p), Stream(s), p < Len(s) => s[p + 1].k <= 1
  PROVE  Stream(t)
<1>1. PICK l : l = Len(s)
  OBVIOUS
<1>2. l \in Nat /\ p \in 0 .. l /\ Len(t) = l - p /\ \A i \in 1 .. l - p : t[i] = s[p + i]
  BY <1>1 DEF RestAfter
<1>3. \A i \in 1 .. l - p : p + i \in 1 .. l
  BY <1>2
<1>4. Len(t) > 0 => t[1].k <= 1
  BY <1>1, <1>2
<1>5. ASSUME NEW i \in 1 .. l - p, t[i].k = 0
      PROVE  t[i].kind = 0 /\ (i + 1 <= l - p => t[i + 1].k <= 1)
  <2>1. s[p + i].kind = 0 /\ (p + i + 1 <= l => s[p + i + 1].k <= 1)
    BY <1>1, <1>2, <1>3, <1>5 DEF Stream
  <2>2. i + 1 <= l - p => p + i + 1 <= l /\ i + 1 \in 1 .. l - p /\ p + (i + 1) = p + i + 1
    BY <1>2
  <2> QED
    BY <1>2, <2>1, <2>2
<1>6. ASSUME NEW i \in 1 .. l - p, t[i].k = 1
      PROVE  MessageAt(t, i)
  <2>1. MessageAt(s, p + i) /\ t[i] = s[p + i]
    BY <1>1, <1>2, <1>3, <1>6 DEF Stream
  <2>2. PICK m : m = t[i].kind /\ m = s[p + i].kind /\ m \in 1 .. 3
    BY <2>1 DEF MessageAt
  <2>3. ASSUME NEW j \in 1 .. 2, j < m, i + j <= l - p
        PROVE  t[i + j] = Byte(0, t[i].of, j + 1)
    <3>1. i + j \in 1 .. l - p /\ p + i + j <= l /\ p + (i + j) = p + i + j
      <4>1. l \in Nat /\ p \in Nat /\ i \in Int /\ j \in Int /\ i >= 1 /\ j >= 1
        BY <1>2
      <4> QED
        BY <2>3, <4>1
    <3>2. s[p + i + j] = Byte(0, s[p + i].of, j + 1)
      BY <1>1, <2>1, <2>2, <2>3, <3>1 DEF MessageAt
    <3> QED
      BY <1>2, <2>1, <3>1, <3>2
  <2>4. i + m <= l - p => t[i + m].k <= 1
    <3>1. i + m <= l - p => i + m \in 1 .. l - p /\ p + i + m <= l /\ p + (i + m) = p + i + m
      <4>1. m \in 1 .. 3
        BY <2>2
      <4> HIDE <2>2
      <4> QED
        BY <1>2, <4>1
    <3>2. p + i + m <= l => s[p + i + m].k <= 1
      BY <1>1, <2>1, <2>2 DEF MessageAt
    <3> QED
      BY <1>2, <3>1, <3>2
  <2> QED
    BY <1>2, <2>2, <2>3, <2>4 DEF MessageAt
<1>7. ASSUME NEW i \in 1 .. l - p, NEW j \in 1 .. l - p, i < j
      PROVE  t[i].of <= t[j].of /\ (t[j].k <= 1 => t[i].of < t[j].of)
  <2>1. p + i < p + j
    BY <1>2, <1>7
  <2> QED
    BY <1>1, <1>2, <1>3, <2>1 DEF Stream
<1> QED
  BY <1>2, <1>4, <1>5, <1>6, <1>7 DEF Stream

(* And all its messages but the device's are there, as they were. *)
LEMMA RestEndsAs ==
  ASSUME NEW s \in Seq(TtyBytes), NEW t \in Seq(TtyBytes), NEW p \in 0 .. Len(s),
         NEW d \in Devices, RestAfter(s, t, p), EndsAs(s, d),
         d.k < d.length => OpenAt(s, d) > p
  PROVE  EndsAs(t, d)
<1>1. PICK l, k, g : l = Len(s) /\ k = d.k /\ g = d.length
  OBVIOUS
<1>2. l \in Nat /\ p \in 0 .. l /\ Len(t) = l - p /\ \A i \in 1 .. l - p : t[i] = s[p + i]
  BY <1>1 DEF RestAfter
<1>3. \A i \in 1 .. l - p : p + i \in 1 .. l
  BY <1>2
<1>4. k \in Nat /\ g \in Nat
  BY <1>1 DEF Devices, Kinds
<1>5. \A i \in 1 .. l - p : t[i].of <= d.of
  BY <1>1, <1>2, <1>3 DEF EndsAs
<1>6. ASSUME NEW i \in 1 .. l - p, AllThere(s, p + i)
      PROVE  AllThere(t, i)
  <2>1. PICK m : m = t[i].kind /\ m = s[p + i].kind
    BY <1>2
  <2>2. m \in 0 .. 3
    <3>1. t[i] \in TtyBytes
      BY <1>2
    <3> QED
      BY <2>1, <3>1 DEF TtyBytes, Kinds
  <2>3. p + i + m <= l + 1
    BY <1>1, <1>6, <2>1 DEF AllThere
  <2>4. i + m <= (l - p) + 1
    BY <1>2, <2>2, <2>3
  <2> QED
    BY <1>2, <2>1, <2>4 DEF AllThere
<1>7. CASE k < g
  <2>1. PICK q : q = OpenAt(s, d)
    OBVIOUS
  <2>2. q = l - k + 1 /\ q \in 1 .. l /\ k >= 1 /\ s[q] = Byte(g, d.of, 1) /\ q > p
    BY <1>1, <1>7, <2>1 DEF OpenAt, EndsAs
  <2>3. q - p \in 1 .. l - p /\ p + (q - p) = q /\ q - p = (l - p) - k + 1
    BY <1>2, <1>4, <2>2
  <2>4. OpenAt(t, d) = q - p
    BY <1>1, <1>2, <1>7, <2>3 DEF OpenAt
  <2>5. t[q - p] = Byte(g, d.of, 1)
    BY <1>2, <2>2, <2>3
  <2>6. ASSUME NEW i \in 1 .. l - p, t[i].k = 1, i # q - p
        PROVE  AllThere(t, i)
    <3>1. p + i # q
      BY <1>2, <2>2, <2>6
    <3>2. AllThere(s, p + i)
      BY <1>1, <1>2, <1>3, <2>1, <2>6, <3>1 DEF EndsAs
    <3> QED
      BY <1>6, <3>2
  <2> QED
    BY <1>1, <1>2, <1>5, <2>2, <2>3, <2>4, <2>5, <2>6 DEF EndsAs
<1>8. CASE ~(k < g)
  <2>1. OpenAt(s, d) = 0 /\ ~(d.k < d.length)
    BY <1>1, <1>8 DEF OpenAt
  <2>2. ASSUME NEW i \in 1 .. l - p, t[i].k = 1
        PROVE  AllThere(t, i)
    <3>1. p + i # 0
      BY <1>2
    <3>2. AllThere(s, p + i)
      BY <1>1, <1>2, <1>3, <2>1, <2>2, <3>1 DEF EndsAs
    <3> QED
      BY <1>6, <3>2
  <2> QED
    BY <1>2, <1>5, <2>1, <2>2 DEF EndsAs
<1> QED
  BY <1>7, <1>8

(* A message that is all there is not the one that the device is sending. *)
LEMMA OpenIsAfter ==
  ASSUME NEW s \in Seq(TtyBytes), NEW d \in Devices, EndsAs(s, d), NEW h \in 1 .. Len(s),
         \A i \in 1 .. h - 1 : s[i].kind = 0, NEW n \in 1 .. 3,
         MessageAt(s, h), s[h].k = 1, s[h].kind = n, h + n - 1 <= Len(s), d.k < d.length
  PROVE  OpenAt(s, d) > h + n - 1
<1>1. PICK l, k, g, q : l = Len(s) /\ k = d.k /\ g = d.length /\ q = OpenAt(s, d)
  OBVIOUS
<1>2. /\ l \in Nat /\ k \in Nat /\ g \in 0 .. 3 /\ k < g /\ q = l - k + 1 /\ q \in 1 .. l
      /\ s[q] = Byte(g, d.of, 1)
  BY <1>1 DEF OpenAt, EndsAs, Devices, Kinds
<1>3. s[q].kind = g /\ s[q].k = 1
  BY <1>2 DEF Byte
<1>4. h \in 1 .. l /\ h + n - 1 <= l
  BY <1>1
<1> SUFFICES ASSUME q <= h + n - 1
             PROVE  FALSE
  BY <1>1, <1>2, <1>4
<1>5. CASE q <= h - 1
  BY <1>2, <1>3, <1>4, <1>5
<1>6. CASE q = h
  BY <1>2, <1>3, <1>4, <1>6
<1>7. CASE q > h
  <2>1. q - h + 1 \in 1 .. n /\ q - h + 1 # 1 /\ h + (q - h + 1) - 1 = q
    BY <1>2, <1>4, <1>7
  <2>2. PICK j \in 1 .. n : j # 1 /\ h + j - 1 = q
    BY <2>1
  <2>3. s[h + j - 1] = Byte(IF j = 1 THEN n ELSE 0, s[h].of, j)
    BY MessageBytes
  <2> QED
    BY <1>3, <2>2, <2>3 DEF Byte
<1> QED
  BY <1>2, <1>4, <1>5, <1>6, <1>7

(* What is left when a message is taken. *)
LEMMA MessageTaken ==
  ASSUME NEW s \in Seq(TtyBytes), NEW t \in Seq(TtyBytes), NEW d \in Devices,
         Stream(s), EndsAs(s, d), NEW h \in 1 .. Len(s),
         \A i \in 1 .. h - 1 : s[i].kind = 0, NEW n \in 1 .. 3,
         s[h].kind = n, h + n - 1 <= Len(s), RestAfter(s, t, h + n - 1)
  PROVE  /\ Stream(t) /\ EndsAs(t, d)
         /\ \A j \in 1 .. n : s[h + j - 1] = Byte(IF j = 1 THEN n ELSE 0, s[h].of, j)
         /\ \A j \in 1 .. Len(t) : s[h].of < t[j].of
<1>1. s[h].k = 1 /\ MessageAt(s, h)
  BY CommandBegins
<1>2. PICK p : p = h + n - 1
  OBVIOUS
<1>3. p \in h .. Len(s) /\ p \in 0 .. Len(s) /\ RestAfter(s, t, p)
  BY <1>2
<1>4. p < Len(s) => s[p + 1].k <= 1
  <2>1. p < Len(s) => h + n <= Len(s) /\ p + 1 = h + n
    BY <1>2
  <2> QED
    BY <1>1, <2>1 DEF MessageAt
<1>5. Stream(t)
  BY <1>3, <1>4, RestIsStream
<1>6. d.k < d.length => OpenAt(s, d) > p
  BY <1>1, <1>2, OpenIsAfter
<1>7. EndsAs(t, d)
  BY <1>3, <1>6, RestEndsAs
<1>8. \A j \in 1 .. n : s[h + j - 1] = Byte(IF j = 1 THEN n ELSE 0, s[h].of, j)
  BY <1>1, MessageBytes
<1>9. PICK l : l = Len(s) /\ l \in Nat /\ p \in h .. l /\ h \in 1 .. l
  BY <1>3
<1>10. ASSUME NEW j \in 1 .. l - p
       PROVE  s[h].of < t[j].of
  <2>1. p + 1 \in 1 .. l /\ h < p + 1 /\ p + j \in 1 .. l /\ p < l
    BY <1>9
  <2>2. s[h].of < s[p + 1].of
    BY <1>4, <1>9, <2>1 DEF Stream
  <2>3. s[h].of \in Nat /\ s[p + 1].of \in Nat /\ s[p + j].of \in Nat
    <3>1. s[h] \in TtyBytes /\ s[p + 1] \in TtyBytes /\ s[p + j] \in TtyBytes
      BY <1>9, <2>1
    <3> QED
      BY <3>1 DEF TtyBytes
  <2>4. s[p + 1].of <= s[p + j].of
    <3>1. CASE j = 1
      BY <2>3, <3>1
    <3>2. CASE j # 1
      <4>1. p + 1 < p + j
        BY <1>9, <3>2
      <4> QED
        BY <1>9, <2>1, <4>1 DEF Stream
    <3> QED
      BY <3>1, <3>2
  <2>5. t[j] = s[p + j]
    BY <1>3, <1>9 DEF RestAfter
  <2>6. PICK x, y, z : x = s[h].of /\ y = s[p + 1].of /\ z = s[p + j].of
    OBVIOUS
  <2>7. x < z
    <3>1. x \in Nat /\ y \in Nat /\ z \in Nat /\ x < y /\ y <= z
      BY <2>2, <2>3, <2>4, <2>6, Zenon
    <3> QED
      BY <3>1
  <2> QED
    BY <2>5, <2>6, <2>7, Zenon
<1>11. Len(t) = l - p
  BY <1>3, <1>9 DEF RestAfter
<1> QED
  BY <1>5, <1>7, <1>8, <1>10, <1>11

------------------------------------------------------------------------------
(* The invariant. *)
TtyOK ==
  /\ tty_rb \in Seq(TtyBytes) /\ Len(tty_rb) <= TtyCapacity
  /\ device \in Devices /\ device.k <= device.length
  /\ serial \in [at : {"opening", "to wait", "waiting", "reading"}, c : TtyBytes]
  /\ out \in Seq(Seq(TtyBytes)) /\ \A i \in 1 .. Len(out) : out[i] # <<>>

(* What process has put to JACK is older than what it will take.           *)
Older ==
  \A i \in 1 .. Len(out) :
    /\ out[i][1].of <= device.of
    /\ \A j \in 1 .. Len(tty_rb) : out[i][1].of < tty_rb[j].of

TtyInv ==
  /\ TtyOK
  /\ ~dropped => Stream(tty_rb) /\ EndsAs(tty_rb, device) /\ Older
  /\ MessagesAreWhole

(* Nothing was sent yet. *)
LEMMA TtyInvInit == TtyInit => TtyInv
<1> SUFFICES ASSUME TtyInit
             PROVE  TtyInv
  OBVIOUS
<1>1. PICK d : d = device /\ d \in Devices /\ d.k = d.length
  BY DEF TtyInit, Devices, Kinds
<1>2. tty_rb = <<>> /\ out = <<>>
  BY DEF TtyInit
<1>3. Stream(tty_rb) /\ EndsAs(tty_rb, device)
  BY <1>1, <1>2, NothingPending
<1>4. TtyOK
  BY <1>2, TtyAssumption DEF TtyOK, TtyInit, TtyAssumption, TtyBytes, Devices, Byte, Kinds
<1>5. Older /\ MessagesAreWhole
  BY <1>2 DEF Older, MessagesAreWhole
<1> QED
  BY <1>3, <1>4, <1>5 DEF TtyInv

(* A byte is written when there is room for it. *)
LEMMA ByteWritten ==
  ASSUME NEW s \in Seq(TtyBytes), NEW size \in Nat, Len(s) <= size, NEW c \in TtyBytes,
         NEW t, t = rb_write(s, size, <<c>>)
  PROVE  /\ t \in Seq(TtyBytes) /\ Len(t) <= size
         /\ Len(s) # size => /\ IsLonger(s, t) /\ Len(t) = Len(s) + 1 /\ t[Len(t)] = c
<1>1. CASE Len(s) = size
  <2>1. SubSeq(<<c>>, 1, Limited(1, size - Len(s))) = <<>>
    BY <1>1 DEF Limited
  <2>2. t = s \o <<>>
    BY <2>1 DEF rb_write, rb_can_write
  <2> QED
    BY <1>1, <2>2
<1>2. CASE Len(s) # size
  <2>1. Limited(1, size - Len(s)) = 1
    BY <1>2 DEF Limited
  <2>2. <<c>> \in Seq(TtyBytes) /\ Len(<<c>>) = 1 /\ <<c>>[1] = c
    OBVIOUS
  <2>3. SubSeq(<<c>>, 1, 1) = <<c>>
    BY <2>2, SubSeqFull, Zenon
  <2>4. t = s \o <<c>>
    BY <2>1, <2>2, <2>3, Zenon DEF rb_write, rb_can_write
  <2>5. PICK r : r = <<c>> /\ r \in Seq(TtyBytes) /\ Len(r) = 1 /\ r[1] = c /\ t = s \o r
    BY <2>2, <2>4
  <2>6. t \in Seq(TtyBytes) /\ Len(t) = Len(s) + 1 /\ t[Len(s) + 1] = c
        /\ \A i \in 1 .. Len(s) : t[i] = s[i]
    <3>1. s \in Seq(TtyBytes) /\ r \in Seq(TtyBytes)
      BY <2>5
    <3>2. /\ s \o r \in Seq(TtyBytes) /\ Len(s \o r) = Len(s) + Len(r)
          /\ \A i \in 1 .. Len(s) + Len(r) :
               (s \o r)[i] = IF i <= Len(s) THEN s[i] ELSE r[i - Len(s)]
      BY <3>1, ConcatProperties, Zenon
    <3>3. PICK l : l = Len(s) /\ l \in Nat
      OBVIOUS
    <3>4. /\ t \in Seq(TtyBytes) /\ Len(t) = l + 1
          /\ \A i \in 1 .. l + 1 : t[i] = IF i <= l THEN s[i] ELSE r[i - l]
      BY <2>5, <3>2, <3>3, Zenon
    <3>5. l + 1 \in 1 .. l + 1 /\ ~(l + 1 <= l) /\ l + 1 - l = 1
          /\ \A i \in 1 .. l : i \in 1 .. l + 1 /\ i <= l
      BY <3>3
    <3>6. t[l + 1] = c /\ \A i \in 1 .. l : t[i] = s[i]
      BY <2>5, <3>4, <3>5
    <3> QED
      BY <3>3, <3>4, <3>6
  <2> QED
    BY <1>2, <2>6 DEF IsLonger
<1> QED
  BY <1>1, <1>2

(* What is put to JACK stays as it is while bytes come and go.             *)
LEMMA OutStays ==
  ASSUME MessagesAreWhole, UNCHANGED out, ~dropped' => ~dropped
  PROVE  MessagesAreWhole'
BY DEF MessagesAreWhole

(* The serial thread writes the device's next byte. *)
LEMMA SendingKeeps ==
  ASSUME TtyInv, NEW c \in TtyBytes, NEW e \in Devices, Sends(c, e), e.k <= e.length,
         \/ /\ device.k < device.length /\ c = Byte(0, device.of, device.k + 1)
            /\ e = [device EXCEPT !.k = device.k + 1]
         \/ /\ device.k = device.length /\ c.of = e.of /\ e.of = device.of + 1
            /\ \/ c.kind # 0 /\ c.k = 1 /\ e.length = c.kind /\ e.k = 1
               \/ c.kind = 0 /\ c.k = 0 /\ e.length = 0 /\ e.k = 0
  PROVE  TtyInv'
<1>1. PICK s, t, d : s = tty_rb /\ t = tty_rb' /\ d = device
  OBVIOUS
<1>2. /\ s \in Seq(TtyBytes) /\ Len(s) <= TtyCapacity /\ d \in Devices
      /\ t = rb_write(s, TtyCapacity, <<c>>) /\ device' = e /\ serial' = [serial EXCEPT !.c = c] /\ out' = out
      /\ dropped' = (dropped \/ Len(s) = TtyCapacity)
  BY <1>1 DEF TtyInv, TtyOK, Sends
<1>3. TtyCapacity \in Nat
  BY TtyAssumption DEF TtyAssumption
<1>4. /\ t \in Seq(TtyBytes) /\ Len(t) <= TtyCapacity
      /\ Len(s) # TtyCapacity => IsLonger(s, t) /\ Len(t) = Len(s) + 1 /\ t[Len(t)] = c
  BY <1>2, <1>3, ByteWritten
<1>5. TtyOK'
  BY <1>1, <1>2, <1>4 DEF TtyInv, TtyOK
<1>6. MessagesAreWhole'
  BY <1>2, OutStays DEF TtyInv
<1>7. ASSUME ~dropped'
      PROVE  Stream(t) /\ EndsAs(t, e) /\ Older'
  <2>1. ~dropped /\ Len(s) # TtyCapacity
    BY <1>2, <1>7
  <2>2. Stream(s) /\ EndsAs(s, d) /\ Older
    BY <1>1, <2>1 DEF TtyInv
  <2>3. IsLonger(s, t) /\ Len(t) = Len(s) + 1 /\ t[Len(t)] = c
    BY <1>4, <2>1
  <2>4. PICK l, h : l = Len(s) /\ h = OpenAt(s, d)
    OBVIOUS
  <2>5. /\ l \in Nat /\ Len(t) = l + 1 /\ t[l + 1] = c
        /\ \A j \in 1 .. l + 1 : (j \in 1 .. l /\ t[j] = s[j]) \/ j = l + 1
    BY <2>3, <2>4 DEF IsLonger
  <2>6. /\ d.of \in Nat /\ e.of \in Nat /\ d.k \in Nat
        /\ \A i \in 1 .. Len(out) : out[i][1].of \in Nat
    <3>1. \A i \in 1 .. Len(out) : out[i][1] \in TtyBytes
      <4> TAKE i \in 1 .. Len(out)
      <4> DEFINE S == Seq(TtyBytes)
      <4>1. PICK b : b = out[i] /\ b \in S /\ b # <<>>
        <5>1. out \in Seq(S) /\ out[i] # <<>>
          BY DEF TtyInv, TtyOK
        <5> HIDE DEF S
        <5> QED
          BY <5>1, ElementOfSeq
      <4>2. b[1] \in TtyBytes
        BY <4>1
      <4> QED
        BY <4>1, <4>2
    <3> QED
      BY <1>2, <3>1 DEF Devices, TtyBytes
  <2>7. /\ \A i \in 1 .. Len(out) : out[i][1].of <= d.of
        /\ \A i \in 1 .. Len(out), j \in 1 .. l : out[i][1].of < s[j].of
    BY <1>1, <2>2, <2>4 DEF Older
  <2>8. CASE d.k < d.length
    <3>1. c = Byte(0, d.of, d.k + 1) /\ e = [d EXCEPT !.k = d.k + 1]
      BY <1>1, <2>6, <2>8
    <3>2. Stream(t) /\ EndsAs(t, e)
      BY <1>2, <1>4, <2>2, <2>3, <2>8, <3>1, BodySent
    <3>3. c.of = d.of /\ e.of = d.of
      BY <1>2, <3>1 DEF Byte, Devices
    <3>4. h \in 1 .. l /\ s[h].of = d.of
      BY <2>2, <2>4, <2>8 DEF EndsAs, Byte
    <3>5. \A i \in 1 .. Len(out), j \in 1 .. l + 1 : out[i][1].of < t[j].of
      BY <2>5, <2>7, <3>3, <3>4
    <3> QED
      BY <1>1, <1>2, <2>5, <2>7, <3>2, <3>3, <3>5 DEF Older
  <2>9. CASE ~(d.k < d.length)
    <3>1. /\ d.k = d.length /\ c.of = e.of /\ e.of = d.of + 1
          /\ \/ c.kind # 0 /\ c.k = 1 /\ e.length = c.kind /\ e.k = 1
             \/ c.kind = 0 /\ c.k = 0 /\ e.length = 0 /\ e.k = 0
      BY <1>1, <2>9
    <3>2. c.kind \in Kinds
      BY DEF TtyBytes
    <3>3. Stream(t) /\ EndsAs(t, e)
      BY <1>2, <1>4, <2>2, <2>3, <3>1, <3>2, BorderSent
    <3>4. \A i \in 1 .. Len(out) : out[i][1].of <= e.of
      BY <2>6, <2>7, <3>1
    <3>5. \A i \in 1 .. Len(out), j \in 1 .. l + 1 : out[i][1].of < t[j].of
      <4> TAKE i \in 1 .. Len(out), j \in 1 .. l + 1
      <4>1. CASE j \in 1 .. l
        <5>1. t[j] = s[j]
          BY <2>3, <2>4, <4>1 DEF IsLonger
        <5> QED
          BY <2>7, <4>1, <5>1
      <4>2. CASE j = l + 1
        <5>1. PICK x : x = out[i][1].of /\ x \in Nat /\ x <= d.of
          BY <2>6, <2>7
        <5>2. t[j].of = d.of + 1
          BY <2>5, <3>1, <4>2
        <5>3. x < t[j].of
          BY <2>6, <5>1, <5>2
        <5> QED
          BY <5>1, <5>3
      <4> QED
        BY <2>5, <4>1, <4>2
    <3> QED
      BY <1>1, <1>2, <2>5, <3>3, <3>4, <3>5 DEF Older
  <2> QED
    BY <2>8, <2>9
<1> QED
  BY <1>1, <1>2, <1>5, <1>6, <1>7 DEF TtyInv

(* Each of the three ways that the device goes on. *)
LEMMA SerialReadsKeeps == TtyInv /\ SerialReads => TtyInv'
<1> SUFFICES ASSUME TtyInv, SerialReads
             PROVE  TtyInv'
  OBVIOUS
<1>1. PICK d : d = device
  OBVIOUS
<1>2. /\ d \in Devices /\ d.k <= d.length
      /\ d.of \in Nat /\ d.length \in 0 .. 3 /\ d.k \in Nat /\ d.stray \in Nat
  BY <1>1 DEF TtyInv, TtyOK, Devices, Kinds
<1>3. CASE /\ d.k < d.length
           /\ Sends(Byte(0, d.of, d.k + 1), [d EXCEPT !.k = d.k + 1])
  <2>1. PICK c, e : c = Byte(0, d.of, d.k + 1) /\ e = [d EXCEPT !.k = d.k + 1]
    OBVIOUS
  <2>2. c \in TtyBytes
    BY <1>2, <2>1 DEF Byte, TtyBytes, Kinds
  <2>3. e \in Devices /\ e.k <= e.length
    BY <1>2, <1>3, <2>1 DEF Devices
  <2> QED
    BY <1>1, <1>3, <2>1, <2>2, <2>3, SendingKeeps
<1>4. ASSUME d.k = d.length, NEW n \in Kinds \ {0},
             Sends(Byte(n, d.of + 1, 1), [of |-> d.of + 1, length |-> n, k |-> 1, stray |-> 0])
      PROVE  TtyInv'
  <2>1. PICK c, e : /\ c = Byte(n, d.of + 1, 1)
                    /\ e = [of |-> d.of + 1, length |-> n, k |-> 1, stray |-> 0]
    OBVIOUS
  <2>2. c \in TtyBytes /\ c.of = d.of + 1 /\ c.k = 1 /\ c.kind = n
    BY <1>2, <2>1 DEF Byte, TtyBytes
  <2>3. e \in Devices /\ e.of = d.of + 1 /\ e.length = n /\ e.k = 1
    BY <1>2, <2>1 DEF Devices
  <2>4. n # 0 /\ e.k <= e.length
    BY <2>3 DEF Kinds
  <2> QED
    BY <1>1, <1>4, <2>1, <2>2, <2>3, <2>4, SendingKeeps
<1>5. ASSUME d.k = d.length,
             Sends(Byte(0, d.of + 1, 0),
                   [of |-> d.of + 1, length |-> 0, k |-> 0, stray |-> d.stray + 1])
      PROVE  TtyInv'
  <2>1. PICK c, e : /\ c = Byte(0, d.of + 1, 0)
                    /\ e = [of |-> d.of + 1, length |-> 0, k |-> 0, stray |-> d.stray + 1]
    OBVIOUS
  <2>2. c \in TtyBytes /\ c.of = d.of + 1 /\ c.k = 0 /\ c.kind = 0
    BY <1>2, <2>1 DEF Byte, TtyBytes, Kinds
  <2>3. e \in Devices /\ e.of = d.of + 1 /\ e.length = 0 /\ e.k = 0
    BY <1>2, <2>1 DEF Devices, Kinds
  <2>4. e.k <= e.length
    BY <2>3
  <2> QED
    BY <1>1, <1>5, <2>1, <2>2, <2>3, <2>4, SendingKeeps
<1> QED
  BY <1>1, <1>3, <1>4, <1>5 DEF SerialReads

(* The device or the user ends the reading. *)
LEMMA DeviceGoesKeeps == TtyInv /\ (DeviceGoes \/ ControlA) => TtyInv'
<1> SUFFICES ASSUME TtyInv, DeviceGoes \/ ControlA
             PROVE  TtyInv'
  OBVIOUS
<1>1. PICK d : d = device
  OBVIOUS
<1>2. d \in Devices /\ d.k <= d.length /\ d.k \in Nat /\ d.length \in 0 .. 3
  BY <1>1 DEF TtyInv, TtyOK, Devices, Kinds
<1>3. PICK e : e = [d EXCEPT !.k = d.length]
  OBVIOUS
<1>4. e \in Devices /\ e.k <= e.length
  BY <1>2, <1>3 DEF Devices
<1>5. device' = e /\ serial' = [serial EXCEPT !.at = "opening"] /\ out' = out
  <2>1. device' = e /\ out' = out /\ serial' = [serial EXCEPT !.at = "opening"]
    BY <1>1, <1>3, Zenon DEF DeviceGoes, ControlA
  <2> QED
    BY <2>1
<1>6. CASE DeviceGoes
  <2>1. PICK c, t : c = serial.c /\ t = tty_rb' /\ t = rb_write(tty_rb, TtyCapacity, <<c>>)
    BY <1>6 DEF DeviceGoes
  <2>2. c \in TtyBytes /\ TtyCapacity \in Nat
    BY <2>1, TtyAssumption DEF TtyInv, TtyOK, TtyAssumption
  <2>3. PICK s : s = tty_rb /\ s \in Seq(TtyBytes) /\ Len(s) <= TtyCapacity
    BY DEF TtyInv, TtyOK
  <2>4. t \in Seq(TtyBytes) /\ Len(t) <= TtyCapacity
    BY <2>1, <2>2, <2>3, ByteWritten
  <2>5. TtyOK'
    BY <1>4, <1>5, <2>1, <2>4 DEF TtyInv, TtyOK
  <2>6. dropped' = TRUE
    BY <1>6 DEF DeviceGoes
  <2> QED
    BY <2>5, <2>6 DEF TtyInv, MessagesAreWhole
<1>7. CASE ControlA
  <2>1. tty_rb' = tty_rb /\ dropped' = (dropped \/ d.k < d.length)
    BY <1>1, <1>7 DEF ControlA
  <2>2. TtyOK'
    BY <1>4, <1>5, <2>1 DEF TtyInv, TtyOK
  <2>3. ~dropped' => ~dropped /\ e = d
    <3>1. ~dropped' => ~dropped /\ ~(d.k < d.length)
      BY <2>1, Zenon
    <3>2. ~(d.k < d.length) => d.k = d.length
      BY <1>2
    <3>3. d.k = d.length => e = d
      BY <1>2, <1>3 DEF Devices
    <3> QED
      BY <3>1, <3>2, <3>3
  <2>4. MessagesAreWhole'
    BY <1>5, <2>3, OutStays DEF TtyInv
  <2>5. ~dropped' => Stream(tty_rb') /\ EndsAs(tty_rb', device') /\ Older'
    <3> SUFFICES ASSUME ~dropped'
                 PROVE  Stream(tty_rb') /\ EndsAs(tty_rb', device') /\ Older'
      OBVIOUS
    <3>1. device' = device /\ ~dropped
      BY <1>1, <1>5, <2>3
    <3> QED
      BY <1>5, <2>1, <3>1 DEF TtyInv, Older
  <2> QED
    BY <2>2, <2>4, <2>5 DEF TtyInv
<1> QED
  BY <1>6, <1>7

(* A message is broken by a real-time byte in the middle of it. *)
LEMMA RealTimeKeeps == TtyInv /\ RealTimeByte => TtyInv'
<1> SUFFICES ASSUME TtyInv, RealTimeByte
             PROVE  TtyInv'
  OBVIOUS
<1>1. PICK c, s, t : /\ c = Byte(1, device.of, 0) /\ s = tty_rb /\ t = tty_rb'
                     /\ t = rb_write(s, TtyCapacity, <<c>>) /\ serial' = [serial EXCEPT !.c = c]
  BY DEF RealTimeByte
<1>2. c \in TtyBytes /\ TtyCapacity \in Nat
  <2>1. device \in Devices
    BY DEF TtyInv, TtyOK
  <2>2. device.of \in Nat
    BY <2>1 DEF Devices
  <2>3. c \in TtyBytes
    BY <1>1, <2>2 DEF TtyBytes, Byte, Kinds
  <2> QED
    BY <2>3, TtyAssumption DEF TtyAssumption
<1>3. s \in Seq(TtyBytes) /\ Len(s) <= TtyCapacity
  BY <1>1 DEF TtyInv, TtyOK
<1>4. t \in Seq(TtyBytes) /\ Len(t) <= TtyCapacity
  BY <1>1, <1>2, <1>3, ByteWritten
<1>5. device' = device /\ out' = out /\ dropped' = TRUE
  BY DEF RealTimeByte
<1>6. TtyOK'
  BY <1>1, <1>2, <1>4, <1>5 DEF TtyInv, TtyOK
<1> QED
  BY <1>5, <1>6 DEF TtyInv, MessagesAreWhole

(* A new ring buffer: nothing is lost when the old one is empty and no     *)
(* message is under way.                                                   *)
LEMMA ConnectingKeeps == TtyInv /\ MainConnects => TtyInv'
<1> SUFFICES ASSUME TtyInv, MainConnects
             PROVE  TtyInv'
  OBVIOUS
<1>1. PICK d : d = device
  OBVIOUS
<1>2. d \in Devices /\ d.k <= d.length /\ d.k \in Nat /\ d.length \in 0 .. 3
  BY <1>1 DEF TtyInv, TtyOK, Devices, Kinds
<1>3. /\ tty_rb' = <<>> /\ device' = d /\ serial' = serial /\ out' = out
      /\ dropped' = (dropped \/ tty_rb # <<>> \/ d.k < d.length)
  BY <1>1 DEF MainConnects
<1>4. TtyOK'
  <2>1. <<>> \in Seq(TtyBytes) /\ Len(<<>>) <= TtyCapacity
    BY TtyAssumption DEF TtyAssumption
  <2> QED
    BY <1>1, <1>3, <2>1 DEF TtyInv, TtyOK
<1>5. ~dropped' => ~dropped /\ d.k = d.length
  <2>1. ~dropped' => ~dropped /\ ~(d.k < d.length)
    BY <1>3, Zenon
  <2>2. ~(d.k < d.length) => d.k = d.length
    BY <1>2
  <2> QED
    BY <2>1, <2>2
<1>6. MessagesAreWhole'
  BY <1>3, <1>5, OutStays DEF TtyInv
<1>7. ASSUME ~dropped'
      PROVE  Stream(tty_rb') /\ EndsAs(tty_rb', device') /\ Older'
  <2>1. Stream(<<>>) /\ EndsAs(<<>>, d)
    BY <1>2, <1>5, <1>7, NothingPending
  <2>2. Older
    BY <1>5, <1>7 DEF TtyInv
  <2>3. Older'
    BY <1>1, <1>3, <2>2 DEF Older
  <2> QED
    BY <1>3, <2>1, <2>3
<1> QED
  BY <1>4, <1>6, <1>7 DEF TtyInv

(* Only the bytes, the device and what was put to JACK matter.             *)
LEMMA BytesStay ==
  ASSUME TtyInv, UNCHANGED <<device, tty_rb, out, dropped>>,
         \/ serial' = serial
         \/ \E to \in {"opening", "to wait", "waiting", "reading"} : serial' = [serial EXCEPT !.at = to]
  PROVE  TtyInv'
<1>1. TtyOK'
  BY DEF TtyInv, TtyOK
<1>2. MessagesAreWhole'
  BY OutStays DEF TtyInv
<1>3. Older => Older'
  BY DEF Older
<1>4. ASSUME ~dropped'
      PROVE  Stream(tty_rb') /\ EndsAs(tty_rb', device') /\ Older'
  <2>1. ~dropped
    BY <1>4
  <2>2. Stream(tty_rb) /\ EndsAs(tty_rb, device) /\ Older
    BY <2>1 DEF TtyInv
  <2> QED
    BY <1>3, <2>2
<1> QED
  BY <1>1, <1>2, <1>4 DEF TtyInv

(* process takes the message that begins at the first command.             *)
LEMMA ProcessKeeps == TtyInv /\ tty_process => TtyInv'
<1> SUFFICES ASSUME TtyInv, tty_process
             PROVE  TtyInv'
  OBVIOUS
<1>1. PICK s, t, skip, h, n, b :
        /\ s = tty_rb /\ t = tty_rb' /\ skip = skip_counter /\ h = skip + 1
        /\ n = s[skip + 1].kind /\ b = Bytes(skip, n)
  OBVIOUS
<1>2. /\ s \in Seq(TtyBytes) /\ Len(s) <= TtyCapacity
  BY <1>1 DEF TtyInv, TtyOK
<1>3. /\ skip \in 0 .. Len(s) /\ \A i \in 1 .. skip : s[i].kind = 0
      /\ skip < Len(s) => s[skip + 1].kind # 0
  <2>1. \E x \in 0 .. Len(s) : FirstAfter(s, x)
    BY <1>2, FirstCommand
  <2>2. skip = CHOOSE x \in 0 .. Len(s) : FirstAfter(s, x)
    BY <1>1, Zenon DEF skip_counter, FirstAfter
  <2>3. skip \in 0 .. Len(s) /\ FirstAfter(s, skip)
    BY <2>1, <2>2, Zenon
  <2> QED
    BY <2>3 DEF FirstAfter
<1>4. skip < Len(s) /\ Len(s) >= skip + n
  BY <1>1 DEF tty_process, rb_find_next_midi_message, Complete, rb_can_read, rb_peek_byte_at
<1>5. h \in 1 .. Len(s) /\ (\A i \in 1 .. h - 1 : s[i].kind = 0) /\ s[h].kind = n /\ n # 0
  BY <1>1, <1>3, <1>4
<1>6. n \in 1 .. 3
  <2>1. s[h] \in TtyBytes
    BY <1>2, <1>5
  <2> QED
    BY <1>5, <2>1 DEF TtyBytes, Kinds
<1>7. PICK l, p : l = Len(s) /\ p = h + n - 1
  OBVIOUS
<1>8. l \in Nat /\ h \in 1 .. l /\ p \in h .. l /\ p = skip + n /\ skip \in 0 .. l /\ skip = h - 1
  <2>1. l \in Nat /\ skip \in 0 .. l /\ h = skip + 1 /\ l >= skip + n
    BY <1>1, <1>2, <1>3, <1>4, <1>7
  <2> QED
    BY <1>6, <1>7, <2>1
<1>9. t = SubSeq(s, p + 1, l)
  <2>1. t = rb_skip(s, p)
    BY <1>1, <1>8 DEF tty_process, rb_peek_byte_at
  <2>2. ~(p > l)
    BY <1>8
  <2> QED
    BY <1>7, <2>1, <2>2, Zenon DEF rb_skip, rb_can_read, Limited
<1>10. t \in Seq(TtyBytes) /\ Len(t) = l - p /\ \A i \in 1 .. l - p : t[i] = s[p + i]
  <2>1. \A i \in p + 1 .. l : s[i] \in TtyBytes
    BY <1>2, <1>7, <1>8
  <2>2. p + 1 \in Int /\ l \in Int /\ p \in Nat /\ p <= l
    BY <1>8
  <2>3. /\ t \in Seq(TtyBytes) /\ Len(t) = IF p + 1 <= l THEN l - (p + 1) + 1 ELSE 0
        /\ \A i \in 1 .. l - (p + 1) + 1 : t[i] = s[(p + 1) + i - 1]
    BY <1>9, <2>1, <2>2, SubSeqProperties
  <2>4. \A i \in 1 .. l - p : (p + 1) + i - 1 = p + i
    BY <2>2
  <2>5. l - (p + 1) + 1 = l - p
    BY <2>2
  <2>6. Len(t) = l - p
    <3>1. t \in Seq(TtyBytes) /\ Len(t) = IF p + 1 <= l THEN l - (p + 1) + 1 ELSE 0
      BY <2>3
    <3> QED
      BY <2>2, <3>1
  <2>7. \A i \in 1 .. l - p : t[i] = s[p + i]
    BY <2>3, <2>4, <2>5, Zenon
  <2> QED
    BY <2>3, <2>6, <2>7
<1>11. RestAfter(s, t, p)
  BY <1>7, <1>10 DEF RestAfter
<1>12. b = SubSeq(s, h, p)
  <2>1. rb_skip(s, skip) = SubSeq(s, skip + 1, l)
    <3>1. ~(skip > l)
      BY <1>8
    <3> QED
      BY <1>7, <3>1, Zenon DEF rb_skip, rb_can_read, Limited
  <2>2. PICK r : r = SubSeq(s, h, l)
    OBVIOUS
  <2>3. r \in Seq(TtyBytes) /\ Len(r) = l - skip /\ n <= l - skip
        /\ \A i \in 1 .. l - skip : r[i] = s[skip + i]
    BY <1>2, <1>6, <1>7, <1>8, <2>2
  <2>4. b = SubSeq(r, 1, n)
    <3>1. ~(n > Len(r))
      BY <1>6, <1>8, <2>3
    <3>2. b = rb_read(r, n)
      BY <1>1, <2>1, <2>2, Zenon DEF Bytes
    <3> QED
      BY <3>1, <3>2, Zenon DEF rb_read, rb_can_read, Limited
  <2> QED
    BY <1>2, <1>6, <1>7, <1>8, <2>2, <2>3, <2>4
<1>13. b \in Seq(TtyBytes) /\ Len(b) = n /\ \A j \in 1 .. n : b[j] = s[h + j - 1]
  BY <1>2, <1>6, <1>7, <1>8, <1>12
<1>14. out' = Append(out, b) /\ UNCHANGED <<device, serial, dropped>>
  BY <1>1 DEF tty_process, rb_peek_byte_at
<1>15. PICK o, q, x : o = out /\ q = out' /\ x = Len(o)
  OBVIOUS
<1>16. /\ o \in Seq(Seq(TtyBytes)) /\ \A i \in 1 .. x : o[i] # <<>>
       /\ x \in Nat /\ q \in Seq(Seq(TtyBytes)) /\ Len(q) = x + 1 /\ q[x + 1] = b
       /\ \A i \in 1 .. x : q[i] = o[i]
  <2>1. o \in Seq(Seq(TtyBytes)) /\ \A i \in 1 .. x : o[i] # <<>>
    BY <1>15 DEF TtyInv, TtyOK
  <2> QED
    BY <1>13, <1>14, <1>15, <2>1
<1>17. /\ x \in Nat /\ DOMAIN o = 1 .. x
       /\ \A i \in 1 .. x + 1 : (i \in 1 .. x /\ q[i] = o[i]) \/ (i = x + 1 /\ q[i] = b)
  <2>1. x \in Nat /\ DOMAIN o = 1 .. x
    BY <1>15, <1>16
  <2>2. \A i \in 1 .. x + 1 : i \in 1 .. x \/ i = x + 1
    BY <2>1
  <2>3. \A i \in 1 .. x + 1 : (i \in 1 .. x /\ q[i] = o[i]) \/ (i = x + 1 /\ q[i] = b)
    <3> TAKE i \in 1 .. x + 1
    <3>1. CASE i \in 1 .. x
      BY <1>16, <3>1
    <3>2. CASE i = x + 1
      BY <1>16, <3>2
    <3> QED
      BY <2>2, <3>1, <3>2
  <2> QED
    BY <2>1, <2>3
<1>18. TtyOK'
  <2>1. \A i \in 1 .. Len(q) : q[i] # <<>>
    BY <1>6, <1>13, <1>16, <1>17
  <2>2. Len(t) <= TtyCapacity
    <3>1. TtyCapacity \in Nat
      BY TtyAssumption DEF TtyAssumption
    <3> QED
      BY <1>2, <1>7, <1>8, <1>10, <3>1
  <2> QED
    BY <1>1, <1>10, <1>14, <1>15, <1>16, <2>1, <2>2 DEF TtyInv, TtyOK
<1>19. ASSUME ~dropped'
       PROVE  /\ Stream(tty_rb') /\ EndsAs(tty_rb', device') /\ Older'
              /\ MessagesAreWhole'
  <2>1. PICK d : d = device /\ d = device' /\ d \in Devices
    BY <1>14 DEF TtyInv, TtyOK
  <2>2. ~dropped
    BY <1>14, <1>19
  <2>3. Stream(s) /\ EndsAs(s, d)
    BY <1>1, <2>1, <2>2 DEF TtyInv
  <2>4. /\ \A i \in 1 .. x : o[i][1].of <= d.of
        /\ \A i \in 1 .. x, j \in 1 .. l : o[i][1].of < s[j].of
    BY <1>1, <1>7, <1>15, <2>1, <2>2 DEF TtyInv, Older
  <2>5. /\ \A i \in 1 .. x : \A k \in DOMAIN o[i] :
             o[i][k] = Byte(IF k = 1 THEN Len(o[i]) ELSE 0, o[i][1].of, k)
        /\ \A i, j \in 1 .. x : i < j => o[i][1].of < o[j][1].of
    BY <1>15, <1>17, <2>2 DEF TtyInv, MessagesAreWhole
  <2>6. /\ Stream(t) /\ EndsAs(t, d)
        /\ \A j \in 1 .. n : s[h + j - 1] = Byte(IF j = 1 THEN n ELSE 0, s[h].of, j)
        /\ \A j \in 1 .. Len(t) : s[h].of < t[j].of
    <3>1. RestAfter(s, t, h + n - 1) /\ h + n - 1 <= Len(s)
      BY <1>7, <1>8, <1>11
    <3>2. t \in Seq(TtyBytes)
      BY <1>10
    <3> QED
      BY <1>2, <1>5, <1>6, <2>1, <2>3, <3>1, <3>2, MessageTaken, SMTT(30)
  <2>7. b[1] = s[h]
    <3>1. h + 1 - 1 = h /\ 1 \in 1 .. n
      BY <1>6, <1>8
    <3> QED
      BY <1>13, <3>1
  <2>8. s[h].of <= d.of /\ \A i \in 1 .. x : o[i][1].of < s[h].of
    BY <1>7, <1>8, <2>3, <2>4 DEF EndsAs
  <2>9. \A i \in 1 .. l - p : p + i \in 1 .. l
    BY <1>8
  <2>10. Older'
    <3>1. \A i \in 1 .. x + 1 : q[i][1].of <= d.of
      BY <1>17, <2>4, <2>7, <2>8
    <3>2. \A i \in 1 .. x + 1, j \in 1 .. l - p : q[i][1].of < t[j].of
      BY <1>10, <1>17, <2>4, <2>6, <2>7, <2>9
    <3> QED
      BY <1>1, <1>10, <1>15, <1>16, <2>1, <3>1, <3>2 DEF Older
  <2>11. MessagesAreWhole'
    <3>1. \A k \in 1 .. n : b[k] = Byte(IF k = 1 THEN n ELSE 0, b[1].of, k)
      BY <1>13, <2>6, <2>7
    <3>2. DOMAIN b = 1 .. n /\ Len(b) = n
      BY <1>13
    <3>3. \A i \in 1 .. x + 1 : \A k \in DOMAIN q[i] :
            q[i][k] = Byte(IF k = 1 THEN Len(q[i]) ELSE 0, q[i][1].of, k)
      BY <1>17, <2>5, <3>1, <3>2
    <3>4. ASSUME NEW i \in 1 .. x + 1, NEW j \in 1 .. x + 1, i < j
          PROVE  q[i][1].of < q[j][1].of
      <4>1. i \in 1 .. x
        BY <1>17, <3>4
      <4>2. q[i] = o[i]
        BY <1>16, <4>1
      <4>3. CASE j \in 1 .. x /\ q[j] = o[j]
        BY <2>5, <3>4, <4>1, <4>2, <4>3
      <4>4. CASE j = x + 1 /\ q[j] = b
        BY <2>7, <2>8, <4>1, <4>2, <4>4
      <4> QED
        BY <1>17, <4>3, <4>4
    <3>5. DOMAIN q = 1 .. x + 1
      BY <1>16
    <3> QED
      BY <1>15, <3>3, <3>4, <3>5 DEF MessagesAreWhole
  <2> QED
    BY <1>1, <2>1, <2>6, <2>10, <2>11
<1> QED
  BY <1>18, <1>19 DEF TtyInv, MessagesAreWhole

(* The invariant is inductive: the other actions move no byte.             *)
LEMMA TtyInvNext == TtyInv /\ [TtyNext]_tty_vars => TtyInv'
<1> SUFFICES ASSUME TtyInv, [TtyNext]_tty_vars
             PROVE  TtyInv'
  OBVIOUS
<1>1. CASE SerialReads
  BY <1>1, SerialReadsKeeps
<1>2. CASE DeviceGoes \/ ControlA
  BY <1>2, DeviceGoesKeeps
<1>3. CASE MainConnects
  BY <1>3, ConnectingKeeps
<1>4. CASE tty_process
  BY <1>4, ProcessKeeps
<1>5. CASE SerialOpens \/ SerialWaits \/ start_serial_thread
  <2>1. UNCHANGED <<device, tty_rb, out, dropped>>
    BY <1>5 DEF SerialOpens, SerialWaits, start_serial_thread
  <2>2. \/ serial' = serial
        \/ \E to \in {"opening", "to wait", "waiting", "reading"} :
             serial' = [serial EXCEPT !.at = to]
    BY <1>5 DEF SerialOpens, SerialWaits, start_serial_thread
  <2> QED
    BY <2>1, <2>2, BytesStay
<1>6. CASE shutdown_callback
  BY <1>6, BytesStay DEF shutdown_callback
<1>7. CASE UNCHANGED tty_vars
  BY <1>7, BytesStay DEF tty_vars
<1>8. CASE RealTimeByte
  BY <1>8, RealTimeKeeps
<1> QED
  BY <1>1, <1>2, <1>3, <1>4, <1>5, <1>6, <1>7, <1>8
     DEF TtyNext, SerialThread, MainThread

(* While no byte is dropped, made up or sent in the middle of a message,   *)
(* each message that process puts to JACK is one that the device sent,     *)
(* with all the bytes that its command has, and in the order sent, for     *)
(* every capacity of the ring buffer, whenever the serial thread writes,   *)
(* process reads and JACK comes and goes (tty.c, rb_midi.h).               *)
THEOREM SendsWholeMessages == TtySpec => []MessagesAreWhole
<1>1. TtyInv => MessagesAreWhole
  BY DEF TtyInv
<1> QED
  BY <1>1, TtyInvInit, TtyInvNext, PTL DEF TtySpec

------------------------------------------------------------------------------
(* The tone generator.                                                     *)

(* struct Generator, whatever the values of its numbers. *)
GeneratorFields ==
  {"status", "restart_at", "restart_pending", "stop_pending", "stopped", "loop_enabled",
   "loop_gap", "gap", "loop_pending", "elapsed"}

IsGenerator(g) ==
  /\ DOMAIN g = GeneratorFields /\ g = [f \in GeneratorFields |-> g[f]]
  /\ g.stop_pending \in BOOLEAN /\ g.stopped \in BOOLEAN
  /\ g.loop_enabled \in BOOLEAN /\ g.loop_pending \in BOOLEAN

Clean(g) == g.stopped => ~g.loop_pending /\ g.gap = 0 /\ g.elapsed = 0

GenInv == IsGenerator(gen) /\ Clean(gen)

(* What a cycle is after some of its samples. *)
IsCleanCycle(c) ==
  /\ c = [gen |-> c.gen, out |-> c.out, returned |-> c.returned]
  /\ IsGenerator(c.gen) /\ Clean(c.gen)

(* One sample keeps what is stopped clean, whichever branch it takes.      *)
LEMMA SampleIsClean ==
  ASSUME NEW c, IsCleanCycle(c), NEW i
  PROVE  IsCleanCycle(Sample(c, i))
<1> DEFINE restarts == c.gen.restart_pending /\ c.gen.restart_at = i
           g == IF restarts THEN Restarted(c.gen) ELSE c.gen
           h == IF HasEnded(g) THEN Ended(g) ELSE g
           resumed == [h EXCEPT !.loop_pending = FALSE, !.gap = IF h.loop_pending THEN 0 ELSE @]
<1>1. IsGenerator(c.gen) /\ Clean(c.gen)
  BY DEF IsCleanCycle
<1>2. IsGenerator(g) /\ Clean(g)
  <2>1. PICK x : x = c.gen /\ IsGenerator(x)
    BY <1>1
  <2>2. IsGenerator(Restarted(x)) /\ ~Restarted(x).stopped
    BY <2>1 DEF IsGenerator, GeneratorFields, Restarted
  <2> QED
    BY <1>1, <2>1, <2>2 DEF Clean
<1> HIDE DEF g
<1>3. IsGenerator(h) /\ Clean(h)
  <2>1. PICK x : x = g /\ IsGenerator(x)
    BY <1>2
  <2>2. IsGenerator(Ended(x))
    BY <2>1 DEF IsGenerator, GeneratorFields, Ended
  <2>3. Clean(Ended(x))
    BY <2>1 DEF IsGenerator, GeneratorFields, Ended, Clean
  <2> QED
    BY <1>2, <2>1, <2>2, <2>3
<1> HIDE DEF h
<1>4. IsGenerator(resumed) /\ Clean(resumed) /\ resumed.stopped = h.stopped
  <2>1. IsGenerator(resumed) /\ resumed.stopped = h.stopped
    BY <1>3 DEF IsGenerator, GeneratorFields
  <2>2. Clean(resumed)
    BY <1>3 DEF IsGenerator, GeneratorFields, Clean
  <2> QED
    BY <2>1, <2>2
<1>5. Sample(c, i) = IF c.returned THEN c
                     ELSE IF h.loop_pending /\ h.gap <= h.loop_gap
                     THEN [c EXCEPT !.gen = [h EXCEPT !.gap = @ + 1]]
                     ELSE IF h.stopped
                     THEN [c EXCEPT !.gen = resumed, !.returned = TRUE]
                     ELSE [c EXCEPT !.out[i + 1] = TRUE,
                                    !.gen = [resumed EXCEPT !.elapsed =
                                               IF dur.infinite THEN @ ELSE @ + 1]]
  BY DEF Sample, h, g
<1> HIDE DEF resumed
<1>6. CASE c.returned
  BY <1>5, <1>6
<1>7. CASE ~c.returned /\ h.loop_pending /\ h.gap <= h.loop_gap
  <2> DEFINE r == [h EXCEPT !.gap = @ + 1]
  <2>1. IsGenerator(r) /\ Clean(r)
    BY <1>3, <1>7 DEF IsGenerator, GeneratorFields, Clean
  <2>2. Sample(c, i) = [c EXCEPT !.gen = r]
    BY <1>5, <1>7
  <2> HIDE DEF r
  <2> QED
    BY <2>1, <2>2 DEF IsCleanCycle
<1>8. CASE ~c.returned /\ ~(h.loop_pending /\ h.gap <= h.loop_gap) /\ h.stopped
  <2>1. Sample(c, i) = [c EXCEPT !.gen = resumed, !.returned = TRUE]
    BY <1>5, <1>8
  <2> QED
    BY <1>4, <2>1 DEF IsCleanCycle
<1>9. CASE ~c.returned /\ ~(h.loop_pending /\ h.gap <= h.loop_gap) /\ ~h.stopped
  <2> DEFINE r == [resumed EXCEPT !.elapsed = IF dur.infinite THEN @ ELSE @ + 1]
  <2>1. IsGenerator(r) /\ Clean(r)
    BY <1>4, <1>9 DEF IsGenerator, GeneratorFields, Clean
  <2>2. Sample(c, i) = [c EXCEPT !.out[i + 1] = TRUE, !.gen = r]
    BY <1>5, <1>9
  <2> HIDE DEF r
  <2> QED
    BY <2>1, <2>2 DEF IsCleanCycle
<1> QED
  BY <1>6, <1>7, <1>8, <1>9

(* The cycle after each number of samples. *)
AfterSample(c, i) ==
  IF i = 0 THEN [gen |-> gen, out |-> Silence, returned |-> FALSE]
  ELSE Sample(c[i - 1], i - 1)

IsCycle(c, n) == c = [i \in 0 .. n |-> AfterSample(c, i)]

(* There is such a cycle of every length. *)
LEMMA CycleExists == \A n \in Nat : \E c : IsCycle(c, n)
<1> DEFINE Bad == {n \in Nat : \A c : ~IsCycle(c, n)}
<1> SUFFICES ASSUME NEW b \in Bad
             PROVE  FALSE
  OBVIOUS
<1>1. PICK n \in Bad : \A k \in Bad : n <= k
  <2>1. Bad \subseteq Nat /\ Bad # {}
    OBVIOUS
  <2> HIDE DEF Bad
  <2> QED
    BY <2>1, LeastElement
<1>2. CASE n = 0
  <2> DEFINE c == [i \in 0 .. 0 |-> [gen |-> gen, out |-> Silence, returned |-> FALSE]]
  <2>1. IsCycle(c, 0)
    BY DEF IsCycle, AfterSample
  <2> QED
    BY <1>2, <2>1
<1>3. CASE n # 0
  <2>1. n \in Nat /\ n - 1 \in Nat
    BY <1>3
  <2>2. n - 1 \notin Bad
    BY <1>1, <2>1
  <2>3. PICK c : IsCycle(c, n - 1)
    BY <2>1, <2>2
  <2> DEFINE d == [i \in 0 .. n |-> IF i < n THEN c[i] ELSE AfterSample(c, n)]
  <2>4. \A i \in 0 .. n : AfterSample(d, i) = AfterSample(c, i)
    <3> TAKE i \in 0 .. n
    <3>1. CASE i = 0
      BY <3>1 DEF AfterSample
    <3>2. CASE i # 0
      <4>1. d[i - 1] = c[i - 1]
        BY <2>1, <3>2
      <4> HIDE DEF d
      <4> QED
        BY <3>2, <4>1 DEF AfterSample
    <3> QED
      BY <3>1, <3>2
  <2>5. \A i \in 0 .. n - 1 : c[i] = AfterSample(c, i)
    BY <2>3 DEF IsCycle
  <2>6. \A i \in 0 .. n : d[i] = AfterSample(d, i)
    <3> TAKE i \in 0 .. n
    <3>1. CASE i < n
      BY <2>1, <2>4, <2>5, <3>1
    <3>2. CASE i = n
      BY <2>1, <2>4, <3>2
    <3> QED
      BY <2>1, <3>1, <3>2
  <2>7. IsCycle(d, n)
    BY <2>6 DEF IsCycle
  <2> QED
    BY <2>7
<1> QED
  BY <1>2, <1>3

(* process() goes through such a cycle. *)
LEMMA GoesThroughCycle ==
  ASSUME gen_process, Generates
  PROVE  \E c : IsCycle(c, Period) /\ gen' = c[Period].gen /\ buffer_out' = c[Period].out
<1> DEFINE c == CHOOSE d : IsCycle(d, Period)
<1>1. Period \in Nat
  BY GenAssumption DEF GenAssumption
<1>2. IsCycle(c, Period)
  BY <1>1, CycleExists
<1>3. gen' = c[Period].gen /\ buffer_out' = c[Period].out
  BY DEF gen_process, IsCycle, AfterSample
<1> QED
  BY <1>2, <1>3

(* What is stopped is clean after each of its samples. *)
LEMMA CycleIsClean ==
  ASSUME GenInv, NEW c, IsCycle(c, Period)
  PROVE  IsCleanCycle(c[Period])
<1>1. Period \in Nat
  BY GenAssumption DEF GenAssumption
<1>2. \A i \in 0 .. Period : c[i] = AfterSample(c, i)
  BY DEF IsCycle
<1> DEFINE Bad == {n \in 0 .. Period : ~IsCleanCycle(c[n])}
<1>3. ASSUME NEW b \in Bad
      PROVE  FALSE
  <2>1. PICK n \in Bad : \A k \in Bad : n <= k
    <3>1. Bad \subseteq Nat /\ Bad # {}
      BY <1>1, <1>3
    <3> HIDE DEF Bad
    <3> QED
      BY <3>1, LeastElement
  <2>2. n \in 0 .. Period /\ ~IsCleanCycle(c[n])
    OBVIOUS
  <2>3. n # 0
    <3>1. 0 \in 0 .. Period
      BY <1>1
    <3>2. c[0] = [gen |-> gen, out |-> Silence, returned |-> FALSE]
      BY <1>2, <3>1 DEF AfterSample
    <3>3. IsCleanCycle(c[0])
      BY <3>2 DEF IsCleanCycle, GenInv
    <3> QED
      BY <2>2, <3>3
  <2>4. n - 1 \in 0 .. Period - 1 /\ n - 1 \in 0 .. Period /\ n - 1 < n
    BY <1>1, <2>2, <2>3
  <2>5. n - 1 \notin Bad
    BY <1>1, <2>1, <2>4
  <2>6. IsCleanCycle(c[n - 1])
    BY <2>4, <2>5
  <2>7. IsCleanCycle(Sample(c[n - 1], n - 1))
    BY <2>4, <2>6, SampleIsClean
  <2> QED
    BY <1>2, <2>2, <2>3, <2>7 DEF AfterSample
<1> QED
  BY <1>1, <1>3

(* The generator begins as setup() leaves it. *)
LEMMA GenInvInit == GenInit => GenInv
BY DEF GenInit, GenInv, IsGenerator, GeneratorFields, Clean

(* Only process() and the messages of notes and of the generator touch it. *)
LEMMA GenInvNext == GenInv /\ [GenNext]_gen_vars => GenInv'
<1> SUFFICES ASSUME GenInv, [GenNext]_gen_vars
             PROVE  GenInv'
  OBVIOUS
<1>1. CASE UNCHANGED gen
  BY <1>1 DEF GenInv, Clean
<1>2. CASE midi_note_on
  BY <1>2 DEF midi_note_on, GenInv, IsGenerator, GeneratorFields, Clean
<1>3. CASE midi_note_off
  <2>1. gen' = gen \/ gen' = [gen EXCEPT !.status = FALSE]
    BY <1>3 DEF midi_note_off
  <2> QED
    BY <2>1 DEF GenInv, IsGenerator, GeneratorFields, Clean
<1>4. CASE GenMessage
  BY <1>4 DEF GenMessage, GenInv, IsGenerator, GeneratorFields, Clean
<1>5. CASE gen_process
  <2>1. CASE Generates
    <3>1. PICK c : IsCycle(c, Period) /\ gen' = c[Period].gen
      BY <1>5, <2>1, GoesThroughCycle
    <3>2. IsCleanCycle(c[Period])
      BY <3>1, CycleIsClean
    <3> QED
      BY <3>1, <3>2 DEF IsCleanCycle, GenInv
  <2>2. CASE ~Generates
    BY <1>1, <1>5, <2>2 DEF gen_process
  <2> QED
    BY <2>1, <2>2
<1> QED
  BY <1>1, <1>2, <1>3, <1>4, <1>5
     DEF GenNext, gen_vars, FreqRelative, DurationMessage, TransportChanges

(* Whatever messages come in whatever order, and wherever in a cycle a     *)
(* tone or a gap ends: what is stopped has nothing left of a loop or of a  *)
(* duration, for every period, wave, gap and duration (process() of gen.c).*)
THEOREM StopsClean == GenSpec => []StoppedIsClean
<1>1. GenInv => StoppedIsClean
  BY DEF GenInv, Clean, StoppedIsClean
<1> QED
  BY <1>1, GenInvInit, GenInvNext, PTL DEF GenSpec

(* Each held key is in note_vector once, each note of it is held, and no   *)
(* two of them are the same key.                                           *)
NotesInv ==
  /\ note_vector \in Seq(Keys) /\ midi_note_on_off_balance = Len(note_vector)
  /\ held \in [Keys -> {0, 1}]
  /\ \A k \in Keys : held[k] = 1 <=> \E j \in 1 .. Len(note_vector) : note_vector[j] = k
  /\ \A i, j \in 1 .. Len(note_vector) : SameKey(note_vector[i], note_vector[j]) => i = j

(* The first notes of note_vector without the ones that match. *)
LeftOf(f, n, i) ==
  IF i = 0 THEN <<>>
  ELSE IF SameKey(note_vector[i], n) THEN f[i - 1] ELSE Append(f[i - 1], note_vector[i])

IsLeft(f, n, l) == f = [i \in 0 .. l |-> LeftOf(f, n, i)]

(* There is such a list for each number of notes. *)
LEMMA LeftExists == \A n : \A l \in Nat : \E f : IsLeft(f, n, l)
<1> SUFFICES ASSUME NEW n
             PROVE  \A l \in Nat : \E f : IsLeft(f, n, l)
  OBVIOUS
<1> DEFINE Bad == {l \in Nat : \A f : ~IsLeft(f, n, l)}
<1> SUFFICES ASSUME NEW b \in Bad
             PROVE  FALSE
  OBVIOUS
<1>1. PICK l \in Bad : \A k \in Bad : l <= k
  <2>1. Bad \subseteq Nat /\ Bad # {}
    OBVIOUS
  <2> HIDE DEF Bad
  <2> QED
    BY <2>1, LeastElement
<1>2. CASE l = 0
  <2> DEFINE f == [i \in 0 .. 0 |-> <<>>]
  <2>1. IsLeft(f, n, 0)
    BY DEF IsLeft, LeftOf
  <2> QED
    BY <1>2, <2>1
<1>3. CASE l # 0
  <2>1. l \in Nat /\ l - 1 \in Nat
    BY <1>3
  <2>2. l - 1 \notin Bad
    BY <1>1, <2>1
  <2>3. PICK f : IsLeft(f, n, l - 1)
    BY <2>1, <2>2
  <2> DEFINE g == [i \in 0 .. l |-> IF i < l THEN f[i] ELSE LeftOf(f, n, l)]
  <2>4. \A i \in 0 .. l : LeftOf(g, n, i) = LeftOf(f, n, i)
    BY <2>1 DEF LeftOf
  <2>5. \A i \in 0 .. l - 1 : f[i] = LeftOf(f, n, i)
    BY <2>3 DEF IsLeft
  <2>6. \A i \in 0 .. l : g[i] = LeftOf(g, n, i)
    <3> TAKE i \in 0 .. l
    <3>1. CASE i < l
      BY <2>1, <2>4, <2>5, <3>1
    <3>2. CASE i = l
      BY <2>1, <2>4, <3>2
    <3> QED
      BY <2>1, <3>1, <3>2
  <2>7. IsLeft(g, n, l)
    BY <2>6 DEF IsLeft
  <2> QED
    BY <2>7
<1> QED
  BY <1>2, <1>3

(* Position e is left out of s. *)
IsWithout(t, s, e) ==
  /\ Len(t) = Len(s) - 1
  /\ \A j \in 1 .. Len(s) - 1 : t[j] = IF j < e THEN s[j] ELSE s[j + 1]

(* Where one note matches, that one is erased and the others stay in their *)
(* order (the loop of /midi_note of type 0).                               *)
LEMMA WithoutOne ==
  ASSUME note_vector \in Seq(Keys), NEW n, NEW e \in 1 .. Len(note_vector),
         \A i \in 1 .. Len(note_vector) : SameKey(note_vector[i], n) <=> i = e
  PROVE  Without(n) \in Seq(Keys) /\ IsWithout(Without(n), note_vector, e)
<1>1. PICK s, l : s = note_vector /\ l = Len(s) /\ s \in Seq(Keys) /\ l \in Nat /\ e \in 1 .. l
  OBVIOUS
<1> DEFINE f == CHOOSE g : IsLeft(g, n, l)
<1>2. IsLeft(f, n, l)
  BY <1>1, LeftExists
<1>3. Without(n) = f[l]
  BY <1>1 DEF Without, IsLeft, LeftOf
<1>4. \A i \in 0 .. l : f[i] = IF i = 0 THEN <<>>
                              ELSE IF i = e THEN f[i - 1] ELSE Append(f[i - 1], s[i])
  <2>1. \A i \in 0 .. l : f[i] = LeftOf(f, n, i)
    BY <1>1, <1>2 DEF IsLeft
  <2> HIDE DEF f
  <2>2. \A i \in 0 .. l : i # 0 => i \in 1 .. l
    BY <1>1
  <2>3. \A i \in 1 .. l : SameKey(s[i], n) <=> i = e
    BY <1>1
  <2> QED
    BY <1>1, <2>1, <2>2, <2>3 DEF LeftOf
<1> HIDE DEF f
<1> DEFINE L(i) == IF i < e THEN i ELSE i - 1
           Good(i) == /\ f[i] \in Seq(Keys) /\ Len(f[i]) = L(i)
                      /\ \A j \in 1 .. L(i) : f[i][j] = IF j < e THEN s[j] ELSE s[j + 1]
           Bad == {i \in 0 .. l : ~Good(i)}
<1>5. ASSUME NEW b \in Bad
      PROVE  FALSE
  <2>1. PICK i \in Bad : \A k \in Bad : i <= k
    <3>1. Bad \subseteq Nat /\ Bad # {}
      BY <1>1, <1>5
    <3> HIDE DEF Bad
    <3> QED
      BY <3>1, LeastElement
  <2>2. i \in 0 .. l /\ ~Good(i)
    OBVIOUS
  <2>3. i # 0
    <3>1. f[0] = <<>>
      BY <1>1, <1>4
    <3>2. Good(0)
      BY <1>1, <3>1
    <3> QED
      BY <2>2, <3>2
  <2>4. i \in 1 .. l /\ i - 1 \in 0 .. l /\ i - 1 < i
    BY <1>1, <2>2, <2>3
  <2>5. Good(i - 1)
    <3>1. ~(i <= i - 1)
      BY <2>4
    <3> HIDE DEF Good
    <3> QED
      BY <2>1, <2>4, <3>1
  <2>6. s[i] \in Keys
    BY <1>1, <2>4
  <2>7. CASE i = e
    <3>1. f[i] = f[i - 1] /\ L(i) = L(i - 1)
      BY <1>4, <2>2, <2>3, <2>7
    <3> QED
      BY <2>2, <2>5, <3>1
  <2>8. CASE i # e
    <3>1. f[i] = Append(f[i - 1], s[i]) /\ L(i) = L(i - 1) + 1
      <4>1. f[i] = Append(f[i - 1], s[i])
        BY <1>4, <2>2, <2>3, <2>8
      <4>2. L(i) = L(i - 1) + 1
        <5>1. e \in Int /\ i \in Int
          BY <1>1, <2>4
        <5>2. CASE i < e
          BY <5>1, <5>2
        <5>3. CASE i > e
          BY <5>1, <5>3
        <5> QED
          BY <2>8, <5>1, <5>2, <5>3
      <4> QED
        BY <4>1, <4>2
    <3>2. f[i] \in Seq(Keys) /\ Len(f[i]) = L(i)
      BY <2>5, <2>6, <3>1
    <3>3. ASSUME NEW j \in 1 .. L(i)
          PROVE  f[i][j] = IF j < e THEN s[j] ELSE s[j + 1]
      <4>1. CASE j = L(i)
        <5>1. f[i][j] = s[i]
          BY <2>5, <2>6, <3>1, <4>1
        <5>2. i = IF j < e THEN j ELSE j + 1
          BY <1>1, <2>4, <2>8, <4>1
        <5> QED
          BY <5>1, <5>2
      <4>2. CASE j # L(i)
        <5>1. j \in 1 .. L(i - 1)
          BY <1>1, <2>4, <3>1, <4>2
        <5>2. f[i][j] = f[i - 1][j]
          BY <2>5, <2>6, <3>1, <5>1
        <5> QED
          BY <2>5, <5>1, <5>2
      <4> QED
        BY <4>1, <4>2
    <3> QED
      BY <2>2, <3>2, <3>3
  <2> QED
    BY <2>7, <2>8
<1>6. Good(l)
  <2>1. l \in 0 .. l
    BY <1>1
  <2>2. l \notin Bad
    BY <1>5
  <2> HIDE DEF Good
  <2> QED
    BY <2>1, <2>2
<1>7. L(l) = l - 1
  BY <1>1
<1> QED
  BY <1>1, <1>3, <1>6, <1>7 DEF IsWithout

(* At first no key is held. *)
LEMMA NotesInvInit == GenInit => NotesInv
BY DEF GenInit, NotesInv

(* A key is pressed that was not held. *)
LEMMA NoteOnKeepsNotes ==
  ASSUME OneKeyboard, NotesInv, midi_note_on
  PROVE  NotesInv'
<1>1. PICK n \in Keys :
        /\ \A m \in Keys : SameKey(m, n) => held[m] = 0
        /\ held' = [held EXCEPT ![n] = @ + 1]
        /\ note_vector' = Append(note_vector, n)
        /\ midi_note_on_off_balance' = midi_note_on_off_balance + 1
  BY DEF midi_note_on, SameKey
<1>2. PICK s, t, l : /\ s = note_vector /\ t = note_vector' /\ l = Len(s) /\ l \in Nat
                     /\ s \in Seq(Keys) /\ t = Append(s, n)
  BY <1>1 DEF NotesInv
<1>3. /\ t \in Seq(Keys) /\ Len(t) = l + 1 /\ t[l + 1] = n
      /\ \A j \in 1 .. l : t[j] = s[j]
  BY <1>2
<1>4. held[n] = 0
  BY <1>1 DEF SameKey
<1>5. held' \in [Keys -> {0, 1}] /\ \A k \in Keys : held'[k] = 1 <=> k = n \/ held[k] = 1
  BY <1>1, <1>4 DEF NotesInv
<1>6. \A k \in Keys : (\E j \in 1 .. l + 1 : t[j] = k) <=> k = n \/ \E j \in 1 .. l : s[j] = k
  BY <1>2, <1>3
<1>7. \A j \in 1 .. l : ~SameKey(s[j], n)
  BY <1>1, <1>2 DEF NotesInv
<1>8. \A i, j \in 1 .. l + 1 : SameKey(t[i], t[j]) => i = j
  BY <1>2, <1>3, <1>7 DEF NotesInv, SameKey
<1>9. midi_note_on_off_balance' = l + 1
  BY <1>1, <1>2 DEF NotesInv
<1>10. \A k \in Keys : held'[k] = 1 <=> \E j \in 1 .. l + 1 : t[j] = k
  BY <1>2, <1>5, <1>6 DEF NotesInv
<1>11. \A i, j \in 1 .. l + 1 : SameKey(t[i], t[j])' => i = j
  BY <1>8 DEF SameKey
<1> QED
  BY <1>2, <1>3, <1>5, <1>9, <1>10, <1>11 DEF NotesInv, SameKey

(* A key is let go. *)
LEMMA NoteOffKeepsNotes ==
  ASSUME OneKeyboard, NotesInv, midi_note_off
  PROVE  NotesInv'
<1>1. PICK n \in Keys : /\ held[n] > 0 /\ held' = [held EXCEPT ![n] = IF @ = 0 THEN 0 ELSE @ - 1]
                        /\ note_vector' = Without(n)
  BY DEF midi_note_off
<1>2. PICK s, t, l : /\ s = note_vector /\ t = note_vector' /\ l = Len(s) /\ l \in Nat
                     /\ s \in Seq(Keys)
  BY DEF NotesInv
<1>3. held[n] = 1
  BY <1>1 DEF NotesInv
<1>4. PICK e \in 1 .. l : s[e] = n
  BY <1>2, <1>3 DEF NotesInv
<1>5. \A i \in 1 .. l : SameKey(s[i], n) <=> i = e
  BY <1>2, <1>4 DEF NotesInv, SameKey
<1>6. t \in Seq(Keys) /\ IsWithout(t, s, e)
  BY <1>1, <1>2, <1>4, <1>5, WithoutOne
<1>7. /\ Len(t) = l - 1
      /\ \A j \in 1 .. l - 1 : t[j] = IF j < e THEN s[j] ELSE s[j + 1]
  BY <1>2, <1>6 DEF IsWithout
<1>8. held' \in [Keys -> {0, 1}] /\ \A k \in Keys : held'[k] = 1 <=> k # n /\ held[k] = 1
  BY <1>1, <1>3 DEF NotesInv
<1>9. \A k \in Keys : (\E j \in 1 .. l - 1 : t[j] = k) <=> k # n /\ \E j \in 1 .. l : s[j] = k
  <2> TAKE k \in Keys
  <2>1. ASSUME NEW j \in 1 .. l - 1, t[j] = k
        PROVE  k # n /\ \E i \in 1 .. l : s[i] = k
    <3>1. PICK i \in 1 .. l : i # e /\ t[j] = s[i]
      <4>1. CASE j < e
        BY <1>2, <1>7, <4>1
      <4>2. CASE ~(j < e)
        BY <1>2, <1>7, <4>2
      <4> QED
        BY <4>1, <4>2
    <3> QED
      BY <1>5, <2>1, <3>1 DEF SameKey
  <2>2. ASSUME k # n, NEW i \in 1 .. l, s[i] = k
        PROVE  \E j \in 1 .. l - 1 : t[j] = k
    <3>1. i # e
      BY <1>4, <2>2
    <3>2. CASE i < e
      <4>1. i \in 1 .. l - 1 /\ t[i] = s[i]
        BY <1>2, <1>7, <3>2
      <4> QED
        BY <2>2, <4>1
    <3>3. CASE i > e
      <4>1. i - 1 \in 1 .. l - 1 /\ ~(i - 1 < e) /\ (i - 1) + 1 = i
        BY <1>2, <3>3
      <4>2. t[i - 1] = s[i]
        BY <1>7, <4>1
      <4> QED
        BY <2>2, <4>1, <4>2
    <3> QED
      BY <3>1, <3>2, <3>3
  <2> QED
    BY <2>1, <2>2
<1>10. \A i, j \in 1 .. l - 1 : SameKey(t[i], t[j]) => i = j
  <2> TAKE i, j \in 1 .. l - 1
  <2> DEFINE At(x) == IF x < e THEN x ELSE x + 1
  <2>1. At(i) \in 1 .. l /\ At(j) \in 1 .. l /\ (At(i) = At(j) => i = j)
    BY <1>2
  <2>2. t[i] = s[At(i)] /\ t[j] = s[At(j)]
    BY <1>7
  <2> HIDE DEF At
  <2> QED
    BY <1>2, <2>1, <2>2 DEF NotesInv
<1>11. midi_note_on_off_balance' = l - 1
  <2>1. midi_note_on_off_balance = l /\ l >= 1
    BY <1>2, <1>4 DEF NotesInv
  <2>2. \/ l <= 1 /\ midi_note_on_off_balance' = 0
        \/ midi_note_on_off_balance' = l - 1
    BY <2>1 DEF midi_note_off
  <2> QED
    BY <1>2, <2>1, <2>2
<1>12. \A k \in Keys : held'[k] = 1 <=> \E j \in 1 .. l - 1 : t[j] = k
  BY <1>2, <1>8, <1>9 DEF NotesInv
<1>13. \A i, j \in 1 .. l - 1 : SameKey(t[i], t[j])' => i = j
  BY <1>10 DEF SameKey
<1>14. Len(t) = l - 1
  BY <1>7
<1> QED
  BY <1>2, <1>6, <1>8, <1>11, <1>12, <1>13, <1>14 DEF NotesInv

(* No other message touches the notes. *)
LEMMA NotesInvNext ==
  ASSUME OneKeyboard, NotesInv, [GenNext]_gen_vars
  PROVE  NotesInv'
<1>1. CASE UNCHANGED notes
  BY <1>1 DEF notes, NotesInv, SameKey
<1>2. CASE midi_note_on
  BY <1>2, NoteOnKeepsNotes
<1>3. CASE midi_note_off
  BY <1>3, NoteOffKeepsNotes
<1> QED
  BY <1>1, <1>2, <1>3
     DEF GenNext, gen_vars, notes, FreqRelative, GenMessage, DurationMessage,
         TransportChanges, gen_process

(* One keyboard that presses and lets go its keys in any order: the balance *)
(* counts note_vector, which holds the keys that are held (/midi_note).     *)
THEOREM HoldsItsNotes ==
  ASSUME OneKeyboard
  PROVE  GenSpec => []NotesAreHeld
<1>1. NotesInv => NotesAreHeld
  BY DEF NotesInv, NotesAreHeld, Range
<1>2. NotesInv /\ [GenNext]_gen_vars => NotesInv'
  BY NotesInvNext
<1> QED
  BY <1>1, <1>2, NotesInvInit, PTL DEF GenSpec

(* The key let go leaves a held one sounding, the one pressed last of      *)
(* those that are left, with its own velocity, whichever was let go.       *)
THEOREM LastHeldSounds ==
  ASSUME OneKeyboard
  PROVE  GenSpec => SoundsAHeldKey
<1> DEFINE A == \A k \in Keys : held'[k] < held[k] =>
                  \/ \A n \in Keys : held'[n] = 0
                  \/ \E n \in Keys : /\ held'[n] > 0
                                     /\ freq' = [samples |-> NoteSamples[n.number + 1],
                                                 velocity |-> n.velocity]
<1>1. ASSUME NotesInv, NotesInv', [GenNext]_gen_vars
      PROVE  A
  <2>1. CASE midi_note_off
    <3>1. note_vector' \in Seq(Keys) /\ Len(note_vector) \in Nat /\ Len(note_vector') \in Nat
      BY <1>1 DEF NotesInv
    <3>2. CASE note_vector' = <<>>
      BY <1>1, <3>2 DEF NotesInv
    <3>3. CASE note_vector' # <<>>
      <4>1. Len(note_vector') >= 1
        BY <3>1, <3>3
      <4>2. ~(midi_note_on_off_balance <= 1)
        BY <1>1, <2>1, <4>1 DEF NotesInv, midi_note_off
      <4>3. PICK n \in {Last(note_vector')} : Sounds(n)
        BY <2>1, <3>3, <4>2 DEF midi_note_off
      <4>4. n \in Keys /\ n = note_vector'[Len(note_vector')]
        BY <3>1, <4>1, <4>3 DEF Last
      <4>5. held'[n] = 1
        BY <1>1, <3>1, <4>1, <4>4 DEF NotesInv
      <4> QED
        BY <4>3, <4>4, <4>5 DEF Sounds
    <3> QED
      BY <3>2, <3>3
  <2>2. CASE midi_note_on
    <3>1. \A k \in Keys : held'[k] >= held[k]
      BY <1>1, <2>2 DEF midi_note_on, NotesInv
    <3> QED
      BY <1>1, <3>1 DEF NotesInv
  <2>3. CASE UNCHANGED held
    BY <1>1, <2>3 DEF NotesInv
  <2> QED
    BY <1>1, <2>1, <2>2, <2>3
       DEF GenNext, gen_vars, notes, FreqRelative, GenMessage, DurationMessage,
           TransportChanges, gen_process
<1>2. NotesInv /\ NotesInv' /\ [GenNext]_gen_vars => [A]_gen_vars
  BY <1>1
<1>3. NotesInv /\ [GenNext]_gen_vars => NotesInv'
  BY NotesInvNext
<1>4. SoundsAHeldKey <=> [][A]_gen_vars
  BY DEF SoundsAHeldKey
<1> HIDE DEF A
<1> QED
  BY <1>2, <1>3, <1>4, NotesInvInit, PTL DEF GenSpec

------------------------------------------------------------------------------
(* The life cycle of a shared buffer.                                      *)

(* Those that open or use the buffer.                                      *)
Busy == {"looks", "knows", "uses"}

Begins == {"out", "created", "sized", "mapped", "marked", "failed"}

Places == Begins \cup Busy \cup {"frees", "gone"}

PlacesAndSizes ==
  /\ marks \in BOOLEAN /\ linked \in BOOLEAN /\ spoiled \in BOOLEAN
  /\ header \in [magic : BOOLEAN, version : Nat, size : Nat, unlink_requested : BOOLEAN]
  /\ at \in [Processes -> Places]
  /\ mapped \in [Processes -> Int]
  /\ found \in [Users -> Nat]

(* How far the creator is: nobody has opened before it has returned.       *)
Creating ==
  /\ at["creator"] \in Begins => header.size = 0 /\ \A p \in Users : at[p] = "out"
  /\ at["creator"] \in {"created", "sized", "mapped", "marked"} => linked
  /\ at["creator"] \in {"sized", "mapped", "marked", "uses"} => length = Size
  /\ at["creator"] \in {"mapped", "marked", "uses"} => mapped["creator"] = Size
  /\ at["creator"] = "marked" => header.magic /\ header.version = Version
  /\ at["creator"] \notin {"looks", "knows"}

(* When it has, the file is sized and marked, and the name is there until  *)
(* the size is cleared.                                                    *)
Living ==
  /\ at["creator"] \notin Begins =>
       length = Size /\ (marks => header.magic /\ header.version = Version)
  /\ header.size \in {0, Size}
  /\ NameIsKept

(* The name goes when the size is cleared, and not before.                 *)
Freeing == \A p \in Processes : at[p] = "frees" => header.size = 0

(* What a user has found in the header is what is there, or was before it  *)
(* was cleared.                                                            *)
Knowing ==
  \A p \in Users :
    /\ at[p] = "knows" => found[p] \in {0, Size} /\ header.size <= found[p]
    /\ at[p] = "uses" => mapped[p] \in {0, Size} /\ header.size <= mapped[p]

IInv == PlacesAndSizes /\ Creating /\ Living /\ Freeing /\ Knowing

------------------------------------------------------------------------------
(* The creator is not one of the users.                                    *)
LEMMA CreatorIsNoUser == /\ "creator" \in Processes /\ Users \subseteq Processes
                         /\ \A p \in Users : p # "creator"
BY SegmentAssumption DEF SegmentAssumption, Processes

(* Before the creator begins nothing is there.                             *)
LEMMA InitIInv == SegmentInit => IInv
<1> SUFFICES ASSUME SegmentInit
             PROVE  IInv
  OBVIOUS
<1>1. PlacesAndSizes
  <2>1. marks \in BOOLEAN /\ linked \in BOOLEAN /\ spoiled \in BOOLEAN
    BY DEF SegmentInit
  <2>2. header \in [magic : BOOLEAN, version : Nat, size : Nat, unlink_requested : BOOLEAN]
    BY DEF SegmentInit
  <2>3. at \in [Processes -> Places]
    BY DEF SegmentInit, Places, Begins
  <2>4. mapped \in [Processes -> Int] /\ found \in [Users -> Nat]
    BY DEF SegmentInit
  <2> QED
    BY <2>1, <2>2, <2>3, <2>4 DEF PlacesAndSizes
<1>2. Creating
  BY CreatorIsNoUser DEF SegmentInit, Creating
<1>3. Living
  BY CreatorIsNoUser DEF SegmentInit, Living, Begins, NameIsKept
<1>4. Freeing /\ Knowing
  BY CreatorIsNoUser DEF SegmentInit, Freeing, Knowing
<1> QED
  BY <1>1, <1>2, <1>3, <1>4 DEF IInv

(* The creator's steps.                                                    *)
LEMMA CreateKeeps == IInv /\ Create => IInv'
<1> SUFFICES ASSUME IInv, Create
             PROVE  IInv'
  OBVIOUS
<1> USE CreatorIsNoUser, SegmentAssumption DEF SegmentAssumption, Places, Begins, Busy
<1>0. /\ \A p \in Users : at[p] = "out" /\ at'[p] = "out"
      /\ at["creator"] \in {"out", "created", "sized", "mapped", "marked"}
      /\ header.size = 0
  BY DEF IInv, PlacesAndSizes, Creating, Create, CreatesFile, SizesFile, MapsFile, CreatingFails,
         rb_set_common_init_values, SetsSize, Go
<1>1. PlacesAndSizes'
  <2>1. CASE CreatesFile
    BY <2>1 DEF IInv, PlacesAndSizes, CreatesFile, Go
  <2>2. CASE SizesFile
    BY <2>2 DEF IInv, PlacesAndSizes, SizesFile, Go
  <2>3. CASE MapsFile
    BY <2>3 DEF IInv, PlacesAndSizes, MapsFile, Go, Map
  <2>4. CASE CreatingFails
    BY <2>4 DEF IInv, PlacesAndSizes, CreatingFails, Go
  <2>5. CASE rb_set_common_init_values
    BY <2>5 DEF IInv, PlacesAndSizes, rb_set_common_init_values, Go, Marked
  <2>6. CASE SetsSize
    BY <2>6 DEF IInv, PlacesAndSizes, SetsSize, Go
  <2> QED
    BY <2>1, <2>2, <2>3, <2>4, <2>5, <2>6 DEF Create
<1>2. Creating' /\ Living'
  <2>1. CASE CreatesFile
    BY <1>0, <2>1 DEF IInv, PlacesAndSizes, Creating, Living, NameIsKept, CreatesFile, Go
  <2>2. CASE SizesFile
    BY <1>0, <2>2 DEF IInv, PlacesAndSizes, Creating, Living, NameIsKept, SizesFile, Go
  <2>3. CASE MapsFile
    BY <1>0, <2>3 DEF IInv, PlacesAndSizes, Creating, Living, NameIsKept, MapsFile, Go, Map
  <2>4. CASE CreatingFails
    BY <1>0, <2>4 DEF IInv, PlacesAndSizes, Creating, Living, NameIsKept, CreatingFails, Go
  <2>5. CASE rb_set_common_init_values
    BY <1>0, <2>5 DEF IInv, PlacesAndSizes, Creating, Living, NameIsKept,
                      rb_set_common_init_values, Go, Marked
  <2>6. CASE SetsSize
    BY <1>0, <2>6 DEF IInv, PlacesAndSizes, Creating, Living, NameIsKept, SetsSize, Go
  <2> QED
    BY <2>1, <2>2, <2>3, <2>4, <2>5, <2>6 DEF Create
<1>3. Knowing'
  BY <1>0 DEF Knowing
<1>4. at'["creator"] # "frees"
  BY DEF IInv, PlacesAndSizes, Create, CreatesFile, SizesFile, MapsFile, CreatingFails,
         rb_set_common_init_values, SetsSize, Go
<1>5. Freeing'
  BY <1>0, <1>4 DEF Freeing, Processes
<1> QED
  BY <1>1, <1>2, <1>3, <1>5 DEF IInv

(* A user's steps.                                                         *)
LEMMA UserKeeps ==
  ASSUME IInv, NEW p \in Users, Open(p) \/ StartsAgain(p)
  PROVE  IInv'
<1> USE CreatorIsNoUser, SegmentAssumption DEF SegmentAssumption, Places, Begins, Busy
<1>0. /\ at["creator"] \notin Begins
      /\ at'["creator"] = at["creator"] /\ mapped'["creator"] = mapped["creator"]
      /\ at' \in [Processes -> Places] /\ mapped' \in [Processes -> Int]
      /\ found' \in [Users -> Nat]
      /\ \A q \in Processes \ {p} : at'[q] = at[q] /\ mapped'[q] = mapped[q]
      /\ \A q \in Users \ {p} : found'[q] = found[q]
      /\ UNCHANGED <<marks, length, header>>
  BY DEF IInv, PlacesAndSizes, Creating, Open, OpensHeader, Rejects, ReadsSize, MapsWhole,
         OpeningFails, StartsAgain, Go, Map, WholeOf
<1>1. PlacesAndSizes'
  BY <1>0 DEF IInv, PlacesAndSizes, Open, OpensHeader, Rejects, ReadsSize, MapsWhole,
         OpeningFails, StartsAgain
<1>2. Creating'
  BY <1>0 DEF IInv, Creating
<1>3. Living'
  <2>1. NameIsKept'
    <3>1. CASE Rejects(p)
      <4>1. VersionOf[p] # Version
        BY <1>0, <3>1 DEF IInv, PlacesAndSizes, Living, Rejects, IsOfVersion
      <4> QED
        BY <1>0, <3>1, <4>1 DEF IInv, PlacesAndSizes, Living, NameIsKept, Rejects
    <3>2. CASE OpeningFails(p)
      BY <1>0, <3>2 DEF IInv, PlacesAndSizes, Living, NameIsKept, OpeningFails
    <3>3. CASE OpensHeader(p) \/ ReadsSize(p) \/ MapsWhole(p) \/ StartsAgain(p)
      BY <1>0, <3>3 DEF IInv, Living, NameIsKept, OpensHeader, ReadsSize, MapsWhole, StartsAgain
    <3> QED
      BY <3>1, <3>2, <3>3 DEF Open
  <2> QED
    BY <1>0, <2>1 DEF IInv, Living
<1>4. Knowing'
  <2>1. CASE ReadsSize(p)
    BY <1>0, <2>1 DEF IInv, PlacesAndSizes, Living, Knowing, ReadsSize, Go
  <2>2. CASE MapsWhole(p)
    BY <1>0, <2>2 DEF IInv, PlacesAndSizes, Knowing, MapsWhole, Go, Map, WholeOf
  <2>3. CASE OpensHeader(p) \/ Rejects(p) \/ OpeningFails(p) \/ StartsAgain(p)
    BY <1>0, <2>3 DEF IInv, PlacesAndSizes, Knowing, OpensHeader, Rejects, OpeningFails,
           StartsAgain, Go
  <2> QED
    BY <2>1, <2>2, <2>3 DEF Open
<1>5. at'[p] # "frees"
  BY DEF IInv, PlacesAndSizes, Open, OpensHeader, Rejects, ReadsSize, MapsWhole, OpeningFails,
         StartsAgain, Go
<1>6. Freeing'
  BY <1>0, <1>5 DEF IInv, Freeing
<1> QED
  BY <1>1, <1>2, <1>3, <1>4, <1>6 DEF IInv

(* The size is cleared, whoever uses the buffer or is opening it; then the *)
(* name goes.                                                              *)
LEMMA FreeKeeps ==
  ASSUME IInv, NEW p \in Processes, rb_free(p) \/ Unlinks(p)
  PROVE  IInv'
<1> USE CreatorIsNoUser, SegmentAssumption DEF SegmentAssumption, Places, Begins, Busy
<1>0. /\ at'[p] \in {"frees", "gone"} /\ at[p] \in {"uses", "frees"}
      /\ \A q \in Processes \ {p} : at'[q] = at[q]
      /\ UNCHANGED <<marks, length, mapped, found, spoiled>>
  BY DEF IInv, PlacesAndSizes, rb_free, Unlinks, Go
<1>1. /\ header'.size = 0
      /\ header'.magic = header.magic /\ header'.version = header.version
  <2>1. CASE rb_free(p)
    BY <2>1 DEF IInv, PlacesAndSizes, rb_free
  <2>2. CASE Unlinks(p)
    BY <2>2 DEF IInv, Freeing, Unlinks
  <2> QED
    BY <2>1, <2>2
<1>2. PlacesAndSizes'
  <2>1. CASE rb_free(p)
    BY <2>1 DEF IInv, PlacesAndSizes, rb_free, Go
  <2>2. CASE Unlinks(p)
    BY <2>2 DEF IInv, PlacesAndSizes, Unlinks, Go
  <2> QED
    BY <2>1, <2>2
<1>3. at["creator"] \notin Begins /\ at'["creator"] \notin Begins
  BY <1>0 DEF IInv, Creating, Processes
<1>4. Creating'
  BY <1>0, <1>3 DEF IInv, Creating
<1>5. Living'
  BY <1>0, <1>1, <1>3 DEF IInv, PlacesAndSizes, Living, NameIsKept
<1>6. Freeing' /\ Knowing'
  BY <1>0, <1>1 DEF IInv, PlacesAndSizes, Freeing, Knowing
<1> QED
  BY <1>2, <1>4, <1>5, <1>6 DEF IInv

(* A process that ends, or unmaps, takes nothing from the others.          *)
LEMMA EndKeeps ==
  ASSUME IInv, NEW p \in Processes, Ends(p)
  PROVE  IInv'
<1> USE CreatorIsNoUser, SegmentAssumption DEF SegmentAssumption, Places, Begins, Busy
<1>0. /\ \A q \in Processes \ {p} : at'[q] = at[q] /\ mapped'[q] = mapped[q]
      /\ at'[p] = "gone" /\ at[p] \in Busy \cup {"frees"}
  BY DEF IInv, PlacesAndSizes, Ends, Go, Map
<1>1. PlacesAndSizes'
  BY DEF IInv, PlacesAndSizes, Ends, Go, Map
<1>2. at["creator"] \notin Begins /\ at'["creator"] \notin Begins
  BY <1>0 DEF IInv, Creating, Processes
<1>3. Creating'
  BY <1>0, <1>2 DEF IInv, PlacesAndSizes, Creating, Ends
<1>4. Living'
  BY <1>0, <1>2 DEF IInv, PlacesAndSizes, Living, NameIsKept, Ends
<1>5. Freeing' /\ Knowing'
  BY <1>0 DEF IInv, PlacesAndSizes, Freeing, Knowing, Ends
<1> QED
  BY <1>1, <1>3, <1>4, <1>5 DEF IInv

(* The invariant is inductive.                                             *)
LEMMA NextKeeps == IInv /\ [SegmentNext]_segment_vars => IInv'
<1> SUFFICES ASSUME IInv, [SegmentNext]_segment_vars
             PROVE  IInv'
  OBVIOUS
<1>1. CASE Create
  BY <1>1, CreateKeeps
<1>2. ASSUME NEW p \in Users, Open(p) \/ StartsAgain(p)
      PROVE  IInv'
  BY <1>2, UserKeeps
<1>3. ASSUME NEW p \in Processes, rb_free(p) \/ Unlinks(p)
      PROVE  IInv'
  BY <1>3, FreeKeeps
<1>4. ASSUME NEW p \in Processes, Ends(p)
      PROVE  IInv'
  BY <1>4, EndKeeps
<1>5. CASE UNCHANGED segment_vars
  BY <1>5 DEF IInv, PlacesAndSizes, Creating, Living, NameIsKept, Begins, Freeing, Knowing,
             segment_vars
<1> QED
  BY <1>1, <1>2, <1>3, <1>4, <1>5 DEF SegmentNext

(* However many open the buffer, in whatever order they look, map, fail,   *)
(* free it and end: one that has its rb_t has all of the size mapped that  *)
(* it works with, and the file is as long (rb_open_shared, rb_free, rb.h). *)
THEOREM UsersHaveItAll == SegmentSpec => []MappedWhole
<1>1. IInv => MappedWhole
  BY CreatorIsNoUser, SegmentAssumption DEF SegmentAssumption, IInv, PlacesAndSizes, Creating, Living,
     Begins, Knowing, MappedWhole, Processes
<1> QED
  BY <1>1, InitIInv, NextKeeps, PTL DEF SegmentSpec

(* Until the first rb_free the name is there, unless a process of another  *)
(* version or one that could not map it has removed it (rb_open_shared).   *)
THEOREM OthersCanOpen == SegmentSpec => []NameIsKept
<1>1. IInv => NameIsKept
  BY DEF IInv, Living
<1> QED
  BY <1>1, InitIInv, NextKeeps, PTL DEF SegmentSpec

==============================================================================
