----------------------------- MODULE BoundedFifo -----------------------------
(***************************************************************************)
(* What rb.h promises to the code that uses it, with no index in sight: a  *)
(* first-in first-out queue of at most Size bytes.  A write appends as     *)
(* much of its data as there is room for and says how much that was; a     *)
(* read takes bytes off the front; a peek looks at bytes without taking    *)
(* them; the "over" variants may go past the end of the queue, which       *)
(* leaves it empty and hands out meaningless bytes after the real ones.    *)
(***************************************************************************)
EXTENDS Naturals, Sequences

CONSTANTS Size,      \* capacity in bytes
          Byte       \* the values a byte can have

VARIABLES queue,     \* the bytes written and not yet read, oldest first
          result     \* what the last call gave its caller: the count it
                     \* returned, the bytes it copied out and, from a
                     \* search, the place it found

vars == <<queue, result>>

Bytes(n) == [1 .. n -> Byte]
Min(a, b) == IF a < b THEN a ELSE b
Front(n) == SubSeq(queue, 1, n)
Rest(n)  == SubSeq(queue, n + 1, Len(queue))

Nothing == [count |-> 0, data |-> <<>>, offset |-> 0]

Gives(n, data) == result' = [Nothing EXCEPT !.count = n, !.data = data]

Init == queue = <<>> /\ result = Nothing

(* n of the bytes offered are taken in, in order. *)
Put == \E n \in 0 .. Size - Len(queue) : \E s \in Bytes(n) :
         queue' = queue \o s /\ Gives(n, <<>>)

(* The n oldest bytes leave the queue, copied out or just skipped. *)
Take == \E n \in 0 .. Len(queue) :
          /\ queue' = Rest(n)
          /\ Gives(n, Front(n)) \/ Gives(n, <<>>)

(* The whole queue leaves, and n bytes that are no longer in it follow. *)
TakeOver == \E n \in 1 .. Size - Len(queue) :
              /\ queue' = <<>>
              /\ \/ \E junk \in Bytes(n) : Gives(Len(queue) + n, queue \o junk)
                 \/ Gives(Len(queue) + n, <<>>)

(* n bytes are looked at, after skipping the first `offset' ones. *)
Look == \E n \in 0 .. Len(queue) : \E offset \in 0 .. Len(queue) - n :
          /\ Gives(n, SubSeq(queue, offset + 1, offset + n))
          /\ UNCHANGED queue

(* The first occurrence of a byte is asked for: 1 and its place, or 0. *)
Find == \E b \in Byte :
          /\ \/ /\ \A i \in 1 .. Len(queue) : queue[i] # b
                /\ result' = Nothing
             \/ \E i \in 1 .. Len(queue) :
                  /\ queue[i] = b
                  /\ \A j \in 1 .. i - 1 : queue[j] # b
                  /\ result' = [Nothing EXCEPT !.count = 1, !.offset = i - 1]
          /\ UNCHANGED queue

(* The queue is emptied by its owner. *)
Clear == queue' = <<>> /\ Gives(0, <<>>)

Next == Put \/ Take \/ TakeOver \/ Look \/ Find \/ Clear

Spec == Init /\ [][Next]_vars

==============================================================================
