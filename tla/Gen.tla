--------------------------------- MODULE Gen ---------------------------------
(***************************************************************************)
(* example-clients/gen.c: a tone generator played by OSC messages.  All of *)
(* it happens in the process callback: first the messages of the cycle,    *)
(* one after the other, then the samples.  What is modelled is whether a   *)
(* sample sounds and which note it is; the shape of the wave is not.       *)
(***************************************************************************)
EXTENDS Integers, Sequences, SequencesExt, FiniteSetsExt

CONSTANTS
  Period,       \* frames of a JACK cycle
  NoteSamples,  \* midi_notes[].samples: the length of a wave, note by note
  Keys,         \* what can be pressed: [channel, number, velocity]
  Gaps, Durations, Positions, Intervals,  \* arguments of the other messages
  OneKeyboard,  \* TRUE: only a key that is up is pressed, and only one that is
                \* down is let go; FALSE: any /midi_note may come
  MaxGenMessages   \* bound: messages and changes of the transport

ASSUME GenAssumption ==
  /\ Period \in Nat \ {0} /\ MaxGenMessages \in Nat
  /\ \A n \in DOMAIN NoteSamples : NoteSamples[n] \in Nat \ {0}
  /\ \A k \in Keys : k.number + 1 \in DOMAIN NoteSamples
  /\ Gaps \cup Durations \cup Positions \subseteq Nat \ {0}
  /\ OneKeyboard \in BOOLEAN

VARIABLES
  gen,          \* struct Generator, and dur.samples_elapsed
  dur,          \* struct Duration
  freq,         \* freq.samples_per_period, and the amplification
  note_vector, midi_note_on_off_balance,
  rolling,      \* the JACK transport
  buffer_out,   \* the last cycle: which samples sound
  held,         \* the keyboards: how often each key is held
  messages      \* how many there were

gen_vars == <<gen, dur, freq, note_vector, midi_note_on_off_balance, rolling,
              buffer_out, held, messages>>
notes    == <<note_vector, midi_note_on_off_balance, held>>

(* setup() *)
GenInit ==
  /\ gen = [status |-> TRUE, restart_at |-> 0, restart_pending |-> TRUE,
            stop_pending |-> FALSE, stopped |-> FALSE, loop_enabled |-> FALSE,
            loop_gap |-> Min(Gaps), gap |-> 0, loop_pending |-> FALSE, elapsed |-> 0]
  /\ dur = [infinite |-> TRUE, samples |-> 0, follow_transport |-> FALSE]
  /\ freq = [samples |-> NoteSamples[1], velocity |-> 127]
  /\ note_vector = <<>> /\ midi_note_on_off_balance = 0
  /\ rolling = FALSE
  /\ buffer_out = [i \in 1 .. Period |-> FALSE]
  /\ held = [k \in Keys |-> 0] /\ messages = 0

------------------------------------------------------------------------------
(* The messages.                                                           *)

Message == messages < MaxGenMessages /\ messages' = messages + 1

set_all_freq(samples) == freq' = [freq EXCEPT !.samples = samples]

Sounds(n) == freq' = [samples |-> NoteSamples[n.number + 1], velocity |-> n.velocity]

Distance(samples, i) == IF samples > NoteSamples[i] THEN samples - NoteSamples[i]
                                                     ELSE NoteSamples[i] - samples

(* The last note that is nearer than the one before it, counted from 0.    *)
find_nearest_midi_note(samples) ==
  LET nearer == {i \in DOMAIN NoteSamples \ {1} : Distance(samples, i) < Distance(samples, i - 1)}
  IN  IF nearer = {} THEN 0 ELSE Max(nearer) - 1

(* /freq/midi_note/rel; /freq/midi_note and the other units set the wave   *)
(* to what they name.  Beyond the table nothing is modelled.               *)
FreqRelative ==
  /\ Message
  /\ \E interval \in Intervals :
       LET note == find_nearest_midi_note(freq.samples) + interval
       IN  note + 1 \in DOMAIN NoteSamples /\ set_all_freq(NoteSamples[note + 1])
  /\ UNCHANGED <<gen, dur, notes, rolling, buffer_out>>

(* /midi_note with a type other than 0, which becomes restart_at as well.  *)
midi_note_on ==
  /\ Message
  /\ \E n \in Keys :
       /\ OneKeyboard => \A m \in Keys : m.channel = n.channel /\ m.number = n.number
                                             => held[m] = 0
       /\ held' = [held EXCEPT ![n] = @ + 1]
       /\ note_vector' = Append(note_vector, n)
       /\ midi_note_on_off_balance' = midi_note_on_off_balance + 1
       /\ Sounds(n)
  /\ gen' = [gen EXCEPT !.status = TRUE, !.restart_at = 1, !.restart_pending = TRUE]
  /\ UNCHANGED <<dur, rolling, buffer_out>>

(* A slip of SameKey: every note of the channel.                           *)
SameChannel(n, m) == n.channel = m.channel

SameKey(n, m) == n.channel = m.channel /\ n.number = m.number

(* Every note that matches is erased.                                      *)
Without(n) ==
  LET kept[i \in 0 .. Len(note_vector)] ==
        IF i = 0 THEN <<>>
        ELSE IF SameKey(note_vector[i], n) THEN kept[i - 1]
             ELSE Append(kept[i - 1], note_vector[i])
  IN  kept[Len(note_vector)]

(* The last element of note_vector sounds; if there is none, back() is     *)
(* undefined and any note may come out of it.                              *)
midi_note_off ==
  /\ Message
  /\ \E n \in Keys :
       /\ OneKeyboard => held[n] > 0
       /\ held' = [held EXCEPT ![n] = IF @ = 0 THEN 0 ELSE @ - 1]
       /\ note_vector' = Without(n)
  /\ IF midi_note_on_off_balance <= 1
     THEN /\ midi_note_on_off_balance' = 0
          /\ gen' = [gen EXCEPT !.status = FALSE]
          /\ UNCHANGED freq
     ELSE /\ midi_note_on_off_balance' = midi_note_on_off_balance - 1
          /\ \E n \in IF note_vector' = <<>> THEN Keys ELSE {Last(note_vector')} : Sounds(n)
          /\ UNCHANGED gen
  /\ UNCHANGED <<dur, rolling, buffer_out>>

(* /gen/on, /gen/off, /gen/restart_at, /gen/stop, /gen/loop_enable,        *)
(* /gen/loop_gap                                                           *)
GenMessage ==
  /\ Message
  /\ \/ \E on \in BOOLEAN : gen' = [gen EXCEPT !.status = on]
     \/ \E i \in Positions : gen' = [gen EXCEPT !.restart_at = i, !.restart_pending = TRUE]
     \/ gen' = [gen EXCEPT !.stop_pending = TRUE]
     \/ \E on \in BOOLEAN : gen' = [gen EXCEPT !.loop_enabled = on]
     \/ \E i \in Gaps : gen' = [gen EXCEPT !.loop_gap = i]
  /\ UNCHANGED <<dur, freq, notes, rolling, buffer_out>>

(* 0 stands for a duration without an end. *)
set_all_duration(samples) == dur' = [dur EXCEPT !.infinite = samples = 0, !.samples = samples]

(* /duration/inf, /duration/samples and the other units,                   *)
(* /duration/follow_transport                                              *)
DurationMessage ==
  /\ Message
  /\ \/ \E i \in Durations \cup {0} : set_all_duration(i)
     \/ \E on \in BOOLEAN : dur' = [dur EXCEPT !.follow_transport = on]
  /\ UNCHANGED <<gen, freq, notes, rolling, buffer_out>>

TransportChanges ==
  /\ Message /\ rolling' = ~rolling
  /\ UNCHANGED <<gen, dur, freq, notes, buffer_out>>

------------------------------------------------------------------------------
(* The samples.                                                            *)

Generates == gen.status /\ (dur.follow_transport => rolling)

Restarted(g) ==
  [g EXCEPT !.stopped = FALSE, !.stop_pending = FALSE, !.restart_pending = FALSE,
            !.loop_pending = FALSE, !.gap = 0, !.elapsed = 0]

(* A slip of Ended: the gap is left where it is.                           *)
EndedMidGap(g) ==
  LET loops == g.loop_enabled /\ ~g.stop_pending
  IN  [g EXCEPT !.elapsed = 0, !.stop_pending = FALSE,
                !.stopped = ~loops, !.loop_pending = loops]

(* The duration is over, or the generator was told to stop.                *)
Ended(g) ==
  LET loops == g.loop_enabled /\ ~g.stop_pending
  IN  [g EXCEPT !.elapsed = 0, !.stop_pending = FALSE,
                !.stopped = ~loops, !.loop_pending = loops, !.gap = IF loops THEN @ ELSE 0]

HasEnded(g) == g.stop_pending \/ (~dur.infinite /\ g.elapsed > dur.samples)

(* Sample i of a cycle: the gap before a loop is counted, a generator that *)
(* is stopped leaves the rest of the cycle silent.                         *)
Sample(cycle, i) ==
  LET restarts == cycle.gen.restart_pending /\ cycle.gen.restart_at = i
      g == IF restarts THEN Restarted(cycle.gen) ELSE cycle.gen
      h == IF HasEnded(g) THEN Ended(g) ELSE g
      resumed == [h EXCEPT !.loop_pending = FALSE, !.gap = IF h.loop_pending THEN 0 ELSE @]
  IN  IF cycle.returned THEN cycle
      ELSE IF h.loop_pending /\ h.gap <= h.loop_gap
      THEN [cycle EXCEPT !.gen = [h EXCEPT !.gap = @ + 1]]
      ELSE IF h.stopped
      THEN [cycle EXCEPT !.gen = resumed, !.returned = TRUE]
      ELSE [cycle EXCEPT !.out[i + 1] = TRUE,
                         !.gen = [resumed EXCEPT !.elapsed = IF dur.infinite THEN @ ELSE @ + 1]]

(* process(): the buffer is cleared first. *)
Silence == [i \in 1 .. Period |-> FALSE]

gen_process ==
  LET cycle[i \in 0 .. Period] ==
        IF i = 0 THEN [gen |-> gen, out |-> Silence, returned |-> FALSE]
        ELSE Sample(cycle[i - 1], i - 1)
      end == cycle[Period]
  IN  /\ IF Generates THEN gen' = end.gen /\ buffer_out' = end.out
                  ELSE buffer_out' = Silence /\ UNCHANGED gen
      /\ UNCHANGED <<dur, freq, notes, rolling, messages>>

GenNext == \/ FreqRelative \/ midi_note_on \/ midi_note_off \/ GenMessage
           \/ DurationMessage \/ TransportChanges \/ gen_process

GenSpec == GenInit /\ [][GenNext]_gen_vars

------------------------------------------------------------------------------
GenTypes ==
  /\ gen.gap \in 0 .. Max(Gaps) + 1 /\ gen.loop_gap \in Gaps
  /\ gen.elapsed \in 0 .. Max(Durations) + 1
  /\ gen.restart_at \in Positions \cup {0, 1}
  /\ dur.samples \in Durations \cup {0} /\ (dur.infinite <=> dur.samples = 0)
  /\ freq.samples \in Range(NoteSamples)
  /\ note_vector \in Seq(Keys) /\ midi_note_on_off_balance \in 0 .. MaxGenMessages
  /\ buffer_out \in [1 .. Period -> BOOLEAN]

(* What is stopped keeps nothing of a loop or of a duration that a later   *)
(* start would continue (the branches of process() that set stopped).      *)
StoppedIsClean == gen.stopped => ~gen.loop_pending /\ gen.gap = 0 /\ gen.elapsed = 0

(* The balance of on and off counts the notes in note_vector, which are    *)
(* the keys that are held, for one keyboard: back() is never called on an  *)
(* empty vector (/midi_note).                                              *)
NotesAreHeld ==
  /\ midi_note_on_off_balance = Len(note_vector)
  /\ Range(note_vector) = {k \in Keys : held[k] > 0}

(* A key that is let go, while others are held, leaves one of them         *)
(* sounding with its own velocity (/midi_note of type 0).                  *)
SoundsAHeldKey ==
  [][\A k \in Keys : held'[k] < held[k] =>
       \/ \A n \in Keys : held'[n] = 0
       \/ \E n \in Keys : /\ held'[n] > 0
                          /\ freq' = [samples |-> NoteSamples[n.number + 1],
                                      velocity |-> n.velocity]]_gen_vars

==============================================================================
