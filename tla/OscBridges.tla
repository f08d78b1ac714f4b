------------------------------ MODULE OscBridges ------------------------------
(***************************************************************************)
(* jack_osc_bridge_in, jack_osc_filter and jack_osc_bridge_out, connected  *)
(* in a row by JACK ports (example-clients/).  The bridge's server thread  *)
(* writes each OSC message into a ring buffer in three calls, and its      *)
(* process callback reads it back in three while the next is written.      *)
(* JACK runs the three callbacks in this order once per cycle.             *)
(*                                                                         *)
(* A call of the ring buffer is one step here: RingBufferSPSC opens it.    *)
(* A message is what the filter looks at: its path and types, and a        *)
(* pattern stands for the set of names it matches.                         *)
(***************************************************************************)
EXTENDS ByteQueue, SequencesExt, FiniteSets

CONSTANTS
  Messages,       \* [path, types, sets, size]: a message; what a pattern message sets
  BridgeCapacity,       \* rb_new(100000), in the units of size
  Frames,         \* sample positions in a cycle
  PortRoom,       \* largest event that a port's buffer takes
  MaxMessages     \* bound: messages that arrive

ASSUME OscAssumption ==
  /\ {BridgeCapacity, Frames, PortRoom} \subseteq Nat \ {0} /\ MaxMessages \in Nat
  /\ \A m \in Messages : m.size \in Nat \ {0}

VARIABLES
  given,       \* history: the messages that arrived; ids are its indices
  rb,          \* a unit of a record each: what it is a part of
  handler,     \* default_msg_handler: the writes done, the position it found
  process_in,  \* the bridge's process: what it has read of a record
  frame,       \* frames since the cycle's start
  running,     \* whose process JACK runs
  port_out, out_pos,    \* the events of this cycle in the two connected ports
  path_match_pattern, typetag_match_pattern,
  seen,        \* history: what the filter took, in order
  positive, negative,   \* history: what it put to either port
  sent,        \* history: what bridge_out has sent
  said_lost, refused    \* history: lost with a word, refused by the port

queue == <<given, rb, handler>>
ports == <<port_out, out_pos>>
filter == <<path_match_pattern, typetag_match_pattern, seen, positive, negative>>
osc_vars == <<queue, process_in, frame, running, ports, filter, sent, said_lost,
              refused>>

Paths == {m.path : m \in Messages}
Types == {m.types : m \in Messages}

OscInit ==
  /\ given = <<>> /\ rb = <<>>
  /\ handler = [at |-> "idle", id |-> 0, pos |-> 0]
  /\ process_in = [at |-> "idle", got |-> <<>>]
  /\ frame = 0 /\ running = "none"
  /\ port_out = <<>> /\ out_pos = <<>>
  /\ path_match_pattern = Paths /\ typetag_match_pattern = Types
  /\ seen = <<>> /\ positive = <<>> /\ negative = <<>> /\ sent = <<>>
  /\ said_lost = {} /\ refused = {}

------------------------------------------------------------------------------
(* What the record of a message is made of: position, size, message.       *)
Part(id, name, pos) == [id |-> id, part |-> name, pos |-> pos]
Body(id, pos) == [u \in 1 .. given[id].size |-> Part(id, "message", pos)]
Record(id, pos) == <<Part(id, "pos", pos), Part(id, "size", pos)>> \o Body(id, pos)

(* A slip of Fits: the record's header is forgotten.                       *)
FitsAlone(m) == m.size <= rb_can_write(rb, BridgeCapacity)

Fits(m) == m.size + 2 <= rb_can_write(rb, BridgeCapacity)

(* jack_frames_since_cycle_start() *)
frames_since_cycle_start == frame

(* default_msg_handler, up to its first write. *)
Arrives(m) ==
  /\ handler.at = "idle" /\ Len(given) < MaxMessages
  /\ given' = Append(given, m)
  /\ IF Fits(m)
     THEN /\ handler' = [at |-> "pos", id |-> Len(given) + 1, pos |-> frames_since_cycle_start]
          /\ UNCHANGED said_lost
     ELSE said_lost' = said_lost \cup {Len(given) + 1} /\ UNCHANGED handler
  /\ UNCHANGED <<rb, process_in, frame, running, ports, filter, sent, refused>>

default_msg_handler ==
  /\ handler.at # "idle"
  /\ rb' = rb_write(rb, BridgeCapacity,
               CASE handler.at = "pos"  -> <<Part(handler.id, "pos", handler.pos)>>
                 [] handler.at = "size" -> <<Part(handler.id, "size", handler.pos)>>
                 [] OTHER               -> Body(handler.id, handler.pos))
  /\ handler' = [handler EXCEPT !.at = CASE @ = "pos"  -> "size"
                                         [] @ = "size" -> "message"
                                         [] OTHER      -> "idle"]
  /\ UNCHANGED <<given, process_in, frame, running, ports, filter, sent, said_lost,
                 refused>>

------------------------------------------------------------------------------
FramePasses ==
  /\ frame < Frames - 1 /\ running = "none"
  /\ frame' = frame + 1
  /\ UNCHANGED <<queue, process_in, running, ports, filter, sent, said_lost, refused>>

(* JACK begins a cycle: the bridge's process clears its port. *)
CycleStarts ==
  /\ frame = Frames - 1 /\ running = "none"
  /\ frame' = 0 /\ running' = "in"
  /\ process_in' = [at |-> "loop", got |-> <<>>]
  /\ port_out' = <<>>
  /\ UNCHANGED <<queue, out_pos, filter, sent, said_lost, refused>>

(* A slip of MoreToRead: a record with a message of one unit is left.      *)
MoreThanOneUnit == rb_can_read(rb) > 3

(* rb_can_read() > sizeof(jack_nframes_t) + sizeof(size_t) *)
MoreToRead == rb_can_read(rb) > 2

(* rb_read into the three locals, one after the other. *)
Reads(n, next) ==
  /\ process_in' = [at |-> next, got |-> process_in.got \o rb_read(rb, n)]
  /\ rb' = rb_skip(rb, n)
  /\ UNCHANGED <<given, handler, frame, running, ports, filter, sent, said_lost, refused>>

ReadsPosition == process_in.at = "loop" /\ MoreToRead /\ Reads(1, "size")
ReadsLength     == process_in.at = "size" /\ Reads(1, "message")
ReadsMessage  == /\ process_in.at = "message"
                 /\ Reads(given[process_in.got[2].id].size, "write")

(* jack_osc_event_write: a port takes events in the order of their time.   *)
jack_osc_event_write(id, pos) ==
  IF port_out = <<>> \/ Last(port_out).pos <= pos
  THEN port_out' = Append(port_out, [id |-> id, pos |-> pos]) /\ UNCHANGED refused
  ELSE refused' = refused \cup {id} /\ UNCHANGED port_out

WritesEvent ==
  /\ process_in.at = "write"
  /\ process_in' = [at |-> "loop", got |-> <<>>]
  /\ LET id == process_in.got[1].id
     IN  IF given[id].size <= PortRoom
         THEN jack_osc_event_write(id, process_in.got[1].pos) /\ UNCHANGED said_lost
         ELSE said_lost' = said_lost \cup {id} /\ UNCHANGED <<port_out, refused>>
  /\ UNCHANGED <<queue, frame, running, out_pos, filter, sent>>

ProcessReturns ==
  /\ process_in.at = "loop" /\ ~MoreToRead
  /\ process_in' = [process_in EXCEPT !.at = "idle"]
  /\ running' = "filter"
  /\ UNCHANGED <<queue, frame, ports, filter, sent, said_lost, refused>>

------------------------------------------------------------------------------
(* osc_filter.c's process.  A pattern message with its types right sets a  *)
(* pattern; it goes no further in any case.                                *)
IsPattern(m) == m.path \in {"/match_path", "/match_types"}

Sets(m, path) == m.path = path /\ m.types = "s"

(* The pattern after the messages ms. *)
PatternAfter(ms, path, before) ==
  FoldLeft(LAMBDA p, id : IF Sets(given[id], path) THEN given[id].sets ELSE p, before, ms)

(* A slip of Matches: the patterns of the cycle's start are taken.         *)
MatchesEarlier(earlier, m) ==
  m.path \in path_match_pattern /\ m.types \in typetag_match_pattern

(* regex() of the path and of the types, after the messages before this.   *)
Matches(earlier, m) ==
  /\ m.path  \in PatternAfter(earlier, "/match_path", path_match_pattern)
  /\ m.types \in PatternAfter(earlier, "/match_types", typetag_match_pattern)

filter_process ==
  LET ids   == [i \in DOMAIN port_out |-> port_out[i].id]
      plain == {i \in DOMAIN ids : ~IsPattern(given[ids[i]])}
      up    == {i \in plain : Matches(SubSeq(ids, 1, i - 1), given[ids[i]])}
      Of(I) == [k \in 1 .. Cardinality(I) |-> ids[SetToSortSeq(I, <)[k]]]
  IN  /\ running = "filter"
      /\ running' = "out"
      /\ out_pos' = Of(up)
      /\ positive' = positive \o Of(up)
      /\ negative' = negative \o Of(plain \ up)
      /\ seen' = seen \o ids
      /\ path_match_pattern' = PatternAfter(ids, "/match_path", path_match_pattern)
      /\ typetag_match_pattern' = PatternAfter(ids, "/match_types", typetag_match_pattern)
      /\ UNCHANGED <<queue, process_in, frame, port_out, sent, said_lost, refused>>

(* osc_bridge_out.c's process: each event is sent. *)
bridge_out_process ==
  /\ running = "out"
  /\ running' = "none"
  /\ sent' = sent \o out_pos
  /\ UNCHANGED <<queue, process_in, frame, ports, filter, said_lost, refused>>

Server == default_msg_handler

Jack == \/ FramePasses \/ CycleStarts
        \/ ReadsPosition \/ ReadsLength \/ ReadsMessage \/ WritesEvent \/ ProcessReturns
        \/ filter_process \/ bridge_out_process

OscNext == (\E m \in Messages : Arrives(m)) \/ Server \/ Jack

(* The server thread finishes a message, and JACK runs its cycles.         *)
OscSpec == OscInit /\ [][OscNext]_osc_vars /\ WF_osc_vars(Server) /\ WF_osc_vars(Jack)

------------------------------------------------------------------------------
Ids == DOMAIN given

OscTypes ==
  /\ given \in Seq(Messages) /\ Len(rb) <= BridgeCapacity
  /\ handler.at \in {"idle", "pos", "size", "message"}
  /\ frame \in 0 .. Frames - 1 /\ running \in {"none", "in", "filter", "out"}
  /\ said_lost \cup refused \subseteq Ids

(* The callback that reads a record while the server thread writes         *)
(* (osc_bridge_in.c, process) never mixes two records, and reads all of it *)
(* although it looks only whether the header and one byte are there.       *)
RecordsWhole ==
  process_in.got # <<>> =>
    LET r == Record(process_in.got[1].id, process_in.got[1].pos)
    IN  /\ IsPrefix(process_in.got, r)
        /\ process_in.at = "write" => process_in.got = r

(* Each message the filter lets on was sent to the side that the last      *)
(* pattern messages before it ask for (osc_filter.c, process), also when   *)
(* they came in the same cycle, and to one side only.                      *)
RightSide ==
  \A i \in DOMAIN seen :
    LET m == given[seen[i]]
        LastOf(path, all) ==
          LET before == {j \in 1 .. i - 1 : Sets(given[seen[j]], path)}
          IN  IF before = {} THEN all
              ELSE given[seen[CHOOSE j \in before : \A k \in before : k <= j]].sets
        fits == /\ m.path \in LastOf("/match_path", Paths)
                /\ m.types \in LastOf("/match_types", Types)
    IN  ~IsPattern(m) => /\ Contains(positive, seen[i]) <=> fits
                         /\ Contains(negative, seen[i]) <=> ~fits

(* Every message that arrives is sent, put to the other side, or lost in   *)
(* one of the ways above.                                                  *)
EveryMessageEnds ==
  \A id \in 1 .. MaxMessages :
    id \in Ids ~> \/ Contains(sent, id) \/ Contains(negative, id)
                  \/ Contains(seen, id) /\ IsPattern(given[id])
                  \/ id \in said_lost \cup refused

==============================================================================
