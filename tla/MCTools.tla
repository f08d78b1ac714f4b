-------------------------------- MODULE MCTools --------------------------------
(***************************************************************************)
(* Six programs that have nothing to do with each other, each on its own:  *)
(* a behaviour chooses one, the others stay where they begin.  One run     *)
(* checks them all.                                                        *)
(***************************************************************************)
EXTENDS Gen, JackStep, OscBridges, Tty, SharedSegment, PlaySession

VARIABLE program

tools_vars ==
  <<program, gen_vars, step_vars, osc_vars, tty_vars, segment_vars, session_vars>>

ToolsInit ==
  /\ program \in {"gen", "jack_step", "osc", "tty", "segment", "playfile"}
  /\ GenInit /\ StepInit /\ OscInit /\ TtyInit /\ SegmentInit /\ SessionInit
  /\ program # "segment" => marks
  /\ program # "playfile" => jack.try_reconnect /\ ~jack_is_up

ToolsNext ==
  /\ UNCHANGED program
  /\ \/ /\ program = "gen" /\ GenNext
        /\ UNCHANGED <<step_vars, osc_vars, tty_vars, segment_vars, session_vars>>
     \/ /\ program = "jack_step" /\ StepNext
        /\ UNCHANGED <<gen_vars, osc_vars, tty_vars, segment_vars, session_vars>>
     \/ /\ program = "osc" /\ OscNext
        /\ UNCHANGED <<gen_vars, step_vars, tty_vars, segment_vars, session_vars>>
     \/ /\ program = "tty" /\ TtyNext
        /\ UNCHANGED <<gen_vars, step_vars, osc_vars, segment_vars, session_vars>>
     \/ /\ program = "segment" /\ SegmentNext
        /\ UNCHANGED <<gen_vars, step_vars, osc_vars, tty_vars, session_vars>>
     \/ /\ program = "playfile" /\ SessionNext
        /\ UNCHANGED <<gen_vars, step_vars, osc_vars, tty_vars, segment_vars>>

(* The fairness of each one's own specification, for the one that runs.    *)
ToolsFairness ==
  /\ WF_step_vars(program = "jack_step" /\ freewheel)
  /\ WF_step_vars(program = "jack_step" /\ step_process)
  /\ WF_step_vars(program = "jack_step" /\ Exits)
  /\ WF_step_vars(program = "jack_step" /\ (MainReturns \/ MainClears))
  /\ WF_osc_vars(program = "osc" /\ Server)
  /\ WF_osc_vars(program = "osc" /\ Jack)
  /\ WF_tty_vars(program = "tty" /\ SerialThread)
  /\ WF_tty_vars(program = "tty" /\ MainThread)
  /\ WF_tty_vars(program = "tty" /\ tty_process)
  /\ WF_session_vars(program = "playfile" /\ MainOfPlayfile)
  /\ WF_session_vars(program = "playfile" /\ FileEnds)

ToolsSpec == ToolsInit /\ [][ToolsNext]_tools_vars /\ ToolsFairness

(* Every variable of the program that runs has its type. *)
ToolsTypes == /\ GenTypes /\ StepTypes /\ OscTypes /\ TtyTypes /\ SegmentTypes
              /\ SessionTypes

------------------------------------------------------------------------------
(* Small instances. *)
Plain(path, types, size) == [path |-> path, types |-> types, sets |-> {}, size |-> size]
Pattern(path, types, sets) == [path |-> path, types |-> types, sets |-> sets, size |-> 1]

(* Messages of one and of three units, each pattern message, and one whose *)
(* type is not right.                                                      *)
MCMessages ==
  { Plain("/a", "i", 1), Plain("/b", "f", 3), Pattern("/match_path", "s", {"/b"}),
    Pattern("/match_types", "s", {"i"}), Pattern("/match_path", "i", {}) }

MCNoteSamples == <<7, 5, 2>>
MCKeys == {[channel |-> 0, number |-> n, velocity |-> 100 + n] : n \in {0, 2}}
MCIntervals == {-1, 1}

MCUsers == {"a", "b", "c"}
MCVersionOf == [p \in MCUsers |-> IF p = "c" THEN 2 ELSE 1]

(* A file to play, one whose rate is not resampled, one without frames in  *)
(* the selection, one that is no audio, and one more to play.              *)
MCArguments == <<"good", "rate", "empty", "text", "last">>
MCFormatOf == [f \in {"good", "rate", "empty", "text", "last"} |->
                 CASE f = "good" -> "ogg" [] f = "text" -> "none" [] f = "empty" -> "opus"
                   [] OTHER -> "sndfile"]
==============================================================================
