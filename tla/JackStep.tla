------------------------------- MODULE JackStep -------------------------------
(***************************************************************************)
(* jack_step/src/jack_step.c: steps through JACK's cycles in freewheel     *)
(* mode.  A signal handler, the main loop, the process callback and the    *)
(* freewheel callback share flags without a lock.  The process callback    *)
(* waits for a line of input in the middle of a cycle.                     *)
(***************************************************************************)
EXTENDS Integers, Sequences

CONSTANTS
  Numbers,        \* what may be entered to run several cycles
  MaxCommands,    \* bound: lines entered
  MaxInterrupts,  \* bound: signals sent
  InterruptsMain  \* TRUE: a signal may come while the main loop leaves step mode

ASSUME StepAssumption ==
  /\ Numbers \subseteq Nat \ {0} /\ {MaxCommands, MaxInterrupts} \subseteq Nat
  /\ InterruptsMain \in BOOLEAN

VARIABLES
  process_enabled, return_to_normal_operation, is_freewheeling, run_n_cycles,
  shutdown_in_progress,
  callback,    \* "idle", or waiting for a line
  step_main,        \* the main loop: "look", or after jack_set_freewheel
  server,      \* JACK: whether it freewheels, and the changes it has still
               \* to tell of
  up,
  asked, done, \* history: cycles asked for in step mode, cycles gone through
  keys         \* lines entered and interrupts so far

flags     == <<process_enabled, return_to_normal_operation, is_freewheeling, run_n_cycles,
               shutdown_in_progress>>
step_vars == <<flags, callback, step_main, server, up, asked, done, keys>>

StepInit ==
  /\ process_enabled = TRUE /\ return_to_normal_operation = FALSE
  /\ is_freewheeling = FALSE /\ run_n_cycles = 0 /\ shutdown_in_progress = FALSE
  /\ callback = "idle" /\ step_main = "look"
  /\ server = [freewheels |-> FALSE, notices |-> <<>>]
  /\ up = TRUE /\ asked = 0 /\ done = 0
  /\ keys = [lines |-> 0, interrupts |-> 0]

(* Those who are in the mode already are not told. *)
jack_set_freewheel(on) ==
  server' = IF server.freewheels = on THEN server
            ELSE [freewheels |-> on, notices |-> Append(server.notices, on)]

(* freewheel(): JACK tells of the change. *)
freewheel ==
  /\ up /\ server.notices # <<>>
  /\ is_freewheeling' = Head(server.notices)
  /\ server' = [server EXCEPT !.notices = Tail(@)]
  /\ process_enabled' = TRUE
  /\ UNCHANGED <<return_to_normal_operation, run_n_cycles, shutdown_in_progress,
                 callback, step_main, up, asked, done, keys>>

(* A slip of MayRun: the cycle that was waiting is not counted.            *)
MayRunOneMore == run_n_cycles > 0

MayRun == run_n_cycles > 1

(* process(), up to the question for input. *)
step_process ==
  /\ up /\ callback = "idle"
  /\ process_enabled /\ ~shutdown_in_progress /\ is_freewheeling
  /\ IF MayRun
     THEN /\ run_n_cycles' = run_n_cycles - 1
          /\ done' = done + 1
          /\ UNCHANGED callback
     ELSE callback' = "waits" /\ UNCHANGED <<run_n_cycles, done>>
  /\ UNCHANGED <<process_enabled, return_to_normal_operation, is_freewheeling,
                 shutdown_in_progress, step_main, server, up, asked, keys>>

(* A line: a number, nothing, "c", or help and the unknown, which ask again. *)
Enters ==
  /\ callback = "waits" /\ keys.lines < MaxCommands
  /\ keys' = [keys EXCEPT !.lines = @ + 1]
  /\ \/ \E n \in Numbers :
          /\ run_n_cycles' = n /\ callback' = "idle"
          /\ asked' = asked + n /\ done' = done + 1
          /\ UNCHANGED <<process_enabled, return_to_normal_operation>>
     \/ /\ run_n_cycles' = 0 /\ callback' = "idle"
        /\ asked' = asked + 1 /\ done' = done + 1
        /\ UNCHANGED <<process_enabled, return_to_normal_operation>>
     \/ /\ run_n_cycles' = 0 /\ callback' = "idle"
        /\ asked' = asked + 1 /\ done' = done + 1
        /\ return_to_normal_operation' = TRUE /\ process_enabled' = FALSE
     \/ /\ run_n_cycles' = 0
        /\ UNCHANGED <<process_enabled, return_to_normal_operation, callback, asked, done>>
  /\ UNCHANGED <<is_freewheeling, shutdown_in_progress, step_main, server, up>>

(* The main loop. *)
MainReturns ==
  /\ up /\ step_main = "look" /\ return_to_normal_operation
  /\ jack_set_freewheel(FALSE)
  /\ step_main' = "set"
  /\ UNCHANGED <<flags, callback, up, asked, done, keys>>

MainClears ==
  /\ up /\ step_main = "set"
  /\ return_to_normal_operation' = FALSE
  /\ step_main' = "look"
  /\ UNCHANGED <<process_enabled, is_freewheeling, run_n_cycles, shutdown_in_progress,
                 callback, server, up, asked, done, keys>>

(* A slip of EntersStepMode: step mode is not told from normal operation.  *)
EntersAlways(sig) == sig = "INT"

EntersStepMode(sig) == sig = "INT" /\ ~is_freewheeling

(* CTRL+c: step mode, or the end from there; SIGTERM: the end. *)
signal_handler(sig) ==
  /\ up /\ ~shutdown_in_progress /\ keys.interrupts < MaxInterrupts
  /\ InterruptsMain \/ (step_main = "look" /\ ~return_to_normal_operation)
  /\ keys' = [keys EXCEPT !.interrupts = @ + 1]
  /\ process_enabled' = FALSE
  /\ shutdown_in_progress' = ~EntersStepMode(sig)
  /\ jack_set_freewheel(EntersStepMode(sig))
  /\ UNCHANGED <<return_to_normal_operation, is_freewheeling, run_n_cycles,
                 callback, step_main, up, asked, done>>

(* JACK lets a client go when its callback has returned. *)
Exits ==
  /\ up /\ shutdown_in_progress /\ callback = "idle"
  /\ up' = FALSE
  /\ UNCHANGED <<flags, callback, step_main, server, asked, done, keys>>

Program == freewheel \/ step_process \/ MainReturns \/ MainClears \/ Exits

StepNext == Program \/ Enters \/ \E sig \in {"INT", "TERM"} : signal_handler(sig)

(* Every thread goes on; a line is entered or not.                         *)
StepSpec ==
  /\ StepInit /\ [][StepNext]_step_vars
  /\ WF_step_vars(freewheel) /\ WF_step_vars(step_process) /\ WF_step_vars(Exits)
  /\ WF_step_vars(MainReturns \/ MainClears)

------------------------------------------------------------------------------
StepTypes ==
  /\ {process_enabled, return_to_normal_operation, is_freewheeling,
      shutdown_in_progress, up} \subseteq BOOLEAN
  /\ run_n_cycles \in Nat
  /\ callback \in {"idle", "waits"} /\ step_main \in {"look", "set"}
  /\ server.notices \in Seq(BOOLEAN)
  /\ {asked, done} \subseteq Nat

(* "enter a number to process n cycles": when input is asked for again, as *)
(* many cycles as were asked for are gone through (process, jack_step.c).  *)
CyclesAsAsked == done <= asked /\ (callback = "waits" => done = asked)

(* "'c+ENTER' to continue (leave step mode)", "'CTRL+c' to enter step mode" *)
(* (jack_step.c:95): JACK is never left freewheeling without a prompt, it   *)
(* comes to one, or goes back to its normal operation, or the program ends. *)
FreewheelsToAPrompt ==
  server.freewheels ~> (callback = "waits" \/ ~server.freewheels \/ shutdown_in_progress)

==============================================================================
