------------------------------ MODULE AudioSend ------------------------------
(***************************************************************************)
(* jack_audio_send: JACK's process callback offers audio until a receiver  *)
(* accepts it and then sends one /audio message per cycle; the OSC thread  *)
(* handles the receiver's answers.  The two share msg_sequence_number,     *)
(* receiver_accepted and shutdown_in_progress without a lock, and the      *)
(* callback's msg_sequence_number++ is a load and a store.                 *)
(***************************************************************************)
EXTENDS AudioLink

CONSTANTS
  NoPause,        \* option --nopause
  SendMax,        \* option --limit: messages to send, 0 when it is not given
  SenderRates,    \* sample rates the sender may run at
  SenderChannels, \* numbers of channels in its messages that the receiver's
                  \* channel offset leaves
  MaxNumber       \* bound: larger message numbers are not told apart

ASSUME SendAssumption ==
  /\ NoPause \in BOOLEAN
  /\ MaxNumber \in Nat \ {0} /\ SendMax \in 0 .. MaxNumber
  /\ NoRate \notin SenderRates
  /\ SenderChannels \subseteq Nat

VARIABLE sender

(* A sender as it starts: nothing accepted, the first message numbered 1.  *)
NewSender(rate, channels) ==
  [up |-> TRUE, rate |-> rate, channels |-> channels,
   receiver_accepted |-> FALSE, msg_sequence_number |-> 1,
   last_test_cycle |-> FALSE, shutdown_in_progress |-> FALSE,
   cycle |-> "idle", loaded |-> 0, osc |-> "idle"]

SenderInit == \E r \in SenderRates, c \in SenderChannels :
                sender = [NewSender(r, c) EXCEPT !.up = FALSE]

(* A sender that is started again has the settings it had before. *)
SenderStarts ==
  /\ ~sender.up
  /\ sender' = NewSender(sender.rate, sender.channels)
  /\ UNCHANGED link_vars

------------------------------------------------------------------------------
(* process()                                                               *)

SenderInCycle(step) == sender.up /\ sender.cycle = step

SenderOffers ==
  /\ SenderInCycle("idle") /\ ~sender.shutdown_in_progress
  /\ ~sender.receiver_accepted /\ ~NoPause
  /\ to_receiver' = Sent(to_receiver, Offer(sender.rate))
  /\ sender' = [sender EXCEPT !.cycle = "offered"]
  /\ UNCHANGED <<to_sender, faults>>

SenderSendsAudio ==
  /\ SenderInCycle("idle") /\ ~sender.shutdown_in_progress
  /\ sender.receiver_accepted \/ NoPause
  /\ to_receiver' = Sent(to_receiver,
                      Audio(sender.msg_sequence_number, sender.rate, sender.channels))
  /\ sender' = [sender EXCEPT !.cycle = "sent",
                  !.last_test_cycle = @ \/ (SendMax > 0 /\ sender.msg_sequence_number >= SendMax)]
  /\ UNCHANGED <<to_sender, faults>>

SenderLoadsNumber ==
  /\ \/ SenderInCycle("offered")
        /\ sender' = [sender EXCEPT !.cycle = "count_offer", !.loaded = sender.msg_sequence_number]
     \/ SenderInCycle("sent")
        /\ sender' = [sender EXCEPT !.cycle = "count_audio", !.loaded = sender.msg_sequence_number]
  /\ UNCHANGED link_vars

(* The callback returns; after an /audio message of the last test cycle it *)
(* asks for the shutdown.                                                  *)
SenderStoresNumber ==
  /\ SenderInCycle("count_offer") \/ SenderInCycle("count_audio")
  /\ sender' = [sender EXCEPT !.cycle = "idle", !.loaded = 0,
                  !.msg_sequence_number =
                     IF sender.loaded < MaxNumber THEN sender.loaded + 1 ELSE MaxNumber,
                  !.shutdown_in_progress =
                     @ \/ (sender.cycle = "count_audio" /\ sender.last_test_cycle)]
  /\ UNCHANGED link_vars

sender_process == \/ SenderOffers \/ SenderSendsAudio
                  \/ SenderLoadsNumber \/ SenderStoresNumber

------------------------------------------------------------------------------
(* The OSC thread.                                                         *)

(* The head of the wire reaches the program, or is lost if it is not up.   *)
SenderTakes(path) ==
  /\ sender.osc = "idle"
  /\ to_sender # <<>> /\ Head(to_sender) = path
  /\ to_sender' = Tail(to_sender)
  /\ UNCHANGED <<to_receiver, faults>>

SenderListens == sender.up /\ ~sender.shutdown_in_progress

osc_accept_handler ==
  /\ SenderTakes("/accept")
  /\ sender' = IF SenderListens
               THEN [sender EXCEPT !.receiver_accepted = TRUE, !.osc = "reset_number"]
               ELSE sender

(* A slip of osc_deny_handler: the option is read the other way round.     *)
osc_deny_handler_inverted ==
  /\ SenderTakes("/deny")
  /\ sender' = [sender EXCEPT !.shutdown_in_progress = @ \/ (SenderListens /\ NoPause)]

osc_deny_handler ==
  /\ SenderTakes("/deny")
  /\ sender' = [sender EXCEPT !.shutdown_in_progress = @ \/ (SenderListens /\ ~NoPause)]

osc_pause_handler ==
  /\ SenderTakes("/pause")
  /\ sender' = IF SenderListens /\ ~NoPause
               THEN [sender EXCEPT !.receiver_accepted = FALSE, !.osc = "reset_number"]
               ELSE sender

(* A slip of SenderResetsNumber: messages are numbered from 0.             *)
SenderZeroesNumber ==
  /\ sender.osc = "reset_number"
  /\ sender' = [sender EXCEPT !.msg_sequence_number = 0, !.osc = "idle"]
  /\ UNCHANGED link_vars

(* The second assignment of the /accept and /pause handlers. *)
SenderResetsNumber ==
  /\ sender.osc = "reset_number"
  /\ sender' = [sender EXCEPT !.msg_sequence_number = 1, !.osc = "idle"]
  /\ UNCHANGED link_vars

sender_osc == \/ osc_accept_handler \/ osc_deny_handler \/ osc_pause_handler
              \/ SenderResetsNumber

------------------------------------------------------------------------------
(* The main loop finds shutdown_in_progress set and ends the program.      *)
SenderStops ==
  /\ sender.up /\ sender.shutdown_in_progress
  /\ sender' = [NewSender(sender.rate, sender.channels) EXCEPT !.up = FALSE]
  /\ UNCHANGED link_vars

(* A signal or a /quit message ends it, in the middle of whatever it does. *)
SenderIsKilled ==
  /\ sender.up /\ Fault
  /\ sender' = [NewSender(sender.rate, sender.channels) EXCEPT !.up = FALSE]
  /\ UNCHANGED <<to_receiver, to_sender>>

Sender == SenderStarts \/ sender_process \/ sender_osc \/ SenderStops \/ SenderIsKilled

==============================================================================
