--------------------------- MODULE AudioRxTx_proofs ---------------------------
(***************************************************************************)
(* What holds of a sender and a receiver for any rates, numbers of         *)
(* channels and ports, buffer sizes and options, whatever messages are     *)
(* lost and whenever one of the two is killed and started again.           *)
(*                                                                         *)
(* Types first.  Then the channels: a port plays its own channel as long   *)
(* as nothing but an underflow takes the receiver back to buffering.  The  *)
(* invariant follows the channels through the ring buffer: each item is    *)
(* the channel after the one before it, the first is the one the callback  *)
(* will read next, and the one that the OSC thread will write next comes   *)
(* after the last.                                                         *)
(***************************************************************************)
EXTENDS AudioRxTx, SequenceTheorems, TLAPS

Messages ==
  [path : {"/offer"}, rate : SenderRates] \cup
  [path : {"/audio"}, number : 1 .. MaxNumber, rate : SenderRates, channels : SenderChannels]

WireOK ==
  /\ to_receiver \in Seq(Messages) /\ Len(to_receiver) <= MaxWire
  /\ to_sender \in Seq(Answers) /\ Len(to_sender) <= MaxWire
  /\ faults \in 0 .. MaxFaults

Senders ==
  [up : BOOLEAN, rate : SenderRates, channels : SenderChannels,
   receiver_accepted : BOOLEAN, msg_sequence_number : 1 .. MaxNumber,
   last_test_cycle : BOOLEAN, shutdown_in_progress : BOOLEAN,
   cycle : {"idle", "offered", "sent", "count_offer", "count_audio"},
   loaded : 0 .. MaxNumber, osc : {"idle", "reset_number"}]

SenderOK == sender \in Senders

Globals ==
  [up : BOOLEAN, shutdown_in_progress : BOOLEAN, process_enabled : BOOLEAN,
   message_number : 0 .. MaxNumber, port_count : 0 .. OutputPorts,
   remote_sample_rate : SenderRates \cup {NoRate}, pre_buffer_counter : Nat,
   pre_buffer_size : Nat \ {0}, max_buffer_size : Nat, requested_drop_count : Nat,
   sender_host : BOOLEAN]

(* A receiver that got a message of no channels for it is about to end. *)
ReceiverOK ==
  /\ receiver \in Globals
  /\ ~receiver.shutdown_in_progress => receiver.port_count >= 1
  /\ rb \in Seq(Port) /\ Len(rb) <= Capacity
  /\ osc \in [at : {"idle", "enable", "write", "count"}, channel : Port, loaded : Nat]
  /\ cycle \in [at : {"idle", "silence", "zero", "read"}, port : Nat]
  /\ ports \in [Port -> Port \cup {Silence}]

TInv == WireOK /\ SenderOK /\ ReceiverOK

(* Sent and Without keep a wire within its bound.                          *)
LEMMA WireSent ==
  ASSUME NEW S, NEW w \in Seq(S), NEW m \in S, Len(w) <= MaxWire
  PROVE  Sent(w, m) \in Seq(S) /\ Len(Sent(w, m)) <= MaxWire
BY LinkAssumption DEF Sent

(* A lost message leaves the others.                                       *)
LEMMA WireLoses ==
  ASSUME NEW S, NEW w \in Seq(S), NEW i \in DOMAIN w
  PROVE  /\ Without(w, i) \in Seq(S) /\ Len(Without(w, i)) = Len(w) - 1
         /\ \A j \in DOMAIN Without(w, i) : \E k \in DOMAIN w : Without(w, i)[j] = w[k]
<1>1. PICK l, a, b, c : /\ l = Len(w) /\ a = SubSeq(w, 1, i - 1) /\ b = SubSeq(w, i + 1, Len(w))
                        /\ c = a \o b
  OBVIOUS
<1>2. l \in Nat /\ i \in 1 .. l
  BY <1>1
<1>3. a \in Seq(S) /\ Len(a) = i - 1 /\ \A j \in 1 .. i - 1 : a[j] = w[j]
  BY <1>1
<1>4. b \in Seq(S) /\ Len(b) = l - i /\ \A j \in 1 .. l - i : b[j] = w[i + j]
  <2>1. i + 1 \in Int /\ l \in Int /\ \A j \in i + 1 .. l : w[j] \in S
    BY <1>1, <1>2, ElementOfSeq
  <2>2. b = SubSeq(w, i + 1, l)
    BY <1>1
  <2>3. /\ b \in Seq(S) /\ Len(b) = IF i + 1 <= l THEN l - (i + 1) + 1 ELSE 0
        /\ \A j \in 1 .. l - (i + 1) + 1 : b[j] = w[i + 1 + j - 1]
    BY <2>1, <2>2, SubSeqProperties
  <2>4. /\ l - (i + 1) + 1 = l - i /\ (~(i + 1 <= l) => l - i = 0)
        /\ \A j \in 1 .. l - i : i + 1 + j - 1 = i + j
    BY <1>2
  <2> QED
    BY <2>3, <2>4
<1>5. /\ c \in Seq(S) /\ Len(c) = l - 1
      /\ \A j \in 1 .. l - 1 : c[j] = IF j <= i - 1 THEN a[j] ELSE b[j - (i - 1)]
  <2>1. /\ c \in Seq(S) /\ Len(c) = Len(a) + Len(b)
        /\ \A j \in 1 .. Len(a) + Len(b) : c[j] = IF j <= Len(a) THEN a[j] ELSE b[j - Len(a)]
    <3>1. a \in Seq(S) /\ b \in Seq(S) /\ c = a \o b
      BY <1>1, <1>3, <1>4
    <3> QED
      BY <3>1, ConcatProperties, Zenon
  <2>2. Len(a) + Len(b) = l - 1
    BY <1>2, <1>3, <1>4
  <2> QED
    BY <1>3, <2>1, <2>2
<1>6. ASSUME NEW j \in 1 .. l - 1
      PROVE  \E k \in 1 .. l : c[j] = w[k]
  <2>1. CASE j <= i - 1
    <3>1. j \in 1 .. i - 1 /\ j \in 1 .. l
      BY <1>2, <2>1
    <3> QED
      BY <1>3, <1>5, <2>1, <3>1
  <2>2. CASE ~(j <= i - 1)
    <3>1. j - (i - 1) \in 1 .. l - i /\ i + (j - (i - 1)) \in 1 .. l
      BY <1>2, <2>2
    <3> QED
      BY <1>4, <1>5, <2>2, <3>1
  <2> QED
    BY <2>1, <2>2
<1>7. Without(w, i) = c
  BY <1>1, Zenon DEF Without
<1>8. DOMAIN c = 1 .. l - 1 /\ DOMAIN w = 1 .. l
  <2>1. DOMAIN c = 1 .. l - 1
    <3>1. c \in Seq(S) /\ Len(c) = l - 1
      BY <1>5
    <3> QED
      BY <3>1
  <2>2. DOMAIN w = 1 .. l
    <3>1. w \in Seq(S) /\ Len(w) = l
      BY <1>1
    <3> QED
      BY <3>1
  <2> QED
    BY <2>1, <2>2
<1>9. /\ c \in Seq(S) /\ Len(c) = Len(w) - 1
      /\ \A j \in DOMAIN c : \E k \in DOMAIN w : c[j] = w[k]
  <2>1. Len(c) = Len(w) - 1
    BY <1>1, <1>5
  <2> QED
    BY <1>5, <1>6, <1>8, <2>1, Zenon
<1> QED
  BY <1>7, <1>9, Zenon

(* Reading takes from the front. *)
LEMMA TailOf ==
  ASSUME NEW S, NEW w \in Seq(S), w # <<>>
  PROVE  /\ Head(w) \in S /\ Tail(w) \in Seq(S) /\ Len(Tail(w)) = Len(w) - 1
         /\ Head(w) = w[1] /\ \A j \in 1 .. Len(w) - 1 : Tail(w)[j] = w[j + 1]
OBVIOUS

(* The numbers a new program begins with are of their types. *)
LEMMA Numbers ==
  /\ 0 \in 0 .. MaxNumber /\ 1 \in 1 .. MaxNumber /\ MaxNumber \in 1 .. MaxNumber
  /\ \A n \in 0 .. MaxNumber : n < MaxNumber => n + 1 \in 1 .. MaxNumber
  /\ 1 .. MaxNumber \subseteq 0 .. MaxNumber /\ SenderChannels \subseteq Nat
  /\ 0 \in Port /\ OutputPorts \in 0 .. OutputPorts /\ OutputPorts >= 1
  /\ 0 \in Nat /\ PreBuffer \in Nat \ {0} /\ MaxBuffer \in Nat
BY SendAssumption, ReceiveAssumption DEF Port

(* A new receiver, or one that ended. *)
LEMMA NewReceiverOK ==
  ASSUME NEW r, NEW up \in BOOLEAN, r = [NewReceiver EXCEPT !.up = up]
  PROVE  /\ receiver = r /\ rb = <<>> /\ osc = IdleOsc /\ cycle = IdleCycle
            /\ ports = [p \in Port |-> Silence] => ReceiverOK
         /\ receiver' = r /\ rb' = <<>> /\ osc' = IdleOsc /\ cycle' = IdleCycle
            /\ ports' = [p \in Port |-> Silence] => ReceiverOK'
<1>1. r \in Globals /\ r.port_count >= 1 /\ r.max_buffer_size = MaxBuffer
  BY Numbers DEF NewReceiver, Globals
<1>2. MaxBuffer * OutputPorts \in Nat
  BY Numbers, ReceiveAssumption
<1>3. PICK q : q = MaxBuffer * OutputPorts
  OBVIOUS
<1>4. q \in Nat /\ (q = r.max_buffer_size * OutputPorts)
  BY <1>1, <1>2, <1>3
<1>5. <<>> \in Seq(Port) /\ Len(<<>>) = 0
  OBVIOUS
<1>6. /\ IdleOsc \in [at : {"idle", "enable", "write", "count"}, channel : Port, loaded : Nat]
      /\ IdleCycle \in [at : {"idle", "silence", "zero", "read"}, port : Nat]
      /\ [p \in Port |-> Silence] \in [Port -> Port \cup {Silence}]
  BY Numbers DEF IdleOsc, IdleCycle
<1>7. 0 <= q
  BY <1>4
<1> QED
  BY <1>1, <1>4, <1>5, <1>6, <1>7, Zenon DEF ReceiverOK, Capacity

(* Both programs begin anew.                                               *)
LEMMA TInvInit == Init => TInv
<1> SUFFICES ASSUME Init
             PROVE  TInv
  OBVIOUS
<1>1. WireOK
  BY LinkAssumption DEF Init, LinkInit, WireOK
<1>2. SenderOK
  BY Numbers DEF Init, SenderInit, NewSender, SenderOK, Senders
<1>3. ReceiverOK
  BY NewReceiverOK DEF Init, ReceiverInit
<1> QED
  BY <1>1, <1>2, <1>3 DEF TInv

(* A new sender, or one that ends. *)
LEMMA NewSenderOK ==
  ASSUME SenderOK
  PROVE  /\ NewSender(sender.rate, sender.channels).channels = sender.channels
         /\ sender' = NewSender(sender.rate, sender.channels) => SenderOK'
         /\ sender' = [NewSender(sender.rate, sender.channels) EXCEPT !.up = FALSE] => SenderOK'
<1>1. sender.rate \in SenderRates /\ sender.channels \in SenderChannels
  BY DEF SenderOK, Senders
<1>2. PICK s : s = NewSender(sender.rate, sender.channels)
  OBVIOUS
<1>3. s \in Senders /\ s.channels = sender.channels
  BY <1>1, <1>2, Numbers DEF Senders, NewSender
<1>4. [s EXCEPT !.up = FALSE] \in Senders
  BY <1>3 DEF Senders
<1> QED
  BY <1>2, <1>3, <1>4 DEF SenderOK

(* A step of the sender.                                                   *)
LEMMA SenderKeepsTypes ==
  ASSUME WireOK, SenderOK, Sender
  PROVE  WireOK' /\ SenderOK' /\ sender'.channels = sender.channels
<1>1. CASE SenderStarts
  BY <1>1, NewSenderOK DEF SenderStarts, WireOK, link_vars, NewSender
<1>2. CASE SenderOffers
  <2>1. Offer(sender.rate) \in Messages
    BY DEF Offer, Messages, SenderOK, Senders
  <2>2. WireOK'
    BY <1>2, <2>1, WireSent DEF SenderOffers, WireOK
  <2> QED
    BY <1>2, <2>2 DEF SenderOffers, SenderOK, Senders
<1>3. CASE SenderSendsAudio
  <2>1. Audio(sender.msg_sequence_number, sender.rate, sender.channels) \in Messages
    BY DEF Audio, Messages, SenderOK, Senders
  <2>2. WireOK'
    BY <1>3, <2>1, WireSent DEF SenderSendsAudio, WireOK
  <2> QED
    BY <1>3, <2>2 DEF SenderSendsAudio, SenderOK, Senders
<1>4. CASE SenderLoadsNumber
  <2>1. sender.msg_sequence_number \in 0 .. MaxNumber
    BY DEF SenderOK, Senders
  <2> QED
    BY <1>4, <2>1 DEF SenderLoadsNumber, SenderInCycle, SenderOK, Senders, WireOK, link_vars
<1>5. CASE SenderStoresNumber
  <2>1. PICK n, d : /\ n = IF sender.loaded < MaxNumber THEN sender.loaded + 1 ELSE MaxNumber
                    /\ d = (\/ sender.shutdown_in_progress
                           \/ (sender.cycle = "count_audio" /\ sender.last_test_cycle))
    OBVIOUS
  <2>2. n \in 1 .. MaxNumber /\ d \in BOOLEAN /\ 0 \in 0 .. MaxNumber
    BY <2>1, Numbers DEF SenderOK, Senders
  <2>3. sender' = [sender EXCEPT !.cycle = "idle", !.loaded = 0, !.msg_sequence_number = n,
                                 !.shutdown_in_progress = d]
    BY <1>5, <2>1 DEF SenderStoresNumber
  <2> QED
    BY <1>5, <2>2, <2>3 DEF SenderStoresNumber, SenderOK, Senders, WireOK, link_vars
<1>6. ASSUME NEW path, SenderTakes(path)
      PROVE  WireOK'
  <2>1. to_sender \in Seq(Answers) /\ to_sender # <<>>
    BY <1>6 DEF SenderTakes, WireOK
  <2> QED
    BY <1>6, <2>1, TailOf, LinkAssumption DEF SenderTakes, WireOK
<1>7. CASE osc_accept_handler
  BY <1>6, <1>7 DEF osc_accept_handler, SenderOK, Senders
<1>8. CASE osc_deny_handler
  BY <1>6, <1>8 DEF osc_deny_handler, SenderOK, Senders, SenderListens
<1>9. CASE osc_pause_handler
  BY <1>6, <1>9 DEF osc_pause_handler, SenderOK, Senders
<1>10. CASE SenderResetsNumber
  BY <1>10, Numbers DEF SenderResetsNumber, SenderOK, Senders, WireOK, link_vars
<1>11. CASE SenderStops
  BY <1>11, NewSenderOK DEF SenderStops, WireOK, link_vars, NewSender
<1>12. CASE SenderIsKilled
  BY <1>12, NewSenderOK, LinkAssumption DEF SenderIsKilled, Fault, WireOK, NewSender
<1> QED
  BY <1>1, <1>2, <1>3, <1>4, <1>5, <1>7, <1>8, <1>9, <1>10, <1>11, <1>12
     DEF Sender, sender_process, sender_osc

(* A message gets lost. *)
LEMMA LoseKeepsTypes == ASSUME WireOK, Lose PROVE WireOK'
<1>1. ASSUME NEW i \in DOMAIN to_receiver, to_receiver' = Without(to_receiver, i), UNCHANGED to_sender
      PROVE  WireOK'
  BY <1>1, WireLoses, LinkAssumption DEF Lose, Fault, WireOK
<1>2. ASSUME NEW i \in DOMAIN to_sender, to_sender' = Without(to_sender, i), UNCHANGED to_receiver
      PROVE  WireOK'
  BY <1>2, WireLoses, LinkAssumption DEF Lose, Fault, WireOK
<1> QED
  BY <1>1, <1>2 DEF Lose

------------------------------------------------------------------------------
(* The receiver's types, step by step.                                     *)

(* What of the types is not the globals', for a buffer of n items.         *)
LocalsOK(n) ==
  /\ rb \in Seq(Port) /\ Len(rb) <= n
  /\ osc \in [at : {"idle", "enable", "write", "count"}, channel : Port, loaded : Nat]
  /\ cycle \in [at : {"idle", "silence", "zero", "read"}, port : Nat]
  /\ ports \in [Port -> Port \cup {Silence}]

GlobalsOK(r) == r \in Globals /\ (~r.shutdown_in_progress => r.port_count >= 1)

(* The two parts together are all of it. *)
LEMMA ReceiverParts == ReceiverOK <=> GlobalsOK(receiver) /\ LocalsOK(Capacity)
BY DEF ReceiverOK, GlobalsOK, LocalsOK

(* How many periods there are, and how many items to drop. *)
LEMMA Quotient == ASSUME NEW a \in Nat, NEW b \in Nat \ {0} PROVE a \div b \in Nat
OBVIOUS

(* And how many items fit. *)
LEMMA Product == ASSUME NEW a \in Nat, NEW b \in Nat PROVE a * b \in Nat
OBVIOUS

(* The capacity is a number. *)
LEMMA CapacityIsNat == ReceiverOK => Capacity \in Nat
<1> SUFFICES ASSUME ReceiverOK
             PROVE  Capacity \in Nat
  OBVIOUS
<1>1. receiver.max_buffer_size \in Nat /\ OutputPorts \in Nat
  BY ReceiveAssumption DEF ReceiverOK, Globals
<1> QED
  BY <1>1, Product DEF Capacity

(* A step that leaves the maximum as it is. *)
LEMMA SameCapacity ==
  receiver'.max_buffer_size = receiver.max_buffer_size => Capacity' = Capacity
BY DEF Capacity

(* The OSC thread takes a message and may answer it.                       *)
LEMMA TakesKeepsWire ==
  ASSUME WireOK, NEW path, ReceiverTakes(path),
         NoAnswer \/ \E a \in Answers : Answer(a)
  PROVE  WireOK' /\ Head(to_receiver) \in Messages /\ Head(to_receiver).path = path
<1>1. to_receiver \in Seq(Messages) /\ to_receiver # <<>>
  BY DEF ReceiverTakes, WireOK
<1>2. Head(to_receiver) \in Messages /\ Tail(to_receiver) \in Seq(Messages)
      /\ Len(Tail(to_receiver)) = Len(to_receiver) - 1
  BY <1>1, TailOf
<1>3. to_sender' \in Seq(Answers) /\ Len(to_sender') <= MaxWire
  BY WireSent DEF NoAnswer, Answer, WireOK
<1> QED
  BY <1>2, <1>3, LinkAssumption DEF ReceiverTakes, WireOK

(* What an /audio message does to the globals: r has its number and        *)
(* channels, s what the first message of a sender changes.                 *)
Numbered(m) ==
  [receiver EXCEPT !.message_number = m.number,
     !.port_count = IF m.channels < OutputPorts THEN m.channels ELSE OutputPorts]

(* The outcomes of osc_audio_handler. *)
LEMMA ArrivalCases ==
  ASSUME AudioArrives, NEW m, m = Head(to_receiver), NEW r, r = Numbered(m)
  PROVE  \/ /\ r.port_count < 1
            /\ receiver' = [r EXCEPT !.shutdown_in_progress = TRUE] /\ osc' = osc /\ NoAnswer
         \/ /\ ~(r.port_count < 1)
            /\ \/ /\ receiver' \in {r, SenderRestarted(r, m)}
                  /\ osc' = [IdleOsc EXCEPT !.at = "enable"] /\ NoAnswer
               \/ /\ receiver' = [SenderRestarted(r, m) EXCEPT !.shutdown_in_progress = TRUE]
                  /\ osc' = osc /\ NoAnswer
               \/ /\ receiver' = [SenderRestarted(r, m) EXCEPT
                                    !.message_number = 0, !.remote_sample_rate = NoRate]
                  /\ osc' = [IdleOsc EXCEPT !.at = "enable"] /\ Answer("/deny")
BY DEF AudioArrives, Numbered

(* Each of them keeps the types.                                           *)
LEMMA AudioKeepsTypes ==
  ASSUME WireOK, ReceiverOK, AudioArrives
  PROVE  WireOK' /\ ReceiverOK'
<1>1. PICK m, r, s : m = Head(to_receiver) /\ r = Numbered(m) /\ s = SenderRestarted(r, m)
  OBVIOUS
<1>2. ReceiverTakes("/audio") /\ UNCHANGED <<rb, cycle, ports>>
  BY DEF AudioArrives
<1>3. WireOK' /\ m \in Messages /\ m.path = "/audio"
  BY <1>1, <1>2, ArrivalCases, TakesKeepsWire DEF Answers
<1>4. m.number \in 0 .. MaxNumber /\ m.rate \in SenderRates /\ m.channels \in Nat
  <2>1. m.number \in 1 .. MaxNumber /\ m.rate \in SenderRates /\ m.channels \in SenderChannels
    BY <1>3 DEF Messages
  <2> QED
    BY <2>1, Numbers, Zenon
<1>5. r \in Globals
  <2>1. PICK n, c : /\ n = m.number /\ n \in 0 .. MaxNumber
                    /\ c = IF m.channels < OutputPorts THEN m.channels ELSE OutputPorts
    BY <1>4
  <2>2. c \in 0 .. OutputPorts
    BY <1>4, <2>1, ReceiveAssumption
  <2>3. r = [receiver EXCEPT !.message_number = n, !.port_count = c]
    BY <1>1, <2>1 DEF Numbered
  <2> QED
    BY <2>1, <2>2, <2>3 DEF ReceiverOK, Globals
<1>6. r.max_buffer_size = receiver.max_buffer_size
  BY <1>1 DEF Numbered, ReceiverOK, Globals
<1>7. ASSUME ~(r.port_count < 1)
      PROVE  /\ s \in Globals /\ s.max_buffer_size = receiver.max_buffer_size
             /\ s.port_count = r.port_count /\ r.port_count >= 1
  <2>1. r.port_count \in Nat \ {0}
    BY <1>5, <1>7 DEF Globals
  <2>2. PICK n, e : /\ n = (IF RebufferOnRestart THEN Len(rb) \div r.port_count ELSE 0)
                    /\ e = (r.process_enabled /\ ~RebufferOnRestart)
    OBVIOUS
  <2>3. n \in Nat
    <3>1. Len(rb) \in Nat
      BY DEF ReceiverOK
    <3> QED
      BY <2>1, <2>2, <3>1, Quotient
  <2>4. e \in BOOLEAN
    BY <2>2
  <2>5. s = [r EXCEPT !.sender_host = TRUE, !.remote_sample_rate = m.rate,
                      !.process_enabled = e, !.pre_buffer_counter = n]
    BY <1>1, <2>2 DEF SenderRestarted
  <2>6. s \in Globals /\ s.max_buffer_size = r.max_buffer_size /\ s.port_count = r.port_count
    BY <1>4, <1>5, <2>3, <2>4, <2>5 DEF Globals
  <2> QED
    BY <1>6, <2>1, <2>6
<1>8. GlobalsOK(receiver') /\ receiver'.max_buffer_size = receiver.max_buffer_size
  <2>1. CASE r.port_count < 1
    <3>1. receiver' = [r EXCEPT !.shutdown_in_progress = TRUE]
      BY <1>1, <2>1, ArrivalCases
    <3> QED
      BY <1>5, <1>6, <3>1 DEF GlobalsOK, Globals
  <2>2. CASE ~(r.port_count < 1)
    <3>1. \/ receiver' \in {r, s} \/ receiver' = [s EXCEPT !.shutdown_in_progress = TRUE]
          \/ receiver' = [s EXCEPT !.message_number = 0, !.remote_sample_rate = NoRate]
      BY <1>1, <2>2, ArrivalCases
    <3> QED
      BY <1>5, <1>6, <1>7, <2>2, <3>1, Numbers DEF GlobalsOK, Globals
  <2> QED
    BY <2>1, <2>2
<1>9. osc' \in [at : {"idle", "enable", "write", "count"}, channel : Port, loaded : Nat]
  <2>1. osc' = osc \/ osc' = [IdleOsc EXCEPT !.at = "enable"]
    BY <1>1, ArrivalCases
  <2> QED
    BY <2>1, Numbers DEF IdleOsc, ReceiverOK
<1>10. PICK n : n = Capacity /\ Capacity' = n
  BY <1>8, SameCapacity
<1>11. LocalsOK(n)'
  BY <1>2, <1>9, <1>10, ReceiverParts DEF LocalsOK
<1> QED
  BY <1>3, <1>8, <1>10, <1>11 DEF ReceiverOK, GlobalsOK, LocalsOK

(* What leaves the ring buffer, the ports and the two threads alone. *)
LEMMA GlobalsMove ==
  ASSUME ReceiverOK, UNCHANGED <<rb, osc, cycle, ports>>, GlobalsOK(receiver'),
         receiver'.max_buffer_size = receiver.max_buffer_size
  PROVE  ReceiverOK'
<1>1. PICK n : n = Capacity /\ Capacity' = n
  BY SameCapacity
<1> QED
  BY <1>1, ReceiverParts DEF ReceiverOK, GlobalsOK, LocalsOK

(* What leaves the globals alone. *)
LEMMA LocalsMove ==
  ASSUME ReceiverOK, receiver' = receiver, NEW n, n = Capacity, LocalsOK(n)'
  PROVE  ReceiverOK'
BY ReceiverParts DEF ReceiverOK, GlobalsOK, LocalsOK, Capacity

(* The other steps of the OSC thread.                                      *)
LEMMA OscKeepsTypes ==
  ASSUME WireOK, ReceiverOK, receiver_osc
  PROVE  WireOK' /\ ReceiverOK'
<1> USE DEF IdleOsc
<1>1. CASE ReceiverIgnores
  <2>1. WireOK'
    BY <1>1, TakesKeepsWire DEF ReceiverIgnores
  <2> QED
    BY <1>1, <2>1, GlobalsMove, ReceiverParts DEF ReceiverIgnores, receive_vars
<1>2. CASE osc_offer_handler
  <2>1. PICK o : o = Head(to_receiver).rate
    OBVIOUS
  <2>2. /\ ReceiverTakes("/offer") /\ UNCHANGED <<rb, osc, cycle, ports>>
        /\ NoAnswer \/ \E a \in Answers : Answer(a)
    BY <1>2 DEF osc_offer_handler, Answers
  <2>3. WireOK' /\ Head(to_receiver) \in Messages
    BY <2>2, TakesKeepsWire
  <2>4. o \in SenderRates
    BY <2>1, <2>3 DEF Messages
  <2>5. \/ receiver' = [receiver EXCEPT !.remote_sample_rate = o, !.sender_host = TRUE]
        \/ receiver' = receiver
        \/ receiver' = [receiver EXCEPT !.shutdown_in_progress = TRUE]
    BY <1>2, <2>1 DEF osc_offer_handler
  <2>6. GlobalsOK(receiver') /\ receiver'.max_buffer_size = receiver.max_buffer_size
    <3>1. CASE receiver' = [receiver EXCEPT !.remote_sample_rate = o, !.sender_host = TRUE]
      BY <2>4, <3>1 DEF ReceiverOK, GlobalsOK, Globals
    <3>2. CASE receiver' = receiver
      BY <3>2 DEF ReceiverOK, GlobalsOK
    <3>3. CASE receiver' = [receiver EXCEPT !.shutdown_in_progress = TRUE]
      BY <3>3 DEF ReceiverOK, GlobalsOK, Globals
    <3> QED
      BY <2>5, <3>1, <3>2, <3>3
  <2> QED
    BY <2>2, <2>3, <2>6, GlobalsMove
<1>3. CASE AudioArrives
  BY <1>3, AudioKeepsTypes
<1>4. ASSUME UNCHANGED link_vars PROVE WireOK'
  BY <1>4 DEF WireOK, link_vars
<1>5. CASE AudioEnables
  <2>1. PICK e : e = (receiver.process_enabled \/ receiver.pre_buffer_counter >= receiver.pre_buffer_size)
    OBVIOUS
  <2>2. receiver' = [receiver EXCEPT !.process_enabled = e] /\ e \in BOOLEAN
    BY <1>5, <2>1 DEF AudioEnables
  <2>3. GlobalsOK(receiver') /\ receiver'.max_buffer_size = receiver.max_buffer_size
    BY <2>2 DEF ReceiverOK, GlobalsOK, Globals
  <2>4. osc' \in [at : {"idle", "enable", "write", "count"}, channel : Port, loaded : Nat]
    BY <1>5, Numbers DEF AudioEnables, ReceiverOK
  <2>5. PICK n : n = Capacity /\ Capacity' = n
    BY <2>3, SameCapacity
  <2> QED
    BY <1>4, <1>5, <2>3, <2>4, <2>5, ReceiverParts DEF AudioEnables, ReceiverOK, GlobalsOK, LocalsOK
<1>6. CASE AudioWrites
  <2>1. PICK n : n = Capacity
    OBVIOUS
  <2>2. rb' \in Seq(Port) /\ Len(rb') <= n
    <3>1. osc.channel \in Port /\ rb \in Seq(Port) /\ Len(rb) <= n
      BY <2>1 DEF ReceiverOK
    <3>2. (rb' = Append(rb, osc.channel) /\ Len(rb) < n) \/ rb' = rb
      BY <1>6, <2>1 DEF AudioWrites
    <3> HIDE DEF Port
    <3>3. n \in Int
      BY <2>1, CapacityIsNat
    <3> QED
      BY <3>1, <3>2, <3>3
  <2>3. osc' \in [at : {"idle", "enable", "write", "count"}, channel : Port, loaded : Nat]
    <3>1. CASE osc.channel + 1 < receiver.port_count
      <4>1. osc.channel + 1 \in Port
        <5>1. osc.channel \in Port /\ receiver.port_count \in 0 .. OutputPorts
          BY DEF ReceiverOK, Globals
        <5> QED
          BY <3>1, <5>1, ReceiveAssumption DEF Port
      <4>2. osc' = [osc EXCEPT !.channel = osc.channel + 1]
        BY <1>6, <3>1 DEF AudioWrites
      <4> QED
        BY <4>1, <4>2 DEF ReceiverOK
    <3>2. CASE ~(osc.channel + 1 < receiver.port_count)
      BY <1>6, <3>2, Numbers DEF AudioWrites, ReceiverOK, Globals
    <3> QED
      BY <3>1, <3>2
  <2>4. LocalsOK(n)'
    BY <1>6, <2>1, <2>2, <2>3, ReceiverParts DEF AudioWrites, LocalsOK
  <2> QED
    BY <1>4, <1>6, <2>1, <2>4, LocalsMove DEF AudioWrites
<1>7. CASE AudioCounts
  <2>1. PICK c : c = IF osc.loaded < receiver.pre_buffer_size THEN osc.loaded + 1 ELSE osc.loaded
    OBVIOUS
  <2>2. receiver' = [receiver EXCEPT !.pre_buffer_counter = c] /\ c \in Nat
    BY <1>7, <2>1 DEF AudioCounts, ReceiverOK
  <2>3. GlobalsOK(receiver') /\ receiver'.max_buffer_size = receiver.max_buffer_size
    BY <2>2 DEF ReceiverOK, GlobalsOK, Globals
  <2>4. osc' \in [at : {"idle", "enable", "write", "count"}, channel : Port, loaded : Nat]
    BY <1>7, Numbers DEF AudioCounts
  <2>5. PICK n : n = Capacity /\ Capacity' = n
    BY <2>3, SameCapacity
  <2> QED
    BY <1>4, <1>7, <2>3, <2>4, <2>5, ReceiverParts DEF AudioCounts, ReceiverOK, GlobalsOK, LocalsOK
<1> QED
  BY <1>1, <1>2, <1>3, <1>5, <1>6, <1>7 DEF receiver_osc

(* /buffer: whatever is asked for, the fill level is at least a period.    *)
LEMMA BufferKeepsTypes ==
  ASSUME WireOK, ReceiverOK, NEW pre_arg \in RequestedPre, NEW max_arg \in RequestedMax,
         osc_buffer_handler(pre_arg, max_arg)
  PROVE  WireOK' /\ ReceiverOK'
<1>0. PICK pre, max, kept, have, r :
        /\ pre = IF pre_arg < 1 THEN 1 ELSE pre_arg
        /\ max = IF max_arg < pre THEN pre ELSE max_arg
        /\ kept = IF max = receiver.max_buffer_size THEN rb ELSE <<>>
        /\ have = Len(kept) \div receiver.port_count
        /\ r = [receiver EXCEPT !.max_buffer_size = max]
  OBVIOUS
<1>1. /\ ReceiverListens /\ Fault
      /\ rb' = kept
      /\ receiver' = IF pre > have
                     THEN [r EXCEPT !.pre_buffer_size = pre - have,
                                    !.pre_buffer_counter = 0, !.process_enabled = FALSE]
                     ELSE [r EXCEPT !.requested_drop_count = r.requested_drop_count + have - pre]
      /\ UNCHANGED <<to_receiver, to_sender, osc, cycle, ports>>
  BY <1>0 DEF osc_buffer_handler
<1>2. WireOK'
  BY <1>1, LinkAssumption DEF WireOK, Fault
<1>3. pre \in Nat \ {0} /\ max \in Nat
  BY <1>0, ReceiveAssumption
<1>4. kept \in Seq(Port) /\ Len(kept) \in Nat /\ receiver.port_count \in Nat \ {0}
  BY <1>1, <1>0 DEF ReceiverOK, Globals, ReceiverListens
<1>5. have \in Nat
  BY <1>4, <1>0, Quotient
<1>6. r \in Globals /\ r.max_buffer_size = max /\ r.port_count = receiver.port_count
  BY <1>3, <1>0 DEF ReceiverOK, Globals
<1>7. GlobalsOK(receiver') /\ receiver'.max_buffer_size = max
  <2>1. CASE pre > have
    <3>1. pre - have \in Nat \ {0}
      BY <1>3, <1>5, <2>1
    <3>2. PICK n : n = pre - have
      OBVIOUS
    <3>3. receiver' = [r EXCEPT !.pre_buffer_size = n, !.pre_buffer_counter = 0,
                                !.process_enabled = FALSE]
      BY <1>1, <2>1, <3>2
    <3>4. receiver' \in Globals
      BY <1>6, <3>1, <3>2, <3>3 DEF Globals
    <3>5. receiver'.port_count = receiver.port_count /\ receiver'.max_buffer_size = max
      BY <1>6, <3>3 DEF Globals
    <3> QED
      BY <1>4, <3>4, <3>5 DEF GlobalsOK
  <2>2. CASE ~(pre > have)
    <3>1. r.requested_drop_count + have - pre \in Nat
      BY <1>3, <1>5, <1>6, <2>2 DEF Globals
    <3>2. PICK n : n = r.requested_drop_count + have - pre
      OBVIOUS
    <3>3. receiver' = [r EXCEPT !.requested_drop_count = n]
      BY <1>1, <2>2, <3>2
    <3>4. receiver' \in Globals
      BY <1>6, <3>1, <3>2, <3>3 DEF Globals
    <3>5. receiver'.port_count = receiver.port_count /\ receiver'.max_buffer_size = max
      BY <1>6, <3>3 DEF Globals
    <3> QED
      BY <1>4, <3>4, <3>5 DEF GlobalsOK
  <2> QED
    BY <2>1, <2>2
<1>8. Len(kept) <= Capacity'
  <2>1. CASE max = receiver.max_buffer_size
    BY <1>0, <1>7, <2>1, SameCapacity DEF ReceiverOK
  <2>2. CASE max # receiver.max_buffer_size
    <3>1. PICK q : q = max * OutputPorts /\ q \in Nat
      BY <1>3, Product, ReceiveAssumption
    <3>2. kept = <<>> /\ Capacity' = q
      BY <1>0, <1>7, <2>2, <3>1 DEF Capacity
    <3> QED
      BY <3>1, <3>2
  <2> QED
    BY <2>1, <2>2
<1> QED
  BY <1>1, <1>2, <1>4, <1>7, <1>8 DEF ReceiverOK, GlobalsOK

(* The callback's steps; the last of a cycle may drop what /buffer asked.   *)
LEMMA ProcessKeepsTypes ==
  ASSUME ReceiverOK, receiver_process
  PROVE  ReceiverOK'
<1> DEFINE C == [at : {"idle", "silence", "zero", "read"}, port : Nat]
           P == [Port -> Port \cup {Silence}]
<1>1. PICK n : n = Capacity
  OBVIOUS
<1>2. /\ IdleCycle \in C /\ cycle \in C /\ [cycle EXCEPT !.port = @ + 1] \in C
      /\ \A at \in {"silence", "zero", "read"} : [at |-> at, port |-> 0] \in C
  BY DEF ReceiverOK, IdleCycle
<1>3. /\ ports \in P /\ [p \in Port |-> Silence] \in P
      /\ \A v \in Port \cup {Silence} : [ports EXCEPT ![cycle.port] = v] \in P
  BY DEF ReceiverOK
<1> HIDE DEF C, P
<1>4. ASSUME receiver' = receiver, UNCHANGED <<rb, osc>>, cycle' \in C, ports' \in P
      PROVE  ReceiverOK'
  <2>1. LocalsOK(n)'
    BY <1>1, <1>4, ReceiverParts DEF LocalsOK, C, P
  <2> QED
    BY <1>1, <1>4, <2>1, LocalsMove
<1>5. CASE CycleSilent
  BY <1>2, <1>3, <1>4, <1>5 DEF CycleSilent
<1>6. CASE CycleNotEnabled
  BY <1>2, <1>3, <1>4, <1>6 DEF CycleNotEnabled
<1>7. CASE CycleLooksAgain
  BY <1>2, <1>3, <1>4, <1>7 DEF CycleLooksAgain
<1>8. CASE CycleUnderflows
  BY <1>2, <1>3, <1>4, <1>8 DEF CycleUnderflows
<1>9. CASE CycleZeroes
  BY <1>2, <1>3, <1>4, <1>9 DEF CycleZeroes
<1>10. CASE CycleBegins
  BY <1>2, <1>3, <1>4, <1>10 DEF CycleBegins
<1>11. CASE CycleRebuffers
  <2>1. \/ receiver' = [receiver EXCEPT !.pre_buffer_counter = 0, !.process_enabled = FALSE]
        \/ receiver' = receiver
    BY <1>11 DEF CycleRebuffers
  <2>2. GlobalsOK(receiver') /\ receiver'.max_buffer_size = receiver.max_buffer_size
    <3>1. CASE receiver' = receiver
      BY <3>1, ReceiverParts
    <3>2. CASE receiver' = [receiver EXCEPT !.pre_buffer_counter = 0, !.process_enabled = FALSE]
      <4>1. receiver' \in Globals
        BY <3>2 DEF ReceiverOK, Globals
      <4> QED
        BY <3>2, <4>1, ReceiverParts DEF GlobalsOK, Globals
    <3> QED
      BY <2>1, <3>1, <3>2
  <2>3. Capacity' = n
    BY <1>1, <2>2, SameCapacity
  <2>4. LocalsOK(n)'
    BY <1>1, <1>2, <1>3, <1>11, ReceiverParts DEF CycleRebuffers, LocalsOK, C, P
  <2> QED
    BY <2>2, <2>3, <2>4 DEF ReceiverOK, GlobalsOK, LocalsOK
<1>12. CASE CycleReads
  <2>1. CASE UNCHANGED <<rb, ports>>
    BY <1>2, <1>3, <1>4, <1>12, <2>1 DEF CycleReads
  <2>2. CASE rb # <<>> /\ rb' = Tail(rb) /\ ports' = [ports EXCEPT ![cycle.port] = Head(rb)]
    <3>1. rb \in Seq(Port) /\ Len(rb) <= n /\ n \in Int
      BY <1>1, CapacityIsNat DEF ReceiverOK
    <3>2. Head(rb) \in Port /\ rb' \in Seq(Port) /\ Len(rb') <= n
      <4>1. Head(rb) \in Port /\ Tail(rb) \in Seq(Port) /\ Len(Tail(rb)) = Len(rb) - 1
        BY <2>2, <3>1, TailOf
      <4> HIDE DEF Port
      <4> QED
        BY <2>2, <3>1, <4>1
    <3>3. LocalsOK(n)'
      BY <1>1, <1>2, <1>3, <1>12, <2>2, <3>2, ReceiverParts DEF CycleReads, LocalsOK, C, P
    <3> QED
      BY <1>1, <1>12, <3>3, LocalsMove DEF CycleReads
  <2> QED
    BY <1>12, <2>1, <2>2 DEF CycleReads
<1>13. CASE CycleEnds
  <2>1. PICK d, l : d = receiver.requested_drop_count * receiver.port_count /\ l = Len(rb)
    OBVIOUS
  <2>2. d \in Nat /\ l \in Nat /\ l <= n /\ n \in Int
    <3>1. d \in Nat
      <4>1. /\ receiver.requested_drop_count \in Nat /\ receiver.port_count \in 0 .. OutputPorts
            /\ OutputPorts \in Nat
        BY ReceiveAssumption DEF ReceiverOK, Globals
      <4>2. receiver.port_count \in Nat
        BY <4>1
      <4> QED
        BY <2>1, <4>1, <4>2, Product, Zenon
    <3> QED
      BY <1>1, <2>1, <3>1, CapacityIsNat DEF ReceiverOK
  <2>3. rb' = SubSeq(rb, d + 1, l)
    BY <1>13, <2>1 DEF CycleEnds
  <2>4. rb' \in Seq(Port) /\ Len(rb') <= n
    <3>1. d + 1 \in Int /\ l \in Int /\ \A i \in d + 1 .. l : rb[i] \in Port
      BY <2>1, <2>2, ElementOfSeq DEF ReceiverOK
    <3>2. rb' \in Seq(Port) /\ Len(rb') = IF d + 1 <= l THEN l - (d + 1) + 1 ELSE 0
      BY <2>3, <3>1, SubSeqProperties
    <3> QED
      BY <2>2, <3>2
  <2>5. GlobalsOK(receiver') /\ receiver'.max_buffer_size = receiver.max_buffer_size
    BY <1>13 DEF CycleEnds, ReceiverOK, GlobalsOK, Globals
  <2>6. Capacity' = n
    BY <1>1, <2>5, SameCapacity
  <2>7. LocalsOK(n)'
    BY <1>1, <1>2, <1>3, <1>13, <2>4, ReceiverParts DEF CycleEnds, LocalsOK, C, P
  <2> QED
    BY <2>5, <2>6, <2>7 DEF ReceiverOK, GlobalsOK, LocalsOK
<1> QED
  BY <1>5, <1>6, <1>7, <1>8, <1>9, <1>10, <1>11, <1>12, <1>13 DEF receiver_process

(* The receiver starts or ends. *)
LEMMA EndKeepsTypes ==
  ASSUME WireOK, ReceiverOK, ReceiverEnds, faults' \in 0 .. MaxFaults
  PROVE  WireOK' /\ ReceiverOK'
<1>1. to_sender' \in Seq(Answers) /\ Len(to_sender') <= MaxWire
  BY WireSent DEF ReceiverEnds, WireOK, Answers
<1>2. PICK r : r = [NewReceiver EXCEPT !.up = FALSE]
  OBVIOUS
<1> QED
  BY <1>1, <1>2, NewReceiverOK DEF ReceiverEnds, Fresh, WireOK

(* All steps of the receiver.                                              *)
LEMMA ReceiverKeepsTypes ==
  ASSUME WireOK, ReceiverOK, Receiver
  PROVE  WireOK' /\ ReceiverOK'
<1>1. CASE ReceiverStarts
  <2>1. PICK r : r = [NewReceiver EXCEPT !.up = TRUE]
    OBVIOUS
  <2> QED
    BY <1>1, <2>1, NewReceiverOK DEF ReceiverStarts, Fresh, WireOK, link_vars
<1>2. CASE receiver_osc
  BY <1>2, OscKeepsTypes
<1>3. ASSUME NEW pre \in RequestedPre, NEW max \in RequestedMax, osc_buffer_handler(pre, max)
      PROVE  WireOK' /\ ReceiverOK'
  BY <1>3, BufferKeepsTypes
<1>4. CASE receiver_process
  <2>1. UNCHANGED link_vars
    BY <1>4 DEF receiver_process, CycleSilent, CycleNotEnabled, CycleLooksAgain, CycleUnderflows,
                CycleZeroes, CycleRebuffers, CycleBegins, CycleReads, CycleEnds
  <2> QED
    BY <1>4, <2>1, ProcessKeepsTypes DEF WireOK, link_vars
<1>5. CASE ReceiverStops
  BY <1>5, EndKeepsTypes DEF ReceiverStops, WireOK
<1>6. CASE ReceiverIsClosed
  BY <1>6, EndKeepsTypes, LinkAssumption DEF ReceiverIsClosed, Fault, WireOK
<1> QED
  BY <1>1, <1>2, <1>3, <1>4, <1>5, <1>6 DEF Receiver

(* All of it keeps the types.                                              *)
LEMMA TInvNext == TInv /\ [Next]_vars => TInv'
<1> SUFFICES ASSUME TInv, [Next]_vars
             PROVE  TInv'
  OBVIOUS
<1>1. ASSUME UNCHANGED receive_vars PROVE ReceiverOK'
  BY <1>1 DEF TInv, ReceiverOK, Capacity, receive_vars
<1>2. ASSUME UNCHANGED sender PROVE SenderOK'
  BY <1>2 DEF TInv, SenderOK
<1>3. CASE Sender /\ UNCHANGED receive_vars
  BY <1>1, <1>3, SenderKeepsTypes DEF TInv
<1>4. CASE Receiver /\ UNCHANGED sender
  BY <1>2, <1>4, ReceiverKeepsTypes DEF TInv
<1>5. CASE Lose /\ UNCHANGED <<sender, receive_vars>>
  BY <1>1, <1>2, <1>5, LoseKeepsTypes DEF TInv
<1>6. CASE UNCHANGED vars
  BY <1>1, <1>2, <1>6 DEF TInv, WireOK, vars, link_vars
<1> QED
  BY <1>3, <1>4, <1>5, <1>6 DEF Next

(* Whatever is lost, killed, started or asked for, with any rates, sizes   *)
(* and options, the numbers and the ring buffer of both programs stay in   *)
(* their bounds (jack_audio_send.c, jack_audio_receive.c).                 *)
THEOREM TypeCorrect == Spec => []TypeOK
<1>1. TInv => TypeOK
  <2> SUFFICES ASSUME TInv
               PROVE  TypeOK
    OBVIOUS
  <2>1. \A i \in DOMAIN to_sender : to_sender[i] \in Answers
    BY ElementOfSeq DEF TInv, WireOK
  <2> QED
    BY <2>1 DEF TInv, WireOK, SenderOK, Senders, ReceiverOK, Globals, TypeOK
<1> QED
  BY <1>1, TInvInit, TInvNext, PTL DEF Spec

------------------------------------------------------------------------------
(* The channels.                                                           *)

(* How many of the sender's channels the receiver plays. *)
Played == IF sender.channels < OutputPorts THEN sender.channels ELSE OutputPorts

(* The channel after c, of n. *)
After(c, n) == IF c + 1 = n THEN 0 ELSE c + 1

(* The items of s, from the channel first on, each the channel after the   *)
(* one before it; next comes after the last.                               *)
InTurn(s, first, next, n) ==
  /\ s = <<>> => first = next
  /\ s # <<>> => s[1] = first /\ After(s[Len(s)], n) = next
  /\ \A i \in 1 .. Len(s) - 1 : s[i + 1] = After(s[i], n)

(* The channel that the callback reads next; the OSC thread's is           *)
(* osc.channel.                                                            *)
ReadsNext == IF cycle.at = "read" /\ cycle.port < Played THEN cycle.port ELSE 0

(* What is on its way is of the one sender, and so of its channels.        *)
OfSender ==
  \A i \in DOMAIN to_receiver :
    to_receiver[i].path = "/audio" => to_receiver[i].channels = sender.channels

(* Before the first message there is nothing to play.                      *)
NotBegun ==
  /\ rb = <<>> /\ osc.at = "idle" /\ cycle.at \in {"idle", "silence"}
  /\ receiver.pre_buffer_counter = 0 /\ ~receiver.process_enabled

(* A period that is begun is written and read to its end: there is room    *)
(* for its other channels, and they are there to be read.                  *)
Begun ==
  /\ receiver.port_count = Played
  /\ InTurn(rb, ReadsNext, osc.channel, Played)
  /\ osc.at = "write" => /\ osc.channel < Played
                         /\ Len(rb) + (Played - osc.channel) <= Capacity
  /\ cycle.at = "read" => /\ receiver.process_enabled
                          /\ cycle.port <= Played
                          /\ Len(rb) >= Played - cycle.port

(* A receiver that is about to end reads nothing any more. *)
Lined ==
  /\ ChannelsMatch
  /\ receiver.requested_drop_count = 0
  /\ osc.at # "write" => osc.channel = 0
  /\ ~receiver.shutdown_in_progress => NotBegun \/ Begun

ChannelInv == TInv /\ OfSender /\ Lined

(* A channel is added behind the last. *)
LEMMA TurnWritten ==
  ASSUME NEW S, NEW s \in Seq(S), NEW f, NEW b \in S, NEW n, InTurn(s, f, b, n)
  PROVE  InTurn(Append(s, b), f, After(b, n), n)
<1>1. PICK l, t : l = Len(s) /\ t = Append(s, b)
  OBVIOUS
<1>2. /\ l \in Nat /\ Len(t) = l + 1 /\ t # <<>> /\ t[l + 1] = b
      /\ \A i \in 1 .. l : t[i] = s[i]
  BY <1>1
<1>3. t[1] = f
  <2>1. CASE l = 0
    BY <1>1, <1>2, <2>1 DEF InTurn
  <2>2. CASE l # 0
    BY <1>1, <1>2, <2>2 DEF InTurn
  <2> QED
    BY <2>1, <2>2
<1>4. ASSUME NEW i \in 1 .. l
      PROVE  t[i + 1] = After(t[i], n)
  <2>1. CASE i = l
    <3>1. t[i + 1] = b /\ t[i] = s[l] /\ s # <<>>
      BY <1>1, <1>2, <2>1
    <3>2. After(s[l], n) = b
      BY <1>1, <3>1 DEF InTurn
    <3> QED
      BY <3>1, <3>2
  <2>2. CASE i # l
    <3>1. i \in 1 .. l - 1 /\ i + 1 \in 1 .. l
      BY <1>2, <2>2
    <3>2. s[i + 1] = After(s[i], n)
      BY <1>1, <3>1 DEF InTurn
    <3> QED
      BY <1>2, <3>1, <3>2
  <2> QED
    BY <2>1, <2>2
<1>5. Len(t) - 1 = l
  BY <1>2
<1> QED
  BY <1>1, <1>2, <1>3, <1>4, <1>5 DEF InTurn

(* A channel is taken from the front. *)
LEMMA TurnRead ==
  ASSUME NEW S, NEW s \in Seq(S), NEW f, NEW b, NEW n, InTurn(s, f, b, n), s # <<>>
  PROVE  Head(s) = f /\ InTurn(Tail(s), After(f, n), b, n)
<1>1. PICK l, t : l = Len(s) /\ t = Tail(s)
  OBVIOUS
<1>2. /\ l \in Nat \ {0} /\ t \in Seq(S) /\ Len(t) = l - 1 /\ Head(s) = s[1]
      /\ \A i \in 1 .. l - 1 : t[i] = s[i + 1]
  BY <1>1, TailOf
<1>3. s[1] = f /\ After(s[l], n) = b /\ \A i \in 1 .. l - 1 : s[i + 1] = After(s[i], n)
  BY <1>1 DEF InTurn
<1>4. t = <<>> => After(f, n) = b
  <2>1. t = <<>> => l = 1
    BY <1>2
  <2> QED
    BY <1>3, <2>1
<1>5. t # <<>> => t[1] = After(f, n) /\ After(t[l - 1], n) = b
  <2>1. t # <<>> => 1 \in 1 .. l - 1 /\ l - 1 \in 1 .. l - 1 /\ (l - 1) + 1 = l
    BY <1>2
  <2> QED
    BY <1>2, <1>3, <2>1
<1>6. ASSUME NEW i \in 1 .. l - 1 - 1
      PROVE  t[i + 1] = After(t[i], n)
  <2>1. i \in 1 .. l - 1 /\ i + 1 \in 1 .. l - 1
    BY <1>2
  <2> QED
    BY <1>2, <1>3, <2>1
<1>7. InTurn(t, After(f, n), b, n)
  BY <1>2, <1>4, <1>5, <1>6 DEF InTurn
<1> QED
  BY <1>1, <1>2, <1>3, <1>7

(* What a message says of the channels. *)
LEMMA WireOfSender ==
  ASSUME WireOK, OfSender, sender'.channels = sender.channels,
         \/ to_receiver' = to_receiver
         \/ to_receiver # <<>> /\ to_receiver' = Tail(to_receiver)
         \/ \E i \in DOMAIN to_receiver : to_receiver' = Without(to_receiver, i)
         \/ \E m : /\ to_receiver' = Sent(to_receiver, m)
                   /\ m.path = "/audio" => m.channels = sender.channels
  PROVE  OfSender'
<1>1. PICK w, c : w = to_receiver /\ c = sender.channels /\ w \in Seq(Messages)
  BY DEF WireOK
<1>2. \A i \in DOMAIN w : w[i].path = "/audio" => w[i].channels = c
  BY <1>1 DEF OfSender
<1>3. CASE to_receiver' = to_receiver
  BY <1>1, <1>2, <1>3 DEF OfSender
<1>4. CASE to_receiver # <<>> /\ to_receiver' = Tail(to_receiver)
  <2>1. PICK t : t = Tail(w)
    OBVIOUS
  <2>2. t \in Seq(Messages) /\ Len(t) = Len(w) - 1 /\ \A j \in 1 .. Len(w) - 1 : t[j] = w[j + 1]
    BY <1>1, <1>4, <2>1, TailOf
  <2>3. \A j \in DOMAIN t : j + 1 \in DOMAIN w /\ t[j] = w[j + 1]
    BY <1>1, <2>2
  <2> QED
    BY <1>1, <1>2, <1>4, <2>1, <2>3 DEF OfSender
<1>5. ASSUME NEW i \in DOMAIN to_receiver, to_receiver' = Without(to_receiver, i)
      PROVE  OfSender'
  <2>1. PICK t : t = Without(w, i)
    OBVIOUS
  <2>2. \A j \in DOMAIN t : \E k \in DOMAIN w : t[j] = w[k]
    BY <1>1, <2>1, WireLoses
  <2> QED
    BY <1>1, <1>2, <1>5, <2>1, <2>2 DEF OfSender
<1>6. ASSUME NEW m, to_receiver' = Sent(to_receiver, m), m.path = "/audio" => m.channels = sender.channels
      PROVE  OfSender'
  <2>1. CASE to_receiver' = to_receiver
    BY <1>3, <2>1
  <2>2. CASE to_receiver' = Append(to_receiver, m)
    <3>1. PICK t : t = Append(w, m)
      OBVIOUS
    <3>2. \A j \in DOMAIN t : t[j] = m \/ (j \in DOMAIN w /\ t[j] = w[j])
      BY <1>1, <3>1
    <3> QED
      BY <1>1, <1>2, <1>6, <2>2, <3>1, <3>2 DEF OfSender
  <2> QED
    BY <1>6, <2>1, <2>2 DEF Sent
<1> QED
  BY <1>3, <1>4, <1>5, <1>6

(* Every step of the sender, the receiver and the link.                    *)
LEMMA OfSenderNext == TInv /\ OfSender /\ [Next]_vars => OfSender'
<1> SUFFICES ASSUME TInv, OfSender, [Next]_vars
             PROVE  OfSender'
  OBVIOUS
<1>1. CASE Sender
  <2>1. sender'.channels = sender.channels
    BY <1>1, SenderKeepsTypes DEF TInv
  <2>2. \/ to_receiver' = to_receiver
        \/ to_receiver' = Sent(to_receiver, Offer(sender.rate))
        \/ to_receiver' = Sent(to_receiver,
             Audio(sender.msg_sequence_number, sender.rate, sender.channels))
    BY <1>1 DEF Sender, SenderStarts, sender_process, SenderOffers, SenderSendsAudio,
                SenderLoadsNumber, SenderStoresNumber, sender_osc, osc_accept_handler,
                osc_deny_handler, osc_pause_handler, SenderTakes, SenderResetsNumber,
                SenderStops, SenderIsKilled, link_vars
  <2>3. /\ Offer(sender.rate).path # "/audio"
        /\ Audio(sender.msg_sequence_number, sender.rate, sender.channels).channels = sender.channels
    BY DEF Offer, Audio
  <2> QED
    BY <2>1, <2>2, <2>3, WireOfSender DEF TInv
<1>2. CASE Receiver /\ UNCHANGED sender
  <2>1. to_receiver' = to_receiver \/ (to_receiver # <<>> /\ to_receiver' = Tail(to_receiver))
    BY <1>2 DEF Receiver, ReceiverStarts, receiver_osc, ReceiverIgnores, osc_offer_handler,
                AudioArrives, ReceiverTakes, AudioEnables, AudioWrites, AudioCounts,
                osc_buffer_handler, receiver_process, CycleSilent, CycleNotEnabled,
                CycleLooksAgain, CycleUnderflows, CycleZeroes, CycleRebuffers, CycleBegins,
                CycleReads, CycleEnds, ReceiverStops, ReceiverIsClosed, ReceiverEnds, link_vars
  <2> QED
    BY <1>2, <2>1, WireOfSender DEF TInv
<1>3. CASE Lose /\ UNCHANGED <<sender, receive_vars>>
  <2>1. to_receiver' = to_receiver \/ \E i \in DOMAIN to_receiver : to_receiver' = Without(to_receiver, i)
    BY <1>3 DEF Lose
  <2> QED
    BY <1>3, <2>1, WireOfSender DEF TInv
<1>4. CASE UNCHANGED vars
  BY <1>4, WireOfSender DEF TInv, vars, link_vars
<1> QED
  BY <1>1, <1>2, <1>3, <1>4 DEF Next

------------------------------------------------------------------------------
(* Playing once begun goes on until the receiver ends, but for an          *)
(* underflow: without --rere and /buffer messages nothing else takes it    *)
(* back to buffering.                                                      *)
PlaysOn == ~RebufferOnRestart /\ (RequestedPre = {} \/ RequestedMax = {})

(* Both programs begin in line, and so does one that starts again.         *)
LEMMA FreshIsLined ==
  /\ ReceiverInit => Lined
  /\ \A up \in BOOLEAN : Fresh(up) => Lined'
BY DEF ReceiverInit, Fresh, NewReceiver, IdleOsc, IdleCycle, Lined, NotBegun, ChannelsMatch

(* A step that has nothing to do with the channels. *)
LEMMA LinedAside ==
  ASSUME Lined, UNCHANGED <<rb, osc, cycle, ports>>, sender'.channels = sender.channels,
         receiver'.port_count = receiver.port_count,
         receiver'.max_buffer_size = receiver.max_buffer_size,
         receiver'.process_enabled = receiver.process_enabled,
         receiver'.pre_buffer_counter = receiver.pre_buffer_counter,
         receiver'.requested_drop_count = receiver.requested_drop_count,
         receiver.shutdown_in_progress => receiver'.shutdown_in_progress
  PROVE  Lined'
<1>1. Played' = Played /\ Capacity' = Capacity
  BY DEF Played, Capacity
<1>2. ReadsNext' = ReadsNext
  BY <1>1 DEF ReadsNext
<1>3. NotBegun => NotBegun'
  BY DEF NotBegun
<1>4. Begun => Begun'
  BY <1>1, <1>2 DEF Begun
<1> QED
  BY <1>3, <1>4 DEF Lined, ChannelsMatch

(* An /audio message arrives: its channels are those of all the others.    *)
LEMMA AudioKeepsLine ==
  ASSUME PlaysOn, TInv, OfSender, Lined, AudioArrives, UNCHANGED sender
  PROVE  Lined'
<1>1. PICK m, r, s : m = Head(to_receiver) /\ r = Numbered(m) /\ s = SenderRestarted(r, m)
  OBVIOUS
<1>2. ReceiverTakes("/audio") /\ ReceiverListens /\ UNCHANGED <<rb, cycle, ports>>
  BY DEF AudioArrives
<1>3. m.channels = sender.channels
  <2>1. to_receiver \in Seq(Messages) /\ to_receiver # <<>> /\ m.path = "/audio"
    BY <1>1, <1>2 DEF ReceiverTakes, TInv, WireOK
  <2>2. m = to_receiver[1] /\ 1 \in DOMAIN to_receiver
    BY <1>1, <2>1
  <2> QED
    BY <2>1, <2>2 DEF OfSender
<1>4. /\ r.port_count = Played /\ r.process_enabled = receiver.process_enabled
      /\ r.pre_buffer_counter = receiver.pre_buffer_counter
      /\ r.max_buffer_size = receiver.max_buffer_size
      /\ r.requested_drop_count = 0 /\ r.shutdown_in_progress = receiver.shutdown_in_progress
  BY <1>1, <1>3 DEF Numbered, Played, TInv, ReceiverOK, Globals, Lined
<1>5. /\ s.port_count = Played /\ s.process_enabled = receiver.process_enabled
      /\ s.pre_buffer_counter = 0 /\ s.max_buffer_size = receiver.max_buffer_size
      /\ s.requested_drop_count = 0
  <2>1. r.process_enabled \in BOOLEAN
    BY <1>4 DEF TInv, ReceiverOK, Globals
  <2> QED
    BY <1>1, <1>4, <2>1 DEF SenderRestarted, PlaysOn, Numbered, TInv, ReceiverOK, Globals
<1>6. Played' = Played /\ ReadsNext' = ReadsNext
  BY <1>2 DEF Played, ReadsNext
<1>7. osc.at = "idle" /\ osc.channel = 0 /\ ~receiver.shutdown_in_progress
  BY <1>2 DEF ReceiverTakes, ReceiverListens, Lined
<1>8. ChannelsMatch' /\ receiver'.requested_drop_count = 0 /\ osc'.channel = 0 /\ osc'.at # "write"
  <2>1. ChannelsMatch'
    BY <1>2 DEF Lined, ChannelsMatch
  <2>2. osc' = osc \/ osc' = [IdleOsc EXCEPT !.at = "enable"]
    BY <1>1, ArrivalCases
  <2>3. receiver'.requested_drop_count = 0
    <3>1. /\ [r EXCEPT !.shutdown_in_progress = TRUE].requested_drop_count = 0
          /\ [s EXCEPT !.shutdown_in_progress = TRUE].requested_drop_count = 0
          /\ [s EXCEPT !.message_number = 0, !.remote_sample_rate = NoRate].requested_drop_count = 0
      BY <1>1, <1>4, <1>5 DEF Numbered, SenderRestarted, TInv, ReceiverOK, Globals
    <3>2. receiver' \in {r, s, [r EXCEPT !.shutdown_in_progress = TRUE],
                         [s EXCEPT !.shutdown_in_progress = TRUE],
                         [s EXCEPT !.message_number = 0, !.remote_sample_rate = NoRate]}
      BY <1>1, ArrivalCases
    <3> QED
      BY <1>4, <1>5, <3>1, <3>2
  <2> QED
    BY <1>7, <2>1, <2>2, <2>3 DEF IdleOsc
<1>9. ASSUME ~receiver'.shutdown_in_progress
      PROVE  Begun'
  <2>1. /\ receiver'.port_count = Played
        /\ receiver'.process_enabled = receiver.process_enabled
    <3>1. receiver' # [r EXCEPT !.shutdown_in_progress = TRUE]
      BY <1>1, <1>9 DEF Numbered, TInv, ReceiverOK, Globals
    <3>2. receiver' # [s EXCEPT !.shutdown_in_progress = TRUE]
      BY <1>1, <1>9 DEF SenderRestarted, Numbered, TInv, ReceiverOK, Globals
    <3>3. \/ receiver' \in {r, s}
          \/ receiver' = [s EXCEPT !.message_number = 0, !.remote_sample_rate = NoRate]
      BY <1>1, <3>1, <3>2, ArrivalCases
    <3>4. /\ [s EXCEPT !.message_number = 0, !.remote_sample_rate = NoRate].port_count
             = s.port_count
          /\ [s EXCEPT !.message_number = 0, !.remote_sample_rate = NoRate].process_enabled
             = s.process_enabled
      BY <1>1 DEF SenderRestarted, Numbered, TInv, ReceiverOK, Globals
    <3>5. r.port_count = Played /\ r.process_enabled = receiver.process_enabled
      BY <1>4
    <3> QED
      BY <1>5, <3>3, <3>4, <3>5
  <2>2. InTurn(rb, ReadsNext, 0, Played)
    <3>1. CASE NotBegun
      BY <3>1 DEF NotBegun, InTurn, ReadsNext, TInv, ReceiverOK
    <3>2. CASE Begun
      BY <1>7, <3>2 DEF Begun
    <3> QED
      BY <1>7, <3>1, <3>2 DEF Lined
  <2>3. cycle.at = "read" => /\ receiver.process_enabled /\ cycle.port <= Played
                             /\ Len(rb) >= Played - cycle.port
    BY <1>7 DEF Lined, NotBegun, Begun
  <2> QED
    BY <1>2, <1>6, <1>8, <2>1, <2>2, <2>3 DEF Begun
<1> QED
  BY <1>8, <1>9 DEF Lined

(* The other steps of the OSC thread: a period is written, channel by      *)
(* channel.                                                                *)
LEMMA OscKeepsLine ==
  ASSUME PlaysOn, TInv, OfSender, Lined, receiver_osc, UNCHANGED sender
  PROVE  Lined'
<1>1. CASE ReceiverIgnores
  BY <1>1, LinedAside DEF ReceiverIgnores, receive_vars
<1>2. CASE osc_offer_handler
  <2>1. PICK o : o = Head(to_receiver).rate
    OBVIOUS
  <2>2. \/ receiver' = [receiver EXCEPT !.remote_sample_rate = o, !.sender_host = TRUE]
        \/ receiver' = receiver
        \/ receiver' = [receiver EXCEPT !.shutdown_in_progress = TRUE]
    BY <1>2, <2>1 DEF osc_offer_handler
  <2>3. UNCHANGED <<rb, osc, cycle, ports>>
    BY <1>2 DEF osc_offer_handler
  <2>4. /\ receiver'.port_count = receiver.port_count
        /\ receiver'.max_buffer_size = receiver.max_buffer_size
        /\ receiver'.process_enabled = receiver.process_enabled
        /\ receiver'.pre_buffer_counter = receiver.pre_buffer_counter
        /\ receiver'.requested_drop_count = receiver.requested_drop_count
        /\ receiver.shutdown_in_progress => receiver'.shutdown_in_progress
    BY <2>2 DEF TInv, ReceiverOK, Globals
  <2> QED
    BY <2>3, <2>4, LinedAside
<1>3. CASE AudioArrives
  BY <1>3, AudioKeepsLine
<1>4. CASE AudioEnables
  <2>1. PICK e : e = (receiver.process_enabled \/ receiver.pre_buffer_counter >= receiver.pre_buffer_size)
    OBVIOUS
  <2>2. receiver' = [receiver EXCEPT !.process_enabled = e] /\ (receiver.process_enabled => e)
    BY <1>4, <2>1 DEF AudioEnables
  <2>3. /\ receiver'.port_count = receiver.port_count
        /\ receiver'.max_buffer_size = receiver.max_buffer_size
        /\ receiver.process_enabled => receiver'.process_enabled
        /\ receiver'.requested_drop_count = 0
        /\ receiver'.shutdown_in_progress = receiver.shutdown_in_progress
    BY <2>2 DEF TInv, ReceiverOK, Globals, Lined
  <2>4. PICK c, n, l : c = Capacity /\ n = Played /\ l = Len(rb)
    OBVIOUS
  <2>5. c \in Nat /\ n \in Nat /\ l \in Nat
    <3>1. sender.channels \in Nat /\ OutputPorts \in Nat
      BY SendAssumption, ReceiveAssumption DEF TInv, SenderOK, Senders
    <3> QED
      BY <2>4, <3>1, CapacityIsNat DEF Played, TInv, ReceiverOK
  <2>6. Capacity' = c /\ Played' = n /\ ReadsNext' = ReadsNext
    BY <1>4, <2>3, <2>4 DEF AudioEnables, Capacity, Played, ReadsNext
  <2>7. osc.channel = 0 /\ (osc' = IdleOsc \/ (osc' = [osc EXCEPT !.at = "write"] /\ ~(c - l < receiver.port_count)))
    BY <1>4, <2>4 DEF AudioEnables, Lined
  <2>8. osc'.channel = 0 /\ (osc'.at = "write" => ~(c - l < receiver.port_count))
    BY <2>7 DEF IdleOsc, TInv, ReceiverOK
  <2>9. ASSUME Begun, ~receiver.shutdown_in_progress
        PROVE  Begun'
    <3>1. ASSUME osc'.at = "write"
          PROVE  0 < n /\ l + (n - 0) <= c
      <4>1. receiver.port_count = n /\ ~(c - l < n) /\ n >= 1
        BY <2>4, <2>8, <2>9, <3>1 DEF Begun, TInv, ReceiverOK
      <4> QED
        BY <2>5, <4>1
    <3> QED
      BY <1>4, <2>3, <2>4, <2>6, <2>7, <2>8, <2>9, <3>1 DEF AudioEnables, Begun
  <2>10. ~NotBegun
    BY <1>4 DEF AudioEnables, NotBegun
  <2> QED
    BY <1>4, <2>3, <2>8, <2>9, <2>10 DEF AudioEnables, Lined, ChannelsMatch
<1>5. CASE AudioWrites
  <2>1. PICK b, n, f, l : b = osc.channel /\ n = Played /\ f = ReadsNext /\ l = Len(rb)
    OBVIOUS
  <2>2. Played' = n /\ ReadsNext' = f /\ Capacity' = Capacity
    BY <1>5, <2>1 DEF AudioWrites, Played, ReadsNext, Capacity
  <2>3. b \in Nat /\ b \in Port /\ rb \in Seq(Port) /\ l \in Nat /\ n \in Nat /\ Capacity \in Nat
    <3>1. sender.channels \in Nat /\ OutputPorts \in Nat
      BY SendAssumption, ReceiveAssumption DEF TInv, SenderOK, Senders
    <3> QED
      BY <2>1, <3>1, CapacityIsNat DEF Port, Played, TInv, ReceiverOK
  <2>4. ~NotBegun
    BY <1>5 DEF AudioWrites, NotBegun
  <2>5. CASE receiver.shutdown_in_progress
    BY <1>5, <2>5 DEF AudioWrites, IdleOsc, Lined, ChannelsMatch, TInv, ReceiverOK
  <2>6. CASE ~receiver.shutdown_in_progress
    <3>1. Begun
      BY <2>4, <2>6 DEF Lined
    <3>2. receiver.port_count = n /\ InTurn(rb, f, b, n) /\ b < n /\ l + (n - b) <= Capacity
      BY <1>5, <2>1, <3>1 DEF AudioWrites, Begun
    <3>3. l < Capacity
      BY <2>3, <3>2
    <3>4. rb' = Append(rb, b)
      BY <1>5, <2>1, <3>3 DEF AudioWrites
    <3>5. InTurn(rb', f, After(b, n), n) /\ Len(rb') = l + 1
      BY <2>1, <2>3, <3>2, <3>4, TurnWritten
    <3>6. /\ osc'.channel = After(b, n)
          /\ osc'.at = "write" => b + 1 < n
      <4>1. CASE b + 1 < n
        <5>1. osc' = [osc EXCEPT !.channel = b + 1]
          BY <1>5, <2>1, <3>2, <4>1 DEF AudioWrites
        <5>2. After(b, n) = b + 1
          BY <2>3, <4>1 DEF After
        <5> QED
          BY <4>1, <5>1, <5>2 DEF TInv, ReceiverOK
      <4>2. CASE ~(b + 1 < n)
        <5>1. osc' = [IdleOsc EXCEPT !.at = "count", !.loaded = receiver.pre_buffer_counter]
          BY <1>5, <2>1, <3>2, <4>2 DEF AudioWrites
        <5>2. After(b, n) = 0
          BY <2>3, <3>2, <4>2 DEF After
        <5> QED
          BY <5>1, <5>2 DEF IdleOsc
      <4> QED
        BY <4>1, <4>2
    <3>7. osc'.at = "write" => osc'.channel < n /\ Len(rb') + (n - osc'.channel) <= Capacity
      <4>1. osc'.at = "write" => osc'.channel = b + 1 /\ b + 1 < n
        BY <2>3, <3>6 DEF After
      <4> QED
        BY <2>3, <3>2, <3>5, <4>1
    <3>8. cycle'.at = "read" => /\ receiver'.process_enabled /\ cycle'.port <= n
                                /\ Len(rb') >= n - cycle'.port
      <4>1. UNCHANGED <<receiver, cycle>> /\ (cycle.at = "read" => cycle.port \in Nat)
        BY <1>5 DEF AudioWrites, TInv, ReceiverOK
      <4>2. cycle.at = "read" => /\ receiver.process_enabled /\ cycle.port <= n
                                 /\ l >= n - cycle.port
        BY <2>1, <3>1 DEF Begun
      <4> QED
        BY <2>3, <3>5, <4>1, <4>2
    <3>9. Begun'
      BY <1>5, <2>2, <3>2, <3>5, <3>6, <3>7, <3>8 DEF AudioWrites, Begun
    <3>10. osc'.at # "write" => osc'.channel = 0
      BY <1>5 DEF AudioWrites, IdleOsc, TInv, ReceiverOK
    <3> QED
      BY <1>5, <3>9, <3>10 DEF AudioWrites, Lined, ChannelsMatch
  <2> QED
    BY <2>5, <2>6
<1>6. CASE AudioCounts
  <2>1. PICK c : receiver' = [receiver EXCEPT !.pre_buffer_counter = c]
    BY <1>6 DEF AudioCounts
  <2>2. /\ receiver'.port_count = receiver.port_count
        /\ receiver'.max_buffer_size = receiver.max_buffer_size
        /\ receiver'.process_enabled = receiver.process_enabled
        /\ receiver'.requested_drop_count = 0
        /\ receiver'.shutdown_in_progress = receiver.shutdown_in_progress
    BY <2>1 DEF TInv, ReceiverOK, Globals, Lined
  <2>3. Played' = Played /\ ReadsNext' = ReadsNext /\ Capacity' = Capacity
    BY <1>6, <2>2 DEF AudioCounts, Played, ReadsNext, Capacity
  <2>4. osc'.at = "idle" /\ osc'.channel = 0 /\ osc.channel = 0 /\ ~NotBegun
    BY <1>6 DEF AudioCounts, IdleOsc, Lined, NotBegun
  <2>5. Begun => Begun'
    BY <1>6, <2>2, <2>3, <2>4 DEF AudioCounts, Begun
  <2> QED
    BY <1>6, <2>2, <2>4, <2>5 DEF AudioCounts, Lined, ChannelsMatch
<1> QED
  BY <1>1, <1>2, <1>3, <1>4, <1>5, <1>6 DEF receiver_osc

(* The callback: it silences a port, or what it reads for one is that      *)
(* port's channel.                                                         *)
LEMMA ProcessKeepsLine ==
  ASSUME TInv, Lined, receiver_process, UNCHANGED sender
  PROVE  Lined'
<1>1. PICK n, l, p : n = Played /\ l = Len(rb) /\ p = cycle.port
  OBVIOUS
<1>2. /\ n \in Nat /\ l \in Nat /\ p \in Nat /\ rb \in Seq(Port) /\ Port \subseteq Nat
      /\ Played' = n
  <2>1. sender.channels \in Nat /\ OutputPorts \in Nat
    BY SendAssumption, ReceiveAssumption DEF TInv, SenderOK, Senders
  <2> QED
    BY <1>1, <2>1 DEF Port, Played, TInv, ReceiverOK
<1>3. ASSUME UNCHANGED <<receiver, rb, osc>>, ChannelsMatch',
             cycle'.at \in {"silence", "zero"} \/ cycle'.at = "idle",
             cycle'.at # "zero" \/ ~NotBegun,
             ~receiver.shutdown_in_progress /\ Begun => ReadsNext = 0
      PROVE  Lined'
  <2>1. Capacity' = Capacity /\ ReadsNext' = 0
    BY <1>3 DEF Capacity, ReadsNext
  <2>2. Begun /\ ReadsNext = 0 => Begun'
    BY <1>1, <1>2, <1>3, <2>1 DEF Begun
  <2>3. ~NotBegun => cycle'.at \in {"idle", "silence", "zero"}
    BY <1>3
  <2>4. NotBegun => NotBegun'
    BY <1>3 DEF NotBegun
  <2> QED
    BY <1>3, <2>2, <2>4 DEF Lined
<1>4. cycle.at # "read" => ReadsNext = 0
  BY DEF ReadsNext
<1>5. ChannelsMatch /\ ports \in [Port -> Port \cup {Silence}]
  BY DEF Lined, TInv, ReceiverOK
<1>6. CASE CycleSilent
  <2>1. ChannelsMatch'
    BY <1>6 DEF CycleSilent, ChannelsMatch
  <2> QED
    BY <1>3, <1>4, <1>6, <2>1 DEF CycleSilent, InCycle
<1>7. CASE CycleNotEnabled
  BY <1>3, <1>4, <1>5, <1>7 DEF CycleNotEnabled, InCycle, ChannelsMatch
<1>8. ASSUME ports' = [ports EXCEPT ![cycle.port] = Silence]
      PROVE  ChannelsMatch'
  BY <1>5, <1>8 DEF ChannelsMatch
<1>9. ASSUME ports' = ports PROVE ChannelsMatch'
  BY <1>5, <1>9 DEF ChannelsMatch
<1>10. CASE CycleLooksAgain
  <2>1. ChannelsMatch' /\ cycle'.at \in {"silence", "idle"} /\ cycle.at # "read"
    BY <1>8, <1>9, <1>10 DEF CycleLooksAgain, InCycle, IdleCycle, TInv, ReceiverOK
  <2> QED
    BY <1>3, <1>4, <1>10, <2>1 DEF CycleLooksAgain
<1>11. CASE CycleUnderflows
  BY <1>3, <1>4, <1>9, <1>11 DEF CycleUnderflows, InCycle, UnlessStopped, NotBegun
<1>12. CASE CycleZeroes
  <2>1. ChannelsMatch' /\ cycle'.at \in {"zero", "idle"} /\ cycle.at = "zero"
    BY <1>8, <1>9, <1>12 DEF CycleZeroes, InCycle, IdleCycle, TInv, ReceiverOK
  <2> QED
    BY <1>3, <1>4, <1>12, <2>1 DEF CycleZeroes, NotBegun
<1>13. CASE CycleRebuffers
  <2>1. \/ receiver' = [receiver EXCEPT !.pre_buffer_counter = 0, !.process_enabled = FALSE]
        \/ receiver' = receiver
    BY <1>13 DEF CycleRebuffers
  <2>2. /\ receiver'.port_count = receiver.port_count
        /\ receiver'.max_buffer_size = receiver.max_buffer_size
        /\ receiver'.requested_drop_count = 0
        /\ receiver'.shutdown_in_progress = receiver.shutdown_in_progress
    BY <2>1 DEF TInv, ReceiverOK, Globals, Lined
  <2>3. cycle'.at = "idle" /\ cycle.at = "zero" /\ ~NotBegun
    BY <1>13 DEF CycleRebuffers, InCycle, IdleCycle, NotBegun
  <2>4. Capacity' = Capacity /\ ReadsNext = 0 /\ ReadsNext' = 0
    BY <2>2, <2>3 DEF Capacity, ReadsNext
  <2>5. Begun => Begun'
    BY <1>1, <1>2, <1>13, <2>2, <2>3, <2>4 DEF CycleRebuffers, Begun
  <2> QED
    BY <1>9, <1>13, <2>2, <2>3, <2>5 DEF CycleRebuffers, Lined
<1>14. CASE CycleBegins
  <2>1. /\ cycle.at = "idle" /\ cycle'.at = "read" /\ cycle'.port = 0
        /\ receiver.process_enabled /\ ~receiver.shutdown_in_progress
        /\ l >= receiver.port_count /\ UNCHANGED <<receiver, rb, osc, ports>>
    BY <1>1, <1>14 DEF CycleBegins, InCycle, UnlessStopped
  <2>2. Begun
    BY <2>1 DEF Lined, NotBegun
  <2>3. ReadsNext = 0 /\ ReadsNext' = 0 /\ Capacity' = Capacity
    BY <1>2, <2>1 DEF ReadsNext, Capacity
  <2>4. 0 <= n /\ l >= n - 0
    BY <1>1, <1>2, <2>1, <2>2 DEF Begun
  <2>5. Begun'
    BY <1>1, <1>2, <2>1, <2>2, <2>3, <2>4 DEF Begun
  <2> QED
    BY <1>9, <2>1, <2>5 DEF Lined
<1>15. CASE CycleReads
  <2>1. cycle.at = "read" /\ p < receiver.port_count /\ UNCHANGED <<receiver, osc>>
    BY <1>1, <1>15 DEF CycleReads, InCycle
  <2>2. ~NotBegun
    BY <2>1 DEF NotBegun
  <2>3. CASE receiver.shutdown_in_progress
    <3>1. UNCHANGED <<rb, ports>>
      BY <1>15, <2>3 DEF CycleReads, UnlessStopped
    <3> QED
      BY <1>9, <2>1, <2>3, <3>1 DEF Lined
  <2>4. CASE ~receiver.shutdown_in_progress
    <3>1. Begun
      BY <2>2, <2>4 DEF Lined
    <3>2. /\ receiver.port_count = n /\ receiver.process_enabled /\ p < n /\ l >= n - p
          /\ ReadsNext = p /\ InTurn(rb, p, osc.channel, n)
      BY <1>1, <2>1, <3>1 DEF Begun, ReadsNext
    <3>3. l # 0 /\ rb # <<>>
      <4>1. l # 0
        BY <1>2, <3>2
      <4> QED
        BY <1>1, <4>1
    <3>4. /\ cycle' = [cycle EXCEPT !.port = p + 1] /\ rb' = Tail(rb)
          /\ ports' = [ports EXCEPT ![p] = Head(rb)]
      BY <1>1, <1>15, <2>4, <3>2, <3>3 DEF CycleReads, UnlessStopped
    <3>5. Head(rb) = p /\ InTurn(rb', After(p, n), osc.channel, n) /\ Len(rb') = l - 1
      BY <1>1, <1>2, <3>2, <3>3, <3>4, TurnRead, TailOf
    <3>6. cycle'.at = "read" /\ cycle'.port = p + 1
      BY <2>1, <3>4 DEF TInv, ReceiverOK
    <3>7. ReadsNext' = After(p, n)
      BY <1>2, <3>2, <3>6 DEF ReadsNext, After
    <3>8. ChannelsMatch'
      BY <1>5, <3>4, <3>5 DEF ChannelsMatch
    <3>9. p + 1 <= n /\ l - 1 >= n - (p + 1)
      BY <1>2, <3>2
    <3>10. osc'.at = "write" => osc'.channel < n /\ l - 1 + (n - osc'.channel) <= Capacity'
      <4>1. Capacity \in Nat
        BY CapacityIsNat DEF TInv
      <4>3. Capacity' = Capacity /\ osc' = osc /\ osc.channel \in Nat
        BY <1>2, <2>1 DEF Capacity, TInv, ReceiverOK
      <4>2. osc.at = "write" => osc.channel < n /\ l + (n - osc.channel) <= Capacity
        BY <1>1, <3>1 DEF Begun
      <4> QED
        BY <1>2, <4>1, <4>2, <4>3
    <3>11. Begun'
      BY <1>2, <2>1, <3>2, <3>5, <3>6, <3>7, <3>9, <3>10 DEF Begun
    <3> QED
      BY <2>1, <3>8, <3>11 DEF Lined
  <2> QED
    BY <2>3, <2>4
<1>16. CASE CycleEnds
  <2>1. /\ cycle.at = "read" /\ p >= receiver.port_count /\ cycle'.at = "idle"
        /\ UNCHANGED <<osc, ports>> /\ receiver' = [receiver EXCEPT !.requested_drop_count = 0]
    BY <1>1, <1>16 DEF CycleEnds, InCycle, IdleCycle
  <2>2. /\ receiver'.port_count = receiver.port_count
        /\ receiver'.max_buffer_size = receiver.max_buffer_size
        /\ receiver'.requested_drop_count = 0
        /\ receiver'.shutdown_in_progress = receiver.shutdown_in_progress
        /\ receiver.port_count \in Nat
    BY <2>1 DEF TInv, ReceiverOK, Globals
  <2>3. rb' = rb
    <3>1. receiver.requested_drop_count * receiver.port_count = 0
      BY <2>2 DEF Lined
    <3>2. rb' = SubSeq(rb, 1, Len(rb))
      BY <1>16, <3>1 DEF CycleEnds
    <3> QED
      BY <1>2, <3>2, SubSeqFull
  <2>4. ~NotBegun
    BY <2>1 DEF NotBegun
  <2>5. Begun => Begun'
    <3>1. ReadsNext' = 0 /\ Capacity' = Capacity
      BY <2>1, <2>2 DEF ReadsNext, Capacity
    <3>2. Begun => ReadsNext = 0
      BY <1>1, <1>2, <2>1, <2>2 DEF Begun, ReadsNext
    <3> QED
      BY <1>1, <1>2, <2>1, <2>2, <2>3, <3>1, <3>2 DEF Begun
  <2> QED
    BY <1>9, <2>1, <2>2, <2>4, <2>5 DEF Lined
<1> QED
  BY <1>6, <1>7, <1>10, <1>11, <1>12, <1>13, <1>14, <1>15, <1>16 DEF receiver_process

(* The invariant is inductive.                                             *)
LEMMA ChannelInvNext == PlaysOn /\ ChannelInv /\ [Next]_vars => ChannelInv'
<1> SUFFICES ASSUME PlaysOn, TInv, OfSender, Lined, [Next]_vars
             PROVE  Lined'
  BY TInvNext, OfSenderNext DEF ChannelInv
<1>1. CASE Sender /\ UNCHANGED receive_vars
  BY <1>1, SenderKeepsTypes, LinedAside DEF TInv, receive_vars
<1>2. CASE Receiver /\ UNCHANGED sender
  <2>1. CASE ReceiverStarts
    BY <2>1, FreshIsLined DEF ReceiverStarts
  <2>2. CASE receiver_osc
    BY <1>2, <2>2, OscKeepsLine
  <2>3. CASE receiver_process
    BY <1>2, <2>3, ProcessKeepsLine
  <2>4. CASE ReceiverStops
    BY <2>4, FreshIsLined DEF ReceiverStops, ReceiverEnds
  <2>5. CASE ReceiverIsClosed
    BY <2>5, FreshIsLined DEF ReceiverIsClosed, ReceiverEnds
  <2> QED
    BY <1>2, <2>1, <2>2, <2>3, <2>4, <2>5 DEF Receiver, PlaysOn
<1>3. CASE Lose /\ UNCHANGED <<sender, receive_vars>>
  BY <1>3, LinedAside DEF receive_vars
<1>4. CASE UNCHANGED vars
  BY <1>4, LinedAside DEF vars, receive_vars
<1> QED
  BY <1>1, <1>2, <1>3, <1>4 DEF Next

(* Each port plays the sender's channel of its number, or is silent: for   *)
(* any rates, channels, ports and buffer sizes, with or without --reuf and *)
(* --close, whatever is lost and whoever is killed and started again, as   *)
(* long as --rere was not given and nobody sends /buffer                   *)
(* (osc_audio_handler and process, jack_audio_receive.c).                  *)
THEOREM ChannelsStay == PlaysOn /\ Spec => []ChannelsMatch
<1> SUFFICES ASSUME PlaysOn
             PROVE  Spec => []ChannelsMatch
  OBVIOUS
<1>1. Init => ChannelInv
  BY TInvInit, FreshIsLined DEF Init, LinkInit, OfSender, ChannelInv
<1>2. ChannelInv /\ [Next]_vars => ChannelInv'
  BY ChannelInvNext
<1>3. ChannelInv => ChannelsMatch
  BY DEF ChannelInv, Lined
<1> QED
  BY <1>1, <1>2, <1>3, PTL DEF Spec

------------------------------------------------------------------------------
(* Silence while buffering.                                                *)
AllSilent == \A p \in Port : ports[p] = Silence

(* Playing is given up for an underflow only, and then every port was      *)
(* silenced first.                                                         *)
SilenceInv ==
  /\ TInv
  /\ ~receiver.process_enabled => AllSilent
  /\ cycle.at = "silence" => AllSilent
  /\ cycle.at = "zero" => \A p \in Port : p < cycle.port => ports[p] = Silence

(* A step that leaves the ports alone. *)
LEMMA SilenceStays ==
  ASSUME SilenceInv, TInv', ports' = ports,
         receiver'.process_enabled = receiver.process_enabled \/ AllSilent,
         \/ cycle' = cycle
         \/ cycle'.at \in {"idle", "read"}
         \/ cycle'.at = "silence" /\ AllSilent
         \/ cycle' = [at |-> "zero", port |-> 0]
  PROVE  SilenceInv'
<1>1. \A p \in Port : ~(p < 0)
  BY ReceiveAssumption DEF Port
<1>2. AllSilent => AllSilent'
  BY DEF AllSilent
<1> QED
  BY <1>1, <1>2 DEF SilenceInv, AllSilent

(* A program that starts or ends. *)
LEMMA FreshIsSilent ==
  /\ ReceiverInit => AllSilent /\ cycle.at = "idle"
  /\ \A up \in BOOLEAN : Fresh(up) => AllSilent' /\ cycle'.at = "idle"
BY DEF ReceiverInit, Fresh, IdleCycle, AllSilent

(* The OSC thread never stops what is playing. *)
LEMMA OscLeavesEnabled ==
  ASSUME PlaysOn, TInv, receiver_osc
  PROVE  /\ receiver.process_enabled => receiver'.process_enabled
         /\ UNCHANGED <<cycle, ports>>
<1>1. CASE ReceiverIgnores
  BY <1>1 DEF ReceiverIgnores, receive_vars
<1>2. CASE osc_offer_handler
  <2>1. PICK o : o = Head(to_receiver).rate
    OBVIOUS
  <2>2. \/ receiver' = [receiver EXCEPT !.remote_sample_rate = o, !.sender_host = TRUE]
        \/ receiver' = receiver
        \/ receiver' = [receiver EXCEPT !.shutdown_in_progress = TRUE]
    BY <1>2, <2>1 DEF osc_offer_handler
  <2> QED
    BY <1>2, <2>2 DEF osc_offer_handler, TInv, ReceiverOK, Globals
<1>3. CASE AudioArrives
  <2>1. PICK m, r, s : m = Head(to_receiver) /\ r = Numbered(m) /\ s = SenderRestarted(r, m)
    OBVIOUS
  <2>2. /\ r.process_enabled = receiver.process_enabled
        /\ s.process_enabled = (r.process_enabled /\ ~RebufferOnRestart)
    BY <2>1 DEF Numbered, SenderRestarted, TInv, ReceiverOK, Globals
  <2>3. receiver.process_enabled => r.process_enabled /\ s.process_enabled
    BY <2>2 DEF PlaysOn
  <2>4. /\ [r EXCEPT !.shutdown_in_progress = TRUE].process_enabled = r.process_enabled
        /\ [s EXCEPT !.shutdown_in_progress = TRUE].process_enabled = s.process_enabled
        /\ [s EXCEPT !.message_number = 0, !.remote_sample_rate = NoRate].process_enabled
             = s.process_enabled
    BY <2>1 DEF Numbered, SenderRestarted, TInv, ReceiverOK, Globals
  <2>5. receiver' \in {r, s, [r EXCEPT !.shutdown_in_progress = TRUE],
                       [s EXCEPT !.shutdown_in_progress = TRUE],
                       [s EXCEPT !.message_number = 0, !.remote_sample_rate = NoRate]}
    BY <1>3, <2>1, ArrivalCases
  <2> QED
    BY <1>3, <2>3, <2>4, <2>5 DEF AudioArrives
<1>4. CASE AudioEnables
  <2>1. PICK e : e = (receiver.process_enabled \/ receiver.pre_buffer_counter >= receiver.pre_buffer_size)
    OBVIOUS
  <2>2. receiver' = [receiver EXCEPT !.process_enabled = e] /\ (receiver.process_enabled => e)
    BY <1>4, <2>1 DEF AudioEnables
  <2> QED
    BY <1>4, <2>2 DEF AudioEnables, TInv, ReceiverOK, Globals
<1>5. CASE AudioWrites
  BY <1>5 DEF AudioWrites
<1>6. CASE AudioCounts
  <2>1. PICK c : receiver' = [receiver EXCEPT !.pre_buffer_counter = c]
    BY <1>6 DEF AudioCounts
  <2> QED
    BY <1>6, <2>1 DEF AudioCounts, TInv, ReceiverOK, Globals
<1> QED
  BY <1>1, <1>2, <1>3, <1>4, <1>5, <1>6 DEF receiver_osc

(* The callback. *)
LEMMA ProcessKeepsSilence ==
  ASSUME SilenceInv, TInv', receiver_process
  PROVE  SilenceInv'
<1>1. ports \in [Port -> Port \cup {Silence}] /\ cycle.port \in Nat
  BY DEF SilenceInv, TInv, ReceiverOK
<1>2. CASE CycleSilent
  BY <1>2 DEF CycleSilent, InCycle, SilenceInv, AllSilent
<1>3. CASE CycleNotEnabled
  BY <1>3, SilenceStays DEF CycleNotEnabled, SilenceInv
<1>4. CASE CycleLooksAgain
  <2>1. AllSilent /\ (ports' = ports \/ ports' = [ports EXCEPT ![cycle.port] = Silence])
    BY <1>4 DEF CycleLooksAgain, InCycle, SilenceInv
  <2>2. AllSilent'
    BY <1>1, <2>1 DEF AllSilent
  <2>3. cycle'.at \in {"silence", "idle"}
    BY <1>4 DEF CycleLooksAgain, InCycle, IdleCycle, SilenceInv, TInv, ReceiverOK
  <2> QED
    BY <2>2, <2>3 DEF SilenceInv
<1>5. CASE CycleUnderflows
  BY <1>5, SilenceStays DEF CycleUnderflows
<1>6. CASE CycleZeroes
  <2>1. CASE UnlessStopped
    <3>1. cycle'.at = "zero" /\ cycle'.port = cycle.port + 1
      BY <1>6, <2>1 DEF CycleZeroes, InCycle, SilenceInv, TInv, ReceiverOK
    <3>2. receiver'.process_enabled
      BY <1>6, <2>1 DEF CycleZeroes, UnlessStopped
    <3>3. ASSUME NEW p \in Port, p < cycle.port + 1
          PROVE  ports'[p] = Silence
      <4>1. ports' = [ports EXCEPT ![cycle.port] = Silence]
        BY <1>6, <2>1 DEF CycleZeroes
      <4>2. CASE p = cycle.port
        BY <1>1, <4>1, <4>2
      <4>3. CASE p # cycle.port
        <5>1. p < cycle.port
          BY <1>1, <3>3, <4>3, ReceiveAssumption DEF Port
        <5>2. ports[p] = Silence
          BY <1>6, <5>1 DEF CycleZeroes, InCycle, SilenceInv
        <5> QED
          BY <1>1, <4>1, <4>3, <5>2
      <4> QED
        BY <4>2, <4>3
    <3> QED
      BY <3>1, <3>2, <3>3 DEF SilenceInv
  <2>2. CASE ~UnlessStopped
    BY <1>6, <2>2, SilenceStays DEF CycleZeroes, IdleCycle
  <2> QED
    BY <2>1, <2>2
<1>7. CASE CycleRebuffers
  <2>1. \A p \in Port : p < cycle.port
    BY <1>1, <1>7, ReceiveAssumption DEF CycleRebuffers, Port
  <2>2. AllSilent
    BY <1>7, <2>1 DEF CycleRebuffers, InCycle, SilenceInv, AllSilent
  <2> QED
    BY <1>7, <2>2, SilenceStays DEF CycleRebuffers, IdleCycle
<1>8. CASE CycleBegins
  BY <1>8, SilenceStays DEF CycleBegins
<1>9. CASE CycleReads
  <2>1. CASE UnlessStopped
    <3>1. receiver'.process_enabled /\ cycle'.at = "read"
      BY <1>9, <2>1 DEF CycleReads, InCycle, UnlessStopped, SilenceInv, TInv, ReceiverOK
    <3> QED
      BY <3>1 DEF SilenceInv
  <2>2. CASE ~UnlessStopped
    BY <1>9, <2>2, SilenceStays DEF CycleReads, IdleCycle
  <2> QED
    BY <2>1, <2>2
<1>10. CASE CycleEnds
  <2>1. receiver'.process_enabled = receiver.process_enabled
    BY <1>10 DEF CycleEnds, SilenceInv, TInv, ReceiverOK, Globals
  <2> QED
    BY <1>10, <2>1, SilenceStays DEF CycleEnds, IdleCycle
<1> QED
  BY <1>2, <1>3, <1>4, <1>5, <1>6, <1>7, <1>8, <1>9, <1>10 DEF receiver_process

(* The invariant is inductive.                                             *)
LEMMA SilenceInvNext == PlaysOn /\ SilenceInv /\ [Next]_vars => SilenceInv'
<1> SUFFICES ASSUME PlaysOn, SilenceInv, [Next]_vars
             PROVE  SilenceInv'
  OBVIOUS
<1>1. TInv /\ TInv'
  BY TInvNext DEF SilenceInv
<1>2. ASSUME UNCHANGED <<receiver, cycle, ports>> PROVE SilenceInv'
  BY <1>1, <1>2, SilenceStays
<1>3. CASE Receiver /\ UNCHANGED sender
  <2>1. CASE ReceiverStarts
    BY <1>1, <2>1, FreshIsSilent DEF ReceiverStarts, SilenceInv
  <2>2. CASE receiver_osc
    BY <1>1, <2>2, OscLeavesEnabled DEF SilenceInv, AllSilent
  <2>3. CASE receiver_process
    BY <1>1, <2>3, ProcessKeepsSilence
  <2>4. CASE ReceiverEnds
    BY <1>1, <2>4, FreshIsSilent DEF ReceiverEnds, SilenceInv
  <2> QED
    BY <1>3, <2>1, <2>2, <2>3, <2>4 DEF Receiver, PlaysOn, ReceiverStops, ReceiverIsClosed
<1> QED
  BY <1>2, <1>3 DEF Next, vars, receive_vars

(* A cycle that finds the receiver buffering leaves silence in every port, *)
(* whether or not playing is enabled in the middle of it, and after an     *)
(* underflow (--reuf) as well as before the first period (process,         *)
(* jack_audio_receive.c).                                                  *)
THEOREM BuffersInSilence == PlaysOn /\ Spec => SilentWhileBuffering
<1> SUFFICES ASSUME PlaysOn
             PROVE  Spec => SilentWhileBuffering
  OBVIOUS
<1>1. Init => SilenceInv
  BY TInvInit, FreshIsSilent DEF Init, SilenceInv
<1>2. SilenceInv /\ [Next]_vars => SilenceInv'
  BY SilenceInvNext
<1>3. SilenceInv /\ [Next]_vars =>
        [cycle.at = "silence" /\ cycle' = IdleCycle => \A p \in Port : ports'[p] = Silence]_vars
  <2> SUFFICES ASSUME SilenceInv, [Next]_vars, cycle.at = "silence", cycle' = IdleCycle
               PROVE  \A p \in Port : ports'[p] = Silence
    OBVIOUS
  <2>1. AllSilent
    BY DEF SilenceInv
  <2>2. CASE ports' = ports
    BY <2>1, <2>2 DEF AllSilent
  <2>3. CASE \E up \in BOOLEAN : Fresh(up)
    BY <2>3, FreshIsSilent DEF AllSilent
  <2>4. ports' = ports \/ \E up \in BOOLEAN : Fresh(up)
    BY DEF Next, Receiver, ReceiverStarts, receiver_osc, ReceiverIgnores, osc_offer_handler,
           AudioArrives, AudioEnables, AudioWrites, AudioCounts, osc_buffer_handler,
           receiver_process, InCycle, CycleSilent, CycleNotEnabled, CycleLooksAgain,
           CycleUnderflows, CycleZeroes, CycleRebuffers, CycleBegins, CycleReads, CycleEnds,
           ReceiverStops, ReceiverIsClosed, ReceiverEnds, IdleCycle, receive_vars, vars
  <2> QED
    BY <2>2, <2>3, <2>4
<1> QED
  BY <1>1, <1>2, <1>3, PTL DEF Spec, SilentWhileBuffering

==============================================================================
