--------------------------------- MODULE Tty ---------------------------------
(***************************************************************************)
(* jack_tty (example-clients/tty.c) with the MIDI parser of rb_midi.h: a   *)
(* thread puts the bytes of a serial device into a ring buffer, the        *)
(* process callback takes MIDI messages out of it, and the main thread     *)
(* connects to JACK whenever it is back and makes a new ring buffer then.  *)
(*                                                                         *)
(* A byte is a command for a message of 1, 2 or 3 bytes, or data.  It      *)
(* bears which message of the device it is of, for the properties.  For    *)
(* the parser each command from 0xF0 on is a message of one byte: the data *)
(* of a system common or exclusive message are bytes outside of one here,  *)
(* and are left out of what is put to JACK, as in the code.                *)
(***************************************************************************)
EXTENDS ByteQueue, FiniteSets

CONSTANTS
  TtyCapacity,      \* rb_new(100)
  MaxStray,      \* data bytes in a row outside of a message
  MaxSent,       \* bound: messages and stray bytes sent
  MaxBreaks,     \* bound: times that the device or JACK goes, or a message is broken
  SignalInTime   \* TRUE: the serial thread waits before it is told to start

ASSUME TtyAssumption ==
  /\ TtyCapacity \in Nat \ {0} /\ {MaxStray, MaxSent, MaxBreaks} \subseteq Nat
  /\ SignalInTime \in BOOLEAN

VARIABLES
  device,      \* what it sends: message, its length, bytes of it sent, stray bytes
  serial,      \* the serial thread: where it is, the last byte it read
  mutex,       \* serial_thread_lock is held
  serial_thread_initialized,
  tty_main, connection_to_jack_down,
  tty_rb,
  out,         \* history: the messages put to JACK
  dropped,     \* history: a byte of a message was lost, made up, or put in between
  breaks       \* times that the device or JACK went, or a message was broken

tty_vars == <<device, serial, mutex, serial_thread_initialized, tty_main,
              connection_to_jack_down, tty_rb, out, dropped, breaks>>

Kinds == 0 .. 3      \* a data byte, or a command and how long its message is

Byte(kind, of, k) == [kind |-> kind, of |-> of, k |-> k]

TtyInit ==
  /\ device = [of |-> 0, length |-> 0, k |-> 0, stray |-> 0]
  /\ serial = [at |-> "opening", c |-> Byte(0, 0, 0)]
  /\ mutex = TRUE /\ serial_thread_initialized = FALSE
  /\ tty_main = "starting" /\ connection_to_jack_down = TRUE
  /\ tty_rb = <<>> /\ out = <<>> /\ dropped = FALSE /\ breaks = 0

------------------------------------------------------------------------------
(* The serial thread. *)

(* A slip of WaitsToStart: it waits each time the device is opened.        *)
WaitsEachTime == TRUE

(* "only wait the first time" *)
WaitsToStart == ~serial_thread_initialized

SerialOpens ==
  /\ serial.at = "opening"
  /\ serial' = [serial EXCEPT !.at = IF WaitsToStart THEN "to wait" ELSE "reading"]
  /\ serial_thread_initialized' = TRUE
  /\ UNCHANGED <<device, mutex, tty_main, connection_to_jack_down, tty_rb, out, dropped, breaks>>

(* pthread_cond_wait lets go of the lock that setup_serial_thread took. *)
SerialWaits ==
  /\ serial.at = "to wait"
  /\ serial' = [serial EXCEPT !.at = "waiting"]
  /\ mutex' = FALSE
  /\ UNCHANGED <<device, serial_thread_initialized, tty_main, connection_to_jack_down, tty_rb,
                 out, dropped, breaks>>

(* The next byte of the device: the message's next, a new command, or a    *)
(* byte that is no part of a message.                                      *)
Sends(c, d) ==
  /\ serial.at = "reading"
  /\ device' = d
  /\ serial' = [serial EXCEPT !.c = c]
  /\ tty_rb' = rb_write(tty_rb, TtyCapacity, <<c>>)
  /\ dropped' = (dropped \/ Len(tty_rb) = TtyCapacity)
  /\ UNCHANGED <<mutex, serial_thread_initialized, tty_main, connection_to_jack_down, out, breaks>>

SerialReads ==
  \/ /\ device.k < device.length
     /\ Sends(Byte(0, device.of, device.k + 1), [device EXCEPT !.k = @ + 1])
  \/ /\ device.k = device.length /\ device.of < MaxSent
     /\ \E n \in Kinds \ {0} :
          Sends(Byte(n, device.of + 1, 1),
                [of |-> device.of + 1, length |-> n, k |-> 1, stray |-> 0])
  \/ /\ device.k = device.length /\ device.of < MaxSent /\ device.stray < MaxStray
     /\ Sends(Byte(0, device.of + 1, 0),
              [of |-> device.of + 1, length |-> 0, k |-> 0, stray |-> device.stray + 1])

(* A real-time byte (0xF8 to 0xFF) in the middle of a message: the parser  *)
(* counts it as the message's next byte.                                   *)
RealTimeByte ==
  /\ serial.at = "reading" /\ breaks < MaxBreaks
  /\ device.k < device.length
  /\ LET c == Byte(1, device.of, 0)
     IN  /\ serial' = [serial EXCEPT !.c = c]
         /\ tty_rb' = rb_write(tty_rb, TtyCapacity, <<c>>)
  /\ breaks' = breaks + 1
  /\ dropped' = TRUE
  /\ UNCHANGED <<device, mutex, serial_thread_initialized, tty_main, connection_to_jack_down, out>>

(* The device is gone: read fails, and what c holds is written once more.  *)
DeviceGoes ==
  /\ serial.at = "reading" /\ breaks < MaxBreaks
  /\ breaks' = breaks + 1
  /\ tty_rb' = rb_write(tty_rb, TtyCapacity, <<serial.c>>)
  /\ dropped' = TRUE
  /\ device' = [device EXCEPT !.k = device.length]
  /\ serial' = [serial EXCEPT !.at = "opening"]
  /\ UNCHANGED <<mutex, serial_thread_initialized, tty_main, connection_to_jack_down, out>>

(* C-a leaves the loop as well; what the device has sent is flushed. *)
ControlA ==
  /\ serial.at = "reading" /\ breaks < MaxBreaks
  /\ breaks' = breaks + 1
  /\ dropped' = (dropped \/ device.k < device.length)
  /\ device' = [device EXCEPT !.k = device.length]
  /\ serial' = [serial EXCEPT !.at = "opening"]
  /\ UNCHANGED <<mutex, serial_thread_initialized, tty_main, connection_to_jack_down, tty_rb, out>>

------------------------------------------------------------------------------
(* The main thread. *)
MainConnects ==
  /\ \/ tty_main = "starting" /\ serial_thread_initialized
     \/ tty_main = "running" /\ connection_to_jack_down
  /\ connection_to_jack_down' = FALSE
  /\ tty_rb' = <<>>
  /\ dropped' = (dropped \/ tty_rb # <<>> \/ device.k < device.length)
  /\ tty_main' = "activated"
  /\ UNCHANGED <<device, serial, mutex, serial_thread_initialized, out, breaks>>

(* start_serial_thread: nobody is told when the lock is held; the thread   *)
(* that is told takes the lock and keeps it.                               *)
start_serial_thread ==
  /\ tty_main = "activated"
  /\ SignalInTime => serial.at # "to wait"
  /\ tty_main' = "running"
  /\ IF ~mutex /\ serial.at = "waiting"
     THEN serial' = [serial EXCEPT !.at = "reading"] /\ mutex' = TRUE
     ELSE UNCHANGED <<serial, mutex>>
  /\ UNCHANGED <<device, serial_thread_initialized, connection_to_jack_down, tty_rb, out,
                 dropped, breaks>>

(* The server goes down. *)
shutdown_callback ==
  /\ ~connection_to_jack_down /\ breaks < MaxBreaks
  /\ connection_to_jack_down' = TRUE
  /\ breaks' = breaks + 1
  /\ UNCHANGED <<device, serial, mutex, serial_thread_initialized, tty_main, tty_rb, out, dropped>>

------------------------------------------------------------------------------
(* rb_can_read(rb) >= skip_counter + msg_len *)
Complete(skip) == rb_can_read(tty_rb) >= skip + rb_peek_byte_at(tty_rb, skip).kind

(* Bytes before the first command byte. *)
skip_counter == CHOOSE s \in 0 .. Len(tty_rb) :
                  /\ \A i \in 1 .. s : tty_rb[i].kind = 0
                  /\ s < Len(tty_rb) => tty_rb[s + 1].kind # 0

(* rb_find_next_midi_message: only the first command byte is looked at. *)
rb_find_next_midi_message == skip_counter < Len(tty_rb) /\ Complete(skip_counter)

(* A slip of Bytes: the bytes before the command are not skipped.          *)
BytesUnskipped(skip, n) == rb_read(tty_rb, n)

Bytes(skip, n) == rb_read(rb_skip(tty_rb, skip), n)

(* process takes one message, rb_read_next_midi_message.  It takes all     *)
(* that are there, and the thread may write between two of them.           *)
tty_process ==
  /\ tty_main = "running" /\ ~connection_to_jack_down
  /\ rb_find_next_midi_message
  /\ LET skip == skip_counter  n == rb_peek_byte_at(tty_rb, skip).kind
     IN  /\ out' = Append(out, Bytes(skip, n))
         /\ tty_rb' = rb_skip(tty_rb, skip + n)
  /\ UNCHANGED <<device, serial, mutex, serial_thread_initialized, tty_main,
                 connection_to_jack_down, dropped, breaks>>

SerialThread == SerialOpens \/ SerialWaits \/ SerialReads
MainThread   == MainConnects \/ start_serial_thread

TtyNext == \/ SerialThread \/ MainThread \/ tty_process
           \/ RealTimeByte \/ DeviceGoes \/ ControlA \/ shutdown_callback

(* The threads run, JACK comes back and calls process; a device sends the  *)
(* rest of a message that it began.                                        *)
TtySpec ==
  /\ TtyInit /\ [][TtyNext]_tty_vars
  /\ WF_tty_vars(SerialThread) /\ WF_tty_vars(MainThread) /\ WF_tty_vars(tty_process)

------------------------------------------------------------------------------
TtyTypes ==
  /\ tty_rb \in Seq([kind : Kinds, of : Nat, k : Nat]) /\ Len(tty_rb) <= TtyCapacity
  /\ serial.at \in {"opening", "to wait", "waiting", "reading"}
  /\ tty_main \in {"starting", "activated", "running"}
  /\ device.k <= device.length /\ breaks \in 0 .. MaxBreaks

(* While no byte was dropped, made up or sent in the middle of a message,  *)
(* every MIDI message put to JACK is one that the device sent, with all    *)
(* the bytes that its command has (rb_midi.h:112-132), and they are in the *)
(* order sent: neither the bytes between messages nor a message of which   *)
(* only a part is there yet shift it (rb_read_next_midi_message).          *)
MessagesAreWhole ==
  ~dropped =>
    /\ \A i \in DOMAIN out : \A k \in DOMAIN out[i] :
         out[i][k] = Byte(IF k = 1 THEN Len(out[i]) ELSE 0, out[i][1].of, k)
    /\ \A i, j \in DOMAIN out : i < j => out[i][1].of < out[j][1].of

(* The serial thread does not wait for ever to be told to start (tty.c,    *)
(* start_serial_thread), also after the device or JACK went and came back. *)
SerialIsStarted == serial.at = "waiting" ~> serial.at = "reading"

==============================================================================
