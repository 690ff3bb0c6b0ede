------------------------------ MODULE MeloSession ------------------------------
(***************************************************************************)
(* The master of serial_example.cc at work: main() sends a request, reads  *)
(* the answer with a time limit into a buffer that it keeps from command   *)
(* to command, feeds that buffer to its own copy of melo.c and lets        *)
(* MeloBackground run.  The slave behind the line is MeloService.          *)
(*                                                                         *)
(* Answers are delayed as long as the line likes and requests may be lost; *)
(* lost bytes are the subject of MeloLink.                                 *)
(***************************************************************************)
EXTENDS MeloFrame, MeloEventStack

CONSTANTS Commands,    \* what the user asks for: reads and writes of a byte
          Garbage,       \* what rx_frame_buffer may hold before the first read
          MemTop, PE, HE, \* as in MeloService
          MaxExchanges   \* how many commands the user gives

RX_SIZE == 30            \* rx_frame_buffer

ASSUME SessionAssumption == /\ MaxExchanges \in Nat
                            /\ Garbage \subseteq [1 .. RX_SIZE -> Byte]

VARIABLES
  asked, mem, recv_data, send_packet, wait_packet,   \* the slave: see MeloService
  in_flight,        \* bytes of answers that the line still holds
  input,            \* bytes that have arrived at the port
  rx_frame_buffer,
  rx,               \* recv_frame
  stack, current_state, timer,            \* the master's melo.c: see MeloSlave
  phase,            \* where main() is
  frame_length,     \* the length of the request
  got,              \* how many bytes the last read returned
  shown,            \* the calls of MeloReceiveResponse for this command
  timely,           \* ghost: the request of this command got its answer, whole and in time
  clean,            \* ghost: and nothing was in the way of it (undisturbed)
  exchanges

slave == <<asked, mem, recv_data, send_packet, wait_packet>>
line  == <<in_flight, input>>
melo  == <<stack, current_state, timer>>
vars  == <<slave, line, rx_frame_buffer, rx, melo, phase, frame_length, got, shown,
           timely, clean, exchanges>>

\* What the user writes.
Written == {op.value : op \in {asking \in Commands : asking.kind = "write"}}

Slave == INSTANCE MeloService WITH Values <- Written

\* main() reads and writes single bytes (serial_example.cc:97, 120).
ASSUME CommandsAssumption ==
  /\ MemTop \in 0 .. 255 /\ PE \in {0, 1} /\ HE \in {0, 1}
  /\ \A value \in Written : value \in Seq(Byte) /\ Len(value) = 1
  /\ Commands \subseteq {op \in Slave!Reads : op.size = 1} \cup Slave!Writes

\* The master runs the state machine of the slave, with MeloTransmitBytes
\* confirming at once.  No packet changes its frames: those are never built.
Machine == INSTANCE MeloSlave WITH
  Requests <- {}, NonRequests <- [command : Byte, data : Seq(Byte)], NoRequest <- "none",
  Port <- "sketch", After <- 500, TimerMod <- 65536,
  packet <- rx.packet, wait_frame <- "none", send_frame <- "none", tx <- "none",
  running <- (phase = "background")

Init ==
  /\ Slave!Init
  /\ in_flight = <<>> /\ input = <<>>
  /\ rx_frame_buffer \in Garbage
  /\ rx = receiver_init
  /\ stack = <<>> /\ current_state = Machine!IDLE /\ timer = 0
  /\ phase = "prompt"
  /\ frame_length = 0
  /\ got = 0
  /\ shown = <<>>
  /\ timely = FALSE /\ clean = FALSE
  /\ exchanges = 0

------------------------------------------------------------------------------
(* The line *)

answer_bytes(wait, send) ==
  Slave!wait_frame_bytes(wait) \o Slave!send_frame_bytes(send)

\* Bytes arrive while the master reads: those that come earlier are as good as
\* those that come first thing then.
Arrive ==
  /\ phase = "read"
  /\ in_flight # <<>>
  /\ input' = Append(input, Head(in_flight))
  /\ in_flight' = Tail(in_flight)
  /\ UNCHANGED <<slave, rx_frame_buffer, rx, melo, phase, frame_length, got, shown,
                 timely, clean, exchanges>>

------------------------------------------------------------------------------
(* main() *)

\* A command of the user: the request is built and written, and MeloTransmitBytes
\* reports its transmission.
Ask(op, lost) ==
  /\ phase = "prompt"
  /\ exchanges < MaxExchanges
  /\ exchanges' = exchanges + 1
  /\ LET packet == Slave!request(op) IN
       frame_length' = Len(serialize_frame(packet.command, packet.data, HE, FALSE))
  /\ stack' = notify_event(stack, TX_CONFIRMATION)
  /\ IF lost THEN UNCHANGED <<slave, in_flight>>
     ELSE /\ Slave!Request(op)
          /\ in_flight' = in_flight \o answer_bytes(wait_packet', send_packet')
  /\ phase' = "read"
  /\ shown' = <<>>
  /\ timely' = (~ lost /\ in_flight = <<>> /\ input = <<>>)
  /\ UNCHANGED <<input, rx_frame_buffer, rx, current_state, timer, got, clean>>

\* Mutants of read_size: no room for the frames around the answer; room for a
\* pending response as long as the final one.
read_size_tight == frame_length

read_size_doubled == 2 * (frame_length + 6)

\* How many bytes main() asks for, and feeds on, whatever it gets.
read_size == frame_length + 6

\* my_serial.read returns when it has got what it was asked for, or with less
\* when its time is over.  The rest of the buffer stays as it was.
Read ==
  /\ phase = "read"
  /\ LET n == IF Len(input) < read_size THEN Len(input) ELSE read_size IN
       /\ got' = n
       /\ rx_frame_buffer' = [i \in 1 .. RX_SIZE |->
                                IF i <= n THEN input[i] ELSE rx_frame_buffer[i]]
       /\ input' = SubSeq(input, n + 1, Len(input))
  /\ phase' = "receive"
  /\ timely' = (timely /\ in_flight = <<>>)
  /\ UNCHANGED <<slave, in_flight, rx, melo, frame_length, shown, clean, exchanges>>

\* The HEAD of a frame.
is_head(byte) == /\ is_control(byte)
                 /\ ~ is_set(byte, FRAME_ESCAPE)
                 /\ is_set(byte, FRAME_MARKER)

\* The receiver has no escape left over, and behind what the read has brought there
\* is no frame in the part of the buffer that is fed on.
undisturbed ==
  /\ rx.escape_buffer = 0
  /\ \A i, j \in got + 1 .. read_size :
       is_head(rx_frame_buffer[i]) /\ i < j => ~ is_tail(rx_frame_buffer[j])

\* One byte of MeloReceiveBytes.
receive(state, byte) ==
  [rx    |-> rx_byte(state.rx, byte),
   stack |-> IF rx_notifies(state.rx, byte)
             THEN notify_event(state.stack, REQUEST_RECEIVED) ELSE state.stack]

MeloReceiveBytes ==
  /\ phase = "receive"
  /\ LET fed[n \in 0 .. read_size] ==
           IF n = 0 THEN [rx |-> rx, stack |-> stack]
                    ELSE receive(fed[n - 1], rx_frame_buffer[n])
     IN rx' = fed[read_size].rx /\ stack' = fed[read_size].stack
  /\ clean' = undisturbed
  /\ phase' = "background"
  /\ UNCHANGED <<slave, line, rx_frame_buffer, current_state, timer, frame_length,
                 got, shown, timely, exchanges>>

------------------------------------------------------------------------------
(* MeloBackground *)

status_of(raw_byte) == raw_byte \div 64

\* The event that makes the state machine handle the packet.
handles_packet == current_state = Machine!IDLE /\ top(stack) = REQUEST_RECEIVED

\* _melo_packet_handler in a master.  A pending response calls MeloRequestBytes,
\* whose MeloTransmitComplete is the same as that of the MeloTransmitBytes behind it.
packet_handler ==
  IF handles_packet /\ status_of(rx.packet.command) \in {Slave!POSITIVE, Slave!NEGATIVE}
  THEN shown' = Append(shown, rx.packet)
  ELSE UNCHANGED shown

Dispatch ==
  /\ phase = "background"
  /\ ~ (handles_packet /\ status_of(rx.packet.command) = Slave!REQUEST)
  /\ UNCHANGED <<slave, line, rx_frame_buffer, rx, phase, frame_length, got, timely,
                 clean, exchanges>>
  /\ Machine!Dispatch
  /\ packet_handler

\* Garbage in the buffer that passes for a request: the master serves it, at an
\* address that nobody gave.  Nothing can be said of the program after that.
ServeGarbage ==
  /\ phase = "background"
  /\ stack # <<>>
  /\ handles_packet /\ status_of(rx.packet.command) = Slave!REQUEST
  /\ phase' = "undefined"
  /\ UNCHANGED <<slave, line, rx_frame_buffer, rx, melo, frame_length, got, shown,
                 timely, clean, exchanges>>

\* The first of four calls of MeloBackground has emptied the stack.
BackgroundReturn ==
  /\ phase = "background"
  /\ stack = <<>>
  /\ phase' = "prompt"
  /\ UNCHANGED <<slave, line, rx_frame_buffer, rx, melo, frame_length, got, shown,
                 timely, clean, exchanges>>

Next == \/ Arrive
        \/ \E op \in Commands, lost \in BOOLEAN : Ask(op, lost)
        \/ Read \/ MeloReceiveBytes \/ Dispatch \/ ServeGarbage \/ BackgroundReturn

Spec == Init /\ [][Next]_vars

------------------------------------------------------------------------------
TypeOK ==
  /\ in_flight \in Seq(Byte) /\ input \in Seq(Byte)
  /\ rx_frame_buffer \in [1 .. RX_SIZE -> Byte]
  /\ stack \in Seq(Events) /\ Len(stack) < StackSize
  /\ current_state \in Machine!IDLE .. Machine!TX_PEND
  /\ phase \in {"prompt", "read", "receive", "background", "undefined"}
  /\ phase \notin {"prompt", "undefined"} => read_size <= RX_SIZE
  /\ got \in 0 .. RX_SIZE
  /\ shown \in Seq([command : Byte, data : Seq(Byte)])

\* The transmission of the request leaves a confirmation on the stack that no
\* state waits for (serial_example.cc:56).  It serves for one of the two that the
\* answer calls for, or is dropped: the next command meets an idle machine.
PromptIsClean ==
  phase = "prompt" => current_state = Machine!IDLE /\ stack = <<>>

\* Both frames of an answer, and those of a late one before it, are fed in one go.
\* They make one event and not two (melo.c:281): no answer is shown twice.
AtMostOneResponse == Len(shown) <= 1

\* When the answer comes whole and in time, what is shown is that answer, whatever
\* became of the commands before and whatever rx_frame_buffer began with: the six
\* bytes that main() adds to the length of the request (serial_example.cc:237) make
\* room for any answer, and the data, ESCAPE and TAIL bytes that are fed on behind it
\* do not take its place.  The condition is that the receiver had no escape left over
\* and that no frame is among them (undisturbed): the uninitialised buffer may hold
\* either, and an earlier answer may be there.
TimelyAnswersAreShown ==
  phase = "prompt" /\ timely /\ clean => shown = <<send_packet>>

\* "MeloReceiveResponse is a callback ... when a slave response has been received"
\* (README.md:146): it is not called when the port had nothing to read.
ShownWasReceived == shown # <<>> => got > 0
================================================================================
