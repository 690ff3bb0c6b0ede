------------------------------- MODULE MeloSketch -------------------------------
(***************************************************************************)
(* The slave as a whole, byte by byte: slave.ino on a serial line.  loop() *)
(* takes the bytes that have come one at a time, feeds them to the         *)
(* receiver (MeloFrame) and lets MeloBackground (MeloSlave) run, which     *)
(* executes requests (MeloService) and transmits.                          *)
(*                                                                         *)
(* The master sends requests one after the other and need not wait for the *)
(* answers.  A write of its port may end short; serial_example.cc then     *)
(* writes the frame again from its first byte.  Bytes may be lost, on the  *)
(* line or because the buffer of the Arduino core is full.                 *)
(***************************************************************************)
EXTENDS MeloFrame, MeloEventStack

CONSTANTS Commands,      \* the operations that are asked for: see MeloService
          MemTop, PE, HE, \* as in MeloService
          ShortWrites,   \* after how many bytes a write may end short
          MaxRequests,   \* how many requests are sent
          MaxLoss        \* how many bytes are lost in all

ASSUME SketchAssumption == /\ ShortWrites \subseteq Nat
                           /\ MaxRequests \in Nat /\ MaxLoss \in Nat

VARIABLES
  asked,      \* what the newest request asks for
  requests,   \* how many have been sent
  line,       \* the bytes that loop() has still to read
  lost,       \* how many have been lost
  rx,         \* recv_frame
  stack, current_state, timer,              \* see MeloSlave
  mem, recv_data, send_packet, wait_packet, \* see MeloService
  running,    \* MeloBackground has been called and has not returned
  out,        \* the bytes transmitted since the newest request began
  own,        \* ghost: how many bytes the frame of the newest request has
  whole,      \* ghost: none of them was lost
  before,     \* ghost: the memory when the first of them was read
  clean       \* ghost: no escape was left over then

channel == <<asked, requests, line, lost, own, whole>>
melo    == <<rx, stack, current_state, timer>>
data    == <<mem, recv_data, send_packet, wait_packet>>
vars    == <<channel, melo, data, running, out, before, clean>>

\* What the operations write.
Written == {op.value : op \in {asking \in Commands : asking.kind = "write"}}

Service == INSTANCE MeloService WITH Values <- Written

\* Complete requests about memory that exists, and requests that the slave refuses:
\* see MeloService.  What a short one writes is not for the master to say.
ASSUME CommandsAssumption ==
  /\ MemTop \in 0 .. 255 /\ PE \in {0, 1} /\ HE \in {0, 1}
  /\ \A value \in Written : value \in Seq(Byte) /\ Len(value) \in {1, 2, 4}
  /\ Commands \subseteq Service!Reads \cup Service!Writes \cup Service!Others

\* The state machine; its frames are those of Service.
Machine == INSTANCE MeloSlave WITH
  Requests <- {}, NonRequests <- [command : Byte, data : Seq(Byte)], NoRequest <- "none",
  Port <- "sketch", After <- 500, TimerMod <- 65536,
  packet <- rx.packet, wait_frame <- "none", send_frame <- "none", tx <- "none"

Init ==
  /\ Service!Init
  /\ requests = 0 /\ line = <<>> /\ lost = 0
  /\ rx = receiver_init
  /\ stack = <<>> /\ current_state = Machine!IDLE /\ timer = 0
  /\ running = FALSE
  /\ out = <<>>
  /\ own = 0 /\ whole = FALSE
  /\ before = mem /\ clean = TRUE

------------------------------------------------------------------------------
(* The master and the line *)

frame_of(op) ==
  LET packet == Service!request(op)
  IN serialize_frame(packet.command, packet.data, HE, FALSE)

\* MeloTransmitBytes of the master.  When the slave is still busy the bytes wait:
\* they are as good as sent when it is done.
send(op, bytes, frame) ==
  /\ line = <<>> /\ ~ running
  /\ requests < MaxRequests
  /\ requests' = requests + 1
  /\ asked' = op
  /\ line' = bytes
  /\ own' = Len(frame)
  /\ UNCHANGED <<lost, melo, data, running, out, before, clean>>

Send(op) == send(op, frame_of(op), frame_of(op)) /\ whole' = TRUE

\* A write that ends short is repeated from the first byte of the frame.
SendTwice(op, short) ==
  /\ short < Len(frame_of(op))
  /\ send(op, SubSeq(frame_of(op), 1, short) \o frame_of(op), frame_of(op))
  /\ whole' = TRUE

\* When it throws instead the master takes the frame for sent.
SendThrows(op, short) ==
  /\ short < Len(frame_of(op))
  /\ send(op, SubSeq(frame_of(op), 1, short), <<>>)
  /\ whole' = FALSE

LoseByte ==
  /\ line # <<>>
  /\ lost < MaxLoss
  /\ line' = Tail(line)
  /\ lost' = lost + 1
  /\ whole' = (whole /\ Len(line) > own)
  /\ UNCHANGED <<asked, requests, own, melo, data, running, out, before, clean>>

------------------------------------------------------------------------------
(* The slave *)

\* loop(): the next byte goes to MeloReceiveByte, and MeloBackground is called.
ReadByte ==
  /\ ~ running
  /\ line # <<>>
  /\ line' = Tail(line)
  /\ rx' = rx_byte(rx, Head(line))
  /\ IF rx_notifies(rx, Head(line))
     THEN /\ stack' = notify_event(stack, REQUEST_RECEIVED)
          /\ recv_data' = Service!unpacked(recv_data, rx'.packet.data)
     ELSE UNCHANGED <<stack, recv_data>>
  /\ running' = TRUE
  /\ IF Len(line) = own
     THEN before' = mem /\ clean' = (rx.escape_buffer = 0) /\ out' = <<>>
     ELSE UNCHANGED <<before, clean, out>>
  /\ UNCHANGED <<asked, requests, lost, own, whole, current_state, timer, mem,
                 send_packet, wait_packet>>

\* The event that enters RESP_PROC and with it executes the packet.
handles_packet == current_state = Machine!IDLE /\ top(stack) = REQUEST_RECEIVED

frame_handler ==
  IF handles_packet /\ rx.packet.command \div 64 = Service!REQUEST
  THEN Service!packet_handler([command    |-> rx.packet.command,
                               data       |-> rx.packet.data,
                               byte_order |-> rx.byte_order], recv_data)
  ELSE UNCHANGED <<mem, send_packet, wait_packet>>

\* A frame that no request has filled yet has length zero.
filled(packet, frame) == IF packet = NoPacket THEN <<>> ELSE frame

\* What the entry action of the new state transmits.
transmitted ==
  IF current_state' = current_state THEN <<>> ELSE
  CASE current_state' = Machine!RESP_PEND ->
         filled(wait_packet', Service!wait_frame_bytes(wait_packet'))
    [] current_state' = Machine!TX_PEND ->
         filled(send_packet', Service!send_frame_bytes(send_packet'))
    [] OTHER -> <<>>

\* One turn of the loop of MeloBackground.
Dispatch ==
  /\ UNCHANGED <<channel, rx, recv_data, before, clean>>
  /\ Machine!Dispatch
  /\ frame_handler
  /\ out' = out \o transmitted

BackgroundReturn ==
  /\ UNCHANGED <<channel, melo, data, out, before, clean>>
  /\ Machine!BackgroundReturn

Next ==
  \/ \E op \in Commands : Send(op)
  \/ \E op \in Commands, short \in ShortWrites : SendTwice(op, short) \/ SendThrows(op, short)
  \/ LoseByte
  \/ ReadByte \/ Dispatch \/ BackgroundReturn

Spec == Init /\ [][Next]_vars

\* loop() runs for ever.  Nothing makes the master ask.
FairSpec == Spec /\ WF_vars(ReadByte \/ Dispatch \/ BackgroundReturn)

------------------------------------------------------------------------------
TypeOK ==
  /\ line \in Seq(Byte) /\ lost \in 0 .. MaxLoss /\ requests \in 0 .. MaxRequests
  /\ requests > 0 => asked \in Commands
  /\ rx.buffer \in Seq(Byte) /\ rx.escape_buffer \in 0 .. 31
  /\ rx.packet.command \in Byte /\ rx.packet.data \in Seq(Byte)
  /\ stack \in Seq(Events) /\ Len(stack) < StackSize
  /\ current_state \in Machine!IDLE .. Machine!TX_PEND
  /\ mem \in [Service!Cells -> Byte] /\ before \in [Service!Cells -> Byte]
  /\ out \in Seq(Byte)

\* What was sent has been read, and loop() looks for the next byte.
finished == requests > 0 /\ line = <<>> /\ ~ running

\* The packets that a master at the other end makes of the bytes transmitted.
collect(state, byte) ==
  [rx      |-> rx_byte(state.rx, byte),
   packets |-> IF rx_notifies(state.rx, byte)
               THEN Append(state.packets, rx_byte(state.rx, byte).packet)
               ELSE state.packets]

collected == [rx |-> receiver_init, packets |-> <<>>]     \* before the first byte

packets(bytes) ==
  LET seen[n \in 0 .. Len(bytes)] ==
        IF n = 0 THEN collected ELSE collect(seen[n - 1], bytes[n])
  IN seen[Len(bytes)].packets

status_of(packet) == packet.command \div 64

\* Neither receive buffer is filled past its end (melo.c:546, 524), however the bytes
\* of two frames run into one another when one is lost between them.
BuffersHold == /\ Len(rx.buffer) <= MELO_MAX_FRAME_SIZE
               /\ Len(rx.packet.data) <= MAX_DATA

\* slave.ino leaves MeloBackground with nothing left over, after any byte of any
\* frame, whole or damaged: the byte it reads next meets an idle slave.
Quiescent == ~ running => current_state = Machine!IDLE /\ stack = <<>>

\* A request whose bytes all arrive, at a receiver without a left-over escape, is
\* executed on the memory it finds and answered by a pending and a final response
\* that a master can read, whatever became of the requests before it, and although
\* the master may have sent its beginning twice (serial_example.cc:41).
WholeRequestServed ==
  finished /\ whole /\ clean =>
    LET answers == packets(out) IN
    /\ Len(answers) = 2
    /\ status_of(answers[1]) = Service!PENDING
    /\ CASE asked.kind = "read" ->
              /\ status_of(answers[2]) = Service!POSITIVE
              /\ answers[2].data = [i \in 1 .. asked.size |-> before[asked.address + i - 1]]
              /\ mem = before
         [] asked.kind = "write" ->
              /\ status_of(answers[2]) = Service!POSITIVE
              /\ mem = [cell \in Service!Cells |->
                          IF cell \in asked.address .. asked.address + Len(asked.value) - 1
                          THEN Service!native(asked.value)[cell - asked.address + 1]
                          ELSE before[cell]]
         [] asked.kind = "other" ->
              /\ status_of(answers[2]) = Service!NEGATIVE
              /\ mem = before

\* The slave gets to the end of every request that arrives, and has transmitted
\* both responses by then.
EveryRequestAnswered ==
  \A n \in 1 .. MaxRequests :
    requests = n ~> finished /\ (whole /\ clean => Len(packets(out)) = 2)
================================================================================
