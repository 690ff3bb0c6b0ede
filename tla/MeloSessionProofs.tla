--------------------------- MODULE MeloSessionProofs ---------------------------
(***************************************************************************)
(* MeloSession, for every memory, every set of commands and every number   *)
(* of them.  In three parts, each with an invariant of its own:            *)
(*                                                                         *)
(* IInv: the events.  The transmission of a request has left one           *)
(* confirmation on the stack, and whatever bytes are fed to the receiver   *)
(* they put one event on top of it or none.                                *)
(*                                                                         *)
(* Types: bytes stay bytes, and no command asks for more of them than      *)
(* rx_frame_buffer has room for.                                           *)
(*                                                                         *)
(* Timely: where an answer is that comes whole and in time.  It is on the  *)
(* line, then at the head of the buffer, then, if nothing was in its way,  *)
(* in the packet that the master holds, then shown.                        *)
(***************************************************************************)
EXTENDS MeloSession, MeloFrameProofs

USE DEF Machine!IDLE, Machine!RESP_PROC, Machine!RESP_PEND, Machine!TX_PEND

\* The stack between the request and the state machine: the confirmation of the
\* request, and perhaps a packet.
Confirmed == <<TX_CONFIRMATION>>

Announced == <<TX_CONFIRMATION, REQUEST_RECEIVED>>

\* What MeloBackground may find, and what has been shown by then.
InBackground ==
  \/ current_state = Machine!IDLE /\ stack = Announced /\ shown = <<>>
  \/ current_state = Machine!IDLE /\ stack = Confirmed /\ shown = <<>>
  \/ current_state = Machine!IDLE /\ stack = <<>>
  \/ current_state \in {Machine!RESP_PEND, Machine!TX_PEND} /\ stack = Confirmed

IInv ==
  /\ phase \in {"prompt", "read", "receive", "background", "undefined"}
  /\ Len(shown) <= 1
  /\ phase = "prompt" => current_state = Machine!IDLE /\ stack = <<>>
  /\ phase \in {"read", "receive"} =>
       current_state = Machine!IDLE /\ stack = Confirmed /\ shown = <<>>
  /\ phase \in {"background", "undefined"} => InBackground

\* The two stacks as sequences: one comes from the other.
LEMMA TwoStacks ==
  /\ Append(Confirmed, REQUEST_RECEIVED) = Announced
  /\ SubSeq(Announced, 1, 1) = Confirmed /\ SubSeq(Confirmed, 1, 0) = <<>>
<1>1. /\ Confirmed \in Seq(Events) /\ Announced \in Seq(Events) /\ REQUEST_RECEIVED \in Events
      /\ Len(Confirmed) = 1 /\ Confirmed[1] = TX_CONFIRMATION
      /\ Len(Announced) = 2 /\ Announced[1] = TX_CONFIRMATION
      /\ Announced[2] = REQUEST_RECEIVED
  BY DEF Confirmed, Announced, Events
<1>2. Append(Confirmed, REQUEST_RECEIVED) = Announced
  BY AppendTwo DEF Confirmed, Announced
<1>5. PICK t : t = SubSeq(Announced, 1, 1)
  OBVIOUS
<1>6. t \in Seq(Events) /\ Len(t) = 1 /\ t[1] = TX_CONFIRMATION
  BY <1>1, <1>5
<1>7. t = Confirmed
  BY <1>1, <1>6
<1>8. SubSeq(Confirmed, 1, 0) = <<>>
  BY <1>1
<1>9. QED BY <1>2, <1>5, <1>7, <1>8

\* The operations of the event stack on the stacks that occur.
LEMMA Stacks ==
  /\ notify_event(<<>>, TX_CONFIRMATION) = Confirmed
  /\ notify_event(Confirmed, REQUEST_RECEIVED) = Announced
  /\ notify_event(Announced, REQUEST_RECEIVED) = Announced
  /\ top(Announced) = REQUEST_RECEIVED /\ top(Confirmed) = TX_CONFIRMATION
  /\ top(<<>>) # REQUEST_RECEIVED
  /\ Announced # <<>> /\ Confirmed # <<>> /\ Announced # Confirmed
<1>1. /\ Len(<<>>) # StackSize - 1 /\ Len(Confirmed) = 1 /\ Len(Announced) = 2
      /\ 1 # StackSize - 1 /\ 2 # StackSize - 1
  BY StackSizeAssumption DEF Confirmed, Announced
<1>2. /\ Append(<<>>, TX_CONFIRMATION) = Confirmed
      /\ Append(Confirmed, REQUEST_RECEIVED) = Announced
  BY TwoStacks DEF Confirmed
<1>3. /\ Announced[2] = REQUEST_RECEIVED /\ Confirmed[1] = TX_CONFIRMATION
      /\ Announced # <<>> /\ Confirmed # <<>> /\ Announced # Confirmed
  BY DEF Confirmed, Announced
<1>4. top(Announced) = REQUEST_RECEIVED /\ top(Confirmed) = TX_CONFIRMATION
      /\ top(<<>>) = EVENT_IDLE
  BY <1>1, <1>3 DEF top
<1>5. TX_CONFIRMATION # REQUEST_RECEIVED /\ EVENT_IDLE # REQUEST_RECEIVED
      /\ EVENT_IDLE # TX_CONFIRMATION
  BY DEF TX_CONFIRMATION, REQUEST_RECEIVED, EVENT_IDLE
<1>6. QED BY <1>1, <1>2, <1>3, <1>4, <1>5 DEF notify_event, is_full

\* The same of the copies that the state machine has.
LEMMA MachineStacks ==
  /\ Machine!TX_CONFIRMATION = TX_CONFIRMATION /\ Machine!REQUEST_RECEIVED = REQUEST_RECEIVED
  /\ TX_CONFIRMATION # REQUEST_RECEIVED
  /\ \A s : Machine!top(s) = top(s)
  /\ Machine!popped(Announced) = Confirmed /\ Machine!popped(Confirmed) = <<>>
  /\ Machine!notify_event(<<>>, TX_CONFIRMATION) = Confirmed
  /\ Machine!notify_event(Confirmed, TX_CONFIRMATION) = Confirmed
<1>1. /\ Machine!TX_CONFIRMATION = TX_CONFIRMATION
      /\ Machine!REQUEST_RECEIVED = REQUEST_RECEIVED
      /\ TX_CONFIRMATION # REQUEST_RECEIVED
      /\ \A s : Machine!top(s) = top(s)
  BY DEF Machine!TX_CONFIRMATION, TX_CONFIRMATION, Machine!REQUEST_RECEIVED, REQUEST_RECEIVED,
         Machine!top, top, Machine!EVENT_IDLE, EVENT_IDLE
<1>2. \A s, e : Machine!notify_event(s, e) = notify_event(s, e)
  BY <1>1 DEF Machine!notify_event, notify_event, Machine!is_full, is_full
<1>3. Machine!popped(Announced) = Confirmed /\ Machine!popped(Confirmed) = <<>>
  <2>1. /\ Announced # <<>> /\ Len(Announced) = 2 /\ Len(Announced) - 1 = 1
        /\ Confirmed # <<>> /\ Len(Confirmed) = 1 /\ Len(Confirmed) - 1 = 0
    BY DEF Announced, Confirmed
  <2>2. QED BY <2>1, TwoStacks DEF Machine!popped
<1>4. notify_event(Confirmed, TX_CONFIRMATION) = Confirmed
  BY Stacks DEF notify_event
<1>5. QED BY <1>1, <1>2, <1>3, <1>4, Stacks

------------------------------------------------------------------------------
(* The loop of MeloReceiveBytes *)

\* g is the function that MeloReceiveBytes looks for, as far as the m-th byte.
IsFeeding(g, m) ==
  g = [n \in 0 .. m |-> IF n = 0 THEN [rx |-> rx, stack |-> stack]
                                 ELSE receive(g[n - 1], rx_frame_buffer[n])]

\* There is one, however many bytes it is given.
LEMMA FeedingExists == \A m \in Nat : \E g : IsFeeding(g, m)
<1> DEFINE S == {m \in Nat : \E g : IsFeeding(g, m)}
<1>1. 0 \in S
  <2> DEFINE g == [n \in 0 .. 0 |-> [rx |-> rx, stack |-> stack]]
  <2>1. IsFeeding(g, 0)
    BY DEF IsFeeding
  <2>2. QED BY <2>1
<1>2. ASSUME NEW m \in Nat, m \in S PROVE m + 1 \in S
  <2>1. PICK g : IsFeeding(g, m)
    BY <1>2
  <2> DEFINE g2 == [n \in 0 .. m + 1 |->
                      IF n = m + 1 THEN receive(g[m], rx_frame_buffer[m + 1]) ELSE g[n]]
  <2>2. ASSUME NEW n \in 0 .. m + 1
        PROVE  g2[n] = IF n = 0 THEN [rx |-> rx, stack |-> stack]
                                ELSE receive(g2[n - 1], rx_frame_buffer[n])
    <3>1. CASE n = m + 1
      <4>1. n # 0 /\ n - 1 = m /\ g2[m] = g[m]
        BY <3>1
      <4>2. QED BY <3>1, <4>1
    <3>2. CASE n \in 1 .. m
      <4>1. g2[n] = g[n] /\ g2[n - 1] = g[n - 1]
        BY <3>2
      <4>2. g[n] = receive(g[n - 1], rx_frame_buffer[n])
        BY <2>1, <3>2 DEF IsFeeding
      <4>3. QED BY <3>2, <4>1, <4>2
    <3>3. CASE n = 0
      BY <2>1, <3>3 DEF IsFeeding
    <3>4. QED BY <3>1, <3>2, <3>3
  <2>3. IsFeeding(g2, m + 1)
    <3> HIDE DEF g2
    <3>1. g2 = [n \in 0 .. m + 1 |-> g2[n]]
      BY DEF g2
    <3>2. QED BY <2>2, <3>1 DEF IsFeeding
  <2>4. QED BY <2>3
<1> HIDE DEF S
<1>3. Nat \subseteq S
  BY <1>1, <1>2, NatInd
<1>4. QED BY <1>3 DEF S

\* The states that the receiver and the stack go through, byte by byte.
Feeds(h) ==
  /\ h[0] = [rx |-> rx, stack |-> stack]
  /\ \A i \in 1 .. read_size : h[i] = receive(h[i - 1], rx_frame_buffer[i])

\* What MeloReceiveBytes does is what the last of them has (melo.c:173).
LEMMA FeedingTurns ==
  ASSUME MeloReceiveBytes, read_size \in Nat
  PROVE  \E h : Feeds(h) /\ rx' = h[read_size].rx /\ stack' = h[read_size].stack
<1> DEFINE h == CHOOSE g : IsFeeding(g, read_size)
<1>1. IsFeeding(h, read_size)
  BY FeedingExists
<1>2. rx' = h[read_size].rx /\ stack' = h[read_size].stack
  BY DEF MeloReceiveBytes, IsFeeding
<1> HIDE DEF h
<1>3. Feeds(h)
  BY <1>1 DEF IsFeeding, Feeds
<1>4. QED BY <1>2, <1>3

\* Frames of any kind put one event on the stack, and it stays there (melo.c:281).
LEMMA OneEvent ==
  ASSUME NEW h, Feeds(h), stack = Confirmed, NEW size \in Nat, size = read_size
  PROVE  /\ \A i \in 0 .. size : h[i].stack \in {Confirmed, Announced}
         /\ \A n \in 0 .. size : h[n].stack = Announced => h[size].stack = Announced
<1>1. ASSUME NEW i \in Nat, i + 1 <= size
      PROVE  h[i + 1].stack \in {h[i].stack, notify_event(h[i].stack, REQUEST_RECEIVED)}
  <2>1. i + 1 \in 1 .. size /\ (i + 1) - 1 = i
    BY <1>1
  <2>2. h[i + 1] = receive(h[i], rx_frame_buffer[i + 1])
    BY <2>1 DEF Feeds
  <2>3. QED BY <2>2 DEF receive
<1>2. \A i \in 0 .. size : h[i].stack \in {Confirmed, Announced}
  <2> DEFINE S == {i \in Nat : i <= size => h[i].stack \in {Confirmed, Announced}}
  <2>1. 0 \in S
    BY DEF Feeds
  <2>2. ASSUME NEW i \in Nat, i \in S PROVE i + 1 \in S
    <3>1. i + 1 <= size => h[i].stack \in {Confirmed, Announced}
      BY <2>2
    <3>2. QED BY <1>1, <3>1, Stacks
  <2> HIDE DEF S
  <2>3. Nat \subseteq S
    BY <2>1, <2>2, NatInd
  <2>4. QED BY <2>3 DEF S
<1>3. ASSUME NEW n \in 0 .. size, h[n].stack = Announced PROVE h[size].stack = Announced
  <2> DEFINE S == {k \in Nat : n + k <= size => h[n + k].stack = Announced}
  <2>1. 0 \in S
    <3>1. n + 0 = n
      OBVIOUS
    <3>2. QED BY <1>3, <3>1
  <2>2. ASSUME NEW k \in Nat, k \in S PROVE k + 1 \in S
    <3>1. PICK i \in Nat : i = n + k
      OBVIOUS
    <3>2. n + (k + 1) = i + 1 /\ (i + 1 <= size => i <= size)
      BY <3>1
    <3>3. i + 1 <= size => h[i].stack = Announced
      BY <2>2, <3>1, <3>2
    <3>4. i + 1 <= size => h[i + 1].stack = Announced
      BY <1>1, <3>3, Stacks
    <3>5. QED BY <3>2, <3>4
  <2> HIDE DEF S
  <2>3. Nat \subseteq S
    BY <2>1, <2>2, NatInd
  <2>4. PICK k \in Nat : k = size - n
    OBVIOUS
  <2>5. n + k = size /\ k \in S
    BY <2>3, <2>4
  <2>6. QED BY <2>5 DEF S
<1>4. QED BY <1>2, <1>3

------------------------------------------------------------------------------
(* Events *)

\* An event is taken from the stack.
LEMMA DispatchCases ==
  ASSUME IInv, Dispatch
  PROVE  /\ phase = "background" /\ phase' = phase
         /\ \/ /\ handles_packet
               /\ current_state = Machine!IDLE /\ stack = Announced /\ shown = <<>>
               /\ current_state' = Machine!RESP_PEND /\ stack' = Confirmed
               /\ shown' = shown \/ shown' = <<rx.packet>>
            \/ /\ ~ handles_packet
               /\ current_state = Machine!IDLE /\ stack = Confirmed
               /\ current_state' = Machine!IDLE /\ stack' = <<>>
               /\ shown' = shown
            \/ /\ ~ handles_packet
               /\ current_state = Machine!RESP_PEND /\ stack = Confirmed
               /\ current_state' = Machine!TX_PEND /\ stack' = Confirmed
               /\ shown' = shown
            \/ /\ ~ handles_packet
               /\ current_state = Machine!TX_PEND /\ stack = Confirmed
               /\ current_state' = Machine!IDLE /\ stack' = <<>>
               /\ shown' = shown
<1>1. /\ Machine!Dispatch /\ phase = "background" /\ phase' = phase /\ stack # <<>>
      /\ packet_handler /\ InBackground
  BY DEF Dispatch, Machine!Dispatch, IInv
<1>2. ~ handles_packet => shown' = shown
  BY <1>1 DEF packet_handler
<1>3. CASE current_state = Machine!IDLE /\ stack = Announced
  <2>1. Machine!IDLE_during(REQUEST_RECEIVED, Confirmed)
    BY <1>1, <1>3, Stacks, MachineStacks DEF Machine!Dispatch
  <2>2. current_state' = 2 /\ stack' = Confirmed
    BY <2>1, MachineStacks DEF Machine!IDLE_during, Machine!state_transition,
                               Machine!MeloTransmitBytes
  <2>3. handles_packet
    BY <1>3, Stacks DEF handles_packet
  <2>4. shown = <<>>
    BY <1>1, <1>3, Stacks DEF InBackground
  <2>5. shown' = shown \/ shown' = <<rx.packet>>
    <3>1. Append(<<>>, rx.packet) = <<rx.packet>>
      OBVIOUS
    <3>2. QED BY <1>1, <2>4, <3>1 DEF packet_handler
  <2>6. QED BY <1>1, <1>3, <2>2, <2>3, <2>4, <2>5
<1>4. CASE current_state = Machine!IDLE /\ stack = Confirmed
  <2>1. Machine!IDLE_during(TX_CONFIRMATION, <<>>)
    BY <1>1, <1>4, Stacks, MachineStacks DEF Machine!Dispatch
  <2>2. current_state' = current_state /\ stack' = <<>>
    BY <2>1, MachineStacks DEF Machine!IDLE_during, Machine!no_transition
  <2>3. ~ handles_packet
    BY <1>4, Stacks, MachineStacks DEF handles_packet
  <2>4. QED BY <1>1, <1>2, <1>4, <2>2, <2>3
<1>5. CASE current_state = Machine!RESP_PEND /\ stack = Confirmed
  <2>1. Machine!RESP_PEND_during(TX_CONFIRMATION, <<>>)
    BY <1>1, <1>5, Stacks, MachineStacks DEF Machine!Dispatch
  <2>2. current_state' = 3 /\ stack' = Confirmed
    BY <2>1, MachineStacks DEF Machine!RESP_PEND_during, Machine!state_transition,
                               Machine!MeloTransmitBytes
  <2>3. ~ handles_packet
    BY <1>5 DEF handles_packet
  <2>4. QED BY <1>1, <1>2, <1>5, <2>2, <2>3
<1>6. CASE current_state = Machine!TX_PEND /\ stack = Confirmed
  <2>1. Machine!TX_PEND_during(TX_CONFIRMATION, <<>>)
    BY <1>1, <1>6, Stacks, MachineStacks DEF Machine!Dispatch
  <2>2. current_state' = 0 /\ stack' = <<>>
    BY <2>1, MachineStacks DEF Machine!TX_PEND_during, Machine!state_transition
  <2>3. ~ handles_packet
    BY <1>6 DEF handles_packet
  <2>4. QED BY <1>1, <1>2, <1>6, <2>2, <2>3
<1>7. QED BY <1>1, <1>3, <1>4, <1>5, <1>6 DEF InBackground

\* Each step of main() and of MeloBackground keeps the events in order.
LEMMA NextIInv == IInv /\ read_size \in Nat /\ [Next]_vars => IInv'
<1> SUFFICES ASSUME IInv, read_size \in Nat, [Next]_vars PROVE IInv'
  OBVIOUS
<1>0. Len(<<>>) <= 1 /\ \A p : Len(<<p>>) <= 1
  OBVIOUS
<1>1. ASSUME UNCHANGED <<stack, current_state, shown, phase>> PROVE IInv'
  BY <1>1 DEF IInv, InBackground
<1>2. CASE Arrive
  BY <1>1, <1>2 DEF Arrive, melo
<1>3. ASSUME NEW op \in Commands, NEW lost \in BOOLEAN, Ask(op, lost) PROVE IInv'
  <2>1. /\ phase = "prompt" /\ phase' = "read" /\ shown' = <<>>
        /\ current_state' = current_state
        /\ stack' = notify_event(stack, TX_CONFIRMATION)
    BY <1>3 DEF Ask
  <2>2. QED BY <1>0, <2>1, Stacks DEF IInv
<1>4. CASE Read
  BY <1>4 DEF Read, melo, IInv
<1>5. CASE MeloReceiveBytes
  <2>1. PICK h : Feeds(h) /\ stack' = h[read_size].stack
    BY <1>5, FeedingTurns
  <2>2. /\ phase = "receive" /\ phase' = "background" /\ shown' = shown
        /\ current_state' = current_state
    BY <1>5 DEF MeloReceiveBytes
  <2>3. stack' \in {Confirmed, Announced}
    <3>1. PICK size \in Nat : size = read_size
      OBVIOUS
    <3>2. stack = Confirmed /\ size \in 0 .. size
      BY <2>2, <3>1 DEF IInv
    <3>3. QED BY <2>1, <3>1, <3>2, OneEvent
  <2>4. QED BY <2>2, <2>3 DEF IInv, InBackground
<1>6. CASE Dispatch
  BY <1>0, <1>6, DispatchCases, Stacks DEF IInv, InBackground
<1>7. CASE ServeGarbage
  BY <1>7 DEF ServeGarbage, melo, IInv, InBackground
<1>8. CASE BackgroundReturn
  <2>1. /\ phase = "background" /\ phase' = "prompt" /\ stack = <<>>
        /\ UNCHANGED <<stack, current_state, shown>>
    BY <1>8 DEF BackgroundReturn, melo
  <2>2. current_state = Machine!IDLE
    BY <2>1, Stacks DEF IInv, InBackground
  <2>3. QED BY <2>1, <2>2 DEF IInv
<1>9. CASE UNCHANGED vars
  BY <1>1, <1>9 DEF vars, melo
<1>10. QED BY <1>2, <1>3, <1>4, <1>5, <1>6, <1>7, <1>8, <1>9 DEF Next

------------------------------------------------------------------------------
(* The slave and its frames *)

HIDE DEF Machine!IDLE, Machine!RESP_PROC, Machine!RESP_PEND, Machine!TX_PEND

\* What is proved of MeloService holds of Slave, whose assumptions are among those
\* of MeloSession.
Proofs == INSTANCE MeloServiceProofs WITH Values <- Written

\* What MeloService assumes of its constants holds for those that MeloSession gives it.
LEMMA ServiceAssumptions ==
  Proofs!MemoryAssumption /\ Proofs!OrderAssumption /\ Proofs!DataAssumption
<1>1. Proofs!Byte = Byte
  BY DEF Byte, Proofs!Byte
<1>2. \A value \in Written : value \in Seq(Byte) /\ Len(value) \in {1, 2, 4}
  BY CommandsAssumption
<1>3. QED BY <1>1, <1>2, CommandsAssumption, DataAssumption
         DEF Proofs!MemoryAssumption, Proofs!OrderAssumption, Proofs!DataAssumption

\* The frames of MeloService are those of MeloFrame.
LEMMA SameFrames ==
  ASSUME NEW cmd, NEW bytes, NEW order, NEW crc_present
  PROVE  /\ Slave!serialize_frame(cmd, bytes, order, crc_present) =
              serialize_frame(cmd, bytes, order, crc_present)
         /\ Proofs!serialize_frame(cmd, bytes, order, crc_present) =
              serialize_frame(cmd, bytes, order, crc_present)
<1>1. Slave!serialize_frame(cmd, bytes, order, crc_present) =
        serialize_frame(cmd, bytes, order, crc_present)
  BY DEF serialize_frame, Slave!serialize_frame, create_cmd_byte, Slave!create_cmd_byte,
         create_r, Slave!create_r, serialize_data, Slave!serialize_data,
         serialize_byte, Slave!serialize_byte, is_control, Slave!is_control,
         is_set, Slave!is_set, bit, Slave!bit, BIT_SET, Slave!BIT_SET,
         BIT_CLEAR, Slave!BIT_CLEAR, ESCAPE_BYTE, Slave!ESCAPE_BYTE,
         NUM_ESCAPE_BYTES, Slave!NUM_ESCAPE_BYTES, HEAD, Slave!HEAD, TAIL, Slave!TAIL,
         CRC, Slave!CRC, FRAME_ENDIAN, Slave!FRAME_ENDIAN,
         FRAME_ESCAPE, Slave!FRAME_ESCAPE, FRAME_RESERVED, Slave!FRAME_RESERVED,
         FRAME_CRC, Slave!FRAME_CRC, FRAME_MARKER, Slave!FRAME_MARKER
<1>2. Proofs!serialize_frame(cmd, bytes, order, crc_present) =
        serialize_frame(cmd, bytes, order, crc_present)
  BY DEF serialize_frame, Proofs!serialize_frame, create_cmd_byte, Proofs!create_cmd_byte,
         create_r, Proofs!create_r, serialize_data, Proofs!serialize_data,
         serialize_byte, Proofs!serialize_byte, is_control, Proofs!is_control,
         is_set, Proofs!is_set, bit, Proofs!bit, BIT_SET, Proofs!BIT_SET,
         BIT_CLEAR, Proofs!BIT_CLEAR, ESCAPE_BYTE, Proofs!ESCAPE_BYTE,
         NUM_ESCAPE_BYTES, Proofs!NUM_ESCAPE_BYTES, HEAD, Proofs!HEAD, TAIL, Proofs!TAIL,
         CRC, Proofs!CRC, FRAME_ENDIAN, Proofs!FRAME_ENDIAN,
         FRAME_ESCAPE, Proofs!FRAME_ESCAPE, FRAME_RESERVED, Proofs!FRAME_RESERVED,
         FRAME_CRC, Proofs!FRAME_CRC, FRAME_MARKER, Proofs!FRAME_MARKER
<1>3. QED BY <1>1, <1>2

\* The frames of the two answers.
LEMMA AnswerFrames ==
  ASSUME NEW packet
  PROVE  /\ Slave!send_frame_bytes(packet) =
              serialize_frame(packet.command, packet.data, PE, FALSE)
         /\ Slave!wait_frame_bytes(packet) =
              serialize_frame(packet.command, packet.data, PE, FALSE)
         /\ Proofs!send_frame_bytes(packet) =
              serialize_frame(packet.command, packet.data, PE, FALSE)
  BY SameFrames DEF Slave!send_frame_bytes, Slave!wait_frame_bytes, Proofs!send_frame_bytes

\* The operators of MeloService in Slave and in Proofs.
LEMMA SameBytes == Proofs!Byte = Byte
  BY DEF Byte, Proofs!Byte

\* The requests of a master.
LEMMA SameRequests ==
  /\ Proofs!Reads = Slave!Reads /\ Proofs!Writes = Slave!Writes
  /\ \A op : Proofs!request(op) = Slave!request(op)
  BY DEF Proofs!Reads, Slave!Reads, Proofs!Writes, Slave!Writes,
         Proofs!Cells, Slave!Cells, Proofs!request, Slave!request,
         Proofs!command, Slave!command, Proofs!SizeCode, Slave!SizeCode,
         Proofs!REQUEST, Slave!REQUEST, Proofs!address_bytes, Slave!address_bytes

\* The services.
LEMMA SameServices ==
  /\ \A buffer, bytes : Proofs!unpacked(buffer, bytes) = Slave!unpacked(buffer, bytes)
  /\ \A packet, buffer : Proofs!service(packet, buffer) = Slave!service(packet, buffer)
<1>1. \A buffer, bytes : Proofs!unpacked(buffer, bytes) = Slave!unpacked(buffer, bytes)
  BY DEF Proofs!unpacked, Slave!unpacked, Proofs!NUM_SERVICE_BYTES, Slave!NUM_SERVICE_BYTES
<1>2. \A packet, buffer : Proofs!service(packet, buffer) = Slave!service(packet, buffer)
  BY DEF Slave!service, Proofs!service, Slave!service_of, Proofs!service_of,
         Slave!service_read_write, Proofs!service_read_write,
         Slave!create_pointer, Proofs!create_pointer, Slave!esafe, Proofs!esafe,
         Slave!subfunction_of, Proofs!subfunction_of, Slave!data_size, Proofs!data_size,
         Slave!store, Proofs!store, Slave!native, Proofs!native, Slave!peek, Proofs!peek,
         Slave!Cells, Proofs!Cells, Slave!service_NULL, Proofs!service_NULL,
         Slave!Reverse, Proofs!Reverse
<1>3. QED BY <1>1, <1>2

\* A request does the same in both.
LEMMA SameStep ==
  ASSUME NEW op, Slave!Request(op)
  PROVE  Proofs!Request(op)
<1>1. \A packet : Proofs!announced(packet) = Slave!announced(packet)
  BY AnswerFrames DEF Proofs!announced, Slave!announced, Proofs!create_r, Slave!create_r
<1>2. \A byte, status : Proofs!with_status(byte, status) = Slave!with_status(byte, status)
  BY DEF Proofs!with_status, Slave!with_status
<1>3. /\ Proofs!POSITIVE = Slave!POSITIVE /\ Proofs!NEGATIVE = Slave!NEGATIVE
      /\ Proofs!PENDING = Slave!PENDING
  BY DEF Proofs!POSITIVE, Slave!POSITIVE, Proofs!NEGATIVE, Slave!NEGATIVE,
         Proofs!PENDING, Slave!PENDING
<1>4. /\ asked' = op /\ recv_data' = Proofs!unpacked(recv_data, Proofs!request(op).data)
      /\ Slave!packet_handler(Slave!request(op), recv_data')
  BY SameServices, SameRequests DEF Slave!Request
<1>5. Proofs!packet_handler(Proofs!request(op), recv_data')
  BY <1>1, <1>2, <1>3, <1>4, SameServices, SameRequests
     DEF Slave!packet_handler, Proofs!packet_handler
<1>6. QED BY <1>4, <1>5 DEF Proofs!Request

\* What the user can ask for.
LEMMA AskedFor ==
  ASSUME NEW op \in Commands
  PROVE  op \in Proofs!Reads \cup Proofs!Writes /\ op \in Proofs!Operations
BY CommandsAssumption, SameRequests DEF Proofs!Operations

\* The frame of a request, and room for the answer behind it, in rx_frame_buffer.
LEMMA RequestFrames ==
  ASSUME NEW op \in Commands, NEW packet, packet = Slave!request(op)
  PROVE  Len(serialize_frame(packet.command, packet.data, HE, FALSE)) \in 8 .. 20
<1>1. op \in Proofs!Reads \cup Proofs!Writes \cup Proofs!Others /\ op \in Proofs!Operations
  BY AskedFor
<1>2. packet = Proofs!request(op)
  BY SameRequests
<1>3. packet \in [byte_order : {0, 1}, command : 0 .. 31, data : Seq(Byte)]
  BY <1>1, <1>2, ServiceAssumptions, SameBytes, Proofs!RequestTypes
<1>4. Len(packet.data) \in 4 .. 8
  BY <1>1, <1>2, ServiceAssumptions, Proofs!RequestLength
<1>5. PICK cmd \in 0 .. 31 : cmd = packet.command
  BY <1>3
<1>6. PICK bytes \in Seq(Byte) : bytes = packet.data
  BY <1>3
<1>7. cmd \in Byte /\ ~ is_control(cmd)
  <2>1. cmd \in Byte /\ ~ ((cmd \div 32) % 2 = 1)
    BY DEF Byte
  <2>2. QED BY <2>1, Bits
<1>8. PICK crc_present \in BOOLEAN : crc_present = FALSE
  OBVIOUS
<1>9. PICK F : F = serialize_frame(cmd, bytes, HE, crc_present)
  OBVIOUS
<1>10. PICK n : n = Len(content(cmd, bytes, crc_present))
  OBVIOUS
<1>11. HE \in {0, 1}
  BY CommandsAssumption
<1>12. Len(F) \in n + 2 .. 2 * n /\ n = Len(bytes) + 2 + (IF crc_present THEN 1 ELSE 0)
  BY <1>7, <1>9, <1>10, <1>11, FramesAreFrames
<1>13. PICK m \in 4 .. 8 : m = Len(bytes)
  BY <1>4, <1>6
<1>14. n = m + 2
  BY <1>8, <1>12, <1>13
<1>15. PICK l : l = Len(F)
  OBVIOUS
<1>16. l \in m + 4 .. 2 * (m + 2)
  <2>1. l \in n + 2 .. 2 * n
    BY <1>12, <1>15
  <2>2. n + 2 = m + 4 /\ 2 * n = 2 * (m + 2)
    BY <1>14
  <2>3. QED BY <2>1, <2>2, Zenon
<1>17. l \in 8 .. 20
  BY <1>16
<1>18. QED BY <1>5, <1>6, <1>8, <1>9, <1>15, <1>17

------------------------------------------------------------------------------
(* Types *)

Packet == [command : Byte, data : Seq(Byte)]

Types ==
  /\ IInv
  /\ Proofs!AnswerInv
  /\ in_flight \in Seq(Byte) /\ input \in Seq(Byte)
  /\ rx \in Receivers
  /\ rx_frame_buffer \in [1 .. RX_SIZE -> Byte]
  /\ frame_length \in 0 .. 20
  /\ phase \in {"read", "receive"} => frame_length >= 8
  /\ got \in 0 .. RX_SIZE
  /\ shown \in Seq(Packet)

\* main() never asks for more than there is room for, and always for more than an
\* answer has.
LEMMA ReadSize ==
  ASSUME Types
  PROVE  /\ read_size \in 0 .. RX_SIZE /\ read_size \in Nat
         /\ phase \in {"read", "receive"} => read_size >= 14
<1>1. frame_length \in 0 .. 20 /\ (phase \in {"read", "receive"} => frame_length >= 8)
  BY DEF Types
<1>2. PICK l \in 0 .. 20 : l = frame_length
  BY <1>1
<1>3. read_size = l + 6
  BY <1>2 DEF read_size
<1>4. l + 6 \in 0 .. 30 /\ l + 6 \in Nat /\ (l >= 8 => l + 6 >= 14)
  OBVIOUS
<1>5. QED BY <1>1, <1>2, <1>3, <1>4 DEF RX_SIZE

\* What the slave sends are bytes.
LEMMA AnswerBytes ==
  ASSUME Proofs!AnswerInv
  PROVE  answer_bytes(wait_packet, send_packet) \in Seq(Byte)
<1>1. /\ send_packet.command \in Byte /\ send_packet.data \in Seq(Byte)
      /\ wait_packet.command \in Byte /\ wait_packet.data \in Seq(Byte)
  BY SameBytes DEF Proofs!AnswerInv, Proofs!Codes
<1>2. PE \in {0, 1}
  BY CommandsAssumption
<1>3. /\ Slave!send_frame_bytes(send_packet) \in Seq(Byte)
      /\ Slave!wait_frame_bytes(wait_packet) \in Seq(Byte)
  BY <1>1, <1>2, AnswerFrames, FrameBytes
<1>4. QED BY <1>3, ConcatProperties DEF answer_bytes

\* The invariant of the slave.
LEMMA SlaveInv ==
  /\ Slave!Init => Proofs!AnswerInv
  /\ \A op \in Commands : Proofs!AnswerInv /\ Slave!Request(op) => Proofs!AnswerInv'
  /\ Proofs!AnswerInv /\ UNCHANGED slave => Proofs!AnswerInv'
<1>1. ASSUME Slave!Init PROVE Proofs!AnswerInv
  <2>1. /\ asked = [kind |-> "none"] /\ mem = [cell \in Proofs!Cells |-> 0]
        /\ recv_data = [i \in 1 .. Proofs!NUM_SERVICE_BYTES |-> 0]
        /\ send_packet = Proofs!NoPacket /\ wait_packet = Proofs!NoPacket
    BY <1>1 DEF Slave!Init, Slave!NUM_SERVICE_BYTES, Proofs!NUM_SERVICE_BYTES,
                Slave!Cells, Proofs!Cells, Slave!NoPacket, Proofs!NoPacket
  <2>2. 0 \in Proofs!Codes /\ 0 \in Proofs!Byte /\ <<>> \in Seq(Proofs!Byte) /\ Len(<<>>) <= 4
    BY DEF Proofs!Codes, Proofs!Byte
  <2>3. Proofs!NoPacket \in [command : Proofs!Codes, data : Seq(Proofs!Byte)]
        /\ Proofs!NoPacket.data = <<>>
    BY <2>2 DEF Proofs!NoPacket
  <2>4. Proofs!IInv
    BY <2>1, <2>2, <2>3 DEF Proofs!IInv
  <2>5. QED BY <2>1, <2>2, <2>3, <2>4 DEF Proofs!AnswerInv
<1>2. ASSUME NEW op \in Commands, Proofs!AnswerInv, Slave!Request(op) PROVE Proofs!AnswerInv'
  <2>1. op \in Proofs!Operations /\ Proofs!Request(op)
    BY <1>2, AskedFor, SameStep
  <2>2. QED BY <1>2, <2>1, ServiceAssumptions, Proofs!RequestInv
<1>3. ASSUME Proofs!AnswerInv, UNCHANGED slave PROVE Proofs!AnswerInv'
  BY <1>3 DEF slave, Proofs!AnswerInv, Proofs!IInv, Proofs!announced, Proofs!send_frame_bytes
<1>4. QED BY <1>1, <1>2, <1>3

\* Whatever bytes are fed to it, the receiver stays a receiver.
LEMMA FeedTypes ==
  ASSUME NEW h, Feeds(h), rx \in Receivers, rx_frame_buffer \in [1 .. RX_SIZE -> Byte],
         read_size \in 0 .. RX_SIZE
  PROVE  \A i \in 0 .. read_size : h[i].rx \in Receivers
<1> DEFINE S == {i \in Nat : i <= read_size => h[i].rx \in Receivers}
<1>0. RX_SIZE = 30
  BY DEF RX_SIZE
<1>1. 0 \in S
  BY DEF Feeds
<1>2. ASSUME NEW i \in Nat, i \in S PROVE i + 1 \in S
  <2> SUFFICES ASSUME i + 1 <= read_size PROVE h[i + 1].rx \in Receivers
    OBVIOUS
  <2>1. i + 1 \in 1 .. read_size /\ (i + 1) - 1 = i /\ i <= read_size /\ i + 1 \in 1 .. RX_SIZE
    BY <1>0
  <2>2. h[i + 1] = receive(h[i], rx_frame_buffer[i + 1])
    BY <2>1 DEF Feeds
  <2>3. h[i + 1].rx = rx_byte(h[i].rx, rx_frame_buffer[i + 1])
    BY <2>2 DEF receive
  <2>4. h[i].rx \in Receivers /\ rx_frame_buffer[i + 1] \in Byte
    BY <1>2, <2>1
  <2>5. QED BY <2>3, <2>4, RxType
<1> HIDE DEF S
<1>3. Nat \subseteq S
  BY <1>1, <1>2, NatInd
<1>4. QED BY <1>0, <1>3 DEF S

\* The session starts with bytes everywhere.
LEMMA InitTypes == Init => Types
<1> SUFFICES ASSUME Init PROVE Types
  OBVIOUS
<1>1. IInv
  <2>1. Len(<<>>) <= 1
    OBVIOUS
  <2>2. QED BY <2>1 DEF Init, IInv, Machine!IDLE
<1>2. Proofs!AnswerInv
  BY SlaveInv DEF Init
<1>3. rx \in Receivers
  BY InitType DEF Init
<1>4. rx_frame_buffer \in [1 .. RX_SIZE -> Byte]
  BY SessionAssumption DEF Init
<1>5. <<>> \in Seq(Byte) /\ <<>> \in Seq(Packet)
  OBVIOUS
<1>6. QED BY <1>1, <1>2, <1>3, <1>4, <1>5 DEF Init, Types, RX_SIZE

\* A byte arrives.
LEMMA ArriveTypes == Types /\ Arrive => Types'
<1> SUFFICES ASSUME Types, Arrive PROVE Types'
  OBVIOUS
<1>1. /\ in_flight # <<>> /\ input' = Append(input, Head(in_flight))
      /\ in_flight' = Tail(in_flight)
      /\ UNCHANGED <<slave, rx_frame_buffer, rx, melo, phase, frame_length, got, shown>>
  BY DEF Arrive
<1>2. in_flight' \in Seq(Byte) /\ input' \in Seq(Byte)
  BY <1>1, HeadTailProperties, AppendProperties DEF Types
<1>3. IInv'
  BY <1>1 DEF Types, IInv, InBackground, melo
<1>4. Proofs!AnswerInv'
  BY <1>1, SlaveInv DEF Types
<1>5. QED BY <1>1, <1>2, <1>3, <1>4 DEF Types

\* The user asks.
LEMMA AskTypes ==
  ASSUME Types, IInv', NEW op \in Commands, NEW lost \in BOOLEAN, Ask(op, lost)
  PROVE  Types'
<1>1. /\ frame_length' = Len(serialize_frame(Slave!request(op).command,
                                            Slave!request(op).data, HE, FALSE))
      /\ phase' = "read" /\ shown' = <<>>
      /\ UNCHANGED <<input, rx_frame_buffer, rx, got>>
  BY DEF Ask
<1>2. frame_length' \in 8 .. 20
  BY <1>1, RequestFrames
<1>3. Proofs!AnswerInv' /\ in_flight' \in Seq(Byte)
  <2>1. CASE lost
    BY <2>1, SlaveInv DEF Ask, Types
  <2>2. CASE ~ lost
    <3>1. /\ Slave!Request(op)
          /\ in_flight' = in_flight \o answer_bytes(wait_packet', send_packet')
      BY <2>2 DEF Ask
    <3>2. Proofs!AnswerInv'
      BY <3>1, SlaveInv DEF Types
    <3>3. answer_bytes(wait_packet', send_packet') \in Seq(Byte)
      <4>1. Proofs!AnswerInv => answer_bytes(wait_packet, send_packet) \in Seq(Byte)
        BY AnswerBytes
      <4>2. (Proofs!AnswerInv => answer_bytes(wait_packet, send_packet) \in Seq(Byte))'
        BY AnswerBytes, PTL
      <4>3. QED BY <3>2, <4>2 DEF answer_bytes, Slave!wait_frame_bytes, Slave!send_frame_bytes
    <3>4. in_flight' \in Seq(Byte)
      BY <3>1, <3>3, ConcatProperties DEF Types
    <3>5. QED BY <3>2, <3>4
  <2>3. QED BY <2>1, <2>2
<1>4. <<>> \in Seq(Packet)
  OBVIOUS
<1>5. frame_length' \in 0 .. 20 /\ frame_length' >= 8
  BY <1>2
<1>6. QED BY <1>1, <1>3, <1>4, <1>5 DEF Types

\* main() reads what has come, as far as it asked for it.
LEMMA ReadTypes ==
  ASSUME Types, IInv', Read
  PROVE  Types'
<1>1. PICK l \in Nat : l = Len(input)
  BY DEF Types
<1>2. PICK n : n = IF Len(input) < read_size THEN Len(input) ELSE read_size
  OBVIOUS
<1>3. /\ got' = n
      /\ rx_frame_buffer' = [i \in 1 .. RX_SIZE |->
                               IF i <= n THEN input[i] ELSE rx_frame_buffer[i]]
      /\ input' = SubSeq(input, n + 1, Len(input))
      /\ phase' = "receive" /\ phase = "read"
      /\ UNCHANGED <<slave, in_flight, rx, frame_length, shown>>
  BY <1>2 DEF Read
<1>4. PICK m \in 0 .. 30 : m = read_size
  BY ReadSize DEF RX_SIZE
<1>5. n \in 0 .. RX_SIZE /\ n <= l
  <2>1. n = IF l < m THEN l ELSE m
    BY <1>1, <1>2, <1>4
  <2>2. QED BY <2>1 DEF RX_SIZE
<1>6. \A i \in 1 .. l : input[i] \in Byte
  BY <1>1 DEF Types
<1>7. rx_frame_buffer' \in [1 .. RX_SIZE -> Byte]
  <2>1. ASSUME NEW i \in 1 .. RX_SIZE, i <= n PROVE input[i] \in Byte
    <3>1. i \in 1 .. l
      BY <1>5, <2>1 DEF RX_SIZE
    <3>2. QED BY <1>6, <3>1
  <2>2. QED BY <1>3, <2>1 DEF Types
<1>8. input' \in Seq(Byte)
  <2>1. n + 1 \in Nat /\ n + 1 >= 1
    BY <1>5 DEF RX_SIZE
  <2>2. PICK s \in Seq(Byte) : s = input
    BY DEF Types
  <2>3. SubSeq(s, n + 1, l) \in Seq(Byte)
    <3>1. \A i \in n + 1 .. l : s[i] \in Byte
      BY <1>6, <2>1, <2>2
    <3>2. QED BY <1>1, <2>1, <2>2, <3>1, SubSeqProperties
  <2>4. QED BY <1>1, <1>3, <2>2, <2>3
<1>9. Proofs!AnswerInv'
  BY <1>3, SlaveInv DEF Types
<1>10. QED BY <1>3, <1>5, <1>7, <1>8, <1>9 DEF Types

\* main() feeds the buffer to the receiver.
LEMMA ReceiveTypes ==
  ASSUME Types, IInv', MeloReceiveBytes
  PROVE  Types'
<1>1. read_size \in 0 .. RX_SIZE /\ read_size \in Nat
  BY ReadSize
<1>2. PICK h : Feeds(h) /\ rx' = h[read_size].rx
  BY <1>1, FeedingTurns
<1>3. \A i \in 0 .. read_size : h[i].rx \in Receivers
  BY <1>1, <1>2, FeedTypes DEF Types
<1>4. rx' \in Receivers
  BY <1>1, <1>2, <1>3
<1>5. /\ phase' = "background"
      /\ UNCHANGED <<slave, line, rx_frame_buffer, frame_length, got, shown>>
  BY DEF MeloReceiveBytes
<1>6. Proofs!AnswerInv'
  BY <1>5, SlaveInv DEF Types
<1>7. QED BY <1>4, <1>5, <1>6 DEF Types, line

\* MeloBackground runs, or main() leaves it.
LEMMA BackgroundTypes ==
  ASSUME Types, IInv', Dispatch \/ ServeGarbage \/ BackgroundReturn \/ UNCHANGED vars
  PROVE  Types'
<1>1. /\ phase' \in {phase, "undefined", "prompt"}
      /\ UNCHANGED <<slave, line, rx_frame_buffer, rx, frame_length, got>>
  <2>1. CASE Dispatch
    BY <2>1 DEF Dispatch
  <2>2. CASE ServeGarbage
    BY <2>2 DEF ServeGarbage
  <2>3. CASE BackgroundReturn
    BY <2>3 DEF BackgroundReturn
  <2>4. CASE UNCHANGED vars
    BY <2>4 DEF vars
  <2>5. QED BY <2>1, <2>2, <2>3, <2>4
<1>2. shown' = shown \/ shown' = <<rx.packet>>
  <2>1. CASE Dispatch
    BY <2>1, DispatchCases DEF Types
  <2>2. CASE ServeGarbage \/ BackgroundReturn \/ UNCHANGED vars
    BY <2>2 DEF ServeGarbage, BackgroundReturn, vars
  <2>3. QED BY <2>1, <2>2
<1>3. shown' \in Seq(Packet)
  <2>1. rx.packet \in Packet
    BY DEF Types, Receivers, Packet
  <2>2. <<rx.packet>> \in Seq(Packet)
    BY <2>1
  <2>3. QED BY <1>2, <2>2 DEF Types
<1>4. Proofs!AnswerInv'
  BY <1>1, SlaveInv DEF Types
<1>5. QED BY <1>1, <1>3, <1>4 DEF Types, line

\* Each step keeps the types.
LEMMA NextTypes == Types /\ [Next]_vars => Types'
<1> SUFFICES ASSUME Types, [Next]_vars PROVE Types'
  OBVIOUS
<1>1. IInv'
  <2>1. read_size \in Nat
    BY ReadSize
  <2>2. QED BY <2>1, NextIInv DEF Types
<1>2. QED BY <1>1, ArriveTypes, AskTypes, ReadTypes, ReceiveTypes, BackgroundTypes DEF Next

\* The invariant behind the theorems that follow.
THEOREM TypesAlways == Spec => []Types
BY InitTypes, NextTypes, PTL DEF Spec

\* No command asks for more bytes than rx_frame_buffer has room for
\* (serial_example.cc:215, 237), however long the frame of its request is, and bytes
\* stay bytes, on the line, in the buffers and in what is shown.
THEOREM TypeCorrect == Spec => []TypeOK
<1>1. Types => TypeOK
  <2> SUFFICES ASSUME Types PROVE TypeOK
    OBVIOUS
  <2>1. stack \in Seq(Events) /\ Len(stack) < StackSize
    <3>1. phase \in {"prompt", "read", "receive", "background", "undefined"}
      BY DEF Types, IInv
    <3>2. stack \in {<<>>, Confirmed, Announced}
      BY <3>1 DEF Types, IInv, InBackground
    <3>3. \A s \in {<<>>, Confirmed, Announced} : s \in Seq(Events) /\ Len(s) \in 0 .. 2
      <4>1. <<>> \in Seq(Events) /\ Len(<<>>) \in 0 .. 2
        OBVIOUS
      <4>2. Confirmed \in Seq(Events) /\ Len(Confirmed) \in 0 .. 2
        BY DEF Confirmed, Events
      <4>3. Announced \in Seq(Events) /\ Len(Announced) \in 0 .. 2
        BY DEF Announced, Events
      <4>4. QED BY <4>1, <4>2, <4>3
    <3>4. \A k \in 0 .. 2 : k < StackSize
      BY StackSizeAssumption
    <3>5. QED BY <3>2, <3>3, <3>4
  <2>2. current_state \in Machine!IDLE .. Machine!TX_PEND
    BY DEF Types, IInv, InBackground, Machine!IDLE, Machine!RESP_PEND, Machine!TX_PEND
  <2>3. read_size <= RX_SIZE
    <3>1. PICK m \in 0 .. 30 : m = read_size
      BY ReadSize DEF RX_SIZE
    <3>2. QED BY <3>1 DEF RX_SIZE
  <2>4. QED BY <2>1, <2>2, <2>3 DEF Types, IInv, TypeOK, Packet
<1>2. QED BY <1>1, TypesAlways, PTL

\* Each command finds an idle state machine and an empty stack, although the
\* transmission of its request leaves a confirmation that no state waits for
\* (serial_example.cc:56).
THEOREM PromptIsCleanAlways == Spec => []PromptIsClean
<1>1. Types => PromptIsClean
  BY DEF Types, IInv, PromptIsClean
<1>2. QED BY <1>1, TypesAlways, PTL

\* Two frames or more in one buffer are one event, and show one packet (melo.c:281).
THEOREM AtMostOneResponseAlways == Spec => []AtMostOneResponse
<1>1. Types => AtMostOneResponse
  BY DEF Types, IInv, AtMostOneResponse
<1>2. QED BY <1>1, TypesAlways, PTL

------------------------------------------------------------------------------
(* An answer in the buffer *)

\* The frame F begins behind the first a bytes of the buffer, and all of it is fed.
InBuffer(F, a) ==
  \A k \in 1 .. Len(F) : a + k \in 1 .. read_size /\ rx_frame_buffer[a + k] = F[k]

\* The next byte.
LEMMA FeedByte ==
  ASSUME NEW h, Feeds(h), NEW i \in 1 .. read_size
  PROVE  /\ h[i].rx = rx_byte(h[i - 1].rx, rx_frame_buffer[i])
         /\ h[i].stack = IF rx_notifies(h[i - 1].rx, rx_frame_buffer[i])
                         THEN notify_event(h[i - 1].stack, REQUEST_RECEIVED)
                         ELSE h[i - 1].stack
<1>1. h[i] = receive(h[i - 1], rx_frame_buffer[i])
  BY DEF Feeds
<1>2. PICK byte : byte = rx_frame_buffer[i]
  OBVIOUS
<1>3. PICK before : before = h[i - 1]
  OBVIOUS
<1>4. h[i] = receive(before, byte)
  BY <1>1, <1>2, <1>3
<1>5. /\ receive(before, byte).rx = rx_byte(before.rx, byte)
      /\ receive(before, byte).stack = IF rx_notifies(before.rx, byte)
                                       THEN notify_event(before.stack, REQUEST_RECEIVED)
                                       ELSE before.stack
  BY DEF receive
<1>6. QED BY <1>2, <1>3, <1>4, <1>5

\* All bytes are fed to a receiver.
Fed(h, size) ==
  /\ Feeds(h) /\ size = read_size /\ size \in 0 .. 30
  /\ \A i \in 0 .. size : h[i].rx \in Receivers

\* F is a frame of the packet.
Frames(F, packet, data_in, byte_order, crc_present) ==
  /\ data_in = content(packet.command, packet.data, crc_present)
  /\ \E e, c : IsFrame(F, data_in, byte_order, crc_present, e, c)

\* What a receiver has that has been fed a frame as far as z.
Delivered(h, z, packet, data_in, byte_order, crc_present) ==
  /\ h[z].rx.escape_buffer = 0 /\ h[z].rx.packet = packet
  /\ Buffered(h[z - 1].rx, data_in, byte_order, crc_present, Len(data_in))
  /\ rx_notifies(h[z - 1].rx, rx_frame_buffer[z])

\* A receiver without escapes that is fed a frame has its packet.
LEMMA FeedFrame ==
  ASSUME NEW h, NEW size, Fed(h, size), NEW a \in Nat,
         NEW packet \in Packet, Len(packet.data) <= 127,
         NEW byte_order \in {0, 1}, NEW crc_present \in BOOLEAN,
         NEW F, NEW data_in, Frames(F, packet, data_in, byte_order, crc_present),
         InBuffer(F, a), h[a].rx.escape_buffer = 0
  PROVE  Delivered(h, a + Len(F), packet, data_in, byte_order, crc_present)
<1>a. /\ Feeds(h) /\ size = read_size /\ size \in 0 .. 30
      /\ \A i \in 0 .. size : h[i].rx \in Receivers
  BY DEF Fed
<1>b. PICK e : \E c : IsFrame(F, data_in, byte_order, crc_present, e, c)
  BY DEF Frames
<1>c. PICK c : IsFrame(F, data_in, byte_order, crc_present, e, c)
  BY <1>b
<1>d. PICK l : l = Len(F)
  OBVIOUS
<1>e. PICK cmd \in Byte : cmd = packet.command
  BY DEF Packet
<1>f. PICK data \in Seq(Byte) : data = packet.data
  BY DEF Packet
<1>g. packet = [command |-> cmd, data |-> data]
  BY <1>e, <1>f DEF Packet
<1>1. /\ l \in Nat /\ l >= 4 /\ e[2] = 0 /\ c[2] = 0 /\ e[l] = 0 /\ c[l] = Len(data_in)
  BY <1>c, <1>d DEF IsFrame
<1>2. ASSUME NEW k \in 1 .. l
      PROVE  /\ a + k \in 1 .. size /\ (a + k) - 1 \in 0 .. size
             /\ rx_frame_buffer[a + k] = F[k]
             /\ h[a + k].rx = rx_byte(h[(a + k) - 1].rx, F[k])
  <2>1. a + k \in 1 .. size /\ rx_frame_buffer[a + k] = F[k]
    BY <1>1, <1>a, <1>d DEF InBuffer
  <2>2. h[a + k].rx = rx_byte(h[(a + k) - 1].rx, rx_frame_buffer[a + k])
    BY <1>a, <2>1, FeedByte
  <2>3. (a + k) - 1 \in 0 .. size
    <3>1. PICK z \in 0 .. 30 : z = size
      BY <1>a
    <3>2. \A m \in 1 .. z : m - 1 \in 0 .. z
      BY <3>1
    <3>3. QED BY <2>1, <3>1, <3>2
  <2>4. QED BY <2>1, <2>2, <2>3
<1> DEFINE Done(k) == /\ h[a + k].rx.escape_buffer = e[k + 1]
                      /\ Buffered(h[a + k].rx, data_in, byte_order, crc_present, c[k + 1])
           S == {k \in Nat : k + 1 <= l - 1 => Done(k + 1)}
<1>3. 0 \in S
  <2>1. 1 \in 1 .. l /\ (a + 1) - 1 = a /\ a \in 0 .. size /\ 1 + 1 = 2 /\ 0 + 1 = 1
    <3>1. 1 \in 1 .. l
      BY <1>1
    <3>2. (a + 1) - 1 \in 0 .. size /\ (a + 1) - 1 = a
      BY <1>2, <3>1
    <3>3. QED BY <3>1, <3>2
  <2>2. PICK before : before = h[a].rx
    OBVIOUS
  <2>3. PICK after : after = h[a + 1].rx
    OBVIOUS
  <2>4. before \in Receivers /\ after = rx_byte(before, F[1])
    BY <1>2, <1>a, <2>1, <2>2, <2>3
  <2>5. /\ after.escape_buffer = before.escape_buffer
        /\ Buffered(after, data_in, byte_order, crc_present, 0)
    <3>1. Starts(before, F[1], data_in, byte_order, crc_present)
      BY <1>c, <2>4, HeadStarts, Zenon
    <3>2. QED BY <2>4, <3>1, Zenon DEF Starts
  <2>6. QED BY <1>1, <2>1, <2>2, <2>3, <2>5
<1>4. ASSUME NEW k \in Nat, k \in S PROVE k + 1 \in S
  <2> SUFFICES ASSUME (k + 1) + 1 <= l - 1 PROVE Done((k + 1) + 1)
    OBVIOUS
  <2>1. PICK m \in Nat : m = k + 2
    OBVIOUS
  <2>2. /\ m \in 2 .. l - 1 /\ m \in 1 .. l /\ (a + m) - 1 = a + (k + 1) /\ (k + 1) + 1 = m
        /\ k + 1 <= l - 1
    BY <1>1, <2>1
  <2>3. Done(k + 1)
    BY <1>4, <2>2
  <2>4. PICK before : before = h[(a + m) - 1].rx
    OBVIOUS
  <2>5. PICK after : after = h[a + m].rx
    OBVIOUS
  <2>6. before \in Receivers /\ after = rx_byte(before, F[m])
    BY <1>2, <1>a, <2>2, <2>4, <2>5
  <2>7. before.escape_buffer = e[m] /\ Buffered(before, data_in, byte_order, crc_present, c[m])
    BY <2>2, <2>3, <2>4
  <2>8. Follows(before, after, data_in, byte_order, crc_present, e, c, m)
    <3>1. m \in 2 .. Len(F) - 1
      BY <1>d, <2>2
    <3>2. QED BY <1>c, <2>6, <3>1, FrameByte
  <2>9. QED BY <2>2, <2>5, <2>7, <2>8 DEF Follows
<1> HIDE DEF S
<1>5. Nat \subseteq S
  BY <1>3, <1>4, NatInd
<1>6. Done(l - 1)
  <2>1. PICK k \in Nat : k = l - 2
    BY <1>1
  <2>2. k \in S /\ k + 1 = l - 1
    BY <1>1, <1>5, <2>1
  <2>3. k + 1 <= l - 1
    BY <1>1, <2>1
  <2>4. QED BY <2>2, <2>3 DEF S
<1>7. a + (l - 1) = (a + l) - 1 /\ (l - 1) + 1 = l /\ l \in 1 .. l
  BY <1>1
<1>8. PICK before : before = h[(a + l) - 1].rx
  OBVIOUS
<1>9. PICK after : after = h[a + l].rx
  OBVIOUS
<1>10. before \in Receivers /\ after = rx_byte(before, F[Len(F)])
       /\ rx_frame_buffer[a + l] = F[Len(F)]
  BY <1>2, <1>7, <1>8, <1>9, <1>a, <1>d
<1>11. before.escape_buffer = 0
       /\ Buffered(before, data_in, byte_order, crc_present, Len(data_in))
  BY <1>1, <1>6, <1>7, <1>8
<1>12. /\ after.escape_buffer = before.escape_buffer
       /\ rx_notifies(before, F[Len(F)])
       /\ after.packet = [command |-> cmd, data |-> data]
  <2>1. data_in = content(cmd, data, crc_present) /\ Len(data) <= 127
    BY <1>e, <1>f DEF Frames
  <2>2. QED BY <1>10, <1>11, <1>c, <2>1, FrameTail
<1>13. (a + l) - 1 = a + l - 1
  BY <1>1
<1>14. QED BY <1>8, <1>9, <1>10, <1>11, <1>12, <1>d, <1>g DEF Delivered

\* The packet is still in the buffer of the receiver.
Holds(receiver, packet) ==
  /\ Len(receiver.buffer) >= 3
  /\ receiver.buffer[1] = create_r(1) /\ receiver.buffer[2] = packet.command
  /\ receiver.buffer[3] = packet.data[1]

\* A packet with one byte of data: it says so, and is made of what the buffer holds.
LEMMA TailAgain ==
  ASSUME NEW receiver \in Receivers, NEW packet \in Packet, Len(packet.data) = 1,
         Holds(receiver, packet)
  PROVE  rx_tail(receiver).packet = packet
<1>1. PICK l \in Nat : l = Len(receiver.buffer)
  BY DEF Receivers
<1>2. l >= 3 /\ 0 < l /\ 1 < l /\ 2 < l
  BY <1>1 DEF Holds
<1>3. PICK b : b = packet.data[1]
  OBVIOUS
<1>4. /\ buffer_at(receiver, 0) = create_r(1) /\ buffer_at(receiver, 1) = packet.command
      /\ buffer_at(receiver, 2) = b
  BY <1>1, <1>2, <1>3 DEF buffer_at, Holds
<1>5. restore_r(create_r(1)) = 1
  BY LengthByte
<1>6. PICK d : d = [i \in 1 .. 1 |-> buffer_at(receiver, i + 1)]
  OBVIOUS
<1>7. d[1] = b
  BY <1>4, <1>6
<1>8. d = packet.data
  <2>1. packet.data = [i \in 1 .. 1 |-> packet.data[i]]
    BY DEF Packet
  <2>2. \A i \in 1 .. 1 : d[i] = packet.data[i]
    BY <1>3, <1>7
  <2>3. d = [i \in 1 .. 1 |-> d[i]]
    BY <1>6
  <2>4. QED BY <2>1, <2>2, <2>3
<1>9. rx_tail(receiver).packet = [command |-> packet.command, data |-> d]
  BY <1>4, <1>5, <1>6 DEF rx_tail, Receivers
<1>10. packet = [command |-> packet.command, data |-> packet.data]
  BY DEF Packet
<1>11. QED BY <1>8, <1>9, <1>10

\* The kind of control bytes besides HEAD and TAIL.
is_escape(byte) == is_control(byte) /\ is_set(byte, FRAME_ESCAPE)

\* A TAIL byte makes the same packet of what the receiver holds, and no byte but HEAD
\* takes that away.
LEMMA HoldsOn ==
  ASSUME NEW receiver \in Receivers, NEW packet \in Packet, Len(packet.data) = 1,
         receiver.packet = packet, NEW byte \in Byte,
         Holds(receiver, packet) \/ ~ is_tail(byte)
  PROVE  /\ rx_byte(receiver, byte).packet = packet
         /\ Holds(receiver, packet) =>
              is_head(byte) \/ Holds(rx_byte(receiver, byte), packet)
<1>1. PICK after : after = rx_byte(receiver, byte)
  OBVIOUS
<1>3. CASE ~ is_control(byte)
  <2>1. PICK add \in Byte :
          after = [receiver EXCEPT !.buffer        = Append(receiver.buffer, add),
                                   !.escape_buffer = receiver.escape_buffer \div 2]
    BY <1>1, <1>3, RxData
  <2>3. after.packet = packet /\ after.buffer = Append(receiver.buffer, add)
    BY <2>1 DEF Receivers
  <2>4. ASSUME Holds(receiver, packet) PROVE Holds(after, packet)
    <3>1. PICK l \in Nat : l = Len(receiver.buffer)
      BY DEF Receivers
    <3>2. l >= 3
      BY <2>4, <3>1 DEF Holds
    <3>3. PICK s \in Seq(Byte) : s = receiver.buffer
      BY DEF Receivers
    <3>4. PICK s2 : s2 = Append(s, add)
      OBVIOUS
    <3>5. Len(s2) = l + 1 /\ \A i \in 1 .. l : s2[i] = s[i]
      BY <3>1, <3>3, <3>4, AppendProperties
    <3>6. /\ 1 \in 1 .. l /\ 2 \in 1 .. l /\ 3 \in 1 .. l /\ l + 1 >= 3
      BY <3>2
    <3>7. Len(s2) >= 3 /\ s2[1] = s[1] /\ s2[2] = s[2] /\ s2[3] = s[3]
      BY <3>5, <3>6
    <3>8. after.buffer = s2
      BY <2>3, <3>3, <3>4
    <3>9. QED BY <2>4, <3>3, <3>7, <3>8 DEF Holds
  <2>5. QED BY <1>1, <2>3, <2>4
<1>4. CASE is_head(byte)
  <2>1. after = rx_head(receiver, byte)
    BY <1>1, <1>4 DEF rx_byte, is_tail, is_head
  <2>2. after.packet = packet
    BY <2>1 DEF rx_head, Receivers
  <2>3. QED BY <1>1, <1>4, <2>2
<1>5. CASE is_tail(byte)
  <2>1. Holds(receiver, packet)
    BY <1>5
  <2>2. after \in {rx_tail(receiver), receiver}
    BY <1>1, <1>5 DEF rx_byte, is_tail
  <2>3. rx_tail(receiver).buffer = receiver.buffer
    BY DEF rx_tail, Receivers
  <2>4. rx_tail(receiver).packet = packet
    BY <2>1, TailAgain
  <2>5. QED BY <1>1, <2>1, <2>2, <2>3, <2>4 DEF Holds
<1>6. CASE is_escape(byte)
  <2>1. after = rx_escape(receiver, byte)
    BY <1>1, <1>6 DEF rx_byte, is_tail, is_escape
  <2>2. after.packet = packet /\ after.buffer = receiver.buffer
    BY <2>1 DEF rx_escape, Receivers
  <2>3. QED BY <1>1, <2>2 DEF Holds
<1>7. QED BY <1>3, <1>4, <1>5, <1>6 DEF is_escape, is_head, is_tail

\* What is fed on behind a packet leaves it as it is, unless there is a frame among it.
LEMMA FeedRest ==
  ASSUME NEW h, Feeds(h), NEW size \in 0 .. 30, size = read_size,
         \A i \in 0 .. size : h[i].rx \in Receivers,
         rx_frame_buffer \in [1 .. RX_SIZE -> Byte],
         NEW packet \in Packet, Len(packet.data) = 1,
         NEW n \in 10 .. size, h[n].rx.packet = packet, Holds(h[n].rx, packet),
         \A i, j \in n + 1 .. size :
           is_head(rx_frame_buffer[i]) /\ i < j => ~ is_tail(rx_frame_buffer[j])
  PROVE  h[size].rx.packet = packet
<1> DEFINE Quiet(i) == \A j \in i + 1 .. size : ~ is_tail(rx_frame_buffer[j])
           S == {k \in Nat : n + k <= size =>
                   /\ h[n + k].rx.packet = packet
                   /\ Holds(h[n + k].rx, packet) \/ Quiet(n + k)}
<1>1. 0 \in S
  <2>1. n + 0 = n
    OBVIOUS
  <2>2. QED BY <2>1
<1>2. ASSUME NEW k \in Nat, k \in S PROVE k + 1 \in S
  <2> SUFFICES ASSUME n + (k + 1) <= size
               PROVE  /\ h[n + (k + 1)].rx.packet = packet
                      /\ Holds(h[n + (k + 1)].rx, packet) \/ Quiet(n + (k + 1))
    OBVIOUS
  <2>1. PICK i \in 11 .. 30 : i = n + (k + 1)
    OBVIOUS
  <2>2. /\ i \in 1 .. size /\ i - 1 \in 0 .. size /\ i - 1 = n + k
        /\ n + k <= size /\ (i - 1) + 1 = i /\ i \in n + 1 .. size
    BY <2>1
  <2>3. PICK before : before = h[i - 1].rx
    OBVIOUS
  <2>4. PICK after : after = h[i].rx
    OBVIOUS
  <2>5. PICK byte : byte = rx_frame_buffer[i]
    OBVIOUS
  <2>6. byte \in Byte /\ (is_head(byte) => Quiet(i))
    <3>1. byte \in Byte
      BY <2>5 DEF RX_SIZE
    <3>2. \A j \in i + 1 .. size : j \in n + 1 .. size /\ i < j
      BY <2>2
    <3>3. QED BY <2>2, <2>5, <3>1, <3>2
  <2>7. before \in Receivers /\ before.packet = packet /\ (Holds(before, packet) \/ Quiet(i - 1))
    BY <1>2, <2>2, <2>3
  <2>8. after = rx_byte(before, byte)
    <3>1. i \in 1 .. read_size
      BY <2>2
    <3>2. QED BY <2>3, <2>4, <2>5, <3>1, FeedByte
  <2>9. Quiet(i - 1) => ~ is_tail(byte) /\ Quiet(i)
    <3>1. i \in (i - 1) + 1 .. size /\ \A j \in i + 1 .. size : j \in (i - 1) + 1 .. size
      BY <2>2
    <3>2. QED BY <2>5, <3>1
  <2> HIDE DEF Quiet
  <2>10. /\ after.packet = packet
         /\ Holds(before, packet) => is_head(byte) \/ Holds(after, packet)
    BY <2>6, <2>7, <2>8, <2>9, HoldsOn
  <2>11. Holds(after, packet) \/ Quiet(i)
    BY <2>6, <2>7, <2>9, <2>10
  <2>12. QED BY <2>1, <2>4, <2>10, <2>11
<1> HIDE DEF S
<1>3. Nat \subseteq S
  BY <1>1, <1>2, NatInd
<1>4. PICK k \in Nat : k = size - n
  OBVIOUS
<1>5. n + k = size /\ k \in S
  BY <1>3, <1>4
<1>6. QED BY <1>5 DEF S

\* A frame with one byte of data that needs no escape has five bytes.
LEMMA PlainFrame ==
  ASSUME NEW cmd \in Byte, NEW b \in Byte, ~ is_control(b), NEW order \in {0, 1},
         NEW crc_present \in BOOLEAN, crc_present = FALSE
  PROVE  Len(serialize_frame(cmd, <<b>>, order, crc_present)) = 5
<1>1. PICK data \in Seq(Byte) : data = <<b>> /\ Len(data) = 1 /\ data[1] = b
  <2>1. <<b>> \in Seq(Byte)
    OBVIOUS
  <2>2. QED BY <2>1
<1>2. PICK h : /\ h[0] = start
               /\ \A i \in 1 .. Len(data) : h[i] = serialize_byte(h[i - 1], data[i])
               /\ serialize_data(data) = h[Len(data)].out
  BY LoopTurns
<1>3. serialize_data(data) = serialize_byte(start, b).out
  <2>1. 1 \in 1 .. 1 /\ 1 - 1 = 0
    OBVIOUS
  <2>2. h[1] = serialize_byte(start, b)
    BY <1>1, <1>2, <2>1
  <2>3. QED BY <1>1, <1>2, <2>2
<1>4. serialize_byte(start, b).out = <<b>>
  <2>1. start.out = <<>> /\ Append(<<>>, b) = <<b>>
    BY DEF start
  <2>2. serialize_byte(start, b).out = Append(start.out, b)
    BY DEF serialize_byte
  <2>3. QED BY <2>1, <2>2
<1>5. serialize_frame(cmd, data, order, crc_present) =
        <<create_cmd_byte(HEAD, order, crc_present), create_r(1), cmd>> \o <<b>>
          \o <<create_cmd_byte(TAIL, order, crc_present)>>
  BY <1>1, <1>3, <1>4 DEF serialize_frame
<1>6. PICK head \in Byte : head = create_cmd_byte(HEAD, order, crc_present)
  BY Markers
<1>7. PICK tail \in Byte : tail = create_cmd_byte(TAIL, order, crc_present)
  BY Markers
<1>8. PICK one \in Byte : one = create_r(1)
  BY LengthByte
<1>9. Len(<<head, one, cmd>> \o <<b>> \o <<tail>>) = 5
  OBVIOUS
<1>10. QED BY <1>1, <1>5, <1>6, <1>7, <1>8, <1>9

\* The frames of a packet with one byte of data.
LEMMA SmallFrame ==
  ASSUME NEW packet \in Packet, packet.command \in Proofs!Codes, Len(packet.data) = 1,
         NEW crc_present \in BOOLEAN, crc_present = FALSE,
         NEW F, F = serialize_frame(packet.command, packet.data, PE, crc_present),
         NEW data_in, data_in = content(packet.command, packet.data, crc_present)
  PROVE  /\ \E e, c : IsFrame(F, data_in, PE, crc_present, e, c)
         /\ F \in Seq(Byte) /\ Len(F) \in 5 .. 6 /\ Len(data_in) = 3
         /\ data_in[1] = create_r(1) /\ data_in[2] = packet.command
         /\ data_in[3] = packet.data[1]
<1>1. PICK cmd \in Byte : cmd = packet.command
  BY DEF Packet
<1>2. PICK data \in Seq(Byte) : data = packet.data
  BY DEF Packet
<1>3. ~ is_control(cmd)
  <2>1. cmd % 64 < 32
    BY <1>1 DEF Proofs!Codes
  <2>2. ~ ((cmd \div 32) % 2 = 1)
    BY <2>1 DEF Byte
  <2>3. QED BY <2>2, Bits
<1>4. PE \in {0, 1}
  BY CommandsAssumption
<1>5. /\ F = serialize_frame(cmd, data, PE, crc_present)
      /\ data_in = content(cmd, data, crc_present)
  BY <1>1, <1>2
<1>6. /\ \E e, c : IsFrame(F, data_in, PE, crc_present, e, c)
      /\ Len(F) \in Len(data_in) + 2 .. 2 * Len(data_in)
      /\ Len(data_in) = Len(data) + 2 + (IF crc_present THEN 1 ELSE 0)
  BY <1>3, <1>4, <1>5, FramesAreFrames
<1>7. Len(data_in) = 3
  BY <1>2, <1>6
<1>8. F \in Seq(Byte)
  BY <1>6 DEF IsFrame
<1>9. PICK b \in Byte : data = <<b>>
  <2>1. data[1] \in Byte
    BY <1>2
  <2>2. data = <<data[1]>>
    BY <1>2
  <2>3. QED BY <2>1, <2>2
<1>10. data_in = <<create_r(1), cmd>> \o data
  BY <1>2, <1>5 DEF content
<1>11. PICK one \in Byte : one = create_r(1)
  BY LengthByte
<1>12. data_in[1] = one /\ data_in[2] = cmd /\ data_in[3] = b
  <2>1. data_in = <<one, cmd>> \o <<b>>
    BY <1>9, <1>10, <1>11
  <2>2. QED BY <2>1
<1>13. Len(F) \in 5 .. 6
  <2>1. PICK n : n = Len(data_in)
    OBVIOUS
  <2>2. Len(F) \in n + 2 .. 2 * n /\ n = 3
    BY <1>6, <1>7, <2>1
  <2>3. QED BY <2>2
<1>14. data[1] = b
  BY <1>9
<1>15. QED BY <1>1, <1>2, <1>6, <1>7, <1>8, <1>11, <1>12, <1>13, <1>14

\* A byte was asked for and given.
Replied ==
  /\ Len(send_packet.data) = 1 /\ send_packet.command \div 64 = Slave!POSITIVE
  /\ wait_packet.data = <<Slave!announced(send_packet)>>

\* The answer is at the head of the buffer, and all that was read.
Answered ==
  LET answer == answer_bytes(wait_packet, send_packet) IN
  /\ got = Len(answer)
  /\ \A i \in 1 .. got : rx_frame_buffer[i] = answer[i]

\* The two frames of an answer have ten bytes, or eleven.
LEMMA AnswerParts ==
  ASSUME Types, Replied, NEW crc_present \in BOOLEAN, crc_present = FALSE
  PROVE  /\ send_packet \in Packet /\ send_packet.command \in Proofs!Codes
         /\ wait_packet \in Packet /\ wait_packet.command \in Proofs!Codes
         /\ Len(wait_packet.data) = 1
         /\ \E W, S \in Seq(Byte) :
              /\ W = serialize_frame(wait_packet.command, wait_packet.data, PE, crc_present)
              /\ S = serialize_frame(send_packet.command, send_packet.data, PE, crc_present)
              /\ Len(W) = 5 /\ Len(S) \in 5 .. 6
              /\ answer_bytes(wait_packet, send_packet) = W \o S
<1>1. /\ send_packet \in Packet /\ send_packet.command \in Proofs!Codes
      /\ wait_packet \in Packet /\ wait_packet.command \in Proofs!Codes
  BY SameBytes DEF Types, Proofs!AnswerInv, Packet, Proofs!Codes
<1>2. Len(wait_packet.data) = 1
  BY DEF Replied
<1>3. PICK W : W = serialize_frame(wait_packet.command, wait_packet.data, PE, crc_present)
  OBVIOUS
<1>4. PICK S : S = serialize_frame(send_packet.command, send_packet.data, PE, crc_present)
  OBVIOUS
<1>5. W \in Seq(Byte) /\ S \in Seq(Byte) /\ Len(S) \in 5 .. 6
  BY <1>1, <1>2, <1>3, <1>4, SmallFrame DEF Replied
<1>6. Len(W) = 5
  <2>1. PICK l \in 5 .. 6 : l = Len(Slave!send_frame_bytes(send_packet))
    BY <1>4, <1>5, AnswerFrames
  <2>2. PICK b \in Byte : b = create_r(l) /\ ~ is_control(b)
    BY LengthByte
  <2>3. Slave!announced(send_packet) = create_r(l)
    BY <2>1 DEF Slave!announced, Slave!create_r, create_r
  <2>4. wait_packet.data = <<b>>
    BY <2>2, <2>3 DEF Replied
  <2>5. PICK cmd \in Byte : cmd = wait_packet.command
    BY <1>1 DEF Packet
  <2>6. PE \in {0, 1}
    BY CommandsAssumption
  <2>7. W = serialize_frame(cmd, <<b>>, PE, crc_present)
    BY <1>3, <2>4, <2>5
  <2>8. Len(serialize_frame(cmd, <<b>>, PE, crc_present)) = 5
    BY <2>2, <2>6, PlainFrame
  <2>9. QED BY <2>7, <2>8
<1>7. answer_bytes(wait_packet, send_packet) = W \o S
  BY <1>3, <1>4, AnswerFrames DEF answer_bytes
<1>8. QED BY <1>1, <1>2, <1>3, <1>4, <1>5, <1>6, <1>7

\* Fed with an answer that nothing is in the way of, the receiver has the final response
\* at the end, and there is an event for it.
LEMMA FeedAnswer ==
  ASSUME Types, phase = "receive", Replied, Answered, undisturbed, NEW h, Feeds(h)
  PROVE  h[read_size].rx.packet = send_packet /\ h[read_size].stack = Announced
<1>1. PICK size \in 14 .. 30 : size = read_size
  BY ReadSize DEF RX_SIZE
<1>2. \A i \in 0 .. size : h[i].rx \in Receivers
  BY <1>1, FeedTypes, ReadSize DEF Types
<1>3. PICK crc_present \in BOOLEAN : crc_present = FALSE
  OBVIOUS
<1>4. /\ send_packet \in Packet /\ send_packet.command \in Proofs!Codes
      /\ wait_packet \in Packet /\ wait_packet.command \in Proofs!Codes
      /\ Len(wait_packet.data) = 1 /\ Len(send_packet.data) = 1
  BY <1>3, AnswerParts DEF Replied
<1>5. PICK W \in Seq(Byte) :
        \E S \in Seq(Byte) :
          /\ W = serialize_frame(wait_packet.command, wait_packet.data, PE, crc_present)
          /\ S = serialize_frame(send_packet.command, send_packet.data, PE, crc_present)
          /\ Len(W) = 5 /\ Len(S) \in 5 .. 6
          /\ answer_bytes(wait_packet, send_packet) = W \o S
  BY <1>3, AnswerParts
<1>6. PICK S \in Seq(Byte) :
        /\ W = serialize_frame(wait_packet.command, wait_packet.data, PE, crc_present)
        /\ S = serialize_frame(send_packet.command, send_packet.data, PE, crc_present)
        /\ Len(W) = 5 /\ Len(S) \in 5 .. 6
        /\ answer_bytes(wait_packet, send_packet) = W \o S
  BY <1>5
<1>7. PICK l \in 5 .. 6 : l = Len(S)
  BY <1>6
<1>8. PICK A : A = W \o S
  OBVIOUS
<1>9. /\ Len(A) = 5 + l
      /\ \A i \in 1 .. 5 : A[i] = W[i]
      /\ \A i \in 1 .. l : A[5 + i] = S[i]
  <2>1. Len(A) = 5 + l /\ \A i \in 1 .. 5 + l : A[i] = IF i <= 5 THEN W[i] ELSE S[i - 5]
    <3>1. Len(W) = 5 /\ Len(S) = l
      BY <1>6, <1>7
    <3>2. /\ Len(W \o S) = Len(W) + Len(S)
          /\ \A i \in 1 .. Len(W) + Len(S) :
               (W \o S)[i] = IF i <= Len(W) THEN W[i] ELSE S[i - Len(W)]
      BY ConcatProperties
    <3>3. QED BY <1>8, <3>1, <3>2
  <2>2. \A i \in 1 .. l : 5 + i \in 1 .. 5 + l /\ ~ (5 + i <= 5) /\ (5 + i) - 5 = i
    OBVIOUS
  <2>3. \A i \in 1 .. 5 : i \in 1 .. 5 + l /\ i <= 5
    OBVIOUS
  <2>4. QED BY <2>1, <2>2, <2>3
<1>10. \A i \in 1 .. 5 + l : rx_frame_buffer[i] = A[i]
  <2>1. answer_bytes(wait_packet, send_packet) = A
    BY <1>6, <1>8
  <2>2. got = Len(A) /\ \A i \in 1 .. got : rx_frame_buffer[i] = A[i]
    BY <2>1 DEF Answered
  <2>3. QED BY <1>9, <2>2
<1>11. InBuffer(W, 0)
  <2>1. ASSUME NEW k \in 1 .. 5 PROVE 0 + k \in 1 .. size /\ rx_frame_buffer[0 + k] = W[k]
    <3>1. 0 + k = k /\ k \in 1 .. size /\ k \in 1 .. 5 + l
      OBVIOUS
    <3>2. QED BY <1>9, <1>10, <3>1
  <2>2. QED BY <1>1, <1>6, <2>1 DEF InBuffer
<1>12. InBuffer(S, 5)
  <2>1. ASSUME NEW k \in 1 .. l PROVE 5 + k \in 1 .. size /\ rx_frame_buffer[5 + k] = S[k]
    <3>1. 5 + k \in 1 .. size /\ 5 + k \in 1 .. 5 + l
      OBVIOUS
    <3>2. QED BY <1>9, <1>10, <3>1
  <2>2. QED BY <1>1, <1>7, <2>1 DEF InBuffer
<1>13. PE \in {0, 1} /\ Fed(h, size)
  BY <1>1, <1>2, CommandsAssumption DEF Fed
<1>14. h[5].rx.escape_buffer = 0
  <2>1. PICK data_in : data_in = content(wait_packet.command, wait_packet.data, crc_present)
    OBVIOUS
  <2>2. Frames(W, wait_packet, data_in, PE, crc_present)
    BY <1>3, <1>4, <1>6, <2>1, SmallFrame DEF Frames
  <2>3. PICK a \in Nat : a = 0
    OBVIOUS
  <2>4. InBuffer(W, a) /\ h[a].rx.escape_buffer = 0 /\ Len(wait_packet.data) <= 127
    BY <1>4, <1>11, <2>3 DEF Feeds, undisturbed
  <2>5. Delivered(h, a + Len(W), wait_packet, data_in, PE, crc_present)
    BY <1>3, <1>4, <1>13, <2>2, <2>4, FeedFrame
  <2>6. a + Len(W) = 5
    BY <1>6, <2>3
  <2>7. QED BY <2>5, <2>6 DEF Delivered
<1>15. PICK n \in 10 .. 11 : n = 5 + l
  OBVIOUS
<1>16. n \in 1 .. size /\ n - 1 \in 0 .. size /\ n \in 10 .. size
  BY <1>15
<1>17. PICK before : before = h[n - 1].rx
  OBVIOUS
<1>18. PICK byte : byte = rx_frame_buffer[n]
  OBVIOUS
<1>19. /\ h[n].rx.packet = send_packet /\ rx_notifies(before, byte)
       /\ Len(before.buffer) = 3 /\ before.buffer[1] = create_r(1)
       /\ before.buffer[2] = send_packet.command /\ before.buffer[3] = send_packet.data[1]
  <2>1. PICK data_in : data_in = content(send_packet.command, send_packet.data, crc_present)
    OBVIOUS
  <2>2. /\ Frames(S, send_packet, data_in, PE, crc_present)
        /\ Len(data_in) = 3 /\ data_in[1] = create_r(1) /\ data_in[2] = send_packet.command
        /\ data_in[3] = send_packet.data[1]
    BY <1>3, <1>4, <1>6, <2>1, SmallFrame DEF Frames
  <2>3. PICK a \in Nat : a = 5
    OBVIOUS
  <2>4. InBuffer(S, a) /\ h[a].rx.escape_buffer = 0 /\ Len(send_packet.data) <= 127
    BY <1>4, <1>12, <1>14, <2>3
  <2>5. Delivered(h, a + Len(S), send_packet, data_in, PE, crc_present)
    BY <1>3, <1>4, <1>13, <2>2, <2>4, FeedFrame
  <2>6. a + Len(S) = n
    BY <1>7, <1>15, <2>3
  <2>7. Buffered(before, data_in, PE, crc_present, 3)
    BY <1>17, <2>2, <2>5, <2>6 DEF Delivered
  <2>8. Len(before.buffer) = 3 /\ \A i \in 1 .. 3 : before.buffer[i] = data_in[i]
    BY <2>7 DEF Buffered
  <2>9. h[n].rx.packet = send_packet /\ rx_notifies(before, byte)
    BY <1>17, <1>18, <2>5, <2>6 DEF Delivered
  <2>10. QED BY <2>2, <2>8, <2>9
<1>20. h[n].rx = rx_byte(before, byte)
       /\ h[n].stack = notify_event(h[n - 1].stack, REQUEST_RECEIVED)
  <2>1. n \in 1 .. read_size
    BY <1>1, <1>16
  <2>2. QED BY <1>17, <1>18, <1>19, <2>1, FeedByte
<1>21. Holds(h[n].rx, send_packet)
  <2>1. rx_byte(before, byte) = rx_tail(before)
    BY <1>19 DEF rx_byte, rx_notifies, is_tail
  <2>2. before \in Receivers
    BY <1>2, <1>16, <1>17
  <2>3. h[n].rx.buffer = before.buffer
    BY <1>20, <2>1, <2>2 DEF rx_tail, Receivers
  <2>4. QED BY <1>19, <2>3 DEF Holds
<1>22. h[size].rx.packet = send_packet
  <2>1. size \in 0 .. 30 /\ rx_frame_buffer \in [1 .. RX_SIZE -> Byte]
    BY DEF Types
  <2>2. got = n
    <3>1. answer_bytes(wait_packet, send_packet) = A
      BY <1>6, <1>8
    <3>2. QED BY <1>9, <1>15, <3>1 DEF Answered
  <2>3. \A i, j \in n + 1 .. size :
          is_head(rx_frame_buffer[i]) /\ i < j => ~ is_tail(rx_frame_buffer[j])
    BY <1>1, <2>2 DEF undisturbed
  <2>4. QED BY <1>1, <1>2, <1>4, <1>16, <1>19, <1>21, <2>1, <2>3, FeedRest
<1>23. h[size].stack = Announced
  <2>1. stack = Confirmed /\ size \in Nat
    BY DEF Types, IInv
  <2>2. h[n - 1].stack \in {Confirmed, Announced}
    BY <1>1, <1>16, <2>1, OneEvent
  <2>3. h[n].stack = Announced
    BY <1>20, <2>2, Stacks
  <2>4. n \in 0 .. size
    BY <1>16
  <2>5. QED BY <1>1, <2>1, <2>3, <2>4, OneEvent
<1>24. QED BY <1>1, <1>22, <1>23

------------------------------------------------------------------------------
(* Answers that come whole and in time *)

\* The packet of the answer is with the master, and shown as soon as its event is
\* handled.
Showing ==
  /\ rx.packet = send_packet
  /\ shown = <<send_packet>> \/ (current_state = Machine!IDLE /\ stack = Announced)

Timely ==
  timely =>
    /\ phase \in {"read", "receive", "background"} => Replied
    /\ phase = "read" => input \o in_flight = answer_bytes(wait_packet, send_packet)
    /\ phase = "receive" => Answered
    /\ phase = "background" /\ clean => Showing
    /\ phase = "prompt" /\ clean => shown = <<send_packet>>

\* A byte goes from the head of one sequence to the end of another.
LEMMA MoveByte ==
  ASSUME NEW s \in Seq(Byte), NEW t \in Seq(Byte), t # <<>>
  PROVE  Append(s, Head(t)) \o Tail(t) = s \o t
<1>1. PICK m \in Nat : m = Len(s)
  OBVIOUS
<1>2. PICK n \in Nat : n = Len(t)
  OBVIOUS
<1>3. n >= 1
  BY <1>2, EmptySeq
<1>4. PICK s2 : s2 = Append(s, Head(t))
  OBVIOUS
<1>5. PICK t2 : t2 = Tail(t)
  OBVIOUS
<1>6. /\ Head(t) = t[1] /\ Head(t) \in Byte
      /\ t2 \in Seq(Byte) /\ Len(t2) = n - 1 /\ \A i \in 1 .. n - 1 : t2[i] = t[i + 1]
  BY <1>2, <1>3, <1>5, HeadTailProperties
<1>7. /\ s2 \in Seq(Byte) /\ Len(s2) = m + 1 /\ s2[m + 1] = t[1]
      /\ \A i \in 1 .. m : s2[i] = s[i]
  BY <1>1, <1>4, <1>6, AppendProperties
<1>8. PICK u : u = s2 \o t2
  OBVIOUS
<1>9. PICK v : v = s \o t
  OBVIOUS
<1>10. /\ u \in Seq(Byte) /\ Len(u) = (m + 1) + (n - 1)
       /\ \A i \in 1 .. (m + 1) + (n - 1) :
            u[i] = IF i <= m + 1 THEN s2[i] ELSE t2[i - (m + 1)]
  <2>1. PICK m1 \in Nat : m1 = m + 1
    OBVIOUS
  <2>2. PICK n1 \in Nat : n1 = n - 1
    BY <1>3
  <2>3. Len(s2) = m1 /\ Len(t2) = n1
    BY <1>6, <1>7, <2>1, <2>2
  <2>4. /\ u \in Seq(Byte) /\ Len(u) = Len(s2) + Len(t2)
        /\ \A i \in 1 .. Len(s2) + Len(t2) :
             u[i] = IF i <= Len(s2) THEN s2[i] ELSE t2[i - Len(s2)]
    BY <1>6, <1>7, <1>8, ConcatProperties
  <2>5. /\ Len(u) = m1 + n1
        /\ \A i \in 1 .. m1 + n1 : u[i] = IF i <= m1 THEN s2[i] ELSE t2[i - m1]
    BY <2>3, <2>4
  <2>6. QED BY <2>1, <2>2, <2>4, <2>5
<1>11. /\ v \in Seq(Byte) /\ Len(v) = m + n
       /\ \A i \in 1 .. m + n : v[i] = IF i <= m THEN s[i] ELSE t[i - m]
  BY <1>1, <1>2, <1>9, ConcatProperties
<1>12. (m + 1) + (n - 1) = m + n
  OBVIOUS
<1>13. ASSUME NEW i \in 1 .. m + n PROVE u[i] = v[i]
  <2>1. CASE i <= m
    <3>1. i \in 1 .. m /\ i <= m + 1
      BY <2>1
    <3>2. QED BY <1>7, <1>10, <1>11, <1>12, <2>1, <3>1
  <2>2. CASE i = m + 1
    <3>1. ~ (i <= m) /\ i - m = 1 /\ i <= m + 1
      BY <2>2
    <3>2. QED BY <1>7, <1>10, <1>11, <1>12, <2>2, <3>1
  <2>3. CASE i > m + 1
    <3>1. PICK k : k = i - (m + 1)
      OBVIOUS
    <3>2. ~ (i <= m) /\ ~ (i <= m + 1) /\ k \in 1 .. n - 1 /\ k + 1 = i - m
      BY <2>3, <3>1
    <3>3. u[i] = t2[k] /\ v[i] = t[k + 1]
      BY <1>10, <1>11, <1>12, <3>1, <3>2
    <3>4. QED BY <1>6, <3>2, <3>3
  <2>4. QED BY <2>1, <2>2, <2>3
<1>14. u = v
  BY <1>10, <1>11, <1>12, <1>13, SeqEqual
<1>15. QED BY <1>4, <1>5, <1>8, <1>9, <1>14

\* What the master shows, and nothing else of Timely, depends on the slave.
LEMMA SameAnswer ==
  ASSUME UNCHANGED slave
  PROVE  /\ answer_bytes(wait_packet, send_packet)' = answer_bytes(wait_packet, send_packet)
         /\ Replied' <=> Replied
  BY DEF slave, answer_bytes, Slave!wait_frame_bytes, Slave!send_frame_bytes, Replied,
         Slave!announced

\* A byte that arrives is next to be read.
LEMMA ArriveTimely == Types /\ Timely /\ Arrive => Timely'
<1> SUFFICES ASSUME Types, Timely, Arrive, timely' PROVE Timely'
  BY DEF Timely
<1>1. /\ in_flight # <<>> /\ input' = Append(input, Head(in_flight))
      /\ in_flight' = Tail(in_flight) /\ phase = "read" /\ phase' = "read"
      /\ UNCHANGED <<slave, rx_frame_buffer, rx, timely>>
  BY DEF Arrive
<1>2. input' \o in_flight' = input \o in_flight
  BY <1>1, MoveByte DEF Types
<1>3. QED BY <1>1, <1>2, SameAnswer DEF Timely

\* A request that is served has its answer on the line.
LEMMA AskTimely ==
  ASSUME Types, Timely, NEW op \in Commands, NEW lost \in BOOLEAN, Ask(op, lost), Types'
  PROVE  Timely'
<1> SUFFICES ASSUME timely' PROVE Timely'
  BY DEF Timely
<1>1. /\ ~ lost /\ in_flight = <<>> /\ input = <<>>
      /\ phase' = "read" /\ input' = input
  BY DEF Ask
<1>2. /\ Slave!Request(op)
      /\ in_flight' = in_flight \o answer_bytes(wait_packet', send_packet')
  BY <1>1 DEF Ask
<1>3. Replied'
  <2>1. /\ op \in Proofs!Reads \cup Proofs!Writes /\ Proofs!Request(op)
        /\ (op.kind = "read" => op.size = 1) /\ (op.kind = "write" => Len(op.value) = 1)
    <3>1. op \in Proofs!Reads \cup Proofs!Writes /\ Proofs!Request(op)
      BY <1>2, AskedFor, SameStep
    <3>2. CASE op \in Slave!Reads /\ op.size = 1
      BY <3>1, <3>2 DEF Slave!Reads
    <3>3. CASE op \in Slave!Writes
      <4>1. op.kind = "write" /\ op.value \in Written
        BY <3>3 DEF Slave!Writes
      <4>2. QED BY <3>1, <4>1, CommandsAssumption
    <3>4. QED BY <3>2, <3>3, CommandsAssumption
  <2>2. /\ Len(send_packet'.data) = 1 /\ send_packet'.command \div 64 = Proofs!POSITIVE
        /\ wait_packet'.data = <<Proofs!announced(send_packet')>>
    BY <2>1, ServiceAssumptions, Proofs!ByteServed
  <2>3. Proofs!announced(send_packet') = Slave!announced(send_packet')
    BY AnswerFrames DEF Proofs!announced, Slave!announced, Proofs!create_r, Slave!create_r
  <2>4. Proofs!POSITIVE = Slave!POSITIVE
    BY DEF Proofs!POSITIVE, Slave!POSITIVE
  <2>5. QED BY <2>2, <2>3, <2>4 DEF Replied, Slave!announced, Slave!send_frame_bytes
<1>4. input' \o in_flight' = answer_bytes(wait_packet, send_packet)'
  <2>1. PICK A : A = answer_bytes(wait_packet, send_packet)'
    OBVIOUS
  <2>2. A = answer_bytes(wait_packet', send_packet')
    BY <2>1 DEF answer_bytes, Slave!wait_frame_bytes, Slave!send_frame_bytes
  <2>3. A \in Seq(Byte)
    <3>1. (Proofs!AnswerInv => answer_bytes(wait_packet, send_packet) \in Seq(Byte))'
      BY AnswerBytes, PTL
    <3>2. QED BY <2>1, <3>1 DEF Types
  <2>4. in_flight' = A /\ input' = <<>>
    BY <1>1, <1>2, <2>2, <2>3, ConcatEmptySeq
  <2>5. QED BY <2>1, <2>3, <2>4, ConcatEmptySeq
<1>5. QED BY <1>1, <1>3, <1>4 DEF Timely

\* An answer has ten bytes, or eleven.
LEMMA AnswerLength ==
  ASSUME Types, Replied, NEW A, A = answer_bytes(wait_packet, send_packet)
  PROVE  A \in Seq(Byte) /\ Len(A) \in 10 .. 11
<1>1. PICK crc_present \in BOOLEAN : crc_present = FALSE
  OBVIOUS
<1>2. PICK W \in Seq(Byte) :
        \E S \in Seq(Byte) : Len(W) = 5 /\ Len(S) \in 5 .. 6 /\ A = W \o S
  BY <1>1, AnswerParts
<1>3. PICK S \in Seq(Byte) : Len(W) = 5 /\ Len(S) \in 5 .. 6 /\ A = W \o S
  BY <1>2
<1>4. PICK l \in 5 .. 6 : l = Len(S)
  BY <1>3
<1>5. W \o S \in Seq(Byte) /\ Len(W \o S) = Len(W) + Len(S)
  BY ConcatProperties
<1>6. 5 + l \in 10 .. 11
  OBVIOUS
<1>7. QED BY <1>3, <1>4, <1>5, <1>6

\* A read that is not cut short has all of the answer.
LEMMA ReadTimely == Types /\ Timely /\ Read => Timely'
<1> SUFFICES ASSUME Types, Timely, Read, timely' PROVE Timely'
  BY DEF Timely
<1>1. /\ timely /\ in_flight = <<>> /\ phase = "read" /\ phase' = "receive"
      /\ UNCHANGED slave
  BY DEF Read
<1>2. Replied
  BY <1>1 DEF Timely
<1>3. PICK A : A = answer_bytes(wait_packet, send_packet)
  OBVIOUS
<1>4. input = A
  <2>1. input \o <<>> = A /\ input \in Seq(Byte)
    BY <1>1, <1>3 DEF Timely, Types
  <2>2. QED BY <2>1, ConcatEmptySeq
<1>5. A \in Seq(Byte) /\ Len(A) \in 10 .. 11
  BY <1>2, <1>3, AnswerLength
<1>6. PICK n \in 10 .. 11 : n = Len(A)
  BY <1>5
<1>7. PICK size \in 14 .. 30 : size = read_size
  <2>1. PICK m \in 0 .. 30 : m = read_size
    BY ReadSize DEF RX_SIZE
  <2>2. read_size >= 14
    BY <1>1, ReadSize
  <2>3. m \in 14 .. 30
    BY <2>1, <2>2
  <2>4. QED BY <2>1, <2>3
<1>8. got' = n
      /\ rx_frame_buffer' = [i \in 1 .. RX_SIZE |-> IF i <= n THEN A[i] ELSE rx_frame_buffer[i]]
  <2>1. n < size
    OBVIOUS
  <2>2. (IF Len(input) < read_size THEN Len(input) ELSE read_size) = n
    BY <1>4, <1>6, <1>7, <2>1
  <2>3. QED BY <1>4, <2>2 DEF Read
<1>9. \A i \in 1 .. 30 : rx_frame_buffer'[i] = IF i <= n THEN A[i] ELSE rx_frame_buffer[i]
  BY <1>8 DEF RX_SIZE
<1>10. Answered'
  <2>1. answer_bytes(wait_packet, send_packet)' = A
    BY <1>1, <1>3, SameAnswer
  <2>2. \A i \in 1 .. n : rx_frame_buffer'[i] = A[i]
    <3>1. \A i \in 1 .. n : i \in 1 .. 30 /\ i <= n
      OBVIOUS
    <3>2. QED BY <1>9, <3>1
  <2>3. QED BY <1>6, <1>8, <2>1, <2>2 DEF Answered
<1>11. QED BY <1>1, <1>2, <1>10, SameAnswer DEF Timely

\* The buffer is fed to the receiver.
LEMMA ReceiveTimely == Types /\ Timely /\ MeloReceiveBytes => Timely'
<1> SUFFICES ASSUME Types, Timely, MeloReceiveBytes, timely' PROVE Timely'
  BY DEF Timely
<1>1. /\ timely /\ phase = "receive" /\ phase' = "background"
      /\ UNCHANGED <<slave, rx_frame_buffer, current_state, shown>>
  BY DEF MeloReceiveBytes
<1>2. Replied /\ Answered /\ clean' = undisturbed
  BY <1>1 DEF Timely, MeloReceiveBytes
<1>3. read_size \in Nat
  BY ReadSize
<1>4. PICK h : Feeds(h) /\ rx' = h[read_size].rx /\ stack' = h[read_size].stack
  BY <1>3, FeedingTurns
<1>5. ASSUME undisturbed PROVE Showing'
  <2>1. h[read_size].rx.packet = send_packet /\ h[read_size].stack = Announced
    BY <1>1, <1>2, <1>4, <1>5, FeedAnswer
  <2>2. send_packet' = send_packet /\ current_state' = Machine!IDLE
    BY <1>1 DEF Types, IInv, slave
  <2>3. QED BY <1>4, <2>1, <2>2 DEF Showing, Machine!IDLE
<1>6. QED BY <1>1, <1>2, <1>5, SameAnswer DEF Timely

\* An event is handled: the first of them shows the packet.
LEMMA DispatchTimely == Types /\ Timely /\ Dispatch => Timely'
<1> SUFFICES ASSUME Types, Timely, Dispatch, timely' PROVE Timely'
  BY DEF Timely
<1>1. /\ timely /\ phase = "background" /\ phase' = "background"
      /\ UNCHANGED <<slave, rx, clean>> /\ packet_handler
  BY DEF Dispatch
<1>2. Replied /\ (clean => Showing)
  BY <1>1 DEF Timely
<1>3. send_packet' = send_packet
  BY <1>1 DEF slave
<1>4. ASSUME clean PROVE shown' = <<send_packet>>
  <2>0. Showing
    BY <1>2, <1>4
  <2>1. CASE handles_packet
    <3>1. shown = <<>>
      BY <2>1, DispatchCases DEF Types
    <3>2. status_of(rx.packet.command) = Slave!POSITIVE
      BY <1>2, <2>0 DEF Showing, Replied, status_of
    <3>3. shown' = Append(<<>>, send_packet)
      BY <1>1, <2>0, <2>1, <3>1, <3>2 DEF packet_handler, Showing
    <3>4. QED BY <3>3
  <2>2. CASE ~ handles_packet
    <3>1. stack = Confirmed /\ shown' = shown
      BY <2>2, DispatchCases DEF Types
    <3>2. QED BY <2>0, <3>1, Stacks DEF Showing
  <2>3. QED BY <2>1, <2>2
<1>5. clean => Showing'
  BY <1>1, <1>2, <1>3, <1>4 DEF Showing
<1>6. QED BY <1>1, <1>2, <1>5, SameAnswer DEF Timely

\* MeloBackground is over when there is no event left.
LEMMA ReturnTimely == Types /\ Timely /\ BackgroundReturn => Timely'
<1> SUFFICES ASSUME Types, Timely, BackgroundReturn, timely' PROVE Timely'
  BY DEF Timely
<1>1. /\ timely /\ phase = "background" /\ phase' = "prompt" /\ stack = <<>>
      /\ UNCHANGED <<slave, rx, shown, clean>>
  BY DEF BackgroundReturn
<1>2. clean => Showing
  BY <1>1 DEF Timely
<1>3. (clean => shown' = <<send_packet>>) /\ send_packet' = send_packet
  BY <1>1, <1>2, Stacks DEF Showing, slave
<1>4. QED BY <1>1, <1>2, <1>3 DEF Timely

\* Whatever rx_frame_buffer begins with and whatever became of the commands before, an
\* answer that comes whole and in time is what is shown (serial_example.cc:237), if no
\* escape was left over for it and no frame is fed on behind it.
THEOREM TimelyAnswersAreShownAlways == Spec => []TimelyAnswersAreShown
<1>1. Init => Timely
  BY DEF Init, Timely
<1>2. Types /\ Types' /\ Timely /\ [Next]_vars => Timely'
  <2> SUFFICES ASSUME Types, Types', Timely, [Next]_vars PROVE Timely'
    OBVIOUS
  <2>1. CASE ServeGarbage
    <3>1. phase' = "undefined"
      BY <2>1 DEF ServeGarbage
    <3>2. QED BY <3>1 DEF Timely
  <2>2. CASE UNCHANGED vars
    <3>1. UNCHANGED <<slave, in_flight, input, rx_frame_buffer, rx, stack, current_state,
                      phase, got, shown, timely, clean>>
      BY <2>2 DEF vars, line, melo
    <3>2. send_packet' = send_packet /\ (Replied' <=> Replied)
      /\ answer_bytes(wait_packet, send_packet)' = answer_bytes(wait_packet, send_packet)
      BY <3>1, SameAnswer DEF slave
    <3>3. (Answered' <=> Answered) /\ (Showing' <=> Showing)
      BY <3>1, <3>2 DEF Answered, Showing, Machine!IDLE
    <3>4. QED BY <3>1, <3>2, <3>3 DEF Timely
  <2>3. QED BY <2>1, <2>2, ArriveTimely, AskTimely, ReadTimely, ReceiveTimely, DispatchTimely,
               ReturnTimely DEF Next
<1>3. Timely => TimelyAnswersAreShown
  BY DEF Timely, TimelyAnswersAreShown
<1>4. QED BY <1>1, <1>2, <1>3, TypesAlways, PTL DEF Spec
================================================================================
