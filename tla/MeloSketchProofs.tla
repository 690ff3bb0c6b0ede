---------------------------- MODULE MeloSketchProofs ----------------------------
(***************************************************************************)
(* MeloSketch, for every set of requests, every number of them, and every  *)
(* loss.  In three parts, each with an invariant of its own:               *)
(*                                                                         *)
(* IInv: slave.ino never leaves MeloBackground half way.  Of the receiver  *)
(* it needs nothing: whatever that makes of a byte, it notifies one event  *)
(* or none.                                                                *)
(*                                                                         *)
(* Types: bytes stay bytes, in the memory, in the buffers and on the line, *)
(* whatever has been lost, and whatever packets come of it.                *)
(*                                                                         *)
(* Tracked: where a request is that was sent whole to a clean receiver. It *)
(* is Coming, byte for byte, then Received, then Answered; at the end its  *)
(* answers are out, and CollectFrame shows what a master reads in them.    *)
(* The facts about frames are from MeloFrameProofs, those about the        *)
(* services from MeloServiceProofs, of which Proofs is an instance.        *)
(***************************************************************************)
EXTENDS MeloSketch, MeloFrameProofs

\* What MeloBackground may find: nothing, a packet in an idle slave, or the one
\* confirmation of a busy one.
Waiting ==
  \/ current_state = Machine!IDLE /\ stack \in {<<>>, <<REQUEST_RECEIVED>>}
  \/ current_state \in {Machine!RESP_PEND, Machine!TX_PEND} /\ stack = <<TX_CONFIRMATION>>

IInv == Quiescent /\ Waiting

USE DEF Machine!IDLE, Machine!RESP_PROC, Machine!RESP_PEND, Machine!TX_PEND

\* The operations of the event stack on the stacks that occur.
LEMMA Stacks ==
  /\ notify_event(<<>>, REQUEST_RECEIVED) = <<REQUEST_RECEIVED>>
  /\ Machine!notify_event(<<>>, Machine!TX_CONFIRMATION) = <<TX_CONFIRMATION>>
  /\ \A e : Machine!top(<<e>>) = e /\ Machine!popped(<<e>>) = <<>>
<1>1. Len(<<>>) # StackSize - 1
  BY StackSizeAssumption
<1>2. \A e : Append(<<>>, e) = <<e>>
  OBVIOUS
<1>3. notify_event(<<>>, REQUEST_RECEIVED) = <<REQUEST_RECEIVED>>
  BY <1>1, <1>2 DEF notify_event, is_full, top, EVENT_IDLE, REQUEST_RECEIVED
<1>4. Machine!notify_event(<<>>, Machine!TX_CONFIRMATION) = <<TX_CONFIRMATION>>
  BY <1>1, <1>2 DEF Machine!notify_event, Machine!is_full, Machine!top, Machine!EVENT_IDLE,
                    Machine!TX_CONFIRMATION, TX_CONFIRMATION
<1>5. ASSUME NEW e PROVE Machine!top(<<e>>) = e /\ Machine!popped(<<e>>) = <<>>
  <2>1. <<e>> # <<>> /\ Len(<<e>>) = 1 /\ <<e>>[1] = e /\ SubSeq(<<e>>, 1, 0) = <<>>
    OBVIOUS
  <2>2. QED BY <2>1 DEF Machine!top, Machine!popped
<1>6. QED BY <1>3, <1>4, <1>5

------------------------------------------------------------------------------
(* One step *)

\* A byte is read when the stack is empty, and its packet, if it ends one, is all
\* that is put there.
LEMMA ReadByteIInv ==
  ASSUME IInv, ReadByte
  PROVE  IInv'
<1>1. /\ current_state = Machine!IDLE /\ stack = <<>> /\ current_state' = current_state
      /\ stack' \in {stack, notify_event(stack, REQUEST_RECEIVED)} /\ running'
  BY DEF ReadByte, IInv, Quiescent
<1>2. QED BY <1>1, Stacks DEF IInv, Quiescent, Waiting

\* An event is taken from the stack; where the new state transmits, the end of the
\* transmission is there in its place.
LEMMA DispatchCases ==
  ASSUME IInv, Dispatch
  PROVE  /\ running /\ running' = running
         /\ \/ /\ handles_packet
               /\ current_state = Machine!IDLE /\ stack = <<REQUEST_RECEIVED>>
               /\ current_state' = Machine!RESP_PEND /\ stack' = <<TX_CONFIRMATION>>
               /\ transmitted = filled(wait_packet', Service!wait_frame_bytes(wait_packet'))
            \/ /\ ~ handles_packet
               /\ current_state = Machine!RESP_PEND /\ stack = <<TX_CONFIRMATION>>
               /\ current_state' = Machine!TX_PEND /\ stack' = <<TX_CONFIRMATION>>
               /\ transmitted = filled(send_packet', Service!send_frame_bytes(send_packet'))
            \/ /\ ~ handles_packet
               /\ current_state = Machine!TX_PEND /\ stack = <<TX_CONFIRMATION>>
               /\ current_state' = Machine!IDLE /\ stack' = <<>>
               /\ transmitted = <<>>
<1>1. /\ Machine!Dispatch /\ running /\ running' = running /\ stack # <<>>
  BY DEF Dispatch, Machine!Dispatch
<1>2. CASE current_state = Machine!IDLE
  <2>1. stack = <<REQUEST_RECEIVED>>
    BY <1>1, <1>2 DEF IInv, Waiting
  <2>2. Machine!IDLE_during(REQUEST_RECEIVED, <<>>)
    BY <1>1, <1>2, <2>1, Stacks DEF Machine!Dispatch
  <2>3. current_state' = 2 /\ stack' = <<TX_CONFIRMATION>>
    BY <2>2, Stacks DEF Machine!IDLE_during, Machine!REQUEST_RECEIVED, REQUEST_RECEIVED,
                        Machine!state_transition, Machine!MeloTransmitBytes
  <2>4. handles_packet
    <3>1. <<REQUEST_RECEIVED>> # <<>> /\ Len(<<REQUEST_RECEIVED>>) = 1
          /\ <<REQUEST_RECEIVED>>[1] = REQUEST_RECEIVED
      OBVIOUS
    <3>2. QED BY <1>2, <2>1, <3>1 DEF handles_packet, top
  <2>5. transmitted = filled(wait_packet', Service!wait_frame_bytes(wait_packet'))
    BY <1>2, <2>3 DEF transmitted
  <2>6. QED BY <1>1, <1>2, <2>1, <2>3, <2>4, <2>5
<1>3. CASE current_state = Machine!RESP_PEND
  <2>1. stack = <<TX_CONFIRMATION>>
    BY <1>1, <1>3 DEF IInv, Waiting
  <2>2. Machine!RESP_PEND_during(TX_CONFIRMATION, <<>>)
    BY <1>1, <1>3, <2>1, Stacks DEF Machine!Dispatch
  <2>3. current_state' = 3 /\ stack' = <<TX_CONFIRMATION>>
    BY <2>2, Stacks DEF Machine!RESP_PEND_during, Machine!TX_CONFIRMATION, TX_CONFIRMATION,
                        Machine!state_transition, Machine!MeloTransmitBytes
  <2>4. /\ ~ handles_packet
        /\ transmitted = filled(send_packet', Service!send_frame_bytes(send_packet'))
    BY <1>3, <2>3 DEF handles_packet, transmitted
  <2>5. QED BY <1>1, <1>3, <2>1, <2>3, <2>4
<1>4. CASE current_state = Machine!TX_PEND
  <2>1. stack = <<TX_CONFIRMATION>>
    BY <1>1, <1>4 DEF IInv, Waiting
  <2>2. Machine!TX_PEND_during(TX_CONFIRMATION, <<>>)
    BY <1>1, <1>4, <2>1, Stacks DEF Machine!Dispatch
  <2>3. current_state' = 0 /\ stack' = <<>>
    BY <2>2 DEF Machine!TX_PEND_during, Machine!TX_CONFIRMATION, TX_CONFIRMATION,
                Machine!state_transition
  <2>4. ~ handles_packet /\ transmitted = <<>>
    BY <1>4, <2>3 DEF handles_packet, transmitted
  <2>5. QED BY <1>1, <1>4, <2>1, <2>3, <2>4
<1>5. QED BY <1>2, <1>3, <1>4 DEF IInv, Waiting

\* A dispatch leads from one of the stacks of Waiting to another.
LEMMA DispatchIInv ==
  ASSUME IInv, Dispatch
  PROVE  IInv'
BY DispatchCases DEF IInv, Quiescent, Waiting

\* Everything else leaves the state machine and its stack alone.
LEMMA NextIInv == IInv /\ [Next]_vars => IInv'
<1> SUFFICES ASSUME IInv, [Next]_vars PROVE IInv'
  OBVIOUS
<1>1. ASSUME UNCHANGED <<stack, current_state, running>> PROVE IInv'
  BY <1>1 DEF IInv, Quiescent, Waiting
<1>2. ASSUME NEW op \in Commands, Send(op) PROVE IInv'
  BY <1>1, <1>2 DEF Send, send, melo
<1>3. ASSUME NEW op \in Commands, NEW short \in ShortWrites,
             SendTwice(op, short) \/ SendThrows(op, short)
      PROVE  IInv'
  BY <1>1, <1>3 DEF SendTwice, SendThrows, send, melo
<1>4. CASE LoseByte
  BY <1>1, <1>4 DEF LoseByte, melo
<1>5. CASE ReadByte
  BY <1>5, ReadByteIInv
<1>6. CASE Dispatch
  BY <1>6, DispatchIInv
<1>7. CASE BackgroundReturn
  <2>1. stack = <<>> /\ UNCHANGED <<stack, current_state>>
    BY <1>7 DEF BackgroundReturn, Machine!BackgroundReturn, melo
  <2>2. QED BY <2>1 DEF IInv, Quiescent, Waiting
<1>8. CASE UNCHANGED vars
  BY <1>1, <1>8 DEF vars, melo
<1>9. QED BY <1>2, <1>3, <1>4, <1>5, <1>6, <1>7, <1>8 DEF Next

\* The slave is idle with nothing on its stack whenever loop() looks for the next
\* byte (slave.ino:46).
THEOREM QuiescentAlways == Spec => []Quiescent
<1>1. Init => IInv
  BY DEF Init, IInv, Quiescent, Waiting
<1>2. IInv => Quiescent
  BY DEF IInv
<1>3. QED BY <1>1, <1>2, NextIInv, PTL DEF Spec

------------------------------------------------------------------------------
(* Services and frames *)

HIDE DEF Machine!IDLE, Machine!RESP_PROC, Machine!RESP_PEND, Machine!TX_PEND

\* What is proved of MeloService holds of Service, whose assumptions are among those
\* of MeloSketch.
Proofs == INSTANCE MeloServiceProofs WITH Values <- Written

\* What MeloService assumes of its constants holds for those that MeloSketch gives it.
LEMMA ServiceAssumptions ==
  Proofs!MemoryAssumption /\ Proofs!OrderAssumption /\ Proofs!DataAssumption
<1>1. Proofs!Byte = Byte
  BY DEF Byte, Proofs!Byte
<1>2. QED BY <1>1, CommandsAssumption, DataAssumption
         DEF Proofs!MemoryAssumption, Proofs!OrderAssumption, Proofs!DataAssumption

\* The frames of MeloService are those of MeloFrame.
LEMMA SameFrames ==
  ASSUME NEW packet, NEW cmd, NEW bytes, NEW order, NEW crc_present
  PROVE  /\ Service!serialize_frame(cmd, bytes, order, crc_present) =
              serialize_frame(cmd, bytes, order, crc_present)
         /\ Service!send_frame_bytes(packet) =
              serialize_frame(packet.command, packet.data, PE, FALSE)
         /\ Service!wait_frame_bytes(packet) =
              serialize_frame(packet.command, packet.data, PE, FALSE)
<1>1. ASSUME NEW cmd_, NEW bytes_, NEW order_, NEW crc_
      PROVE  Service!serialize_frame(cmd_, bytes_, order_, crc_) =
               serialize_frame(cmd_, bytes_, order_, crc_)
  BY DEF serialize_frame, Service!serialize_frame, create_cmd_byte, Service!create_cmd_byte,
         create_r, Service!create_r, serialize_data, Service!serialize_data,
         serialize_byte, Service!serialize_byte, is_control, Service!is_control,
         is_set, Service!is_set, bit, Service!bit, BIT_SET, Service!BIT_SET,
         BIT_CLEAR, Service!BIT_CLEAR, ESCAPE_BYTE, Service!ESCAPE_BYTE,
         NUM_ESCAPE_BYTES, Service!NUM_ESCAPE_BYTES, HEAD, Service!HEAD, TAIL, Service!TAIL,
         CRC, Service!CRC, FRAME_ENDIAN, Service!FRAME_ENDIAN,
         FRAME_ESCAPE, Service!FRAME_ESCAPE, FRAME_RESERVED, Service!FRAME_RESERVED,
         FRAME_CRC, Service!FRAME_CRC, FRAME_MARKER, Service!FRAME_MARKER
<1>2. QED BY <1>1 DEF Service!send_frame_bytes, Service!wait_frame_bytes

\* The operators of MeloService in Service and in Proofs.
LEMMA SameBytes == Service!Byte = Byte /\ Proofs!Byte = Byte /\ Proofs!Cells = Service!Cells
  BY DEF Byte, Service!Byte, Proofs!Byte, Proofs!Cells, Service!Cells

\* The change of byte order.
LEMMA SameNative == \A value : Proofs!native(value) = Service!native(value)
  BY DEF Proofs!native, Service!native, Proofs!Reverse, Service!Reverse

\* The requests of a master.
LEMMA SameRequests ==
  /\ Proofs!Reads = Service!Reads /\ Proofs!Writes = Service!Writes
  /\ Proofs!Others = Service!Others
  /\ \A op : Proofs!request(op) = Service!request(op)
  BY DEF Proofs!Reads, Service!Reads, Proofs!Writes, Service!Writes, Proofs!Others,
         Service!Others, Proofs!Cells, Service!Cells, Proofs!request, Service!request,
         Proofs!command, Service!command, Proofs!SizeCode, Service!SizeCode,
         Proofs!REQUEST, Service!REQUEST, Proofs!address_bytes, Service!address_bytes

\* The services.
LEMMA SameServices ==
  /\ \A buffer, bytes : Proofs!unpacked(buffer, bytes) = Service!unpacked(buffer, bytes)
  /\ \A packet, buffer : Proofs!service(packet, buffer) = Service!service(packet, buffer)
<1>1. \A buffer, bytes : Proofs!unpacked(buffer, bytes) = Service!unpacked(buffer, bytes)
  BY DEF Proofs!unpacked, Service!unpacked, Proofs!NUM_SERVICE_BYTES, Service!NUM_SERVICE_BYTES
<1>2. \A packet, buffer : Proofs!service(packet, buffer) = Service!service(packet, buffer)
  BY DEF Service!service, Proofs!service, Service!service_of, Proofs!service_of,
         Service!service_read_write, Proofs!service_read_write,
         Service!create_pointer, Proofs!create_pointer, Service!esafe, Proofs!esafe,
         Service!subfunction_of, Proofs!subfunction_of, Service!data_size, Proofs!data_size,
         Service!store, Proofs!store, Service!native, Proofs!native, Service!peek, Proofs!peek,
         Service!Cells, Proofs!Cells, Service!service_NULL, Proofs!service_NULL,
         Service!Reverse, Proofs!Reverse
<1>3. QED BY <1>1, <1>2

\* What a request carries in its frame.
carried(op) == content(Service!request(op).command, Service!request(op).data, FALSE)

\* The requests that are sent, and their frames.
LEMMA Requests ==
  ASSUME NEW op \in Commands
  PROVE  /\ Service!request(op) \in [byte_order : {0, 1}, command : 0 .. 31, data : Seq(Byte)]
         /\ Service!request(op).byte_order = HE
         /\ Len(Service!request(op).data) \in 4 .. 8
<1>1. op \in Proofs!Reads \cup Proofs!Writes \cup Proofs!Others
  BY CommandsAssumption, SameRequests
<1>2. op \in Proofs!Operations
  BY <1>1 DEF Proofs!Operations
<1>3. Proofs!request(op) \in [byte_order : {0, 1}, command : 0 .. 31, data : Seq(Proofs!Byte)]
  BY <1>2, ServiceAssumptions, Proofs!RequestTypes
<1>4. Len(Proofs!request(op).data) \in 4 .. 8
  BY <1>1, ServiceAssumptions, Proofs!RequestLength
<1>5. Proofs!request(op) = Service!request(op) /\ Proofs!Byte = Byte
  BY SameRequests, SameBytes
<1>6. Service!request(op).byte_order = HE
  BY DEF Service!request
<1>7. QED BY <1>3, <1>4, <1>5, <1>6

\* The frame of a request is a frame, of bytes, and not empty.
LEMMA RequestFrames ==
  ASSUME NEW op \in Commands
  PROVE  /\ frame_of(op) \in Seq(Byte) /\ Len(frame_of(op)) \in Nat /\ Len(frame_of(op)) > 0
         /\ \E e, c : IsFrame(frame_of(op), carried(op), HE, FALSE, e, c)
<1>1. PICK cmd \in 0 .. 31 : cmd = Service!request(op).command
  BY Requests
<1>2. PICK bytes \in Seq(Byte) : bytes = Service!request(op).data
  BY Requests
<1>3. cmd \in Byte /\ ~ is_control(cmd)
  <2>1. cmd \in Byte /\ ~ ((cmd \div 32) % 2 = 1)
    BY DEF Byte
  <2>2. QED BY <2>1, Bits
<1>4. PICK F : F = serialize_frame(cmd, bytes, HE, FALSE)
  OBVIOUS
<1>5. HE \in {0, 1}
  BY CommandsAssumption
<1>6. PICK e, c : IsFrame(F, content(cmd, bytes, FALSE), HE, FALSE, e, c)
  BY <1>3, <1>4, <1>5, FramesAreFrames
<1>7. F \in Seq(Byte) /\ Len(F) >= 4
  BY <1>6 DEF IsFrame
<1>8. frame_of(op) = F
  BY <1>1, <1>2, <1>4, SameFrames DEF frame_of
<1>9. carried(op) = content(cmd, bytes, FALSE)
  BY <1>1, <1>2 DEF carried
<1>10. Len(F) \in Nat /\ Len(F) > 0
  <2>1. PICK n \in Nat : n = Len(F)
    BY <1>7
  <2>2. QED BY <1>7, <2>1
<1>11. QED BY <1>6, <1>7, <1>8, <1>9, <1>10

\* What a service makes of any packet.
LEMMA ServiceTypes ==
  ASSUME mem \in [Service!Cells -> Byte],
         send_packet.data \in Seq(Byte), Len(send_packet.data) <= 4,
         NEW buffer \in [1 .. 8 -> Byte],
         NEW packet \in [byte_order : {0, 1}, command : Byte, data : Seq(Byte)],
         NEW result, result = Service!service(packet, buffer)
  PROVE  /\ result.success \in BOOLEAN
         /\ result.mem \in [Service!Cells -> Byte]
         /\ result.data \in Seq(Byte) /\ Len(result.data) <= 4
<1>1. /\ Proofs!NUM_SERVICE_BYTES = 8 /\ Proofs!Byte = Byte /\ Proofs!Cells = Service!Cells
      /\ Proofs!service(packet, buffer) = result
  BY SameBytes, SameServices DEF Proofs!NUM_SERVICE_BYTES
<1>2. /\ mem \in [Proofs!Cells -> Proofs!Byte]
      /\ send_packet.data \in Seq(Proofs!Byte)
      /\ buffer \in [1 .. Proofs!NUM_SERVICE_BYTES -> Proofs!Byte]
      /\ packet \in [byte_order : {0, 1}, command : Proofs!Byte, data : Seq(Proofs!Byte)]
  BY <1>1
<1>3. /\ Proofs!service(packet, buffer).success \in BOOLEAN
      /\ Proofs!service(packet, buffer).mem \in [Proofs!Cells -> Proofs!Byte]
      /\ Proofs!service(packet, buffer).data \in Seq(Proofs!Byte)
      /\ Len(Proofs!service(packet, buffer).data) <= 4
  BY <1>2, ServiceAssumptions, Proofs!ServiceTypes
<1>4. QED BY <1>1, <1>3

\* op has been done to the memory that was found, and answered.
Done(op, found, left, success, answer) ==
  /\ op.kind = "read" =>
       /\ success /\ left = found
       /\ answer = [i \in 1 .. op.size |-> found[op.address + i - 1]]
  /\ op.kind = "write" =>
       /\ success
       /\ left = [cell \in Service!Cells |->
                    IF cell \in op.address .. op.address + Len(op.value) - 1
                    THEN Service!native(op.value)[cell - op.address + 1] ELSE found[cell]]
  /\ op.kind = "other" => ~ success /\ left = found

\* What a service makes of a request that was sent.
LEMMA ServiceDone ==
  ASSUME PE = HE, NEW op \in Commands,
         NEW old \in [1 .. 8 -> Byte],
         NEW buffer, buffer = Service!unpacked(old, Service!request(op).data),
         NEW result, result = Service!service(Service!request(op), buffer)
  PROVE  Done(op, mem, result.mem, result.success, result.data)
<1>1. op \in Proofs!Reads \cup Proofs!Writes \cup Proofs!Others
  BY CommandsAssumption, SameRequests
<1>2. old \in [1 .. Proofs!NUM_SERVICE_BYTES -> Proofs!Byte]
  BY SameBytes DEF Proofs!NUM_SERVICE_BYTES
<1>3. buffer = Proofs!unpacked(old, Proofs!request(op).data)
  BY SameRequests, SameServices
<1>4. result = Proofs!service(Proofs!request(op), buffer)
  BY SameRequests, SameServices
<1>5. Proofs!Does(op, mem, result.mem, result.success, result.data)
  BY <1>1, <1>2, <1>3, <1>4, ServiceAssumptions, Proofs!ServiceDoes
<1>6. QED BY <1>5, SameBytes, SameNative DEF Proofs!Does, Done

------------------------------------------------------------------------------
(* What the master makes of the answers *)

\* g is the function that packets looks for, as far as the m-th byte.
IsCollection(g, bytes, m) ==
  g = [n \in 0 .. m |-> IF n = 0 THEN collected ELSE collect(g[n - 1], bytes[n])]

\* There is one, however many bytes come.
LEMMA CollectionExists ==
  ASSUME NEW bytes
  PROVE  \A m \in Nat : \E g : IsCollection(g, bytes, m)
<1> DEFINE S == {m \in Nat : \E g : IsCollection(g, bytes, m)}
<1>1. 0 \in S
  <2> DEFINE g == [n \in 0 .. 0 |-> collected]
  <2>1. IsCollection(g, bytes, 0)
    BY DEF IsCollection
  <2>2. QED BY <2>1
<1>2. ASSUME NEW m \in Nat, m \in S PROVE m + 1 \in S
  <2>1. PICK g : IsCollection(g, bytes, m)
    BY <1>2
  <2> DEFINE g2 == [n \in 0 .. m + 1 |->
                      IF n = m + 1 THEN collect(g[m], bytes[m + 1]) ELSE g[n]]
  <2>2. ASSUME NEW n \in 0 .. m + 1
        PROVE  g2[n] = IF n = 0 THEN collected ELSE collect(g2[n - 1], bytes[n])
    <3>1. CASE n = m + 1
      <4>1. n # 0 /\ n - 1 = m /\ g2[m] = g[m]
        BY <3>1
      <4>2. QED BY <3>1, <4>1
    <3>2. CASE n \in 1 .. m
      <4>1. g2[n] = g[n] /\ g2[n - 1] = g[n - 1]
        BY <3>2
      <4>2. g[n] = collect(g[n - 1], bytes[n])
        BY <2>1, <3>2 DEF IsCollection
      <4>3. QED BY <3>2, <4>1, <4>2
    <3>3. CASE n = 0
      BY <2>1, <3>3 DEF IsCollection
    <3>4. QED BY <3>1, <3>2, <3>3
  <2>3. IsCollection(g2, bytes, m + 1)
    <3> HIDE DEF g2
    <3>1. g2 = [n \in 0 .. m + 1 |-> g2[n]]
      BY DEF g2
    <3>2. QED BY <2>2, <3>1 DEF IsCollection
  <2>4. QED BY <2>3
<1> HIDE DEF S
<1>3. Nat \subseteq S
  BY <1>1, <1>2, NatInd
<1>4. QED BY <1>3 DEF S

\* What the master collects, byte by byte.
LEMMA Collection ==
  ASSUME NEW bytes \in Seq(Byte)
  PROVE  \E h : /\ h[0] = collected
                /\ \A i \in 1 .. Len(bytes) : h[i] = collect(h[i - 1], bytes[i])
                /\ packets(bytes) = h[Len(bytes)].packets
<1> DEFINE h == CHOOSE g : IsCollection(g, bytes, Len(bytes))
<1>1. Len(bytes) \in Nat
  OBVIOUS
<1>2. IsCollection(h, bytes, Len(bytes))
  BY <1>1, CollectionExists
<1>3. packets(bytes) = h[Len(bytes)].packets
  BY DEF packets, IsCollection
<1> HIDE DEF h
<1>4. h[0] = collected /\ \A i \in 1 .. Len(bytes) : h[i] = collect(h[i - 1], bytes[i])
  BY <1>1, <1>2 DEF IsCollection
<1>5. QED BY <1>3, <1>4

\* F is a frame without a CRC that carries a command and data.
Carries(F, cmd, bytes, order) ==
  \E e, c : IsFrame(F, content(cmd, bytes, FALSE), order, FALSE, e, c)

\* The states h take in the frame F behind the p bytes before it.
Traces(h, p, F) == \A i \in 1 .. Len(F) : h[p + i] = collect(h[p + i - 1], F[i])

CleanState(state) == state.rx \in Receivers /\ state.rx.escape_buffer = 0

\* The n bytes behind the first p add a packet to those collected.
Adds(h, p, n, cmd, bytes) ==
  /\ CleanState(h[p + n])
  /\ h[p + n].packets = Append(h[p].packets, [command |-> cmd, data |-> bytes])

\* A frame adds its packet to those collected before.
LEMMA CollectFrame ==
  ASSUME NEW cmd \in Byte, NEW bytes \in Seq(Byte), Len(bytes) <= 127,
         NEW order \in {0, 1}, NEW F, Carries(F, cmd, bytes, order),
         NEW h, NEW p \in Nat, NEW n \in Nat, n = Len(F), Traces(h, p, F), CleanState(h[p])
  PROVE  Adds(h, p, n, cmd, bytes)
<1>a. PICK crc_present \in BOOLEAN : crc_present = FALSE
  OBVIOUS
<1>b. PICK data_in : data_in = content(cmd, bytes, crc_present)
  OBVIOUS
<1>c. PICK e, c : IsFrame(F, data_in, order, crc_present, e, c)
  BY <1>a, <1>b DEF Carries
<1>d. h[p].rx \in Receivers /\ h[p].rx.escape_buffer = 0
  BY DEF CleanState
<1> DEFINE Good(i) == /\ h[p + i].rx \in Receivers
                      /\ h[p + i].rx.escape_buffer = e[i + 1]
                      /\ Buffered(h[p + i].rx, data_in, order, crc_present, c[i + 1])
                      /\ h[p + i].packets = h[p].packets
           S == {i \in Nat : i + 1 < n => Good(i + 1)}
<1> HIDE DEF Good, S
<1>1. /\ F \in Seq(Byte) /\ n >= 4 /\ e[2] = 0 /\ c[2] = 0
      /\ e[n] = 0 /\ c[n] = Len(data_in)
  BY <1>c DEF IsFrame
<1>0. Passes(F, data_in, order, crc_present, e, c)
  BY <1>c, FramePasses
<1>2. \A i \in 1 .. n : F[i] \in Byte
  BY <1>1, ElementOfSeq
<1>3. ASSUME NEW i \in 1 .. n
      PROVE  /\ h[p + i].rx = rx_byte(h[p + i - 1].rx, F[i])
             /\ ~ rx_notifies(h[p + i - 1].rx, F[i]) =>
                  h[p + i].packets = h[p + i - 1].packets
             /\ rx_notifies(h[p + i - 1].rx, F[i]) =>
                  h[p + i].packets = Append(h[p + i - 1].packets, h[p + i].rx.packet)
  <2>1. PICK s : s = h[p + i - 1]
    OBVIOUS
  <2>2. PICK t : t = h[p + i]
    OBVIOUS
  <2>3. t = collect(s, F[i])
    BY <2>1, <2>2 DEF Traces
  <2>4. /\ t.rx = rx_byte(s.rx, F[i])
        /\ ~ rx_notifies(s.rx, F[i]) => t.packets = s.packets
        /\ rx_notifies(s.rx, F[i]) => t.packets = Append(s.packets, t.rx.packet)
    BY <2>3 DEF collect
  <2>5. QED BY <2>1, <2>2, <2>4
<1>4. 0 \in S
  <2>1. 1 \in 1 .. n /\ p + 1 - 1 = p /\ 1 + 1 = 2
    BY <1>1
  <2>2. /\ h[p + 1].rx = rx_byte(h[p].rx, F[1])
        /\ ~ rx_notifies(h[p].rx, F[1]) => h[p + 1].packets = h[p].packets
    BY <1>3, <2>1
  <2>3. /\ ~ rx_notifies(h[p].rx, F[1])
        /\ h[p + 1].rx.escape_buffer = h[p].rx.escape_buffer
        /\ Buffered(h[p + 1].rx, data_in, order, crc_present, 0)
    <3>1. PICK rx1 \in Receivers : rx1 = h[p].rx
      BY <1>d
    <3>2. PICK rx2 : rx2 = rx_byte(rx1, F[1])
      OBVIOUS
    <3>3. /\ ~ rx_notifies(rx1, F[1]) /\ rx2.escape_buffer = rx1.escape_buffer
          /\ Buffered(rx2, data_in, order, crc_present, 0)
      BY <1>0, <3>2 DEF Passes, Starts
    <3>4. h[p + 1].rx = rx2
      BY <2>2, <3>1, <3>2
    <3>5. QED BY <3>1, <3>3, <3>4
  <2>4. h[p + 1].rx \in Receivers
    BY <1>2, <1>d, <2>1, <2>2, RxType
  <2>5. Good(1)
    BY <1>1, <1>d, <2>1, <2>2, <2>3, <2>4 DEF Good
  <2>6. 0 + 1 = 1 /\ 0 \in Nat
    OBVIOUS
  <2>7. QED BY <2>5, <2>6 DEF S
<1>5. ASSUME NEW j \in Nat, j \in S PROVE j + 1 \in S
  <2> SUFFICES ASSUME (j + 1) + 1 < n PROVE Good((j + 1) + 1)
    BY <1>5 DEF S
  <2>1. PICK i \in 1 .. n : i = j + 1
    OBVIOUS
  <2>2. PICK k \in 2 .. n - 1 : k = i + 1
    BY <2>1
  <2>3. /\ k \in 1 .. n /\ i < n /\ p + k - 1 = p + i
    BY <2>1, <2>2
  <2>4. Good(i)
    BY <1>5, <2>1, <2>3 DEF S
  <2>5. PICK rx1 \in Receivers : rx1 = h[p + i].rx
    BY <2>4 DEF Good
  <2>6. PICK rx2 : rx2 = h[p + k].rx
    OBVIOUS
  <2>7. rx2 = rx_byte(rx1, F[k])
    BY <1>3, <2>3, <2>5, <2>6
  <2>8. ~ rx_notifies(rx1, F[k]) /\ Follows(rx1, rx2, data_in, order, crc_present, e, c, k)
    <3>1. k \in 2 .. Len(F) - 1
      BY <2>2
    <3>2. QED BY <1>0, <2>7, <3>1 DEF Passes
  <2>9. rx1.escape_buffer = e[k] /\ Buffered(rx1, data_in, order, crc_present, c[k])
    BY <2>2, <2>4, <2>5 DEF Good
  <2>10. rx2.escape_buffer = e[k + 1] /\ Buffered(rx2, data_in, order, crc_present, c[k + 1])
    BY <2>8, <2>9 DEF Follows
  <2>11. rx2 \in Receivers
    BY <1>2, <2>3, <2>7, RxType
  <2>12. h[p + k].packets = h[p].packets
    BY <1>3, <2>3, <2>4, <2>5, <2>8 DEF Good
  <2>13. Good(k)
    BY <2>6, <2>10, <2>11, <2>12 DEF Good
  <2>14. QED BY <2>1, <2>2, <2>13
<1>6. Nat \subseteq S
  BY <1>4, <1>5, NatInd
<1>7. Good(n - 1)
  <2>1. n - 2 \in Nat /\ (n - 2) + 1 < n /\ (n - 2) + 1 = n - 1
    BY <1>1
  <2>2. QED BY <1>6, <2>1 DEF S
<1>8. (n - 1) + 1 = n /\ p + n - 1 = p + (n - 1) /\ n \in 1 .. n
  BY <1>1
<1>9. PICK rx1 \in Receivers : rx1 = h[p + (n - 1)].rx
  BY <1>7 DEF Good
<1>10. PICK rx2 : rx2 = h[p + n].rx
  OBVIOUS
<1>11. rx2 = rx_byte(rx1, F[n])
  BY <1>3, <1>8, <1>9, <1>10
<1>12. rx1.escape_buffer = 0 /\ Buffered(rx1, data_in, order, crc_present, Len(data_in))
  BY <1>1, <1>7, <1>8, <1>9 DEF Good
<1>13. /\ rx2.escape_buffer = 0 /\ rx_notifies(rx1, F[n])
       /\ rx2.packet = [command |-> cmd, data |-> bytes]
  <2>1. rx2 = rx_byte(rx1, F[Len(F)])
    BY <1>11
  <2>2. /\ rx2.escape_buffer = rx1.escape_buffer
        /\ Buffered(rx1, data_in, order, crc_present, Len(data_in)) =>
             /\ rx_notifies(rx1, F[Len(F)])
             /\ rx2.packet = [command |-> cmd, data |-> bytes]
    BY <1>b, <1>c, <2>1, FrameTail
  <2>3. QED BY <1>12, <2>2
<1>14. rx2 \in Receivers
  BY <1>2, <1>8, <1>11, RxType
<1>15. h[p + n].packets = Append(h[p].packets, rx2.packet)
  BY <1>3, <1>7, <1>8, <1>9, <1>10, <1>13 DEF Good
<1>16. QED BY <1>10, <1>13, <1>14, <1>15 DEF CleanState, Adds

\* Two frames, one after the other, are two packets.
LEMMA TwoPackets ==
  ASSUME NEW cmd1 \in Byte, NEW bytes1 \in Seq(Byte), Len(bytes1) <= 127,
         NEW cmd2 \in Byte, NEW bytes2 \in Seq(Byte), Len(bytes2) <= 127,
         NEW order \in {0, 1},
         NEW F, Carries(F, cmd1, bytes1, order),
         NEW G, Carries(G, cmd2, bytes2, order)
  PROVE  packets(F \o G) = <<[command |-> cmd1, data |-> bytes1],
                             [command |-> cmd2, data |-> bytes2]>>
<1>1. F \in Seq(Byte) /\ G \in Seq(Byte)
  BY DEF IsFrame, Carries
<1>2. PICK n \in Nat : n = Len(F)
  BY <1>1
<1>3. PICK m \in Nat : m = Len(G)
  BY <1>1
<1>4. PICK s : s = F \o G
  OBVIOUS
<1>5. /\ s \in Seq(Byte) /\ Len(s) = n + m
      /\ \A i \in 1 .. n : s[i] = F[i]
      /\ \A i \in 1 .. m : s[n + i] = G[i]
  BY <1>1, <1>2, <1>3, <1>4
<1>6. n + m \in Nat
  OBVIOUS
<1>7. PICK h : /\ h[0] = collected
               /\ \A i \in 1 .. n + m : h[i] = collect(h[i - 1], s[i])
               /\ packets(s) = h[n + m].packets
  BY <1>5, Collection
<1>8. packets(s) = h[n + m].packets
  BY <1>7
<1>9. CleanState(h[0]) /\ h[0].packets = <<>>
  <2>1. receiver_init \in Receivers /\ receiver_init.escape_buffer = 0
    BY InitType DEF receiver_init
  <2>2. QED BY <1>7, <2>1 DEF collected, CleanState
<1>10. Traces(h, 0, F)
  <2>1. ASSUME NEW i \in 1 .. n PROVE h[0 + i] = collect(h[0 + i - 1], F[i])
    <3>1. i \in 1 .. n + m /\ 0 + i = i /\ 0 + i - 1 = i - 1
      OBVIOUS
    <3>2. h[i] = collect(h[i - 1], F[i])
      BY <1>5, <1>7, <3>1
    <3>3. QED BY <3>1, <3>2
  <2>2. QED BY <1>2, <2>1 DEF Traces
<1>11. Traces(h, n, G)
  <2>1. ASSUME NEW i \in 1 .. m PROVE h[n + i] = collect(h[n + i - 1], G[i])
    <3>1. n + i \in 1 .. n + m
      OBVIOUS
    <3>2. h[n + i] = collect(h[n + i - 1], s[n + i])
      BY <1>7, <3>1
    <3>3. QED BY <1>5, <3>2
  <2>2. QED BY <1>3, <2>1 DEF Traces
<1>12. Adds(h, 0, n, cmd1, bytes1)
  BY <1>2, <1>9, <1>10, CollectFrame
<1>13. PICK pf : pf = [command |-> cmd1, data |-> bytes1]
  OBVIOUS
<1>14. PICK pg : pg = [command |-> cmd2, data |-> bytes2]
  OBVIOUS
<1>15. CleanState(h[n]) /\ h[n].packets = <<pf>>
  <2>1. 0 + n = n /\ Append(<<>>, pf) = <<pf>>
    OBVIOUS
  <2>2. QED BY <1>9, <1>12, <1>13, <2>1 DEF Adds
<1>16. h[n + m].packets = Append(h[n].packets, pg)
  <2>1. Adds(h, n, m, cmd2, bytes2)
    <3>1. CleanState(h[n])
      BY <1>15
    <3>2. QED BY <1>3, <1>11, <3>1, CollectFrame
  <2>2. QED BY <1>14, <2>1 DEF Adds
<1>17. Append(<<pf>>, pg) = <<pf, pg>>
  BY AppendTwo
<1>18. QED BY <1>4, <1>8, <1>13, <1>14, <1>15, <1>16, <1>17

------------------------------------------------------------------------------
(* Types *)

SlaveTypes ==
  /\ rx \in Receivers
  /\ recv_data \in [1 .. 8 -> Byte]
  /\ mem \in [Service!Cells -> Byte]
  /\ send_packet \in [command : Byte, data : Seq(Byte)] /\ Len(send_packet.data) <= 4
  /\ wait_packet \in [command : Byte, data : Seq(Byte)]

ChannelTypes ==
  /\ line \in Seq(Byte) /\ lost \in 0 .. MaxLoss /\ requests \in 0 .. MaxRequests
  /\ requests > 0 => asked \in Commands

Types == /\ IInv /\ SlaveTypes /\ ChannelTypes
         /\ before \in [Service!Cells -> Byte] /\ out \in Seq(Byte)

\* The slave starts with bytes everywhere.
LEMMA InitTypes == Init => Types
<1> SUFFICES ASSUME Init PROVE Types
  OBVIOUS
<1>1. IInv
  BY DEF Init, IInv, Quiescent, Waiting, Machine!IDLE
<1>2. rx \in Receivers
  BY InitType DEF Init
<1>3. 0 \in Byte /\ <<>> \in Seq(Byte) /\ Len(<<>>) <= 4
  BY DEF Byte
<1>4. recv_data = [i \in 1 .. 8 |-> 0] /\ mem = [cell \in Service!Cells |-> 0]
  BY DEF Init, Service!Init, Service!NUM_SERVICE_BYTES
<1>5. /\ send_packet = [command |-> 0, data |-> <<>>]
      /\ wait_packet = [command |-> 0, data |-> <<>>]
  BY DEF Init, Service!Init, Service!NoPacket
<1>6. SlaveTypes
  BY <1>2, <1>3, <1>4, <1>5 DEF SlaveTypes
<1>7. ChannelTypes
  BY <1>3, SketchAssumption DEF Init, ChannelTypes
<1>8. QED BY <1>1, <1>3, <1>6, <1>7 DEF Init, Types, SlaveTypes

\* What leaves the slave alone keeps its types.
LEMMA SlaveAlone ==
  ASSUME SlaveTypes, UNCHANGED <<rx, data>>
  PROVE  SlaveTypes'
<1>1. /\ rx' = rx /\ recv_data' = recv_data /\ mem' = mem
      /\ send_packet' = send_packet /\ wait_packet' = wait_packet
  BY DEF data
<1>2. QED BY <1>1 DEF SlaveTypes

\* The master sends a frame or a part of it.
LEMMA SendTypes ==
  ASSUME Types, NEW op \in Commands, NEW bytes \in Seq(Byte), NEW frame,
         send(op, bytes, frame)
  PROVE  Types'
<1>1. IInv'
  BY DEF send, melo, IInv, Quiescent, Waiting, Types
<1>2. SlaveTypes'
  BY SlaveAlone DEF send, melo, Types
<1>3. /\ requests < MaxRequests /\ requests' = requests + 1 /\ asked' = op
      /\ line' = bytes /\ lost' = lost /\ before' = before /\ out' = out
  BY DEF send
<1>4. requests' \in 0 .. MaxRequests
  BY <1>3, SketchAssumption DEF Types, ChannelTypes
<1>5. ChannelTypes'
  BY <1>3, <1>4 DEF Types, ChannelTypes
<1>6. QED BY <1>1, <1>2, <1>3, <1>5 DEF Types

\* What the master writes to its port consists of bytes.
LEMMA SentBytes ==
  ASSUME NEW op \in Commands, NEW short \in ShortWrites, short < Len(frame_of(op))
  PROVE  /\ SubSeq(frame_of(op), 1, short) \in Seq(Byte)
         /\ SubSeq(frame_of(op), 1, short) \o frame_of(op) \in Seq(Byte)
<1>1. PICK F \in Seq(Byte) : F = frame_of(op)
  BY RequestFrames
<1>2. short \in Nat
  BY SketchAssumption
<1>3. SubSeq(F, 1, short) \in Seq(Byte)
  <2>1. PICK n \in Nat : n = Len(F)
    OBVIOUS
  <2>2. \A i \in 1 .. short : F[i] \in Byte
    <3>1. short < n
      BY <1>1, <2>1
    <3>2. QED BY <1>2, <2>1, <3>1, ElementOfSeq
  <2>3. 1 \in Nat /\ short \in Nat
    BY <1>2
  <2>4. QED BY <1>2, <2>1, <2>2, SubSeqProperties
<1>4. SubSeq(F, 1, short) \o F \in Seq(Byte)
  BY <1>3, ConcatProperties
<1>5. QED BY <1>1, <1>3, <1>4

\* A byte that is lost leaves bytes.
LEMMA LoseTypes ==
  ASSUME Types, LoseByte
  PROVE  Types'
<1>1. IInv'
  BY DEF LoseByte, melo, IInv, Quiescent, Waiting, Types
<1>2. SlaveTypes'
  BY SlaveAlone DEF LoseByte, melo, Types
<1>3. /\ line # <<>> /\ lost < MaxLoss /\ line' = Tail(line) /\ lost' = lost + 1
      /\ requests' = requests /\ asked' = asked /\ before' = before /\ out' = out
  BY DEF LoseByte
<1>4. Tail(line) \in Seq(Byte)
  BY <1>3, HeadTailProperties DEF Types, ChannelTypes
<1>5. lost' \in 0 .. MaxLoss
  BY <1>3, SketchAssumption DEF Types, ChannelTypes
<1>6. ChannelTypes'
  BY <1>3, <1>4, <1>5 DEF Types, ChannelTypes
<1>7. QED BY <1>1, <1>2, <1>3, <1>6 DEF Types

\* The first bytes of a packet are copied over those of the packet before it.
LEMMA Unpacked ==
  ASSUME NEW old \in [1 .. 8 -> Byte], NEW bytes \in Seq(Byte)
  PROVE  Service!unpacked(old, bytes) \in [1 .. 8 -> Byte]
<1>1. PICK n \in Nat : n = Len(bytes)
  OBVIOUS
<1>2. \A i \in 1 .. 8 : i <= n => bytes[i] \in Byte
  BY <1>1, ElementOfSeq
<1>3. QED BY <1>1, <1>2 DEF Service!unpacked, Service!NUM_SERVICE_BYTES

\* Whatever byte is read, the receiver keeps its types, and a packet it announces is
\* copied into a buffer of bytes.
LEMMA ReadTypes ==
  ASSUME Types, ReadByte
  PROVE  Types'
<1>1. IInv'
  BY ReadByteIInv DEF Types
<1>2. /\ line # <<>> /\ line' = Tail(line) /\ rx' = rx_byte(rx, Head(line))
      /\ recv_data' \in {recv_data, Service!unpacked(recv_data, rx'.packet.data)}
      /\ requests' = requests /\ asked' = asked /\ lost' = lost
      /\ mem' = mem /\ send_packet' = send_packet /\ wait_packet' = wait_packet
      /\ before' \in {mem, before} /\ out' \in {<<>>, out}
  BY DEF ReadByte
<1>3. Tail(line) \in Seq(Byte) /\ Head(line) \in Byte
  BY <1>2, HeadTailProperties DEF Types, ChannelTypes
<1>4. rx' \in Receivers
  BY <1>2, <1>3, RxType DEF Types, SlaveTypes
<1>5. rx'.packet.data \in Seq(Byte)
  BY <1>4 DEF Receivers
<1>6. recv_data' \in [1 .. 8 -> Byte]
  <2>1. PICK bytes \in Seq(Byte) : bytes = rx'.packet.data
    BY <1>5
  <2>2. recv_data \in [1 .. 8 -> Byte]
    BY DEF Types, SlaveTypes
  <2>3. Service!unpacked(recv_data, bytes) \in [1 .. 8 -> Byte]
    BY <2>2, Unpacked
  <2>4. QED BY <1>2, <2>1, <2>2, <2>3
<1>7. SlaveTypes'
  BY <1>2, <1>4, <1>6 DEF Types, SlaveTypes
<1>8. ChannelTypes'
  BY <1>2, <1>3 DEF Types, ChannelTypes
<1>9. <<>> \in Seq(Byte)
  OBVIOUS
<1>10. QED BY <1>1, <1>2, <1>7, <1>8, <1>9 DEF Types, SlaveTypes

\* The status field of a command byte.
LEMMA WithStatus ==
  ASSUME NEW raw_byte \in Byte, NEW status \in 0 .. 3
  PROVE  /\ Service!with_status(raw_byte, status) \in Byte
         /\ Service!with_status(raw_byte, status) \div 64 = status
         /\ raw_byte < 32 => ~ is_control(Service!with_status(raw_byte, status))
<1>1. PICK low \in 0 .. 63 : low = raw_byte % 64 /\ (raw_byte < 32 => low < 32)
  BY DEF Byte
<1>2. PICK b : b = low + 64 * status
  OBVIOUS
<1>3. b \in Byte /\ b \div 64 = status /\ (low < 32 => ~ ((b \div 32) % 2 = 1))
  BY <1>2 DEF Byte
<1>4. low < 32 => ~ is_control(b)
  BY <1>3, Bits
<1>5. Service!with_status(raw_byte, status) = b
  BY <1>1, <1>2 DEF Service!with_status
<1>6. QED BY <1>1, <1>3, <1>4, <1>5

\* What the execution of a packet leaves in the memory and in the answers.
Executed(result, command_byte) ==
  /\ mem = result.mem
  /\ send_packet = [command |-> Service!with_status(command_byte,
                      IF result.success THEN Service!POSITIVE ELSE Service!NEGATIVE),
                    data |-> result.data]
  /\ \E announced \in Byte :
       wait_packet = [command |-> Service!with_status(command_byte, Service!PENDING),
                      data    |-> <<announced>>]

\* A packet that has been executed leaves no answer without a frame.
LEMMA Fills ==
  ASSUME NEW raw_byte \in Byte, NEW status \in 1 .. 3, NEW bytes, NEW frame
  PROVE  filled([command |-> Service!with_status(raw_byte, status), data |-> bytes], frame) = frame
<1>1. PICK cmd : cmd = Service!with_status(raw_byte, status)
  OBVIOUS
<1>2. cmd \in Byte /\ cmd \div 64 = status /\ status # 0
  BY <1>1, WithStatus
<1>3. cmd # 0
  BY <1>2
<1>4. [command |-> cmd, data |-> bytes] # NoPacket
  BY <1>3 DEF NoPacket
<1>5. QED BY <1>1, <1>4 DEF filled

\* The packet handler does what the service says, and answers with its outcome.
LEMMA HandlerExecutes ==
  ASSUME SlaveTypes,
         NEW packet \in [byte_order : {0, 1}, command : Byte, data : Seq(Byte)],
         NEW result, result = Service!service(packet, recv_data),
         Service!packet_handler(packet, recv_data)
  PROVE  /\ result.success \in BOOLEAN
         /\ result.mem \in [Service!Cells -> Byte]
         /\ result.data \in Seq(Byte) /\ Len(result.data) <= 4
         /\ Executed(result, packet.command)'
<1>1. /\ result.success \in BOOLEAN
      /\ result.mem \in [Service!Cells -> Byte]
      /\ result.data \in Seq(Byte) /\ Len(result.data) <= 4
  BY ServiceTypes DEF SlaveTypes
<1>2. PICK reply : reply = [command |-> Service!with_status(packet.command,
                 IF result.success THEN Service!POSITIVE ELSE Service!NEGATIVE),
               data |-> result.data]
  OBVIOUS
<1>3. /\ mem' = result.mem /\ send_packet' = reply
      /\ wait_packet' = [command |-> Service!with_status(packet.command, Service!PENDING),
                         data    |-> <<Service!announced(reply)>>]
  BY <1>2 DEF Service!packet_handler
<1>4. Service!announced(reply) \in Byte
  <2>1. PICK cmd : cmd = reply.command
    OBVIOUS
  <2>2. cmd \in Byte
    <3>1. PICK status \in 0 .. 3 :
            status = IF result.success THEN Service!POSITIVE ELSE Service!NEGATIVE
      BY DEF Service!POSITIVE, Service!NEGATIVE
    <3>2. packet.command \in Byte
      OBVIOUS
    <3>3. Service!with_status(packet.command, status) \in Byte
      BY <3>2, WithStatus
    <3>4. QED BY <1>2, <2>1, <3>1, <3>3
  <2>3. PICK bytes \in Seq(Byte) : bytes = reply.data
    BY <1>1, <1>2
  <2>4. PICK F : F = serialize_frame(cmd, bytes, PE, FALSE)
    OBVIOUS
  <2>5. F \in Seq(Byte)
    BY <2>2, <2>4, FrameBytes, CommandsAssumption
  <2>6. Len(F) \in Nat
    BY <2>5
  <2>7. create_r(Len(F)) \in Byte
    BY <2>6, LengthByte
  <2>8. Service!send_frame_bytes(reply) = F
    BY <2>1, <2>3, <2>4, SameFrames
  <2>9. Service!create_r(Len(F)) = create_r(Len(F))
    BY DEF Service!create_r, create_r
  <2>10. QED BY <2>7, <2>8, <2>9 DEF Service!announced
<1>5. QED BY <1>1, <1>2, <1>3, <1>4 DEF Executed

\* An execution leaves bytes.
LEMMA ExecutedTypes ==
  ASSUME SlaveTypes, NEW raw_byte \in Byte,
         NEW result, Executed(result, raw_byte)', rx' = rx, recv_data' = recv_data,
         result.success \in BOOLEAN, result.mem \in [Service!Cells -> Byte],
         result.data \in Seq(Byte), Len(result.data) <= 4
  PROVE  SlaveTypes'
<1>1. \A status \in 0 .. 3 : Service!with_status(raw_byte, status) \in Byte
  BY WithStatus
<1>2. Service!PENDING \in 0 .. 3 /\ Service!POSITIVE \in 0 .. 3 /\ Service!NEGATIVE \in 0 .. 3
  BY DEF Service!PENDING, Service!POSITIVE, Service!NEGATIVE
<1>3. PICK answer : answer = Service!with_status(raw_byte,
                               IF result.success THEN Service!POSITIVE ELSE Service!NEGATIVE)
  OBVIOUS
<1>4. answer \in Byte
  BY <1>1, <1>2, <1>3
<1>5. /\ mem' = result.mem /\ send_packet' = [command |-> answer, data |-> result.data]
  BY <1>3 DEF Executed
<1>6. PICK announced \in Byte :
        wait_packet' = [command |-> Service!with_status(raw_byte, Service!PENDING),
                        data    |-> <<announced>>]
  BY DEF Executed
<1>7. wait_packet' \in [command : Byte, data : Seq(Byte)]
  BY <1>1, <1>2, <1>6
<1>8. send_packet' \in [command : Byte, data : Seq(Byte)] /\ Len(send_packet'.data) <= 4
  BY <1>4, <1>5
<1>9. QED BY <1>5, <1>7, <1>8 DEF SlaveTypes

\* The packet that the handler is given.
Packet == [command |-> rx.packet.command, data |-> rx.packet.data, byte_order |-> rx.byte_order]

\* The packet in the receiver, whatever has been received.
LEMMA PacketType ==
  ASSUME SlaveTypes
  PROVE  Packet \in [byte_order : {0, 1}, command : Byte, data : Seq(Byte)]
BY DEF SlaveTypes, Receivers, Packet

\* The handler leaves bytes, whatever the packet asks for.
LEMMA HandlerTypes ==
  ASSUME SlaveTypes, frame_handler, rx' = rx, recv_data' = recv_data
  PROVE  SlaveTypes'
<1>1. CASE Service!packet_handler(Packet, recv_data)
  <2>1. PICK result : result = Service!service(Packet, recv_data)
    OBVIOUS
  <2>2. PICK packet \in [byte_order : {0, 1}, command : Byte, data : Seq(Byte)] :
          packet = Packet
    BY PacketType
  <2>3. /\ result.success \in BOOLEAN
        /\ result.mem \in [Service!Cells -> Byte]
        /\ result.data \in Seq(Byte) /\ Len(result.data) <= 4
        /\ Executed(result, packet.command)'
    BY <1>1, <2>1, <2>2, HandlerExecutes
  <2>4. packet.command \in Byte
    BY <2>2
  <2>5. QED BY <2>3, <2>4, ExecutedTypes
<1>2. CASE UNCHANGED <<mem, send_packet, wait_packet>>
  BY <1>2 DEF SlaveTypes
<1>3. QED BY <1>1, <1>2 DEF frame_handler, Packet

\* The frames of the answers consist of bytes.
LEMMA AnswerBytes ==
  ASSUME NEW answer \in [command : Byte, data : Seq(Byte)]
  PROVE  /\ Service!send_frame_bytes(answer) \in Seq(Byte)
         /\ Service!wait_frame_bytes(answer) \in Seq(Byte)
<1>1. PICK cmd \in Byte : cmd = answer.command
  OBVIOUS
<1>2. PICK bytes \in Seq(Byte) : bytes = answer.data
  OBVIOUS
<1>3. serialize_frame(cmd, bytes, PE, FALSE) \in Seq(Byte)
  BY FrameBytes, CommandsAssumption
<1>4. QED BY <1>1, <1>2, <1>3, SameFrames

\* An event that is handled leaves bytes in the memory and on the line.
LEMMA DispatchTypes ==
  ASSUME Types, Dispatch
  PROVE  Types'
<1>1. /\ frame_handler /\ out' = out \o transmitted
      /\ rx' = rx /\ recv_data' = recv_data /\ before' = before
      /\ line' = line /\ lost' = lost /\ requests' = requests /\ asked' = asked
  BY DEF Dispatch, channel
<1>2. IInv /\ IInv'
  BY DispatchIInv DEF Types
<1>3. SlaveTypes'
  BY <1>1, HandlerTypes DEF Types
<1>4. transmitted \in Seq(Byte)
  <2>1. /\ send_packet' \in [command : Byte, data : Seq(Byte)]
        /\ wait_packet' \in [command : Byte, data : Seq(Byte)]
    BY <1>3 DEF SlaveTypes
  <2>2. transmitted \in {<<>>, Service!send_frame_bytes(send_packet'),
                         Service!wait_frame_bytes(wait_packet')}
    BY <1>2, DispatchCases DEF filled
  <2>3. <<>> \in Seq(Byte)
    OBVIOUS
  <2>4. QED BY <2>1, <2>2, <2>3, AnswerBytes
<1>5. out' \in Seq(Byte)
  BY <1>1, <1>4, ConcatProperties DEF Types
<1>6. QED BY <1>1, <1>2, <1>3, <1>5 DEF Types, ChannelTypes

\* Every step keeps the types.
LEMMA NextTypes == Types /\ [Next]_vars => Types'
<1> SUFFICES ASSUME Types, [Next]_vars PROVE Types'
  OBVIOUS
<1>0. IInv'
  BY NextIInv DEF Types
<1>1. ASSUME NEW op \in Commands, Send(op) PROVE Types'
  BY <1>1, RequestFrames, SendTypes DEF Send
<1>2. ASSUME NEW op \in Commands, NEW short \in ShortWrites, SendTwice(op, short)
      PROVE  Types'
  BY <1>2, SentBytes, SendTypes DEF SendTwice
<1>3. ASSUME NEW op \in Commands, NEW short \in ShortWrites, SendThrows(op, short)
      PROVE  Types'
  BY <1>3, SentBytes, SendTypes DEF SendThrows
<1>4. CASE BackgroundReturn
  <2>1. UNCHANGED <<rx, data>> /\ UNCHANGED <<channel, out, before>>
    BY <1>4 DEF BackgroundReturn, melo
  <2>2. SlaveTypes'
    BY <2>1, SlaveAlone DEF Types
  <2>3. QED BY <1>0, <2>1, <2>2 DEF Types, ChannelTypes, channel
<1>5. CASE UNCHANGED vars
  <2>1. UNCHANGED <<rx, data>> /\ UNCHANGED <<channel, out, before>>
    BY <1>5 DEF vars, melo
  <2>2. SlaveTypes'
    BY <2>1, SlaveAlone DEF Types
  <2>3. QED BY <1>0, <2>1, <2>2 DEF Types, ChannelTypes, channel
<1>6. QED BY <1>1, <1>2, <1>3, <1>4, <1>5, LoseTypes, ReadTypes, DispatchTypes DEF Next

\* The types are an invariant, with the states in which an event is handled.
THEOREM TypesInvariant == Spec => []Types
BY InitTypes, NextTypes, PTL DEF Spec

\* Whatever is asked for and whatever is lost, the variables have their types; of the
\* buffers' lengths this says nothing (melo.c:546).
THEOREM TypeCorrect == Spec => []TypeOK
<1>1. Types => TypeOK
  <2> SUFFICES ASSUME Types PROVE TypeOK
    OBVIOUS
  <2>1. /\ rx.buffer \in Seq(Byte) /\ rx.escape_buffer \in 0 .. 31
        /\ rx.packet.command \in Byte /\ rx.packet.data \in Seq(Byte)
    BY DEF Types, SlaveTypes, Receivers
  <2>2. stack \in Seq(Events) /\ Len(stack) < StackSize
    <3>1. REQUEST_RECEIVED \in Events /\ TX_CONFIRMATION \in Events
      BY DEF Events, REQUEST_RECEIVED, TX_CONFIRMATION
    <3>2. stack \in {<<>>, <<REQUEST_RECEIVED>>, <<TX_CONFIRMATION>>}
      BY DEF Types, IInv, Waiting
    <3>3. \A e \in Events : <<e>> \in Seq(Events) /\ Len(<<e>>) = 1
      OBVIOUS
    <3>4. <<>> \in Seq(Events) /\ Len(<<>>) = 0
      OBVIOUS
    <3>5. stack \in Seq(Events) /\ Len(stack) \in {0, 1}
      BY <3>1, <3>2, <3>3, <3>4
    <3>6. QED BY <3>5, StackSizeAssumption
  <2>3. current_state \in Machine!IDLE .. Machine!TX_PEND
    BY DEF Types, IInv, Waiting, Machine!IDLE, Machine!RESP_PEND, Machine!TX_PEND
  <2>4. QED BY <2>1, <2>2, <2>3 DEF Types, SlaveTypes, ChannelTypes, TypeOK
<1>2. QED BY <1>1, TypesInvariant, PTL

------------------------------------------------------------------------------
(* A request that arrives whole *)

\* The last own bytes of the line are those of the frame F that have not been read.
Coming(F) ==
  /\ own = Len(F)
  /\ \A i \in 1 .. own : Len(line) + i > own => line[Len(line) - own + i] = F[i]

\* loop() has read the whole request and MeloBackground has yet to execute it.
Received ==
  /\ stack = <<REQUEST_RECEIVED>> /\ mem = before /\ out = <<>>
  /\ Packet = Service!request(asked)
  /\ \E old \in [1 .. 8 -> Byte] :
       recv_data = Service!unpacked(old, Service!request(asked).data)

\* It has been executed, and its answers are being transmitted.
Answered ==
  /\ \E result : /\ result.success \in BOOLEAN
                 /\ Executed(result, Service!request(asked).command)
                 /\ Done(asked, before, result.mem, result.success, result.data)
  /\ \/ /\ current_state = Machine!RESP_PEND
        /\ out = Service!wait_frame_bytes(wait_packet)
     \/ /\ current_state = Machine!TX_PEND
        /\ out = Service!wait_frame_bytes(wait_packet) \o Service!send_frame_bytes(send_packet)
     \/ /\ current_state = Machine!IDLE /\ stack = <<>>
        /\ out = Service!wait_frame_bytes(wait_packet) \o Service!send_frame_bytes(send_packet)

\* The k-th byte of the frame is the next to be read.
Arriving(data_in, e, c, k) ==
  /\ stack = <<>> /\ mem = before /\ out = <<>>
  /\ rx.escape_buffer = e[k]
  /\ Buffered(rx, data_in, HE, FALSE, c[k])

\* How far a request has come whose first byte met a receiver without left-over escapes.
Progress(data_in, e, c) ==
  clean /\ Len(line) < own =>
    /\ line # <<>> => Arriving(data_in, e, c, own + 1 - Len(line))
    /\ line = <<>> => Received \/ Answered

Tracked ==
  whole => /\ requests > 0
           /\ \E F, e, c : /\ F = frame_of(asked)
                          /\ IsFrame(F, carried(asked), HE, FALSE, e, c)
                          /\ Coming(F)
                          /\ Progress(carried(asked), e, c)

\* A byte leaves the line.
LEMMA LineAdvances ==
  ASSUME line \in Seq(Byte), line # <<>>, line' = Tail(line), own' = own,
         NEW F \in Seq(Byte), Coming(F)
  PROVE  /\ Coming(F)'
         /\ Len(line') = Len(line) - 1 /\ Len(line) \in Nat /\ Len(line) > 0
         /\ Len(line) <= own => Head(line) = F[own + 1 - Len(line)]
<1>1. PICK n \in Nat : n = Len(F)
  OBVIOUS
<1>2. PICK w \in Nat : w = Len(line)
  OBVIOUS
<1>3. w > 0
  BY <1>2, EmptySeq
<1>4. /\ own = n
      /\ \A i \in 1 .. n : w + i > n => line[w - n + i] = F[i]
  BY <1>1, <1>2 DEF Coming
<1>5. PICK rest : rest = line'
  OBVIOUS
<1>6. /\ rest \in Seq(Byte) /\ Len(rest) = w - 1
      /\ \A i \in 1 .. w - 1 : rest[i] = line[i + 1]
  <2>1. rest = Tail(line)
    BY <1>5
  <2>2. QED BY <1>2, <2>1, HeadTailProperties
<1>7. ASSUME NEW i \in 1 .. n, (w - 1) + i > n PROVE rest[(w - 1) - n + i] = F[i]
  <2>1. PICK j \in 1 .. w - 1 : j = (w - 1) - n + i
    BY <1>7
  <2>2. j + 1 = w - n + i /\ w + i > n
    BY <1>7, <2>1
  <2>3. QED BY <1>4, <1>6, <2>1, <2>2
<1>8. Coming(F)'
  BY <1>1, <1>4, <1>5, <1>6, <1>7 DEF Coming
<1>9. ASSUME w <= n PROVE Head(line) = F[n + 1 - w]
  <2>1. PICK i \in 1 .. n : i = n + 1 - w
    BY <1>3, <1>9
  <2>2. w + i > n /\ w - n + i = 1
    BY <2>1
  <2>3. line[1] = F[i]
    BY <1>4, <2>2
  <2>4. QED BY <2>1, <2>3
<1>10. QED BY <1>2, <1>3, <1>4, <1>5, <1>6, <1>8, <1>9

\* A new request: nothing of its frame has been read.
LEMMA SendTracked ==
  ASSUME Types, NEW op \in Commands, NEW before_frame \in Seq(Byte),
         NEW bytes, bytes = before_frame \o frame_of(op),
         send(op, bytes, frame_of(op))
  PROVE  Tracked'
<1>1. PICK F \in Seq(Byte) : F = frame_of(op)
  BY RequestFrames
<1>2. PICK e, c : IsFrame(F, carried(op), HE, FALSE, e, c)
  BY <1>1, RequestFrames
<1>3. PICK n \in Nat : n = Len(F)
  OBVIOUS
<1>4. PICK m \in Nat : m = Len(before_frame)
  OBVIOUS
<1>5. line' = bytes /\ own' = n /\ asked' = op /\ requests' = requests + 1
  BY <1>1, <1>3 DEF send
<1>6. Len(bytes) = m + n /\ \A i \in 1 .. n : bytes[m + i] = F[i]
  <2>1. bytes = before_frame \o F
    BY <1>1
  <2>2. QED BY <1>3, <1>4, <2>1, ConcatProperties
<1>7. Coming(F)'
  <2>1. ASSUME NEW i \in 1 .. n PROVE bytes[(m + n) - n + i] = F[i]
    <3>1. (m + n) - n + i = m + i
      OBVIOUS
    <3>2. QED BY <1>6, <3>1
  <2>2. QED BY <1>3, <1>5, <1>6, <2>1 DEF Coming
<1>8. Progress(carried(op), e, c)'
  <2>1. ~ (m + n < n)
    OBVIOUS
  <2>2. ~ (Len(line') < own')
    BY <1>5, <1>6, <2>1
  <2>3. QED BY <2>2 DEF Progress
<1>9. requests' > 0
  BY <1>5, SketchAssumption DEF Types, ChannelTypes
<1>10. QED BY <1>1, <1>2, <1>5, <1>7, <1>8, <1>9 DEF Tracked

\* A byte is lost that came before the frame, or the request is not whole any more.
LEMMA LoseTracked ==
  ASSUME Types, Tracked, LoseByte
  PROVE  Tracked'
<1>1. /\ line # <<>> /\ line' = Tail(line) /\ own' = own /\ asked' = asked
      /\ requests' = requests /\ (whole' <=> whole /\ Len(line) > own)
  BY DEF LoseByte
<1> SUFFICES ASSUME whole, Len(line) > own PROVE Tracked'
  BY <1>1 DEF Tracked
<1>2. PICK F, e, c : /\ F = frame_of(asked)
                     /\ IsFrame(F, carried(asked), HE, FALSE, e, c)
                     /\ Coming(F)
                     /\ Progress(carried(asked), e, c)
  BY DEF Tracked
<1>3. F \in Seq(Byte) /\ line \in Seq(Byte) /\ own = Len(F) /\ Len(F) \in Nat
  BY <1>2 DEF IsFrame, Coming, Types, ChannelTypes
<1>4. Coming(F)' /\ Len(line') = Len(line) - 1 /\ Len(line) \in Nat
  BY <1>1, <1>2, <1>3, LineAdvances
<1>5. ~ (Len(line') < own')
  BY <1>1, <1>3, <1>4
<1>6. Progress(carried(asked), e, c)'
  BY <1>5 DEF Progress
<1>7. requests > 0
  BY DEF Tracked
<1>8. QED BY <1>1, <1>2, <1>4, <1>6, <1>7 DEF Tracked

\* What HEAD does to a receiver, in terms of the byte that is read.
LEMMA ReadFirst ==
  ASSUME Types, ReadByte, NEW F, NEW data_in, NEW e, NEW c,
         IsFrame(F, data_in, HE, FALSE, e, c), Coming(F), Len(line) = own
  PROVE  Progress(data_in, e, c)'
<1>1. PICK crc_present \in BOOLEAN : crc_present = FALSE
  OBVIOUS
<1>2. IsFrame(F, data_in, HE, crc_present, e, c)
  BY <1>1
<1>3. PICK n \in Nat : n = Len(F)
  BY DEF IsFrame
<1>4. /\ F \in Seq(Byte) /\ n >= 4 /\ e[2] = 0 /\ c[2] = 0
  BY <1>3 DEF IsFrame
<1>5. line \in Seq(Byte) /\ line # <<>> /\ line' = Tail(line) /\ own' = own /\ own = n
  BY <1>3 DEF ReadByte, Types, ChannelTypes, Coming
<1>6. Len(line') = n - 1 /\ Head(line) = F[1]
  <2>1. /\ Len(line') = Len(line) - 1
        /\ Len(line) <= own => Head(line) = F[own + 1 - Len(line)]
    BY <1>4, <1>5, LineAdvances
  <2>2. n + 1 - n = 1 /\ n <= n
    OBVIOUS
  <2>3. QED BY <1>5, <2>1, <2>2
<1>7. PICK rx1 \in Receivers : rx1 = rx
  BY DEF Types, SlaveTypes
<1>8. PICK rx2 : rx2 = rx'
  OBVIOUS
<1>9. rx2 = rx_byte(rx1, F[1])
  BY <1>6, <1>7, <1>8 DEF ReadByte
<1>10. HE \in {0, 1}
  BY CommandsAssumption
<1>11. Starts(rx1, F[1], data_in, HE, crc_present)
  BY <1>2, <1>10, HeadStarts
<1>12. /\ ~ rx_notifies(rx, Head(line)) /\ rx2.escape_buffer = rx.escape_buffer
       /\ Buffered(rx2, data_in, HE, FALSE, 0)
  BY <1>1, <1>6, <1>7, <1>9, <1>11 DEF Starts
<1>13. /\ stack' = stack /\ before' = mem /\ (clean' <=> rx.escape_buffer = 0)
       /\ out' = <<>> /\ mem' = mem /\ ~ running
  BY <1>12 DEF ReadByte
<1>14. stack = <<>>
  BY <1>13 DEF Types, IInv, Quiescent
<1>15. line' # <<>>
  BY <1>4, <1>6
<1>16. own' + 1 - Len(line') = 2
  BY <1>5, <1>6
<1>17. ASSUME clean' PROVE Arriving(data_in, e, c, 2)'
  BY <1>4, <1>8, <1>12, <1>13, <1>14, <1>17 DEF Arriving, Buffered
<1>18. QED BY <1>15, <1>16, <1>17 DEF Progress

\* The bytes between HEAD and TAIL.
LEMMA ReadMiddle ==
  ASSUME Types, ReadByte, NEW F, NEW data_in, NEW e, NEW c,
         IsFrame(F, data_in, HE, FALSE, e, c), Coming(F), Progress(data_in, e, c),
         Len(line) < own, Len(line) > 1
  PROVE  Progress(data_in, e, c)'
<1>1. PICK crc_present \in BOOLEAN : crc_present = FALSE
  OBVIOUS
<1>2. IsFrame(F, data_in, HE, crc_present, e, c)
  BY <1>1
<1>3. PICK n \in Nat : n = Len(F)
  BY DEF IsFrame
<1>4. PICK w \in Nat : w = Len(line)
  BY DEF Types, ChannelTypes
<1>5. /\ F \in Seq(Byte) /\ line \in Seq(Byte) /\ line # <<>> /\ line' = Tail(line)
      /\ own' = own /\ own = n /\ w < n /\ w > 1
  BY <1>3, <1>4 DEF IsFrame, ReadByte, Types, ChannelTypes, Coming
<1>6. PICK j \in 2 .. n - 1 : j = n + 1 - w
  BY <1>5
<1>7. Len(line') = w - 1 /\ Head(line) = F[j]
  <2>1. /\ Len(line') = Len(line) - 1
        /\ Len(line) <= own => Head(line) = F[own + 1 - Len(line)]
    BY <1>5, LineAdvances
  <2>2. w <= n
    BY <1>5
  <2>3. QED BY <1>4, <1>5, <1>6, <2>1, <2>2
<1>8. PICK rx1 \in Receivers : rx1 = rx
  BY DEF Types, SlaveTypes
<1>9. PICK rx2 : rx2 = rx'
  OBVIOUS
<1>10. rx2 = rx_byte(rx1, F[j])
  BY <1>7, <1>8, <1>9 DEF ReadByte
<1>11. HE \in {0, 1} /\ j \in 2 .. Len(F) - 1
  BY <1>3, CommandsAssumption
<1>12. Passes(F, data_in, HE, crc_present, e, c)
  BY <1>2, <1>11, FramePasses
<1>13. ~ rx_notifies(rx1, F[j]) /\ Follows(rx1, rx2, data_in, HE, crc_present, e, c, j)
  BY <1>10, <1>11, <1>12 DEF Passes
<1>14. /\ stack' = stack /\ before' = before /\ (clean' <=> clean)
       /\ out' = out /\ mem' = mem
  <2>1. ~ rx_notifies(rx, Head(line))
    BY <1>7, <1>8, <1>13
  <2>2. w # n
    BY <1>5
  <2>3. QED BY <1>4, <1>5, <2>1, <2>2 DEF ReadByte
<1>15. line' # <<>>
  <2>1. w - 1 # 0
    BY <1>5
  <2>2. Len(<<>>) = 0
    OBVIOUS
  <2>3. QED BY <1>7, <2>1, <2>2
<1>16. own' + 1 - Len(line') = j + 1 /\ own + 1 - Len(line) = j
  BY <1>4, <1>5, <1>6, <1>7
<1>17. ASSUME clean PROVE Arriving(data_in, e, c, j + 1)'
  <2>1. Arriving(data_in, e, c, j)
    BY <1>4, <1>5, <1>16, <1>17 DEF Progress
  <2>2. rx1.escape_buffer = e[j] /\ Buffered(rx1, data_in, HE, crc_present, c[j])
    BY <1>1, <1>8, <2>1 DEF Arriving
  <2>3. rx2.escape_buffer = e[j + 1] /\ Buffered(rx2, data_in, HE, crc_present, c[j + 1])
    BY <1>13, <2>2 DEF Follows
  <2>4. QED BY <1>1, <1>9, <1>14, <2>1, <2>3 DEF Arriving, Buffered
<1>18. QED BY <1>14, <1>15, <1>16, <1>17 DEF Progress

\* TAIL: the request is in the receiver, and an event on the stack.
LEMMA ReadLast ==
  ASSUME Types, ReadByte, asked \in Commands,
         NEW F, NEW e, NEW c, IsFrame(F, carried(asked), HE, FALSE, e, c), Coming(F),
         Progress(carried(asked), e, c), Len(line) = 1
  PROVE  Progress(carried(asked), e, c)'
<1>1. PICK crc_present \in BOOLEAN : crc_present = FALSE
  OBVIOUS
<1>2. PICK data_in : data_in = carried(asked)
  OBVIOUS
<1>3. IsFrame(F, data_in, HE, crc_present, e, c)
  BY <1>1, <1>2
<1>4. PICK n \in Nat : n = Len(F)
  BY DEF IsFrame
<1>5. /\ F \in Seq(Byte) /\ n >= 4 /\ e[n] = 0 /\ c[n] = Len(data_in)
  BY <1>3, <1>4 DEF IsFrame
<1>6. /\ line \in Seq(Byte) /\ line # <<>> /\ line' = Tail(line) /\ own' = own /\ own = n
      /\ asked' = asked
  BY <1>4 DEF ReadByte, Types, ChannelTypes, Coming
<1>7. line' = <<>> /\ Head(line) = F[n]
  <2>1. /\ Len(line') = Len(line) - 1
        /\ Len(line) <= own => Head(line) = F[own + 1 - Len(line)]
    BY <1>5, <1>6, LineAdvances
  <2>2. 1 <= n /\ n + 1 - 1 = n
    BY <1>5
  <2>3. Tail(line) \in Seq(Byte) /\ Len(Tail(line)) = 0
    BY <1>6, <2>1, HeadTailProperties
  <2>4. QED BY <1>6, <2>1, <2>2, <2>3, EmptySeq
<1>8. PICK rx1 \in Receivers : rx1 = rx
  BY DEF Types, SlaveTypes
<1>9. PICK rx2 : rx2 = rx'
  OBVIOUS
<1>10. rx2 = rx_byte(rx1, F[n])
  BY <1>7, <1>8, <1>9 DEF ReadByte
<1>11. PICK cmd \in 0 .. 31 : cmd = Service!request(asked).command
  BY Requests
<1>12. PICK bytes \in Seq(Byte) : bytes = Service!request(asked).data
  BY Requests
<1>13. Len(bytes) <= 127 /\ cmd \in Byte /\ HE \in {0, 1}
  <2>1. PICK size \in 4 .. 8 : size = Len(bytes)
    BY <1>12, Requests
  <2>2. size <= 127
    OBVIOUS
  <2>3. cmd \in Byte
    BY DEF Byte
  <2>4. QED BY <2>1, <2>2, <2>3, CommandsAssumption
<1>14. data_in = content(cmd, bytes, crc_present)
  BY <1>1, <1>2, <1>11, <1>12 DEF carried
<1> SUFFICES ASSUME clean' PROVE Received'
  BY <1>7 DEF Progress
<1>15. /\ before' = before /\ clean /\ out' = out /\ mem' = mem
  <2>1. 1 # n
    BY <1>5
  <2>2. QED BY <1>6, <2>1 DEF ReadByte
<1>16. Arriving(data_in, e, c, n)
  <2>1. 1 < n /\ n + 1 - 1 = n
    BY <1>5
  <2>2. QED BY <1>2, <1>6, <1>15, <2>1 DEF Progress
<1>17. Buffered(rx1, data_in, HE, crc_present, Len(data_in))
  BY <1>1, <1>5, <1>8, <1>16 DEF Arriving
<1>18. /\ rx_notifies(rx1, F[n]) /\ rx2.packet = [command |-> cmd, data |-> bytes]
       /\ rx2.byte_order = HE
  <2>1. rx2 = rx_byte(rx1, F[Len(F)])
    BY <1>4, <1>10
  <2>2. /\ rx2.escape_buffer = rx1.escape_buffer
        /\ Buffered(rx1, data_in, HE, crc_present, Len(data_in)) =>
             /\ rx_notifies(rx1, F[Len(F)])
             /\ rx2.packet = [command |-> cmd, data |-> bytes]
             /\ rx2.byte_order = HE
    BY <1>3, <1>13, <1>14, <2>1, FrameTail
  <2>3. QED BY <1>4, <1>17, <2>2
<1>19. /\ stack' = <<REQUEST_RECEIVED>>
       /\ recv_data' = Service!unpacked(recv_data, rx2.packet.data)
  <2>1. stack = <<>> /\ rx_notifies(rx, Head(line))
    BY <1>7, <1>8, <1>16, <1>18 DEF Arriving
  <2>2. QED BY <1>9, <2>1, Stacks DEF ReadByte
<1>20. Packet' = Service!request(asked')
  <2>1. PICK r : r = Service!request(asked)
    OBVIOUS
  <2>2. /\ r \in [byte_order : {0, 1}, command : 0 .. 31, data : Seq(Byte)]
        /\ r.byte_order = HE /\ r.command = cmd /\ r.data = bytes
    BY <1>11, <1>12, <2>1, Requests
  <2>3. r = [command |-> cmd, data |-> bytes, byte_order |-> HE]
    BY <2>2
  <2>4. Packet' = [command |-> cmd, data |-> bytes, byte_order |-> HE]
    BY <1>9, <1>18 DEF Packet
  <2>5. QED BY <1>6, <2>1, <2>3, <2>4
<1>21. \E old \in [1 .. 8 -> Byte] :
         recv_data' = Service!unpacked(old, Service!request(asked').data)
  <2>1. recv_data \in [1 .. 8 -> Byte] /\ rx2.packet.data = Service!request(asked').data
    BY <1>6, <1>12, <1>18 DEF Types, SlaveTypes
  <2>2. QED BY <1>19, <2>1
<1>22. mem' = before' /\ out' = <<>>
  BY <1>15, <1>16 DEF Arriving
<1>23. QED BY <1>19, <1>20, <1>21, <1>22 DEF Received

\* A byte is read: one of those before the frame, or the next of the frame.
LEMMA ReadTracked ==
  ASSUME Types, Tracked, ReadByte
  PROVE  Tracked'
<1>1. /\ line # <<>> /\ line' = Tail(line) /\ own' = own /\ asked' = asked
      /\ requests' = requests /\ (whole' <=> whole)
  BY DEF ReadByte
<1> SUFFICES ASSUME whole PROVE Tracked'
  BY <1>1 DEF Tracked
<1>2. PICK F, e, c : /\ F = frame_of(asked)
                     /\ IsFrame(F, carried(asked), HE, FALSE, e, c)
                     /\ Coming(F)
                     /\ Progress(carried(asked), e, c)
  BY DEF Tracked
<1>3. F \in Seq(Byte) /\ line \in Seq(Byte) /\ own = Len(F)
  BY <1>2 DEF IsFrame, Coming, Types, ChannelTypes
<1>4. PICK n \in Nat : n = Len(F)
  BY <1>3
<1>5. PICK w \in Nat : w = Len(line)
  BY <1>3
<1>6. Coming(F)' /\ Len(line') = w - 1 /\ w > 0
  BY <1>1, <1>2, <1>3, <1>5, LineAdvances
<1>7. requests > 0 /\ asked \in Commands
  BY DEF Tracked, Types, ChannelTypes
<1>8. Progress(carried(asked), e, c)'
  <2>1. CASE w > n
    <3>1. ~ (w - 1 < n)
      BY <2>1
    <3>2. ~ (Len(line') < own')
      BY <1>1, <1>3, <1>4, <1>6, <3>1
    <3>3. QED BY <3>2 DEF Progress
  <2>2. PICK data_in : data_in = carried(asked)
    OBVIOUS
  <2>3. CASE w = n
    <3>1. Progress(data_in, e, c)'
      BY <1>2, <1>3, <1>4, <1>5, <2>2, <2>3, ReadFirst
    <3>2. QED BY <1>1, <2>2, <3>1
  <2>4. CASE w < n /\ w > 1
    <3>1. Progress(data_in, e, c)'
      BY <1>2, <1>3, <1>4, <1>5, <2>2, <2>4, ReadMiddle
    <3>2. QED BY <1>1, <2>2, <3>1
  <2>5. CASE w = 1
    BY <1>2, <1>5, <1>7, <2>5, ReadLast
  <2>6. w > n \/ w = n \/ (w < n /\ w > 1) \/ w = 1
    BY <1>6
  <2>7. QED BY <2>1, <2>3, <2>4, <2>5, <2>6
<1>9. QED BY <1>1, <1>2, <1>6, <1>7, <1>8 DEF Tracked

\* A request that has arrived is executed on the memory it finds.
LEMMA ReceivedDispatch ==
  ASSUME PE = HE, Types, asked \in Commands, Received, Dispatch
  PROVE  Answered'
<1>1. PICK old \in [1 .. 8 -> Byte] :
        recv_data = Service!unpacked(old, Service!request(asked).data)
  BY DEF Received
<1>2. /\ stack = <<REQUEST_RECEIVED>> /\ mem = before /\ out = <<>>
      /\ Packet = Service!request(asked)
  BY DEF Received
<1>3. /\ frame_handler /\ out' = out \o transmitted /\ rx' = rx /\ recv_data' = recv_data
      /\ before' = before /\ asked' = asked
  BY DEF Dispatch, channel
<1>4. /\ handles_packet /\ current_state' = Machine!RESP_PEND
      /\ transmitted = filled(wait_packet', Service!wait_frame_bytes(wait_packet'))
  <2>1. <<REQUEST_RECEIVED>> # <<TX_CONFIRMATION>>
    <3>1. \A p, q : <<p>> = <<q>> => p = q
      OBVIOUS
    <3>2. QED BY <3>1 DEF REQUEST_RECEIVED, TX_CONFIRMATION
  <2>2. QED BY <1>2, <2>1, DispatchCases DEF Types
<1>5. PICK request : request = Service!request(asked)
  OBVIOUS
<1>6. request \in [byte_order : {0, 1}, command : 0 .. 31, data : Seq(Byte)]
  BY <1>5, Requests
<1>7. PICK command \in 0 .. 31 : command = request.command
  BY <1>6
<1>8. request \in [byte_order : {0, 1}, command : Byte, data : Seq(Byte)]
  BY <1>6 DEF Byte
<1>9. rx.packet.command \div 64 = Service!REQUEST
  <2>1. rx.packet.command = command
    BY <1>2, <1>5, <1>7 DEF Packet
  <2>2. command \div 64 = 0
    OBVIOUS
  <2>3. QED BY <2>1, <2>2 DEF Service!REQUEST
<1>10. Service!packet_handler(request, recv_data)
  BY <1>2, <1>3, <1>4, <1>5, <1>9 DEF frame_handler, Packet
<1>11. PICK result : result = Service!service(request, recv_data)
  OBVIOUS
<1>12. result.success \in BOOLEAN /\ Executed(result, request.command)'
  BY <1>8, <1>10, <1>11, HandlerExecutes DEF Types
<1>13. Done(asked, mem, result.mem, result.success, result.data)
  BY <1>1, <1>5, <1>11, ServiceDone
<1>14. out' = Service!wait_frame_bytes(wait_packet')
  <2>1. PICK bytes \in Seq(Byte) : bytes = Service!wait_frame_bytes(wait_packet')
    <3>1. SlaveTypes'
      BY DispatchTypes DEF Types
    <3>2. QED BY <3>1, AnswerBytes DEF SlaveTypes
  <2>2. <<>> \o bytes = bytes
    OBVIOUS
  <2>3. filled(wait_packet', Service!wait_frame_bytes(wait_packet')) = bytes
    <3>1. Service!PENDING \in 1 .. 3
      BY DEF Service!PENDING
    <3>2. \E announced \in Byte :
            wait_packet' = [command |-> Service!with_status(request.command, Service!PENDING),
                            data    |-> <<announced>>]
      BY <1>12 DEF Executed
    <3>3. request.command \in Byte
      BY <1>8
    <3>4. QED BY <2>1, <3>1, <3>2, <3>3, Fills
  <2>4. QED BY <1>2, <1>3, <1>4, <2>1, <2>2, <2>3
<1>15. Executed(result, Service!request(asked).command)'
  BY <1>3, <1>5, <1>12
<1>16. Done(asked', before', result.mem, result.success, result.data)
  BY <1>2, <1>3, <1>13
<1>17. QED BY <1>4, <1>12, <1>14, <1>15, <1>16 DEF Answered

\* Its answers are transmitted, one after the other.
LEMMA AnsweredDispatch ==
  ASSUME Types, asked \in Commands, Answered, Dispatch
  PROVE  Answered'
<1>1. PICK result : /\ result.success \in BOOLEAN
                    /\ Executed(result, Service!request(asked).command)
                    /\ Done(asked, before, result.mem, result.success, result.data)
  BY DEF Answered
<1>2. /\ frame_handler /\ out' = out \o transmitted
      /\ before' = before /\ asked' = asked
  BY DEF Dispatch, channel
<1>3. \/ /\ current_state = Machine!RESP_PEND
         /\ out = Service!wait_frame_bytes(wait_packet)
      \/ /\ current_state = Machine!TX_PEND
         /\ out = Service!wait_frame_bytes(wait_packet) \o Service!send_frame_bytes(send_packet)
      \/ stack = <<>>
  BY DEF Answered
<1>4. \/ /\ ~ handles_packet /\ current_state = Machine!RESP_PEND
         /\ current_state' = Machine!TX_PEND
         /\ transmitted = filled(send_packet', Service!send_frame_bytes(send_packet'))
      \/ /\ ~ handles_packet /\ current_state = Machine!TX_PEND
         /\ current_state' = Machine!IDLE /\ stack' = <<>> /\ transmitted = <<>>
  <2>1. \A p : <<p>> # <<>>
    OBVIOUS
  <2>2. Machine!IDLE # Machine!RESP_PEND /\ Machine!IDLE # Machine!TX_PEND
    BY DEF Machine!IDLE, Machine!RESP_PEND, Machine!TX_PEND
  <2>3. QED BY <1>3, <2>1, <2>2, DispatchCases DEF Types
<1>5. mem' = mem /\ send_packet' = send_packet /\ wait_packet' = wait_packet
  BY <1>2, <1>4 DEF frame_handler
<1>6. /\ Executed(result, Service!request(asked).command)'
      /\ Done(asked', before', result.mem, result.success, result.data)
  BY <1>1, <1>2, <1>5 DEF Executed
<1>7. out \o <<>> = out
  BY DEF Types
<1>8. CASE current_state = Machine!RESP_PEND
  <2>0. filled(send_packet', Service!send_frame_bytes(send_packet')) =
          Service!send_frame_bytes(send_packet')
    <3>1. PICK command \in Byte : command = Service!request(asked).command
      <4>1. PICK cmd \in 0 .. 31 : cmd = Service!request(asked).command
        BY Requests
      <4>2. cmd \in Byte
        BY DEF Byte
      <4>3. QED BY <4>1, <4>2
    <3>2. PICK status \in 1 .. 3 :
            send_packet = [command |-> Service!with_status(command, status),
                           data    |-> result.data]
      <4>1. Service!POSITIVE \in 1 .. 3 /\ Service!NEGATIVE \in 1 .. 3
        BY DEF Service!POSITIVE, Service!NEGATIVE
      <4>2. PICK status : status = IF result.success THEN Service!POSITIVE
                                                     ELSE Service!NEGATIVE
        OBVIOUS
      <4>3. status \in 1 .. 3
        BY <4>1, <4>2
      <4>4. QED BY <1>1, <3>1, <4>2, <4>3 DEF Executed
    <3>3. QED BY <1>5, <3>2, Fills
  <2>1. /\ current_state' = Machine!TX_PEND
        /\ transmitted = Service!send_frame_bytes(send_packet')
        /\ out = Service!wait_frame_bytes(wait_packet)
    <3>1. Machine!RESP_PEND # Machine!TX_PEND
      BY DEF Machine!RESP_PEND, Machine!TX_PEND
    <3>2. stack # <<>>
      BY DEF Dispatch, Machine!Dispatch
    <3>3. QED BY <1>3, <1>4, <1>8, <2>0, <3>1, <3>2
  <2>2. out' = Service!wait_frame_bytes(wait_packet') \o Service!send_frame_bytes(send_packet')
    BY <1>2, <1>5, <2>1
  <2>3. QED BY <1>1, <1>6, <2>1, <2>2 DEF Answered
<1>9. CASE current_state = Machine!TX_PEND
  <2>1. /\ current_state' = Machine!IDLE /\ stack' = <<>> /\ transmitted = <<>>
        /\ out = Service!wait_frame_bytes(wait_packet) \o Service!send_frame_bytes(send_packet)
    <3>1. Machine!RESP_PEND # Machine!TX_PEND
      BY DEF Machine!RESP_PEND, Machine!TX_PEND
    <3>2. stack # <<>>
      BY DEF Dispatch, Machine!Dispatch
    <3>3. QED BY <1>3, <1>4, <1>9, <3>1, <3>2
  <2>2. out' = Service!wait_frame_bytes(wait_packet') \o Service!send_frame_bytes(send_packet')
    BY <1>2, <1>5, <1>7, <2>1
  <2>3. QED BY <1>1, <1>6, <2>1, <2>2 DEF Answered
<1>10. QED BY <1>4, <1>8, <1>9

\* An event is handled: it is the request's, or it transmits the answer.
LEMMA DispatchTracked ==
  ASSUME PE = HE, Types, Tracked, Dispatch
  PROVE  Tracked'
<1>1. /\ line' = line /\ own' = own /\ asked' = asked /\ requests' = requests
      /\ (whole' <=> whole) /\ (clean' <=> clean) /\ stack # <<>>
  BY DEF Dispatch, Machine!Dispatch, channel
<1> SUFFICES ASSUME whole PROVE Tracked'
  BY <1>1 DEF Tracked
<1>2. PICK F, e, c : /\ F = frame_of(asked)
                     /\ IsFrame(F, carried(asked), HE, FALSE, e, c)
                     /\ Coming(F)
                     /\ Progress(carried(asked), e, c)
  BY DEF Tracked
<1>3. requests > 0 /\ asked \in Commands
  BY DEF Tracked, Types, ChannelTypes
<1>4. Coming(F)'
  BY <1>1, <1>2 DEF Coming
<1>5. Progress(carried(asked), e, c)'
  <2> SUFFICES ASSUME clean, Len(line) < own
               PROVE  line = <<>> /\ (Received' \/ Answered')
    BY <1>1 DEF Progress
  <2>1. line = <<>> /\ (Received \/ Answered)
    BY <1>1, <1>2 DEF Progress, Arriving
  <2>2. QED BY <1>3, <2>1, ReceivedDispatch, AnsweredDispatch
<1>6. QED BY <1>1, <1>2, <1>3, <1>4, <1>5 DEF Tracked

\* MeloBackground returns, or nothing happens.
LEMMA RestTracked ==
  ASSUME Tracked,
         UNCHANGED <<channel, melo, data, out, before, clean>>
  PROVE  Tracked'
<1>1. /\ line' = line /\ own' = own /\ asked' = asked /\ requests' = requests
      /\ (whole' <=> whole) /\ (clean' <=> clean) /\ stack' = stack /\ mem' = mem
      /\ before' = before /\ out' = out /\ rx' = rx /\ recv_data' = recv_data
      /\ send_packet' = send_packet /\ wait_packet' = wait_packet
      /\ current_state' = current_state
  BY DEF channel, melo, data
<1> SUFFICES ASSUME whole PROVE Tracked'
  BY <1>1 DEF Tracked
<1>2. PICK F, e, c : /\ F = frame_of(asked)
                     /\ IsFrame(F, carried(asked), HE, FALSE, e, c)
                     /\ Coming(F)
                     /\ Progress(carried(asked), e, c)
  BY DEF Tracked
<1>3. requests > 0
  BY DEF Tracked
<1>4. Coming(F)'
  BY <1>1, <1>2 DEF Coming
<1>5. Received => Received'
  BY <1>1 DEF Received, Packet
<1>6. ASSUME Answered PROVE Answered'
  <2>1. PICK result : /\ result.success \in BOOLEAN
                      /\ Executed(result, Service!request(asked).command)
                      /\ Done(asked, before, result.mem, result.success, result.data)
    BY <1>6 DEF Answered
  <2>2. /\ Executed(result, Service!request(asked).command)'
        /\ Done(asked', before', result.mem, result.success, result.data)
    BY <1>1, <2>1 DEF Executed
  <2>3. QED BY <1>1, <1>6, <2>1, <2>2 DEF Answered
<1>7. \A k : Arriving(carried(asked), e, c, k) => Arriving(carried(asked), e, c, k)'
  BY <1>1 DEF Arriving, Buffered
<1>8. Progress(carried(asked), e, c)'
  BY <1>1, <1>2, <1>5, <1>6, <1>7 DEF Progress
<1>9. QED BY <1>1, <1>2, <1>3, <1>4, <1>8 DEF Tracked

\* Every step keeps track of the request.
LEMMA NextTracked ==
  ASSUME PE = HE, Types, Tracked, [Next]_vars
  PROVE  Tracked'
<1>1. ASSUME NEW op \in Commands, Send(op) PROVE Tracked'
  <2>1. PICK F \in Seq(Byte) : F = frame_of(op)
    BY RequestFrames
  <2>2. F = <<>> \o F /\ <<>> \in Seq(Byte)
    OBVIOUS
  <2>3. frame_of(op) = <<>> \o frame_of(op)
    BY <2>1, <2>2
  <2>4. send(op, frame_of(op), frame_of(op))
    BY <1>1 DEF Send
  <2>5. QED BY <2>2, <2>3, <2>4, SendTracked
<1>2. ASSUME NEW op \in Commands, NEW short \in ShortWrites, SendTwice(op, short)
      PROVE  Tracked'
  <2>1. PICK beginning : beginning = SubSeq(frame_of(op), 1, short)
    OBVIOUS
  <2>2. send(op, beginning \o frame_of(op), frame_of(op)) /\ short < Len(frame_of(op))
    BY <1>2, <2>1 DEF SendTwice
  <2>3. beginning \in Seq(Byte)
    BY <2>1, <2>2, SentBytes
  <2>4. QED BY <2>2, <2>3, SendTracked
<1>3. ASSUME NEW op \in Commands, NEW short \in ShortWrites, SendThrows(op, short)
      PROVE  Tracked'
  BY <1>3 DEF SendThrows, Tracked
<1>4. CASE BackgroundReturn
  BY <1>4, RestTracked DEF BackgroundReturn
<1>5. CASE UNCHANGED vars
  <2>1. UNCHANGED <<channel, melo, data, out, before, clean>>
    BY <1>5 DEF vars
  <2>2. QED BY <2>1, RestTracked
<1>6. QED BY <1>1, <1>2, <1>3, <1>4, <1>5, LoseTracked, ReadTracked, DispatchTracked DEF Next

\* The bytes of the two answers are their frames, and a master reads both out of them.
LEMMA AnswersRead ==
  ASSUME SlaveTypes, asked \in Commands, NEW result, result.success \in BOOLEAN,
         Executed(result, Service!request(asked).command)
  PROVE  packets(Service!wait_frame_bytes(wait_packet) \o Service!send_frame_bytes(send_packet))
           = <<wait_packet, send_packet>>
<1>1. PICK command \in 0 .. 31 : command = Service!request(asked).command
  BY Requests
<1>2. command \in Byte /\ command < 32
  BY DEF Byte
<1>3. PICK status \in 0 .. 3 :
        status = IF result.success THEN Service!POSITIVE ELSE Service!NEGATIVE
  BY DEF Service!POSITIVE, Service!NEGATIVE
<1>4. Service!PENDING \in 0 .. 3
  BY DEF Service!PENDING
<1>5. PICK cmd1 : cmd1 = Service!with_status(command, Service!PENDING)
  OBVIOUS
<1>6. PICK cmd2 : cmd2 = Service!with_status(command, status)
  OBVIOUS
<1>7. cmd1 \in Byte /\ ~ is_control(cmd1) /\ cmd2 \in Byte /\ ~ is_control(cmd2)
  BY <1>2, <1>4, <1>5, <1>6, WithStatus
<1>8. PICK announced \in Byte : wait_packet = [command |-> cmd1, data |-> <<announced>>]
  BY <1>1, <1>5 DEF Executed
<1>9. PICK bytes1 \in Seq(Byte) : bytes1 = <<announced>>
  <2>1. <<announced>> \in Seq(Byte)
    OBVIOUS
  <2>2. QED BY <2>1
<1>10. send_packet = [command |-> cmd2, data |-> result.data]
  BY <1>1, <1>3, <1>6 DEF Executed
<1>11. PICK bytes2 \in Seq(Byte) : bytes2 = result.data
  BY <1>10 DEF SlaveTypes
<1>12. Len(bytes1) <= 127 /\ Len(bytes2) <= 127
  <2>1. Len(bytes1) = 1
    BY <1>9
  <2>2. PICK n \in Nat : n = Len(bytes2)
    OBVIOUS
  <2>3. n <= 4
    BY <1>10, <1>11, <2>2 DEF SlaveTypes
  <2>4. n <= 127
    BY <2>3
  <2>5. QED BY <2>1, <2>2, <2>4
<1>13. PE \in {0, 1}
  BY CommandsAssumption
<1>14. PICK F : F = serialize_frame(cmd1, bytes1, PE, FALSE)
  OBVIOUS
<1>15. PICK G : G = serialize_frame(cmd2, bytes2, PE, FALSE)
  OBVIOUS
<1>16. Carries(F, cmd1, bytes1, PE)
  BY <1>7, <1>13, <1>14, FramesAreFrames DEF Carries
<1>17. Carries(G, cmd2, bytes2, PE)
  BY <1>7, <1>13, <1>15, FramesAreFrames DEF Carries
<1>18. packets(F \o G) = <<[command |-> cmd1, data |-> bytes1],
                          [command |-> cmd2, data |-> bytes2]>>
  BY <1>7, <1>12, <1>13, <1>16, <1>17, TwoPackets
<1>19. Service!wait_frame_bytes(wait_packet) = F
  <2>1. wait_packet.command = cmd1 /\ wait_packet.data = bytes1
    BY <1>8, <1>9
  <2>2. Service!wait_frame_bytes(wait_packet) =
          serialize_frame(wait_packet.command, wait_packet.data, PE, FALSE)
    BY SameFrames
  <2>3. QED BY <1>14, <2>1, <2>2
<1>20. Service!send_frame_bytes(send_packet) = G
  <2>1. send_packet.command = cmd2 /\ send_packet.data = bytes2
    BY <1>10, <1>11
  <2>2. Service!send_frame_bytes(send_packet) =
          serialize_frame(send_packet.command, send_packet.data, PE, FALSE)
    BY SameFrames
  <2>3. QED BY <1>15, <2>1, <2>2
<1>21. QED BY <1>8, <1>9, <1>10, <1>11, <1>18, <1>19, <1>20

\* What has been answered is what WholeRequestServed asks for.
LEMMA AtRest ==
  ASSUME Types, Tracked
  PROVE  WholeRequestServed
<1> SUFFICES ASSUME finished, whole, clean PROVE WholeRequestServed
  BY DEF WholeRequestServed
<1>1. requests > 0 /\ line = <<>> /\ ~ running
  BY DEF finished
<1>2. stack = <<>> /\ current_state = Machine!IDLE
  BY <1>1 DEF Types, IInv, Quiescent
<1>3. asked \in Commands
  BY <1>1 DEF Types, ChannelTypes
<1>4. Received \/ Answered
  <2>1. PICK F, e, c : /\ F = frame_of(asked)
                       /\ IsFrame(F, carried(asked), HE, FALSE, e, c)
                       /\ Coming(F)
                       /\ Progress(carried(asked), e, c)
    BY DEF Tracked
  <2>2. PICK n \in Nat : n = Len(F)
    BY <2>1 DEF IsFrame
  <2>3. n >= 4 /\ own = n
    BY <2>1, <2>2 DEF IsFrame, Coming
  <2>4. Len(line) = 0 /\ 0 < own
    BY <1>1, <2>3
  <2>5. QED BY <1>1, <2>1, <2>4 DEF Progress
<1>5. Answered
  <2>1. \A p : <<p>> # <<>>
    OBVIOUS
  <2>2. QED BY <1>2, <1>4, <2>1 DEF Received
<1>6. PICK result : /\ result.success \in BOOLEAN
                    /\ Executed(result, Service!request(asked).command)
                    /\ Done(asked, before, result.mem, result.success, result.data)
  BY <1>5 DEF Answered
<1>7. out = Service!wait_frame_bytes(wait_packet) \o Service!send_frame_bytes(send_packet)
  <2>1. Machine!IDLE # Machine!RESP_PEND /\ Machine!IDLE # Machine!TX_PEND
    BY DEF Machine!IDLE, Machine!RESP_PEND, Machine!TX_PEND
  <2>2. QED BY <1>2, <1>5, <2>1 DEF Answered
<1>8. PICK answers : answers = packets(out)
  OBVIOUS
<1>9. answers = <<wait_packet, send_packet>>
  BY <1>3, <1>6, <1>7, <1>8, AnswersRead DEF Types
<1>10. Len(answers) = 2 /\ answers[1] = wait_packet /\ answers[2] = send_packet
  BY <1>9
<1>11. PICK command \in Byte : command = Service!request(asked).command
  BY <1>3, Requests DEF Byte
<1>12. status_of(wait_packet) = Service!PENDING
  <2>1. Service!PENDING \in 0 .. 3
    BY DEF Service!PENDING
  <2>2. wait_packet.command = Service!with_status(command, Service!PENDING)
    BY <1>6, <1>11 DEF Executed
  <2>3. QED BY <2>1, <2>2, WithStatus DEF status_of
<1>13. status_of(send_packet) = IF result.success THEN Service!POSITIVE ELSE Service!NEGATIVE
  <2>1. PICK status \in 0 .. 3 :
          status = IF result.success THEN Service!POSITIVE ELSE Service!NEGATIVE
    BY DEF Service!POSITIVE, Service!NEGATIVE
  <2>2. send_packet.command = Service!with_status(command, status)
    BY <1>6, <1>11, <2>1 DEF Executed
  <2>3. QED BY <2>1, <2>2, WithStatus DEF status_of
<1>14. mem = result.mem /\ send_packet.data = result.data
  BY <1>6 DEF Executed
<1>15. asked.kind \in {"read", "write", "other"}
  BY <1>3, CommandsAssumption DEF Service!Reads, Service!Writes, Service!Others
<1>16. CASE asked.kind = "read"
  <2>1. /\ status_of(answers[2]) = Service!POSITIVE
        /\ answers[2].data = [i \in 1 .. asked.size |-> before[asked.address + i - 1]]
        /\ mem = before
    BY <1>6, <1>10, <1>13, <1>14, <1>16 DEF Done
  <2>2. QED BY <1>8, <1>10, <1>12, <1>16, <2>1 DEF WholeRequestServed
<1>17. CASE asked.kind = "write"
  <2>1. /\ status_of(answers[2]) = Service!POSITIVE
        /\ mem = [cell \in Service!Cells |->
                     IF cell \in asked.address .. asked.address + Len(asked.value) - 1
                     THEN Service!native(asked.value)[cell - asked.address + 1]
                     ELSE before[cell]]
    BY <1>6, <1>10, <1>13, <1>14, <1>17 DEF Done
  <2>2. QED BY <1>8, <1>10, <1>12, <1>17, <2>1 DEF WholeRequestServed
<1>18. CASE asked.kind = "other"
  <2>1. status_of(answers[2]) = Service!NEGATIVE /\ mem = before
    BY <1>6, <1>10, <1>13, <1>14, <1>18 DEF Done
  <2>2. QED BY <1>8, <1>10, <1>12, <1>18, <2>1 DEF WholeRequestServed
<1>19. QED BY <1>15, <1>16, <1>17, <1>18

\* A request that arrives whole at a receiver without left-over escapes is executed
\* on the memory it finds and answered with a pending and a final response that a
\* master can read: from slave.ino's loop() down to the last escape bit, whatever was
\* sent, lost or broken off before it.
THEOREM WholeRequestServedAlways ==
  ASSUME PE = HE
  PROVE  Spec => []WholeRequestServed
<1>1. Init => Types /\ Tracked
  BY InitTypes DEF Init, Tracked
<1>2. Types /\ Tracked /\ [Next]_vars => Types' /\ Tracked'
  BY NextTypes, NextTracked
<1>3. Types /\ Tracked => WholeRequestServed
  BY AtRest
<1>4. QED BY <1>1, <1>2, <1>3, PTL DEF Spec

=================================================================================
