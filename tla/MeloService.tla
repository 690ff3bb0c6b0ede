------------------------------- MODULE MeloService -------------------------------
(***************************************************************************)
(* A request from the call that builds it in the master to the frames that *)
(* answer it: MeloReadMemoryByAddress and MeloWriteMemoryByAddress of      *)
(* serial_example.cc on one side, _melo_packet_handler and the services    *)
(* of melo.c on the other.  What lies between is the subject of MeloLink.  *)
(*                                                                         *)
(* An integer is written as the sequence of its bytes, lowest first; so no *)
(* width overflows, and byte order is an order of bytes.                   *)
(***************************************************************************)
EXTENDS MeloFrame

CONSTANTS MemTop,       \* the memory has the cells 0 .. MemTop
          Values,       \* what is written: sequences of one, two or four bytes
          PE,           \* byte order of the slave: 0 little, 1 big endian
          HE            \* byte order of the master

ASSUME MemoryAssumption == /\ MemTop \in 0 .. 255
                            /\ \A value \in Values : /\ value \in Seq(Byte)
                                                     /\ Len(value) \in {1, 2, 4}
ASSUME OrderAssumption == PE \in {0, 1} /\ HE \in {0, 1}

VARIABLES
  asked,       \* the operation the master was told to carry out
  mem,         \* the slave's memory
  recv_data,   \* recv_packet_buffer: the eight bytes of it that a service reads
  send_packet, \* send_frame.frame.packet
  wait_packet  \* wait_frame.frame.packet

vars == <<asked, mem, recv_data, send_packet, wait_packet>>

Cells == 0 .. MemTop

\* The values of the status field, and the command byte made of its bit fields.
REQUEST  == 0
POSITIVE == 1
NEGATIVE == 2
PENDING  == 3

command(subfunction, service, status) == subfunction + 8 * service + 64 * status

\* Mutant of with_status: the field one bit too high.
with_status_shifted(raw_byte, status) == (raw_byte % 64) + 128 * status

with_status(raw_byte, status) == (raw_byte % 64) + 64 * status
subfunction_of(raw_byte) == raw_byte % 8
service_of(raw_byte)     == (raw_byte \div 8) % 4

------------------------------------------------------------------------------
(* The master *)

SizeCode(n) == CASE n = 1 -> 0 [] n = 2 -> 1 [] n = 4 -> 2

\* Operations on the memory that exists.  "other" is a request that is refused
\* whatever its address, as the slave has no service for it or does not support its
\* size code 3; "short" is a request to write of whose value only the beginning is
\* sent, which the builder of requests lets through.
Reads  == {op \in [kind : {"read"}, address : Cells, size : {1, 2, 4}] :
             op.address + op.size - 1 \in Cells}
Writes == {op \in [kind : {"write"}, address : Cells, value : Values] :
             op.address + Len(op.value) - 1 \in Cells}
Shorts == UNION {{[kind |-> "short", address |-> op.address, size |-> Len(op.value),
                   value |-> SubSeq(op.value, 1, n)] : n \in 0 .. Len(op.value) - 1} :
                 op \in Writes}
Others == [kind : {"other"}, address : {0}, subfunction : {3, 7}, service : {0}]
            \cup [kind : {"other"}, address : {0}, subfunction : {0}, service : 1 .. 3]
Operations == Reads \cup Writes \cup Shorts \cup Others

\* The data of a request: "Always this format", the address and then the value,
\* lowest byte first.
address_bytes(address) == <<address, 0, 0, 0>>

request(op) ==
  [byte_order |-> HE,
   command |-> CASE op.kind = "read"  -> command(SizeCode(op.size), 0, REQUEST)
                 [] op.kind = "write" -> command(4 + SizeCode(Len(op.value)), 0, REQUEST)
                 [] op.kind = "short" -> command(4 + SizeCode(op.size), 0, REQUEST)
                 [] op.kind = "other" -> command(op.subfunction, op.service, REQUEST),
   data |-> CASE op.kind \in {"write", "short"} -> address_bytes(op.address) \o op.value
              [] op.kind \in {"read", "other"}  -> address_bytes(op.address)]

------------------------------------------------------------------------------
(* The slave *)

NUM_SERVICE_BYTES == 8       \* the address, and a value of up to four bytes

\* The packet's data is copied over that of the packet before it: what was behind
\* stays.
unpacked(buffer, data) ==
  [i \in 1 .. NUM_SERVICE_BYTES |-> IF i <= Len(data) THEN data[i] ELSE buffer[i]]

\* Mutant of esafe: the two cases exchanged.
esafe_swapped(bytes, byte_order) == IF PE # byte_order THEN bytes ELSE Reverse(bytes)

\* _melo_esafe_uint16 and _melo_esafe_uint32: bytes that come from a processor
\* of the other byte order are taken highest first.
esafe(bytes, byte_order) == IF PE = byte_order THEN bytes ELSE Reverse(bytes)

\* MeloCreatePointer of slave.ino keeps the low 16 bits; the memory here is the
\* beginning of what they can address.
create_pointer(address) == address[1] + 256 * address[2]

\* What a service reads at an address; cells that are not modelled read as zero.
peek(address) == IF address \in Cells THEN mem[address] ELSE 0

\* An assignment through a uint16_t or uint32_t pointer puts the bytes in the
\* slave's own order.
native(value) == IF PE = 0 THEN value ELSE Reverse(value)

store(pointer, value) ==
  [cell \in Cells |-> IF cell \in pointer .. pointer + Len(value) - 1
                      THEN native(value)[cell - pointer + 1] ELSE mem[cell]]

\* Size code 0 is one byte, the others are twice their number: 2, 4 and 6.
data_size(subfunction) ==
  IF subfunction % 4 = 0 THEN 1 ELSE 2 * (subfunction % 4)

\* _service_read_write, and _service_NULL behind every other number: what becomes
\* of the memory and of the data of send_packet, and whether it succeeds.  The
\* services read the buffer and never ask for the length of the packet.
service_read_write(packet, buffer) ==
  LET pointer == create_pointer(esafe(SubSeq(buffer, 1, 4), packet.byte_order))
      size    == data_size(subfunction_of(packet.command))
      write   == subfunction_of(packet.command) >= 4
      value   == esafe(SubSeq(buffer, 5, 4 + size), packet.byte_order)
  IN CASE size > 4            -> [success |-> FALSE, mem |-> mem, data |-> send_packet.data]
       [] size <= 4 /\ write  -> [success |-> TRUE, mem |-> store(pointer, value),
                                  data |-> <<69>>]
       [] size <= 4 /\ ~write -> [success |-> TRUE, mem |-> mem,
                                  data |-> [i \in 1 .. size |-> peek(pointer + i - 1)]]

service_NULL == [success |-> FALSE, mem |-> mem, data |-> send_packet.data]

service(packet, buffer) ==
  IF service_of(packet.command) = 0 THEN service_read_write(packet, buffer)
                                    ELSE service_NULL

\* Mutant of wait_frame_bytes: crc_present left set.
wait_frame_bytes_crc(packet) == serialize_frame(packet.command, packet.data, PE, TRUE)

\* The bytes of the two answers.  Neither carries a CRC.
send_frame_bytes(packet) == serialize_frame(packet.command, packet.data, PE, FALSE)
wait_frame_bytes(packet) == serialize_frame(packet.command, packet.data, PE, FALSE)

\* Mutant of announced: the TAIL byte is not counted.
announced_short(packet) == create_r(Len(send_frame_bytes(packet)) - 1)

\* The length that the pending response announces.
announced(packet) == create_r(Len(send_frame_bytes(packet)))

\* _melo_packet_handler with a packet whose status is REQUEST.  A service that
\* fails leaves the data of the answer before in the negative response.
packet_handler(packet, buffer) ==
  LET result == service(packet, buffer)
      reply  == [command |-> with_status(packet.command,
                               IF result.success THEN POSITIVE ELSE NEGATIVE),
                 data    |-> result.data]
  IN /\ mem' = result.mem
     /\ send_packet' = reply
     /\ wait_packet' = [command |-> with_status(packet.command, PENDING),
                        data    |-> <<announced(reply)>>]

Init ==
  /\ asked = [kind |-> "none"]
  /\ mem = [cell \in Cells |-> 0]
  /\ recv_data = [i \in 1 .. NUM_SERVICE_BYTES |-> 0]
  /\ send_packet = NoPacket
  /\ wait_packet = NoPacket

Request(op) ==
  /\ asked' = op
  /\ recv_data' = unpacked(recv_data, request(op).data)
  /\ packet_handler(request(op), recv_data')

Next == \E op \in Operations : Request(op)

Spec == Init /\ [][Next]_vars

------------------------------------------------------------------------------
TypeOK ==
  /\ asked \in Operations \cup {[kind |-> "none"]}
  /\ mem \in [Cells -> Byte] /\ recv_data \in [1 .. NUM_SERVICE_BYTES -> Byte]
  /\ send_packet.command \in Byte /\ send_packet.data \in Seq(Byte)
  /\ wait_packet.command \in Byte /\ wait_packet.data \in Seq(Byte)

\* Every request does to the memory what was asked for and answers with what was
\* there: whole values, at their address, in the right order, and nothing else.
\* What earlier packets left in the receive buffer (melo.c:526) has no say in it,
\* except for the bytes that a short request did not send (melo.c:367).
Memory == INSTANCE MeloMemory WITH
  Stored   <- native,
  positive <- send_packet.command \div 64 = POSITIVE,
  answer   <- send_packet.data

MemorySpec == Memory!Spec

\* The pending response tells the master how many bytes to clock out for the
\* final response (MeloRequestBytes, README.md:130): neither the encoding of the
\* length byte (melo.c:697) nor an escape byte makes the number wrong.
AnnouncedLengthIsExact ==
  wait_packet # NoPacket =>
    wait_packet.data = <<Len(send_frame_bytes(send_packet))>>

\* Serialising escapes data and so lengthens it, in buffers of a fixed size
\* (melo_priv.h:79, 80) that the code never compares with what it writes.
FramesFit ==
  /\ Len(send_frame_bytes(send_packet)) <= MELO_MAX_FRAME_SIZE
  /\ wait_packet # NoPacket =>
       Len(wait_frame_bytes(wait_packet)) <= MELO_MAX_WAIT_FRAME_SIZE

\* "Always this format - endianess/byte order is automatically accounted for!"
\* (serial_example.cc:90): a value that was written is where it was meant to go.
ByteOrderAccountedFor ==
  asked.kind = "write" =>
    \A i \in 1 .. Len(asked.value) : mem[asked.address + i - 1] = native(asked.value)[i]
================================================================================
