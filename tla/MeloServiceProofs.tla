---------------------------- MODULE MeloServiceProofs ----------------------------
(***************************************************************************)
(* MeloService, for every size of the memory, every set of values and any  *)
(* room for data.  Whatever the byte orders are, the answers are frames    *)
(* that fit their buffers and are as long as announced.  Where master and  *)
(* slave have one byte order (PE = HE), MeloService implements MeloMemory; *)
(* where they differ it does not: see ByteOrderAccountedFor.               *)
(***************************************************************************)
EXTENDS MeloService, MeloFrameProofs

\* What the services read and change.
IInv == /\ mem \in [Cells -> Byte]
        /\ recv_data \in [1 .. NUM_SERVICE_BYTES -> Byte]

\* The value that a write leaves in the receive buffer, behind the address.
rest(buffer, size) == SubSeq(buffer, 5, 4 + size)

------------------------------------------------------------------------------
(* Sequences and command bytes *)

\* An address and a value behind it.
LEMMA AddressThenValue ==
  ASSUME NEW a \in Byte, NEW v \in Seq(Byte)
  PROVE  /\ Len(address_bytes(a) \o v) = 4 + Len(v)
         /\ (address_bytes(a) \o v)[1] = a
         /\ \A i \in 2 .. 4 : (address_bytes(a) \o v)[i] = 0
         /\ \A i \in 1 .. Len(v) : (address_bytes(a) \o v)[4 + i] = v[i]
<1> DEFINE b == address_bytes(a)
<1>1. b \in Seq(Byte) /\ Len(b) = 4 /\ b[1] = a /\ b[2] = 0 /\ b[3] = 0 /\ b[4] = 0
  BY DEF address_bytes, Byte
<1>2. Len(v) \in Nat
  OBVIOUS
<1> HIDE DEF b
<1>3. /\ Len(b \o v) = Len(b) + Len(v)
      /\ \A i \in 1 .. Len(b) + Len(v) :
           (b \o v)[i] = IF i <= Len(b) THEN b[i] ELSE v[i - Len(b)]
  BY <1>1, ConcatProperties
<1>4. /\ Len(b \o v) = 4 + Len(v)
      /\ \A i \in 1 .. 4 + Len(v) : (b \o v)[i] = IF i <= 4 THEN b[i] ELSE v[i - 4]
  <2>1. Len(b) = 4
    BY <1>1
  <2>2. QED BY <1>3, <2>1
<1>5. (b \o v)[1] = a /\ \A i \in 2 .. 4 : (b \o v)[i] = 0
  <2>1. ASSUME NEW i \in 1 .. 4 PROVE (b \o v)[i] = b[i]
    <3>1. i \in 1 .. 4 + Len(v) /\ i <= 4
      BY <1>2
    <3>2. QED BY <1>4, <3>1
  <2>2. b[1] = a /\ \A i \in 2 .. 4 : b[i] = 0
    <3>1. b[1] = a /\ b[2] = 0 /\ b[3] = 0 /\ b[4] = 0
      BY <1>1
    <3>2. \A i \in 2 .. 4 : i = 2 \/ i = 3 \/ i = 4
      OBVIOUS
    <3>3. QED BY <3>1, <3>2
  <2>3. 1 \in 1 .. 4 /\ \A i \in 2 .. 4 : i \in 1 .. 4
    OBVIOUS
  <2>4. (b \o v)[1] = a
    BY <2>1, <2>2, <2>3
  <2>5. ASSUME NEW i \in 2 .. 4 PROVE (b \o v)[i] = 0
    <3>1. (b \o v)[i] = b[i]
      BY <2>1, <2>3
    <3>2. b[i] = 0
      BY <2>2
    <3>3. QED BY <3>1, <3>2
  <2>6. QED BY <2>4, <2>5
<1>6. ASSUME NEW i \in 1 .. Len(v) PROVE (b \o v)[4 + i] = v[i]
  <2>1. 4 + i \in 1 .. 4 + Len(v) /\ ~ (4 + i <= 4) /\ (4 + i) - 4 = i
    BY <1>2
  <2>2. QED BY <1>4, <2>1
<1>7. QED BY <1>4, <1>5, <1>6 DEF b

\* The part of the buffer behind the address is a value of the size asked for.
LEMMA RestOfBuffer ==
  ASSUME NEW buffer \in [1 .. NUM_SERVICE_BYTES -> Byte], NEW size \in {1, 2, 4}
  PROVE  /\ rest(buffer, size) \in Seq(Byte) /\ Len(rest(buffer, size)) = size
         /\ \A i \in 1 .. size : rest(buffer, size)[i] = buffer[4 + i]
<1>1. \A i \in 5 .. 4 + size : buffer[i] \in Byte
  BY DEF NUM_SERVICE_BYTES
<1>2. 5 \in Int /\ 4 + size \in Int /\ 5 <= 4 + size /\ (4 + size) - 5 + 1 = size
  OBVIOUS
<1>3. /\ SubSeq(buffer, 5, 4 + size) \in Seq(Byte) /\ Len(SubSeq(buffer, 5, 4 + size)) = size
      /\ \A i \in 1 .. size : SubSeq(buffer, 5, 4 + size)[i] = buffer[5 + i - 1]
  BY <1>1, <1>2, SubSeqProperties
<1>4. \A i \in 1 .. size : 5 + i - 1 = 4 + i
  OBVIOUS
<1>5. QED BY <1>3, <1>4 DEF rest

\* Two changes of byte order are none.
LEMMA NativeTwice ==
  ASSUME NEW v \in Seq(Byte)
  PROVE  /\ native(v) \in Seq(Byte) /\ Len(native(v)) = Len(v)
         /\ native(native(v)) = v
<1> DEFINE r == Reverse(v)
<1>1. Len(v) \in Nat /\ v \in [1 .. Len(v) -> Byte]
  OBVIOUS
<1>2. r = [j \in 1 .. Len(v) |-> v[Len(v) - j + 1]]
  BY DEF Reverse
<1>3. \A j \in 1 .. Len(v) : Len(v) - j + 1 \in 1 .. Len(v)
  BY <1>1
<1>4. r \in [1 .. Len(v) -> Byte]
  BY <1>1, <1>2, <1>3
<1>5. r \in Seq(Byte) /\ Len(r) = Len(v)
  BY <1>1, <1>4
<1>6. Reverse(r) = [j \in 1 .. Len(v) |-> r[Len(v) - j + 1]]
  BY <1>5 DEF Reverse
<1>7. \A j \in 1 .. Len(v) : r[Len(v) - j + 1] = v[j]
  <2>1. \A j \in 1 .. Len(v) : r[Len(v) - j + 1] = v[Len(v) - (Len(v) - j + 1) + 1]
    BY <1>2, <1>3
  <2>2. \A j \in 1 .. Len(v) : Len(v) - (Len(v) - j + 1) + 1 = j
    BY <1>1
  <2>3. QED BY <2>1, <2>2
<1>8. Reverse(r) = v
  BY <1>1, <1>6, <1>7
<1>9. QED BY <1>5, <1>8 DEF native

\* The fields of a command byte come out as they were put in.
LEMMA Fields ==
  ASSUME NEW subfunction \in 0 .. 7, NEW number \in 0 .. 3
  PROVE  LET byte == command(subfunction, number, REQUEST) IN
         /\ subfunction_of(byte) = subfunction /\ service_of(byte) = number
         /\ with_status(byte, POSITIVE) \div 64 = POSITIVE
         /\ with_status(byte, NEGATIVE) \div 64 # POSITIVE
  BY DEF command, REQUEST, POSITIVE, NEGATIVE, subfunction_of, service_of, with_status

\* The size code of one, two and four bytes says as many.
LEMMA Sizes ==
  ASSUME NEW size \in {1, 2, 4}
  PROVE  /\ SizeCode(size) \in 0 .. 2
         /\ data_size(SizeCode(size)) = size /\ data_size(4 + SizeCode(size)) = size
  BY DEF SizeCode, data_size

------------------------------------------------------------------------------
(* Requests *)

\* A command byte without a status.
LEMMA CommandByte ==
  ASSUME NEW subfunction \in 0 .. 7, NEW number \in 0 .. 3
  PROVE  command(subfunction, number, REQUEST) \in 0 .. 31
  BY DEF command, REQUEST

\* The commands of the master's requests have no status yet, and no bit 5.
LEMMA RequestTypes ==
  ASSUME NEW op \in Operations
  PROVE  request(op) \in [byte_order : {0, 1}, command : 0 .. 31, data : Seq(Byte)]
<1>1. 0 \in 0 .. 3
  OBVIOUS
<1>2. \A a \in Byte : address_bytes(a) \in Seq(Byte)
  BY DEF address_bytes, Byte
<1>3. Cells \subseteq Byte /\ HE \in {0, 1}
  BY MemoryAssumption, OrderAssumption DEF Cells, Byte
<1>4. CASE op \in Reads
  <2>1. op.kind = "read" /\ op.address \in Byte /\ op.size \in {1, 2, 4}
    BY <1>3, <1>4 DEF Reads
  <2>2. SizeCode(op.size) \in 0 .. 7
    <3>1. PICK n : n = SizeCode(op.size)
      OBVIOUS
    <3>2. n \in 0 .. 2
      BY <2>1, <3>1, Sizes
    <3>3. QED BY <3>1, <3>2
  <2>3. /\ command(SizeCode(op.size), 0, REQUEST) \in 0 .. 31
        /\ address_bytes(op.address) \in Seq(Byte)
    BY <1>1, <1>2, <2>1, <2>2, CommandByte
  <2>4. QED BY <1>3, <2>1, <2>3 DEF request
<1>5. ASSUME op.kind \in {"write", "short"}, op.address \in Byte, op.value \in Seq(Byte),
             NEW size \in {1, 2, 4},
             request(op).command = command(4 + SizeCode(size), 0, REQUEST)
      PROVE  request(op) \in [byte_order : {0, 1}, command : 0 .. 31, data : Seq(Byte)]
  <2>1. 4 + SizeCode(size) \in 0 .. 7
    BY Sizes
  <2>2. request(op).command \in 0 .. 31
    <3>1. command(4 + SizeCode(size), 0, REQUEST) \in 0 .. 31
      BY <1>1, <2>1, CommandByte
    <3>2. QED BY <1>5, <3>1
  <2>3. address_bytes(op.address) \o op.value \in Seq(Byte)
    BY <1>2, <1>5, ConcatProperties
  <2>4. PICK code : code = request(op).command
    OBVIOUS
  <2>5. PICK bytes : bytes = address_bytes(op.address) \o op.value
    OBVIOUS
  <2>6. request(op) = [byte_order |-> HE, command |-> code, data |-> bytes]
    BY <1>5, <2>4, <2>5 DEF request
  <2>7. code \in 0 .. 31 /\ bytes \in Seq(Byte)
    BY <2>2, <2>3, <2>4, <2>5
  <2>8. QED BY <1>3, <2>6, <2>7
<1>6. ASSUME NEW o \in Writes
      PROVE  /\ o.kind = "write" /\ o.address \in Byte
             /\ o.value \in Seq(Byte) /\ Len(o.value) \in {1, 2, 4}
  BY <1>3, MemoryAssumption DEF Writes
<1>7. CASE op \in Writes
  <2>1. request(op).command = command(4 + SizeCode(Len(op.value)), 0, REQUEST)
    BY <1>6, <1>7 DEF request
  <2>2. QED BY <1>5, <1>6, <1>7, <2>1
<1>8. CASE op \in Shorts
  <2>1. PICK whole \in Writes : \E n \in 0 .. Len(whole.value) - 1 :
          op = [kind |-> "short", address |-> whole.address, size |-> Len(whole.value),
                value |-> SubSeq(whole.value, 1, n)]
    BY <1>8 DEF Shorts
  <2>2. PICK n \in 0 .. Len(whole.value) - 1 :
          op = [kind |-> "short", address |-> whole.address, size |-> Len(whole.value),
                value |-> SubSeq(whole.value, 1, n)]
    BY <2>1
  <2>3. SubSeq(whole.value, 1, n) \in Seq(Byte)
    <3>1. n \in Int /\ \A i \in 1 .. n : whole.value[i] \in Byte
      BY <1>6, ElementOfSeq
    <3>2. QED BY <3>1, SubSeqProperties
  <2>4. op.kind = "short" /\ op.address \in Byte /\ op.value \in Seq(Byte)
        /\ op.size \in {1, 2, 4}
    BY <1>6, <2>2, <2>3
  <2>5. request(op).command = command(4 + SizeCode(op.size), 0, REQUEST)
    BY <2>4 DEF request
  <2>6. QED BY <1>5, <2>4, <2>5
<1>9. CASE op \in Others
  <2>1. /\ op.kind = "other" /\ op.address = 0
        /\ op.subfunction \in 0 .. 7 /\ op.service \in 0 .. 3
    BY <1>9 DEF Others
  <2>2. 0 \in Byte
    BY DEF Byte
  <2>4. /\ command(op.subfunction, op.service, REQUEST) \in 0 .. 31
        /\ address_bytes(op.address) \in Seq(Byte)
    BY <1>2, <2>1, <2>2, CommandByte
  <2>5. QED BY <1>3, <2>1, <2>4 DEF request
<1>10. QED BY <1>4, <1>7, <1>8, <1>9 DEF Operations

\* No request has more data than an address and a value.
LEMMA RequestLength ==
  ASSUME NEW op \in Reads \cup Writes \cup Others
  PROVE  Len(request(op).data) \in 4 .. 8
<1>1. \A a : Len(address_bytes(a)) = 4
  BY DEF address_bytes
<1>2. CASE op \in Writes
  <2>1. op.kind = "write" /\ op.address \in Cells /\ op.value \in Values
    BY <1>2 DEF Writes
  <2>c. Cells \subseteq Byte
    BY MemoryAssumption DEF Cells, Byte
  <2>2. op.address \in Byte
    BY <2>1, <2>c
  <2>3. PICK v \in Seq(Byte) : v = op.value /\ Len(v) \in {1, 2, 4}
    BY <2>1, MemoryAssumption
  <2>4. request(op).data = address_bytes(op.address) \o v
    BY <2>1, <2>3 DEF request
  <2>5. Len(address_bytes(op.address) \o v) = 4 + Len(v)
    BY <2>2, AddressThenValue
  <2>6. 4 + Len(v) \in 4 .. 8
    <3>1. PICK n \in {1, 2, 4} : n = Len(v)
      BY <2>3
    <3>2. 4 + n \in 4 .. 8
      OBVIOUS
    <3>3. QED BY <3>1, <3>2
  <2>7. QED BY <2>4, <2>5, <2>6
<1>3. CASE op \in Reads \cup Others
  <2>1. op.kind \in {"read", "other"}
    BY <1>3 DEF Reads, Others
  <2>2. request(op).data = address_bytes(op.address)
    BY <2>1 DEF request
  <2>3. QED BY <1>1, <2>2
<1>4. QED BY <1>2, <1>3

\* A request is about the address it names, and its value lies behind that.
LEMMA Buffer ==
  ASSUME NEW old \in [1 .. NUM_SERVICE_BYTES -> Byte],
         NEW a \in Cells, NEW v \in Seq(Byte), Len(v) <= 4,
         NEW buffer, buffer = unpacked(old, address_bytes(a) \o v)
  PROVE  /\ buffer \in [1 .. NUM_SERVICE_BYTES -> Byte]
         /\ create_pointer(SubSeq(buffer, 1, 4)) = a
         /\ \A i \in 1 .. Len(v) : buffer[4 + i] = v[i]
<1> DEFINE data == address_bytes(a) \o v
<1>1. /\ a \in Byte /\ a \in Nat
      /\ Len(v) \in Nat
  BY MemoryAssumption DEF Cells, Byte
<1>0. 0 \in Byte
  BY DEF Byte
<1>2. /\ Len(data) = 4 + Len(v) /\ data[1] = a /\ \A i \in 2 .. 4 : data[i] = 0
      /\ \A i \in 1 .. Len(v) : data[4 + i] = v[i]
  BY <1>1, AddressThenValue
<1> HIDE DEF data
<1>3. buffer = [i \in 1 .. 8 |-> IF i <= Len(data) THEN data[i] ELSE old[i]]
  BY DEF unpacked, NUM_SERVICE_BYTES, data
<1>4. ASSUME NEW i \in 1 .. 8 PROVE buffer[i] \in Byte
  <2>1. CASE i <= 4
    <3>1. buffer[i] = data[i]
      BY <1>1, <1>2, <1>3, <2>1
    <3>2. i = 1 \/ i \in 2 .. 4
      BY <2>1
    <3>3. data[i] \in {a, 0}
      BY <1>2, <3>2
    <3>4. QED BY <1>0, <1>1, <3>1, <3>3
  <2>2. CASE i > 4 /\ i <= Len(data)
    <3>1. i - 4 \in 1 .. Len(v) /\ 4 + (i - 4) = i
      BY <1>1, <1>2, <2>2
    <3>2. buffer[i] = v[i - 4]
      BY <1>2, <1>3, <2>2, <3>1
    <3>3. QED BY <3>1, <3>2, ElementOfSeq
  <2>3. CASE ~ (i <= Len(data))
    BY <1>3, <2>3 DEF NUM_SERVICE_BYTES
  <2>4. QED BY <1>1, <1>2, <2>1, <2>2, <2>3
<1>5. create_pointer(SubSeq(buffer, 1, 4)) = a
  <2>1. \A i \in 1 .. 4 : buffer[i] = data[i] /\ buffer[i] \in Byte
    BY <1>1, <1>2, <1>3, <1>4
  <2>2. \A i \in 1 .. 4 - 1 + 1 : SubSeq(buffer, 1, 4)[i] = buffer[1 + i - 1]
    BY <2>1, SubSeqProperties
  <2>3. SubSeq(buffer, 1, 4)[1] = buffer[1] /\ SubSeq(buffer, 1, 4)[2] = buffer[2]
    BY <2>2
  <2>4. QED BY <1>1, <1>2, <2>1, <2>3 DEF create_pointer
<1>6. ASSUME NEW i \in 1 .. Len(v) PROVE buffer[4 + i] = v[i]
  <2>1. 4 + i \in 1 .. 8 /\ 4 + i <= Len(data)
    BY <1>1, <1>2
  <2>2. QED BY <1>2, <1>3, <2>1
<1>7. QED BY <1>3, <1>4, <1>5, <1>6 DEF NUM_SERVICE_BYTES

\* The bytes of v are at a in the slave's own order, and no other cell has changed.
Holds(memory, a, v, size) ==
  /\ memory \in [Cells -> Byte]
  /\ \A i \in 1 .. size : a + i - 1 \in Cells /\ memory[a + i - 1] = native(v)[i]
  /\ \A cell \in Cells : memory[cell] # mem[cell] => \E i \in 1 .. size : cell = a + i - 1

\* What is stored at cells that exist is where native says, and nothing else changes.
LEMMA Stored ==
  ASSUME mem \in [Cells -> Byte],
         NEW a \in Cells, NEW v \in Seq(Byte), NEW size \in {1, 2, 4}, Len(v) = size,
         a + size - 1 \in Cells
  PROVE  Holds(store(a, v), a, v, size)
<1>1. native(v) \in Seq(Byte) /\ Len(native(v)) = size
  BY NativeTwice
<1>2. /\ a \in Nat /\ MemTop \in Nat /\ Cells = 0 .. MemTop
  BY MemoryAssumption DEF Cells
<1>3. \A cell \in Cells : cell \in a .. a + size - 1 => cell - a + 1 \in 1 .. size
  BY <1>2
<1>4. store(a, v) = [cell \in Cells |-> IF cell \in a .. a + size - 1
                                        THEN native(v)[cell - a + 1] ELSE mem[cell]]
  BY DEF store
<1>5. store(a, v) \in [Cells -> Byte]
  BY <1>1, <1>3, <1>4, ElementOfSeq
<1>6. ASSUME NEW i \in 1 .. size
      PROVE  a + i - 1 \in Cells /\ store(a, v)[a + i - 1] = native(v)[i]
  <2>1. a + i - 1 \in Cells /\ a + i - 1 \in a .. a + size - 1 /\ (a + i - 1) - a + 1 = i
    BY <1>2
  <2>2. QED BY <1>4, <2>1
<1>7. ASSUME NEW cell \in Cells, store(a, v)[cell] # mem[cell]
      PROVE  \E i \in 1 .. size : cell = a + i - 1
  <2>1. cell \in a .. a + size - 1
    BY <1>4, <1>7
  <2>2. cell - a + 1 \in 1 .. size /\ cell = a + (cell - a + 1) - 1
    BY <1>2, <1>3, <2>1
  <2>3. QED BY <2>2
<1>8. QED BY <1>5, <1>6, <1>7 DEF Holds

\* A request without a value.
LEMMA BufferAddress ==
  ASSUME NEW old \in [1 .. NUM_SERVICE_BYTES -> Byte], NEW a \in Cells,
         NEW buffer, buffer = unpacked(old, address_bytes(a))
  PROVE  /\ buffer \in [1 .. NUM_SERVICE_BYTES -> Byte]
         /\ create_pointer(SubSeq(buffer, 1, 4)) = a
<1>1. address_bytes(a) \o <<>> = address_bytes(a)
  BY ConcatEmptySeq DEF address_bytes
<1>2. buffer = unpacked(old, address_bytes(a) \o <<>>)
  BY <1>1
<1>3. <<>> \in Seq(Byte) /\ Len(<<>>) <= 4
  OBVIOUS
<1>4. QED BY <1>2, <1>3, Buffer

------------------------------------------------------------------------------
(* One request of each kind *)

\* A read shows what is in the cells and leaves them alone.
LEMMA ReadServed ==
  ASSUME PE = HE, NEW op \in Reads,
         NEW old \in [1 .. NUM_SERVICE_BYTES -> Byte],
         NEW buffer, buffer = unpacked(old, request(op).data)
  PROVE  /\ buffer \in [1 .. NUM_SERVICE_BYTES -> Byte]
         /\ service(request(op), buffer) =
              [success |-> TRUE, mem |-> mem,
               data |-> [i \in 1 .. op.size |-> mem[op.address + i - 1]]]
<1>1. /\ op.kind = "read" /\ op.address \in Cells /\ op.size \in {1, 2, 4}
      /\ op.address + op.size - 1 \in Cells
  BY DEF Reads
<1> DEFINE packet == request(op)
           byte   == command(SizeCode(op.size), 0, REQUEST)
<1>2. packet.byte_order = PE /\ packet.command = byte /\ packet.data = address_bytes(op.address)
  BY <1>1 DEF request
<1>3. /\ buffer \in [1 .. NUM_SERVICE_BYTES -> Byte]
      /\ create_pointer(SubSeq(buffer, 1, 4)) = op.address
  BY <1>1, <1>2, BufferAddress
<1>4. /\ subfunction_of(byte) = SizeCode(op.size) /\ service_of(byte) = 0
      /\ SizeCode(op.size) \in 0 .. 2 /\ data_size(SizeCode(op.size)) = op.size
  BY <1>1, Sizes, Fields
<1> HIDE DEF packet, byte
<1>5. service(packet, buffer) =
        [success |-> TRUE, mem |-> mem,
         data |-> [i \in 1 .. op.size |-> peek(op.address + i - 1)]]
  <2> DEFINE pointer == create_pointer(esafe(SubSeq(buffer, 1, 4), packet.byte_order))
             size    == data_size(subfunction_of(packet.command))
  <2>1. pointer = op.address /\ size = op.size
    BY <1>2, <1>3, <1>4 DEF esafe
  <2>2. size <= 4 /\ ~ (size > 4) /\ ~ (subfunction_of(packet.command) >= 4)
    BY <1>1, <1>2, <1>4, <2>1
  <2>3. service(packet, buffer) = service_read_write(packet, buffer)
    BY <1>2, <1>4 DEF service
  <2>4. service_read_write(packet, buffer) =
          [success |-> TRUE, mem |-> mem,
           data |-> [i \in 1 .. size |-> peek(pointer + i - 1)]]
    BY <2>2 DEF service_read_write
  <2> HIDE DEF pointer, size
  <2>5. QED BY <2>1, <2>3, <2>4
<1>6. \A i \in 1 .. op.size : peek(op.address + i - 1) = mem[op.address + i - 1]
  BY <1>1, MemoryAssumption DEF peek, Cells
<1>7. QED BY <1>3, <1>5, <1>6 DEF packet

\* With the buffer as it is, a value of that size is stored where op says, and op
\* determines its beginning.
StoresValue(op, size, buffer) ==
  \E v \in Seq(Byte) :
    /\ Len(v) = size /\ \A i \in 1 .. Len(op.value) : v[i] = op.value[i]
    /\ service(request(op), buffer) =
         [success |-> TRUE, mem |-> store(op.address, v), data |-> <<69>>]

\* A request to write stores a value, whether all of it was sent or not.
LEMMA WriteStored ==
  ASSUME PE = HE, NEW op, op.kind \in {"write", "short"},
         op.address \in Cells, NEW size \in {1, 2, 4}, op.address + size - 1 \in Cells,
         op.value \in Seq(Byte), Len(op.value) <= size,
         request(op).command = command(4 + SizeCode(size), 0, REQUEST),
         NEW old \in [1 .. NUM_SERVICE_BYTES -> Byte],
         NEW buffer, buffer = unpacked(old, request(op).data)
  PROVE  buffer \in [1 .. NUM_SERVICE_BYTES -> Byte] /\ StoresValue(op, size, buffer)
<1> DEFINE packet == request(op)
           byte   == command(4 + SizeCode(size), 0, REQUEST)
           v      == rest(buffer, size)
<1>1. /\ packet.byte_order = PE /\ packet.command = byte
      /\ packet.data = address_bytes(op.address) \o op.value
  BY DEF request
<1>2. /\ buffer \in [1 .. NUM_SERVICE_BYTES -> Byte]
      /\ create_pointer(SubSeq(buffer, 1, 4)) = op.address
      /\ \A i \in 1 .. Len(op.value) : buffer[4 + i] = op.value[i]
  <2>1. buffer = unpacked(old, address_bytes(op.address) \o op.value)
    BY <1>1
  <2>2. Len(op.value) <= 4
    OBVIOUS
  <2>3. QED BY <2>1, <2>2, Buffer
<1>3. v \in Seq(Byte) /\ Len(v) = size /\ \A i \in 1 .. size : v[i] = buffer[4 + i]
  BY <1>2, RestOfBuffer
<1>4. /\ SizeCode(size) \in 0 .. 2 /\ data_size(4 + SizeCode(size)) = size
      /\ 4 + SizeCode(size) \in 0 .. 7 /\ 4 + SizeCode(size) >= 4
  BY Sizes
<1>5. subfunction_of(byte) = 4 + SizeCode(size) /\ service_of(byte) = 0
  BY <1>4, Fields
<1> HIDE DEF packet, byte
<1>6. service(packet, buffer) =
        [success |-> TRUE, mem |-> store(op.address, v), data |-> <<69>>]
  <2> DEFINE pointer == create_pointer(esafe(SubSeq(buffer, 1, 4), packet.byte_order))
             bytes   == data_size(subfunction_of(packet.command))
             value   == esafe(SubSeq(buffer, 5, 4 + bytes), packet.byte_order)
  <2>1. pointer = op.address /\ bytes = size
    BY <1>1, <1>2, <1>4, <1>5 DEF esafe
  <2>2. bytes <= 4 /\ ~ (bytes > 4) /\ subfunction_of(packet.command) >= 4
    BY <1>1, <1>4, <1>5, <2>1
  <2>3. service(packet, buffer) = service_read_write(packet, buffer)
    BY <1>1, <1>5 DEF service
  <2>4. service_read_write(packet, buffer) =
          [success |-> TRUE, mem |-> store(pointer, value), data |-> <<69>>]
    BY <2>2 DEF service_read_write
  <2>5. value = v
    BY <1>1, <2>1 DEF esafe, rest
  <2> HIDE DEF pointer, bytes, value, v
  <2>6. QED BY <2>1, <2>3, <2>4, <2>5
<1>7. \A i \in 1 .. Len(op.value) : v[i] = op.value[i]
  <2>1. Len(op.value) \in Nat /\ \A i \in 1 .. Len(op.value) : i \in 1 .. size
    OBVIOUS
  <2>2. QED BY <1>2, <1>3, <2>1
<1> HIDE DEF v
<1>8. QED BY <1>2, <1>3, <1>6, <1>7 DEF packet, StoresValue

\* A complete write puts its value where it belongs and changes no other cell.
LEMMA WriteServed ==
  ASSUME PE = HE, NEW op \in Writes,
         NEW old \in [1 .. NUM_SERVICE_BYTES -> Byte],
         NEW buffer, buffer = unpacked(old, request(op).data)
  PROVE  /\ buffer \in [1 .. NUM_SERVICE_BYTES -> Byte]
         /\ service(request(op), buffer) =
              [success |-> TRUE, mem |-> store(op.address, op.value), data |-> <<69>>]
<1>1. /\ op.kind = "write" /\ op.address \in Cells /\ op.value \in Values
      /\ op.address + Len(op.value) - 1 \in Cells
  BY DEF Writes
<1>2. op.value \in Seq(Byte) /\ Len(op.value) \in {1, 2, 4}
  BY <1>1, MemoryAssumption
<1>3. PICK size \in {1, 2, 4} : size = Len(op.value)
  BY <1>2
<1>4. request(op).command = command(4 + SizeCode(size), 0, REQUEST)
  BY <1>1, <1>3 DEF request
<1>5. /\ op.kind \in {"write", "short"} /\ op.address + size - 1 \in Cells
      /\ Len(op.value) <= size
  BY <1>1, <1>3
<1>6. buffer \in [1 .. NUM_SERVICE_BYTES -> Byte] /\ StoresValue(op, size, buffer)
  BY <1>1, <1>2, <1>4, <1>5, WriteStored
<1>7. PICK v \in Seq(Byte) :
        /\ Len(v) = size /\ \A i \in 1 .. Len(op.value) : v[i] = op.value[i]
        /\ service(request(op), buffer) =
             [success |-> TRUE, mem |-> store(op.address, v), data |-> <<69>>]
  BY <1>6 DEF StoresValue
<1>8. v = op.value
  BY <1>2, <1>3, <1>7, SeqEqual
<1>9. QED BY <1>6, <1>7, <1>8

\* Whatever else is asked for is refused and leaves the memory alone.
LEMMA OtherServed ==
  ASSUME NEW op \in Others,
         NEW old \in [1 .. NUM_SERVICE_BYTES -> Byte],
         NEW buffer, buffer = unpacked(old, request(op).data)
  PROVE  /\ buffer \in [1 .. NUM_SERVICE_BYTES -> Byte]
         /\ service(request(op), buffer) =
              [success |-> FALSE, mem |-> mem, data |-> send_packet.data]
<1>1. /\ op.kind = "other" /\ op.address = 0
      /\ \/ op.subfunction \in {3, 7} /\ op.service = 0
         \/ op.subfunction = 0 /\ op.service \in 1 .. 3
  BY DEF Others
<1> DEFINE packet == request(op)
           byte   == command(op.subfunction, op.service, REQUEST)
<1>2. packet.command = byte /\ packet.data = address_bytes(op.address)
  BY <1>1 DEF request
<1>3. buffer \in [1 .. NUM_SERVICE_BYTES -> Byte]
  <2>1. 0 \in Cells
    BY MemoryAssumption DEF Cells
  <2>2. QED BY <1>1, <1>2, <2>1, BufferAddress
<1>4. subfunction_of(byte) = op.subfunction /\ service_of(byte) = op.service
  BY <1>1, Fields
<1>5. op.subfunction \in {3, 7} => data_size(op.subfunction) = 6
  BY DEF data_size
<1> HIDE DEF byte
<1>6. service(packet, buffer) =
        [success |-> FALSE, mem |-> mem, data |-> send_packet.data]
  <2> HIDE DEF packet
  <2>1. QED BY <1>1, <1>2, <1>4, <1>5 DEF service, service_read_write, service_NULL
<1>7. QED BY <1>3, <1>6

\* op has been done to the memory and answered with what was there.
Does(op, found, left, success, answer) ==
  /\ op.kind = "read" =>
       /\ success /\ left = found
       /\ answer = [i \in 1 .. op.size |-> found[op.address + i - 1]]
  /\ op.kind = "write" =>
       /\ success
       /\ left = [cell \in Cells |->
                    IF cell \in op.address .. op.address + Len(op.value) - 1
                    THEN native(op.value)[cell - op.address + 1] ELSE found[cell]]
  /\ op.kind = "other" => ~ success /\ left = found

\* The service does to the memory what a request asks for, whatever the packet before
\* left in the buffer (melo.c:526).
LEMMA ServiceDoes ==
  ASSUME PE = HE, NEW op \in Reads \cup Writes \cup Others,
         NEW old \in [1 .. NUM_SERVICE_BYTES -> Byte],
         NEW buffer, buffer = unpacked(old, request(op).data),
         NEW result, result = service(request(op), buffer)
  PROVE  /\ buffer \in [1 .. NUM_SERVICE_BYTES -> Byte]
         /\ Does(op, mem, result.mem, result.success, result.data)
<1>1. CASE op \in Reads
  <2>1. op.kind = "read"
    BY <1>1 DEF Reads
  <2>2. PICK d : d = [i \in 1 .. op.size |-> mem[op.address + i - 1]]
    OBVIOUS
  <2>3. buffer \in [1 .. NUM_SERVICE_BYTES -> Byte]
        /\ service(request(op), buffer) = [success |-> TRUE, mem |-> mem, data |-> d]
    BY <1>1, <2>2, ReadServed
  <2>4. result.success /\ result.mem = mem /\ result.data = d
    BY <2>3
  <2>5. Does(op, mem, mem, TRUE, d)
    BY <2>1, <2>2 DEF Does
  <2>6. result.success = TRUE
    BY <2>3
  <2>7. QED BY <2>3, <2>4, <2>5, <2>6
<1>2. CASE op \in Writes
  <2>1. op.kind = "write"
    BY <1>2 DEF Writes
  <2>2. QED BY <1>2, <2>1, WriteServed DEF Does, store
<1>3. CASE op \in Others
  <2>1. op.kind = "other"
    BY <1>3 DEF Others
  <2>2. QED BY <1>3, <2>1, OtherServed DEF Does
<1>4. QED BY <1>1, <1>2, <1>3

\* The commands of the requests, and with them the statuses of their answers.
LEMMA RequestStatus ==
  ASSUME NEW op \in Operations
  PROVE  /\ with_status(request(op).command, POSITIVE) \div 64 = POSITIVE
         /\ with_status(request(op).command, NEGATIVE) \div 64 # POSITIVE
<1>1. PICK byte \in 0 .. 31 : byte = request(op).command
  BY RequestTypes
<1>2. /\ with_status(byte, POSITIVE) \div 64 = POSITIVE
      /\ with_status(byte, NEGATIVE) \div 64 # POSITIVE
  BY DEF with_status, POSITIVE, NEGATIVE
<1>3. QED BY <1>1, <1>2

------------------------------------------------------------------------------
(* Each kind as an action of MeloMemory *)

\* What a request does with the outcome of its service.
LEMMA RequestStep ==
  ASSUME NEW op, Request(op), NEW success, NEW m, NEW d,
         service(request(op), recv_data') = [success |-> success, mem |-> m, data |-> d]
  PROVE  /\ asked' = op /\ mem' = m
         /\ send_packet'.command = with_status(request(op).command,
                                     IF success THEN POSITIVE ELSE NEGATIVE)
         /\ send_packet'.data = d
<1>1. PICK result : result = service(request(op), recv_data')
  OBVIOUS
<1>2. result.success = success /\ result.mem = m /\ result.data = d
  BY <1>1
<1>3. /\ asked' = op /\ mem' = result.mem
      /\ send_packet' = [command |-> with_status(request(op).command,
                                       IF result.success THEN POSITIVE ELSE NEGATIVE),
                         data    |-> result.data]
  BY <1>1 DEF Request, packet_handler
<1>4. QED BY <1>2, <1>3

\* A read of the service is a read of the memory.
LEMMA ReadRefines ==
  ASSUME IInv, PE = HE, NEW op \in Reads, Request(op)
  PROVE  IInv' /\ Memory!Read(op)
<1>1. recv_data' = unpacked(recv_data, request(op).data)
  BY DEF Request
<1> DEFINE d == [i \in 1 .. op.size |-> mem[op.address + i - 1]]
<1>2. /\ recv_data' \in [1 .. NUM_SERVICE_BYTES -> Byte]
      /\ service(request(op), recv_data') = [success |-> TRUE, mem |-> mem, data |-> d]
  BY <1>1, ReadServed DEF IInv
<1> HIDE DEF d
<1>3. /\ mem' = mem /\ send_packet'.data = d
      /\ send_packet'.command = with_status(request(op).command, POSITIVE)
  BY <1>2, RequestStep
<1>4. send_packet'.command \div 64 = POSITIVE
  BY <1>3, RequestStatus DEF Operations
<1>5. op.kind = "read"
  BY DEF Reads
<1>6. QED BY <1>2, <1>3, <1>4, <1>5 DEF IInv, Memory!Read, d

\* A complete write of the service is a write of the memory.
LEMMA WriteRefines ==
  ASSUME IInv, PE = HE, NEW op \in Writes, Request(op)
  PROVE  IInv' /\ Memory!Write(op)
<1>1. recv_data' = unpacked(recv_data, request(op).data)
  BY DEF Request
<1>2. /\ recv_data' \in [1 .. NUM_SERVICE_BYTES -> Byte]
      /\ service(request(op), recv_data') =
           [success |-> TRUE, mem |-> store(op.address, op.value), data |-> <<69>>]
  BY <1>1, WriteServed DEF IInv
<1>3. /\ mem' = store(op.address, op.value)
      /\ send_packet'.command = with_status(request(op).command, POSITIVE)
  BY <1>2, RequestStep
<1>4. send_packet'.command \div 64 = POSITIVE
  BY <1>3, RequestStatus DEF Operations
<1>5. /\ op.kind = "write" /\ op.address \in Cells /\ op.value \in Seq(Byte)
      /\ Len(op.value) \in {1, 2, 4} /\ op.address + Len(op.value) - 1 \in Cells
  BY MemoryAssumption DEF Writes
<1>6. store(op.address, op.value) \in [Cells -> Byte]
  <2>1. PICK size \in {1, 2, 4} : size = Len(op.value)
    BY <1>5
  <2>2. op.address + size - 1 \in Cells
    BY <1>5, <2>1
  <2>3. QED BY <1>5, <2>1, <2>2, Stored DEF Holds, IInv
<1>7. mem' = [cell \in Cells |-> IF cell \in op.address .. op.address + Len(op.value) - 1
                                 THEN native(op.value)[cell - op.address + 1] ELSE mem[cell]]
  BY <1>3 DEF store
<1>8. QED BY <1>2, <1>3, <1>4, <1>5, <1>6, <1>7 DEF IInv, Memory!Write

\* A write that is short of data puts what it has where it belongs, and changes no
\* other cell than those it names.
LEMMA ShortRefines ==
  ASSUME IInv, PE = HE, NEW op \in Shorts, Request(op)
  PROVE  IInv' /\ Memory!WriteShort(op)
<1>1. PICK whole \in Writes : \E n \in 0 .. Len(whole.value) - 1 :
        op = [kind |-> "short", address |-> whole.address, size |-> Len(whole.value),
              value |-> SubSeq(whole.value, 1, n)]
  BY DEF Shorts
<1>n. PICK n \in 0 .. Len(whole.value) - 1 :
        op = [kind |-> "short", address |-> whole.address, size |-> Len(whole.value),
              value |-> SubSeq(whole.value, 1, n)]
  BY <1>1
<1>2. /\ whole.value \in Seq(Byte) /\ Len(whole.value) \in {1, 2, 4}
      /\ whole.address \in Cells /\ whole.address + Len(whole.value) - 1 \in Cells
  BY MemoryAssumption DEF Writes
<1>3. /\ op.kind = "short" /\ op.address \in Cells /\ op.size \in {1, 2, 4}
      /\ op.address + op.size - 1 \in Cells
  BY <1>n, <1>2
<1>4. op.value \in Seq(Byte) /\ Len(op.value) = n /\ n \in Nat /\ n <= op.size
  <2>1. /\ n \in Int /\ n <= Len(whole.value)
        /\ \A i \in 1 .. n : whole.value[i] \in Byte
    BY <1>2, ElementOfSeq
  <2>2. SubSeq(whole.value, 1, n) \in Seq(Byte) /\ Len(SubSeq(whole.value, 1, n)) = n
    BY <2>1, SubSeqProperties
  <2>3. QED BY <1>n, <2>1, <2>2
<1>5. request(op).command = command(4 + SizeCode(op.size), 0, REQUEST)
  BY <1>3 DEF request
<1>s. PICK size \in {1, 2, 4} : size = op.size
  BY <1>3
<1>b. recv_data' \in [1 .. NUM_SERVICE_BYTES -> Byte] /\ StoresValue(op, size, recv_data')
  <2>1. recv_data' = unpacked(recv_data, request(op).data) /\ recv_data \in [1 .. NUM_SERVICE_BYTES -> Byte]
    BY DEF Request, IInv
  <2>2. /\ op.kind \in {"write", "short"} /\ op.address + size - 1 \in Cells
        /\ Len(op.value) <= size
        /\ request(op).command = command(4 + SizeCode(size), 0, REQUEST)
    BY <1>3, <1>4, <1>5, <1>s
  <2>3. QED BY <1>3, <1>4, <2>1, <2>2, WriteStored
<1>v. PICK v \in Seq(Byte) :
        /\ Len(v) = size /\ \A i \in 1 .. Len(op.value) : v[i] = op.value[i]
        /\ service(request(op), recv_data') =
             [success |-> TRUE, mem |-> store(op.address, v), data |-> <<69>>]
  BY <1>b DEF StoresValue
<1>6. /\ Len(v) = op.size /\ \A i \in 1 .. Len(op.value) : v[i] = op.value[i]
      /\ mem' = store(op.address, v)
      /\ recv_data' \in [1 .. NUM_SERVICE_BYTES -> Byte]
      /\ send_packet'.command \div 64 = POSITIVE
  <2>1. /\ mem' = store(op.address, v)
        /\ send_packet'.command = with_status(request(op).command, POSITIVE)
    BY <1>v, RequestStep
  <2>2. QED BY <1>b, <1>s, <1>v, <2>1, RequestStatus DEF Operations
<1>7. /\ mem' \in [Cells -> Byte]
      /\ \A i \in 1 .. op.size : mem'[op.address + i - 1] = native(v)[i]
      /\ \A cell \in Cells : mem'[cell] # mem[cell] =>
           \E i \in 1 .. op.size : cell = op.address + i - 1
  <2>1. PICK a \in Cells : a = op.address
    BY <1>3
  <2>2. a + size - 1 \in Cells /\ Len(v) = size
    BY <1>3, <1>s, <1>v, <2>1
  <2>3. Holds(store(a, v), a, v, size)
    BY <2>2, Stored DEF IInv
  <2>4. QED BY <1>s, <1>6, <2>1, <2>3 DEF Holds
<1> DEFINE place == [i \in 1 .. op.size |-> op.address + i - 1]
           found == [i \in 1 .. op.size |-> mem'[place[i]]]
<1>8. found = native(v)
  <2>1. native(v) \in Seq(Byte) /\ Len(native(v)) = op.size
    BY <1>6, NativeTwice
  <2>2. native(v) = [i \in 1 .. op.size |-> native(v)[i]]
    BY <2>1, LenProperties
  <2>3. \A i \in 1 .. op.size : mem'[place[i]] = native(v)[i]
    BY <1>7
  <2>4. QED BY <2>2, <2>3
<1>9. SubSeq(native(found), 1, Len(op.value)) = op.value
  <2>1. native(found) = v
    BY <1>8, NativeTwice
  <2>2. \A i \in 1 .. n : v[i] \in Byte /\ i \in 1 .. Len(op.value)
    BY <1>4, <1>6, ElementOfSeq
  <2>3. /\ SubSeq(v, 1, n) \in Seq(Byte) /\ Len(SubSeq(v, 1, n)) = n
        /\ \A i \in 1 .. n : SubSeq(v, 1, n)[i] = v[i]
    BY <1>4, <2>2, SubSeqProperties
  <2>4. \A i \in 1 .. n : SubSeq(v, 1, n)[i] = op.value[i]
    BY <1>4, <1>6, <2>2, <2>3
  <2>5. QED BY <1>4, <2>1, <2>3, <2>4, SeqEqual
<1>10. mem' \in [Cells -> Nat]
  <2>1. mem' \in [Cells -> Byte]
    BY <1>7
  <2>2. Byte \subseteq Nat
    BY DEF Byte
  <2>3. QED BY <2>1, <2>2
<1>11. \A cell \in Cells : mem'[cell] # mem[cell] => \E i \in 1 .. op.size : cell = place[i]
  BY <1>7
<1>12. Memory!WriteShort(op)
  BY <1>3, <1>6, <1>9, <1>10, <1>11 DEF Memory!WriteShort
<1>13. QED BY <1>6, <1>7, <1>12 DEF IInv

\* What the service refuses leaves the memory alone.
LEMMA OtherRefines ==
  ASSUME IInv, NEW op \in Others, Request(op)
  PROVE  IInv' /\ Memory!Refuse(op)
<1>1. recv_data' = unpacked(recv_data, request(op).data)
  BY DEF Request
<1>2. /\ recv_data' \in [1 .. NUM_SERVICE_BYTES -> Byte]
      /\ service(request(op), recv_data') =
           [success |-> FALSE, mem |-> mem, data |-> send_packet.data]
  BY <1>1, OtherServed DEF IInv
<1>3. mem' = mem /\ send_packet'.command = with_status(request(op).command, NEGATIVE)
  BY <1>2, RequestStep
<1>4. send_packet'.command \div 64 # POSITIVE
  BY <1>3, RequestStatus DEF Operations
<1>5. op.kind = "other"
  BY DEF Others
<1>6. QED BY <1>2, <1>3, <1>4, <1>5 DEF IInv, Memory!Refuse

------------------------------------------------------------------------------
(* The refinement *)

\* Every request is one of the four kinds.
LEMMA NextRefines ==
  ASSUME IInv, PE = HE, Next
  PROVE  IInv' /\ Memory!Next
<1>1. PICK op \in Operations : Request(op)
  BY DEF Next
<1>2. asked' = op
  BY <1>1 DEF Request
<1>3. IInv' /\ (Memory!Read(op) \/ Memory!Write(op) \/ Memory!WriteShort(op) \/ Memory!Refuse(op))
  BY <1>1, ReadRefines, WriteRefines, ShortRefines, OtherRefines DEF Operations
<1>4. QED BY <1>1, <1>2, <1>3 DEF Memory!Next

\* The slave's memory is what the README promises a master of the same byte order
\* (melo.c:333): whole values at their address, and no other cell is touched.
THEOREM ServiceImplementsMemory ==
  ASSUME PE = HE
  PROVE  Spec => MemorySpec
<1>1. Init => IInv /\ Memory!Init
  BY DEF Init, IInv, Memory!Init, Memory!Idle, NoPacket, POSITIVE, Byte, NUM_SERVICE_BYTES
<1>2. IInv /\ [Next]_vars => IInv' /\ [Memory!Next]_(Memory!vars)
  <2>1. CASE Next
    BY <2>1, NextRefines
  <2>2. CASE UNCHANGED vars
    BY <2>2 DEF vars, IInv, Memory!vars
  <2>3. QED BY <2>1, <2>2
<1>3. QED BY <1>1, <1>2, PTL DEF Spec, MemorySpec, Memory!Spec

------------------------------------------------------------------------------
(* Types, and the frames of the answers, whatever the byte orders *)

\* Command bytes in which bit 5, the mark of the control bytes, is clear.
Codes == {byte \in Byte : byte % 64 < 32}

\* What makes the answers fit and the announcement exact: no answer has more than
\* four bytes of data, and the pending response has its length, encoded, as its own.
AnswerInv ==
  /\ asked \in Operations \cup {[kind |-> "none"]}
  /\ IInv
  /\ send_packet \in [command : Codes, data : Seq(Byte)] /\ Len(send_packet.data) <= 4
  /\ wait_packet \in [command : Codes, data : Seq(Byte)]
  /\ wait_packet # NoPacket => wait_packet.data = <<announced(send_packet)>>

\* Bytes stay bytes, and stay as many, when their order is changed.
LEMMA EsafeTypes ==
  ASSUME NEW v \in Seq(Byte), NEW order
  PROVE  esafe(v, order) \in Seq(Byte) /\ Len(esafe(v, order)) = Len(v)
<1>1. Len(v) \in Nat /\ v \in [1 .. Len(v) -> Byte]
  OBVIOUS
<1>2. \A j \in 1 .. Len(v) : Len(v) - j + 1 \in 1 .. Len(v)
  BY <1>1
<1>3. Reverse(v) \in [1 .. Len(v) -> Byte]
  BY <1>1, <1>2 DEF Reverse
<1>4. Reverse(v) \in Seq(Byte) /\ Len(Reverse(v)) = Len(v)
  BY <1>1, <1>3
<1>5. QED BY <1>4 DEF esafe

\* Whatever address the four bytes name, in the memory or not, what a service does
\* there leaves bytes in the memory and at most four of them in its answer.
LEMMA ServiceTypes ==
  ASSUME mem \in [Cells -> Byte],
         send_packet.data \in Seq(Byte), Len(send_packet.data) <= 4,
         NEW buffer \in [1 .. NUM_SERVICE_BYTES -> Byte],
         NEW packet \in [byte_order : {0, 1}, command : Byte, data : Seq(Byte)]
  PROVE  /\ service(packet, buffer).success \in BOOLEAN
         /\ service(packet, buffer).mem \in [Cells -> Byte]
         /\ service(packet, buffer).data \in Seq(Byte)
         /\ Len(service(packet, buffer).data) <= 4
<1> DEFINE size    == data_size(subfunction_of(packet.command))
           write   == subfunction_of(packet.command) >= 4
           pointer == create_pointer(esafe(SubSeq(buffer, 1, 4), packet.byte_order))
           value   == esafe(SubSeq(buffer, 5, 4 + size), packet.byte_order)
           read    == [i \in 1 .. size |-> peek(pointer + i - 1)]
           outcome(s, m, d) == [success |-> s, mem |-> m, data |-> d]
           Good(result) == /\ result.success \in BOOLEAN /\ result.mem \in [Cells -> Byte]
                           /\ result.data \in Seq(Byte) /\ Len(result.data) <= 4
<1>1. mem \in [Cells -> Byte] /\ send_packet.data \in Seq(Byte) /\ Len(send_packet.data) <= 4
  OBVIOUS
<1>2. Good(outcome(FALSE, mem, send_packet.data))
  BY <1>1
<1>3. subfunction_of(packet.command) \in 0 .. 7
  <2>1. PICK b \in Byte : b = packet.command
    OBVIOUS
  <2>2. subfunction_of(b) \in 0 .. 7
    BY DEF subfunction_of, Byte
  <2>3. QED BY <2>1, <2>2
<1>4. size \in {1, 2, 4, 6}
  BY <1>3 DEF data_size
<1>5. pointer \in Nat
  <2>1. PICK a : a = SubSeq(buffer, 1, 4)
    OBVIOUS
  <2>2. \A i \in 1 .. 4 : buffer[i] \in Byte
    BY DEF NUM_SERVICE_BYTES
  <2>3. a \in Seq(Byte) /\ Len(a) = 4
    BY <2>1, <2>2, SubSeqProperties
  <2>4. PICK b : b = esafe(a, packet.byte_order)
    OBVIOUS
  <2>5. b \in Seq(Byte) /\ Len(b) = 4
    BY <2>3, <2>4, EsafeTypes
  <2>6. b[1] \in Byte /\ b[2] \in Byte
    <3>1. 1 \in 1 .. Len(b) /\ 2 \in 1 .. Len(b)
      BY <2>5
    <3>2. QED BY <2>5, <3>1, ElementOfSeq
  <2>7. create_pointer(b) \in Nat
    <3>1. PICK low \in Byte : low = b[1]
      BY <2>6
    <3>2. PICK high \in Byte : high = b[2]
      BY <2>6
    <3>3. low + 256 * high \in Nat
      BY DEF Byte
    <3>4. QED BY <3>1, <3>2, <3>3 DEF create_pointer
  <2>8. QED BY <2>1, <2>4, <2>7
<1>6. ASSUME size <= 4
      PROVE  value \in Seq(Byte) /\ Len(value) = size
  <2>1. PICK n \in {1, 2, 4} : n = size
    BY <1>4, <1>6
  <2>2. SubSeq(buffer, 5, 4 + size) = rest(buffer, n)
    BY <2>1 DEF rest
  <2>3. rest(buffer, n) \in Seq(Byte) /\ Len(rest(buffer, n)) = n
    BY RestOfBuffer
  <2>4. QED BY <2>1, <2>2, <2>3, EsafeTypes
<1> HIDE DEF pointer, value
<1>7. ASSUME size <= 4
      PROVE  Good(outcome(TRUE, store(pointer, value), <<69>>))
  <2>1. native(value) \in Seq(Byte) /\ Len(native(value)) = Len(value)
    BY <1>6, <1>7, NativeTwice
  <2>2. PICK n \in Nat : n = Len(value)
    BY <1>6, <1>7
  <2>3. \A cell \in Cells : cell \in Nat
    BY MemoryAssumption DEF Cells
  <2>4. ASSUME NEW cell \in Cells, cell \in pointer .. pointer + Len(value) - 1
        PROVE  native(value)[cell - pointer + 1] \in Byte
    <3>1. cell - pointer + 1 \in 1 .. n
      BY <1>5, <2>2, <2>3, <2>4
    <3>2. QED BY <2>1, <2>2, <3>1, ElementOfSeq
  <2>5. store(pointer, value) \in [Cells -> Byte]
    BY <1>1, <2>4 DEF store
  <2>6. <<69>> \in Seq(Byte) /\ Len(<<69>>) <= 4
    BY DEF Byte
  <2>7. QED BY <2>5, <2>6
<1>8. ASSUME size <= 4
      PROVE  Good(outcome(TRUE, mem, read))
  <2>1. PICK n \in {1, 2, 4} : n = size
    BY <1>4, <1>8
  <2>2. 0 \in Byte
    BY DEF Byte
  <2>3. \A i \in 1 .. n : peek(pointer + i - 1) \in Byte
    BY <1>1, <2>2 DEF peek
  <2>4. read \in Seq(Byte) /\ Len(read) = n
    <3>1. [i \in 1 .. n |-> peek(pointer + i - 1)] \in [1 .. n -> Byte]
      BY <2>3
    <3>2. \A f \in [1 .. n -> Byte] : f \in Seq(Byte) /\ Len(f) = n
      OBVIOUS
    <3>3. read = [i \in 1 .. n |-> peek(pointer + i - 1)]
      BY <2>1
    <3>4. QED BY <3>1, <3>2, <3>3
  <2>5. QED BY <1>1, <2>1, <2>4
<1>9. service(packet, buffer) \in {outcome(FALSE, mem, send_packet.data),
                                   outcome(TRUE, store(pointer, value), <<69>>),
                                   outcome(TRUE, mem, read)}
      /\ (size > 4 => service(packet, buffer) = outcome(FALSE, mem, send_packet.data))
  <2> DEFINE done == service_read_write(packet, buffer)
  <2>1. service(packet, buffer) \in {done, outcome(FALSE, mem, send_packet.data)}
    BY DEF service, service_NULL
  <2>2. PICK n \in {1, 2, 4, 6} : n = size
    BY <1>4
  <2>3. size > 4 <=> ~ (size <= 4)
    BY <2>2
  <2>4. CASE size > 4
    <3>1. done = outcome(FALSE, mem, send_packet.data)
      BY <2>3, <2>4 DEF service_read_write
    <3>2. QED BY <2>1, <3>1
  <2>5. CASE size <= 4 /\ write
    <3>1. done = outcome(TRUE, store(pointer, value), <<69>>)
      BY <2>3, <2>5 DEF service_read_write, pointer, value
    <3>2. QED BY <2>1, <2>3, <2>5, <3>1
  <2>6. CASE size <= 4 /\ ~ write
    <3>1. done = outcome(TRUE, mem, read)
      BY <2>3, <2>6 DEF service_read_write, pointer
    <3>2. QED BY <2>1, <2>3, <2>6, <3>1
  <2>7. QED BY <2>3, <2>4, <2>5, <2>6
<1> HIDE DEF outcome, read
<1>10. CASE size > 4
  BY <1>2, <1>9, <1>10
<1>11. CASE size <= 4
  BY <1>2, <1>7, <1>8, <1>9, <1>11
<1>12. size > 4 \/ size <= 4
  BY <1>4
<1>13. Good(service(packet, buffer))
  BY <1>10, <1>11, <1>12
<1>14. QED BY <1>13

\* A frame without a CRC adds four bytes to its data and at most doubles that.
LEMMA AnswerLength ==
  ASSUME NEW packet \in [command : Codes, data : Seq(Byte)],
         NEW size \in Nat, Len(packet.data) = size
  PROVE  \E n \in size + 4 .. 2 * size + 4 :
           n = Len(serialize_frame(packet.command, packet.data, PE, FALSE))
<1>1. packet.command \in Byte /\ packet.data \in Seq(Byte) /\ PE \in {0, 1}
  BY OrderAssumption DEF Codes
<1>2. ~ is_control(packet.command)
  <2>1. PICK b \in Byte : b = packet.command
    BY <1>1
  <2>2. b % 64 < 32
    BY <2>1 DEF Codes
  <2>3. ~ ((b \div 32) % 2 = 1)
    BY <2>2 DEF Byte
  <2>4. QED BY <2>1, <2>3, Bits
<1>3. PICK L : L = Len(content(packet.command, packet.data, FALSE))
  OBVIOUS
<1>4. PICK n : n = Len(serialize_frame(packet.command, packet.data, PE, FALSE))
  OBVIOUS
<1>5. n \in L + 2 .. 2 * L /\ L = size + 2 + 0
  BY <1>1, <1>2, <1>3, <1>4, FramesAreFrames
<1>6. n \in size + 4 .. 2 * size + 4
  BY <1>5
<1>7. QED BY <1>4, <1>6

\* The bytes of an answer: four and at most two for each of its up to four bytes.
LEMMA SendLength ==
  ASSUME NEW packet \in [command : Codes, data : Seq(Byte)], Len(packet.data) <= 4
  PROVE  \E n \in 4 .. 12 : n = Len(send_frame_bytes(packet))
<1>1. PICK size \in Nat : size = Len(packet.data)
  OBVIOUS
<1>2. PICK n \in size + 4 .. 2 * size + 4 :
        n = Len(serialize_frame(packet.command, packet.data, PE, FALSE))
  BY <1>1, AnswerLength
<1>3. size <= 4
  BY <1>1
<1>4. n \in 4 .. 12
  BY <1>3
<1>5. QED BY <1>2, <1>4 DEF send_frame_bytes

\* So short a length is its own encoding.
LEMMA ShortLength ==
  ASSUME NEW n \in 0 .. 31
  PROVE  create_r(n) = n /\ n \in Byte
  BY DEF create_r, Byte

\* A request keeps the invariant.
LEMMA RequestInv ==
  ASSUME AnswerInv, NEW op \in Operations, Request(op)
  PROVE  AnswerInv'
<1>1. PICK packet : packet = request(op)
  OBVIOUS
<1>2. packet \in [byte_order : {0, 1}, command : 0 .. 31, data : Seq(Byte)]
  BY <1>1, RequestTypes
<1>3. recv_data' \in [1 .. NUM_SERVICE_BYTES -> Byte]
  <2>1. recv_data' = unpacked(recv_data, packet.data) /\ packet.data \in Seq(Byte)
    BY <1>1, <1>2 DEF Request
  <2>2. \A i \in 1 .. NUM_SERVICE_BYTES : i <= Len(packet.data) => packet.data[i] \in Byte
    <3>1. Len(packet.data) \in Nat
      BY <2>1
    <3>2. QED BY <2>1, <3>1, ElementOfSeq DEF NUM_SERVICE_BYTES
  <2>3. recv_data \in [1 .. NUM_SERVICE_BYTES -> Byte]
    BY DEF AnswerInv, IInv
  <2>4. QED BY <2>1, <2>2, <2>3 DEF unpacked
<1>4. PICK result : result = service(packet, recv_data')
  OBVIOUS
<1>5. /\ result.success \in BOOLEAN /\ result.mem \in [Cells -> Byte]
      /\ result.data \in Seq(Byte) /\ Len(result.data) <= 4
  <2>1. packet \in [byte_order : {0, 1}, command : Byte, data : Seq(Byte)]
    BY <1>2 DEF Byte
  <2>2. /\ mem \in [Cells -> Byte]
        /\ send_packet.data \in Seq(Byte) /\ Len(send_packet.data) <= 4
    BY DEF AnswerInv, IInv
  <2>3. QED BY <1>3, <1>4, <2>1, <2>2, ServiceTypes
<1>6. PICK reply : reply = [command |-> with_status(packet.command,
                              IF result.success THEN POSITIVE ELSE NEGATIVE),
                            data    |-> result.data]
  OBVIOUS
<1>7. /\ mem' = result.mem /\ send_packet' = reply /\ asked' = op
      /\ wait_packet' = [command |-> with_status(packet.command, PENDING),
                         data    |-> <<announced(reply)>>]
  BY <1>1, <1>4, <1>6 DEF Request, packet_handler
<1>8. \A status \in 0 .. 3 : with_status(packet.command, status) \in Codes
  <2>1. PICK b \in 0 .. 31 : b = packet.command
    BY <1>2
  <2>2. \A status \in 0 .. 3 : with_status(b, status) \in Codes
    BY DEF with_status, Codes, Byte
  <2>3. QED BY <2>1, <2>2
<1>9. reply \in [command : Codes, data : Seq(Byte)] /\ Len(reply.data) <= 4
  BY <1>5, <1>6, <1>8 DEF POSITIVE, NEGATIVE
<1>10. announced(reply) \in Byte
  <2>1. PICK n \in 4 .. 12 : n = Len(send_frame_bytes(reply))
    BY <1>9, SendLength
  <2>2. n \in 0 .. 31
    OBVIOUS
  <2>3. QED BY <2>1, <2>2, ShortLength DEF announced
<1>11. wait_packet' \in [command : Codes, data : Seq(Byte)]
  BY <1>7, <1>8, <1>10 DEF PENDING
<1>12. wait_packet'.data = <<announced(send_packet')>>
  BY <1>7
<1>13. IInv'
  BY <1>3, <1>5, <1>7 DEF IInv
<1>14. QED BY <1>7, <1>9, <1>11, <1>12, <1>13 DEF AnswerInv, announced, send_frame_bytes

\* A request for a single byte is served whatever the byte orders are and whatever
\* address the slave takes from it, and is answered with a single byte.
LEMMA ByteServed ==
  ASSUME NEW op \in Reads \cup Writes,
         op.kind = "read" => op.size = 1, op.kind = "write" => Len(op.value) = 1,
         Request(op)
  PROVE  /\ Len(send_packet'.data) = 1 /\ send_packet'.command \div 64 = POSITIVE
         /\ wait_packet'.data = <<announced(send_packet')>>
<1>1. PICK packet : packet = request(op)
  OBVIOUS
<1>2. PICK subfunction \in {0, 4} : packet.command = command(subfunction, 0, REQUEST)
  <2>1. SizeCode(1) = 0 /\ 4 + SizeCode(1) = 4
    BY DEF SizeCode
  <2>2. CASE op \in Reads
    <3>1. op.kind = "read" /\ op.size = 1
      BY <2>2 DEF Reads
    <3>2. QED BY <1>1, <2>1, <3>1 DEF request
  <2>3. CASE op \in Writes
    <3>1. op.kind = "write" /\ Len(op.value) = 1
      BY <2>3 DEF Writes
    <3>2. QED BY <1>1, <2>1, <3>1 DEF request
  <2>4. QED BY <2>2, <2>3
<1>3. PICK byte : byte = packet.command
  OBVIOUS
<1>4. subfunction_of(byte) = subfunction /\ service_of(byte) = 0
      /\ with_status(byte, POSITIVE) \div 64 = POSITIVE
  BY <1>2, <1>3, Fields
<1>5. data_size(subfunction) = 1
  BY DEF data_size
<1>6. PICK result : result = service(packet, recv_data')
  OBVIOUS
<1>7. result = service_read_write(packet, recv_data')
  BY <1>3, <1>4, <1>6 DEF service
<1>8. result.success = TRUE /\ Len(result.data) = 1
  <2> DEFINE pointer == create_pointer(esafe(SubSeq(recv_data', 1, 4), packet.byte_order))
             value   == esafe(SubSeq(recv_data', 5, 4 + data_size(subfunction_of(byte))),
                              packet.byte_order)
  <2>1. 1 <= 4 /\ ~ (1 > 4) /\ (subfunction >= 4 <=> subfunction = 4)
    OBVIOUS
  <2>2. CASE subfunction = 4
    <3>1. result = [success |-> TRUE, mem |-> store(pointer, value), data |-> <<69>>]
      BY <1>3, <1>4, <1>5, <1>7, <2>1, <2>2 DEF service_read_write
    <3> HIDE DEF pointer, value
    <3>2. Len(<<69>>) = 1
      OBVIOUS
    <3>3. QED BY <3>1, <3>2
  <2>3. CASE subfunction # 4
    <3>1. result = [success |-> TRUE, mem |-> mem,
                    data |-> [i \in 1 .. data_size(subfunction_of(byte)) |-> peek(pointer + i - 1)]]
      BY <1>3, <1>4, <1>5, <1>7, <2>1, <2>3 DEF service_read_write
    <3> HIDE DEF pointer, value
    <3>2. PICK d : d = [i \in 1 .. 1 |-> peek(pointer + i - 1)]
      OBVIOUS
    <3>3. Len(d) = 1
      BY <3>2
    <3>4. result = [success |-> TRUE, mem |-> mem, data |-> d]
      BY <1>4, <1>5, <3>1, <3>2
    <3>5. QED BY <3>3, <3>4
  <2>4. QED BY <2>2, <2>3
<1>9. /\ send_packet' = [command |-> with_status(byte, IF result.success THEN POSITIVE
                                                                          ELSE NEGATIVE),
                         data    |-> result.data]
      /\ wait_packet'.data = <<announced(send_packet')>>
  BY <1>1, <1>3, <1>6 DEF Request, packet_handler
<1>10. QED BY <1>4, <1>8, <1>9

\* The invariant behind the theorems that follow.
THEOREM AnswerInvariant == Spec => []AnswerInv
<1>1. Init => AnswerInv
  BY DEF Init, AnswerInv, IInv, NoPacket, Codes, Byte, NUM_SERVICE_BYTES
<1>2. AnswerInv /\ [Next]_vars => AnswerInv'
  <2>1. CASE Next
    BY <2>1, RequestInv DEF Next
  <2>2. CASE UNCHANGED vars
    BY <2>2 DEF vars, AnswerInv, IInv, announced, send_frame_bytes
  <2>3. QED BY <2>1, <2>2
<1>3. QED BY <1>1, <1>2, PTL DEF Spec

\* The memory and the buffers hold bytes, whatever address a request names.
THEOREM TypeCorrect == Spec => []TypeOK
<1>1. AnswerInv => TypeOK
  BY DEF AnswerInv, IInv, TypeOK, Codes
<1>2. QED BY <1>1, AnswerInvariant, PTL

\* The pending response announces exactly the bytes of the final one (melo.c:697),
\* for every request and every content of the memory.
THEOREM AnnouncedLengthIsExactAlways == Spec => []AnnouncedLengthIsExact
<1>1. AnswerInv => AnnouncedLengthIsExact
  <2> SUFFICES ASSUME AnswerInv, wait_packet # NoPacket
               PROVE  wait_packet.data = <<Len(send_frame_bytes(send_packet))>>
    BY DEF AnnouncedLengthIsExact
  <2>1. PICK n \in 4 .. 12 : n = Len(send_frame_bytes(send_packet))
    BY SendLength DEF AnswerInv
  <2>2. n \in 0 .. 31
    OBVIOUS
  <2>3. QED BY <2>1, <2>2, ShortLength DEF AnswerInv, announced
<1>2. QED BY <1>1, AnswerInvariant, PTL

\* Neither answer outgrows its buffer (melo_priv.h:79, 80), however many of its bytes
\* are escaped and however small MELO_CFG_MAX_DATA_LENGTH is.
THEOREM FramesFitAlways == Spec => []FramesFit
<1>1. AnswerInv => FramesFit
  <2> SUFFICES ASSUME AnswerInv PROVE FramesFit
    OBVIOUS
  <2>1. PICK n \in 4 .. 12 : n = Len(send_frame_bytes(send_packet))
    BY SendLength DEF AnswerInv
  <2>2. n \in Nat /\ n <= 12
    OBVIOUS
  <2>3. n <= MELO_MAX_FRAME_SIZE
    BY <2>2, DataAssumption DEF MELO_MAX_FRAME_SIZE
  <2>4. ASSUME wait_packet # NoPacket
        PROVE  Len(wait_frame_bytes(wait_packet)) <= MELO_MAX_WAIT_FRAME_SIZE
    <3>1. Len(wait_packet.data) = 1 /\ 1 \in Nat
      <4>1. PICK byte : byte = announced(send_packet)
        OBVIOUS
      <4>2. wait_packet.data = <<byte>>
        BY <2>4, <4>1 DEF AnswerInv
      <4>3. QED BY <4>2
    <3>2. PICK m \in 1 + 4 .. 2 * 1 + 4 : m = Len(wait_frame_bytes(wait_packet))
      BY <3>1, AnswerLength DEF wait_frame_bytes, AnswerInv
    <3>3. m <= 2 + 3 + 1
      OBVIOUS
    <3>4. QED BY <3>2, <3>3 DEF MELO_MAX_WAIT_FRAME_SIZE
  <2>5. QED BY <2>1, <2>3, <2>4 DEF FramesFit
<1>2. QED BY <1>1, AnswerInvariant, PTL
================================================================================
