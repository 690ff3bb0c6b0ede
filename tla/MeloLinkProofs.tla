---------------------------- MODULE MeloLinkProofs ----------------------------
(***************************************************************************)
(* Proofs about MeloLink, for all payloads, any number of frames and any   *)
(* number of lost bytes.                                                   *)
(***************************************************************************)
EXTENDS MeloLink, MeloFrameProofs

\* The k-th byte of the frame F is the next to arrive.
OnWire(F, k) == /\ k \in 1 .. Len(F) + 1
                /\ wire \in Seq(Byte) /\ Len(wire) = Len(F) + 1 - k
                /\ \A i \in 1 .. Len(wire) : wire[i] = F[(k - 1) + i]

\* What the receiver is then: with no byte lost, each of its escapes is one of this
\* frame's, or has been shifted as often as bytes of data have arrived; and when it
\* was clean before the frame, it has buffered the data that have come.
Reading(F, data_in, crc_present, e, c, k) ==
  /\ k <= Len(F) => /\ ~ received
                    /\ whole => \/ rx.escape_buffer = e[k]
                                \/ rx.escape_buffer < Left(c[k])
                    /\ whole /\ clean => rx.escape_buffer = e[k]
  /\ k \in 2 .. Len(F) /\ whole /\ clean =>
       Buffered(rx, data_in, ByteOrder, crc_present, c[k])
  /\ k = Len(F) + 1 => /\ whole => \/ rx.escape_buffer = 0
                                   \/ rx.escape_buffer < Left(Len(data_in))
                       /\ whole /\ clean => /\ rx.escape_buffer = 0
                                            /\ received /\ rx.packet = sent

\* The frame F carries the packet in sent, and its k-th byte is next.
Carrying(crc_present, F, e, c, k) ==
  LET data_in == content(Command, sent.data, crc_present) IN
  /\ IsFrame(F, data_in, ByteOrder, crc_present, e, c)
  /\ OnWire(F, k)
  /\ Reading(F, data_in, crc_present, e, c, k)

\* A frame with the packet in sent is under way or has arrived.
Underway == \E crc_present \in BOOLEAN : \E F, e, c, k : Carrying(crc_present, F, e, c, k)

LinkInv ==
  /\ rx \in Receivers
  /\ received \in BOOLEAN /\ whole \in BOOLEAN /\ clean \in BOOLEAN
  /\ frames \in 0 .. MaxFrames /\ lost \in 0 .. MaxLoss
  /\ frames = 0 => wire = <<>> /\ ~ received /\ rx.escape_buffer = 0
  /\ frames > 0 => /\ sent \in [command : {Command}, data : Payloads]
                   /\ Underway

------------------------------------------------------------------------------
\* The line is idle and nothing has been sent.
LEMMA InitInv == Init => LinkInv
<1> SUFFICES ASSUME Init PROVE LinkInv
  OBVIOUS
<1>1. MaxFrames \in Nat /\ MaxLoss \in Nat
  BY LimitAssumption
<1>2. rx \in Receivers /\ rx.escape_buffer = 0
  BY InitType DEF Init, receiver_init
<1>3. frames = 0 /\ lost = 0 /\ wire = <<>> /\ ~ received
  BY DEF Init
<1>4. received \in BOOLEAN /\ whole \in BOOLEAN /\ clean \in BOOLEAN
  BY DEF Init
<1>5. frames \in 0 .. MaxFrames /\ lost \in 0 .. MaxLoss /\ ~ frames > 0
  BY <1>1, <1>3
<1>6. QED BY <1>2, <1>3, <1>4, <1>5 DEF LinkInv

\* A new frame: its first byte is next, and the escapes that are left over from
\* before are the receiver's.
LEMMA SendInv ==
  ASSUME LinkInv, NEW data \in Payloads, NEW crc_present \in BOOLEAN, Send(data, crc_present)
  PROVE  LinkInv'
<1>1. data \in Seq(Byte) /\ Len(data) <= 127
  BY PayloadAssumption
<1>2. Command \in Byte /\ ~ is_control(Command) /\ ByteOrder \in {0, 1}
  BY CommandAssumption, LimitAssumption
<1>3. PICK F : F = serialize_frame(Command, data, ByteOrder, crc_present)
  OBVIOUS
<1>4. PICK data_in : data_in = content(Command, data, crc_present)
  OBVIOUS
<1>5. PICK e, c : IsFrame(F, data_in, ByteOrder, crc_present, e, c)
  BY <1>1, <1>2, <1>3, <1>4, FramesAreFrames
<1>6. /\ wire' = F /\ sent' = [command |-> Command, data |-> data]
      /\ frames' = frames + 1 /\ frames < MaxFrames
      /\ received' = FALSE /\ whole' = TRUE /\ clean' = (rx.escape_buffer = 0)
      /\ rx' = rx /\ lost' = lost
  BY <1>3 DEF Send
<1>7. /\ F \in Seq(Byte) /\ Len(F) >= 4 /\ e[1] = 0 /\ c[1] = 0
  BY <1>5 DEF IsFrame
<1>8. OnWire(F, 1)'
  <2>1. PICK n \in Nat : n = Len(F)
    BY <1>7
  <2>2. 1 \in 1 .. n + 1 /\ n = n + 1 - 1
    OBVIOUS
  <2>3. ASSUME NEW i \in 1 .. n PROVE F[i] = F[(1 - 1) + i]
    OBVIOUS
  <2>4. QED BY <1>6, <1>7, <2>1, <2>2, <2>3 DEF OnWire
<1>9. Reading(F, data_in, crc_present, e, c, 1)'
  <2>1. ~ (1 \in 2 .. Len(F)) /\ 1 # Len(F) + 1
    BY <1>7
  <2>2. rx.escape_buffer \in 0 .. 31 /\ Left(0) = 32
    BY DEF LinkInv, Receivers, Left
  <2>3. rx.escape_buffer < Left(0)
    BY <2>2
  <2>4. QED BY <1>6, <1>7, <2>1, <2>3 DEF Reading
<1>10. Underway'
  <2>1. data_in = content(Command, sent'.data, crc_present)
    BY <1>4, <1>6
  <2>2. QED BY <1>5, <1>8, <1>9, <2>1 DEF Underway, Carrying
<1>11. frames' \in 1 .. MaxFrames
  BY <1>6, LimitAssumption DEF LinkInv
<1>12. sent' \in [command : {Command}, data : Payloads]
  BY <1>6
<1>13. received' \in BOOLEAN /\ whole' \in BOOLEAN /\ clean' \in BOOLEAN
  BY <1>6
<1>14. rx' \in Receivers /\ lost' \in 0 .. MaxLoss
  BY <1>6 DEF LinkInv
<1>15. QED BY <1>10, <1>11, <1>12, <1>13, <1>14 DEF LinkInv

\* The next byte of a frame leaves the wire.
LEMMA WireAdvances ==
  ASSUME NEW F, F \in Seq(Byte), NEW k, OnWire(F, k), wire # <<>>, wire' = Tail(wire)
  PROVE  /\ k \in 1 .. Len(F) /\ Head(wire) = F[k] /\ Head(wire) \in Byte
         /\ OnWire(F, k + 1)'
<1>1. PICK n \in Nat : n = Len(F)
  OBVIOUS
<1>2. PICK w \in Nat : w = Len(wire)
  <2>1. wire \in Seq(Byte)
    BY DEF OnWire
  <2>2. QED BY <2>1
<1>3. /\ k \in 1 .. n + 1 /\ w = n + 1 - k /\ wire \in Seq(Byte)
      /\ \A i \in 1 .. w : wire[i] = F[(k - 1) + i]
  BY <1>1, <1>2 DEF OnWire
<1>4. w # 0
  BY <1>2, <1>3, EmptySeq
<1>5. k \in 1 .. n /\ w >= 1
  BY <1>3, <1>4
<1>6. Head(wire) = F[k] /\ Head(wire) \in Byte
  <2>1. 1 \in 1 .. w /\ (k - 1) + 1 = k
    BY <1>5
  <2>2. Head(wire) = wire[1]
    BY <1>3
  <2>3. wire[1] = F[k]
    BY <1>3, <2>1
  <2>4. wire[1] \in Byte
    BY <1>2, <1>3, <2>1
  <2>5. QED BY <2>2, <2>3, <2>4
<1>7. PICK rest : rest = wire'
  OBVIOUS
<1>8. /\ rest \in Seq(Byte) /\ Len(rest) = w - 1
      /\ \A i \in 1 .. w - 1 : rest[i] = wire[i + 1]
  <2>1. rest = Tail(wire)
    BY <1>7
  <2>2. QED BY <1>2, <1>3, <2>1, HeadTailProperties
<1>9. ASSUME NEW i \in 1 .. w - 1 PROVE rest[i] = F[((k + 1) - 1) + i]
  <2>1. i + 1 \in 1 .. w /\ (k - 1) + (i + 1) = ((k + 1) - 1) + i
    BY <1>5
  <2>2. QED BY <1>3, <1>8, <2>1
<1>10. k + 1 \in 1 .. n + 1 /\ w - 1 = n + 1 - (k + 1)
  BY <1>3, <1>5
<1>11. OnWire(F, k + 1)'
  BY <1>1, <1>7, <1>8, <1>9, <1>10 DEF OnWire
<1>12. QED BY <1>1, <1>5, <1>6, <1>11

\* A byte is lost: the frame it belonged to is not whole any more.
LEMMA LoseInv == LinkInv /\ LoseByte => LinkInv'
<1> SUFFICES ASSUME LinkInv, LoseByte PROVE LinkInv'
  OBVIOUS
<1>1. /\ wire # <<>> /\ wire' = Tail(wire) /\ lost < MaxLoss /\ lost' = lost + 1
      /\ whole' = FALSE
      /\ rx' = rx /\ received' = received /\ sent' = sent /\ frames' = frames /\ clean' = clean
  BY DEF LoseByte
<1>2. frames > 0 /\ frames \in 0 .. MaxFrames
  BY <1>1, LimitAssumption DEF LinkInv
<1>3a. PICK crc_present \in BOOLEAN : \E F, e, c, k : Carrying(crc_present, F, e, c, k)
  BY <1>2 DEF LinkInv, Underway
<1>3. PICK F, e, c, k :
        LET data_in == content(Command, sent.data, crc_present) IN
        /\ IsFrame(F, data_in, ByteOrder, crc_present, e, c)
        /\ OnWire(F, k)
        /\ Reading(F, data_in, crc_present, e, c, k)
  BY <1>3a DEF Carrying
<1>4. PICK data_in : data_in = content(Command, sent.data, crc_present)
  OBVIOUS
<1>5. F \in Seq(Byte)
  BY <1>3 DEF IsFrame
<1>6. k \in 1 .. Len(F) /\ OnWire(F, k + 1)'
  BY <1>1, <1>3, <1>5, WireAdvances
<1>7. Reading(F, data_in, crc_present, e, c, k + 1)'
  <2>1. ~ received
    BY <1>3, <1>6 DEF Reading
  <2>2. QED BY <1>1, <2>1 DEF Reading
<1>8. Underway'
  BY <1>1, <1>3, <1>4, <1>6, <1>7 DEF Underway, Carrying
<1>9. lost' \in 0 .. MaxLoss
  BY <1>1, LimitAssumption DEF LinkInv
<1>10. QED BY <1>1, <1>2, <1>8, <1>9 DEF LinkInv

\* The receiver reads the next byte of a frame, or what is left of one.
LEMMA ReceiveInv == LinkInv /\ ReceiveByte => LinkInv'
<1> SUFFICES ASSUME LinkInv, ReceiveByte PROVE LinkInv'
  OBVIOUS
<1>0. PICK rx2 : rx2 = rx'
  OBVIOUS
<1>1. /\ wire # <<>> /\ wire' = Tail(wire) /\ rx2 = rx_byte(rx, Head(wire))
      /\ received' = (received \/ rx_notifies(rx, Head(wire)))
      /\ sent' = sent /\ frames' = frames /\ lost' = lost /\ whole' = whole /\ clean' = clean
  BY <1>0 DEF ReceiveByte
<1>2. frames > 0 /\ frames \in 0 .. MaxFrames /\ rx \in Receivers
  BY <1>1, LimitAssumption DEF LinkInv
<1>3a. PICK crc_present \in BOOLEAN : \E F, e, c, k : Carrying(crc_present, F, e, c, k)
  BY <1>2 DEF LinkInv, Underway
<1>3. PICK F, e, c, k :
        LET data_in == content(Command, sent.data, crc_present) IN
        /\ IsFrame(F, data_in, ByteOrder, crc_present, e, c)
        /\ OnWire(F, k)
        /\ Reading(F, data_in, crc_present, e, c, k)
  BY <1>3a DEF Carrying
<1>4. PICK data_in : data_in = content(Command, sent.data, crc_present)
  OBVIOUS
<1>5. /\ IsFrame(F, data_in, ByteOrder, crc_present, e, c)
      /\ Reading(F, data_in, crc_present, e, c, k)
  BY <1>3, <1>4
<1>6. PICK n \in Nat : n = Len(F)
  BY <1>5 DEF IsFrame
<1>7. /\ F \in Seq(Byte) /\ n >= 4 /\ e[1] = 0 /\ c[1] = 0 /\ e[2] = 0 /\ c[2] = 0
      /\ e[n] = 0 /\ c[n] = Len(data_in)
  BY <1>5, <1>6 DEF IsFrame
<1>8. k \in 1 .. n /\ Head(wire) = F[k] /\ Head(wire) \in Byte /\ OnWire(F, k + 1)'
  BY <1>1, <1>3, <1>6, <1>7, WireAdvances
<1>9. ~ received /\ rx2 = rx_byte(rx, F[k]) /\ (received' <=> rx_notifies(rx, F[k]))
  <2>1. ~ received
    BY <1>5, <1>6, <1>8 DEF Reading
  <2>2. QED BY <1>1, <1>8, <2>1, Zenon
<1>10. rx2 \in Receivers
  BY <1>2, <1>8, <1>9, RxType
<1>11. ByteOrder \in {0, 1} /\ Command \in Byte
  BY LimitAssumption, CommandAssumption
<1>12. Reading(F, data_in, crc_present, e, c, k + 1)'
  <2>1. CASE k = 1
    <3>1. /\ ~ rx_notifies(rx, F[1]) /\ rx2.escape_buffer = rx.escape_buffer
          /\ Buffered(rx2, data_in, ByteOrder, crc_present, 0)
      BY <1>2, <1>5, <1>9, <1>11, <2>1, FrameHead
    <3>2. /\ whole => rx.escape_buffer = 0 \/ rx.escape_buffer < Left(0)
          /\ whole /\ clean => rx.escape_buffer = 0
      BY <1>5, <1>6, <1>7, <1>8, <2>1 DEF Reading
    <3>3. k + 1 = 2 /\ 2 <= n /\ 2 # n + 1
      BY <1>7, <2>1
    <3>4. QED BY <1>0, <1>1, <1>6, <1>7, <1>9, <2>1, <3>1, <3>2, <3>3 DEF Reading
  <2>2. CASE k \in 2 .. n - 1
    <3>1. k \in 2 .. Len(F) - 1 /\ k <= n /\ k \in 2 .. n
      BY <1>6, <2>2
    <3>1a. ~ rx_notifies(rx, F[k]) /\ Follows(rx, rx2, data_in, ByteOrder, crc_present, e, c, k)
      BY <1>2, <1>5, <1>9, <1>11, <3>1, FrameByte
    <3>2. /\ ~ rx_notifies(rx, F[k])
          /\ rx.escape_buffer = e[k] => rx2.escape_buffer = e[k + 1]
          /\ rx.escape_buffer < Left(c[k]) =>
               rx2.escape_buffer = e[k + 1] \/ rx2.escape_buffer < Left(c[k + 1])
          /\ rx.escape_buffer = e[k] /\ Buffered(rx, data_in, ByteOrder, crc_present, c[k]) =>
               Buffered(rx2, data_in, ByteOrder, crc_present, c[k + 1])
      BY <3>1a DEF Follows
    <3>3. /\ whole => rx.escape_buffer = e[k] \/ rx.escape_buffer < Left(c[k])
          /\ whole /\ clean => rx.escape_buffer = e[k]
          /\ whole /\ clean => Buffered(rx, data_in, ByteOrder, crc_present, c[k])
      BY <1>5, <1>6, <3>1 DEF Reading
    <3>4. k + 1 <= n /\ k + 1 # n + 1
      BY <2>2
    <3>5. ~ received'
      BY <1>9, <3>2
    <3>6. QED BY <1>0, <1>1, <1>6, <3>2, <3>3, <3>4, <3>5 DEF Reading
  <2>3. CASE k = n
    <3>1. /\ whole => rx.escape_buffer = 0 \/ rx.escape_buffer < Left(Len(data_in))
          /\ whole /\ clean => rx.escape_buffer = 0
          /\ whole /\ clean => Buffered(rx, data_in, ByteOrder, crc_present, Len(data_in))
      <4>1. n <= n /\ n \in 2 .. n
        BY <1>7
      <4>2. QED BY <1>5, <1>6, <1>7, <2>3, <4>1 DEF Reading
    <3>2. sent.data \in Seq(Byte) /\ Len(sent.data) <= 127 /\ sent.data \in Payloads
          /\ sent = [command |-> Command, data |-> sent.data]
      BY <1>2, PayloadAssumption DEF LinkInv
    <3>3. /\ rx2.escape_buffer = rx.escape_buffer
          /\ Buffered(rx, data_in, ByteOrder, crc_present, Len(data_in)) =>
               /\ rx_notifies(rx, F[Len(F)])
               /\ rx2.packet = [command |-> Command, data |-> sent.data]
      BY <1>2, <1>4, <1>5, <1>6, <1>9, <1>11, <2>3, <3>2, FrameTail
    <3>4. ~ (k + 1 <= n) /\ ~ (k + 1 \in 2 .. n)
      BY <2>3
    <3>5. whole /\ clean => received' /\ rx2.packet = sent
      BY <1>6, <1>9, <2>3, <3>1, <3>2, <3>3
    <3>6. QED BY <1>0, <1>1, <1>6, <3>1, <3>3, <3>4, <3>5 DEF Reading
  <2>4. QED BY <1>8, <2>1, <2>2, <2>3
<1>13. Underway'
  BY <1>1, <1>4, <1>5, <1>8, <1>12 DEF Underway, Carrying
<1>14. received' \in BOOLEAN
  BY <1>1 DEF LinkInv
<1>15. sent' \in [command : {Command}, data : Payloads] /\ frames' > 0 /\ frames' \in 0 .. MaxFrames
  BY <1>1, <1>2 DEF LinkInv
<1>16. whole' \in BOOLEAN /\ clean' \in BOOLEAN /\ lost' \in 0 .. MaxLoss
  BY <1>1 DEF LinkInv
<1>17. QED BY <1>0, <1>10, <1>13, <1>14, <1>15, <1>16 DEF LinkInv

\* Nothing happens.
LEMMA StutterInv == LinkInv /\ UNCHANGED vars => LinkInv'
<1> SUFFICES ASSUME LinkInv, UNCHANGED vars PROVE LinkInv'
  OBVIOUS
<1>1. /\ wire' = wire /\ rx' = rx /\ received' = received /\ sent' = sent /\ frames' = frames
      /\ lost' = lost /\ whole' = whole /\ clean' = clean
  BY DEF vars
<1>2. ASSUME Underway PROVE Underway'
  <2>1a. PICK crc_present \in BOOLEAN : \E F, e, c, k : Carrying(crc_present, F, e, c, k)
    BY <1>2 DEF Underway
  <2>1. PICK F, e, c, k :
          LET data_in == content(Command, sent.data, crc_present) IN
          /\ IsFrame(F, data_in, ByteOrder, crc_present, e, c)
          /\ OnWire(F, k)
          /\ Reading(F, data_in, crc_present, e, c, k)
    BY <2>1a DEF Carrying
  <2>2. PICK data_in : data_in = content(Command, sent.data, crc_present)
    OBVIOUS
  <2>3. OnWire(F, k)'
    BY <1>1, <2>1 DEF OnWire
  <2>4. Reading(F, data_in, crc_present, e, c, k)'
    BY <1>1, <2>1, <2>2 DEF Reading
  <2>5. QED BY <1>1, <2>1, <2>2, <2>3, <2>4 DEF Underway, Carrying
<1>3. QED BY <1>1, <1>2 DEF LinkInv

\* The invariant behind the theorems that follow.
THEOREM LinkInvariant == Spec => []LinkInv
<1>1. Init => LinkInv
  BY InitInv
<1>2. LinkInv /\ [Next]_vars => LinkInv'
  BY SendInv, ReceiveInv, LoseInv, StutterInv DEF Next
<1>3. QED BY <1>1, <1>2, PTL DEF Spec

\* Whatever is sent and whatever is lost, the receiver keeps its types: what a data
\* byte adds is a byte again, with or without the escape bit (melo.c:546).
THEOREM TypeCorrect == Spec => []TypeOK
<1>1. LinkInv => TypeOK
  <2> SUFFICES ASSUME LinkInv PROVE TypeOK
    OBVIOUS
  <2>1. wire \in Seq(Byte)
    <3>1. CASE frames = 0
      BY <3>1 DEF LinkInv
    <3>2. CASE frames > 0
      BY <3>2 DEF LinkInv, Underway, Carrying, OnWire
    <3>3. QED BY <3>1, <3>2, LimitAssumption DEF LinkInv
  <2>2. QED BY <2>1 DEF LinkInv, Receivers, TypeOK
<1>2. QED BY <1>1, LinkInvariant, PTL

\* The end of a frame.
LEMMA AtEnd ==
  ASSUME LinkInv, wire = <<>>, frames > 0
  PROVE  /\ whole /\ clean => received /\ rx.packet = sent
         /\ whole /\ (clean \/ Len(sent.data) >= 3) => rx.escape_buffer = 0
<1>1a. PICK crc_present \in BOOLEAN : \E F, e, c, k : Carrying(crc_present, F, e, c, k)
  BY DEF LinkInv, Underway
<1>1. PICK F, e, c, k :
        LET data_in == content(Command, sent.data, crc_present) IN
        /\ IsFrame(F, data_in, ByteOrder, crc_present, e, c)
        /\ OnWire(F, k)
        /\ Reading(F, data_in, crc_present, e, c, k)
  BY <1>1a DEF Carrying
<1>2. PICK data_in : data_in = content(Command, sent.data, crc_present)
  OBVIOUS
<1>3. IsFrame(F, data_in, ByteOrder, crc_present, e, c) /\ Reading(F, data_in, crc_present, e, c, k)
  BY <1>1, <1>2
<1>4. k = Len(F) + 1
  <2>1. PICK n \in Nat : n = Len(F)
    BY <1>3 DEF IsFrame
  <2>2. k \in 1 .. n + 1 /\ 0 = n + 1 - k
    BY <1>1, <2>1 DEF OnWire
  <2>3. QED BY <2>1, <2>2
<1>5. /\ whole => rx.escape_buffer = 0 \/ rx.escape_buffer < Left(Len(data_in))
      /\ whole /\ clean => rx.escape_buffer = 0 /\ received /\ rx.packet = sent
  BY <1>3, <1>4 DEF Reading
<1>6. ASSUME Len(sent.data) >= 3 PROVE Left(Len(data_in)) = 1
  <2>1. Len(data_in) = Len(sent.data) + 2 + (IF crc_present THEN 1 ELSE 0)
    <3>1. sent.data \in Seq(Byte)
      BY PayloadAssumption DEF LinkInv
    <3>2. QED BY <1>2, <3>1, CommandAssumption, LimitAssumption, FramesAreFrames
  <2>2. Len(sent.data) \in Nat
    BY PayloadAssumption DEF LinkInv
  <2>3. Len(data_in) \in Nat /\ Len(data_in) > 4
    <3>1. CASE crc_present
      BY <1>6, <2>1, <2>2, <3>1
    <3>2. CASE ~ crc_present
      BY <1>6, <2>1, <2>2, <3>2
    <3>3. QED BY <3>1, <3>2
  <2>4. QED BY <2>3 DEF Left
<1>7. rx.escape_buffer \in 0 .. 31
  BY DEF LinkInv, Receivers
<1>8. ASSUME whole, Len(sent.data) >= 3 PROVE rx.escape_buffer = 0
  <2>1. rx.escape_buffer = 0 \/ rx.escape_buffer < 1
    BY <1>5, <1>6, <1>8, Zenon
  <2>2. \A x \in 0 .. 31 : x < 1 => x = 0
    OBVIOUS
  <2>3. QED BY <1>7, <2>1, <2>2
<1>9. QED BY <1>5, <1>8, Zenon

\* A whole frame is delivered as it was sent, with and without a CRC, when the
\* escape buffer is clean: for data of every length the slave can say (melo.c:268,
\* 588).
THEOREM WholeFrameDeliveredAlways == Spec => []WholeFrameDelivered
<1>1. LinkInv => WholeFrameDelivered
  BY AtEnd DEF WholeFrameDelivered, Arrived
<1>2. QED BY <1>1, LinkInvariant, PTL

\* Only the last byte of a frame announces a packet, however many bytes are lost
\* (melo.c:608): escaping leaves no byte of the data that could be taken for a TAIL.
THEOREM OnlyTailsAnnounceAlways == Spec => []OnlyTailsAnnounce
<1>1. LinkInv => OnlyTailsAnnounce
  <2> SUFFICES ASSUME LinkInv, received PROVE wire = <<>>
    BY DEF OnlyTailsAnnounce
  <2>1. frames > 0
    BY LimitAssumption DEF LinkInv
  <2>2a. PICK crc_present \in BOOLEAN : \E F, e, c, k : Carrying(crc_present, F, e, c, k)
    BY <2>1 DEF LinkInv, Underway
  <2>2. PICK F, e, c, k :
          LET data_in == content(Command, sent.data, crc_present) IN
          /\ IsFrame(F, data_in, ByteOrder, crc_present, e, c)
          /\ OnWire(F, k)
          /\ Reading(F, data_in, crc_present, e, c, k)
    BY <2>2a DEF Carrying
  <2>3. PICK n \in Nat : n = Len(F)
    BY <2>2 DEF IsFrame
  <2>4. ~ (k <= n) /\ k \in 1 .. n + 1
    BY <2>2, <2>3 DEF Reading, OnWire
  <2>5. wire \in Seq(Byte) /\ Len(wire) = n + 1 - k
    BY <2>2, <2>3 DEF OnWire
  <2>6. Len(wire) = 0
    BY <2>4, <2>5
  <2>7. QED BY <2>5, <2>6, EmptySeq
<1>2. QED BY <1>1, LinkInvariant, PTL

\* A whole frame of three bytes of data or more leaves no escapes over, whatever a
\* broken one has left there before (melo.c:546).
THEOREM WholeFrameCleansAlways == Spec => []WholeFrameCleans
<1>1. LinkInv => WholeFrameCleans
  <2>1. ASSUME LinkInv, frames = 0 PROVE rx.escape_buffer = 0
    BY <2>1 DEF LinkInv
  <2>2. LinkInv => frames = 0 \/ frames > 0
    BY LimitAssumption DEF LinkInv
  <2>3. QED BY <2>1, <2>2, AtEnd DEF WholeFrameCleans, Arrived
<1>2. QED BY <1>1, LinkInvariant, PTL
================================================================================
