-------------------------------- MODULE MeloLink --------------------------------
(***************************************************************************)
(* A sender that puts frames on a serial line one after the other, a line  *)
(* that may lose bytes, and the receiving half of melo.c at its end.       *)
(***************************************************************************)
EXTENDS MeloFrame

CONSTANTS Payloads,     \* the data of the packets that are sent
          Command,      \* their command byte
          ByteOrder,    \* the sender's byte order: 0 little, 1 big endian
          MaxFrames,    \* how many frames are sent
          MaxLoss       \* how many bytes the line loses in all

ASSUME CommandAssumption == Command \in Byte /\ ~ is_control(Command)
\* When bytes are lost, a data byte can come to stand where the length is read.
\* A length above MAX_DATA would make the code copy past its buffers (melo.c:524),
\* with no outcome to speak of: such data is left out.
ASSUME PayloadAssumption ==
  \A data \in Payloads : /\ data \in Seq(Byte) /\ Len(data) <= 127  \* see create_r
                         /\ \A i \in 1 .. Len(data) : restore_r(data[i]) <= MAX_DATA
ASSUME LimitAssumption == MaxFrames \in Nat /\ MaxLoss \in Nat /\ ByteOrder \in {0, 1}

VARIABLES
  wire,      \* the bytes of the current frame that are still to arrive
  rx,        \* recv_frame
  received,  \* REQUEST_RECEIVED has been notified since the current frame began
  sent,      \* the packet in the current frame
  frames,    \* frames begun
  lost,      \* bytes lost in all
  whole,     \* no byte of the current frame was lost
  clean      \* escape_buffer was zero when the current frame began

vars == <<wire, rx, received, sent, frames, lost, whole, clean>>

Init == /\ wire = <<>>
        /\ rx = receiver_init
        /\ received = FALSE
        /\ sent = NoPacket
        /\ frames = 0
        /\ lost = 0
        /\ whole = TRUE /\ clean = TRUE

\* The sender serialises a packet and writes the frame to the line.
Send(data, crc_present) ==
  /\ wire = <<>>
  /\ frames < MaxFrames
  /\ wire' = serialize_frame(Command, data, ByteOrder, crc_present)
  /\ sent' = [command |-> Command, data |-> data]
  /\ frames' = frames + 1
  /\ received' = FALSE
  /\ whole' = TRUE
  /\ clean' = (rx.escape_buffer = 0)
  /\ UNCHANGED <<rx, lost>>

\* MeloReceiveByte with the next byte that arrives.
ReceiveByte ==
  /\ wire # <<>>
  /\ wire' = Tail(wire)
  /\ rx' = rx_byte(rx, Head(wire))
  /\ received' = (received \/ rx_notifies(rx, Head(wire)))
  /\ UNCHANGED <<sent, frames, lost, whole, clean>>

LoseByte ==
  /\ wire # <<>>
  /\ lost < MaxLoss
  /\ wire' = Tail(wire)
  /\ lost' = lost + 1
  /\ whole' = FALSE
  /\ UNCHANGED <<rx, received, sent, frames, clean>>

Next == \/ \E data \in Payloads, crc_present \in BOOLEAN : Send(data, crc_present)
        \/ ReceiveByte \/ LoseByte

Spec == Init /\ [][Next]_vars

------------------------------------------------------------------------------
TypeOK ==
  /\ wire \in Seq(Byte)
  /\ rx.buffer \in Seq(Byte) /\ rx.escape_buffer \in 0 .. 31
  /\ rx.crc_present \in BOOLEAN /\ rx.byte_order \in {0, 1}
  /\ rx.packet.command \in Byte /\ rx.packet.data \in Seq(Byte)
  /\ received \in BOOLEAN /\ whole \in BOOLEAN /\ clean \in BOOLEAN
  /\ frames \in 0 .. MaxFrames /\ lost \in 0 .. MaxLoss

Arrived == wire = <<>> /\ whole

\* A frame that arrives whole at a receiver with no escape left over delivers
\* the packet that was sent, whatever the line did to the frames before it.
WholeFrameDelivered ==
  Arrived /\ clean /\ frames > 0 => received /\ rx.packet = sent

\* No data byte passes for a HEAD, a TAIL or an ESCAPE: however many bytes are
\* lost, a packet is announced only by the last byte of a frame (melo.c:608).
OnlyTailsAnnounce == received => wire = <<>>

\* One whole frame with at least three data bytes uses up every escape that lost
\* bytes left behind, so that the receiver is clean for the next frame; the
\* requests of serial_example.cc have four and five.
WholeFrameCleans ==
  Arrived /\ (clean \/ Len(sent.data) >= 3) => rx.escape_buffer = 0

\* "Reset receive buffer" (melo.c:485): a HEAD byte makes the receiver forget what
\* was left of the frames before it, so that a whole frame is always understood.
HeadResetsReceiver ==
  Arrived /\ frames > 0 => received /\ rx.packet.data = sent.data
================================================================================
