------------------------------- MODULE MeloFrame -------------------------------
(***************************************************************************)
(* The frame format of melo.c, byte by byte: _melo_serialize_frame on the  *)
(* sending and _melo_rx_byte on the receiving side.                        *)
(*                                                                         *)
(* Bit 5 marks the control bytes HEAD, TAIL and ESCAPE.  A data byte with  *)
(* that bit is sent without it; an ESCAPE byte sent before it says which   *)
(* of the next five data bytes are to get it back.                         *)
(***************************************************************************)
EXTENDS Integers, Sequences, SequencesExt

CONSTANT MAX_DATA            \* MELO_CFG_MAX_DATA_LENGTH

\* Room for the longest request of a service: an address and a uint32_t.
ASSUME DataAssumption == MAX_DATA \in Nat /\ MAX_DATA >= 8

Byte == 0 .. 255

\* The buffers that frames are built in and received into.
MELO_MAX_FRAME_SIZE      == (MAX_DATA + 2) + 3
MELO_MAX_WAIT_FRAME_SIZE == 2 + 3 + 1

FRAME_ENDIAN   == 7
FRAME_ESCAPE   == 6
FRAME_RESERVED == 5
FRAME_CRC      == 4
FRAME_MARKER   == 3

bit(b, n)       == (b \div 2 ^ n) % 2
is_set(b, n)    == bit(b, n) = 1
BIT_SET(b, n)   == b + (1 - bit(b, n)) * 2 ^ n
BIT_CLEAR(b, n) == b - bit(b, n) * 2 ^ n

NUM_ESCAPE_BYTES == 5
ESCAPE_BYTE      == 2 ^ FRAME_ESCAPE + 2 ^ FRAME_RESERVED
CRC              == 102      \* 0x66, in place of a check sum

is_control(b) == is_set(b, FRAME_RESERVED)

\* _melo_create_r moves bits 5 and 6 up by one, so that bit 5 is clear;
\* _melo_restore_r moves them back.  Bit 7 has no place to go.
create_r(b)  == ((b \div 32) % 4) * 64 + (b % 32)
restore_r(b) == ((b \div 64) % 4) * 32 + (b % 32)

\* _melo_create_cmd_byte, with the CRC flag that is set afterwards.
create_cmd_byte(marker, byte_order, crc_present) ==
  2 ^ FRAME_RESERVED + marker * 2 ^ FRAME_MARKER + byte_order * 2 ^ FRAME_ENDIAN
    + (IF crc_present THEN 2 ^ FRAME_CRC ELSE 0)

HEAD == 1
TAIL == 0

------------------------------------------------------------------------------
(* Sending *)

\* Mutants of serialize_byte: a byte that needs no escape does not count towards
\* the five; the bit of an escaped byte is not cleared.
serialize_byte_uncounted(s, data_byte) ==
  LET control == is_control(data_byte)
      escape  == control /\ ~ s.available
      out     == IF escape THEN Append(s.out, ESCAPE_BYTE) ELSE s.out
      at      == IF escape THEN Len(out) ELSE s.at
      left    == IF escape THEN NUM_ESCAPE_BYTES - 1
                 ELSE IF s.remaining > 0 /\ control THEN s.remaining - 1 ELSE s.remaining
  IN [out       |-> IF control
                    THEN Append([out EXCEPT ![at] = BIT_SET(@, NUM_ESCAPE_BYTES - 1 - left)],
                                BIT_CLEAR(data_byte, FRAME_RESERVED))
                    ELSE Append(out, data_byte),
      at        |-> at,
      remaining |-> left,
      available |-> (escape \/ s.available) /\ left > 0]

serialize_byte_raw(s, data_byte) == [s EXCEPT !.out = Append(@, data_byte)]

\* One turn of the data loop of _melo_serialize_frame: what has been written so
\* far, where the newest ESCAPE byte stands, how many of its five data bytes are
\* still to come, and whether it has bits to give.
serialize_byte(s, data_byte) ==
  LET control == is_control(data_byte)
      escape  == control /\ ~ s.available          \* a new ESCAPE byte is needed
      out     == IF escape THEN Append(s.out, ESCAPE_BYTE) ELSE s.out
      at      == IF escape THEN Len(out) ELSE s.at
      left    == IF escape THEN NUM_ESCAPE_BYTES - 1
                 ELSE IF s.remaining > 0 THEN s.remaining - 1 ELSE 0
  IN [out       |-> IF control
                    THEN Append([out EXCEPT ![at] = BIT_SET(@, NUM_ESCAPE_BYTES - 1 - left)],
                                BIT_CLEAR(data_byte, FRAME_RESERVED))
                    ELSE Append(out, data_byte),
      at        |-> at,
      remaining |-> left,
      available |-> (escape \/ s.available) /\ left > 0]

serialize_data(data) ==
  LET loop[n \in 0 .. Len(data)] ==
        IF n = 0 THEN [out |-> <<>>, at |-> 0, remaining |-> 0, available |-> FALSE]
                 ELSE serialize_byte(loop[n - 1], data[n])
  IN loop[Len(data)].out

\* The length counts the data without the CRC byte behind it.
serialize_frame(command, data, byte_order, crc_present) ==
  <<create_cmd_byte(HEAD, byte_order, crc_present), create_r(Len(data)), command>>
    \o serialize_data(IF crc_present THEN Append(data, CRC) ELSE data)
    \o <<create_cmd_byte(TAIL, byte_order, crc_present)>>

------------------------------------------------------------------------------
(* Receiving *)

NoPacket == [command |-> 0, data |-> <<>>]

\* A receiver as MeloInit leaves it: static storage, all zero.
receiver_init ==
  [buffer        |-> <<>>,      \* buffer.data[0 .. length - 1]; zero beyond
   escape_buffer |-> 0,
   crc_present   |-> FALSE,
   byte_order    |-> 0,
   packet        |-> NoPacket]

\* buffer.data[i]: HEAD cleared the buffer to its end.
buffer_at(rx, i) == IF i < Len(rx.buffer) THEN rx.buffer[i + 1] ELSE 0

\* Mutant of rx_head: what came before is not cleared away.
rx_head_keeps(rx, byte) ==
  [rx EXCEPT !.crc_present = is_set(byte, FRAME_CRC),
             !.byte_order  = bit(byte, FRAME_ENDIAN)]

\* HEAD empties the buffer; it leaves escape_buffer as it is.
rx_head(rx, byte) ==
  [rx EXCEPT !.buffer      = <<>>,
             !.crc_present = is_set(byte, FRAME_CRC),
             !.byte_order  = bit(byte, FRAME_ENDIAN)]

\* TAIL unpacks as many data bytes as the length byte says, whatever has come.
tail_matches(rx, byte) == /\ rx.crc_present = is_set(byte, FRAME_CRC)
                          /\ rx.byte_order  = bit(byte, FRAME_ENDIAN)

rx_tail(rx) ==
  [rx EXCEPT !.packet =
     [command |-> buffer_at(rx, 1),
      data    |-> [i \in 1 .. restore_r(buffer_at(rx, 0)) |-> buffer_at(rx, i + 1)]]]

\* Mutant of rx_data: only a bit that is used is shifted out.
rx_data_unshifted(rx, byte) ==
  [rx EXCEPT !.buffer = Append(@, IF rx.escape_buffer % 2 = 1
                                  THEN BIT_SET(byte, FRAME_RESERVED) ELSE byte),
             !.escape_buffer = IF @ % 2 = 1 THEN @ \div 2 ELSE @]

rx_data(rx, byte) ==
  [rx EXCEPT !.buffer = Append(@, IF rx.escape_buffer % 2 = 1
                                  THEN BIT_SET(byte, FRAME_RESERVED) ELSE byte),
             !.escape_buffer = @ \div 2]

is_tail(byte) == /\ is_control(byte)
                 /\ ~ is_set(byte, FRAME_ESCAPE)
                 /\ ~ is_set(byte, FRAME_MARKER)

\* Mutant of rx_escape: all of the byte is loaded.
rx_escape_unmasked(rx, byte) == [rx EXCEPT !.escape_buffer = byte]

rx_escape(rx, byte) == [rx EXCEPT !.escape_buffer = byte % (2 ^ NUM_ESCAPE_BYTES)]

\* _melo_rx_byte; it notifies REQUEST_RECEIVED exactly when rx_notifies holds.
rx_notifies(rx, byte) == is_tail(byte) /\ tail_matches(rx, byte)

rx_byte(rx, byte) ==
  CASE ~ is_control(byte) -> rx_data(rx, byte)
    [] is_control(byte) /\ is_set(byte, FRAME_ESCAPE) -> rx_escape(rx, byte)
    [] is_control(byte) /\ ~ is_set(byte, FRAME_ESCAPE) /\ is_set(byte, FRAME_MARKER) ->
         rx_head(rx, byte)
    [] is_tail(byte) -> IF tail_matches(rx, byte) THEN rx_tail(rx) ELSE rx
================================================================================
