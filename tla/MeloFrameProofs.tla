---------------------------- MODULE MeloFrameProofs ----------------------------
(***************************************************************************)
(* The frame format, for data of any length: what _melo_serialize_frame    *)
(* writes is what _melo_rx_byte reads.                                     *)
(***************************************************************************)
EXTENDS MeloFrame, SequenceTheorems, WellFoundedInduction, TLAPS

\* The state of the data loop before its first turn.
start == [out |-> <<>>, at |-> 0, remaining |-> 0, available |-> FALSE]

ESCAPES == 96 .. 127         \* an ESCAPE byte with any of its five bits

Power(n) == <<1, 2, 4, 8, 16>>[n + 1]

------------------------------------------------------------------------------
(* Induction, and sequences *)

\* Induction on a set of numbers: the library's theorem has the property as an
\* operator parameter, a set has none.
LEMMA NatInd ==
  ASSUME NEW S, 0 \in S, \A n \in Nat : n \in S => n + 1 \in S
  PROVE  Nat \subseteq S
<1> DEFINE T == Nat \ S
           R == OpToRel(<, Nat)
<1> SUFFICES ASSUME T # {} PROVE FALSE
  OBVIOUS
<1>1. PICK x \in T : \A y \in T : ~ (<<y, x>> \in R)
  <2>1. IsWellFoundedOn(R, Nat) /\ T \subseteq Nat
    BY NatLessThanWellFounded
  <2> HIDE DEF T, R
  <2>2. QED BY <2>1, WFMin
<1>2. x \in Nat /\ x # 0
  OBVIOUS
<1>3. x - 1 \in Nat /\ (x - 1) + 1 = x /\ x - 1 < x
  BY <1>2
<1>4. x - 1 \in T
  BY <1>3
<1>5. <<x - 1, x>> \in R
  BY <1>2, <1>3 DEF OpToRel
<1>6. QED BY <1>1, <1>4, <1>5

\* Two elements, one after the other.
LEMMA AppendTwo ==
  ASSUME NEW p, NEW q
  PROVE  Append(<<p>>, q) = <<p, q>>
<1>1. <<p>> \in Seq({p, q}) /\ Len(<<p>>) = 1 /\ <<p>>[1] = p
  OBVIOUS
<1>2. PICK s : s = Append(<<p>>, q)
  OBVIOUS
<1>3. s \in Seq({p, q}) /\ Len(s) = 2 /\ s[1] = p /\ s[2] = q
  BY <1>1, <1>2, AppendProperties
<1>4. s = <<p, q>>
  BY <1>3
<1>5. QED BY <1>2, <1>4

------------------------------------------------------------------------------
(* Single bytes *)

\* Five bits, and what each of them is worth.
LEMMA Powers ==
  /\ Power(0) = 1
  /\ \A n \in 0 .. 4 : Power(n) \in 1 .. 16 /\ Power(n) = 2 ^ n
  /\ \A n \in 1 .. 4 : Power(n) = 2 * Power(n - 1) /\ Power(n - 1) <= 8
<1>1. 2 ^ 0 = 1 /\ 2 ^ 1 = 2 /\ 2 ^ 2 = 4 /\ 2 ^ 3 = 8 /\ 2 ^ 4 = 16
  OBVIOUS
<1>2. /\ Power(0) = 1 /\ Power(1) = 2 /\ Power(2) = 4 /\ Power(3) = 8 /\ Power(4) = 16
  BY DEF Power
<1>3. QED BY <1>1, <1>2

\* Bit 5 is what makes a byte a control byte; bits 6 and 3 say of which kind.
LEMMA Bits ==
  ASSUME NEW b \in Byte
  PROVE  /\ is_control(b) <=> (b \div 32) % 2 = 1
         /\ is_set(b, FRAME_ESCAPE) <=> (b \div 64) % 2 = 1
         /\ is_set(b, FRAME_MARKER) <=> (b \div 8) % 2 = 1
         /\ is_set(b, FRAME_CRC) <=> (b \div 16) % 2 = 1
         /\ bit(b, FRAME_ENDIAN) = b \div 128
<1>1. 2 ^ 3 = 8 /\ 2 ^ 4 = 16 /\ 2 ^ 5 = 32 /\ 2 ^ 6 = 64 /\ 2 ^ 7 = 128
  OBVIOUS
<1>2. QED BY <1>1 DEF is_control, is_set, bit, FRAME_RESERVED, FRAME_ESCAPE, FRAME_MARKER,
                      FRAME_CRC, FRAME_ENDIAN, Byte

\* Taking bit 5 away and putting it back.
LEMMA Bit5 ==
  ASSUME NEW b \in Byte
  PROVE  /\ is_control(b) => /\ BIT_CLEAR(b, FRAME_RESERVED) = b - 32
                             /\ b - 32 \in Byte /\ ~ is_control(b - 32)
         /\ ~ is_control(b) => /\ BIT_SET(b, FRAME_RESERVED) = b + 32
                               /\ b + 32 \in Byte
<1>1. 2 ^ 5 = 32
  OBVIOUS
<1>2. QED BY <1>1 DEF is_control, is_set, bit, BIT_CLEAR, BIT_SET, FRAME_RESERVED, Byte

\* A bit that an ESCAPE byte has still to give.
LEMMA EscapeBit ==
  ASSUME NEW b \in ESCAPES, NEW n \in 0 .. 4, b % 32 < Power(n)
  PROVE  /\ BIT_SET(b, n) = b + Power(n) /\ BIT_SET(b, n) \in ESCAPES
         /\ BIT_SET(b, n) % 32 = (b % 32) + Power(n)
<1>1. 2 ^ 0 = 1 /\ 2 ^ 1 = 2 /\ 2 ^ 2 = 4 /\ 2 ^ 3 = 8 /\ 2 ^ 4 = 16
  OBVIOUS
<1>2. n = 0 \/ n = 1 \/ n = 2 \/ n = 3 \/ n = 4
  OBVIOUS
<1>3. Power(n) = 2 ^ n
  BY Powers
<1>4. CASE n = 0
  BY <1>1, <1>3, <1>4 DEF BIT_SET, bit, ESCAPES
<1>5. CASE n = 1
  BY <1>1, <1>3, <1>5 DEF BIT_SET, bit, ESCAPES
<1>6. CASE n = 2
  BY <1>1, <1>3, <1>6 DEF BIT_SET, bit, ESCAPES
<1>7. CASE n = 3
  BY <1>1, <1>3, <1>7 DEF BIT_SET, bit, ESCAPES
<1>8. CASE n = 4
  BY <1>1, <1>3, <1>8 DEF BIT_SET, bit, ESCAPES
<1>9. QED BY <1>2, <1>4, <1>5, <1>6, <1>7, <1>8

\* What tells an ESCAPE byte from the data around it.
LEMMA EscapeByte ==
  /\ ESCAPE_BYTE = 96 /\ ESCAPES \subseteq Byte
  /\ \A b \in ESCAPES : is_control(b) /\ is_set(b, FRAME_ESCAPE)
  /\ \A b \in Byte : ~ is_control(b) => b \notin ESCAPES
<1>1. 2 ^ 5 = 32 /\ 2 ^ 6 = 64
  OBVIOUS
<1>2. ESCAPE_BYTE = 96 /\ ESCAPES \subseteq Byte
  BY <1>1 DEF ESCAPE_BYTE, FRAME_ESCAPE, FRAME_RESERVED, ESCAPES, Byte
<1>3. \A b \in ESCAPES : is_control(b) /\ is_set(b, FRAME_ESCAPE)
  BY <1>2, Bits DEF ESCAPES
<1>4. QED BY <1>2, <1>3

\* The length byte keeps seven bits and is no control byte.
LEMMA LengthByte ==
  /\ \A n \in 0 .. 127 : restore_r(create_r(n)) = n
  /\ \A n \in Nat : create_r(n) \in Byte /\ ~ is_control(create_r(n))
  /\ \A n \in 0 .. 31 : create_r(n) = n
  /\ \A n \in Nat : restore_r(n) \in 0 .. 127
<1>1. \A n \in 0 .. 127 : restore_r(create_r(n)) = n
  BY DEF create_r, restore_r
<1>2. \A n \in Nat : create_r(n) \in Byte /\ (create_r(n) \div 32) % 2 = 0
  BY DEF create_r, Byte
<1>3. \A n \in 0 .. 31 : create_r(n) = n
  BY DEF create_r
<1>4. \A n \in Nat : restore_r(n) \in 0 .. 127
  BY DEF restore_r
<1>5. QED BY <1>1, <1>2, <1>3, <1>4, Bits

\* HEAD and TAIL say what they are, and both say the same of the frame.
LEMMA Markers ==
  ASSUME NEW byte_order \in {0, 1}, NEW crc_present \in BOOLEAN
  PROVE  LET head == create_cmd_byte(HEAD, byte_order, crc_present)
             tail == create_cmd_byte(TAIL, byte_order, crc_present)
         IN
         /\ head \in Byte /\ is_control(head) /\ ~ is_set(head, FRAME_ESCAPE)
         /\ is_set(head, FRAME_MARKER)
         /\ is_set(head, FRAME_CRC) = crc_present /\ bit(head, FRAME_ENDIAN) = byte_order
         /\ tail \in Byte /\ is_tail(tail)
         /\ is_set(tail, FRAME_CRC) = crc_present /\ bit(tail, FRAME_ENDIAN) = byte_order
<1> DEFINE head == create_cmd_byte(HEAD, byte_order, crc_present)
           tail == create_cmd_byte(TAIL, byte_order, crc_present)
<1>1. 2 ^ 3 = 8 /\ 2 ^ 4 = 16 /\ 2 ^ 5 = 32 /\ 2 ^ 7 = 128
  OBVIOUS
<1>2. /\ head = 40 + 128 * byte_order + (IF crc_present THEN 16 ELSE 0)
      /\ tail = 32 + 128 * byte_order + (IF crc_present THEN 16 ELSE 0)
  BY <1>1 DEF create_cmd_byte, HEAD, TAIL, FRAME_RESERVED, FRAME_MARKER, FRAME_ENDIAN, FRAME_CRC
<1>3. head \in Byte /\ tail \in Byte
  BY <1>2 DEF Byte
<1> HIDE DEF head, tail
<1>4. CASE crc_present
  <2>1. /\ (head \div 32) % 2 = 1 /\ (head \div 64) % 2 = 0 /\ (head \div 8) % 2 = 1
        /\ (head \div 16) % 2 = 1 /\ head \div 128 = byte_order
        /\ (tail \div 32) % 2 = 1 /\ (tail \div 64) % 2 = 0 /\ (tail \div 8) % 2 = 0
        /\ (tail \div 16) % 2 = 1 /\ tail \div 128 = byte_order
    BY <1>2, <1>4
  <2>2. is_set(head, FRAME_CRC) /\ is_set(tail, FRAME_CRC)
    BY <1>3, <2>1, Bits
  <2>3. is_set(head, FRAME_CRC) = crc_present /\ is_set(tail, FRAME_CRC) = crc_present
    BY <1>4, <2>2 DEF is_set
  <2>4. QED BY <1>3, <2>1, <2>3, Bits DEF is_tail, head, tail
<1>5. CASE ~ crc_present
  <2>1. /\ (head \div 32) % 2 = 1 /\ (head \div 64) % 2 = 0 /\ (head \div 8) % 2 = 1
        /\ (head \div 16) % 2 = 0 /\ head \div 128 = byte_order
        /\ (tail \div 32) % 2 = 1 /\ (tail \div 64) % 2 = 0 /\ (tail \div 8) % 2 = 0
        /\ (tail \div 16) % 2 = 0 /\ tail \div 128 = byte_order
    BY <1>2, <1>5
  <2>2. ~ is_set(head, FRAME_CRC) /\ ~ is_set(tail, FRAME_CRC)
    BY <1>3, <2>1, Bits
  <2>3. is_set(head, FRAME_CRC) = crc_present /\ is_set(tail, FRAME_CRC) = crc_present
    BY <1>5, <2>2 DEF is_set
  <2>4. QED BY <1>3, <2>1, <2>3, Bits DEF is_tail, head, tail
<1>6. QED BY <1>4, <1>5 DEF head, tail
------------------------------------------------------------------------------
(* The data loop *)

\* g is the function that serialize_data looks for, as far as the m-th turn.
IsLoop(g, data, m) ==
  g = [n \in 0 .. m |-> IF n = 0 THEN start ELSE serialize_byte(g[n - 1], data[n])]

\* There is one, whatever the number of turns.
LEMMA LoopExists ==
  ASSUME NEW data
  PROVE  \A m \in Nat : \E g : IsLoop(g, data, m)
<1> DEFINE S == {m \in Nat : \E g : IsLoop(g, data, m)}
<1>1. 0 \in S
  <2> DEFINE g == [n \in 0 .. 0 |-> start]
  <2>1. IsLoop(g, data, 0)
    BY DEF IsLoop
  <2>2. QED BY <2>1
<1>2. ASSUME NEW m \in Nat, m \in S PROVE m + 1 \in S
  <2>1. PICK g : IsLoop(g, data, m)
    BY <1>2
  <2> DEFINE g2 == [n \in 0 .. m + 1 |->
                      IF n = m + 1 THEN serialize_byte(g[m], data[m + 1]) ELSE g[n]]
  <2>2. ASSUME NEW n \in 0 .. m + 1
        PROVE  g2[n] = IF n = 0 THEN start ELSE serialize_byte(g2[n - 1], data[n])
    <3>1. CASE n = m + 1
      <4>1. n # 0 /\ n - 1 = m /\ g2[m] = g[m]
        BY <3>1
      <4>2. QED BY <3>1, <4>1
    <3>2. CASE n \in 1 .. m
      <4>1. g2[n] = g[n] /\ g2[n - 1] = g[n - 1]
        BY <3>2
      <4>2. g[n] = serialize_byte(g[n - 1], data[n])
        BY <2>1, <3>2 DEF IsLoop
      <4>3. QED BY <3>2, <4>1, <4>2
    <3>3. CASE n = 0
      BY <2>1, <3>3 DEF IsLoop
    <3>4. QED BY <3>1, <3>2, <3>3
  <2>3. IsLoop(g2, data, m + 1)
    <3> HIDE DEF g2
    <3>1. g2 = [n \in 0 .. m + 1 |-> g2[n]]
      BY DEF g2
    <3>2. QED BY <2>2, <3>1 DEF IsLoop
  <2>4. QED BY <2>3
<1> HIDE DEF S
<1>3. Nat \subseteq S
  BY <1>1, <1>2, NatInd
<1>4. QED BY <1>3 DEF S

\* The loop, turn by turn (melo.c:588).
LEMMA LoopTurns ==
  ASSUME NEW data \in Seq(Byte)
  PROVE  \E h : /\ h[0] = start
                /\ \A i \in 1 .. Len(data) : h[i] = serialize_byte(h[i - 1], data[i])
                /\ serialize_data(data) = h[Len(data)].out
<1> DEFINE h == CHOOSE g : IsLoop(g, data, Len(data))
<1>1. Len(data) \in Nat
  OBVIOUS
<1>2. IsLoop(h, data, Len(data))
  BY <1>1, LoopExists
<1>3. serialize_data(data) = h[Len(data)].out
  BY DEF serialize_data, IsLoop, start
<1> HIDE DEF h
<1>4. h[0] = start /\ \A i \in 1 .. Len(data) : h[i] = serialize_byte(h[i - 1], data[i])
  BY <1>1, <1>2 DEF IsLoop
<1>5. QED BY <1>3, <1>4

\* What the byte at k of out does to a receiver that has e[k] in its escape buffer
\* and c[k] bytes of data.
Turn(out, data, e, c, k) ==
  \/ /\ out[k] \in ESCAPES
     /\ e[k + 1] = out[k] % 32 /\ c[k + 1] = c[k]
  \/ /\ out[k] \in Byte /\ ~ is_control(out[k])
     /\ e[k + 1] = e[k] \div 2 /\ c[k + 1] = c[k] + 1
     /\ data[c[k] + 1] = out[k] + 32 * (e[k] % 2)

\* The bytes of out are the first n bytes of data, and leave no escape behind.
Decodes(out, data, n, e, c) ==
  LET last == Len(out) + 1 IN
  /\ e \in [1 .. last -> 0 .. 31] /\ c \in [1 .. last -> 0 .. n]
  /\ e[1] = 0 /\ c[1] = 0
  /\ e[last] = 0 /\ c[last] = n
  /\ \A k \in 1 .. Len(out) : Turn(out, data, e, c, k)

\* A byte that needs no escape.
LEMMA AppendPlain ==
  ASSUME NEW data, NEW n \in Nat, NEW out \in Seq(Byte), NEW e, NEW c,
         Decodes(out, data, n, e, c),
         NEW b \in Byte, b = data[n + 1], ~ is_control(b)
  PROVE  \E e2, c2 : Decodes(Append(out, b), data, n + 1, e2, c2)
<1>0. PICK L \in Nat : L = Len(out)
  OBVIOUS
<1>0a. PICK out2 : out2 = Append(out, b)
  OBVIOUS
<1> DEFINE e2  == [k \in 1 .. L + 2 |-> IF k = L + 2 THEN 0 ELSE e[k]]
           c2  == [k \in 1 .. L + 2 |-> IF k = L + 2 THEN n + 1 ELSE c[k]]
<1>1. /\ out2 \in Seq(Byte) /\ Len(out2) = L + 1
      /\ out2[L + 1] = b /\ \A k \in 1 .. L : out2[k] = out[k]
  BY <1>0, <1>0a, AppendProperties
<1>2. /\ e \in [1 .. L + 1 -> 0 .. 31] /\ c \in [1 .. L + 1 -> 0 .. n]
      /\ e[1] = 0 /\ c[1] = 0 /\ e[L + 1] = 0 /\ c[L + 1] = n
      /\ \A k \in 1 .. L : Turn(out, data, e, c, k)
  BY <1>0 DEF Decodes
<1>3. \A k \in 1 .. L + 1 : e2[k] = e[k] /\ c2[k] = c[k]
  OBVIOUS
<1>4. e2[L + 2] = 0 /\ c2[L + 2] = n + 1
  OBVIOUS
<1>5. e2 \in [1 .. L + 2 -> 0 .. 31] /\ c2 \in [1 .. L + 2 -> 0 .. n + 1]
  BY <1>2
<1> HIDE DEF e2, c2
<1>6. ASSUME NEW k \in 1 .. L + 1 PROVE Turn(out2, data, e2, c2, k)
  <2>1. CASE k \in 1 .. L
    <3>1. k \in 1 .. L + 1 /\ k + 1 \in 1 .. L + 1
      BY <2>1
    <3>2. /\ out2[k] = out[k] /\ e2[k] = e[k] /\ c2[k] = c[k]
          /\ e2[k + 1] = e[k + 1] /\ c2[k + 1] = c[k + 1]
      BY <1>1, <1>3, <2>1, <3>1
    <3>3. Turn(out, data, e, c, k)
      BY <1>2, <2>1
    <3>4. QED BY <3>2, <3>3 DEF Turn
  <2>2. CASE k = L + 1
    <3>1. L + 1 \in 1 .. L + 1 /\ k + 1 = L + 2
      BY <2>2
    <3>2. out2[k] = b /\ e2[k] = 0 /\ c2[k] = n /\ e2[k + 1] = 0 /\ c2[k + 1] = n + 1
      BY <1>1, <1>2, <1>3, <1>4, <2>2, <3>1
    <3>3. b + 32 * (0 % 2) = b /\ 0 \div 2 = 0
      BY DEF Byte
    <3>4. QED BY <3>2, <3>3 DEF Turn
  <2>3. QED BY <2>1, <2>2
<1>7. e2[1] = 0 /\ c2[1] = 0
  BY <1>2, <1>3
<1>8. Decodes(out2, data, n + 1, e2, c2)
  <2>1. Len(out2) + 1 = L + 2
    BY <1>1
  <2>2. QED BY <1>1, <1>4, <1>5, <1>6, <1>7, <2>1 DEF Decodes
<1>9. QED BY <1>0a, <1>8

\* A byte that needs an escape when there is none to give it one.
LEMMA AppendNewEscape ==
  ASSUME NEW data, NEW n \in Nat, NEW out \in Seq(Byte), NEW e, NEW c,
         Decodes(out, data, n, e, c),
         NEW b \in Byte, b = data[n + 1], is_control(b)
  PROVE  \E e2, c2 : Decodes(Append(Append(out, 97), b - 32), data, n + 1, e2, c2)
<1>0. PICK L \in Nat : L = Len(out)
  OBVIOUS
<1>0a. PICK mid : mid = Append(out, 97)
  OBVIOUS
<1>0b. PICK out2 : out2 = Append(mid, b - 32)
  OBVIOUS
<1> DEFINE e2  == [k \in 1 .. L + 3 |-> IF k = L + 3 THEN 0 ELSE IF k = L + 2 THEN 1 ELSE e[k]]
           c2  == [k \in 1 .. L + 3 |-> IF k = L + 3 THEN n + 1 ELSE IF k = L + 2 THEN n ELSE c[k]]
<1>1. b - 32 \in Byte /\ ~ is_control(b - 32) /\ 97 \in Byte /\ 97 \in ESCAPES
  <2>1. b - 32 \in Byte /\ ~ is_control(b - 32)
    BY Bit5
  <2>2. QED BY <2>1 DEF Byte, ESCAPES
<1>2. /\ mid \in Seq(Byte) /\ Len(mid) = L + 1
      /\ mid[L + 1] = 97 /\ \A k \in 1 .. L : mid[k] = out[k]
  BY <1>0, <1>0a, <1>1, AppendProperties
<1>3. /\ out2 \in Seq(Byte) /\ Len(out2) = L + 2
      /\ out2[L + 2] = b - 32 /\ \A k \in 1 .. L + 1 : out2[k] = mid[k]
  BY <1>0b, <1>1, <1>2, AppendProperties
<1>4. /\ e \in [1 .. L + 1 -> 0 .. 31] /\ c \in [1 .. L + 1 -> 0 .. n]
      /\ e[1] = 0 /\ c[1] = 0 /\ e[L + 1] = 0 /\ c[L + 1] = n
      /\ \A k \in 1 .. L : Turn(out, data, e, c, k)
  BY <1>0 DEF Decodes
<1>5. \A k \in 1 .. L + 1 : e2[k] = e[k] /\ c2[k] = c[k]
  OBVIOUS
<1>6. e2[L + 3] = 0 /\ c2[L + 3] = n + 1 /\ e2[L + 2] = 1 /\ c2[L + 2] = n
  OBVIOUS
<1>7. e2 \in [1 .. L + 3 -> 0 .. 31] /\ c2 \in [1 .. L + 3 -> 0 .. n + 1]
  BY <1>4
<1> HIDE DEF e2, c2
<1>8. ASSUME NEW k \in 1 .. L + 2 PROVE Turn(out2, data, e2, c2, k)
  <2>1. CASE k \in 1 .. L
    <3>1. k \in 1 .. L + 1 /\ k + 1 \in 1 .. L + 1
      BY <2>1
    <3>2. /\ out2[k] = out[k] /\ e2[k] = e[k] /\ c2[k] = c[k]
          /\ e2[k + 1] = e[k + 1] /\ c2[k + 1] = c[k + 1]
      BY <1>2, <1>3, <1>5, <2>1, <3>1
    <3>3. Turn(out, data, e, c, k)
      BY <1>4, <2>1
    <3>4. QED BY <3>2, <3>3 DEF Turn
  <2>2. CASE k = L + 1
    <3>1. L + 1 \in 1 .. L + 1 /\ k + 1 = L + 2
      BY <2>2
    <3>2. out2[k] = 97 /\ e2[k + 1] = 1 /\ c2[k] = n /\ c2[k + 1] = n
      BY <1>2, <1>3, <1>4, <1>5, <1>6, <2>2, <3>1
    <3>3. 97 % 32 = 1
      OBVIOUS
    <3>4. QED BY <1>1, <3>2, <3>3 DEF Turn
  <2>3. CASE k = L + 2
    <3>1. out2[k] = b - 32 /\ e2[k] = 1 /\ c2[k] = n /\ e2[k + 1] = 0 /\ c2[k + 1] = n + 1
      BY <1>3, <1>6, <2>3
    <3>2. 1 \div 2 = 0 /\ (b - 32) + 32 * (1 % 2) = b
      BY DEF Byte
    <3>3. QED BY <1>1, <3>1, <3>2 DEF Turn
  <2>4. QED BY <2>1, <2>2, <2>3
<1>9. e2[1] = 0 /\ c2[1] = 0
  BY <1>4, <1>5
<1>10. Decodes(out2, data, n + 1, e2, c2)
  <2>1. Len(out2) + 1 = L + 3
    BY <1>3
  <2>2. QED BY <1>3, <1>6, <1>7, <1>8, <1>9, <2>1 DEF Decodes
<1>11. QED BY <1>0a, <1>0b, <1>10

\* Behind an escape byte no more than its open bits are left to shift out: what has
\* become zero at the end was below a power of two before.
LEMMA OpenBits ==
  ASSUME NEW L \in Nat, NEW at \in 1 .. L, L - at \in 1 .. 4,
         NEW e \in [1 .. L + 1 -> 0 .. 31], e[L + 1] = 0,
         \A k \in at + 1 .. L : e[k + 1] = e[k] \div 2
  PROVE  \A k \in at + 1 .. L + 1 : L + 1 - k \in 0 .. 4 /\ e[k] < Power(L + 1 - k)
<1>2. \A n \in Nat : /\ n \div 2 = 0 => n < 2
                     /\ n \div 2 < 2 => n < 4
                     /\ n \div 2 < 4 => n < 8
                     /\ n \div 2 < 8 => n < 16
  OBVIOUS
<1>3. /\ Power(0) = 1 /\ Power(1) = 2 /\ Power(2) = 4 /\ Power(3) = 8 /\ Power(4) = 16
  BY DEF Power
<1>4. \A k \in at + 1 .. L + 1 : e[k] \in Nat
  <2>1. ASSUME NEW k \in at + 1 .. L + 1 PROVE e[k] \in Nat
    <3>1. k \in 1 .. L + 1
      OBVIOUS
    <3>2. e[k] \in 0 .. 31
      BY <3>1
    <3>3. 0 .. 31 \subseteq Nat
      OBVIOUS
    <3>4. QED BY ONLY <3>2, <3>3
  <2>2. QED BY <2>1
<1>6. e[L] < 2
  <2>1. L \in at + 1 .. L /\ L \in at + 1 .. L + 1
    OBVIOUS
  <2>2. QED BY <1>2, <1>4, <2>1
<1>7. L - at >= 2 => e[L - 1] < 4
  <2>1. L - at >= 2 => L - 1 \in at + 1 .. L /\ L - 1 \in at + 1 .. L + 1 /\ (L - 1) + 1 = L
    OBVIOUS
  <2>2. L - at >= 2 => e[L] = e[L - 1] \div 2 /\ e[L - 1] \in Nat
    BY <1>4, <2>1
  <2>3. QED BY <1>2, <1>6, <2>2
<1>8. L - at >= 3 => e[L - 2] < 8
  <2>1. L - at >= 3 => L - 2 \in at + 1 .. L /\ L - 2 \in at + 1 .. L + 1 /\ (L - 2) + 1 = L - 1
    OBVIOUS
  <2>2. L - at >= 3 => e[L - 1] = e[L - 2] \div 2 /\ e[L - 2] \in Nat
    BY <1>4, <2>1
  <2>3. QED BY <1>2, <1>7, <2>2
<1>9. L - at >= 4 => e[L - 3] < 16
  <2>1. L - at >= 4 => L - 3 \in at + 1 .. L /\ L - 3 \in at + 1 .. L + 1 /\ (L - 3) + 1 = L - 2
    OBVIOUS
  <2>2. L - at >= 4 => e[L - 2] = e[L - 3] \div 2 /\ e[L - 3] \in Nat
    BY <1>4, <2>1
  <2>3. QED BY <1>2, <1>8, <2>2
<1>10. SUFFICES ASSUME NEW k \in at + 1 .. L + 1
                PROVE  L + 1 - k \in 0 .. 4 /\ e[k] < Power(L + 1 - k)
  OBVIOUS
<1>11. L + 1 - k \in 0 .. 4
  OBVIOUS
<1>12. CASE k = L + 1
  BY <1>3, <1>12
<1>13. CASE k = L
  BY <1>3, <1>6, <1>13
<1>14. CASE k = L - 1
  BY <1>3, <1>7, <1>14
<1>15. CASE k = L - 2
  BY <1>3, <1>8, <1>15
<1>16. CASE k = L - 3
  BY <1>3, <1>9, <1>16
<1>17. QED BY <1>11, <1>12, <1>13, <1>14, <1>15, <1>16

\* The bits that an ESCAPE byte has given so far leave room for those it has not.
LEMMA EscapeRoom ==
  ASSUME NEW data, NEW n \in Nat, NEW out \in Seq(Byte), NEW e, NEW c,
         Decodes(out, data, n, e, c),
         NEW at \in 1 .. Len(out), Len(out) - at \in 1 .. 4, out[at] \in ESCAPES,
         \A k \in at + 1 .. Len(out) : out[k] \notin ESCAPES
  PROVE  /\ out[at] % 32 < Power(Len(out) - at)
         /\ e[at + 1] = out[at] % 32 /\ c[at + 1] = c[at]
         /\ \A k \in at + 1 .. Len(out) + 1 : /\ Len(out) + 1 - k \in 0 .. 4
                                              /\ e[k] < Power(Len(out) + 1 - k)
<1>0. PICK L \in Nat : L = Len(out)
  OBVIOUS
<1>2. at \in 1 .. L /\ L - at \in 1 .. 4
  BY <1>0
<1>3. /\ e \in [1 .. L + 1 -> 0 .. 31] /\ c \in [1 .. L + 1 -> 0 .. n]
      /\ e[1] = 0 /\ c[1] = 0 /\ e[L + 1] = 0 /\ c[L + 1] = n
      /\ \A k \in 1 .. L : Turn(out, data, e, c, k)
  BY <1>0 DEF Decodes
<1>4. \A k \in at + 1 .. L : e[k + 1] = e[k] \div 2
  <2>1. ASSUME NEW k \in at + 1 .. L PROVE k \in 1 .. L /\ out[k] \notin ESCAPES
    BY <1>0, <1>2
  <2>2. QED BY <1>3, <2>1 DEF Turn
<1>5. \A k \in at + 1 .. L + 1 : L + 1 - k \in 0 .. 4 /\ e[k] < Power(L + 1 - k)
  BY <1>2, <1>3, <1>4, OpenBits
<1>6. e[at + 1] = out[at] % 32 /\ c[at + 1] = c[at]
  <2>1. Turn(out, data, e, c, at)
    BY <1>2, <1>3
  <2>2. ~ (out[at] \in Byte /\ ~ is_control(out[at]))
    BY EscapeByte
  <2>3. QED BY <2>1, <2>2 DEF Turn
<1>7. out[at] % 32 < Power(L - at)
  <2>1. at + 1 \in at + 1 .. L + 1 /\ L + 1 - (at + 1) = L - at
    BY <1>2
  <2>2. QED BY <1>5, <1>6, <2>1
<1>8. QED BY <1>0, <1>5, <1>6, <1>7

\* A byte that needs an escape and gets it from the newest ESCAPE byte, which has
\* been followed by one to four data bytes.
LEMMA AppendWithin ==
  ASSUME NEW data, NEW n \in Nat, NEW out \in Seq(Byte), NEW e, NEW c,
         Decodes(out, data, n, e, c),
         NEW at \in 1 .. Len(out), Len(out) - at \in 1 .. 4, out[at] \in ESCAPES,
         \A k \in at + 1 .. Len(out) : out[k] \notin ESCAPES,
         NEW b \in Byte, b = data[n + 1], is_control(b),
         NEW out2 \in Seq(Byte), Len(out2) = Len(out) + 1,
         out2[at] = out[at] + Power(Len(out) - at),
         out2[Len(out) + 1] = b - 32,
         \A k \in 1 .. Len(out) : k # at => out2[k] = out[k]
  PROVE  \E e2, c2 : Decodes(out2, data, n + 1, e2, c2)
<1>0. PICK L \in Nat : L = Len(out)
  OBVIOUS
<1> DEFINE e2  == [k \in 1 .. L + 2 |->
                     IF k = L + 2 THEN 0
                     ELSE IF k > at THEN e[k] + Power(L + 1 - k) ELSE e[k]]
           c2  == [k \in 1 .. L + 2 |-> IF k = L + 2 THEN n + 1 ELSE c[k]]
<1>1. b - 32 \in Byte /\ ~ is_control(b - 32)
  BY Bit5
<1>2. at \in 1 .. L /\ L - at \in 1 .. 4
  BY <1>0
<1>3. /\ e \in [1 .. L + 1 -> 0 .. 31] /\ c \in [1 .. L + 1 -> 0 .. n]
      /\ e[1] = 0 /\ c[1] = 0 /\ e[L + 1] = 0 /\ c[L + 1] = n
      /\ \A k \in 1 .. L : Turn(out, data, e, c, k)
  BY <1>0 DEF Decodes
<1>4. /\ out[at] % 32 < Power(Len(out) - at)
      /\ e[at + 1] = out[at] % 32 /\ c[at + 1] = c[at]
      /\ \A k \in at + 1 .. Len(out) + 1 : /\ Len(out) + 1 - k \in 0 .. 4
                                           /\ e[k] < Power(Len(out) + 1 - k)
  BY EscapeRoom, Zenon
<1>5. \A k \in at + 1 .. L + 1 : L + 1 - k \in 0 .. 4 /\ e[k] < Power(L + 1 - k)
  BY <1>0, <1>4
<1>6. e[at + 1] = out[at] % 32 /\ c[at + 1] = c[at]
  BY <1>4
<1>7. out[at] % 32 < Power(L - at)
  BY <1>0, <1>4
<1>8. /\ \A k \in 1 .. at : e2[k] = e[k]
      /\ \A k \in at + 1 .. L + 1 : e2[k] = e[k] + Power(L + 1 - k)
      /\ \A k \in 1 .. L + 1 : c2[k] = c[k]
      /\ e2[L + 2] = 0 /\ c2[L + 2] = n + 1
  <2>1. ASSUME NEW k \in 1 .. at PROVE e2[k] = e[k]
    BY <1>2
  <2>2. ASSUME NEW k \in at + 1 .. L + 1 PROVE e2[k] = e[k] + Power(L + 1 - k)
    BY <1>2
  <2>3. ASSUME NEW k \in 1 .. L + 1 PROVE c2[k] = c[k]
    OBVIOUS
  <2>4. e2[L + 2] = 0 /\ c2[L + 2] = n + 1
    OBVIOUS
  <2> HIDE DEF e2, c2
  <2>5. QED BY <2>1, <2>2, <2>3, <2>4
<1>9. \A k \in 1 .. L + 1 : e[k] \in 0 .. 31 /\ c[k] \in 0 .. n
  BY <1>3
<1>10. c2 \in [1 .. L + 2 -> 0 .. n + 1]
  <2>1. ASSUME NEW k \in 1 .. L + 2 PROVE c2[k] \in 0 .. n + 1
    <3>1. CASE k = L + 2
      BY <1>8, <3>1
    <3>2. CASE k \in 1 .. L + 1
      <4>1. c[k] \in 0 .. n
        BY <1>9, <3>2
      <4>2. c[k] \in 0 .. n + 1
        BY <4>1
      <4>3. QED BY <1>8, <3>2, <4>2
    <3>3. 0 .. 31 \subseteq Nat
      OBVIOUS
    <3>4. QED BY ONLY <3>2, <3>3
  <2>2. QED BY <2>1
<1>11. \A k \in 1 .. L + 2 : e2[k] \in 0 .. 31
  <2>1. \A k \in at + 1 .. L + 1 : e[k] + Power(L + 1 - k) \in 0 .. 31
    <3>1. ASSUME NEW k \in at + 1 .. L + 1 PROVE e[k] + Power(L + 1 - k) \in 0 .. 31
      <4>1. k \in 1 .. L + 1
        BY <1>2
      <4>2. e[k] \in 0 .. 31 /\ L + 1 - k \in 0 .. 4 /\ e[k] < Power(L + 1 - k)
        BY <1>5, <1>9, <4>1
      <4>3. Power(L + 1 - k) \in 1 .. 16
        BY <4>2, Powers
      <4> DEFINE x == e[k]
                 p == Power(L + 1 - k)
      <4>4. x \in 0 .. 31 /\ p \in 1 .. 16 /\ x < p
        BY <4>2, <4>3
      <4> HIDE DEF x, p
      <4>5. x + p \in 0 .. 31
        BY ONLY <4>4
      <4>6. QED BY <4>5 DEF x, p
    <3>2. QED BY <3>1
  <2>2. ASSUME NEW k \in 1 .. L + 2 PROVE e2[k] \in 0 .. 31
    <3>1. CASE k \in 1 .. at
      BY <1>2, <1>8, <1>9, <3>1
    <3>2. CASE k \in at + 1 .. L + 1
      BY <1>8, <2>1, <3>2
    <3>3. CASE k = L + 2
      BY <1>8, <3>3
    <3>4. QED BY <1>2, <3>1, <3>2, <3>3
  <2>3. QED BY <2>2
<1>12. e2 \in [1 .. L + 2 -> 0 .. 31]
  BY <1>11
<1> HIDE DEF e2, c2
<1>13. ASSUME NEW k \in 1 .. L + 1 PROVE Turn(out2, data, e2, c2, k)
  <2>1. CASE k \in 1 .. at - 1
    <3>1. k \in 1 .. at /\ k + 1 \in 1 .. at /\ k \in 1 .. L /\ k + 1 \in 1 .. L + 1 /\ k # at
      BY <1>2, <2>1
    <3>2. /\ out2[k] = out[k] /\ e2[k] = e[k] /\ c2[k] = c[k]
          /\ e2[k + 1] = e[k + 1] /\ c2[k + 1] = c[k + 1]
      BY <1>0, <1>8, <3>1
    <3>3. Turn(out, data, e, c, k)
      BY <1>3, <3>1
    <3>4. QED BY <3>2, <3>3 DEF Turn
  <2>2. CASE k = at
    <3>1. at + 1 \in at + 1 .. L + 1 /\ L + 1 - (at + 1) = L - at /\ at \in 1 .. L + 1
          /\ at + 1 \in 1 .. L + 1
      BY <1>2
    <3>2. /\ e2[at + 1] = (out[at] % 32) + Power(L - at) /\ c2[at + 1] = c2[at]
      BY <1>6, <1>8, <3>1
    <3>3. out2[at] = out[at] + Power(L - at)
      BY <1>0
    <3>4. out2[at] \in ESCAPES /\ out2[at] % 32 = (out[at] % 32) + Power(L - at)
      <4>1. L - at \in 0 .. 4
        BY <1>2
      <4>2. QED BY <1>7, <3>3, <4>1, EscapeBit
    <3>5. QED BY <2>2, <3>2, <3>4 DEF Turn
  <2>3. CASE k \in at + 1 .. L
    <3>1. /\ k \in at + 1 .. L + 1 /\ k + 1 \in at + 1 .. L + 1 /\ k \in 1 .. L /\ k # at
          /\ k \in 1 .. L + 1 /\ k + 1 \in 1 .. L + 1
          /\ L + 1 - k \in 1 .. 4 /\ L + 1 - (k + 1) = (L + 1 - k) - 1
      BY <1>2, <2>3
    <3>2. /\ out2[k] = out[k] /\ c2[k] = c[k] /\ c2[k + 1] = c[k + 1]
          /\ e2[k] = e[k] + Power(L + 1 - k) /\ e2[k + 1] = e[k + 1] + Power((L + 1 - k) - 1)
      BY <1>0, <1>8, <3>1
    <3>3. /\ Power(L + 1 - k) = 2 * Power((L + 1 - k) - 1)
          /\ Power((L + 1 - k) - 1) \in 1 .. 16
      <4>1. (L + 1 - k) - 1 \in 0 .. 4
        BY <3>1
      <4>2. QED BY <3>1, <4>1, Powers
    <3>4. e[k] \in 0 .. 31
      BY <1>9, <3>1
    <3>5. \A x \in 0 .. 31, p \in 1 .. 16 : /\ (x + 2 * p) \div 2 = (x \div 2) + p
                                            /\ (x + 2 * p) % 2 = x % 2
      <4>1. ASSUME NEW x \in 0 .. 31, NEW p \in 1 .. 16
            PROVE  (x + 2 * p) \div 2 = (x \div 2) + p /\ (x + 2 * p) % 2 = x % 2
        OBVIOUS
      <4>2. QED BY <4>1
    <3>6. e2[k] \div 2 = (e[k] \div 2) + Power((L + 1 - k) - 1) /\ e2[k] % 2 = e[k] % 2
      <4> DEFINE x == e[k]
                 p == Power((L + 1 - k) - 1)
      <4>1. x \in 0 .. 31 /\ p \in 1 .. 16 /\ e2[k] = x + 2 * p
        BY <3>2, <3>3, <3>4
      <4> HIDE DEF x, p
      <4>2. e2[k] \div 2 = (x \div 2) + p /\ e2[k] % 2 = x % 2
        BY <3>5, <4>1
      <4>3. QED BY <4>2 DEF x, p
    <3>7. Turn(out, data, e, c, k) /\ out[k] \notin ESCAPES
      BY <1>0, <1>3, <2>3, <3>1
    <3>8. QED BY <3>2, <3>6, <3>7 DEF Turn
  <2>4. CASE k = L + 1
    <3>1. L + 1 \in at + 1 .. L + 1 /\ L + 1 \in 1 .. L + 1 /\ L + 1 - (L + 1) = 0
      BY <1>2
    <3>2. e2[k] = 1 /\ c2[k] = n /\ e2[k + 1] = 0 /\ c2[k + 1] = n + 1
      <4>1. e2[L + 1] = 0 + Power(0) /\ c2[L + 1] = n
        BY <1>3, <1>8, <3>1
      <4>2. (L + 1) + 1 = L + 2
        OBVIOUS
      <4>3. QED BY <1>8, <2>4, <4>1, <4>2, Powers
    <3>3. out2[k] = b - 32
      BY <1>0, <2>4
    <3>4. 1 \div 2 = 0 /\ (b - 32) + 32 * (1 % 2) = b
      BY DEF Byte
    <3>5. QED BY <1>1, <3>2, <3>3, <3>4 DEF Turn
  <2>5. QED BY <1>2, <2>1, <2>2, <2>3, <2>4
<1>14. e2[1] = 0 /\ c2[1] = 0
  <2>1. 1 \in 1 .. at /\ 1 \in 1 .. L + 1
    BY <1>2
  <2>2. QED BY <1>3, <1>8, <2>1
<1>15. Decodes(out2, data, n + 1, e2, c2)
  <2>1. Len(out2) = L + 1 /\ Len(out2) + 1 = L + 2
    BY <1>0
  <2>2. QED BY <1>8, <1>10, <1>12, <1>13, <1>14, <2>1 DEF Decodes
<1>16. QED BY <1>15

\* The data loop after i turns: an ESCAPE byte has bits to give as long as fewer
\* than five data bytes follow it, and no newer one stands behind it.
LoopInv(out, at, remaining, data, i) ==
  /\ out \in Seq(Byte) /\ Len(out) \in i .. 2 * i
  /\ remaining \in 0 .. 4
  /\ \E e, c : Decodes(out, data, i, e, c)
  /\ remaining > 0 => /\ at \in 1 .. Len(out)
                      /\ Len(out) - at = 5 - remaining
                      /\ out[at] \in ESCAPES
                      /\ \A k \in at + 1 .. Len(out) : out[k] \notin ESCAPES

\* Before the first turn nothing has been written.
LEMMA LoopStart == ASSUME NEW data PROVE LoopInv(<<>>, 0, 0, data, 0)
<1> DEFINE e == [k \in 1 .. 1 |-> 0]
<1>1. e \in [1 .. 1 -> 0 .. 31] /\ e \in [1 .. 1 -> 0 .. 0] /\ e[1] = 0
  OBVIOUS
<1> HIDE DEF e
<1>2. <<>> \in Seq(Byte) /\ Len(<<>>) = 0
  OBVIOUS
<1>3. Decodes(<<>>, data, 0, e, e)
  BY <1>1, <1>2 DEF Decodes
<1>4. QED BY <1>2, <1>3 DEF LoopInv

\* A turn of the loop for a byte without bit 5: it takes the place of one escape,
\* if there is one left.
LEMMA LoopPlain ==
  ASSUME NEW data, NEW i \in Nat, NEW out, NEW at, NEW remaining,
         LoopInv(out, at, remaining, data, i),
         NEW b \in Byte, b = data[i + 1], ~ is_control(b),
         NEW left, left = IF remaining > 0 THEN remaining - 1 ELSE 0
  PROVE  LoopInv(Append(out, b), at, left, data, i + 1)
<1>0. PICK L \in Nat : L = Len(out)
  BY DEF LoopInv
<1>1. PICK out2 : L = Len(out) /\ out2 = Append(out, b)
  BY <1>0
<1>2. /\ out \in Seq(Byte) /\ L \in i .. 2 * i /\ remaining \in 0 .. 4
      /\ remaining > 0 => /\ at \in 1 .. L /\ L - at = 5 - remaining
                          /\ out[at] \in ESCAPES
                          /\ \A k \in at + 1 .. L : out[k] \notin ESCAPES
  BY <1>1 DEF LoopInv
<1>3. left \in 0 .. 4 /\ (left > 0 => remaining > 0 /\ left = remaining - 1)
  BY <1>2
<1>4. /\ out2 \in Seq(Byte) /\ Len(out2) = L + 1 /\ out2[L + 1] = b
      /\ \A k \in 1 .. L : out2[k] = out[k]
  BY <1>1, <1>2, AppendProperties
<1>5. \E e, c : Decodes(out2, data, i + 1, e, c)
  BY <1>1, <1>2, AppendPlain DEF LoopInv
<1>6. ASSUME left > 0
      PROVE  /\ at \in 1 .. L + 1 /\ (L + 1) - at = 5 - left
             /\ out2[at] \in ESCAPES
             /\ \A k \in at + 1 .. L + 1 : out2[k] \notin ESCAPES
  <2>1. /\ at \in 1 .. L /\ L - at = 5 - remaining /\ left = remaining - 1
        /\ out[at] \in ESCAPES
        /\ \A k \in at + 1 .. L : out[k] \notin ESCAPES
    BY <1>2, <1>3, <1>6
  <2>2. b \notin ESCAPES
    BY EscapeByte
  <2>3. ASSUME NEW k \in at + 1 .. L + 1 PROVE out2[k] \notin ESCAPES
    <3>1. CASE k = L + 1
      BY <1>4, <2>2, <3>1
    <3>2. CASE k \in at + 1 .. L
      <4>1. k \in 1 .. L
        BY <2>1, <3>2
      <4>2. QED BY <1>4, <2>1, <3>2, <4>1
    <3>3. QED BY <2>1, <3>1, <3>2
  <2>4. QED BY <1>2, <1>4, <2>1, <2>3
<1>7. Len(out2) \in i + 1 .. 2 * (i + 1)
  BY <1>2, <1>4
<1>8. LoopInv(out2, at, left, data, i + 1)
  BY <1>3, <1>4, <1>5, <1>6, <1>7 DEF LoopInv
<1>9. QED BY <1>1, <1>8

\* A turn for a byte with bit 5 when the newest ESCAPE byte has no bit left.
LEMMA LoopNewEscape ==
  ASSUME NEW data, NEW i \in Nat, NEW out, NEW at, NEW remaining,
         LoopInv(out, at, remaining, data, i),
         NEW b \in Byte, b = data[i + 1], is_control(b)
  PROVE  LoopInv(Append(Append(out, 97), b - 32), Len(out) + 1, 4, data, i + 1)
<1>0. PICK L \in Nat : L = Len(out)
  BY DEF LoopInv
<1>0a. PICK mid : mid = Append(out, 97)
  OBVIOUS
<1>0b. PICK out2 : out2 = Append(mid, b - 32)
  OBVIOUS
<1>1. L = Len(out) /\ mid = Append(out, 97) /\ out2 = Append(mid, b - 32)
  BY <1>0, <1>0a, <1>0b
<1>2. /\ out \in Seq(Byte) /\ L \in i .. 2 * i
      /\ \E e, c : Decodes(out, data, i, e, c)
  BY <1>1 DEF LoopInv
<1>3. 97 \in Byte /\ 97 \in ESCAPES
  BY DEF Byte, ESCAPES
<1>4. b - 32 \in Byte /\ b - 32 \notin ESCAPES
  BY Bit5, EscapeByte
<1>5. /\ mid \in Seq(Byte) /\ Len(mid) = L + 1 /\ mid[L + 1] = 97
  BY <1>1, <1>2, <1>3, AppendProperties
<1>6. /\ out2 \in Seq(Byte) /\ Len(out2) = L + 2 /\ out2[L + 2] = b - 32 /\ out2[L + 1] = 97
  BY <1>1, <1>4, <1>5, AppendProperties
<1>7. \E e, c : Decodes(out2, data, i + 1, e, c)
  BY <1>1, <1>2, AppendNewEscape
<1>8. Len(out2) \in i + 1 .. 2 * (i + 1)
  BY <1>2, <1>6
<1>9. LoopInv(out2, L + 1, 4, data, i + 1)
  BY <1>3, <1>4, <1>6, <1>7, <1>8 DEF LoopInv
<1>10. QED BY <1>1, <1>9

\* A turn for a byte with bit 5 when the newest ESCAPE byte has a bit left for it.
LEMMA LoopWithin ==
  ASSUME NEW data, NEW i \in Nat, NEW out, NEW at, NEW remaining,
         LoopInv(out, at, remaining, data, i), remaining > 0,
         NEW b \in Byte, b = data[i + 1], is_control(b)
  PROVE  LoopInv(Append([out EXCEPT ![at] = BIT_SET(@, 5 - remaining)], b - 32),
                 at, remaining - 1, data, i + 1)
<1>0. PICK L \in Nat : L = Len(out)
  BY DEF LoopInv
<1>0a. PICK set : set = [out EXCEPT ![at] = BIT_SET(@, 5 - remaining)]
  OBVIOUS
<1>0b. PICK out2 : out2 = Append(set, b - 32)
  OBVIOUS
<1>1. /\ L = Len(out)
      /\ set = [out EXCEPT ![at] = BIT_SET(@, 5 - remaining)]
      /\ out2 = Append(set, b - 32)
  BY <1>0, <1>0a, <1>0b
<1>2. /\ out \in Seq(Byte) /\ L \in i .. 2 * i /\ remaining \in 1 .. 4
      /\ at \in 1 .. L /\ L - at = 5 - remaining /\ out[at] \in ESCAPES
      /\ \A k \in at + 1 .. L : out[k] \notin ESCAPES
  BY <1>1 DEF LoopInv
<1>3. PICK e, c : Decodes(out, data, i, e, c)
  BY DEF LoopInv
<1>4. /\ b - 32 \in Byte /\ b - 32 \notin ESCAPES
  BY Bit5, EscapeByte
<1>5. out = [k \in 1 .. L |-> out[k]] /\ \A k \in 1 .. L : out[k] \in Byte
  BY <1>1, <1>2
<1>6. set = [k \in 1 .. L |-> IF k = at THEN BIT_SET(out[at], 5 - remaining) ELSE out[k]]
  BY <1>1, <1>5
<1>7. out[at] % 32 < Power(L - at)
  <2>1. Decodes(out, data, i, e, c) /\ at \in 1 .. Len(out) /\ Len(out) - at \in 1 .. 4
    BY <1>1, <1>2, <1>3
  <2>2. QED BY <1>1, <1>2, <2>1, EscapeRoom
<1>8. /\ BIT_SET(out[at], 5 - remaining) = out[at] + Power(L - at)
      /\ BIT_SET(out[at], 5 - remaining) \in ESCAPES
  <2>1. L - at \in 0 .. 4
    BY <1>2
  <2>2. QED BY <1>2, <1>7, <2>1, EscapeBit
<1>9. /\ set \in Seq(Byte) /\ Len(set) = L
      /\ set[at] = out[at] + Power(L - at) /\ set[at] \in ESCAPES
      /\ \A k \in 1 .. L : k # at => set[k] = out[k]
  <2>1. set[at] = BIT_SET(out[at], 5 - remaining)
    BY <1>2, <1>6
  <2>2. \A k \in 1 .. L : k # at => set[k] = out[k]
    BY <1>6
  <2>3. \A k \in 1 .. L : set[k] \in Byte
    BY <1>2, <1>5, <1>8, <2>1, <2>2, EscapeByte
  <2>4. DOMAIN set = 1 .. L /\ set = [k \in 1 .. L |-> set[k]]
    BY <1>6
  <2>5. set \in Seq(Byte) /\ Len(set) = L
    BY <2>3, <2>4
  <2>6. QED BY <1>8, <2>1, <2>2, <2>5
<1>10. /\ out2 \in Seq(Byte) /\ Len(out2) = L + 1 /\ out2[L + 1] = b - 32
       /\ \A k \in 1 .. L : out2[k] = set[k]
  BY <1>1, <1>4, <1>9, AppendProperties
<1>11. \E e2, c2 : Decodes(out2, data, i + 1, e2, c2)
  <2>1. at \in 1 .. Len(out) /\ Len(out) - at \in 1 .. 4 /\ Len(out2) = Len(out) + 1
    BY <1>1, <1>2, <1>10
  <2>2. out2[at] = out[at] + Power(Len(out) - at) /\ out2[Len(out) + 1] = b - 32
    BY <1>1, <1>2, <1>9, <1>10
  <2>3. \A k \in 1 .. Len(out) : k # at => out2[k] = out[k]
    BY <1>1, <1>9, <1>10
  <2>4. \A k \in at + 1 .. Len(out) : out[k] \notin ESCAPES
    BY <1>1, <1>2
  <2>5. out \in Seq(Byte) /\ out2 \in Seq(Byte) /\ out[at] \in ESCAPES
    BY <1>2, <1>10
  <2>6. QED BY <1>3, <2>1, <2>2, <2>3, <2>4, <2>5, AppendWithin, ZenonT(60)
<1>12. /\ at \in 1 .. L + 1 /\ (L + 1) - at = 5 - (remaining - 1) /\ out2[at] \in ESCAPES
  BY <1>2, <1>9, <1>10
<1>13. ASSUME NEW k \in at + 1 .. L + 1 PROVE out2[k] \notin ESCAPES
  <2>1. CASE k = L + 1
    BY <1>4, <1>10, <2>1
  <2>2. CASE k \in at + 1 .. L
    <3>1. k \in 1 .. L /\ k # at
      BY <1>2, <2>2
    <3>2. QED BY <1>2, <1>9, <1>10, <2>2, <3>1
  <2>3. QED BY <1>2, <2>1, <2>2
<1>14. Len(out2) \in i + 1 .. 2 * (i + 1) /\ remaining - 1 \in 0 .. 4
  BY <1>2, <1>10
<1>15. LoopInv(out2, at, remaining - 1, data, i + 1)
  BY <1>10, <1>11, <1>12, <1>13, <1>14 DEF LoopInv
<1>16. QED BY <1>1, <1>15

\* The new ESCAPE byte and its first bit.
LEMMA FirstBit ==
  ASSUME NEW out \in Seq(Byte)
  PROVE  LET new == Append(out, ESCAPE_BYTE)
         IN  [new EXCEPT ![Len(new)] = BIT_SET(@, 0)] = Append(out, 97)
<1>0. PICK L \in Nat : L = Len(out)
  OBVIOUS
<1>0a. PICK new : new = Append(out, 96)
  OBVIOUS
<1>0b. PICK one : one = Append(out, 97)
  OBVIOUS
<1>0c. PICK set : set = [new EXCEPT ![L + 1] = BIT_SET(@, 0)]
  OBVIOUS
<1>1. /\ L = Len(out) /\ new = Append(out, 96) /\ one = Append(out, 97)
      /\ set = [new EXCEPT ![L + 1] = BIT_SET(@, 0)]
  BY <1>0, <1>0a, <1>0b, <1>0c
<1>2. 96 \in Byte /\ 97 \in Byte /\ 96 \in ESCAPES
  BY DEF Byte, ESCAPES
<1>3. BIT_SET(96, 0) = 97
  <2>1. 96 % 32 < Power(0) /\ 96 + Power(0) = 97 /\ 0 \in 0 .. 4
    BY Powers
  <2>2. QED BY <1>2, <2>1, EscapeBit
<1>4. /\ new \in Seq(Byte) /\ Len(new) = L + 1 /\ new[L + 1] = 96
      /\ \A k \in 1 .. L : new[k] = out[k]
  BY <1>1, <1>2, AppendProperties
<1>5. /\ one \in Seq(Byte) /\ Len(one) = L + 1 /\ one[L + 1] = 97
      /\ \A k \in 1 .. L : one[k] = out[k]
  BY <1>1, <1>2, AppendProperties
<1>6. new = [k \in 1 .. L + 1 |-> new[k]] /\ one = [k \in 1 .. L + 1 |-> one[k]]
  BY <1>4, <1>5
<1>7. set = [k \in 1 .. L + 1 |-> IF k = L + 1 THEN 97 ELSE new[k]]
  BY <1>1, <1>3, <1>4, <1>6
<1>8. \A k \in 1 .. L + 1 : one[k] = IF k = L + 1 THEN 97 ELSE new[k]
  BY <1>4, <1>5
<1>9. set = one
  BY <1>6, <1>7, <1>8
<1>10. QED BY <1>1, <1>4, <1>9, EscapeByte

\* One turn of the loop, whatever the byte.
LEMMA LoopTurn ==
  ASSUME NEW data, NEW i \in Nat, NEW s,
         LoopInv(s.out, s.at, s.remaining, data, i), s.available <=> s.remaining > 0,
         NEW b \in Byte, b = data[i + 1], NEW s2, s2 = serialize_byte(s, b)
  PROVE  /\ LoopInv(s2.out, s2.at, s2.remaining, data, i + 1)
         /\ s2.available <=> s2.remaining > 0
<1>1. PICK out, at, remaining : out = s.out /\ at = s.at /\ remaining = s.remaining
  OBVIOUS
<1>2. LoopInv(out, at, remaining, data, i) /\ (s.available <=> remaining > 0)
  BY <1>1
<1>3. out \in Seq(Byte) /\ remaining \in 0 .. 4
  BY <1>2 DEF LoopInv
<1>4. CASE ~ is_control(b)
  <2>1. PICK left : left = IF remaining > 0 THEN remaining - 1 ELSE 0
    OBVIOUS
  <2>2. /\ s2.out = Append(out, b) /\ s2.at = at /\ s2.remaining = left
        /\ s2.available <=> s.available /\ left > 0
    BY <1>1, <1>4, <2>1 DEF serialize_byte
  <2>3. LoopInv(Append(out, b), at, left, data, i + 1)
    BY <1>2, <1>4, <2>1, LoopPlain
  <2>4. s.available /\ left > 0 <=> left > 0
    BY <1>2, <1>3, <2>1
  <2>5. QED BY <2>2, <2>3, <2>4
<1>5. CASE is_control(b) /\ ~ s.available
  <2>1. Len(Append(out, ESCAPE_BYTE)) = Len(out) + 1
    <3>1. ESCAPE_BYTE \in Byte
      BY EscapeByte DEF Byte
    <3>2. QED BY <1>3, <3>1, AppendProperties
  <2>2. BIT_CLEAR(b, FRAME_RESERVED) = b - 32
    BY <1>5, Bit5
  <2>3. NUM_ESCAPE_BYTES - 1 = 4 /\ NUM_ESCAPE_BYTES - 1 - 4 = 0
    BY DEF NUM_ESCAPE_BYTES
  <2>4. PICK new : new = Append(out, ESCAPE_BYTE)
    OBVIOUS
  <2>5. /\ s2.out = Append([new EXCEPT ![Len(new)] = BIT_SET(@, 0)], b - 32)
        /\ s2.at = Len(new) /\ s2.remaining = 4
        /\ s2.available <=> 4 > 0
    BY <1>1, <1>5, <2>2, <2>3, <2>4 DEF serialize_byte
  <2>6. [new EXCEPT ![Len(new)] = BIT_SET(@, 0)] = Append(out, 97)
    BY <1>3, <2>4, FirstBit
  <2>7. LoopInv(Append(Append(out, 97), b - 32), Len(out) + 1, 4, data, i + 1)
    BY <1>2, <1>5, LoopNewEscape
  <2>8. QED BY <2>1, <2>4, <2>5, <2>6, <2>7
<1>6. CASE is_control(b) /\ s.available
  <2>1. BIT_CLEAR(b, FRAME_RESERVED) = b - 32
    BY <1>6, Bit5
  <2>2. remaining > 0 /\ NUM_ESCAPE_BYTES - 1 - (remaining - 1) = 5 - remaining
    BY <1>2, <1>3, <1>6 DEF NUM_ESCAPE_BYTES
  <2>3. /\ s2.out = Append([out EXCEPT ![at] = BIT_SET(@, 5 - remaining)], b - 32)
        /\ s2.at = at /\ s2.remaining = remaining - 1
        /\ s2.available <=> remaining - 1 > 0
    BY <1>1, <1>6, <2>1, <2>2 DEF serialize_byte
  <2>4. LoopInv(Append([out EXCEPT ![at] = BIT_SET(@, 5 - remaining)], b - 32),
                at, remaining - 1, data, i + 1)
    BY <1>2, <1>6, <2>2, LoopWithin
  <2>5. QED BY <2>3, <2>4
<1>7. QED BY <1>4, <1>5, <1>6

\* What the data loop writes for any data: bytes of which each is an ESCAPE byte or
\* a byte without bit 5, at most twice as many as the data, and from which the data
\* can be read back with no escape left over.
THEOREM DataDecodes ==
  ASSUME NEW data \in Seq(Byte)
  PROVE  /\ serialize_data(data) \in Seq(Byte)
         /\ Len(serialize_data(data)) \in Len(data) .. 2 * Len(data)
         /\ \E e, c : Decodes(serialize_data(data), data, Len(data), e, c)
<1>1. PICK h : /\ h[0] = start
               /\ \A i \in 1 .. Len(data) : h[i] = serialize_byte(h[i - 1], data[i])
               /\ serialize_data(data) = h[Len(data)].out
  BY LoopTurns
<1> DEFINE Good(i) == /\ LoopInv(h[i].out, h[i].at, h[i].remaining, data, i)
                      /\ h[i].available <=> h[i].remaining > 0
           S == {i \in Nat : i <= Len(data) => Good(i)}
<1>2. 0 \in S
  <2>1. start.out = <<>> /\ start.at = 0 /\ start.remaining = 0 /\ ~ start.available
    BY DEF start
  <2>2. QED BY <1>1, <2>1, LoopStart
<1>3. ASSUME NEW i \in Nat, i \in S PROVE i + 1 \in S
  <2> SUFFICES ASSUME i + 1 <= Len(data) PROVE Good(i + 1)
    OBVIOUS
  <2>1. Good(i)
    BY <1>3
  <2>2. i + 1 \in 1 .. Len(data) /\ (i + 1) - 1 = i /\ data[i + 1] \in Byte
    OBVIOUS
  <2>3. h[i + 1] = serialize_byte(h[i], data[i + 1])
    BY <1>1, <2>2
  <2>4. QED BY <2>1, <2>2, <2>3, LoopTurn
<1> HIDE DEF S
<1>4. Nat \subseteq S
  BY <1>2, <1>3, NatInd
<1>5. Len(data) \in Nat
  OBVIOUS
<1>6. Good(Len(data))
  BY <1>4, <1>5 DEF S
<1>7. QED BY <1>1, <1>6 DEF LoopInv

------------------------------------------------------------------------------
(* The receiver, byte by byte *)

Receivers == [buffer : Seq(Byte), escape_buffer : 0 .. 31, crc_present : BOOLEAN,
              byte_order : {0, 1}, packet : [command : Byte, data : Seq(Byte)]]

\* A receiver that has read nothing is a receiver.
LEMMA InitType == receiver_init \in Receivers
<1>1. <<>> \in Seq(Byte) /\ 0 \in Byte
  BY DEF Byte
<1>2. QED BY <1>1 DEF receiver_init, NoPacket, Receivers

\* A byte of data.
LEMMA RxData ==
  ASSUME NEW rx \in Receivers, NEW b \in Byte, ~ is_control(b)
  PROVE  LET add == IF rx.escape_buffer % 2 = 1 THEN b + 32 ELSE b
         IN /\ add \in Byte
            /\ rx_byte(rx, b) = [rx EXCEPT !.buffer        = Append(rx.buffer, add),
                                           !.escape_buffer = rx.escape_buffer \div 2]
            /\ ~ rx_notifies(rx, b)
<1>1. rx_byte(rx, b) = rx_data(rx, b)
  BY DEF rx_byte, is_tail
<1>2. BIT_SET(b, FRAME_RESERVED) = b + 32 /\ b + 32 \in Byte
  BY Bit5
<1>3. QED BY <1>1, <1>2 DEF rx_data, rx_notifies, is_tail

\* An ESCAPE byte.
LEMMA RxEscape ==
  ASSUME NEW rx \in Receivers, NEW b \in ESCAPES
  PROVE  /\ rx_byte(rx, b) = [rx EXCEPT !.escape_buffer = b % 32]
         /\ ~ rx_notifies(rx, b)
<1>1. is_control(b) /\ is_set(b, FRAME_ESCAPE)
  BY EscapeByte
<1>2. rx_byte(rx, b) = rx_escape(rx, b)
  BY <1>1 DEF rx_byte, is_tail
<1>3. 2 ^ NUM_ESCAPE_BYTES = 32
  BY DEF NUM_ESCAPE_BYTES
<1>4. QED BY <1>1, <1>2, <1>3 DEF rx_escape, rx_notifies, is_tail

\* The HEAD byte of a frame.
LEMMA RxHead ==
  ASSUME NEW rx \in Receivers, NEW byte_order \in {0, 1}, NEW crc_present \in BOOLEAN,
         NEW head, head = create_cmd_byte(HEAD, byte_order, crc_present)
  PROVE  /\ ~ rx_notifies(rx, head)
         /\ rx_byte(rx, head).buffer = <<>>
         /\ rx_byte(rx, head).escape_buffer = rx.escape_buffer
         /\ rx_byte(rx, head).crc_present = crc_present
         /\ rx_byte(rx, head).byte_order = byte_order
         /\ rx_byte(rx, head).packet = rx.packet
<1>1. /\ is_control(head) /\ ~ is_set(head, FRAME_ESCAPE) /\ is_set(head, FRAME_MARKER)
      /\ is_set(head, FRAME_CRC) = crc_present /\ bit(head, FRAME_ENDIAN) = byte_order
  BY Markers
<1>2. rx_byte(rx, head) = rx_head(rx, head) /\ ~ rx_notifies(rx, head)
  BY <1>1 DEF rx_byte, rx_notifies, is_tail
<1>3. QED BY <1>1, <1>2 DEF rx_head, Receivers

\* The TAIL byte of a frame.
LEMMA RxTail ==
  ASSUME NEW rx \in Receivers, NEW byte_order \in {0, 1}, NEW crc_present \in BOOLEAN,
         NEW tail, tail = create_cmd_byte(TAIL, byte_order, crc_present)
  PROVE  /\ rx_byte(rx, tail) = IF rx_notifies(rx, tail) THEN rx_tail(rx) ELSE rx
         /\ rx.crc_present = crc_present /\ rx.byte_order = byte_order =>
              rx_notifies(rx, tail)
<1>1. /\ is_tail(tail)
      /\ is_set(tail, FRAME_CRC) = crc_present /\ bit(tail, FRAME_ENDIAN) = byte_order
  BY Markers
<1>2. is_control(tail) /\ ~ is_set(tail, FRAME_ESCAPE) /\ ~ is_set(tail, FRAME_MARKER)
  BY <1>1 DEF is_tail
<1>3. rx_byte(rx, tail) = IF tail_matches(rx, tail) THEN rx_tail(rx) ELSE rx
  BY <1>1, <1>2 DEF rx_byte
<1>4. rx_notifies(rx, tail) <=> tail_matches(rx, tail)
  BY <1>1 DEF rx_notifies
<1>5. rx.crc_present = crc_present /\ rx.byte_order = byte_order => tail_matches(rx, tail)
  BY <1>1 DEF tail_matches
<1>6. QED BY <1>3, <1>4, <1>5

\* Whatever byte comes, a receiver stays a receiver.
LEMMA RxType ==
  ASSUME NEW rx \in Receivers, NEW b \in Byte
  PROVE  rx_byte(rx, b) \in Receivers
<1>0. /\ rx.buffer \in Seq(Byte) /\ rx.escape_buffer \in 0 .. 31
      /\ rx.packet \in [command : Byte, data : Seq(Byte)]
  BY DEF Receivers
<1>1. CASE ~ is_control(b)
  <2>1. PICK add \in Byte :
          rx_byte(rx, b) = [rx EXCEPT !.buffer        = Append(rx.buffer, add),
                                      !.escape_buffer = rx.escape_buffer \div 2]
    BY <1>1, RxData
  <2>2. Append(rx.buffer, add) \in Seq(Byte) /\ rx.escape_buffer \div 2 \in 0 .. 31
    <3>1. Append(rx.buffer, add) \in Seq(Byte)
      BY <1>0, AppendProperties
    <3>2. \A x \in 0 .. 31 : x \div 2 \in 0 .. 31
      OBVIOUS
    <3>3. QED BY <1>0, <3>1, <3>2
  <2>3. QED BY <2>1, <2>2 DEF Receivers
<1>2. CASE is_control(b) /\ is_set(b, FRAME_ESCAPE)
  <2>1. rx_byte(rx, b) = [rx EXCEPT !.escape_buffer = b % 32]
    <3>1. 2 ^ NUM_ESCAPE_BYTES = 32
      BY DEF NUM_ESCAPE_BYTES
    <3>2. QED BY <1>2, <3>1 DEF rx_byte, is_tail, rx_escape
  <2>2. b % 32 \in 0 .. 31
    BY DEF Byte
  <2>3. QED BY <2>1, <2>2 DEF Receivers
<1>3. CASE is_control(b) /\ ~ is_set(b, FRAME_ESCAPE) /\ is_set(b, FRAME_MARKER)
  <2>1. rx_byte(rx, b) = rx_head(rx, b)
    BY <1>3 DEF rx_byte, is_tail
  <2>2. is_set(b, FRAME_CRC) \in BOOLEAN /\ bit(b, FRAME_ENDIAN) \in {0, 1} /\ <<>> \in Seq(Byte)
    <3>1. bit(b, FRAME_ENDIAN) = b \div 128
      BY Bits
    <3>2. b \div 128 \in {0, 1}
      BY DEF Byte
    <3>3. QED BY <3>1, <3>2 DEF is_set
  <2>3. QED BY <2>1, <2>2 DEF rx_head, Receivers
<1>4. CASE is_tail(b)
  <2>1. rx_byte(rx, b) = IF tail_matches(rx, b) THEN rx_tail(rx) ELSE rx
    BY <1>4 DEF rx_byte, is_tail
  <2>2. \A i \in Nat : buffer_at(rx, i) \in Byte
    <3>1. ASSUME NEW i \in Nat, i < Len(rx.buffer) PROVE rx.buffer[i + 1] \in Byte
      <4>1. i + 1 \in 1 .. Len(rx.buffer)
        BY <1>0, <3>1
      <4>2. QED BY <1>0, <4>1
    <3>2. 0 \in Byte
      BY DEF Byte
    <3>3. QED BY <3>1, <3>2 DEF buffer_at
  <2>3. restore_r(buffer_at(rx, 0)) \in Nat
    <3>1. buffer_at(rx, 0) \in Nat
      BY <2>2 DEF Byte
    <3>2. QED BY <3>1, LengthByte
  <2>4. PICK n \in Nat : n = restore_r(buffer_at(rx, 0))
    BY <2>3
  <2>5. [i \in 1 .. n |-> buffer_at(rx, i + 1)] \in Seq(Byte)
    <3>1. \A i \in 1 .. n : buffer_at(rx, i + 1) \in Byte
      BY <2>2
    <3>2. QED BY <3>1
  <2>6. rx_tail(rx) \in Receivers
    BY <1>0, <2>2, <2>4, <2>5 DEF rx_tail, Receivers
  <2>7. QED BY <2>1, <2>6
<1>5. QED BY <1>1, <1>2, <1>3, <1>4 DEF is_tail

------------------------------------------------------------------------------
(* Whole frames *)

\* What a receiver has in its buffer at the end of a frame: the length, the command
\* and the data, with the CRC byte behind it when there is one.
content(command, data, crc_present) ==
  <<create_r(Len(data)), command>> \o (IF crc_present THEN Append(data, CRC) ELSE data)

\* F is a frame that carries data_in.  A receiver that was clean before it has e[k] in
\* its escape buffer and c[k] bytes of data_in when the k-th byte arrives.
IsFrame(F, data_in, byte_order, crc_present, e, c) ==
  LET last == Len(F) IN
  /\ F \in Seq(Byte) /\ last >= 4 /\ data_in \in Seq(Byte)
  /\ F[1] = create_cmd_byte(HEAD, byte_order, crc_present)
  /\ F[last] = create_cmd_byte(TAIL, byte_order, crc_present)
  /\ e \in [1 .. last -> 0 .. 31] /\ c \in [1 .. last -> 0 .. Len(data_in)]
  /\ e[1] = 0 /\ c[1] = 0 /\ e[2] = 0 /\ c[2] = 0
  /\ e[last] = 0 /\ c[last] = Len(data_in)
  /\ \A k \in 2 .. last - 1 : Turn(F, data_in, e, c, k)

\* A frame consists of bytes, whatever its command byte is.
LEMMA FrameBytes ==
  ASSUME NEW cmd \in Byte, NEW data \in Seq(Byte), NEW byte_order \in {0, 1}
  PROVE  serialize_frame(cmd, data, byte_order, FALSE) \in Seq(Byte)
<1>1. PICK out \in Seq(Byte) : out = serialize_data(data)
  BY DataDecodes
<1>2. PICK head \in Byte : head = create_cmd_byte(HEAD, byte_order, FALSE)
  BY Markers
<1>3. PICK tail \in Byte : tail = create_cmd_byte(TAIL, byte_order, FALSE)
  BY Markers
<1>4. PICK size \in Byte : size = create_r(Len(data))
  <2>1. Len(data) \in Nat
    OBVIOUS
  <2>2. QED BY <2>1, LengthByte
<1>5. <<head, size, cmd>> \o out \o <<tail>> \in Seq(Byte)
  OBVIOUS
<1>6. QED BY <1>1, <1>2, <1>3, <1>4, <1>5 DEF serialize_frame

\* Every frame that is sent is a frame, and at most twice as long as what it carries.
LEMMA FramesAreFrames ==
  ASSUME NEW cmd \in Byte, ~ is_control(cmd), NEW data \in Seq(Byte),
         NEW byte_order \in {0, 1}, NEW crc_present \in BOOLEAN
  PROVE  LET F == serialize_frame(cmd, data, byte_order, crc_present)
             data_in == content(cmd, data, crc_present)
         IN  /\ \E e, c : IsFrame(F, data_in, byte_order, crc_present, e, c)
             /\ Len(F) \in Len(data_in) + 2 .. 2 * Len(data_in)
             /\ Len(data_in) = Len(data) + 2 + (IF crc_present THEN 1 ELSE 0)
<1>1. PICK D : D = IF crc_present THEN Append(data, CRC) ELSE data
  OBVIOUS
<1>2. CRC \in Byte
  BY DEF CRC, Byte
<1>3. D \in Seq(Byte) /\ Len(D) = Len(data) + (IF crc_present THEN 1 ELSE 0)
  BY <1>1, <1>2, AppendProperties
<1>4. PICK out : out = serialize_data(D)
  OBVIOUS
<1>5. out \in Seq(Byte) /\ Len(out) \in Len(D) .. 2 * Len(D)
  BY <1>3, <1>4, DataDecodes
<1>6. PICK e, c : Decodes(out, D, Len(D), e, c)
  BY <1>3, <1>4, DataDecodes
<1>7. PICK L \in Nat : L = Len(out)
  BY <1>5
<1>8. PICK n \in Nat : n = Len(D)
  BY <1>3
<1>9. PICK head : head = create_cmd_byte(HEAD, byte_order, crc_present)
  OBVIOUS
<1>10. PICK tail : tail = create_cmd_byte(TAIL, byte_order, crc_present)
  OBVIOUS
<1>11. PICK size : size = create_r(Len(data))
  OBVIOUS
<1>12. head \in Byte /\ tail \in Byte
  BY <1>9, <1>10, Markers
<1>13. size \in Byte /\ ~ is_control(size)
  <2>1. Len(data) \in Nat
    OBVIOUS
  <2>2. QED BY <1>11, <2>1, LengthByte
<1>14. PICK F : F = <<head, size, cmd>> \o out \o <<tail>>
  OBVIOUS
<1>15. PICK data_in : data_in = <<size, cmd>> \o D
  OBVIOUS
<1>16. /\ F \in Seq(Byte) /\ Len(F) = L + 4
       /\ F[1] = head /\ F[2] = size /\ F[3] = cmd /\ F[L + 4] = tail
       /\ \A k \in 1 .. L : F[k + 3] = out[k]
  <2>1. PICK start3 : start3 = <<head, size, cmd>>
    OBVIOUS
  <2>2. /\ start3 \in Seq(Byte) /\ Len(start3) = 3
        /\ start3[1] = head /\ start3[2] = size /\ start3[3] = cmd
    BY <1>12, <1>13, <2>1
  <2>3. PICK most : most = start3 \o out
    OBVIOUS
  <2>4. /\ most \in Seq(Byte) /\ Len(most) = L + 3
        /\ \A k \in 1 .. L + 3 : most[k] = IF k <= 3 THEN start3[k] ELSE out[k - 3]
    <3>0. Len(start3) + Len(out) = L + 3
      BY <1>7, <2>2
    <3>1. Len(start3 \o out) = Len(start3) + Len(out) /\ Len(start3) + Len(out) = L + 3
      BY <1>5, <2>2, <3>0, ConcatProperties
    <3>2. start3 \o out \in Seq(Byte)
      BY <1>5, <2>2, ConcatProperties
    <3>3. \A k \in 1 .. Len(start3) + Len(out) :
            (start3 \o out)[k] = IF k <= Len(start3) THEN start3[k] ELSE out[k - Len(start3)]
      BY <1>5, <2>2, ConcatProperties
    <3>4. QED BY <2>2, <2>3, <3>1, <3>2, <3>3
  <2>5. most[1] = head /\ most[2] = size /\ most[3] = cmd
    BY <2>2, <2>4
  <2>6. ASSUME NEW k \in 1 .. L PROVE most[k + 3] = out[k]
    <3>1. k + 3 \in 1 .. L + 3 /\ ~ k + 3 <= 3 /\ (k + 3) - 3 = k
      OBVIOUS
    <3>2. QED BY <2>4, <3>1
  <2>7. F = most \o <<tail>>
    BY <1>14, <2>1, <2>3
  <2>8. <<tail>> \in Seq(Byte) /\ Len(<<tail>>) = 1 /\ <<tail>>[1] = tail
    BY <1>12
  <2>9. /\ F \in Seq(Byte) /\ Len(F) = L + 4
        /\ \A k \in 1 .. L + 4 : F[k] = IF k <= L + 3 THEN most[k] ELSE <<tail>>[k - (L + 3)]
    BY <2>4, <2>7, <2>8, ConcatProperties
  <2>10. F[L + 4] = tail
    <3>1. L + 4 \in 1 .. L + 4 /\ ~ L + 4 <= L + 3 /\ (L + 4) - (L + 3) = 1
      OBVIOUS
    <3>2. QED BY <2>8, <2>9, <3>1
  <2>11. ASSUME NEW k \in 1 .. L + 3 PROVE F[k] = most[k]
    BY <2>9
  <2>12. F[1] = most[1] /\ F[2] = most[2] /\ F[3] = most[3]
    BY <2>11
  <2>13. ASSUME NEW k \in 1 .. L PROVE F[k + 3] = out[k]
    BY <2>6, <2>11
  <2>14. QED BY <2>5, <2>9, <2>10, <2>12, <2>13
<1>17. /\ data_in \in Seq(Byte) /\ Len(data_in) = n + 2
       /\ data_in[1] = size /\ data_in[2] = cmd
       /\ \A k \in 1 .. n : data_in[k + 2] = D[k]
  <2>1. PICK first : first = <<size, cmd>>
    OBVIOUS
  <2>2. first \in Seq(Byte) /\ Len(first) = 2 /\ first[1] = size /\ first[2] = cmd
    BY <1>13, <2>1
  <2>3. /\ data_in \in Seq(Byte) /\ Len(data_in) = n + 2
        /\ \A k \in 1 .. n + 2 : data_in[k] = IF k <= 2 THEN first[k] ELSE D[k - 2]
    BY <1>3, <1>8, <1>15, <2>1, <2>2, ConcatProperties
  <2>4. ASSUME NEW k \in 1 .. n PROVE data_in[k + 2] = D[k]
    <3>1. k + 2 \in 1 .. n + 2 /\ ~ k + 2 <= 2 /\ (k + 2) - 2 = k
      OBVIOUS
    <3>2. QED BY <2>3, <3>1
  <2>5. data_in[1] = size /\ data_in[2] = cmd
    BY <2>2, <2>3
  <2>6. QED BY <2>3, <2>4, <2>5
<1> DEFINE e2 == [k \in 1 .. L + 4 |-> IF k <= 3 THEN 0 ELSE e[k - 3]]
           c2 == [k \in 1 .. L + 4 |-> IF k <= 3 THEN (IF k = 3 THEN 1 ELSE 0) ELSE c[k - 3] + 2]
<1>18. /\ e \in [1 .. L + 1 -> 0 .. 31] /\ c \in [1 .. L + 1 -> 0 .. n]
       /\ e[1] = 0 /\ c[1] = 0 /\ e[L + 1] = 0 /\ c[L + 1] = n
       /\ \A k \in 1 .. L : Turn(out, D, e, c, k)
  BY <1>6, <1>7, <1>8 DEF Decodes
<1>19. /\ e2[1] = 0 /\ e2[2] = 0 /\ e2[3] = 0
       /\ c2[1] = 0 /\ c2[2] = 0 /\ c2[3] = 1
  OBVIOUS
<1>20. ASSUME NEW k \in 1 .. L + 1 PROVE e2[k + 3] = e[k] /\ c2[k + 3] = c[k] + 2
  <2>1. k + 3 \in 1 .. L + 4 /\ ~ k + 3 <= 3 /\ (k + 3) - 3 = k
    OBVIOUS
  <2>2. QED BY <2>1
<1>21. e2 \in [1 .. L + 4 -> 0 .. 31] /\ c2 \in [1 .. L + 4 -> 0 .. n + 2]
  <2>1. ASSUME NEW k \in 1 .. L + 4, k > 3 PROVE e[k - 3] \in 0 .. 31 /\ c[k - 3] + 2 \in 0 .. n + 2
    <3>1. k - 3 \in 1 .. L + 1
      BY <2>1
    <3>2. e[k - 3] \in 0 .. 31 /\ c[k - 3] \in 0 .. n
      BY <1>18, <3>1
    <3>3. \A x \in 0 .. n : x + 2 \in 0 .. n + 2
      OBVIOUS
    <3>4. QED BY <3>2, <3>3
  <2>2. ASSUME NEW k \in 1 .. L + 4 PROVE e2[k] \in 0 .. 31 /\ c2[k] \in 0 .. n + 2
    BY <2>1
  <2>3. QED BY <2>2
<1> HIDE DEF e2, c2
<1>22. ASSUME NEW k \in 2 .. L + 3 PROVE Turn(F, data_in, e2, c2, k)
  <2>1. CASE k = 2
    <3>1. e2[2] = 0 /\ e2[2 + 1] = 0 /\ c2[2] = 0 /\ c2[2 + 1] = 1 /\ F[2] = size /\ data_in[0 + 1] = size
      BY <1>16, <1>17, <1>19
    <3>2. 0 \div 2 = 0 /\ size + 32 * (0 % 2) = size
      BY <1>13 DEF Byte
    <3>3. QED BY <1>13, <2>1, <3>1, <3>2 DEF Turn
  <2>2. CASE k = 3
    <3>1. 1 \in 1 .. L + 1 /\ 1 + 3 = 3 + 1
      OBVIOUS
    <3>2. e2[3 + 1] = 0 /\ c2[3 + 1] = 2
      BY <1>18, <1>20, <3>1
    <3>3. e2[3] = 0 /\ c2[3] = 1 /\ F[3] = cmd /\ data_in[1 + 1] = cmd
      BY <1>16, <1>17, <1>19
    <3>4. 0 \div 2 = 0 /\ cmd + 32 * (0 % 2) = cmd
      BY DEF Byte
    <3>5. QED BY <2>2, <3>2, <3>3, <3>4 DEF Turn
  <2>3. CASE k > 3
    <3>1. PICK j \in 1 .. L : k = j + 3
      <4>1. k - 3 \in 1 .. L /\ k = (k - 3) + 3
        BY <2>3
      <4>2. QED BY <4>1
    <3>2. j \in 1 .. L + 1 /\ j + 1 \in 1 .. L + 1 /\ (j + 1) + 3 = k + 1
      BY <3>1
    <3>3. /\ e2[k] = e[j] /\ c2[k] = c[j] + 2 /\ e2[k + 1] = e[j + 1] /\ c2[k + 1] = c[j + 1] + 2
          /\ F[k] = out[j]
      BY <1>16, <1>20, <3>1, <3>2
    <3>4. c[j] \in 0 .. n /\ c[j + 1] \in 0 .. n
      BY <1>18, <3>2
    <3>5. Turn(out, D, e, c, j)
      BY <1>18, <3>1
    <3>6. CASE out[j] \in ESCAPES /\ e[j + 1] = out[j] % 32 /\ c[j + 1] = c[j]
      BY <3>3, <3>6 DEF Turn
    <3>7. CASE /\ out[j] \in Byte /\ ~ is_control(out[j])
               /\ e[j + 1] = e[j] \div 2 /\ c[j + 1] = c[j] + 1
               /\ D[c[j] + 1] = out[j] + 32 * (e[j] % 2)
      <4>1. c[j] + 1 \in 1 .. n /\ (c[j] + 2) + 1 = (c[j] + 1) + 2
        BY <3>4, <3>7
      <4>2. data_in[(c[j] + 2) + 1] = D[c[j] + 1]
        BY <1>17, <4>1
      <4>3. c2[k + 1] = c2[k] + 1
        BY <3>3, <3>4, <3>7
      <4>4. QED BY <3>3, <3>7, <4>2, <4>3 DEF Turn
    <3>8. QED BY <3>5, <3>6, <3>7 DEF Turn
  <2>4. QED BY <2>1, <2>2, <2>3
<1>23. e2[L + 4] = 0 /\ c2[L + 4] = n + 2
  <2>1. L + 1 \in 1 .. L + 1 /\ (L + 1) + 3 = L + 4
    OBVIOUS
  <2>2. QED BY <1>18, <1>20, <2>1
<1>24. IsFrame(F, data_in, byte_order, crc_present, e2, c2)
  <2>1. (L + 4) - 1 = L + 3 /\ L + 4 >= 4
    OBVIOUS
  <2>2. QED BY <1>9, <1>10, <1>16, <1>17, <1>19, <1>21, <1>22, <1>23, <2>1 DEF IsFrame
<1>25. F = serialize_frame(cmd, data, byte_order, crc_present)
  BY <1>1, <1>4, <1>9, <1>10, <1>11, <1>14 DEF serialize_frame
<1>26. data_in = content(cmd, data, crc_present)
  BY <1>1, <1>11, <1>15 DEF content
<1>27. Len(F) \in Len(data_in) + 2 .. 2 * Len(data_in)
  <2>1. L \in n .. 2 * n
    BY <1>5, <1>7, <1>8
  <2>2. QED BY <1>16, <1>17, <2>1
<1>28. Len(data_in) = Len(data) + 2 + (IF crc_present THEN 1 ELSE 0)
  BY <1>3, <1>8, <1>17
<1>29. QED BY <1>24, <1>25, <1>26, <1>27, <1>28

\* The first n bytes of data_in are in the buffer of a receiver.
Buffered(rx, data_in, byte_order, crc_present, n) ==
  /\ rx.crc_present = crc_present /\ rx.byte_order = byte_order
  /\ Len(rx.buffer) = n
  /\ \A i \in 1 .. n : rx.buffer[i] = data_in[i]

\* Escapes that were left over from before the frame are below this after n bytes of
\* data: each of them shifts one out.
Left(n) == IF n <= 4 THEN <<32, 16, 8, 4, 2>>[n + 1] ELSE 1

\* A byte of data shifts one of the bits out.
LEMMA LeftShifts ==
  ASSUME NEW n \in Nat, NEW x \in 0 .. 31, x < Left(n)
  PROVE  x \div 2 < Left(n + 1)
<1>1. /\ Left(0) = 32 /\ Left(1) = 16 /\ Left(2) = 8 /\ Left(3) = 4 /\ Left(4) = 2
      /\ Left(5) = 1
  BY DEF Left
<1>2. \A m \in Nat : m > 4 => Left(m) = 1
  BY DEF Left
<1>3. CASE n = 0
  BY <1>1, <1>3
<1>4. CASE n = 1
  BY <1>1, <1>4
<1>5. CASE n = 2
  BY <1>1, <1>5
<1>6. CASE n = 3
  BY <1>1, <1>6
<1>7. CASE n = 4
  BY <1>1, <1>7
<1>8. CASE n > 4
  BY <1>2, <1>8
<1>9. QED BY <1>3, <1>4, <1>5, <1>6, <1>7, <1>8

\* HEAD begins a frame and leaves the escapes as they are.
LEMMA FrameHead ==
  ASSUME NEW F, NEW data_in, NEW byte_order \in {0, 1}, NEW crc_present \in BOOLEAN,
         NEW e, NEW c, IsFrame(F, data_in, byte_order, crc_present, e, c),
         NEW rx \in Receivers, NEW rx2, rx2 = rx_byte(rx, F[1])
  PROVE  /\ ~ rx_notifies(rx, F[1])
         /\ rx2.escape_buffer = rx.escape_buffer
         /\ Buffered(rx2, data_in, byte_order, crc_present, 0)
<1>1. F[1] = create_cmd_byte(HEAD, byte_order, crc_present)
  BY DEF IsFrame
<1>2. /\ ~ rx_notifies(rx, F[1])
      /\ rx2.buffer = <<>> /\ rx2.escape_buffer = rx.escape_buffer
      /\ rx2.crc_present = crc_present /\ rx2.byte_order = byte_order
  <2>1. PICK head : head = F[1]
    OBVIOUS
  <2>2. head = create_cmd_byte(HEAD, byte_order, crc_present) /\ rx2 = rx_byte(rx, head)
    BY <1>1, <2>1
  <2>3. /\ ~ rx_notifies(rx, head)
        /\ rx_byte(rx, head).buffer = <<>>
        /\ rx_byte(rx, head).escape_buffer = rx.escape_buffer
        /\ rx_byte(rx, head).crc_present = crc_present
        /\ rx_byte(rx, head).byte_order = byte_order
        /\ rx_byte(rx, head).packet = rx.packet
    BY <2>2, RxHead
  <2>4. QED BY <2>1, <2>2, <2>3, Zenon
<1>3. Len(<<>>) = 0
  OBVIOUS
<1>4. QED BY <1>2, <1>3 DEF Buffered

\* What the k-th byte of a frame does to a receiver that has read the frame up to
\* there, or has been given all of it after an escape that was left over.
Follows(rx, rx2, data_in, byte_order, crc_present, e, c, k) ==
  /\ rx.escape_buffer = e[k] => rx2.escape_buffer = e[k + 1]
  /\ rx.escape_buffer < Left(c[k]) =>
       rx2.escape_buffer = e[k + 1] \/ rx2.escape_buffer < Left(c[k + 1])
  /\ rx.escape_buffer = e[k] /\ Buffered(rx, data_in, byte_order, crc_present, c[k]) =>
       Buffered(rx2, data_in, byte_order, crc_present, c[k + 1])

\* The bytes between HEAD and TAIL announce nothing, and what one of them does to a
\* receiver that has read the frame up to there is what Turn says.
LEMMA FrameByte ==
  ASSUME NEW F, NEW data_in, NEW byte_order \in {0, 1}, NEW crc_present \in BOOLEAN,
         NEW e, NEW c, IsFrame(F, data_in, byte_order, crc_present, e, c),
         NEW k \in 2 .. Len(F) - 1,
         NEW rx \in Receivers, NEW rx2, rx2 = rx_byte(rx, F[k])
  PROVE  /\ ~ rx_notifies(rx, F[k])
         /\ Follows(rx, rx2, data_in, byte_order, crc_present, e, c, k)
<1>1. Turn(F, data_in, e, c, k) /\ c[k] \in Nat /\ Len(F) \in Nat
  <2>1. k \in 1 .. Len(F) /\ Len(F) \in Nat
    BY DEF IsFrame
  <2>2. c[k] \in 0 .. Len(data_in) /\ Len(data_in) \in Nat
    BY <2>1 DEF IsFrame
  <2>3. QED BY <2>1, <2>2 DEF IsFrame
<1>2. PICK b : b = F[k]
  OBVIOUS
<1>3. CASE b \in ESCAPES /\ e[k + 1] = b % 32 /\ c[k + 1] = c[k]
  <2>1. rx2 = [rx EXCEPT !.escape_buffer = b % 32] /\ ~ rx_notifies(rx, b)
    BY <1>2, <1>3, RxEscape
  <2>2. rx2.escape_buffer = e[k + 1] /\ rx2.buffer = rx.buffer
        /\ rx2.crc_present = rx.crc_present /\ rx2.byte_order = rx.byte_order
    BY <1>3, <2>1 DEF Receivers
  <2>3. QED BY <1>2, <1>3, <2>1, <2>2 DEF Buffered, Follows
<1>4. CASE /\ b \in Byte /\ ~ is_control(b)
           /\ e[k + 1] = e[k] \div 2 /\ c[k + 1] = c[k] + 1
           /\ data_in[c[k] + 1] = b + 32 * (e[k] % 2)
  <2>1. PICK add \in Byte : add = IF rx.escape_buffer % 2 = 1 THEN b + 32 ELSE b
    BY <1>4, RxData
  <2>2. /\ rx2 = [rx EXCEPT !.buffer        = Append(rx.buffer, add),
                            !.escape_buffer = rx.escape_buffer \div 2]
        /\ ~ rx_notifies(rx, b)
    BY <1>2, <1>4, <2>1, RxData
  <2>3. rx2.escape_buffer = rx.escape_buffer \div 2 /\ rx2.buffer = Append(rx.buffer, add)
        /\ rx2.crc_present = rx.crc_present /\ rx2.byte_order = rx.byte_order
    BY <2>2 DEF Receivers
  <2>4. rx.escape_buffer \in 0 .. 31 /\ rx.buffer \in Seq(Byte)
    BY DEF Receivers
  <2>5. rx.escape_buffer < Left(c[k]) => rx2.escape_buffer < Left(c[k + 1])
    <3>1. ASSUME rx.escape_buffer < Left(c[k]) PROVE rx.escape_buffer \div 2 < Left(c[k] + 1)
      BY <1>1, <2>4, <3>1, LeftShifts
    <3>2. QED BY <1>4, <2>3, <3>1
  <2>6. ASSUME rx.escape_buffer = e[k], Buffered(rx, data_in, byte_order, crc_present, c[k])
        PROVE  Buffered(rx2, data_in, byte_order, crc_present, c[k + 1])
    <3>1. add = data_in[c[k] + 1]
      <4>1. e[k] \in 0 .. 31
        BY <2>4, <2>6
      <4>2. e[k] % 2 = 1 \/ e[k] % 2 = 0
        <5>1. \A x \in 0 .. 31 : x % 2 = 1 \/ x % 2 = 0
          OBVIOUS
        <5>2. QED BY <4>1, <5>1
      <4>3. b + 32 * 1 = b + 32 /\ b + 32 * 0 = b
        BY <1>4 DEF Byte
      <4>4. QED BY <1>4, <2>1, <2>6, <4>2, <4>3
    <3>2. PICK n \in Nat : n = c[k]
      BY <1>1
    <3>3. PICK buffer2 : buffer2 = rx2.buffer
      OBVIOUS
    <3>4. /\ Len(rx.buffer) = n /\ \A i \in 1 .. n : rx.buffer[i] = data_in[i]
      BY <2>6, <3>2 DEF Buffered
    <3>5. /\ Len(buffer2) = n + 1 /\ buffer2[n + 1] = add
          /\ \A i \in 1 .. n : buffer2[i] = rx.buffer[i]
      BY <2>3, <2>4, <3>3, <3>4, AppendProperties
    <3>6. \A i \in 1 .. n + 1 : buffer2[i] = data_in[i]
      <4>1. ASSUME NEW i \in 1 .. n + 1 PROVE buffer2[i] = data_in[i]
        <5>1. CASE i = n + 1
          BY <3>1, <3>2, <3>5, <5>1
        <5>2. CASE i \in 1 .. n
          BY <3>4, <3>5, <5>2
        <5>3. QED BY <5>1, <5>2
      <4>2. QED BY <4>1
    <3>7. QED BY <1>4, <2>3, <2>6, <3>2, <3>3, <3>5, <3>6 DEF Buffered
  <2>7. QED BY <1>2, <1>4, <2>2, <2>3, <2>5, <2>6 DEF Follows
<1>5. QED BY <1>1, <1>2, <1>3, <1>4 DEF Turn

\* TAIL leaves the escapes as they are, and announces what has been read.
LEMMA FrameTail ==
  ASSUME NEW F, NEW cmd \in Byte, NEW data \in Seq(Byte), Len(data) <= 127,
         NEW byte_order \in {0, 1}, NEW crc_present \in BOOLEAN,
         NEW data_in, data_in = content(cmd, data, crc_present),
         NEW e, NEW c, IsFrame(F, data_in, byte_order, crc_present, e, c),
         NEW rx \in Receivers, NEW rx2, rx2 = rx_byte(rx, F[Len(F)])
  PROVE  /\ rx2.escape_buffer = rx.escape_buffer
         /\ Buffered(rx, data_in, byte_order, crc_present, Len(data_in)) =>
              /\ rx_notifies(rx, F[Len(F)])
              /\ rx2.packet = [command |-> cmd, data |-> data]
              /\ rx2.byte_order = byte_order
<1>1. PICK tail : tail = F[Len(F)]
  OBVIOUS
<1>2. tail = create_cmd_byte(TAIL, byte_order, crc_present)
  BY <1>1 DEF IsFrame
<1>3. /\ rx2 = IF rx_notifies(rx, tail) THEN rx_tail(rx) ELSE rx
      /\ rx.crc_present = crc_present /\ rx.byte_order = byte_order => rx_notifies(rx, tail)
  <2>1. /\ rx_byte(rx, tail) = IF rx_notifies(rx, tail) THEN rx_tail(rx) ELSE rx
        /\ rx.crc_present = crc_present /\ rx.byte_order = byte_order => rx_notifies(rx, tail)
    BY <1>2, RxTail, Zenon
  <2>2. rx2 = rx_byte(rx, tail)
    BY <1>1
  <2>3. QED BY <2>1, <2>2, Zenon
<1>4. rx_tail(rx).escape_buffer = rx.escape_buffer /\ rx_tail(rx).byte_order = rx.byte_order
  BY DEF rx_tail, Receivers
<1>5. ASSUME Buffered(rx, data_in, byte_order, crc_present, Len(data_in))
      PROVE  /\ rx_notifies(rx, tail) /\ rx2.packet = [command |-> cmd, data |-> data]
             /\ rx2.byte_order = byte_order
  <2>1. rx_notifies(rx, tail) /\ rx2 = rx_tail(rx) /\ rx.byte_order = byte_order
    BY <1>3, <1>5 DEF Buffered
  <2>2. PICK n \in Nat : n = Len(data)
    OBVIOUS
  <2>3. PICK m \in Nat : m = Len(data_in)
    BY DEF IsFrame
  <2>4. /\ m >= n + 2 /\ data_in[1] = create_r(n) /\ data_in[2] = cmd
        /\ \A i \in 1 .. n : data_in[i + 2] = data[i]
    <3>1. PICK D : D = IF crc_present THEN Append(data, CRC) ELSE data
      OBVIOUS
    <3>2. CRC \in Byte
      BY DEF CRC, Byte
    <3>3. D \in Seq(Byte) /\ Len(D) >= n /\ \A i \in 1 .. n : D[i] = data[i]
      BY <2>2, <3>1, <3>2, AppendProperties
    <3>4. create_r(n) \in Byte
      BY LengthByte
    <3>5. PICK first : first = <<create_r(n), cmd>>
      OBVIOUS
    <3>6. first \in Seq(Byte) /\ Len(first) = 2 /\ first[1] = create_r(n) /\ first[2] = cmd
      BY <3>4, <3>5
    <3>7. data_in = first \o D
      BY <2>2, <3>1, <3>5 DEF content
    <3>8. /\ Len(data_in) = 2 + Len(D)
          /\ \A i \in 1 .. 2 + Len(D) : data_in[i] = IF i <= 2 THEN first[i] ELSE D[i - 2]
      <4>1. Len(first \o D) = Len(first) + Len(D)
        BY <3>3, <3>6, ConcatProperties
      <4>2. \A i \in 1 .. Len(first) + Len(D) :
              (first \o D)[i] = IF i <= Len(first) THEN first[i] ELSE D[i - Len(first)]
        BY <3>3, <3>6, ConcatProperties
      <4>3. QED BY <3>6, <3>7, <4>1, <4>2
    <3>9. PICK l \in Nat : l = Len(D)
      BY <3>3
    <3>10. ASSUME NEW i \in 1 .. n PROVE data_in[i + 2] = data[i]
      <4>1. i + 2 \in 1 .. 2 + l /\ ~ i + 2 <= 2 /\ (i + 2) - 2 = i
        BY <3>3, <3>9
      <4>2. QED BY <3>3, <3>8, <3>9, <4>1
    <3>11. 1 \in 1 .. 2 + l /\ 2 \in 1 .. 2 + l
      OBVIOUS
    <3>12. data_in[1] = create_r(n) /\ data_in[2] = cmd
      BY <3>6, <3>8, <3>9, <3>11
    <3>13. QED BY <2>3, <3>3, <3>8, <3>9, <3>10, <3>12
  <2>5. Len(rx.buffer) = m /\ \A i \in 1 .. m : rx.buffer[i] = data_in[i]
    BY <1>5, <2>3 DEF Buffered
  <2>6. ASSUME NEW i \in 0 .. n + 1 PROVE buffer_at(rx, i) = data_in[i + 1]
    <3>1. i < m /\ i + 1 \in 1 .. m
      BY <2>4
    <3>2. QED BY <2>5, <3>1 DEF buffer_at
  <2>7. buffer_at(rx, 0) = create_r(n) /\ buffer_at(rx, 1) = cmd
    BY <2>4, <2>6
  <2>8. restore_r(buffer_at(rx, 0)) = n
    <3>1. n \in 0 .. 127
      <4>1. Len(data) <= 127
        OBVIOUS
      <4>2. n <= 127
        BY <2>2, <4>1, Zenon
      <4>3. QED BY <4>2
    <3>2. restore_r(create_r(n)) = n
      BY <3>1, LengthByte
    <3>3. QED BY <2>7, <3>2
  <2>9. ASSUME NEW i \in 1 .. n PROVE buffer_at(rx, i + 1) = data[i]
    <3>1. i + 1 \in 0 .. n + 1 /\ (i + 1) + 1 = i + 2
      OBVIOUS
    <3>2. QED BY <2>4, <2>6, <3>1
  <2>10. [i \in 1 .. n |-> buffer_at(rx, i + 1)] = data
    <3>1. data = [i \in 1 .. n |-> data[i]]
      BY <2>2
    <3>2. QED BY <2>9, <3>1
  <2>11. rx_tail(rx).packet = [command |-> cmd, data |-> data]
    BY <2>7, <2>8, <2>10 DEF rx_tail, Receivers
  <2>12. QED BY <1>4, <2>1, <2>11
<1>6. QED BY <1>1, <1>3, <1>4, <1>5

\* What FrameHead and FrameByte say of a frame.
Starts(rx1, byte, data_in, order, crc_present) ==
  /\ ~ rx_notifies(rx1, byte)
  /\ rx_byte(rx1, byte).escape_buffer = rx1.escape_buffer
  /\ Buffered(rx_byte(rx1, byte), data_in, order, crc_present, 0)

Passes(F, data_in, order, crc_present, e, c) ==
  \A rx1 \in Receivers :
    /\ Starts(rx1, F[1], data_in, order, crc_present)
    /\ \A k \in 2 .. Len(F) - 1 :
         /\ ~ rx_notifies(rx1, F[k])
         /\ Follows(rx1, rx_byte(rx1, F[k]), data_in, order, crc_present, e, c, k)

\* HEAD begins a frame in any receiver.
LEMMA HeadStarts ==
  ASSUME NEW F, NEW data_in, NEW order \in {0, 1}, NEW crc_present \in BOOLEAN,
         NEW e, NEW c, IsFrame(F, data_in, order, crc_present, e, c),
         NEW rx1 \in Receivers
  PROVE  Starts(rx1, F[1], data_in, order, crc_present)
<1>1. PICK rx2 : rx2 = rx_byte(rx1, F[1])
  OBVIOUS
<1>2. /\ ~ rx_notifies(rx1, F[1])
      /\ rx2.escape_buffer = rx1.escape_buffer
      /\ Buffered(rx2, data_in, order, crc_present, 0)
  BY <1>1, FrameHead
<1>3. QED BY <1>1, <1>2 DEF Starts

\* Each byte of a frame does to a receiver what Turn says.
LEMMA FramePasses ==
  ASSUME NEW F, NEW data_in, NEW order \in {0, 1}, NEW crc_present \in BOOLEAN,
         NEW e, NEW c, IsFrame(F, data_in, order, crc_present, e, c)
  PROVE  Passes(F, data_in, order, crc_present, e, c)
<1>1. ASSUME NEW rx1 \in Receivers PROVE Starts(rx1, F[1], data_in, order, crc_present)
  BY HeadStarts
<1>2. ASSUME NEW rx1 \in Receivers, NEW k \in 2 .. Len(F) - 1
      PROVE  /\ ~ rx_notifies(rx1, F[k])
             /\ Follows(rx1, rx_byte(rx1, F[k]), data_in, order, crc_present, e, c, k)
  BY FrameByte
<1>3. QED BY <1>1, <1>2 DEF Passes
================================================================================
