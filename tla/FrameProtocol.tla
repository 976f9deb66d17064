--------------------------- MODULE FrameProtocol ---------------------------
(***************************************************************************)
(* include/frame_protocol.hpp: the codec of the 44 byte wire header, the    *)
(* checksum of the payload and the receiver's header checks, as pure        *)
(* functions.  A byte has ByteBits bits (8 in the code); an unsigned        *)
(* integer of k bytes is a number below Pow2[k * ByteBits], and a bit       *)
(* pattern is the set of the positions of its ones.                         *)
(***************************************************************************)
EXTENDS Integers, Sequences, SequencesExt

CONSTANTS ByteBits, kMagic, kVersion, kDefaultMaxPayloadBytes, kMaxDimension,
          V4L2_PIX_FMT_YUYV,
          Polynomial   \* ones of the reflected CRC polynomial, 0xEDB88320

\* 1 << n
Pow2[n \in Nat] == IF n = 0 THEN 1 ELSE 2 * Pow2[n - 1]

Base == Pow2[ByteBits]
Unsigned(size) == 0 .. Pow2[size * ByteBits] - 1
WordBits == 4 * ByteBits

kWireHeaderSize == 44

ASSUME ProtocolAssumption ==
  /\ ByteBits \in Nat \ {0} /\ kWireHeaderSize \in Unsigned(2)
  /\ {kVersion, kDefaultMaxPayloadBytes, kMaxDimension} \subseteq Nat
  /\ kMagic \in Unsigned(4) /\ kVersion + 1 \in Unsigned(2)
  /\ kDefaultMaxPayloadBytes + 1 \in Unsigned(4)
  /\ V4L2_PIX_FMT_YUYV \in Unsigned(4) \ {0}
  /\ kMaxDimension * kMaxDimension * 2 \in Unsigned(4)
  /\ Polynomial \subseteq 0 .. WordBits - 1 /\ WordBits - 1 \in Polynomial

-----------------------------------------------------------------------------
\* Byte k of an integer: write_u16_le, write_u32_le and write_u64_le differ
\* in the number of bytes only.
write_le(value, k) == (value \div Pow2[k * ByteBits]) % Base

read_le(bytes, offset, size) ==
  LET value[i \in 0 .. size] ==
        IF i = 0 THEN 0
        ELSE value[i - 1] + bytes[offset + i] * Pow2[(i - 1) * ByteBits]
  IN  value[size]

\* The calls of serialize_header and of deserialize_header: field, offset and
\* size of the integer.  The two lists are kept apart, as they are in the code.
Writes ==
  << <<"magic", 0, 4>>, <<"header_size", 4, 2>>, <<"version", 6, 2>>,
     <<"frame_id", 8, 8>>, <<"capture_timestamp_ns", 16, 8>>,
     <<"width", 24, 4>>, <<"height", 28, 4>>, <<"pixel_format", 32, 4>>,
     <<"payload_size", 36, 4>>, <<"payload_crc32", 40, 4>> >>

\* Mutant: the last field is read where the one before it lies.
ReadsOverlapping ==
  [Writes EXCEPT ![10] = <<"payload_crc32", 36, 4>>]

Reads ==
  << <<"magic", 0, 4>>, <<"header_size", 4, 2>>, <<"version", 6, 2>>,
     <<"frame_id", 8, 8>>, <<"capture_timestamp_ns", 16, 8>>,
     <<"width", 24, 4>>, <<"height", 28, 4>>, <<"pixel_format", 32, 4>>,
     <<"payload_size", 36, 4>>, <<"payload_crc32", 40, 4>> >>

FieldSize(f) == LET i == CHOOSE i \in DOMAIN Writes : Writes[i][1] = f
                IN  Writes[i][3]

Fields == {Writes[i][1] : i \in DOMAIN Writes}

\* Byte j holds what the last call that covers it wrote, or zero.
serialize_header(header) ==
  [j \in 1 .. kWireHeaderSize |->
     LET covering == {i \in DOMAIN Writes :
                        j - 1 - Writes[i][2] \in 0 .. Writes[i][3] - 1}
         w == Writes[CHOOSE i \in covering : \A k \in covering : k <= i]
     IN  IF covering = {} THEN 0 ELSE write_le(header[w[1]], j - 1 - w[2])]

\* The decoded header, or the empty set when the size is refused.
deserialize_header(bytes) ==
  IF Len(bytes) # kWireHeaderSize
    THEN {}
    ELSE {[f \in Fields |-> LET i == CHOOSE i \in DOMAIN Reads : Reads[i][1] = f
                            IN  read_le(bytes, Reads[i][2], Reads[i][3])]}

-----------------------------------------------------------------------------
Ones(byte) == {b \in 0 .. ByteBits - 1 : (byte \div Pow2[b]) % 2 = 1}
Xor(a, b) == (a \ b) \cup (b \ a)

\* Mutant: the register is shifted after the subtraction of the polynomial.
CrcRoundSwapped(crc) ==
  LET subtracted == IF 0 \in crc THEN Xor(crc, Polynomial) ELSE crc
  IN  {b - 1 : b \in subtracted \ {0}}

\* One turn of the inner loop: shift, and subtract the polynomial when the
\* bit shifted out was one.
CrcRound(crc) ==
  LET shifted == {b - 1 : b \in crc \ {0}}
  IN  IF 0 \in crc THEN Xor(shifted, Polynomial) ELSE shifted

\* The inner loop, for one byte.
CrcByte(crc, byte) ==
  LET turn[bit \in 0 .. ByteBits] ==
        IF bit = 0 THEN Xor(crc, Ones(byte)) ELSE CrcRound(turn[bit - 1])
  IN  turn[ByteBits]

\* compute_crc32 as the set of the ones of its result ...
CrcBits(bytes) ==
  LET ones == 0 .. WordBits - 1
      crc[i \in 0 .. Len(bytes)] ==
        IF i = 0 THEN ones ELSE CrcByte(crc[i - 1], bytes[i])
  IN  ones \ crc[Len(bytes)]

\* ... and as the integer that the header carries.
compute_crc32(bytes) ==
  LET crc == CrcBits(bytes)
      value[i \in 0 .. WordBits] ==
        IF i = 0 THEN 0
        ELSE 2 * value[i - 1] + (IF WordBits - i \in crc THEN 1 ELSE 0)
  IN  value[WordBits]

-----------------------------------------------------------------------------
make_header(frame_id, timestamp_ns, width, height, format, size, crc32) ==
  [magic |-> kMagic, header_size |-> kWireHeaderSize, version |-> kVersion,
   frame_id |-> frame_id, capture_timestamp_ns |-> timestamp_ns,
   width |-> width, height |-> height, pixel_format |-> format,
   payload_size |-> size, payload_crc32 |-> crc32]

\* The checks in their order, each with the reason it gives.
HeaderChecks(header, max_payload_bytes) ==
  LET yuyv == header.pixel_format = V4L2_PIX_FMT_YUYV
      expected == (header.width * header.height * 2) % Pow2[8 * ByteBits]
  IN  << <<max_payload_bytes = 0, "no limit">>,
         <<header.magic # kMagic, "invalid magic">>,
         <<header.header_size # kWireHeaderSize, "header size">>,
         <<header.version # kVersion, "version">>,
         <<header.capture_timestamp_ns = 0, "zero timestamp">>,
         <<header.width = 0 \/ header.height = 0, "zero dimension">>,
         <<header.width > kMaxDimension \/ header.height > kMaxDimension,
           "dimension limit">>,
         <<header.pixel_format = 0, "no pixel format">>,
         <<header.payload_size = 0, "zero payload">>,
         <<header.payload_size > max_payload_bytes, "payload limit">>,
         <<yuyv /\ header.width % 2 # 0, "odd width">>,
         <<yuyv /\ expected >= Pow2[4 * ByteBits], "overflow">>,
         <<yuyv /\ header.payload_size # expected, "size mismatch">> >>

\* The reason of the first check that fails; "" when none does.
FirstFailure(checks) ==
  IF \E i \in DOMAIN checks : checks[i][1]
    THEN checks[CHOOSE i \in DOMAIN checks :
                  checks[i][1] /\ \A j \in 1 .. i - 1 : ~checks[j][1]][2]
    ELSE ""

\* Mutant: the size test of main.cpp (at least the image) in the receiver.
ValidateAtLeast(header, max_payload_bytes) ==
  FirstFailure([HeaderChecks(header, max_payload_bytes) EXCEPT
                  ![13][1] = @ /\ header.payload_size
                                    < header.width * header.height * 2])

validate_header(header, max_payload_bytes) ==
  FirstFailure(HeaderChecks(header, max_payload_bytes))
=============================================================================
