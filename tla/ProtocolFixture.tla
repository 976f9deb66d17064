-------------------------- MODULE ProtocolFixture --------------------------
(***************************************************************************)
(* src/protocol_fixture.cpp: a file of deterministic frames is written on   *)
(* one machine and verified on another.  A file is the sequence of its      *)
(* bytes.                                                                   *)
(***************************************************************************)
EXTENDS FrameProtocol

CONSTANTS kFixtureWidth, kFixtureHeight,
          kFixtureTimestampBase, kFixtureTimestampStep

\* The image of a fixture frame is one that the receiver takes.
ASSUME FixtureAssumption ==
  /\ {kFixtureWidth, kFixtureHeight} \subseteq 1 .. kMaxDimension
  /\ kFixtureWidth % 2 = 0
  /\ kFixtureWidth * kFixtureHeight * 2 <= kDefaultMaxPayloadBytes
  /\ {kFixtureTimestampBase, kFixtureTimestampStep} \subseteq Nat

make_fixture_payload(frame_id) ==
  [i \in 1 .. kFixtureWidth * kFixtureHeight * 2 |->
     LET x == 2 * (((i - 1) % (2 * kFixtureWidth)) \div 4)
         y == (i - 1) \div (2 * kFixtureWidth)
     IN  (CASE (i - 1) % 4 = 0 -> x + y * 17 + frame_id * 3
            [] (i - 1) % 4 = 1 -> 96 + y * 7 + frame_id
            [] (i - 1) % 4 = 2 -> x + y * 29 + frame_id * 5 + 1
            [] OTHER           -> 160 + x * 5 + frame_id * 2) % Base]

fixture_timestamp(frame_id) ==
  kFixtureTimestampBase + frame_id * kFixtureTimestampStep

FixtureFrame(frame_id) ==
  LET payload == make_fixture_payload(frame_id)
  IN  serialize_header(
        make_header(frame_id, fixture_timestamp(frame_id), kFixtureWidth,
                    kFixtureHeight, V4L2_PIX_FMT_YUYV, Len(payload),
                    compute_crc32(payload)))
      \o payload

write_fixture(frames) == FlattenSeq([i \in 1 .. frames |-> FixtureFrame(i - 1)])

\* Mutant: the header of frame k is not compared with the expected one.
VerifyFrameLoosely(file, k, offset) ==
  LET header == CHOOSE h \in deserialize_header(
                               SubSeq(file, offset + 1, offset + 44)) : TRUE
      payload == SubSeq(file, offset + 45, offset + 44 + header.payload_size)
  IN  IF Len(file) = offset THEN "end"
      ELSE IF Len(file) - offset < 44 THEN "truncated header"
      ELSE IF validate_header(header, kDefaultMaxPayloadBytes) # ""
             THEN "invalid header"
      ELSE IF Len(file) - offset - 44 < header.payload_size
             THEN "truncated payload"
      ELSE IF compute_crc32(payload) # header.payload_crc32 THEN "crc"
      ELSE IF payload # make_fixture_payload(k) THEN "payload" ELSE "verified"

\* One turn of the loop of verify_fixture, for the frame that begins after
\* offset bytes: the end of the file, the error that is thrown, or "verified".
VerifyFrame(file, k, offset) ==
  LET rest == Len(file) - offset
      header == CHOOSE h \in deserialize_header(
                   SubSeq(file, offset + 1, offset + kWireHeaderSize)) : TRUE
      payload == SubSeq(file, offset + kWireHeaderSize + 1,
                        offset + kWireHeaderSize + header.payload_size)
  IN  IF rest = 0 THEN "end"
      ELSE IF rest < kWireHeaderSize THEN "truncated header"
      ELSE IF validate_header(header, kDefaultMaxPayloadBytes) # ""
             THEN "invalid header"
      ELSE IF \/ header.frame_id # k
              \/ header.capture_timestamp_ns # fixture_timestamp(k)
              \/ header.width # kFixtureWidth
              \/ header.height # kFixtureHeight
              \/ header.pixel_format # V4L2_PIX_FMT_YUYV
             THEN "header fields"
      ELSE IF rest - kWireHeaderSize < header.payload_size
             THEN "truncated payload"
      ELSE IF compute_crc32(payload) # header.payload_crc32 THEN "crc"
      ELSE IF payload # make_fixture_payload(k) THEN "payload"
      ELSE "verified"

\* The loop ends at the first frame that is not verified; the frames before
\* it all have the size of a fixture frame.
verify_fixture(file, frames) ==
  LET size == kWireHeaderSize + kFixtureWidth * kFixtureHeight * 2
      verdict(k) == VerifyFrame(file, k, k * size)
      last == CHOOSE k \in 0 .. Len(file) \div size :
                /\ verdict(k) # "verified"
                /\ \A j \in 0 .. k - 1 : verdict(j) = "verified"
  IN  IF verdict(last) = "end" /\ last # frames THEN "frame count"
      ELSE verdict(last)
=============================================================================
