--------------------------- MODULE FrameExchange ---------------------------
(***************************************************************************)
(* One frame from the program that sends it to the receiver that judges it, *)
(* byte for byte: the usability test and send_frame_over_tcp of             *)
(* src/main.cpp, the frames and the faults of src/tcp_sender.cpp, and the   *)
(* path of src/tcp_receiver.cpp from the received bytes to the verdict.     *)
(***************************************************************************)
EXTENDS FrameProtocol

\* has_v4l2_buffer_error, the empty and the unknown frame, and a YUYV frame
\* that is shorter than its image.
is_frame_usable(frame) ==
  /\ ~frame.v4l2_error
  /\ frame.data # <<>>
  /\ frame.width # 0 /\ frame.height # 0 /\ frame.pixel_format # 0
  /\ frame.pixel_format = V4L2_PIX_FMT_YUYV
       => Len(frame.data) >= frame.width * frame.height * 2

\* The bytes of one frame, or <<>> when send_frame_over_tcp throws before it
\* sends anything.
send_frame_over_tcp(frame) ==
  IF Len(frame.data) >= Pow2[4 * ByteBits] \/ frame.capture_timestamp_ns = 0
    THEN <<>>
    ELSE serialize_header(
           make_header(frame.sequence, frame.capture_timestamp_ns, frame.width,
                       frame.height, frame.pixel_format, Len(frame.data),
                       compute_crc32(frame.data)))
         \o frame.data

-----------------------------------------------------------------------------
\* Byte i of the pattern of tcp_sender: rows of y0 u y1 v.
make_test_yuyv_payload(width, height, frame_id) ==
  [i \in 1 .. width * height * 2 |->
     LET x == 2 * (((i - 1) % (2 * width)) \div 4)
         y == (i - 1) \div (2 * width)
     IN  CASE (i - 1) % 4 = 0 -> (x + frame_id * 3) % Base
           [] (i - 1) % 4 = 2 -> (x + y + frame_id * 3) % Base
           [] OTHER           -> Base \div 2]

TestHeader(width, height, frame_id, now_ns) ==
  LET payload == make_test_yuyv_payload(width, height, frame_id)
  IN  make_header(frame_id, now_ns, width, height, V4L2_PIX_FMT_YUYV,
                  Len(payload), compute_crc32(payload))

FlipLowestBit(value) == IF value % 2 = 0 THEN value + 1 ELSE value - 1

\* --corrupt-frame-id: one bit of the middle byte, after the checksum.
Corrupt(payload) ==
  [payload EXCEPT ![Len(payload) \div 2 + 1] = FlipLowestBit(@)]

HeaderFaults == {"bad-magic", "bad-version", "bad-header-size", "zero-width",
                 "oversized-payload", "yuyv-size-mismatch"}

\* The payload is too small to be made smaller: apply_header_fault throws.
FaultApplies(header, fault) ==
  fault = "yuyv-size-mismatch" => header.payload_size > 2

apply_header_fault(header, fault) ==
  CASE fault = "bad-magic"       -> [header EXCEPT !.magic = FlipLowestBit(@)]
    [] fault = "bad-version"     -> [header EXCEPT !.version = @ + 1]
    [] fault = "bad-header-size" -> [header EXCEPT !.header_size = 1]
    [] fault = "zero-width"      -> [header EXCEPT !.width = 0]
    [] fault = "oversized-payload" ->
         [header EXCEPT !.payload_size = kDefaultMaxPayloadBytes + 1]
    [] OTHER (* yuyv-size-mismatch *) -> [header EXCEPT !.payload_size = @ - 2]

-----------------------------------------------------------------------------
\* Mutant: the checksum of the payload is not compared.
ReceiveUnchecked(bytes, max_payload_bytes) ==
  LET header == CHOOSE h \in deserialize_header(SubSeq(bytes, 1, 44)) : TRUE
      reason == validate_header(header, max_payload_bytes)
      payload == SubSeq(bytes, 45, 44 + header.payload_size)
  IN  [reason |-> reason, header |-> header,
       payload |-> IF reason = "" THEN payload ELSE <<>>]

\* What the receiver makes of a stream that holds at least a header: the
\* reason it refuses the frame for ("" for none) and what it decoded.
Receive(bytes, max_payload_bytes) ==
  LET header == CHOOSE h \in deserialize_header(
                               SubSeq(bytes, 1, kWireHeaderSize)) : TRUE
      rest == SubSeq(bytes, kWireHeaderSize + 1, Len(bytes))
      payload == SubSeq(rest, 1, header.payload_size)
      reason == validate_header(header, max_payload_bytes)
      refused(r) == [reason |-> r, header |-> header, payload |-> <<>>]
  IN  IF reason # "" THEN refused(reason)
      ELSE IF Len(rest) < header.payload_size THEN refused("peer closed")
      ELSE IF compute_crc32(payload) # header.payload_crc32
        THEN refused("crc mismatch")
      ELSE [reason |-> "", header |-> header, payload |-> payload]
=============================================================================
