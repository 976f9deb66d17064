---------------------------- MODULE Calculations ----------------------------
(***************************************************************************)
(* The pure functions of the repository, each called with every input of a  *)
(* small set: call holds the function, its input and its result.  The       *)
(* functions are modelled in FrameProtocol, FrameExchange, ProtocolFixture, *)
(* LatencyStats, YuyvConversion and AppConfig; this module says what their  *)
(* results have to be, by definitions that do not follow the code.          *)
(***************************************************************************)
EXTENDS FrameExchange, ProtocolFixture, YuyvConversion, LatencyStats, AppConfig

CONSTANTS Headers,       \* headers to be encoded
          Payloads,      \* CRC inputs: sequences of 8 bit bytes
          CapturedFrames,
          Limits,        \* the receiver's --max-payload-bytes
          Dimensions,    \* widths and heights for tcp_sender
          Samples, MaxSamples,
          Images,        \* image data: sequences of 8 bit bytes
          ImageSizes,    \* pairs of width and height
          FixtureFrames, \* frame counts of the fixture
          FileSystems,   \* the configuration files that exist, by path
          Lines,         \* a line that may follow in each of them
          CommandLines   \* sequences of arguments

ASSUME InputsAssumption ==
  /\ \A header \in Headers :
       /\ header \in [Fields -> Nat]
       /\ \A f \in Fields : header[f] \in Unsigned(FieldSize(f))
  /\ \A frame \in CapturedFrames :
       /\ {frame.width, frame.height, frame.pixel_format} \subseteq Unsigned(4)
       /\ {frame.sequence, frame.capture_timestamp_ns} \subseteq Unsigned(8)
       /\ frame.data \in Seq(0 .. Base - 1)
  /\ Payloads \subseteq Seq(0 .. 255)
  /\ Limits \subseteq Nat /\ Dimensions \subseteq Nat
  /\ Samples \subseteq Int \cup {NotFinite} /\ MaxSamples \in Nat
  /\ Images \subseteq Seq(0 .. 255) /\ ImageSizes \subseteq Nat \X Nat
  /\ \A frames \in FixtureFrames :
       /\ frames \in Nat \ {0}
       /\ \A k \in 0 .. frames - 1 :
            {k, fixture_timestamp(k)} \subseteq Unsigned(8) /\ fixture_timestamp(k) # 0
  /\ \A files \in FileSystems : \A path \in DOMAIN files :
       files[path] \in Seq(Range(files[path]))
  /\ \A args \in CommandLines : args \in Seq(Range(args))

VARIABLE call

\* The checksum with the widths and the polynomial of the code.
Polynomial32 == {31, 30, 29, 27, 26, 24, 23, 21, 20, 19, 15, 9, 8, 5}
Crc32 == INSTANCE FrameProtocol WITH ByteBits <- 8, Polynomial <- Polynomial32

Idle == [of |-> "none"]
Init == call = Idle

Called(of, input, result) == call' = [of |-> of, in |-> input, out |-> result]
Return == call # Idle /\ call' = Idle

CallCodec ==
  /\ call = Idle
  /\ \E header \in Headers :
       Called("codec", header, deserialize_header(serialize_header(header)))

CallCrc ==
  /\ call = Idle
  /\ \E bytes \in Payloads : Called("crc", bytes, Crc32!CrcBits(bytes))

\* A frame the camera delivered, sent by the pipeline and received.
CallExchange ==
  /\ call = Idle
  /\ \E frame \in CapturedFrames, limit \in Limits :
       LET wire == IF is_frame_usable(frame) THEN send_frame_over_tcp(frame)
                                             ELSE <<>>
       IN  /\ wire # <<>>
           /\ Called("exchange", [frame |-> frame, limit |-> limit],
                     Receive(wire, limit))

TestFrame(width, height, frame_id) ==
  serialize_header(TestHeader(width, height, frame_id, 1))
  \o make_test_yuyv_payload(width, height, frame_id)

\* The sizes of image that make_test_yuyv_payload accepts, as far as the
\* receiver takes images of that size.
TestSize(width, height) ==
  /\ width > 0 /\ height > 0 /\ width % 2 = 0
  /\ width * height * 2 <= kDefaultMaxPayloadBytes

\* A frame of tcp_sender with any one byte replaced on the way.
CallDamage ==
  /\ call = Idle
  /\ \E width, height \in Dimensions, frame_id \in {0, 1}, value \in 0 .. Base - 1 :
       LET wire == TestFrame(width, height, frame_id)
       IN  /\ TestSize(width, height)
           /\ \E place \in DOMAIN wire :
                /\ wire[place] # value
                /\ Called("damage", wire,
                          Receive([wire EXCEPT ![place] = value],
                                  kDefaultMaxPayloadBytes))

\* tcp_sender --header-fault, and --corrupt-frame-id for the payload.
CallFault ==
  /\ call = Idle
  /\ \E width, height \in Dimensions, fault \in HeaderFaults \cup {"corrupt"} :
       LET header == TestHeader(width, height, 0, 1)
           payload == make_test_yuyv_payload(width, height, 0)
           wire == IF fault = "corrupt"
                     THEN serialize_header(header) \o Corrupt(payload)
                     ELSE serialize_header(apply_header_fault(header, fault))
       IN  /\ TestSize(width, height)
           /\ validate_header(header, kDefaultMaxPayloadBytes) = ""
           /\ fault \in HeaderFaults => FaultApplies(header, fault)
           /\ Called("fault", [fault |-> fault, size |-> <<width, height>>],
                     Receive(wire, kDefaultMaxPayloadBytes).reason)

CallLatency ==
  /\ call = Idle
  /\ \E n \in 0 .. MaxSamples : \E samples \in [1 .. n -> Samples] :
       Called("latency", samples,
              snapshot(add_samples(samples)))

\* The data of an image, converted for both topics and saved.
CallPixels ==
  /\ call = Idle
  /\ \E data \in Images, size \in ImageSizes :
       Called("pixels", [data |-> data, size |-> size],
              [rgb |-> convert_yuyv_to_rgb8(data, size[1], size[2]),
               mono |-> convert_yuyv_to_mono8(data, size[1], size[2]),
               files |-> save_frame_to_files(data, size[1], size[2], "YUYV")])

\* A fixture file as written, cut, extended or damaged in one byte, or with
\* two of its frames exchanged.
Copies(file, size) ==
  {file} \cup {SubSeq(file, 1, n) : n \in 0 .. Len(file)}
  \cup {Append(file, 0)}
  \cup {[file EXCEPT ![i] = (@ + d) % Base] : i \in DOMAIN file, d \in {1, 4}}
  \cup {SubSeq(file, size + 1, Len(file)) \o SubSeq(file, 1, size)}

CallFixture ==
  /\ call = Idle
  /\ \E written, expected \in FixtureFrames :
       \E file \in Copies(write_fixture(written), Len(FixtureFrame(0))) :
         Called("fixture", [file |-> file, frames |-> expected],
                verify_fixture(file, expected))

\* The program is started with a file, a line added to it, and arguments.
CallLoad ==
  /\ call = Idle
  /\ \E base \in FileSystems, args \in CommandLines,
        extra \in {<<>>} \cup {<<line>> : line \in Lines} :
       LET files == [path \in DOMAIN base |-> base[path] \o extra]
       IN  Called("load", [files |-> files, args |-> args],
                  load_app_config(files, args))

Next == \/ CallCodec \/ CallCrc \/ CallExchange \/ CallDamage \/ CallFault
        \/ CallLatency \/ CallPixels \/ CallFixture \/ CallLoad \/ Return

Spec == Init /\ [][Next]_call

-----------------------------------------------------------------------------
\* Whatever one field holds, the decoded header is the encoded one: no two
\* fields overlap on the wire and no integer loses a byte.
HeaderRoundTrip == call.of = "codec" => call.out = {call.in}

\* One step of the division of a polynomial over GF(2), given by its exponents,
\* by the generator of CRC-32 the way it is done on paper: the generator is
\* subtracted, shifted to exponent e, if the dividend has that exponent.
Generator == {32} \cup {31 - b : b \in Polynomial32}
Subtracted(rest, e) ==
  IF e \in rest THEN Xor(rest, {e - 32 + g : g \in Generator}) ELSE rest

Remainder(dividend, degree) ==
  LET rest[i \in 0 .. degree - 32] ==
        IF i = 0 THEN dividend ELSE Subtracted(rest[i - 1], degree - i)
  IN  rest[degree - 32]

\* CRC-32 as it is defined: bits go lowest first, 32 zeros follow the message,
\* the first 32 bits are inverted, and so is the remainder.
CrcByDivision(bytes) ==
  LET bits == 8 * Len(bytes)
      ones == {p \in (DOMAIN bytes) \X (0 .. 7) : (bytes[p[1]] \div Pow2[p[2]]) % 2 = 1}
      message == {bits + 31 - (8 * (p[1] - 1) + p[2]) : p \in ones}
      rest == Remainder(Xor(message, bits .. bits + 31), bits + 32)
  IN  {b \in 0 .. 31 : 31 - b \notin rest}

\* compute_crc32 is CRC-32, though it never divides a polynomial: it shifts one
\* bit at a time through a register that holds the bits in reverse.
CrcIsPolynomialDivision ==
  call.of = "crc" => call.out = CrcByDivision(call.in)

\* What the two ends disagree about: frames too large for the receiver, and
\* YUYV frames of odd width or with padding.
Disputed(frame, limit) ==
  \/ frame.width > kMaxDimension \/ frame.height > kMaxDimension
  \/ Len(frame.data) > limit
  \/ /\ frame.pixel_format = V4L2_PIX_FMT_YUYV
     /\ \/ frame.width % 2 = 1
        \/ Len(frame.data) > frame.width * frame.height * 2

Arrived(frame, result) ==
  /\ result.reason = "" /\ result.payload = frame.data
  /\ result.header.width = frame.width
  /\ result.header.height = frame.height
  /\ result.header.pixel_format = frame.pixel_format
  /\ result.header.frame_id = frame.sequence

\* A frame that the pipeline finds usable and sends reaches the receiver
\* unchanged, unless it is one of those the two ends disagree about.
UsableFramesAccepted ==
  call.of = "exchange" =>
    IF Disputed(call.in.frame, call.in.limit)
      THEN call.out.reason # "" ELSE Arrived(call.in.frame, call.out)

\* The image and the size that were sent: all but the fields that no check
\* covers (frame_id, timestamp, a pixel format that is not YUYV any more).
ImageIntact(wire, result) ==
  LET sent == CHOOSE h \in deserialize_header(
                             SubSeq(wire, 1, kWireHeaderSize)) : TRUE
      uncovered == {"frame_id", "capture_timestamp_ns", "pixel_format"}
  IN  /\ result.payload = SubSeq(wire, kWireHeaderSize + 1, Len(wire))
      /\ \A f \in Fields \ uncovered : result.header[f] = sent[f]

\* One byte damaged on the way is noticed, or it is in the fields that no
\* check covers: an accepted frame always has the image that was sent.
ByteDamageContained ==
  call.of = "damage" /\ call.out.reason = "" => ImageIntact(call.in, call.out)

\* The reason that scripts/tcp_protocol_negative_test.sh expects for a fault.
FaultReason(fault) ==
  CASE fault = "bad-magic"          -> "invalid magic"
    [] fault = "bad-version"        -> "version"
    [] fault = "bad-header-size"    -> "header size"
    [] fault = "zero-width"         -> "zero dimension"
    [] fault = "oversized-payload"  -> "payload limit"
    [] fault = "yuyv-size-mismatch" -> "size mismatch"
    [] OTHER (* corrupt *)          -> "crc mismatch"

\* Every fault that tcp_sender injects is refused for the expected reason.
FaultsNamed == call.of = "fault" => call.out = FaultReason(call.in.fault)

\* validate_header and the CRC check let no damage through to the image, and
\* the reason they give is that of the first check that fails.
DamageContained == ByteDamageContained /\ FaultsNamed

\* The samples that are latencies, the one of them that k others precede in
\* order, found by counting, and what interpolation makes of two of these.
Latencies(values) == {i \in DOMAIN values : values[i] # NotFinite /\ values[i] >= 0}

OrderStatistic(values, k) ==
  LET below(value) == {i \in Latencies(values) : values[i] < value}
      upTo(value) == {i \in Latencies(values) : values[i] <= value}
  IN  CHOOSE value \in {values[i] : i \in Latencies(values)} :
        Cardinality(below(value)) <= k /\ k < Cardinality(upTo(value))

ExactPercentile(values, q) ==
  LET rank == q * (Cardinality(Latencies(values)) - 1)
      k == rank \div 100
      f == rank % 100
  IN  (100 - f) * OrderStatistic(values, k)
      + (IF f = 0 THEN 0 ELSE f * OrderStatistic(values, k + 1))

\* The summary is the one the samples have by definition: percentiles
\* interpolate between order statistics, the jitter is the population standard
\* deviation (docs/dev_notes.md), min <= p50 <= p95 <= p99 <= max, and
\* capture_frames' cut-off percentile never exceeds it.
SummaryExact ==
  call.of = "latency" =>
    LET n == Cardinality(Latencies(call.in))
        latency(i) == IF i \in Latencies(call.in) THEN call.in[i] ELSE 0
        total == Total([i \in DOMAIN call.in |-> latency(i)])
        squares == Total([i \in DOMAIN call.in |-> latency(i) * latency(i)])
        out == call.out
    IN  /\ out.sample_count = n
        /\ n > 0 =>
             /\ out.p50 = ExactPercentile(call.in, 50)
             /\ out.p95 = ExactPercentile(call.in, 95)
             /\ out.p99 = ExactPercentile(call.in, 99)
             /\ 100 * out.min <= out.p50 /\ out.p50 <= out.p95
             /\ out.p95 <= out.p99 /\ out.p99 <= 100 * out.max
             /\ {out.min, out.max} \subseteq {latency(i) : i \in Latencies(call.in)}
             /\ out.total = total
             /\ n * out.min <= out.total /\ out.total <= n * out.max
             /\ out.deviation = n * (n * squares - total * total)
             /\ CapturePercentile(Sorted(add_samples(call.in)), 95) \in
                  {100 * OrderStatistic(call.in, k) : k \in 0 .. n - 1} \cap 0 .. out.p95

\* Exact BT.601 in millionths, limited to a byte.
Exact601(y, u, v) ==
  LET c == 1164384 * (y - 16)
      limit(x) == IF x < 0 THEN 0 ELSE IF x > 255000000 THEN 255000000 ELSE x
  IN  << limit(c + 1596027 * (v - 128)),
         limit(c - 391762 * (u - 128) - 812968 * (v - 128)),
         limit(c + 2017232 * (u - 128)) >>

Near(pixel, exact) ==
  \A i \in 1 .. 3 : /\ pixel[i] * 1000000 - exact[i] <= 1000000
                    /\ exact[i] - pixel[i] * 1000000 <= 1000000

\* y, u and v of pixel k (from 1) lie in the four bytes of its pair.
Y(data, k) == data[4 * ((k - 1) \div 2) + 1 + 2 * ((k - 1) % 2)]
U(data, k) == data[4 * ((k - 1) \div 2) + 2]
V(data, k) == data[4 * ((k - 1) \div 2) + 4]

ImagesCorrect(data, width, height, out) ==
  LET pixels == width * height
      published == width % 2 = 0 /\ Len(data) = 2 * pixels
      saved == data # <<>> /\ pixels # 0 /\ Len(data) >= 2 * pixels
      pairs == 1 .. 2 * (pixels \div 2)
  IN  /\ Len(out.rgb) = (IF published THEN pixels ELSE 0)
      /\ out.mono = [k \in 1 .. Len(out.rgb) |-> Y(data, k)]
      /\ pixels # 0 => out.files.raw = data
      /\ Len(out.files.ppm) = (IF saved THEN pixels ELSE 0)
      /\ saved => \A k \in pairs :
           /\ Near(out.files.ppm[k],
                   Exact601(Y(data, k), U(data, k), V(data, k)))
           /\ published => \A i \in 1 .. 3 :
                \/ out.rgb[k][i] = out.files.ppm[k][i]
                \/ Y(data, k) < 16 /\ out.rgb[k][i] > out.files.ppm[k][i]

\* The colours of every pixel are those of BT.601 up to one step; published
\* and saved image differ only where y is below black, and there the saved
\* one is not brighter; the monochrome image is the luma.  A frame whose size
\* does not match is published in no form, and a frame too short for its
\* image is saved without one.
ImagesAgree ==
  call.of = "pixels" =>
    ImagesCorrect(call.in.data, call.in.size[1], call.in.size[2], call.out)

\* verify_fixture passes exactly the file that write_fixture writes: every
\* byte of it and the number of frames matter.
FixtureExact ==
  call.of = "fixture" =>
    (call.out = "end" <=> call.in.file = write_fixture(call.in.frames))

\* The value of an option that was asked for with the highest priority: the
\* one of its last argument, or else of its last line in the file that was
\* asked for, or else the default.
Asked(files, args, option) ==
  LET path == IF ConfigArgs(args) = {} THEN DefaultPath
              ELSE args[Min(ConfigArgs(args))][2]
      lines == IF path \in DOMAIN files THEN files[path] ELSE <<>>
      inArgs == {i \in DOMAIN args : ArgOption(args[i][1]) = option}
      inFile == {i \in DOMAIN lines : FileOption(lines[i][1]) = option}
  IN  IF inArgs # {} THEN ArgValue(args[Max(inArgs)][1], args[Max(inArgs)][2])
      ELSE IF inFile # {} THEN FileValue(option, lines[Max(inFile)][2])
      ELSE Defaults[option]

\* "Priority: built-in defaults < this config file < command line arguments"
\* (config/v4l2_tcp_pipeline.conf), in an accepted configuration.
ConfigPrecedence ==
  call.of = "load" /\ call.out.ok =>
    \A option \in Options \ {"config_path"} :
      call.out.config[option] = Asked(call.in.files, call.in.args, option)

\* The operation that serves a capture mode, and an order of operations.
Serving(mode) ==
  CASE mode = "capture_one"           -> "capture_one_frame"
    [] mode = "save_one"              -> "capture_one_frame_to_files"
    [] mode = "capture_frames"        -> "capture_frames"
    [] OTHER (* pipeline_frames *)    -> "run_pipeline"

OnlyAfter(operations, a, b) ==
  \A j \in DOMAIN operations :
    operations[j] = b => \E i \in 1 .. j - 1 : operations[i] = a

Performed(config, operations) ==
  /\ \A mode \in CaptureModes(config) : Serving(mode) \in Range(operations)
  /\ OnlyAfter(operations, "set_format", "init_mmap_buffers")
  /\ OnlyAfter(operations, "init_mmap_buffers", "start_streaming")
  /\ config.tcp_host # Unset \/ config.tcp_port > 0 =>
       /\ config.tcp_host # Unset /\ config.tcp_port > 0
       /\ "run_pipeline" \in Range(operations)

\* What an accepted configuration asks for is what main() does: the one
\* capture mode it selects, on buffers mapped for a format that was set
\* before, and TCP settings never without the pipeline that uses them.
ConfigPerformed ==
  call.of = "load" /\ call.out.ok =>
    Performed(call.out.config, MainOperations(call.out.config))

\* load_app_config and main(): an accepted configuration has the values that
\* were asked for with the highest priority, and is what is then performed.
ConfigHonoured == ConfigPrecedence /\ ConfigPerformed

\* The command line comes first ("Priority: ... < this config file < command
\* line arguments"): a command line that is accepted where there is no
\* configuration file, as those of print_usage are, is accepted where there
\* is one.
CommandLineSuffices ==
  call.of = "load" /\ load_app_config([path \in {} |-> <<>>], call.in.args).ok
    => call.out.ok
=============================================================================
