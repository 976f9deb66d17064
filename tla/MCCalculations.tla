--------------------------- MODULE MCCalculations ---------------------------
EXTENDS Calculations

MCDimensions == {0, 1, 2, 4, 5, 6}
MCLuma == {0, 15, 17, 126, 255}
MCChroma == {0, 16, 128, 129, 255}

\* Headers with one field of any digit at any place, all others zero or full.
MCHeader(field, value, others) ==
  [f \in Fields |-> IF f = field THEN value
                    ELSE others * (Base ^ FieldSize(f) - 1)]
MCHeaders ==
  UNION {{MCHeader(field, digit * Base ^ place, others) :
            digit \in 0 .. Base - 1, place \in 0 .. FieldSize(field) - 1,
            others \in {0, 1}} : field \in Fields}

\* Frames on both sides of every limit of sender and receiver.
MCCapturedFrames ==
  [width : MCDimensions, height : MCDimensions,
   data : {[i \in 1 .. n |-> (3 * i) % Base] : n \in {0, 3, 4, 7, 8, 9, 16, 17}},
   pixel_format : {0, V4L2_PIX_FMT_YUYV, V4L2_PIX_FMT_YUYV + 1},
   v4l2_error : BOOLEAN, sequence : {1}, capture_timestamp_ns : {0, 1}]

\* Images of the pixels y0 u y1 v over and over, cut anywhere.
MCImages ==
  {[i \in 1 .. n |-> yuyv[((i - 1) % 4) + 1]] :
     n \in 1 .. 7, yuyv \in MCLuma \X MCChroma \X MCLuma \X MCChroma}

MCImageSizes == {<<2, 1>>, <<1, 1>>, <<3, 1>>, <<1, 2>>}

\* CRC inputs: every sequence of up to three of these bytes.
MCPayloads == UNION {[1 .. n -> {0, 1, 90, 128, 255}] : n \in 0 .. 3}

\* Two that are dropped, an outlier and values close to each other.
MCSamples == {-1, NotFinite, 0, 3, 10, 11}

\* config/v4l2_tcp_pipeline.conf.
Shipped ==
  << <<"device", "/dev/video0">>, <<"width", 640>>, <<"height", 360>>,
     <<"format", "YUYV">>, <<"mmap_buffers", 4>>, <<"pipeline_frames", 300>>,
     <<"timeout_ms", 2000>>, <<"camera_recovery_enabled", 1>>,
     <<"camera_timeout_recovery_threshold", 3>>,
     <<"camera_invalid_frame_recovery_threshold", 30>>,
     <<"camera_invalid_frame_recovery_cooldown_frames", 300>>,
     <<"camera_invalid_frame_recovery_max_count", 3>>,
     <<"camera_recovery_max_attempts", 5>>,
     <<"camera_recovery_retry_delay_ms", 1000>>, <<"ring_capacity", 8>>,
     <<"tcp_queue_capacity", 8>>, <<"consumer_delay_ms", 0>>,
     <<"tcp_host", "127.0.0.1">>, <<"tcp_port", 9000>>,
     <<"tcp_connect_max_attempts", 5>>, <<"tcp_connect_retry_delay_ms", 500>>,
     <<"tcp_send_timeout_ms", 2000>>, <<"output_dir", "output">>,
     <<"pipeline_save", 0>>, <<"save_limit", 5>>, <<"log_level", "INFO">>,
     <<"stats_output", "output/stats/pipeline_stats.json">> >>

\* A file that chooses a format and leaves the mode to the command line.
FormatOnly == << <<"width", 640>>, <<"height", 480>>, <<"pixel_format", "YUYV">>,
                 <<"mmap_buffers", 4>> >>

MCFileSystems ==
  { [path \in {} |-> <<>>],
    [path \in {DefaultPath} |-> Shipped],
    [path \in {DefaultPath, "other.conf"} |->
       IF path = DefaultPath THEN Shipped ELSE FormatOnly] }

MCLines ==
  { <<"pipeline_frames", 0>>, <<"frames", 7>>, <<"capture_frames", 3>>,
    <<"tcp_host", "">>, <<"tcp_host", "camera">>, <<"tcp_port", 0>>,
    <<"tcp_port", 65536>>, <<"capture_one", 1>>, <<"capture_one", -1>>,
    <<"mmap_buffers", 0>>, <<"config_path", "other.conf">>,
    <<"ring_capacity", 1000000>>, <<"log_level", "TRACE">>,
    <<"camera_recovery_enabled", 0>>, <<"tcp_connect_max_attempts", 1001>>,
    <<"output_dir", "">> }

MCArguments ==
  { <<"config", "other.conf">>, <<"config", DefaultPath>>, <<"config", Missing>>,
    <<"pipeline_frames", 5>>, <<"pipeline_frames", 0>>, <<"frames", 9>>,
    <<"capture_one", 0>>, <<"save_one", 0>>, <<"output", "elsewhere">>,
    <<"tcp_host", "camera">>, <<"tcp_port", 1>>, <<"camera_recovery", 0>>,
    <<"no_camera_recovery", 0>>, <<"width", 320>>, <<"format", "MJPG">>,
    <<"mmap_buffers", 2>>, <<"list_formats", 0>>, <<"device", Missing>>,
    <<"unknown", 0>>, <<"timeout_ms", 1000001>> }

\* Up to two arguments; only the last one can lack its value.
MCCommandLines ==
  {args \in UNION {[1 .. n -> MCArguments] : n \in 0 .. 2} :
     \A i \in 1 .. Len(args) - 1 :
       args[i] \notin {<<"config", Missing>>, <<"device", Missing>>}}

\* Command lines of print_usage in src/main.cpp, from the first that captures.
Format == << <<"device", "/dev/video10">>, <<"width", 640>>, <<"height", 480>>,
             <<"format", "YUYV">>, <<"mmap_buffers", 4>> >>
UsageCommandLines ==
  { Append(Format, <<"capture_one", 0>>),
    Format \o << <<"save_one", 0>>, <<"output", "output">> >>,
    Format \o << <<"frames", 300>>, <<"timeout_ms", 2000>> >>,
    Format \o << <<"pipeline_frames", 300>>, <<"ring_capacity", 8>>,
                 <<"timeout_ms", 2000>> >> }
UsageFileSystems == {[path \in {DefaultPath} |-> Shipped]}
=============================================================================
