----------------------------- MODULE AppConfig -----------------------------
(***************************************************************************)
(* src/app_config.cpp and what main() does with the result: built-in        *)
(* defaults, then the configuration file, then the command line, then       *)
(* validation, then the operations on the camera.  A line of the file is a  *)
(* pair of its key and its parsed value, an argument a pair of its name and *)
(* its value; -1 stands for a text that is no number or a negative one (of  *)
(* a flag: neither yes nor no), 0 for an optional number that is not set    *)
(* and Unset for an optional text that is not.                              *)
(***************************************************************************)
EXTENDS Integers, Sequences, FiniteSetsExt, Functions

Unset == "unset"
Missing == "missing"   \* the command line ends before the argument's value
DefaultPath == "config/v4l2_tcp_pipeline.conf"

Defaults ==
  [config_path |-> DefaultPath, device |-> "/dev/video10",
   list_formats |-> FALSE, capture_one |-> FALSE, save_one |-> FALSE,
   capture_frames |-> 0, pipeline_frames |-> 0, ring_capacity |-> 8,
   consumer_delay_ms |-> 0, pipeline_save |-> FALSE, save_limit |-> 5,
   timeout_ms |-> 2000, camera_recovery_enabled |-> TRUE,
   camera_timeout_recovery_threshold |-> 3,
   camera_invalid_frame_recovery_threshold |-> 30,
   camera_invalid_frame_recovery_cooldown_frames |-> 300,
   camera_invalid_frame_recovery_max_count |-> 3,
   camera_recovery_max_attempts |-> 5, camera_recovery_retry_delay_ms |-> 1000,
   output_dir |-> "output", stats_output |-> "output/stats/pipeline_stats.json",
   tcp_host |-> Unset, tcp_port |-> 0, tcp_queue_capacity |-> 8,
   tcp_connect_max_attempts |-> 5, tcp_connect_retry_delay_ms |-> 500,
   tcp_send_timeout_ms |-> 2000, width |-> 0, height |-> 0,
   pixel_format |-> Unset, mmap_buffers |-> 0, log_level |-> "INFO"]

Options == DOMAIN Defaults

Flags == {"list_formats", "capture_one", "save_one", "pipeline_save",
          "camera_recovery_enabled"}
Texts == {"config_path", "device", "pixel_format", "output_dir",
          "stats_output", "tcp_host", "log_level"}

\* parse_positive_int accepts 1 .. max, parse_non_negative_int 0 .. max.
Positive == {"width", "height", "mmap_buffers", "ring_capacity", "save_limit",
             "timeout_ms", "tcp_queue_capacity", "tcp_connect_max_attempts",
             "tcp_send_timeout_ms", "camera_timeout_recovery_threshold",
             "camera_invalid_frame_recovery_threshold",
             "camera_invalid_frame_recovery_max_count",
             "camera_recovery_max_attempts"}

\* Positive on the command line only: there 0 cannot switch them off.
PositiveArgs == Positive \cup {"capture_frames", "pipeline_frames", "tcp_port"}

MaxValue(option) ==
  CASE option = "tcp_port" -> 65535
    [] option = "tcp_connect_retry_delay_ms" -> 60000
    [] option \in {"tcp_send_timeout_ms", "camera_recovery_retry_delay_ms"} ->
         600000
    [] option \in {"tcp_connect_max_attempts", "camera_recovery_max_attempts",
                   "camera_timeout_recovery_threshold",
                   "camera_invalid_frame_recovery_threshold",
                   "camera_invalid_frame_recovery_max_count"} -> 1000
    [] OTHER -> 1000000

-----------------------------------------------------------------------------
\* The option a key of the file sets; "unknown" is refused.
FileOption(key) ==
  CASE key = "format" -> "pixel_format"
    [] key = "frames" -> "pipeline_frames"
    [] key = "config_path" -> "unknown"
    [] OTHER -> key

\* The option an argument sets: --frames is the other mode here.
ArgOption(name) ==
  CASE name = "format" -> "pixel_format"
    [] name = "frames" -> "capture_frames"
    [] name = "output" -> "output_dir"
    [] name = "config" -> "config_path"
    [] name \in {"camera_recovery", "no_camera_recovery"} ->
         "camera_recovery_enabled"
    [] name \in {"pixel_format", "output_dir", "config_path",
                 "camera_recovery_enabled"} -> "unknown"
    [] OTHER -> name

FileAccepts(option, value) ==
  /\ option \in Options \ {"config_path"}
  /\ option \in Flags => value \in {0, 1}
  /\ option \in Positive => value \in 1 .. MaxValue(option)
  /\ option \notin Texts \cup Flags \cup Positive => value \in 0 .. MaxValue(option)

ArgAccepts(option, value) ==
  /\ option \in Options
  /\ option \in Texts => value # Missing
  /\ option \in PositiveArgs => value \in 1 .. MaxValue(option)
  /\ option \notin Texts \cup Flags \cup PositiveArgs =>
       value \in 0 .. MaxValue(option)

\* What the option holds after the line; an empty tcp_host is no host.
FileValue(option, value) ==
  IF option \in Flags THEN value = 1
  ELSE IF option = "tcp_host" /\ value = "" THEN Unset ELSE value

\* A flag on the command line has no value: it sets, or it clears recovery.
ArgValue(name, value) ==
  IF ArgOption(name) \in Flags THEN name # "no_camera_recovery" ELSE value

\* apply_key_value for one line: an error ends the loading.
apply_key_value(state, line) ==
  LET option == FileOption(line[1])
  IN  IF state.ok /\ FileAccepts(option, line[2])
        THEN [state EXCEPT !.config[option] = FileValue(option, line[2])]
        ELSE [state EXCEPT !.ok = FALSE]

\* One turn of the loop of apply_cli_args.
ApplyArg(state, arg) ==
  LET option == ArgOption(arg[1])
  IN  IF state.ok /\ ArgAccepts(option, arg[2])
        THEN [state EXCEPT !.config[option] = ArgValue(arg[1], arg[2])]
        ELSE [state EXCEPT !.ok = FALSE]

\* The lines of the file that exists, from the first to the last.
load_config_file_into(state, lines) ==
  LET after[i \in 0 .. Len(lines)] ==
        IF i = 0 THEN state ELSE apply_key_value(after[i - 1], lines[i])
  IN  after[Len(lines)]

apply_cli_args(state, args) ==
  LET after[i \in 0 .. Len(args)] ==
        IF i = 0 THEN state ELSE ApplyArg(after[i - 1], args[i])
  IN  after[Len(args)]

CaptureModes(config) ==
  {mode \in {"capture_one", "save_one"} : config[mode]} \cup
  {mode \in {"capture_frames", "pipeline_frames"} : config[mode] > 0}

AtMostOne(S) == \A a, b \in S : a = b

\* What validate_app_config asks of the options together ...
OptionsConsistent(config) ==
  LET wants_set_format == \/ config.width # 0 \/ config.height # 0
                          \/ config.pixel_format # Unset
      tcp_enabled == config.tcp_host # Unset \/ config.tcp_port > 0
  IN  /\ wants_set_format => /\ config.width # 0 /\ config.height # 0
                             /\ config.pixel_format # Unset
      /\ config.mmap_buffers # 0 => wants_set_format
      /\ AtMostOne(CaptureModes(config))
      /\ tcp_enabled => config.tcp_host # Unset /\ config.tcp_port > 0
      /\ tcp_enabled => config.pipeline_frames > 0
      /\ CaptureModes(config) # {} => config.mmap_buffers # 0

\* ... and of each of them.
OptionsInRange(config) ==
  /\ "" \notin {config.device, config.output_dir, config.stats_output}
  /\ \A option \in Positive \ {"width", "height", "mmap_buffers",
                               "save_limit", "timeout_ms"} : config[option] > 0
  /\ \A option \in {"tcp_port", "tcp_connect_retry_delay_ms",
                    "camera_invalid_frame_recovery_cooldown_frames",
                    "camera_recovery_retry_delay_ms"} : config[option] >= 0
  /\ config.tcp_port <= 65535
  /\ config.log_level \in {"DEBUG", "INFO", "WARN", "ERROR"}

validate_app_config(config) == OptionsConsistent(config) /\ OptionsInRange(config)

\* The positions of --config among the arguments.
ConfigArgs(args) == {i \in DOMAIN args : args[i][1] = "config"}

\* Mutant: the file is applied over the command line.
LoadFileLast(files, args) ==
  LET cli == apply_cli_args([ok |-> TRUE, config |-> Defaults], args)
      lines == IF cli.config.config_path \in DOMAIN files
                 THEN files[cli.config.config_path] ELSE <<>>
      final == load_config_file_into(cli, lines)
  IN  [final EXCEPT !.ok = @ /\ validate_app_config(final.config)]

\* find_config_arg takes the first --config; files maps the path of every
\* file that exists to its lines.  Only a file asked for has to exist.
load_app_config(files, args) ==
  LET named == ConfigArgs(args)
      path == IF named = {} THEN DefaultPath
              ELSE args[CHOOSE i \in named : \A j \in named : i <= j][2]
      start == [ok |-> path # Missing,
                config |-> [Defaults EXCEPT !.config_path = path]]
      loaded == IF path \in DOMAIN files
                  THEN load_config_file_into(start, files[path])
                  ELSE [start EXCEPT !.ok = @ /\ named = {}]
      final == apply_cli_args(loaded, args)
  IN  [final EXCEPT !.ok = @ /\ validate_app_config(final.config)]

-----------------------------------------------------------------------------
Only(condition, operation) == IF condition THEN <<operation>> ELSE <<>>

\* The operations of main() with an accepted configuration, none failing.
MainOperations(config) ==
  LET capturing == CaptureModes(config) # {}
      pipeline == config.pipeline_frames > 0
  IN  <<"open_device", "query_capability">>
      \o Only(config.list_formats, "list_formats")
      \o Only(/\ config.width # 0 /\ config.height # 0
              /\ config.pixel_format # Unset, "set_format")
      \o Only(config.mmap_buffers # 0, "init_mmap_buffers")
      \o Only(config.save_one \/ (pipeline /\ config.pipeline_save),
              "prepare_output_directory")
      \o Only(capturing, "start_streaming")
      \o Only(capturing,
              IF config.save_one THEN "capture_one_frame_to_files"
              ELSE IF config.capture_one THEN "capture_one_frame"
              ELSE IF config.capture_frames > 0 THEN "capture_frames"
              ELSE "run_pipeline")
      \o Only(capturing, "stop_streaming")
=============================================================================
