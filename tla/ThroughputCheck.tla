--------------------------- MODULE ThroughputCheck --------------------------
(***************************************************************************)
(* image_throughput_check.cpp: a node that subscribes to the images, lets   *)
(* a warm-up pass, counts images for a fixed time, prints a verdict, writes *)
(* it to a JSON file and exits.  Time is counted in units of the wall       *)
(* timer's period; the two callbacks run on one thread.                     *)
(***************************************************************************)
EXTENDS Naturals, Sequences

CONSTANTS WarmupEnd, MeasurementEnd,  \* warmup_end_time_, measurement_end_time_
          LateTime,    \* bound: the clock stops here
          MaxImages,   \* bound: images published
          WritesFile   \* output_path_ is not empty

VARIABLES now,        \* steady clock
          queue,      \* KEEP_LAST(1): the image that waits, as its validity
          published,  \* images published so far
          images,     \* warmup_images_, measured_images_, valid_, invalid_
          handled,    \* history: time and validity of the images handled
          exit_code,
          step,       \* where the program is
          draft,      \* output_path_ + ".tmp"
          report      \* output_path_

checkVars == <<now, queue, published, images, handled, exit_code, step, draft,
               report>>

CheckInit ==
  /\ now = 0 /\ queue = <<>> /\ published = 0 /\ handled = <<>>
  /\ images = [warmup |-> 0, measured |-> 0, valid |-> 0, invalid |-> 0]
  /\ exit_code = 1 /\ step = "spin" /\ draft = "none"
  /\ report \in {"none", "earlier"}

\* The clock and the publisher of the images, an image replacing the one that
\* still waits; valid is whether size, encoding and data are as expected.
PassTime ==
  /\ now < LateTime /\ now' = now + 1
  /\ UNCHANGED <<queue, published, images, handled, exit_code, step, draft,
                 report>>

PublishImage ==
  /\ published < MaxImages /\ published' = published + 1
  /\ \E valid \in BOOLEAN : queue' = <<valid>>
  /\ UNCHANGED <<now, images, handled, exit_code, step, draft, report>>

\* Mutant: on_image that counts the images that arrive after the end too.
on_image_late ==
  /\ step = "spin" /\ queue # <<>> /\ queue' = <<>>
  /\ handled' = Append(handled, <<now, queue[1]>>)
  /\ images' = IF now < WarmupEnd
                 THEN [images EXCEPT !.warmup = @ + 1]
                 ELSE [images EXCEPT !.measured = @ + 1,
                                     !.valid = IF queue[1] THEN @ + 1 ELSE @,
                                     !.invalid = IF queue[1] THEN @ ELSE @ + 1]
  /\ UNCHANGED <<now, published, exit_code, step, draft, report>>

on_image ==
  /\ step = "spin" /\ queue # <<>> /\ queue' = <<>>
  /\ handled' = Append(handled, <<now, queue[1]>>)
  /\ images' = IF now < WarmupEnd
                 THEN [images EXCEPT !.warmup = @ + 1]
               ELSE IF now >= MeasurementEnd
                 THEN images
                 ELSE [images EXCEPT !.measured = @ + 1,
                                     !.valid = IF queue[1] THEN @ + 1 ELSE @,
                                     !.invalid = IF queue[1] THEN @ ELSE @ + 1]
  /\ UNCHANGED <<now, published, exit_code, step, draft, report>>

Passed == /\ images.measured >= 2 /\ images.valid = images.measured
          /\ images.invalid = 0

\* Mutant: check_deadline that waits for an image before it finishes.
check_deadline_with_images ==
  /\ step = "spin" /\ now >= MeasurementEnd /\ images.measured > 0
  /\ exit_code' = (IF Passed THEN 0 ELSE 1)
  /\ step' = (IF WritesFile THEN "open" ELSE "shutdown")
  /\ UNCHANGED <<now, queue, published, images, handled, draft, report>>

\* The timer's callback, and finish() up to write_json.
check_deadline ==
  /\ step = "spin" /\ now >= MeasurementEnd
  /\ exit_code' = (IF Passed THEN 0 ELSE 1)
  /\ step' = (IF WritesFile THEN "open" ELSE "shutdown")
  /\ UNCHANGED <<now, queue, published, images, handled, draft, report>>

\* write_json, one step of the file system at a time.  The directories cannot
\* be made: the exception leaves main().  The stream cannot be opened: logged.
OpenDraft ==
  /\ step = "open"
  /\ \/ step' = "write" /\ draft' = "partial"
     \/ step' \in {"aborted", "shutdown"} /\ UNCHANGED draft
  /\ UNCHANGED <<now, queue, published, images, handled, exit_code, report>>

\* Nobody looks at the state of the stream: the text may be cut.
WriteDraft ==
  /\ step = "write" /\ step' = "remove"
  /\ draft' \in {"partial", IF exit_code = 0 THEN "passed" ELSE "failed"}
  /\ UNCHANGED <<now, queue, published, images, handled, exit_code, report>>

RemoveReport ==
  /\ step = "remove" /\ step' = "rename"
  /\ report' \in {"none", report}
  /\ UNCHANGED <<now, queue, published, images, handled, exit_code, draft>>

\* A rename that fails is logged and changes nothing.
RenameDraft ==
  /\ step = "rename" /\ step' = "shutdown"
  /\ \/ report' = draft /\ draft' = "none"
     \/ UNCHANGED <<draft, report>>
  /\ UNCHANGED <<now, queue, published, images, handled, exit_code>>

\* rclcpp::shutdown ends spin, and main() returns; an interrupt does the same.
ShutDown ==
  /\ step \in {"shutdown", "spin"} /\ step' = "exited"
  /\ UNCHANGED <<now, queue, published, images, handled, exit_code, draft,
                 report>>

\* The executor and the steps of the process on their own.
Proceed == \/ check_deadline \/ OpenDraft \/ WriteDraft \/ RemoveReport
           \/ RenameDraft \/ (step = "shutdown" /\ ShutDown)

CheckNext == PassTime \/ PublishImage \/ on_image \/ Proceed \/ ShutDown

-----------------------------------------------------------------------------
\* Exit code 0 means that at least two images came inside the measurement
\* and that every image that came inside it was valid, whatever came before
\* or after, in whichever order the callbacks ran.
VerdictTruthful ==
  exit_code = 0 =>
    LET inside == {i \in DOMAIN handled :
                     handled[i][1] \in WarmupEnd .. MeasurementEnd - 1}
    IN  /\ \E i, j \in inside : i # j
        /\ \A i \in inside : handled[i][2]
=============================================================================
