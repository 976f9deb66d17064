--------------------------- MODULE CaptureProducer ---------------------------
(***************************************************************************)
(* The producer thread of run_pipeline (src/main.cpp): capture a frame,     *)
(* push it into the capture ring, and rebuild the camera when one of the    *)
(* two recovery controllers asks for it.                                    *)
(***************************************************************************)
EXTENDS PipelineState, CaptureRecovery

CONSTANTS RecoveryEnabled,   \* camera_recovery_enabled
          MaxFaults          \* bound: camera faults the environment injects

ASSUME ProducerAssumption == RecoveryEnabled \in BOOLEAN /\ MaxFaults \in Nat

VARIABLES pstats,      \* the statistics this thread writes
          controller, invalid_controller,
          trigger,     \* invalid_frame_trigger of the rebuild in progress
          faults,      \* camera faults so far (environment)
          since        \* history: frames observed since the last rebuild

producerVars == <<pstats, controller, invalid_controller, trigger, faults, since>>

ProducerLabels == {"unborn", "loop", "capture", "rebuild", "delay", "reinit",
                   "abandoned", "fail", "finish", "exited"}

ProducerCounters ==
  {"captured", "buffer_errors", "incomplete", "capture_timeouts", "temporary_unavailable",
   "device_errors", "invalid_recoveries", "suppressed_cooldown", "suppressed_budget",
   "recovery_attempts", "recovery_successes", "recovery_failures"}

ProducerInit ==
  /\ pstats = [counter \in ProducerCounters |-> 0]
  /\ controller = NewController
  /\ invalid_controller = NewInvalidController
  /\ trigger = FALSE
  /\ faults = 0
  /\ since = 0

ProducerTypeOK ==
  /\ pstats \in [ProducerCounters -> Nat]
  /\ controller \in Controller
  /\ invalid_controller \in InvalidController
  /\ trigger \in BOOLEAN /\ faults \in 0 .. MaxFaults /\ since \in Nat

At(l) == pc["producer"] = l
Fault == faults < MaxFaults /\ faults' = faults + 1

\* while (produced < frame_count && !stop_requested)
ProducerLoop ==
  /\ At("loop")
  /\ Goto("producer", IF pstats.captured < FrameCount /\ ~stop_requested
                      THEN "capture" ELSE "finish")
  /\ UNCHANGED <<producerVars, captureQueue, tcpQueue, doneFlags, stop_requested,
                 errors, last_error>>

\* capture_frame_copy returned a frame: both controllers see it, it is pushed
\* whether usable or not, and a streak of unusable frames may start a rebuild.
\* The consumer is notified after the push.
CaptureFrame(defects) ==
  LET f        == [id |-> pstats.captured + 1, defects |-> defects]
      decision == Decision(invalid_controller, is_frame_usable(f))
      recover  == decision = "Recover" /\ RecoveryEnabled
  IN  /\ At("capture")
      /\ controller' = NewController
      /\ invalid_controller' = Observe(invalid_controller, is_frame_usable(f))
      /\ Ring!Push(f)
      /\ pstats' = Counted(pstats, {c \in ProducerCounters :
           \/ c = "captured"
           \/ c = "buffer_errors" /\ "buffer_error" \in defects
           \/ c = "incomplete" /\ "incomplete" \in defects
           \/ c = "invalid_recoveries" /\ recover
           \/ c = "suppressed_cooldown" /\ decision = "SuppressedByCooldown"
           \/ c = "suppressed_budget" /\ decision = "SuppressedByBudget"})
      /\ trigger' = recover
      /\ since' = since + 1
      /\ GotoAndNotify("producer", IF recover THEN "rebuild" ELSE "loop", {"consumer"})
      /\ UNCHANGED <<faults, tcpQueue, doneFlags, stop_requested, errors, last_error>>

\* catch (const CameraCaptureError&): count, record, and ask the controller.
CaptureError(kind) ==
  /\ At("capture")
  /\ Fault
  /\ pstats' = Counted(pstats, {CASE kind = "Timeout"              -> "capture_timeouts"
                                   [] kind = "TemporaryUnavailable" -> "temporary_unavailable"
                                   [] OTHER                         -> "device_errors"})
  /\ last_error' = "capture"
  /\ controller' = CountTimeout(controller, kind)
  /\ trigger' = FALSE
  /\ Goto("producer", IF ~ShouldReinitialize(controller, kind) THEN "loop"
                      ELSE IF RecoveryEnabled THEN "rebuild" ELSE "fail")
  /\ UNCHANGED <<invalid_controller, since, captureQueue, tcpQueue,
                 doneFlags, stop_requested, errors>>

\* Any other exception leaves the loop without recovery: requeue_or_throw of
\* capture_frame_copy reports a failed VIDIOC_QBUF as a plain runtime_error.
CaptureThrows ==
  /\ At("capture")
  /\ Fault
  /\ Goto("producer", "fail")
  /\ UNCHANGED <<pstats, controller, invalid_controller, trigger, since,
                 captureQueue, tcpQueue, doneFlags, stop_requested, errors, last_error>>

\* rebuild_camera: while (!stop_requested && begin_recovery_attempt())
RebuildAttempt ==
  /\ At("rebuild")
  /\ IF ~stop_requested /\ MayAttempt(controller)
     THEN /\ controller' = BeginAttempt(controller)
          /\ pstats' = Counted(pstats, {"recovery_attempts"})
          /\ Goto("producer", "delay")
     ELSE /\ Goto("producer", "abandoned")
          /\ UNCHANGED <<controller, pstats>>
  /\ UNCHANGED <<invalid_controller, trigger, faults, since, captureQueue,
                 tcpQueue, doneFlags, stop_requested, errors, last_error>>

\* sleep_interruptibly: false as soon as a stop was requested.
RebuildDelay ==
  /\ At("delay")
  /\ Goto("producer", IF stop_requested THEN "abandoned" ELSE "reinit")
  /\ UNCHANGED <<producerVars, captureQueue, tcpQueue, doneFlags, stop_requested,
                 errors, last_error>>

\* initialize_pipeline_camera succeeded: counters, both controllers, and the
\* last error is cleared.
ReinitSucceeds ==
  /\ At("reinit")
  /\ pstats' = Counted(pstats, {"recovery_successes"})
  /\ controller' = NewController
  /\ invalid_controller' = AfterRebuild(invalid_controller, trigger)
  /\ since' = 0
  /\ last_error' = ""
  /\ Goto("producer", "loop")
  /\ UNCHANGED <<trigger, faults, captureQueue, tcpQueue, doneFlags,
                 stop_requested, errors>>

\* It threw: the failure is recorded and the attempt loop goes on.
ReinitFails ==
  /\ At("reinit")
  /\ Fault
  /\ pstats' = Counted(pstats, {"recovery_failures"})
  /\ last_error' = "recovery"
  /\ Goto("producer", "rebuild")
  /\ UNCHANGED <<controller, invalid_controller, trigger, since, captureQueue,
                 tcpQueue, doneFlags, stop_requested, errors>>

\* rebuild_camera returned false: give up unless the pipeline is stopping.
RebuildAbandoned ==
  /\ At("abandoned")
  /\ Goto("producer", IF stop_requested THEN "loop" ELSE "fail")
  /\ UNCHANGED <<producerVars, captureQueue, tcpQueue, doneFlags, stop_requested,
                 errors, last_error>>

\* catch (...): producer_error, stop_requested = true, tcp_cv.notify_all().
ProducerFail ==
  /\ At("fail")
  /\ errors' = errors \cup {"producer"}
  /\ stop_requested' = TRUE
  /\ GotoAndNotify("producer", "finish", {"tcp"})
  /\ UNCHANGED <<producerVars, captureQueue, tcpQueue, doneFlags, last_error>>

\* producer_done = true; cv.notify_all()
ProducerFinish ==
  /\ At("finish")
  /\ producer_done' = TRUE
  /\ GotoAndNotify("producer", "exited", {"consumer"})
  /\ UNCHANGED <<producerVars, captureQueue, tcpQueue, consumer_done,
                 stop_requested, errors, last_error>>

ProducerStep ==
  \/ ProducerLoop
  \/ \E defects \in Captures : CaptureFrame(defects)
  \/ \E kind \in ErrorKinds : CaptureError(kind)
  \/ CaptureThrows
  \/ RebuildAttempt
  \/ RebuildDelay
  \/ ReinitSucceeds
  \/ ReinitFails
  \/ RebuildAbandoned
  \/ ProducerFail
  \/ ProducerFinish
=============================================================================
