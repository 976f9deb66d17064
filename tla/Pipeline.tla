------------------------------- MODULE Pipeline -------------------------------
(***************************************************************************)
(* run_pipeline of src/main.cpp: main connects to the receiver, starts the  *)
(* TCP sender, consumer and producer threads, joins them, writes the        *)
(* statistics file and rethrows the first stored failure.                   *)
(***************************************************************************)
EXTENDS CaptureProducer, FrameConsumer, TcpSenderThread

CONSTANTS ConnectMaxAttempts,   \* tcp_connect_max_attempts
          StatsMayFail          \* whether write_pipeline_stats_json may throw

ASSUME MainAssumption ==
  /\ ConnectMaxAttempts \in Nat \ {0}
  /\ StatsMayFail \in BOOLEAN

VARIABLES main,       \* where main is
          connects,   \* stats.tcp_connect_attempts and tcp_connect_retries
          result      \* how run_pipeline ended: "ok" or what it threw

mainVars == <<main, connects, result>>
vars == <<pc, captureQueue, tcpQueue, doneFlags, stop_requested, errors, last_error,
          producerVars, cstats, tcpVars, mainVars>>

MainLabels == {"connect", "start", "connectFailed", "join", "report", "ended"}
Results == {"", "ok", "connect", "stats", "producer", "consumer", "tcp", "send"}

Init ==
  /\ pc = [t \in Threads |-> "unborn"]
  /\ ring = <<>> /\ capture_dropped = 0 /\ frame = <<>>
  /\ tcp_ring = <<>> /\ tcp_dropped = 0 /\ tcp_frame = <<>>
  /\ producer_done = FALSE /\ consumer_done = FALSE /\ stop_requested = FALSE
  /\ errors = {} /\ last_error = ""
  /\ ProducerInit /\ ConsumerInit /\ TcpInit
  /\ main = IF TcpEnabled THEN "connect" ELSE "start"
  /\ connects = [attempts |-> 0, retries |-> 0]
  /\ result = ""

Others == <<captureQueue, tcpQueue, doneFlags, stop_requested, errors, producerVars, cstats>>

\* connect_to_tcp_receiver_with_retry: one attempt that succeeds.
ConnectSucceeds ==
  /\ main = "connect"
  /\ connects' = [connects EXCEPT !.attempts = @ + 1]
  /\ main' = "start"
  /\ UNCHANGED <<pc, Others, last_error, tcpVars, result>>

\* Mutant: the loop over the attempts runs once too often.
ConnectFailsOnceMore ==
  /\ main = "connect"
  /\ LET attempt == connects.attempts + 1 IN
       IF attempt <= ConnectMaxAttempts
       THEN /\ connects' = [attempts |-> attempt,
                            retries  |-> connects.retries + 1]
            /\ UNCHANGED <<main, last_error, tstats>>
       ELSE /\ connects' = [connects EXCEPT !.attempts = attempt]
            /\ tstats' = Counted(tstats, {"errors"})
            /\ last_error' = "connect"
            /\ main' = "connectFailed"
  /\ UNCHANGED <<pc, Others, wire, result>>

\* One attempt that fails: retry after the delay while attempts remain, else
\* the exception is counted and recorded before any thread exists.
ConnectFails ==
  /\ main = "connect"
  /\ LET attempt == connects.attempts + 1 IN
       IF attempt < ConnectMaxAttempts
       THEN /\ connects' = [attempts |-> attempt, retries |-> connects.retries + 1]
            /\ UNCHANGED <<main, last_error, tstats>>
       ELSE /\ connects' = [connects EXCEPT !.attempts = attempt]
            /\ tstats' = Counted(tstats, {"errors"})
            /\ last_error' = "connect"
            /\ main' = "connectFailed"
  /\ UNCHANGED <<pc, Others, wire, result>>

\* The failure statistics are written, then the connect error is rethrown.
ReportConnectFailure ==
  /\ main = "connectFailed"
  /\ result' = "connect" \/ (StatsMayFail /\ result' = "stats")
  /\ main' = "ended"
  /\ UNCHANGED <<pc, Others, last_error, tcpVars, connects>>

\* The std::thread objects are constructed.
StartThreads ==
  /\ main = "start"
  /\ pc' = [t \in Threads |-> IF t = "tcp" /\ ~TcpEnabled THEN "unborn" ELSE "loop"]
  /\ main' = "join"
  /\ UNCHANGED <<Others, last_error, tcpVars, connects, result>>

\* producer_thread.join(); consumer_thread.join(); tcp_sender_thread.join()
JoinThreads ==
  /\ main = "join"
  /\ pc["producer"] = "exited" /\ pc["consumer"] = "exited"
  /\ TcpEnabled => pc["tcp"] = "exited"
  /\ main' = "report"
  /\ UNCHANGED <<pc, Others, last_error, tcpVars, connects, result>>

\* Mutant: a failed send is not turned into a failure of the run.
OutcomeIgnoresSend ==
  IF "producer" \in errors THEN "producer"
  ELSE IF "consumer" \in errors THEN "consumer"
  ELSE IF "tcp" \in errors THEN "tcp"
  ELSE "ok"

\* What run_pipeline rethrows: the first of these that is set.
Outcome ==
  IF "producer" \in errors THEN "producer"
  ELSE IF "consumer" \in errors THEN "consumer"
  ELSE IF "tcp" \in errors THEN "tcp"
  ELSE IF tstats.errors > 0 THEN "send"
  ELSE "ok"

\* Write the statistics, then rethrow; a failing write replaces the outcome.
Report ==
  /\ main = "report"
  /\ result' = Outcome \/ (StatsMayFail /\ result' = "stats")
  /\ main' = "ended"
  /\ UNCHANGED <<pc, Others, last_error, tcpVars, connects>>

MainStep ==
  \/ ConnectSucceeds \/ ConnectFails \/ ReportConnectFailure
  \/ StartThreads \/ JoinThreads \/ Report

Producer == ProducerStep /\ UNCHANGED <<cstats, tcpVars, mainVars>>
Consumer == ConsumerStep /\ UNCHANGED <<producerVars, tcpVars, mainVars>>
TcpSender == TcpStep /\ UNCHANGED <<producerVars, cstats, mainVars>>

\* The process has ended.
Ended == main = "ended" /\ UNCHANGED vars

Next == MainStep \/ Producer \/ Consumer \/ TcpSender \/ Ended

Spec == Init /\ [][Next]_vars

\* Every thread keeps running: the capture poll and each send have a timeout,
\* and both condition-variable waits end after 100 ms.
Fairness == WF_vars(MainStep) /\ WF_vars(Producer) /\ WF_vars(Consumer) /\ WF_vars(TcpSender)

FairSpec == Spec /\ Fairness

-----------------------------------------------------------------------------
\* Labels, queues within their capacities, counters, and the bounded members
\* of the recovery controllers keep their types; connect attempts stay within
\* tcp_connect_max_attempts.
TypeOK ==
  /\ pc \in [Threads -> ProducerLabels \cup ConsumerLabels \cup TcpLabels]
  /\ pc["producer"] \in ProducerLabels
  /\ pc["consumer"] \in ConsumerLabels
  /\ pc["tcp"] \in TcpLabels
  /\ QueuesTypeOK /\ FlagsTypeOK
  /\ ProducerTypeOK
  /\ cstats \in [ConsumerCounters -> Nat]
  /\ tstats \in [TcpCounters -> Nat] /\ wire \in Seq(Frames)
  /\ main \in MainLabels /\ result \in Results
  /\ connects \in [attempts: 0 .. ConnectMaxAttempts, retries: Nat]

One(b) == IF b THEN 1 ELSE 0

\* 1 while the consumer holds a frame it popped but has neither skipped nor
\* passed on, for good if saving it threw.
ConsumerHolds ==
  One(pc["consumer"] \in {"process", "enqueue", "fail", "failStop"} \/ "consumer" \in errors)

\* 1 while a frame is being sent, for good if sending it failed, was cancelled
\* or ended in an exception.
InFlight ==
  One(\/ pc["tcp"] \in {"send", "sending"}
      \/ pc["tcp"] # "unborn" /\ tstats.errors > 0
      \/ tstats.cancellations > 0
      \/ "tcp" \in errors)

\* Every frame the camera delivered is in exactly one place: consumed, dropped
\* or waiting in the capture ring; every consumed frame is skipped, queued or
\* held; every queued frame is sent, dropped, waiting or in flight.  The
\* counters run_pipeline reports (main.cpp:958-1011) therefore add up.
FramesAccounted ==
  /\ pstats.captured = cstats.consumed + capture_dropped + Len(ring)
  /\ TcpEnabled => cstats.consumed = cstats.invalid + cstats.tcp_queued + ConsumerHolds
  /\ cstats.tcp_queued = tstats.sent + tcp_dropped + Len(tcp_ring) + InFlight
  /\ Len(wire) = tstats.sent

\* run_pipeline returns normally only if the camera delivered every requested
\* frame and each one was skipped as unusable, dropped by a full ring, or (with
\* TCP) completely sent: the order in which the loops read the done flags and
\* the rings loses none at shutdown.
SuccessDeliversEverything ==
  result = "ok" =>
    /\ pstats.captured = FrameCount
    /\ ring = <<>>
    /\ cstats.consumed + capture_dropped = FrameCount
    /\ TcpEnabled => /\ tcp_ring = <<>>
                     /\ cstats.invalid + capture_dropped + tcp_dropped + Len(wire) = FrameCount

\* Whoever requests a stop has recorded a failure first, so a stopped run never
\* reports success, whichever threads stop in whichever order; in particular a
\* cancelled send, which run_pipeline does not look at, never goes unreported.
StopIsReported ==
  /\ main = "ended" /\ stop_requested => result # "ok"
  /\ tstats.cancellations > 0 => errors \cap {"producer", "consumer"} # {}

-----------------------------------------------------------------------------
\* The inductive strengthening of the three invariants above, one part per
\* thread: what each thread has established when it is at a label.

ProducerShutdown ==
  /\ pstats.captured <= FrameCount
  /\ pc["producer"] = "capture" => pstats.captured < FrameCount
  /\ pc["producer"] \in {"finish", "exited"} =>
       pstats.captured = FrameCount \/ stop_requested
  /\ producer_done <=> pc["producer"] = "exited"
  /\ "producer" \in errors => stop_requested

ConsumerShutdown ==
  /\ pc["consumer"] = "process" => frame # <<>>
  /\ pc["consumer"] = "enqueue" => TcpEnabled /\ frame # <<>>
  /\ pc["consumer"] = "checkEmpty" => producer_done
  /\ pc["consumer"] \in {"finish", "exited"} => stop_requested \/ (producer_done /\ ring = <<>>)
  /\ consumer_done <=> pc["consumer"] \in {"failStop", "exited"}
  /\ pc["consumer"] = "failStop" => "consumer" \in errors
  /\ "consumer" \in errors => \/ pc["consumer"] = "failStop"
                              \/ pc["consumer"] = "exited" /\ stop_requested

\* Labels at which the sender has not failed and has not been cancelled.
TcpHealthy == {"loop", "checkEmpty", "pop", "enterWait", "wait", "send", "sending"}

TcpShutdown ==
  /\ pc["tcp"] \in {"send", "sending"} => Len(tcp_frame) = 1
  /\ pc["tcp"] = "checkEmpty" => consumer_done
  /\ pc["tcp"] \in {"close", "exited"} => stop_requested \/ (consumer_done /\ tcp_ring = <<>>)
  /\ pc["tcp"] \in TcpHealthy => tstats.errors = 0 /\ tstats.cancellations = 0
  /\ pc["tcp"] \in TcpHealthy \cup {"unborn", "setStop"} => "tcp" \notin errors
  /\ pc["tcp"] = "unborn" => tstats.cancellations = 0
  /\ pc["tcp"] = "setStop" => tstats.errors > 0

StopCaused ==
  /\ stop_requested => errors # {} \/ tstats.errors > 0
  /\ stop_requested /\ pc["tcp"] \in TcpHealthy => errors \cap {"producer", "consumer"} # {}

MainPhases ==
  /\ main = "connect" => connects.attempts < ConnectMaxAttempts
  /\ main \in {"connect", "start"} => tstats.errors = 0
  /\ main \in {"connect", "start", "connectFailed"} => pc = [t \in Threads |-> "unborn"]
  /\ pc["producer"] = "unborn" => /\ pc["consumer"] = "unborn" /\ pc["tcp"] = "unborn"
                                 /\ ~stop_requested /\ errors = {}
  /\ TcpEnabled /\ pc["producer"] # "unborn" => pc["tcp"] # "unborn"
  /\ ~TcpEnabled => pc["tcp"] = "unborn" /\ cstats.tcp_queued = 0
  /\ main = "report" \/ result = "ok" =>
       /\ pc["producer"] = "exited" /\ pc["consumer"] = "exited"
       /\ TcpEnabled => pc["tcp"] = "exited"
  /\ result = "ok" => errors = {} /\ tstats.errors = 0
  /\ result # "" => main = "ended"

IInv ==
  /\ TypeOK /\ FramesAccounted
  /\ ProducerShutdown /\ ConsumerShutdown /\ TcpShutdown /\ StopCaused /\ MainPhases
  /\ tstats.cancellations > 0 => errors \cap {"producer", "consumer"} # {}

-----------------------------------------------------------------------------
\* What reaches the socket is usable and in order of capture, and no frame is
\* sent twice, through both rings and across camera rebuilds.
WireInOrder ==
  /\ \A i \in 1 .. Len(wire) : is_frame_usable(wire[i])
  /\ \A i, j \in 1 .. Len(wire) : i < j => wire[i].id < wire[j].id

\* The counters of rebuild_camera agree: every attempt succeeded, failed, is
\* under way, or was abandoned because of a stop; an incident never gets more
\* than camera_recovery_max_attempts; unusable frames never cause more than
\* camera_invalid_frame_recovery_max_count rebuilds.
RecoveryAccounted ==
  LET open == pstats.recovery_attempts - pstats.recovery_successes - pstats.recovery_failures
  IN  /\ open \in {0, 1}
      /\ open = 1 => pc["producer"] \in {"delay", "reinit"} \/ stop_requested
      /\ pc["producer"] \in {"delay", "reinit"} => open = 1
      /\ pstats.invalid_recoveries <= InvalidMaxRecoveries
      /\ invalid_controller.completed <= pstats.invalid_recoveries

\* The inductive strengthening of the recovery properties: at which labels no
\* attempt is open and no triggered rebuild is pending, and how the cooldown
\* counter relates to the frames actually seen.
RecoveryHistory ==
  LET open    == pstats.recovery_attempts - pstats.recovery_successes - pstats.recovery_failures
      pending == pstats.invalid_recoveries - invalid_controller.completed
      running == \/ pc["producer"] \in {"unborn", "capture"}
                 \/ pc["producer"] = "loop" /\ ~stop_requested
  IN  /\ running => open = 0 /\ pending = 0
      /\ pc["producer"] = "rebuild" => open = 0
      /\ pc["producer"] \in {"rebuild", "delay", "reinit"} => pending = One(trigger)
      /\ pc["producer"] = "abandoned" /\ ~stop_requested =>
           controller.recovery_attempts = MaxRecoveryAttempts
      /\ since >= invalid_controller.consecutive
      /\ pstats.recovery_successes > 0 => since + invalid_controller.cooldown >= InvalidCooldown

RecoveryIInv == TypeOK /\ RecoveryAccounted /\ RecoveryHistory

\* A streak of unusable frames starts a rebuild only after a whole streak and
\* the cooldown have passed since the last rebuild, whatever caused that one.
RebuildsAreSpaced ==
  [][ /\ pc["producer"] = "capture" /\ pc'["producer"] = "rebuild" /\ trigger'
      => /\ since' >= InvalidThreshold
         /\ pstats.recovery_successes > 0 => since' >= InvalidCooldown ]_vars

\* Recovery is given up, and the run failed, only when the whole attempt budget
\* of the incident was used.
GivesUpOnlyWhenExhausted ==
  [][ pc["producer"] = "abandoned" /\ pc'["producer"] = "fail"
      => controller.recovery_attempts = MaxRecoveryAttempts ]_vars

\* run_pipeline returns or throws: no thread waits for ever, whatever fails and
\* whichever notification is lost.
Terminates == <>(main = "ended")
=============================================================================
