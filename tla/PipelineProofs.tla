---------------------------- MODULE PipelineProofs ----------------------------
(***************************************************************************)
(* For every number of frames, every queue capacity, every recovery policy  *)
(* and every set of faults: the pipeline's counters add up, a run that      *)
(* reports success delivered everything, a stop is never reported as        *)
(* success, and the rebuilds of the camera keep to their budgets.  All of   *)
(* it follows from one inductive invariant, Inv.  That the wire carries     *)
(* usable frames in order follows from a second one, LineInv.               *)
(***************************************************************************)
EXTENDS Pipeline, SequenceTheorems, TLAPS

\* The part of TypeOK about the threads' labels.
PcTypeOK ==
  /\ pc \in [Threads -> ProducerLabels \cup ConsumerLabels \cup TcpLabels]
  /\ pc["producer"] \in ProducerLabels
  /\ pc["consumer"] \in ConsumerLabels
  /\ pc["tcp"] \in TcpLabels

\* Another thread's step leaves this one where it is or wakes it from its wait.
AtMostWoken(t) == pc'[t] = pc[t] \/ (pc[t] = "wait" /\ pc'[t] = "loop")

\* A step of the producer moves it and may wake the other two.
LEMMA ProducerMoves ==
  ASSUME PcTypeOK, NEW l \in ProducerLabels, NEW woken, GotoAndNotify("producer", l, woken)
  PROVE  /\ PcTypeOK' /\ pc'["producer"] = l
         /\ AtMostWoken("consumer") /\ AtMostWoken("tcp")
  BY DEF GotoAndNotify, PcTypeOK, AtMostWoken, Threads, ProducerLabels, ConsumerLabels, TcpLabels

\* A consumer step moves it, leaves the producer where it is and may wake the
\* sender from its wait.
LEMMA ConsumerMoves ==
  ASSUME PcTypeOK, NEW l \in ConsumerLabels, NEW woken, GotoAndNotify("consumer", l, woken),
         "producer" \notin woken
  PROVE  /\ PcTypeOK' /\ pc'["consumer"] = l
         /\ pc'["producer"] = pc["producer"] /\ AtMostWoken("tcp")
  BY DEF GotoAndNotify, PcTypeOK, AtMostWoken, Threads, ProducerLabels, ConsumerLabels, TcpLabels

\* The same for a step of the TCP sender.
LEMMA TcpMoves ==
  ASSUME PcTypeOK, NEW l \in TcpLabels, NEW woken, GotoAndNotify("tcp", l, woken),
         "producer" \notin woken
  PROVE  /\ PcTypeOK' /\ pc'["tcp"] = l
         /\ pc'["producer"] = pc["producer"] /\ AtMostWoken("consumer")
  BY DEF GotoAndNotify, PcTypeOK, AtMostWoken, Threads, ProducerLabels, ConsumerLabels, TcpLabels

\* Counting: a counter goes up by one or stays, and remains a number.
LEMMA CountedIs ==
  ASSUME NEW C, NEW s \in [C -> Nat], NEW names
  PROVE  /\ Counted(s, names) \in [C -> Nat]
         /\ \A c \in C : Counted(s, names)[c] = IF c \in names THEN s[c] + 1 ELSE s[c]
  BY DEF Counted

\* The numbers in the statistics records.
LEMMA Numbers ==
  ASSUME TypeOK
  PROVE  /\ pstats.captured \in Nat /\ pstats.invalid_recoveries \in Nat
         /\ pstats.recovery_attempts \in Nat /\ pstats.recovery_successes \in Nat
         /\ pstats.recovery_failures \in Nat
         /\ cstats.consumed \in Nat /\ cstats.invalid \in Nat
         /\ cstats.saved \in Nat /\ cstats.tcp_queued \in Nat
         /\ tstats.sent \in Nat /\ tstats.errors \in Nat /\ tstats.cancellations \in Nat
         /\ capture_dropped \in Nat /\ tcp_dropped \in Nat
         /\ Len(ring) \in Nat /\ Len(tcp_ring) \in Nat /\ Len(wire) \in Nat
  <1>1. /\ pstats \in [ProducerCounters -> Nat] /\ cstats \in [ConsumerCounters -> Nat]
        /\ tstats \in [TcpCounters -> Nat]
    BY DEF TypeOK, ProducerTypeOK
  <1>2. /\ {"captured", "invalid_recoveries", "recovery_attempts", "recovery_successes",
            "recovery_failures"} \subseteq ProducerCounters
        /\ {"consumed", "invalid", "saved", "tcp_queued"} \subseteq ConsumerCounters
        /\ {"sent", "errors", "cancellations"} \subseteq TcpCounters
    BY DEF ProducerCounters, ConsumerCounters, TcpCounters
  <1>3. ring \in Seq(Frames) /\ tcp_ring \in Seq(Frames) /\ wire \in Seq(Frames)
    BY DEF TypeOK, QueuesTypeOK
  <1>4. capture_dropped \in Nat /\ tcp_dropped \in Nat
    BY DEF TypeOK, QueuesTypeOK
  <1> QED
    BY <1>1, <1>2, <1>3, <1>4

\* What a producer step that touches neither queue nor flag leaves true.
LEMMA ProducerQuiet ==
  ASSUME IInv, AtMostWoken("consumer"), AtMostWoken("tcp"), PcTypeOK', ProducerTypeOK',
         last_error' \in LastErrors,
         pc["producer"] # "unborn", pc'["producer"] # "unborn",
         pc["producer"] # "exited", pc'["producer"] # "exited",
         pstats'.captured = pstats.captured,
         UNCHANGED <<captureQueue, tcpQueue, doneFlags, stop_requested, errors,
                     cstats, tcpVars, mainVars>>
  PROVE  /\ TypeOK' /\ FramesAccounted' /\ ConsumerShutdown' /\ TcpShutdown'
         /\ StopCaused' /\ MainPhases'
         /\ (tstats.cancellations > 0 => errors \cap {"producer", "consumer"} # {})'
  <1> USE DEF captureQueue, tcpQueue, doneFlags, tcpVars, mainVars
  <1>1. TypeOK'
    BY DEF IInv, TypeOK, PcTypeOK, QueuesTypeOK, FlagsTypeOK
  <1>2. FramesAccounted'
    BY DEF IInv, FramesAccounted, ConsumerHolds, InFlight, AtMostWoken, One
  <1>3. ConsumerShutdown'
    BY DEF IInv, ConsumerShutdown, AtMostWoken
  <1>4. TcpShutdown'
    BY DEF IInv, TcpShutdown, TcpHealthy, AtMostWoken
  <1>5. StopCaused'
    BY DEF IInv, StopCaused, TcpHealthy, AtMostWoken
  <1>6. MainPhases'
    BY DEF IInv, MainPhases, AtMostWoken, Threads
  <1> QED
    BY <1>1, <1>2, <1>3, <1>4, <1>5, <1>6 DEF IInv

\* The invariant that is proved by induction.
Inv == IInv /\ RecoveryIInv

\* What the producer's step leaves to the other threads.
OthersIdle == UNCHANGED <<cstats, tcpVars, mainVars>>

\* A producer step that touches neither queue nor flag, and leaves the loop
\* only when it may, preserves the shutdown invariant.
LEMMA QuietMove ==
  ASSUME Inv, OthersIdle, NEW l \in ProducerLabels \ {"unborn", "exited"}, Goto("producer", l),
         pc["producer"] \notin {"unborn", "finish", "exited"},
         ProducerTypeOK', last_error' \in LastErrors, pstats'.captured = pstats.captured,
         UNCHANGED <<captureQueue, tcpQueue, doneFlags, stop_requested, errors>>,
         l = "capture" => pstats.captured < FrameCount,
         l = "finish" => pstats.captured = FrameCount \/ stop_requested
  PROVE  IInv' /\ pc'["producer"] = l
  <1>1. IInv /\ PcTypeOK /\ GotoAndNotify("producer", l, {})
    BY DEF Inv, IInv, TypeOK, PcTypeOK, Goto
  <1>2. PcTypeOK' /\ pc'["producer"] = l /\ AtMostWoken("consumer") /\ AtMostWoken("tcp")
    BY <1>1, ProducerMoves
  <1>3. /\ TypeOK' /\ FramesAccounted' /\ ConsumerShutdown' /\ TcpShutdown'
        /\ StopCaused' /\ MainPhases'
        /\ (tstats.cancellations > 0 => errors \cap {"producer", "consumer"} # {})'
    BY <1>1, <1>2, ProducerQuiet DEF OthersIdle
  <1>4. ProducerShutdown'
    BY <1>1, <1>2 DEF IInv, ProducerShutdown, doneFlags
  <1> QED
    BY <1>2, <1>3, <1>4 DEF IInv

\* The loop test of the producer preserves Inv: it is left only with every
\* frame captured or a stop requested.
LEMMA ProducerLoopInv ==
  ASSUME Inv, ProducerLoop, OthersIdle
  PROVE  Inv'
  <1>1. IInv' /\ pc'["producer"] = IF pstats.captured < FrameCount /\ ~stop_requested
                                   THEN "capture" ELSE "finish"
    <2>1. ProducerTypeOK' /\ last_error' \in LastErrors /\ pstats' = pstats
      BY DEF Inv, IInv, TypeOK, ProducerTypeOK, FlagsTypeOK, ProducerLoop, producerVars
    <2>2. ~ (pstats.captured < FrameCount) => pstats.captured = FrameCount
      <3>1. pstats.captured \in Nat
        BY Numbers DEF Inv, IInv
      <3>2. FrameCount \in Nat
        BY PipelineAssumption
      <3>3. pstats.captured <= FrameCount
        BY DEF Inv, IInv, ProducerShutdown
      <3> QED
        BY <3>1, <3>2, <3>3
    <2>3. /\ pc["producer"] = "loop"
          /\ UNCHANGED <<captureQueue, tcpQueue, doneFlags, stop_requested, errors>>
      BY DEF ProducerLoop, At
    <2>4. CASE pstats.captured < FrameCount /\ ~stop_requested
      <3>1. Goto("producer", "capture")
        BY <2>4 DEF ProducerLoop
      <3> QED
        BY <2>1, <2>3, <2>4, <3>1, QuietMove DEF ProducerLabels
    <2>5. CASE ~ (pstats.captured < FrameCount /\ ~stop_requested)
      <3>1. Goto("producer", "finish")
        BY <2>5 DEF ProducerLoop
      <3> QED
        BY <2>1, <2>2, <2>3, <2>5, <3>1, QuietMove DEF ProducerLabels
    <2> QED
      BY <2>4, <2>5
  <1>2. RecoveryAccounted' /\ RecoveryHistory'
    BY <1>1 DEF Inv, RecoveryIInv, RecoveryAccounted, RecoveryHistory, producerVars, One,
                ProducerLoop, At
  <1> QED
    BY <1>1, <1>2 DEF Inv, IInv, RecoveryIInv

\* A classified capture error preserves Inv: only statistics, the timeout
\* count and the label change.
LEMMA CaptureErrorInv ==
  ASSUME Inv, NEW kind \in ErrorKinds, CaptureError(kind), OthersIdle
  PROVE  Inv'
  <1>1. PICK counter \in {"capture_timeouts", "temporary_unavailable", "device_errors"} :
          pstats' = Counted(pstats, {counter})
    BY DEF CaptureError
  <1>2. /\ pstats' \in [ProducerCounters -> Nat]
        /\ \A c \in ProducerCounters : c # counter => pstats'[c] = pstats[c]
    BY <1>1, CountedIs DEF Inv, IInv, TypeOK, ProducerTypeOK
  <1>3. /\ pstats'.captured = pstats.captured
        /\ pstats'.invalid_recoveries = pstats.invalid_recoveries
        /\ pstats'.recovery_attempts = pstats.recovery_attempts
        /\ pstats'.recovery_successes = pstats.recovery_successes
        /\ pstats'.recovery_failures = pstats.recovery_failures
    BY <1>2 DEF ProducerCounters
  <1>4. controller' \in Controller
    <2>1. controller \in Controller
      BY DEF Inv, IInv, TypeOK, ProducerTypeOK
    <2>2. [controller EXCEPT !.consecutive_timeouts = @ + 1] \in Controller
      BY <2>1 DEF Controller
    <2> QED
      BY <2>1, <2>2 DEF CaptureError, CountTimeout
  <1>5. ProducerTypeOK'
    <2>1. ProducerTypeOK
      BY DEF Inv, IInv, TypeOK
    <2>2. trigger' = FALSE /\ since' = since /\ invalid_controller' = invalid_controller
      BY DEF CaptureError
    <2>3. faults' \in 0 .. MaxFaults
      BY <2>1, ProducerAssumption DEF CaptureError, Fault, ProducerTypeOK
    <2> QED
      BY <1>2, <1>4, <2>1, <2>2, <2>3 DEF ProducerTypeOK
  <1>6. PICK l \in {"loop", "rebuild", "fail"} : Goto("producer", l)
    BY DEF CaptureError
  <1>7. IInv' /\ pc'["producer"] = l
    BY <1>3, <1>5, <1>6, QuietMove DEF CaptureError, At, ProducerLabels, LastErrors
  <1>8. RecoveryAccounted' /\ RecoveryHistory'
    BY <1>3, <1>7 DEF Inv, RecoveryIInv, RecoveryAccounted, RecoveryHistory, One, CaptureError, At
  <1> QED
    BY <1>7, <1>8 DEF Inv, IInv, RecoveryIInv

\* An unclassified exception out of capture_frame_copy preserves Inv.
LEMMA CaptureThrowsInv ==
  ASSUME Inv, CaptureThrows, OthersIdle
  PROVE  Inv'
  <1>1. ProducerTypeOK' /\ last_error' \in LastErrors
    BY ProducerAssumption DEF CaptureThrows, Fault, Inv, IInv, TypeOK, ProducerTypeOK, FlagsTypeOK
  <1>2. IInv' /\ pc'["producer"] = "fail"
    BY <1>1, QuietMove DEF CaptureThrows, At, ProducerLabels
  <1>3. RecoveryAccounted' /\ RecoveryHistory'
    BY <1>2 DEF Inv, RecoveryIInv, RecoveryAccounted, RecoveryHistory, One, CaptureThrows, At
  <1> QED
    BY <1>2, <1>3 DEF Inv, IInv, RecoveryIInv

\* The head of rebuild_camera preserves Inv: an attempt is opened, or the
\* budget is exhausted or a stop requested.
LEMMA RebuildAttemptInv ==
  ASSUME Inv, RebuildAttempt, OthersIdle
  PROVE  Inv'
  <1>1. ProducerTypeOK /\ controller \in Controller /\ pstats \in [ProducerCounters -> Nat]
    BY DEF Inv, IInv, TypeOK, ProducerTypeOK
  <1>2. CASE ~stop_requested /\ MayAttempt(controller)
    <2>1. /\ controller' = BeginAttempt(controller) /\ Goto("producer", "delay")
          /\ pstats' = Counted(pstats, {"recovery_attempts"})
      BY <1>2 DEF RebuildAttempt
    <2>2. controller' \in Controller
      BY <1>1, <1>2, <2>1, RecoveryAssumption DEF MayAttempt, BeginAttempt, Controller
    <2>3. /\ pstats' \in [ProducerCounters -> Nat]
          /\ \A c \in ProducerCounters :
               pstats'[c] = IF c = "recovery_attempts" THEN pstats[c] + 1 ELSE pstats[c]
      BY <1>1, <2>1, CountedIs
    <2>4. /\ pstats'.captured = pstats.captured
          /\ pstats'.invalid_recoveries = pstats.invalid_recoveries
          /\ pstats'.recovery_attempts = pstats.recovery_attempts + 1
          /\ pstats'.recovery_successes = pstats.recovery_successes
          /\ pstats'.recovery_failures = pstats.recovery_failures
      BY <2>3 DEF ProducerCounters
    <2>5. ProducerTypeOK' /\ last_error' \in LastErrors
      BY <1>1, <2>2, <2>3 DEF RebuildAttempt, ProducerTypeOK, Inv, IInv, TypeOK, FlagsTypeOK
    <2>6. IInv' /\ pc'["producer"] = "delay"
      BY <2>1, <2>4, <2>5, QuietMove DEF RebuildAttempt, At, ProducerLabels
    <2>7. RecoveryAccounted' /\ RecoveryHistory'
      <3>1. /\ pc["producer"] = "rebuild"
            /\ UNCHANGED <<invalid_controller, trigger, since, stop_requested>>
        BY DEF RebuildAttempt, At
      <3>2. RecoveryAccounted /\ RecoveryHistory
        BY DEF Inv, RecoveryIInv
      <3>3. /\ pstats.recovery_attempts \in Nat /\ pstats.recovery_successes \in Nat
            /\ pstats.recovery_failures \in Nat
        BY Numbers DEF Inv, IInv
      <3> QED
        BY <2>4, <2>6, <3>1, <3>2, <3>3 DEF RecoveryAccounted, RecoveryHistory, One
    <2> QED
      BY <2>6, <2>7 DEF Inv, IInv, RecoveryIInv
  <1>3. CASE ~ (~stop_requested /\ MayAttempt(controller))
    <2>1. Goto("producer", "abandoned") /\ controller' = controller /\ pstats' = pstats
      BY <1>3 DEF RebuildAttempt
    <2>2. ProducerTypeOK' /\ last_error' \in LastErrors
      BY <1>1, <2>1 DEF RebuildAttempt, ProducerTypeOK, Inv, IInv, TypeOK, FlagsTypeOK
    <2>3. IInv' /\ pc'["producer"] = "abandoned"
      BY <2>1, <2>2, QuietMove DEF RebuildAttempt, At, ProducerLabels
    <2>4. ~stop_requested => controller.recovery_attempts = MaxRecoveryAttempts
      BY <1>1, <1>3, RecoveryAssumption DEF MayAttempt, Controller
    <2>5. RecoveryAccounted' /\ RecoveryHistory'
      BY <2>1, <2>3, <2>4
         DEF Inv, RecoveryIInv, RecoveryAccounted, RecoveryHistory, One, RebuildAttempt, At
    <2> QED
      BY <2>3, <2>5 DEF Inv, IInv, RecoveryIInv
  <1> QED
    BY <1>2, <1>3

\* sleep_interruptibly preserves Inv: an attempt left open means a stop.
LEMMA RebuildDelayInv ==
  ASSUME Inv, RebuildDelay, OthersIdle
  PROVE  Inv'
  <1>1. ProducerTypeOK' /\ last_error' \in LastErrors /\ pstats' = pstats
    BY DEF Inv, IInv, TypeOK, ProducerTypeOK, FlagsTypeOK, RebuildDelay, producerVars
  <1>2. IInv' /\ pc'["producer"] = IF stop_requested THEN "abandoned" ELSE "reinit"
    BY <1>1, QuietMove DEF RebuildDelay, At, ProducerLabels
  <1>3. RecoveryAccounted' /\ RecoveryHistory'
    BY <1>2 DEF Inv, RecoveryIInv, RecoveryAccounted, RecoveryHistory, producerVars, One,
                RebuildDelay, At
  <1> QED
    BY <1>2, <1>3 DEF Inv, IInv, RecoveryIInv

\* Leaving rebuild_camera without a camera preserves Inv.
LEMMA RebuildAbandonedInv ==
  ASSUME Inv, RebuildAbandoned, OthersIdle
  PROVE  Inv'
  <1>1. ProducerTypeOK' /\ last_error' \in LastErrors /\ pstats' = pstats
    BY DEF Inv, IInv, TypeOK, ProducerTypeOK, FlagsTypeOK, RebuildAbandoned, producerVars
  <1>2. IInv' /\ pc'["producer"] = IF stop_requested THEN "loop" ELSE "fail"
    BY <1>1, QuietMove DEF RebuildAbandoned, At, ProducerLabels
  <1>3. RecoveryAccounted' /\ RecoveryHistory'
    BY <1>2 DEF Inv, RecoveryIInv, RecoveryAccounted, RecoveryHistory, producerVars, One,
                RebuildAbandoned, At
  <1> QED
    BY <1>2, <1>3 DEF Inv, IInv, RecoveryIInv

\* A failed initialize_pipeline_camera closes the open attempt.
LEMMA ReinitFailsInv ==
  ASSUME Inv, ReinitFails, OthersIdle
  PROVE  Inv'
  <1>1. ProducerTypeOK /\ pstats \in [ProducerCounters -> Nat]
    BY DEF Inv, IInv, TypeOK, ProducerTypeOK
  <1>2. /\ pstats' \in [ProducerCounters -> Nat]
        /\ \A c \in ProducerCounters :
             pstats'[c] = IF c = "recovery_failures" THEN pstats[c] + 1 ELSE pstats[c]
    BY <1>1, CountedIs DEF ReinitFails
  <1>3. /\ pstats'.captured = pstats.captured
        /\ pstats'.invalid_recoveries = pstats.invalid_recoveries
        /\ pstats'.recovery_attempts = pstats.recovery_attempts
        /\ pstats'.recovery_successes = pstats.recovery_successes
        /\ pstats'.recovery_failures = pstats.recovery_failures + 1
    BY <1>2 DEF ProducerCounters
  <1>4. ProducerTypeOK'
    <2>1. faults' \in 0 .. MaxFaults
      BY <1>1, ProducerAssumption DEF ReinitFails, Fault, ProducerTypeOK
    <2> QED
      BY <1>1, <1>2, <2>1 DEF ReinitFails, ProducerTypeOK
  <1>5. IInv' /\ pc'["producer"] = "rebuild"
    BY <1>3, <1>4, QuietMove DEF ReinitFails, At, ProducerLabels, LastErrors
  <1>6. RecoveryAccounted' /\ RecoveryHistory'
    <2>1. pc["producer"] = "reinit" /\ UNCHANGED <<invalid_controller, trigger, since, stop_requested>>
      BY DEF ReinitFails, At
    <2>2. RecoveryAccounted /\ RecoveryHistory
      BY DEF Inv, RecoveryIInv
    <2>3. /\ pstats.recovery_attempts \in Nat /\ pstats.recovery_successes \in Nat
          /\ pstats.recovery_failures \in Nat
      BY Numbers DEF Inv, IInv
    <2> QED
      BY <1>3, <1>5, <2>1, <2>2, <2>3 DEF RecoveryAccounted, RecoveryHistory, One
  <1> QED
    BY <1>5, <1>6 DEF Inv, IInv, RecoveryIInv

\* A successful rebuild closes the open attempt, completes a pending
\* triggered rebuild and starts the cooldown.
LEMMA ReinitSucceedsInv ==
  ASSUME Inv, ReinitSucceeds, OthersIdle
  PROVE  Inv'
  <1>1. /\ ProducerTypeOK /\ pstats \in [ProducerCounters -> Nat]
        /\ invalid_controller \in InvalidController
    BY DEF Inv, IInv, TypeOK, ProducerTypeOK
  <1>2. /\ pstats' \in [ProducerCounters -> Nat]
        /\ \A c \in ProducerCounters :
             pstats'[c] = IF c = "recovery_successes" THEN pstats[c] + 1 ELSE pstats[c]
    <2>1. pstats' = Counted(pstats, {"recovery_successes"})
      BY DEF ReinitSucceeds
    <2> QED
      BY <1>1, <2>1, CountedIs
  <1>3. /\ pstats'.captured = pstats.captured
        /\ pstats'.invalid_recoveries = pstats.invalid_recoveries
        /\ pstats'.recovery_attempts = pstats.recovery_attempts
        /\ pstats'.recovery_successes = pstats.recovery_successes + 1
        /\ pstats'.recovery_failures = pstats.recovery_failures
    BY <1>2 DEF ProducerCounters
  <1>4. /\ pc["producer"] = "reinit" /\ since' = 0 /\ controller' = NewController
        /\ invalid_controller' = AfterRebuild(invalid_controller, trigger)
        /\ UNCHANGED <<trigger, faults, stop_requested>>
    BY DEF ReinitSucceeds, At
  <1>5. /\ RecoveryAccounted /\ RecoveryHistory
        /\ pstats.recovery_attempts \in Nat /\ pstats.recovery_successes \in Nat
        /\ pstats.recovery_failures \in Nat /\ pstats.invalid_recoveries \in Nat
    BY Numbers DEF Inv, IInv, RecoveryIInv
  <1>6. invalid_controller'.completed = pstats.invalid_recoveries
    <2>1. /\ invalid_controller.completed \in Nat
          /\ pstats.invalid_recoveries - invalid_controller.completed = One(trigger)
      BY <1>1, <1>4, <1>5, RecoveryAssumption DEF RecoveryHistory, InvalidController
    <2>2. pstats.invalid_recoveries = invalid_controller.completed + One(trigger)
      BY <1>5, <2>1 DEF One
    <2>3. invalid_controller'.completed = IF trigger THEN invalid_controller.completed + 1
                                         ELSE invalid_controller.completed
      BY <1>4 DEF AfterRebuild
    <2> QED
      BY <2>1, <2>2, <2>3 DEF One
  <1>7. /\ invalid_controller'.consecutive = 0
        /\ invalid_controller'.cooldown = InvalidCooldown
    BY <1>4 DEF AfterRebuild
  <1>8. invalid_controller' \in InvalidController
    <2>1. pstats.invalid_recoveries \in 0 .. InvalidMaxRecoveries
      BY <1>5, RecoveryAssumption DEF RecoveryAccounted
    <2> QED
      BY <1>4, <1>6, <2>1, RecoveryAssumption DEF AfterRebuild, InvalidController
  <1>9. ProducerTypeOK'
    BY <1>1, <1>2, <1>4, <1>8, RecoveryAssumption DEF ProducerTypeOK, NewController, Controller
  <1>10. IInv' /\ pc'["producer"] = "loop"
    BY <1>3, <1>9, QuietMove DEF ReinitSucceeds, At, ProducerLabels, LastErrors
  <1>11. RecoveryAccounted' /\ RecoveryHistory'
    BY <1>3, <1>4, <1>5, <1>6, <1>7, <1>10, RecoveryAssumption
       DEF RecoveryAccounted, RecoveryHistory, One
  <1> QED
    BY <1>10, <1>11 DEF Inv, IInv, RecoveryIInv

\* Pushing into either ring: at most its capacity, one more or one dropped.
LEMMA PushIs ==
  ASSUME NEW q \in Seq(Frames), NEW f \in Frames
  PROVE  /\ Len(q) <= RingCapacity =>
              /\ Ring!Pushed(q, f) \in Seq(Frames)
              /\ Len(Ring!Pushed(q, f)) <= RingCapacity
              /\ Len(Ring!Pushed(q, f)) = IF Len(q) = RingCapacity THEN Len(q) ELSE Len(q) + 1
         /\ Len(q) <= TcpCapacity =>
              /\ TcpRing!Pushed(q, f) \in Seq(Frames)
              /\ Len(TcpRing!Pushed(q, f)) <= TcpCapacity
              /\ Len(TcpRing!Pushed(q, f)) = IF Len(q) = TcpCapacity THEN Len(q) ELSE Len(q) + 1
  BY PipelineAssumption DEF Ring!Pushed, TcpRing!Pushed

\* The head and the tail of a ring that is not empty.
LEMMA PopIs ==
  ASSUME NEW q \in Seq(Frames), q # <<>>
  PROVE  /\ Tail(q) \in Seq(Frames) /\ Len(Tail(q)) = Len(q) - 1
         /\ Head(q) \in Frames /\ <<Head(q)>> \in Seq(Frames) /\ <<Head(q)>> # <<>>
         /\ Len(<<Head(q)>>) = 1
  <1>1. Tail(q) \in Seq(Frames) /\ Len(Tail(q)) = Len(q) - 1 /\ Head(q) \in Frames
    OBVIOUS
  <1> QED
    BY <1>1

\* A captured frame preserves Inv: the ring grows or drops its oldest frame,
\* and observe() decides about a rebuild.
LEMMA CaptureFrameInv ==
  ASSUME Inv, NEW defects \in Captures, CaptureFrame(defects), OthersIdle
  PROVE  Inv'
  <1> DEFINE f == [id |-> pstats.captured + 1, defects |-> defects]
             valid == is_frame_usable(f)
             decision == Decision(invalid_controller, valid)
             recover == decision = "Recover" /\ RecoveryEnabled
             counted == {c \in ProducerCounters :
               \/ c = "captured"
               \/ c = "buffer_errors" /\ "buffer_error" \in defects
               \/ c = "incomplete" /\ "incomplete" \in defects
               \/ c = "invalid_recoveries" /\ recover
               \/ c = "suppressed_cooldown" /\ decision = "SuppressedByCooldown"
               \/ c = "suppressed_budget" /\ decision = "SuppressedByBudget"}
  <1>1. /\ TypeOK /\ IInv /\ RecoveryAccounted /\ RecoveryHistory /\ ProducerTypeOK
        /\ pstats \in [ProducerCounters -> Nat] /\ invalid_controller \in InvalidController
    BY DEF Inv, IInv, RecoveryIInv, TypeOK, ProducerTypeOK
  <1>2. /\ pc["producer"] = "capture"
        /\ controller' = NewController
        /\ invalid_controller' = Observe(invalid_controller, valid)
        /\ pstats' = Counted(pstats, counted)
        /\ trigger' = recover
        /\ since' = since + 1
        /\ GotoAndNotify("producer", IF recover THEN "rebuild" ELSE "loop", {"consumer"})
        /\ UNCHANGED <<faults, tcpQueue, doneFlags, stop_requested, errors, last_error>>
    BY DEF CaptureFrame, At
  <1>3. /\ ring' = Ring!Pushed(ring, f) /\ frame' = frame
        /\ capture_dropped' = IF Len(ring) = RingCapacity THEN capture_dropped + 1
                              ELSE capture_dropped
    BY DEF CaptureFrame, Ring!Push
  <1>4. f \in Frames
    <2>1. pstats.captured \in Nat /\ pstats.captured < FrameCount
      BY <1>1, <1>2, Numbers DEF IInv, ProducerShutdown
    <2>2. pstats.captured + 1 \in 1 .. FrameCount
      BY <2>1, PipelineAssumption
    <2> QED
      BY <2>2 DEF Frames
  <1> HIDE DEF f, valid, decision, recover, counted
  <1>5. /\ ring \in Seq(Frames) /\ Len(ring) <= RingCapacity /\ capture_dropped \in Nat
        /\ ring' \in Seq(Frames) /\ Len(ring') <= RingCapacity /\ capture_dropped' \in Nat
        /\ Len(ring') = IF Len(ring) = RingCapacity THEN Len(ring) ELSE Len(ring) + 1
    <2>1. ring \in Seq(Frames) /\ Len(ring) <= RingCapacity /\ capture_dropped \in Nat
      BY <1>1 DEF TypeOK, QueuesTypeOK
    <2> QED
      BY <1>3, <1>4, <2>1, PushIs
  <1>6. /\ pstats' \in [ProducerCounters -> Nat]
        /\ \A c \in ProducerCounters : pstats'[c] = IF c \in counted THEN pstats[c] + 1 ELSE pstats[c]
    BY <1>1, <1>2, CountedIs
  <1>7. /\ pstats'.captured = pstats.captured + 1
        /\ pstats'.invalid_recoveries = pstats.invalid_recoveries + One(recover)
        /\ pstats'.recovery_attempts = pstats.recovery_attempts
        /\ pstats'.recovery_successes = pstats.recovery_successes
        /\ pstats'.recovery_failures = pstats.recovery_failures
    <2>1. /\ "captured" \in counted /\ "recovery_attempts" \notin counted
          /\ "recovery_successes" \notin counted /\ "recovery_failures" \notin counted
          /\ "invalid_recoveries" \in counted <=> recover
      BY DEF counted, ProducerCounters
    <2>2. {"captured", "invalid_recoveries", "recovery_attempts", "recovery_successes",
           "recovery_failures"} \subseteq ProducerCounters
      BY DEF ProducerCounters
    <2> QED
      BY <1>1, <1>6, <2>1, <2>2 DEF One
  <1>8. /\ invalid_controller' \in InvalidController
        /\ invalid_controller'.completed = invalid_controller.completed
        /\ invalid_controller'.consecutive <= invalid_controller.consecutive + 1
        /\ invalid_controller'.cooldown + 1 >= invalid_controller.cooldown
    <2> DEFINE v == invalid_controller
    <2>1. v \in InvalidController
      BY <1>1
    <2>2. Observe(v, valid) = invalid_controller'
      BY <1>2
    <2> HIDE DEF v
    <2>3. /\ CooldownAfter(v) \in 0 .. InvalidCooldown /\ CooldownAfter(v) + 1 >= v.cooldown
          /\ v.consecutive \in 0 .. InvalidThreshold /\ v.completed \in 0 .. InvalidMaxRecoveries
      BY <2>1, RecoveryAssumption DEF InvalidController, CooldownAfter
    <2>4. ~valid /\ ~ThresholdReached(v, valid) => v.consecutive + 1 \in 0 .. InvalidThreshold
      BY <2>1, RecoveryAssumption DEF InvalidController, ThresholdReached
    <2>5. /\ Observe(v, valid).consecutive \in 0 .. InvalidThreshold
          /\ Observe(v, valid).consecutive <= v.consecutive + 1
      BY <2>3, <2>4, RecoveryAssumption DEF Observe
    <2>6. /\ Observe(v, valid) \in InvalidController
          /\ Observe(v, valid).completed = v.completed
          /\ Observe(v, valid).consecutive <= v.consecutive + 1
          /\ Observe(v, valid).cooldown + 1 >= v.cooldown
      BY <2>3, <2>5 DEF InvalidController, Observe
    <2> QED
      BY <2>2, <2>6 DEF v
  <1>9. recover => invalid_controller.completed < InvalidMaxRecoveries
    <2>1. invalid_controller.completed \in Nat
      BY <1>1, RecoveryAssumption DEF InvalidController
    <2> QED
      BY <2>1, RecoveryAssumption DEF recover, decision, Decision
  <1>10. ProducerTypeOK'
    BY <1>1, <1>2, <1>6, <1>8, RecoveryAssumption
       DEF ProducerTypeOK, NewController, Controller, recover
  <1>11. /\ PcTypeOK' /\ pc'["producer"] = IF recover THEN "rebuild" ELSE "loop"
         /\ AtMostWoken("consumer") /\ AtMostWoken("tcp")
    <2>1. PcTypeOK /\ (IF recover THEN "rebuild" ELSE "loop") \in ProducerLabels
      BY <1>1 DEF TypeOK, PcTypeOK, ProducerLabels
    <2> QED
      BY <1>2, <2>1, ProducerMoves
  <1>12. TypeOK'
    BY <1>1, <1>2, <1>3, <1>5, <1>10, <1>11
       DEF TypeOK, PcTypeOK, QueuesTypeOK, FlagsTypeOK, tcpQueue, doneFlags, OthersIdle,
           tcpVars, mainVars
  <1>13. FramesAccounted'
    <2>1. Len(ring') + capture_dropped' = Len(ring) + capture_dropped + 1
      BY <1>3, <1>5
    <2>2. pstats'.captured = cstats'.consumed + capture_dropped' + Len(ring')
      <3>1. /\ pstats.captured = cstats.consumed + capture_dropped + Len(ring)
            /\ pstats.captured \in Nat /\ cstats.consumed \in Nat /\ Len(ring) \in Nat
            /\ Len(ring') \in Nat /\ cstats'.consumed = cstats.consumed
        BY <1>1, <1>5, Numbers DEF IInv, FramesAccounted, OthersIdle
      <3>2. /\ pstats'.captured = pstats.captured + 1
            /\ capture_dropped \in Nat /\ capture_dropped' \in Nat
        BY <1>5, <1>7
      <3> QED
        BY <2>1, <3>1, <3>2, SMTT(20)
    <2> QED
      <3>1. ConsumerHolds' = ConsumerHolds
        BY <1>2, <1>11 DEF ConsumerHolds, AtMostWoken, One
      <3>2. InFlight' = InFlight
        BY <1>2, <1>11 DEF InFlight, AtMostWoken, One, OthersIdle, tcpVars
      <3> QED
        BY <1>1, <1>2, <2>2, <3>1, <3>2
           DEF IInv, FramesAccounted, OthersIdle, tcpQueue, tcpVars
  <1>14. ProducerShutdown'
    <2>1. pstats'.captured <= FrameCount
      <3>1. pstats.captured \in Nat
        BY <1>1, Numbers
      <3>2. FrameCount \in Nat
        BY PipelineAssumption
      <3>3. pstats.captured < FrameCount
        BY <1>1, <1>2 DEF IInv, ProducerShutdown
      <3>4. pstats'.captured = pstats.captured + 1
        BY <1>7
      <3> QED
        BY <3>1, <3>2, <3>3, <3>4
    <2> QED
      BY <1>1, <1>2, <1>11, <2>1 DEF IInv, ProducerShutdown, doneFlags
  <1>15. ConsumerShutdown'
    BY <1>1, <1>2, <1>3, <1>11
       DEF IInv, ProducerShutdown, ConsumerShutdown, AtMostWoken, doneFlags
  <1>16. TcpShutdown' /\ StopCaused'
    BY <1>1, <1>2, <1>11
       DEF IInv, TcpShutdown, StopCaused, TcpHealthy, AtMostWoken, OthersIdle, tcpQueue, tcpVars,
           doneFlags
  <1>17. MainPhases'
    BY <1>1, <1>2, <1>11
       DEF IInv, MainPhases, AtMostWoken, Threads, OthersIdle, tcpVars, mainVars
  <1>18. IInv'
    BY <1>1, <1>2, <1>12, <1>13, <1>14, <1>15, <1>16, <1>17 DEF IInv, OthersIdle, tcpVars
  <1>19. RecoveryAccounted' /\ RecoveryHistory'
    <2>1. /\ pstats.recovery_attempts \in Nat /\ pstats.recovery_successes \in Nat
          /\ pstats.recovery_failures \in Nat /\ pstats.invalid_recoveries \in Nat
          /\ since \in Nat
      BY <1>1, Numbers DEF ProducerTypeOK
    <2>2. /\ invalid_controller.completed \in Nat /\ invalid_controller.consecutive \in Nat
          /\ invalid_controller.cooldown \in Nat /\ invalid_controller'.consecutive \in Nat
          /\ invalid_controller'.cooldown \in Nat
      BY <1>1, <1>8, RecoveryAssumption DEF InvalidController
    <2>3. /\ pstats.invalid_recoveries = invalid_controller.completed
          /\ pstats.recovery_attempts - pstats.recovery_successes - pstats.recovery_failures = 0
      <3>1. pstats.invalid_recoveries - invalid_controller.completed = 0
        BY <1>1, <1>2 DEF RecoveryHistory
      <3>2. pstats.recovery_attempts - pstats.recovery_successes - pstats.recovery_failures = 0
        BY <1>1, <1>2 DEF RecoveryHistory
      <3> QED
        BY <2>1, <2>2, <3>1, <3>2
    <2>4. RecoveryAccounted'
      <3>1. One(recover) \in {0, 1} /\ (recover => One(recover) = 1)
            /\ (~recover => One(recover) = 0)
        BY DEF One
      <3>2. /\ pstats'.invalid_recoveries <= InvalidMaxRecoveries
            /\ invalid_controller'.completed <= pstats'.invalid_recoveries
        BY <1>1, <1>7, <1>8, <1>9, <2>1, <2>2, <2>3, <3>1, RecoveryAssumption DEF RecoveryAccounted
      <3> QED
        BY <1>7, <1>11, <2>3, <3>2 DEF RecoveryAccounted
    <2>5. /\ since' >= invalid_controller'.consecutive
          /\ pstats'.recovery_successes > 0 => since' + invalid_controller'.cooldown >= InvalidCooldown
      <3>1. /\ since >= invalid_controller.consecutive
            /\ pstats.recovery_successes > 0 => since + invalid_controller.cooldown >= InvalidCooldown
        BY <1>1 DEF RecoveryHistory
      <3>2. since' = since + 1 /\ pstats'.recovery_successes = pstats.recovery_successes
        BY <1>2, <1>7
      <3> QED
        BY <1>8, <2>1, <2>2, <3>1, <3>2, RecoveryAssumption
    <2> QED
      BY <1>2, <1>7, <1>8, <1>11, <2>1, <2>2, <2>3, <2>4, <2>5 DEF RecoveryHistory, One
  <1> QED
    BY <1>12, <1>18, <1>19 DEF Inv, RecoveryIInv

\* The catch (...) of the producer records its error before it stops the rest.
LEMMA ProducerFailInv ==
  ASSUME Inv, ProducerFail, OthersIdle
  PROVE  Inv'
  <1> USE DEF OthersIdle, producerVars, captureQueue, tcpQueue, doneFlags, tcpVars, mainVars
  <1>1. /\ IInv /\ TypeOK /\ RecoveryAccounted /\ RecoveryHistory /\ PcTypeOK
    BY DEF Inv, IInv, RecoveryIInv, TypeOK, PcTypeOK
  <1>2. /\ pc["producer"] = "fail" /\ errors' = errors \cup {"producer"} /\ stop_requested' = TRUE
        /\ UNCHANGED <<producerVars, captureQueue, tcpQueue, doneFlags, last_error>>
    BY DEF ProducerFail, At
  <1>3. /\ PcTypeOK' /\ pc'["producer"] = "finish"
        /\ AtMostWoken("consumer") /\ AtMostWoken("tcp")
    BY <1>1, ProducerMoves DEF ProducerFail, ProducerLabels
  <1>4. TypeOK'
    BY <1>1, <1>2, <1>3
       DEF TypeOK, PcTypeOK, QueuesTypeOK, FlagsTypeOK, ProducerTypeOK, Threads
  <1>5. FramesAccounted'
    BY <1>1, <1>2, <1>3 DEF IInv, FramesAccounted, ConsumerHolds, InFlight, AtMostWoken, One
  <1>6. ProducerShutdown' /\ ConsumerShutdown' /\ TcpShutdown'
    BY <1>1, <1>2, <1>3
       DEF IInv, ProducerShutdown, ConsumerShutdown, TcpShutdown, TcpHealthy, AtMostWoken
  <1>7. StopCaused' /\ (tstats.cancellations > 0 => errors \cap {"producer", "consumer"} # {})'
    BY <1>2 DEF StopCaused
  <1>8. MainPhases'
    BY <1>1, <1>2, <1>3 DEF IInv, MainPhases, AtMostWoken, Threads
  <1>9. RecoveryAccounted' /\ RecoveryHistory'
    BY <1>1, <1>2, <1>3 DEF RecoveryAccounted, RecoveryHistory, One
  <1> QED
    BY <1>4, <1>5, <1>6, <1>7, <1>8, <1>9 DEF Inv, IInv, RecoveryIInv

\* The end of the producer sets producer_done.
LEMMA ProducerFinishInv ==
  ASSUME Inv, ProducerFinish, OthersIdle
  PROVE  Inv'
  <1> USE DEF OthersIdle, producerVars, captureQueue, tcpQueue, tcpVars, mainVars
  <1>1. /\ IInv /\ TypeOK /\ RecoveryAccounted /\ RecoveryHistory /\ PcTypeOK
    BY DEF Inv, IInv, RecoveryIInv, TypeOK, PcTypeOK
  <1>2. /\ pc["producer"] = "finish" /\ producer_done' = TRUE
        /\ UNCHANGED <<producerVars, captureQueue, tcpQueue, consumer_done, stop_requested,
                       errors, last_error>>
    BY DEF ProducerFinish, At
  <1>3. /\ PcTypeOK' /\ pc'["producer"] = "exited"
        /\ AtMostWoken("consumer") /\ AtMostWoken("tcp")
    BY <1>1, ProducerMoves DEF ProducerFinish, ProducerLabels
  <1>4. TypeOK'
    BY <1>1, <1>2, <1>3 DEF TypeOK, PcTypeOK, QueuesTypeOK, FlagsTypeOK, ProducerTypeOK
  <1>5. FramesAccounted'
    BY <1>1, <1>2, <1>3 DEF IInv, FramesAccounted, ConsumerHolds, InFlight, AtMostWoken, One
  <1>6. ProducerShutdown' /\ ConsumerShutdown' /\ TcpShutdown'
    BY <1>1, <1>2, <1>3
       DEF IInv, ProducerShutdown, ConsumerShutdown, TcpShutdown, TcpHealthy, AtMostWoken
  <1>7. StopCaused' /\ (tstats.cancellations > 0 => errors \cap {"producer", "consumer"} # {})'
    BY <1>1, <1>2, <1>3 DEF IInv, StopCaused, TcpHealthy, AtMostWoken
  <1>8. MainPhases'
    BY <1>1, <1>2, <1>3 DEF IInv, MainPhases, AtMostWoken, Threads
  <1>9. RecoveryAccounted' /\ RecoveryHistory'
    BY <1>1, <1>2, <1>3 DEF RecoveryAccounted, RecoveryHistory, One
  <1> QED
    BY <1>4, <1>5, <1>6, <1>7, <1>8, <1>9 DEF Inv, IInv, RecoveryIInv

\* Every step of the producer thread preserves Inv.
LEMMA ProducerInv ==
  ASSUME Inv, Producer
  PROVE  Inv'
  BY ProducerLoopInv, CaptureFrameInv, CaptureErrorInv, CaptureThrowsInv, RebuildAttemptInv,
     RebuildDelayInv, ReinitSucceedsInv, ReinitFailsInv, RebuildAbandonedInv, ProducerFailInv,
     ProducerFinishInv
     DEF Producer, ProducerStep, OthersIdle

-----------------------------------------------------------------------------
\* The other threads leave the recovery invariant alone: they never move the
\* producer and never withdraw a stop.
LEMMA RecoveryKept ==
  ASSUME RecoveryAccounted, RecoveryHistory, pc'["producer"] = pc["producer"],
         UNCHANGED producerVars, stop_requested => stop_requested'
  PROVE  RecoveryAccounted' /\ RecoveryHistory'
  BY DEF RecoveryAccounted, RecoveryHistory, producerVars, One

\* What the consumer's step leaves alone.
ConsumerIdle == UNCHANGED <<producerVars, tcpVars, mainVars>>

\* The labels at which the consumer holds a frame.
Holding == {"process", "enqueue", "fail", "failStop"}

\* A consumer step that touches neither queue nor flag, neither takes nor
\* parts with a frame, and leaves the loop only when it may.
LEMMA ConsumerMove ==
  ASSUME Inv, ConsumerIdle, NEW l \in ConsumerLabels \ {"unborn", "exited", "failStop"},
         Goto("consumer", l), pc["consumer"] \notin {"unborn", "exited", "failStop"},
         TcpEnabled => (l \in Holding <=> pc["consumer"] \in Holding),
         cstats' \in [ConsumerCounters -> Nat], cstats'.consumed = cstats.consumed,
         cstats'.invalid = cstats.invalid, cstats'.tcp_queued = cstats.tcp_queued,
         UNCHANGED <<captureQueue, tcpQueue, doneFlags, stop_requested, errors, last_error>>,
         l = "process" => frame # <<>>,
         l = "enqueue" => TcpEnabled /\ frame # <<>>,
         l = "checkEmpty" => producer_done,
         l = "finish" => stop_requested \/ (producer_done /\ ring = <<>>)
  PROVE  Inv'
  <1> USE DEF ConsumerIdle, producerVars, captureQueue, tcpQueue, doneFlags, tcpVars, mainVars
  <1>1. IInv /\ TypeOK /\ RecoveryAccounted /\ RecoveryHistory /\ PcTypeOK
    BY DEF Inv, IInv, RecoveryIInv, TypeOK, PcTypeOK
  <1>2. PcTypeOK' /\ pc'["consumer"] = l /\ pc'["producer"] = pc["producer"] /\ pc'["tcp"] = pc["tcp"]
    BY <1>1 DEF PcTypeOK, Goto, GotoAndNotify, Threads, ConsumerLabels
  <1>3. TypeOK'
    BY <1>1, <1>2 DEF TypeOK, PcTypeOK, QueuesTypeOK, FlagsTypeOK, ProducerTypeOK
  <1>4. FramesAccounted'
    BY <1>1, <1>2 DEF IInv, FramesAccounted, ConsumerHolds, InFlight, Holding, One
  <1>5. ProducerShutdown' /\ ConsumerShutdown' /\ TcpShutdown'
    BY <1>1, <1>2 DEF IInv, ProducerShutdown, ConsumerShutdown, TcpShutdown, TcpHealthy
  <1>6. StopCaused' /\ (tstats.cancellations > 0 => errors \cap {"producer", "consumer"} # {})'
    BY <1>1, <1>2 DEF IInv, StopCaused, TcpHealthy
  <1>7. MainPhases'
    BY <1>1, <1>2, <1>3 DEF IInv, MainPhases, PcTypeOK, Threads
  <1>8. RecoveryAccounted' /\ RecoveryHistory'
    BY <1>1, <1>2, RecoveryKept
  <1> QED
    BY <1>3, <1>4, <1>5, <1>6, <1>7, <1>8 DEF Inv, IInv, RecoveryIInv

\* The loop tests and waits of the consumer preserve Inv: it goes to its end
\* only after a stop, or with the producer done and the ring empty.
LEMMA ConsumerQuietInv ==
  ASSUME Inv, ConsumerIdle,
         \/ ConsumerLoop \/ ConsumerCheckDone \/ ConsumerCheckEmpty
         \/ ConsumerEnterWait \/ ConsumerWaitTimeout
  PROVE  Inv'
  <1>1. PICK l \in {"finish", "checkDone", "checkEmpty", "pop", "wait", "loop"} :
          /\ Goto("consumer", l)
          /\ l = "checkEmpty" => producer_done
          /\ l = "finish" => stop_requested \/ (pc["consumer"] = "checkEmpty" /\ ring = <<>>)
    <2>1. CASE ConsumerLoop
      BY <2>1 DEF ConsumerLoop
    <2>2. CASE ConsumerCheckDone
      BY <2>2 DEF ConsumerCheckDone
    <2>3. CASE ConsumerCheckEmpty
      BY <2>3 DEF ConsumerCheckEmpty, ConsumerAt
    <2>4. CASE ConsumerEnterWait \/ ConsumerWaitTimeout
      BY <2>4 DEF ConsumerEnterWait, ConsumerWaitTimeout
    <2> QED
      BY <2>1, <2>2, <2>3, <2>4
  <1>2. /\ pc["consumer"] \in {"loop", "checkDone", "checkEmpty", "enterWait", "wait"}
        /\ UNCHANGED <<cstats, captureQueue, tcpQueue, doneFlags, stop_requested, errors, last_error>>
    BY DEF ConsumerLoop, ConsumerCheckDone, ConsumerCheckEmpty, ConsumerEnterWait,
           ConsumerWaitTimeout, ConsumerAt
  <1>3. cstats' \in [ConsumerCounters -> Nat] /\ (pc["consumer"] = "checkEmpty" => producer_done)
    BY <1>2 DEF Inv, IInv, TypeOK, ConsumerShutdown
  <1> QED
    BY <1>1, <1>2, <1>3, ConsumerMove DEF ConsumerLabels, Holding

\* Saving a frame, or failing to, preserves Inv: the frame stays held.
LEMMA ConsumerSaveInv ==
  ASSUME Inv, ConsumerIdle, ConsumerSave \/ ConsumerSaveThrows
  PROVE  Inv'
  <1>1. /\ pc["consumer"] = "process" /\ cstats' \in {cstats, Counted(cstats, {"saved"})}
        /\ UNCHANGED <<captureQueue, tcpQueue, doneFlags, stop_requested, errors, last_error>>
    BY DEF ConsumerSave, ConsumerSaveThrows, ConsumerAt
  <1>2. /\ cstats \in [ConsumerCounters -> Nat] /\ frame # <<>>
        /\ cstats.consumed \in Nat /\ cstats.invalid \in Nat /\ cstats.tcp_queued \in Nat
    BY <1>1, Numbers DEF Inv, IInv, TypeOK, ConsumerShutdown
  <1>3. /\ cstats' \in [ConsumerCounters -> Nat]
        /\ \A c \in ConsumerCounters : c # "saved" => cstats'[c] = cstats[c]
    BY <1>1, <1>2, CountedIs
  <1>4. /\ cstats'.consumed = cstats.consumed /\ cstats'.invalid = cstats.invalid
        /\ cstats'.tcp_queued = cstats.tcp_queued
    BY <1>3 DEF ConsumerCounters
  <1>5. CASE ConsumerSave /\ ~TcpEnabled
    <2>1. Goto("consumer", "loop")
      BY <1>5 DEF ConsumerSave
    <2> QED
      BY <1>1, <1>2, <1>3, <1>4, <1>5, <2>1, ConsumerMove DEF ConsumerLabels, Holding
  <1>6. CASE ConsumerSave /\ TcpEnabled
    <2>1. Goto("consumer", "enqueue")
      BY <1>6 DEF ConsumerSave
    <2> QED
      BY <1>1, <1>2, <1>3, <1>4, <1>6, <2>1, ConsumerMove DEF ConsumerLabels, Holding
  <1>7. CASE ConsumerSaveThrows
    BY <1>1, <1>2, <1>3, <1>4, <1>7, ConsumerMove DEF ConsumerSaveThrows, ConsumerLabels, Holding
  <1> QED
    BY <1>5, <1>6, <1>7

\* Popping a frame moves it from the capture ring into the hands of the
\* consumer.
LEMMA ConsumerPopInv ==
  ASSUME Inv, ConsumerIdle, ConsumerPop
  PROVE  Inv'
  <1> USE DEF ConsumerIdle, producerVars, tcpQueue, doneFlags, tcpVars, mainVars
  <1>1. IInv /\ TypeOK /\ RecoveryAccounted /\ RecoveryHistory /\ PcTypeOK
    BY DEF Inv, IInv, RecoveryIInv, TypeOK, PcTypeOK
  <1>2. /\ pc["consumer"] = "pop" /\ capture_dropped' = capture_dropped
        /\ UNCHANGED <<tcpQueue, doneFlags, stop_requested, errors, last_error>>
    BY DEF ConsumerPop, ConsumerAt, Ring!TryPopOldest
  <1> DEFINE l == IF ring = <<>> THEN "enterWait" ELSE "process"
  <1>3. PcTypeOK' /\ pc'["consumer"] = l /\ pc'["producer"] = pc["producer"] /\ pc'["tcp"] = pc["tcp"]
    BY <1>1 DEF ConsumerPop, PcTypeOK, Goto, GotoAndNotify, Threads, ConsumerLabels
  <1>4. /\ ring \in Seq(Frames) /\ Len(ring) <= RingCapacity
        /\ cstats \in [ConsumerCounters -> Nat]
    BY <1>1 DEF TypeOK, QueuesTypeOK
  <1>5. /\ ring' \in Seq(Frames) /\ Len(ring') <= RingCapacity /\ frame' \in Seq(Frames)
        /\ ring = <<>> => ring' = <<>>
        /\ ring # <<>> => frame' # <<>> /\ Len(ring') = Len(ring) - 1
    <2>1. \/ ring = <<>> /\ frame' = <<>> /\ ring' = ring
          \/ ring # <<>> /\ frame' = <<Head(ring)>> /\ ring' = Tail(ring)
      BY DEF ConsumerPop, Ring!TryPopOldest
    <2>2. CASE ring = <<>>
      BY <1>4, <2>1, <2>2
    <2>3. CASE ring # <<>>
      <3>1. /\ Tail(ring) \in Seq(Frames) /\ Len(Tail(ring)) = Len(ring) - 1
            /\ <<Head(ring)>> \in Seq(Frames) /\ <<Head(ring)>> # <<>>
        BY <1>4, <2>3, PopIs
      <3>2. Len(Tail(ring)) <= RingCapacity
        BY <1>4, <3>1, PipelineAssumption
      <3> QED
        BY <2>1, <2>3, <3>1, <3>2
    <2> QED
      BY <2>2, <2>3
  <1>6. /\ ring = <<>> => cstats' = cstats
        /\ ring # <<>> => cstats' = Counted(cstats, {"consumed"})
    BY DEF ConsumerPop
  <1>7. /\ cstats' \in [ConsumerCounters -> Nat]
        /\ cstats'.consumed = IF ring = <<>> THEN cstats.consumed ELSE cstats.consumed + 1
        /\ cstats'.invalid = cstats.invalid /\ cstats'.tcp_queued = cstats.tcp_queued
    <2>1. {"consumed", "invalid", "tcp_queued"} \subseteq ConsumerCounters
      BY DEF ConsumerCounters
    <2>2. CASE ring = <<>>
      BY <1>4, <1>6, <2>2
    <2>3. CASE ring # <<>>
      BY <1>4, <1>6, <2>1, <2>3, CountedIs
    <2> QED
      BY <2>2, <2>3
  <1> HIDE DEF l
  <1>8. TypeOK'
    BY <1>1, <1>2, <1>3, <1>5, <1>7 DEF TypeOK, PcTypeOK, QueuesTypeOK, FlagsTypeOK, ProducerTypeOK
  <1>9. FramesAccounted'
    <2>1. /\ pstats.captured \in Nat /\ cstats.consumed \in Nat /\ capture_dropped \in Nat
          /\ Len(ring) \in Nat /\ cstats.invalid \in Nat /\ cstats.tcp_queued \in Nat
      BY <1>1, Numbers
    <2>2. /\ pstats.captured = cstats.consumed + capture_dropped + Len(ring)
          /\ TcpEnabled => cstats.consumed = cstats.invalid + cstats.tcp_queued + ConsumerHolds
      BY <1>1 DEF IInv, FramesAccounted
    <2>3. ConsumerHolds = 0 /\ ConsumerHolds' = IF ring = <<>> THEN 0 ELSE 1
      BY <1>1, <1>2, <1>3 DEF IInv, ConsumerShutdown, ConsumerHolds, One, l
    <2>4. pstats'.captured = cstats'.consumed + capture_dropped' + Len(ring')
      <3>1. cstats'.consumed \in Nat /\ Len(ring') \in Nat
        BY <1>5, <1>7, <2>1
      <3>2. cstats'.consumed + Len(ring') = cstats.consumed + Len(ring)
        <4>1. CASE ring = <<>>
          BY <1>5, <1>7, <4>1
        <4>2. CASE ring # <<>>
          <5>1. cstats'.consumed = cstats.consumed + 1 /\ Len(ring') = Len(ring) - 1
            BY <1>5, <1>7, <4>2
          <5> QED
            BY <2>1, <5>1
        <4> QED
          BY <4>1, <4>2
      <3>3. pstats.captured = cstats.consumed + capture_dropped + Len(ring)
        BY <2>2
      <3>4. pstats.captured = cstats'.consumed + capture_dropped + Len(ring')
        <4>1. cstats.consumed \in Nat
          BY <2>1
        <4>2. capture_dropped \in Nat
          BY <2>1
        <4>3. Len(ring) \in Nat
          BY <2>1
        <4>4. cstats'.consumed \in Nat
          BY <3>1
        <4>5. Len(ring') \in Nat
          BY <3>1
        <4> QED
          BY <4>1, <4>2, <4>3, <4>4, <4>5, <3>2, <3>3, SMTT(20)
      <3> QED
        BY <1>2, <3>4
    <2>5. TcpEnabled => cstats'.consumed = cstats'.invalid + cstats'.tcp_queued + ConsumerHolds'
      BY <1>7, <2>1, <2>2, <2>3
    <2> QED
      BY <1>1, <1>2, <1>3, <1>7, <2>4, <2>5 DEF IInv, FramesAccounted, InFlight
  <1>10. ProducerShutdown' /\ ConsumerShutdown' /\ TcpShutdown'
    BY <1>1, <1>2, <1>3, <1>5
       DEF IInv, ProducerShutdown, ConsumerShutdown, TcpShutdown, TcpHealthy, l
  <1>11. StopCaused' /\ (tstats.cancellations > 0 => errors \cap {"producer", "consumer"} # {})'
    BY <1>1, <1>2, <1>3 DEF IInv, StopCaused, TcpHealthy
  <1>12. MainPhases'
    BY <1>1, <1>2, <1>3, <1>7 DEF IInv, MainPhases, PcTypeOK, Threads
  <1>13. RecoveryAccounted' /\ RecoveryHistory'
    BY <1>1, <1>2, <1>3, RecoveryKept
  <1> QED
    BY <1>8, <1>9, <1>10, <1>11, <1>12, <1>13 DEF Inv, IInv, RecoveryIInv

\* Skipping an unusable frame lets it go.
LEMMA ConsumerSkipInvalidInv ==
  ASSUME Inv, ConsumerIdle, ConsumerSkipInvalid
  PROVE  Inv'
  <1> USE DEF ConsumerIdle, producerVars, captureQueue, tcpQueue, doneFlags, tcpVars, mainVars
  <1>1. IInv /\ TypeOK /\ RecoveryAccounted /\ RecoveryHistory /\ PcTypeOK
    BY DEF Inv, IInv, RecoveryIInv, TypeOK, PcTypeOK
  <1>2. /\ pc["consumer"] = "process" /\ cstats' = Counted(cstats, {"invalid"})
        /\ UNCHANGED <<captureQueue, tcpQueue, doneFlags, stop_requested, errors, last_error>>
    BY DEF ConsumerSkipInvalid, ConsumerAt
  <1>3. PcTypeOK' /\ pc'["consumer"] = "loop" /\ pc'["producer"] = pc["producer"] /\ pc'["tcp"] = pc["tcp"]
    BY <1>1 DEF ConsumerSkipInvalid, PcTypeOK, Goto, GotoAndNotify, Threads, ConsumerLabels
  <1>4. /\ cstats' \in [ConsumerCounters -> Nat]
        /\ cstats'.invalid = cstats.invalid + 1
        /\ cstats'.consumed = cstats.consumed /\ cstats'.tcp_queued = cstats.tcp_queued
    <2>1. {"consumed", "invalid", "tcp_queued"} \subseteq ConsumerCounters
      BY DEF ConsumerCounters
    <2>2. cstats \in [ConsumerCounters -> Nat]
      BY <1>1 DEF TypeOK
    <2> QED
      BY <1>2, <2>1, <2>2, CountedIs
  <1>5. TypeOK'
    BY <1>1, <1>2, <1>3, <1>4 DEF TypeOK, PcTypeOK, QueuesTypeOK, FlagsTypeOK, ProducerTypeOK
  <1>6. FramesAccounted'
    <2>1. cstats.consumed \in Nat /\ cstats.invalid \in Nat /\ cstats.tcp_queued \in Nat
      BY <1>1, Numbers
    <2>2. TcpEnabled => cstats.consumed = cstats.invalid + cstats.tcp_queued + ConsumerHolds
      BY <1>1 DEF IInv, FramesAccounted
    <2>3. ConsumerHolds = 1 /\ ConsumerHolds' = 0
      BY <1>1, <1>2, <1>3 DEF IInv, ConsumerShutdown, ConsumerHolds, One
    <2>4. TcpEnabled => cstats'.consumed = cstats'.invalid + cstats'.tcp_queued + ConsumerHolds'
      BY <1>4, <2>1, <2>2, <2>3
    <2> QED
      BY <1>1, <1>2, <1>3, <1>4, <2>4 DEF IInv, FramesAccounted, InFlight
  <1>7. ProducerShutdown' /\ ConsumerShutdown' /\ TcpShutdown'
    BY <1>1, <1>2, <1>3 DEF IInv, ProducerShutdown, ConsumerShutdown, TcpShutdown, TcpHealthy
  <1>8. StopCaused' /\ (tstats.cancellations > 0 => errors \cap {"producer", "consumer"} # {})'
    BY <1>1, <1>2, <1>3 DEF IInv, StopCaused, TcpHealthy
  <1>9. MainPhases'
    BY <1>1, <1>2, <1>3, <1>4 DEF IInv, MainPhases, PcTypeOK, Threads
  <1>10. RecoveryAccounted' /\ RecoveryHistory'
    BY <1>1, <1>2, <1>3, RecoveryKept
  <1> QED
    BY <1>5, <1>6, <1>7, <1>8, <1>9, <1>10 DEF Inv, IInv, RecoveryIInv

\* Queueing a frame moves it into the TCP ring, which may drop its oldest.
LEMMA ConsumerEnqueueInv ==
  ASSUME Inv, ConsumerIdle, ConsumerEnqueue
  PROVE  Inv'
  <1> USE DEF ConsumerIdle, producerVars, captureQueue, doneFlags, tcpVars, mainVars
  <1>1. IInv /\ TypeOK /\ RecoveryAccounted /\ RecoveryHistory /\ PcTypeOK
    BY DEF Inv, IInv, RecoveryIInv, TypeOK, PcTypeOK
  <1>2. /\ pc["consumer"] = "enqueue" /\ cstats' = Counted(cstats, {"tcp_queued"})
        /\ tcp_frame' = tcp_frame
        /\ UNCHANGED <<captureQueue, doneFlags, stop_requested, errors, last_error>>
    BY DEF ConsumerEnqueue, ConsumerAt, TcpRing!Push
  <1>3. PcTypeOK' /\ pc'["consumer"] = "loop" /\ pc'["producer"] = pc["producer"] /\ AtMostWoken("tcp")
    BY <1>1, ConsumerMoves DEF ConsumerEnqueue, ConsumerLabels
  <1>4. /\ cstats' \in [ConsumerCounters -> Nat]
        /\ cstats'.tcp_queued = cstats.tcp_queued + 1
        /\ cstats'.consumed = cstats.consumed /\ cstats'.invalid = cstats.invalid
    <2>1. {"consumed", "invalid", "tcp_queued"} \subseteq ConsumerCounters
      BY DEF ConsumerCounters
    <2>2. cstats \in [ConsumerCounters -> Nat]
      BY <1>1 DEF TypeOK
    <2> QED
      BY <1>2, <2>1, <2>2, CountedIs
  <1>5. /\ frame \in Seq(Frames) /\ frame # <<>> /\ TcpEnabled
        /\ tcp_ring \in Seq(Frames) /\ Len(tcp_ring) <= TcpCapacity /\ tcp_dropped \in Nat
    BY <1>1, <1>2 DEF IInv, ConsumerShutdown, TypeOK, QueuesTypeOK
  <1>6. frame[1] \in Frames
    BY <1>5
  <1>7. /\ tcp_ring' = TcpRing!Pushed(tcp_ring, frame[1])
        /\ tcp_dropped' = IF Len(tcp_ring) = TcpCapacity THEN tcp_dropped + 1 ELSE tcp_dropped
    BY DEF ConsumerEnqueue, TcpRing!Push
  <1>8. /\ tcp_ring' \in Seq(Frames) /\ Len(tcp_ring') <= TcpCapacity /\ tcp_dropped' \in Nat
        /\ Len(tcp_ring') = IF Len(tcp_ring) = TcpCapacity THEN Len(tcp_ring) ELSE Len(tcp_ring) + 1
    <2>1. /\ TcpRing!Pushed(tcp_ring, frame[1]) \in Seq(Frames)
          /\ Len(TcpRing!Pushed(tcp_ring, frame[1])) <= TcpCapacity
          /\ Len(TcpRing!Pushed(tcp_ring, frame[1]))
               = IF Len(tcp_ring) = TcpCapacity THEN Len(tcp_ring) ELSE Len(tcp_ring) + 1
      BY <1>5, <1>6, PushIs
    <2>2. tcp_dropped' \in Nat
      BY <1>5, <1>7
    <2> QED
      BY <1>7, <2>1, <2>2
  <1>9. TypeOK'
    BY <1>1, <1>2, <1>3, <1>4, <1>8 DEF TypeOK, PcTypeOK, QueuesTypeOK, FlagsTypeOK, ProducerTypeOK
  <1>10. FramesAccounted'
    <2>1. /\ cstats.consumed \in Nat /\ cstats.invalid \in Nat /\ cstats.tcp_queued \in Nat
          /\ tstats.sent \in Nat /\ Len(tcp_ring) \in Nat /\ Len(tcp_ring') \in Nat
      BY <1>1, <1>8, Numbers
    <2>2. /\ cstats.consumed = cstats.invalid + cstats.tcp_queued + ConsumerHolds
          /\ cstats.tcp_queued = tstats.sent + tcp_dropped + Len(tcp_ring) + InFlight
      BY <1>1, <1>5 DEF IInv, FramesAccounted
    <2>3. ConsumerHolds = 1 /\ ConsumerHolds' = 0
      BY <1>1, <1>2, <1>3 DEF IInv, ConsumerShutdown, ConsumerHolds, One
    <2>4. InFlight' = InFlight /\ InFlight \in Nat
      BY <1>2, <1>3 DEF InFlight, One, AtMostWoken
    <2>5. cstats'.consumed = cstats'.invalid + cstats'.tcp_queued + ConsumerHolds'
      BY <2>1, <2>3, <1>4, <2>2
    <2>6. tcp_dropped' + Len(tcp_ring') = tcp_dropped + Len(tcp_ring) + 1
      BY <2>1, <1>5, <1>8, <1>7
    <2>7. cstats'.tcp_queued = tstats'.sent + tcp_dropped' + Len(tcp_ring') + InFlight'
      <3>1. tstats.sent \in Nat
        BY <2>1
      <3>2. tcp_dropped \in Nat
        BY <1>5
      <3>3. tcp_dropped' \in Nat
        BY <1>8
      <3>4. Len(tcp_ring) \in Nat
        BY <2>1
      <3>5. Len(tcp_ring') \in Nat
        BY <2>1
      <3>6. InFlight \in Nat
        BY <2>4
      <3>7. tstats.sent + tcp_dropped' + Len(tcp_ring') + InFlight
               = tstats.sent + tcp_dropped + Len(tcp_ring) + InFlight + 1
        <4>1. tstats.sent + tcp_dropped' + Len(tcp_ring') = tstats.sent + tcp_dropped + Len(tcp_ring) + 1
          BY <3>1, <3>2, <3>3, <3>4, <3>5, <2>6, SMTT(20)
        <4> QED
          BY <3>1, <3>2, <3>3, <3>4, <3>5, <3>6, <4>1, SMTT(20)
      <3> QED
        BY <1>2, <1>4, <2>2, <2>4, <3>7
    <2> QED
      BY <1>1, <1>2, <1>4, <2>5, <2>7 DEF IInv, FramesAccounted
  <1>11. ProducerShutdown' /\ ConsumerShutdown' /\ TcpShutdown'
    BY <1>1, <1>2, <1>3
       DEF IInv, ProducerShutdown, ConsumerShutdown, TcpShutdown, TcpHealthy, AtMostWoken
  <1>12. StopCaused' /\ (tstats.cancellations > 0 => errors \cap {"producer", "consumer"} # {})'
    BY <1>1, <1>2, <1>3 DEF IInv, StopCaused, TcpHealthy, AtMostWoken
  <1>13. MainPhases'
    BY <1>1, <1>2, <1>3, <1>5 DEF IInv, MainPhases, PcTypeOK, Threads, AtMostWoken
  <1>14. RecoveryAccounted' /\ RecoveryHistory'
    BY <1>1, <1>2, <1>3, RecoveryKept
  <1> QED
    BY <1>9, <1>10, <1>11, <1>12, <1>13, <1>14 DEF Inv, IInv, RecoveryIInv

\* The three ways the consumer ends preserve Inv.
LEMMA ConsumerEndInv ==
  ASSUME Inv, ConsumerIdle, ConsumerFinish \/ ConsumerFail \/ ConsumerFailStop
  PROVE  Inv'
  <1> USE DEF ConsumerIdle, producerVars, captureQueue, tcpQueue, tcpVars, mainVars
  <1>1. IInv /\ TypeOK /\ RecoveryAccounted /\ RecoveryHistory /\ PcTypeOK
    BY DEF Inv, IInv, RecoveryIInv, TypeOK, PcTypeOK
  <1>2. /\ PcTypeOK' /\ pc'["producer"] = pc["producer"] /\ AtMostWoken("tcp")
        /\ \/ /\ pc["consumer"] = "finish" /\ pc'["consumer"] = "exited"
              /\ consumer_done' = TRUE /\ UNCHANGED <<stop_requested, errors>>
           \/ /\ pc["consumer"] = "fail" /\ pc'["consumer"] = "failStop"
              /\ consumer_done' = TRUE /\ UNCHANGED stop_requested
              /\ errors' = errors \cup {"consumer"}
           \/ /\ pc["consumer"] = "failStop" /\ pc'["consumer"] = "exited"
              /\ stop_requested' = TRUE /\ UNCHANGED <<consumer_done, errors>>
    BY <1>1, ConsumerMoves
       DEF ConsumerFinish, ConsumerFail, ConsumerFailStop, ConsumerAt, Goto, doneFlags, ConsumerLabels
  <1>3. UNCHANGED <<cstats, captureQueue, tcpQueue, producer_done, last_error>>
    BY DEF ConsumerFinish, ConsumerFail, ConsumerFailStop, doneFlags
  <1>4. TypeOK'
    BY <1>1, <1>2, <1>3 DEF TypeOK, PcTypeOK, QueuesTypeOK, FlagsTypeOK, ProducerTypeOK, Threads
  <1>5. FramesAccounted'
    BY <1>1, <1>2, <1>3
       DEF IInv, ConsumerShutdown, FramesAccounted, ConsumerHolds, InFlight, AtMostWoken, One
  <1>6. ProducerShutdown'
    BY <1>1, <1>2, <1>3 DEF IInv, ProducerShutdown
  <1>7. ConsumerShutdown'
    BY <1>1, <1>2, <1>3 DEF IInv, ConsumerShutdown
  <1>8. TcpShutdown'
    BY <1>1, <1>2, <1>3 DEF IInv, ConsumerShutdown, TcpShutdown, TcpHealthy, AtMostWoken
  <1>9. StopCaused' /\ (tstats.cancellations > 0 => errors \cap {"producer", "consumer"} # {})'
    BY <1>1, <1>2, <1>3 DEF IInv, ConsumerShutdown, StopCaused, TcpHealthy, AtMostWoken
  <1>10. MainPhases'
    BY <1>1, <1>2, <1>3 DEF IInv, MainPhases, PcTypeOK, Threads, AtMostWoken
  <1>11. RecoveryAccounted' /\ RecoveryHistory'
    BY <1>1, <1>2, <1>3, RecoveryKept
  <1> QED
    BY <1>4, <1>5, <1>6, <1>7, <1>8, <1>9, <1>10, <1>11 DEF Inv, IInv, RecoveryIInv

\* Every step of the consumer thread preserves Inv.
LEMMA ConsumerInv ==
  ASSUME Inv, Consumer
  PROVE  Inv'
  BY ConsumerQuietInv, ConsumerSaveInv, ConsumerPopInv, ConsumerSkipInvalidInv,
     ConsumerEnqueueInv, ConsumerEndInv
     DEF Consumer, ConsumerStep, ConsumerIdle

-----------------------------------------------------------------------------
\* What the TCP sender's step leaves alone.
TcpIdle == UNCHANGED <<producerVars, cstats, mainVars>>

\* The loop tests, waits and the close of the sender preserve Inv.
LEMMA TcpQuietInv ==
  ASSUME Inv, TcpIdle,
         \/ TcpLoop \/ TcpCheckEmpty \/ TcpEnterWait \/ TcpWaitTimeout
         \/ TcpSendStart \/ TcpClose
  PROVE  Inv'
  <1> USE DEF TcpIdle, producerVars, captureQueue, tcpQueue, doneFlags, tcpVars, mainVars
  <1>1. IInv /\ TypeOK /\ RecoveryAccounted /\ RecoveryHistory /\ PcTypeOK
    BY DEF Inv, IInv, RecoveryIInv, TypeOK, PcTypeOK
  <1>2. UNCHANGED <<tcpVars, captureQueue, tcpQueue, doneFlags, stop_requested, errors, last_error>>
    BY DEF TcpLoop, TcpCheckEmpty, TcpEnterWait, TcpWaitTimeout, TcpSendStart, TcpClose
  <1>3. PICK l \in TcpLabels :
          /\ Goto("tcp", l)
          /\ \/ pc["tcp"] = "loop" /\ l = "checkEmpty" /\ consumer_done
             \/ pc["tcp"] = "loop" /\ l = "pop"
             \/ pc["tcp"] = "checkEmpty" /\ l = "close" /\ tcp_ring = <<>>
             \/ pc["tcp"] = "checkEmpty" /\ l = "pop"
             \/ pc["tcp"] = "enterWait" /\ l = "wait"
             \/ pc["tcp"] = "wait" /\ l = "loop"
             \/ pc["tcp"] = "send" /\ l = "sending"
             \/ pc["tcp"] = "close" /\ l = "exited"
    <2>1. CASE TcpLoop
      BY <2>1 DEF TcpLoop, TcpAt, TcpLabels
    <2>2. CASE TcpCheckEmpty
      BY <2>2 DEF TcpCheckEmpty, TcpAt, TcpLabels
    <2>3. CASE TcpEnterWait \/ TcpWaitTimeout \/ TcpSendStart \/ TcpClose
      BY <2>3 DEF TcpEnterWait, TcpWaitTimeout, TcpSendStart, TcpClose, TcpAt, TcpLabels
    <2> QED
      BY <2>1, <2>2, <2>3
  <1>4. PcTypeOK' /\ pc'["tcp"] = l /\ pc'["producer"] = pc["producer"] /\ pc'["consumer"] = pc["consumer"]
    BY <1>1, <1>3 DEF PcTypeOK, Goto, GotoAndNotify, Threads
  <1>5. TypeOK'
    BY <1>1, <1>2, <1>4 DEF TypeOK, PcTypeOK, QueuesTypeOK, FlagsTypeOK, ProducerTypeOK
  <1>6. FramesAccounted'
    <2>1. InFlight' = InFlight /\ ConsumerHolds' = ConsumerHolds
      BY <1>2, <1>3, <1>4 DEF InFlight, ConsumerHolds, One
    <2> QED
      BY <1>1, <1>2, <2>1 DEF IInv, FramesAccounted
  <1>7. ProducerShutdown' /\ ConsumerShutdown'
    BY <1>1, <1>2, <1>4 DEF IInv, ProducerShutdown, ConsumerShutdown
  <1>8. TcpShutdown'
    BY <1>1, <1>2, <1>3, <1>4 DEF IInv, TcpShutdown, TcpHealthy
  <1>9. StopCaused' /\ (tstats.cancellations > 0 => errors \cap {"producer", "consumer"} # {})'
    BY <1>1, <1>2, <1>3, <1>4 DEF IInv, StopCaused, TcpHealthy
  <1>10. MainPhases'
    BY <1>1, <1>2, <1>3, <1>4 DEF IInv, MainPhases, PcTypeOK, Threads
  <1>11. RecoveryAccounted' /\ RecoveryHistory'
    BY <1>1, <1>2, <1>4, RecoveryKept
  <1> QED
    BY <1>5, <1>6, <1>7, <1>8, <1>9, <1>10, <1>11 DEF Inv, IInv, RecoveryIInv

\* Popping a frame moves it from the TCP ring into flight.
LEMMA TcpPopInv ==
  ASSUME Inv, TcpIdle, TcpPop
  PROVE  Inv'
  <1> USE DEF TcpIdle, producerVars, captureQueue, doneFlags, tcpVars, mainVars
  <1> DEFINE l == IF tcp_ring = <<>> THEN "enterWait" ELSE "send"
  <1>1. IInv /\ TypeOK /\ RecoveryAccounted /\ RecoveryHistory /\ PcTypeOK
    BY DEF Inv, IInv, RecoveryIInv, TypeOK, PcTypeOK
  <1>2. /\ pc["tcp"] = "pop" /\ tcp_dropped' = tcp_dropped
        /\ UNCHANGED <<tcpVars, captureQueue, doneFlags, stop_requested, errors, last_error>>
    BY DEF TcpPop, TcpAt, TcpRing!TryPopOldest
  <1>3. PcTypeOK' /\ pc'["tcp"] = l /\ pc'["producer"] = pc["producer"] /\ pc'["consumer"] = pc["consumer"]
    BY <1>1 DEF TcpPop, PcTypeOK, Goto, GotoAndNotify, Threads, TcpLabels
  <1>4. tcp_ring \in Seq(Frames) /\ Len(tcp_ring) <= TcpCapacity
    BY <1>1 DEF TypeOK, QueuesTypeOK
  <1>5. /\ tcp_ring' \in Seq(Frames) /\ Len(tcp_ring') <= TcpCapacity /\ tcp_frame' \in Seq(Frames)
        /\ tcp_ring = <<>> => tcp_ring' = <<>>
        /\ tcp_ring # <<>> => Len(tcp_frame') = 1 /\ Len(tcp_ring') = Len(tcp_ring) - 1
    <2>1. \/ tcp_ring = <<>> /\ tcp_frame' = <<>> /\ tcp_ring' = tcp_ring
          \/ tcp_ring # <<>> /\ tcp_frame' = <<Head(tcp_ring)>> /\ tcp_ring' = Tail(tcp_ring)
      BY DEF TcpPop, TcpRing!TryPopOldest
    <2>2. CASE tcp_ring = <<>>
      BY <1>4, <2>1, <2>2
    <2>3. CASE tcp_ring # <<>>
      <3>1. /\ Tail(tcp_ring) \in Seq(Frames) /\ Len(Tail(tcp_ring)) = Len(tcp_ring) - 1
            /\ <<Head(tcp_ring)>> \in Seq(Frames) /\ Len(<<Head(tcp_ring)>>) = 1
        BY <1>4, <2>3, PopIs
      <3>2. Len(Tail(tcp_ring)) <= TcpCapacity
        BY <1>4, <3>1, PipelineAssumption
      <3> QED
        BY <2>1, <2>3, <3>1, <3>2
    <2> QED
      BY <2>2, <2>3
  <1> HIDE DEF l
  <1>6. TypeOK'
    BY <1>1, <1>2, <1>3, <1>5 DEF TypeOK, PcTypeOK, QueuesTypeOK, FlagsTypeOK, ProducerTypeOK
  <1>7. FramesAccounted'
    <2>1. tstats.errors = 0 /\ tstats.cancellations = 0 /\ "tcp" \notin errors
      BY <1>1, <1>2 DEF IInv, TcpShutdown, TcpHealthy
    <2>2. InFlight = 0 /\ InFlight' = IF tcp_ring = <<>> THEN 0 ELSE 1
      BY <1>2, <1>3, <2>1 DEF InFlight, One, l
    <2>3. Len(tcp_ring) \in Nat /\ Len(tcp_ring') \in Nat
      BY <1>4, <1>5
    <2>4. Len(tcp_ring') + InFlight' = Len(tcp_ring)
      <3>1. CASE tcp_ring = <<>>
        BY <1>5, <2>2, <2>3, <3>1
      <3>2. CASE tcp_ring # <<>>
        <4>1. Len(tcp_ring') = Len(tcp_ring) - 1 /\ InFlight' = 1
          BY <1>5, <2>2, <3>2
        <4> QED
          BY <2>3, <4>1
      <3> QED
        BY <3>1, <3>2
    <2>5. cstats.tcp_queued = tstats.sent + tcp_dropped + Len(tcp_ring) + InFlight
      BY <1>1 DEF IInv, FramesAccounted
    <2>6. cstats.tcp_queued = tstats.sent + tcp_dropped + Len(tcp_ring') + InFlight'
      <3> DEFINE n == tstats.sent + tcp_dropped
      <3>1. n \in Nat
        <4>1. tstats.sent \in Nat
          BY <1>1, Numbers
        <4>2. tcp_dropped \in Nat
          BY <1>1, Numbers
        <4> QED
          BY <4>1, <4>2
      <3>2. Len(tcp_ring) \in Nat
        BY <2>3
      <3>3. Len(tcp_ring') \in Nat
        BY <2>3
      <3>4. InFlight' \in Nat
        BY <2>2
      <3>5. cstats.tcp_queued = n + Len(tcp_ring)
        BY <3>1, <3>2, <2>2, <2>5
      <3> SUFFICES cstats.tcp_queued = n + Len(tcp_ring') + InFlight'
        OBVIOUS
      <3> HIDE DEF n
      <3> QED
        BY <3>1, <3>2, <3>3, <3>4, <2>4, <3>5, SMTT(20)
    <2>7. ConsumerHolds' = ConsumerHolds
      BY <1>2, <1>3 DEF ConsumerHolds
    <2> QED
      BY <1>1, <1>2, <2>6, <2>7 DEF IInv, FramesAccounted
  <1>8. ProducerShutdown' /\ ConsumerShutdown'
    BY <1>1, <1>2, <1>3 DEF IInv, ProducerShutdown, ConsumerShutdown
  <1>9. TcpShutdown'
    BY <1>1, <1>2, <1>3, <1>5 DEF IInv, TcpShutdown, TcpHealthy, l
  <1>10. StopCaused' /\ (tstats.cancellations > 0 => errors \cap {"producer", "consumer"} # {})'
    BY <1>1, <1>2, <1>3 DEF IInv, StopCaused, TcpHealthy, l
  <1>11. MainPhases'
    BY <1>1, <1>2, <1>3 DEF IInv, MainPhases, PcTypeOK, Threads, l
  <1>12. RecoveryAccounted' /\ RecoveryHistory'
    BY <1>1, <1>2, <1>3, RecoveryKept
  <1> QED
    BY <1>6, <1>7, <1>8, <1>9, <1>10, <1>11, <1>12 DEF Inv, IInv, RecoveryIInv

\* A completed send moves the frame in flight onto the wire.
LEMMA TcpSendOkInv ==
  ASSUME Inv, TcpIdle, TcpSendOk
  PROVE  Inv'
  <1> USE DEF TcpIdle, producerVars, captureQueue, tcpQueue, doneFlags, mainVars
  <1>1. IInv /\ TypeOK /\ RecoveryAccounted /\ RecoveryHistory /\ PcTypeOK
    BY DEF Inv, IInv, RecoveryIInv, TypeOK, PcTypeOK
  <1>2. /\ pc["tcp"] = "sending" /\ wire' = wire \o tcp_frame /\ tstats' = Counted(tstats, {"sent"})
        /\ UNCHANGED <<captureQueue, tcpQueue, doneFlags, stop_requested, errors, last_error>>
    BY DEF TcpSendOk, TcpAt
  <1>3. PcTypeOK' /\ pc'["tcp"] = "loop" /\ pc'["producer"] = pc["producer"] /\ pc'["consumer"] = pc["consumer"]
    BY <1>1 DEF TcpSendOk, PcTypeOK, Goto, GotoAndNotify, Threads, TcpLabels
  <1>4. /\ tstats' \in [TcpCounters -> Nat] /\ tstats'.sent = tstats.sent + 1
        /\ tstats'.errors = tstats.errors /\ tstats'.cancellations = tstats.cancellations
    <2>1. {"sent", "errors", "cancellations"} \subseteq TcpCounters
      BY DEF TcpCounters
    <2>2. tstats \in [TcpCounters -> Nat]
      BY <1>1 DEF TypeOK
    <2>3. tstats' = Counted(tstats, {"sent"})
      BY <1>2
    <2> QED
      BY <2>1, <2>2, <2>3, CountedIs
  <1>5. wire' \in Seq(Frames) /\ Len(wire') = Len(wire) + 1
    <2>1. wire \in Seq(Frames) /\ tcp_frame \in Seq(Frames) /\ Len(tcp_frame) = 1
      BY <1>1, <1>2 DEF IInv, TypeOK, QueuesTypeOK, TcpShutdown
    <2>2. wire \o tcp_frame \in Seq(Frames) /\ Len(wire \o tcp_frame) = Len(wire) + Len(tcp_frame)
      BY <2>1, ConcatProperties
    <2> QED
      BY <1>2, <2>1, <2>2
  <1>6. TypeOK'
    BY <1>1, <1>2, <1>3, <1>4, <1>5 DEF TypeOK, PcTypeOK, QueuesTypeOK, FlagsTypeOK, ProducerTypeOK
  <1>7. FramesAccounted'
    <2>1. tstats.errors = 0 /\ tstats.cancellations = 0 /\ "tcp" \notin errors
      BY <1>1, <1>2 DEF IInv, TcpShutdown, TcpHealthy
    <2>2. InFlight = 1 /\ InFlight' = 0
      BY <1>2, <1>3, <1>4, <2>1 DEF InFlight, One
    <2>3. tstats.sent \in Nat
      BY <1>1, Numbers
    <2>4. tcp_dropped \in Nat
      BY <1>1, Numbers
    <2>5. Len(tcp_ring) \in Nat
      BY <1>1, Numbers
    <2>6. cstats.tcp_queued = tstats.sent + tcp_dropped + Len(tcp_ring) + InFlight
      BY <1>1 DEF IInv, FramesAccounted
    <2>7. cstats.tcp_queued = tstats.sent + 1 + tcp_dropped + Len(tcp_ring)
      BY <2>3, <2>4, <2>5, <2>2, <2>6
    <2>8. cstats.tcp_queued = tstats'.sent + tcp_dropped + Len(tcp_ring) + InFlight'
      <3>1. tstats'.sent = tstats.sent + 1
        BY <1>4
      <3>2. tstats'.sent \in Nat
        BY <2>3, <3>1
      <3>3. InFlight' = 0
        BY <2>2
      <3>4. cstats.tcp_queued = tstats'.sent + tcp_dropped + Len(tcp_ring)
        BY <2>7, <3>1
      <3> QED
        BY <3>2, <2>4, <2>5, <3>3, <3>4
    <2>9. ConsumerHolds' = ConsumerHolds
      BY <1>2, <1>3 DEF ConsumerHolds
    <2>10. Len(wire') = tstats'.sent
      BY <1>1, <1>4, <1>5 DEF IInv, FramesAccounted
    <2> QED
      BY <1>1, <1>2, <2>8, <2>9, <2>10 DEF IInv, FramesAccounted
  <1>8. ProducerShutdown' /\ ConsumerShutdown'
    BY <1>1, <1>2, <1>3 DEF IInv, ProducerShutdown, ConsumerShutdown
  <1>9. TcpShutdown'
    BY <1>1, <1>2, <1>3, <1>4 DEF IInv, TcpShutdown, TcpHealthy
  <1>10. StopCaused' /\ (tstats.cancellations > 0 => errors \cap {"producer", "consumer"} # {})'
    BY <1>1, <1>2, <1>3, <1>4 DEF IInv, StopCaused, TcpHealthy
  <1>11. MainPhases'
    BY <1>1, <1>2, <1>3, <1>4 DEF IInv, MainPhases, PcTypeOK, Threads
  <1>12. RecoveryAccounted' /\ RecoveryHistory'
    BY <1>1, <1>2, <1>3, RecoveryKept
  <1> QED
    BY <1>6, <1>7, <1>8, <1>9, <1>10, <1>11, <1>12 DEF Inv, IInv, RecoveryIInv

\* A failed or cancelled send leaves its frame in flight for good.
LEMMA TcpFailureInv ==
  ASSUME Inv, TcpIdle, TcpSendCancelled \/ \E kind \in SendFaults : TcpSendFails(kind)
  PROVE  Inv'
  <1> USE DEF TcpIdle, producerVars, captureQueue, tcpQueue, doneFlags, mainVars
  <1>1. IInv /\ TypeOK /\ RecoveryAccounted /\ RecoveryHistory /\ PcTypeOK
    BY DEF Inv, IInv, RecoveryIInv, TypeOK, PcTypeOK
  <1>2. /\ pc["tcp"] \in {"send", "sending"} /\ wire' = wire
        /\ last_error' \in {"send_timeout", "send_failed", "send_cancelled"}
        /\ UNCHANGED <<captureQueue, tcpQueue, doneFlags, stop_requested, errors>>
    BY DEF TcpSendCancelled, TcpSendFails, TcpAt
  <1>3. PICK l \in {"setStop", "close"}, names \in SUBSET {"errors", "timeouts", "cancellations"} :
          /\ Goto("tcp", l) /\ tstats' = Counted(tstats, names)
          /\ \/ l = "setStop" /\ "errors" \in names /\ "cancellations" \notin names
             \/ l = "close" /\ stop_requested /\ names = {"cancellations"}
    <2>1. CASE TcpSendCancelled
      BY <2>1 DEF TcpSendCancelled
    <2>2. CASE \E kind \in SendFaults : TcpSendFails(kind)
      BY <2>2 DEF TcpSendFails
    <2> QED
      BY <2>1, <2>2
  <1>4. PcTypeOK' /\ pc'["tcp"] = l /\ pc'["producer"] = pc["producer"] /\ pc'["consumer"] = pc["consumer"]
    BY <1>1, <1>3 DEF PcTypeOK, Goto, GotoAndNotify, Threads, TcpLabels
  <1>5. /\ tstats' \in [TcpCounters -> Nat] /\ tstats'.sent = tstats.sent
        /\ tstats'.errors = IF l = "setStop" THEN tstats.errors + 1 ELSE tstats.errors
        /\ tstats'.cancellations = IF l = "setStop" THEN tstats.cancellations
                                   ELSE tstats.cancellations + 1
    <2>1. {"sent", "errors", "cancellations"} \subseteq TcpCounters
      BY DEF TcpCounters
    <2>2. tstats \in [TcpCounters -> Nat]
      BY <1>1 DEF TypeOK
    <2> QED
      BY <1>3, <2>1, <2>2, CountedIs
  <1>6. /\ tstats.errors = 0 /\ tstats.cancellations = 0 /\ "tcp" \notin errors
        /\ stop_requested => errors \cap {"producer", "consumer"} # {}
    BY <1>1, <1>2 DEF IInv, TcpShutdown, StopCaused, TcpHealthy
  <1>7. TypeOK'
    BY <1>1, <1>2, <1>4, <1>5
       DEF TypeOK, PcTypeOK, QueuesTypeOK, FlagsTypeOK, ProducerTypeOK, LastErrors
  <1>8. FramesAccounted'
    <2>1. InFlight = 1 /\ InFlight' = 1 /\ ConsumerHolds' = ConsumerHolds
      BY <1>2, <1>3, <1>4, <1>5, <1>6 DEF InFlight, ConsumerHolds, One
    <2> QED
      BY <1>1, <1>2, <1>5, <2>1 DEF IInv, FramesAccounted
  <1>9. ProducerShutdown' /\ ConsumerShutdown'
    BY <1>1, <1>2, <1>4 DEF IInv, ProducerShutdown, ConsumerShutdown
  <1>10. TcpShutdown'
    BY <1>1, <1>2, <1>3, <1>4, <1>5, <1>6 DEF IInv, TcpShutdown, TcpHealthy
  <1>11. StopCaused' /\ (tstats.cancellations > 0 => errors \cap {"producer", "consumer"} # {})'
    BY <1>1, <1>2, <1>3, <1>4, <1>5, <1>6 DEF IInv, StopCaused, TcpHealthy
  <1>12. MainPhases'
    BY <1>1, <1>2, <1>3, <1>4, <1>5, <1>6 DEF IInv, MainPhases, PcTypeOK, Threads
  <1>13. RecoveryAccounted' /\ RecoveryHistory'
    BY <1>1, <1>2, <1>4, RecoveryKept
  <1> QED
    BY <1>7, <1>8, <1>9, <1>10, <1>11, <1>12, <1>13 DEF Inv, IInv, RecoveryIInv

\* The sender requests a stop only after it recorded its failure.
LEMMA TcpStopInv ==
  ASSUME Inv, TcpIdle, TcpSetStop
  PROVE  Inv'
  <1> USE DEF TcpIdle, producerVars, captureQueue, tcpQueue, doneFlags, tcpVars, mainVars
  <1>1. IInv /\ TypeOK /\ RecoveryAccounted /\ RecoveryHistory /\ PcTypeOK
    BY DEF Inv, IInv, RecoveryIInv, TypeOK, PcTypeOK
  <1>2. /\ PcTypeOK' /\ pc'["producer"] = pc["producer"] /\ AtMostWoken("consumer")
        /\ pc["tcp"] = "setStop" /\ pc'["tcp"] = "close"
    BY <1>1, TcpMoves DEF TcpSetStop, TcpAt, TcpLabels
  <1>3. /\ stop_requested' = TRUE
        /\ UNCHANGED <<tcpVars, captureQueue, tcpQueue, doneFlags, errors, last_error>>
    BY DEF TcpSetStop
  <1>4. TypeOK'
    BY <1>1, <1>2, <1>3 DEF TypeOK, PcTypeOK, QueuesTypeOK, FlagsTypeOK, ProducerTypeOK, Threads
  <1>5. FramesAccounted'
    <2>1. InFlight' = InFlight /\ ConsumerHolds' = ConsumerHolds
      BY <1>1, <1>2, <1>3
         DEF IInv, TcpShutdown, InFlight, ConsumerHolds, One, AtMostWoken
    <2> QED
      BY <1>1, <1>3, <2>1 DEF IInv, FramesAccounted
  <1>6. ProducerShutdown' /\ ConsumerShutdown'
    BY <1>1, <1>2, <1>3 DEF IInv, ProducerShutdown, ConsumerShutdown, AtMostWoken
  <1>7. TcpShutdown'
    BY <1>1, <1>2, <1>3 DEF IInv, TcpShutdown, TcpHealthy
  <1>8. StopCaused' /\ (tstats.cancellations > 0 => errors \cap {"producer", "consumer"} # {})'
    BY <1>1, <1>2, <1>3 DEF IInv, TcpShutdown, StopCaused, TcpHealthy
  <1>9. MainPhases'
    BY <1>1, <1>2, <1>3 DEF IInv, MainPhases, PcTypeOK, Threads, AtMostWoken
  <1>10. RecoveryAccounted' /\ RecoveryHistory'
    BY <1>1, <1>2, <1>3, RecoveryKept
  <1> QED
    BY <1>4, <1>5, <1>6, <1>7, <1>8, <1>9, <1>10 DEF Inv, IInv, RecoveryIInv

\* An exception that escapes a handler is stored before the stop, and its frame
\* stays in flight.
LEMMA TcpEscapeInv ==
  ASSUME Inv, TcpIdle, TcpEscape
  PROVE  Inv'
  <1> USE DEF TcpIdle, producerVars, captureQueue, tcpQueue, doneFlags, mainVars
  <1>1. IInv /\ TypeOK /\ RecoveryAccounted /\ RecoveryHistory /\ PcTypeOK
    BY DEF Inv, IInv, RecoveryIInv, TypeOK, PcTypeOK
  <1>2. /\ PcTypeOK' /\ pc'["producer"] = pc["producer"] /\ AtMostWoken("consumer")
        /\ pc'["tcp"] = "exited"
    BY <1>1, TcpMoves DEF TcpEscape, TcpLabels
  <1>3. /\ pc["tcp"] \in {"send", "sending"} /\ wire' = wire
        /\ stop_requested' = TRUE /\ errors' = errors \cup {"tcp"}
        /\ UNCHANGED <<captureQueue, tcpQueue, doneFlags, last_error>>
    BY DEF TcpEscape, TcpAt
  <1>4. PICK names \in {{"errors", "timeouts"}, {"errors"}, {"cancellations"}} :
          /\ names = {"cancellations"} => stop_requested
          /\ tstats' = Counted(tstats, names)
    BY DEF TcpEscape
  <1>5. /\ tstats' \in [TcpCounters -> Nat] /\ tstats'.sent = tstats.sent
        /\ tstats'.cancellations = IF names = {"cancellations"} THEN tstats.cancellations + 1
                                   ELSE tstats.cancellations
    <2>1. {"sent", "errors", "cancellations"} \subseteq TcpCounters
      BY DEF TcpCounters
    <2>2. tstats \in [TcpCounters -> Nat]
      BY <1>1 DEF TypeOK
    <2>3. "sent" \notin names /\ ("cancellations" \in names <=> names = {"cancellations"})
      BY <1>4
    <2> QED
      BY <1>4, <2>1, <2>2, <2>3, CountedIs
  <1>6. /\ tstats.errors = 0 /\ tstats.cancellations = 0 /\ "tcp" \notin errors
        /\ stop_requested => errors \cap {"producer", "consumer"} # {}
    BY <1>1, <1>3 DEF IInv, TcpShutdown, StopCaused, TcpHealthy
  <1>7. TypeOK'
    BY <1>1, <1>2, <1>3, <1>5
       DEF TypeOK, PcTypeOK, QueuesTypeOK, FlagsTypeOK, ProducerTypeOK, Threads
  <1>8. FramesAccounted'
    <2>1. InFlight = 1 /\ InFlight' = 1 /\ ConsumerHolds' = ConsumerHolds
      BY <1>1, <1>2, <1>3 DEF IInv, InFlight, ConsumerHolds, One, AtMostWoken
    <2> QED
      BY <1>1, <1>3, <1>5, <2>1 DEF IInv, FramesAccounted
  <1>9. ProducerShutdown' /\ ConsumerShutdown'
    BY <1>1, <1>2, <1>3 DEF IInv, ProducerShutdown, ConsumerShutdown, AtMostWoken
  <1>10. TcpShutdown'
    BY <1>1, <1>2, <1>3 DEF IInv, TcpShutdown, TcpHealthy
  <1>11. StopCaused' /\ (tstats.cancellations > 0 => errors \cap {"producer", "consumer"} # {})'
    BY <1>2, <1>3, <1>4, <1>5, <1>6 DEF StopCaused, TcpHealthy
  <1>12. MainPhases'
    BY <1>1, <1>2, <1>3 DEF IInv, MainPhases, PcTypeOK, Threads, AtMostWoken
  <1>13. RecoveryAccounted' /\ RecoveryHistory'
    BY <1>1, <1>2, <1>3, RecoveryKept
  <1> QED
    BY <1>7, <1>8, <1>9, <1>10, <1>11, <1>12, <1>13 DEF Inv, IInv, RecoveryIInv

\* Every step of the TCP sender thread preserves Inv.
LEMMA TcpInv ==
  ASSUME Inv, TcpSender
  PROVE  Inv'
  BY TcpQuietInv, TcpPopInv, TcpSendOkInv, TcpFailureInv, TcpStopInv, TcpEscapeInv
     DEF TcpSender, TcpStep, TcpIdle

-----------------------------------------------------------------------------
\* The connection attempts of main preserve Inv: no thread exists yet.
LEMMA ConnectInv ==
  ASSUME Inv, ConnectSucceeds \/ ConnectFails
  PROVE  Inv'
  <1> USE DEF producerVars, captureQueue, tcpQueue, doneFlags, tcpVars, Others
  <1>1. IInv /\ TypeOK /\ RecoveryAccounted /\ RecoveryHistory /\ PcTypeOK
    BY DEF Inv, IInv, RecoveryIInv, TypeOK, PcTypeOK
  <1>2. main = "connect" /\ UNCHANGED <<pc, Others, wire, result>>
    BY DEF ConnectSucceeds, ConnectFails
  <1>3. /\ pc = [t \in Threads |-> "unborn"] /\ tstats.errors = 0
        /\ connects \in [attempts: 0 .. ConnectMaxAttempts, retries: Nat]
        /\ connects.attempts < ConnectMaxAttempts
    BY <1>1, <1>2 DEF IInv, TypeOK, MainPhases
  <1>4. \/ /\ main' \in {"connect", "start"} /\ tstats' = tstats /\ last_error' = last_error
           /\ main' = "connect" => connects'.attempts < ConnectMaxAttempts
        \/ /\ main' = "connectFailed" /\ tstats' = Counted(tstats, {"errors"}) /\ last_error' = "connect"
    BY <1>2, <1>3, MainAssumption DEF ConnectSucceeds, ConnectFails
  <1>5. connects' \in [attempts: 0 .. ConnectMaxAttempts, retries: Nat]
    BY <1>3, MainAssumption DEF ConnectSucceeds, ConnectFails
  <1>6. /\ tstats' \in [TcpCounters -> Nat] /\ tstats'.sent = tstats.sent
        /\ tstats'.cancellations = tstats.cancellations
        /\ main' # "connectFailed" => tstats'.errors = 0
    <2>1. {"sent", "errors", "cancellations"} \subseteq TcpCounters
      BY DEF TcpCounters
    <2>2. tstats \in [TcpCounters -> Nat]
      BY <1>1 DEF TypeOK
    <2> QED
      BY <1>3, <1>4, <2>1, <2>2, CountedIs
  <1>7. TypeOK'
    BY <1>1, <1>2, <1>4, <1>5, <1>6
       DEF TypeOK, QueuesTypeOK, FlagsTypeOK, ProducerTypeOK, LastErrors, MainLabels
  <1>8. pc["tcp"] = "unborn" /\ pc["consumer"] = "unborn" /\ pc["producer"] = "unborn"
    BY <1>3 DEF Threads
  <1>9. FramesAccounted'
    <2>1. InFlight' = InFlight /\ ConsumerHolds' = ConsumerHolds
      BY <1>2, <1>6, <1>8 DEF InFlight, ConsumerHolds, One
    <2> QED
      BY <1>1, <1>2, <1>6, <2>1 DEF IInv, FramesAccounted
  <1>10. ProducerShutdown' /\ ConsumerShutdown'
    BY <1>1, <1>2 DEF IInv, ProducerShutdown, ConsumerShutdown
  <1>11. TcpShutdown'
    BY <1>1, <1>2, <1>6, <1>8 DEF IInv, TcpShutdown, TcpHealthy
  <1>12. StopCaused' /\ (tstats.cancellations > 0 => errors \cap {"producer", "consumer"} # {})'
    BY <1>1, <1>2, <1>6, <1>8 DEF IInv, MainPhases, StopCaused, TcpHealthy
  <1>13. MainPhases'
    BY <1>1, <1>2, <1>3, <1>4, <1>6, <1>8 DEF IInv, MainPhases
  <1>14. RecoveryAccounted' /\ RecoveryHistory'
    BY <1>1, <1>2, RecoveryKept
  <1> QED
    BY <1>7, <1>9, <1>10, <1>11, <1>12, <1>13, <1>14 DEF Inv, IInv, RecoveryIInv

\* Starting the threads preserves Inv.
LEMMA StartThreadsInv ==
  ASSUME Inv, StartThreads
  PROVE  Inv'
  <1> USE DEF producerVars, captureQueue, tcpQueue, doneFlags, tcpVars, Others
  <1>1. IInv /\ TypeOK /\ RecoveryAccounted /\ RecoveryHistory
    BY DEF Inv, IInv, RecoveryIInv
  <1>2. /\ main = "start" /\ main' = "join"
        /\ UNCHANGED <<Others, last_error, tcpVars, connects, result>>
    BY DEF StartThreads
  <1>3. /\ PcTypeOK' /\ pc'["producer"] = "loop" /\ pc'["consumer"] = "loop"
        /\ pc'["tcp"] = IF TcpEnabled THEN "loop" ELSE "unborn"
    BY DEF StartThreads, PcTypeOK, Threads, ProducerLabels, ConsumerLabels, TcpLabels
  <1>4. /\ pc["producer"] = "unborn" /\ pc["consumer"] = "unborn" /\ pc["tcp"] = "unborn"
        /\ tstats.errors = 0 /\ ~stop_requested /\ errors = {}
    BY <1>1, <1>2 DEF IInv, MainPhases, Threads
  <1>5. tstats.cancellations = 0 /\ result # "ok"
    BY <1>1, <1>2, <1>4 DEF IInv, TcpShutdown, MainPhases
  <1>6. TypeOK'
    BY <1>1, <1>2, <1>3
       DEF TypeOK, PcTypeOK, QueuesTypeOK, FlagsTypeOK, ProducerTypeOK, MainLabels
  <1>7. FramesAccounted'
    <2>1. InFlight' = InFlight /\ ConsumerHolds' = ConsumerHolds
      BY <1>2, <1>3, <1>4, <1>5 DEF InFlight, ConsumerHolds, One
    <2> QED
      BY <1>1, <1>2, <2>1 DEF IInv, FramesAccounted
  <1>8. ProducerShutdown' /\ ConsumerShutdown' /\ TcpShutdown'
    BY <1>1, <1>2, <1>3, <1>4, <1>5
       DEF IInv, ProducerShutdown, ConsumerShutdown, TcpShutdown, TcpHealthy
  <1>9. StopCaused' /\ (tstats.cancellations > 0 => errors \cap {"producer", "consumer"} # {})'
    BY <1>1, <1>2, <1>4 DEF IInv, StopCaused
  <1>10. MainPhases'
    BY <1>1, <1>2, <1>3, <1>4, <1>5 DEF IInv, MainPhases
  <1>11. RecoveryAccounted' /\ RecoveryHistory'
    BY <1>1, <1>2, <1>3, <1>4 DEF RecoveryAccounted, RecoveryHistory, One
  <1> QED
    BY <1>6, <1>7, <1>8, <1>9, <1>10, <1>11 DEF Inv, IInv, RecoveryIInv

\* Joining the threads and reporting preserve Inv: success is reported only
\* without any recorded failure.
LEMMA EndingInv ==
  ASSUME Inv, ReportConnectFailure \/ JoinThreads \/ Report
  PROVE  Inv'
  <1> USE DEF producerVars, captureQueue, tcpQueue, doneFlags, tcpVars, Others
  <1>1. IInv /\ TypeOK /\ RecoveryAccounted /\ RecoveryHistory
    BY DEF Inv, IInv, RecoveryIInv
  <1>2. UNCHANGED <<pc, Others, last_error, tcpVars, connects>>
    BY DEF ReportConnectFailure, JoinThreads, Report
  <1>3. \/ /\ main = "join" /\ main' = "report" /\ result' = result
           /\ pc["producer"] = "exited" /\ pc["consumer"] = "exited"
           /\ TcpEnabled => pc["tcp"] = "exited"
        \/ main = "connectFailed" /\ main' = "ended" /\ result' \in {"connect", "stats"}
        \/ main = "report" /\ main' = "ended" /\ result' \in {Outcome, "stats"}
    BY DEF ReportConnectFailure, JoinThreads, Report
  <1>4. /\ Outcome \in Results /\ Outcome # ""
        /\ Outcome = "ok" => errors = {} /\ tstats.errors = 0
    <2>1. errors \subseteq {"producer", "consumer", "tcp"}
      BY <1>1 DEF TypeOK, FlagsTypeOK, Threads
    <2>2. tstats.errors \in Nat
      BY <1>1, Numbers
    <2> QED
      BY <2>1, <2>2 DEF Outcome, Results
  <1>5. TypeOK'
    <2>1. main' \in MainLabels /\ result' \in Results
      BY <1>1, <1>3, <1>4 DEF TypeOK, MainLabels, Results
    <2> QED
      BY <1>1, <1>2, <2>1 DEF TypeOK, QueuesTypeOK, FlagsTypeOK, ProducerTypeOK
  <1>6. FramesAccounted' /\ ProducerShutdown' /\ ConsumerShutdown' /\ TcpShutdown'
    <2>1. FramesAccounted'
      BY <1>1, <1>2 DEF IInv, FramesAccounted, InFlight, ConsumerHolds
    <2>2. ProducerShutdown'
      BY <1>1, <1>2 DEF IInv, ProducerShutdown
    <2>3. ConsumerShutdown'
      BY <1>1, <1>2 DEF IInv, ConsumerShutdown
    <2>4. TcpShutdown'
      BY <1>1, <1>2 DEF IInv, TcpShutdown
    <2> QED
      BY <2>1, <2>2, <2>3, <2>4
  <1>7. StopCaused' /\ (tstats.cancellations > 0 => errors \cap {"producer", "consumer"} # {})'
    BY <1>1, <1>2 DEF IInv, StopCaused
  <1>8. MainPhases'
    BY <1>1, <1>2, <1>3, <1>4 DEF IInv, MainPhases
  <1>9. RecoveryAccounted' /\ RecoveryHistory'
    BY <1>1, <1>2, RecoveryKept
  <1> QED
    BY <1>5, <1>6, <1>7, <1>8, <1>9 DEF Inv, IInv, RecoveryIInv

\* A stuttering step preserves Inv.
LEMMA StutterInv ==
  ASSUME Inv, UNCHANGED vars
  PROVE  Inv'
  <1> USE DEF vars, producerVars, captureQueue, tcpQueue, doneFlags, tcpVars, mainVars
  <1>1. IInv /\ TypeOK /\ RecoveryAccounted /\ RecoveryHistory
    BY DEF Inv, IInv, RecoveryIInv
  <1>2. TypeOK'
    BY <1>1 DEF TypeOK, QueuesTypeOK, FlagsTypeOK, ProducerTypeOK
  <1>3. FramesAccounted' /\ ProducerShutdown' /\ ConsumerShutdown' /\ TcpShutdown'
    <2>1. FramesAccounted'
      BY <1>1 DEF IInv, FramesAccounted, InFlight, ConsumerHolds
    <2>2. ProducerShutdown'
      BY <1>1 DEF IInv, ProducerShutdown
    <2>3. ConsumerShutdown'
      BY <1>1 DEF IInv, ConsumerShutdown
    <2>4. TcpShutdown'
      BY <1>1 DEF IInv, TcpShutdown
    <2> QED
      BY <2>1, <2>2, <2>3, <2>4
  <1>4. /\ StopCaused' /\ MainPhases'
        /\ (tstats.cancellations > 0 => errors \cap {"producer", "consumer"} # {})'
    BY <1>1 DEF IInv, StopCaused, MainPhases
  <1>5. RecoveryAccounted' /\ RecoveryHistory'
    BY <1>1, RecoveryKept
  <1> QED
    BY <1>2, <1>3, <1>4, <1>5 DEF Inv, IInv, RecoveryIInv

\* The initial state satisfies Inv.
LEMMA InitInv ==
  ASSUME Init
  PROVE  Inv
  <1>1. /\ pstats \in [ProducerCounters -> Nat] /\ cstats \in [ConsumerCounters -> Nat]
        /\ tstats \in [TcpCounters -> Nat]
    BY DEF Init, ProducerInit, ConsumerInit, TcpInit
  <1>2. /\ pstats.captured = 0 /\ pstats.invalid_recoveries = 0
        /\ pstats.recovery_attempts = 0 /\ pstats.recovery_successes = 0
        /\ pstats.recovery_failures = 0
    BY DEF Init, ProducerInit, ProducerCounters
  <1>3. cstats.consumed = 0 /\ cstats.invalid = 0 /\ cstats.tcp_queued = 0
    BY DEF Init, ConsumerInit, ConsumerCounters
  <1>4. tstats.sent = 0 /\ tstats.errors = 0 /\ tstats.cancellations = 0
    BY DEF Init, TcpInit, TcpCounters
  <1>5. pc = [t \in Threads |-> "unborn"]
    BY DEF Init
  <1>6. /\ PcTypeOK
        /\ pc["producer"] = "unborn" /\ pc["consumer"] = "unborn" /\ pc["tcp"] = "unborn"
    BY <1>5 DEF PcTypeOK, Threads, ProducerLabels, ConsumerLabels, TcpLabels
  <1>7. /\ ring \in Seq(Frames) /\ frame \in Seq(Frames) /\ tcp_ring \in Seq(Frames)
        /\ tcp_frame \in Seq(Frames) /\ wire \in Seq(Frames)
        /\ Len(ring) = 0 /\ Len(tcp_ring) = 0 /\ Len(wire) = 0
    <2>1. <<>> \in Seq(Frames) /\ Len(<<>>) = 0
      BY EmptySeq
    <2>2. ring = <<>> /\ frame = <<>> /\ tcp_ring = <<>> /\ tcp_frame = <<>> /\ wire = <<>>
      BY DEF Init, TcpInit
    <2> QED
      BY <2>1, <2>2
  <1>0. capture_dropped = 0 /\ tcp_dropped = 0
    BY DEF Init
  <1>8. /\ ~producer_done /\ ~consumer_done /\ ~stop_requested
        /\ errors = {} /\ result = "" /\ main \in {"connect", "start"}
    BY DEF Init
  <1>9. invalid_controller = NewInvalidController /\ since = 0
    BY DEF Init, ProducerInit
  <1>10. TypeOK
    <2>1. controller \in Controller
      <3>1. controller = NewController
        BY DEF Init, ProducerInit
      <3> QED
        BY <3>1, RecoveryAssumption DEF Controller, NewController
    <2>2. invalid_controller \in InvalidController
      BY <1>9, RecoveryAssumption DEF InvalidController, NewInvalidController
    <2>3. ProducerTypeOK
      <3>1. trigger \in BOOLEAN
        BY DEF Init, ProducerInit
      <3>2. faults \in 0 .. MaxFaults
        <4>1. faults = 0
          BY DEF Init, ProducerInit
        <4> QED
          BY <4>1, ProducerAssumption
      <3> QED
        BY <1>1, <1>9, <2>1, <2>2, <3>1, <3>2 DEF ProducerTypeOK
    <2>4. QueuesTypeOK
      BY <1>7, <1>0, PipelineAssumption DEF QueuesTypeOK
    <2>5. FlagsTypeOK
      <3>1. producer_done \in BOOLEAN /\ consumer_done \in BOOLEAN /\ stop_requested \in BOOLEAN
        BY DEF Init
      <3>2. last_error \in LastErrors
        BY DEF Init, LastErrors
      <3> QED
        BY <1>8, <3>1, <3>2 DEF FlagsTypeOK
    <2>6. main \in MainLabels /\ result \in Results
      BY <1>8 DEF MainLabels, Results
    <2>7. connects \in [attempts: 0 .. ConnectMaxAttempts, retries: Nat]
      <3>1. connects = [attempts |-> 0, retries |-> 0]
        BY DEF Init
      <3> QED
        BY <3>1, MainAssumption
    <2> QED
      BY <1>1, <1>6, <1>7, <2>3, <2>4, <2>5, <2>6, <2>7 DEF TypeOK, PcTypeOK
  <1>11. FramesAccounted
    <2>1. ConsumerHolds = 0 /\ InFlight = 0
      <3>1. errors = {}
        BY <1>8
      <3>2. ~(tstats.cancellations > 0)
        BY <1>4
      <3> QED
        BY <1>6, <3>1, <3>2 DEF ConsumerHolds, InFlight, One
    <2> QED
      <3>1. Len(ring) = 0 /\ Len(tcp_ring) = 0 /\ Len(wire) = 0
        BY <1>7
      <3>2. /\ pstats.captured = cstats.consumed + capture_dropped + Len(ring)
            /\ cstats.consumed = cstats.invalid + cstats.tcp_queued + ConsumerHolds
            /\ cstats.tcp_queued = tstats.sent + tcp_dropped + Len(tcp_ring) + InFlight
        BY <1>0, <1>2, <1>3, <1>4, <2>1, <3>1
      <3> QED
        BY <1>4, <3>1, <3>2 DEF FramesAccounted
  <1>12. ProducerShutdown /\ ConsumerShutdown
    <2>1. pstats.captured <= FrameCount
      BY <1>2, PipelineAssumption
    <2> QED
      BY <1>6, <1>8, <2>1 DEF ProducerShutdown, ConsumerShutdown
  <1>13. TcpShutdown /\ StopCaused
    BY <1>4, <1>6, <1>8 DEF TcpShutdown, StopCaused, TcpHealthy
  <1>14. MainPhases
    <2>1. connects.attempts < ConnectMaxAttempts
      <3>1. connects = [attempts |-> 0, retries |-> 0]
        BY DEF Init
      <3> QED
        BY <3>1, MainAssumption
    <2> QED
      BY <1>3, <1>4, <1>5, <1>6, <1>8, <2>1 DEF MainPhases
  <1>15. RecoveryAccounted
    BY <1>2, <1>6, <1>9, RecoveryAssumption DEF RecoveryAccounted, NewInvalidController
  <1>16. RecoveryHistory
    BY <1>2, <1>6, <1>9 DEF RecoveryHistory, NewInvalidController
  <1> QED
    BY <1>4, <1>10, <1>11, <1>12, <1>13, <1>14, <1>15, <1>16 DEF Inv, IInv, RecoveryIInv

\* Every step of the pipeline preserves Inv.
LEMMA NextInv ==
  ASSUME Inv, [Next]_vars
  PROVE  Inv'
  BY ProducerInv, ConsumerInv, TcpInv, ConnectInv, StartThreadsInv, EndingInv, StutterInv
     DEF Next, MainStep, Ended

-----------------------------------------------------------------------------
\* Every reachable state satisfies the inductive invariant.
THEOREM PipelineInvariant == Spec => []Inv
  <1>1. Init => Inv
    BY InitInv
  <1>2. Inv /\ [Next]_vars => Inv'
    BY NextInv
  <1> QED
    BY <1>1, <1>2, PTL DEF Spec

\* Type correctness of the whole pipeline.
THEOREM PipelineTypeCorrect == Spec => []TypeOK
  <1>1. Inv => TypeOK
    BY DEF Inv, IInv
  <1> QED
    BY <1>1, PipelineInvariant, PTL

\* For every number of frames and every ring capacity, each captured frame is
\* consumed, dropped or waiting, each consumed one is skipped, queued or held,
\* and each queued one is sent, dropped, waiting or in flight.
THEOREM FramesAlwaysAccounted == Spec => []FramesAccounted
  <1>1. Inv => FramesAccounted
    BY DEF Inv, IInv
  <1> QED
    BY <1>1, PipelineInvariant, PTL

\* A run that reports success has delivered every frame: no order of the
\* producer's, consumer's and sender's shutdown reads strands one in a ring.
THEOREM SuccessAlwaysDelivers == Spec => []SuccessDeliversEverything
  <1>1. ASSUME Inv, result = "ok"
        PROVE  /\ pstats.captured = FrameCount /\ Len(ring) = 0 /\ ring = <<>>
               /\ TcpEnabled => Len(tcp_ring) = 0 /\ tcp_ring = <<>> /\ ConsumerHolds = 0 /\ InFlight = 0
    <2>1. /\ pc["producer"] = "exited" /\ pc["consumer"] = "exited"
          /\ TcpEnabled => pc["tcp"] = "exited"
          /\ errors = {} /\ tstats.errors = 0 /\ tstats.cancellations \in Nat
      BY <1>1, Numbers DEF Inv, IInv, MainPhases
    <2>2. ~stop_requested /\ tstats.cancellations = 0
      BY <1>1, <2>1 DEF Inv, IInv, StopCaused
    <2>3. pstats.captured = FrameCount /\ ring = <<>>
      BY <1>1, <2>1, <2>2 DEF Inv, IInv, ProducerShutdown, ConsumerShutdown
    <2>4. TcpEnabled => tcp_ring = <<>> /\ ConsumerHolds = 0 /\ InFlight = 0
      BY <1>1, <2>1, <2>2 DEF Inv, IInv, TcpShutdown, ConsumerHolds, InFlight, One
    <2>5. ring = <<>> => Len(ring) = 0
      BY EmptySeq
    <2>6. tcp_ring = <<>> => Len(tcp_ring) = 0
      BY EmptySeq
    <2> QED
      BY <2>3, <2>4, <2>5, <2>6
  <1>2. ASSUME Inv, result = "ok"
        PROVE  cstats.consumed + capture_dropped = FrameCount
    <2>1. cstats.consumed \in Nat
      BY <1>2, Numbers DEF Inv, IInv
    <2>2. capture_dropped \in Nat
      BY <1>2, Numbers DEF Inv, IInv
    <2>3. FrameCount = cstats.consumed + capture_dropped + 0
      BY <1>1, <1>2 DEF Inv, IInv, FramesAccounted
    <2> QED
      BY <2>1, <2>2, <2>3
  <1>3. ASSUME Inv, result = "ok", TcpEnabled
        PROVE  cstats.invalid + capture_dropped + tcp_dropped + Len(wire) = FrameCount
    <2>1. /\ cstats.consumed = cstats.invalid + cstats.tcp_queued + 0
          /\ cstats.tcp_queued = Len(wire) + tcp_dropped + 0 + 0
      BY <1>1, <1>3 DEF Inv, IInv, FramesAccounted
    <2>2. cstats.invalid \in Nat
      BY <1>3, Numbers DEF Inv, IInv
    <2>3. cstats.tcp_queued \in Nat
      BY <1>3, Numbers DEF Inv, IInv
    <2>4. Len(wire) \in Nat
      BY <1>3, Numbers DEF Inv, IInv
    <2>5. tcp_dropped \in Nat
      BY <1>3, Numbers DEF Inv, IInv
    <2>6. capture_dropped \in Nat
      BY <1>3, Numbers DEF Inv, IInv
    <2>7. cstats.consumed = cstats.invalid + (Len(wire) + tcp_dropped)
      BY <2>2, <2>3, <2>4, <2>5, <2>1
    <2> QED
      BY <2>2, <2>4, <2>5, <2>6, <2>7, <1>2, <1>3
  <1>4. Inv => SuccessDeliversEverything
    BY <1>1, <1>2, <1>3 DEF SuccessDeliversEverything
  <1> QED
    BY <1>4, PipelineInvariant, PTL

\* A stopped run always reports a failure, and a cancelled send is always
\* explained by a recorded failure of the producer or the consumer.
THEOREM StopAlwaysReported == Spec => []StopIsReported
  <1>1. Inv => StopIsReported
    <2>1. SUFFICES ASSUME Inv PROVE StopIsReported
      OBVIOUS
    <2>2. result = "ok" => ~stop_requested
      BY <2>1, Numbers DEF Inv, IInv, MainPhases, StopCaused
    <2> QED
      BY <2>1, <2>2 DEF Inv, IInv, StopIsReported
  <1> QED
    BY <1>1, PipelineInvariant, PTL

\* The recovery counters always agree and never exceed their budgets.
THEOREM RecoveryAlwaysAccounted == Spec => []RecoveryAccounted
  <1>1. Inv => RecoveryAccounted
    BY DEF Inv, RecoveryIInv
  <1> QED
    BY <1>1, PipelineInvariant, PTL

\* Once the threads exist, nobody but the producer moves the producer.
LEMMA OnlyProducerMoves ==
  ASSUME Inv, [Next]_vars, pc["producer"] # "unborn", ~Producer
  PROVE  pc'["producer"] = pc["producer"]
  <1>1. PcTypeOK
    BY DEF Inv, IInv, TypeOK, PcTypeOK
  <1>2. CASE Consumer
    <2>1. \A l, woken : "producer" \notin woken /\ GotoAndNotify("consumer", l, woken)
                           => pc'["producer"] = pc["producer"]
      BY <1>1 DEF GotoAndNotify, PcTypeOK, Threads
    <2> QED
      BY <1>2, <2>1
         DEF Consumer, ConsumerStep, ConsumerLoop, ConsumerCheckDone, ConsumerCheckEmpty,
             ConsumerPop, ConsumerEnterWait, ConsumerWaitTimeout, ConsumerSkipInvalid, ConsumerSave,
             ConsumerSaveThrows, ConsumerEnqueue, ConsumerFinish, ConsumerFail, ConsumerFailStop, Goto
  <1>3. CASE TcpSender
    <2>1. \A l, woken : "producer" \notin woken /\ GotoAndNotify("tcp", l, woken)
                           => pc'["producer"] = pc["producer"]
      BY <1>1 DEF GotoAndNotify, PcTypeOK, Threads
    <2> QED
      BY <1>3, <2>1
         DEF TcpSender, TcpStep, TcpLoop, TcpCheckEmpty, TcpPop, TcpEnterWait, TcpWaitTimeout,
             TcpSendStart, TcpSendOk, TcpSetStop, TcpSendCancelled, TcpEscape, TcpClose,
             TcpSendFails, Goto
  <1>4. CASE StartThreads
    BY <1>4 DEF StartThreads, Inv, IInv, MainPhases, Threads
  <1>5. CASE ConnectSucceeds \/ ConnectFails \/ ReportConnectFailure \/ JoinThreads \/ Report
    BY <1>5 DEF ConnectSucceeds, ConnectFails, ReportConnectFailure, JoinThreads, Report
  <1>6. CASE UNCHANGED vars
    BY <1>6 DEF vars
  <1> QED
    BY <1>2, <1>3, <1>4, <1>5, <1>6 DEF Next, MainStep, Ended

\* Recovery is given up only after every attempt of the incident was used.
THEOREM GivesUpOnlyExhausted == Spec => GivesUpOnlyWhenExhausted
  <1>1. ASSUME Inv, [Next]_vars, pc["producer"] = "abandoned", pc'["producer"] = "fail"
        PROVE  controller.recovery_attempts = MaxRecoveryAttempts
    <2>1. PcTypeOK
      BY <1>1 DEF Inv, IInv, TypeOK, PcTypeOK
    <2>2. CASE Producer
      <3>1. RebuildAbandoned
        BY <1>1, <2>2
           DEF Producer, ProducerStep, ProducerLoop, CaptureFrame, CaptureError, CaptureThrows,
               RebuildAttempt, RebuildDelay, ReinitSucceeds, ReinitFails, ProducerFail,
               ProducerFinish, At
      <3>2. ~stop_requested
        BY <1>1, <2>1, <3>1 DEF RebuildAbandoned, Goto, GotoAndNotify, PcTypeOK, Threads
      <3> QED
        BY <1>1, <3>2 DEF Inv, RecoveryIInv, RecoveryHistory
    <2> QED
      BY <1>1, <2>2, OnlyProducerMoves
  <1> QED
    <2>1. Inv /\ [Next]_vars =>
            [pc["producer"] = "abandoned" /\ pc'["producer"] = "fail"
               => controller.recovery_attempts = MaxRecoveryAttempts]_vars
      BY <1>1
    <2> QED
      BY <2>1, PipelineInvariant, PTL DEF Spec, GivesUpOnlyWhenExhausted

\* A rebuild for unusable frames starts only after a whole streak, and after
\* the cooldown if the stream was ever rebuilt before.
THEOREM RebuildsAlwaysSpaced == Spec => RebuildsAreSpaced
  <1>1. ASSUME Inv, [Next]_vars, pc["producer"] = "capture", pc'["producer"] = "rebuild", trigger'
        PROVE  /\ since' >= InvalidThreshold
               /\ pstats.recovery_successes > 0 => since' >= InvalidCooldown
    <2>1. PcTypeOK
      BY <1>1 DEF Inv, IInv, TypeOK, PcTypeOK
    <2>2. Producer
      BY <1>1, OnlyProducerMoves
    <2>3. PICK defects \in Captures : CaptureFrame(defects)
      <3>1. \/ \E defects \in Captures : CaptureFrame(defects)
            \/ \E kind \in ErrorKinds : CaptureError(kind)
            \/ CaptureThrows
        BY <1>1, <2>2
           DEF Producer, ProducerStep, ProducerLoop, RebuildAttempt, RebuildDelay, ReinitSucceeds,
               ReinitFails, RebuildAbandoned, ProducerFail, ProducerFinish, At
      <3>2. \A kind \in ErrorKinds : CaptureError(kind) => ~trigger'
        BY DEF CaptureError
      <3>3. CaptureThrows => pc'["producer"] = "fail"
        BY <2>1 DEF CaptureThrows, Goto, GotoAndNotify, PcTypeOK, Threads
      <3> QED
        BY <1>1, <3>1, <3>2, <3>3
    <2> DEFINE valid == is_frame_usable([id |-> pstats.captured + 1, defects |-> defects])
    <2>4. Decision(invalid_controller, valid) = "Recover" /\ since' = since + 1
      BY <1>1, <2>3 DEF CaptureFrame
    <2> HIDE DEF valid
    <2>5. /\ ThresholdReached(invalid_controller, valid)
          /\ ~(CooldownAfter(invalid_controller) > 0)
      BY <2>4 DEF Decision
    <2>6. /\ invalid_controller.consecutive \in Nat /\ invalid_controller.cooldown \in Nat
          /\ since \in Nat
      BY <1>1, RecoveryAssumption DEF Inv, IInv, TypeOK, ProducerTypeOK, InvalidController
    <2>7. invalid_controller.consecutive + 1 >= InvalidThreshold
      BY <2>5 DEF ThresholdReached
    <2>8. invalid_controller.cooldown <= 1
      BY <2>5, <2>6 DEF CooldownAfter
    <2>9. /\ since >= invalid_controller.consecutive
          /\ pstats.recovery_successes > 0 => since + invalid_controller.cooldown >= InvalidCooldown
      BY <1>1 DEF Inv, RecoveryIInv, RecoveryHistory
    <2> QED
      BY <2>6, RecoveryAssumption, <2>4, <2>7, <2>8, <2>9
  <1> QED
    <2>1. Inv /\ [Next]_vars =>
            [pc["producer"] = "capture" /\ pc'["producer"] = "rebuild" /\ trigger'
               => /\ since' >= InvalidThreshold
                  /\ pstats.recovery_successes > 0 => since' >= InvalidCooldown]_vars
      BY <1>1
    <2> QED
      BY <2>1, PipelineInvariant, PTL DEF Spec, RebuildsAreSpaced

-----------------------------------------------------------------------------
\* The frames stand in one line from the newest to the socket: the capture
\* ring, the frame the consumer holds, the TCP ring, the frame being sent and
\* the wire.
Sending == IF pc["tcp"] \in {"send", "sending"} THEN tcp_frame ELSE <<>>
Held == IF pc["consumer"] \in {"process", "enqueue"} THEN frame ELSE <<>>

\* Frames in order of capture, frames captured before others or at most as the
\* n-th, and frames without a defect.
Increasing(s) == \A i, j \in 1 .. Len(s) : i < j => s[i].id < s[j].id
Before(s, t) == \A i \in 1 .. Len(s), j \in 1 .. Len(t) : s[i].id < t[j].id
AtMost(s, n) == \A i \in 1 .. Len(s) : s[i].id <= n
Usable(s) == \A i \in 1 .. Len(s) : is_frame_usable(s[i])

\* The frames of a line are in order of capture, the last of them not newer
\* than n.
InLine(w, s, t, h, r, n) ==
  /\ Increasing(w) /\ Increasing(t) /\ Increasing(r)
  /\ Before(w, s) /\ Before(w, t) /\ Before(w, h) /\ Before(w, r)
  /\ Before(s, t) /\ Before(s, h) /\ Before(s, r)
  /\ Before(t, h) /\ Before(t, r) /\ Before(h, r)
  /\ AtMost(w, n) /\ AtMost(s, n) /\ AtMost(t, n) /\ AtMost(h, n) /\ AtMost(r, n)

\* The line of the pipeline, and where in it frames are known to be usable.
LineInv ==
  /\ InLine(wire, Sending, tcp_ring, Held, ring, pstats.captured)
  /\ Usable(wire) /\ Usable(Sending) /\ Usable(tcp_ring)
  /\ pc["consumer"] = "enqueue" => Usable(frame)
  /\ pc["consumer"] \in {"process", "enqueue"} => Len(frame) = 1

-----------------------------------------------------------------------------
\* The first frame of a queue, and the others, are where the queue was.
LEMMA SplitQueue ==
  ASSUME NEW q \in Seq(Frames), q # <<>>, NEW x \in Seq(Frames), NEW n \in Nat
  PROVE  /\ Before(x, q) => Before(x, <<Head(q)>>) /\ Before(x, Tail(q))
         /\ Before(q, x) => Before(<<Head(q)>>, x) /\ Before(Tail(q), x)
         /\ Increasing(q) => Increasing(Tail(q)) /\ Before(<<Head(q)>>, Tail(q))
         /\ AtMost(q, n) => AtMost(<<Head(q)>>, n) /\ AtMost(Tail(q), n)
         /\ Usable(q) => Usable(<<Head(q)>>) /\ Usable(Tail(q))
  <1> DEFINE h == <<Head(q)>>
             t == Tail(q)
  <1>1. /\ Len(q) \in Nat /\ Len(q) > 0 /\ Len(t) = Len(q) - 1
        /\ Len(h) = 1 /\ h[1] = q[1]
        /\ \A i \in 1 .. Len(t) : t[i] = q[i + 1] /\ i + 1 \in 1 .. Len(q)
    OBVIOUS
  <1> HIDE DEF h, t
  <1>2. 1 \in 1 .. Len(q)
    BY <1>1
  <1>3. Before(x, q) => Before(x, h) /\ Before(x, t)
    <2> SUFFICES ASSUME Before(x, q) PROVE Before(x, h) /\ Before(x, t)
      OBVIOUS
    <2>1. \A i \in 1 .. Len(x), j \in 1 .. Len(t) : x[i].id < q[j + 1].id
      BY <1>1 DEF Before
    <2>2. \A i \in 1 .. Len(x) : x[i].id < q[1].id
      BY <1>2 DEF Before
    <2>3. \A i \in 1 .. Len(x), j \in 1 .. Len(t) : x[i].id < t[j].id
      BY <1>1, <2>1
    <2>4. \A i \in 1 .. Len(x), j \in 1 .. Len(h) : x[i].id < h[j].id
      BY <1>1, <2>2
    <2> QED
      BY <2>3, <2>4 DEF Before
  <1>4. Before(q, x) => Before(h, x) /\ Before(t, x)
    <2> SUFFICES ASSUME Before(q, x) PROVE Before(h, x) /\ Before(t, x)
      OBVIOUS
    <2>1. \A i \in 1 .. Len(t), j \in 1 .. Len(x) : q[i + 1].id < x[j].id
      BY <1>1 DEF Before
    <2>2. \A j \in 1 .. Len(x) : q[1].id < x[j].id
      BY <1>2 DEF Before
    <2>3. \A i \in 1 .. Len(t), j \in 1 .. Len(x) : t[i].id < x[j].id
      BY <1>1, <2>1
    <2>4. \A i \in 1 .. Len(h), j \in 1 .. Len(x) : h[i].id < x[j].id
      BY <1>1, <2>2
    <2> QED
      BY <2>3, <2>4 DEF Before
  <1>5. Increasing(q) => Increasing(t)
    <2> SUFFICES ASSUME Increasing(q), NEW i \in 1 .. Len(t), NEW j \in 1 .. Len(t),
                        i < j
                 PROVE  t[i].id < t[j].id
      BY DEF Increasing
    <2>1. i + 1 \in 1 .. Len(q) /\ j + 1 \in 1 .. Len(q) /\ i + 1 < j + 1
      BY <1>1
    <2>2. q[i + 1].id < q[j + 1].id
      BY <2>1 DEF Increasing
    <2> QED
      BY <1>1, <2>2
  <1>6. Increasing(q) => Before(h, t)
    BY <1>1 DEF Increasing, Before
  <1>7. AtMost(q, n) => AtMost(h, n) /\ AtMost(t, n)
    BY <1>1 DEF AtMost
  <1>8. Usable(q) => Usable(h) /\ Usable(t)
    BY <1>1 DEF Usable
  <1> QED
    BY <1>3, <1>4, <1>5, <1>6, <1>7, <1>8 DEF h, t

\* A queue with a frame behind it.
LEMMA ExtendQueue ==
  ASSUME NEW q \in Seq(Frames), NEW f \in Frames, NEW x \in Seq(Frames),
         NEW n \in Nat
  PROVE  /\ Before(x, q) /\ Before(x, <<f>>) => Before(x, Append(q, f))
         /\ Before(q, x) /\ Before(<<f>>, x) => Before(Append(q, f), x)
         /\ Increasing(q) /\ Before(q, <<f>>) => Increasing(Append(q, f))
         /\ AtMost(q, n) /\ AtMost(<<f>>, n) => AtMost(Append(q, f), n)
         /\ Usable(q) /\ Usable(<<f>>) => Usable(Append(q, f))
  <1> DEFINE a == Append(q, f)
             l == <<f>>
  <1>1. /\ Len(q) \in Nat /\ Len(a) = Len(q) + 1
        /\ Len(l) = 1 /\ l[1] = f /\ a[Len(a)] = f
        /\ \A i \in 1 .. Len(q) : a[i] = q[i]
    OBVIOUS
  <1> HIDE DEF a, l
  <1>2. \A i \in 1 .. Len(a) : i \in 1 .. Len(q) \/ i = Len(a)
    BY <1>1
  <1>3. Before(x, q) /\ Before(x, l) => Before(x, a)
    BY <1>1, <1>2 DEF Before
  <1>4. Before(q, x) /\ Before(l, x) => Before(a, x)
    BY <1>1, <1>2 DEF Before
  <1>5. Increasing(q) /\ Before(q, l) => Increasing(a)
    BY <1>1, <1>2 DEF Before, Increasing
  <1>6. AtMost(q, n) /\ AtMost(l, n) => AtMost(a, n)
    BY <1>1, <1>2 DEF AtMost
  <1>7. Usable(q) /\ Usable(l) => Usable(a)
    BY <1>1, <1>2 DEF Usable
  <1> QED
    BY <1>3, <1>4, <1>5, <1>6, <1>7 DEF a, l

\* Nothing is before nothing.
LEMMA NoFrames ==
  /\ Increasing(<<>>) /\ Usable(<<>>)
  /\ \A x, n : Before(x, <<>>) /\ Before(<<>>, x) /\ AtMost(<<>>, n)
  BY DEF Increasing, Usable, Before, AtMost

\* What may happen to a line: a frame is lost on its way, moves on, is sent,
\* or is captured.
LEMMA LineMoves ==
  ASSUME NEW w \in Seq(Frames), NEW s \in Seq(Frames), NEW t \in Seq(Frames),
         NEW h \in Seq(Frames), NEW r \in Seq(Frames), NEW n \in Nat,
         InLine(w, s, t, h, r, n)
  PROVE  /\ InLine(w, <<>>, t, h, r, n)
         /\ InLine(w, s, t, <<>>, r, n)
         /\ t # <<>> => InLine(w, s, Tail(t), h, r, n)
         /\ r # <<>> => InLine(w, s, t, h, Tail(r), n)
         /\ r # <<>> => InLine(w, s, t, <<Head(r)>>, Tail(r), n)
         /\ t # <<>> => InLine(w, <<Head(t)>>, Tail(t), h, r, n)
         /\ \A f \in Frames : s = <<f>> => InLine(Append(w, f), <<>>, t, h, r, n)
         /\ \A f \in Frames : h = <<f>> => InLine(w, s, Append(t, f), <<>>, r, n)
         /\ \A f \in Frames : f.id = n + 1 =>
              InLine(w, s, t, h, Append(r, f), n + 1)
  <1>1. InLine(w, <<>>, t, h, r, n) /\ InLine(w, s, t, <<>>, r, n)
    BY NoFrames DEF InLine
  <1>2. ASSUME t # <<>>
        PROVE  /\ InLine(w, s, Tail(t), h, r, n)
               /\ InLine(w, <<Head(t)>>, Tail(t), h, r, n)
    BY <1>2, SplitQueue DEF InLine
  <1>3. ASSUME r # <<>>
        PROVE  /\ InLine(w, s, t, h, Tail(r), n)
               /\ InLine(w, s, t, <<Head(r)>>, Tail(r), n)
    BY <1>3, SplitQueue DEF InLine
  <1>4. ASSUME NEW f \in Frames, s = <<f>>
        PROVE  InLine(Append(w, f), <<>>, t, h, r, n)
    BY <1>4, NoFrames, ExtendQueue DEF InLine
  <1>5. ASSUME NEW f \in Frames, h = <<f>>
        PROVE  InLine(w, s, Append(t, f), <<>>, r, n)
    BY <1>5, NoFrames, ExtendQueue DEF InLine
  <1>6. ASSUME NEW f \in Frames, f.id = n + 1
        PROVE  InLine(w, s, t, h, Append(r, f), n + 1)
    <2>1. \A x \in Seq(Frames) :
            AtMost(x, n) => AtMost(x, n + 1) /\ Before(x, <<f>>)
      <3>1. SUFFICES ASSUME NEW x \in Seq(Frames), AtMost(x, n)
                     PROVE  AtMost(x, n + 1) /\ Before(x, <<f>>)
        OBVIOUS
      <3>2. \A i \in 1 .. Len(x) : x[i].id \in Nat /\ x[i].id <= n
        <4>1. \A i \in 1 .. Len(x) : x[i] \in Frames
          BY <3>1
        <4>2. \A g \in Frames : g.id \in Nat
          BY PipelineAssumption DEF Frames
        <4> QED
          BY <3>1, <4>1, <4>2 DEF AtMost
      <3>3. AtMost(x, n + 1)
        BY <3>2 DEF AtMost
      <3>4. Len(<<f>>) = 1 /\ <<f>>[1] = f
        OBVIOUS
      <3>5. \A i \in 1 .. Len(x) : x[i].id < f.id
        BY <1>6, <3>2
      <3> QED
        BY <3>3, <3>4, <3>5 DEF Before
    <2>2. AtMost(<<f>>, n + 1)
      BY <1>6 DEF AtMost
    <2> QED
      BY <2>1, <2>2, ExtendQueue DEF InLine
  <1> QED
    BY <1>1, <1>2, <1>3, <1>4, <1>5, <1>6

\* The parts of the line are sequences of frames.
LEMMA LineTypes ==
  ASSUME Inv
  PROVE  /\ wire \in Seq(Frames) /\ Sending \in Seq(Frames)
         /\ tcp_ring \in Seq(Frames) /\ Held \in Seq(Frames)
         /\ ring \in Seq(Frames) /\ pstats.captured \in Nat
         /\ frame \in Seq(Frames) /\ tcp_frame \in Seq(Frames)
         /\ Len(ring) <= RingCapacity /\ Len(tcp_ring) <= TcpCapacity
  <1>1. /\ wire \in Seq(Frames) /\ tcp_ring \in Seq(Frames) /\ ring \in Seq(Frames)
        /\ frame \in Seq(Frames) /\ tcp_frame \in Seq(Frames)
        /\ Len(ring) <= RingCapacity /\ Len(tcp_ring) <= TcpCapacity
    BY DEF Inv, IInv, TypeOK, QueuesTypeOK
  <1>2. pstats.captured \in Nat
    BY Numbers DEF Inv, IInv
  <1>3. <<>> \in Seq(Frames)
    OBVIOUS
  <1> QED
    BY <1>1, <1>2, <1>3 DEF Sending, Held

\* A step that touches no queue can only take a frame out of the line: the
\* consumer skips its frame, or the sender gives its frame up.
LEMMA LineKept ==
  ASSUME Inv, LineInv, UNCHANGED <<captureQueue, tcpQueue, wire>>,
         pstats'.captured = pstats.captured,
         pc'["tcp"] \in {"send", "sending"} => pc["tcp"] \in {"send", "sending"},
         pc'["consumer"] \in {"process", "enqueue"} =>
           pc["consumer"] \in {"process", "enqueue"},
         pc'["consumer"] = "enqueue" => pc["consumer"] = "enqueue" \/ Usable(frame)
  PROVE  LineInv'
  <1>1. /\ UNCHANGED <<ring, frame, tcp_ring, tcp_frame, wire>>
        /\ Sending' = Sending \/ Sending' = <<>>
        /\ Held' = Held \/ Held' = <<>>
    BY DEF captureQueue, tcpQueue, Sending, Held
  <1>2. InLine(wire, Sending, tcp_ring, Held, ring, pstats.captured)
    BY DEF LineInv
  <1>3. /\ InLine(wire, <<>>, tcp_ring, Held, ring, pstats.captured)
        /\ InLine(wire, Sending, tcp_ring, <<>>, ring, pstats.captured)
    BY <1>2, LineTypes, LineMoves
  <1>4. InLine(wire, <<>>, tcp_ring, <<>>, ring, pstats.captured)
    <2>1. <<>> \in Seq(Frames)
      OBVIOUS
    <2> QED
      BY <1>3, <2>1, LineTypes, LineMoves
  <1>5. InLine(wire, Sending', tcp_ring, Held', ring, pstats.captured)
    BY <1>1, <1>2, <1>3, <1>4, Zenon
  <1>6. Usable(Sending)'
    <2>1. Usable(Sending) /\ Usable(<<>>)
      BY NoFrames DEF LineInv
    <2> QED
      BY <1>1, <2>1 DEF Usable
  <1> QED
    BY <1>1, <1>5, <1>6 DEF LineInv, Usable

\* A step of the producer that captures nothing touches no queue.
LEMMA ProducerElsewhere ==
  ASSUME PcTypeOK, ProducerStep, ~ \E defects \in Captures : CaptureFrame(defects)
  PROVE  /\ UNCHANGED <<captureQueue, tcpQueue>>
         /\ AtMostWoken("consumer") /\ AtMostWoken("tcp")
  <1> USE DEF Goto, GotoAndNotify, PcTypeOK, Threads, AtMostWoken
  <1>1. CASE ProducerLoop
    BY <1>1 DEF ProducerLoop
  <1>2. CASE \E kind \in ErrorKinds : CaptureError(kind)
    BY <1>2 DEF CaptureError
  <1>3. CASE CaptureThrows
    BY <1>3 DEF CaptureThrows
  <1>4. CASE RebuildAttempt
    BY <1>4 DEF RebuildAttempt
  <1>5. CASE RebuildDelay
    BY <1>5 DEF RebuildDelay
  <1>6. CASE ReinitSucceeds
    BY <1>6 DEF ReinitSucceeds
  <1>7. CASE ReinitFails
    BY <1>7 DEF ReinitFails
  <1>8. CASE RebuildAbandoned
    BY <1>8 DEF RebuildAbandoned
  <1>9. CASE ProducerFail
    BY <1>9 DEF ProducerFail
  <1>10. CASE ProducerFinish
    BY <1>10 DEF ProducerFinish
  <1> QED
    BY <1>1, <1>2, <1>3, <1>4, <1>5, <1>6, <1>7, <1>8, <1>9, <1>10 DEF ProducerStep

\* A captured frame is the newest of the line; a full ring drops its oldest.
LEMMA LineCapture ==
  ASSUME Inv, Inv', LineInv, OthersIdle, NEW defects \in Captures,
         CaptureFrame(defects)
  PROVE  LineInv'
  <1> DEFINE f == [id |-> pstats.captured + 1, defects |-> defects]
             n == pstats.captured
  <1>1. /\ pc["producer"] = "capture"
        /\ ring' = Ring!Pushed(ring, f) /\ frame' = frame
        /\ capture_dropped' = IF Len(ring) = RingCapacity THEN capture_dropped + 1
                                                          ELSE capture_dropped
        /\ UNCHANGED <<tcp_ring, tcp_frame, wire, cstats>>
    BY DEF CaptureFrame, At, Ring!Push, OthersIdle, tcpVars, tcpQueue
  <1>2. n \in Nat /\ n < FrameCount /\ FrameCount \in Nat
    BY <1>1, LineTypes, PipelineAssumption DEF Inv, IInv, ProducerShutdown
  <1>3. f \in Frames /\ f.id = n + 1
    BY <1>2 DEF Frames
  <1> HIDE DEF f
  <1>4. PcTypeOK
    BY DEF Inv, IInv, TypeOK, PcTypeOK
  <1>5. AtMostWoken("consumer") /\ AtMostWoken("tcp")
    BY <1>4 DEF CaptureFrame, GotoAndNotify, PcTypeOK, Threads, AtMostWoken
  <1>6. Sending' = Sending /\ Held' = Held
    BY <1>1, <1>5 DEF AtMostWoken, Sending, Held
  <1>7. pstats'.captured = n + 1
    <2>1. Len(ring') = IF Len(ring) = RingCapacity THEN Len(ring) ELSE Len(ring) + 1
      BY <1>1, <1>3, LineTypes, PushIs
    <2>2. n = cstats.consumed + capture_dropped + Len(ring)
      BY DEF Inv, IInv, FramesAccounted
    <2>3. pstats'.captured = cstats.consumed + capture_dropped' + Len(ring')
      BY <1>1 DEF Inv, IInv, FramesAccounted
    <2>4. cstats.consumed \in Nat /\ capture_dropped \in Nat /\ Len(ring) \in Nat
      BY Numbers DEF Inv, IInv
    <2> QED
      BY <1>1, <2>1, <2>2, <2>3, <2>4
  <1>8. InLine(wire, Sending, tcp_ring, Held, ring, n)
    BY DEF LineInv
  <1>9. InLine(wire, Sending, tcp_ring, Held, ring', n + 1)
    <2>1. CASE Len(ring) = RingCapacity
      <3>1. ring # <<>>
        BY <2>1, PipelineAssumption
      <3>2. InLine(wire, Sending, tcp_ring, Held, Tail(ring), n)
        BY <1>8, <3>1, LineTypes, LineMoves
      <3>3. Tail(ring) \in Seq(Frames)
        BY <3>1, LineTypes, PopIs
      <3>4. InLine(wire, Sending, tcp_ring, Held, Append(Tail(ring), f), n + 1)
        BY <1>3, <3>2, <3>3, LineTypes, LineMoves
      <3> QED
        BY <1>1, <2>1, <3>4 DEF Ring!Pushed
    <2>2. CASE Len(ring) # RingCapacity
      <3>1. InLine(wire, Sending, tcp_ring, Held, Append(ring, f), n + 1)
        BY <1>3, <1>8, LineTypes, LineMoves
      <3> QED
        BY <1>1, <2>2, <3>1 DEF Ring!Pushed
    <2> QED
      BY <2>1, <2>2
  <1>10. /\ pc'["consumer"] = "enqueue" => pc["consumer"] = "enqueue"
         /\ pc'["consumer"] \in {"process", "enqueue"} =>
              pc["consumer"] \in {"process", "enqueue"}
    BY <1>5 DEF AtMostWoken
  <1> QED
    BY <1>1, <1>6, <1>7, <1>9, <1>10 DEF LineInv, Usable

\* Steps of the producer.
LEMMA LineProducer ==
  ASSUME Inv, Inv', LineInv, Producer
  PROVE  LineInv'
  <1>1. ProducerStep /\ OthersIdle
    BY DEF Producer, OthersIdle
  <1>2. CASE \E defects \in Captures : CaptureFrame(defects)
    BY <1>1, <1>2, LineCapture
  <1>3. CASE ~ \E defects \in Captures : CaptureFrame(defects)
    <2>1. PcTypeOK
      BY DEF Inv, IInv, TypeOK, PcTypeOK
    <2>2. /\ UNCHANGED <<captureQueue, tcpQueue>>
          /\ AtMostWoken("consumer") /\ AtMostWoken("tcp")
      BY <1>1, <1>3, <2>1, ProducerElsewhere
    <2>3. pstats'.captured = pstats.captured
      BY <1>1, <2>2 DEF Inv, IInv, FramesAccounted, OthersIdle, captureQueue
    <2>4. wire' = wire
      BY <1>1 DEF OthersIdle, tcpVars
    <2> QED
      BY <2>2, <2>3, <2>4, LineKept DEF AtMostWoken
  <1> QED
    BY <1>2, <1>3

\* The consumer takes the oldest frame of the capture ring.
LEMMA LineConsumerPop ==
  ASSUME Inv, LineInv, ConsumerIdle, ConsumerPop
  PROVE  LineInv'
  <1>1. /\ pc["consumer"] = "pop" /\ Held = <<>>
        /\ UNCHANGED <<tcp_ring, tcp_frame, wire, pstats>>
    BY DEF ConsumerPop, ConsumerAt, Held, ConsumerIdle, producerVars, tcpVars, tcpQueue
  <1>2. PcTypeOK
    BY DEF Inv, IInv, TypeOK, PcTypeOK
  <1>3. pc'["tcp"] = pc["tcp"]
    BY <1>2 DEF ConsumerPop, Goto, GotoAndNotify, PcTypeOK, Threads
  <1>4. Sending' = Sending
    BY <1>1, <1>3 DEF Sending
  <1>5. InLine(wire, Sending, tcp_ring, <<>>, ring, pstats.captured)
    BY <1>1 DEF LineInv
  <1>6. CASE ring = <<>>
    <2>1. ring' = ring /\ pc'["consumer"] = "enterWait"
      BY <1>2, <1>6 DEF ConsumerPop, Ring!TryPopOldest, Goto, GotoAndNotify, PcTypeOK, Threads
    <2>2. Held' = <<>>
      BY <2>1 DEF Held
    <2> QED
      BY <1>1, <1>4, <1>5, <2>1, <2>2 DEF LineInv, Usable
  <1>7. CASE ring # <<>>
    <2>1. ring' = Tail(ring) /\ frame' = <<Head(ring)>> /\ pc'["consumer"] = "process"
      BY <1>2, <1>7 DEF ConsumerPop, Ring!TryPopOldest, Goto, GotoAndNotify, PcTypeOK, Threads
    <2>2. Held' = <<Head(ring)>> /\ Len(frame') = 1
      BY <2>1 DEF Held
    <2>3. <<>> \in Seq(Frames)
      OBVIOUS
    <2>4. InLine(wire, Sending, tcp_ring, <<Head(ring)>>, Tail(ring), pstats.captured)
      BY <1>5, <1>7, <2>3, LineTypes, LineMoves
    <2> QED
      BY <1>1, <1>4, <2>1, <2>2, <2>4 DEF LineInv, Usable
  <1> QED
    BY <1>6, <1>7

\* The consumer queues its frame behind those that wait to be sent.
LEMMA LineEnqueue ==
  ASSUME Inv, LineInv, ConsumerIdle, ConsumerEnqueue
  PROVE  LineInv'
  <1> DEFINE f == frame[1]
  <1>1. /\ pc["consumer"] = "enqueue" /\ tcp_ring' = TcpRing!Pushed(tcp_ring, f)
        /\ UNCHANGED <<ring, frame, tcp_frame, wire, pstats>>
    BY DEF ConsumerEnqueue, ConsumerAt, TcpRing!Push, ConsumerIdle, producerVars, tcpVars,
           captureQueue
  <1>2. PcTypeOK
    BY DEF Inv, IInv, TypeOK, PcTypeOK
  <1>3. pc'["consumer"] = "loop" /\ AtMostWoken("tcp")
    BY <1>2, ConsumerMoves DEF ConsumerEnqueue, ConsumerLabels
  <1>4. Sending' = Sending /\ Held' = <<>>
    BY <1>1, <1>3 DEF Sending, Held, AtMostWoken
  <1>5. frame = <<f>> /\ f \in Frames /\ Held = <<f>> /\ Usable(<<f>>)
    <2>1. frame \in Seq(Frames) /\ Len(frame) = 1 /\ Usable(frame)
      BY <1>1, LineTypes DEF LineInv
    <2>2. frame = <<f>> /\ f \in Frames
      BY <2>1
    <2> QED
      BY <1>1, <2>1, <2>2 DEF Held
  <1> HIDE DEF f
  <1>6. InLine(wire, Sending, tcp_ring, <<f>>, ring, pstats.captured)
    BY <1>5 DEF LineInv
  <1>7. <<f>> \in Seq(Frames)
    BY <1>5
  <1>8. /\ InLine(wire, Sending, tcp_ring', <<>>, ring, pstats.captured)
        /\ Usable(tcp_ring')
    <2>1. Usable(tcp_ring)
      BY DEF LineInv
    <2>2. CASE Len(tcp_ring) = TcpCapacity
      <3>1. tcp_ring # <<>>
        BY <2>2, PipelineAssumption
      <3>2. Tail(tcp_ring) \in Seq(Frames)
        BY <3>1, LineTypes, PopIs
      <3>3. InLine(wire, Sending, Tail(tcp_ring), <<f>>, ring, pstats.captured)
        BY <1>6, <1>7, <3>1, LineTypes, LineMoves
      <3>4. InLine(wire, Sending, Append(Tail(tcp_ring), f), <<>>, ring, pstats.captured)
        BY <1>5, <1>7, <3>2, <3>3, LineTypes, LineMoves
      <3>5. Usable(Tail(tcp_ring))
        BY <1>7, <2>1, <3>1, LineTypes, SplitQueue
      <3>6. Usable(Append(Tail(tcp_ring), f))
        BY <1>5, <1>7, <3>2, <3>5, LineTypes, ExtendQueue
      <3> QED
        BY <1>1, <2>2, <3>4, <3>6 DEF TcpRing!Pushed
    <2>3. CASE Len(tcp_ring) # TcpCapacity
      <3>1. InLine(wire, Sending, Append(tcp_ring, f), <<>>, ring, pstats.captured)
        BY <1>5, <1>6, <1>7, LineTypes, LineMoves
      <3>2. Usable(Append(tcp_ring, f))
        BY <1>5, <1>7, <2>1, LineTypes, ExtendQueue
      <3> QED
        BY <1>1, <2>3, <3>1, <3>2 DEF TcpRing!Pushed
    <2> QED
      BY <2>2, <2>3
  <1>9. Usable(tcp_ring)'
    BY <1>8 DEF Usable
  <1> QED
    BY <1>1, <1>3, <1>4, <1>8, <1>9 DEF LineInv, Usable

\* Steps of the consumer: only usable frames are passed on.
LEMMA LineConsumer ==
  ASSUME Inv, LineInv, Consumer
  PROVE  LineInv'
  <1>1. ConsumerStep /\ ConsumerIdle
    BY DEF Consumer, ConsumerIdle
  <1>2. PcTypeOK /\ pstats' = pstats /\ wire' = wire
    BY <1>1 DEF Inv, IInv, TypeOK, PcTypeOK, ConsumerIdle, producerVars, tcpVars
  <1>3. CASE ConsumerPop
    BY <1>1, <1>3, LineConsumerPop
  <1>4. CASE ConsumerEnqueue
    BY <1>1, <1>4, LineEnqueue
  <1>5. CASE ConsumerSave
    <2>1. /\ pc["consumer"] = "process" /\ is_frame_usable(frame[1])
          /\ UNCHANGED <<captureQueue, tcpQueue>>
      BY <1>5 DEF ConsumerSave, ConsumerAt
    <2>2. pc'["tcp"] = pc["tcp"]
      BY <1>2, <1>5 DEF ConsumerSave, Goto, GotoAndNotify, PcTypeOK, Threads
    <2>3. Usable(frame)
      <3>1. Len(frame) = 1
        BY <2>1 DEF LineInv
      <3> QED
        BY <2>1, <3>1 DEF Usable
    <2> QED
      BY <1>2, <2>1, <2>2, <2>3, LineKept
  <1>6. CASE /\ UNCHANGED <<captureQueue, tcpQueue>> /\ AtMostWoken("tcp")
             /\ pc'["consumer"] \notin {"process", "enqueue"}
    BY <1>2, <1>6, LineKept DEF AtMostWoken
  <1>7. CASE \/ ConsumerLoop \/ ConsumerCheckDone \/ ConsumerCheckEmpty
             \/ ConsumerEnterWait \/ ConsumerWaitTimeout \/ ConsumerSkipInvalid
             \/ ConsumerSaveThrows \/ ConsumerFinish \/ ConsumerFail \/ ConsumerFailStop
    <2> USE DEF Goto, GotoAndNotify, PcTypeOK, Threads, AtMostWoken
    <2>1. CASE ConsumerLoop \/ ConsumerCheckDone \/ ConsumerCheckEmpty
      BY <1>2, <1>6, <2>1 DEF ConsumerLoop, ConsumerCheckDone, ConsumerCheckEmpty
    <2>2. CASE ConsumerEnterWait \/ ConsumerWaitTimeout \/ ConsumerSkipInvalid
      BY <1>2, <1>6, <2>2 DEF ConsumerEnterWait, ConsumerWaitTimeout, ConsumerSkipInvalid
    <2>3. CASE ConsumerSaveThrows \/ ConsumerFinish
      BY <1>2, <1>6, <2>3 DEF ConsumerSaveThrows, ConsumerFinish
    <2>4. CASE ConsumerFail \/ ConsumerFailStop
      BY <1>2, <1>6, <2>4 DEF ConsumerFail, ConsumerFailStop
    <2> QED
      BY <1>7, <2>1, <2>2, <2>3, <2>4
  <1> QED
    BY <1>1, <1>3, <1>4, <1>5, <1>7 DEF ConsumerStep

\* The sender takes the oldest frame of its ring.
LEMMA LineTcpPop ==
  ASSUME Inv, LineInv, TcpIdle, TcpPop
  PROVE  LineInv'
  <1>1. /\ pc["tcp"] = "pop" /\ Sending = <<>>
        /\ UNCHANGED <<ring, frame, wire, pstats>>
    BY DEF TcpPop, TcpAt, Sending, TcpIdle, producerVars, tcpVars, captureQueue
  <1>2. PcTypeOK
    BY DEF Inv, IInv, TypeOK, PcTypeOK
  <1>3. pc'["consumer"] = pc["consumer"]
    BY <1>2 DEF TcpPop, Goto, GotoAndNotify, PcTypeOK, Threads
  <1>4. Held' = Held
    BY <1>1, <1>3 DEF Held
  <1>5. InLine(wire, <<>>, tcp_ring, Held, ring, pstats.captured) /\ Usable(tcp_ring)
    BY <1>1 DEF LineInv
  <1>6. CASE tcp_ring = <<>>
    <2>1. tcp_ring' = tcp_ring /\ pc'["tcp"] = "enterWait"
      BY <1>2, <1>6 DEF TcpPop, TcpRing!TryPopOldest, Goto, GotoAndNotify, PcTypeOK, Threads
    <2>2. Sending' = <<>>
      BY <2>1 DEF Sending
    <2> QED
      BY <1>1, <1>3, <1>4, <1>5, <2>1, <2>2 DEF LineInv, Usable
  <1>7. CASE tcp_ring # <<>>
    <2>1. tcp_ring' = Tail(tcp_ring) /\ tcp_frame' = <<Head(tcp_ring)>> /\ pc'["tcp"] = "send"
      BY <1>2, <1>7 DEF TcpPop, TcpRing!TryPopOldest, Goto, GotoAndNotify, PcTypeOK, Threads
    <2>2. Sending' = <<Head(tcp_ring)>>
      BY <2>1 DEF Sending
    <2>3. <<>> \in Seq(Frames)
      OBVIOUS
    <2>4. InLine(wire, <<Head(tcp_ring)>>, Tail(tcp_ring), Held, ring, pstats.captured)
      BY <1>5, <1>7, <2>3, LineTypes, LineMoves
    <2>5. Usable(<<Head(tcp_ring)>>) /\ Usable(Tail(tcp_ring))
      BY <1>5, <1>7, LineTypes, SplitQueue
    <2>6. Usable(Sending)' /\ Usable(tcp_ring)'
      BY <2>1, <2>2, <2>5 DEF Usable
    <2> QED
      BY <1>1, <1>3, <1>4, <2>1, <2>2, <2>4, <2>6 DEF LineInv, Usable
  <1> QED
    BY <1>6, <1>7

\* A frame that was sent is the newest on the wire.
LEMMA LineSendOk ==
  ASSUME Inv, LineInv, TcpIdle, TcpSendOk
  PROVE  LineInv'
  <1>1. /\ pc["tcp"] = "sending" /\ Sending = tcp_frame /\ wire' = wire \o tcp_frame
        /\ UNCHANGED <<ring, frame, tcp_ring, tcp_frame, pstats>>
    BY DEF TcpSendOk, TcpAt, Sending, TcpIdle, producerVars, captureQueue, tcpQueue
  <1>2. PcTypeOK
    BY DEF Inv, IInv, TypeOK, PcTypeOK
  <1>3. pc'["consumer"] = pc["consumer"] /\ pc'["tcp"] = "loop"
    BY <1>2 DEF TcpSendOk, Goto, GotoAndNotify, PcTypeOK, Threads
  <1>4. Held' = Held /\ Sending' = <<>>
    BY <1>1, <1>3 DEF Held, Sending
  <1>5. PICK f \in Frames : tcp_frame = <<f>>
    <2>1. tcp_frame \in Seq(Frames) /\ Len(tcp_frame) = 1
      BY <1>1, LineTypes DEF Inv, IInv, TcpShutdown
    <2> QED
      BY <2>1
  <1>6. wire' = Append(wire, f)
    <2>1. wire \o <<f>> = Append(wire, f)
      BY LineTypes
    <2> QED
      BY <1>1, <1>5, <2>1
  <1>7. InLine(wire, <<f>>, tcp_ring, Held, ring, pstats.captured) /\ Usable(<<f>>)
        /\ Usable(wire)
    BY <1>1, <1>5 DEF LineInv
  <1>8. <<f>> \in Seq(Frames)
    OBVIOUS
  <1>9. InLine(Append(wire, f), <<>>, tcp_ring, Held, ring, pstats.captured)
    BY <1>7, <1>8, LineTypes, LineMoves
  <1>10. Usable(Append(wire, f)) /\ Usable(<<>>)
    BY <1>7, <1>8, LineTypes, ExtendQueue, NoFrames
  <1>11. Usable(wire)' /\ Usable(Sending)'
    BY <1>4, <1>6, <1>10 DEF Usable
  <1> QED
    BY <1>1, <1>3, <1>4, <1>6, <1>9, <1>11 DEF LineInv, Usable

\* Steps of the sender.
LEMMA LineTcp ==
  ASSUME Inv, LineInv, TcpSender
  PROVE  LineInv'
  <1>1. TcpStep /\ TcpIdle
    BY DEF TcpSender, TcpIdle
  <1>2. PcTypeOK /\ pstats' = pstats
    BY <1>1 DEF Inv, IInv, TypeOK, PcTypeOK, TcpIdle, producerVars
  <1>3. CASE TcpPop
    BY <1>1, <1>3, LineTcpPop
  <1>4. CASE TcpSendOk
    BY <1>1, <1>4, LineSendOk
  <1>5. CASE /\ UNCHANGED <<captureQueue, tcpQueue, wire>> /\ AtMostWoken("consumer")
             /\ pc'["tcp"] \in {"send", "sending"} => pc["tcp"] \in {"send", "sending"}
    BY <1>2, <1>5, LineKept DEF AtMostWoken
  <1>6. CASE \/ TcpLoop \/ TcpCheckEmpty \/ TcpEnterWait \/ TcpWaitTimeout
             \/ TcpSendStart \/ TcpSetStop \/ TcpSendCancelled \/ TcpEscape \/ TcpClose
             \/ \E kind \in SendFaults : TcpSendFails(kind)
    <2> USE DEF Goto, GotoAndNotify, PcTypeOK, Threads, AtMostWoken, tcpVars
    <2>1. CASE TcpLoop \/ TcpCheckEmpty \/ TcpEnterWait
      BY <1>2, <1>5, <2>1 DEF TcpLoop, TcpCheckEmpty, TcpEnterWait
    <2>2. CASE TcpWaitTimeout \/ TcpSendStart \/ TcpSetStop
      BY <1>2, <1>5, <2>2 DEF TcpWaitTimeout, TcpSendStart, TcpSetStop, TcpAt
    <2>3. CASE TcpSendCancelled \/ TcpEscape \/ TcpClose
      BY <1>2, <1>5, <2>3 DEF TcpSendCancelled, TcpEscape, TcpClose
    <2>4. CASE \E kind \in SendFaults : TcpSendFails(kind)
      BY <1>2, <1>5, <2>4 DEF TcpSendFails
    <2> QED
      BY <1>6, <2>1, <2>2, <2>3, <2>4
  <1> QED
    BY <1>1, <1>3, <1>4, <1>6 DEF TcpStep

\* Steps of the main thread.
LEMMA LineMain ==
  ASSUME Inv, LineInv, MainStep \/ UNCHANGED vars
  PROVE  LineInv'
  <1>1. UNCHANGED <<captureQueue, tcpQueue, wire, pstats>>
    BY DEF MainStep, ConnectSucceeds, ConnectFails, ReportConnectFailure, StartThreads,
           JoinThreads, Report, Others, tcpVars, producerVars, vars
  <1>2. CASE pc' = pc
    BY <1>1, <1>2, LineKept
  <1>3. CASE StartThreads
    <2>1. pc'["consumer"] \in {"loop", "unborn"} /\ pc'["tcp"] \in {"loop", "unborn"}
      BY <1>3 DEF StartThreads, Threads
    <2> QED
      BY <1>1, <2>1, LineKept
  <1> QED
    BY <1>2, <1>3 DEF MainStep, ConnectSucceeds, ConnectFails, ReportConnectFailure,
                      JoinThreads, Report, vars

\* For every number of frames, every capacity of the two rings and every fault:
\* what reaches the socket is usable, in order of capture and without repeats.
THEOREM WireAlwaysInOrder == Spec => []WireInOrder
  <1>1. Init => LineInv
    <2> SUFFICES ASSUME Init PROVE LineInv
      OBVIOUS
    <2>1. /\ ring = <<>> /\ tcp_ring = <<>> /\ wire = <<>>
          /\ pc["consumer"] = "unborn" /\ pc["tcp"] = "unborn"
      BY DEF Init, TcpInit, Threads
    <2>2. Sending = <<>> /\ Held = <<>>
      BY <2>1 DEF Sending, Held
    <2> QED
      BY <2>1, <2>2, NoFrames DEF LineInv, InLine
  <1>2. Inv /\ Inv' /\ LineInv /\ [Next]_vars => LineInv'
    BY LineProducer, LineConsumer, LineTcp, LineMain DEF Next, Ended
  <1>3. LineInv => WireInOrder
    BY DEF LineInv, InLine, WireInOrder, Increasing, Usable
  <1> QED
    BY <1>1, <1>2, <1>3, PipelineInvariant, PTL DEF Spec
=============================================================================
