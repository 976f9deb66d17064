---------------------------- MODULE FrameConsumer ----------------------------
(***************************************************************************)
(* The consumer thread of run_pipeline (src/main.cpp): take the oldest      *)
(* frame of the capture ring, skip it if unusable, save it while the save   *)
(* limit allows, and queue it for the TCP sender.                           *)
(***************************************************************************)
EXTENDS PipelineState

CONSTANTS SaveLimit,      \* save_limit if pipeline_save, else 0
          SaveMayFail     \* whether save_frame_to_files may throw

ASSUME ConsumerAssumption == SaveLimit \in Nat /\ SaveMayFail \in BOOLEAN

VARIABLE cstats           \* the statistics this thread writes

ConsumerLabels == {"unborn", "loop", "checkDone", "checkEmpty", "pop", "enterWait", "wait",
                   "process", "enqueue", "fail", "failStop", "finish", "exited"}

ConsumerCounters == {"consumed", "invalid", "saved", "tcp_queued"}

ConsumerInit == cstats = [counter \in ConsumerCounters |-> 0]

ConsumerAt(l) == pc["consumer"] = l

\* while (!stop_requested && (!producer_done || !ring.empty())): three reads,
\* in this order.
ConsumerLoop ==
  /\ ConsumerAt("loop")
  /\ Goto("consumer", IF stop_requested THEN "finish" ELSE "checkDone")
  /\ UNCHANGED <<cstats, captureQueue, tcpQueue, doneFlags, stop_requested, errors, last_error>>

\* Mutant: an empty ring ends the loop although the producer is not done.
ConsumerIgnoresDone ==
  /\ ConsumerAt("checkDone")
  /\ Goto("consumer", "checkEmpty")
  /\ UNCHANGED <<cstats, captureQueue, tcpQueue, doneFlags, stop_requested, errors, last_error>>

ConsumerCheckDone ==
  /\ ConsumerAt("checkDone")
  /\ Goto("consumer", IF producer_done THEN "checkEmpty" ELSE "pop")
  /\ UNCHANGED <<cstats, captureQueue, tcpQueue, doneFlags, stop_requested, errors, last_error>>

ConsumerCheckEmpty ==
  /\ ConsumerAt("checkEmpty")
  /\ Goto("consumer", IF ring = <<>> THEN "finish" ELSE "pop")
  /\ UNCHANGED <<cstats, captureQueue, tcpQueue, doneFlags, stop_requested, errors, last_error>>

\* ring.try_pop_oldest(frame)
ConsumerPop ==
  /\ ConsumerAt("pop")
  /\ Ring!TryPopOldest
  /\ IF ring = <<>>
     THEN Goto("consumer", "enterWait") /\ UNCHANGED cstats
     ELSE /\ Goto("consumer", "process")
          /\ cstats' = Counted(cstats, {"consumed"})
  /\ UNCHANGED <<tcpQueue, doneFlags, stop_requested, errors, last_error>>

\* cv.wait_for(lock, 100ms): a notification that came since the failed pop is
\* lost, the timeout is not.
ConsumerEnterWait ==
  /\ ConsumerAt("enterWait")
  /\ Goto("consumer", "wait")
  /\ UNCHANGED <<cstats, captureQueue, tcpQueue, doneFlags, stop_requested, errors, last_error>>

\* Mutant: the wait has no timeout.
ConsumerNeverTimesOut == FALSE

ConsumerWaitTimeout ==
  /\ ConsumerAt("wait")
  /\ Goto("consumer", "loop")
  /\ UNCHANGED <<cstats, captureQueue, tcpQueue, doneFlags, stop_requested, errors, last_error>>

\* An unusable frame is counted and skipped.
ConsumerSkipInvalid ==
  /\ ConsumerAt("process")
  /\ ~is_frame_usable(frame[1])
  /\ cstats' = Counted(cstats, {"invalid"})
  /\ Goto("consumer", "loop")
  /\ UNCHANGED <<captureQueue, tcpQueue, doneFlags, stop_requested, errors, last_error>>

Saves == cstats.saved < SaveLimit

\* The save counter is taken before the file is written.
ConsumerSave ==
  /\ ConsumerAt("process")
  /\ is_frame_usable(frame[1])
  /\ cstats' = IF Saves THEN Counted(cstats, {"saved"}) ELSE cstats
  /\ Goto("consumer", IF TcpEnabled THEN "enqueue" ELSE "loop")
  /\ UNCHANGED <<captureQueue, tcpQueue, doneFlags, stop_requested, errors, last_error>>

ConsumerSaveThrows ==
  /\ ConsumerAt("process")
  /\ is_frame_usable(frame[1])
  /\ Saves
  /\ SaveMayFail
  /\ cstats' = Counted(cstats, {"saved"})
  /\ Goto("consumer", "fail")
  /\ UNCHANGED <<captureQueue, tcpQueue, doneFlags, stop_requested, errors, last_error>>

\* tcp_ring.push(std::move(frame)); ++tcp_queued; tcp_cv.notify_one()
ConsumerEnqueue ==
  /\ ConsumerAt("enqueue")
  /\ TcpRing!Push(frame[1])
  /\ cstats' = Counted(cstats, {"tcp_queued"})
  /\ GotoAndNotify("consumer", "loop", {"tcp"})
  /\ UNCHANGED <<captureQueue, doneFlags, stop_requested, errors, last_error>>

\* consumer_done = true; tcp_cv.notify_all()
ConsumerFinish ==
  /\ ConsumerAt("finish")
  /\ consumer_done' = TRUE
  /\ GotoAndNotify("consumer", "exited", {"tcp"})
  /\ UNCHANGED <<cstats, captureQueue, tcpQueue, producer_done, stop_requested, errors, last_error>>

\* catch (...): consumer_error, consumer_done = true ...
ConsumerFail ==
  /\ ConsumerAt("fail")
  /\ errors' = errors \cup {"consumer"}
  /\ consumer_done' = TRUE
  /\ Goto("consumer", "failStop")
  /\ UNCHANGED <<cstats, captureQueue, tcpQueue, producer_done, stop_requested, last_error>>

\* ... then stop_requested = true; cv.notify_all(); tcp_cv.notify_all()
ConsumerFailStop ==
  /\ ConsumerAt("failStop")
  /\ stop_requested' = TRUE
  /\ GotoAndNotify("consumer", "exited", {"tcp"})
  /\ UNCHANGED <<cstats, captureQueue, tcpQueue, doneFlags, errors, last_error>>

ConsumerStep ==
  \/ ConsumerLoop \/ ConsumerCheckDone \/ ConsumerCheckEmpty \/ ConsumerPop
  \/ ConsumerEnterWait \/ ConsumerWaitTimeout
  \/ ConsumerSkipInvalid \/ ConsumerSave \/ ConsumerSaveThrows \/ ConsumerEnqueue
  \/ ConsumerFinish \/ ConsumerFail \/ ConsumerFailStop
=============================================================================
