--------------------------- MODULE TcpSenderThread ---------------------------
(***************************************************************************)
(* The TCP sender thread of run_pipeline (src/main.cpp): take the oldest    *)
(* frame of the TCP ring and send it whole under one deadline.  A timeout   *)
(* or error stops the pipeline; a cancellation only ends this thread,       *)
(* because the stop it reacts to was requested by somebody else.            *)
(***************************************************************************)
EXTENDS PipelineState

CONSTANT SendFaults      \* which of SendTimeout, an error, an escaping exception occur

ASSUME SendFaultsAssumption == SendFaults \subseteq {"send_timeout", "send_failed", "escape"}

VARIABLES tstats,        \* the statistics this thread writes
          wire           \* frames completely handed to the socket, in order

tcpVars == <<tstats, wire>>

TcpLabels == {"unborn", "loop", "checkEmpty", "pop", "enterWait", "wait",
              "send", "sending", "setStop", "close", "exited"}

TcpCounters == {"sent", "errors", "timeouts", "cancellations"}

TcpInit ==
  /\ tstats = [counter \in TcpCounters |-> 0]
  /\ wire = <<>>

TcpAt(l) == pc["tcp"] = l

\* while (!consumer_done || !tcp_ring.empty()): two reads, in this order.
TcpLoop ==
  /\ TcpAt("loop")
  /\ Goto("tcp", IF consumer_done THEN "checkEmpty" ELSE "pop")
  /\ UNCHANGED <<tcpVars, captureQueue, tcpQueue, doneFlags, stop_requested, errors, last_error>>

TcpCheckEmpty ==
  /\ TcpAt("checkEmpty")
  /\ Goto("tcp", IF tcp_ring = <<>> THEN "close" ELSE "pop")
  /\ UNCHANGED <<tcpVars, captureQueue, tcpQueue, doneFlags, stop_requested, errors, last_error>>

TcpPop ==
  /\ TcpAt("pop")
  /\ TcpRing!TryPopOldest
  /\ Goto("tcp", IF tcp_ring = <<>> THEN "enterWait" ELSE "send")
  /\ UNCHANGED <<tcpVars, captureQueue, doneFlags, stop_requested, errors, last_error>>

\* tcp_cv.wait_for(lock, 100ms)
TcpEnterWait ==
  /\ TcpAt("enterWait")
  /\ Goto("tcp", "wait")
  /\ UNCHANGED <<tcpVars, captureQueue, tcpQueue, doneFlags, stop_requested, errors, last_error>>

TcpWaitTimeout ==
  /\ TcpAt("wait")
  /\ Goto("tcp", "loop")
  /\ UNCHANGED <<tcpVars, captureQueue, tcpQueue, doneFlags, stop_requested, errors, last_error>>

\* send_all_until looks at stop_requested before its first send().
TcpSendStart ==
  /\ TcpAt("send")
  /\ ~stop_requested
  /\ Goto("tcp", "sending")
  /\ UNCHANGED <<tcpVars, captureQueue, tcpQueue, doneFlags, stop_requested, errors, last_error>>

\* Mutant: the frame is counted as sent although it stays first in line.
TcpSendTwice ==
  /\ TcpAt("sending")
  /\ wire' = wire \o tcp_frame \o tcp_frame
  /\ tstats' = Counted(tstats, {"sent"})
  /\ Goto("tcp", "loop")
  /\ UNCHANGED <<captureQueue, tcpQueue, doneFlags, stop_requested, errors, last_error>>

\* Header and payload were handed to the socket before the deadline.
TcpSendOk ==
  /\ TcpAt("sending")
  /\ wire' = wire \o tcp_frame
  /\ tstats' = Counted(tstats, {"sent"})
  /\ Goto("tcp", "loop")
  /\ UNCHANGED <<captureQueue, tcpQueue, doneFlags, stop_requested, errors, last_error>>

\* catch (const tcp_io::SendTimeout&) and catch (const std::exception&)
TcpSendFails(kind) ==
  /\ TcpAt("sending")
  /\ kind \in {"send_timeout", "send_failed"}
  /\ tstats' = Counted(tstats, {"errors"} \cup {c \in {"timeouts"} : kind = "send_timeout"})
  /\ last_error' = kind
  /\ Goto("tcp", "setStop")
  /\ UNCHANGED <<wire, captureQueue, tcpQueue, doneFlags, stop_requested, errors>>

\* stop_requested = true; cv.notify_all(); tcp_cv.notify_all(); break
TcpSetStop ==
  /\ TcpAt("setStop")
  /\ stop_requested' = TRUE
  /\ GotoAndNotify("tcp", "close", {"consumer"})
  /\ UNCHANGED <<tcpVars, captureQueue, tcpQueue, doneFlags, errors, last_error>>

\* catch (const tcp_io::SendCancelled&): before or in the middle of the frame.
TcpSendCancelled ==
  /\ TcpAt("send") \/ TcpAt("sending")
  /\ stop_requested
  /\ tstats' = Counted(tstats, {"cancellations"})
  /\ last_error' = "send_cancelled"
  /\ Goto("tcp", "close")
  /\ UNCHANGED <<wire, captureQueue, tcpQueue, doneFlags, stop_requested, errors>>

\* An exception escapes one of the three handlers, after its counters and
\* before last_error is set (building the error text may throw): catch (...)
\* closes the socket and stores tcp_thread_error.
TcpEscape ==
  /\ "escape" \in SendFaults
  /\ \E caught \in {{"errors", "timeouts"}, {"errors"}, {"cancellations"}} :
       /\ \/ TcpAt("sending") /\ (caught = {"cancellations"} => stop_requested)
          \/ TcpAt("send") /\ caught = {"cancellations"} /\ stop_requested
       /\ tstats' = Counted(tstats, caught)
  /\ errors' = errors \cup {"tcp"}
  /\ stop_requested' = TRUE
  /\ GotoAndNotify("tcp", "exited", {"consumer"})
  /\ UNCHANGED <<wire, captureQueue, tcpQueue, doneFlags, last_error>>

\* close_socket_fd(tcp_fd)
TcpClose ==
  /\ TcpAt("close")
  /\ Goto("tcp", "exited")
  /\ UNCHANGED <<tcpVars, captureQueue, tcpQueue, doneFlags, stop_requested, errors, last_error>>

TcpStep ==
  \/ TcpLoop \/ TcpCheckEmpty \/ TcpPop \/ TcpEnterWait \/ TcpWaitTimeout
  \/ TcpSendStart \/ TcpSendOk \/ TcpSetStop \/ TcpSendCancelled \/ TcpEscape \/ TcpClose
  \/ \E kind \in SendFaults : TcpSendFails(kind)
=============================================================================
