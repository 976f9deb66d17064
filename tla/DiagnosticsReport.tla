------------------------- MODULE DiagnosticsReport -------------------------
(***************************************************************************)
(* publish_diagnostics of tcp_diagnostics_node.cpp: the ROS timer reads the *)
(* counters of the receiver thread one by one while that thread goes on     *)
(* counting.  RosAdapter models the thread itself; here every event of a    *)
(* session is the sequence of the counters it increases (publish_images is  *)
(* on, its default; the texts of last_error and of the state are left out). *)
(***************************************************************************)
EXTENDS Naturals, Sequences

CONSTANTS MaxEvents,   \* bound: events of the receiver thread
          MaxReports   \* bound: reports published

VARIABLES counter,    \* the atomics; "failed" is 1 in connection state "error"
          session,    \* the thread: "listening", "connected" or "stopped"
          updates,    \* counters the current event has still to increase
          events,     \* events so far
          read,       \* values the timer's callback has read, by name
          reports     \* the reports published

diagVars == <<counter, session, updates, events, read, reports>>

Counters == {"received", "samples", "clock_errors", "crc_errors",
             "header_errors", "rejected", "image_errors", "published",
             "accepted", "completed", "disconnects", "failed"}

\* publish_frame: YUYV is published, anything else is an image error.
PublishFrame == {<<"published">>, <<"image_errors">>}

\* Mutant: the frame is counted before its latency sample is taken.
AcceptedCountFirst ==
  {<<"received", timing>> \o image :
     timing \in {"samples", "clock_errors"}, image \in PublishFrame}

\* A frame that passed all checks: the latency sample or the clock error, the
\* frame count, then the image.
Accepted ==
  {<<timing, "received">> \o image :
     timing \in {"samples", "clock_errors"}, image \in PublishFrame}

DiagInit ==
  /\ counter = [c \in Counters |-> 0] /\ session = "listening"
  /\ updates = <<>> /\ events = 0 /\ read = <<>> /\ reports = <<>>

Event(from, to, sequence) ==
  /\ session = from /\ session' = to
  /\ updates = <<>> /\ updates' = sequence
  /\ events < MaxEvents /\ events' = events + 1
  /\ UNCHANGED <<counter, read, reports>>

AcceptSession == Event("listening", "connected", <<"accepted">>)
FrameAccepted == \E u \in Accepted : Event("connected", "connected", u)
CrcMismatch == Event("connected", "connected", <<"crc_errors", "rejected">>)
HeaderInvalid == Event("connected", "listening",
                       <<"header_errors", "rejected", "completed">>)
PeerCloses == Event("connected", "listening", <<"disconnects", "completed">>)
LoopFails == Event("listening", "stopped", <<"failed">>)

\* The receiver thread makes its next update.
Update ==
  /\ updates # <<>> /\ updates' = Tail(updates)
  /\ counter' = [counter EXCEPT ![Head(updates)] = @ + 1]
  /\ UNCHANGED <<session, events, read, reports>>

\* The reads of publish_diagnostics in their order.  rejected_frames_ is read
\* for the level, and again for the value that is shown.
Reads == <<"received", "failed", "samples", "crc_errors", "header_errors",
           "clock_errors", "image_errors", "rejected_for_level", "accepted",
           "completed", "disconnects", "rejected", "published">>

\* A function with one more value.
With(f, name, value) ==
  [c \in DOMAIN f \cup {name} |-> IF c = name THEN value ELSE f[c]]

\* The counter that a value comes from.
Source(name) == IF name = "rejected_for_level" THEN "rejected" ELSE name

\* The callback reads the first value that it has not read yet.
ReadValue ==
  /\ Len(reports) < MaxReports
  /\ \E n \in 1 .. Len(Reads) :
       /\ Reads[n] \notin DOMAIN read
       /\ \A m \in 1 .. n - 1 : Reads[m] \in DOMAIN read
       /\ read' = With(read, Reads[n], counter[Source(Reads[n])])
  /\ UNCHANGED <<counter, session, updates, events, reports>>

Errors == {"crc_errors", "header_errors", "clock_errors", "image_errors"}

\* Mutant: an image error is left out of total_errors.
LevelWithoutImages(v) ==
  IF v.failed > 0 THEN "ERROR"
  ELSE IF \E c \in (Errors \ {"image_errors"}) \cup {"rejected_for_level"} :
            v[c] > 0 THEN "WARN"
  ELSE "OK"

\* State "error": ERROR; any error or rejected frame counted: WARN.
Level(v) ==
  IF v.failed > 0 THEN "ERROR"
  ELSE IF \E c \in Errors \cup {"rejected_for_level"} : v[c] > 0 THEN "WARN"
  ELSE "OK"

PublishReport ==
  /\ \A n \in 1 .. Len(Reads) : Reads[n] \in DOMAIN read
  /\ read' = <<>>
  /\ reports' = Append(reports, With(read, "level", Level(read)))
  /\ UNCHANGED <<counter, session, updates, events>>

DiagNext == \/ AcceptSession \/ FrameAccepted \/ CrcMismatch \/ HeaderInvalid
            \/ PeerCloses \/ LoopFails \/ Update \/ ReadValue \/ PublishReport

-----------------------------------------------------------------------------
\* A report is no snapshot, but the orders of writing and reading keep its
\* numbers within one frame of each other: no frame without its latency
\* sample or clock error, at most one without its image, at most one rejected
\* frame missing.
ReportConsistent ==
  \A i \in DOMAIN reports :
    LET v == reports[i]
    IN  /\ v.received <= v.samples + v.clock_errors
        /\ v.received <= v.published + v.image_errors + 1
        /\ v.crc_errors + v.header_errors <= v.rejected + 1

\* An error that a report shows, in any of its numbers, is in the level of
\* the next report at the latest (and of all after it).
ErrorsReachTheLevel ==
  \A i, j \in DOMAIN reports :
    LET shown == \E c \in Errors \cup {"rejected", "failed"} : reports[i][c] > 0
    IN  i < j /\ shown => reports[j].level # "OK"
=============================================================================
