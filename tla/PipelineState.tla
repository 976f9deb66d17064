---------------------------- MODULE PipelineState ----------------------------
(***************************************************************************)
(* The state run_pipeline (src/main.cpp) shares between its threads: two    *)
(* drop-oldest rings, three atomic flags, the stored exceptions, the last   *)
(* error text and the condition variables.  The producer, consumer and TCP  *)
(* sender modules extend this one; Pipeline composes them.                  *)
(*                                                                          *)
(* Each step of a thread performs at most one access to state that another  *)
(* thread reads or writes.  Statistics counters have one writer each and    *)
(* are read only after the joins, so they are updated in the step they      *)
(* accompany.                                                               *)
(***************************************************************************)
EXTENDS Naturals, Sequences

CONSTANTS FrameCount,    \* frame_count
          RingCapacity,  \* ring_capacity
          TcpCapacity,   \* tcp_queue_capacity
          TcpEnabled,    \* tcp_host has a value and tcp_port > 0
          Captures       \* the sets of defects captured frames may have

\* The defects is_frame_usable looks for: the V4L2 error flag, no data, no
\* dimensions or format, and a YUYV frame shorter than width * height * 2.
Defects == {"buffer_error", "empty", "unknown_format", "incomplete"}

ASSUME PipelineAssumption ==
  /\ FrameCount \in Nat \ {0}
  /\ RingCapacity \in Nat \ {0}
  /\ TcpCapacity \in Nat \ {0}
  /\ TcpEnabled \in BOOLEAN
  /\ Captures \subseteq SUBSET Defects

VARIABLES pc,                                \* where each thread is
          ring, capture_dropped, frame,      \* capture ring; consumer's local frame
          tcp_ring, tcp_dropped, tcp_frame,  \* TCP ring; sender's local frame
          producer_done, consumer_done, stop_requested,
          errors,                            \* threads whose exception_ptr is set
          last_error                         \* stats.last_error(), by its origin

captureQueue == <<ring, capture_dropped, frame>>
tcpQueue     == <<tcp_ring, tcp_dropped, tcp_frame>>
doneFlags    == <<producer_done, consumer_done>>

Threads == {"producer", "consumer", "tcp"}

\* id is the order of capture; the driver's sequence number restarts when the
\* stream is rebuilt and identifies nothing.
Frames == [id: 1 .. FrameCount, defects: Captures]

LastErrors == {"", "capture", "recovery", "connect",
               "send_timeout", "send_cancelled", "send_failed"}

Ring == INSTANCE DropOldestQueue WITH
          Capacity <- RingCapacity, Items <- Frames,
          queue <- ring, dropped <- capture_dropped, out <- frame

TcpRing == INSTANCE DropOldestQueue WITH
             Capacity <- TcpCapacity, Items <- Frames,
             queue <- tcp_ring, dropped <- tcp_dropped, out <- tcp_frame

QueuesTypeOK ==
  /\ ring \in Seq(Frames) /\ Len(ring) <= RingCapacity
  /\ tcp_ring \in Seq(Frames) /\ Len(tcp_ring) <= TcpCapacity
  /\ frame \in Seq(Frames) /\ tcp_frame \in Seq(Frames)
  /\ capture_dropped \in Nat /\ tcp_dropped \in Nat

FlagsTypeOK ==
  /\ producer_done \in BOOLEAN /\ consumer_done \in BOOLEAN /\ stop_requested \in BOOLEAN
  /\ errors \subseteq Threads
  /\ last_error \in LastErrors

is_frame_usable(f) == f.defects = {}

\* The statistics with one more of each counter in names.
Counted(stats, names) ==
  [c \in DOMAIN stats |-> IF c \in names THEN stats[c] + 1 ELSE stats[c]]

\* Thread t goes to label l and notifies the threads in woken.  The notifiers
\* do not hold the condition variable's mutex, so only a thread that is
\* already inside wait_for is woken.
GotoAndNotify(t, l, woken) ==
  pc' = [u \in DOMAIN pc |->
           IF u = t THEN l
           ELSE IF u \in woken /\ pc[u] = "wait" THEN "loop" ELSE pc[u]]

Goto(t, l) == GotoAndNotify(t, l, {})
=============================================================================
