------------------------------ MODULE TcpSend ------------------------------
(***************************************************************************)
(* src/tcp_send.cpp and send_frame_over_tcp of src/main.cpp: one frame sent *)
(* as a wire header and a payload under a single deadline, on a socket that *)
(* takes any number of bytes at a time or none, while another thread may    *)
(* request a stop.  Time is counted in ticks finer than the millisecond     *)
(* remaining_wait_ms rounds to.                                             *)
(***************************************************************************)
EXTENDS Naturals, FiniteSetsExt

CONSTANTS HeaderBytes, PayloadBytes,
          TicksPerMs,   \* clock ticks in a millisecond
          Deadline,     \* in ticks; the frame is begun at tick 0
          PollSlice,    \* poll_slice in milliseconds
          MaxDelay      \* bound: ticks the clock runs past the deadline

ASSUME SendAssumption ==
  /\ HeaderBytes \in Nat \ {0} /\ PayloadBytes \in Nat
  /\ TicksPerMs \in Nat \ {0} /\ Deadline \in Nat \ {0}
  /\ PollSlice \in Nat \ {0} /\ MaxDelay \in Nat
  /\ MaxDelay >= TicksPerMs

VARIABLES pc,     \* "top", "send", "blocked", "poll" or "done"
          part,   \* "header" or "payload": which send_all_until call
          sent,   \* its sent
          taken,  \* history: bytes the socket took for this frame
          now,    \* SendClock::now()
          stop,   \* stop_requested
          wake,   \* when the current poll times out
          outcome

vars == <<pc, part, sent, taken, now, stop, wake, outcome>>

Size == IF part = "header" THEN HeaderBytes ELSE PayloadBytes

Init ==
  /\ pc = "top" /\ part = "header" /\ sent = 0 /\ taken = 0
  /\ now = 0 /\ stop \in BOOLEAN /\ wake = 0 /\ outcome = "none"

Finish(result) ==
  /\ pc' = "done" /\ outcome' = result
  /\ UNCHANGED <<part, sent, taken, now, stop, wake>>

Step(place) ==
  /\ pc' = place
  /\ UNCHANGED <<part, sent, taken, now, stop, wake, outcome>>

\* send_all_until returns: on to the payload, or the frame is done.
PartSent ==
  /\ pc = "top" /\ sent = Size
  /\ \/ part = "payload" /\ Finish("sent")
     \/ /\ part = "header"
        /\ part' = "payload" /\ sent' = 0
        /\ UNCHANGED <<pc, taken, now, stop, wake, outcome>>

\* Mutant: The head of the loop with its checks before the size: a frame sent in
\* full is reported as cancelled.
CancelledAfterLastByte == pc = "top" /\ stop /\ Finish("cancelled")

\* Mutant: TimedOut without its check of the clock in the loop.
TimedOutNever ==
  pc = "top" /\ sent < Size /\ ~stop /\ now >= Deadline /\ Step("send")

\* The head of the loop: cancellation first, then the deadline.
Cancelled == pc = "top" /\ sent < Size /\ stop /\ Finish("cancelled")
TimedOut ==
  pc = "top" /\ sent < Size /\ ~stop /\ now >= Deadline /\ Finish("timeout")
TrySend ==
  pc = "top" /\ sent < Size /\ ~stop /\ now < Deadline /\ Step("send")

\* send() takes some bytes.
SendSome ==
  /\ pc = "send"
  /\ \E n \in 1 .. Size - sent : sent' = sent + n /\ taken' = taken + n
  /\ pc' = "top"
  /\ UNCHANGED <<part, now, stop, wake, outcome>>

\* EINTR; 0 or an error; EAGAIN.
SendInterrupted == pc = "send" /\ Step("top")
SendError == pc = "send" /\ Finish("error")
SendWouldBlock == pc = "send" /\ Step("blocked")

CancelledBlocked == pc = "blocked" /\ stop /\ Finish("cancelled")
TimedOutBlocked == pc = "blocked" /\ ~stop /\ now >= Deadline /\ Finish("timeout")

\* Mutant: RemainingWaitMs that waits the slice out whatever is left.
RemainingWaitIgnoresDeadline == PollSlice

\* remaining_wait_ms before the deadline: whole milliseconds, at least one,
\* at most a slice.
RemainingWaitMs == Min({PollSlice, Max({(Deadline - now) \div TicksPerMs, 1})})

Wait ==
  /\ pc = "blocked" /\ ~stop /\ now < Deadline
  /\ wake' = now + RemainingWaitMs * TicksPerMs
  /\ pc' = "poll"
  /\ UNCHANGED <<part, sent, taken, now, stop, outcome>>

\* poll() returns: writable or interrupted at any time, 0 when the wait is
\* over.
PollReturns == pc = "poll" /\ Step("top")

\* POLLNVAL, POLLERR, POLLHUP or an errno.
PollError == pc = "poll" /\ Finish("error")

Tick ==
  /\ pc # "done" /\ now < Deadline + MaxDelay
  /\ now' = now + 1
  /\ UNCHANGED <<pc, part, sent, taken, stop, wake, outcome>>

RequestStop ==
  /\ pc # "done" /\ ~stop
  /\ stop' = TRUE
  /\ UNCHANGED <<pc, part, sent, taken, now, wake, outcome>>

Ended == pc = "done" /\ UNCHANGED vars

\* Everything the sending thread does but waiting out a poll.
Run ==
  \/ PartSent \/ Cancelled \/ TimedOut \/ TrySend \/ SendSome
  \/ SendInterrupted \/ SendError \/ SendWouldBlock \/ CancelledBlocked
  \/ TimedOutBlocked \/ Wait \/ PollError

Next == Run \/ PollReturns \/ Tick \/ RequestStop \/ Ended

Spec == Init /\ [][Next]_vars

\* The thread runs, poll() returns when its wait is over, time passes.
Fairness ==
  /\ WF_vars(Run)
  /\ WF_vars(PollReturns /\ now >= wake)
  /\ WF_vars(Tick)

FairSpec == Spec /\ Fairness

-----------------------------------------------------------------------------
\* sent never passes the size of the part it counts.
TypeOK ==
  /\ pc \in {"top", "send", "blocked", "poll", "done"}
  /\ part \in {"header", "payload"}
  /\ sent \in 0 .. Size /\ taken \in 0 .. HeaderBytes + PayloadBytes
  /\ now \in 0 .. Deadline + MaxDelay /\ wake \in Nat /\ stop \in BOOLEAN
  /\ outcome \in {"none", "sent", "cancelled", "timeout", "error"}

\* The result says what happened on the wire: a frame is reported sent only
\* when the socket took all of it and is never reported failed when it did;
\* a timeout is reported only past the deadline and a cancellation only
\* after a stop.  No byte is handed over twice (TypeOK bounds taken).
OutcomeTruthful ==
  /\ TypeOK
  /\ outcome = "sent" <=> pc = "done" /\ taken = HeaderBytes + PayloadBytes
  /\ outcome = "timeout" => now >= Deadline
  /\ outcome = "cancelled" => stop

\* A blocked send sleeps at most a slice, so that a stop is seen in time,
\* and at most a rounded-up millisecond past the frame's deadline.
WaitBounded ==
  pc = "poll" =>
    /\ wake < Deadline + TicksPerMs
    /\ wake <= now + PollSlice * TicksPerMs

\* Whatever the peer does, a frame's send ends: neither a socket that takes
\* nothing nor endless interruptions outlast the deadline.
SendEnds == <>(pc = "done")
=============================================================================
