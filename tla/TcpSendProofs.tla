----------------------------- MODULE TcpSendProofs -----------------------------
(***************************************************************************)
(* For every size of header and payload, every deadline, poll slice and     *)
(* clock resolution, and every behaviour of the socket: the result of       *)
(* sending a frame says what happened on the wire, and a blocked send never *)
(* sleeps past the slice or past the rounded-up deadline.                   *)
(***************************************************************************)
EXTENDS TcpSend, TLAPS

\* What the socket took is what the two send_all_until calls count.
BytesCounted == taken = IF part = "header" THEN sent ELSE HeaderBytes + sent

\* Inside the loop the part is not finished; a result is set exactly at the
\* end, and what it says is so.
LoopAndResult ==
  /\ pc \in {"send", "blocked", "poll"} => sent < Size
  /\ pc = "done" <=> outcome # "none"
  /\ outcome = "sent" => part = "payload" /\ sent = Size
  /\ outcome \in {"cancelled", "timeout", "error"} => sent < Size
  /\ outcome = "timeout" => now >= Deadline
  /\ outcome = "cancelled" => stop

\* The inductive invariant.
IInv == TypeOK /\ BytesCounted /\ LoopAndResult /\ WaitBounded

-----------------------------------------------------------------------------
\* The smaller and the larger of two numbers.
LEMMA MinMaxPair ==
  ASSUME NEW a \in Nat, NEW b \in Nat
  PROVE  /\ Min({a, b}) = IF a <= b THEN a ELSE b
         /\ Max({a, b}) = IF a >= b THEN a ELSE b
  <1>1. PICK m \in {a, b} : \A y \in {a, b} : m <= y
    OBVIOUS
  <1>2. PICK n \in {a, b} : \A y \in {a, b} : n >= y
    OBVIOUS
  <1>3. Min({a, b}) \in {a, b} /\ \A y \in {a, b} : Min({a, b}) <= y
    BY <1>1 DEF Min
  <1>4. Max({a, b}) \in {a, b} /\ \A y \in {a, b} : Max({a, b}) >= y
    BY <1>2 DEF Max
  <1> QED
    BY <1>3, <1>4

\* Whole milliseconds never exceed the ticks they were computed from.
LEMMA WholeMilliseconds ==
  ASSUME NEW t \in Nat
  PROVE  /\ t \div TicksPerMs \in Nat
         /\ (t \div TicksPerMs) * TicksPerMs <= t
  BY SendAssumption

\* remaining_wait_ms: at least one millisecond, at most a slice, and at most
\* what is left of the deadline unless that is less than a millisecond.
LEMMA RemainingWait ==
  ASSUME now \in Nat, now < Deadline
  PROVE  /\ RemainingWaitMs \in Nat
         /\ now + RemainingWaitMs * TicksPerMs < Deadline + TicksPerMs
         /\ RemainingWaitMs * TicksPerMs <= PollSlice * TicksPerMs
  <1> USE SendAssumption
  <1> DEFINE q == (Deadline - now) \div TicksPerMs
             r == RemainingWaitMs
  <1>1. Deadline - now \in Nat /\ q \in Nat /\ q * TicksPerMs <= Deadline - now
    BY WholeMilliseconds
  <1>2. Max({q, 1}) = (IF q >= 1 THEN q ELSE 1) /\ Max({q, 1}) \in Nat
    BY <1>1, MinMaxPair
  <1>3. r \in Nat /\ r <= PollSlice /\ (r <= q \/ r <= 1)
    <2>1. r = IF PollSlice <= Max({q, 1}) THEN PollSlice ELSE Max({q, 1})
      BY <1>2, MinMaxPair DEF RemainingWaitMs
    <2> QED
      BY <1>1, <1>2, <2>1
  <1> HIDE DEF q, r
  <1>4. \A a, b \in Nat : a <= b => a * TicksPerMs <= b * TicksPerMs
    OBVIOUS
  <1>5. r * TicksPerMs <= PollSlice * TicksPerMs
    BY <1>3, <1>4
  <1>6. r * TicksPerMs <= q * TicksPerMs \/ r * TicksPerMs <= 1 * TicksPerMs
    BY <1>1, <1>3, <1>4
  <1>7. r * TicksPerMs \in Nat /\ q * TicksPerMs \in Nat
    BY <1>1, <1>3
  <1>8. now + r * TicksPerMs < Deadline + TicksPerMs
    BY <1>1, <1>6, <1>7
  <1> QED
    BY <1>3, <1>5, <1>8 DEF r

\* The frame is begun with nothing sent.
LEMMA InitInv == Init => IInv
  <1> SUFFICES ASSUME Init PROVE IInv
    OBVIOUS
  <1> QED
    BY SendAssumption
    DEF Init, IInv, TypeOK, BytesCounted, LoopAndResult, WaitBounded, Size

\* A return from send_frame_over_tcp keeps the invariant when its result is true.
LEMMA FinishStep ==
  ASSUME IInv, NEW result \in {"sent", "cancelled", "timeout", "error"}, Finish(result),
         result = "sent" => part = "payload" /\ sent = Size,
         result # "sent" => sent < Size,
         result = "timeout" => now >= Deadline,
         result = "cancelled" => stop
  PROVE  IInv'
  BY DEF IInv, Finish, TypeOK, BytesCounted, LoopAndResult, WaitBounded, Size

\* A move inside the loop keeps it while the part is unfinished.
LEMMA MoveStep ==
  ASSUME IInv, NEW place \in {"top", "send", "blocked"}, Step(place), pc # "done", sent < Size
  PROVE  IInv'
  BY DEF IInv, Step, TypeOK, BytesCounted, LoopAndResult, WaitBounded, Size

\* Every step preserves the invariant.
LEMMA NextInv == IInv /\ [Next]_vars => IInv'
  <1> SUFFICES ASSUME IInv, [Next]_vars PROVE IInv'
    OBVIOUS
  <1> USE SendAssumption
  <1>1. CASE PartSent
    <2>1. CASE Finish("sent") /\ part = "payload"
      BY <1>1, <2>1, FinishStep DEF PartSent
    <2>2. CASE part = "header" /\ part' = "payload"
      BY <1>1, <2>2 DEF PartSent, IInv, TypeOK, BytesCounted, LoopAndResult, WaitBounded, Size
    <2> QED
      BY <1>1, <2>1, <2>2 DEF PartSent
  <1>2. CASE Cancelled \/ CancelledBlocked
    BY <1>2, FinishStep DEF Cancelled, CancelledBlocked, IInv, LoopAndResult
  <1>3. CASE TimedOut \/ TimedOutBlocked
    BY <1>3, FinishStep DEF TimedOut, TimedOutBlocked, IInv, LoopAndResult
  <1>4. CASE SendError \/ PollError
    BY <1>4, FinishStep DEF SendError, PollError, IInv, LoopAndResult
  <1>5. CASE TrySend \/ SendInterrupted \/ SendWouldBlock \/ PollReturns
    BY <1>5, MoveStep
    DEF TrySend, SendInterrupted, SendWouldBlock, PollReturns, IInv, LoopAndResult
  <1>6. CASE SendSome
    <2> USE <1>6 DEF SendSome
    <2>1. Size' = Size /\ Size \in Nat /\ sent \in 0 .. Size
      BY DEF Size, IInv, TypeOK
    <2>2. PICK n \in 1 .. Size - sent : sent' = sent + n /\ taken' = taken + n
      OBVIOUS
    <2>3. sent' \in 0 .. Size
      BY <2>1, <2>2
    <2>4. BytesCounted' /\ taken' \in 0 .. HeaderBytes + PayloadBytes
      BY <2>1, <2>2, <2>3 DEF IInv, TypeOK, BytesCounted, Size
    <2> QED
      BY <2>1, <2>3, <2>4 DEF IInv, TypeOK, LoopAndResult, WaitBounded
  <1>7. CASE Wait
    <2> USE <1>7 DEF Wait
    <2>1. Size' = Size /\ now \in Nat
      BY DEF Size, IInv, TypeOK
    <2>2. wake' \in Nat /\ WaitBounded'
      BY <2>1, RemainingWait DEF WaitBounded
    <2> QED
      BY <2>1, <2>2 DEF IInv, TypeOK, BytesCounted, LoopAndResult
  <1>8. CASE Tick
    <2>1. Size' = Size
      BY <1>8 DEF Tick, Size
    <2> QED
      BY <1>8, <2>1 DEF Tick, IInv, TypeOK, BytesCounted, LoopAndResult, WaitBounded
  <1>9. CASE RequestStop
    <2>1. Size' = Size /\ stop' \in BOOLEAN
      BY <1>9 DEF RequestStop, Size
    <2> QED
      BY <1>9, <2>1 DEF RequestStop, IInv, TypeOK, BytesCounted, LoopAndResult, WaitBounded
  <1>10. CASE UNCHANGED vars
    BY <1>10 DEF vars, IInv, TypeOK, BytesCounted, LoopAndResult, WaitBounded, Size
  <1> QED
    BY <1>1, <1>2, <1>3, <1>4, <1>5, <1>6, <1>7, <1>8, <1>9, <1>10 DEF Next, Run, Ended

-----------------------------------------------------------------------------
\* The invariant holds throughout the sending of a frame.
THEOREM SendInvariant == Spec => []IInv
  BY InitInv, NextInv, PTL DEF Spec

\* A frame is reported sent exactly when the socket took all of it, a timeout
\* only past the deadline and a cancellation only after a stop.
THEOREM SendOutcomeTruthful == Spec => []OutcomeTruthful
  <1>1. IInv => OutcomeTruthful
    BY SendAssumption DEF IInv, OutcomeTruthful, TypeOK, BytesCounted, LoopAndResult, Size
  <1> QED
    BY <1>1, SendInvariant, PTL

\* A blocked send sleeps at most a slice, and at most a rounded-up millisecond
\* past the deadline.
THEOREM SendWaitBounded == Spec => []WaitBounded
  <1>1. IInv => WaitBounded
    BY DEF IInv
  <1> QED
    BY <1>1, SendInvariant, PTL
=============================================================================
