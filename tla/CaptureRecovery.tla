--------------------------- MODULE CaptureRecovery ---------------------------
(***************************************************************************)
(* include/capture_recovery.hpp: the two policy objects that decide when    *)
(* the producer rebuilds the V4L2 stream.  Each object is a record of its   *)
(* mutable members; each member function is an operator on that record.     *)
(* The peak and suppression counters kept inside the controllers are        *)
(* reported only through the pipeline statistics and are left to it.        *)
(***************************************************************************)
EXTENDS Naturals

CONSTANTS TimeoutThreshold,      \* camera_timeout_recovery_threshold
          MaxRecoveryAttempts,   \* camera_recovery_max_attempts
          InvalidThreshold,      \* camera_invalid_frame_recovery_threshold
          InvalidCooldown,       \* camera_invalid_frame_recovery_cooldown_frames
          InvalidMaxRecoveries   \* camera_invalid_frame_recovery_max_count

\* The constructors (and run_pipeline before them) refuse anything else.
ASSUME RecoveryAssumption ==
  /\ TimeoutThreshold \in Nat \ {0}
  /\ MaxRecoveryAttempts \in Nat \ {0}
  /\ InvalidThreshold \in Nat \ {0}
  /\ InvalidCooldown \in Nat
  /\ InvalidMaxRecoveries \in Nat \ {0}

\* CameraCaptureErrorKind
ErrorKinds == {"Timeout", "TemporaryUnavailable", "DeviceUnavailable",
               "StreamFailure", "InvalidBufferMetadata"}

-----------------------------------------------------------------------------
\* CaptureRecoveryController
Controller == [consecutive_timeouts: Nat, recovery_attempts: 0 .. MaxRecoveryAttempts]

NewController == [consecutive_timeouts |-> 0, recovery_attempts |-> 0]

\* should_reinitialize(kind): the updated controller, and the answer.
CountTimeout(c, kind) ==
  IF kind = "Timeout" THEN [c EXCEPT !.consecutive_timeouts = @ + 1] ELSE c

ShouldReinitialize(c, kind) ==
  CASE kind = "Timeout"              -> c.consecutive_timeouts + 1 >= TimeoutThreshold
    [] kind = "TemporaryUnavailable" -> FALSE
    [] OTHER                         -> TRUE

\* Mutant: the last attempt is never made.
MayAttemptOneShort(c) == c.recovery_attempts + 1 < MaxRecoveryAttempts

\* begin_recovery_attempt(): whether another attempt is allowed, and its count.
MayAttempt(c) == c.recovery_attempts < MaxRecoveryAttempts
BeginAttempt(c) == [c EXCEPT !.recovery_attempts = @ + 1]

-----------------------------------------------------------------------------
\* InvalidFrameRecoveryController
InvalidController ==
  [consecutive: 0 .. InvalidThreshold, cooldown: 0 .. InvalidCooldown,
   completed: 0 .. InvalidMaxRecoveries]

NewInvalidController == [consecutive |-> 0, cooldown |-> 0, completed |-> 0]

\* observe(): the cooldown runs down on every frame, valid or not.
CooldownAfter(v) == IF v.cooldown > 0 THEN v.cooldown - 1 ELSE 0

ThresholdReached(v, valid) == ~valid /\ v.consecutive + 1 >= InvalidThreshold

Observe(v, valid) ==
  [consecutive |-> IF valid \/ ThresholdReached(v, valid) THEN 0 ELSE v.consecutive + 1,
   cooldown    |-> CooldownAfter(v),
   completed   |-> v.completed]

\* Mutant: the cooldown is not consulted.
DecisionIgnoresCooldown(v, valid) ==
  IF ~ThresholdReached(v, valid) THEN "None"
  ELSE IF v.completed >= InvalidMaxRecoveries THEN "SuppressedByBudget"
  ELSE "Recover"

\* Mutant: the budget allows one rebuild too many.
DecisionBudgetOffByOne(v, valid) ==
  IF ~ThresholdReached(v, valid) THEN "None"
  ELSE IF CooldownAfter(v) > 0 THEN "SuppressedByCooldown"
  ELSE IF v.completed > InvalidMaxRecoveries THEN "SuppressedByBudget"
  ELSE "Recover"

\* The answer of observe(): the cooldown is consulted before the budget.
Decision(v, valid) ==
  IF ~ThresholdReached(v, valid) THEN "None"
  ELSE IF CooldownAfter(v) > 0 THEN "SuppressedByCooldown"
  ELSE IF v.completed >= InvalidMaxRecoveries THEN "SuppressedByBudget"
  ELSE "Recover"

\* on_invalid_frame_recovery_success() and on_external_recovery_success().
AfterRebuild(v, invalid_frame_trigger) ==
  [consecutive |-> 0,
   cooldown    |-> InvalidCooldown,
   completed   |-> IF invalid_frame_trigger THEN v.completed + 1 ELSE v.completed]
=============================================================================
