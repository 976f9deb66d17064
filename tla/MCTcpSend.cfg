SPECIFICATION FairSpec
CONSTANTS
  HeaderBytes = 2
  PayloadBytes = 3
  TicksPerMs = 2
  Deadline = 7
  PollSlice = 2
  MaxDelay = 3
INVARIANTS OutcomeTruthful WaitBounded
PROPERTY SendEnds
