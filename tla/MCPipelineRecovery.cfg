CONSTANTS
  FrameCount = 6
  RingCapacity = 1
  TcpCapacity = 1
  TcpEnabled = FALSE
  Captures <- MCCaptures
  TimeoutThreshold = 2
  MaxRecoveryAttempts = 2
  InvalidThreshold = 2
  InvalidCooldown = 3
  InvalidMaxRecoveries = 1
  RecoveryEnabled = TRUE
  MaxFaults = 2
  SaveLimit = 1
  SaveMayFail = TRUE
  SendFaults = {}
  ConnectMaxAttempts = 1
  StatsMayFail = FALSE
SPECIFICATION Spec
INVARIANTS RecoveryAccounted
PROPERTIES RebuildsAreSpaced GivesUpOnlyWhenExhausted
