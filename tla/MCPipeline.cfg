CONSTANTS
  FrameCount = 3
  RingCapacity = 1
  TcpCapacity = 1
  TcpEnabled = TRUE
  Captures <- MCCaptures
  TimeoutThreshold = 1
  MaxRecoveryAttempts = 2
  InvalidThreshold = 2
  InvalidCooldown = 1
  InvalidMaxRecoveries = 1
  RecoveryEnabled = TRUE
  MaxFaults = 1
  SaveLimit = 1
  SaveMayFail = FALSE
  SendFaults = {"send_timeout", "escape"}
  ConnectMaxAttempts = 2
  StatsMayFail = TRUE
SPECIFICATION FairSpec
INVARIANTS TypeOK FramesAccounted SuccessDeliversEverything StopIsReported WireInOrder
PROPERTY Terminates
