SPECIFICATION FairSpec
CONSTANTS
  HeaderUnits = 3
  PayloadUnits = 2
  MaxConnections = 3
  MaxSent = 2
  MaxSessions = 3
  MaxFrames = 4
  SavePayloads = TRUE
INVARIANTS FramesIntact StatisticsAgree ExitCodeTruthful
PROPERTIES CorruptionIsFatal ReceiverExits
