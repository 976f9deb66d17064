SPECIFICATION FairSpec
CONSTANTS
  HeaderUnits = 3
  HostHeaderUnits = 3
  PayloadUnits = 2
  MaxConnections = 2
  MaxSent = 2
  MaxFrames = 3
  MaxSessions = 0
  PublishImages = TRUE
INVARIANTS InterruptsOwnSockets ImagesIntact DiagnosticsAgree AlignmentKnown
PROPERTY DestructorReturns
