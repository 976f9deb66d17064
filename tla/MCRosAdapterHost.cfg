SPECIFICATION Spec
CONSTANTS
  HeaderUnits = 3
  HostHeaderUnits = 4
  PayloadUnits = 2
  MaxConnections = 2
  MaxSent = 2
  MaxFrames = 3
  MaxSessions = 0
  PublishImages = TRUE
INVARIANT AlignmentKnown
