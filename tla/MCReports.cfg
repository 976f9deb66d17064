SPECIFICATION Spec
CONSTANTS
  Runs = 6
  FlushMayFail = FALSE
  WarmupEnd = 1
  MeasurementEnd = 3
  LateTime = 4
  MaxImages = 4
  WritesFile = TRUE
  MaxEvents = 4
  MaxReports = 2
INVARIANTS FilesTruthful VerdictTruthful ReportConsistent ErrorsReachTheLevel
PROPERTY CheckEnds
CHECK_DEADLOCK FALSE
