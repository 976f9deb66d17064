SPECIFICATION Spec
CONSTANTS
  Runs = 2
  FlushMayFail = TRUE
INVARIANT ReadersSeeWholeFiles
CHECK_DEADLOCK FALSE
