CONSTANTS
  Workers        <- SixWorkers
  NumConns       <- MCSix
  MsgsPerConn    <- MCMsgs
  Durs           <- MCDurs
  StartedCap     = 5
  TestCap        = 100
  TestModes      <- OnlyTest
  SameStarts     <- NoSameStart
  ConfigOutcomes <- ConfigFails

SPECIFICATION Spec

\* The sixth worker blocks on startedChan and main on testChan: no step is
\* left (the Go runtime aborts with its deadlock error).
CHECK_DEADLOCK FALSE

PROPERTY RunReports
