CONSTANTS
  Workers        <- MCWorkers
  NumConns       <- MCNumConns
  MsgsPerConn    <- MCMsgs
  Durs           <- MCDurs
  StartedCap     = 5
  TestCap        = 100
  TestModes      <- BothFlags
  SameStarts     <- BothFlags
  ConfigOutcomes <- BothFlags

SPECIFICATION Spec

INVARIANT ReportedPhaseStats
