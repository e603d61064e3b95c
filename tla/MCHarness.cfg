CONSTANTS
  Workers        <- MCWorkers
  NumConns       <- MCNumConns
  MsgsPerConn    <- MCMsgs
  Durs           <- MCDurs
  StartedCap     = 5
  TestCap        = 100
  TestModes      <- BothFlags
  SameStarts     <- BothFlags
  ConfigOutcomes <- BothFlags

SPECIFICATION Spec

INVARIANT TypeOK
INVARIANT StartTogether
INVARIANT StatsMatchResults
INVARIANT NilSendErrsAreHandshakeFailures
PROPERTY RunReports
PROPERTY ImplementsWorkerProtocol
