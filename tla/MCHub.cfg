CONSTANTS
  c1 = c1
  c2 = c2
  Conns    <- MCConns
  Cap      <- MCCap
  MaxChats <- NoChats
  Inbound  <- ErrInbound

SPECIFICATION Spec
SYMMETRY Symmetry

INVARIANT TypeOK
INVARIANT NoPanic
INVARIANT OwnConnectOnce
INVARIANT IntroducedBeforeTraffic
INVARIANT OwnDisconnectOnlyAfterRejection
