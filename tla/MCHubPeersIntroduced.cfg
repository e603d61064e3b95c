CONSTANTS
  c1 = c1
  c2 = c2
  Conns    <- MCConns
  Cap      <- MCCap
  MaxChats <- NoChats
  Inbound  <- NoInbound

SPECIFICATION Spec
SYMMETRY Symmetry

INVARIANT PeersIntroduced
