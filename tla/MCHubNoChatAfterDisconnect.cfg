CONSTANTS
  c1 = c1
  c2 = c2
  Conns    <- MCConns
  Cap      <- MCCap
  MaxChats <- OneChat
  Inbound  <- ChatInbound

SPECIFICATION Spec
SYMMETRY Symmetry

INVARIANT NoChatAfterDisconnect
