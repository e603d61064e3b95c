CONSTANTS
  Chans   <- MCChans
  Senders <- MCSenders
  Closers <- MCClosers
  Cap     <- MCCap

SPECIFICATION Spec

INVARIANT TypeOK
INVARIANT NoPanic
PROPERTY AllCallsReturn
PROPERTY ImplementsSafeQueue
