CONSTANTS
  r1 = r1
  r2 = r2
  g1 = g1
  g2 = g2
  inv = inv
  terr = terr
  serr = serr
  Requests    <- MCRequests
  GoodDocs    <- MCGoodDocs
  InvalidDocs <- MCInvalidDocs
  TypeErrDocs <- MCTypeErrDocs
  SyntaxDocs  <- MCSyntaxDocs
  MaxTime     <- MCMaxTime

SPECIFICATION Spec

INVARIANT TypeOK
PROPERTY NeverOlder
