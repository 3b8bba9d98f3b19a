SPECIFICATION Spec
CONSTANTS
  value = value
  makes = makes
  takes = takes
  near = near
  far = far
  Caller = {c1, c2}
  Painter = {p1, p2}
  Node = {near, far}
  NodeOf <- MCNodeOf
  Elsewhere <- MCElsewhere
  Blob = {value}
  Fact = {makes, takes}
  BlobsOf <- MCBlobsOf
  ArgsOf <- MCArgsOf
  Witnessed = {{makes}, {takes}}
  MaxMint = 2
  MaxCrash = 1
SYMMETRY Symmetric
INVARIANTS
  LedgerIsBacked
  PaintIsExact
  SignerIsKept
CHECK_DEADLOCK FALSE
