SPECIFICATION Spec
CONSTANTS
  h1 = h1
  h2 = h2
  h3 = h3
  p1 = p1
  p2 = p2
  Holder = {h1, h2, h3}
  NoHolder = NoHolder
  Process = {p1, p2}
  ProcessOf <- MCProcessOf
  Time <- MCTime
  BootTtl = 2
  LeaseTtl = 1
  SharedGuard = TRUE
INVARIANT
  FormerHolderCannotCommit
