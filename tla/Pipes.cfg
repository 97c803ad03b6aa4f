SPECIFICATION Spec
CONSTANTS
  Child = {c1, c2}
  Self = self
  Stdout = stdout
  Nobody = nobody
  BufSz = 2
  PipeSz = 2
  Traffic = 3
CHECK_DEADLOCK FALSE
INVARIANTS EndsAreWhereTheyBelong NothingLost
PROPERTIES StartsBehind CallsReturn ChildrenEnd
