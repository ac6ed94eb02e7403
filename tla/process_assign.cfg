SPECIFICATION Spec
CONSTANTS
  Places = {h1, h2, h3}
  Pids = {p1, p2}
  None = None
INVARIANT ChildHasOneOwner
CHECK_DEADLOCK FALSE
