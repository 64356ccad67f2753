\* One connection, one ordinary path, and a directory that holds a link that
\* leads out of it.
SPECIFICATION Spec
CONSTANTS
  Conns = {c1}
  Requests <- MCRequests
  MaxChanges = 0
  MaxStarts = 1
INVARIANT ContentFromInside
CHECK_DEADLOCK FALSE
