CONSTANTS
  p = p
  q = q
  Proc = {p, q}
  First = p
  Kept = 0
  MaxOpens = 3
  MaxNested = 1
  MaxFds = 2
  MaxAll = 3
  Targets = {2}
  MaxExtra = 0
SPECIFICATION Spec
INVARIANT NoDanglingFd
CHECK_DEADLOCK FALSE
