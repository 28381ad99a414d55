CONSTANTS
  p = p
  q = q
  Proc = {p, q}
  First = p
  Kept = 0
  MaxOpens = 3
  MaxNested = 1
  MaxFds = 2
  MaxAll = 3
  Targets = {2}
  MaxExtra = 1
SPECIFICATION Spec
INVARIANTS
  TypeOK
  FdsDiffer
  SmallestFd
  CountsReferences
  ReferencedIsOpen
  NothingLeaks
  BrothersLinked
CHECK_DEADLOCK FALSE
