CONSTANTS
  PAGESIZE = 2
  Lowest = 2
  ProgramStart = 2
  HeapStart = 4
  MmapStart = 8
  MmapEnd = 14
  StackStart = 14
  StackEnd = 16
  KernelStart = 16
  KernelEnd = 18
  Lengths <- TwoLengths
  Hints <- FixedHints
  Breaks <- SomeBreaks
  Touched <- TwoPages
  MaxRegions = 7
  MaxForks = 1
SPECIFICATION Spec
INVARIANT FreshIsZero
CHECK_DEADLOCK FALSE
