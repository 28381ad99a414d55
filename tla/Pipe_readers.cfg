CONSTANTS
  idle = idle
  r = r
  w = w
  x = x
  Proc = {idle, r, w, x}
  Maker = r
  Child = {w, x}
  Readers = {w, x}
  Writers = {r}
  ReadSizes <- SmallReads
  WriteSizes <- SmallWrites
  FILESIZE = 3
  RefWidth = 16
  MaxBytes = 2
  MaxEnds = 2
SPECIFICATION Spec
INVARIANT SleepIsNeeded
CHECK_DEADLOCK FALSE
