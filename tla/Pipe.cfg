CONSTANTS
  idle = idle
  r = r
  w = w
  x = x
  Proc = {idle, r, w, x}
  Maker = r
  Child = {w, x}
  Readers = {r}
  Writers = {w}
  ReadSizes <- SmallReads
  WriteSizes <- SmallWrites
  FILESIZE = 3
  RefWidth = 16
  MaxBytes = 3
  MaxEnds = 2
SPECIFICATION FairSpec
INVARIANTS
  TypeOK
  CreditsMatch
  SleepIsNeeded
  BytesConserved
  WriteRefCounts
PROPERTIES
  ImplementsByteQueue
  ReadersAreReleased
CHECK_DEADLOCK FALSE
