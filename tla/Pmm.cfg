CONSTANTS
  PageTotal = 6
  HeaderPages = 2
  Requests <- SmallRequests
  FollowDamage = FALSE
SPECIFICATION Spec
INVARIANTS
  TypeOK
  BlocksTile
  FreeListSound
  MarksTell
PROPERTY ImplementsAllocator
