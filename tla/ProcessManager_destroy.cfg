CONSTANTS
  MaxProcessCount = 4
  MaxCreate = 4
  ElfAutoDestroy <- DefaultFlags
  CloneStack <- ForkOnly
SPECIFICATION Spec
INVARIANT DestroyedIsFree
