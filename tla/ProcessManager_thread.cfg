CONSTANTS
  MaxProcessCount = 4
  MaxCreate = 4
  ElfAutoDestroy <- DefaultFlags
  CloneStack <- ForkAndThread
SPECIFICATION Spec
INVARIANT SpacesAlive
