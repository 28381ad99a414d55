CONSTANTS
  MaxProcessCount = 4
  MaxCreate = 4
  ElfAutoDestroy <- DefaultFlags
  CloneStack <- ForkAndThread
SPECIFICATION FairSpec
INVARIANTS
  TypeOK
  CountsAreExact
  OneRunning
  FamilyTree
  SleepersAreQueued
  NoLostChild
  IInv
PROPERTIES
  NoStolenZombie
  ReadyRuns
  WaitReturns
