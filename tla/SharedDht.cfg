SPECIFICATION FairSpec
CONSTANTS
  Instances = {d1, d2}
  Callers = {g1, g2}
  Closers = {s1, s2}
  Files = {f1, f2}
  None = None
INVARIANTS
  DeadOnlyIfCut
  TakenOnce
  SavedWhereItCameFrom
  OneDhtUnlessHasty
  NoOrphanUnlessHasty
PROPERTIES ShutdownCloses WaitEnds
