SPECIFICATION Spec
CONSTANTS
  Writers = {w1, w2, w3}
  Chunks = 2
  Absent = Absent
INVARIANT LitterOnlyFromBrokenWrites
PROPERTY ImplementsAtomicCache
\* every writer may be over
CHECK_DEADLOCK FALSE
