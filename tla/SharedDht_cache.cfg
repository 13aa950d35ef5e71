SPECIFICATION Spec
CONSTANTS
  Instances = {d1, d2}
  Callers = {g1}
  Closers = {s1}
  Files = {f1}
  None = None
PROPERTY CacheNeverBreaks
