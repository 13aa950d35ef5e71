SPECIFICATION Spec
CONSTANTS
  Urls = {u1}
  Malformed = {}
  Peers = {p1}
  Usable = {p1}
  Intervals = {60}
  Floor = 60
  Ceiling = 1800
  Default = 1800
PROPERTY FailureRetriedIn15s
\* a destroyed client comes to rest
CHECK_DEADLOCK FALSE
