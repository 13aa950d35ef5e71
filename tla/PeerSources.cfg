SPECIFICATION SourcesFairSpec
CONSTANTS
  u1 = u1
  v1 = v1
  n1 = n1
  u2 = u2
  ws = ws
  Urls = {u1, v1, n1, u2, ws}
  Malformed = {ws}
  Invalid = {n1}
  Key <- MCKey
  Inputs <- MCInputs
  Followed <- MCFollowed
  Peers = {p1, p2, p0}
  Usable = {p1, p2}
  Intervals <- MCIntervals
  Floor = 1
  Ceiling = 3
  Default = 3
PROPERTIES
  ListAsPromised
  NeverHammered
  QuietOnceDestroyed
  OwnClock
  RelookupFindsPeer
  ClientRestsWithDiscovery
  ImplementsDiscovery
\* destroyed sources come to rest
CHECK_DEADLOCK FALSE
