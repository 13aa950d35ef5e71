SPECIFICATION FairSpec
CONSTANTS
  Calls = {c1, c2, c3}
  Peers = {p1, p2, q1}
  Swarm = {p1, p2}
  Budgets = {0, 1, 2}
  MaxElapsed = 2
INVARIANTS ReleasedOnceDecided DialsDeduped VerdictGenuine OneExchangeWins
PROPERTIES RacingEnds ImplementsScopedCalls
\* a resolution that is done does nothing more
CHECK_DEADLOCK FALSE
