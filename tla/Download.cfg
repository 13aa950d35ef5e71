SPECIFICATION FairSpec
CONSTANTS
  Cap = 3
  Sizes = {0, 2, 3, 4}
  Answers <- MCAnswers
INVARIANTS CapExact VerdictOnWholeBody SignalHeard OwnErrorBeforeBody PeersAsAnswered
PROPERTIES ImplementsScopedCalls SettlesReleased
\* a request that is done does nothing more
CHECK_DEADLOCK FALSE
