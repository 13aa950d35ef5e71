SPECIFICATION FairSpec
CONSTANT Calls = {c1, c2, c3}
INVARIANT AbortSettlesAll
PROPERTIES ImplementsScopedCalls SilentPeerTimesOut
\* every call may have settled, with nothing left to happen
CHECK_DEADLOCK FALSE
