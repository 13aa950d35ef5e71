SPECIFICATION FairSpec
CONSTANT Calls = {c1}
PROPERTY TimeoutFailsIdleExchange
\* the call may have settled, with nothing left to happen
CHECK_DEADLOCK FALSE
