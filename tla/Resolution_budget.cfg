SPECIFICATION Spec
CONSTANTS
  Calls = {c1, c2}
  Peers = {p1}
  Swarm = {p1}
  Budgets <- HugeBudget
  MaxElapsed = 1
INVARIANT BudgetHonoured
\* a resolution that is done does nothing more
CHECK_DEADLOCK FALSE
