SPECIFICATION ChatSpec
CONSTANTS
  Sessions = {s1, s2}
  Workspaces = {w1}
  FormIds = {f1, f2}
  Paths = {p1, p2}
  None = None
  Budgets <- MCBudgets
INVARIANTS
  ShownFormIsRegistered
  TypedForThisForm
  JournalOfOpenSession
SYMMETRY MCSymmetry
CHECK_DEADLOCK FALSE
