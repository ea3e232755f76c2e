CONSTANTS
  Calls = {c1, c2}
  Prompts = {p1, p2}
  Costs = {0, 1, 2}
  MaxCost = 2
  DailyLimit = 2
  MonthlyLimit = 3
  Faults = {"redis", "read", "provider", "insert"}
  MaxDays = 1
SPECIFICATION Spec
SYMMETRY Callers
INVARIANTS
  TypeOK
  SpendBounded
  BilledIsAccounted
  BudgetConsistent
