CONSTANTS
  c1 = c1
  c2 = c2
  Calls = {c1, c2}
  Sessions = {s1, s2}
  Names = {"x", "y"}
  NoValue = NoValue
  Setups <- AllSetups
  Window = 2
  MaxFaults = 1
SPECIFICATION Spec
CHECK_DEADLOCK FALSE
INVARIANTS
  TypeOK
  BestRuleServed
  OwnExtractShown
  SessionsApart
