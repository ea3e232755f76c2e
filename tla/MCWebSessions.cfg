CONSTANTS
  a1 = a1
  a2 = a2
  b1 = b1
  tabA = tabA
  tabB = tabB
  Tabs = {tabA, tabB}
  Requests = {a1, a2, b1}
  TabOf <- Ownership
  Kinds <- Asks
  MaxFaults = 1
SPECIFICATION FairSpec
INVARIANTS
  TypeOK
  SessionKept
  RefusedForAReason
  NoStranded
PROPERTIES
  EveryRequestAnswered
