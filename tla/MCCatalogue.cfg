CONSTANTS
  p1 = p1
  p2 = p2
  a1 = a1
  k1 = k1
  t1 = t1
  t2 = t2
  ann = ann
  bob = bob
  cat = cat
  dan = dan
  Requests = {r1, r2, r3}
  Setups <- AllSetups
  None = None
  MaxFaults = 1
SPECIFICATION Spec
CHECK_DEADLOCK FALSE
SYMMETRY Sym
INVARIANTS
  TypeOK
  OwnerListed
  TagsKept
  ImportAccounted
PROPERTIES
  WritersStillAllowed
