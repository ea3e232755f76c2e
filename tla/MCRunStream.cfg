CONSTANTS
  Streams = {s1}
  MaxEvents = 5
  Buffer = 2
SPECIFICATION FairSpec
INVARIANTS
  TypeOK
  OrderKept
  NothingElseLost
PROPERTIES
  CompleteEndsStream
  NoLeak
CHECK_DEADLOCK FALSE
