CONSTANTS
  Streams = {s1}
  MaxEvents = 3
  Buffer = 1
SPECIFICATION FairSpec
PROPERTY BackpressureCloses
CHECK_DEADLOCK FALSE
