CONSTANTS
  Execs = {e1}
  Modes = {"sequential", "parallel"}
  NumCases = 3
  Concurrency = 2
  Faults = {"insert"}
SPECIFICATION FairSpec
INVARIANTS
  TypeOK
  BoundedConcurrency
  NoWorkerOutlivesLoop
  SuccessIsEarned
  CountersAddUp
  SnapshotsDistinct
  CompleteIsLast
  SettledUnlessCancelled
PROPERTIES
  ImplementsRunReport
  RunReturns
