CONSTANTS
  Execs = {e1}
  Cancels = {}
  NoExec = NoExec
  MaxCrashes = 0
  Modes = {"parallel"}
  NumCases = 1
  Concurrency = 1
  Faults = {}
SPECIFICATION FairServiceSpec
PROPERTY StartedRunsSettle
