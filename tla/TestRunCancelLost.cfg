CONSTANTS
  Execs = {e1}
  Cancels = {k1}
  NoExec = NoExec
  MaxCrashes = 0
  Modes = {"parallel"}
  NumCases = 1
  Concurrency = 1
  Faults = {}
SPECIFICATION ServiceSpec
PROPERTY CancelledIsKept
