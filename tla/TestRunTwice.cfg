CONSTANTS
  Execs = {e1, e2}
  Cancels = {}
  NoExec = NoExec
  MaxCrashes = 0
  Modes = {"parallel"}
  NumCases = 1
  Concurrency = 1
  Faults = {}
SPECIFICATION ServiceSpec
INVARIANT OneGoroutinePerRow
