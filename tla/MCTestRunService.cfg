CONSTANTS
  Execs = {e1, e2}
  Cancels = {k1}
  NoExec = NoExec
  MaxCrashes = 1
  Modes = {"parallel"}
  NumCases = 1
  Concurrency = 1
  Faults = {}
SPECIFICATION ServiceSpec
INVARIANTS
  ServiceTypeOK
  QueuedMeansUntouched
  CancellerNotStale
  TerminalRowIsOneReport
