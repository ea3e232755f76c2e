CONSTANTS
  Cases <- Judged
  Responses <- Answers
  Unparsed = Unparsed
  Unreachable = Unreachable
  Absent = Absent
  JSON <- Values
SPECIFICATION Spec
CHECK_DEADLOCK FALSE
INVARIANTS
  LookupSound
  VerdictEarned
