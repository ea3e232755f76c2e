------------------------------ MODULE RunReport ------------------------------
(***************************************************************************)
(* What a call of runner.Run promises, without saying how: it collects one *)
(* verdict per case and then either concludes from all of them or stops    *)
(* early, leaving at least one case without a verdict.                     *)
(***************************************************************************)
EXTENDS Integers

CONSTANTS
  Execs,    \* calls of Run
  NumCases  \* cases of the run

Cases == 1 .. NumCases
Verdicts == {"pass", "fail", "error"}

VARIABLES
  report,     \* the verdict counted for each case, "none" so far
  conclusion  \* "pending" until the call concludes or stops

vars == <<report, conclusion>>

Init ==
  /\ report = [e \in Execs |-> [c \in Cases |-> "none"]]
  /\ conclusion = [e \in Execs |-> "pending"]

Missing(e) == {c \in Cases : report[e][c] = "none"}

\* A case is counted once.  A stopped call may still count the cases that are
\* under way, but never all of them.
Count(e, c, v) ==
  /\ conclusion[e] \in {"pending", "cancelled"}
  /\ c \in Missing(e)
  /\ conclusion[e] = "cancelled" => Missing(e) # {c}
  /\ report' = [report EXCEPT ![e][c] = v]
  /\ UNCHANGED conclusion

\* The conclusion is a function of the complete report.
Conclude(e) ==
  /\ conclusion[e] = "pending"
  /\ Missing(e) = {}
  /\ conclusion' = [conclusion EXCEPT ![e] =
       IF \A c \in Cases : report[e][c] = "pass" THEN "success" ELSE "failed"]
  /\ UNCHANGED report

\* A call only stops early while there is a case left to run.
Stop(e) ==
  /\ conclusion[e] = "pending"
  /\ Missing(e) # {}
  /\ conclusion' = [conclusion EXCEPT ![e] = "cancelled"]
  /\ UNCHANGED report

Next == \E e \in Execs :
  \/ \E c \in Cases, v \in Verdicts : Count(e, c, v)
  \/ Conclude(e)
  \/ Stop(e)

Spec == Init /\ [][Next]_vars

=============================================================================
