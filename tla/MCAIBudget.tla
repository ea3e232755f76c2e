----------------------------- MODULE MCAIBudget -----------------------------
(* Two callers, a day of limit 2 in a month of limit 3.                    *)
EXTENDS AIBudget, TLC
Callers == Permutations(Calls)
=============================================================================
