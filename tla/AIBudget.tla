------------------------------ MODULE AIBudget ------------------------------
(***************************************************************************)
(* The AI engine under its budget guard (backend/internal/ai/engine.go,    *)
(* guard.go, cache.go) with the usage table (repository/ai_repo.go), the   *)
(* service and handlers that call it (service/ai_service.go, api/ai.go)    *)
(* and the budget endpoint.  Each c in Calls is a caller that asks again   *)
(* and again: a handler or the attribution hook of a test run.  Costs are  *)
(* integers in units of 1e-8 USD, the precision of both estimateCost and   *)
(* the column.                                                             *)
(*                                                                         *)
(* The providers wired in today are the mock (cost 0) and the noop (always *)
(* an error); the provider here is any that keeps the Provider interface.  *)
(***************************************************************************)
EXTENDS Integers, FiniteSets, Functions

CONSTANTS
  Calls,         \* concurrent callers
  Prompts,       \* requests that differ in their cache key
  Costs,         \* what an answer may cost
  MaxCost,       \* a bound on Costs
  DailyLimit,    \* AI_DAILY_LIMIT_USD
  MonthlyLimit,  \* AI_MONTHLY_LIMIT_USD
  Faults,        \* which outside calls may fail
  MaxDays        \* bound: how often the day changes

FaultKinds == {"redis", "read", "provider", "insert"}

ASSUME BudgetAssumption ==
  /\ IsFiniteSet(Calls)
  /\ MaxCost \in Nat
  /\ Costs \subseteq 0..MaxCost
  /\ DailyLimit \in Nat \ {0}
  /\ MonthlyLimit \in Nat \ {0}
  /\ Faults \subseteq FaultKinds
  /\ MaxDays \in Nat

VARIABLES
  pc,          \* where each call is in the pipeline
  prompt,      \* what it asks
  cost,        \* what the provider's answer to it costs
  gone,        \* its context is done: the client has left or the run was cancelled
  cached,      \* prompts with an answer in Redis
  today,       \* sum of cost_usd since the start of the day, UTC
  thisMonth,   \* sum of cost_usd since the start of the month
  days,        \* how often the day has changed
  unrecorded,  \* cost of the answers for which Record has not been called yet
  budget       \* the budget endpoint: its step, what it read, whether it is void

vars == <<pc, prompt, cost, gone, cached, today, thisMonth, days, unrecorded, budget>>
ledger == <<today, thisMonth, days>>

Places == {"idle", "lookup", "daily", "monthly", "complete", "store", "record"}

Init ==
  /\ pc = [c \in Calls |-> "idle"]
  /\ prompt \in [Calls -> Prompts]
  /\ cost = [c \in Calls |-> 0]
  /\ gone = [c \in Calls |-> FALSE]
  /\ cached = {}
  /\ today = 0 /\ thisMonth = 0 /\ days = 0
  /\ unrecorded = 0
  /\ budget = [at |-> "idle", daily |-> 0, monthly |-> 0, void |-> FALSE]

\* Every outside call takes the caller's context and fails once it is done.
Outcomes(c, kind) ==
  IF gone[c] THEN {FALSE} ELSE IF kind \in Faults THEN BOOLEAN ELSE {TRUE}

GoTo(c, place) == pc' = [pc EXCEPT ![c] = place]

(***************************************************************************)
(* Attribute, Complete and Prioritize: the role check and the reads that   *)
(* the prompt is made of may refuse; otherwise Engine.call begins.         *)
(***************************************************************************)
Ask(c) ==
  /\ pc[c] = "idle"
  /\ GoTo(c, "lookup")
  /\ \E p \in Prompts : prompt' = [prompt EXCEPT ![c] = p]
  /\ gone' = [gone EXCEPT ![c] = FALSE]
  /\ UNCHANGED <<cost, cached, ledger, unrecorded, budget>>

\* The context of a call is done: every further outside call of it fails.
Disconnect(c) ==
  /\ pc[c] # "idle"
  /\ ~gone[c]
  /\ gone' = [gone EXCEPT ![c] = TRUE]
  /\ UNCHANGED <<pc, prompt, cost, cached, ledger, unrecorded, budget>>

(***************************************************************************)
(* Engine.call: cache, guard, provider, cache, record.                     *)
(***************************************************************************)
\* Cache.Get: an error counts as a miss.
Lookup(c) ==
  /\ pc[c] = "lookup"
  /\ \E ok \in Outcomes(c, "redis") :
       GoTo(c, IF ok /\ prompt[c] \in cached THEN "idle" ELSE "daily")
  /\ UNCHANGED <<prompt, cost, gone, cached, ledger, unrecorded, budget>>

HasRoomAtLimit(used, limit) == used <= limit
\* Guard.Allow refuses from the limit on.
HasRoom(used, limit) == used < limit

\* Guard.Allow, first query.
CheckDaily(c) ==
  /\ pc[c] = "daily"
  /\ \E ok \in Outcomes(c, "read") :
       GoTo(c, IF ok /\ HasRoom(today, DailyLimit) THEN "monthly" ELSE "idle")
  /\ UNCHANGED <<prompt, cost, gone, cached, ledger, unrecorded, budget>>

\* Guard.Allow, second query.
CheckMonthly(c) ==
  /\ pc[c] = "monthly"
  /\ \E ok \in Outcomes(c, "read") :
       GoTo(c, IF ok /\ HasRoom(thisMonth, MonthlyLimit) THEN "complete" ELSE "idle")
  /\ UNCHANGED <<prompt, cost, gone, cached, ledger, unrecorded, budget>>

\* provider.Complete fails, and nothing is owed, or answers, and is paid for.
Complete(c) ==
  /\ pc[c] = "complete"
  /\ \E ok \in Outcomes(c, "provider"), price \in Costs :
       IF ok
       THEN /\ GoTo(c, "store")
            /\ cost' = [cost EXCEPT ![c] = price]
            /\ unrecorded' = unrecorded + price
       ELSE GoTo(c, "idle") /\ UNCHANGED <<cost, unrecorded>>
  /\ UNCHANGED <<prompt, gone, cached, ledger, budget>>

AfterStoreUnlessFailed(ok) == IF ok THEN "record" ELSE "idle"
\* The error of Cache.Set is dropped.
AfterStore(ok) == "record"

\* Cache.Set.
Store(c) ==
  /\ pc[c] = "store"
  /\ \E ok \in Outcomes(c, "redis") :
       /\ cached' = IF ok THEN cached \union {prompt[c]} ELSE cached
       /\ GoTo(c, AfterStore(ok))
  /\ UNCHANGED <<prompt, cost, gone, ledger, unrecorded, budget>>

AfterRecordRetrying(ok) == IF ok THEN "idle" ELSE "record"
\* The error of Record is logged; the caller gets its answer.
AfterRecord(ok) == "idle"

\* Guard.Record: RecordUsage stamps the row with the time of the insert.
Record(c) ==
  /\ pc[c] = "record"
  /\ \E ok \in Outcomes(c, "insert") :
       /\ today' = IF ok THEN today + cost[c] ELSE today
       /\ thisMonth' = IF ok THEN thisMonth + cost[c] ELSE thisMonth
       /\ GoTo(c, AfterRecord(ok))
  /\ unrecorded' = unrecorded - cost[c]
  /\ cost' = [cost EXCEPT ![c] = IF pc'[c] = "idle" THEN 0 ELSE @]
  /\ UNCHANGED <<prompt, gone, cached, days, budget>>

(***************************************************************************)
(* The budget endpoint: two reads, whose errors leave a zero.  void says   *)
(* that a read failed or the month changed in between.                     *)
(***************************************************************************)
ReadInTurnMonthlyFirst(step) == IF step = 1 THEN "monthly" ELSE "daily"
\* AIService.Budget reads the day first.
ReadInTurn(step) == IF step = 1 THEN "daily" ELSE "monthly"

BudgetRead(step) ==
  /\ budget.at = IF step = 1 THEN "idle" ELSE "second"
  /\ \E ok \in IF "read" \in Faults THEN BOOLEAN ELSE {TRUE} :
       budget' =
         [budget EXCEPT
            !.at = IF step = 1 THEN "second" ELSE "reply",
            !.void = budget.void \/ ~ok,
            ![ReadInTurn(step)] =
               CASE ~ok -> 0
                 [] ReadInTurn(step) = "daily" -> today
                 [] OTHER -> thisMonth]
  /\ UNCHANGED <<pc, prompt, cost, gone, cached, ledger, unrecorded>>

BudgetReply ==
  /\ budget.at = "reply"
  /\ budget' = [at |-> "idle", daily |-> 0, monthly |-> 0, void |-> FALSE]
  /\ UNCHANGED <<pc, prompt, cost, gone, cached, ledger, unrecorded>>

(***************************************************************************)
(* Time: an answer's TTL passes, a day ends, perhaps with its month.       *)
(***************************************************************************)
Expire(p) ==
  /\ p \in cached
  /\ cached' = cached \ {p}
  /\ UNCHANGED <<pc, prompt, cost, gone, ledger, unrecorded, budget>>

Midnight ==
  /\ days < MaxDays
  /\ days' = days + 1
  /\ today' = 0
  /\ \/ UNCHANGED <<thisMonth, budget>>
     \/ /\ thisMonth' = 0
        /\ budget' = [budget EXCEPT !.void = (budget.at # "idle")]
  /\ UNCHANGED <<pc, prompt, cost, gone, cached, unrecorded>>

CallStep(c) ==
  \/ Lookup(c) \/ CheckDaily(c) \/ CheckMonthly(c)
  \/ Complete(c) \/ Store(c) \/ Record(c)

Next ==
  \/ \E c \in Calls : Ask(c) \/ Disconnect(c) \/ CallStep(c)
  \/ \E step \in 1..2 : BudgetRead(step)
  \/ BudgetReply
  \/ \E p \in Prompts : Expire(p)
  \/ Midnight

Spec == Init /\ [][Next]_vars

(***************************************************************************)
(* Properties.                                                             *)
(***************************************************************************)
TypeOK ==
  /\ pc \in [Calls -> Places]
  /\ prompt \in [Calls -> Prompts]
  /\ cost \in [Calls -> Costs \union {0}]
  /\ gone \in [Calls -> BOOLEAN]
  /\ cached \subseteq Prompts
  /\ today \in Nat /\ thisMonth \in Nat /\ days \in Nat
  /\ unrecorded \in Nat
  /\ budget \in [at : {"idle", "second", "reply"}, daily : Nat, monthly : Nat, void : BOOLEAN]

\* Calls that have passed the check of the day, or of the month, and may still
\* add to it.
PastDaily == {c \in Calls : pc[c] \in {"monthly", "complete", "store", "record"}}
PastMonthly == {c \in Calls : pc[c] \in {"complete", "store", "record"}}

\* Guard.Allow (guard.go:30) and Record are not atomic, so the limits are
\* overshot, but never by more than one answer per concurrent caller: what is
\* in the table and what the calls under way may still add stay below the
\* limit plus that, for the day and for the month.
SpendBounded ==
  LET slack == Cardinality(Calls) * MaxCost IN
  /\ today + Cardinality(PastDaily) * MaxCost < DailyLimit + slack
  /\ thisMonth + Cardinality(PastMonthly) * MaxCost < MonthlyLimit + slack

\* What the provider has charged and nobody has tried to record (engine.go:58)
\* is exactly the cost of the calls between the answer and Record: whatever
\* fails on the way, no answer that was paid for goes back to its caller
\* without an attempt to record it, and none is recorded twice.
BilledIsAccounted ==
  unrecorded =
    SumFunctionOnSet(cost, {c \in Calls : pc[c] \in {"store", "record"}})

\* The budget endpoint (ai_service.go:124) reads twice while calls are being
\* recorded; as it reads the day first, it never shows a day that costs more
\* than its month, unless a read failed or the month changed in between.
BudgetConsistent ==
  budget.at = "reply" /\ ~budget.void => budget.daily <= budget.monthly
=============================================================================
