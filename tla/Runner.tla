------------------------------- MODULE Runner -------------------------------
(***************************************************************************)
(* The test runner of the backend: runner.Run and the goroutines it starts *)
(* (backend/internal/runner/runner.go).  One test_runs row is modelled,    *)
(* since the row, its results, its events and its canceller are all keyed  *)
(* by the run's id.  Each element of Execs is one call of Run on that row: *)
(* Run itself does not stop two callers from running the same row.         *)
(*                                                                         *)
(* Run only talks to the outside through four interfaces: Execute sends    *)
(* the HTTP request of a case, the persister inserts a test_results row,   *)
(* the updater updates the test_runs row, the publisher publishes an       *)
(* event.  All four take the context of the run, and the implementations   *)
(* the server wires in (net/http, database/sql below GORM, go-redis)       *)
(* refuse to start on a context that is done.                              *)
(*                                                                         *)
(* Where a definition is preceded by another with a longer name            *)
(* (HasNextOffByOne before HasNext) that one is a faulty variant; it is    *)
(* used by no action and serves to test that the properties notice it.     *)
(***************************************************************************)
EXTENDS Integers, Sequences, FiniteSets

CONSTANTS
  Execs,        \* calls of runner.Run on the row
  Modes,        \* values run.Mode can have
  NumCases,     \* len(cases): how many test cases the run has
  Concurrency,  \* run.Concurrency
  Faults        \* calls that may fail although their context is live, and
                \* "answer": an insert may report an error and still be done

ASSUME RunnerAssumption ==
  /\ Modes \subseteq {"sequential", "parallel"}
  /\ NumCases \in Nat
  /\ Concurrency \in Int
  /\ Faults \subseteq {"insert", "answer", "update", "publish"}

Cases == 1 .. NumCases

\* Execute never reports "skip", so the fourth counter, run.Skipped, stays 0.
Verdicts == {"pass", "fail", "error"}
ZeroTally == [v \in Verdicts |-> 0]

VARIABLES
  mode,     \* run.Mode, fixed when the row is created
  pc,       \* where the goroutine of a call of Run is
  status,   \* run.Status of the call's own copy of the row
  next,     \* index of the case the dispatch loop is at
  worker,   \* where execOne is for each case
  verdict,  \* result.Status of each case
  tally,    \* run.Passed, run.Failed, run.Errored of the call's copy
  snap,     \* the snapshot aggregate returned to each execOne
  sem,      \* len(sem): tokens in the semaphore channel
  wg,       \* counter of the WaitGroup
  ctxDone,  \* the context of the call is done
  row,      \* the test_runs row
  results,  \* the test_results rows
  events    \* everything published on the run's channel, oldest first

callVars == <<pc, status, next, worker, verdict, tally, snap, sem, wg>>
vars == <<mode, callVars, ctxDone, row, results, events>>

(***************************************************************************)
(* What the calls to the outside do.                                       *)
(***************************************************************************)

\* The possible outcomes (TRUE: no error) of a call of kind op made by e.
Outcomes(e, op) ==
  IF ctxDone[e] THEN {FALSE} ELSE IF op \in Faults THEN BOOLEAN ELSE {TRUE}

\* updater.Update: an error is only logged (logUpdateErr).
UpdateRow(e, new) ==
  \E ok \in Outcomes(e, "update") : row' = IF ok THEN new ELSE row

\* pub.Publish: an error is only logged (logPubErr).
Publish(e, event) ==
  \E ok \in Outcomes(e, "publish") :
    events' = IF ok THEN Append(events, event) ELSE events

Event(e, type, counts, st) ==
  [exec |-> e, type |-> type, tally |-> counts, status |-> st]

Parallel == mode = "parallel" /\ Concurrency > 1

Quiet(e) == \A c \in Cases : worker[e][c] \in {"idle", "done"}

GoTo(e, label) == pc' = [pc EXCEPT ![e] = label]

-----------------------------------------------------------------------------

Init ==
  /\ mode \in Modes
  /\ pc = [e \in Execs |-> "idle"]
  /\ status = [e \in Execs |-> "queued"]
  /\ next = [e \in Execs |-> 1]
  /\ worker = [e \in Execs |-> [c \in Cases |-> "idle"]]
  /\ verdict = [e \in Execs |-> [c \in Cases |-> "none"]]
  /\ tally = [e \in Execs |-> ZeroTally]
  /\ snap = [e \in Execs |-> [c \in Cases |-> ZeroTally]]
  /\ sem = [e \in Execs |-> 0]
  /\ wg = [e \in Execs |-> 0]
  /\ ctxDone = [e \in Execs |-> FALSE]
  /\ row = [status |-> "queued", tally |-> ZeroTally, finished |-> FALSE]
  /\ results = {}
  /\ events = <<>>

(***************************************************************************)
(* The goroutine of Run.                                                   *)
(***************************************************************************)

\* Run is called.
Call(e) ==
  /\ pc[e] = "idle"
  /\ GoTo(e, "start")
  /\ UNCHANGED <<mode, status, next, worker, verdict, tally, snap, sem, wg,
                 ctxDone, row, results, events>>

\* Run marks its copy and the row as running.
MarkRunning(e) ==
  /\ pc[e] = "start"
  /\ GoTo(e, "loop")
  /\ status' = [status EXCEPT ![e] = "running"]
  /\ UpdateRow(e, [row EXCEPT !.status = "running"])
  /\ UNCHANGED <<mode, next, worker, verdict, tally, snap, sem, wg, ctxDone,
                 results, events>>

\* The head of both dispatch loops.  A sequential loop gets back to it when
\* execOne has returned, a parallel one as soon as a goroutine is started.
AtLoopHead(e) == pc[e] = "loop" /\ (Parallel \/ Quiet(e))

\* The range over the cases has an element left.
HasNextOffByOne(e) == next[e] <= NumCases + 1
HasNext(e) == next[e] <= NumCases

\* The select takes its default branch.
LiveUnchecked(e) == TRUE
Live(e) == ~ctxDone[e]

\* A send on sem does not block.
HasTokenOffByOne(e) == sem[e] <= Concurrency
HasToken(e) == sem[e] < Concurrency

\* Where a loop goes when it ends: runParallel waits for its goroutines.
LoopExitWithoutWait == "guard"
LoopExit == IF Parallel THEN "drain" ELSE "guard"

\* select: the context is done before the next case.
SeeCancel(e) ==
  /\ AtLoopHead(e)
  /\ HasNext(e)
  /\ ctxDone[e]
  /\ GoTo(e, "cancelSave")
  /\ status' = [status EXCEPT ![e] = "cancelled"]
  /\ UNCHANGED <<mode, next, worker, verdict, tally, snap, sem, wg, ctxDone,
                 row, results, events>>

\* select default, sequential: execOne is called in the goroutine of Run.
RunNextCase(e) ==
  /\ ~Parallel
  /\ AtLoopHead(e)
  /\ HasNext(e)
  /\ Live(e)
  /\ worker' = [worker EXCEPT ![e][next[e]] = "execute"]
  /\ next' = [next EXCEPT ![e] = @ + 1]
  /\ UNCHANGED <<mode, pc, status, verdict, tally, snap, sem, wg, ctxDone, row,
                 results, events>>

\* select default, parallel: wg.Add(1), then the send on sem may block.
AddToGroup(e) ==
  /\ Parallel
  /\ AtLoopHead(e)
  /\ HasNext(e)
  /\ Live(e)
  /\ GoTo(e, "acquire")
  /\ wg' = [wg EXCEPT ![e] = @ + 1]
  /\ UNCHANGED <<mode, status, next, worker, verdict, tally, snap, sem, ctxDone,
                 row, results, events>>

\* sem has room: the case gets a goroutine of its own.  The context is not
\* looked at again.
StartWorker(e) ==
  /\ pc[e] = "acquire"
  /\ HasToken(e)
  /\ GoTo(e, "loop")
  /\ sem' = [sem EXCEPT ![e] = @ + 1]
  /\ worker' = [worker EXCEPT ![e][next[e]] = "execute"]
  /\ next' = [next EXCEPT ![e] = @ + 1]
  /\ UNCHANGED <<mode, status, verdict, tally, snap, wg, ctxDone, row, results,
                 events>>

\* Every case has been dispatched.
LeaveLoop(e) ==
  /\ AtLoopHead(e)
  /\ ~HasNext(e)
  /\ GoTo(e, LoopExit)
  /\ UNCHANGED <<mode, status, next, worker, verdict, tally, snap, sem, wg,
                 ctxDone, row, results, events>>

\* wg.Wait, after the loop or on the way out of a cancelled one.
Drain(e) ==
  /\ pc[e] = "drain"
  /\ wg[e] = 0
  /\ GoTo(e, "guard")
  /\ UNCHANGED <<mode, status, next, worker, verdict, tally, snap, sem, wg,
                 ctxDone, row, results, events>>

\* The cancelled loop writes the row ...
SaveCancel(e) ==
  /\ pc[e] = "cancelSave"
  /\ GoTo(e, "cancelPublish")
  /\ UpdateRow(e, [row EXCEPT !.status = "cancelled", !.finished = TRUE])
  /\ UNCHANGED <<mode, status, next, worker, verdict, tally, snap, sem, wg,
                 ctxDone, results, events>>

\* ... and announces the end with an event that carries no counters.
PublishCancel(e) ==
  /\ pc[e] = "cancelPublish"
  /\ GoTo(e, LoopExit)
  /\ Publish(e, Event(e, "complete", ZeroTally, "cancelled"))
  /\ UNCHANGED <<mode, status, next, worker, verdict, tally, snap, sem, wg,
                 ctxDone, row, results>>

\* The guard: a call that saw the cancellation only stamps finished_at.
StampCancelled(e) ==
  /\ pc[e] = "guard"
  /\ status[e] = "cancelled"
  /\ GoTo(e, "returned")
  /\ UpdateRow(e, [row EXCEPT !.finished = TRUE])
  /\ UNCHANGED <<mode, status, next, worker, verdict, tally, snap, sem, wg,
                 ctxDone, results, events>>

ConclusionFromFailuresOnly(e) ==
  IF tally[e]["fail"] > 0 THEN "failed" ELSE "success"
Conclusion(e) ==
  IF tally[e]["fail"] > 0 \/ tally[e]["error"] > 0 THEN "failed" ELSE "success"

\* Any other call decides the status and announces it, then saves it.
Conclude(e) ==
  /\ pc[e] = "guard"
  /\ status[e] # "cancelled"
  /\ GoTo(e, "save")
  /\ status' = [status EXCEPT ![e] = Conclusion(e)]
  /\ Publish(e, Event(e, "complete", tally[e], Conclusion(e)))
  /\ UNCHANGED <<mode, next, worker, verdict, tally, snap, sem, wg, ctxDone,
                 row, results>>

FinalRowWithoutCounters(e) ==
  [row EXCEPT !.status = status[e], !.finished = TRUE]
FinalRow(e) == [status |-> status[e], tally |-> tally[e], finished |-> TRUE]

SaveConclusion(e) ==
  /\ pc[e] = "save"
  /\ GoTo(e, "returned")
  /\ UpdateRow(e, FinalRow(e))
  /\ UNCHANGED <<mode, status, next, worker, verdict, tally, snap, sem, wg,
                 ctxDone, results, events>>

MainStep(e) ==
  \/ MarkRunning(e)
  \/ SeeCancel(e)
  \/ RunNextCase(e)
  \/ AddToGroup(e)
  \/ StartWorker(e)
  \/ LeaveLoop(e)
  \/ Drain(e)
  \/ SaveCancel(e)
  \/ PublishCancel(e)
  \/ StampCancelled(e)
  \/ Conclude(e)
  \/ SaveConclusion(e)

(***************************************************************************)
(* execOne.                                                                *)
(***************************************************************************)

Advance(e, c, from, to) ==
  /\ worker[e][c] = from
  /\ worker' = [worker EXCEPT ![e][c] = to]

\* Execute sends the request and checks the answer, and the hook sees the
\* result.  On a context that is done the request fails.
ExecuteCase(e, c) ==
  /\ Advance(e, c, "execute", "persist")
  /\ \E v \in Verdicts :
       /\ ctxDone[e] => v = "error"
       /\ verdict' = [verdict EXCEPT ![e][c] = v]
  /\ UNCHANGED <<mode, pc, status, next, tally, snap, sem, wg, ctxDone, row,
                 results, events>>

\* The verdict that is counted, given whether its row was inserted.
VerdictIgnoringInsert(ok, v) == v
VerdictAfterInsert(ok, v) == IF ok THEN v ELSE "error"

\* persister.Create: an error turns the verdict into an error.  A row that was
\* not inserted is always an error; one that was is an error if its answer got
\* lost.
PersistResult(e, c) ==
  /\ Advance(e, c, "persist", "aggregate")
  /\ \E stored \in Outcomes(e, "insert") :
     \E ok \in IF stored /\ "answer" \in Faults THEN BOOLEAN ELSE {stored} :
       /\ results' = IF stored
                     THEN results \cup {[exec |-> e, case |-> c,
                                         verdict |-> verdict[e][c]]}
                     ELSE results
       /\ verdict' = [verdict EXCEPT ![e][c] = VerdictAfterInsert(ok, @)]
  /\ UNCHANGED <<mode, pc, status, next, tally, snap, sem, wg, ctxDone, row,
                 events>>

\* The switch in aggregate.
IncrementButErrors(t, v) == IF v = "error" THEN t ELSE [t EXCEPT ![v] = @ + 1]
Increment(t, v) == [t EXCEPT ![v] = @ + 1]

\* aggregate: count and copy the counters in one critical section.
Aggregate(e, c) ==
  /\ Advance(e, c, "aggregate", "publish")
  /\ tally' = [tally EXCEPT ![e] = Increment(@, verdict[e][c])]
  /\ snap' = [snap EXCEPT ![e][c] = tally'[e]]
  /\ UNCHANGED <<mode, pc, status, next, verdict, sem, wg, ctxDone, row, results,
                 events>>

\* The counters a progress event shows.
ShownRacy(e, c) == tally[e]
Shown(e, c) == snap[e][c]

\* The progress event, outside the lock.  The snapshot goes out of scope.
PublishProgress(e, c) ==
  /\ Advance(e, c, "publish", IF Parallel THEN "release" ELSE "done")
  /\ Publish(e, Event(e, "progress", Shown(e, c), "running"))
  /\ snap' = [snap EXCEPT ![e][c] = ZeroTally]
  /\ UNCHANGED <<mode, pc, status, next, verdict, tally, sem, wg, ctxDone, row,
                 results>>

\* The deferred calls of a parallel worker, last one first.
ReleaseTokenLeaked(e, c) ==
  /\ Advance(e, c, "release", "leave")
  /\ UNCHANGED <<mode, pc, status, next, verdict, tally, snap, sem, wg, ctxDone,
                 row, results, events>>

ReleaseToken(e, c) ==
  /\ Advance(e, c, "release", "leave")
  /\ sem' = [sem EXCEPT ![e] = @ - 1]
  /\ UNCHANGED <<mode, pc, status, next, verdict, tally, snap, wg, ctxDone, row,
                 results, events>>

LeaveGroup(e, c) ==
  /\ Advance(e, c, "leave", "done")
  /\ wg' = [wg EXCEPT ![e] = @ - 1]
  /\ UNCHANGED <<mode, pc, status, next, verdict, tally, snap, sem, ctxDone, row,
                 results, events>>

WorkerStep(e, c) ==
  \/ ExecuteCase(e, c)
  \/ PersistResult(e, c)
  \/ Aggregate(e, c)
  \/ PublishProgress(e, c)
  \/ ReleaseToken(e, c)
  \/ LeaveGroup(e, c)

RunnerStep(e) == MainStep(e) \/ \E c \in Cases : WorkerStep(e, c)

\* The caller cancels the context, at any moment.
CancelContext(e) ==
  /\ ~ctxDone[e]
  /\ pc[e] # "returned"
  /\ ctxDone' = [ctxDone EXCEPT ![e] = TRUE]
  /\ UNCHANGED <<mode, callVars, row, results, events>>

\* Nothing is left to do once every call has returned.
Finished ==
  /\ \A e \in Execs : pc[e] = "returned"
  /\ UNCHANGED vars

Next ==
  \/ \E e \in Execs : Call(e) \/ RunnerStep(e) \/ CancelContext(e)
  \/ Finished

\* Goroutines that can run do run, and Execute returns within the 30 seconds
\* of its client.  Nobody has to call Run or to cancel a context.
Fairness ==
  \A e \in Execs :
    /\ WF_vars(MainStep(e))
    /\ \A c \in Cases : WF_vars(WorkerStep(e, c))

Spec == Init /\ [][Next]_vars
FairSpec == Spec /\ Fairness

-----------------------------------------------------------------------------
Labels == {"idle", "start", "loop", "acquire", "drain", "cancelSave",
           "cancelPublish", "guard", "save", "returned"}
Phases == {"idle", "execute", "persist", "aggregate", "publish", "release",
           "leave", "done"}
Statuses == {"queued", "running", "cancelled", "success", "failed"}
Tallies == [Verdicts -> Nat]
EventTypes == [exec : Execs, type : {"progress", "complete"}, tally : Tallies,
               status : Statuses]

\* Every variable holds what its Go counterpart can hold; in particular
\* neither the semaphore nor the wait group drops below zero, which would
\* block a receive for ever or panic in wg.Done.
TypeOK ==
  /\ mode \in Modes
  /\ pc \in [Execs -> Labels]
  /\ status \in [Execs -> Statuses]
  /\ next \in [Execs -> 1 .. NumCases + 1]
  /\ worker \in [Execs -> [Cases -> Phases]]
  /\ verdict \in [Execs -> [Cases -> Verdicts \cup {"none"}]]
  /\ tally \in [Execs -> Tallies]
  /\ snap \in [Execs -> [Cases -> Tallies]]
  /\ sem \in [Execs -> Nat]
  /\ wg \in [Execs -> Nat]
  /\ ctxDone \in [Execs -> BOOLEAN]
  /\ row \in [status : Statuses, tally : Tallies, finished : BOOLEAN]
  /\ results \subseteq [exec : Execs, case : Cases, verdict : Verdicts]
  /\ events \in Seq(EventTypes)

Executing(e) == {c \in Cases : worker[e][c] \in
                   {"execute", "persist", "aggregate", "publish"}}
Busy(e) == {c \in Cases : worker[e][c] \notin {"idle", "done"}}
Limit == IF Parallel THEN Concurrency ELSE 1

\* runParallel's semaphore and runSequential's loop: a call never has more
\* cases in execOne at once than the run's concurrency allows.
BoundedConcurrency == \A e \in Execs : Cardinality(Executing(e)) <= Limit

\* wg.Wait on both ways out of runParallel: once Run reads the counters and
\* decides, no goroutine it started is still running.
NoWorkerOutlivesLoop ==
  \A e \in Execs : pc[e] \in {"guard", "save", "returned"} => Busy(e) = {}

\* Run reports success, in the row or in an event, only for a call in which
\* every single case passed and whose results are all stored as passed.
AllPassed(e) ==
  \A c \in Cases :
    /\ verdict[e][c] = "pass"
    /\ [exec |-> e, case |-> c, verdict |-> "pass"] \in results

SuccessIsEarned ==
  /\ \A e \in Execs : status[e] = "success" => AllPassed(e)
  /\ row.status = "success" => \E e \in Execs : AllPassed(e)
  /\ \A i \in 1 .. Len(events) :
       events[i].status = "success" => AllPassed(events[i].exec)

Sum(t) == t["pass"] + t["fail"] + t["error"]

\* The counters of a concluded call are the numbers of its verdicts and add
\* up to the number of cases (runner_test.go asserts the sum for one run).
CountersAddUp ==
  \A e \in Execs : status[e] \in {"success", "failed"} =>
    /\ \A v \in Verdicts :
         tally[e][v] = Cardinality({c \in Cases : verdict[e][c] = v})
    /\ Sum(tally[e]) = NumCases

\* aggregate hands every execOne a snapshot of its own ("so callers can read
\* without racing"): two progress events of a call never show the same count.
SnapshotsDistinct ==
  \A i, j \in 1 .. Len(events) :
    /\ i # j
    /\ events[i].exec = events[j].exec
    /\ events[i].type = "progress"
    /\ events[j].type = "progress"
    => Sum(events[i].tally) # Sum(events[j].tally)

\* "complete" is the last thing a subscriber hears of a call: Stream closes
\* the connection on it, so a later event of the call would be lost.
CompleteIsLast ==
  \A i, j \in 1 .. Len(events) :
    /\ events[i].exec = events[j].exec
    /\ events[i].type = "complete"
    => j <= i

\* With one caller whose context stays live, a returned call leaves a row
\* that is finished and shows the call's status and counters.
SettledUnlessCancelled ==
  \A e \in Execs :
    /\ Execs = {e}
    /\ "update" \notin Faults
    /\ pc[e] = "returned"
    /\ ~ctxDone[e]
    => row = [status |-> status[e], tally |-> tally[e], finished |-> TRUE]

\* The verdicts counted so far and the conclusion drawn, as RunReport sees them.
Counted(e, c) == worker[e][c] \in {"publish", "release", "leave", "done"}
Report == INSTANCE RunReport WITH
  report <- [e \in Execs |-> [c \in Cases |->
               IF Counted(e, c) THEN verdict[e][c] ELSE "none"]],
  conclusion <- [e \in Execs |->
               IF status[e] \in {"queued", "running"} THEN "pending" ELSE status[e]]

\* Run implements RunReport: each case is counted once, the conclusion follows
\* from all the verdicts, and a cancelled call never counts every case.
ImplementsRunReport == Report!Spec

\* Every call of Run returns: neither the semaphore nor wg.Wait blocks for
\* ever, whatever is cancelled and whatever fails.
RunReturns == \A e \in Execs : (pc[e] = "start") ~> (pc[e] = "returned")

=============================================================================
