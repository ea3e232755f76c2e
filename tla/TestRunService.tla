--------------------------- MODULE TestRunService ---------------------------
(***************************************************************************)
(* The life of one test run as its clients see it: TestRunService          *)
(* (backend/internal/service/test_run_service.go) with the handlers of     *)
(* api/test_run.go around it, on top of the runner.  Each e in Execs is    *)
(* one POST .../start with the goroutine it may spawn, each k in Cancels   *)
(* one POST .../cancel.  The handlers run concurrently, step by step: a    *)
(* step is one call on the store, on the cancellers map or on the runner.  *)
(*                                                                         *)
(* The context of a run is a child of the context of the Start request.    *)
(* net/http cancels that one when the handler returns or the client goes   *)
(* away, so this is where contexts get done here; Runner's CancelContext   *)
(* is not a step of this module.                                           *)
(***************************************************************************)
EXTENDS Runner

CONSTANTS
  Cancels,     \* calls of Cancel
  MaxCrashes,  \* how often the process may stop and be restarted
  NoExec       \* no canceller is stored

ASSUME ServiceAssumption ==
  /\ MaxCrashes \in Nat
  /\ NoExec \notin Execs

VARIABLES
  exists,     \* the row has been created
  start,      \* where each Start handler is
  reqDone,    \* the context of each Start request is done
  forgotten,  \* the goroutine of each Start has run its deferred function
  cancel,     \* where each Cancel handler is
  canceller,  \* cancellers[runID]: whose CancelFunc the map holds
  crashes     \* how often the process has stopped

serviceVars == <<exists, start, reqDone, forgotten, cancel, canceller, crashes>>
allVars == <<vars, serviceVars>>

ServiceInit ==
  /\ Init
  /\ exists = FALSE
  /\ start = [e \in Execs |-> "idle"]
  /\ reqDone = [e \in Execs |-> FALSE]
  /\ forgotten = [e \in Execs |-> FALSE]
  /\ cancel = [k \in Cancels |-> "idle"]
  /\ canceller = NoExec
  /\ crashes = 0

(***************************************************************************)
(* Create.  The service never sets Concurrency, so the row gets the        *)
(* column's default: instances of this module give Concurrency = 1.        *)
(***************************************************************************)
Create ==
  /\ ~exists
  /\ exists' = TRUE
  /\ UNCHANGED <<vars, start, reqDone, forgotten, cancel, canceller, crashes>>

(***************************************************************************)
(* Start.                                                                  *)
(***************************************************************************)
StartTo(e, label) == start' = [start EXCEPT ![e] = label]

\* FindByID: only a queued run goes on.
StartRead(e) ==
  /\ exists
  /\ start[e] = "idle"
  /\ StartTo(e, IF row.status = "queued" THEN "cases" ELSE "refused")
  /\ UNCHANGED <<vars, exists, reqDone, forgotten, cancel, canceller, crashes>>

\* ListByProject: fails on a dead request, and a run without cases is refused.
StartCases(e) ==
  /\ start[e] = "cases"
  /\ StartTo(e, IF reqDone[e] \/ NumCases = 0 THEN "refused" ELSE "store")
  /\ UNCHANGED <<vars, exists, reqDone, forgotten, cancel, canceller, crashes>>

\* WithCancel and cancellers.Store: an earlier entry is replaced.
StartStore(e) ==
  /\ start[e] = "store"
  /\ StartTo(e, "mark")
  /\ canceller' = e
  /\ UNCHANGED <<vars, exists, reqDone, forgotten, cancel, crashes>>

\* The row is marked running under the request's context; an error is dropped.
StartMark(e) ==
  /\ start[e] = "mark"
  /\ StartTo(e, "spawn")
  /\ \E ok \in IF reqDone[e] THEN {FALSE} ELSE
               IF "update" \in Faults THEN BOOLEAN ELSE {TRUE} :
       row' = IF ok THEN [row EXCEPT !.status = "running"] ELSE row
  /\ UNCHANGED <<mode, callVars, ctxDone, results, events, exists, reqDone,
                 forgotten, cancel, canceller, crashes>>

\* go func: runner.Run is called in a goroutine of its own.
StartSpawn(e) ==
  /\ start[e] = "spawn"
  /\ StartTo(e, "reply")
  /\ Call(e)
  /\ UNCHANGED <<exists, reqDone, forgotten, cancel, canceller, crashes>>

\* The request's context is done, and with it the run's.
EndRequest(e) ==
  /\ reqDone' = [reqDone EXCEPT ![e] = TRUE]
  /\ ctxDone' = [ctxDone EXCEPT ![e] = TRUE]

\* FindByID for the answer, and the handler returns.
StartReply(e) ==
  /\ start[e] = "reply"
  /\ StartTo(e, "replied")
  /\ EndRequest(e)
  /\ UNCHANGED <<mode, callVars, row, results, events, exists, forgotten, cancel,
                 canceller, crashes>>

\* The client of a Start goes away before the answer.
Disconnect(e) ==
  /\ start[e] \in {"cases", "store", "mark", "spawn", "reply"}
  /\ ~reqDone[e]
  /\ EndRequest(e)
  /\ UNCHANGED <<mode, callVars, row, results, events, exists, start, forgotten,
                 cancel, canceller, crashes>>

\* The deferred function of the goroutine: cancellers.Delete, then cancel().
\* (The variant that does not delete is a faulty one.)
ForgetWithoutDelete(e) ==
  /\ pc[e] = "returned"
  /\ ~forgotten[e]
  /\ forgotten' = [forgotten EXCEPT ![e] = TRUE]
  /\ ctxDone' = [ctxDone EXCEPT ![e] = TRUE]
  /\ UNCHANGED <<mode, callVars, row, results, events, exists, start, reqDone,
                 cancel, canceller, crashes>>

Forget(e) ==
  /\ pc[e] = "returned"
  /\ ~forgotten[e]
  /\ forgotten' = [forgotten EXCEPT ![e] = TRUE]
  /\ canceller' = NoExec
  /\ ctxDone' = [ctxDone EXCEPT ![e] = TRUE]
  /\ UNCHANGED <<mode, callVars, row, results, events, exists, start, reqDone,
                 cancel, crashes>>

(***************************************************************************)
(* Cancel.                                                                 *)
(***************************************************************************)
CancelTo(k, label) == cancel' = [cancel EXCEPT ![k] = label]

\* FindByID: only a queued or running run can be cancelled.
CancelRead(k) ==
  /\ exists
  /\ cancel[k] = "idle"
  /\ CancelTo(k, IF row.status \in {"running", "queued"} THEN "signal" ELSE "refused")
  /\ UNCHANGED <<vars, exists, start, reqDone, forgotten, canceller, crashes>>

\* The CancelFunc in the map is called, if there is one.
CancelSignal(k) ==
  /\ cancel[k] = "signal"
  /\ CancelTo(k, "update")
  /\ ctxDone' = [e \in Execs |-> ctxDone[e] \/ e = canceller]
  /\ UNCHANGED <<mode, callVars, row, results, events, exists, start, reqDone,
                 forgotten, canceller, crashes>>

\* The row becomes cancelled, unless the client has gone away.
CancelUpdate(k) ==
  /\ cancel[k] = "update"
  /\ \E ok \in BOOLEAN :
       /\ CancelTo(k, IF ok THEN "replied" ELSE "failed")
       /\ row' = IF ok THEN [row EXCEPT !.status = "cancelled"] ELSE row
  /\ UNCHANGED <<mode, callVars, ctxDone, results, events, exists, start, reqDone,
                 forgotten, canceller, crashes>>

(***************************************************************************)
(* The process stops: goroutines and the cancellers map are gone, rows and *)
(* published events stay.  A graceful stop looks the same to a run, since  *)
(* the server waits for its handlers only.                                 *)
(***************************************************************************)
Crash ==
  /\ crashes < MaxCrashes
  /\ crashes' = crashes + 1
  /\ canceller' = NoExec
  /\ start' = [e \in Execs |-> IF start[e] \in {"idle", "replied", "refused"}
                               THEN start[e] ELSE "failed"]
  /\ cancel' = [k \in Cancels |-> IF cancel[k] \in {"signal", "update"}
                                  THEN "failed" ELSE cancel[k]]
  /\ pc' = [e \in Execs |-> IF pc[e] = "idle" THEN "idle" ELSE "returned"]
  /\ forgotten' = [e \in Execs |-> pc[e] # "idle"]
  /\ reqDone' = [e \in Execs |-> start[e] # "idle"]
  /\ ctxDone' = [e \in Execs |-> start[e] # "idle"]
  /\ worker' = [e \in Execs |-> [c \in Cases |->
                  IF worker[e][c] = "idle" THEN "idle" ELSE "done"]]
  /\ sem' = [e \in Execs |-> 0]
  /\ wg' = [e \in Execs |-> 0]
  /\ UNCHANGED <<mode, status, next, verdict, tally, snap, row, results, events,
                 exists>>

\* Nothing is left to do: every handler has ended and every goroutine too.
AllDone ==
  /\ exists
  /\ \A e \in Execs : /\ start[e] \in {"replied", "refused", "failed"}
                      /\ pc[e] # "idle" => forgotten[e]
  /\ \A k \in Cancels : cancel[k] \in {"replied", "refused", "failed"}
  /\ UNCHANGED allVars

StartStep(e) ==
  \/ StartCases(e)
  \/ StartStore(e)
  \/ StartMark(e)
  \/ StartSpawn(e)
  \/ StartReply(e)

RunStep(e) == RunnerStep(e) /\ UNCHANGED serviceVars

ServiceNext ==
  \/ Create
  \/ \E e \in Execs : \/ StartRead(e) \/ StartStep(e) \/ Disconnect(e)
                      \/ RunStep(e) \/ Forget(e)
  \/ \E k \in Cancels : CancelRead(k) \/ CancelSignal(k) \/ CancelUpdate(k)
  \/ Crash
  \/ AllDone

\* Handlers and goroutines that can go on do so; no client has to call
\* anything, and no process has to stop.
ServiceFairness ==
  \A e \in Execs :
    /\ WF_allVars(StartStep(e))
    /\ WF_allVars(MainStep(e) /\ UNCHANGED serviceVars)
    /\ \A c \in Cases : WF_allVars(WorkerStep(e, c) /\ UNCHANGED serviceVars)
    /\ WF_allVars(Forget(e))

ServiceSpec == ServiceInit /\ [][ServiceNext]_allVars
FairServiceSpec == ServiceSpec /\ ServiceFairness

-----------------------------------------------------------------------------
\* The handlers' positions and the shared state keep their types.
ServiceTypeOK ==
  /\ TypeOK
  /\ exists \in BOOLEAN
  /\ start \in [Execs -> {"idle", "cases", "store", "mark", "spawn", "reply",
                          "replied", "refused", "failed"}]
  /\ reqDone \in [Execs -> BOOLEAN]
  /\ forgotten \in [Execs -> BOOLEAN]
  /\ cancel \in [Cancels -> {"idle", "signal", "update", "replied", "refused",
                             "failed"}]
  /\ canceller \in Execs \cup {NoExec}
  /\ crashes \in 0 .. MaxCrashes

\* Start admits a run on the strength of its row alone ("queued").  As long as
\* updates on a live context succeed, no case of a queued run has ever been
\* executed and nothing was published: not by a Start whose client went away,
\* not before a crash.
QueuedMeansUntouched ==
  "update" \notin Faults /\ row.status = "queued" =>
    /\ \A e \in Execs, c \in Cases : worker[e][c] = "idle"
    /\ results = {}
    /\ events = <<>>

\* The cancellers map never keeps the CancelFunc of a goroutine that has run
\* its deferred function: no entry leaks, and Cancel never calls a dead one.
CancellerNotStale == canceller # NoExec => ~forgotten[canceller]

\* A row that says success or failed shows the status and the counters of one
\* and the same call of Run, never a mixture of two calls on the row.
TerminalRowIsOneReport ==
  row.status \in {"success", "failed"} =>
    \E e \in Execs :
      /\ pc[e] = "returned"
      /\ status[e] = row.status
      /\ tally[e] = row.tally
      /\ row.finished

(***************************************************************************)
(* What comments and documents say and the code does not do.               *)
(***************************************************************************)

\* runner.go:70, "Guard: don't overwrite a cancelled run's status": the final
\* update of a call of Run, which that guard is there for, leaves a row that is
\* already cancelled as it is.
CancelledIsKept ==
  [][\A e \in Execs : pc[e] = "save" /\ pc'[e] = "returned" /\ row.status = "cancelled"
       => row'.status = "cancelled"]_allVars

\* ADR-0006: the runner "runs in a single goroutine per test_runs row".
OneGoroutinePerRow ==
  \A d, e \in Execs :
    pc[d] \notin {"idle", "returned"} /\ pc[e] \notin {"idle", "returned"} => d = e

\* test_run_service.go:86-87, "Run asynchronously so the HTTP request returns
\* immediately.  The caller watches progress via SSE or polls": once Start is
\* about to answer a client that is still there with a running run, the row
\* the client polls ends up with a result.
StartedRunsSettle ==
  (row.status = "running" /\ \E e \in Execs : start[e] = "reply" /\ ~reqDone[e])
    ~> row.status \in {"success", "failed", "cancelled"}

=============================================================================
