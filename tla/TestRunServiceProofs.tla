------------------------ MODULE TestRunServiceProofs ------------------------
(***************************************************************************)
(* What holds of a test run and its handlers for any number of Starts and  *)
(* Cancels, however often the process stops.  The theorems are about rows  *)
(* whose concurrency is at most 1: Create leaves it at the column's        *)
(* default, so those are the rows the service makes.                       *)
(***************************************************************************)
EXTENDS TestRunService, RunnerProofs

(***************************************************************************)
(* The inductive invariant.                                                *)
(***************************************************************************)

\* A call of Run works on its cases only inside its loop, one after the other.
Alone(e) ==
  /\ pc[e] # "loop" => Quiet(e)
  /\ pc[e] \notin {"acquire", "drain"}
  /\ \A c \in Cases : /\ worker[e][c] \notin {"release", "leave"}
                      /\ worker[e][c] \in {"persist", "aggregate"}
                           => verdict[e][c] \in Verdicts
  /\ pc[e] = "save" => status[e] \in {"success", "failed"}

\* The handler, the goroutine it spawns and the context they share move together.
Handled(e) ==
  /\ pc[e] # "idle" => start[e] \in {"reply", "replied", "failed"}
  /\ forgotten[e] => pc[e] = "returned"
  /\ reqDone[e] => ctxDone[e]

\* A row only stays queued past the update in Start because the context is done,
\* and then the run has a context on which nothing works.
Blocked ==
  "update" \notin Faults /\ row.status = "queued" =>
    \A e \in Execs :
      start[e] = "spawn" \/ pc[e] \notin {"idle", "returned"} => ctxDone[e]

SInv ==
  /\ ServiceTypeOK
  /\ \A e \in Execs : Alone(e)
  /\ \A e \in Execs : Handled(e)
  /\ CancellerNotStale
  /\ Blocked
  /\ QueuedMeansUntouched
  /\ TerminalRowIsOneReport

(***************************************************************************)
(* What a step leaves alone.                                               *)
(***************************************************************************)

\* The steps of a sequential call of Run.
SequentialStep(e) ==
  \/ MarkRunning(e) \/ SeeCancel(e) \/ RunNextCase(e) \/ LeaveLoop(e)
  \/ SaveCancel(e) \/ PublishCancel(e) \/ StampCancelled(e) \/ Conclude(e)
  \/ SaveConclusion(e)
  \/ \E c \in Cases : \/ ExecuteCase(e, c) \/ PersistResult(e, c)
                      \/ Aggregate(e, c) \/ PublishProgress(e, c)

\* With a concurrency of at most 1 even a parallel run uses the sequential loop.
LEMMA NotParallel == Concurrency <= 1 => ~Parallel
BY RunnerAssumption DEF Parallel

\* So the parallel loop's own steps never happen.
LEMMA StepsAreSequential ==
  ASSUME Concurrency <= 1, NEW e \in Execs, Alone(e), RunnerStep(e)
  PROVE  SequentialStep(e)
BY NotParallel DEF Alone, RunnerStep, MainStep, WorkerStep, SequentialStep,
   AddToGroup, StartWorker, Drain, ReleaseToken, LeaveGroup, Advance

\* Only a call that is under way makes steps.
LEMMA Underway ==
  ASSUME NEW e \in Execs, Alone(e), SequentialStep(e)
  PROVE  pc[e] \notin {"idle", "returned"}
BY DEF Alone, Quiet, SequentialStep, MarkRunning, SeeCancel, RunNextCase, LeaveLoop,
   SaveCancel, PublishCancel, StampCancelled, Conclude, SaveConclusion, AtLoopHead,
   ExecuteCase, PersistResult, Aggregate, PublishProgress, Advance

\* A step of a call of Run leaves the contexts and the other calls alone.
LEMMA CallFrame ==
  ASSUME TypeOK, NEW e \in Execs, SequentialStep(e)
  PROVE  /\ UNCHANGED <<mode, ctxDone, sem, wg>>
         /\ \A d \in Execs \ {e} : /\ pc'[d] = pc[d]
                                   /\ status'[d] = status[d]
                                   /\ worker'[d] = worker[d]
                                   /\ verdict'[d] = verdict[d]
                                   /\ tally'[d] = tally[d]
<1>1. /\ pc \in [Execs -> Labels] /\ status \in [Execs -> Statuses]
      /\ worker \in [Execs -> [Cases -> Phases]]
      /\ verdict \in [Execs -> [Cases -> Verdicts \cup {"none"}]]
      /\ tally \in [Execs -> Tallies]
  BY DEF TypeOK
<1>2. CASE MarkRunning(e) \/ SeeCancel(e) \/ LeaveLoop(e) \/ SaveCancel(e)
  BY <1>1, <1>2 DEF MarkRunning, SeeCancel, LeaveLoop, SaveCancel, AtLoopHead, GoTo, LoopExit
<1>3. CASE PublishCancel(e) \/ StampCancelled(e) \/ Conclude(e) \/ SaveConclusion(e)
  BY <1>1, <1>3 DEF PublishCancel, StampCancelled, Conclude, SaveConclusion, GoTo, LoopExit
<1>4. CASE RunNextCase(e)
  BY <1>1, <1>4 DEF RunNextCase
<1>5. ASSUME NEW c \in Cases,
             ExecuteCase(e, c) \/ PersistResult(e, c) \/ Aggregate(e, c)
               \/ PublishProgress(e, c)
      PROVE  /\ UNCHANGED <<mode, ctxDone, sem, wg, pc, status>>
             /\ \A d \in Execs \ {e} : /\ worker'[d] = worker[d]
                                       /\ verdict'[d] = verdict[d]
                                       /\ tally'[d] = tally[d]
  BY <1>1, <1>5 DEF ExecuteCase, PersistResult, Aggregate, PublishProgress, Advance
<1>6. QED
  BY <1>2, <1>3, <1>4, <1>5 DEF SequentialStep

(***************************************************************************)
(* Types.                                                                  *)
(***************************************************************************)

\* The steps of a sequential call keep the types of the runner's variables.
LEMMA RunTypes ==
  ASSUME TypeOK, NEW e \in Execs, Alone(e), SequentialStep(e), ~Parallel
  PROVE  TypeOK'
<1>0. /\ pc \in [Execs -> Labels] /\ status \in [Execs -> Statuses]
      /\ worker \in [Execs -> [Cases -> Phases]]
      /\ verdict \in [Execs -> [Cases -> Verdicts \cup {"none"}]]
      /\ tally \in [Execs -> Tallies] /\ snap \in [Execs -> [Cases -> Tallies]]
      /\ row \in [status : Statuses, tally : Tallies, finished : BOOLEAN]
      /\ events \in Seq(EventTypes)
      /\ results \subseteq [exec : Execs, case : Cases, verdict : Verdicts]
  BY DEF TypeOK
<1>2. CASE MarkRunning(e)
  <2>1. row' \in [status : Statuses, tally : Tallies, finished : BOOLEAN]
    BY <1>0, <1>2, UpdateEffect DEF MarkRunning, Statuses
  <2> QED
    BY <1>2, <2>1 DEF MarkRunning, TypeOK, GoTo, Labels, Statuses
<1>3. CASE SeeCancel(e)
  BY <1>3 DEF SeeCancel, TypeOK, GoTo, Labels, Statuses
<1>4. CASE RunNextCase(e)
  <2>1. next' \in [Execs -> 1 .. NumCases + 1]
    BY <1>4, RunnerAssumption DEF RunNextCase, HasNext, TypeOK
  <2>2. worker' \in [Execs -> [Cases -> Phases]]
    BY <1>0, <1>4 DEF RunNextCase, Phases
  <2> QED
    BY <1>4, <2>1, <2>2 DEF RunNextCase, TypeOK
<1>5. CASE LeaveLoop(e)
  BY <1>5 DEF LeaveLoop, LoopExit, TypeOK, GoTo, Labels
<1>6. CASE SaveCancel(e)
  <2>1. row' \in [status : Statuses, tally : Tallies, finished : BOOLEAN]
    BY <1>0, <1>6, UpdateEffect DEF SaveCancel, Statuses
  <2> QED
    BY <1>6, <2>1 DEF SaveCancel, TypeOK, GoTo, Labels
<1>7. CASE PublishCancel(e)
  <2>1. Event(e, "complete", ZeroTally, "cancelled") \in EventTypes
    BY EventType, ZeroTallyType DEF Statuses
  <2>2. events' \in Seq(EventTypes)
    BY <1>0, <1>7, <2>1, PublishEffect DEF PublishCancel
  <2> QED
    BY <1>7, <2>2 DEF PublishCancel, LoopExit, TypeOK, GoTo, Labels
<1>8. CASE StampCancelled(e)
  <2>1. row' \in [status : Statuses, tally : Tallies, finished : BOOLEAN]
    BY <1>0, <1>8, UpdateEffect DEF StampCancelled
  <2> QED
    BY <1>8, <2>1 DEF StampCancelled, TypeOK, GoTo, Labels
<1>9. CASE Conclude(e)
  <2>1. Conclusion(e) \in Statuses
    BY DEF Conclusion, Statuses
  <2>2. Event(e, "complete", tally[e], Conclusion(e)) \in EventTypes
    BY <1>0, <2>1, EventType
  <2>3. events' \in Seq(EventTypes)
    BY <1>0, <1>9, <2>2, PublishEffect DEF Conclude
  <2> QED
    BY <1>9, <2>1, <2>3 DEF Conclude, TypeOK, GoTo, Labels
<1>10. CASE SaveConclusion(e)
  <2>1. FinalRow(e) \in [status : Statuses, tally : Tallies, finished : BOOLEAN]
    BY <1>0 DEF FinalRow
  <2>2. row' \in [status : Statuses, tally : Tallies, finished : BOOLEAN]
    BY <1>0, <1>10, <2>1, UpdateEffect DEF SaveConclusion
  <2> QED
    BY <1>10, <2>2 DEF SaveConclusion, TypeOK, GoTo, Labels
<1>11. ASSUME NEW c \in Cases, ExecuteCase(e, c) PROVE TypeOK'
  <2>1. worker' \in [Execs -> [Cases -> Phases]]
    BY <1>0, <1>11 DEF ExecuteCase, Advance, Phases
  <2>2. verdict' \in [Execs -> [Cases -> Verdicts \cup {"none"}]]
    BY <1>0, <1>11 DEF ExecuteCase
  <2> QED
    BY <1>11, <2>1, <2>2 DEF ExecuteCase, TypeOK
<1>12. ASSUME NEW c \in Cases, PersistResult(e, c) PROVE TypeOK'
  <2>1. worker' \in [Execs -> [Cases -> Phases]]
    BY <1>0, <1>12 DEF PersistResult, Advance, Phases
  <2>2. verdict[e][c] \in Verdicts
    BY <1>12 DEF Alone, PersistResult, Advance
  <2>3. verdict' \in [Execs -> [Cases -> Verdicts \cup {"none"}]]
    BY <1>0, <1>12 DEF PersistResult, VerdictAfterInsert, Verdicts
  <2>4. results' \subseteq [exec : Execs, case : Cases, verdict : Verdicts]
    BY <1>0, <1>12, <2>2 DEF PersistResult
  <2> QED
    BY <1>12, <2>1, <2>3, <2>4 DEF PersistResult, TypeOK
<1>13. ASSUME NEW c \in Cases, Aggregate(e, c) PROVE TypeOK'
  <2>1. worker' \in [Execs -> [Cases -> Phases]]
    BY <1>0, <1>13 DEF Aggregate, Advance, Phases
  <2>2. verdict[e][c] \in Verdicts
    BY <1>13 DEF Alone, Aggregate, Advance
  <2>3. Increment(tally[e], verdict[e][c]) \in Tallies
    BY <1>0, <2>2, IncrementType
  <2>4. tally' \in [Execs -> Tallies]
    BY <1>0, <1>13, <2>3 DEF Aggregate
  <2>5. snap' \in [Execs -> [Cases -> Tallies]]
    BY <1>0, <1>13, <2>4 DEF Aggregate
  <2> QED
    BY <1>13, <2>1, <2>4, <2>5 DEF Aggregate, TypeOK
<1>14. ASSUME NEW c \in Cases, PublishProgress(e, c) PROVE TypeOK'
  <2>1. worker' \in [Execs -> [Cases -> Phases]]
    BY <1>0, <1>14 DEF PublishProgress, Advance, Phases
  <2>2. Event(e, "progress", Shown(e, c), "running") \in EventTypes
    BY <1>0, EventType DEF Shown, Statuses
  <2>3. events' \in Seq(EventTypes)
    BY <1>0, <1>14, <2>2, PublishEffect DEF PublishProgress
  <2>4. snap' \in [Execs -> [Cases -> Tallies]]
    BY <1>0, <1>14, ZeroTallyType DEF PublishProgress
  <2> QED
    BY <1>14, <2>1, <2>3, <2>4 DEF PublishProgress, TypeOK
<1>15. QED
  BY <1>2, <1>3, <1>4, <1>5, <1>6, <1>7, <1>8, <1>9, <1>10, <1>11, <1>12, <1>13, <1>14
     DEF SequentialStep

\* So do the handlers, and they keep those of their own variables.
LEMMA TypesStep ==
  ASSUME Concurrency <= 1, SInv, [ServiceNext]_allVars
  PROVE  ServiceTypeOK'
<1>0. /\ ServiceTypeOK /\ TypeOK
      /\ row \in [status : Statuses, tally : Tallies, finished : BOOLEAN]
      /\ \A e \in Execs : Alone(e)
  BY DEF SInv, ServiceTypeOK, TypeOK
<1>1. CASE Create
  BY <1>0, <1>1 DEF Create, ServiceTypeOK, TypeOK, vars, callVars
<1>2. ASSUME NEW e \in Execs, StartRead(e) \/ StartCases(e) \/ StartStore(e)
      PROVE  ServiceTypeOK'
  BY <1>0, <1>2 DEF StartRead, StartCases, StartStore, StartTo, ServiceTypeOK, TypeOK,
                    vars, callVars
<1>3. ASSUME NEW e \in Execs, StartMark(e) PROVE ServiceTypeOK'
  <2>1. row' = row \/ row' = [row EXCEPT !.status = "running"]
    BY <1>3 DEF StartMark
  <2>2. row' \in [status : Statuses, tally : Tallies, finished : BOOLEAN]
    BY <1>0, <2>1 DEF Statuses
  <2>3. TypeOK'
    BY <1>0, <1>3, <2>2 DEF StartMark, TypeOK, callVars
  <2>4. QED
    BY <1>0, <1>3, <2>3 DEF StartMark, StartTo, ServiceTypeOK
<1>4. ASSUME NEW e \in Execs, StartSpawn(e) PROVE ServiceTypeOK'
  <2>1. TypeOK'
    BY <1>0, <1>4 DEF StartSpawn, Call, GoTo, TypeOK, Labels
  <2>2. QED
    BY <1>0, <1>4, <2>1 DEF StartSpawn, StartTo, ServiceTypeOK
<1>5. ASSUME NEW e \in Execs, StartReply(e) \/ Disconnect(e) \/ Forget(e)
      PROVE  ServiceTypeOK'
  <2>1. TypeOK'
    BY <1>0, <1>5 DEF StartReply, Disconnect, Forget, EndRequest, TypeOK, callVars
  <2>2. QED
    BY <1>0, <1>5, <2>1 DEF StartReply, Disconnect, Forget, EndRequest, StartTo,
                            ServiceTypeOK
<1>6. ASSUME NEW e \in Execs, RunStep(e) PROVE ServiceTypeOK'
  <2>1. TypeOK'
    BY <1>0, <1>6, StepsAreSequential, RunTypes, NotParallel DEF RunStep
  <2>2. QED
    BY <1>0, <1>6, <2>1 DEF RunStep, serviceVars, ServiceTypeOK
<1>7. ASSUME NEW k \in Cancels, CancelRead(k) PROVE ServiceTypeOK'
  BY <1>0, <1>7 DEF CancelRead, CancelTo, ServiceTypeOK, TypeOK, vars, callVars
<1>8. ASSUME NEW k \in Cancels, CancelSignal(k) PROVE ServiceTypeOK'
  <2>1. TypeOK'
    BY <1>0, <1>8 DEF CancelSignal, TypeOK, callVars
  <2>2. QED
    BY <1>0, <1>8, <2>1 DEF CancelSignal, CancelTo, ServiceTypeOK
<1>9. ASSUME NEW k \in Cancels, CancelUpdate(k) PROVE ServiceTypeOK'
  <2>1. row' = row \/ row' = [row EXCEPT !.status = "cancelled"]
    BY <1>9 DEF CancelUpdate
  <2>2. row' \in [status : Statuses, tally : Tallies, finished : BOOLEAN]
    BY <1>0, <2>1 DEF Statuses
  <2>3. TypeOK'
    BY <1>0, <1>9, <2>2 DEF CancelUpdate, TypeOK, callVars
  <2>4. QED
    BY <1>0, <1>9, <2>3 DEF CancelUpdate, CancelTo, ServiceTypeOK
<1>10. CASE Crash
  <2>1. /\ pc' \in [Execs -> Labels] /\ ctxDone' \in [Execs -> BOOLEAN]
        /\ sem' \in [Execs -> Nat] /\ wg' \in [Execs -> Nat]
    BY <1>0, <1>10 DEF Crash, Labels
  <2>2. worker' \in [Execs -> [Cases -> Phases]]
    BY <1>0, <1>10 DEF Crash, Phases
  <2>3. TypeOK'
    BY <1>0, <1>10, <2>1, <2>2 DEF Crash, TypeOK
  <2>4. start' \in [Execs -> {"idle", "cases", "store", "mark", "spawn", "reply",
                              "replied", "refused", "failed"}]
    BY <1>0, <1>10 DEF Crash, ServiceTypeOK
  <2>5. cancel' \in [Cancels -> {"idle", "signal", "update", "replied", "refused",
                                 "failed"}]
    BY <1>0, <1>10 DEF Crash, ServiceTypeOK
  <2>6. reqDone' \in [Execs -> BOOLEAN] /\ forgotten' \in [Execs -> BOOLEAN]
    BY <1>0, <1>10 DEF Crash
  <2>7. crashes' \in 0 .. MaxCrashes
    BY <1>0, <1>10, ServiceAssumption DEF Crash, ServiceTypeOK
  <2>8. QED
    BY <1>0, <1>10, <2>3, <2>4, <2>5, <2>6, <2>7 DEF Crash, ServiceTypeOK
<1>11. CASE UNCHANGED allVars
  BY <1>0, <1>11 DEF allVars, vars, callVars, serviceVars, ServiceTypeOK, TypeOK
<1>12. QED
  BY <1>1, <1>2, <1>3, <1>4, <1>5, <1>6, <1>7, <1>8, <1>9, <1>10, <1>11
     DEF ServiceNext, StartStep, AllDone

(***************************************************************************)
(* The goroutine, its handler and the map of cancellers.                   *)
(***************************************************************************)

\* A call works on its cases inside its loop only, one at a time.
LEMMA RunAlone ==
  ASSUME TypeOK, NEW e \in Execs, Alone(e), SequentialStep(e), ~Parallel,
         NEW d \in Execs, Alone(d)
  PROVE  Alone(d)'
<1>0. /\ pc \in [Execs -> Labels] /\ status \in [Execs -> Statuses]
      /\ worker \in [Execs -> [Cases -> Phases]]
      /\ verdict \in [Execs -> [Cases -> Verdicts \cup {"none"}]]
  BY DEF TypeOK
<1>1. CASE d # e
  BY <1>1, CallFrame DEF Alone, Quiet
<1>2. CASE d = e
  <2>1. CASE MarkRunning(e) \/ SeeCancel(e) \/ LeaveLoop(e)
    BY <1>0, <1>2, <2>1 DEF MarkRunning, SeeCancel, LeaveLoop, AtLoopHead, LoopExit, GoTo,
                            Alone, Quiet
  <2>2. CASE SaveCancel(e) \/ PublishCancel(e) \/ StampCancelled(e) \/ SaveConclusion(e)
    BY <1>0, <1>2, <2>2 DEF SaveCancel, PublishCancel, StampCancelled, SaveConclusion,
                            LoopExit, GoTo, Alone, Quiet
  <2>3. CASE Conclude(e)
    BY <1>0, <1>2, <2>3 DEF Conclude, Conclusion, GoTo, Alone, Quiet
  <2>4. CASE RunNextCase(e)
    BY <1>0, <1>2, <2>4 DEF RunNextCase, AtLoopHead, Alone, Quiet
  <2>5. ASSUME NEW c \in Cases, ExecuteCase(e, c) PROVE Alone(e)'
    BY <1>0, <1>2, <2>5 DEF ExecuteCase, Advance, Alone, Quiet
  <2>6. ASSUME NEW c \in Cases, PersistResult(e, c) PROVE Alone(e)'
    <3>1. verdict[e][c] \in Verdicts
      BY <1>2, <2>6 DEF Alone, PersistResult, Advance
    <3>2. \E v \in Verdicts : verdict' = [verdict EXCEPT ![e][c] = v]
      BY <1>0, <2>6, <3>1 DEF PersistResult, VerdictAfterInsert, Verdicts
    <3>3. QED
      BY <1>0, <1>2, <2>6, <3>2 DEF PersistResult, Advance, Alone, Quiet
  <2>7. ASSUME NEW c \in Cases, Aggregate(e, c) PROVE Alone(e)'
    BY <1>0, <1>2, <2>7 DEF Aggregate, Advance, Alone, Quiet
  <2>8. ASSUME NEW c \in Cases, PublishProgress(e, c) PROVE Alone(e)'
    BY <1>0, <1>2, <2>8 DEF PublishProgress, Advance, Alone, Quiet
  <2>9. QED
    BY <1>2, <2>1, <2>2, <2>3, <2>4, <2>5, <2>6, <2>7, <2>8 DEF SequentialStep
<1>3. QED
  BY <1>1, <1>2

\* The handlers leave the calls of Run alone, except that Start makes one and
\* that a stop of the process ends all of them.
LEMMA HandlerFrame ==
  ASSUME [ServiceNext]_allVars,
         \A e \in Execs : ~RunStep(e) /\ ~StartSpawn(e),
         ~Crash
  PROVE  UNCHANGED <<mode, callVars, results, events>>
BY DEF ServiceNext, Create, StartRead, StartStep, StartCases, StartStore, StartMark,
   StartReply, Disconnect, Forget, EndRequest, CancelRead, CancelSignal, CancelUpdate,
   AllDone, allVars, vars

\* No step has two cases of a call under way, or one outside its loop.
LEMMA AloneStep ==
  ASSUME Concurrency <= 1, SInv, [ServiceNext]_allVars, NEW d \in Execs
  PROVE  Alone(d)'
<1>0. /\ TypeOK /\ Alone(d) /\ \A e \in Execs : Alone(e)
      /\ pc \in [Execs -> Labels] /\ worker \in [Execs -> [Cases -> Phases]]
  BY DEF SInv, ServiceTypeOK, TypeOK
<1>1. ASSUME NEW e \in Execs, RunStep(e) PROVE Alone(d)'
  BY <1>0, <1>1, StepsAreSequential, RunAlone, NotParallel DEF RunStep
<1>2. ASSUME NEW e \in Execs, StartSpawn(e) PROVE Alone(d)'
  BY <1>0, <1>2 DEF StartSpawn, Call, GoTo, Alone, Quiet
<1>3. CASE Crash
  BY <1>0, <1>3 DEF Crash, Alone, Quiet
<1>4. CASE UNCHANGED <<mode, callVars, results, events>>
  BY <1>0, <1>4 DEF callVars, Alone, Quiet
<1>5. QED
  BY <1>1, <1>2, <1>3, <1>4, HandlerFrame

\* No step runs a goroutine ahead of its handler, or takes a done context back.
LEMMA HandledStep ==
  ASSUME Concurrency <= 1, SInv, [ServiceNext]_allVars, NEW d \in Execs
  PROVE  Handled(d)'
<1>0. /\ TypeOK /\ Handled(d) /\ \A e \in Execs : Alone(e)
      /\ pc \in [Execs -> Labels] /\ ctxDone \in [Execs -> BOOLEAN]
      /\ start \in [Execs -> {"idle", "cases", "store", "mark", "spawn", "reply",
                              "replied", "refused", "failed"}]
      /\ reqDone \in [Execs -> BOOLEAN] /\ forgotten \in [Execs -> BOOLEAN]
  BY DEF SInv, ServiceTypeOK, TypeOK
<1>1. ASSUME NEW e \in Execs, RunStep(e) PROVE Handled(d)'
  <2>1. SequentialStep(e) /\ pc[e] \notin {"idle", "returned"}
    BY <1>0, <1>1, StepsAreSequential, Underway DEF RunStep
  <2>2. UNCHANGED <<ctxDone, serviceVars>> /\ (d # e => pc'[d] = pc[d])
    BY <1>0, <1>1, <2>1, CallFrame DEF RunStep
  <2>3. QED
    BY <1>0, <2>1, <2>2 DEF Handled, serviceVars
<1>2. ASSUME NEW e \in Execs, StartRead(e) \/ StartCases(e) \/ StartStore(e) \/ StartMark(e)
      PROVE  Handled(d)'
  BY <1>0, <1>2 DEF StartRead, StartCases, StartStore, StartMark, StartTo, Handled,
                    vars, callVars
<1>3. ASSUME NEW e \in Execs, StartSpawn(e) PROVE Handled(d)'
  BY <1>0, <1>3 DEF StartSpawn, StartTo, Call, GoTo, Handled
<1>4. ASSUME NEW e \in Execs, StartReply(e) \/ Disconnect(e) \/ Forget(e)
      PROVE  Handled(d)'
  BY <1>0, <1>4 DEF StartReply, Disconnect, Forget, EndRequest, StartTo, Handled, callVars
<1>5. ASSUME NEW k \in Cancels, CancelRead(k) \/ CancelSignal(k) \/ CancelUpdate(k)
      PROVE  Handled(d)'
  BY <1>0, <1>5 DEF CancelRead, CancelSignal, CancelUpdate, Handled, vars, callVars
<1>6. CASE Crash
  BY <1>0, <1>6 DEF Crash, Handled
<1>7. CASE Create \/ UNCHANGED allVars
  BY <1>0, <1>7 DEF Create, allVars, vars, callVars, serviceVars, Handled
<1>8. QED
  BY <1>1, <1>2, <1>3, <1>4, <1>5, <1>6, <1>7 DEF ServiceNext, StartStep, AllDone

\* The map holds the CancelFunc of a goroutine that has still to run its deferred
\* function: Start stores it before there is a goroutine, and the one that ends
\* empties the map.
LEMMA CancellerStep ==
  ASSUME Concurrency <= 1, SInv, [ServiceNext]_allVars
  PROVE  CancellerNotStale'
<1>0. /\ CancellerNotStale /\ canceller \in Execs \cup {NoExec}
      /\ forgotten \in [Execs -> BOOLEAN]
      /\ \A e \in Execs : Handled(e)
  BY DEF SInv, ServiceTypeOK
<1>1. ASSUME NEW e \in Execs, StartStore(e) PROVE CancellerNotStale'
  BY <1>0, <1>1 DEF StartStore, Handled, CancellerNotStale
<1>2. ASSUME NEW e \in Execs, Forget(e) PROVE CancellerNotStale'
  BY <1>2 DEF Forget, CancellerNotStale
<1>3. CASE Crash
  BY <1>3 DEF Crash, CancellerNotStale
<1>4. CASE UNCHANGED <<canceller, forgotten>>
  BY <1>0, <1>4 DEF CancellerNotStale
<1>5. QED
  BY <1>1, <1>2, <1>3, <1>4
     DEF ServiceNext, Create, StartRead, StartStep, StartCases, StartMark, StartSpawn,
         StartReply, Disconnect, RunStep, CancelRead, CancelSignal, CancelUpdate, AllDone,
         allVars, serviceVars

(***************************************************************************)
(* The row.                                                                *)
(***************************************************************************)

\* What a step of Run can make of the row: its status leaves queued or stays, and
\* only the saved conclusion makes it a result.
LEMMA RunRow ==
  ASSUME TypeOK, NEW e \in Execs, Alone(e), SequentialStep(e)
  PROVE  \/ row' = row
         \/ row' = [row EXCEPT !.finished = TRUE]
         \/ row'.status \in {"running", "cancelled"}
         \/ /\ SaveConclusion(e)
            /\ row' = FinalRow(e)
            /\ row'.status \in {"success", "failed"}
<1>0. row \in [status : Statuses, tally : Tallies, finished : BOOLEAN]
  BY DEF TypeOK
<1>1. CASE MarkRunning(e)
  BY <1>0, <1>1, UpdateEffect DEF MarkRunning
<1>2. CASE SaveCancel(e)
  BY <1>0, <1>2, UpdateEffect DEF SaveCancel
<1>3. CASE StampCancelled(e)
  BY <1>3, UpdateEffect DEF StampCancelled
<1>4. CASE SaveConclusion(e)
  <2>1. row' = row \/ row' = FinalRow(e)
    BY <1>4, UpdateEffect DEF SaveConclusion
  <2>2. FinalRow(e).status \in {"success", "failed"}
    BY <1>4 DEF SaveConclusion, Alone, FinalRow
  <2>3. QED
    BY <1>4, <2>1, <2>2
<1>5. QED
  BY <1>1, <1>2, <1>3, <1>4
     DEF SequentialStep, SeeCancel, RunNextCase, LeaveLoop, PublishCancel, Conclude,
         ExecuteCase, PersistResult, Aggregate, PublishProgress

\* What a handler can make of it: running, cancelled, or what it was.
LEMMA HandlerRow ==
  ASSUME ServiceTypeOK, [ServiceNext]_allVars, \A e \in Execs : ~RunStep(e)
  PROVE  row' = row \/ row'.status \in {"running", "cancelled"}
<1>0. row \in [status : Statuses, tally : Tallies, finished : BOOLEAN]
  BY DEF ServiceTypeOK, TypeOK
<1>1. ASSUME NEW e \in Execs, StartMark(e)
      PROVE  row' = row \/ row'.status = "running"
  BY <1>0, <1>1 DEF StartMark
<1>2. ASSUME NEW k \in Cancels, CancelUpdate(k)
      PROVE  row' = row \/ row'.status = "cancelled"
  BY <1>0, <1>2 DEF CancelUpdate
<1>3. QED
  BY <1>1, <1>2
     DEF ServiceNext, Create, StartRead, StartStep, StartCases, StartStore, StartSpawn, Call,
         StartReply, Disconnect, Forget, CancelRead, CancelSignal, Crash, AllDone,
         allVars, vars

\* No step puts a row back in the queue.
LEMMA NeverRequeued ==
  ASSUME Concurrency <= 1, SInv, [ServiceNext]_allVars, row'.status = "queued"
  PROVE  row.status = "queued"
<1>0. /\ ServiceTypeOK /\ TypeOK /\ \A e \in Execs : Alone(e)
      /\ row \in [status : Statuses, tally : Tallies, finished : BOOLEAN]
  BY DEF SInv, ServiceTypeOK, TypeOK
<1>1. ASSUME NEW e \in Execs, RunStep(e) PROVE row.status = "queued"
  <2>1. SequentialStep(e)
    BY <1>0, <1>1, StepsAreSequential DEF RunStep
  <2>2. row' = row \/ row' = [row EXCEPT !.finished = TRUE]
    BY <1>0, <2>1, RunRow
  <2>3. QED
    BY <1>0, <2>2
<1>2. CASE \A e \in Execs : ~RunStep(e)
  BY <1>0, <1>2, HandlerRow
<1>3. QED
  BY <1>1, <1>2

\* A call on a context that is done executes no case and publishes nothing.
LEMMA DoneContext ==
  ASSUME TypeOK, NEW e \in Execs, SequentialStep(e), ctxDone[e],
         \A c \in Cases : worker[e][c] = "idle"
  PROVE  UNCHANGED <<worker, results, events>>
<1>1. Outcomes(e, "publish") = {FALSE}
  BY DEF Outcomes
<1>2. CASE PublishCancel(e) \/ Conclude(e)
  BY <1>1, <1>2 DEF PublishCancel, Conclude, Publish
<1>3. ~RunNextCase(e)
  BY DEF RunNextCase, Live
<1>4. ASSUME NEW c \in Cases,
             ExecuteCase(e, c) \/ PersistResult(e, c) \/ Aggregate(e, c)
               \/ PublishProgress(e, c)
      PROVE  FALSE
  BY <1>4 DEF ExecuteCase, PersistResult, Aggregate, PublishProgress, Advance
<1>5. QED
  BY <1>2, <1>3, <1>4
     DEF SequentialStep, MarkRunning, SeeCancel, LeaveLoop, SaveCancel, StampCancelled,
         SaveConclusion

\* A row that is still queued after StartMark was marked on a dead request.
LEMMA BlockedStep ==
  ASSUME Concurrency <= 1, SInv, [ServiceNext]_allVars
  PROVE  Blocked'
<1> SUFFICES ASSUME "update" \notin Faults, row'.status = "queued", NEW d \in Execs,
                    start'[d] = "spawn" \/ pc'[d] \notin {"idle", "returned"}
             PROVE  ctxDone'[d]
  BY DEF Blocked
<1>0. /\ row.status = "queued" /\ TypeOK /\ \A e \in Execs : Alone(e) /\ Handled(e)
      /\ start[d] = "spawn" \/ pc[d] \notin {"idle", "returned"} => ctxDone[d]
      /\ row \in [status : Statuses, tally : Tallies, finished : BOOLEAN]
      /\ pc \in [Execs -> Labels] /\ ctxDone \in [Execs -> BOOLEAN]
      /\ start \in [Execs -> {"idle", "cases", "store", "mark", "spawn", "reply",
                              "replied", "refused", "failed"}]
  BY NeverRequeued DEF SInv, Blocked, ServiceTypeOK, TypeOK
<1>1. ASSUME NEW e \in Execs, RunStep(e) PROVE ctxDone'[d]
  <2>1. SequentialStep(e) /\ pc[e] \notin {"idle", "returned"}
    BY <1>0, <1>1, StepsAreSequential, Underway DEF RunStep
  <2>2. UNCHANGED <<ctxDone, start>> /\ (d # e => pc'[d] = pc[d])
    BY <1>0, <1>1, <2>1, CallFrame DEF RunStep, serviceVars
  <2>3. QED
    BY <1>0, <2>1, <2>2
<1>2. ASSUME NEW e \in Execs, StartMark(e) PROVE ctxDone'[d]
  <2>1. UNCHANGED <<ctxDone, pc>> /\ start' = [start EXCEPT ![e] = "spawn"]
    BY <1>2 DEF StartMark, StartTo, callVars
  <2>2. CASE d = e
    <3>1. reqDone[e]
      <4>1. SUFFICES ASSUME ~reqDone[e] PROVE FALSE
        OBVIOUS
      <4>2. row' = [row EXCEPT !.status = "running"]
        BY <1>2, <4>1 DEF StartMark
      <4>3. QED
        BY <1>0, <4>2
    <3>2. QED
      BY <1>0, <2>1, <2>2, <3>1 DEF Handled
  <2>3. CASE d # e
    BY <1>0, <2>1, <2>3
  <2>4. QED
    BY <2>2, <2>3
<1>3. ASSUME NEW e \in Execs, StartSpawn(e) PROVE ctxDone'[d]
  BY <1>0, <1>3 DEF StartSpawn, StartTo, Call, GoTo
<1>4. ASSUME NEW e \in Execs, StartRead(e) \/ StartCases(e) \/ StartStore(e)
      PROVE  ctxDone'[d]
  BY <1>0, <1>4 DEF StartRead, StartCases, StartStore, StartTo, vars, callVars
<1>5. ASSUME NEW e \in Execs, StartReply(e) \/ Disconnect(e) \/ Forget(e)
      PROVE  ctxDone'[d]
  BY <1>0, <1>5 DEF StartReply, Disconnect, Forget, EndRequest, StartTo, callVars
<1>6. ASSUME NEW k \in Cancels, CancelRead(k) \/ CancelSignal(k) \/ CancelUpdate(k)
      PROVE  ctxDone'[d]
  BY <1>0, <1>6 DEF CancelRead, CancelSignal, CancelUpdate, vars, callVars
<1>7. CASE Crash
  BY <1>0, <1>7 DEF Crash
<1>8. CASE Create \/ UNCHANGED allVars
  BY <1>0, <1>8 DEF Create, allVars, vars, callVars, serviceVars
<1>9. QED
  BY <1>1, <1>2, <1>3, <1>4, <1>5, <1>6, <1>7, <1>8 DEF ServiceNext, StartStep, AllDone

\* So the calls that work on a queued row can only find their context done.
LEMMA UntouchedStep ==
  ASSUME Concurrency <= 1, SInv, [ServiceNext]_allVars
  PROVE  QueuedMeansUntouched'
<1> SUFFICES ASSUME "update" \notin Faults, row'.status = "queued"
             PROVE  /\ \A e \in Execs, c \in Cases : worker'[e][c] = "idle"
                    /\ results' = {}
                    /\ events' = <<>>
  BY DEF QueuedMeansUntouched
<1>0. /\ TypeOK /\ row.status = "queued" /\ \A e \in Execs : Alone(e)
      /\ \A e \in Execs, c \in Cases : worker[e][c] = "idle"
      /\ results = {} /\ events = <<>>
  BY NeverRequeued DEF SInv, QueuedMeansUntouched, ServiceTypeOK
<1>1. ASSUME NEW e \in Execs, RunStep(e) PROVE UNCHANGED <<worker, results, events>>
  <2>1. SequentialStep(e) /\ pc[e] \notin {"idle", "returned"}
    BY <1>0, <1>1, StepsAreSequential, Underway DEF RunStep
  <2>2. ctxDone[e]
    BY <1>0, <2>1 DEF SInv, Blocked
  <2>3. QED
    BY <1>0, <2>1, <2>2, DoneContext
<1>2. ASSUME NEW e \in Execs, StartSpawn(e) PROVE UNCHANGED <<worker, results, events>>
  BY <1>2 DEF StartSpawn, Call
<1>3. CASE Crash
  BY <1>0, <1>3 DEF Crash
<1>4. CASE UNCHANGED <<worker, results, events>>
  BY <1>0, <1>4
<1>5. QED
  BY <1>1, <1>2, <1>3, <1>4, HandlerFrame DEF callVars

\* The call whose report the row shows has returned, and a returned call makes no
\* more steps.
LEMMA TerminalStep ==
  ASSUME Concurrency <= 1, SInv, [ServiceNext]_allVars
  PROVE  TerminalRowIsOneReport'
<1> DEFINE Reported(e) == /\ pc[e] = "returned" /\ status[e] = row.status
                          /\ tally[e] = row.tally /\ row.finished
<1> SUFFICES ASSUME row'.status \in {"success", "failed"}
             PROVE  \E e \in Execs : Reported(e)'
  BY DEF TerminalRowIsOneReport
<1>0. /\ TypeOK /\ ServiceTypeOK /\ \A e \in Execs : Alone(e)
      /\ row.status \in {"success", "failed"} => \E e \in Execs : Reported(e)
      /\ row \in [status : Statuses, tally : Tallies, finished : BOOLEAN]
      /\ pc \in [Execs -> Labels]
  BY DEF SInv, TerminalRowIsOneReport, ServiceTypeOK, TypeOK
<1>1. ASSUME NEW e \in Execs, RunStep(e) PROVE \E d \in Execs : Reported(d)'
  <2>1. SequentialStep(e) /\ pc[e] \notin {"idle", "returned"}
    BY <1>0, <1>1, StepsAreSequential, Underway DEF RunStep
  <2>2. CASE SaveConclusion(e) /\ row' = FinalRow(e)
    BY <1>0, <2>2 DEF SaveConclusion, FinalRow, GoTo
  <2>3. CASE row' = row \/ row' = [row EXCEPT !.finished = TRUE]
    <3>1. row.status \in {"success", "failed"}
      BY <1>0, <2>3
    <3>2. PICK d \in Execs : Reported(d)
      BY <1>0, <3>1
    <3>3. pc'[d] = pc[d] /\ status'[d] = status[d] /\ tally'[d] = tally[d]
      BY <1>0, <2>1, <3>2, CallFrame
    <3>4. row'.status = row.status /\ row'.tally = row.tally /\ row'.finished
      BY <1>0, <2>3, <3>2
    <3>5. QED
      BY <3>2, <3>3, <3>4
  <2>4. QED
    BY <1>0, <2>1, <2>2, <2>3, RunRow
<1>2. CASE \A e \in Execs : ~RunStep(e)
  <2>1. row' = row
    BY <1>0, <1>2, HandlerRow
  <2>2. PICK d \in Execs : Reported(d)
    BY <1>0, <2>1
  <2>3. CASE UNCHANGED callVars
    BY <2>1, <2>2, <2>3 DEF callVars
  <2>4. ASSUME NEW e \in Execs, StartSpawn(e) PROVE Reported(d)'
    BY <1>0, <2>2, <2>1, <2>4 DEF StartSpawn, Call, GoTo
  <2>5. CASE Crash
    BY <1>0, <2>1, <2>2, <2>5 DEF Crash
  <2>6. QED
    BY <1>2, <2>3, <2>4, <2>5, HandlerFrame
<1>3. QED
  BY <1>1, <1>2

(***************************************************************************)
(* The theorems.                                                           *)
(***************************************************************************)

LEMMA InitSInv == ServiceInit => SInv
<1> SUFFICES ASSUME ServiceInit PROVE SInv
  OBVIOUS
<1>1. ServiceTypeOK
  <2>1. TypeOK
    BY InitTypeOK DEF ServiceInit
  <2>2. crashes \in 0 .. MaxCrashes
    BY ServiceAssumption DEF ServiceInit
  <2>3. QED
    BY <2>1, <2>2 DEF ServiceInit, ServiceTypeOK
<1>2. \A e \in Execs : Alone(e) /\ Handled(e)
  BY DEF ServiceInit, Init, Alone, Quiet, Handled
<1>3. Blocked /\ QueuedMeansUntouched
  BY DEF ServiceInit, Init, Blocked, QueuedMeansUntouched
<1>4. CancellerNotStale /\ TerminalRowIsOneReport
  BY DEF ServiceInit, Init, CancellerNotStale, TerminalRowIsOneReport
<1>5. QED
  BY <1>1, <1>2, <1>3, <1>4 DEF SInv

LEMMA StepSInv == Concurrency <= 1 /\ SInv /\ [ServiceNext]_allVars => SInv'
BY TypesStep, AloneStep, HandledStep, CancellerStep, BlockedStep, UntouchedStep, TerminalStep
   DEF SInv

LEMMA ServiceInductive ==
  ASSUME Concurrency <= 1
  PROVE  ServiceSpec => []SInv
<1>1. SInv /\ [ServiceNext]_allVars => SInv'
  BY StepSInv
<1>2. QED
  BY <1>1, InitSInv, PTL DEF ServiceSpec

\* The handlers' positions, the map and the row keep their types, whatever the
\* handlers do at once and whenever the process stops.
THEOREM ServiceTypes ==
  ASSUME Concurrency <= 1
  PROVE  ServiceSpec => []ServiceTypeOK
<1>1. SInv => ServiceTypeOK
  BY DEF SInv
<1>2. QED
  BY <1>1, ServiceInductive, PTL

\* A queued row, the only kind Start admits, belongs to a run of which no case was
\* ever executed, as long as updates on a live context succeed.
THEOREM QueuedIsUntouched ==
  ASSUME Concurrency <= 1
  PROVE  ServiceSpec => []QueuedMeansUntouched
<1>1. SInv => QueuedMeansUntouched
  BY DEF SInv
<1>2. QED
  BY <1>1, ServiceInductive, PTL

\* The cancellers map never keeps the CancelFunc of a goroutine that has run its
\* deferred function.
THEOREM CancellerIsLive ==
  ASSUME Concurrency <= 1
  PROVE  ServiceSpec => []CancellerNotStale
<1>1. SInv => CancellerNotStale
  BY DEF SInv
<1>2. QED
  BY <1>1, ServiceInductive, PTL

\* A row with a result shows the report of one call of Run, however many Starts
\* and Cancels work on the row.
THEOREM ResultIsOneReport ==
  ASSUME Concurrency <= 1
  PROVE  ServiceSpec => []TerminalRowIsOneReport
<1>1. SInv => TerminalRowIsOneReport
  BY DEF SInv
<1>2. QED
  BY <1>1, ServiceInductive, PTL

=============================================================================
