---------------------------- MODULE RunnerProofs ----------------------------
(***************************************************************************)
(* What holds of the runner for any number of calls, cases and workers.    *)
(***************************************************************************)
EXTENDS Runner, FiniteSetTheorems, TLAPS

(***************************************************************************)
(* The inductive invariant.                                                *)
(***************************************************************************)

\* Workers that hold a token of the semaphore.
Holding(e) == {c \in Cases : worker[e][c] \in
                 {"execute", "persist", "aggregate", "publish", "release"}}

\* How the main goroutine, the dispatch index and the workers move together.
Flow(e) ==
  /\ \A c \in Cases : worker[e][c] = "idle" <=> c >= next[e]
  /\ pc[e] = "acquire" => Parallel /\ next[e] <= NumCases
  /\ pc[e] = "drain" => Parallel
  /\ pc[e] \in {"idle", "start", "loop", "acquire"}
       => status[e] \in {"queued", "running"}
  /\ pc[e] \in {"cancelSave", "cancelPublish"} => status[e] = "cancelled"
  /\ pc[e] \in {"drain", "guard", "save", "returned"} /\ status[e] # "cancelled"
       => next[e] = NumCases + 1
  /\ status[e] \in {"success", "failed"} => pc[e] \in {"save", "returned"}
  /\ status[e] = "cancelled" => next[e] <= NumCases
  /\ pc[e] \in {"guard", "save", "returned"} => Busy(e) = {}

\* In a sequential call one case at most is under way, in the goroutine of Run.
OneAtATime(e) ==
  ~Parallel =>
    /\ \A c \in Cases : worker[e][c] \notin {"release", "leave"}
    /\ \A c, d \in Busy(e) : c = d
    /\ pc[e] \in {"cancelSave", "cancelPublish"} => Busy(e) = {}

\* In a parallel call the two counters count the goroutines.
Counters(e) ==
  Parallel =>
    /\ sem[e] = Cardinality(Holding(e))
    /\ sem[e] <= Concurrency
    /\ wg[e] = Cardinality(Busy(e)) + (IF pc[e] = "acquire" THEN 1 ELSE 0)

\* What is counted is a verdict, and a counted pass has its row.
Honest(e) ==
  /\ \A c \in Cases : worker[e][c] \notin {"idle", "execute"}
       => verdict[e][c] \in Verdicts
  /\ \A c \in Cases :
       worker[e][c] \notin {"idle", "execute", "persist"} /\ verdict[e][c] = "pass"
       => [exec |-> e, case |-> c, verdict |-> "pass"] \in results
  /\ \A c \in Cases : Counted(e, c) => tally[e][verdict[e][c]] >= 1
  /\ status[e] = "success" => AllPassed(e)

\* Success is only written or announced on behalf of a successful call.
Told ==
  /\ row.status = "success" => \E e \in Execs : status[e] = "success"
  /\ \A i \in 1 .. Len(events) :
       events[i].status = "success" => status[events[i].exec] = "success"

IInv ==
  /\ TypeOK
  /\ \A e \in Execs : Flow(e)
  /\ \A e \in Execs : OneAtATime(e)
  /\ \A e \in Execs : Counters(e)
  /\ \A e \in Execs : Honest(e)
  /\ Told

(***************************************************************************)
(* Facts about sets of cases.                                              *)
(***************************************************************************)

\* A set of cases is finite, and how adding or removing one changes its size.
LEMMA CaseSets ==
  ASSUME NEW S \in SUBSET Cases
  PROVE  /\ Cardinality(S) \in Nat
         /\ Cardinality(S) = 0 <=> S = {}
         /\ \A c \in Cases \ S : Cardinality(S \cup {c}) = Cardinality(S) + 1
         /\ \A c \in S : Cardinality(S \ {c}) = Cardinality(S) - 1
<1>1. IsFiniteSet(Cases)
  BY RunnerAssumption, FS_Interval DEF Cases
<1>2. IsFiniteSet(S)
  BY <1>1, FS_Subset
<1>3. Cardinality(S) \in Nat
  BY <1>2, FS_CardinalityType
<1>4. Cardinality(S) = 0 <=> S = {}
  BY <1>2, FS_EmptySet
<1>5. ASSUME NEW c \in Cases \ S
      PROVE  Cardinality(S \cup {c}) = Cardinality(S) + 1
  BY <1>2, FS_AddElement
<1>6. ASSUME NEW c \in S
      PROVE  Cardinality(S \ {c}) = Cardinality(S) - 1
  BY <1>2, FS_RemoveElement
<1> QED
  BY <1>3, <1>4, <1>5, <1>6

(***************************************************************************)
(* Types.                                                                  *)
(***************************************************************************)

\* An event a call publishes has the type of events.
LEMMA EventType ==
  ASSUME NEW e \in Execs, NEW t \in {"progress", "complete"},
         NEW counts \in Tallies, NEW st \in Statuses
  PROVE  Event(e, t, counts, st) \in EventTypes
BY DEF Event, EventTypes

\* Every published event names the call that published it.
LEMMA EventCaller ==
  ASSUME events \in Seq(EventTypes), NEW i \in 1 .. Len(events)
  PROVE  events[i].exec \in Execs
<1>1. events[i] \in EventTypes
  OBVIOUS
<1> QED
  BY <1>1 DEF EventTypes

LEMMA ZeroTallyType == ZeroTally \in Tallies
BY DEF ZeroTally, Tallies, Verdicts

\* Whatever the outcome, a publish keeps the log well formed and only ever
\* adds its own event at the end.
LEMMA PublishEffect ==
  ASSUME NEW e, NEW event \in EventTypes, events \in Seq(EventTypes),
         Publish(e, event)
  PROVE  /\ events' \in Seq(EventTypes)
         /\ events' = events \/ events' = Append(events, event)
BY DEF Publish

LEMMA InitTypeOK == Init => TypeOK
<1> SUFFICES ASSUME Init PROVE TypeOK
  OBVIOUS
<1>1. ZeroTally \in Tallies
  BY ZeroTallyType
<1> QED
  BY <1>1, RunnerAssumption DEF Init, TypeOK, Labels, Statuses, Phases, Cases

\* Likewise an update leaves the row as it was or makes it the new one.
LEMMA UpdateEffect ==
  ASSUME NEW e, NEW new, UpdateRow(e, new)
  PROVE  row' = row \/ row' = new
BY DEF UpdateRow

\* A worker about to give back its token or to leave the group is one of the
\* goroutines the counters count, so neither counter can drop below zero.
LEMMA DeferredCalls ==
  ASSUME IInv, NEW e \in Execs, NEW c \in Cases,
         worker[e][c] \in {"release", "leave"}
  PROVE  /\ Parallel
         /\ worker[e][c] = "release" => sem[e] >= 1
         /\ wg[e] >= 1
<1>1. Parallel
  BY DEF IInv, OneAtATime
<1>2. sem[e] = Cardinality(Holding(e)) /\ wg[e] >= Cardinality(Busy(e))
  <2>1. Cardinality(Busy(e)) \in Nat
    BY CaseSets DEF Busy
  <2> QED
    BY <1>1, <2>1 DEF IInv, Counters
<1>3. Busy(e) # {} /\ (worker[e][c] = "release" => Holding(e) # {})
  BY DEF Busy, Holding
<1>4. /\ Cardinality(Busy(e)) \in Nat
      /\ Cardinality(Busy(e)) # 0
      /\ Cardinality(Holding(e)) \in Nat
      /\ worker[e][c] = "release" => Cardinality(Holding(e)) # 0
  <2>1. Busy(e) \in SUBSET Cases /\ Holding(e) \in SUBSET Cases
    BY DEF Busy, Holding
  <2> QED
    BY <1>3, <2>1, CaseSets
<1>5. wg[e] \in Nat /\ sem[e] \in Nat
  BY DEF IInv, TypeOK
<1> QED
  BY <1>1, <1>2, <1>4, <1>5

\* A counter of the tally goes up by one and stays a number.
LEMMA IncrementType ==
  ASSUME NEW t \in Tallies, NEW v \in Verdicts
  PROVE  Increment(t, v) \in Tallies
BY DEF Increment, Tallies

LEMMA TypeStep == IInv /\ [Next]_vars => TypeOK'
<1> SUFFICES ASSUME IInv, [Next]_vars PROVE TypeOK'
  OBVIOUS
<1>0. TypeOK
  BY DEF IInv
<1>1. ASSUME NEW e \in Execs, Call(e) PROVE TypeOK'
  BY <1>0, <1>1 DEF Call, TypeOK, GoTo, Labels
<1>2. ASSUME NEW e \in Execs, MarkRunning(e) PROVE TypeOK'
  <2>1. row' \in [status : Statuses, tally : Tallies, finished : BOOLEAN]
    BY <1>0, <1>2, UpdateEffect DEF MarkRunning, TypeOK, Statuses
  <2> QED
    BY <1>0, <1>2, <2>1 DEF MarkRunning, TypeOK, GoTo, Labels, Statuses
<1>3. ASSUME NEW e \in Execs, SeeCancel(e) PROVE TypeOK'
  BY <1>0, <1>3 DEF SeeCancel, TypeOK, GoTo, Labels, Statuses
<1>4. ASSUME NEW e \in Execs, RunNextCase(e) PROVE TypeOK'
  <2>1. next' \in [Execs -> 1 .. NumCases + 1]
    BY <1>0, <1>4, RunnerAssumption DEF RunNextCase, HasNext, TypeOK
  <2>2. worker' \in [Execs -> [Cases -> Phases]]
    BY <1>0, <1>4 DEF RunNextCase, TypeOK, Phases
  <2> QED
    BY <1>0, <1>4, <2>1, <2>2 DEF RunNextCase, TypeOK
<1>5. ASSUME NEW e \in Execs, AddToGroup(e) PROVE TypeOK'
  BY <1>0, <1>5 DEF AddToGroup, TypeOK, GoTo, Labels
<1>6. ASSUME NEW e \in Execs, StartWorker(e) PROVE TypeOK'
  <2>1. next[e] <= NumCases
    BY <1>6 DEF IInv, Flow, StartWorker
  <2>2. next' \in [Execs -> 1 .. NumCases + 1]
    BY <1>0, <1>6, <2>1, RunnerAssumption DEF StartWorker, TypeOK
  <2>3. worker' \in [Execs -> [Cases -> Phases]]
    BY <1>0, <1>6 DEF StartWorker, TypeOK, Phases
  <2>4. sem' \in [Execs -> Nat]
    BY <1>0, <1>6 DEF StartWorker, TypeOK
  <2>5. pc' \in [Execs -> Labels]
    BY <1>0, <1>6 DEF StartWorker, TypeOK, GoTo, Labels
  <2> QED
    BY <1>0, <1>6, <2>2, <2>3, <2>4, <2>5 DEF StartWorker, TypeOK
<1>7. ASSUME NEW e \in Execs, LeaveLoop(e) PROVE TypeOK'
  BY <1>0, <1>7 DEF LeaveLoop, LoopExit, TypeOK, GoTo, Labels
<1>8. ASSUME NEW e \in Execs, Drain(e) PROVE TypeOK'
  BY <1>0, <1>8 DEF Drain, TypeOK, GoTo, Labels
<1>9. ASSUME NEW e \in Execs, SaveCancel(e) PROVE TypeOK'
  <2>1. row' \in [status : Statuses, tally : Tallies, finished : BOOLEAN]
    BY <1>0, <1>9, UpdateEffect DEF SaveCancel, TypeOK, Statuses
  <2> QED
    BY <1>0, <1>9, <2>1 DEF SaveCancel, TypeOK, GoTo, Labels
<1>10. ASSUME NEW e \in Execs, PublishCancel(e) PROVE TypeOK'
  <2>1. Event(e, "complete", ZeroTally, "cancelled") \in EventTypes
    BY EventType, ZeroTallyType DEF Statuses
  <2>2. events' \in Seq(EventTypes)
    BY <1>0, <1>10, <2>1, PublishEffect DEF PublishCancel, TypeOK
  <2> QED
    BY <1>0, <1>10, <2>2 DEF PublishCancel, LoopExit, TypeOK, GoTo, Labels
<1>11. ASSUME NEW e \in Execs, StampCancelled(e) PROVE TypeOK'
  <2>1. row' \in [status : Statuses, tally : Tallies, finished : BOOLEAN]
    BY <1>0, <1>11, UpdateEffect DEF StampCancelled, TypeOK
  <2> QED
    BY <1>0, <1>11, <2>1 DEF StampCancelled, TypeOK, GoTo, Labels
<1>12. ASSUME NEW e \in Execs, Conclude(e) PROVE TypeOK'
  <2>1. Conclusion(e) \in Statuses
    BY DEF Conclusion, Statuses
  <2>2. Event(e, "complete", tally[e], Conclusion(e)) \in EventTypes
    BY <1>0, <2>1, EventType DEF TypeOK
  <2>3. events' \in Seq(EventTypes)
    BY <1>0, <1>12, <2>2, PublishEffect DEF Conclude, TypeOK
  <2> QED
    BY <1>0, <1>12, <2>1, <2>3 DEF Conclude, TypeOK, GoTo, Labels
<1>13. ASSUME NEW e \in Execs, SaveConclusion(e) PROVE TypeOK'
  <2>1. FinalRow(e) \in [status : Statuses, tally : Tallies, finished : BOOLEAN]
    BY <1>0 DEF FinalRow, TypeOK
  <2>2. row' \in [status : Statuses, tally : Tallies, finished : BOOLEAN]
    BY <1>0, <1>13, <2>1, UpdateEffect DEF SaveConclusion, TypeOK
  <2> QED
    BY <1>0, <1>13, <2>2 DEF SaveConclusion, TypeOK, GoTo, Labels
<1>14. ASSUME NEW e \in Execs, NEW c \in Cases, ExecuteCase(e, c) PROVE TypeOK'
  <2>1. worker' \in [Execs -> [Cases -> Phases]]
    BY <1>0, <1>14 DEF ExecuteCase, Advance, TypeOK, Phases
  <2>2. verdict' \in [Execs -> [Cases -> Verdicts \cup {"none"}]]
    BY <1>0, <1>14 DEF ExecuteCase, TypeOK
  <2> QED
    BY <1>0, <1>14, <2>1, <2>2 DEF ExecuteCase, TypeOK
<1>15. ASSUME NEW e \in Execs, NEW c \in Cases, PersistResult(e, c) PROVE TypeOK'
  <2>1. worker' \in [Execs -> [Cases -> Phases]]
    BY <1>0, <1>15 DEF PersistResult, Advance, TypeOK, Phases
  <2>2. verdict[e][c] \in Verdicts
    BY <1>15 DEF IInv, Honest, PersistResult, Advance
  <2>3. verdict' \in [Execs -> [Cases -> Verdicts \cup {"none"}]]
    BY <1>0, <1>15 DEF PersistResult, VerdictAfterInsert, TypeOK, Verdicts
  <2>4. results' \subseteq [exec : Execs, case : Cases, verdict : Verdicts]
    BY <1>0, <1>15, <2>2 DEF PersistResult, TypeOK
  <2> QED
    BY <1>0, <1>15, <2>1, <2>3, <2>4 DEF PersistResult, TypeOK
<1>16. ASSUME NEW e \in Execs, NEW c \in Cases, Aggregate(e, c) PROVE TypeOK'
  <2>1. worker' \in [Execs -> [Cases -> Phases]]
    BY <1>0, <1>16 DEF Aggregate, Advance, TypeOK, Phases
  <2>2. verdict[e][c] \in Verdicts
    BY <1>16 DEF IInv, Honest, Aggregate, Advance
  <2>3. Increment(tally[e], verdict[e][c]) \in Tallies
    BY <1>0, <2>2, IncrementType DEF TypeOK
  <2>4. tally' \in [Execs -> Tallies]
    BY <1>0, <1>16, <2>3 DEF Aggregate, TypeOK
  <2>5. snap' \in [Execs -> [Cases -> Tallies]]
    BY <1>0, <1>16, <2>4 DEF Aggregate, TypeOK
  <2> QED
    BY <1>0, <1>16, <2>1, <2>4, <2>5 DEF Aggregate, TypeOK
<1>17. ASSUME NEW e \in Execs, NEW c \in Cases, PublishProgress(e, c) PROVE TypeOK'
  <2>1. worker' \in [Execs -> [Cases -> Phases]]
    BY <1>0, <1>17 DEF PublishProgress, Advance, TypeOK, Phases
  <2>2. Event(e, "progress", Shown(e, c), "running") \in EventTypes
    BY <1>0, EventType DEF Shown, Statuses, TypeOK
  <2>3. events' \in Seq(EventTypes)
    BY <1>0, <1>17, <2>2, PublishEffect DEF PublishProgress, TypeOK
  <2>4. snap' \in [Execs -> [Cases -> Tallies]]
    BY <1>0, <1>17, ZeroTallyType DEF PublishProgress, TypeOK
  <2> QED
    BY <1>0, <1>17, <2>1, <2>3, <2>4 DEF PublishProgress, TypeOK
<1>18. ASSUME NEW e \in Execs, NEW c \in Cases, ReleaseToken(e, c) PROVE TypeOK'
  <2>1. worker' \in [Execs -> [Cases -> Phases]]
    BY <1>0, <1>18 DEF ReleaseToken, Advance, TypeOK, Phases
  <2>2. sem[e] >= 1
    BY <1>18, DeferredCalls DEF ReleaseToken, Advance
  <2>3. sem' \in [Execs -> Nat]
    BY <1>0, <1>18, <2>2 DEF ReleaseToken, TypeOK
  <2> QED
    BY <1>0, <1>18, <2>1, <2>3 DEF ReleaseToken, TypeOK
<1>19. ASSUME NEW e \in Execs, NEW c \in Cases, LeaveGroup(e, c) PROVE TypeOK'
  <2>1. worker' \in [Execs -> [Cases -> Phases]]
    BY <1>0, <1>19 DEF LeaveGroup, Advance, TypeOK, Phases
  <2>2. wg[e] >= 1
    BY <1>19, DeferredCalls DEF LeaveGroup, Advance
  <2>3. wg' \in [Execs -> Nat]
    BY <1>0, <1>19, <2>2 DEF LeaveGroup, TypeOK
  <2> QED
    BY <1>0, <1>19, <2>1, <2>3 DEF LeaveGroup, TypeOK
<1>20. ASSUME NEW e \in Execs, CancelContext(e) PROVE TypeOK'
  BY <1>0, <1>20 DEF CancelContext, TypeOK, callVars
<1>21. CASE UNCHANGED vars
  BY <1>0, <1>21 DEF TypeOK, vars, callVars
<1> QED
  BY <1>1, <1>2, <1>3, <1>4, <1>5, <1>6, <1>7, <1>8, <1>9, <1>10, <1>11, <1>12,
     <1>13, <1>14, <1>15, <1>16, <1>17, <1>18, <1>19, <1>20, <1>21
     DEF Next, RunnerStep, MainStep, WorkerStep, Finished

(***************************************************************************)
(* The loop, the status and the workers move together.                     *)
(***************************************************************************)

\* A step of execOne moves one worker that is under way, and leaves everything
\* the goroutine of Run owns alone.
LEMMA WorkerFrame ==
  ASSUME NEW e \in Execs, NEW c \in Cases, WorkerStep(e, c)
  PROVE  /\ UNCHANGED <<mode, pc, status, next, ctxDone, row>>
         /\ worker[e][c] \notin {"idle", "done"}
         /\ \E to \in Phases \ {"idle"} : worker' = [worker EXCEPT ![e][c] = to]
BY DEF WorkerStep, ExecuteCase, PersistResult, Aggregate, PublishProgress,
       ReleaseToken, LeaveGroup, Advance, Phases

\* Nothing runs when the counter of the wait group is zero.
LEMMA EmptyGroup ==
  ASSUME IInv, NEW e \in Execs, Parallel, wg[e] = 0
  PROVE  Busy(e) = {}
<1>1. Cardinality(Busy(e)) \in Nat /\ (Cardinality(Busy(e)) = 0 => Busy(e) = {})
  BY CaseSets DEF Busy
<1>2. wg[e] = Cardinality(Busy(e)) + (IF pc[e] = "acquire" THEN 1 ELSE 0)
  BY DEF IInv, Counters
<1> QED
  BY <1>1, <1>2

LEMMA FlowStep ==
  ASSUME IInv, [Next]_vars, NEW d \in Execs
  PROVE  Flow(d)'
<1>0. TypeOK /\ Flow(d) /\ OneAtATime(d)
  BY DEF IInv
<1>1. ASSUME NEW e \in Execs, Call(e) PROVE Flow(d)'
  BY <1>0, <1>1 DEF Call, Flow, GoTo, TypeOK, Parallel, Busy
<1>2. ASSUME NEW e \in Execs, MarkRunning(e) PROVE Flow(d)'
  BY <1>0, <1>2 DEF MarkRunning, Flow, GoTo, TypeOK, Parallel, Busy
<1>3. ASSUME NEW e \in Execs, SeeCancel(e) PROVE Flow(d)'
  BY <1>0, <1>3, RunnerAssumption
     DEF SeeCancel, AtLoopHead, HasNext, Flow, GoTo, TypeOK, Parallel, Busy
<1>4. ASSUME NEW e \in Execs, RunNextCase(e) PROVE Flow(d)'
  BY <1>0, <1>4, RunnerAssumption
     DEF RunNextCase, AtLoopHead, HasNext, Flow, TypeOK, Parallel, Busy, Cases
<1>5. ASSUME NEW e \in Execs, AddToGroup(e) PROVE Flow(d)'
  BY <1>0, <1>5
     DEF AddToGroup, AtLoopHead, HasNext, Flow, GoTo, TypeOK, Parallel, Busy
<1>6. ASSUME NEW e \in Execs, StartWorker(e) PROVE Flow(d)'
  <2>1. next[e] <= NumCases /\ next[e] \in Cases
    BY <1>6, RunnerAssumption DEF IInv, TypeOK, Flow, StartWorker, Cases
  <2>2. CASE d = e
    <3>1. /\ next'[e] = next[e] + 1
          /\ worker'[e] = [worker[e] EXCEPT ![next[e]] = "execute"]
          /\ pc[e] = "acquire" /\ pc'[e] = "loop" /\ status'[e] = status[e]
      BY <1>0, <1>6, <2>2 DEF StartWorker, GoTo, TypeOK
    <3>a. /\ \A c \in Cases : worker[e][c] = "idle" <=> c >= next[e]
          /\ next[e] \in Int /\ DOMAIN worker[e] = Cases
      BY <1>0, <2>1, <2>2 DEF Flow, TypeOK, Cases
    <3>2. ASSUME NEW c \in Cases
          PROVE  worker'[e][c] = "idle" <=> c >= next'[e]
      <4>1. c \in Int
        BY DEF Cases
      <4>2. CASE c = next[e]
        <5>1. worker'[e][c] = "execute"
          BY <3>1, <3>a, <4>2
        <5> QED
          BY <3>1, <3>a, <4>1, <4>2, <5>1
      <4>3. CASE c # next[e]
        <5>1. worker'[e][c] = worker[e][c]
          BY <3>1, <3>a, <4>3
        <5> QED
          BY <3>1, <3>a, <4>1, <4>3, <5>1
      <4> QED
        BY <4>2, <4>3
    <3> QED
      BY <1>0, <2>2, <3>1, <3>2 DEF Flow
  <2>3. CASE d # e
    BY <1>0, <1>6, <2>3 DEF StartWorker, Flow, GoTo, TypeOK, Parallel, Busy
  <2> QED
    BY <2>2, <2>3
<1>7. ASSUME NEW e \in Execs, LeaveLoop(e) PROVE Flow(d)'
  BY <1>0, <1>7, RunnerAssumption
     DEF LeaveLoop, AtLoopHead, HasNext, LoopExit, Quiet, Flow, GoTo, TypeOK,
         Parallel, Busy
<1>8. ASSUME NEW e \in Execs, Drain(e) PROVE Flow(d)'
  <2>1. Busy(e) = {}
    BY <1>8, EmptyGroup DEF IInv, Drain, Flow
  <2> QED
    BY <1>0, <1>8, <2>1 DEF Drain, Flow, GoTo, TypeOK, Parallel, Busy
<1>9. ASSUME NEW e \in Execs, SaveCancel(e) PROVE Flow(d)'
  BY <1>0, <1>9 DEF SaveCancel, Flow, GoTo, TypeOK, Parallel, Busy
<1>10. ASSUME NEW e \in Execs, PublishCancel(e) PROVE Flow(d)'
  BY <1>0, <1>10
     DEF PublishCancel, LoopExit, OneAtATime, Flow, GoTo, TypeOK, Parallel, Busy
<1>11. ASSUME NEW e \in Execs, StampCancelled(e) PROVE Flow(d)'
  BY <1>0, <1>11 DEF StampCancelled, Flow, GoTo, TypeOK, Parallel, Busy
<1>12. ASSUME NEW e \in Execs, Conclude(e) PROVE Flow(d)'
  BY <1>0, <1>12 DEF Conclude, Conclusion, Flow, GoTo, TypeOK, Parallel, Busy
<1>13. ASSUME NEW e \in Execs, SaveConclusion(e) PROVE Flow(d)'
  BY <1>0, <1>13 DEF SaveConclusion, Flow, GoTo, TypeOK, Parallel, Busy
<1>14. ASSUME NEW e \in Execs, NEW c \in Cases, WorkerStep(e, c) PROVE Flow(d)'
  <2>1. /\ UNCHANGED <<mode, pc, status, next>>
        /\ worker[e][c] \notin {"idle", "done"}
        /\ \E to \in Phases \ {"idle"} : worker' = [worker EXCEPT ![e][c] = to]
    BY <1>14, WorkerFrame
  <2> QED
    BY <1>0, <2>1 DEF Flow, TypeOK, Parallel, Busy
<1>15. ASSUME NEW e \in Execs, CancelContext(e) PROVE Flow(d)'
  BY <1>0, <1>15 DEF CancelContext, callVars, Flow, Parallel, Busy
<1>16. CASE UNCHANGED vars
  BY <1>0, <1>16 DEF vars, callVars, Flow, Parallel, Busy
<1> QED
  BY <1>1, <1>2, <1>3, <1>4, <1>5, <1>6, <1>7, <1>8, <1>9, <1>10, <1>11, <1>12,
     <1>13, <1>14, <1>15, <1>16 DEF Next, RunnerStep, MainStep, Finished

LEMMA OneAtATimeStep ==
  ASSUME IInv, [Next]_vars, NEW d \in Execs
  PROVE  OneAtATime(d)'
<1>0. TypeOK /\ Flow(d) /\ OneAtATime(d)
  BY DEF IInv
<1>1. ASSUME NEW e \in Execs, RunNextCase(e) PROVE OneAtATime(d)'
  BY <1>0, <1>1
     DEF RunNextCase, AtLoopHead, Quiet, OneAtATime, TypeOK, Parallel, Busy
<1>2. ASSUME NEW e \in Execs, StartWorker(e) PROVE OneAtATime(d)'
  BY <1>2 DEF IInv, Flow, StartWorker, OneAtATime, Parallel
<1>3. ASSUME NEW e \in Execs, NEW c \in Cases, WorkerStep(e, c)
      PROVE  OneAtATime(d)'
  <2>1. UNCHANGED <<mode, pc>> /\ worker[e][c] \notin {"idle", "done"}
    BY <1>3, WorkerFrame
  <2>2. CASE Parallel
    BY <2>1, <2>2 DEF OneAtATime, Parallel
  <2>3. CASE ~Parallel
    <3>1. PICK to \in Phases \ {"idle", "release", "leave"} :
            worker' = [worker EXCEPT ![e][c] = to]
      BY <1>3, <2>3
         DEF IInv, OneAtATime, WorkerStep, ExecuteCase, PersistResult, Aggregate,
             PublishProgress, ReleaseToken, LeaveGroup, Advance, Phases
    <3>2. Busy(d)' \subseteq Busy(d)
      BY <1>0, <2>1, <3>1 DEF Busy, TypeOK
    <3>3. \A b \in Cases : worker'[d][b] \notin {"release", "leave"}
      BY <1>0, <2>3, <3>1 DEF OneAtATime, TypeOK
    <3> QED
      BY <1>0, <2>1, <2>3, <3>2, <3>3 DEF OneAtATime
  <2> QED
    BY <2>2, <2>3
<1>4. ASSUME NEW e \in Execs, SeeCancel(e) PROVE OneAtATime(d)'
  BY <1>0, <1>4
     DEF SeeCancel, AtLoopHead, Quiet, GoTo, OneAtATime, TypeOK, Parallel, Busy
<1>5. ASSUME NEW e \in Execs, SaveCancel(e) PROVE OneAtATime(d)'
  BY <1>0, <1>5 DEF SaveCancel, GoTo, OneAtATime, TypeOK, Parallel, Busy
<1>6. ASSUME NEW e \in Execs,
             \/ Call(e) \/ MarkRunning(e) \/ AddToGroup(e) \/ LeaveLoop(e)
             \/ Drain(e) \/ PublishCancel(e) \/ StampCancelled(e)
             \/ Conclude(e) \/ SaveConclusion(e)
      PROVE  OneAtATime(d)'
  <2>1. /\ UNCHANGED <<mode, worker>>
        /\ \E l \in Labels \ {"cancelSave", "cancelPublish"} :
             pc' = [pc EXCEPT ![e] = l]
    BY <1>6 DEF Call, MarkRunning, AddToGroup, LeaveLoop, Drain, PublishCancel,
                StampCancelled, Conclude, SaveConclusion, LoopExit, GoTo, Labels
  <2> QED
    BY <1>0, <2>1 DEF OneAtATime, TypeOK, Parallel, Busy
<1>7. ASSUME NEW e \in Execs, CancelContext(e) PROVE OneAtATime(d)'
  BY <1>0, <1>7 DEF CancelContext, callVars, OneAtATime, Parallel, Busy
<1>8. CASE UNCHANGED vars
  BY <1>0, <1>8 DEF vars, callVars, OneAtATime, Parallel, Busy
<1> QED
  BY <1>1, <1>2, <1>3, <1>4, <1>5, <1>6, <1>7, <1>8
     DEF Next, RunnerStep, MainStep, Finished

(***************************************************************************)
(* The counters count the workers.                                         *)
(***************************************************************************)

\* What the counters of d say only depends on its own workers and on whether
\* Run has announced a goroutine that it has not started.
LEMMA CountersFrame ==
  ASSUME NEW d \in Execs, Counters(d), Parallel' <=> Parallel,
         sem'[d] = sem[d], wg'[d] = wg[d],
         Holding(d)' = Holding(d), Busy(d)' = Busy(d),
         pc'[d] = "acquire" <=> pc[d] = "acquire"
  PROVE  Counters(d)'
BY DEF Counters

LEMMA CountersStep ==
  ASSUME IInv, [Next]_vars, NEW d \in Execs
  PROVE  Counters(d)'
<1>0. TypeOK /\ Flow(d) /\ OneAtATime(d) /\ Counters(d)
  BY DEF IInv
<1>1. ASSUME NEW e \in Execs,
             \/ Call(e) \/ MarkRunning(e) \/ SeeCancel(e) \/ LeaveLoop(e)
             \/ Drain(e) \/ SaveCancel(e) \/ PublishCancel(e)
             \/ StampCancelled(e) \/ Conclude(e) \/ SaveConclusion(e)
      PROVE  Counters(d)'
  <2>1. UNCHANGED <<mode, worker, sem, wg>>
    BY <1>1 DEF Call, MarkRunning, SeeCancel, LeaveLoop, Drain, SaveCancel,
                PublishCancel, StampCancelled, Conclude, SaveConclusion
  <2>2. /\ pc[e] # "acquire"
        /\ \E l \in Labels \ {"acquire"} : pc' = [pc EXCEPT ![e] = l]
    BY <1>1 DEF Call, MarkRunning, SeeCancel, LeaveLoop, AtLoopHead, Drain,
                SaveCancel, PublishCancel, StampCancelled, Conclude,
                SaveConclusion, LoopExit, GoTo, Labels
  <2>3. pc'[d] = "acquire" <=> pc[d] = "acquire"
    BY <1>0, <2>2 DEF TypeOK
  <2> QED
    BY <1>0, <2>1, <2>3, CountersFrame DEF Parallel, Holding, Busy
<1>2. ASSUME NEW e \in Execs, RunNextCase(e) PROVE Counters(d)'
  BY <1>2 DEF RunNextCase, Counters, Parallel
<1>3. ASSUME NEW e \in Execs, AddToGroup(e) PROVE Counters(d)'
  <2>1. Holding(d)' = Holding(d) /\ Busy(d)' = Busy(d) /\ (Parallel' <=> Parallel)
    BY <1>3 DEF AddToGroup, Holding, Busy, Parallel
  <2>2. CASE d = e
    <3>1. Cardinality(Busy(d)) \in Nat
      BY CaseSets DEF Busy
    <3>2. /\ sem'[d] = sem[d] /\ wg'[d] = wg[d] + 1
          /\ pc[d] # "acquire" /\ pc'[d] = "acquire"
      BY <1>0, <1>3, <2>2 DEF AddToGroup, AtLoopHead, GoTo, TypeOK
    <3> QED
      BY <1>0, <2>1, <3>1, <3>2 DEF Counters
  <2>3. CASE d # e
    BY <1>0, <1>3, <2>1, <2>3, CountersFrame DEF AddToGroup, GoTo, TypeOK
  <2> QED
    BY <2>2, <2>3
<1>4. ASSUME NEW e \in Execs, StartWorker(e) PROVE Counters(d)'
  <2>1. CASE d = e
    <3> DEFINE c == next[e]
    <3>1. c \in Cases /\ worker[d][c] = "idle"
      BY <1>0, <1>4, <2>1, RunnerAssumption DEF TypeOK, Flow, StartWorker, Cases
    <3>2. /\ sem'[d] = sem[d] + 1 /\ sem[d] < Concurrency /\ wg'[d] = wg[d]
          /\ pc[d] = "acquire" /\ pc'[d] = "loop"
          /\ worker'[d] = [worker[d] EXCEPT ![c] = "execute"]
      BY <1>0, <1>4, <2>1 DEF StartWorker, HasToken, GoTo, TypeOK
    <3> HIDE DEF c
    <3>3. /\ Holding(d)' = Holding(d) \cup {c} /\ c \in Cases \ Holding(d)
          /\ Busy(d)' = Busy(d) \cup {c} /\ c \in Cases \ Busy(d)
      BY <1>0, <3>1, <3>2 DEF Holding, Busy, TypeOK
    <3>4. /\ Cardinality(Holding(d)') = Cardinality(Holding(d)) + 1
          /\ Cardinality(Busy(d)') = Cardinality(Busy(d)) + 1
          /\ Cardinality(Busy(d)) \in Nat
      <4>1. Holding(d) \in SUBSET Cases /\ Busy(d) \in SUBSET Cases
        BY DEF Holding, Busy
      <4> QED
        BY <3>3, <4>1, CaseSets
    <3>5. Concurrency \in Int /\ sem[d] \in Nat /\ wg[d] \in Nat
      BY <1>0, RunnerAssumption DEF TypeOK
    <3>6. Parallel' <=> Parallel
      BY <1>4 DEF StartWorker, Parallel
    <3> QED
      BY <1>0, <3>2, <3>4, <3>5, <3>6 DEF Counters
  <2>2. CASE d # e
    BY <1>0, <1>4, <2>2, CountersFrame
       DEF StartWorker, GoTo, TypeOK, Holding, Busy, Parallel
  <2> QED
    BY <2>1, <2>2
<1>5. ASSUME NEW e \in Execs, NEW c \in Cases,
             \/ ExecuteCase(e, c) \/ PersistResult(e, c) \/ Aggregate(e, c)
             \/ PublishProgress(e, c)
      PROVE  Counters(d)'
  <2>1. CASE Parallel
    <3>1. /\ UNCHANGED <<mode, pc, sem, wg>>
          /\ worker[e][c] \in {"execute", "persist", "aggregate", "publish"}
          /\ \E to \in {"persist", "aggregate", "publish", "release"} :
                worker' = [worker EXCEPT ![e][c] = to]
      BY <1>5, <2>1
         DEF ExecuteCase, PersistResult, Aggregate, PublishProgress, Advance
    <3>2. Holding(d)' = Holding(d) /\ Busy(d)' = Busy(d)
      BY <1>0, <3>1 DEF Holding, Busy, TypeOK
    <3> QED
      BY <1>0, <3>1, <3>2, CountersFrame DEF Parallel
  <2>2. CASE ~Parallel
    BY <1>5, <2>2 DEF ExecuteCase, PersistResult, Aggregate, PublishProgress,
                      Counters, Parallel
  <2> QED
    BY <2>1, <2>2
<1>6. ASSUME NEW e \in Execs, NEW c \in Cases, ReleaseToken(e, c)
      PROVE  Counters(d)'
  <2>0. Busy(d)' = Busy(d) /\ UNCHANGED <<mode, pc, wg>>
    BY <1>0, <1>6 DEF ReleaseToken, Advance, Busy, TypeOK
  <2>1. CASE d = e
    <3>1. Holding(d)' = Holding(d) \ {c} /\ c \in Holding(d) /\ sem'[d] = sem[d] - 1
      BY <1>0, <1>6, <2>1 DEF ReleaseToken, Advance, Holding, TypeOK
    <3>2. Cardinality(Holding(d)') = Cardinality(Holding(d)) - 1
      <4>1. Holding(d) \in SUBSET Cases
        BY DEF Holding
      <4> QED
        BY <3>1, <4>1, CaseSets
    <3>3. Concurrency \in Int /\ sem[d] \in Nat
      BY <1>0, RunnerAssumption DEF TypeOK
    <3> QED
      BY <1>0, <2>0, <3>1, <3>2, <3>3 DEF Counters, Parallel
  <2>2. CASE d # e
    BY <1>0, <1>6, <2>0, <2>2, CountersFrame
       DEF ReleaseToken, Advance, TypeOK, Holding, Parallel
  <2> QED
    BY <2>1, <2>2
<1>7. ASSUME NEW e \in Execs, NEW c \in Cases, LeaveGroup(e, c)
      PROVE  Counters(d)'
  <2>0. Holding(d)' = Holding(d) /\ UNCHANGED <<mode, pc, sem>>
    BY <1>0, <1>7 DEF LeaveGroup, Advance, Holding, TypeOK
  <2>1. CASE d = e
    <3>1. Busy(d)' = Busy(d) \ {c} /\ c \in Busy(d) /\ wg'[d] = wg[d] - 1
      BY <1>0, <1>7, <2>1 DEF LeaveGroup, Advance, Busy, TypeOK
    <3>2. /\ Cardinality(Busy(d)') = Cardinality(Busy(d)) - 1
          /\ Cardinality(Busy(d)) \in Nat
      <4>1. Busy(d) \in SUBSET Cases
        BY DEF Busy
      <4> QED
        BY <3>1, <4>1, CaseSets
    <3>3. wg[d] \in Nat
      BY <1>0 DEF TypeOK
    <3> QED
      BY <1>0, <2>0, <3>1, <3>2, <3>3 DEF Counters, Parallel
  <2>2. CASE d # e
    BY <1>0, <1>7, <2>0, <2>2, CountersFrame
       DEF LeaveGroup, Advance, TypeOK, Busy, Parallel
  <2> QED
    BY <2>1, <2>2
<1>8. ASSUME NEW e \in Execs, CancelContext(e) PROVE Counters(d)'
  BY <1>0, <1>8, CountersFrame DEF CancelContext, callVars, Parallel, Holding, Busy
<1>9. CASE UNCHANGED vars
  BY <1>0, <1>9, CountersFrame DEF vars, callVars, Parallel, Holding, Busy
<1> QED
  BY <1>1, <1>2, <1>3, <1>4, <1>5, <1>6, <1>7, <1>8, <1>9
     DEF Next, RunnerStep, MainStep, WorkerStep, Finished

(***************************************************************************)
(* A success is earned.                                                    *)
(***************************************************************************)

\* A call that counted no failure and no error has stored a pass for every
\* case: this is where the verdict of the run comes from.
LEMMA NothingMissed ==
  ASSUME IInv, NEW e \in Execs, pc[e] = "guard", status[e] # "cancelled",
         Conclusion(e) = "success"
  PROVE  AllPassed(e)
<1>1. /\ TypeOK /\ Flow(e) /\ Honest(e)
  BY DEF IInv
<1>2. tally[e]["fail"] = 0 /\ tally[e]["error"] = 0
  BY <1>1 DEF Conclusion, TypeOK, Tallies, Verdicts
<1>3. ASSUME NEW c \in Cases PROVE worker[e][c] = "done"
  <2>1. next[e] = NumCases + 1 /\ Busy(e) = {}
    BY <1>1 DEF Flow
  <2>2. worker[e][c] # "idle"
    BY <1>1, <2>1, RunnerAssumption DEF Flow, Cases
  <2> QED
    BY <2>1, <2>2 DEF Busy
<1>4. ASSUME NEW c \in Cases PROVE verdict[e][c] = "pass"
  <2>1. verdict[e][c] \in Verdicts /\ tally[e][verdict[e][c]] >= 1
    BY <1>1, <1>3 DEF Honest, Counted
  <2> QED
    BY <1>2, <2>1 DEF Verdicts
<1> QED
  BY <1>1, <1>3, <1>4 DEF Honest, AllPassed

\* Nothing a successful call did is taken back.
LEMMA SuccessStable ==
  ASSUME IInv, [Next]_vars, NEW d \in Execs, status[d] = "success"
  PROVE  status'[d] = "success"
<1>0. TypeOK /\ pc[d] \in {"save", "returned"}
  BY DEF IInv, Flow
<1>1. ASSUME NEW e \in Execs, Call(e) \/ RunnerStep(e) \/ CancelContext(e)
      PROVE  status'[d] = "success"
  BY <1>0, <1>1
     DEF Call, RunnerStep, CancelContext, callVars, MainStep, WorkerStep,
         MarkRunning, SeeCancel, AtLoopHead, RunNextCase, AddToGroup, StartWorker,
         LeaveLoop, Drain, SaveCancel, PublishCancel, StampCancelled, Conclude,
         SaveConclusion, ExecuteCase, PersistResult, Aggregate, PublishProgress,
         ReleaseToken, LeaveGroup, TypeOK
<1> QED
  BY <1>1 DEF Next, Finished, vars, callVars

\* The honesty of d only depends on what its workers counted and stored.
LEMMA HonestFrame ==
  ASSUME NEW d \in Execs, Honest(d), results \subseteq results',
         worker'[d] = worker[d], verdict'[d] = verdict[d], tally'[d] = tally[d],
         status'[d] = "success" => status[d] = "success"
  PROVE  Honest(d)'
BY DEF Honest, Counted, AllPassed

LEMMA HonestStep ==
  ASSUME IInv, [Next]_vars, NEW d \in Execs
  PROVE  Honest(d)'
<1>0. TypeOK /\ Flow(d) /\ Honest(d)
  BY DEF IInv
<1>1. ASSUME NEW e \in Execs,
             \/ Call(e) \/ MarkRunning(e) \/ SeeCancel(e) \/ AddToGroup(e)
             \/ LeaveLoop(e) \/ Drain(e) \/ SaveCancel(e) \/ PublishCancel(e)
             \/ StampCancelled(e) \/ SaveConclusion(e) \/ CancelContext(e)
      PROVE  Honest(d)'
  <2>1. UNCHANGED <<results, worker, verdict, tally>>
    BY <1>1 DEF Call, MarkRunning, SeeCancel, AddToGroup, LeaveLoop, Drain,
                SaveCancel, PublishCancel, StampCancelled, SaveConclusion,
                CancelContext, callVars
  <2>2. status'[d] = "success" => status[d] = "success"
    BY <1>0, <1>1 DEF Call, MarkRunning, SeeCancel, AddToGroup, LeaveLoop, Drain,
                SaveCancel, PublishCancel, StampCancelled, SaveConclusion,
                CancelContext, callVars, TypeOK
  <2> QED
    BY <1>0, <2>1, <2>2, HonestFrame
<1>2. ASSUME NEW e \in Execs, RunNextCase(e) \/ StartWorker(e) PROVE Honest(d)'
  <2>1. /\ UNCHANGED <<results, verdict, tally, status>>
        /\ worker' = [worker EXCEPT ![e][next[e]] = "execute"]
        /\ pc[e] \in {"loop", "acquire"}
    BY <1>2 DEF RunNextCase, StartWorker, AtLoopHead
  <2>2. CASE d = e
    <3>1. status[d] # "success"
      BY <1>0, <2>1, <2>2 DEF Flow
    <3>2. \A c \in Cases : worker'[d][c] # "execute" => worker'[d][c] = worker[d][c]
      BY <1>0, <2>1, <2>2 DEF TypeOK
    <3> QED
      BY <1>0, <2>1, <3>1, <3>2 DEF Honest, Counted
  <2>3. CASE d # e
    BY <1>0, <2>1, <2>3, HonestFrame DEF TypeOK
  <2> QED
    BY <2>2, <2>3
<1>3. ASSUME NEW e \in Execs, Conclude(e) PROVE Honest(d)'
  <2>1. UNCHANGED <<results, worker, verdict, tally>>
    BY <1>3 DEF Conclude
  <2>2. CASE d = e
    <3>1. status'[d] = "success" => AllPassed(d)
      BY <1>0, <1>3, <2>2, NothingMissed DEF Conclude, TypeOK
    <3> QED
      BY <1>0, <2>1, <3>1 DEF Honest, Counted, AllPassed
  <2>3. CASE d # e
    BY <1>0, <1>3, <2>1, <2>3, HonestFrame DEF Conclude, TypeOK
  <2> QED
    BY <2>2, <2>3
<1>4. ASSUME NEW e \in Execs, NEW c \in Cases, WorkerStep(e, c) PROVE Honest(d)'
  <2>0. /\ UNCHANGED <<pc, status>> /\ worker[e][c] \notin {"idle", "done"}
    BY <1>4, WorkerFrame
  <2>1. results \subseteq results'
    BY <1>4 DEF WorkerStep, ExecuteCase, PersistResult, Aggregate,
                PublishProgress, ReleaseToken, LeaveGroup
  <2>2. CASE d # e
    <3>1. worker'[d] = worker[d] /\ verdict'[d] = verdict[d] /\ tally'[d] = tally[d]
      BY <1>0, <1>4, <2>2
         DEF WorkerStep, ExecuteCase, PersistResult, Aggregate, PublishProgress,
             ReleaseToken, LeaveGroup, Advance, TypeOK
    <3> QED
      BY <1>0, <2>0, <2>1, <3>1, HonestFrame
  <2>3. CASE d = e
    <3>0. status'[d] # "success"
      BY <1>0, <2>0, <2>3 DEF Flow, Busy
    <3>1. CASE ExecuteCase(e, c)
      <4>1. /\ verdict'[d][c] \in Verdicts /\ worker'[d][c] = "persist"
            /\ UNCHANGED <<tally, results>>
            /\ \A b \in Cases \ {c} :
                 worker'[d][b] = worker[d][b] /\ verdict'[d][b] = verdict[d][b]
        BY <1>0, <2>3, <3>1 DEF ExecuteCase, Advance, TypeOK
      <4> QED
        BY <1>0, <3>0, <4>1 DEF Honest, Counted
    <3>2. CASE PersistResult(e, c)
      <4>1. /\ worker[d][c] = "persist" /\ worker'[d][c] = "aggregate"
            /\ UNCHANGED tally
            /\ \A b \in Cases \ {c} :
                 worker'[d][b] = worker[d][b] /\ verdict'[d][b] = verdict[d][b]
        BY <1>0, <2>3, <3>2 DEF PersistResult, Advance, TypeOK
      <4>2. /\ verdict'[d][c] \in Verdicts
            /\ verdict'[d][c] = "pass" =>
                 [exec |-> d, case |-> c, verdict |-> "pass"] \in results'
        <5>1. verdict[d][c] \in Verdicts
          BY <1>0, <4>1 DEF Honest
        <5> QED
          BY <1>0, <2>3, <3>2, <5>1
             DEF PersistResult, VerdictAfterInsert, Verdicts, TypeOK
      <4> QED
        BY <1>0, <2>1, <3>0, <4>1, <4>2 DEF Honest, Counted
    <3>3. CASE Aggregate(e, c)
      <4>1. /\ worker[d][c] = "aggregate" /\ worker'[d][c] = "publish"
            /\ UNCHANGED <<verdict, results>>
            /\ tally'[d] = Increment(tally[d], verdict[d][c])
            /\ \A b \in Cases \ {c} : worker'[d][b] = worker[d][b]
        BY <1>0, <2>3, <3>3 DEF Aggregate, Advance, TypeOK
      <4>2. verdict[d][c] \in Verdicts /\ tally[d] \in [Verdicts -> Nat]
        BY <1>0, <4>1 DEF Honest, TypeOK, Tallies
      <4>3. /\ tally'[d][verdict[d][c]] >= 1
            /\ \A v \in Verdicts : tally[d][v] >= 1 => tally'[d][v] >= 1
        BY <4>1, <4>2 DEF Increment
      <4>4. ASSUME NEW b \in Cases, Counted(d, b)'
            PROVE  tally'[d][verdict'[d][b]] >= 1
        <5>1. CASE b = c
          BY <4>1, <4>3, <5>1
        <5>2. CASE b # c
          BY <1>0, <4>1, <4>3, <4>4, <5>2 DEF Honest, Counted
        <5> QED
          BY <5>1, <5>2
      <4> QED
        BY <1>0, <3>0, <4>1, <4>2, <4>4 DEF Honest
    <3>4. CASE PublishProgress(e, c) \/ ReleaseToken(e, c) \/ LeaveGroup(e, c)
      <4>1. /\ UNCHANGED <<verdict, results, tally>>
            /\ worker[d][c] \in {"publish", "release", "leave"}
            /\ worker'[d][c] \in {"release", "leave", "done"}
            /\ \A b \in Cases \ {c} : worker'[d][b] = worker[d][b]
        BY <1>0, <2>3, <3>4
           DEF PublishProgress, ReleaseToken, LeaveGroup, Advance, TypeOK
      <4> QED
        BY <1>0, <3>0, <4>1 DEF Honest, Counted
    <3> QED
      BY <1>4, <3>1, <3>2, <3>3, <3>4 DEF WorkerStep
  <2> QED
    BY <2>2, <2>3
<1>5. CASE UNCHANGED vars
  BY <1>0, <1>5, HonestFrame DEF vars, callVars
<1> QED
  BY <1>1, <1>2, <1>3, <1>4, <1>5 DEF Next, RunnerStep, MainStep, Finished

\* What is published or saved never claims more than the calls achieved.
LEMMA ToldFrame ==
  ASSUME IInv, [Next]_vars, TypeOK', UNCHANGED <<row, events>>
  PROVE  Told'
<1>1. TypeOK /\ Told
  BY DEF IInv
<1>2. row.status = "success" => \E e \in Execs : status'[e] = "success"
  BY <1>1, SuccessStable DEF Told
<1>3. ASSUME NEW i \in 1 .. Len(events), events[i].status = "success"
      PROVE  status'[events[i].exec] = "success"
  <2>1. events[i].exec \in Execs
    BY <1>1, EventCaller DEF TypeOK
  <2> QED
    BY <1>1, <1>3, <2>1, SuccessStable DEF Told
<1> QED
  BY <1>2, <1>3 DEF Told

LEMMA ToldRow ==
  ASSUME IInv, [Next]_vars, TypeOK', UNCHANGED events, NEW new, NEW e \in Execs,
         UpdateRow(e, new),
         new.status = "success" => status'[e] = "success" \/ row.status = "success"
  PROVE  Told'
<1>1. TypeOK /\ Told
  BY DEF IInv
<1>2. row' = row \/ row' = new
  BY UpdateEffect
<1>3. row'.status = "success" => \E d \in Execs : status'[d] = "success"
  BY <1>1, <1>2, SuccessStable DEF Told
<1>4. ASSUME NEW i \in 1 .. Len(events), events[i].status = "success"
      PROVE  status'[events[i].exec] = "success"
  <2>1. events[i].exec \in Execs
    BY <1>1, EventCaller DEF TypeOK
  <2> QED
    BY <1>1, <1>4, <2>1, SuccessStable DEF Told
<1> QED
  BY <1>3, <1>4 DEF Told

LEMMA ToldEvent ==
  ASSUME IInv, [Next]_vars, TypeOK', UNCHANGED row,
         NEW event \in EventTypes, Publish(event.exec, event),
         event.status = "success" => status'[event.exec] = "success"
  PROVE  Told'
<1>1. TypeOK /\ Told
  BY DEF IInv
<1>2. row.status = "success" => \E e \in Execs : status'[e] = "success"
  BY <1>1, SuccessStable DEF Told
<1>3. events \in Seq(EventTypes) /\ (events' = events \/ events' = Append(events, event))
  BY <1>1 DEF Publish, TypeOK
<1>4. ASSUME NEW i \in 1 .. Len(events'), events'[i].status = "success"
      PROVE  status'[events'[i].exec] = "success"
  <2>1. CASE i \in 1 .. Len(events) /\ events'[i] = events[i]
    <3>1. events[i].exec \in Execs
      BY <1>3, <2>1, EventCaller
    <3> QED
      BY <1>1, <1>4, <2>1, <3>1, SuccessStable DEF Told
  <2>2. CASE events'[i] = event
    BY <1>4, <2>2
  <2> QED
    BY <1>3, <2>1, <2>2
<1> QED
  BY <1>2, <1>4 DEF Told

LEMMA ToldStep ==
  ASSUME IInv, [Next]_vars, TypeOK'
  PROVE  Told'
<1>0. TypeOK /\ Told
  BY DEF IInv
<1>1. ASSUME NEW e \in Execs,
             \/ Call(e) \/ SeeCancel(e) \/ RunNextCase(e) \/ AddToGroup(e)
             \/ StartWorker(e) \/ LeaveLoop(e) \/ Drain(e) \/ CancelContext(e)
      PROVE  Told'
  <2>1. UNCHANGED <<row, events>>
    BY <1>1 DEF Call, SeeCancel, RunNextCase, AddToGroup, StartWorker, LeaveLoop,
                Drain, CancelContext
  <2> QED
    BY <2>1, ToldFrame
<1>2. ASSUME NEW e \in Execs, NEW c \in Cases,
             \/ ExecuteCase(e, c) \/ PersistResult(e, c) \/ Aggregate(e, c)
             \/ ReleaseToken(e, c) \/ LeaveGroup(e, c)
      PROVE  Told'
  <2>1. UNCHANGED <<row, events>>
    BY <1>2 DEF ExecuteCase, PersistResult, Aggregate, ReleaseToken, LeaveGroup
  <2> QED
    BY <2>1, ToldFrame
<1>3. ASSUME NEW e \in Execs, MarkRunning(e) PROVE Told'
  <2> DEFINE new == [row EXCEPT !.status = "running"]
  <2>1. UpdateRow(e, new) /\ UNCHANGED events /\ new.status # "success"
    BY <1>0, <1>3 DEF MarkRunning, TypeOK
  <2> HIDE DEF new
  <2> QED
    BY <2>1, ToldRow
<1>4. ASSUME NEW e \in Execs, SaveCancel(e) PROVE Told'
  <2> DEFINE new == [row EXCEPT !.status = "cancelled", !.finished = TRUE]
  <2>1. UpdateRow(e, new) /\ UNCHANGED events /\ new.status # "success"
    BY <1>0, <1>4 DEF SaveCancel, TypeOK
  <2> HIDE DEF new
  <2> QED
    BY <2>1, ToldRow
<1>5. ASSUME NEW e \in Execs, StampCancelled(e) PROVE Told'
  <2> DEFINE new == [row EXCEPT !.finished = TRUE]
  <2>1. UpdateRow(e, new) /\ UNCHANGED events /\ new.status = row.status
    BY <1>0, <1>5 DEF StampCancelled, TypeOK
  <2> HIDE DEF new
  <2> QED
    BY <2>1, ToldRow
<1>6. ASSUME NEW e \in Execs, SaveConclusion(e) PROVE Told'
  <2>1. UpdateRow(e, FinalRow(e)) /\ UNCHANGED events /\ FinalRow(e).status = status'[e]
    BY <1>6 DEF SaveConclusion, FinalRow
  <2> QED
    BY <2>1, ToldRow
<1>7. ASSUME NEW e \in Execs, PublishCancel(e) PROVE Told'
  <2> DEFINE event == Event(e, "complete", ZeroTally, "cancelled")
  <2>1. event \in EventTypes
    BY EventType, ZeroTallyType DEF Statuses
  <2>2. Publish(e, event) /\ UNCHANGED row
    BY <1>7 DEF PublishCancel
  <2>3. event.exec = e /\ event.status # "success"
    BY DEF Event
  <2> HIDE DEF event
  <2> QED
    BY <2>1, <2>2, <2>3, ToldEvent
<1>8. ASSUME NEW e \in Execs, Conclude(e) PROVE Told'
  <2> DEFINE event == Event(e, "complete", tally[e], Conclusion(e))
  <2>1. event \in EventTypes
    BY <1>0, EventType DEF TypeOK, Conclusion, Statuses
  <2>2. Publish(e, event) /\ UNCHANGED row
    BY <1>8 DEF Conclude
  <2>3. event.exec = e /\ event.status = status'[e]
    BY <1>0, <1>8 DEF Conclude, Event, TypeOK
  <2> HIDE DEF event
  <2> QED
    BY <2>1, <2>2, <2>3, ToldEvent
<1>9. ASSUME NEW e \in Execs, NEW c \in Cases, PublishProgress(e, c) PROVE Told'
  <2> DEFINE event == Event(e, "progress", Shown(e, c), "running")
  <2>1. event \in EventTypes
    BY <1>0, EventType DEF Shown, TypeOK, Statuses
  <2>2. Publish(e, event) /\ UNCHANGED row
    BY <1>9 DEF PublishProgress
  <2>3. event.exec = e /\ event.status # "success"
    BY DEF Event
  <2> HIDE DEF event
  <2> QED
    BY <2>1, <2>2, <2>3, ToldEvent
<1>10. CASE UNCHANGED vars
  <2>1. UNCHANGED <<row, events>>
    BY <1>10 DEF vars
  <2> QED
    BY <2>1, ToldFrame
<1> QED
  BY <1>1, <1>2, <1>3, <1>4, <1>5, <1>6, <1>7, <1>8, <1>9, <1>10
     DEF Next, RunnerStep, MainStep, WorkerStep, Finished

(***************************************************************************)
(* The invariant and what follows from it.                                 *)
(***************************************************************************)

LEMMA InitIInv == Init => IInv
<1> SUFFICES ASSUME Init PROVE IInv
  OBVIOUS
<1>1. TypeOK
  BY InitTypeOK
<1>2. ASSUME NEW e \in Execs PROVE Holding(e) = {} /\ Busy(e) = {}
  BY <1>2 DEF Init, Holding, Busy
<1>3. ASSUME NEW e \in Execs PROVE Flow(e)
  BY <1>2, <1>3, RunnerAssumption DEF Init, Flow, Cases
<1>4. ASSUME NEW e \in Execs PROVE OneAtATime(e)
  BY <1>2, <1>4 DEF Init, OneAtATime
<1>5. ASSUME NEW e \in Execs PROVE Counters(e)
  <2>1. Cardinality({}) = 0
    BY FS_EmptySet
  <2>2. Holding(e) = {} /\ Busy(e) = {}
    BY <1>2
  <2>3. sem[e] = 0 /\ wg[e] = 0 /\ pc[e] = "idle"
    BY DEF Init
  <2>4. Cardinality(Holding(e)) = 0 /\ Cardinality(Busy(e)) = 0
    BY <2>1, <2>2
  <2> QED
    BY <2>3, <2>4, RunnerAssumption DEF Counters, Parallel
<1>6. ASSUME NEW e \in Execs PROVE Honest(e)
  BY <1>6 DEF Init, Honest, Counted
<1>7. Told
  BY DEF Init, Told
<1> QED
  BY <1>1, <1>3, <1>4, <1>5, <1>6, <1>7 DEF IInv

LEMMA StepIInv == IInv /\ [Next]_vars => IInv'
BY TypeStep, FlowStep, OneAtATimeStep, CountersStep, HonestStep, ToldStep DEF IInv

LEMMA Inductive == Spec => []IInv
BY InitIInv, StepIInv, PTL DEF Spec

\* Every variable always holds what its Go counterpart can hold; in particular
\* wg.Done never takes the wait group of runParallel below zero, which would
\* panic, and no worker waits for a token it never took.
THEOREM TypeCorrect == Spec => []TypeOK
<1>1. IInv => TypeOK
  BY DEF IInv
<1> QED
  BY <1>1, Inductive, PTL

\* However many cases and workers there are, and whatever fails or is
\* cancelled, the cases in execOne never exceed run.Concurrency (one for a
\* sequential run, or for a parallel one with no concurrency to use).
THEOREM ConcurrencyBounded == Spec => []BoundedConcurrency
<1>1. ASSUME IInv, NEW e \in Execs PROVE Cardinality(Executing(e)) <= Limit
  <2>1. Executing(e) \subseteq Holding(e) /\ Executing(e) \subseteq Busy(e)
    BY DEF Executing, Holding, Busy
  <2>2. IsFiniteSet(Holding(e)) /\ IsFiniteSet(Busy(e))
    <3>1. IsFiniteSet(Cases)
      BY RunnerAssumption, FS_Interval DEF Cases
    <3> QED
      BY <3>1, FS_Subset DEF Holding, Busy
  <2>3. CASE Parallel
    <3>1. Cardinality(Executing(e)) <= Cardinality(Holding(e))
      BY <2>1, <2>2, FS_Subset
    <3>2. Cardinality(Holding(e)) <= Concurrency
      BY <1>1, <2>3 DEF IInv, Counters
    <3>3. /\ Cardinality(Executing(e)) \in Nat /\ Cardinality(Holding(e)) \in Nat
          /\ Concurrency \in Int
      BY <2>1, <2>2, FS_Subset, FS_CardinalityType, RunnerAssumption
    <3> QED
      BY <2>3, <3>1, <3>2, <3>3 DEF Limit
  <2>4. CASE ~Parallel
    <3>1. \A c, d \in Executing(e) : c = d
      BY <1>1, <2>1, <2>4 DEF IInv, OneAtATime
    <3>2. CASE Executing(e) = {}
      BY <2>4, <3>2, FS_EmptySet DEF Limit
    <3>3. CASE Executing(e) # {}
      <4>1. PICK c \in Executing(e) : Executing(e) = {c}
        BY <3>1, <3>3
      <4>2. Cardinality({c}) = 1
        BY FS_Singleton
      <4>3. Cardinality(Executing(e)) = 1
        BY <4>1, <4>2
      <4> QED
        BY <2>4, <4>3 DEF Limit
    <3> QED
      BY <3>2, <3>3
  <2> QED
    BY <2>3, <2>4
<1>2. IInv => BoundedConcurrency
  BY <1>1 DEF BoundedConcurrency
<1> QED
  BY <1>2, Inductive, PTL

\* Run reads the counters and decides only after every goroutine it started
\* has returned, on the cancelled way out as well.
THEOREM LoopJoinsWorkers == Spec => []NoWorkerOutlivesLoop
<1>1. IInv => NoWorkerOutlivesLoop
  BY DEF IInv, Flow, NoWorkerOutlivesLoop
<1> QED
  BY <1>1, Inductive, PTL

\* A run is reported as a success, by its row or by an event, only when every
\* case passed and the pass of every case is stored.
THEOREM SuccessEarned == Spec => []SuccessIsEarned
<1>1. ASSUME IInv PROVE SuccessIsEarned
  <2>1. \A e \in Execs : status[e] = "success" => AllPassed(e)
    BY <1>1 DEF IInv, Honest
  <2>2. row.status = "success" => \E e \in Execs : AllPassed(e)
    BY <1>1, <2>1 DEF IInv, Told
  <2>3. ASSUME NEW i \in 1 .. Len(events), events[i].status = "success"
        PROVE  AllPassed(events[i].exec)
    <3>1. events[i].exec \in Execs
      BY <1>1, EventCaller DEF IInv, TypeOK
    <3> QED
      BY <1>1, <2>1, <2>3, <3>1 DEF IInv, Told
  <2> QED
    BY <2>1, <2>2, <2>3 DEF SuccessIsEarned
<1> QED
  BY <1>1, Inductive, PTL

(***************************************************************************)
(* The counters are exact.                                                 *)
(***************************************************************************)

\* The cases counted with verdict v.
Tallied(e, v) == {c \in Cases : Counted(e, c) /\ verdict[e][c] = v}

\* At any moment a counter is the number of cases counted under it.
Exact(e) == \A v \in Verdicts : tally[e][v] = Cardinality(Tallied(e, v))

LEMMA ExactStep ==
  ASSUME IInv, [Next]_vars, NEW d \in Execs, Exact(d)
  PROVE  Exact(d)'
<1>0. TypeOK /\ Flow(d) /\ Honest(d)
  BY DEF IInv
<1>1. ASSUME NEW e \in Execs,
             \/ Call(e) \/ MarkRunning(e) \/ SeeCancel(e) \/ AddToGroup(e)
             \/ LeaveLoop(e) \/ Drain(e) \/ SaveCancel(e) \/ PublishCancel(e)
             \/ StampCancelled(e) \/ Conclude(e) \/ SaveConclusion(e)
             \/ CancelContext(e)
      PROVE  Exact(d)'
  <2>1. UNCHANGED <<worker, verdict, tally>>
    BY <1>1 DEF Call, MarkRunning, SeeCancel, AddToGroup, LeaveLoop, Drain,
                SaveCancel, PublishCancel, StampCancelled, Conclude,
                SaveConclusion, CancelContext, callVars
  <2> QED
    BY <2>1 DEF Exact, Tallied, Counted
<1>2. ASSUME NEW e \in Execs, RunNextCase(e) \/ StartWorker(e) PROVE Exact(d)'
  <2>1. /\ UNCHANGED <<verdict, tally>>
        /\ worker' = [worker EXCEPT ![e][next[e]] = "execute"]
    BY <1>2 DEF RunNextCase, StartWorker
  <2>2. worker[e][next[e]] = "idle" /\ next[e] \in Cases
    BY <1>2, RunnerAssumption
       DEF IInv, Flow, TypeOK, RunNextCase, StartWorker, HasNext, Cases
  <2>3. ASSUME NEW c \in Cases PROVE Counted(d, c)' <=> Counted(d, c)
    BY <1>0, <2>1, <2>2 DEF Counted, TypeOK
  <2>4. \A v \in Verdicts : Tallied(d, v)' = Tallied(d, v)
    BY <2>1, <2>3 DEF Tallied
  <2> QED
    BY <2>1, <2>4 DEF Exact
<1>3. ASSUME NEW e \in Execs, NEW c \in Cases,
             \/ ExecuteCase(e, c) \/ PersistResult(e, c) \/ PublishProgress(e, c)
             \/ ReleaseToken(e, c) \/ LeaveGroup(e, c)
      PROVE  Exact(d)'
  <2>1. UNCHANGED tally
    BY <1>3 DEF ExecuteCase, PersistResult, PublishProgress, ReleaseToken, LeaveGroup
  <2>2. ASSUME NEW b \in Cases
        PROVE  /\ Counted(d, b)' <=> Counted(d, b)
               /\ Counted(d, b) => verdict'[d][b] = verdict[d][b]
    <3>1. CASE ExecuteCase(e, c)
      BY <1>0, <3>1 DEF ExecuteCase, Advance, Counted, TypeOK
    <3>2. CASE PersistResult(e, c)
      BY <1>0, <3>2 DEF PersistResult, Advance, Counted, TypeOK
    <3>3. CASE PublishProgress(e, c)
      BY <1>0, <3>3 DEF PublishProgress, Advance, Counted, TypeOK
    <3>4. CASE ReleaseToken(e, c)
      BY <1>0, <3>4 DEF ReleaseToken, Advance, Counted, TypeOK
    <3>5. CASE LeaveGroup(e, c)
      BY <1>0, <3>5 DEF LeaveGroup, Advance, Counted, TypeOK
    <3> QED
      BY <1>3, <3>1, <3>2, <3>3, <3>4, <3>5
  <2>3. \A v \in Verdicts : Tallied(d, v)' = Tallied(d, v)
    BY <2>2 DEF Tallied
  <2> QED
    BY <2>1, <2>3 DEF Exact
<1>4. ASSUME NEW e \in Execs, NEW c \in Cases, Aggregate(e, c) PROVE Exact(d)'
  <2>1. CASE d = e
    <3>1. /\ ~Counted(d, c) /\ Counted(d, c)' /\ UNCHANGED verdict
          /\ \A b \in Cases \ {c} : Counted(d, b)' <=> Counted(d, b)
          /\ tally'[d] = Increment(tally[d], verdict[d][c])
      BY <1>0, <1>4, <2>1 DEF Aggregate, Advance, Counted, TypeOK
    <3>2. verdict[d][c] \in Verdicts /\ tally[d] \in [Verdicts -> Nat]
      BY <1>0, <1>4, <2>1 DEF Aggregate, Advance, Honest, TypeOK, Tallies
    <3>3. ASSUME NEW v \in Verdicts, v # verdict[d][c]
          PROVE  tally'[d][v] = Cardinality(Tallied(d, v)')
      <4>1. Tallied(d, v)' = Tallied(d, v)
        BY <3>1, <3>3 DEF Tallied
      <4>2. tally'[d][v] = tally[d][v]
        BY <3>1, <3>2, <3>3 DEF Increment
      <4> QED
        BY <4>1, <4>2 DEF Exact
    <3>4. ASSUME NEW v \in Verdicts, v = verdict[d][c]
          PROVE  tally'[d][v] = Cardinality(Tallied(d, v)')
      <4>1. Tallied(d, v)' = Tallied(d, v) \cup {c} /\ c \in Cases \ Tallied(d, v)
        BY <3>1, <3>4 DEF Tallied
      <4>2. Cardinality(Tallied(d, v)') = Cardinality(Tallied(d, v)) + 1
        <5>1. Tallied(d, v) \in SUBSET Cases
          BY DEF Tallied
        <5> QED
          BY <4>1, <5>1, CaseSets
      <4>3. tally'[d][v] = tally[d][v] + 1
        BY <3>1, <3>2, <3>4 DEF Increment
      <4> QED
        BY <4>2, <4>3 DEF Exact
    <3> QED
      BY <3>3, <3>4 DEF Exact
  <2>2. CASE d # e
    <3>1. worker'[d] = worker[d] /\ tally'[d] = tally[d] /\ UNCHANGED verdict
      BY <1>0, <1>4, <2>2 DEF Aggregate, Advance, TypeOK
    <3> QED
      BY <3>1 DEF Exact, Tallied, Counted
  <2> QED
    BY <2>1, <2>2
<1>5. CASE UNCHANGED vars
  BY <1>5 DEF vars, callVars, Exact, Tallied, Counted
<1> QED
  BY <1>1, <1>2, <1>3, <1>4, <1>5
     DEF Next, RunnerStep, MainStep, WorkerStep, Finished

\* Three disjoint sets that make up the cases have NumCases elements together.
LEMMA Partition ==
  ASSUME NEW A \in SUBSET Cases, NEW B \in SUBSET Cases, NEW C \in SUBSET Cases,
         A \cup B \cup C = Cases,
         A \cap B = {}, A \cap C = {}, B \cap C = {}
  PROVE  Cardinality(A) + Cardinality(B) + Cardinality(C) = NumCases
<1>1. IsFiniteSet(Cases) /\ Cardinality(Cases) = NumCases
  BY RunnerAssumption, FS_Interval DEF Cases
<1>2. IsFiniteSet(A) /\ IsFiniteSet(B) /\ IsFiniteSet(C)
  BY <1>1, FS_Subset
<1>3. Cardinality({}) = 0
  BY FS_EmptySet
<1>4. IsFiniteSet(A \cup B)
      /\ Cardinality(A \cup B) = Cardinality(A) + Cardinality(B)
  <2>1. /\ IsFiniteSet(A \cup B)
        /\ Cardinality(A \cup B)
             = Cardinality(A) + Cardinality(B) - Cardinality(A \cap B)
    BY <1>2, FS_Union
  <2>2. Cardinality(A \cap B) = 0 /\ Cardinality(A) \in Nat /\ Cardinality(B) \in Nat
    BY <1>2, <1>3, FS_CardinalityType
  <2> QED
    BY <2>1, <2>2
<1>5. Cardinality((A \cup B) \cup C) = Cardinality(A \cup B) + Cardinality(C)
  <2>1. Cardinality((A \cup B) \cup C)
          = Cardinality(A \cup B) + Cardinality(C) - Cardinality((A \cup B) \cap C)
    BY <1>2, <1>4, FS_Union
  <2>2. (A \cup B) \cap C = {}
    OBVIOUS
  <2>3. /\ Cardinality((A \cup B) \cap C) = 0
        /\ Cardinality(A \cup B) \in Nat /\ Cardinality(C) \in Nat
    BY <1>2, <1>3, <1>4, <2>2, FS_CardinalityType
  <2> QED
    BY <2>1, <2>3
<1> QED
  BY <1>1, <1>4, <1>5

AllExact == \A e \in Execs : Exact(e)

LEMMA AlwaysExact == Spec => []AllExact
<1>1. Init => AllExact
  <2> SUFFICES ASSUME Init, NEW e \in Execs, NEW v \in Verdicts
               PROVE  tally[e][v] = Cardinality(Tallied(e, v))
    BY DEF AllExact, Exact
  <2>1. Tallied(e, v) = {}
    BY DEF Init, Tallied, Counted
  <2>2. Cardinality({}) = 0
    BY FS_EmptySet
  <2>3. tally[e][v] = 0
    BY DEF Init, ZeroTally
  <2> QED
    BY <2>1, <2>2, <2>3
<1>2. IInv /\ AllExact /\ [Next]_vars => AllExact'
  BY ExactStep DEF AllExact
<1> QED
  BY <1>1, <1>2, Inductive, PTL DEF Spec

\* Whatever the interleaving of the workers, no count is lost and none is made
\* twice: the counters a call concludes with are the numbers of its verdicts
\* and add up to the number of cases.
THEOREM CountersExact == Spec => []CountersAddUp
<1>1. ASSUME IInv, AllExact, NEW e \in Execs, status[e] \in {"success", "failed"}
      PROVE  /\ \A v \in Verdicts :
                  tally[e][v] = Cardinality({c \in Cases : verdict[e][c] = v})
             /\ Sum(tally[e]) = NumCases
  <2> DEFINE With(v) == {c \in Cases : verdict[e][c] = v}
  <2>1. \A c \in Cases : Counted(e, c) /\ verdict[e][c] \in Verdicts
    <3>1. /\ TypeOK /\ Flow(e) /\ Honest(e)
      BY <1>1 DEF IInv
    <3>2. next[e] = NumCases + 1 /\ Busy(e) = {}
      BY <1>1, <3>1 DEF Flow
    <3>3. \A c \in Cases : worker[e][c] = "done"
      BY <3>1, <3>2, RunnerAssumption DEF Flow, Busy, Cases
    <3> QED
      BY <3>1, <3>3 DEF Counted, Honest
  <2>2. \A v \in Verdicts : Tallied(e, v) = With(v)
    BY <2>1 DEF Tallied
  <2>3. \A v \in Verdicts : tally[e][v] = Cardinality(With(v))
    BY <1>1, <2>2 DEF AllExact, Exact
  <2>4. Cardinality(With("pass")) + Cardinality(With("fail"))
          + Cardinality(With("error")) = NumCases
    <3>1. /\ With("pass") \in SUBSET Cases /\ With("fail") \in SUBSET Cases
          /\ With("error") \in SUBSET Cases
          /\ With("pass") \cup With("fail") \cup With("error") = Cases
          /\ With("pass") \cap With("fail") = {}
          /\ With("pass") \cap With("error") = {}
          /\ With("fail") \cap With("error") = {}
      BY <2>1 DEF Verdicts
    <3> HIDE DEF With
    <3> QED
      BY <3>1, Partition
  <2> QED
    BY <2>3, <2>4 DEF Sum, Verdicts
<1>2. IInv /\ AllExact => CountersAddUp
  BY <1>1 DEF CountersAddUp
<1> QED
  BY <1>2, Inductive, AlwaysExact, PTL


(***************************************************************************)
(* What the events of a call tell, and what its row shows in the end.      *)
(***************************************************************************)

\* A call only cancels itself when its context is done, so that it cannot
\* publish any more.
Blind == \A e \in Execs : status[e] = "cancelled" => ctxDone[e]

\* A complete event comes from a call that has decided, which has no worker left
\* to publish anything after it.
Heard ==
  \A i \in 1 .. Len(events) : events[i].type = "complete" =>
    /\ pc[events[i].exec] \in {"save", "returned"}
    /\ \A j \in 1 .. Len(events) : events[j].exec = events[i].exec => j <= i

\* The workers that have a snapshot to publish.
Publishing(e) == {c \in Cases : worker[e][c] = "publish"}
ProgressOf(e, i) == events[i].exec = e /\ events[i].type = "progress"

\* Every snapshot, published or not, has a count of its own, and the counters are
\* at least as far as any of them.
Snapshots(e) ==
  /\ \A c \in Publishing(e) : Sum(snap[e][c]) <= Sum(tally[e])
  /\ \A c, d \in Publishing(e) : c # d => Sum(snap[e][c]) # Sum(snap[e][d])
  /\ \A i \in 1 .. Len(events) : ProgressOf(e, i) =>
       /\ Sum(events[i].tally) <= Sum(tally[e])
       /\ \A c \in Publishing(e) : Sum(events[i].tally) # Sum(snap[e][c])
       /\ \A j \in 1 .. Len(events) :
            ProgressOf(e, j) /\ i # j => Sum(events[i].tally) # Sum(events[j].tally)

(***************************************************************************)
(* What a step does to the event log.                                      *)
(***************************************************************************)

\* A log gets longer by its last entry.
LEMMA LogGrows ==
  ASSUME events \in Seq(EventTypes), NEW event \in EventTypes, events' = Append(events, event)
  PROVE  /\ Len(events) \in Nat /\ Len(events') = Len(events) + 1
         /\ events'[Len(events) + 1] = event
         /\ \A i \in 1 .. Len(events) : events'[i] = events[i]
         /\ \A i \in 1 .. Len(events') : i \in 1 .. Len(events) \/ i = Len(events) + 1
OBVIOUS

\* Who publishes: a worker that has a snapshot, or a call that has just decided;
\* the complete event of a cancelled loop fails.
LEMMA WhoPublishes ==
  ASSUME IInv, Blind, [Next]_vars, events' # events
  PROVE  \E event \in EventTypes :
           /\ events' = Append(events, event)
           /\ event.exec \in Execs
           /\ \/ /\ event.type = "complete" /\ Conclude(event.exec)
              \/ /\ event.type = "progress"
                 /\ \E c \in Cases : /\ PublishProgress(event.exec, c)
                                     /\ event.tally = snap[event.exec][c]
<1>0. TypeOK
  BY DEF IInv
<1>1. ASSUME NEW e \in Execs, PublishCancel(e) PROVE FALSE
  <2>1. status[e] = "cancelled"
    BY <1>1 DEF IInv, Flow, PublishCancel
  <2>2. ctxDone[e]
    BY <2>1 DEF Blind
  <2>3. Outcomes(e, "publish") = {FALSE}
    BY <2>2 DEF Outcomes
  <2>4. QED
    BY <1>1, <2>3 DEF PublishCancel, Publish
<1>2. ASSUME NEW e \in Execs, Conclude(e)
      PROVE  \E event \in EventTypes : /\ events' = Append(events, event)
                                       /\ event.exec = e /\ event.type = "complete"
  <2> DEFINE event == Event(e, "complete", tally[e], Conclusion(e))
  <2>1. tally[e] \in Tallies /\ Conclusion(e) \in Statuses
    BY <1>0 DEF TypeOK, Conclusion, Statuses
  <2>2. event \in EventTypes
    BY <2>1, EventType
  <2>3. event.exec = e /\ event.type = "complete"
    BY DEF Event
  <2>4. Publish(e, event)
    BY <1>2 DEF Conclude
  <2> HIDE DEF event
  <2>5. events' = Append(events, event)
    BY <2>4 DEF Publish
  <2>6. QED
    BY <2>2, <2>3, <2>5
<1>3. ASSUME NEW e \in Execs, NEW c \in Cases, PublishProgress(e, c)
      PROVE  \E event \in EventTypes : /\ events' = Append(events, event)
                                       /\ event.exec = e /\ event.type = "progress"
                                       /\ event.tally = snap[e][c]
  <2> DEFINE event == Event(e, "progress", snap[e][c], "running")
  <2>1. snap[e][c] \in Tallies /\ "running" \in Statuses
    BY <1>0 DEF TypeOK, Statuses
  <2>2. event \in EventTypes
    BY <2>1, EventType
  <2>3. event.exec = e /\ event.type = "progress" /\ event.tally = snap[e][c]
    BY DEF Event
  <2>4. Publish(e, event)
    BY <1>3 DEF PublishProgress, Shown
  <2> HIDE DEF event
  <2>5. events' = Append(events, event)
    BY <2>4 DEF Publish
  <2>6. QED
    BY <2>2, <2>3, <2>5
<1>4. \/ \E e \in Execs : PublishCancel(e) \/ Conclude(e)
      \/ \E e \in Execs, c \in Cases : PublishProgress(e, c)
  BY DEF Next, Call, RunnerStep, MainStep, WorkerStep, CancelContext, Finished, vars,
         MarkRunning, SeeCancel, RunNextCase, AddToGroup, StartWorker, LeaveLoop, Drain,
         SaveCancel, StampCancelled, SaveConclusion, ExecuteCase, PersistResult,
         Aggregate, ReleaseToken, LeaveGroup
<1>5. QED
  BY <1>1, <1>2, <1>3, <1>4

(***************************************************************************)
(* The complete event.                                                     *)
(***************************************************************************)

\* A call stays decided.
LEMMA DecidedStays ==
  ASSUME IInv, [Next]_vars, NEW d \in Execs, pc[d] \in {"save", "returned"}
  PROVE  pc'[d] \in {"save", "returned"}
<1>0. pc \in [Execs -> Labels]
  BY DEF IInv, TypeOK
<1>1. ASSUME NEW e \in Execs, Call(e) \/ MainStep(e) PROVE pc'[d] \in {"save", "returned"}
  BY <1>0, <1>1 DEF Call, MainStep, MarkRunning, SeeCancel, RunNextCase, AddToGroup, StartWorker,
     LeaveLoop, Drain, SaveCancel, PublishCancel, StampCancelled, Conclude, SaveConclusion,
     GoTo, AtLoopHead
<1>2. ASSUME NEW e \in Execs, NEW c \in Cases, WorkerStep(e, c)
      PROVE  pc'[d] \in {"save", "returned"}
  BY <1>2, WorkerFrame
<1>3. QED
  BY <1>1, <1>2 DEF Next, RunnerStep, CancelContext, Finished, vars, callVars

\* A cancelled call has a context that is done, and it stays done.
LEMMA BlindStep ==
  ASSUME IInv, Blind, [Next]_vars
  PROVE  Blind'
<1> SUFFICES ASSUME NEW d \in Execs, status'[d] = "cancelled" PROVE ctxDone'[d]
  BY DEF Blind
<1>0. /\ status \in [Execs -> Statuses] /\ ctxDone \in [Execs -> BOOLEAN]
  BY DEF IInv, TypeOK
<1>1. ctxDone[d] => ctxDone'[d]
  <2>1. CASE UNCHANGED ctxDone
    BY <2>1
  <2>2. ASSUME NEW e \in Execs, CancelContext(e) PROVE ctxDone[d] => ctxDone'[d]
    BY <1>0, <2>2 DEF CancelContext
  <2>3. QED
    BY <2>1, <2>2, WorkerFrame
       DEF Next, Call, RunnerStep, MainStep, Finished, vars,
         MarkRunning, SeeCancel, RunNextCase, AddToGroup, StartWorker, LeaveLoop, Drain,
         SaveCancel, PublishCancel, StampCancelled, Conclude, SaveConclusion
<1>2. CASE status[d] = "cancelled"
  BY <1>1, <1>2 DEF Blind
<1>3. CASE status[d] # "cancelled"
  <2>1. \E e \in Execs : MarkRunning(e) \/ SeeCancel(e) \/ Conclude(e)
    BY <1>3, WorkerFrame
       DEF Next, Call, RunnerStep, MainStep, CancelContext, Finished, vars, callVars,
         RunNextCase, AddToGroup, StartWorker, LeaveLoop, Drain,
         SaveCancel, PublishCancel, StampCancelled, SaveConclusion
  <2>2. PICK e \in Execs : MarkRunning(e) \/ SeeCancel(e) \/ Conclude(e)
    BY <2>1
  <2>3. CASE SeeCancel(e)
    <3>1. d = e
      BY <1>0, <1>3, <2>3 DEF SeeCancel
    <3>2. QED
      BY <1>1, <2>3, <3>1 DEF SeeCancel
  <2>4. CASE MarkRunning(e)
    BY <1>0, <1>3, <2>4 DEF MarkRunning
  <2>5. CASE Conclude(e)
    BY <1>0, <1>3, <2>5 DEF Conclude, Conclusion
  <2>6. QED
    BY <2>2, <2>3, <2>4, <2>5
<1>4. QED
  BY <1>2, <1>3

\* Nothing is published after the complete event.
LEMMA HeardStep ==
  ASSUME IInv, Blind, Heard, [Next]_vars
  PROVE  Heard'
<1>0. TypeOK /\ Len(events) \in Nat /\ \A i \in 1 .. Len(events) : events[i].exec \in Execs
  BY EventCaller DEF IInv, TypeOK
<1>1. CASE events' = events
  BY <1>0, <1>1, DecidedStays DEF Heard
<1>2. CASE events' # events
  <2>1. PICK event \in EventTypes :
          /\ events' = Append(events, event)
          /\ event.exec \in Execs
          /\ \/ /\ event.type = "complete" /\ Conclude(event.exec)
             \/ /\ event.type = "progress"
                /\ \E c \in Cases : PublishProgress(event.exec, c)
    BY <1>2, WhoPublishes
  <2> DEFINE n == Len(events) + 1
             e == event.exec
  <2>2. /\ Len(events') = n /\ events'[n] = event /\ n \in Nat
        /\ \A i \in 1 .. Len(events) : events'[i] = events[i] /\ i < n
        /\ \A i \in 1 .. n : i \in 1 .. Len(events) \/ i = n
    BY <1>0, <2>1, LogGrows DEF TypeOK
  <2>3. pc[e] \notin {"save", "returned"}
    <3>1. CASE Conclude(e)
      BY <3>1 DEF Conclude
    <3>2. ASSUME NEW c \in Cases, PublishProgress(e, c) PROVE pc[e] \notin {"save", "returned"}
      <4>1. c \in Busy(e)
        BY <3>2 DEF PublishProgress, Advance, Busy
      <4>2. QED
        BY <2>1, <4>1 DEF IInv, Flow
    <3>3. QED
      BY <2>1, <3>1, <3>2
  <2>4. \A i \in 1 .. Len(events) : events[i].type = "complete" => events[i].exec # e
    BY <2>3 DEF Heard
  <2>5. event.type = "complete" => pc'[e] = "save"
    <3>1. pc \in [Execs -> Labels]
      BY <1>0 DEF TypeOK
    <3>2. event.type = "complete" => Conclude(e)
      BY <2>1
    <3>3. QED
      BY <2>1, <3>1, <3>2 DEF Conclude, GoTo
  <2> HIDE DEF n, e
  <2>6. ASSUME NEW i \in 1 .. n, events'[i].type = "complete"
        PROVE  /\ pc'[events'[i].exec] \in {"save", "returned"}
               /\ \A j \in 1 .. n : events'[j].exec = events'[i].exec => j <= i
    <3>1. CASE i \in 1 .. Len(events)
      <4>1. events[i].type = "complete" /\ events[i].exec \in Execs /\ events'[i] = events[i]
        BY <1>0, <2>2, <2>6, <3>1
      <4>2. pc'[events[i].exec] \in {"save", "returned"}
        BY <3>1, <4>1, DecidedStays DEF Heard
      <4>3. \A j \in 1 .. n : events'[j].exec = events[i].exec => j \in 1 .. Len(events)
        BY <2>2, <2>4, <3>1, <4>1 DEF e
      <4>4. QED
        BY <2>2, <3>1, <4>1, <4>2, <4>3 DEF Heard
    <3>2. CASE i = n
      BY <2>2, <2>5, <2>6, <3>2 DEF e
    <3>3. QED
      BY <2>2, <3>1, <3>2
  <2>7. QED
    BY <2>2, <2>6 DEF Heard
<1>3. QED
  BY <1>1, <1>2

(***************************************************************************)
(* The progress events.                                                    *)
(***************************************************************************)

\* A count makes the sum of the counters one larger.
LEMMA SumOfIncrement ==
  ASSUME NEW t \in Tallies, NEW v \in Verdicts
  PROVE  /\ Increment(t, v) \in Tallies
         /\ Sum(t) \in Nat
         /\ Sum(Increment(t, v)) = Sum(t) + 1
<1>1. /\ t["pass"] \in Nat /\ t["fail"] \in Nat /\ t["error"] \in Nat
  BY DEF Tallies, Verdicts
<1>2. \A w \in Verdicts : Increment(t, v)[w] = IF w = v THEN t[w] + 1 ELSE t[w]
  BY DEF Increment, Tallies
<1>3. "pass" \in Verdicts /\ "fail" \in Verdicts /\ "error" \in Verdicts
      /\ (v = "pass" \/ v = "fail" \/ v = "error")
  BY DEF Verdicts
<1>4. Sum(Increment(t, v)) = Sum(t) + 1
  <2>1. CASE v = "pass"
    BY <1>1, <1>2, <1>3, <2>1 DEF Sum
  <2>2. CASE v = "fail"
    BY <1>1, <1>2, <1>3, <2>2 DEF Sum
  <2>3. CASE v = "error"
    BY <1>1, <1>2, <1>3, <2>3 DEF Sum
  <2>4. QED
    BY <1>3, <2>1, <2>2, <2>3
<1>5. QED
  BY <1>1, <1>4, IncrementType DEF Sum

\* A step that adds no snapshot of d, leaves its counters alone and publishes
\* nothing of d's progress.
LEMMA SnapshotsFrame ==
  ASSUME NEW d \in Execs, Snapshots(d), Len(events) \in Nat, Len(events') \in Nat,
         tally'[d] = tally[d], Publishing(d)' \subseteq Publishing(d),
         \A c \in Publishing(d)' : snap'[d][c] = snap[d][c],
         \A i \in 1 .. Len(events') : ProgressOf(d, i)' =>
           i \in 1 .. Len(events) /\ events'[i] = events[i]
  PROVE  Snapshots(d)'
<1>1. /\ \A c \in Publishing(d)' : Sum(snap'[d][c]) = Sum(snap[d][c])
      /\ Sum(tally'[d]) = Sum(tally[d])
  OBVIOUS
<1>2. \A i \in 1 .. Len(events') : ProgressOf(d, i)' =>
        i \in 1 .. Len(events) /\ ProgressOf(d, i) /\ events'[i] = events[i]
  BY DEF ProgressOf
<1>3. QED
  BY <1>1, <1>2 DEF Snapshots

\* A worker counts its verdict and takes a snapshot.
LEMMA SnapshotTaken ==
  ASSUME IInv, NEW d \in Execs, Snapshots(d), NEW c \in Cases, Aggregate(d, c), TypeOK'
  PROVE  Snapshots(d)'
<1>0. /\ TypeOK /\ UNCHANGED events /\ Len(events) \in Nat
      /\ tally[d] \in Tallies
  BY DEF IInv, TypeOK, Aggregate
<1>1. verdict[d][c] \in Verdicts
  BY DEF IInv, Honest, Aggregate, Advance
<1> DEFINE counts == Increment(tally[d], verdict[d][c])
<1>2. tally'[d] = counts /\ Sum(counts) = Sum(tally[d]) + 1 /\ Sum(tally[d]) \in Nat
  BY <1>0, <1>1, SumOfIncrement DEF Aggregate, TypeOK
<1>3. /\ snap'[d][c] = counts
      /\ \A b \in Cases : b # c => snap'[d][b] = snap[d][b]
  BY <1>0, <1>2 DEF Aggregate, TypeOK
<1>4. Publishing(d)' = Publishing(d) \cup {c} /\ c \notin Publishing(d)
  BY <1>0 DEF Aggregate, Advance, Publishing, TypeOK
<1> HIDE DEF counts
<1>5. /\ \A b \in Publishing(d) : Sum(snap[d][b]) \in Nat /\ b \in Cases /\ b # c
      /\ \A i \in 1 .. Len(events) : Sum(events[i].tally) \in Nat
  <2>1. \A b \in Cases : snap[d][b] \in Tallies
    BY <1>0 DEF TypeOK
  <2>2. \A i \in 1 .. Len(events) : events[i].tally \in Tallies
    <3>1. events \in Seq(EventTypes)
      BY <1>0 DEF TypeOK
    <3>2. \A i \in 1 .. Len(events) : events[i] \in EventTypes
      BY <3>1
    <3>3. QED
      BY <3>2 DEF EventTypes
  <2>3. \A t \in Tallies : Sum(t) \in Nat
    BY <1>1, SumOfIncrement
  <2>4. QED
    BY <1>4, <2>1, <2>2, <2>3 DEF Publishing
<1>6. \A b \in Publishing(d) : snap'[d][b] = snap[d][b]
  BY <1>3, <1>5
<1>7. \A b \in Publishing(d) : Sum(snap[d][b]) <= Sum(tally[d])
  BY DEF Snapshots
<1>8. \A i \in 1 .. Len(events) : ProgressOf(d, i) => Sum(events[i].tally) <= Sum(tally[d])
  BY DEF Snapshots
<1>9. \A b \in Publishing(d)' : Sum(snap'[d][b]) <= Sum(tally'[d])
  BY <1>2, <1>3, <1>4, <1>5, <1>6, <1>7
<1>10. \A a, b \in Publishing(d)' : a # b => Sum(snap'[d][a]) # Sum(snap'[d][b])
  <2> SUFFICES ASSUME NEW a \in Publishing(d)', NEW b \in Publishing(d)', a # b
               PROVE  Sum(snap'[d][a]) # Sum(snap'[d][b])
    OBVIOUS
  <2>1. CASE a = c
    BY <1>2, <1>3, <1>4, <1>5, <1>6, <1>7, <2>1
  <2>2. CASE b = c
    BY <1>2, <1>3, <1>4, <1>5, <1>6, <1>7, <2>2
  <2>3. CASE a # c /\ b # c
    BY <1>4, <1>6, <2>3 DEF Snapshots
  <2>4. QED
    BY <2>1, <2>2, <2>3
<1>11. ASSUME NEW i \in 1 .. Len(events), ProgressOf(d, i)
       PROVE  /\ Sum(events[i].tally) <= Sum(tally'[d])
              /\ \A b \in Publishing(d)' : Sum(events[i].tally) # Sum(snap'[d][b])
              /\ \A j \in 1 .. Len(events) :
                   ProgressOf(d, j) /\ i # j => Sum(events[i].tally) # Sum(events[j].tally)
  <2>1. Sum(events[i].tally) <= Sum(tally'[d])
    BY <1>2, <1>5, <1>8, <1>11
  <2>2. Sum(events[i].tally) # Sum(snap'[d][c])
    BY <1>2, <1>3, <1>5, <1>8, <1>11
  <2>3. \A b \in Publishing(d) : Sum(events[i].tally) # Sum(snap'[d][b])
    BY <1>6, <1>11 DEF Snapshots
  <2>4. QED
    BY <1>4, <1>11, <2>1, <2>2, <2>3 DEF Snapshots
<1>12. QED
  BY <1>0, <1>9, <1>10, <1>11 DEF Snapshots, ProgressOf

\* A worker publishes its snapshot, or fails to.
LEMMA SnapshotShown ==
  ASSUME IInv, NEW d \in Execs, Snapshots(d), NEW c \in Cases, PublishProgress(d, c), TypeOK',
         \/ events' = events
         \/ \E event \in EventTypes :
              /\ events' = Append(events, event)
              /\ event.exec = d /\ event.tally = snap[d][c]
  PROVE  Snapshots(d)'
<1>0. TypeOK /\ Len(events) \in Nat /\ Len(events') \in Nat /\ UNCHANGED tally
  BY DEF IInv, TypeOK, PublishProgress
<1>1. /\ Publishing(d)' = Publishing(d) \ {c} /\ c \in Publishing(d)
      /\ \A b \in Publishing(d)' : snap'[d][b] = snap[d][b]
  BY <1>0 DEF PublishProgress, Advance, Publishing, TypeOK
<1>2. CASE events' = events
  BY <1>0, <1>1, <1>2, SnapshotsFrame
<1>3. CASE events' # events
  <2>1. PICK event \in EventTypes : /\ events' = Append(events, event)
                                    /\ event.exec = d /\ event.tally = snap[d][c]
    BY <1>3
  <2> DEFINE n == Len(events) + 1
  <2>2. /\ Len(events') = n /\ events'[n] = event /\ n \in Nat
        /\ \A i \in 1 .. Len(events) : events'[i] = events[i] /\ i # n
        /\ \A i \in 1 .. n : i \in 1 .. Len(events) \/ i = n
    BY <1>0, <2>1, LogGrows DEF TypeOK
  <2> HIDE DEF n
  <2>3. \A b \in Publishing(d)' : /\ Sum(snap'[d][b]) = Sum(snap[d][b])
                                  /\ b \in Publishing(d) /\ b # c
    BY <1>1
  <2>4. \A i \in 1 .. Len(events) : ProgressOf(d, i)' => ProgressOf(d, i)
    BY <2>2 DEF ProgressOf
  <2>5. ASSUME NEW i \in 1 .. n, ProgressOf(d, i)'
        PROVE  /\ Sum(events'[i].tally) <= Sum(tally'[d])
               /\ \A b \in Publishing(d)' : Sum(events'[i].tally) # Sum(snap'[d][b])
               /\ \A j \in 1 .. n :
                    ProgressOf(d, j)' /\ i # j => Sum(events'[i].tally) # Sum(events'[j].tally)
    <3>1. CASE i = n
      <4>1. Sum(events'[i].tally) = Sum(snap[d][c])
        BY <2>1, <2>2, <3>1
      <4>2. \A j \in 1 .. n : j # i => j \in 1 .. Len(events) /\ events'[j] = events[j]
        BY <2>2, <3>1
      <4>3. \A j \in 1 .. Len(events) :
              ProgressOf(d, j) => Sum(events[j].tally) # Sum(snap[d][c])
        BY <1>1 DEF Snapshots
      <4>4. QED
        BY <1>0, <1>1, <2>3, <2>4, <4>1, <4>2, <4>3 DEF Snapshots
    <3>2. CASE i \in 1 .. Len(events)
      <4>1. ProgressOf(d, i) /\ events'[i] = events[i]
        BY <2>2, <2>4, <2>5, <3>2
      <4>2. Sum(events[i].tally) # Sum(events'[n].tally)
        BY <1>1, <2>1, <2>2, <3>2, <4>1 DEF Snapshots
      <4>3. \A j \in 1 .. Len(events) :
              ProgressOf(d, j)' /\ i # j => Sum(events[i].tally) # Sum(events'[j].tally)
        BY <2>2, <2>4, <3>2, <4>1 DEF Snapshots
      <4>4. QED
        BY <1>0, <2>2, <2>3, <3>2, <4>1, <4>2, <4>3 DEF Snapshots
    <3>3. QED
      BY <2>2, <3>1, <3>2
  <2>6. /\ \A b \in Publishing(d)' : Sum(snap'[d][b]) <= Sum(tally'[d])
        /\ \A a, b \in Publishing(d)' : a # b => Sum(snap'[d][a]) # Sum(snap'[d][b])
    BY <1>0, <2>3 DEF Snapshots
  <2>7. QED
    BY <2>2, <2>5, <2>6 DEF Snapshots
<1>4. QED
  BY <1>2, <1>3

\* What a step that neither counts nor publishes for d does to its snapshots.
LEMMA SnapshotsUntouched ==
  ASSUME IInv, [Next]_vars, NEW d \in Execs,
         \A c \in Cases : ~Aggregate(d, c) /\ ~PublishProgress(d, c)
  PROVE  /\ tally'[d] = tally[d]
         /\ Publishing(d)' \subseteq Publishing(d)
         /\ \A c \in Cases : snap'[d][c] = snap[d][c]
<1>0. TypeOK
  BY DEF IInv
<1>1. ASSUME NEW e \in Execs, Call(e) \/ MainStep(e) \/ CancelContext(e)
      PROVE  /\ tally'[d] = tally[d] /\ Publishing(d)' \subseteq Publishing(d)
             /\ \A c \in Cases : snap'[d][c] = snap[d][c]
  <2>1. UNCHANGED <<tally, snap>>
    BY <1>1 DEF Call, MainStep, CancelContext, callVars, MarkRunning, SeeCancel, RunNextCase,
       AddToGroup, StartWorker, LeaveLoop, Drain, SaveCancel, PublishCancel, StampCancelled,
       Conclude, SaveConclusion
  <2>2. UNCHANGED worker \/ worker' = [worker EXCEPT ![e][next[e]] = "execute"]
    BY <1>1 DEF Call, MainStep, CancelContext, callVars, MarkRunning, SeeCancel, RunNextCase,
       AddToGroup, StartWorker, LeaveLoop, Drain, SaveCancel, PublishCancel, StampCancelled,
       Conclude, SaveConclusion
  <2>3. Publishing(d)' \subseteq Publishing(d)
    <3>1. worker \in [Execs -> [Cases -> Phases]]
      BY <1>0 DEF TypeOK
    <3>2. \A c \in Cases : worker'[d][c] = worker[d][c] \/ worker'[d][c] = "execute"
      BY <2>2, <3>1
    <3>3. QED
      BY <3>2 DEF Publishing
  <2>4. QED
    BY <2>1, <2>3
<1>2. ASSUME NEW e \in Execs, NEW c \in Cases, WorkerStep(e, c)
      PROVE  /\ tally'[d] = tally[d] /\ Publishing(d)' \subseteq Publishing(d)
             /\ \A b \in Cases : snap'[d][b] = snap[d][b]
  <2>1. CASE e = d
    <3>1. ExecuteCase(d, c) \/ PersistResult(d, c) \/ ReleaseToken(d, c) \/ LeaveGroup(d, c)
      BY <1>2, <2>1 DEF WorkerStep
    <3>2. UNCHANGED <<tally, snap>>
      BY <3>1 DEF ExecuteCase, PersistResult, ReleaseToken, LeaveGroup
    <3>3. \E to \in Phases \ {"publish"} : worker' = [worker EXCEPT ![d][c] = to]
      BY <3>1 DEF ExecuteCase, PersistResult, ReleaseToken, LeaveGroup, Advance, Phases
    <3>4. Publishing(d)' \subseteq Publishing(d)
      BY <1>0, <3>3 DEF Publishing, TypeOK
    <3>5. QED
      BY <3>2, <3>4
  <2>2. CASE e # d
    <3>1. tally'[d] = tally[d] /\ snap'[d] = snap[d]
      BY <1>0, <1>2, <2>2 DEF TypeOK, WorkerStep, ExecuteCase, PersistResult, Aggregate,
         PublishProgress, ReleaseToken, LeaveGroup
    <3>2. worker'[d] = worker[d]
      BY <1>0, <1>2, <2>2, WorkerFrame DEF TypeOK
    <3>3. QED
      BY <3>1, <3>2 DEF Publishing
  <2>3. QED
    BY <2>1, <2>2
<1>3. CASE UNCHANGED vars
  BY <1>3 DEF vars, callVars, Publishing
<1>4. QED
  BY <1>1, <1>2, <1>3 DEF Next, RunnerStep, Finished

\* Snapshots stay distinct.
LEMMA SnapshotsStep ==
  ASSUME IInv, IInv', Blind, [Next]_vars, NEW d \in Execs, Snapshots(d)
  PROVE  Snapshots(d)'
<1>0. TypeOK /\ TypeOK' /\ Len(events) \in Nat /\ Len(events') \in Nat
  <2>1. TypeOK /\ TypeOK'
    BY DEF IInv
  <2>2. events \in Seq(EventTypes) /\ events' \in Seq(EventTypes')
    BY <2>1 DEF TypeOK
  <2>3. QED
    BY <2>1, <2>2
<1>1. ASSUME NEW c \in Cases, Aggregate(d, c) PROVE Snapshots(d)'
  BY <1>0, <1>1, SnapshotTaken
<1>2. ASSUME NEW c \in Cases, PublishProgress(d, c) PROVE Snapshots(d)'
  <2> DEFINE event == Event(d, "progress", snap[d][c], "running")
  <2>1. snap[d][c] \in Tallies /\ "running" \in Statuses
    BY <1>0 DEF TypeOK, Statuses
  <2>2. event \in EventTypes
    BY <2>1, EventType
  <2>3. event.exec = d /\ event.tally = snap[d][c]
    BY DEF Event
  <2>4. Publish(d, event)
    BY <1>2 DEF PublishProgress, Shown
  <2> HIDE DEF event
  <2>5. events' = events \/ events' = Append(events, event)
    BY <2>4 DEF Publish
  <2>6. QED
    BY <1>0, <1>2, <2>2, <2>3, <2>5, SnapshotShown
<1>3. CASE \A c \in Cases : ~Aggregate(d, c) /\ ~PublishProgress(d, c)
  <2>1. /\ tally'[d] = tally[d] /\ Publishing(d)' \subseteq Publishing(d)
        /\ \A c \in Cases : snap'[d][c] = snap[d][c]
    BY <1>3, SnapshotsUntouched
  <2>2. \A c \in Publishing(d)' : snap'[d][c] = snap[d][c]
    BY <2>1 DEF Publishing
  <2>3. \A i \in 1 .. Len(events') : ProgressOf(d, i)' =>
          i \in 1 .. Len(events) /\ events'[i] = events[i]
    <3>1. CASE events' = events
      BY <3>1
    <3>2. CASE events' # events
      <4>1. PICK event \in EventTypes :
              /\ events' = Append(events, event)
              /\ ~(event.exec = d /\ event.type = "progress")
        BY <1>3, <3>2, WhoPublishes
      <4>2. QED
        BY <1>0, <4>1, LogGrows DEF TypeOK, ProgressOf
    <3>3. QED
      BY <3>1, <3>2
  <2>4. QED
    BY <1>0, <2>1, <2>2, <2>3, SnapshotsFrame
<1>4. QED
  BY <1>1, <1>2, <1>3

(***************************************************************************)
(* The row of a single call.                                               *)
(***************************************************************************)

\* A call that was not cancelled saves its conclusion last, and nothing writes the
\* row after it.
LEMMA SettledStep ==
  ASSUME IInv, Blind, SettledUnlessCancelled, [Next]_vars
  PROVE  SettledUnlessCancelled'
<1> SUFFICES ASSUME NEW e \in Execs, Execs = {e}, "update" \notin Faults,
                    pc'[e] = "returned", ~ctxDone'[e]
             PROVE  row' = [status |-> status'[e], tally |-> tally'[e], finished |-> TRUE]
  BY DEF SettledUnlessCancelled
<1>0. /\ TypeOK /\ pc \in [Execs -> Labels] /\ ctxDone \in [Execs -> BOOLEAN]
      /\ \A d \in Execs : d = e
  BY DEF IInv, TypeOK
<1>1. ~ctxDone[e]
  <2>1. UNCHANGED ctxDone \/ \E d \in Execs : CancelContext(d)
    BY WorkerFrame
       DEF Next, Call, RunnerStep, MainStep, Finished, vars,
         MarkRunning, SeeCancel, RunNextCase, AddToGroup, StartWorker, LeaveLoop, Drain,
         SaveCancel, PublishCancel, StampCancelled, Conclude, SaveConclusion
  <2>2. QED
    BY <1>0, <2>1 DEF CancelContext
<1>2. CASE pc[e] = "returned"
  <2>1. row = [status |-> status[e], tally |-> tally[e], finished |-> TRUE]
    BY <1>1, <1>2 DEF SettledUnlessCancelled
  <2>2. Busy(e) = {}
    BY <1>2 DEF IInv, Flow
  <2>3. \A c \in Cases : ~WorkerStep(e, c)
    BY <2>2, WorkerFrame DEF Busy
  <2>4. ~MainStep(e) /\ ~Call(e) /\ ~CancelContext(e)
    BY <1>2 DEF MainStep, Call, CancelContext, MarkRunning, SeeCancel, RunNextCase, AddToGroup,
       StartWorker, LeaveLoop, Drain, SaveCancel, PublishCancel, StampCancelled, Conclude,
       SaveConclusion, AtLoopHead
  <2>5. UNCHANGED vars
    BY <1>0, <2>3, <2>4 DEF Next, RunnerStep, Finished
  <2>6. QED
    BY <2>1, <2>5 DEF vars, callVars
<1>3. CASE pc[e] # "returned"
  <2>1. StampCancelled(e) \/ SaveConclusion(e)
    BY <1>0, <1>3, WorkerFrame
       DEF Next, Call, RunnerStep, MainStep, CancelContext, Finished, vars, callVars, GoTo,
         MarkRunning, SeeCancel, RunNextCase, AddToGroup, StartWorker, LeaveLoop, Drain,
         SaveCancel, PublishCancel, Conclude, LoopExit
  <2>2. ~StampCancelled(e)
    BY <1>1 DEF Blind, StampCancelled
  <2>3. SaveConclusion(e)
    BY <2>1, <2>2
  <2>4. Outcomes(e, "update") = {TRUE}
    BY <1>1 DEF Outcomes
  <2>5. row' = FinalRow(e) /\ UNCHANGED <<status, tally>>
    BY <2>3, <2>4 DEF SaveConclusion, UpdateRow
  <2>6. QED
    BY <2>5 DEF FinalRow
<1>4. QED
  BY <1>2, <1>3

(***************************************************************************)
(* The theorems.                                                           *)
(***************************************************************************)
Story == Blind /\ Heard /\ (\A e \in Execs : Snapshots(e)) /\ SettledUnlessCancelled

\* The story holds in every state.
LEMMA AlwaysTold == Spec => []Story
<1>1. Init => Story
  BY DEF Init, Story, Blind, Heard, Snapshots, Publishing, SettledUnlessCancelled
<1>2. IInv /\ IInv' /\ Story /\ [Next]_vars => Story'
  BY BlindStep, HeardStep, SnapshotsStep, SettledStep DEF Story
<1>3. QED
  BY <1>1, <1>2, Inductive, PTL DEF Spec

\* Whatever workers finish together, two progress events of a call never show the
\* same count: a viewer never sees a case counted twice, nor one stand for two.
THEOREM SnapshotsAreDistinct == Spec => []SnapshotsDistinct
<1>1. IInv /\ Story => SnapshotsDistinct
  <2> SUFFICES ASSUME IInv, Story, NEW i \in 1 .. Len(events), NEW j \in 1 .. Len(events),
                      i # j, events[i].exec = events[j].exec,
                      events[i].type = "progress", events[j].type = "progress"
               PROVE  Sum(events[i].tally) # Sum(events[j].tally)
    BY DEF SnapshotsDistinct
  <2>1. events[i].exec \in Execs
    BY EventCaller DEF IInv, TypeOK
  <2>2. ProgressOf(events[i].exec, i) /\ ProgressOf(events[i].exec, j)
    BY DEF ProgressOf
  <2>3. QED
    BY <2>1, <2>2 DEF Story, Snapshots
<1>2. QED
  BY <1>1, AlwaysTold, Inductive, PTL

\* Nothing of a call is published after its complete event, on which Stream closes
\* the connection, however many workers it had and whenever it was cancelled.
THEOREM CompleteComesLast == Spec => []CompleteIsLast
<1>1. Story => CompleteIsLast
  <2> SUFFICES ASSUME Story, NEW i \in 1 .. Len(events), NEW j \in 1 .. Len(events),
                      events[i].exec = events[j].exec, events[i].type = "complete"
               PROVE  j <= i
    BY DEF CompleteIsLast
  <2>1. QED
    BY DEF Story, Heard
<1>2. QED
  BY <1>1, AlwaysTold, PTL

\* The row of a run with one caller, whose context stays live, ends up with the
\* status and the counters of the call.
THEOREM RowSettles == Spec => []SettledUnlessCancelled
<1>1. Story => SettledUnlessCancelled
  BY DEF Story
<1>2. QED
  BY <1>1, AlwaysTold, PTL

(***************************************************************************)
(* Run implements RunReport, for any number of calls, cases and workers.   *)
(* A case counts for RunReport when aggregate has counted it, and the      *)
(* conclusion is the status of the call's own copy of the row.  So         *)
(* Aggregate is RunReport's Count, Conclude its Conclude and SeeCancel its *)
(* Stop; every other step leaves the report and the conclusion alone.      *)
(***************************************************************************)
\* What RunReport sees of a call.
CountedVerdicts(e) == [c \in Cases |-> IF Counted(e, c) THEN verdict[e][c] ELSE "none"]
Concluded(e) == IF status[e] \in {"queued", "running"} THEN "pending" ELSE status[e]

\* The counted verdicts and the conclusion of a call only change in the three
\* steps above.
LEMMA Stutter ==
  ASSUME IInv, NEW d \in Execs, NEW e \in Execs,
         \/ Call(e) \/ MarkRunning(e) \/ RunNextCase(e) \/ AddToGroup(e)
         \/ StartWorker(e) \/ LeaveLoop(e) \/ Drain(e) \/ SaveCancel(e)
         \/ PublishCancel(e) \/ StampCancelled(e) \/ SaveConclusion(e)
         \/ CancelContext(e)
         \/ \E c \in Cases : \/ ExecuteCase(e, c) \/ PersistResult(e, c)
                             \/ PublishProgress(e, c) \/ ReleaseToken(e, c)
                             \/ LeaveGroup(e, c)
  PROVE  CountedVerdicts(d)' = CountedVerdicts(d) /\ Concluded(d)' = Concluded(d)
<1>0. TypeOK
  BY DEF IInv
<1>1. CASE \E c \in Cases : \/ ExecuteCase(e, c) \/ PersistResult(e, c)
                           \/ PublishProgress(e, c) \/ ReleaseToken(e, c)
                           \/ LeaveGroup(e, c)
  <2>1. UNCHANGED status
    BY <1>1 DEF ExecuteCase, PersistResult, PublishProgress, ReleaseToken, LeaveGroup
  <2>2. ASSUME NEW b \in Cases
        PROVE  /\ Counted(d, b)' <=> Counted(d, b)
               /\ Counted(d, b) => verdict'[d][b] = verdict[d][b]
    BY <1>0, <1>1
       DEF ExecuteCase, PersistResult, PublishProgress, ReleaseToken, LeaveGroup,
           Advance, Counted, TypeOK
  <2> QED
    BY <2>1, <2>2 DEF CountedVerdicts, Concluded
<1>2. CASE RunNextCase(e) \/ StartWorker(e)
  <2>1. /\ UNCHANGED <<verdict, status>>
        /\ worker' = [worker EXCEPT ![e][next[e]] = "execute"]
    BY <1>2 DEF RunNextCase, StartWorker
  <2>2. worker[e][next[e]] = "idle" /\ next[e] \in Cases
    BY <1>2, RunnerAssumption
       DEF IInv, Flow, TypeOK, RunNextCase, StartWorker, HasNext, Cases
  <2>3. ASSUME NEW c \in Cases PROVE Counted(d, c)' <=> Counted(d, c)
    BY <1>0, <2>1, <2>2 DEF Counted, TypeOK
  <2> QED
    BY <2>1, <2>3 DEF CountedVerdicts, Concluded
<1>3. CASE MarkRunning(e)
  <2>1. UNCHANGED <<worker, verdict>> /\ Concluded(d)' = Concluded(d)
    BY <1>0, <1>3 DEF IInv, Flow, MarkRunning, Concluded, TypeOK
  <2> QED
    BY <2>1 DEF CountedVerdicts, Counted
<1>4. CASE \/ Call(e) \/ AddToGroup(e) \/ LeaveLoop(e) \/ Drain(e) \/ SaveCancel(e)
           \/ PublishCancel(e) \/ StampCancelled(e) \/ SaveConclusion(e)
           \/ CancelContext(e)
  <2>1. UNCHANGED <<worker, verdict, status>>
    BY <1>4 DEF Call, AddToGroup, LeaveLoop, Drain, SaveCancel, PublishCancel,
                StampCancelled, SaveConclusion, CancelContext, callVars
  <2> QED
    BY <2>1 DEF CountedVerdicts, Counted, Concluded
<1> QED
  BY <1>1, <1>2, <1>3, <1>4

LEMMA CountStep ==
  ASSUME IInv, NEW e \in Execs, NEW c \in Cases, Aggregate(e, c)
  PROVE  Report!Next
<1>0. TypeOK /\ Flow(e) /\ Honest(e)
  BY DEF IInv
<1>1. /\ ~Counted(e, c) /\ UNCHANGED <<status, verdict>>
      /\ verdict[e][c] \in Verdicts
      /\ worker' = [worker EXCEPT ![e][c] = "publish"]
  BY <1>0 DEF Aggregate, Advance, Counted, Honest
<1>2. Concluded(e) \in {"pending", "cancelled"}
  <2>1. c \in Busy(e)
    BY DEF Aggregate, Advance, Busy
  <2> QED
    BY <1>0, <2>1 DEF Flow, Concluded, TypeOK, Statuses
<1>3. Concluded(e) = "cancelled" => \E b \in Cases : b # c /\ ~Counted(e, b)
  <2> SUFFICES ASSUME Concluded(e) = "cancelled"
               PROVE  \E b \in Cases : b # c /\ ~Counted(e, b)
    OBVIOUS
  <2>1. next[e] \in Cases /\ worker[e][next[e]] = "idle"
    BY <1>0, RunnerAssumption DEF Concluded, Flow, TypeOK, Cases
  <2>2. next[e] # c /\ ~Counted(e, next[e])
    BY <2>1 DEF Aggregate, Advance, Counted
  <2> QED
    BY <2>1, <2>2
<1>4. ASSUME NEW d \in Execs, NEW b \in Cases
      PROVE  Counted(d, b)' <=> (Counted(d, b) \/ (d = e /\ b = c))
  BY <1>0, <1>1 DEF Counted, TypeOK
<1>5. [d \in Execs |-> CountedVerdicts(d)]'
        = [[d \in Execs |-> CountedVerdicts(d)] EXCEPT ![e][c] = verdict[e][c]]
  BY <1>1, <1>4 DEF CountedVerdicts
<1>6. UNCHANGED [d \in Execs |-> Concluded(d)]
  BY <1>1 DEF Concluded
<1>7. Report!Missing(e) = {b \in Cases : ~Counted(e, b)}
  BY <1>0 DEF Report!Missing, Report!Cases, Cases, Honest, Counted, Verdicts
<1>8. PICK v \in Verdicts : v = verdict[e][c]
  BY <1>1
<1>9. Report!Count(e, c, v)
  BY <1>1, <1>2, <1>3, <1>5, <1>6, <1>7, <1>8
     DEF Report!Count, CountedVerdicts, Concluded, Report!Cases, Cases
<1>10. c \in Report!Cases /\ v \in Report!Verdicts
  BY <1>8 DEF Report!Cases, Report!Verdicts, Cases, Verdicts
<1> QED
  BY <1>9, <1>10, Zenon DEF Report!Next

\* A call that concludes has a complete report, and its conclusion is the one
\* RunReport draws from it.
LEMMA ConcludeStep ==
  ASSUME IInv, AllExact, NEW e \in Execs, Conclude(e)
  PROVE  Report!Next
<1>0. TypeOK /\ Flow(e) /\ Honest(e) /\ Exact(e)
  BY DEF IInv, AllExact
<1>1. /\ status[e] \in {"queued", "running"}
      /\ status' = [status EXCEPT ![e] = Conclusion(e)]
      /\ UNCHANGED <<worker, verdict>>
  BY <1>0 DEF Conclude, Flow, TypeOK, Statuses
<1>2. \A c \in Cases : Counted(e, c) /\ verdict[e][c] \in Verdicts
  <2>1. next[e] = NumCases + 1 /\ Busy(e) = {}
    BY <1>0 DEF Conclude, Flow
  <2>2. \A c \in Cases : worker[e][c] = "done"
    BY <1>0, <2>1, RunnerAssumption DEF Flow, Busy, Cases
  <2> QED
    BY <1>0, <2>2 DEF Counted, Honest
<1>3. Conclusion(e)
        = IF \A c \in Cases : verdict[e][c] = "pass" THEN "success" ELSE "failed"
  <2>1. ASSUME NEW v \in Verdicts
        PROVE  /\ tally[e][v] \in Nat
               /\ tally[e][v] > 0 <=> \E c \in Cases : verdict[e][c] = v
    <3>1. Tallied(e, v) = {c \in Cases : verdict[e][c] = v}
      BY <1>2 DEF Tallied
    <3>2. tally[e][v] = Cardinality(Tallied(e, v))
      BY <1>0 DEF Exact
    <3>3. /\ Cardinality(Tallied(e, v)) \in Nat
          /\ Cardinality(Tallied(e, v)) = 0 <=> Tallied(e, v) = {}
      <4>1. Tallied(e, v) \in SUBSET Cases
        BY DEF Tallied
      <4> QED
        BY <4>1, CaseSets
    <3> QED
      BY <3>1, <3>2, <3>3
  <2> QED
    BY <1>2, <2>1 DEF Conclusion, Verdicts
<1>4. Report!Missing(e) = {}
  BY <1>2 DEF Report!Missing, Report!Cases, Cases, Verdicts
<1>5. UNCHANGED [d \in Execs |-> CountedVerdicts(d)]
  BY <1>1 DEF CountedVerdicts, Counted
<1>6. [d \in Execs |-> Concluded(d)]'
        = [[d \in Execs |-> Concluded(d)] EXCEPT ![e] = Conclusion(e)]
  BY <1>0, <1>1 DEF Concluded, Conclusion, TypeOK
<1>7. Report!Conclude(e)
  BY <1>1, <1>2, <1>3, <1>4, <1>5, <1>6
     DEF Report!Conclude, CountedVerdicts, Concluded, Report!Cases, Cases
<1> QED
  BY <1>7, Zenon DEF Report!Next

\* A call that stops has a case it will never count.
LEMMA StopStep ==
  ASSUME IInv, NEW e \in Execs, SeeCancel(e)
  PROVE  Report!Next
<1>0. TypeOK /\ Flow(e)
  BY DEF IInv
<1>1. /\ status[e] \in {"queued", "running"}
      /\ status' = [status EXCEPT ![e] = "cancelled"]
      /\ UNCHANGED <<worker, verdict>>
  BY <1>0 DEF SeeCancel, AtLoopHead, Flow
<1>2. next[e] \in Cases /\ ~Counted(e, next[e])
  <2>1. next[e] \in Cases
    BY <1>0, RunnerAssumption DEF SeeCancel, HasNext, TypeOK, Cases
  <2>2. worker[e][next[e]] = "idle"
    BY <1>0, <2>1, RunnerAssumption DEF Flow, TypeOK, Cases
  <2> QED
    BY <2>1, <2>2 DEF Counted
<1>3. Report!Missing(e) # {}
  BY <1>2 DEF Report!Missing, Report!Cases, Cases
<1>4. UNCHANGED [d \in Execs |-> CountedVerdicts(d)]
  BY <1>1 DEF CountedVerdicts, Counted
<1>5. [d \in Execs |-> Concluded(d)]'
        = [[d \in Execs |-> Concluded(d)] EXCEPT ![e] = "cancelled"]
  BY <1>0, <1>1 DEF Concluded, TypeOK
<1>6. Report!Stop(e)
  BY <1>1, <1>3, <1>4, <1>5 DEF Report!Stop, CountedVerdicts, Concluded
<1> QED
  BY <1>6, Zenon DEF Report!Next

\* Run counts every case once, concludes from all of them, and a call that
\* stops early never counts every case.
THEOREM RunnerImplementsRunReport == Spec => ImplementsRunReport
<1>1. Init => Report!Init
  BY DEF Init, Report!Init, Report!Cases, Cases, Counted
<1>2. ASSUME IInv, AllExact, [Next]_vars
      PROVE  [Report!Next]_Report!vars
  <2>1. ASSUME NEW e \in Execs, NEW c \in Cases, Aggregate(e, c)
        PROVE  [Report!Next]_Report!vars
    BY <1>2, <2>1, CountStep
  <2>2. ASSUME NEW e \in Execs, Conclude(e) PROVE [Report!Next]_Report!vars
    BY <1>2, <2>2, ConcludeStep
  <2>3. ASSUME NEW e \in Execs, SeeCancel(e) PROVE [Report!Next]_Report!vars
    BY <1>2, <2>3, StopStep
  <2>4. ASSUME \A d \in Execs : /\ CountedVerdicts(d)' = CountedVerdicts(d)
                                /\ Concluded(d)' = Concluded(d)
        PROVE  UNCHANGED Report!vars
    BY <2>4 DEF Report!vars, CountedVerdicts, Concluded
  <2>5. ASSUME NEW e \in Execs,
         \/ Call(e) \/ MarkRunning(e) \/ RunNextCase(e) \/ AddToGroup(e)
         \/ StartWorker(e) \/ LeaveLoop(e) \/ Drain(e) \/ SaveCancel(e)
         \/ PublishCancel(e) \/ StampCancelled(e) \/ SaveConclusion(e)
         \/ CancelContext(e)
         \/ \E c \in Cases : \/ ExecuteCase(e, c) \/ PersistResult(e, c)
                             \/ PublishProgress(e, c) \/ ReleaseToken(e, c)
                             \/ LeaveGroup(e, c)
        PROVE  UNCHANGED Report!vars
    BY <1>2, <2>4, <2>5, Stutter
  <2>6. CASE UNCHANGED vars
    <3>1. UNCHANGED <<worker, verdict, status>>
      BY <2>6 DEF vars, callVars
    <3> QED
      BY <2>4, <3>1 DEF CountedVerdicts, Concluded, Counted
  <2> QED
    BY <1>2, <2>1, <2>2, <2>3, <2>5, <2>6
       DEF Next, RunnerStep, MainStep, WorkerStep, Finished
<1> QED
  BY <1>1, <1>2, Inductive, AlwaysExact, PTL
     DEF Spec, ImplementsRunReport, Report!Spec

=============================================================================
