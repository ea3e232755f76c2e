------------------------------ MODULE RunStream ------------------------------
(***************************************************************************)
(* The way of a run's events to its viewers: RedisEventBroker              *)
(* (backend/internal/runner/sse.go) and the SSE handler Stream             *)
(* (backend/internal/api/test_run.go).  Each s in Streams is one GET       *)
(* .../stream with the goroutine Subscribe starts for it.                  *)
(*                                                                         *)
(* The events are what a call of Run publishes (see Runner): progress      *)
(* events and at most one complete event, which is the last one; a call    *)
(* that is cancelled or dies publishes none.  An event is known by its     *)
(* position in published, a heartbeat is 0.  Redis and the connection of   *)
(* go-redis are external: a message goes to the subscriptions that exist   *)
(* when it is published, in order, and is not kept for later ones.         *)
(*                                                                         *)
(* A definition with a longer name before another (EnqueueFirst before     *)
(* Enqueue) is a faulty variant of it, used by no action.                  *)
(***************************************************************************)
EXTENDS Integers, Sequences

CONSTANTS
  Streams,    \* Stream requests for the run
  MaxEvents,  \* bound on the events published for the run
  Buffer      \* capacity of the channel between goroutine and handler (16)

ASSUME StreamAssumption ==
  /\ MaxEvents \in Nat
  /\ Buffer \in Nat \ {0}

VARIABLES
  published,  \* types of the events published so far
  handler,    \* where each Stream handler is
  broker,     \* where each Subscribe goroutine is
  since,      \* how many events were published before the subscription
  wire,       \* messages between Redis and the goroutine
  buffer,     \* contents of the channel ch
  ctxDone,    \* the handler's context is done
  unsubbed,   \* pubsub.Close has been called
  shown,      \* events written to the client
  dropped,    \* events that found the channel full
  lost        \* the connection to Redis broke while messages were under way
vars == <<published, handler, broker, since, wire, buffer, ctxDone, unsubbed,
          shown, dropped, lost>>

Heartbeat == 0

Init ==
  /\ published = <<>>
  /\ handler = [s \in Streams |-> "idle"]
  /\ broker = [s \in Streams |-> "none"]
  /\ since = [s \in Streams |-> 0]
  /\ wire = [s \in Streams |-> <<>>]
  /\ buffer = [s \in Streams |-> <<>>]
  /\ ctxDone = [s \in Streams |-> FALSE]
  /\ unsubbed = [s \in Streams |-> FALSE]
  /\ shown = [s \in Streams |-> <<>>]
  /\ dropped = [s \in Streams |-> {}]
  /\ lost = [s \in Streams |-> FALSE]

IsCompleteMisspelt(i) == i # Heartbeat /\ published[i] = "completed"
IsComplete(i) == i # Heartbeat /\ published[i] = "complete"
Announced == \E i \in 1 .. Len(published) : published[i] = "complete"
Subscribed(s) == broker[s] = "running" /\ ~unsubbed[s]

\* RedisEventBroker.Publish: Redis hands the message to every subscription.
Publish(type) ==
  /\ Len(published) < MaxEvents
  /\ ~Announced
  /\ published' = Append(published, type)
  /\ wire' = [s \in Streams |-> IF Subscribed(s)
                                THEN Append(wire[s], Len(published'))
                                ELSE wire[s]]
  /\ UNCHANGED <<handler, broker, since, buffer, ctxDone, unsubbed, shown,
                 dropped, lost>>

\* The connection to Redis breaks; what was under way is gone.
LoseWire(s) ==
  /\ wire[s] # <<>>
  /\ wire' = [wire EXCEPT ![s] = <<>>]
  /\ lost' = [lost EXCEPT ![s] = TRUE]
  /\ UNCHANGED <<published, handler, broker, since, buffer, ctxDone, unsubbed,
                 shown, dropped>>

\* A viewer asks for the stream: headers are set and Subscribe is called.
Open(s) ==
  /\ handler[s] = "idle"
  /\ handler' = [handler EXCEPT ![s] = "subscribing"]
  /\ UNCHANGED <<published, broker, since, wire, buffer, ctxDone, unsubbed, shown,
                 dropped, lost>>

\* Redis confirms the subscription and the goroutine starts.
Confirm(s) ==
  /\ handler[s] = "subscribing"
  /\ ~ctxDone[s]
  /\ handler' = [handler EXCEPT ![s] = "reading"]
  /\ broker' = [broker EXCEPT ![s] = "running"]
  /\ since' = [since EXCEPT ![s] = Len(published)]
  /\ UNCHANGED <<published, wire, buffer, ctxDone, unsubbed, shown,
                 dropped, lost>>

\* The confirmation does not come, because the viewer has gone away or Redis
\* does not answer: pubsub is closed and the handler fails.
Refuse(s) ==
  /\ handler[s] = "subscribing"
  /\ handler' = [handler EXCEPT ![s] = "returned"]
  /\ unsubbed' = [unsubbed EXCEPT ![s] = TRUE]
  /\ ctxDone' = [ctxDone EXCEPT ![s] = TRUE]
  /\ UNCHANGED <<published, broker, since, wire, buffer, shown, dropped, lost>>

\* The viewer goes away: its request's context is done.
Disconnect(s) ==
  /\ handler[s] \in {"subscribing", "reading"}
  /\ ~ctxDone[s]
  /\ ctxDone' = [ctxDone EXCEPT ![s] = TRUE]
  /\ UNCHANGED <<published, handler, broker, since, wire, buffer, unsubbed, shown,
                 dropped, lost>>

(***************************************************************************)
(* The goroutine of Subscribe.  select may take any branch that is ready.  *)
(***************************************************************************)

HasRoomAlways(s) == TRUE
HasRoom(s) == Len(buffer[s]) < Buffer

\* A send on ch.
EnqueueFirst(q, i) == <<i>> \o q
EnqueueLatestOnly(q, i) == <<i>>
Enqueue(q, i) == Append(q, i)

\* A heartbeat every 15 seconds; skipped when the channel is full.
Beat(s) ==
  /\ broker[s] = "running"
  /\ HasRoom(s)
  /\ buffer' = [buffer EXCEPT ![s] = Enqueue(@, Heartbeat)]
  /\ UNCHANGED <<published, handler, broker, since, wire, ctxDone, unsubbed, shown,
                 dropped, lost>>

\* A message is passed on, or dropped when the channel is full.
Forward(s) ==
  /\ broker[s] = "running"
  /\ wire[s] # <<>>
  /\ wire' = [wire EXCEPT ![s] = Tail(@)]
  /\ IF HasRoom(s)
     THEN /\ buffer' = [buffer EXCEPT ![s] = Enqueue(@, Head(wire[s]))]
          /\ UNCHANGED dropped
     ELSE /\ dropped' = [dropped EXCEPT ![s] = @ \cup {Head(wire[s])}]
          /\ UNCHANGED buffer
  /\ UNCHANGED <<published, handler, broker, since, ctxDone, unsubbed, shown,
                 lost>>

ShouldQuitIfUnsubscribed(s) == unsubbed[s]
ShouldQuit(s) == ctxDone[s] \/ unsubbed[s]

\* The context is done, or cleanup closed pubsub: close(ch), pubsub.Close.
Quit(s) ==
  /\ broker[s] = "running"
  /\ ShouldQuit(s)
  /\ broker' = [broker EXCEPT ![s] = "ended"]
  /\ unsubbed' = [unsubbed EXCEPT ![s] = TRUE]
  /\ UNCHANGED <<published, handler, since, wire, buffer, ctxDone, shown,
                 dropped, lost>>

(***************************************************************************)
(* The handler's range over the channel.                                   *)
(***************************************************************************)

\* The deferred cleanup() and cancel() of a handler that returns.
Return(s) ==
  /\ handler' = [handler EXCEPT ![s] = "returned"]
  /\ unsubbed' = [unsubbed EXCEPT ![s] = TRUE]
  /\ ctxDone' = [ctxDone EXCEPT ![s] = TRUE]

\* One event is written and flushed; the complete event ends the stream.
Write(s) ==
  /\ handler[s] = "reading"
  /\ buffer[s] # <<>>
  /\ buffer' = [buffer EXCEPT ![s] = Tail(@)]
  /\ shown' = [shown EXCEPT ![s] =
                 IF Head(buffer[s]) = Heartbeat THEN @ ELSE Append(@, Head(buffer[s]))]
  /\ IF IsComplete(Head(buffer[s]))
     THEN Return(s)
     ELSE UNCHANGED <<handler, unsubbed, ctxDone>>
  /\ UNCHANGED <<published, broker, since, wire, dropped, lost>>

\* The channel is closed and drained.
RangeEnds(s) ==
  /\ handler[s] = "reading"
  /\ buffer[s] = <<>>
  /\ broker[s] = "ended"
  /\ Return(s)
  /\ UNCHANGED <<published, broker, since, wire, buffer, shown, dropped, lost>>

Next ==
  \/ \E type \in {"progress", "complete"} : Publish(type)
  \/ \E s \in Streams :
       \/ LoseWire(s) \/ Open(s) \/ Confirm(s) \/ Refuse(s) \/ Disconnect(s)
       \/ Beat(s) \/ Forward(s) \/ Quit(s) \/ Write(s) \/ RangeEnds(s)

\* The goroutine forwards and quits, the handler writes (a client that never
\* reads makes its write fail in the end), and the confirmation comes or fails.
\* select picks among its ready branches at random, so neither the heartbeat
\* nor the messages keep the goroutine from seeing that it should quit.
Fairness ==
  \A s \in Streams :
    /\ WF_vars(Confirm(s) \/ Refuse(s))
    /\ WF_vars(Forward(s))
    /\ WF_vars(Quit(s))
    /\ WF_vars(Write(s))
    /\ WF_vars(RangeEnds(s))

Spec == Init /\ [][Next]_vars
FairSpec == Spec /\ Fairness

-----------------------------------------------------------------------------
Events == 1 .. Len(published)

\* The channel never holds more than its capacity, and everything under way
\* is a published event.
TypeOK ==
  /\ published \in Seq({"progress", "complete"})
  /\ handler \in [Streams -> {"idle", "subscribing", "reading", "returned"}]
  /\ broker \in [Streams -> {"none", "running", "ended"}]
  /\ since \in [Streams -> 0 .. Len(published)]
  /\ wire \in [Streams -> Seq(Events)]
  /\ buffer \in [Streams -> Seq(Events \cup {Heartbeat})]
  /\ \A s \in Streams : Len(buffer[s]) <= Buffer
  /\ ctxDone \in [Streams -> BOOLEAN]
  /\ unsubbed \in [Streams -> BOOLEAN]
  /\ shown \in [Streams -> Seq(Events)]
  /\ dropped \in [Streams -> SUBSET Events]
  /\ lost \in [Streams -> BOOLEAN]

\* Through the wire, the channel and the handler, events keep the order they
\* were published in, and none comes twice.
OrderKept ==
  \A s \in Streams :
    LET line == shown[s] \o buffer[s] \o wire[s]
    IN \A i, j \in 1 .. Len(line) :
         i < j /\ line[i] # Heartbeat /\ line[j] # Heartbeat => line[i] < line[j]

InSeq(q) == {q[i] : i \in 1 .. Len(q)}

\* On a connection that does not break, an open stream loses an event only
\* when its channel is full: every event since the subscription was shown, is
\* under way or was counted as dropped.
NothingElseLost ==
  \A s \in Streams :
    ~lost[s] /\ handler[s] = "reading" /\ Subscribed(s) =>
      since[s] + 1 .. Len(published)
        = InSeq(shown[s]) \cup (InSeq(buffer[s]) \ {Heartbeat}) \cup InSeq(wire[s])
            \cup dropped[s]

\* A viewer that was subscribed when the run completed is released, unless an
\* event was dropped or the connection to Redis broke.
CompleteEndsStream ==
  \A s \in Streams :
    (handler[s] = "reading" /\ Subscribed(s) /\ Announced
       /\ since[s] < Len(published))
      ~> (handler[s] = "returned" \/ dropped[s] # {} \/ lost[s])

\* No goroutine leaks: once the handler has returned or its viewer has gone
\* away, handler and goroutine both end.
NoLeak ==
  \A s \in Streams :
    (ctxDone[s] \/ handler[s] = "returned")
      ~> (handler[s] = "returned" /\ broker[s] # "running")

\* ADR-0006, "Backpressure: if a subscriber's outbound channel is full, the SSE
\* handler closes the connection": a stream that lost an event is closed.
BackpressureCloses ==
  \A s \in Streams : (dropped[s] # {}) ~> (handler[s] = "returned")

=============================================================================
