# A formal model of the Sentinel API platform

TLA+ modules that model the backend of the Sentinel API platform (Go, gin, GORM
on MySQL, go-redis) and its web client, TLC configurations that check them on
small instances, and proofs that TLAPS checks for every instance. Paths below
are relative to the repository; `runner.go` and the like are under
`backend/internal/`.

Modelled are the test runner with the service and the event stream around it, the
AI budget, the sessions of the web client, the mock server, the judging of answers
and the catalogue of projects, apis, rules and test cases. All safety properties that
the runs check, and the refinement of `RunReport`, are also proved for every instance;
what depends on fairness is left to TLC.

## 1. The system

| Component | State it keeps | Operations | Talks to |
|---|---|---|---|
| Test runner (`runner/runner.go`, `executor.go`) | its copy of the `test_runs` row, a semaphore, a wait group, a mutex | `Run`, `runSequential`, `runParallel`, `execOne`, `Execute` | target over HTTP, `test_results`, `test_runs`, publisher, AI hook |
| Test run service (`service/test_run_service.go`, `api/test_run.go`) | `test_runs` rows, the `cancellers` map | `Create`, `Start`, `Cancel`, lists and exports | runner, repositories |
| Event stream (`runner/sse.go`, `api/test_run.go` `Stream`) | a Redis subscription, a channel of 16 and a goroutine per viewer | `Publish`, `Subscribe`, `Stream` | Redis pub/sub, the browser |
| Assertions (`runner/assertion.go`) | none | `Assert`, `jsonPathLookup` | `Execute` |
| AI engine (`ai/engine.go`, `guard.go`, `cache.go`) | Redis cache, `ai_usage` rows | `call`, `Allow`, `Record`, the budget endpoint | provider, runner hook, AI API |
| Authentication (`service/auth_service.go`, `repository/refresh_token_repo.go`) | `users`, `refresh_tokens` | `Register`, `Login`, `Refresh`, `Logout`, `Me` | cookies, web client |
| Web client refresh (`frontend/src/api/client.ts`) | `isRefreshing`, `failedQueue` | response interceptor | `/auth/refresh` |
| Mock engine (`mock/engine.go`, `varbag.go`, `extractor.go`, `matcher.go`) | variable bags in Redis with a sliding 30-minute expiry, `mock_hits` | `Serve`, `PickBest`, `Apply`, `Substitute` | rules, APIs, Redis |
| Projects and members (`service/project_service.go`) | `projects`, `project_members` | create, update, delete, members, roles | every other service (role checks) |
| API catalogue (`api/api.go`, `service/api_service.go`) | `apis` with tags as JSON | CRUD, tags, OpenAPI import | contract parser |
| Mock rules, test cases | `mock_rules`, `test_cases` | CRUD behind a role check | projects |
| Contract (`contract/*.go`) | none | load, extract, diff, validate | catalogue |
| Dashboard, middleware, `pkg/*`, migrations, `cmd/server` | none, or `audit_logs` | read-only aggregates; per-request filters; wiring; start and stop | everything |
| Web frontend views and stores | caches of lists | fetch, render | backend, event stream |

How they interact: a browser starts a run through the service, which reads the
row, stores a `CancelFunc`, marks the row and spawns a goroutine that calls
`runner.Run`; `Run` writes results, updates the row and publishes events to
Redis; a `Stream` handler of the same or another process forwards the events to
viewers until it sees the complete event. Cancel reads the row, calls the stored
`CancelFunc` and writes the row itself. The AI hook runs inside `execOne`. All
other components are request handlers over SQL rows.

What is hard:

- *Concurrency*: the workers of a parallel run share counters; Start, Cancel and
  the goroutine of the run all write the row without conditions; the cancellers
  map has one entry per row whoever started it; a viewer's goroutine and handler
  end each other; several Refresh calls, tag changes, AI calls and project
  updates check first and act later.
- *Failure*: inserts, updates and publishes may fail and are mostly logged; a
  context that is done makes every later call fail; the process may stop with
  runs under way; a project or an import may be half created.
- *Ordering*: complete is announced before the row is saved; progress events are
  published outside the lock; a full channel drops what comes.
- *Timeouts*: 30 seconds per case, 15-second heartbeats, 30-minute bags, 7-day
  refresh tokens, 10-second shutdown.

What makes each component correct:

- runner: bounded concurrency; exact counters; a success only when every case
  passed and is stored; complete is the last event; every call returns; workers
  never outlive the call.
- service: only untouched runs are started; a terminal row is the report of one
  call; the cancellers map holds no dead entries. (That a cancelled row stays so, that
  a row has one goroutine and that a started run settles is said but not so, see
  section 4.)
- stream: order, no loss other than by a full channel or a broken connection,
  release of the viewer on completion, no leaked goroutine.
- AI: spend bounded by the limits plus what is in flight; no usage lost.
- authentication: whatever query or reply fails, the browser is left with a refresh
  token that works, and a refresh is refused only for a reason. (That a token is
  exchanged once and that none outlives a logout is not so, see section 4.)
- web client: every request that met a 401 is answered exactly once.
- mock engine: the best rule is unique and deterministic; a session's bag is
  alive as long as it is used.
- projects, catalogue: a project answered for has its owner as an admin; whoever
  changes an api still holds the role read for it, unless a save of the project came in
  between; an acknowledged tag is lost to nobody but a concurrent writer; an import
  accounts for every operation; foreign keys hold.
- assertions: a pass means that the answer meets all the case declares.

`PROJECT.json` lists the components with their status and the hazards, each at
its line, with the properties that cover it or the reason why none does.

## 2. Modules

| Module | What it is |
|---|---|
| `RunReport` | what a call of `Run` promises, without saying how |
| `Runner` | `runner.go` and `executor.go`, one action per step of a goroutine |
| `TestRunService` | extends `Runner` with `test_run_service.go` and its handlers |
| `RunStream` | `sse.go` and the `Stream` handler |
| `AIBudget` | `ai/engine.go`, `guard.go`, `cache.go` under concurrent callers, and the budget endpoint |
| `WebSessions` | `client.ts` in several tabs, on the cookies and refresh tokens of `auth_service.go` |
| `MockMatcher` | `mock/matcher.go` as operators |
| `MockEngine` | extends `MockMatcher` with `mock/engine.go`, `varbag.go` and `extractor.go` |
| `Assertions` | `runner/assertion.go` and the part of `Execute` that calls it |
| `Contract` | `contract/parser.go` and `differ.go` as operators |
| `Catalogue` | extends `Contract` with the handlers and services of projects, apis, rules and cases |
| `RunnerProofs` | the inductive invariants of `Runner`, its safety theorems, and the proof that it implements `RunReport` |
| `TestRunServiceProofs`, `RunStreamProofs`, `AIBudgetProofs`, `WebSessionsProofs`, `MockEngineProofs`, `AssertionsProofs`, `CatalogueProofs` | invariants and theorems of the module they are named after |
| `MC...` | what TLC runs, with the `.cfg` files |

A definition with a longer name right before another one (`HasNextOffByOne`
before `HasNext`) is a faulty variant of it. No action uses it; a property is
worth its run only if TLC finds it violated with the variant in place.

### Runner

Each `e` in `Execs` is one call of `runner.Run` on the same row. `pc[e]` is the
place of the calling goroutine (start, loop, acquire, drain, cancelSave,
cancelPublish, guard, save, returned), `worker[e][c]` the place of `execOne` for
a case (execute, persist, aggregate, publish, release, leave, done), whether it
runs in a goroutine of its own (parallel) or in the caller's (sequential).
`status` and `tally` are `run.Status` and the counters of the call's own copy,
`row` is the row in the database, `results` and `events` what was inserted and
published. `sem` and `wg` are the lengths of the semaphore channel and the wait
group's counter.

An action is one step between two points where another goroutine can be seen:
the `select` at the head of a loop, `wg.Add`, the send on the semaphore, each
call on the persister, updater or publisher, the critical section of
`aggregate`, each deferred call. Calls on the outside take their outcome from
`Outcomes`: on a context that is done they fail, as `net/http`, `database/sql`
under GORM and go-redis all check the context before they send anything; on a
live context they fail only if `Faults` says so: "insert" loses the row,
"answer" stores it and still reports an error (an error of `Update` or `Publish`
is only logged, so the two cases need no telling apart there). The `runner` run
takes "insert"; the proofs hold for every combination. `Execute` yields pass,
fail or error on a live context (it never reports skip, so the fourth counter
stays zero and is left out) and error on one that is done.

Abstracted: timestamps, `total`, names, the AI hook (it changes a field of the
result that nothing here reads), response contents, `Attempt`. The assertions of
a case are the choice of its verdict.

### TestRunService

One action per store or map access of `Create`, `Start` and `Cancel`, in the
order of the code, so any two handlers interleave between them. `EndRequest` is
where a request's context is done: when the handler returns or its client goes
away. Since the run's context is a child of it (`test_run_service.go:80`), that
is also where the run's context is done, besides `Cancel` and the deferred
function (`Forget`). `Crash` stops the process: goroutines and the map are gone,
rows stay. `srv.Shutdown` waits for handlers but not for runs, so a graceful
stop looks the same to a run.

`Start` and `Cancel` have no role check of their own (`test_run_service.go:64-111`), and
the one of their routes answers a refusal without aborting, so a caller's role decides
nothing here and has no place in the model. Not modelled: the role check of `Create`
(a refused call makes no row), failures of reads, deletion of a run's project while it
runs. The service never sets
`Concurrency`, so rows get the column's default 1 and even a parallel run takes
the sequential path; the instances say so.

### RunStream

`published` is the event log of one run; `Publish` appends to it and to the
`wire` of every subscription that exists, as Redis does. `broker[s]` is the
goroutine of `Subscribe`, whose `select` is three actions (`Beat`, `Forward`,
`Quit`), `buffer[s]` the channel, `handler[s]` the loop of `Stream`. `LoseWire`
is the connection of go-redis breaking. `dropped` and `lost` are history
variables the properties use.

Not modelled: undecodable messages (`Run` publishes none), a publisher that is
not configured.

### AIBudget

Each `c` in `Calls` is a caller of `Engine.call`: a handler or the attribution hook
of a run. `pc[c]` is where it is in the pipeline (lookup, daily, monthly, complete,
store, record), one action for each outside call: `Cache.Get`, the two queries of
`Guard.Allow`, the provider, `Cache.Set`, `Guard.Record`. Every one of them fails on
a done context (`gone`) and may fail otherwise (`Faults`). `today` and `thisMonth`
are the sums the guard reads; `Midnight` starts a new day and perhaps a new month,
`Expire` ends an answer's TTL. `BudgetRead` and `BudgetReply` are the budget
endpoint with its two reads. Money is counted in units of 1e-8 USD, the precision of
the column. The providers wired in are free (mock) or always fail (noop); the model
takes any that keeps the `Provider` interface, with prices up to `MaxCost`.

Abstracted: prompts (a request is its cache key), the parsing of answers, the role
check in front (a refused caller changes nothing).

### WebSessions

Tabs share `jar`, the three cookies as the refresh token and an age (the access
cookie goes after 15 minutes, the CSRF cookie after 24 hours, the refresh cookie
after 7 days), but each has its own `refreshing` flag. Each `r` in `Requests` is one
call of the api client; `call[r].at` is where it is: refused (a 401 has come back),
queued, refreshing, resend, answered, and for the entry points the reply on its way.
Its `POST /auth/refresh` is done query by query (`Lookup`, `GenerateToken`,
`Consume`), so that two tabs, a logout or a failing query can come in between.
`failedQueue` is the set of queued requests of a tab. `tokens` are the rows of
`refresh_tokens`: live, revoked by Logout, or consumed by the Refresh of a tab.

`Send` and `Resend` make a request and have the server decide it, as nothing in
between can change what it does. A refresh that fails rejects its queue and, unless the
tab is on the login page already, sends it there (`Unload`): a page is loaded, which
aborts what other requests of the tab have under way and drops the interceptor's state.
`Reload` is the same by the user's hand and counts as a fault; `LoseReply` loses a reply
that carries cookies.

Abstracted: hashes, the content of JWTs, password rules, several users (every row is
found by its token or its user).

### MockMatcher and MockEngine

`MockMatcher` has `ScoreRule` and `PickBest` over rules whose match is a set of
fields; values are the classes a field's style tells apart. `InOrder` is the order of
the list the repository hands over. In `MockEngine` each `c`
in `Calls` is one request to `/mock/...`, with an action for each call on the
database or on Redis: the rules, the apis and `PickBest` (`Match`), the delay, one
`Extract` per instruction, `Substitute`, the reply, the row in `mock_hits`. A
variable's value is known by the call it was extracted for and the instruction that
extracted it, as a rule may extract one name twice. `ttl` is what a bag has
left in ticks of the clock; `HSET` and `EXPIRE` of a pipeline may succeed apart.
`DeleteApi` removes an api with its rules under the calls' feet.

`Tick` does not happen while a call is between its extraction and its substitution:
a window is half an hour and that time is a few milliseconds. Rules do not change
otherwise (no handler can change one, see section 4); the template's other
placeholders and the headers of the response are left out.

### Assertions

One case and one answer. `Execute` picks the answer or none, `AssertStatus`,
`AssertBody` and `AssertAdvanced` add to `failures` in their order, `Judge` decides.
`failures` keeps the kinds of check that have failed, not their messages or order.
JSON values are trees; `jsonPathLookup` applies `Navigate` to one part of a path after
the other. What a substring, a regular expression or a schema accepts is a set of bodies.
The properties compare it with definitions of their own: what is at the end of a path
(`Ends`, by the relation `Leads` of one part), and what a case declares (`Meets`).

### Contract and Catalogue

`Contract` is `ExtractAPIs` (which operations, in which order) and `Diff`. In
`Catalogue` every request is a program: the queries its handler makes, in order
(`Program`). A step is one query and what the code decides on its result: the
project and then the member row of a role check (`FindOwner`, `FindMember`), the row
the request is about, the insert, update or delete, the final read. Tables are sets of
rows; a delete takes along what the foreign keys of the migrations say. "guard" is
the role middleware of the route, "role" the service's own check; the middleware
writes its refusal and lets the handler go on, and the client reads the first answer
written. An import runs `Create` for one operation after the other.

An update of an api gives its method or path, or both, and may leave them as they are;
one of a case may give any column of the row, as its handler passes on whatever JSON it
gets, so a case can move to another project or take another id (`Overwritten`).

History variables: `seen` (the row read), `wrote`, `revived` (a save brought a deleted
row back), `overtaken` (the operations a request was about to write when a save brought
their project back or changed its owner), `created` and `failed` of an import, `missed`
(tag writes since the read).
The role check of a rule request is one step: it asks for the project with the empty
id and never gets anywhere.

Abstracted: empty and malformed input, listings, descriptions, schemas, and in the
rows all columns no property looks at.

## 3. Runs

| Run | Instance | Question |
|---|---|---|
| `runner` | 1 call, both modes, 3 cases, concurrency 2, inserts may fail, cancel at any step | is what `Run` counts, stores, announces and saves right, and does it return? |
| `test_run_service` | 2 Starts, 1 Cancel, 1 stop of the process, 1 case | do the row and the cancellers map stay meaningful under any interleaving? |
| `run_stream` | 1 viewer, channel of 2, 5 events | order, losses, release, leaks |
| `test_run_orphan` | 1 Start | violated: a run whose request has been answered cannot write any more |
| `test_run_cancel_lost` | 1 Start, 1 Cancel | violated: the last update of a run overwrites a row that a Cancel without a canceller has set to cancelled |
| `test_run_twice` | 2 Starts | violated: two goroutines run one row |
| `run_stream_slow` | 1 viewer, channel of 1, 3 events | violated: a full channel does not close the stream |
| `ai_budget` | 2 callers, 2 prompts, prices 0 to 2, limits 2 and 3, every call may fail, 1 midnight | how far can the limits be overshot, and is every paid answer booked? |
| `web_sessions` | 2 requests in one tab, 1 in another, 1 fault | is a session ever lost without a reason, does a request wait for ever? |
| `mock_engine` | 1 call against any three rules; 2 calls of 2 sessions that extract and show; 1 fault | is the best rule chosen, are the right values shown? |
| `assertions` | every case and answer of a small set | what is a verdict worth? |
| `catalogue` | any 2 requests and 1 that disturbs them, 1 failing query | do roles, tags, imports, owners and foreign keys survive what comes in between? |

Bounds, and why they are enough:

- Three cases and concurrency 2 give two workers at once, one blocked send on
  the semaphore, a loop that can be cancelled before, between and after
  dispatches with workers still running, and both orders of any two workers.
  What does not depend on these numbers is proved for all of them (section 5).
- Two Starts and a Cancel are the fewest that exhibit every race on the row and
  the map: each entry is written by one Start, replaced by another and used or
  deleted by a third party. One case suffices, since the service does not look
  into the run. One crash separates a before and an after.
- A channel of 2 instead of 16 fills, drains and drops within five events; the
  viewer may subscribe before, between and after them. Streams do not share
  anything but the event log, so one is representative.
- Two callers overshoot a limit by one answer each and no more, which is what
  `SpendBounded` says for any number; the third price, 2, equals the daily limit. One
  midnight separates two days, or two months.
- Two requests in one tab are a refresher and a queued one, and the one in the other
  tab competes for the token; one may log in, register or log out instead. One fault
  is a failed query, a lost reply or a tab loaded anew, at any step.
- Three rules decide a contest between two by score, priority and id with one of
  another api in between; fields take every style. Two calls of one or two sessions,
  one that extracts and one that shows, with a window of two ticks, meet at every
  step, and the bag expires before, between and after them.
- Bodies are at most three levels deep, paths have at most two parts, with indexes
  below, in, at and past the end of an array, or none, or no number.
- In `catalogue` any two of 31 requests run with a third out of creating a project
  with a taken slug, deleting the project and deleting the api: those are the ones
  that take the ground from under others. With `SYMMETRY` only the combination of
  requests matters and not which is called which. One query may fail.

`run_stream`, `mock_engine`, `catalogue` and `assertions` have `CHECK_DEADLOCK FALSE`:
a viewer may never open a stream and a run may never publish; calls, requests and the
judging of a case simply end. The other passing runs check deadlock; where the system
can come to an end there is an explicit final step.

Faulty variants of the code are caught by each property: an off-by-one in the
loop or the semaphore, a loop that does not wait, an ignored insert error, a
counter that is not counted, a snapshot that is not one, a conclusion that
forgets errors, a final update without counters, a token that is not returned,
a canceller that is not deleted, a cancelled context that is not looked at, and
for the stream a channel that does not bound, reorders or forgets, a misspelt
event type and a goroutine that misses the end of its context; for the budget a
limit that is reached, a failed `Set` or `Record` that changes the way, and the two
reads in the other order; for the sessions cookies cleared under the wrong path, a
refresh that consumes first, a queue that is not used, not emptied or kept closed;
for the mock server ties broken the other way, substitution first, keys without the
session, a hash without expiry; for the catalogue a missing reset of a foreign key, a
dropped error of the second insert, a role left to the route, tags written without
those read, an import that stops; for the assertions an
index off by one and a pattern that needs a body.

### Fairness

- `Runner`: weak fairness of every goroutine's next step. Goroutines that can run
  are scheduled, and `Execute` returns within its client's 30 seconds. Nothing
  forces a call of `Run` or a cancellation. The semaphore needs no strong
  fairness: only the dispatching goroutine sends on it, and a free slot stays
  free until it does.
- `TestRunService`: the same for handlers and goroutines; clients need not call,
  disconnect or cancel, and the process need not stop.
- `RunStream`: weak fairness of the goroutine's forwarding and quitting and of
  the handler's writes. `select` picks at random among ready branches, so
  heartbeats do not starve the rest; a client that never reads makes the write
  fail in the end. A viewer need not open a stream or leave.
- `WebSessions`: weak fairness of each request's next step, in the browser or on the
  server: replies arrive, in the end as an error, and promises are settled. Nobody has
  to make a request, to reload or to let a cookie expire.

## 4. Where documents and code differ

1. `test_run_orphan`: the comment at `test_run_service.go:86-87` promises an
   asynchronous run whose progress can be polled. Its context ends with the
   request, so unless the run ends before the handler does, its updates and
   events fail, and the row stays running. (`Cancel` then still gets it to
   cancelled.)
2. `test_run_cancel_lost`: `runner.go:70` says the guard does not overwrite a
   cancelled run's status. It looks at the status of the call's own copy, which is
   cancelled only if the loop has seen a done context. A `Cancel` that looks for the
   canceller before `Start` has stored it (`test_run_service.go:81`) finds none, so the
   run goes on; the status it writes then (line 110) is overwritten by the final update
   of `Run` (`runner.go:95-103`), or already by the one that marks the row running
   (`runner.go:41`). A `Cancel` that does find the canceller is safe: the context is
   done, and every later update of the run fails.
3. `test_run_twice`: ADR-0006 speaks of a single goroutine per row. Start checks
   the row and marks it in two statements.
4. `run_stream_slow`: ADR-0006 says a full channel closes the connection. It
   drops the event; if that was the complete event, the stream stays open until
   the viewer leaves.
5. Without a run: ADR-0006:35 has a viewer who joins in the middle of a run get the
   last 16 events, and ADR-0006:37 has one who reconnects get those after its
   `Last-Event-ID`, or `run.resync`. There is no buffer and no replay: `Subscribe`
   hands over what Redis delivers from the subscription on. `OrderKept` speaks of order
   and repetition only and would hold with a replay, too.
6. Without a run: mock rules. `mock_rule.go:3-10` lists endpoints by which engineers
   create, change and delete rules, `mock_rule.go:60-61` and `main.go:154-155,189`
   leave the role check to the service, and `mock_rule_service.go:10,66-67` lets admins
   and engineers in ("engineers tune rules in real time"). The handlers give the service
   an empty project id, `RoleFor` finds no such project, and every such request is
   answered with 404: no rule can be made, changed or removed through them. `Catalogue`
   has the requests as they are; no property states this as correct.

What the models show besides, without a run that asks for it:

- Web sessions. Two tabs with one token can both refresh well, which leaves a live
  token nobody holds; or the slower one is refused and sent to the login page
  although the session lives. A refresh that is past its lookup creates a token after
  Logout has revoked all of them (ADR-0008 expects logout to be instant). A POST whose
  CSRF cookie is gone gets 403, which the interceptor does not take as a reason to
  refresh; the same answer to a logout is ignored by the store. A login with wrong
  credentials gets 401 and so causes a silent refresh first. No token of a deactivated
  user is refused, since nothing ever sets `IsActive` to false.
- Mock server. The comments at `mock_rule_service.go:172` and `mock_rule_repo.go:84`
  have the engine count hits; it inserts a row in `mock_hits` and never calls them. The
  last tie-break of `PickBest` never decides, as the list comes sorted. Fields that do
  not match disqualify no rule. When `HSET` succeeds and `EXPIRE` fails, the bag has no
  expiry.
- Catalogue. `RequireProjectRole` (`rbac.go:34`, "blocks requests") answers without
  aborting, so a request it refuses is stopped only where the service has a check of its
  own. Reads have none, nor have `Start` and `Cancel` of a test run
  (`test_run_service.go:64-111`): a viewer who is refused has still started or cancelled
  the run. An update of a project that overlaps its deletion brings it back without its
  members, or overwrites one that has taken its slug since, its owner included
  (`project_service.go:147` says "mutable fields" only). A role read before is then out
  of date: ann's update has read the project, bob's request to create an api has passed
  its role check, ann's deletion goes through, her save brings the project back without
  members, and bob's insert succeeds as a stranger's. `OwnerListed` and
  `WritersStillAllowed` except these cases by name (`Revived`, `overtaken`). A project
  whose second insert failed stays, and the retry gets a plain error. Updates and
  deletes of cases do not compare the case's project with the one in the URL, an update
  may change its project and its id, and the api of a case may be of another project.
  Of two apis with one method and path `Diff` says "modified"
  whatever they hold.
- Assertions. A match other than regex with a pattern and no expected body checks
  nothing, and passes. An index behind another (`a[0][1]`) is not read. A negative
  index panics in a goroutine nobody recovers, and the process ends.

## 5. Proofs

Each `...Proofs` module names an inductive invariant (`IInv`, `SInv` in the service),
proves that the initial states satisfy it and every step keeps it, and draws the
properties of the runs from it. What a proof assumes of the constants is in the named
assumptions of the module itself, which TLC evaluates for the instances.

Loops and sums are recursive functions. What they compute is proved by `Induction`, a
lemma on sets of numbers that follows from the well-foundedness of their order: a set
that has 0 and with each number the next one has them all. First the function is shown to exist, round by round; then what holds of each
round.

### The runner

`RunnerProofs` is about `Runner`'s
`Spec`, for every set of calls, every number of cases and every concurrency. They
assume only `RunnerAssumption`: modes and faults are among the named ones,
`NumCases` is a natural number, `Concurrency` an integer (a zero or negative one
selects the sequential path).

The inductive invariant `IInv` (in `RunnerProofs`) strengthens the type
invariant by five parts:

- `Flow`: which case has been dispatched is determined by the loop's index; a
  status goes with the places it can be held at; a call that was not cancelled
  has dispatched everything when it leaves the loop; a cancelled one has not.
- `OneAtATime`: a sequential call has at most one case under way, and none on
  its cancelled way out. Without it nothing says that a sequential call has no
  worker left when it decides.
- `Counters`: in a parallel call the semaphore's length is the number of workers
  holding a token and the wait group counts the workers under way plus the one
  announced by `wg.Add`. This is why neither drops below zero, why `wg.Wait`
  means that nobody is left, and why the semaphore bounds the requests.
- `Honest`: a counted pass has its row in `results`, every counted verdict shows
  in the counters, and a call that is successful has passed everything.
- `Told`: a success in the row or in an event is on behalf of a successful call.

Each part is preserved by a lemma of its own, one step per action or per group
of actions that leave the same things alone. From `IInv` follow:

| Theorem | Says |
|---|---|
| `TypeCorrect` | `TypeOK`, with the counters never below zero |
| `ConcurrencyBounded` | `BoundedConcurrency` |
| `LoopJoinsWorkers` | `NoWorkerOutlivesLoop` |
| `SuccessEarned` | `SuccessIsEarned` |
| `CountersExact` | `CountersAddUp`, with the further invariant `AllExact`: a counter is the number of cases counted under it |
| `SnapshotsAreDistinct` | `SnapshotsDistinct` |
| `CompleteComesLast` | `CompleteIsLast` |
| `RowSettles` | `SettledUnlessCancelled` |
| `RunnerImplementsRunReport` | every step of `Runner` is a step of `RunReport` or leaves its variables alone |

The three about events and the final row need a second invariant on top of the first
one (`Story` in `RunnerProofs`): a call only cancels itself on a context that is
done, so its own complete event fails (`Blind`); a complete event comes from a call
that has decided and has no worker left (`Heard`); the counters are at least as far as
any snapshot, and no two snapshots, published or not, have the same sum (`Snapshots`).

### The test run service

`TestRunServiceProofs`: for any number of Starts, Cancels, cases and stops of the
process, and rows whose concurrency is at most 1 (the column's default, which Create
never changes), `ServiceTypeOK`, `QueuedMeansUntouched`, `CancellerNotStale` and
`TerminalRowIsOneReport`. `IInv` of the runner does not hold here, since a stop of the
process ends a call anywhere; `SInv` takes its place: a call works on its cases in its
loop only (`Alone`), a goroutine is never ahead of its handler (`Handled`), and a row
that is still queued when a run is spawned was marked on a dead request, so that this
run can neither execute nor publish anything (`Blocked`). Without `Blocked` nothing
says that a later Start finds the run as it was.

### The event stream

`RunStreamProofs`: for any number of viewers, events and any capacity of the channel,
`TypeOK`, `OrderKept` and `NothingElseLost`. What a client has seen, the channel and
the wire are three pieces of one line of events: each rises, each is ahead of the next
(`InOrder`), and together with the dropped ones they hold every event since the
subscription, unless the connection broke.

### The AI budget

`AIBudgetProofs`: for any number of callers, prices up to `MaxCost` and limits above
zero, `SpendBounded` and `BudgetConsistent`. `SpendBounded` is inductive with the
types: a caller that passes a check starts below the limit and enters the set that may
still spend, a recorded answer leaves it and adds at most `MaxCost`. Every action but
the two checks and `Record` leaves that sum alone or lowers it. `BudgetConsistent`
needs that the day is part of the month and that a day read before stays below the
month until the second read (`DayInMonth`).

`BilledIsAccounted` speaks of a sum over the calls that have an answer and have not put
it up for recording. `SumFunctionOnSet` is a recursive function over sets that takes its elements in no
particular order; `OneMore` and `Addition` show that the order does not matter, and
`SumOf` that one more element adds its value. An answer enters the sum in the step that
adds its price to `unrecorded`, and leaves it in the step that hands the same price to
`Record`; every other step keeps both sides.

### The web sessions

`WebSessionsProofs`: for any number of tabs, requests and faults, `TypeOK`,
`SessionKept`, `RefusedForAReason` and `NoStranded`. The invariant says that a tab's
flag is up exactly while one request of it is refreshing (`Busy`), that a token on its
way to the browser is known to nobody else (`Fresh`), that a refresh has not yet
consumed the token it has in hand (`Own`), and that the browser's token was only
consumed by a refresh whose reply is under way (`Kept`). `Fresh` is what makes the
other two inductive: a token two parties know may be consumed by one before the other
uses it. Besides the types of the constants it assumes that no tab is called "live" or
"revoked", as `tokens` uses those names.

### The mock server

`MockEngineProofs`: for any number of calls, sessions, names, rules and faults, `TypeOK`,
`BestRuleServed`, `OwnExtractShown` and `SessionsApart`. It assumes of a set-up that its
rules are finitely many and match on finitely many fields, that their ids are above zero
and that they extract and show named variables (`SetupAssumption`).

- The rule: after each round of `PickBest` the best so far is a rule with a score that
  no candidate looked at beats, or there is none and nobody scored
  (`PickBestIsUnbeaten`). `Beats` orders rules by score, priority and id, so such a rule
  is the best of all.
- The variables: a call has a session from its arrival on, the values in a bag and those
  shown belong to calls of that session (`Apart`), and what a call has stored stays in
  its bag, perhaps overwritten, until it has been substituted (`Stored`), which rests on
  `Tick` waiting for calls between the two. No value is stored twice, so one that was
  overwritten never comes back, and the value shown (`Substituted`) is the last one
  stored or one that came after it.
- Expiry: a bag has a window exactly as long as it holds a variable, and one without
  end only after a failure (`Expiry`, a part of `TypeOK`).

### Assertions

`AssertionsProofs`: for any cases, responses and JSON values, `LookupSound` and
`VerdictEarned`. JSON values are assumed to hold JSON values, a path to be a sequence of
parts, and a case to have what its columns admit. The invariant says which checks have
contributed to `failures` at each place (`Collected`), and that the process stopped only
where the lookup panicked (`Stopped`). `NavigateLeads` compares one part of a path: where
`Navigate` finds a value, `Leads` leads there and nowhere else, and where it does not,
`Leads` leads nowhere; `LookupFindsEnds` extends this to paths of any length.

The attempt showed that the second and third arm of `Meets` overlapped, for a regex case
with both a pattern and an expected body, which left open what such a case declares; TLC
takes the first one that applies. They are disjoint now.

### The catalogue

`CatalogueProofs`: for any number of requests, any set-up with consistent foreign keys
(`CatalogueAssumption`) and any number of failing queries, `TypeOK`, `OwnerListed`,
`TagsKept`, `ImportAccounted` and the action property `WritersStillAllowed`. The invariant has

- what is left of a request's program: it only gets shorter from the front, so at most
  one write is to come, a role check stands right before each write of an api, the
  member insert right after the project's (`Planned`); for an import, the operations
  still to come, created and failed are those of the document, each in one of the three
  (`Accounted`);
- where ids come from (`AllKnown`): from the set-up or from one request, so none is used
  again after a delete;
- what a row that was read still tells (`SeenProjects`, `SeenApis`): an api's project,
  a project's slug, and its owner unless a project has come back;
- that the role read for a write is still held when it is made (`RoleHeld`): nothing
  takes a member's role away while the project exists, other than its deletion; only a
  save that brings the project back or changes its owner does, and it puts the writes
  it finds under way in `overtaken`;
- why a tag that was added may be missing (`TagsRead`): whoever is about to write tags
  read before the addition has it in `missed`.

The proof first says what a step can do at all (`Effect`): it changes one request's
record, and one table by an insert, an update, a delete with what the foreign keys take
along, or none. Each part of the invariant is then shown for the effects that matter to
it. That `ExtractAPIs` lists each operation of a document once is a lemma of its own:
`Precedes` is a total order and the rank of an operation is its place.

### Only model-checked

- Liveness (`RunReturns`, `CompleteEndsStream`, `NoLeak`, `EveryRequestAnswered`):
  beyond the provers used here.
- `TestRunService` with a concurrency above 1, which the service never asks for.
- The four runs that expect a violation: TLC's counterexample is the proof.

## 6. Not modelled

- Dashboard (read-only SQL), listings, exports and other reads; views and most stores
  of the frontend (rendering, caches of lists).
- Audit, CORS, logging, recovery and request ids; `pkg`; migrations as a program;
  scripts; configuration, health checks and the wiring of `cmd/server` other than the
  roles of its routes and its stop.
- The OpenAPI loader and the response validator (wrappers of a library, without
  state) and `DiffSpecs`, which nothing calls.
- Prompts and the parsing of AI answers: no state depends on them.
- Two processes on one database: `cancellers` and the interceptor's state are local,
  and a second process would only add runs nobody can cancel.
