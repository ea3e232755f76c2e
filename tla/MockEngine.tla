----------------------------- MODULE MockEngine -----------------------------
(***************************************************************************)
(* The mock server of one project (backend/internal/mock/engine.go) with   *)
(* its variable bags in Redis (varbag.go), the extractor (extractor.go)    *)
(* and the hits (repository/mock_hit_repo.go).  Each c in Calls is one     *)
(* request to /mock/:projectSlug/*path, handled step by step.  A value in  *)
(* a bag is known by the call that extracted it and by the instruction.    *)
(***************************************************************************)
EXTENDS MockMatcher

CONSTANTS
  Calls,
  Sessions,   \* X-Mock-Session; a call without one gets a session of its own
  Names,      \* of variables
  NoValue,    \* the variable is not in the bag
  Setups,     \* sets of rules, with the calls made and the requests they make
  Window,     \* ticks of the clock until a bag expires
  MaxFaults   \* bound: Redis or database calls that fail, clients that leave

Extracted == [by : Calls, nth : Nat]

ASSUME MockAssumption ==
  /\ Window \in Nat \ {0}
  /\ MaxFaults \in Nat
  /\ NoValue \notin Extracted
  /\ Sessions # {}

\* What the migrations and the validation of a rule leave of it.
ASSUME SetupAssumption == \A given \in Setups : IsFiniteSet(given.rules) /\
  \A r \in given.rules :
    /\ r.id \in Nat \ {0} /\ r.priority \in Int
    /\ r.extracts \in Seq([as : Names, finds : {"value", "nothing", "bad"}])
    /\ r.shows \subseteq Names
    /\ IsFiniteSet(r.match)

Forever == Window + 1

VARIABLES
  setup,   \* the rules, never changed while calls are served
  apis,    \* the apis that exist; rules and hits go with theirs
  call,    \* each call: where it is, its session, request, rules read, rule
           \* chosen, next extraction, variables shown, and what it overwrote
  bag,     \* the variables of each session
  ttl,     \* ticks its bag has left; 0 for none, Forever without an expiry
  hits,    \* calls with a row in mock_hits
  faults

vars == <<setup, apis, call, bag, ttl, hits, faults>>

Empty == [n \in Names |-> NoValue]
Start == [at |-> "new", gone |-> FALSE, session |-> CHOOSE s \in Sessions : TRUE,
          request |-> <<>>, list |-> {}, rule |-> NoRule, next |-> 1,
          shown |-> Empty, wrote |-> {}, over |-> Empty]

Init ==
  /\ setup \in Setups
  /\ apis = {r.api : r \in setup.rules}
  /\ call = [c \in Calls |-> Start]
  /\ bag = [s \in Sessions |-> Empty]
  /\ ttl = [s \in Sessions |-> 0]
  /\ hits = {}
  /\ faults = 0

\* An outside call fails on a done context, and may fail otherwise.
Try(c, ok) ==
  IF call[c].gone THEN ~ok /\ UNCHANGED faults
  ELSE (ok \/ faults < MaxFaults) /\ faults' = IF ok THEN faults ELSE faults + 1

To(c, place) == call' = [call EXCEPT ![c].at = place]
At(c, place) == call[c].at = place

(***************************************************************************)
(* Serve, up to the choice of the rule.                                    *)
(***************************************************************************)
\* A request arrives; FindBySlug and the list of enabled rules.
LoadRules(c) ==
  /\ At(c, "new") /\ c \in setup.calls
  /\ \E s \in Sessions, q \in setup.requests, ok \in BOOLEAN :
       /\ Try(c, ok)
       /\ call' = [call EXCEPT ![c].session = s, ![c].request = q,
            ![c].at = IF ok THEN "apis" ELSE "failed",
            ![c].list = IF ok THEN {r \in setup.rules : r.api \in apis} ELSE {}]
  /\ UNCHANGED <<setup, apis, bag, ttl, hits>>

\* The apis with the method and path of the request; rules of apis that have gone
\* since are passed over.
Candidates(c) == {r \in call[c].list : r.api \in apis /\ r.api = call[c].request.api}

\* The order of the query, by priority and id, which the filter keeps.
InOrder(rules) ==
  {s \in [1 .. Cardinality(rules) -> rules] :
     /\ \A r \in rules : \E i \in DOMAIN s : s[i] = r
     /\ \A i, j \in DOMAIN s : i < j =>
          \/ s[i].priority < s[j].priority
          \/ s[i].priority = s[j].priority /\ s[i].id <= s[j].id}

\* One bad rule among the candidates refuses the request.
Match(c) ==
  /\ At(c, "apis")
  /\ \E ok \in BOOLEAN, candidates \in InOrder(Candidates(c)) :
       LET best == PickBest(candidates, call[c].request) IN
       /\ Try(c, ok)
       /\ IF ~ok THEN To(c, "failed")
          ELSE IF \E r \in Candidates(c) : IsBad(r) THEN To(c, "refused")
          ELSE IF best = NoRule THEN To(c, "unmatched")
          ELSE call' = [call EXCEPT ![c].rule = best, ![c].at = "delay",
                                    ![c].list = Candidates(c)]
  /\ UNCHANGED <<setup, apis, bag, ttl, hits>>

FirstUseSubstitute == "substitute"
\* Serve extracts before it substitutes.
FirstUse == "extract"
AfterUse(step) ==
  IF step = FirstUse THEN IF step = "extract" THEN "substitute" ELSE "extract" ELSE "reply"

\* The delay is over, or the client has left meanwhile.
Delay(c) ==
  /\ At(c, "delay")
  /\ To(c, IF call[c].gone /\ call[c].rule.delay THEN "failed" ELSE FirstUse)
  /\ UNCHANGED <<setup, apis, bag, ttl, hits, faults>>

(***************************************************************************)
(* The variable bag.                                                       *)
(***************************************************************************)
VarKeyOfSlug(session) == CHOOSE s \in Sessions : TRUE
\* mock:vars:{slug}:{session}
VarKey(session) == session

TtlWithoutExpire(left, expires) == IF left = 0 THEN Forever ELSE left
\* HSET makes a hash that never expires; EXPIRE gives it another window.
TtlAfterSet(left, expires) ==
  IF expires THEN Window ELSE IF left = 0 THEN Forever ELSE left

\* VarBag.Set, for one extraction: HSET and EXPIRE in a pipeline, of which the
\* second may fail alone.
Set(c, name, i, stored, expires) ==
  LET k == VarKey(call[c].session) IN
  /\ bag' = IF stored THEN [bag EXCEPT ![k][name] = [by |-> c, nth |-> i]] ELSE bag
  /\ ttl' = IF stored THEN [ttl EXCEPT ![k] = TtlAfterSet(@, expires)] ELSE ttl

\* Extractor.Apply, one instruction: a path that finds nothing is skipped, a bad
\* instruction or a failed Set ends the extraction, and the call goes on.
Extract(c) ==
  LET todo == call[c].rule.extracts
      i == call[c].next
  IN
  /\ At(c, "extract")
  /\ IF i > Len(todo) \/ todo[i].finds = "bad"
     THEN To(c, AfterUse("extract")) /\ UNCHANGED <<bag, ttl, faults>>
     ELSE IF todo[i].finds = "nothing"
     THEN call' = [call EXCEPT ![c].next = i + 1] /\ UNCHANGED <<bag, ttl, faults>>
     ELSE \E stored, expires \in BOOLEAN :
            /\ expires => stored
            /\ Try(c, expires)
            /\ ~call[c].gone \/ ~stored
            /\ Set(c, todo[i].as, i, stored, expires)
            /\ call' = [call EXCEPT
                 ![c].next = i + 1,
                 ![c].at = IF expires THEN @ ELSE AfterUse("extract"),
                 ![c].wrote = IF stored THEN @ \union {todo[i].as} ELSE @,
                 ![c].over[todo[i].as] =
                   IF stored THEN bag[VarKey(call[c].session)][todo[i].as] ELSE @]
  /\ UNCHANGED <<setup, apis, hits>>

\* VarBag.Substitute: without variables in the body the bag is not looked at; a
\* refresh of the expiry that fails is ignored; an unknown name is left as it is.
Substitute(c) ==
  LET k == VarKey(call[c].session) IN
  /\ At(c, "substitute")
  /\ IF call[c].rule.shows = {}
     THEN To(c, AfterUse("substitute")) /\ UNCHANGED <<ttl, faults>>
     ELSE \E read, refreshed \in BOOLEAN :
            /\ refreshed => read
            /\ Try(c, refreshed)
            /\ ~call[c].gone \/ ~read
            /\ ttl' = IF refreshed /\ bag[k] # Empty THEN [ttl EXCEPT ![k] = Window] ELSE ttl
            /\ call' = [call EXCEPT
                 ![c].at = IF read THEN AfterUse("substitute") ELSE "failed",
                 ![c].shown = IF read THEN [n \in Names |->
                    IF n \in call[c].rule.shows THEN bag[k][n] ELSE NoValue] ELSE @]
  /\ UNCHANGED <<setup, apis, bag, hits>>

(***************************************************************************)
(* The response, then the hit, whose error is ignored: it fails, too, if   *)
(* the rule has gone with its api.                                         *)
(***************************************************************************)
Reply(c) ==
  /\ At(c, "reply")
  /\ To(c, "record")
  /\ UNCHANGED <<setup, apis, bag, ttl, hits, faults>>

Record(c) ==
  /\ At(c, "record")
  /\ \E ok \in BOOLEAN :
       /\ Try(c, ok)
       /\ hits' = IF ok /\ call[c].rule.api \in apis THEN hits \union {c} ELSE hits
  /\ To(c, "done")
  /\ UNCHANGED <<setup, apis, bag, ttl>>

(***************************************************************************)
(* The surroundings.                                                       *)
(***************************************************************************)
Ended == {"new", "failed", "refused", "unmatched", "done"}

Disconnect(c) ==
  /\ call[c].at \notin Ended /\ ~call[c].gone
  /\ faults < MaxFaults /\ faults' = faults + 1
  /\ call' = [call EXCEPT ![c].gone = TRUE]
  /\ UNCHANGED <<setup, apis, bag, ttl, hits>>

\* An api is deleted; its rules and their hits go with it.
DeleteApi(a) ==
  /\ a \in apis
  /\ apis' = apis \ {a}
  /\ hits' = {c \in hits : call[c].rule.api # a}
  /\ UNCHANGED <<setup, call, bag, ttl, faults>>

\* A tick is minutes, the time between the extraction and the substitution of a
\* call is not.
Tick ==
  /\ \A c \in Calls : call[c].at \notin {"extract", "substitute"}
  /\ \E s \in Sessions : ttl[s] \in 1..Window
  /\ ttl' = [s \in Sessions |-> IF ttl[s] \in 1..Window THEN ttl[s] - 1 ELSE ttl[s]]
  /\ bag' = [s \in Sessions |-> IF ttl'[s] = 0 THEN Empty ELSE bag[s]]
  /\ UNCHANGED <<setup, apis, call, hits, faults>>

Next ==
  \/ \E c \in Calls :
       \/ LoadRules(c) \/ Match(c) \/ Delay(c) \/ Extract(c) \/ Substitute(c)
       \/ Reply(c) \/ Record(c) \/ Disconnect(c)
  \/ \E a \in apis : DeleteApi(a)
  \/ Tick

Spec == Init /\ [][Next]_vars

(***************************************************************************)
(* Properties.                                                             *)
(***************************************************************************)
Chosen(c) == call[c].rule # NoRule

TypeOK ==
  /\ \A c \in Calls :
       /\ call[c].at \in {"apis", "delay", "extract", "substitute", "reply", "record"} \union Ended
       /\ call[c].session \in Sessions
       /\ call[c].rule \in setup.rules \union {NoRule}
       /\ call[c].shown \in [Names -> Extracted \union {NoValue}]
  /\ bag \in [Sessions -> [Names -> Extracted \union {NoValue}]]
  /\ ttl \in [Sessions -> 0..Forever]
  \* a bag that will never expire is the mark of an EXPIRE that failed
  /\ \A s \in Sessions : (ttl[s] = 0) = (bag[s] = Empty) /\ (ttl[s] = Forever => faults > 0)
  /\ \A c \in hits : At(c, "done") /\ call[c].rule.api \in apis

IsBest(rule, all, request) ==
  LET score(r) == ScoreRule(r, request)
      highest == {r \in all : \A q \in all : score(q) <= score(r)}
      first == {r \in highest : \A q \in highest : r.priority <= q.priority}
  IN /\ score(rule) > 0
     /\ rule \in {r \in first : \A q \in first : r.id <= q.id}

\* Matcher.PickBest (matcher.go:311): of the rules read for the api of the
\* request, the one that answers has the highest score, among those the lowest
\* priority value, among those the smallest id; none that matches is passed over.
BestRuleServed ==
  \A c \in Calls : Chosen(c) => IsBest(call[c].rule, call[c].list, call[c].request)

\* Serve extracts before it substitutes (engine.go:191): a response that shows a
\* variable its own extraction has stored shows that value or one stored after
\* it, never the one it has replaced and never the bare name.
OwnExtractShown ==
  \A c \in Calls : call[c].at \in {"record", "done"} =>
    \A n \in call[c].wrote \intersect call[c].rule.shows :
      call[c].shown[n] \notin {NoValue, call[c].over[n]}

\* varbag.go:60: whatever calls interleave, a response shows only values that
\* were extracted for a call of its own session.
SessionsApart ==
  \A c \in Calls, n \in Names :
    call[c].shown[n] # NoValue => call[call[c].shown[n].by].session = call[c].session
=============================================================================
