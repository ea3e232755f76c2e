---------------------------- MODULE WebSessions ----------------------------
(***************************************************************************)
(* Sessions of one user in one browser: the silent refresh of the web      *)
(* client (frontend/src/api/client.ts), the cookies and their checks       *)
(* (backend/internal/middleware/cookie.go, csrf.go, auth.go), and the      *)
(* refresh tokens behind them (service/auth_service.go, api/auth.go,       *)
(* repository/refresh_token_repo.go).                                      *)
(*                                                                         *)
(* Tabs share the cookies but not the interceptor's state.  Each r in      *)
(* Requests is one call of the api client, made at most once; it may be    *)
(* sent again by the interceptor.                                          *)
(***************************************************************************)
EXTENDS Integers, Sequences

CONSTANTS
  Tabs,
  Requests,
  TabOf,   \* the tab a request is made in
  Kinds,   \* what it may ask for
  MaxFaults  \* bound: queries that fail, replies that get lost, tabs loaded anew

AllKinds == {"get", "post", "login", "register", "logout"}

ASSUME SessionAssumption ==
  /\ TabOf \in [Requests -> Tabs]
  /\ Kinds \in [Requests -> SUBSET AllKinds]
  /\ MaxFaults \in Nat
  /\ {"live", "revoked"} \cap Tabs = {}

NoToken == 0

VARIABLES
  account,     \* the user's row exists
  tokens,      \* the rows of refresh_tokens: live, revoked by Logout, or
               \* consumed by the Refresh of a tab
  jar,         \* the cookies: the refresh token, and what has expired with age
  call,        \* each request: where it is, what it asks for, its _retry, and the
               \* POST /auth/refresh it has caused: step, old and new token
  refreshing,  \* isRefreshing of each tab
  lost,        \* a reply that carried cookies never arrived
  faults       \* how many there have been

vars == <<account, tokens, jar, call, refreshing, lost, faults>>

\* Ages of the cookies, all set together: 0 all there, 1 without sent_access
\* (15 minutes), 2 without sent_csrf (24 hours), 3 without sent_refresh (7 days).
Ages == 0..3
EmptyJar == [age |-> 3, token |-> NoToken]
FreshJar(token) == [age |-> 0, token |-> token]

Idle(place) ==
  [at |-> place, kind |-> "get", retried |-> FALSE,
   step |-> "none", old |-> NoToken, new |-> NoToken]

\* A browser that has a session, or one whose user has yet to register.
Init ==
  /\ account \in BOOLEAN
  /\ tokens = IF account THEN <<"live">> ELSE <<>>
  /\ jar = IF account THEN FreshJar(1) ELSE EmptyJar
  /\ call = [r \in Requests |-> Idle("new")]
  /\ refreshing = [t \in Tabs |-> FALSE]
  /\ lost = FALSE
  /\ faults = 0

CanFail == faults < MaxFaults
\* A query succeeds, or fails and counts as a fault.
Query(ok) == (ok \/ CanFail) /\ faults' = IF ok THEN faults ELSE faults + 1
IsLive(token) == token # NoToken /\ tokens[token] = "live"
At(r, place) == call[r].at = place
\* A request that has been answered leaves nothing behind.
Moved(c, place) == IF place = "answered" THEN Idle("answered") ELSE [c EXCEPT !.at = place]

(***************************************************************************)
(* The server, on a request of the api client: what becomes of it.         *)
(***************************************************************************)
\* The protected group: CSRFRequired, which only looks at requests that change
\* state, before CookieAuthRequired.  Only a 401 is not the end of a request.
Verdict(k) ==
  IF k # "get" /\ jar.age >= 2 THEN "answered"
  ELSE IF jar.age >= 1 THEN "refused" ELSE "passed"

Reply(r, c, place) == call' = [call EXCEPT ![r] = Moved(c, place)]

ServeCall(r, c) ==
  /\ c.kind \in {"get", "post"}
  /\ Reply(r, c, IF Verdict(c.kind) = "refused" THEN "refused" ELSE "answered")
  /\ UNCHANGED <<account, tokens, faults>>

\* Logout revokes every live token of the user; only its reply clears the cookies.
ServeLogout(r, c) ==
  /\ c.kind = "logout"
  /\ \E ok \in BOOLEAN : Query(ok) /\
       IF Verdict("logout") = "passed" /\ ok
       THEN /\ tokens' = [k \in DOMAIN tokens |->
                            IF tokens[k] = "live" THEN "revoked" ELSE tokens[k]]
            /\ Reply(r, c, "bye")
       ELSE /\ Reply(r, c, IF Verdict("logout") = "refused" THEN "refused" ELSE "answered")
            /\ UNCHANGED tokens
  /\ UNCHANGED account

\* Login: 401 for wrong credentials or no such user.  Register: an error if the
\* email is taken or malformed.  Either may fail to store the token, Register
\* after it has created the user.
RefuseEntry(r, c) ==
  /\ c.kind \in {"login", "register"}
  /\ Reply(r, c, IF c.kind = "login" THEN "refused" ELSE "answered")
  /\ UNCHANGED <<account, tokens, faults>>

ServeEntry(r, c) ==
  /\ c.kind = IF account THEN "login" ELSE "register"
  /\ account' = TRUE
  /\ \E ok \in BOOLEAN : Query(ok) /\
       IF ok
       THEN /\ tokens' = Append(tokens, "live")
            /\ Reply(r, [c EXCEPT !.new = Len(tokens')], "welcome")
       ELSE Reply(r, c, "answered") /\ UNCHANGED tokens

Serve(r, c) == ServeCall(r, c) \/ ServeLogout(r, c) \/ RefuseEntry(r, c) \/ ServeEntry(r, c)

(***************************************************************************)
(* The api client.                                                         *)
(***************************************************************************)
\* A page or a store calls the api.
Send(r) ==
  /\ At(r, "new")
  /\ \E k \in Kinds[r] : Serve(r, [call[r] EXCEPT !.kind = k])
  /\ UNCHANGED <<jar, refreshing, lost>>

\* The interceptor calls api(originalRequest).
Resend(r) ==
  /\ At(r, "resend")
  /\ Serve(r, call[r])
  /\ UNCHANGED <<jar, refreshing, lost>>

ClearedAtWrongPath == [jar EXCEPT !.age = 3]
\* ClearAuthCookies names the path each cookie was set with.
Cleared == EmptyJar

\* The reply of Login or Register sets the cookies, that of Logout clears them.
Arrive(r) ==
  /\ At(r, "welcome") \/ At(r, "bye")
  /\ jar' = IF At(r, "welcome") THEN FreshJar(call[r].new) ELSE Cleared
  /\ Reply(r, call[r], "answered")
  /\ UNCHANGED <<account, tokens, refreshing, lost, faults>>

\* A second 401 is passed on.
GiveUp(r) ==
  /\ At(r, "refused") /\ call[r].retried
  /\ Reply(r, call[r], "answered")
  /\ UNCHANGED <<account, tokens, jar, refreshing, lost, faults>>

MustQueueNever(t) == FALSE
MustQueue(t) == refreshing[t]

\* failedQueue.push.
Queue(r) ==
  /\ At(r, "refused") /\ ~call[r].retried
  /\ MustQueue(TabOf[r])
  /\ Reply(r, call[r], "queued")
  /\ UNCHANGED <<account, tokens, jar, refreshing, lost, faults>>

\* POST /auth/refresh, with the refresh token the browser holds now, if any.
StartRefresh(r) ==
  /\ At(r, "refused") /\ ~call[r].retried
  /\ ~MustQueue(TabOf[r])
  /\ call' = [call EXCEPT ![r] =
       [at |-> "refreshing", kind |-> @.kind, retried |-> TRUE,
        step |-> IF jar.token = NoToken THEN "refused" ELSE "lookup",
        old |-> jar.token, new |-> NoToken]]
  /\ refreshing' = [refreshing EXCEPT ![TabOf[r]] = TRUE]
  /\ UNCHANGED <<account, tokens, jar, lost, faults>>

(***************************************************************************)
(* The server, on a refresh: one query at a time.                          *)
(***************************************************************************)
RefreshStepsConsumeFirst == <<"lookup", "consume", "generate", "reply">>
\* AuthService.Refresh consumes the old token last.
RefreshSteps == <<"lookup", "generate", "consume", "reply">>

After(step) ==
  LET i == CHOOSE j \in DOMAIN RefreshSteps : RefreshSteps[j] = step
  IN  RefreshSteps[i + 1]

OnRefresh(r, step) == At(r, "refreshing") /\ call[r].step = step
StepTo(r, step) == call' = [call EXCEPT ![r].step = step]

\* LookupUserID finds the row only while it is neither revoked nor expired;
\* FindByID reads the user, whom nothing changes.
Lookup(r) ==
  /\ OnRefresh(r, "lookup")
  /\ \E ok \in BOOLEAN : Query(ok) /\
       \/ StepTo(r, IF ok /\ IsLive(call[r].old) THEN After("lookup") ELSE "refused")
       \/ ~ok /\ IsLive(call[r].old) /\ StepTo(r, "error")
  /\ UNCHANGED <<account, tokens, jar, refreshing, lost>>

GenerateToken(r) ==
  /\ OnRefresh(r, "generate")
  /\ \E ok \in BOOLEAN : Query(ok) /\
       IF ok
       THEN /\ tokens' = Append(tokens, "live")
            /\ call' = [call EXCEPT ![r].step = After("generate"), ![r].new = Len(tokens')]
       ELSE StepTo(r, "error") /\ UNCHANGED tokens
  /\ UNCHANGED <<account, jar, refreshing, lost>>

\* UPDATE ... WHERE revoked_at IS NULL; Refresh ignores its outcome.
Consume(r) ==
  /\ OnRefresh(r, "consume")
  /\ \E ok \in BOOLEAN : Query(ok) /\
       tokens' = IF ok /\ IsLive(call[r].old)
                 THEN [tokens EXCEPT ![call[r].old] = TabOf[r]] ELSE tokens
  /\ StepTo(r, After("consume"))
  /\ UNCHANGED <<account, jar, refreshing, lost>>

(***************************************************************************)
(* The api client, on the reply to a refresh.                              *)
(***************************************************************************)
Settle(r, rest, place) ==
  [q \in Requests |-> IF q = r \/ q \in rest THEN Moved(call[q], place) ELSE call[q]]

NobodyQueued(t) == {}
\* failedQueue, which processQueue empties.
FailedQueue(t) == {q \in Requests : TabOf[q] = t /\ At(q, "queued")}

ResetOnFailureOnly(t, ok) == IF ok THEN refreshing ELSE [refreshing EXCEPT ![t] = FALSE]
\* The finally block.
Reset(t, ok) == [refreshing EXCEPT ![t] = FALSE]

Refreshed(r) ==
  /\ OnRefresh(r, "reply")
  /\ jar' = FreshJar(call[r].new)
  /\ call' = Settle(r, FailedQueue(TabOf[r]), "resend")
  /\ refreshing' = Reset(TabOf[r], TRUE)
  /\ UNCHANGED <<account, tokens, lost, faults>>

CarriesCookies(r) == OnRefresh(r, "reply") \/ At(r, "welcome") \/ At(r, "bye")

\* A tab leaves its page: its requests are aborted, which ends the context of
\* their handlers, and the interceptor's state is gone.
Unfinished(t) == {r \in Requests : TabOf[r] = t /\ ~At(r, "new") /\ ~At(r, "answered")}
Unload(t) ==
  /\ call' = [r \in Requests |-> IF r \in Unfinished(t) THEN Idle("answered") ELSE call[r]]
  /\ refreshing' = [refreshing EXCEPT ![t] = FALSE]
  /\ lost' = (lost \/ \E r \in Unfinished(t) : CarriesCookies(r))

\* On the login page the tab stays there; from any other it is sent there, which
\* loads a page.
RefreshFailed(r) ==
  /\ OnRefresh(r, "refused") \/ OnRefresh(r, "error")
  /\ \/ /\ call' = Settle(r, FailedQueue(TabOf[r]), "answered")
        /\ refreshing' = Reset(TabOf[r], FALSE)
        /\ UNCHANGED lost
     \/ Unload(TabOf[r])
  /\ UNCHANGED <<account, tokens, jar, faults>>

(***************************************************************************)
(* The surroundings.                                                       *)
(***************************************************************************)
\* A reply gets lost on the way.
LoseReply(r) ==
  /\ CanFail /\ faults' = faults + 1
  /\ CarriesCookies(r)
  /\ IF At(r, "refreshing") THEN StepTo(r, "error") ELSE Reply(r, call[r], "answered")
  /\ lost' = TRUE
  /\ UNCHANGED <<account, tokens, jar, refreshing>>

\* The user loads a tab anew, leaves it or closes it.
Reload(t) ==
  /\ Unfinished(t) # {}
  /\ CanFail /\ faults' = faults + 1
  /\ Unload(t)
  /\ UNCHANGED <<account, tokens, jar>>

\* Time passes for the cookies; the row of the token expires with its cookie.
Age ==
  /\ jar.age < 3
  /\ jar' = IF jar.age < 2 THEN [jar EXCEPT !.age = @ + 1] ELSE EmptyJar
  /\ UNCHANGED <<account, tokens, call, refreshing, lost, faults>>

Done == (\A r \in Requests : At(r, "answered")) /\ UNCHANGED vars

ClientStep(r) ==
  \/ Resend(r) \/ Arrive(r) \/ GiveUp(r) \/ Queue(r) \/ StartRefresh(r)
  \/ Refreshed(r) \/ RefreshFailed(r)
ServerStep(r) == Lookup(r) \/ GenerateToken(r) \/ Consume(r)

Next ==
  \/ \E r \in Requests : Send(r) \/ ClientStep(r) \/ ServerStep(r) \/ LoseReply(r)
  \/ \E t \in Tabs : Reload(t)
  \/ Age
  \/ Done

Spec == Init /\ [][Next]_vars
\* Replies arrive and promises are settled; nobody has to send, reload or wait.
FairSpec == Spec /\ \A r \in Requests : WF_vars(ClientStep(r) \/ ServerStep(r))

(***************************************************************************)
(* Properties.                                                             *)
(***************************************************************************)
Places == {"new", "refused", "queued", "refreshing", "resend", "welcome", "bye", "answered"}
Steps == {"none", "refused", "error"} \union {RefreshSteps[i] : i \in DOMAIN RefreshSteps}
Ids == 0..Len(tokens)

TypeOK ==
  /\ account \in BOOLEAN
  /\ tokens \in Seq({"live", "revoked"} \union Tabs)
  /\ jar \in [age : Ages, token : Ids]
  /\ (jar.age = 3) = (jar.token = NoToken)
  /\ call \in [Requests -> [at : Places, kind : AllKinds, retried : BOOLEAN,
                            step : Steps, old : Ids, new : Ids]]
  /\ refreshing \in [Tabs -> BOOLEAN]
  /\ lost \in BOOLEAN /\ faults \in 0..MaxFaults

Consumed(token) == token # NoToken /\ tokens[token] \in Tabs

\* Refresh creates before it revokes "to avoid permanent session loss"
\* (auth_service.go:150): whatever query fails and however refreshes of two tabs
\* interleave, the browser holds a token that a refresh has consumed only while
\* the reply with the next one is on its way, or if that reply was lost.
SessionKept ==
  Consumed(jar.token) =>
    lost \/ \E r \in Requests : OnRefresh(r, "reply") /\ ~Consumed(call[r].new)

\* client.ts:47: a tab never refreshes twice with one token, so a refresh that
\* is refused because its token has been consumed, which sends the user to the
\* login page, was overtaken by another tab or follows a lost reply.
RefusedForAReason ==
  \A r \in Requests :
    OnRefresh(r, "refused") /\ Consumed(call[r].old) =>
      lost \/ tokens[call[r].old] # TabOf[r]

\* client.ts:33: a request waits in the queue only while its tab has a refresh
\* under way that will settle it.
NoStranded ==
  \A q \in Requests : At(q, "queued") =>
    \E r \in Requests : TabOf[r] = TabOf[q] /\ At(r, "refreshing")

\* client.ts:41: every request is answered in the end, resent or rejected,
\* whatever 401s and refreshes it meets.
EveryRequestAnswered ==
  <>[](\A r \in Requests : At(r, "new") \/ At(r, "answered"))
=============================================================================
