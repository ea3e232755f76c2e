------------------------- MODULE WebSessionsProofs --------------------------
(***************************************************************************)
(* What holds of the browser's session for any number of tabs, requests    *)
(* and faults.                                                             *)
(***************************************************************************)
EXTENDS WebSessions, TLAPS

(***************************************************************************)
(* The inductive invariant.                                                *)
(***************************************************************************)

\* A tab's flag says whether one of its requests, and only one, is refreshing;
\* the others may be queued meanwhile.
Busy ==
  /\ \A r \in Requests : At(r, "queued") \/ At(r, "refreshing") => refreshing[TabOf[r]]
  /\ \A t \in Tabs : refreshing[t] => \E r \in Requests : TabOf[r] = t /\ At(r, "refreshing")
  /\ \A q, r \in Requests :
       At(q, "refreshing") /\ At(r, "refreshing") /\ TabOf[q] = TabOf[r] => q = r

\* The reply that carries call[r].new has yet to be made or to arrive.
OnItsWay(r) == At(r, "welcome") \/ OnRefresh(r, "consume") \/ OnRefresh(r, "reply")

\* A token on its way to the browser is known to nobody else, so it cannot have
\* been consumed.
Fresh ==
  \A r \in Requests : OnItsWay(r) =>
    /\ call[r].new \in 1 .. Len(tokens)
    /\ tokens[call[r].new] \notin Tabs
    /\ jar.token # call[r].new
    /\ \A q \in Requests : At(q, "refreshing") => call[q].old # call[r].new
    /\ \A q \in Requests : OnItsWay(q) /\ q # r => call[q].new # call[r].new

\* The token a refresh has in hand was not consumed by its own tab, before it
\* does so itself.
Own ==
  \A r \in Requests : At(r, "refreshing") /\ call[r].step # "reply" /\ Consumed(call[r].old) =>
    lost \/ tokens[call[r].old] # TabOf[r]

\* The token the browser holds has been consumed only by a refresh whose reply is
\* on its way, unless a reply was lost.
Kept ==
  Consumed(jar.token) =>
    lost \/ \E r \in Requests : OnRefresh(r, "reply") /\ TabOf[r] = tokens[jar.token]

IInv == TypeOK /\ Busy /\ Fresh /\ Own /\ Kept

(***************************************************************************)
(* Names.                                                                  *)
(***************************************************************************)
Calls(n) == [at : Places, kind : AllKinds, retried : BOOLEAN,
             step : Steps, old : 0 .. n, new : 0 .. n]

\* The queries of a refresh, in their order.
LEMMA OrderOfSteps ==
  /\ After("lookup") = "generate" /\ After("generate") = "consume"
  /\ After("consume") = "reply"
  /\ Steps = {"none", "refused", "error", "lookup", "generate", "consume", "reply"}
<1>1. /\ DOMAIN RefreshSteps = 1 .. 4
      /\ RefreshSteps[1] = "lookup" /\ RefreshSteps[2] = "generate"
      /\ RefreshSteps[3] = "consume" /\ RefreshSteps[4] = "reply"
  BY DEF RefreshSteps
<1>2. \A j \in 1 .. 4 : j = 1 \/ j = 2 \/ j = 3 \/ j = 4
  OBVIOUS
<1>3. (CHOOSE j \in DOMAIN RefreshSteps : RefreshSteps[j] = "lookup") = 1
  BY <1>1, <1>2
<1>4. (CHOOSE j \in DOMAIN RefreshSteps : RefreshSteps[j] = "generate") = 2
  BY <1>1, <1>2
<1>5. (CHOOSE j \in DOMAIN RefreshSteps : RefreshSteps[j] = "consume") = 3
  BY <1>1, <1>2
<1>6. {RefreshSteps[i] : i \in DOMAIN RefreshSteps} = {"lookup", "generate", "consume", "reply"}
  BY <1>1, <1>2
<1>7. QED
  BY <1>1, <1>3, <1>4, <1>5, <1>6 DEF After, Steps

\* The types of the calls and the tokens.
LEMMA Typed ==
  ASSUME TypeOK
  PROVE  /\ Len(tokens) \in Nat /\ call \in [Requests -> Calls(Len(tokens))]
         /\ jar.token \in 0 .. Len(tokens) /\ jar.age \in 0 .. 3
         /\ \A k \in 1 .. Len(tokens) : tokens[k] \in {"live", "revoked"} \cup Tabs
         /\ \A r \in Requests : TabOf[r] \in Tabs /\ call[r] \in Calls(Len(tokens))
<1>1. Len(tokens) \in Nat /\ call \in [Requests -> Calls(Len(tokens))]
  BY DEF TypeOK, Calls, Ids
<1>2. jar.token \in 0 .. Len(tokens) /\ jar.age \in 0 .. 3
  BY DEF TypeOK, Ids, Ages
<1>3. \A k \in 1 .. Len(tokens) : tokens[k] \in {"live", "revoked"} \cup Tabs
  BY DEF TypeOK
<1>4. QED
  BY <1>1, <1>2, <1>3, SessionAssumption

\* What a request may become keeps the type.
LEMMA CallTypes ==
  ASSUME NEW n \in Nat, NEW c \in Calls(n)
  PROVE  /\ \A place \in Places : /\ Idle(place) \in Calls(n) /\ Idle(place).at = place
                                  /\ Moved(c, place) \in Calls(n) /\ Moved(c, place).at = place
                                  /\ place # "answered" =>
                                       /\ Moved(c, place).new = c.new
                                       /\ Moved(c, place).old = c.old
                                       /\ Moved(c, place).step = c.step
         /\ \A k \in AllKinds : [c EXCEPT !.kind = k] \in Calls(n)
         /\ \A step \in Steps : [c EXCEPT !.step = step] \in Calls(n)
         /\ \A m \in Nat : n <= m => c \in Calls(m)
         /\ \A id \in 0 .. n : [c EXCEPT !.new = id] \in Calls(n) /\ [c EXCEPT !.new = id].new = id
<1>1. \A place \in Places : Idle(place) \in Calls(n) /\ Idle(place).at = place
  BY OrderOfSteps DEF Idle, Calls, AllKinds, NoToken
<1>2. ASSUME NEW place \in Places
      PROVE  /\ Moved(c, place) \in Calls(n) /\ Moved(c, place).at = place
             /\ place # "answered" => /\ Moved(c, place).new = c.new
                                      /\ Moved(c, place).old = c.old
                                      /\ Moved(c, place).step = c.step
  <2>1. CASE place = "answered"
    BY <1>1, <2>1 DEF Moved
  <2>2. CASE place # "answered"
    BY <2>2 DEF Moved, Calls
  <2>3. QED
    BY <2>1, <2>2
<1>3. \A k \in AllKinds : [c EXCEPT !.kind = k] \in Calls(n)
  BY DEF Calls
<1>4. \A step \in Steps : [c EXCEPT !.step = step] \in Calls(n)
  BY DEF Calls
<1>5. \A m \in Nat : n <= m => c \in Calls(m)
  BY DEF Calls
<1>6. \A id \in 0 .. n : [c EXCEPT !.new = id] \in Calls(n) /\ [c EXCEPT !.new = id].new = id
  BY DEF Calls
<1>7. QED
  BY <1>1, <1>2, <1>3, <1>4, <1>5, <1>6

(***************************************************************************)
(* Steps, by what they do to the calls, the tokens and the cookies.        *)
(***************************************************************************)

\* No token is consumed: rows are added, or revoked by Logout.
Grown ==
  /\ Len(tokens) <= Len(tokens')
  /\ \A k \in 1 .. Len(tokens) : /\ tokens'[k] \in Tabs <=> tokens[k] \in Tabs
                                 /\ tokens[k] \in Tabs => tokens'[k] = tokens[k]

\* A step of a request that is not refreshing, and does not begin to.
LEMMA PlainStep ==
  ASSUME IInv, TypeOK', NEW r \in Requests, ~At(r, "refreshing"), ~At(r, "queued"),
         NEW d, call' = [call EXCEPT ![r] = d],
         d.at \in {"answered", "refused", "bye", "welcome", "queued"},
         d.at = "queued" => refreshing[TabOf[r]],
         d.at = "welcome" => /\ d.new = Len(tokens) + 1 /\ Len(tokens') = Len(tokens) + 1
                             /\ tokens'[d.new] \notin Tabs,
         Grown, refreshing' = refreshing, lost => lost',
         \/ jar'.token \in {jar.token, NoToken}
         \/ At(r, "welcome") /\ d.at = "answered" /\ jar'.token = call[r].new
  PROVE  IInv'
<1>1. /\ Len(tokens) \in Nat /\ jar.token \in 0 .. Len(tokens)
      /\ \A q \in Requests : /\ call[q].old \in 0 .. Len(tokens)
                              /\ call[q].new \in 0 .. Len(tokens)
      /\ Len(tokens') \in Nat
  BY Typed DEF IInv, Calls, TypeOK
<1>2. call'[r] = d /\ \A q \in Requests : q # r => call'[q] = call[q]
  BY Typed DEF IInv
<1>3. /\ \A q \in Requests : At(q, "refreshing")' <=> At(q, "refreshing")
      /\ \A q \in Requests : q # r => call'[q] = call[q]
      /\ \A q \in Requests : OnItsWay(q)' => (q # r /\ OnItsWay(q)) \/ (q = r /\ d.at = "welcome")
  BY <1>2 DEF At, OnItsWay, OnRefresh
<1>4. Busy'
  <2>1. \A q \in Requests : At(q, "queued")' => At(q, "queued") \/ (q = r /\ d.at = "queued")
    BY <1>2 DEF At
  <2>2. QED
    BY <1>3, <2>1 DEF IInv, Busy
<1>5. Fresh'
  <2> SUFFICES ASSUME NEW q \in Requests, OnItsWay(q)'
               PROVE  /\ call'[q].new \in 1 .. Len(tokens')
                      /\ tokens'[call'[q].new] \notin Tabs
                      /\ jar'.token # call'[q].new
                      /\ \A p \in Requests : At(p, "refreshing")' => call'[p].old # call'[q].new
                      /\ \A p \in Requests : OnItsWay(p)' /\ p # q => call'[p].new # call'[q].new
    BY DEF Fresh
  <2>1. CASE q = r
    <3>1. d.at = "welcome" /\ call'[q].new = Len(tokens) + 1
      BY <1>2, <1>3, <2>1
    <3>2. \A p \in Requests : p # q => call'[p] = call[p]
      BY <1>2, <2>1
    <3>3. \A p \in Requests : At(p, "refreshing")' => p # q
      BY <1>3, <2>1
    <3>4. jar'.token \in 0 .. Len(tokens)
      BY <1>1, <3>1 DEF NoToken
    <3>5. QED
      BY <1>1, <1>2, <2>1, <3>1, <3>2, <3>3, <3>4
  <2>2. CASE q # r
    <3>1. OnItsWay(q) /\ call'[q] = call[q]
      BY <1>3, <2>2
    <3>2. /\ call[q].new \in 1 .. Len(tokens)
          /\ tokens[call[q].new] \notin Tabs
          /\ jar.token # call[q].new
          /\ \A p \in Requests : At(p, "refreshing") => call[p].old # call[q].new
          /\ \A p \in Requests : OnItsWay(p) /\ p # q => call[p].new # call[q].new
      BY <3>1 DEF IInv, Fresh
    <3>3. jar'.token # call[q].new
      BY <2>2, <3>2 DEF OnItsWay, NoToken
    <3>4. \A p \in Requests : At(p, "refreshing")' => call'[p].old # call[q].new
      BY <1>3, <3>2
    <3>5. \A p \in Requests : OnItsWay(p)' /\ p # q => call'[p].new # call[q].new
      BY <1>1, <1>2, <1>3, <3>2
    <3>6. call[q].new \in 1 .. Len(tokens') /\ tokens'[call[q].new] \notin Tabs
      BY <1>1, <3>2 DEF Grown
    <3>7. QED
      BY <3>1, <3>3, <3>4, <3>5, <3>6
  <2>3. QED
    BY <2>1, <2>2
<1>6. Own'
  <2> SUFFICES ASSUME NEW q \in Requests, At(q, "refreshing")', call'[q].step # "reply",
                      Consumed(call[q].old)'
               PROVE  lost' \/ tokens'[call'[q].old] # TabOf[q]
    BY <1>3 DEF Own, Consumed
  <2>1. At(q, "refreshing") /\ call'[q] = call[q]
    BY <1>3
  <2>2. Consumed(call[q].old) /\ tokens'[call[q].old] = tokens[call[q].old]
    BY <1>1, <2>1 DEF Consumed, Grown, NoToken
  <2>3. QED
    BY <2>1, <2>2 DEF IInv, Own
<1>7. Kept'
  <2> SUFFICES ASSUME Consumed(jar.token)', ~lost'
               PROVE  \E q \in Requests : OnRefresh(q, "reply")' /\ TabOf[q] = tokens'[jar'.token]
    BY DEF Kept
  <2>1. jar'.token # NoToken
    BY DEF Consumed
  <2>2. ~(At(r, "welcome") /\ jar'.token = call[r].new)
    BY <2>1 DEF Consumed, IInv, Fresh, OnItsWay, Grown
  <2>3. jar'.token = jar.token
    BY <2>1, <2>2
  <2>4. Consumed(jar.token) /\ tokens'[jar.token] = tokens[jar.token]
    BY <1>1, <2>3 DEF Consumed, Grown, NoToken
  <2>5. PICK q \in Requests : OnRefresh(q, "reply") /\ TabOf[q] = tokens[jar.token]
    BY <2>4 DEF IInv, Kept
  <2>6. OnRefresh(q, "reply")'
    BY <1>2, <2>5 DEF OnRefresh, At
  <2>7. QED
    BY <2>3, <2>4, <2>5, <2>6
<1>8. QED
  BY <1>4, <1>5, <1>6, <1>7 DEF IInv

\* A step of a refresh that stays under way and consumes nothing.
LEMMA RefreshStep ==
  ASSUME IInv, TypeOK', NEW r \in Requests, At(r, "refreshing"), NEW d,
         call' = [call EXCEPT ![r] = d], d.at = "refreshing", d.old = call[r].old,
         \/ d.step \in {"refused", "error", "generate"} /\ tokens' = tokens
         \/ /\ d.step = "consume" /\ d.new = Len(tokens) + 1
            /\ Len(tokens') = Len(tokens) + 1 /\ tokens'[d.new] \notin Tabs,
         Grown, refreshing' = refreshing, jar' = jar, lost => lost',
         OnRefresh(r, "reply") => lost'
  PROVE  IInv'
<1>1. /\ Len(tokens) \in Nat /\ jar.token \in 0 .. Len(tokens)
      /\ \A q \in Requests : /\ call[q].old \in 0 .. Len(tokens)
                              /\ call[q].new \in 0 .. Len(tokens)
      /\ Len(tokens') \in Nat
  BY Typed DEF IInv, Calls, TypeOK
<1>2. call'[r] = d /\ \A q \in Requests : q # r => call'[q] = call[q]
  BY Typed DEF IInv
<1>3. /\ \A q \in Requests, place \in Places : At(q, place)' <=> At(q, place)
      /\ \A q \in Requests : OnItsWay(q)' =>
            (q # r /\ OnItsWay(q)) \/ (q = r /\ d.step = "consume")
      /\ \A q \in Requests : call'[q].old = call[q].old
  BY <1>2 DEF At, OnItsWay, OnRefresh
<1>4. Busy'
  BY <1>3 DEF IInv, Busy, Places
<1>5. Fresh'
  <2> SUFFICES ASSUME NEW q \in Requests, OnItsWay(q)'
               PROVE  /\ call'[q].new \in 1 .. Len(tokens')
                      /\ tokens'[call'[q].new] \notin Tabs
                      /\ jar'.token # call'[q].new
                      /\ \A p \in Requests : At(p, "refreshing")' => call'[p].old # call'[q].new
                      /\ \A p \in Requests : OnItsWay(p)' /\ p # q => call'[p].new # call'[q].new
    BY DEF Fresh
  <2>1. CASE q = r
    <3>1. d.step = "consume" /\ call'[q].new = Len(tokens) + 1
      BY <1>2, <1>3, <2>1
    <3>2. \A p \in Requests : p # q => call'[p] = call[p]
      BY <1>2, <2>1
    <3>3. QED
      BY <1>1, <1>2, <1>3, <2>1, <3>1, <3>2
  <2>2. CASE q # r
    <3>1. OnItsWay(q) /\ call'[q] = call[q]
      BY <1>2, <1>3, <2>2
    <3>2. /\ call[q].new \in 1 .. Len(tokens)
          /\ tokens[call[q].new] \notin Tabs
          /\ jar.token # call[q].new
          /\ \A p \in Requests : At(p, "refreshing") => call[p].old # call[q].new
          /\ \A p \in Requests : OnItsWay(p) /\ p # q => call[p].new # call[q].new
      BY <3>1 DEF IInv, Fresh
    <3>3. \A p \in Requests : At(p, "refreshing")' => call'[p].old # call[q].new
      BY <1>3, <3>2 DEF Places
    <3>4. \A p \in Requests : OnItsWay(p)' /\ p # q => call'[p].new # call[q].new
      BY <1>1, <1>2, <1>3, <3>2
    <3>5. call[q].new \in 1 .. Len(tokens') /\ tokens'[call[q].new] \notin Tabs
      BY <1>1, <3>2 DEF Grown
    <3>6. QED
      BY <3>1, <3>2, <3>3, <3>4, <3>5
  <2>3. QED
    BY <2>1, <2>2
<1>6. Own'
  <2> SUFFICES ASSUME NEW q \in Requests, At(q, "refreshing")', call'[q].step # "reply",
                      Consumed(call[q].old)', ~lost'
               PROVE  tokens'[call'[q].old] # TabOf[q]
    BY <1>3 DEF Own, Consumed
  <2>1. At(q, "refreshing") /\ call'[q].old = call[q].old
    BY <1>3 DEF Places
  <2>2. call[q].step # "reply"
    BY <1>2, <2>1 DEF OnRefresh
  <2>3. Consumed(call[q].old) /\ tokens'[call[q].old] = tokens[call[q].old]
    BY <1>1, <2>1 DEF Consumed, Grown, NoToken
  <2>4. QED
    BY <2>1, <2>2, <2>3 DEF IInv, Own
<1>7. Kept'
  <2> SUFFICES ASSUME Consumed(jar.token)', ~lost'
               PROVE  \E q \in Requests : OnRefresh(q, "reply")' /\ TabOf[q] = tokens'[jar'.token]
    BY DEF Kept
  <2>1. Consumed(jar.token) /\ tokens'[jar.token] = tokens[jar.token]
    BY <1>1 DEF Consumed, Grown, NoToken
  <2>2. PICK q \in Requests : OnRefresh(q, "reply") /\ TabOf[q] = tokens[jar.token]
    BY <2>1 DEF IInv, Kept
  <2>3. q # r
    BY <2>2
  <2>4. OnRefresh(q, "reply")'
    BY <1>2, <2>2, <2>3 DEF OnRefresh, At
  <2>5. QED
    BY <2>1, <2>2, <2>4
<1>8. QED
  BY <1>4, <1>5, <1>6, <1>7 DEF IInv

\* The refresh of r consumes its old token.
LEMMA ConsumeStep ==
  ASSUME IInv, TypeOK', NEW r \in Requests, Consume(r)
  PROVE  IInv'
<1>1. /\ Len(tokens) \in Nat /\ jar.token \in 0 .. Len(tokens)
      /\ \A q \in Requests : /\ call[q].old \in 0 .. Len(tokens)
                              /\ call[q].new \in 0 .. Len(tokens)
                              /\ TabOf[q] \in Tabs
  BY Typed DEF IInv, Calls
<1>2. /\ call' = [call EXCEPT ![r].step = "reply"] /\ OnRefresh(r, "consume")
      /\ UNCHANGED <<jar, refreshing, lost>>
      /\ \/ tokens' = tokens
         \/ /\ IsLive(call[r].old)
            /\ tokens' = [tokens EXCEPT ![call[r].old] = TabOf[r]]
  BY OrderOfSteps DEF Consume, StepTo
<1>3. /\ call'[r].step = "reply" /\ \A q \in Requests : q # r => call'[q] = call[q]
      /\ \A q \in Requests : /\ call'[q].at = call[q].at /\ call'[q].old = call[q].old
                              /\ call'[q].new = call[q].new
  BY <1>2, Typed DEF IInv, Calls
<1>4. /\ \A q \in Requests, place \in Places : At(q, place)' <=> At(q, place)
      /\ \A q \in Requests : OnItsWay(q)' => OnItsWay(q)
      /\ OnItsWay(r) /\ At(r, "refreshing") /\ OnRefresh(r, "reply")'
  BY <1>2, <1>3 DEF At, OnItsWay, OnRefresh
<1>5. /\ Len(tokens') = Len(tokens)
      /\ \A k \in 1 .. Len(tokens) :
           \/ tokens'[k] = tokens[k]
           \/ k = call[r].old /\ tokens[k] = "live" /\ tokens'[k] = TabOf[r]
  <2>1. tokens \in Seq({"live", "revoked"} \cup Tabs)
    BY DEF IInv, TypeOK
  <2>2. QED
    BY <1>1, <1>2, <2>1 DEF IsLive, NoToken
<1>6. Busy'
  BY <1>2, <1>4 DEF IInv, Busy, Places
<1>7. Fresh'
  <2> SUFFICES ASSUME NEW q \in Requests, OnItsWay(q)'
               PROVE  /\ call'[q].new \in 1 .. Len(tokens')
                      /\ tokens'[call'[q].new] \notin Tabs
                      /\ jar'.token # call'[q].new
                      /\ \A p \in Requests : At(p, "refreshing")' => call'[p].old # call'[q].new
                      /\ \A p \in Requests : OnItsWay(p)' /\ p # q => call'[p].new # call'[q].new
    BY DEF Fresh
  <2>1. /\ call[q].new \in 1 .. Len(tokens)
        /\ tokens[call[q].new] \notin Tabs
        /\ jar.token # call[q].new
        /\ \A p \in Requests : At(p, "refreshing") => call[p].old # call[q].new
        /\ \A p \in Requests : OnItsWay(p) /\ p # q => call[p].new # call[q].new
    BY <1>4 DEF IInv, Fresh
  <2>2. tokens'[call[q].new] = tokens[call[q].new]
    BY <1>4, <1>5, <2>1
  <2>3. QED
    BY <1>2, <1>3, <1>4, <1>5, <2>1, <2>2 DEF Places
<1>8. Own'
  <2> SUFFICES ASSUME NEW q \in Requests, At(q, "refreshing")', call'[q].step # "reply",
                      Consumed(call[q].old)', ~lost
               PROVE  tokens'[call[q].old] # TabOf[q]
    BY <1>2, <1>3 DEF Own, Consumed
  <2>1. q # r /\ At(q, "refreshing") /\ call[q].step # "reply"
    BY <1>3, <1>4 DEF Places
  <2>2. TabOf[q] # TabOf[r]
    BY <1>4, <2>1 DEF IInv, Busy
  <2>3. call[q].old \in 1 .. Len(tokens) /\ tokens'[call[q].old] \in Tabs
    BY <1>1, <1>3 DEF Consumed, NoToken
  <2>4. CASE tokens'[call[q].old] = tokens[call[q].old]
    BY <1>1, <2>1, <2>3, <2>4 DEF IInv, Own, Consumed, NoToken
  <2>5. CASE tokens'[call[q].old] = TabOf[r]
    BY <2>2, <2>5
  <2>6. QED
    BY <1>5, <2>3, <2>4, <2>5
<1>9. Kept'
  <2> SUFFICES ASSUME Consumed(jar.token)', ~lost
               PROVE  \E q \in Requests : OnRefresh(q, "reply")' /\ TabOf[q] = tokens'[jar.token]
    BY <1>2 DEF Kept
  <2>1. jar.token \in 1 .. Len(tokens) /\ tokens'[jar.token] \in Tabs
    BY <1>1, <1>2 DEF Consumed, NoToken
  <2>2. CASE tokens'[jar.token] = tokens[jar.token]
    <3>1. Consumed(jar.token)
      BY <2>1, <2>2 DEF Consumed, NoToken
    <3>2. PICK q \in Requests : OnRefresh(q, "reply") /\ TabOf[q] = tokens[jar.token]
      BY <3>1 DEF IInv, Kept
    <3>3. OnRefresh(q, "reply")'
      BY <1>2, <1>3, <3>2 DEF OnRefresh, At
    <3>4. QED
      BY <2>2, <3>2, <3>3
  <2>3. CASE tokens'[jar.token] = TabOf[r]
    BY <1>4, <2>3
  <2>4. QED
    BY <1>5, <2>1, <2>2, <2>3
<1>10. QED
  BY <1>6, <1>7, <1>8, <1>9 DEF IInv

\* A tab's refresh begins, with the token the browser holds.
LEMMA StartRefreshStep ==
  ASSUME IInv, TypeOK', NEW r \in Requests, StartRefresh(r)
  PROVE  IInv'
<1>1. /\ At(r, "refused") /\ ~refreshing[TabOf[r]] /\ TabOf[r] \in Tabs
      /\ UNCHANGED <<tokens, jar, lost>>
      /\ refreshing' = [refreshing EXCEPT ![TabOf[r]] = TRUE]
      /\ refreshing \in [Tabs -> BOOLEAN]
  BY Typed DEF IInv, TypeOK, StartRefresh, MustQueue
<1>2. /\ call'[r].at = "refreshing" /\ call'[r].step \in {"refused", "lookup"}
      /\ call'[r].old = jar.token
      /\ \A q \in Requests : q # r => call'[q] = call[q]
  BY Typed DEF IInv, StartRefresh
<1>3. /\ \A q \in Requests : OnItsWay(q)' => OnItsWay(q) /\ q # r
      /\ \A q \in Requests : At(q, "refreshing")' => At(q, "refreshing") \/ q = r
      /\ \A q \in Requests : At(q, "queued")' => At(q, "queued")
      /\ At(r, "refreshing")' /\ ~At(r, "refreshing")
  BY <1>1, <1>2 DEF At, OnItsWay, OnRefresh
<1>4. Busy'
  <2>1. \A q \in Requests : At(q, "refreshing") => TabOf[q] # TabOf[r]
    BY <1>1 DEF IInv, Busy
  <2>2. \A q \in Requests : At(q, "queued")' \/ At(q, "refreshing")' => refreshing'[TabOf[q]]
    <3>1. \A q \in Requests : TabOf[q] \in Tabs
      BY SessionAssumption
    <3>2. QED
      BY <1>1, <1>3, <3>1 DEF IInv, Busy
  <2>3. ASSUME NEW t \in Tabs, refreshing'[t]
        PROVE  \E q \in Requests : TabOf[q] = t /\ At(q, "refreshing")'
    <3>1. CASE t = TabOf[r]
      BY <1>3, <3>1
    <3>2. CASE t # TabOf[r]
      <4>1. PICK q \in Requests : TabOf[q] = t /\ At(q, "refreshing")
        BY <1>1, <2>3, <3>2 DEF IInv, Busy
      <4>2. At(q, "refreshing")'
        BY <1>2, <3>2, <4>1 DEF At
      <4>3. QED
        BY <4>1, <4>2
    <3>3. QED
      BY <3>1, <3>2
  <2>4. QED
    BY <1>3, <2>1, <2>2, <2>3 DEF IInv, Busy
<1>5. Fresh'
  BY <1>1, <1>2, <1>3 DEF IInv, Fresh
<1>6. Own'
  <2> SUFFICES ASSUME NEW q \in Requests, At(q, "refreshing")', call'[q].step # "reply",
                      Consumed(call'[q].old), ~lost
               PROVE  tokens[call'[q].old] # TabOf[q]
    BY <1>1 DEF Own, Consumed
  <2>1. CASE q = r
    <3>1. PICK p \in Requests : OnRefresh(p, "reply") /\ TabOf[p] = tokens[jar.token]
      BY <1>2, <2>1 DEF IInv, Kept
    <3>2. TabOf[p] # TabOf[r]
      BY <1>1, <3>1 DEF IInv, Busy, OnRefresh
    <3>3. QED
      BY <1>2, <2>1, <3>1, <3>2
  <2>2. CASE q # r
    BY <1>2, <1>3, <2>2 DEF IInv, Own
  <2>3. QED
    BY <2>1, <2>2
<1>7. Kept'
  BY <1>1, <1>2, <1>3 DEF IInv, Kept, Consumed, OnRefresh, At
<1>8. QED
  BY <1>4, <1>5, <1>6, <1>7 DEF IInv

\* The refresh of a tab is over, or the tab is loaded anew: nobody of the tab is
\* refreshing or queued any more.
LEMMA TabSettles ==
  ASSUME IInv, TypeOK', NEW t \in Tabs, tokens' = tokens,
         refreshing' = [refreshing EXCEPT ![t] = FALSE], lost => lost',
         \A q \in Requests :
           \/ call'[q] = call[q] /\ (TabOf[q] = t => ~At(q, "queued") /\ ~At(q, "refreshing"))
           \/ TabOf[q] = t /\ call'[q].at \in {"resend", "answered"},
         \/ jar' = jar /\ \A q \in Requests : OnRefresh(q, "reply") /\ TabOf[q] = t => lost'
         \/ \E r \in Requests : /\ OnRefresh(r, "reply") /\ TabOf[r] = t
                                /\ jar'.token = call[r].new
  PROVE  IInv'
<1>1. /\ refreshing \in [Tabs -> BOOLEAN]
      /\ \A q \in Requests : TabOf[q] \in Tabs
  BY SessionAssumption DEF IInv, TypeOK
<1>2. /\ \A q \in Requests : OnItsWay(q)' => OnItsWay(q) /\ call'[q] = call[q]
      /\ \A q \in Requests : At(q, "refreshing")' =>
            At(q, "refreshing") /\ call'[q] = call[q] /\ TabOf[q] # t
      /\ \A q \in Requests : At(q, "queued")' => At(q, "queued") /\ TabOf[q] # t
      /\ \A q \in Requests : TabOf[q] # t => call'[q] = call[q]
  BY DEF At, OnItsWay, OnRefresh
<1>3. Busy'
  <2>1. \A q \in Requests : At(q, "queued")' \/ At(q, "refreshing")' => refreshing'[TabOf[q]]
    BY <1>1, <1>2 DEF IInv, Busy
  <2>2. ASSUME NEW u \in Tabs, refreshing'[u]
        PROVE  \E q \in Requests : TabOf[q] = u /\ At(q, "refreshing")'
    <3>1. u # t /\ refreshing[u]
      BY <1>1, <2>2
    <3>2. PICK q \in Requests : TabOf[q] = u /\ At(q, "refreshing")
      BY <3>1 DEF IInv, Busy
    <3>3. At(q, "refreshing")'
      BY <1>2, <3>1, <3>2 DEF At
    <3>4. QED
      BY <3>2, <3>3
  <2>3. QED
    BY <1>2, <2>1, <2>2 DEF IInv, Busy
<1>4. Fresh'
  <2> SUFFICES ASSUME NEW q \in Requests, OnItsWay(q)'
               PROVE  /\ call'[q].new \in 1 .. Len(tokens')
                      /\ tokens'[call'[q].new] \notin Tabs
                      /\ jar'.token # call'[q].new
                      /\ \A p \in Requests : At(p, "refreshing")' => call'[p].old # call'[q].new
                      /\ \A p \in Requests : OnItsWay(p)' /\ p # q => call'[p].new # call'[q].new
    BY DEF Fresh
  <2>1. /\ call[q].new \in 1 .. Len(tokens)
        /\ tokens[call[q].new] \notin Tabs
        /\ jar.token # call[q].new
        /\ \A p \in Requests : At(p, "refreshing") => call[p].old # call[q].new
        /\ \A p \in Requests : OnItsWay(p) /\ p # q => call[p].new # call[q].new
    BY <1>2 DEF IInv, Fresh
  <2>2. jar'.token # call[q].new
    <3>1. CASE jar' = jar
      BY <2>1, <3>1
    <3>2. ASSUME NEW r \in Requests, OnRefresh(r, "reply"), TabOf[r] = t,
                 jar'.token = call[r].new
          PROVE  jar'.token # call[q].new
      <4>1. OnItsWay(r) /\ ~OnItsWay(r)'
        BY <3>2 DEF OnItsWay, OnRefresh, At
      <4>2. QED
        BY <2>1, <3>2, <4>1
    <3>3. QED
      BY <3>1, <3>2
  <2>3. QED
    BY <1>2, <2>1, <2>2
<1>5. Own'
  BY <1>2 DEF IInv, Own, Consumed
<1>6. Kept'
  <2> SUFFICES ASSUME Consumed(jar.token)', ~lost'
               PROVE  \E q \in Requests : OnRefresh(q, "reply")' /\ TabOf[q] = tokens[jar'.token]
    BY DEF Kept
  <2>1. ~(\E r \in Requests : OnRefresh(r, "reply") /\ jar'.token = call[r].new)
    BY DEF Consumed, IInv, Fresh, OnItsWay
  <2>2. jar' = jar /\ \A q \in Requests : OnRefresh(q, "reply") => TabOf[q] # t
    BY <2>1
  <2>3. PICK q \in Requests : OnRefresh(q, "reply") /\ TabOf[q] = tokens[jar.token]
    BY <2>2 DEF IInv, Kept, Consumed
  <2>4. OnRefresh(q, "reply")'
    BY <1>2, <2>2, <2>3 DEF OnRefresh, At
  <2>5. QED
    BY <2>2, <2>3, <2>4
<1>7. QED
  BY <1>3, <1>4, <1>5, <1>6 DEF IInv

(***************************************************************************)
(* Types of the actions.                                                   *)
(***************************************************************************)
Rows == Seq({"live", "revoked"} \cup Tabs)
Jars(n) == {j \in [age : Ages, token : 0 .. n] : (j.age = 3) = (j.token = NoToken)}

\* The parts of the type invariant.
LEMMA Parts ==
  /\ TypeOK <=> /\ account \in BOOLEAN /\ tokens \in Rows /\ jar \in Jars(Len(tokens))
                /\ call \in [Requests -> Calls(Len(tokens))]
                /\ refreshing \in [Tabs -> BOOLEAN]
                /\ lost \in BOOLEAN /\ faults \in 0 .. MaxFaults
  /\ TypeOK' <=> /\ account' \in BOOLEAN /\ tokens' \in Rows /\ jar' \in Jars(Len(tokens'))
                 /\ call' \in [Requests -> Calls(Len(tokens'))]
                 /\ refreshing' \in [Tabs -> BOOLEAN]
                 /\ lost' \in BOOLEAN /\ faults' \in 0 .. MaxFaults
BY DEF TypeOK, Rows, Jars, Calls, Ids

\* Rows are only added, so calls and cookies keep their types.
LEMMA Widen ==
  ASSUME NEW m \in Nat, NEW n \in Nat, m <= n
  PROVE  /\ \A j \in Jars(m) : j \in Jars(n)
         /\ \A f \in [Requests -> Calls(m)], r \in Requests, d \in Calls(n) :
              [f EXCEPT ![r] = d] \in [Requests -> Calls(n)]
<1>1. \A j \in Jars(m) : j \in Jars(n)
  BY DEF Jars
<1>2. \A c \in Calls(m) : c \in Calls(n)
  BY CallTypes
<1>3. QED
  BY <1>1, <1>2

\* A query counts as at most one fault, within the bound.
LEMMA FaultsBounded ==
  ASSUME TypeOK, NEW ok \in BOOLEAN, Query(ok)
  PROVE  faults' \in 0 .. MaxFaults
BY SessionAssumption DEF TypeOK, Query, CanFail

\* What the server answers to a call of the client.
LEMMA ServeShape ==
  ASSUME TypeOK, NEW r \in Requests, NEW c \in Calls(Len(tokens)), Serve(r, c)
  PROVE  /\ tokens' \in Rows /\ Grown /\ account' \in BOOLEAN /\ faults' \in 0 .. MaxFaults
         /\ \E d \in Calls(Len(tokens')) :
              /\ call' = [call EXCEPT ![r] = d]
              /\ d.at \in {"answered", "refused", "bye", "welcome"}
              /\ d.at = "welcome" => /\ d.new = Len(tokens) + 1
                                     /\ Len(tokens') = Len(tokens) + 1
                                     /\ tokens'[d.new] \notin Tabs
<1>1. /\ Len(tokens) \in Nat /\ tokens \in Rows /\ account \in BOOLEAN
      /\ faults \in 0 .. MaxFaults
  BY Typed, Parts
<1>2. ASSUME NEW place \in {"answered", "refused", "bye"}, Reply(r, c, place),
             Len(tokens') = Len(tokens)
      PROVE  \E d \in Calls(Len(tokens')) : /\ call' = [call EXCEPT ![r] = d]
                                            /\ d.at \in {"answered", "refused", "bye"}
  <2>1. place \in Places
    BY DEF Places
  <2>2. Moved(c, place) \in Calls(Len(tokens)) /\ Moved(c, place).at = place
    BY <1>1, <2>1, CallTypes
  <2>3. QED
    BY <1>2, <2>2 DEF Reply
<1>3. tokens' = tokens => Grown
  BY <1>1 DEF Grown
<1>4. CASE ServeCall(r, c)
  <2>1. UNCHANGED <<account, tokens, faults>>
    BY <1>4 DEF ServeCall
  <2>2. PICK place \in {"answered", "refused"} : Reply(r, c, place)
    BY <1>4 DEF ServeCall
  <2>3. QED
    BY <1>1, <1>2, <1>3, <2>1, <2>2
<1>5. CASE RefuseEntry(r, c)
  <2>1. UNCHANGED <<account, tokens, faults>>
    BY <1>5 DEF RefuseEntry
  <2>2. PICK place \in {"answered", "refused"} : Reply(r, c, place)
    BY <1>5 DEF RefuseEntry
  <2>3. QED
    BY <1>1, <1>2, <1>3, <2>1, <2>2
<1>6. CASE ServeLogout(r, c)
  <2>1. faults' \in 0 .. MaxFaults /\ account' = account
    BY <1>6, FaultsBounded DEF ServeLogout
  <2>2. PICK place \in {"answered", "refused", "bye"} : Reply(r, c, place)
    BY <1>6 DEF ServeLogout
  <2>3. \/ tokens' = tokens
        \/ tokens' = [k \in DOMAIN tokens |-> IF tokens[k] = "live" THEN "revoked" ELSE tokens[k]]
    BY <1>6 DEF ServeLogout
  <2>4. tokens' \in Rows /\ Len(tokens') = Len(tokens)
    BY <1>1, <2>3 DEF Rows
  <2>5. Grown
    <3>1. \A k \in 1 .. Len(tokens) : \/ tokens'[k] = tokens[k]
                                      \/ tokens[k] = "live" /\ tokens'[k] = "revoked"
      BY <1>1, <2>3 DEF Rows
    <3>2. QED
      BY <1>1, <2>4, <3>1, SessionAssumption DEF Grown
  <2>6. QED
    BY <1>1, <1>2, <2>1, <2>2, <2>4, <2>5
<1>7. CASE ServeEntry(r, c)
  <2>1. PICK ok \in BOOLEAN : Query(ok) /\
          IF ok
          THEN /\ tokens' = Append(tokens, "live")
               /\ Reply(r, [c EXCEPT !.new = Len(tokens')], "welcome")
          ELSE Reply(r, c, "answered") /\ UNCHANGED tokens
    BY <1>7 DEF ServeEntry
  <2>2. faults' \in 0 .. MaxFaults /\ account' = TRUE
    BY <1>7, <2>1, FaultsBounded DEF ServeEntry
  <2>3. CASE ok
    <3> DEFINE n == Len(tokens) + 1
               d == [c EXCEPT !.new = n]
    <3>1. /\ tokens' = Append(tokens, "live") /\ tokens' \in Rows /\ Len(tokens') = n
          /\ tokens'[n] = "live" /\ \A k \in 1 .. Len(tokens) : tokens'[k] = tokens[k]
      BY <1>1, <2>1, <2>3 DEF Rows
    <3>2. n \in Nat /\ n \in 0 .. n /\ Len(tokens) <= n
      BY <1>1
    <3>3. c \in Calls(n)
      BY <1>1, <3>2, CallTypes
    <3>4. d \in Calls(n) /\ d.new = n
      BY <3>2, <3>3, CallTypes
    <3>5. "welcome" \in Places
      BY DEF Places
    <3> HIDE DEF n, d
    <3>6. /\ Moved(d, "welcome") \in Calls(n) /\ Moved(d, "welcome").at = "welcome"
          /\ Moved(d, "welcome").new = n
      BY <3>2, <3>4, <3>5, CallTypes
    <3>7. call' = [call EXCEPT ![r] = Moved(d, "welcome")]
      BY <2>1, <2>3, <3>1 DEF Reply, d
    <3>8. "live" \notin Tabs /\ Grown
      BY <3>1, <3>2, SessionAssumption DEF Grown
    <3>9. QED
      BY <2>2, <3>1, <3>6, <3>7, <3>8 DEF n
  <2>4. CASE ~ok
    <3>1. Reply(r, c, "answered") /\ tokens' = tokens
      BY <2>1, <2>4
    <3>2. QED
      BY <1>1, <1>2, <1>3, <2>2, <3>1
  <2>5. QED
    BY <2>3, <2>4
<1>8. QED
  BY <1>4, <1>5, <1>6, <1>7 DEF Serve

(***************************************************************************)
(* Every action keeps the invariant.                                       *)
(***************************************************************************)

\* At first no token is on its way, and the browser's has not been consumed.
LEMMA InitInv == Init => IInv
<1> SUFFICES ASSUME Init PROVE IInv
  OBVIOUS
<1>1. \A r \in Requests : call[r].at = "new"
  BY DEF Init, Idle
<1>2. Len(tokens) \in Nat /\ tokens \in Rows /\ jar \in Jars(Len(tokens))
      /\ (jar.token = NoToken \/ tokens[jar.token] = "live")
  <2>1. CASE account
    <3>1. tokens = <<"live">> /\ jar = FreshJar(1)
      BY <2>1 DEF Init
    <3>2. tokens \in Rows /\ Len(tokens) = 1 /\ tokens[1] = "live"
      BY <3>1 DEF Rows
    <3>3. jar \in Jars(1) /\ jar.token = 1
      BY <3>1 DEF Jars, FreshJar, NoToken, Ages
    <3>4. QED
      BY <3>2, <3>3
  <2>2. CASE ~account
    <3>1. tokens = <<>> /\ jar = EmptyJar
      BY <2>2 DEF Init
    <3>2. tokens \in Rows /\ Len(tokens) = 0
      BY <3>1 DEF Rows
    <3>3. jar \in Jars(0) /\ jar.token = NoToken
      BY <3>1 DEF Jars, EmptyJar, NoToken, Ages
    <3>4. QED
      BY <3>2, <3>3
  <2>3. QED
    BY <2>1, <2>2
<1>3. Idle("new") \in Calls(Len(tokens))
  BY <1>2, OrderOfSteps DEF Idle, Calls, AllKinds, Places, NoToken
<1>4. TypeOK
  <2>1. call \in [Requests -> Calls(Len(tokens))]
    BY <1>3 DEF Init
  <2>2. refreshing \in [Tabs -> BOOLEAN] /\ lost \in BOOLEAN /\ account \in BOOLEAN
    BY DEF Init
  <2>3. faults \in 0 .. MaxFaults
    BY SessionAssumption DEF Init
  <2>4. QED
    BY <1>2, <2>1, <2>2, <2>3, Parts
<1>5. Busy /\ Fresh /\ Own
  BY <1>1 DEF Init, Busy, Fresh, Own, OnItsWay, OnRefresh, At
<1>6. Kept
  BY <1>2, SessionAssumption DEF Kept, Consumed
<1>7. QED
  BY <1>4, <1>5, <1>6 DEF IInv

\* A call is sent, or sent again after a refresh.
LEMMA ServedInv ==
  ASSUME IInv, NEW r \in Requests, Send(r) \/ Resend(r)
  PROVE  IInv'
<1>1. TypeOK /\ Len(tokens) \in Nat /\ call[r] \in Calls(Len(tokens))
  BY Typed DEF IInv
<1>2. /\ UNCHANGED <<jar, refreshing, lost>>
      /\ At(r, "new") \/ At(r, "resend")
  BY DEF Send, Resend
<1>3. PICK c \in Calls(Len(tokens)) : Serve(r, c)
  <2>1. CASE Resend(r)
    BY <1>1, <2>1 DEF Resend
  <2>2. CASE Send(r)
    <3>1. PICK k \in Kinds[r] : Serve(r, [call[r] EXCEPT !.kind = k])
      BY <2>2 DEF Send
    <3>2. k \in AllKinds
      BY SessionAssumption
    <3>3. [call[r] EXCEPT !.kind = k] \in Calls(Len(tokens))
      BY <1>1, <3>2, CallTypes
    <3>4. QED
      BY <3>1, <3>3
  <2>3. QED
    BY <2>1, <2>2
<1>4. /\ tokens' \in Rows /\ Grown /\ account' \in BOOLEAN /\ faults' \in 0 .. MaxFaults
  BY <1>1, <1>3, ServeShape
<1>5. PICK d \in Calls(Len(tokens')) :
        /\ call' = [call EXCEPT ![r] = d]
        /\ d.at \in {"answered", "refused", "bye", "welcome"}
        /\ d.at = "welcome" => /\ d.new = Len(tokens) + 1
                               /\ Len(tokens') = Len(tokens) + 1
                               /\ tokens'[d.new] \notin Tabs
  BY <1>1, <1>3, ServeShape
<1>6. TypeOK'
  <2>1. Len(tokens') \in Nat /\ Len(tokens) <= Len(tokens')
    BY <1>4 DEF Rows, Grown
  <2>2. call' \in [Requests -> Calls(Len(tokens'))] /\ jar' \in Jars(Len(tokens'))
    BY <1>1, <1>2, <1>5, <2>1, Widen, Parts
  <2>3. QED
    BY <1>1, <1>2, <1>4, <2>2, Parts
<1>7. ~At(r, "refreshing") /\ ~At(r, "queued")
  BY <1>2 DEF At
<1>8. QED
  BY <1>2, <1>4, <1>5, <1>6, <1>7, PlainStep

\* A reply arrives, a 401 is passed on or waits, a reply to a login is lost.
LEMMA MovedInv ==
  ASSUME IInv, NEW r \in Requests,
         Arrive(r) \/ GiveUp(r) \/ Queue(r) \/ (LoseReply(r) /\ ~At(r, "refreshing"))
  PROVE  IInv'
<1>1. TypeOK /\ Len(tokens) \in Nat /\ call[r] \in Calls(Len(tokens))
  BY Typed DEF IInv
<1>2. UNCHANGED <<account, tokens, refreshing>>
  BY DEF Arrive, GiveUp, Queue, LoseReply
<1>3. PICK place \in {"answered", "queued"} :
        Reply(r, call[r], place) /\ (place = "queued" => refreshing[TabOf[r]])
  BY DEF Arrive, GiveUp, Queue, LoseReply, MustQueue
<1> DEFINE d == Moved(call[r], place)
<1>4. d \in Calls(Len(tokens)) /\ d.at = place
  <2>1. place \in Places
    BY DEF Places
  <2>2. QED
    BY <1>1, <2>1, CallTypes
<1> HIDE DEF d
<1>5. call' = [call EXCEPT ![r] = d]
  BY <1>3 DEF Reply, d
<1>6. ~At(r, "refreshing") /\ ~At(r, "queued")
  BY DEF Arrive, GiveUp, Queue, LoseReply, CarriesCookies, OnRefresh, At
<1>7. /\ lost' \in BOOLEAN
      /\ lost => lost'
      /\ faults' \in 0 .. MaxFaults
  <2>1. CASE Arrive(r) \/ GiveUp(r) \/ Queue(r)
    BY <1>1, <2>1, Parts DEF Arrive, GiveUp, Queue
  <2>2. CASE LoseReply(r)
    BY <1>1, <2>2, Parts, SessionAssumption DEF LoseReply, CanFail
  <2>3. QED
    BY <2>1, <2>2
<1>8. /\ jar' \in Jars(Len(tokens))
      /\ \/ jar'.token \in {jar.token, NoToken}
         \/ At(r, "welcome") /\ place = "answered" /\ jar'.token = call[r].new
  <2>1. CASE jar' = jar
    BY <1>1, <2>1, Parts
  <2>2. CASE Arrive(r) /\ At(r, "welcome")
    <3>1. call[r].new \in 1 .. Len(tokens)
      BY <2>2 DEF IInv, Fresh, OnItsWay
    <3>2. jar' = FreshJar(call[r].new) /\ Reply(r, call[r], "answered")
      BY <2>2 DEF Arrive
    <3>3. d.at = "answered"
      <4>1. "answered" \in Places
        BY DEF Places
      <4>2. Moved(call[r], "answered") \in Calls(Len(tokens))
            /\ Moved(call[r], "answered").at = "answered"
        BY <1>1, <4>1, CallTypes
      <4>3. call'[r] = Moved(call[r], "answered") /\ call'[r] = d
        BY <1>1, <1>5, <3>2, Typed DEF Reply
      <4>4. QED
        BY <4>2, <4>3
    <3>4. QED
      BY <1>1, <1>4, <2>2, <3>1, <3>2, <3>3 DEF Jars, FreshJar, Ages, NoToken
  <2>3. CASE Arrive(r) /\ ~At(r, "welcome")
    BY <1>1, <2>3 DEF Arrive, Cleared, EmptyJar, Jars, Ages, NoToken
  <2>4. QED
    BY <2>1, <2>2, <2>3 DEF GiveUp, Queue, LoseReply
<1>9. TypeOK'
  <2>1. call' \in [Requests -> Calls(Len(tokens))]
    BY <1>1, <1>4, <1>5, Parts
  <2>2. /\ account' \in BOOLEAN /\ tokens' \in Rows /\ Len(tokens') = Len(tokens)
        /\ refreshing' \in [Tabs -> BOOLEAN]
    BY <1>1, <1>2, Parts
  <2>3. lost' \in BOOLEAN
    BY <1>7
  <2>4. faults' \in 0 .. MaxFaults /\ jar' \in Jars(Len(tokens'))
    BY <1>7, <1>8, <2>2
  <2>5. QED
    BY <2>1, <2>2, <2>3, <2>4, Parts
<1>10. Grown
  BY <1>1, <1>2 DEF Grown
<1>11. /\ d.at \in {"answered", "refused", "bye", "welcome", "queued"} /\ d.at # "welcome"
       /\ d.at = "queued" => refreshing[TabOf[r]]
  BY <1>3, <1>4
<1>12. \/ jar'.token \in {jar.token, NoToken}
       \/ At(r, "welcome") /\ d.at = "answered" /\ jar'.token = call[r].new
  BY <1>4, <1>8
<1>13. lost => lost'
  BY <1>7
<1>14. QED
  BY <1>2, <1>5, <1>6, <1>9, <1>10, <1>11, <1>12, <1>13, PlainStep

\* A refresh begins.
LEMMA StartRefreshInv ==
  ASSUME IInv, NEW r \in Requests, StartRefresh(r)
  PROVE  IInv'
<1>1. TypeOK /\ Len(tokens) \in Nat /\ call[r] \in Calls(Len(tokens))
      /\ jar.token \in 0 .. Len(tokens) /\ TabOf[r] \in Tabs
  BY Typed DEF IInv
<1> DEFINE d == [at |-> "refreshing", kind |-> call[r].kind, retried |-> TRUE,
                 step |-> IF jar.token = NoToken THEN "refused" ELSE "lookup",
                 old |-> jar.token, new |-> NoToken]
<1>2. d \in Calls(Len(tokens))
  BY <1>1, OrderOfSteps DEF Calls, Places, NoToken
<1>3. call' = [call EXCEPT ![r] = d]
  <2>1. call \in [Requests -> Calls(Len(tokens))]
    BY <1>1, Parts
  <2>2. QED
    BY <2>1 DEF StartRefresh
<1> HIDE DEF d
<1>4. call' \in [Requests -> Calls(Len(tokens))]
  BY <1>1, <1>2, <1>3, Parts
<1>5. refreshing' \in [Tabs -> BOOLEAN]
  BY <1>1, Parts DEF StartRefresh
<1>6. UNCHANGED <<account, tokens, jar, lost, faults>>
  BY DEF StartRefresh
<1>7. TypeOK'
  BY <1>1, <1>4, <1>5, <1>6, Parts
<1>8. QED
  BY <1>7, StartRefreshStep

\* A refresh looks its token up, or stores the next one.
LEMMA RefreshQueryInv ==
  ASSUME IInv, NEW r \in Requests, Lookup(r) \/ GenerateToken(r)
  PROVE  IInv'
<1>1. TypeOK /\ Len(tokens) \in Nat /\ call[r] \in Calls(Len(tokens)) /\ tokens \in Rows
      /\ call \in [Requests -> Calls(Len(tokens))]
  BY Typed, Parts DEF IInv
<1>2. /\ UNCHANGED <<account, jar, refreshing, lost>>
      /\ At(r, "refreshing") /\ ~OnRefresh(r, "reply")
  BY DEF Lookup, GenerateToken, OnRefresh
<1>3. faults' \in 0 .. MaxFaults
  BY <1>1, FaultsBounded DEF Lookup, GenerateToken
<1>4. ASSUME NEW step \in {"refused", "error", "generate"}, StepTo(r, step), tokens' = tokens
      PROVE  IInv'
  <2> DEFINE d == [call[r] EXCEPT !.step = step]
  <2>1. d \in Calls(Len(tokens)) /\ d.at = call[r].at /\ d.old = call[r].old /\ d.step = step
    BY <1>1, OrderOfSteps DEF Calls
  <2>2. call' = [call EXCEPT ![r] = d]
    BY <1>4 DEF StepTo
  <2> HIDE DEF d
  <2>3. TypeOK'
    <3>1. call' \in [Requests -> Calls(Len(tokens))]
      BY <1>1, <2>1, <2>2
    <3>2. QED
      BY <1>1, <1>2, <1>3, <1>4, <3>1, Parts
  <2>4. Grown
    BY <1>1, <1>4 DEF Grown
  <2>5. d.at = "refreshing"
    BY <1>2, <2>1 DEF At
  <2>6. QED
    BY <1>2, <1>4, <2>1, <2>2, <2>3, <2>4, <2>5, RefreshStep
<1>5. CASE Lookup(r)
  <2>1. tokens' = tokens /\ \E step \in {"refused", "error", "generate"} : StepTo(r, step)
    BY <1>5, OrderOfSteps DEF Lookup
  <2>2. QED
    BY <1>4, <2>1
<1>6. CASE GenerateToken(r)
  <2>1. PICK ok \in BOOLEAN :
          IF ok
          THEN /\ tokens' = Append(tokens, "live")
               /\ call' = [call EXCEPT ![r].step = "consume", ![r].new = Len(tokens')]
          ELSE StepTo(r, "error") /\ UNCHANGED tokens
    BY <1>6, OrderOfSteps DEF GenerateToken
  <2>2. CASE ~ok
    BY <1>4, <2>1, <2>2
  <2>3. CASE ok
    <3> DEFINE n == Len(tokens) + 1
               d == [call[r] EXCEPT !.step = "consume", !.new = n]
    <3>1. /\ tokens' = Append(tokens, "live") /\ tokens' \in Rows /\ Len(tokens') = n
          /\ tokens'[n] = "live" /\ \A k \in 1 .. Len(tokens) : tokens'[k] = tokens[k]
      BY <1>1, <2>1, <2>3 DEF Rows
    <3>2. n \in Nat /\ n \in 0 .. n /\ Len(tokens) <= n
      BY <1>1
    <3>3. call[r] \in Calls(n)
      BY <1>1, <3>2, CallTypes
    <3>4. /\ d \in Calls(n) /\ d.at = call[r].at /\ d.old = call[r].old
          /\ d.step = "consume" /\ d.new = n
      BY <3>2, <3>3, OrderOfSteps DEF Calls
    <3>5. call' = [call EXCEPT ![r] = d]
      BY <1>1, <2>1, <2>3, <3>1
    <3>6. "live" \notin Tabs /\ Grown
      BY <3>1, <3>2, SessionAssumption DEF Grown
    <3> HIDE DEF d
    <3>7. TypeOK'
      <4>1. call' \in [Requests -> Calls(n)] /\ jar \in Jars(n)
        BY <1>1, <3>2, <3>4, <3>5, Widen, Parts
      <4>2. QED
        BY <1>1, <1>2, <1>3, <3>1, <4>1, Parts
    <3>8. d.at = "refreshing"
      BY <1>2, <3>4 DEF At
    <3>9. QED
      BY <1>2, <3>1, <3>4, <3>5, <3>6, <3>7, <3>8, RefreshStep
  <2>4. QED
    BY <2>2, <2>3
<1>7. QED
  BY <1>5, <1>6

\* A refresh consumes its old token.
LEMMA ConsumeInv ==
  ASSUME IInv, NEW r \in Requests, Consume(r)
  PROVE  IInv'
<1>1. TypeOK /\ Len(tokens) \in Nat /\ call[r] \in Calls(Len(tokens)) /\ tokens \in Rows
      /\ call \in [Requests -> Calls(Len(tokens))] /\ TabOf[r] \in Tabs
  BY Typed, Parts DEF IInv
<1>2. tokens' \in Rows /\ Len(tokens') = Len(tokens)
  <2>1. \/ tokens' = tokens
        \/ tokens' = [tokens EXCEPT ![call[r].old] = TabOf[r]]
    BY DEF Consume
  <2>2. TabOf[r] \in {"live", "revoked"} \cup Tabs
    BY <1>1
  <2>3. QED
    BY <1>1, <2>1, <2>2 DEF Rows
<1>3. faults' \in 0 .. MaxFaults
  BY <1>1, FaultsBounded DEF Consume
<1>4. [call[r] EXCEPT !.step = "reply"] \in Calls(Len(tokens))
  BY <1>1, OrderOfSteps, CallTypes
<1>5. call' \in [Requests -> Calls(Len(tokens))]
  BY <1>1, <1>4, OrderOfSteps DEF Consume, StepTo
<1>6. UNCHANGED <<account, jar, refreshing, lost>>
  BY DEF Consume
<1>7. TypeOK'
  BY <1>1, <1>2, <1>3, <1>5, <1>6, Parts
<1>8. QED
  BY <1>7, ConsumeStep

\* The reply of a refresh is lost on the way.
LEMMA LoseRefreshInv ==
  ASSUME IInv, NEW r \in Requests, LoseReply(r), At(r, "refreshing")
  PROVE  IInv'
<1>1. TypeOK /\ Len(tokens) \in Nat /\ call[r] \in Calls(Len(tokens))
      /\ call \in [Requests -> Calls(Len(tokens))]
  BY Typed, Parts DEF IInv
<1> DEFINE d == [call[r] EXCEPT !.step = "error"]
<1>2. d \in Calls(Len(tokens)) /\ d.at = call[r].at /\ d.old = call[r].old /\ d.step = "error"
  BY <1>1, OrderOfSteps DEF Calls
<1>3. call' = [call EXCEPT ![r] = d]
  BY DEF LoseReply, StepTo
<1> HIDE DEF d
<1>4. lost' = TRUE /\ UNCHANGED <<account, tokens, jar, refreshing>> /\ faults' \in 0 .. MaxFaults
  BY <1>1, Parts, SessionAssumption DEF LoseReply, CanFail
<1>5. TypeOK'
  <2>1. call' \in [Requests -> Calls(Len(tokens))]
    BY <1>1, <1>2, <1>3
  <2>2. QED
    BY <1>1, <1>4, <2>1, Parts
<1>6. Grown /\ d.at = "refreshing"
  BY <1>1, <1>2, <1>4 DEF Grown, At
<1>7. QED
  BY <1>2, <1>3, <1>4, <1>5, <1>6, RefreshStep

\* A refresh ends, for its request and for those queued behind it, or a tab is
\* loaded anew.
LEMMA SettledInv ==
  ASSUME IInv,
         \/ \E r \in Requests : Refreshed(r) \/ RefreshFailed(r)
         \/ \E t \in Tabs : Reload(t)
  PROVE  IInv'
<1>1. /\ TypeOK /\ Len(tokens) \in Nat /\ call \in [Requests -> Calls(Len(tokens))]
      /\ \A r \in Requests : TabOf[r] \in Tabs
      /\ faults \in 0 .. MaxFaults /\ lost \in BOOLEAN /\ account \in BOOLEAN
      /\ tokens \in Rows /\ jar \in Jars(Len(tokens)) /\ refreshing \in [Tabs -> BOOLEAN]
  BY Typed, Parts DEF IInv
<1>2. ASSUME NEW q \in Requests, NEW place \in {"resend", "answered"}
      PROVE  /\ Moved(call[q], place) \in Calls(Len(tokens)) /\ Moved(call[q], place).at = place
             /\ Idle(place) \in Calls(Len(tokens)) /\ Idle(place).at = place
  <2>1. place \in Places
    BY DEF Places
  <2>2. QED
    BY <1>1, <2>1, CallTypes
<1>3. ASSUME NEW t \in Tabs, Unload(t), UNCHANGED <<account, tokens, jar>>,
             faults' \in 0 .. MaxFaults
      PROVE  IInv'
  <2> DEFINE mine == Unfinished(t)
  <2>1. /\ call' = [r \in Requests |-> IF r \in mine THEN Idle("answered") ELSE call[r]]
        /\ refreshing' = [refreshing EXCEPT ![t] = FALSE]
        /\ lost' = (lost \/ \E r \in mine : CarriesCookies(r))
        /\ UNCHANGED <<account, tokens, jar>>
    BY <1>3 DEF Unload
  <2>2. ASSUME NEW q \in Requests
        PROVE  /\ call'[q] \in Calls(Len(tokens))
               /\ \/ /\ call'[q] = call[q]
                     /\ TabOf[q] = t => ~At(q, "queued") /\ ~At(q, "refreshing")
                  \/ TabOf[q] = t /\ call'[q].at \in {"resend", "answered"}
    <3>1. CASE q \in mine
      BY <1>2, <2>1, <3>1 DEF Unfinished
    <3>2. CASE q \notin mine
      BY <1>1, <2>1, <3>2 DEF Unfinished, At
    <3>3. QED
      BY <3>1, <3>2
  <2>3. call' \in [Requests -> Calls(Len(tokens))]
    BY <2>1, <2>2
  <2>4. \A q \in Requests : OnRefresh(q, "reply") /\ TabOf[q] = t => lost'
    BY <2>1 DEF Unfinished, OnRefresh, At, CarriesCookies
  <2>5. lost' \in BOOLEAN
    BY <2>1
  <2>6. TypeOK'
    BY <1>1, <1>3, <2>1, <2>3, <2>5, Parts
  <2>7. lost => lost'
    BY <2>1
  <2> HIDE DEF mine
  <2>8. QED
    BY <2>1, <2>2, <2>4, <2>6, <2>7, TabSettles
<1>4. ASSUME NEW r \in Requests, Refreshed(r) \/ RefreshFailed(r),
             UNCHANGED lost, refreshing' = Reset(TabOf[r], FALSE),
             \E place \in {"resend", "answered"} :
               call' = Settle(r, FailedQueue(TabOf[r]), place)
      PROVE  IInv'
  <2> DEFINE t == TabOf[r]
  <2>1. t \in Tabs /\ At(r, "refreshing") /\ UNCHANGED <<account, tokens, lost, faults>>
        /\ refreshing' = [refreshing EXCEPT ![t] = FALSE]
    BY <1>1, <1>4 DEF Refreshed, RefreshFailed, OnRefresh, Reset
  <2>2. PICK place \in {"resend", "answered"} : call' = Settle(r, FailedQueue(t), place)
    BY <1>4
  <2>3. ASSUME NEW q \in Requests
        PROVE  /\ call'[q] \in Calls(Len(tokens))
               /\ \/ /\ call'[q] = call[q]
                     /\ TabOf[q] = t => ~At(q, "queued") /\ ~At(q, "refreshing")
                  \/ TabOf[q] = t /\ call'[q].at \in {"resend", "answered"}
    <3>1. call'[q] = IF q = r \/ q \in FailedQueue(t) THEN Moved(call[q], place) ELSE call[q]
      BY <2>2 DEF Settle
    <3>2. CASE q = r \/ q \in FailedQueue(t)
      <4>1. call'[q] = Moved(call[q], place) /\ TabOf[q] = t
        BY <3>1, <3>2 DEF FailedQueue
      <4>2. QED
        BY <1>2, <4>1
    <3>3. CASE ~(q = r \/ q \in FailedQueue(t))
      <4>1. call'[q] = call[q]
        BY <3>1, <3>3
      <4>2. TabOf[q] = t => ~At(q, "queued") /\ ~At(q, "refreshing")
        BY <2>1, <3>3 DEF FailedQueue, IInv, Busy
      <4>3. QED
        BY <1>1, <4>1, <4>2
    <3>4. QED
      BY <3>2, <3>3
  <2>4. call' \in [Requests -> Calls(Len(tokens))]
    <3>1. DOMAIN call' = Requests /\ call' = [q \in Requests |-> call'[q]]
      BY <2>2 DEF Settle
    <3>2. QED
      BY <2>3, <3>1
  <2>5. CASE RefreshFailed(r)
    <3>1. jar' = jar /\ ~OnRefresh(r, "reply")
      BY <2>5 DEF RefreshFailed, OnRefresh
    <3>2. TypeOK'
      BY <1>1, <2>1, <2>4, <3>1, Parts
    <3>3. \A q \in Requests : ~(OnRefresh(q, "reply") /\ TabOf[q] = t)
      BY <2>1, <3>1 DEF IInv, Busy, OnRefresh
    <3> HIDE DEF t
    <3>4. QED
      BY <2>1, <2>3, <3>1, <3>2, <3>3, TabSettles
  <2>6. CASE Refreshed(r)
    <3>1. jar' = FreshJar(call[r].new) /\ OnRefresh(r, "reply")
      BY <2>6 DEF Refreshed
    <3>2. call[r].new \in 1 .. Len(tokens)
      BY <3>1 DEF IInv, Fresh, OnItsWay
    <3>3. jar' \in Jars(Len(tokens)) /\ jar'.token = call[r].new
      BY <1>1, <3>1, <3>2 DEF Jars, FreshJar, Ages, NoToken
    <3>4. TypeOK'
      BY <1>1, <2>1, <2>4, <3>3, Parts
    <3>5. \E q \in Requests : OnRefresh(q, "reply") /\ TabOf[q] = t /\ jar'.token = call[q].new
      BY <3>1, <3>3
    <3> HIDE DEF t
    <3>6. QED
      BY <2>1, <2>3, <3>4, <3>5, TabSettles
  <2>7. QED
    BY <1>4, <2>5, <2>6
<1>5. ASSUME NEW r \in Requests, Refreshed(r) PROVE IInv'
  BY <1>4, <1>5 DEF Refreshed, Reset
<1>6. ASSUME NEW r \in Requests, RefreshFailed(r) PROVE IInv'
  <2>1. CASE Unload(TabOf[r])
    BY <1>1, <1>3, <1>6, <2>1 DEF RefreshFailed
  <2>2. CASE ~Unload(TabOf[r])
    BY <1>4, <1>6, <2>2 DEF RefreshFailed
  <2>3. QED
    BY <2>1, <2>2
<1>7. ASSUME NEW t \in Tabs, Reload(t) PROVE IInv'
  <2>1. faults' \in 0 .. MaxFaults
    BY <1>1, <1>7, SessionAssumption DEF Reload, CanFail
  <2>2. QED
    BY <1>3, <1>7, <2>1 DEF Reload
<1>8. QED
  BY <1>5, <1>6, <1>7

\* Cookies expire, the refresh token last.
LEMMA AgeInv ==
  ASSUME IInv, Age
  PROVE  IInv'
<1>1. /\ TypeOK /\ jar \in Jars(Len(tokens)) /\ Len(tokens) \in Nat /\ jar.age < 3
      /\ UNCHANGED <<account, tokens, call, refreshing, lost, faults>>
  BY Typed, Parts DEF IInv, Age
<1>2. jar' \in Jars(Len(tokens)) /\ jar'.token \in {jar.token, NoToken}
  <2>1. CASE jar.age < 2
    BY <1>1, <2>1 DEF Age, Jars, Ages
  <2>2. CASE ~(jar.age < 2)
    BY <1>1, <2>2 DEF Age, Jars, Ages, EmptyJar, NoToken
  <2>3. QED
    BY <2>1, <2>2
<1>3. TypeOK'
  BY <1>1, <1>2, Parts
<1>4. Busy'
  BY <1>1 DEF IInv, Busy, At
<1>5. Fresh'
  <2>1. \A r \in Requests : OnItsWay(r)' <=> OnItsWay(r)
    BY <1>1 DEF OnItsWay, OnRefresh, At
  <2>2. QED
    BY <1>1, <1>2, <2>1 DEF IInv, Fresh, At, NoToken
<1>6. Own'
  BY <1>1 DEF IInv, Own, At, Consumed
<1>7. Kept'
  <2>1. Consumed(jar.token)' => jar'.token = jar.token /\ Consumed(jar.token)
    BY <1>1, <1>2 DEF Consumed
  <2>2. \A r \in Requests : OnRefresh(r, "reply")' <=> OnRefresh(r, "reply")
    BY <1>1 DEF OnRefresh, At
  <2>3. QED
    BY <1>1, <2>1, <2>2 DEF IInv, Kept
<1>8. QED
  BY <1>3, <1>4, <1>5, <1>6, <1>7 DEF IInv

\* The invariant holds in every reachable state.
LEMMA Invariant == Spec => []IInv
<1>1. Init => IInv
  BY InitInv
<1>2. IInv /\ [Next]_vars => IInv'
  <2> SUFFICES ASSUME IInv, [Next]_vars PROVE IInv'
    OBVIOUS
  <2>1. CASE UNCHANGED vars
    BY <2>1 DEF vars, IInv, TypeOK, Ids, Busy, Fresh, Own, Kept, Consumed, OnItsWay,
                OnRefresh, At
  <2>2. ASSUME NEW r \in Requests,
               Send(r) \/ ClientStep(r) \/ ServerStep(r) \/ LoseReply(r)
        PROVE  IInv'
    <3>1. CASE Send(r) \/ Resend(r)
      BY <3>1, ServedInv
    <3>2. CASE Arrive(r) \/ GiveUp(r) \/ Queue(r) \/ (LoseReply(r) /\ ~At(r, "refreshing"))
      BY <3>2, MovedInv
    <3>3. CASE StartRefresh(r)
      BY <3>3, StartRefreshInv
    <3>4. CASE Lookup(r) \/ GenerateToken(r)
      BY <3>4, RefreshQueryInv
    <3>5. CASE Consume(r)
      BY <3>5, ConsumeInv
    <3>6. CASE LoseReply(r) /\ At(r, "refreshing")
      BY <3>6, LoseRefreshInv
    <3>7. CASE Refreshed(r) \/ RefreshFailed(r)
      BY <3>7, SettledInv
    <3>8. QED
      BY <2>2, <3>1, <3>2, <3>3, <3>4, <3>5, <3>6, <3>7 DEF ClientStep, ServerStep
  <2>3. ASSUME NEW t \in Tabs, Reload(t) PROVE IInv'
    BY <2>3, SettledInv
  <2>4. CASE Age
    BY <2>4, AgeInv
  <2>5. QED
    BY <2>1, <2>2, <2>3, <2>4 DEF Next, Done
<1>3. QED
  BY <1>1, <1>2, PTL DEF Spec

(***************************************************************************)
(* The theorems.                                                           *)
(***************************************************************************)

\* Cookies, rows and calls keep their types: the browser has a refresh token as
\* long as its cookie has not expired, and it is one of the rows.
THEOREM TypeCorrect == Spec => []TypeOK
<1>1. IInv => TypeOK
  BY DEF IInv
<1>2. QED
  BY <1>1, Invariant, PTL

\* However many tabs refresh at once and whatever query fails, the browser is left
\* with a consumed token only while the next one is on its way, or after a reply
\* was lost.
THEOREM SessionIsKept == Spec => []SessionKept
<1>1. IInv => SessionKept
  <2> SUFFICES ASSUME IInv, Consumed(jar.token), ~lost
               PROVE  \E r \in Requests : OnRefresh(r, "reply") /\ ~Consumed(call[r].new)
    BY DEF SessionKept
  <2>1. PICK r \in Requests : OnRefresh(r, "reply")
    BY DEF IInv, Kept
  <2>2. ~Consumed(call[r].new)
    BY <2>1 DEF IInv, Fresh, OnItsWay, Consumed
  <2>3. QED
    BY <2>1, <2>2
<1>2. QED
  BY <1>1, Invariant, PTL

\* isRefreshing keeps a tab from refreshing twice with one token: it is refused
\* for a consumed token only if another tab was faster or a reply was lost.
THEOREM RefusalHasReason == Spec => []RefusedForAReason
<1>1. IInv => RefusedForAReason
  BY DEF IInv, Own, RefusedForAReason, OnRefresh
<1>2. QED
  BY <1>1, Invariant, PTL

\* A queued request always has a refresh of its tab to wait for.
THEOREM NobodyStranded == Spec => []NoStranded
<1>1. IInv => NoStranded
  BY SessionAssumption DEF IInv, Busy, NoStranded
<1>2. QED
  BY <1>1, Invariant, PTL

=============================================================================
