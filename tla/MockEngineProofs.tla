-------------------------- MODULE MockEngineProofs --------------------------
(***************************************************************************)
(* What holds of the rule that answers and of the variables it shows, for  *)
(* any number of calls, sessions, rules and faults.                        *)
(***************************************************************************)
EXTENDS MockEngine, FiniteSetTheorems, WellFoundedInduction, TLAPS

(***************************************************************************)
(* Which rule answers: what PickBest returns, by induction over the rounds *)
(* of its loop.                                                            *)
(***************************************************************************)

\* Induction over the numbers, for a set of them.
LEMMA Induction ==
  ASSUME NEW S, 0 \in S, \A n \in Nat : n \in S => n + 1 \in S
  PROVE  Nat \subseteq S
<1> SUFFICES ASSUME Nat \ S # {} PROVE FALSE
  OBVIOUS
<1> DEFINE R == OpToRel(<, Nat)
<1>1. \A x, y \in Nat : x < y => <<x, y>> \in R
  BY DEF OpToRel
<1>2. IsWellFoundedOn(R, Nat)
  BY NatLessThanWellFounded
<1> HIDE DEF R
<1>3. PICK x \in Nat \ S : \A y \in Nat \ S : ~(<<y, x>> \in R)
  BY <1>2, WFMin, Zenon
<1>4. x # 0 /\ x - 1 \in Nat /\ x - 1 < x /\ x = (x - 1) + 1
  BY <1>3
<1>5. x - 1 \in S
  BY <1>1, <1>3, <1>4
<1>6. QED
  BY <1>3, <1>4, <1>5

\* A rule scores a number.
LEMMA ScoreIsNumber ==
  ASSUME NEW rule, IsFiniteSet(rule.match), NEW request
  PROVE  ScoreRule(rule, request) \in Nat
<1>1. ASSUME NEW style PROVE FieldsThatMatch(rule, style, request) \in Nat
  <2>1. {f \in rule.match : f.style = style /\ request[f.place] \in f.accepts} \subseteq rule.match
    OBVIOUS
  <2>2. QED
    BY <2>1, FS_Subset, FS_CardinalityType DEF FieldsThatMatch
<1>2. PICK a \in Nat, b \in Nat, d \in Nat :
        /\ a = FieldsThatMatch(rule, "exact", request)
        /\ b = FieldsThatMatch(rule, "regex", request)
        /\ d = FieldsThatMatch(rule, "type", request)
  BY <1>1
<1>3. ScoreRule(rule, request) = IF rule.match = {} THEN 1 ELSE 50 * a + 30 * b + 10 * d
  BY <1>2 DEF ScoreRule, Weight
<1>4. QED
  BY <1>3

\* A rule of a setup, as far as PickBest looks at it.
Ranked(r, request) ==
  /\ r.id \in Nat \ {0} /\ r.priority \in Int
  /\ ScoreRule(r, request) \in Nat

\* The rounds of the loop: f[i] is the best of the first i candidates.
LEMMA Rounds ==
  ASSUME NEW s, NEW request, Len(s) \in Nat
  PROVE  \E f : /\ f[0] = NoRule
                /\ \A i \in 1 .. Len(s) : f[i] = BetterOf(f[i - 1], s[i], request)
                /\ PickBest(s, request) = f[Len(s)]
<1> DEFINE better(b, r) == BetterOf(b, r, request)
           round(f, n) == [i \in 0 .. n |-> IF i = 0 THEN NoRule ELSE better(f[i - 1], s[i])]
           Loops == {n \in Nat : \E f : f = round(f, n)}
           best == CHOOSE f : f = round(f, Len(s))
<1>1. PickBest(s, request) = best[Len(s)]
  BY Zenon DEF PickBest
<1> HIDE DEF better
<1>2. 0 \in Loops
  <2>1. PICK f : f = [i \in 0 .. 0 |-> NoRule]
    OBVIOUS
  <2>2. f = round(f, 0)
    BY <2>1
  <2>3. QED
    BY <2>2
<1>3. ASSUME NEW n \in Nat, n \in Loops PROVE n + 1 \in Loops
  <2>1. PICK f : f = round(f, n)
    BY <1>3
  <2>2. PICK g : g = [i \in 0 .. n + 1 |-> IF i = n + 1 THEN better(f[n], s[n + 1]) ELSE f[i]]
    OBVIOUS
  <2>3. \A i \in 0 .. n : f[i] = IF i = 0 THEN NoRule ELSE better(f[i - 1], s[i])
    BY <2>1
  <2>4. \A i \in 0 .. n : g[i] = f[i] /\ i \in 0 .. n + 1
    BY <2>2
  <2>5. g[n + 1] = better(f[n], s[n + 1])
    BY <2>2
  <2>6. ASSUME NEW i \in 0 .. n + 1
        PROVE  g[i] = IF i = 0 THEN NoRule ELSE better(g[i - 1], s[i])
    <3>1. CASE i = n + 1
      <4>1. n \in 0 .. n /\ i - 1 = n /\ i # 0
        BY <3>1
      <4>2. QED
        BY <2>4, <2>5, <3>1, <4>1
    <3>2. CASE i \in 0 .. n
      <4>1. i # 0 => i - 1 \in 0 .. n
        BY <3>2
      <4>2. QED
        BY <2>3, <2>4, <3>2, <4>1
    <3>3. QED
      BY <3>1, <3>2
  <2>7. g = round(g, n + 1)
    BY <2>2, <2>6
  <2>8. QED
    BY <2>7
<1>4. Nat \subseteq Loops
  <2> HIDE DEF Loops
  <2>1. QED
    BY <1>2, <1>3, Induction
<1>5. \E f : f = round(f, Len(s))
  BY <1>4
<1>6. best = round(best, Len(s))
  <2> HIDE DEF round
  <2>1. QED
    BY <1>5
<1> HIDE DEF best
<1>7. \A i \in 0 .. Len(s) : best[i] = IF i = 0 THEN NoRule ELSE better(best[i - 1], s[i])
  BY <1>6
<1>8. best[0] = NoRule
  BY <1>7
<1>9. ASSUME NEW i \in 1 .. Len(s) PROVE best[i] = BetterOf(best[i - 1], s[i], request)
  <2>1. i \in 0 .. Len(s) /\ i # 0
    OBVIOUS
  <2>2. best[i] = better(best[i - 1], s[i])
    BY <1>7, <2>1
  <2>3. QED
    BY <2>2 DEF better
<1>10. QED
  BY <1>1, <1>8, <1>9

\* Beats orders the rules by score, priority and id.
LEMMA UnbeatenIsTransitive ==
  ASSUME NEW request, NEW a, NEW b, NEW d,
         Ranked(a, request), Ranked(b, request), Ranked(d, request),
         ~Beats(a, b, request), ~Beats(b, d, request)
  PROVE  ~Beats(a, d, request)
BY DEF Ranked, Beats

LEMMA UnbeatenByLower ==
  ASSUME NEW request, NEW a, NEW b, Ranked(a, request), Ranked(b, request),
         ScoreRule(a, request) = 0, ScoreRule(b, request) > 0
  PROVE  ~Beats(a, b, request)
BY DEF Ranked, Beats

LEMMA OneBeats ==
  ASSUME NEW request, NEW a, NEW b, Ranked(a, request), Ranked(b, request),
         Beats(a, b, request)
  PROVE  ~Beats(b, a, request)
BY DEF Ranked, Beats

LEMMA NoRuleIsNone == ASSUME NEW r, r.id \in Nat \ {0} PROVE r # NoRule
BY DEF NoRule

\* What PickBest returns of a list of rules: one that matches and is not beaten.
LEMMA PickBestIsUnbeaten ==
  ASSUME NEW request, NEW rules, \A r \in rules : Ranked(r, request),
         NEW s, Len(s) \in Nat, \A i \in 1 .. Len(s) : s[i] \in rules,
         PickBest(s, request) # NoRule
  PROVE  /\ PickBest(s, request) \in rules
         /\ ScoreRule(PickBest(s, request), request) > 0
         /\ \A i \in 1 .. Len(s) : ~Beats(s[i], PickBest(s, request), request)
<1>1. PICK f : /\ f[0] = NoRule
               /\ \A i \in 1 .. Len(s) : f[i] = BetterOf(f[i - 1], s[i], request)
               /\ PickBest(s, request) = f[Len(s)]
  BY Rounds
<1> DEFINE Found(i) == f[i] \in rules /\ ScoreRule(f[i], request) > 0
           Good(i) ==
             /\ f[i] = NoRule \/ Found(i)
             /\ \A j \in 1 .. i : \/ f[i] = NoRule /\ ScoreRule(s[j], request) = 0
                                  \/ Found(i) /\ ~Beats(s[j], f[i], request)
           GoodRounds == {i \in Nat : i <= Len(s) => Good(i)}
<1>2. 0 \in GoodRounds
  BY <1>1
<1>3. ASSUME NEW i \in Nat, i \in GoodRounds, i + 1 <= Len(s) PROVE Good(i + 1)
  <2>1. Good(i)
    BY <1>3
  <2>2. i + 1 \in 1 .. Len(s) /\ (i + 1) - 1 = i
    BY <1>3
  <2>3. PICK r \in rules : r = s[i + 1]
    BY <2>2
  <2>4. f[i + 1] = BetterOf(f[i], r, request)
    BY <1>1, <2>2, <2>3
  <2>5. Ranked(r, request) /\ r # NoRule
    BY NoRuleIsNone DEF Ranked
  <2>6. \A j \in 1 .. i + 1 : j \in 1 .. i \/ s[j] = r
    BY <2>3
  <2>7. \A j \in 1 .. i : s[j] \in rules /\ Ranked(s[j], request)
    BY <1>3
  <2>8. CASE ScoreRule(r, request) = 0
    <3>1. f[i + 1] = f[i]
      BY <2>4, <2>8 DEF BetterOf
    <3>2. Found(i) => ~Beats(r, f[i], request)
      BY <2>5, <2>8, UnbeatenByLower
    <3>3. ASSUME NEW j \in 1 .. i + 1
          PROVE  \/ f[i] = NoRule /\ ScoreRule(s[j], request) = 0
                 \/ Found(i) /\ ~Beats(s[j], f[i], request)
      <4>1. CASE j \in 1 .. i
        BY <2>1, <4>1
      <4>2. CASE s[j] = r
        BY <2>1, <2>8, <3>2, <4>2
      <4>3. QED
        BY <2>6, <4>1, <4>2
    <3>4. QED
      BY <2>1, <3>1, <3>3
  <2>9. CASE ScoreRule(r, request) # 0 /\ f[i] # NoRule /\ ~Beats(r, f[i], request)
    <3>1. f[i + 1] = f[i] /\ Found(i)
      BY <2>1, <2>4, <2>9 DEF BetterOf
    <3>2. ASSUME NEW j \in 1 .. i + 1 PROVE ~Beats(s[j], f[i], request)
      <4>1. CASE j \in 1 .. i
        BY <2>1, <2>9, <4>1
      <4>2. CASE s[j] = r
        BY <2>9, <4>2
      <4>3. QED
        BY <2>6, <4>1, <4>2
    <3>3. QED
      BY <3>1, <3>2
  <2>10. CASE ScoreRule(r, request) # 0 /\ (f[i] = NoRule \/ Beats(r, f[i], request))
    <3>1. f[i + 1] = r /\ ScoreRule(r, request) > 0
      BY <2>4, <2>5, <2>10 DEF BetterOf, Ranked
    <3>2. ASSUME NEW j \in 1 .. i + 1 PROVE ~Beats(s[j], r, request)
      <4>1. CASE s[j] = r
        BY <2>5, <4>1 DEF Beats, Ranked
      <4>2. CASE j \in 1 .. i /\ f[i] = NoRule
        <5>1. ScoreRule(s[j], request) = 0
          <6>1. ~Found(i)
            BY <4>2, NoRuleIsNone DEF Ranked
          <6>2. QED
            BY <2>1, <4>2, <6>1
        <5>2. QED
          BY <2>5, <2>7, <3>1, <4>2, <5>1, UnbeatenByLower
      <4>3. CASE j \in 1 .. i /\ f[i] # NoRule
        <5>1. Found(i) /\ ~Beats(s[j], f[i], request)
          BY <2>1, <4>3
        <5>2. Ranked(f[i], request) /\ ~Beats(f[i], r, request)
          BY <2>5, <2>10, <4>3, <5>1, OneBeats
        <5>3. QED
          BY <2>5, <2>7, <4>3, <5>1, <5>2, UnbeatenIsTransitive
      <4>4. QED
        BY <2>6, <4>1, <4>2, <4>3
    <3>3. QED
      BY <3>1, <3>2
  <2>11. QED
    BY <2>8, <2>9, <2>10
<1>4. Nat \subseteq GoodRounds
  <2>1. ASSUME NEW i \in Nat, i \in GoodRounds PROVE i + 1 \in GoodRounds
    BY <1>3, <2>1
  <2> HIDE DEF GoodRounds
  <2>2. QED
    BY <1>2, <2>1, Induction
<1>5. Good(Len(s))
  BY <1>4
<1>6. QED
  BY <1>1, <1>5

\* and so the best by score, priority and id.
LEMMA UnbeatenIsBest ==
  ASSUME NEW request, NEW all, \A r \in all : Ranked(r, request),
         NEW rule \in all, ScoreRule(rule, request) > 0,
         \A r \in all : ~Beats(r, rule, request)
  PROVE  IsBest(rule, all, request)
<1> DEFINE score(r) == ScoreRule(r, request)
           highest == {r \in all : \A q \in all : score(q) <= score(r)}
           first == {r \in highest : \A q \in highest : r.priority <= q.priority}
<1>1. \A r \in all : score(r) \in Nat /\ r.priority \in Int /\ r.id \in Nat
  BY DEF Ranked
<1>2. \A r \in all : /\ score(r) <= score(rule)
                     /\ score(r) = score(rule) => \/ rule.priority < r.priority
                                                  \/ rule.priority = r.priority /\ rule.id <= r.id
  BY <1>1 DEF Beats
<1>3. rule \in highest
  BY <1>2
<1>4. \A q \in highest : q \in all /\ score(q) = score(rule)
  BY <1>1, <1>2
<1>5. rule \in first
  BY <1>1, <1>2, <1>3, <1>4
<1>6. \A q \in first : rule.id <= q.id
  <2>1. ASSUME NEW q \in first PROVE rule.id <= q.id
    <3>1. q \in highest /\ q.priority <= rule.priority
      BY <1>3
    <3>2. QED
      BY <1>1, <1>2, <1>4, <3>1
  <2>2. QED
    BY <2>1
<1>7. QED
  BY <1>5, <1>6 DEF IsBest
(***************************************************************************)
(* The inductive invariant.                                                *)
(***************************************************************************)
Fields == {"at", "gone", "session", "request", "list", "rule", "next", "shown", "wrote", "over"}
AfterMatch == {"delay", "extract", "substitute", "reply", "record", "done"}
Places == {"new", "apis", "failed", "refused", "unmatched"} \union AfterMatch
Variables == [Names -> Extracted \union {NoValue}]

\* Until it is matched a call has no rule, and from then on the rule of the setup
\* it has been matched with.
CallTypes(c) ==
  /\ DOMAIN call[c] = Fields
  /\ call[c].at \in Places
  /\ call[c].session \in Sessions
  /\ call[c].list \subseteq setup.rules
  /\ call[c].rule \in setup.rules \union {NoRule}
  /\ call[c].at \in {"new", "apis"} => call[c].rule = NoRule
  /\ call[c].at \in AfterMatch => call[c].rule \in setup.rules
  /\ call[c].next \in Nat \ {0}
  /\ call[c].shown \in Variables
  /\ call[c].wrote \subseteq Names
  /\ call[c].over \in Variables

Types ==
  /\ setup \in Setups
  /\ call = [c \in Calls |-> call[c]]
  /\ \A c \in Calls : CallTypes(c)
  /\ bag \in [Sessions -> Variables]
  /\ faults \in Nat

\* A value was extracted by a call of the session, by an instruction that is over.
Of(v, session) ==
  v # NoValue => ~At(v.by, "new") /\ call[v.by].session = session /\ v.nth < call[v.by].next

\* Bags hold values of their sessions, and so does all that was read from them.
Apart ==
  /\ \A c \in Calls : At(c, "new") => call[c].shown = Empty /\ call[c].over = Empty
  /\ \A s \in Sessions, n \in Names : Of(bag[s][n], s)
  /\ \A c \in Calls, n \in Names : /\ Of(call[c].shown[n], call[c].session)
                                   /\ Of(call[c].over[n], call[c].session)

Before == {"new", "apis", "delay"}
\* What a call has stored, or a later value, is in its bag until it has been
\* substituted.
Stored ==
  \A c \in Calls :
    /\ call[c].at \in Before => call[c].wrote = {}
    /\ call[c].at \in {"extract", "substitute"} =>
         \A n \in call[c].wrote :
           bag[call[c].session][n] \notin {NoValue, call[c].over[n]}

\* OwnExtractShown, from the substitution on.
Substituted ==
  \A c \in Calls : call[c].at \in {"reply", "record", "done"} =>
    \A n \in call[c].wrote \intersect call[c].rule.shows :
      call[c].shown[n] \notin {NoValue, call[c].over[n]}

\* A bag has an expiry as long as it holds a variable, and one that never comes
\* only after a failure.
Expiry ==
  /\ ttl \in [Sessions -> 0 .. Forever]
  /\ \A s \in Sessions : /\ (ttl[s] = 0) <=> (bag[s] = Empty)
                         /\ ttl[s] = Forever => faults > 0

HitsAreDone == \A c \in hits : c \in Calls /\ At(c, "done") /\ call[c].rule.api \in apis

IInv == Types /\ Apart /\ Stored /\ Substituted /\ Expiry /\ HitsAreDone /\ BestRuleServed

(***************************************************************************)
(* What the assumptions say of the rules, values and windows.              *)
(***************************************************************************)
LEMMA RulesAreRanked ==
  ASSUME setup \in Setups, NEW r \in setup.rules
  PROVE  /\ \A request : Ranked(r, request)
         /\ r # NoRule
         /\ r.shows \subseteq Names
         /\ r.extracts \in Seq([as : Names, finds : {"value", "nothing", "bad"}])
<1>1. /\ r.id \in Nat \ {0} /\ r.priority \in Int
      /\ r.extracts \in Seq([as : Names, finds : {"value", "nothing", "bad"}])
      /\ r.shows \subseteq Names
      /\ IsFiniteSet(r.match)
  BY SetupAssumption
<1>2. QED
  BY <1>1, ScoreIsNumber, NoRuleIsNone DEF Ranked

LEMMA ValuesAreExtracted ==
  /\ NoValue \notin Extracted
  /\ \A c \in Calls, i \in Nat : [by |-> c, nth |-> i] \in Extracted /\ [by |-> c, nth |-> i] # NoValue
  /\ \A v \in Extracted : v.by \in Calls /\ v.nth \in Nat
  /\ Empty \in Variables /\ \A n \in Names : Empty[n] = NoValue
BY MockAssumption DEF Extracted, Variables, Empty

LEMMA OrderOfUses == AfterUse("extract") = "substitute" /\ AfterUse("substitute") = "reply"
BY DEF AfterUse, FirstUse

LEMMA FailuresCount ==
  ASSUME faults \in Nat, NEW c, NEW ok \in BOOLEAN, Try(c, ok)
  PROVE  faults' \in Nat /\ faults' >= faults /\ (~ok /\ ~call[c].gone => faults' > 0)
BY DEF Try

LEMMA InitIsGood == Init => IInv
<1> SUFFICES ASSUME Init PROVE IInv
  OBVIOUS
<1>1. Start.session \in Sessions
  BY MockAssumption DEF Start
<1>2. \A c \in Calls : call[c] = Start
  BY DEF Init
<1>3. /\ DOMAIN Start = Fields /\ Start.at = "new" /\ Start.rule = NoRule /\ Start.list = {}
      /\ Start.next = 1 /\ Start.shown = Empty /\ Start.wrote = {} /\ Start.over = Empty
  BY DEF Start, Fields
<1>4. \A c \in Calls : CallTypes(c)
  BY <1>1, <1>2, <1>3, ValuesAreExtracted DEF CallTypes, Places, AfterMatch
<1>5. Types
  BY <1>4, ValuesAreExtracted DEF Init, Types
<1>6. Apart
  BY <1>2, <1>3, ValuesAreExtracted DEF Init, Apart, Of
<1>7. Stored /\ Substituted
  BY <1>2, <1>3 DEF Stored, Substituted, Before
<1>8. Expiry
  BY MockAssumption DEF Init, Expiry, Forever
<1>9. HitsAreDone /\ BestRuleServed
  BY <1>2, <1>3 DEF Init, HitsAreDone, BestRuleServed, Chosen
<1>10. QED
  BY <1>5, <1>6, <1>7, <1>8, <1>9 DEF IInv

(***************************************************************************)
(* A step of one call.                                                     *)
(***************************************************************************)
\* Only the record of c changes.
Moves(c) ==
  /\ setup' = setup
  /\ call' = [d \in Calls |-> call'[d]]
  /\ \A d \in Calls \ {c} : call'[d] = call[d]

\* What c has read, stored and chosen stays.
Keeps(c) ==
  /\ call'[c].session = call[c].session
  /\ call'[c].shown = call[c].shown
  /\ call'[c].wrote = call[c].wrote
  /\ call'[c].over = call[c].over
KeepsChoice(c) ==
  /\ call'[c].request = call[c].request
  /\ call'[c].list = call[c].list
  /\ call'[c].rule = call[c].rule

\* A step of c that touches neither its variables nor any bag.
Quiet(c) ==
  /\ Moves(c) /\ Keeps(c)
  /\ CallTypes(c)'
  /\ bag' = bag
  /\ faults' \in Nat
  /\ ~At(c, "new") /\ call'[c].at # "new"
  /\ call'[c].next >= call[c].next

\* The places a quiet step may lead to from where c is.
Onward(c) ==
  /\ call'[c].at \in Before => call[c].at \in Before
  /\ call'[c].at \in {"extract", "substitute"} =>
       call[c].at \in Before \union {"extract", "substitute"}
  /\ call'[c].at \in {"reply", "record", "done"} =>
       /\ call'[c].rule = call[c].rule
       /\ call[c].at \in {"reply", "record"} \/ call[c].rule.shows = {}

LEMMA TypesOfOthers ==
  ASSUME Types, NEW c \in Calls, Moves(c), CallTypes(c)', bag' \in [Sessions -> Variables],
         faults' \in Nat
  PROVE  Types'
<1>1. ASSUME NEW d \in Calls PROVE CallTypes(d)'
  <2>1. CASE d = c
    BY <2>1
  <2>2. CASE d # c
    <3>1. CallTypes(d) /\ call'[d] = call[d]
      BY <2>2 DEF Types, Moves
    <3>2. QED
      BY <3>1 DEF CallTypes, Moves
  <2>3. QED
    BY <2>1, <2>2
<1>2. QED
  BY <1>1 DEF Types, Moves

\* A value keeps its origin while calls move on.
LEMMA OriginsKept ==
  ASSUME Types, Types', NEW c \in Calls, Moves(c),
         ~At(c, "new") => /\ call'[c].at # "new" /\ call'[c].session = call[c].session
                          /\ call'[c].next >= call[c].next,
         NEW v \in Extracted \union {NoValue}, NEW s, Of(v, s)
  PROVE  Of(v, s)'
<1> SUFFICES ASSUME v # NoValue PROVE Of(v, s)'
  BY DEF Of
<1>1. v \in Extracted /\ v.by \in Calls /\ v.nth \in Nat
  BY ValuesAreExtracted
<1>2. ~At(v.by, "new") /\ call[v.by].session = s /\ v.nth < call[v.by].next
  BY DEF Of
<1>3. call[v.by].next \in Nat /\ call'[v.by].next \in Nat
  BY <1>1 DEF Types, CallTypes
<1>4. CASE v.by = c
  BY <1>2, <1>3, <1>1, <1>4 DEF Of, At
<1>5. CASE v.by # c
  <2>1. call'[v.by] = call[v.by]
    BY <1>1, <1>5 DEF Moves
  <2>2. QED
    BY <1>2, <2>1 DEF Of, At
<1>6. QED
  BY <1>4, <1>5

\* Values of variables.
LEMMA VariableValues ==
  ASSUME Types
  PROVE  /\ \A s \in Sessions, n \in Names : bag[s][n] \in Extracted \union {NoValue}
         /\ \A c \in Calls, n \in Names : /\ call[c].shown[n] \in Extracted \union {NoValue}
                                          /\ call[c].over[n] \in Extracted \union {NoValue}
BY DEF Types, CallTypes, Variables

LEMMA QuietStepIsGood ==
  ASSUME Types, Apart, Stored, Substituted, NEW c \in Calls, Quiet(c), Onward(c)
  PROVE  Types' /\ Apart' /\ Stored' /\ Substituted'
<1>1. Types'
  BY TypesOfOthers DEF Quiet, Types
<1>2. ASSUME NEW v \in Extracted \union {NoValue}, NEW s, Of(v, s) PROVE Of(v, s)'
  BY <1>1, <1>2, OriginsKept DEF Quiet, Keeps
<1>3. \A d \in Calls : /\ call'[d].session = call[d].session /\ call'[d].shown = call[d].shown
                       /\ call'[d].wrote = call[d].wrote /\ call'[d].over = call[d].over
  BY DEF Quiet, Moves, Keeps
<1>4. Apart'
  <2>1. ASSUME NEW d \in Calls, At(d, "new")' PROVE call'[d].shown = Empty /\ call'[d].over = Empty
    BY <2>1 DEF Apart, Quiet, Moves, At
  <2>2. ASSUME NEW s \in Sessions, NEW n \in Names PROVE Of(bag[s][n], s)'
    <3>1. PICK v : v = bag[s][n]
      OBVIOUS
    <3>2. Of(v, s)'
      BY <1>2, <3>1, VariableValues DEF Apart
    <3>3. v = bag'[s][n]
      BY <3>1 DEF Quiet
    <3>4. QED
      BY <3>2, <3>3 DEF Of
  <2>3. ASSUME NEW d \in Calls, NEW n \in Names
        PROVE  Of(call[d].shown[n], call[d].session)' /\ Of(call[d].over[n], call[d].session)'
    <3>1. PICK v, w, s : v = call[d].shown[n] /\ w = call[d].over[n] /\ s = call[d].session
      OBVIOUS
    <3>2. Of(v, s)' /\ Of(w, s)'
      BY <1>2, <3>1, VariableValues DEF Apart
    <3>3. v = call'[d].shown[n] /\ w = call'[d].over[n] /\ s = call'[d].session
      BY <1>3, <3>1
    <3>4. QED
      BY <3>2, <3>3 DEF Of
  <2>4. QED
    BY <2>1, <2>2, <2>3 DEF Apart, Empty
<1>5. Stored'
  BY <1>3 DEF Stored, Quiet, Moves, Onward, Before
<1>6. Substituted'
  BY <1>3 DEF Substituted, Quiet, Moves, Onward
<1>7. QED
  BY <1>1, <1>4, <1>5, <1>6

\* The other parts of the invariant, for steps that keep what they look at.
LEMMA ChoiceKept ==
  ASSUME BestRuleServed, NEW c \in Calls, Moves(c), KeepsChoice(c)
  PROVE  BestRuleServed'
<1>1. \A d \in Calls : /\ call'[d].request = call[d].request /\ call'[d].list = call[d].list
                       /\ call'[d].rule = call[d].rule
  BY DEF Moves, KeepsChoice
<1>2. QED
  BY <1>1 DEF BestRuleServed, Chosen

LEMMA ExpiryKept ==
  ASSUME Expiry, UNCHANGED <<bag, ttl>>, faults \in Nat, faults' \in Nat, faults' >= faults
  PROVE  Expiry'
BY DEF Expiry, Empty

LEMMA HitsKept ==
  ASSUME HitsAreDone, NEW c \in Calls, Moves(c), ~At(c, "done"), UNCHANGED <<hits, apis>>
  PROVE  HitsAreDone'
BY DEF HitsAreDone, Moves, At
(***************************************************************************)
(* Every step keeps the invariant.                                         *)
(***************************************************************************)
\* A step that only sends c elsewhere.
LEMMA PlaceChanges ==
  ASSUME Types, NEW c \in Calls, NEW place \in Places, To(c, place), setup' = setup,
         call[c].rule = NoRule => place \notin AfterMatch, place \notin {"new", "apis"}
  PROVE  Moves(c) /\ Keeps(c) /\ KeepsChoice(c) /\ CallTypes(c)'
         /\ call'[c].at = place /\ call'[c].next = call[c].next
<1>1. CallTypes(c) /\ call = [d \in Calls |-> call[d]]
  BY DEF Types
<1>2. /\ Moves(c) /\ call'[c].at = place
      /\ call'[c] = [call[c] EXCEPT !.at = place]
  BY <1>1 DEF Moves, To, CallTypes, Fields
<1>3. /\ DOMAIN call'[c] = Fields /\ Keeps(c) /\ KeepsChoice(c) /\ call'[c].next = call[c].next
  BY <1>1, <1>2 DEF CallTypes, Fields, Keeps, KeepsChoice
<1>4. CallTypes(c)'
  BY <1>1, <1>2, <1>3 DEF CallTypes, Keeps, KeepsChoice, Moves
<1>5. QED
  BY <1>2, <1>3, <1>4

\* A request arrives, with a session, and has no variables yet.
LEMMA LoadRulesIsGood == ASSUME IInv, NEW c \in Calls, LoadRules(c) PROVE IInv'
<1> USE DEF IInv
<1>1. PICK s \in Sessions, q \in setup.requests, ok \in BOOLEAN :
        /\ Try(c, ok)
        /\ call' = [call EXCEPT ![c].session = s, ![c].request = q,
             ![c].at = IF ok THEN "apis" ELSE "failed",
             ![c].list = IF ok THEN {r \in setup.rules : r.api \in apis} ELSE {}]
  BY DEF LoadRules
<1>2. At(c, "new") /\ UNCHANGED <<setup, apis, bag, ttl, hits>>
  BY DEF LoadRules
<1>3. CallTypes(c) /\ call = [d \in Calls |-> call[d]]
  BY DEF Types
<1>4. PICK place \in {"apis", "failed"}, list \in SUBSET setup.rules :
        call' = [call EXCEPT ![c].session = s, ![c].request = q, ![c].at = place, ![c].list = list]
  <2>1. (IF ok THEN "apis" ELSE "failed") \in {"apis", "failed"}
        /\ (IF ok THEN {r \in setup.rules : r.api \in apis} ELSE {}) \in SUBSET setup.rules
    OBVIOUS
  <2>2. QED
    BY <1>1, <2>1
<1>5. /\ Moves(c)
      /\ call'[c] = [call[c] EXCEPT !.session = s, !.request = q, !.at = place, !.list = list]
  BY <1>2, <1>3, <1>4 DEF Moves, CallTypes, Fields
<1>6. /\ DOMAIN call'[c] = Fields
      /\ call'[c].at = place /\ call'[c].session = s /\ call'[c].list = list
      /\ call'[c].rule = call[c].rule /\ call'[c].next = call[c].next
      /\ call'[c].shown = call[c].shown /\ call'[c].wrote = call[c].wrote
      /\ call'[c].over = call[c].over
  BY <1>3, <1>5 DEF CallTypes, Fields
<1>7. faults' \in Nat /\ faults' >= faults
  BY <1>1, FailuresCount DEF Types
<1>8. call[c].rule = NoRule
  BY <1>2, <1>3 DEF CallTypes, At
<1>9. CallTypes(c)'
  BY <1>2, <1>3, <1>6, <1>8 DEF CallTypes, Places, AfterMatch
<1>10. Types'
  BY <1>2, <1>5, <1>7, <1>9, TypesOfOthers DEF Types
<1>11. call[c].shown = Empty /\ call[c].over = Empty /\ call[c].wrote = {}
  BY <1>2 DEF Apart, Stored, At, Before
<1>12. ASSUME NEW v \in Extracted \union {NoValue}, NEW t, Of(v, t) PROVE Of(v, t)'
  BY <1>2, <1>5, <1>10, <1>12, OriginsKept
<1>13. Apart'
  <2>1. ASSUME NEW d \in Calls, At(d, "new")' PROVE call'[d].shown = Empty /\ call'[d].over = Empty
    BY <1>5, <1>6, <2>1 DEF Apart, Moves, At
  <2>2. ASSUME NEW t \in Sessions, NEW n \in Names PROVE Of(bag[t][n], t)'
    <3>1. PICK v : v = bag[t][n]
      OBVIOUS
    <3>2. Of(v, t)'
      BY <1>12, <3>1, VariableValues DEF Apart
    <3>3. QED
      BY <1>2, <3>1, <3>2 DEF Of
  <2>3. ASSUME NEW d \in Calls, NEW n \in Names
        PROVE  Of(call[d].shown[n], call[d].session)' /\ Of(call[d].over[n], call[d].session)'
    <3>1. CASE d = c
      <4>1. call'[c].shown[n] = NoValue /\ call'[c].over[n] = NoValue
        BY <1>6, <1>11, ValuesAreExtracted
      <4>2. QED
        BY <3>1, <4>1 DEF Of
    <3>2. CASE d # c
      <4>1. PICK v, w, t : v = call[d].shown[n] /\ w = call[d].over[n] /\ t = call[d].session
        OBVIOUS
      <4>2. Of(v, t)' /\ Of(w, t)'
        BY <1>12, <4>1, VariableValues DEF Apart
      <4>3. call'[d] = call[d]
        BY <1>5, <3>2 DEF Moves
      <4>4. QED
        BY <4>1, <4>2, <4>3 DEF Of
    <3>3. QED
      BY <3>1, <3>2
  <2>4. QED
    BY <2>1, <2>2, <2>3 DEF Apart, Empty
<1>14. Stored' /\ Substituted'
  BY <1>2, <1>5, <1>6, <1>11 DEF Stored, Substituted, Moves, Before
<1>15. BestRuleServed'
  BY <1>5, <1>6, <1>8 DEF BestRuleServed, Chosen, Moves
<1>16. Expiry' /\ HitsAreDone'
  BY <1>2, <1>5, <1>7, ExpiryKept, HitsKept DEF Types, At
<1>17. QED
  BY <1>10, <1>13, <1>14, <1>15, <1>16

\* The list is searched in its order: PickBest finds the best of the candidates.
LEMMA ChosenIsBest ==
  ASSUME setup \in Setups, NEW all \in SUBSET setup.rules, NEW request,
         NEW s \in InOrder(all), PickBest(s, request) # NoRule
  PROVE  PickBest(s, request) \in all /\ IsBest(PickBest(s, request), all, request)
<1>1. \A r \in all : Ranked(r, request)
  BY RulesAreRanked
<1>2. Cardinality(all) \in Nat
  BY SetupAssumption, FS_Subset, FS_CardinalityType
<1>3. s \in [1 .. Cardinality(all) -> all] /\ \A r \in all : \E i \in DOMAIN s : s[i] = r
  BY DEF InOrder
<1>4. Len(s) = Cardinality(all) /\ \A i \in 1 .. Len(s) : s[i] \in all
  BY <1>2, <1>3
<1>5. PICK best : best = PickBest(s, request)
  OBVIOUS
<1>6. best \in all /\ ScoreRule(best, request) > 0 /\ \A i \in 1 .. Len(s) : ~Beats(s[i], best, request)
  BY <1>1, <1>2, <1>4, <1>5, PickBestIsUnbeaten
<1>7. \A r \in all : ~Beats(r, best, request)
  BY <1>3, <1>4, <1>6
<1>8. QED
  BY <1>1, <1>5, <1>6, <1>7, UnbeatenIsBest

LEMMA MatchIsGood == ASSUME IInv, NEW c \in Calls, Match(c) PROVE IInv'
<1> USE DEF IInv
<1>1. PICK ok \in BOOLEAN, candidates \in InOrder(Candidates(c)) :
        /\ Try(c, ok)
        /\ \/ To(c, "failed") \/ To(c, "refused") \/ To(c, "unmatched")
           \/ /\ PickBest(candidates, call[c].request) # NoRule
              /\ call' = [call EXCEPT ![c].rule = PickBest(candidates, call[c].request),
                            ![c].at = "delay", ![c].list = Candidates(c)]
  BY DEF Match
<1>2. At(c, "apis") /\ UNCHANGED <<setup, apis, bag, ttl, hits>>
  BY DEF Match
<1>3. CallTypes(c) /\ call = [d \in Calls |-> call[d]]
  BY DEF Types
<1>4. faults' \in Nat /\ faults' >= faults
  BY <1>1, FailuresCount DEF Types
<1>5. ASSUME NEW place \in {"failed", "refused", "unmatched"}, To(c, place) PROVE IInv'
  <2>1. place \in Places \ AfterMatch /\ place \notin {"new", "apis"}
    BY DEF Places, AfterMatch
  <2>2. Moves(c) /\ Keeps(c) /\ KeepsChoice(c) /\ CallTypes(c)'
        /\ call'[c].at = place /\ call'[c].next = call[c].next
    BY <1>2, <1>5, <2>1, PlaceChanges
  <2>3. Quiet(c) /\ Onward(c)
    BY <1>2, <1>3, <1>4, <2>2 DEF Quiet, Onward, At, Before, CallTypes
  <2>4. Expiry' /\ HitsAreDone' /\ BestRuleServed'
    BY <1>2, <1>4, <2>2, ExpiryKept, HitsKept, ChoiceKept DEF Types, At
  <2>5. QED
    BY <2>3, <2>4, QuietStepIsGood
<1>6. ASSUME PickBest(candidates, call[c].request) # NoRule,
             call' = [call EXCEPT ![c].rule = PickBest(candidates, call[c].request),
                        ![c].at = "delay", ![c].list = Candidates(c)]
      PROVE  IInv'
  <2>1. PICK all : all = Candidates(c)
    OBVIOUS
  <2>2. all \in SUBSET setup.rules
    BY <1>3, <2>1 DEF Candidates, CallTypes
  <2>3. PICK best : best = PickBest(candidates, call[c].request)
    OBVIOUS
  <2>4. best \in all /\ IsBest(best, all, call[c].request)
    BY <1>6, <2>1, <2>2, <2>3, ChosenIsBest DEF Types
  <2>5. /\ Moves(c)
        /\ call'[c] = [call[c] EXCEPT !.rule = best, !.at = "delay", !.list = all]
    BY <1>2, <1>3, <1>6, <2>1, <2>3 DEF Moves, CallTypes, Fields
  <2>6. /\ DOMAIN call'[c] = Fields /\ Keeps(c) /\ call'[c].next = call[c].next
        /\ call'[c].at = "delay" /\ call'[c].rule = best /\ call'[c].list = all
        /\ call'[c].request = call[c].request
    BY <1>3, <2>5 DEF CallTypes, Fields, Keeps
  <2>7. CallTypes(c)'
    BY <1>2, <1>3, <2>2, <2>4, <2>6 DEF CallTypes, Keeps, Places, AfterMatch
  <2>8. Quiet(c) /\ Onward(c)
    BY <1>2, <1>3, <1>4, <2>5, <2>6, <2>7 DEF Quiet, Onward, At, Before, CallTypes
  <2>9. BestRuleServed'
    BY <2>4, <2>5, <2>6 DEF BestRuleServed, Chosen, Moves
  <2>10. Expiry' /\ HitsAreDone'
    BY <1>2, <1>4, <2>5, ExpiryKept, HitsKept DEF Types, At
  <2>11. QED
    BY <2>8, <2>9, <2>10, QuietStepIsGood
<1>7. QED
  BY <1>1, <1>5, <1>6

\* Steps that only change the place of the call, none of whose hits is counted yet.
LEMMA PlaceStepIsGood == ASSUME IInv, NEW c \in Calls, Delay(c) \/ Reply(c) PROVE IInv'
<1> USE DEF IInv
<1>1. UNCHANGED <<setup, apis, bag, ttl, hits, faults>>
  BY DEF Delay, Reply
<1>2. PICK place : /\ To(c, place)
                   /\ \/ At(c, "delay") /\ place \in {"failed", "extract"}
                      \/ At(c, "reply") /\ place = "record"
  BY DEF Delay, Reply, FirstUse
<1>3. CallTypes(c) /\ call[c].rule # NoRule
  BY <1>2, RulesAreRanked DEF Types, CallTypes, At, AfterMatch
<1>4. place \in Places /\ place \notin {"new", "apis"}
  BY <1>2 DEF Places, AfterMatch
<1>5. Moves(c) /\ Keeps(c) /\ KeepsChoice(c) /\ CallTypes(c)'
      /\ call'[c].at = place /\ call'[c].next = call[c].next
  BY <1>1, <1>2, <1>3, <1>4, PlaceChanges
<1>6. Quiet(c) /\ Onward(c)
  <2>1. faults' \in Nat /\ call[c].next \in Nat
    BY <1>1, <1>3 DEF Types, CallTypes
  <2>2. QED
    BY <1>1, <1>2, <1>4, <1>5, <2>1 DEF Quiet, Onward, At, Before, KeepsChoice
<1>7. Expiry' /\ HitsAreDone' /\ BestRuleServed'
  <2>1. faults' \in Nat /\ faults' >= faults
    BY <1>1 DEF Types
  <2>2. QED
    BY <1>1, <1>2, <1>5, <2>1, ExpiryKept, HitsKept, ChoiceKept DEF Types, At
<1>8. QED
  BY <1>6, <1>7, QuietStepIsGood

\* The hit of a call that is now over, of a rule whose api exists.
LEMMA RecordIsGood == ASSUME IInv, NEW c \in Calls, Record(c) PROVE IInv'
<1> USE DEF IInv
<1>1. PICK ok \in BOOLEAN :
        /\ Try(c, ok)
        /\ hits' = IF ok /\ call[c].rule.api \in apis THEN hits \union {c} ELSE hits
  BY DEF Record
<1>2. At(c, "record") /\ To(c, "done") /\ UNCHANGED <<setup, apis, bag, ttl>>
  BY DEF Record
<1>3. CallTypes(c) /\ call[c].rule # NoRule
  BY <1>2, RulesAreRanked DEF Types, CallTypes, At, AfterMatch
<1>4. Moves(c) /\ Keeps(c) /\ KeepsChoice(c) /\ CallTypes(c)'
      /\ call'[c].at = "done" /\ call'[c].next = call[c].next
  <2>1. "done" \in Places /\ "done" \notin {"new", "apis"}
    BY DEF Places, AfterMatch
  <2>2. QED
    BY <1>2, <1>3, <2>1, PlaceChanges
<1>5. faults' \in Nat /\ faults' >= faults
  BY <1>1, FailuresCount DEF Types
<1>6. Quiet(c) /\ Onward(c)
  BY <1>2, <1>3, <1>4, <1>5 DEF Quiet, Onward, At, Before, KeepsChoice, CallTypes
<1>7. Expiry' /\ BestRuleServed'
  BY <1>2, <1>4, <1>5, ExpiryKept, ChoiceKept DEF Types
<1>8. HitsAreDone'
  BY <1>1, <1>2, <1>4 DEF HitsAreDone, At, Moves, KeepsChoice
<1>9. QED
  BY <1>6, <1>7, <1>8, QuietStepIsGood

\* A client that leaves changes nothing but that.
LEMMA DisconnectIsGood == ASSUME IInv, NEW c \in Calls, Disconnect(c) PROVE IInv'
<1> USE DEF IInv
<1>1. /\ call[c].at \notin {"new", "done"} /\ call' = [call EXCEPT ![c].gone = TRUE]
      /\ UNCHANGED <<setup, apis, bag, ttl, hits>> /\ faults' = faults + 1
  BY DEF Disconnect, Ended
<1>2. CallTypes(c) /\ call = [d \in Calls |-> call[d]]
  BY DEF Types
<1>3. Moves(c) /\ call'[c] = [call[c] EXCEPT !.gone = TRUE]
  BY <1>1, <1>2 DEF Moves, CallTypes, Fields
<1>4. /\ DOMAIN call'[c] = Fields /\ Keeps(c) /\ KeepsChoice(c)
      /\ call'[c].next = call[c].next /\ call'[c].at = call[c].at
  BY <1>2, <1>3 DEF CallTypes, Fields, Keeps, KeepsChoice
<1>5. CallTypes(c)'
  BY <1>2, <1>3, <1>4 DEF CallTypes, Keeps, KeepsChoice, Moves
<1>6. faults' \in Nat /\ faults' >= faults
  BY <1>1 DEF Types
<1>7. Quiet(c) /\ Onward(c)
  <2>1. call[c].next \in Nat
    BY <1>2 DEF CallTypes
  <2>2. QED
    BY <1>1, <1>3, <1>4, <1>5, <1>6, <2>1 DEF Quiet, Onward, At, Before, KeepsChoice
<1>8. Expiry' /\ HitsAreDone' /\ BestRuleServed'
  BY <1>1, <1>3, <1>4, <1>6, ExpiryKept, HitsKept, ChoiceKept DEF Types, At
<1>9. QED
  BY <1>7, <1>8, QuietStepIsGood

\* The window a bag has left once a value is stored.
LEMMA WindowAfterSet ==
  ASSUME NEW left \in 0 .. Forever, NEW expires \in BOOLEAN
  PROVE  /\ TtlAfterSet(left, expires) \in 1 .. Forever
         /\ TtlAfterSet(left, expires) = Forever => ~expires
<1>1. Window \in Nat \ {0} /\ Forever = Window + 1
  BY MockAssumption DEF Forever
<1>2. CASE expires
  BY <1>1, <1>2 DEF TtlAfterSet
<1>3. CASE ~expires
  BY <1>1, <1>3 DEF TtlAfterSet
<1>4. QED
  BY <1>2, <1>3

\* A value is put into a bag, and the window of the bag is changed.
Puts(s, name, v, left) ==
  /\ bag' = [bag EXCEPT ![s][name] = v]
  /\ ttl' = [ttl EXCEPT ![s] = left]

LEMMA Storing ==
  ASSUME Types, Expiry, NEW s \in Sessions, NEW name \in Names, NEW v \in Extracted,
         NEW left \in 1 .. Forever,
         Puts(s, name, v, left),
         faults' \in Nat, faults' >= faults, left = Forever => faults' > 0
  PROVE  /\ bag' \in [Sessions -> Variables]
         /\ \A t \in Sessions, n \in Names :
              bag'[t][n] = IF t = s /\ n = name THEN v ELSE bag[t][n]
         /\ Expiry'
<1>1. bag \in [Sessions -> Variables] /\ ttl \in [Sessions -> 0 .. Forever] /\ v # NoValue
  BY ValuesAreExtracted DEF Types, Expiry
<1> USE DEF Puts
<1>2. \A t \in Sessions, n \in Names :
        bag'[t][n] = IF t = s /\ n = name THEN v ELSE bag[t][n]
  BY <1>1 DEF Variables
<1>3. bag' \in [Sessions -> Variables]
  BY <1>1 DEF Variables
<1>4. Forever \in Nat \ {0} /\ left \in 0 .. Forever /\ left # 0
  BY MockAssumption DEF Forever
<1>6. /\ ttl' \in [Sessions -> 0 .. Forever]
      /\ ttl'[s] = left
      /\ \A t \in Sessions \ {s} : ttl'[t] = ttl[t]
  BY <1>1, <1>4
<1>7. ASSUME NEW t \in Sessions
      PROVE  /\ (ttl'[t] = 0) <=> (bag'[t] = Empty)
             /\ ttl'[t] = Forever => faults' > 0
  <2>1. CASE t = s
    <3>1. bag'[s] # Empty
      <4>1. bag'[s][name] = v /\ Empty[name] = NoValue
        BY <1>2, ValuesAreExtracted
      <4>2. QED
        BY <1>1, <4>1
    <3>2. ttl'[s] # 0 /\ (ttl'[s] = Forever => faults' > 0)
      BY <1>4, <1>6
    <3>3. QED
      BY <2>1, <3>1, <3>2
  <2>2. CASE t # s
    <3>1. bag'[t] = bag[t] /\ ttl'[t] = ttl[t]
      BY <1>1, <1>6, <2>2
    <3>2. faults \in Nat
      BY DEF Types
    <3>3. QED
      BY <3>1, <3>2 DEF Expiry
  <2>3. QED
    BY <2>1, <2>2
<1>8. Expiry'
  BY <1>6, <1>7 DEF Expiry, Empty
<1>9. QED
  BY <1>2, <1>3, <1>8

\* An instruction that stores a value: what was there before is older, and no call
\* stores a value twice, so none puts an overwritten one back.
LEMMA StoringIsGood ==
  ASSUME IInv, NEW c \in Calls, At(c, "extract"), NEW name \in Names, Moves(c),
         NEW left \in 1 .. Forever,
         bag' = [bag EXCEPT ![call[c].session][name] = [by |-> c, nth |-> call[c].next]],
         ttl' = [ttl EXCEPT ![call[c].session] = left],
         faults' \in Nat, faults' >= faults, left = Forever => faults' > 0,
         CallTypes(c)', call'[c].at \in {"extract", "substitute"},
         call'[c].session = call[c].session, call'[c].shown = call[c].shown,
         KeepsChoice(c),
         call'[c].next = call[c].next + 1,
         call'[c].wrote = call[c].wrote \union {name},
         call'[c].over = [call[c].over EXCEPT ![name] = bag[call[c].session][name]],
         UNCHANGED <<apis, hits>>
  PROVE  IInv'
<1> USE DEF IInv
<1>1. PICK s \in Sessions, i \in Nat, v \in Extracted :
        /\ s = call[c].session /\ i = call[c].next /\ v = [by |-> c, nth |-> i]
  BY ValuesAreExtracted DEF Types, CallTypes
<1>2. v.by = c /\ v.nth = i /\ v # NoValue
  BY <1>1, ValuesAreExtracted
<1>3. /\ bag' \in [Sessions -> Variables]
      /\ \A t \in Sessions, n \in Names :
           bag'[t][n] = IF t = s /\ n = name THEN v ELSE bag[t][n]
      /\ Expiry'
  <2>1. Types /\ Expiry
    OBVIOUS
  <2>2. bag' = [bag EXCEPT ![s][name] = v] /\ ttl' = [ttl EXCEPT ![s] = left]
    BY <1>1
  <2> HIDE DEF IInv
  <2>3. Puts(s, name, v, left)
    BY <2>2 DEF Puts
  <2>4. faults' \in Nat /\ faults' >= faults /\ (left = Forever => faults' > 0)
    OBVIOUS
  <2>5. QED
    BY <2>1, <2>3, <2>4, Storing
<1>4. Types'
  BY <1>3, TypesOfOthers
<1>5. ASSUME NEW w \in Extracted \union {NoValue}, NEW t, Of(w, t) PROVE Of(w, t)'
  <2>1. call[c].next \in Nat
    BY <1>1
  <2>2. QED
    BY <1>4, <1>5, <2>1, OriginsKept DEF At
<1>6. Of(v, s)'
  BY <1>1, <1>2 DEF Of, At
\* nobody has seen the value before
<1>7. \A w, t : w = v => ~Of(w, t)
  BY <1>1, <1>2 DEF Of
<1>8. \A t \in Sessions, n \in Names : bag[t][n] # v
  BY <1>7 DEF Apart
<1>9. \A d \in Calls, n \in Names : call[d].over[n] # v
  BY <1>7 DEF Apart
<1>10. /\ \A d \in Calls \ {c} : call'[d] = call[d]
       /\ \A n \in Names : call'[c].over[n] = IF n = name THEN bag[s][n] ELSE call[c].over[n]
  BY <1>1 DEF Moves, Types, CallTypes, Variables
<1>11. Apart'
  <2>1. ASSUME NEW d \in Calls, At(d, "new")' PROVE call'[d].shown = Empty /\ call'[d].over = Empty
    BY <1>10, <2>1 DEF Apart, At
  <2>2. ASSUME NEW t \in Sessions, NEW n \in Names PROVE Of(bag[t][n], t)'
    <3>1. PICK w : w = bag'[t][n]
      OBVIOUS
    <3>2. CASE t = s /\ n = name
      <4>1. w = v
        BY <1>3, <3>1, <3>2
      <4>2. QED
        BY <1>6, <3>1, <3>2, <4>1 DEF Of
    <3>3. CASE ~(t = s /\ n = name)
      <4>1. w = bag[t][n]
        BY <1>3, <3>1, <3>3
      <4>2. Of(w, t)'
        BY <1>5, <4>1, VariableValues DEF Apart
      <4>3. QED
        BY <3>1, <4>2 DEF Of
    <3>4. QED
      BY <3>2, <3>3
  <2>3. ASSUME NEW d \in Calls, NEW n \in Names
        PROVE  Of(call[d].shown[n], call[d].session)' /\ Of(call[d].over[n], call[d].session)'
    <3>1. PICK w, x, t : w = call[d].shown[n] /\ x = call[d].over[n] /\ t = call[d].session
      OBVIOUS
    <3>2. Of(w, t)' /\ Of(x, t)'
      BY <1>5, <3>1, VariableValues DEF Apart
    <3>3. w = call'[d].shown[n] /\ t = call'[d].session
      BY <1>10, <3>1
    <3>4. CASE d = c /\ n = name
      <4>1. PICK y : y = bag[s][n]
        OBVIOUS
      <4>2. Of(y, s)' /\ y = call'[c].over[n]
        BY <1>5, <1>10, <3>4, <4>1, VariableValues DEF Apart
      <4>3. s = call'[c].session
        BY <1>1
      <4>4. QED
        BY <3>2, <3>3, <3>4, <4>2, <4>3 DEF Of
    <3>5. CASE ~(d = c /\ n = name)
      <4>1. x = call'[d].over[n]
        BY <1>10, <3>1, <3>5
      <4>2. QED
        BY <3>2, <3>3, <4>1 DEF Of
    <3>6. QED
      BY <3>4, <3>5
  <2>4. QED
    BY <2>1, <2>2, <2>3 DEF Apart, Empty
<1>12. Stored'
  <2>1. ASSUME NEW d \in Calls, call'[d].at \in Before PROVE call'[d].wrote = {}
    BY <1>10, <2>1 DEF Stored, Before
  <2>2. ASSUME NEW d \in Calls, call'[d].at \in {"extract", "substitute"}, NEW n \in call'[d].wrote
        PROVE  bag'[call'[d].session][n] \notin {NoValue, call'[d].over[n]}
    <3>1. n \in Names /\ call'[d].session \in Sessions /\ call'[d].session = call[d].session
      BY <1>4, <1>10 DEF Types, CallTypes
    <3>2. CASE d = c /\ n = name
      <4>1. bag'[s][n] = v /\ call'[c].over[n] = bag[s][n] /\ call'[c].session = s
        BY <1>1, <1>3, <1>10, <3>2
      <4>2. bag[s][n] # v
        BY <1>8, <3>1
      <4>3. bag'[call'[d].session][n] = v /\ call'[d].over[n] = bag[s][n]
        BY <3>2, <4>1
      <4>4. QED
        BY <1>2, <4>2, <4>3
    <3>3. CASE ~(d = c /\ n = name)
      <4>1. call'[d].over[n] = call[d].over[n] /\ n \in call[d].wrote
        BY <1>10, <3>1, <3>3
      <4>2. call[d].at \in {"extract", "substitute"}
        BY <1>10, <2>2 DEF At
      <4>3. bag[call[d].session][n] \notin {NoValue, call[d].over[n]}
        BY <4>1, <4>2 DEF Stored
      <4>4. bag'[call[d].session][n] \in {v, bag[call[d].session][n]}
        BY <1>3, <3>1
      <4>5. QED
        BY <1>2, <1>9, <3>1, <4>1, <4>3, <4>4
    <3>4. QED
      BY <3>2, <3>3
  <2>3. QED
    BY <2>1, <2>2 DEF Stored
<1>13. Substituted'
  BY <1>10 DEF Substituted
<1>14. HitsAreDone' /\ BestRuleServed'
  BY HitsKept, ChoiceKept DEF At
<1>15. QED
  BY <1>3, <1>4, <1>11, <1>12, <1>13, <1>14

\* An instruction that stores nothing: it is over, or the extraction is.
LEMMA NotStoringIsGood ==
  ASSUME IInv, NEW c \in Calls, At(c, "extract"), Moves(c), Keeps(c), KeepsChoice(c), CallTypes(c)',
         call'[c].at \in {"extract", "substitute"}, call'[c].next >= call[c].next,
         faults' \in Nat, faults' >= faults, UNCHANGED <<apis, bag, ttl, hits>>
  PROVE  IInv'
<1> USE DEF IInv
<1>1. Quiet(c) /\ Onward(c)
  BY DEF Quiet, Onward, At, Before
<1>2. Expiry' /\ HitsAreDone' /\ BestRuleServed'
  BY ExpiryKept, HitsKept, ChoiceKept DEF Types, At
<1>3. QED
  BY <1>1, <1>2, QuietStepIsGood

LEMMA ExtractIsGood == ASSUME IInv, NEW c \in Calls, Extract(c) PROVE IInv'
<1> DEFINE todo == call[c].rule.extracts
           i == call[c].next
<1>1. At(c, "extract") /\ UNCHANGED <<setup, apis, hits>>
  BY DEF Extract
<1>2. CallTypes(c) /\ call = [d \in Calls |-> call[d]] /\ faults \in Nat
  BY DEF IInv, Types
<1>3. call[c].rule \in setup.rules /\ call[c].rule # NoRule
      /\ todo \in Seq([as : Names, finds : {"value", "nothing", "bad"}])
  BY <1>1, RulesAreRanked DEF IInv, Types, CallTypes, At, AfterMatch
<1>4. CASE To(c, AfterUse("extract")) /\ UNCHANGED <<bag, ttl, faults>>
  <2>1. To(c, "substitute") /\ "substitute" \in Places
    BY <1>4, OrderOfUses DEF Places, AfterMatch
  <2>2. Moves(c) /\ Keeps(c) /\ KeepsChoice(c) /\ CallTypes(c)'
        /\ call'[c].at = "substitute" /\ call'[c].next = call[c].next
    BY <1>1, <1>3, <2>1, PlaceChanges DEF IInv
  <2>3. call[c].next \in Nat
    BY <1>2 DEF CallTypes
  <2>4. QED
    BY <1>1, <1>2, <1>4, <2>2, <2>3, NotStoringIsGood
<1>5. CASE call' = [call EXCEPT ![c].next = i + 1] /\ UNCHANGED <<bag, ttl, faults>>
  <2>1. Moves(c) /\ call'[c] = [call[c] EXCEPT !.next = i + 1]
    BY <1>1, <1>2, <1>5 DEF Moves, CallTypes, Fields
  <2>2. /\ DOMAIN call'[c] = Fields /\ Keeps(c) /\ KeepsChoice(c)
        /\ call'[c].at = call[c].at /\ call'[c].next = i + 1
    BY <1>2, <2>1 DEF CallTypes, Fields, Keeps, KeepsChoice
  <2>3. CallTypes(c)'
    BY <1>1, <1>2, <2>2 DEF CallTypes, Keeps, KeepsChoice
  <2>4. call[c].next \in Nat
    BY <1>2 DEF CallTypes
  <2>5. QED
    BY <1>1, <1>2, <1>5, <2>1, <2>2, <2>3, <2>4, NotStoringIsGood DEF At
<1>6. ASSUME ~(i > Len(todo)), NEW stored \in BOOLEAN, NEW expires \in BOOLEAN, expires => stored,
             Try(c, expires), ~call[c].gone \/ ~stored,
             Set(c, todo[i].as, i, stored, expires),
             call' = [call EXCEPT
                 ![c].next = i + 1,
                 ![c].at = IF expires THEN @ ELSE AfterUse("extract"),
                 ![c].wrote = IF stored THEN @ \union {todo[i].as} ELSE @,
                 ![c].over[todo[i].as] =
                   IF stored THEN bag[VarKey(call[c].session)][todo[i].as] ELSE @]
      PROVE IInv'
  <2>1. PICK t \in Seq([as : Names, finds : {"value", "nothing", "bad"}]), k \in Nat \ {0} :
          t = todo /\ k = i /\ ~(k > Len(t))
    BY <1>2, <1>3, <1>6 DEF CallTypes
  <2>2. PICK name \in Names : name = todo[i].as
    <3>1. k \in 1 .. Len(t)
      BY <2>1
    <3>2. t[k] \in [as : Names, finds : {"value", "nothing", "bad"}]
      <4> DEFINE Instructions == [as : Names, finds : {"value", "nothing", "bad"}]
      <4>1. t \in Seq(Instructions)
        OBVIOUS
      <4> HIDE DEF Instructions
      <4>2. t[k] \in Instructions
        BY <3>1, <4>1
      <4>3. QED
        BY <4>2 DEF Instructions
    <3>3. t[k].as \in Names
      BY <3>2
    <3>4. QED
      BY <2>1, <3>3
  <2>3. PICK old : old = bag[call[c].session][name]
    OBVIOUS
  <2>4. faults' \in Nat /\ faults' >= faults /\ (~expires /\ ~call[c].gone => faults' > 0)
    BY <1>2, <1>6, FailuresCount
  <2>5. PICK place \in {"extract", "substitute"} : place = IF expires THEN "extract" ELSE "substitute"
    OBVIOUS
  <2>6. PICK wrote : wrote = IF stored THEN call[c].wrote \union {name} ELSE call[c].wrote
    OBVIOUS
  <2>7. PICK over : over = IF stored THEN [call[c].over EXCEPT ![name] = old] ELSE call[c].over
    OBVIOUS
  <2>8. over = [call[c].over EXCEPT ![name] = IF stored THEN old ELSE @]
    BY <1>2, <2>7 DEF CallTypes, Variables
  <2>9. call' = [call EXCEPT
          ![c].next = i + 1,
          ![c].at = IF expires THEN @ ELSE "substitute",
          ![c].wrote = IF stored THEN @ \union {name} ELSE @,
          ![c].over[name] = IF stored THEN old ELSE @]
    BY <1>6, <2>2, <2>3, OrderOfUses DEF VarKey
  <2>10. /\ Moves(c)
         /\ call'[c] = [call[c] EXCEPT !.next = i + 1, !.at = place, !.wrote = wrote, !.over = over]
    <3>1. Moves(c) /\ call'[c] = [call[c] EXCEPT
                 !.next = i + 1,
                 !.at = IF expires THEN @ ELSE "substitute",
                 !.wrote = IF stored THEN @ \union {name} ELSE @,
                 !.over[name] = IF stored THEN old ELSE @]
      BY <1>1, <1>2, <2>9 DEF Moves, CallTypes, Fields
    <3>2. QED
      BY <1>1, <1>2, <2>5, <2>6, <2>8, <3>1 DEF At, CallTypes, Fields
  <2>11. /\ DOMAIN call'[c] = Fields /\ KeepsChoice(c)
         /\ call'[c].at = place /\ call'[c].next = i + 1
         /\ call'[c].session = call[c].session /\ call'[c].shown = call[c].shown
         /\ call'[c].wrote = wrote /\ call'[c].over = over
    BY <1>2, <2>10 DEF CallTypes, Fields, KeepsChoice
  <2>12. wrote \subseteq Names /\ over \in Variables
    <3>1. old \in Extracted \union {NoValue}
      BY <1>2, <2>3, VariableValues DEF CallTypes, IInv
    <3>2. QED
      BY <1>2, <2>6, <2>7, <3>1 DEF CallTypes, Variables
  <2>13. CallTypes(c)'
    BY <1>1, <1>2, <1>3, <2>11, <2>12 DEF CallTypes, KeepsChoice, Places, AfterMatch
  <2>14. i \in Nat
    BY <1>2 DEF CallTypes
  <2>15. CASE stored
    <3>1. PICK was \in 0 .. Forever : was = ttl[call[c].session]
      BY <1>2 DEF IInv, Expiry, CallTypes
    <3>2. PICK left \in 1 .. Forever :
            left = TtlAfterSet(was, expires) /\ (left = Forever => ~expires)
      BY WindowAfterSet
    <3>3. /\ bag' = [bag EXCEPT ![call[c].session][name] = [by |-> c, nth |-> call[c].next]]
          /\ ttl' = [ttl EXCEPT ![call[c].session] = TtlAfterSet(@, expires)]
      BY <1>6, <2>2, <2>15 DEF Set, VarKey
    <3>4. ttl' = [ttl EXCEPT ![call[c].session] = left]
      BY <3>1, <3>2, <3>3
    <3>5. left = Forever => faults' > 0
      BY <1>6, <2>4, <2>15, <3>2
    <3>6. wrote = call[c].wrote \union {name} /\ over = [call[c].over EXCEPT ![name] = old]
      BY <2>6, <2>7, <2>15
    <3>7. call'[c].at \in {"extract", "substitute"} /\ call'[c].next = call[c].next + 1
          /\ call'[c].wrote = call[c].wrote \union {name}
          /\ call'[c].over = [call[c].over EXCEPT ![name] = bag[call[c].session][name]]
      BY <2>3, <2>11, <3>6
    <3>8. QED
      BY <1>1, <2>4, <2>10, <2>11, <2>13, <3>3, <3>4, <3>5, <3>7, StoringIsGood
  <2>16. CASE ~stored
    <3>1. bag' = bag /\ ttl' = ttl
      BY <1>6, <2>16 DEF Set
    <3>2. Keeps(c)
      BY <2>6, <2>7, <2>11, <2>16 DEF Keeps
    <3>3. call'[c].at \in {"extract", "substitute"} /\ call'[c].next >= call[c].next
      BY <2>11, <2>14
    <3>4. QED
      BY <1>1, <2>4, <2>10, <2>11, <2>13, <3>1, <3>2, <3>3, NotStoringIsGood
  <2>17. QED
    BY <2>15, <2>16
<1>7. QED
  BY <1>4, <1>5, <1>6 DEF Extract

\* A refresh gives a bag that holds something its window again.
LEMMA RefreshKeepsExpiry ==
  ASSUME Types, Expiry, NEW s \in Sessions, bag[s] # Empty, bag' = bag,
         ttl' = [ttl EXCEPT ![s] = Window], faults' \in Nat, faults' >= faults
  PROVE  Expiry'
<1>1. Window \in Nat \ {0} /\ Forever = Window + 1 /\ Window \in 0 .. Forever /\ Window # Forever
  BY MockAssumption DEF Forever
<1>2. ttl \in [Sessions -> 0 .. Forever] /\ faults \in Nat
  BY DEF Expiry, Types
<1>3. /\ ttl' \in [Sessions -> 0 .. Forever] /\ ttl'[s] = Window
      /\ \A t \in Sessions \ {s} : ttl'[t] = ttl[t]
  BY <1>1, <1>2
<1>4. ASSUME NEW t \in Sessions
      PROVE  ((ttl'[t] = 0) <=> (bag[t] = Empty)) /\ (ttl'[t] = Forever => faults' > 0)
  <2>1. CASE t = s
    BY <1>1, <1>3, <2>1
  <2>2. CASE t # s
    BY <1>2, <1>3, <2>2 DEF Expiry
  <2>3. QED
    BY <2>1, <2>2
<1>5. QED
  BY <1>3, <1>4 DEF Expiry, Empty

\* A substitution that has read the bag shows values of the call's own session.
LEMMA ShowingIsGood ==
  ASSUME Types, Apart, Stored, Substituted, NEW c \in Calls, At(c, "substitute"),
         Moves(c), CallTypes(c)', KeepsChoice(c),
         call'[c].at = "reply", call'[c].session = call[c].session,
         call'[c].wrote = call[c].wrote, call'[c].over = call[c].over,
         call'[c].next = call[c].next,
         call'[c].shown = [n \in Names |->
           IF n \in call[c].rule.shows THEN bag[call[c].session][n] ELSE NoValue],
         bag' = bag, faults' \in Nat
  PROVE  Types' /\ Apart' /\ Stored' /\ Substituted'
<1>1. Types'
  BY TypesOfOthers DEF Types
<1>2. PICK s \in Sessions : s = call[c].session
  BY DEF Types, CallTypes
<1>3. ASSUME NEW v \in Extracted \union {NoValue}, NEW t, Of(v, t) PROVE Of(v, t)'
  <2>1. call[c].next \in Nat
    BY DEF Types, CallTypes
  <2>2. QED
    BY <1>1, <1>3, <2>1, OriginsKept
<1>4. \A d \in Calls \ {c} : call'[d] = call[d]
  BY DEF Moves
<1>5. \A n \in Names :
        call'[c].shown[n] = IF n \in call[c].rule.shows THEN bag[s][n] ELSE NoValue
  BY <1>2
<1>6. Apart'
  <2>1. ASSUME NEW d \in Calls, At(d, "new")' PROVE call'[d].shown = Empty /\ call'[d].over = Empty
    BY <1>4, <2>1 DEF Apart, At
  <2>2. ASSUME NEW t \in Sessions, NEW n \in Names PROVE Of(bag[t][n], t)'
    <3>1. PICK v : v = bag[t][n]
      OBVIOUS
    <3>2. Of(v, t)'
      BY <1>3, <3>1, VariableValues DEF Apart
    <3>3. QED
      BY <3>1, <3>2 DEF Of
  <2>3. ASSUME NEW d \in Calls, NEW n \in Names
        PROVE  Of(call[d].shown[n], call[d].session)' /\ Of(call[d].over[n], call[d].session)'
    <3>1. PICK v, w, t : v = call[d].shown[n] /\ w = call[d].over[n] /\ t = call[d].session
      OBVIOUS
    <3>2. Of(v, t)' /\ Of(w, t)'
      BY <1>3, <3>1, VariableValues DEF Apart
    <3>3. w = call'[d].over[n] /\ t = call'[d].session
      BY <1>4, <3>1
    <3>4. CASE d = c
      <4>1. PICK x \in Extracted \union {NoValue} : x = bag[s][n]
        BY VariableValues
      <4>2. Of(x, s)'
        BY <1>3, <4>1 DEF Apart
      <4>3. call'[c].shown[n] \in {x, NoValue}
        BY <1>5, <4>1
      <4>4. QED
        BY <1>2, <3>1, <3>2, <3>3, <3>4, <4>2, <4>3 DEF Of
    <3>5. CASE d # c
      BY <1>4, <3>1, <3>2, <3>3, <3>5 DEF Of
    <3>6. QED
      BY <3>4, <3>5
  <2>4. QED
    BY <2>1, <2>2, <2>3 DEF Apart, Empty
<1>7. Stored'
  BY <1>4 DEF Stored, Before
<1>8. Substituted'
  <2>1. ASSUME NEW n \in call[c].wrote \intersect call[c].rule.shows
        PROVE  call'[c].shown[n] \notin {NoValue, call'[c].over[n]}
    <3>1. n \in Names
      BY DEF Types, CallTypes
    <3>2. bag[s][n] \notin {NoValue, call[c].over[n]}
      BY <1>2 DEF Stored, At
    <3>3. QED
      BY <1>5, <3>1, <3>2
  <2>2. QED
    BY <1>4, <2>1 DEF Substituted, KeepsChoice
<1>9. QED
  BY <1>1, <1>6, <1>7, <1>8

LEMMA SubstituteIsGood == ASSUME IInv, NEW c \in Calls, Substitute(c) PROVE IInv'
<1> USE DEF IInv
<1>1. At(c, "substitute") /\ UNCHANGED <<setup, apis, bag, hits>>
  BY DEF Substitute
<1>2. CallTypes(c) /\ call = [d \in Calls |-> call[d]] /\ faults \in Nat
  BY DEF Types
<1>3. call[c].rule \in setup.rules /\ call[c].rule # NoRule
  BY <1>1, RulesAreRanked DEF Types, CallTypes, At, AfterMatch
<1>4. call[c].next \in Nat /\ call[c].session \in Sessions
  BY <1>2 DEF CallTypes
<1>5. CASE call[c].rule.shows = {} /\ To(c, AfterUse("substitute")) /\ UNCHANGED <<ttl, faults>>
  <2>1. To(c, "reply") /\ "reply" \in Places
    BY <1>5, OrderOfUses DEF Places, AfterMatch
  <2>2. Moves(c) /\ Keeps(c) /\ KeepsChoice(c) /\ CallTypes(c)'
        /\ call'[c].at = "reply" /\ call'[c].next = call[c].next
    BY <1>1, <1>3, <2>1, PlaceChanges
  <2>3. Quiet(c) /\ Onward(c)
    BY <1>1, <1>2, <1>4, <1>5, <2>2 DEF Quiet, Onward, At, Before, KeepsChoice
  <2>4. Expiry' /\ HitsAreDone' /\ BestRuleServed'
    BY <1>1, <1>2, <1>5, <2>2, ExpiryKept, HitsKept, ChoiceKept DEF At
  <2>5. QED
    BY <2>3, <2>4, QuietStepIsGood
<1>6. ASSUME NEW read \in BOOLEAN, NEW refreshed \in BOOLEAN, Try(c, refreshed),
             ttl' = IF refreshed /\ bag[VarKey(call[c].session)] # Empty
                    THEN [ttl EXCEPT ![VarKey(call[c].session)] = Window] ELSE ttl,
             call' = [call EXCEPT
                 ![c].at = IF read THEN AfterUse("substitute") ELSE "failed",
                 ![c].shown = IF read THEN [n \in Names |->
                    IF n \in call[c].rule.shows THEN bag[VarKey(call[c].session)][n]
                    ELSE NoValue] ELSE @]
      PROVE IInv'
  <2>1. PICK values : values = [n \in Names |->
           IF n \in call[c].rule.shows THEN bag[call[c].session][n] ELSE NoValue]
    OBVIOUS
  <2>2. PICK place \in {"reply", "failed"} : place = IF read THEN "reply" ELSE "failed"
    OBVIOUS
  <2>3. PICK shown : shown = IF read THEN values ELSE call[c].shown
    OBVIOUS
  <2>4. call' = [call EXCEPT ![c].at = IF read THEN "reply" ELSE "failed",
                             ![c].shown = IF read THEN values ELSE @]
    BY <1>6, <2>1, OrderOfUses DEF VarKey
  <2>5. /\ Moves(c)
        /\ call'[c] = [call[c] EXCEPT !.at = place, !.shown = shown]
    BY <1>1, <1>2, <2>2, <2>3, <2>4 DEF Moves, CallTypes, Fields
  <2>6. /\ DOMAIN call'[c] = Fields /\ KeepsChoice(c)
        /\ call'[c].at = place /\ call'[c].shown = shown
        /\ call'[c].session = call[c].session /\ call'[c].wrote = call[c].wrote
        /\ call'[c].over = call[c].over /\ call'[c].next = call[c].next
    BY <1>2, <2>5 DEF CallTypes, Fields, KeepsChoice
  <2>7. shown \in Variables
    <3>1. values \in Variables
      BY <1>4, <2>1, VariableValues DEF Variables
    <3>2. call[c].shown \in Variables
      BY <1>2 DEF CallTypes
    <3>3. QED
      BY <2>3, <3>1, <3>2
  <2>8. CallTypes(c)'
    BY <1>1, <1>2, <1>3, <2>6, <2>7 DEF CallTypes, KeepsChoice, Places, AfterMatch
  <2>9. faults' \in Nat /\ faults' >= faults
    BY <1>2, <1>6, FailuresCount
  <2>10. Types' /\ Apart' /\ Stored' /\ Substituted'
    <3>1. CASE read
      <4>1. call'[c].at = "reply" /\ call'[c].shown = values
        BY <2>2, <2>3, <2>6, <3>1
      <4>2. call'[c].shown = [n \in Names |->
              IF n \in call[c].rule.shows THEN bag[call[c].session][n] ELSE NoValue]
        BY <2>1, <4>1
      <4>3. QED
        BY <1>1, <2>5, <2>6, <2>8, <2>9, <4>1, <4>2, ShowingIsGood
    <3>2. CASE ~read
      <4>1. call'[c].at = "failed" /\ Keeps(c)
        BY <2>2, <2>3, <2>6, <3>2 DEF Keeps
      <4>2. Quiet(c) /\ Onward(c)
        BY <1>1, <1>4, <2>5, <2>6, <2>8, <2>9, <4>1 DEF Quiet, Onward, At, Before
      <4>3. QED
        BY <4>2, QuietStepIsGood
    <3>3. QED
      BY <3>1, <3>2
  <2>11. Expiry'
    <3>1. CASE refreshed /\ bag[call[c].session] # Empty
      <4>1. ttl' = [ttl EXCEPT ![call[c].session] = Window]
        BY <1>6, <3>1 DEF VarKey
      <4>2. QED
        BY <1>1, <1>4, <2>9, <3>1, <4>1, RefreshKeepsExpiry
    <3>2. CASE ~(refreshed /\ bag[call[c].session] # Empty)
      <4>1. ttl' = ttl
        BY <1>6, <3>2 DEF VarKey
      <4>2. QED
        BY <1>1, <1>2, <2>9, <4>1, ExpiryKept
    <3>3. QED
      BY <3>1, <3>2
  <2>12. HitsAreDone' /\ BestRuleServed'
    BY <1>1, <2>5, <2>6, HitsKept, ChoiceKept DEF At
  <2>13. QED
    BY <2>10, <2>11, <2>12
<1>7. QED
  BY <1>5, <1>6 DEF Substitute

\* Steps that leave every call alone.
LEMMA CallsUntouched ==
  ASSUME Types, Apart, Stored, Substituted, BestRuleServed, UNCHANGED <<setup, call, bag, faults>>
  PROVE  Types' /\ Apart' /\ Stored' /\ Substituted' /\ BestRuleServed'
<1>1. Types'
  <2>1. \A c \in Calls : CallTypes(c)'
    BY DEF Types, CallTypes
  <2>2. QED
    BY <2>1 DEF Types
<1>2. Apart'
  BY DEF Apart, Of, At, Empty
<1>3. Stored' /\ Substituted' /\ BestRuleServed'
  BY DEF Stored, Substituted, BestRuleServed, Chosen
<1>4. QED
  BY <1>1, <1>2, <1>3

\* The hits of an api go with it.
LEMMA DeleteApiIsGood == ASSUME IInv, NEW a \in apis, DeleteApi(a) PROVE IInv'
<1>1. Types' /\ Apart' /\ Stored' /\ Substituted' /\ BestRuleServed'
  BY CallsUntouched DEF IInv, DeleteApi
<1>2. Expiry'
  BY ExpiryKept DEF IInv, DeleteApi, Types
<1>3. HitsAreDone'
  BY DEF IInv, DeleteApi, HitsAreDone, At
<1>4. QED
  BY <1>1, <1>2, <1>3 DEF IInv

\* A bag expires as a whole, and never between the uses of a call.
LEMMA TickIsGood == ASSUME IInv, Tick PROVE IInv'
<1> USE DEF IInv
<1>1. /\ UNCHANGED <<setup, apis, call, hits, faults>>
      /\ ttl' = [s \in Sessions |-> IF ttl[s] \in 1 .. Window THEN ttl[s] - 1 ELSE ttl[s]]
      /\ bag' = [s \in Sessions |-> IF ttl'[s] = 0 THEN Empty ELSE bag[s]]
      /\ \A c \in Calls : call[c].at \notin {"extract", "substitute"}
  BY DEF Tick
<1>2. bag' \in [Sessions -> Variables]
  BY <1>1, ValuesAreExtracted DEF Types
<1>3. Types'
  <2>1. \A c \in Calls : CallTypes(c)'
    BY <1>1 DEF Types, CallTypes
  <2>2. QED
    BY <1>1, <1>2, <2>1 DEF Types
<1>4. Apart'
  <2>1. \A c \in Calls : At(c, "new")' => call'[c].shown = Empty /\ call'[c].over = Empty
    BY <1>1 DEF Apart, At
  <2>2. ASSUME NEW s \in Sessions, NEW n \in Names PROVE Of(bag[s][n], s)'
    <3>1. Of(bag[s][n], s)
      BY DEF Apart
    <3>2. bag'[s] = Empty \/ bag'[s] = bag[s]
      BY <1>1
    <3>3. bag'[s][n] = NoValue \/ bag'[s][n] = bag[s][n]
      BY <3>2, ValuesAreExtracted
    <3>4. QED
      BY <1>1, <3>1, <3>3 DEF Of, At
  <2>3. \A c \in Calls, n \in Names : /\ Of(call[c].shown[n], call[c].session)'
                                      /\ Of(call[c].over[n], call[c].session)'
    BY <1>1 DEF Apart, Of, At
  <2>4. QED
    BY <2>1, <2>2, <2>3 DEF Apart, Empty
<1>5. Stored' /\ Substituted' /\ BestRuleServed' /\ HitsAreDone'
  BY <1>1 DEF Stored, Substituted, BestRuleServed, Chosen, HitsAreDone, At
<1>6. Expiry'
  <2>1. Window \in Nat \ {0} /\ Forever = Window + 1
    BY MockAssumption DEF Forever
  <2>2. ttl \in [Sessions -> 0 .. Forever]
    BY DEF Expiry
  <2>3. ASSUME NEW s \in Sessions
        PROVE  /\ ttl'[s] \in 0 .. Forever
               /\ (ttl'[s] = 0) <=> (bag'[s] = Empty)
               /\ ttl'[s] = Forever => faults' > 0
    <3>1. PICK left \in 0 .. Forever : left = ttl[s]
      BY <2>2
    <3>2. PICK then \in 0 .. Forever : /\ then = IF left \in 1 .. Window THEN left - 1 ELSE left
                                       /\ left = 0 => then = 0
                                       /\ then = Forever => left = Forever
      BY <2>1, <3>1
    <3>3. ttl'[s] = then
      BY <1>1, <3>1, <3>2
    <3>4. bag'[s] = IF then = 0 THEN Empty ELSE bag[s]
      BY <1>1, <3>3
    <3>5. ((left = 0) <=> (bag[s] = Empty)) /\ (left = Forever => faults > 0)
      BY <3>1 DEF Expiry
    <3>6. QED
      BY <1>1, <3>2, <3>3, <3>4, <3>5
  <2>4. ttl' = [s \in Sessions |-> ttl'[s]]
    BY <1>1
  <2>5. QED
    BY <2>3, <2>4 DEF Expiry, Empty
<1>7. QED
  BY <1>3, <1>4, <1>5, <1>6

LEMMA StepIsGood == IInv /\ [Next]_vars => IInv'
<1> SUFFICES ASSUME IInv, [Next]_vars PROVE IInv'
  OBVIOUS
<1>1. ASSUME NEW c \in Calls,
             \/ LoadRules(c) \/ Match(c) \/ Delay(c) \/ Extract(c) \/ Substitute(c)
             \/ Reply(c) \/ Record(c) \/ Disconnect(c)
      PROVE  IInv'
  BY <1>1, LoadRulesIsGood, MatchIsGood, PlaceStepIsGood, ExtractIsGood, SubstituteIsGood,
     RecordIsGood, DisconnectIsGood
<1>2. ASSUME NEW a \in apis, DeleteApi(a) PROVE IInv'
  BY <1>2, DeleteApiIsGood
<1>3. CASE Tick
  BY <1>3, TickIsGood
<1>4. CASE UNCHANGED vars
  <2>1. UNCHANGED <<setup, apis, call, bag, ttl, hits, faults>>
    BY <1>4 DEF vars
  <2>2. Types' /\ Apart' /\ Stored' /\ Substituted' /\ BestRuleServed'
    BY <2>1, CallsUntouched DEF IInv
  <2>3. Expiry' /\ HitsAreDone'
    BY <2>1, ExpiryKept DEF IInv, Types, HitsAreDone, At
  <2>4. QED
    BY <2>2, <2>3 DEF IInv
<1> QED BY <1>1, <1>2, <1>3, <1>4 DEF Next

LEMMA AlwaysGood == Spec => []IInv
<1>1. Init => IInv
  BY InitIsGood
<1>2. IInv /\ [Next]_vars => IInv'
  BY StepIsGood
<1> QED BY <1>1, <1>2, PTL DEF Spec

(***************************************************************************)
(* The theorems.                                                           *)
(***************************************************************************)
\* Calls, bags and windows keep their types; a bag has a window as long as it holds
\* a variable, and none that never ends unless something failed; a hit is of a call
\* that is over and of an api that exists.
THEOREM TypeCorrect == Spec => []TypeOK
<1>1. IInv => TypeOK
  <2>1. ASSUME IInv, NEW c \in Calls
        PROVE  /\ call[c].at \in {"apis", "delay", "extract", "substitute", "reply", "record"} \union Ended
               /\ call[c].session \in Sessions
               /\ call[c].rule \in setup.rules \union {NoRule}
               /\ call[c].shown \in [Names -> Extracted \union {NoValue}]
    BY <2>1 DEF IInv, Types, CallTypes, Places, AfterMatch, Ended, Variables
  <2>2. ASSUME IInv, NEW s \in Sessions
        PROVE  (ttl[s] = 0) = (bag[s] = Empty) /\ (ttl[s] = Forever => faults > 0)
    BY <2>2 DEF IInv, Expiry
  <2>3. QED
    BY <2>1, <2>2 DEF TypeOK, IInv, Types, Expiry, HitsAreDone, Variables
<1> QED BY <1>1, AlwaysGood, PTL

\* matcher.go:311: whatever rules there are, and whichever apis go while the request
\* is under way, the rule that answers is the best by score, priority and id.
THEOREM BestRuleIsServed == Spec => []BestRuleServed
<1>1. IInv => BestRuleServed
  BY DEF IInv
<1> QED BY <1>1, AlwaysGood, PTL

\* engine.go:191: whatever calls share the session, a response that shows a variable
\* its own extraction has stored shows that value or a later one.
THEOREM OwnExtractIsShown == Spec => []OwnExtractShown
<1>1. IInv => OwnExtractShown
  BY DEF IInv, Substituted, OwnExtractShown
<1> QED BY <1>1, AlwaysGood, PTL

\* varbag.go:60: for any number of calls and sessions, whatever expires, fails
\* or is deleted meanwhile, a response shows only values of its own session.
THEOREM SessionsAreApart == Spec => []SessionsApart
<1>1. IInv => SessionsApart
  <2>1. ASSUME IInv, NEW c \in Calls, NEW n \in Names, call[c].shown[n] # NoValue
        PROVE  call[call[c].shown[n].by].session = call[c].session
    <3>1. Of(call[c].shown[n], call[c].session)
      BY <2>1 DEF IInv, Apart
    <3> QED BY <2>1, <3>1 DEF Of
  <2> QED BY <2>1 DEF SessionsApart
<1> QED BY <1>1, AlwaysGood, PTL
=============================================================================
