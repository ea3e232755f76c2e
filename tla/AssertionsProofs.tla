-------------------------- MODULE AssertionsProofs --------------------------
(***************************************************************************)
(* What a verdict says, for any test cases, responses and JSON values.     *)
(***************************************************************************)
EXTENDS Assertions, WellFoundedInduction, TLAPS

(***************************************************************************)
(* The loop of jsonPathLookup against the values at the end of the path.   *)
(***************************************************************************)

\* Induction over the numbers, for a set of them.
LEMMA Induction ==
  ASSUME NEW S, 0 \in S, \A n \in Nat : n \in S => n + 1 \in S
  PROVE  Nat \subseteq S
<1> SUFFICES ASSUME Nat \ S # {} PROVE FALSE
  OBVIOUS
<1> DEFINE R == OpToRel(<, Nat)
<1>1. \A x, y \in Nat : x < y => <<x, y>> \in R
  BY DEF OpToRel
<1>2. IsWellFoundedOn(R, Nat)
  BY NatLessThanWellFounded
<1> HIDE DEF R
<1>3. PICK x \in Nat \ S : \A y \in Nat \ S : ~(<<y, x>> \in R)
  BY <1>2, WFMin, Zenon
<1>4. x # 0 /\ x - 1 \in Nat /\ x - 1 < x /\ x = (x - 1) + 1
  BY <1>3
<1>5. x - 1 \in S
  BY <1>1, <1>3, <1>4
<1>6. QED
  BY <1>3, <1>4, <1>5

\* The rounds of the loop: cur[i] is what the first i parts have led to.
LEMMA LookupRounds ==
  ASSUME NEW body, body # Unparsed, NEW path, Len(path) \in Nat
  PROVE  \E cur : /\ cur[0] = Value(body)
                  /\ \A i \in 1 .. Len(path) : cur[i] = Navigate(cur[i - 1], path[i])
                  /\ jsonPathLookup(body, path) = cur[Len(path)]
<1> DEFINE start == Value(body)
           step(c, i) == Navigate(c, path[i])
           round(f, n) == [i \in 0 .. n |-> IF i = 0 THEN start ELSE step(f[i - 1], i)]
           Loops == {n \in Nat : \E f : f = round(f, n)}
           cur == CHOOSE f : f = round(f, Len(path))
<1>1. jsonPathLookup(body, path) = cur[Len(path)]
  BY Zenon DEF jsonPathLookup
<1> HIDE DEF start, step
<1>2. 0 \in Loops
  <2>1. PICK f : f = [i \in 0 .. 0 |-> start]
    OBVIOUS
  <2>2. f = round(f, 0)
    BY <2>1
  <2>3. QED
    BY <2>2
<1>3. ASSUME NEW n \in Nat, n \in Loops PROVE n + 1 \in Loops
  <2>1. PICK f : f = round(f, n)
    BY <1>3
  <2>2. PICK g : g = [i \in 0 .. n + 1 |-> IF i = n + 1 THEN step(f[n], n + 1) ELSE f[i]]
    OBVIOUS
  <2>3. \A i \in 0 .. n : f[i] = IF i = 0 THEN start ELSE step(f[i - 1], i)
    BY <2>1
  <2>4. \A i \in 0 .. n : g[i] = f[i] /\ i \in 0 .. n + 1
    BY <2>2
  <2>5. g[n + 1] = step(f[n], n + 1)
    BY <2>2
  <2>6. ASSUME NEW i \in 0 .. n + 1
        PROVE  g[i] = IF i = 0 THEN start ELSE step(g[i - 1], i)
    <3>1. CASE i = n + 1
      <4>1. n \in 0 .. n /\ i - 1 = n /\ i # 0
        BY <3>1
      <4>2. QED
        BY <2>4, <2>5, <3>1, <4>1
    <3>2. CASE i \in 0 .. n
      <4>1. i # 0 => i - 1 \in 0 .. n
        BY <3>2
      <4>2. QED
        BY <2>3, <2>4, <3>2, <4>1
    <3>3. QED
      BY <3>1, <3>2
  <2>7. g = round(g, n + 1)
    BY <2>2, <2>6
  <2>8. QED
    BY <2>7
<1>4. Nat \subseteq Loops
  <2> HIDE DEF Loops
  <2>1. QED
    BY <1>2, <1>3, Induction
<1>5. \E f : f = round(f, Len(path))
  BY <1>4
<1>6. cur = round(cur, Len(path))
  <2> HIDE DEF round
  <2>1. QED
    BY <1>5
<1> HIDE DEF cur
<1>7. \A i \in 0 .. Len(path) : cur[i] = IF i = 0 THEN start ELSE step(cur[i - 1], i)
  BY <1>6
<1>8. cur[0] = start
  BY <1>7
<1>9. ASSUME NEW i \in 1 .. Len(path) PROVE cur[i] = Navigate(cur[i - 1], path[i])
  <2>1. i \in 0 .. Len(path) /\ i # 0
    OBVIOUS
  <2>2. cur[i] = step(cur[i - 1], i)
    BY <1>7, <2>1
  <2>3. QED
    BY <2>2 DEF step
<1>10. QED
  BY <1>1, <1>8, <1>9 DEF start

\* The values that one part leads to from those of E.
After(E, part) == {v \in JSON : \E u \in E : Leads(u, part, v)}

\* The same rounds for the values that the first i parts lead to.
LEMMA EndsRounds ==
  ASSUME NEW body, NEW path, Len(path) \in Nat
  PROVE  \E ends : /\ ends[0] = {body}
                   /\ \A i \in 1 .. Len(path) : ends[i] = After(ends[i - 1], path[i])
                   /\ Ends(body, path) = ends[Len(path)]
<1> DEFINE start == {body}
           step(E, i) == {v \in JSON : \E u \in E : Leads(u, path[i], v)}
           round(f, n) == [i \in 0 .. n |-> IF i = 0 THEN start ELSE step(f[i - 1], i)]
           Loops == {n \in Nat : \E f : f = round(f, n)}
           ends == CHOOSE f : f = round(f, Len(path))
<1>1. Ends(body, path) = ends[Len(path)]
  BY Zenon DEF Ends
<1> HIDE DEF start, step
<1>2. 0 \in Loops
  <2>1. PICK f : f = [i \in 0 .. 0 |-> start]
    OBVIOUS
  <2>2. f = round(f, 0)
    BY <2>1
  <2>3. QED
    BY <2>2
<1>3. ASSUME NEW n \in Nat, n \in Loops PROVE n + 1 \in Loops
  <2>1. PICK f : f = round(f, n)
    BY <1>3
  <2>2. PICK g : g = [i \in 0 .. n + 1 |-> IF i = n + 1 THEN step(f[n], n + 1) ELSE f[i]]
    OBVIOUS
  <2>3. \A i \in 0 .. n : f[i] = IF i = 0 THEN start ELSE step(f[i - 1], i)
    BY <2>1
  <2>4. \A i \in 0 .. n : g[i] = f[i] /\ i \in 0 .. n + 1
    BY <2>2
  <2>5. g[n + 1] = step(f[n], n + 1)
    BY <2>2
  <2>6. ASSUME NEW i \in 0 .. n + 1
        PROVE  g[i] = IF i = 0 THEN start ELSE step(g[i - 1], i)
    <3>1. CASE i = n + 1
      <4>1. n \in 0 .. n /\ i - 1 = n /\ i # 0
        BY <3>1
      <4>2. QED
        BY <2>4, <2>5, <3>1, <4>1
    <3>2. CASE i \in 0 .. n
      <4>1. i # 0 => i - 1 \in 0 .. n
        BY <3>2
      <4>2. QED
        BY <2>3, <2>4, <3>2, <4>1
    <3>3. QED
      BY <3>1, <3>2
  <2>7. g = round(g, n + 1)
    BY <2>2, <2>6
  <2>8. QED
    BY <2>7
<1>4. Nat \subseteq Loops
  <2> HIDE DEF Loops
  <2>1. QED
    BY <1>2, <1>3, Induction
<1>5. \E f : f = round(f, Len(path))
  BY <1>4
<1>6. ends = round(ends, Len(path))
  <2> HIDE DEF round
  <2>1. QED
    BY <1>5
<1> HIDE DEF ends
<1>7. \A i \in 0 .. Len(path) : ends[i] = IF i = 0 THEN start ELSE step(ends[i - 1], i)
  BY <1>6
<1>8. ends[0] = start
  BY <1>7
<1>9. ASSUME NEW i \in 1 .. Len(path) PROVE ends[i] = After(ends[i - 1], path[i])
  <2>1. i \in 0 .. Len(path) /\ i # 0
    OBVIOUS
  <2>2. ends[i] = step(ends[i - 1], i)
    BY <1>7, <2>1
  <2>3. QED
    BY <2>2 DEF step, After
<1>10. QED
  BY <1>1, <1>8, <1>9 DEF start

\* One part of a path leads to the value that Navigate finds, and to no other.
LEMMA NavigateLeads ==
  ASSUME NEW u \in JSON, NEW part \in Part
  PROVE  \/ \E v \in JSON : /\ Navigate(Value(u), part) = Value(v)
                            /\ \A w : Leads(u, part, w) <=> w = v
         \/ /\ Navigate(Value(u), part) = NotFound
            /\ \A w : ~Leads(u, part, w)
         \/ /\ Navigate(Value(u), part) = Panic
            /\ \A w : ~Leads(u, part, w)
            /\ part.index \in Int /\ part.index < 0
<1> USE MarksAssumption
<1>1. part.index \in Int \union {Absent, Unparsed}
  BY DEF Part
<1>2. CASE part.index = Unparsed \/ "obj" \notin DOMAIN u
  <2>1. Navigate(Value(u), part) = NotFound
    BY <1>2 DEF Navigate, Value
  <2>2. \A w : ~Leads(u, part, w)
    BY <1>2 DEF Leads
  <2>3. QED
    BY <2>1, <2>2
<1>3. CASE part.index # Unparsed /\ "obj" \in DOMAIN u /\ part.key \notin DOMAIN u.obj
  <2>1. Navigate(Value(u), part) = NotFound
    BY <1>3 DEF Navigate, Value
  <2>2. \A w : ~Leads(u, part, w)
    BY <1>3 DEF Leads
  <2>3. QED
    BY <2>1, <2>2
<1>4. CASE part.index # Unparsed /\ "obj" \in DOMAIN u /\ part.key \in DOMAIN u.obj
  <2>1. PICK x \in JSON : x = u.obj[part.key]
    BY <1>4, JSONAssumption
  <2>2. Navigate(Value(u), part) = Element(x, part.index)
    BY <1>4, <2>1 DEF Navigate, Value
  <2>3. CASE part.index = Absent
    <3>1. Navigate(Value(u), part) = Value(x)
      BY <1>4, <2>2, <2>3 DEF Element
    <3>2. \A w : Leads(u, part, w) <=> w = x
      BY <1>4, <2>1, <2>3 DEF Leads
    <3>3. QED
      BY <3>1, <3>2
  <2>4. CASE part.index \in Int /\ "arr" \notin DOMAIN x
    <3>1. Navigate(Value(u), part) = NotFound
      BY <2>2, <2>4 DEF Element
    <3>2. \A w : ~Leads(u, part, w)
      BY <2>1, <2>4 DEF Leads
    <3>3. QED
      BY <3>1, <3>2
  <2>5. CASE part.index \in Int /\ "arr" \in DOMAIN x
    <3>1. PICK s \in Seq(JSON) : s = x.arr
      BY <2>5, JSONAssumption
    <3>2. Len(s) \in Nat /\ DOMAIN s = 1 .. Len(s)
      OBVIOUS
    <3>3. CASE part.index >= Len(s)
      <4>1. Navigate(Value(u), part) = NotFound
        BY <2>2, <2>5, <3>1, <3>3 DEF Element, PastEnd
      <4>2. \A w : ~Leads(u, part, w)
        BY <2>1, <2>5, <3>1, <3>2, <3>3 DEF Leads
      <4>3. QED
        BY <4>1, <4>2
    <3>4. CASE part.index \in 0 .. (Len(s) - 1)
      <4>1. part.index + 1 \in DOMAIN s /\ s[part.index + 1] \in JSON
        BY <2>5, <3>2, <3>4
      <4>2. Navigate(Value(u), part) = Value(s[part.index + 1])
        BY <2>2, <2>5, <3>1, <3>2, <3>4, <4>1 DEF Element, PastEnd
      <4>3. \A w : Leads(u, part, w) <=> w = s[part.index + 1]
        BY <1>4, <2>1, <2>5, <3>1, <3>4 DEF Leads
      <4>4. QED
        BY <4>1, <4>2, <4>3
    <3>5. CASE part.index < 0
      <4>1. ~(part.index + 1 \in DOMAIN s) /\ ~(part.index >= Len(s))
        BY <2>5, <3>2, <3>5
      <4>2. Navigate(Value(u), part) = Panic
        BY <2>2, <2>5, <3>1, <4>1 DEF Element, PastEnd
      <4>3. \A w : ~Leads(u, part, w)
        BY <2>1, <2>5, <3>1, <3>2, <3>5 DEF Leads
      <4>4. QED
        BY <2>5, <3>5, <4>2, <4>3
    <3>6. QED
      BY <2>5, <3>2, <3>3, <3>4, <3>5
  <2>6. QED
    BY <1>1, <1>4, <2>3, <2>4, <2>5
<1>5. QED
  BY <1>2, <1>3, <1>4

\* What a lookup finds is the one value at the end of the path; it panics on a negative
\* index only.
LEMMA LookupFindsEnds ==
  ASSUME NEW body \in JSON, NEW path \in Seq(Part)
  PROVE  /\ \A e : jsonPathLookup(body, path) = Value(e) <=> e \in Ends(body, path)
         /\ jsonPathLookup(body, path) = Panic =>
              \E i \in DOMAIN path : path[i].index \in Int /\ path[i].index < 0
<1>0. /\ Len(path) \in Nat /\ DOMAIN path = 1 .. Len(path)
      /\ \A i \in 1 .. Len(path) : path[i] \in Part
      /\ body # Unparsed
  BY MarksAssumption
<1>1. PICK cur : /\ cur[0] = Value(body)
                 /\ \A i \in 1 .. Len(path) : cur[i] = Navigate(cur[i - 1], path[i])
                 /\ jsonPathLookup(body, path) = cur[Len(path)]
  BY <1>0, LookupRounds
<1>2. PICK ends : /\ ends[0] = {body}
                  /\ \A i \in 1 .. Len(path) : ends[i] = After(ends[i - 1], path[i])
                  /\ Ends(body, path) = ends[Len(path)]
  BY <1>0, EndsRounds
<1> DEFINE Negative(i) == path[i].index \in Int /\ path[i].index < 0
           Found(i) == \E v \in JSON : cur[i] = Value(v) /\ ends[i] = {v}
           Lost(i) == /\ ends[i] = {}
                      /\ \/ cur[i] = NotFound
                         \/ cur[i] = Panic /\ \E j \in 1 .. Len(path) : Negative(j)
           Good == {i \in Nat : i <= Len(path) => Found(i) \/ Lost(i)}
<1>3. 0 \in Good
  BY <1>1, <1>2
<1>4. ASSUME NEW i \in Nat, i \in Good, i + 1 <= Len(path) PROVE Found(i + 1) \/ Lost(i + 1)
  <2>1. i + 1 \in 1 .. Len(path) /\ (i + 1) - 1 = i /\ (Found(i) \/ Lost(i))
    BY <1>4
  <2>2. PICK part \in Part : part = path[i + 1]
    BY <1>0, <2>1
  <2>3. cur[i + 1] = Navigate(cur[i], part) /\ ends[i + 1] = After(ends[i], part)
    BY <1>1, <1>2, <2>1, <2>2
  <2>4. CASE Found(i)
    <3>1. PICK u \in JSON : cur[i] = Value(u) /\ ends[i] = {u}
      BY <2>4
    <3>2. ends[i + 1] = {v \in JSON : Leads(u, part, v)}
      BY <2>3, <3>1 DEF After
    <3>3. ASSUME NEW v \in JSON, Navigate(Value(u), part) = Value(v),
                 \A w : Leads(u, part, w) <=> w = v
          PROVE  Found(i + 1)
      BY <2>3, <3>1, <3>2, <3>3
    <3>4. ASSUME Navigate(Value(u), part) = NotFound, \A w : ~Leads(u, part, w)
          PROVE  Lost(i + 1)
      BY <2>3, <3>1, <3>2, <3>4
    <3>5. ASSUME Navigate(Value(u), part) = Panic, \A w : ~Leads(u, part, w),
                 part.index \in Int, part.index < 0
          PROVE  Lost(i + 1)
      BY <2>1, <2>2, <2>3, <3>1, <3>2, <3>5
    <3> HIDE DEF Found, Lost
    <3>6. QED
      BY <3>3, <3>4, <3>5, NavigateLeads
  <2>5. CASE Lost(i)
    <3>1. cur[i + 1] = cur[i]
      BY <2>3, <2>5 DEF Navigate, NotFound, Panic
    <3>2. ends[i + 1] = {}
      BY <2>3, <2>5 DEF After
    <3>3. QED
      BY <2>5, <3>1, <3>2
  <2>6. QED
    BY <2>1, <2>4, <2>5
<1>5. Nat \subseteq Good
  <2>1. ASSUME NEW i \in Nat, i \in Good PROVE i + 1 \in Good
    BY <1>4, <2>1
  <2> HIDE DEF Good
  <2>2. QED
    BY <1>3, <2>1, Induction
<1>6. Found(Len(path)) \/ Lost(Len(path))
  BY <1>0, <1>5
<1>7. CASE Found(Len(path))
  <2>1. PICK v \in JSON : cur[Len(path)] = Value(v) /\ ends[Len(path)] = {v}
    BY <1>7
  <2>2. /\ \A e : Value(v) = Value(e) <=> e = v
        /\ Value(v) # Panic
    BY DEF Value, Panic
  <2>3. QED
    BY <1>1, <1>2, <2>1, <2>2
<1>8. CASE Lost(Len(path))
  <2>1. \A e : Value(e) # NotFound /\ Value(e) # Panic /\ NotFound # Panic
    BY DEF Value, NotFound, Panic
  <2>2. QED
    BY <1>0, <1>1, <1>2, <1>8, <2>1
<1>9. QED
  BY <1>6, <1>7, <1>8

(***************************************************************************)
(* What each check has found by the time the next one begins.              *)
(***************************************************************************)
StatusFailures == IF tc.status > 0 /\ response.status # tc.status THEN {"status"} ELSE {}

ByPath == tc.match = "jsonpath" /\ tc.expected # Unparsed
LookedUp == jsonPathLookup(response.body, tc.expected.path)

BodyFailures ==
  IF ~HasBodyAssertion(tc) THEN {}
  ELSE IF ByPath THEN IF LookedUp = Value(tc.expected.expect) THEN {} ELSE {"body"}
  ELSE IF BodyMatches(tc, response.body) THEN {} ELSE {"body"}

RuleFailures ==
  IF tc.rules = Absent THEN {} ELSE IF tc.rules = Unparsed THEN {"parse"} ELSE Broken(tc.rules)

Places == {"execute", "status", "body", "advanced", "judge", "over", "panicked"}

Types ==
  /\ tc \in Cases
  /\ response \in Responses \union {Unreachable}
  /\ at \in Places
  /\ response = Unreachable <=> at = "execute" \/ (at = "over" /\ status = "error")

Collected ==
  /\ at \in {"execute", "status"} => failures = {}
  /\ at = "body" => failures = StatusFailures
  /\ at = "advanced" => failures = StatusFailures \union BodyFailures
  /\ at = "judge" \/ (at = "over" /\ response # Unreachable) =>
       failures = StatusFailures \union BodyFailures \union RuleFailures

Stopped == at = "panicked" => HasBodyAssertion(tc) /\ ByPath /\ LookedUp = Panic

Judged == at = "over" /\ response # Unreachable => (status = "pass" <=> failures = {})

IInv == Types /\ Collected /\ Stopped /\ Judged

LEMMA InitInvariant == Init => IInv
BY DEF Init, IInv, Types, Places, Collected, Stopped, Judged

\* A check leaves the case and the response, and so what each check finds, alone.
LEMMA FindingsStay ==
  ASSUME UNCHANGED <<tc, response>>
  PROVE  UNCHANGED <<StatusFailures, BodyFailures, RuleFailures, ByPath, LookedUp>>
<1>1. UNCHANGED <<StatusFailures, ByPath, LookedUp>>
  BY DEF StatusFailures, ByPath, LookedUp
<1>2. UNCHANGED BodyFailures
  BY <1>1 DEF BodyFailures, ByPath, LookedUp
<1>3. UNCHANGED RuleFailures
  BY Zenon DEF RuleFailures, Broken, RuleHolds
<1>4. QED
  BY <1>1, <1>2, <1>3

LEMMA StepInvariant == IInv /\ [Next]_vars => IInv'
<1> SUFFICES ASSUME IInv, [Next]_vars PROVE IInv'
  OBVIOUS
<1>1. CASE Execute
  BY <1>1, MarksAssumption DEF IInv, Types, Places, Collected, Stopped, Judged, Execute
<1>2. ASSUME NEW to \in {"body", "advanced", "judge", "panicked"}, NEW found,
             Goes(to, found), response # Unreachable,
             to = "body" => failures \union found = StatusFailures,
             to = "advanced" => failures \union found = StatusFailures \union BodyFailures,
             to = "judge" =>
               failures \union found = StatusFailures \union BodyFailures \union RuleFailures,
             to = "panicked" => HasBodyAssertion(tc) /\ ByPath /\ LookedUp = Panic
      PROVE  IInv'
  <2>1. /\ UNCHANGED <<tc, response, status, StatusFailures, BodyFailures, RuleFailures, LookedUp>>
        /\ ByPath' <=> ByPath
        /\ HasBodyAssertion(tc)' <=> HasBodyAssertion(tc)
    BY <1>2, FindingsStay DEF Goes, HasBodyAssertion, ByPath
  <2>2. at' = to /\ failures' = failures \union found
    BY <1>2 DEF Goes
  <2>3. Types' /\ Judged'
    BY <1>2, <2>1, <2>2 DEF IInv, Types, Places, Judged
  <2>4. Collected'
    BY <1>2, <2>1, <2>2 DEF Collected
  <2>5. Stopped'
    BY <1>2, <2>1, <2>2 DEF Stopped
  <2>6. QED
    BY <2>3, <2>4, <2>5 DEF IInv
<1>3. CASE AssertStatus
  <2>1. Goes("body", StatusFailures) /\ failures = {} /\ response # Unreachable
    BY <1>3 DEF AssertStatus, StatusFailures, IInv, Types, Collected
  <2>2. QED
    BY <1>2, <2>1
<1>4. CASE AssertBody
  <2>1. failures = StatusFailures /\ response # Unreachable
    BY <1>4 DEF AssertBody, IInv, Types, Collected
  <2>2. \/ Goes("advanced", BodyFailures)
        \/ Goes("panicked", {}) /\ HasBodyAssertion(tc) /\ ByPath /\ LookedUp = Panic
    <3>1. CASE ~HasBodyAssertion(tc)
      BY <1>4, <3>1 DEF AssertBody, BodyFailures
    <3>2. CASE HasBodyAssertion(tc) /\ ByPath
      BY <1>4, <3>2 DEF AssertBody, BodyFailures, ByPath, LookedUp
    <3>3. CASE HasBodyAssertion(tc) /\ ~ByPath
      BY <1>4, <3>3 DEF AssertBody, BodyFailures, ByPath
    <3>4. QED
      BY <3>1, <3>2, <3>3
  <2>3. QED
    BY <1>2, <2>1, <2>2
<1>5. CASE AssertAdvanced
  <2>1. /\ Goes("judge", RuleFailures) /\ failures = StatusFailures \union BodyFailures
        /\ response # Unreachable
    BY <1>5 DEF AssertAdvanced, RuleFailures, IInv, Types, Collected
  <2>2. QED
    BY <1>2, <2>1
<1>6. CASE Judge
  <2>1. /\ UNCHANGED <<tc, response, failures, StatusFailures, BodyFailures, RuleFailures>>
        /\ at' = "over" /\ (status' = "pass" <=> failures = {}) /\ status' # "error"
    BY <1>6, FindingsStay DEF Judge
  <2>2. failures = StatusFailures \union BodyFailures \union RuleFailures
    BY <1>6 DEF Judge, IInv, Collected
  <2>3. Types' /\ Judged' /\ Stopped'
    BY <1>6, <2>1 DEF Judge, IInv, Types, Places, Judged, Stopped
  <2>4. Collected'
    BY <2>1, <2>2 DEF Collected
  <2>5. QED
    BY <2>3, <2>4 DEF IInv
<1>7. CASE UNCHANGED vars
  <2>1. /\ UNCHANGED <<vars, StatusFailures, BodyFailures, RuleFailures, LookedUp>>
        /\ ByPath' <=> ByPath
        /\ HasBodyAssertion(tc)' <=> HasBodyAssertion(tc)
    BY <1>7, FindingsStay DEF vars, HasBodyAssertion, ByPath
  <2>2. QED
    BY <2>1 DEF IInv, Types, Collected, Stopped, Judged, vars
<1>8. QED
  BY <1>1, <1>3, <1>4, <1>5, <1>6, <1>7 DEF Next

THEOREM Invariance == Spec => []IInv
BY InitInvariant, StepInvariant, PTL DEF Spec

(***************************************************************************)
(* The verdict.                                                            *)
(***************************************************************************)

\* Only a status or a header rule can be broken.
LEMMA RulesByType ==
  ASSUME NEW rule
  PROVE  /\ rule.type = "status" => (RuleHolds(rule) <=> rule.expect = response.status)
         /\ rule.type = "header" =>
              (RuleHolds(rule)
                 <=> [name |-> rule.name, value |-> rule.expect] \in response.headers)
         /\ rule.type \notin {"status", "header"} => RuleHolds(rule)
<1>1. ASSUME rule.type = "status" PROVE RuleHolds(rule) <=> rule.expect = response.status
  BY <1>1, Zenon DEF RuleHolds
<1>2. "status" # "header"
  OBVIOUS
<1>3. ASSUME rule.type = "header"
      PROVE  RuleHolds(rule)
               <=> [name |-> rule.name, value |-> rule.expect] \in response.headers
  BY <1>2, <1>3, Zenon DEF RuleHolds
<1>4. ASSUME rule.type # "status", rule.type # "header" PROVE RuleHolds(rule)
  BY <1>4, Zenon DEF RuleHolds
<1>5. QED
  BY <1>1, <1>3, <1>4

LEMMA OnlyTheBodyCheckFailsTheBody == "body" \notin StatusFailures \union RuleFailures
<1>1. ASSUME NEW rule, ~RuleHolds(rule) PROVE rule.type # "body"
  BY <1>1, RulesByType
<1>2. "body" \notin Broken(tc.rules)
  BY <1>1 DEF Broken
<1>3. QED
  BY <1>2 DEF StatusFailures, RuleFailures

\* A jsonpath check passes exactly when the expected value is at the end of the path,
\* for every path, body and expected value (LookupSound).
THEOREM LookupIsSound == Spec => []LookupSound
<1>1. IInv => LookupSound
  <2> SUFFICES ASSUME IInv, tc.match = "jsonpath", tc.expected \notin {Absent, Unparsed},
                      response # Unreachable
               PROVE  /\ at = "panicked" => \E i \in DOMAIN tc.expected.path :
                           /\ tc.expected.path[i].index \in Int
                           /\ tc.expected.path[i].index < 0
                      /\ at \in {"advanced", "judge", "over"} =>
                           ("body" \notin failures
                              <=> /\ response.body # Unparsed
                                  /\ tc.expected.expect \in Ends(response.body, tc.expected.path))
    BY DEF LookupSound
  <2>1. PICK path \in Seq(Part) : path = tc.expected.path
    BY CaseAssumption DEF IInv, Types
  <2>2. PICK body \in JSON \union {Unparsed} : body = response.body
    BY ResponseAssumption DEF IInv, Types
  <2>3. LookedUp = jsonPathLookup(body, path)
    BY <2>1, <2>2 DEF LookedUp
  <2>4. LookedUp = Value(tc.expected.expect)
          <=> body # Unparsed /\ tc.expected.expect \in Ends(body, path)
    <3>1. CASE body = Unparsed
      <4>1. LookedUp = NotFound
        BY <2>3, <3>1, Zenon DEF jsonPathLookup
      <4>2. QED
        BY <3>1, <4>1 DEF NotFound, Value
    <3>2. CASE body \in JSON
      BY <2>3, <3>2, LookupFindsEnds, MarksAssumption
    <3>3. QED
      BY <3>1, <3>2
  <2>5. LookedUp = Panic => \E i \in DOMAIN path : path[i].index \in Int /\ path[i].index < 0
    <3>1. CASE body = Unparsed
      <4>1. LookedUp = NotFound
        BY <2>3, <3>1, Zenon DEF jsonPathLookup
      <4>2. QED
        BY <4>1 DEF NotFound, Panic
    <3>2. CASE body \in JSON
      BY <2>3, <3>2, LookupFindsEnds
    <3>3. QED
      BY <3>1, <3>2
  <2>6. "body" \in BodyFailures <=> LookedUp # Value(tc.expected.expect)
    BY DEF BodyFailures, HasBodyAssertion, ByPath
  <2>7. at \in {"advanced", "judge", "over"} => ("body" \in failures <=> "body" \in BodyFailures)
    BY OnlyTheBodyCheckFailsTheBody DEF IInv, Collected
  <2>8. at = "panicked" => LookedUp = Panic
    BY DEF IInv, Stopped
  <2>9. QED
    BY <2>1, <2>2, <2>4, <2>5, <2>6, <2>7, <2>8
<1>2. QED
  BY <1>1, Invariance, PTL

\* The declared status, body and rules, each against the failures of its check.
StatusMet == tc.status \in {0, response.status}
BodyMet ==
  CASE tc.match \in {"exact", "schema", "contains"} /\ tc.expected # Absent ->
         tc.expected # Unparsed /\ (tc.match = "exact" => response.body = tc.expected)
           /\ (tc.match # "exact" => response.body \in tc.expected)
    [] tc.match = "regex" /\ tc.pattern # Absent ->
         tc.pattern # Unparsed /\ response.body \in tc.pattern
    [] tc.match = "regex" /\ tc.pattern = Absent /\ tc.expected # Absent ->
         tc.expected # Unparsed /\ response.body \in tc.expected
    [] OTHER -> TRUE
RulesMet ==
  tc.rules = Absent \/ (tc.rules # Unparsed /\ \A i \in DOMAIN tc.rules :
    /\ tc.rules[i].type = "status" => response.status = tc.rules[i].expect
    /\ tc.rules[i].type = "header" =>
         \E h \in response.headers :
           h.name = tc.rules[i].name /\ h.value = tc.rules[i].expect)

LEMMA BodyIsJudged ==
  ASSUME Types, tc.match # "jsonpath"
  PROVE  BodyFailures = {} <=> BodyMet
<1> DEFINE t == tc
           body == response.body
<1>1. t.match \in {"exact", "contains", "schema", "regex", "none"}
  BY CaseAssumption DEF Types
<1>2. BodyFailures = {} <=> (HasBodyAssertion(t) => BodyMatches(t, body))
  BY DEF BodyFailures, ByPath
<1>3. /\ "exact" # "contains" /\ "exact" # "schema" /\ "exact" # "regex"
      /\ "contains" # "schema" /\ "contains" # "regex" /\ "schema" # "regex"
      /\ "none" \notin {"exact", "contains", "schema", "regex"}
  OBVIOUS
<1>4. CASE t.match = "none"
  <2>1. BodyMet
    BY <1>3, <1>4, Zenon DEF BodyMet
  <2>2. QED
    BY <1>2, <1>4, <2>1 DEF HasBodyAssertion
<1>5. CASE t.match \in {"exact", "contains", "schema"} /\ t.expected = Absent
  <2>1. t.match # "regex"
    BY <1>5
  <2>2. BodyMet
    BY <1>5, <2>1, Zenon DEF BodyMet
  <2>3. QED
    BY <1>2, <1>5, <2>1, <2>2 DEF HasBodyAssertion
<1>6. CASE t.match = "exact" /\ t.expected # Absent
  <2>1. BodyMatches(t, body) <=> jsonEqual(t.expected, body)
    BY <1>6, Zenon DEF BodyMatches
  <2>2. BodyMet <=> t.expected # Unparsed /\ body = t.expected
    BY <1>3, <1>6, Zenon DEF BodyMet
  <2>3. QED
    BY <1>2, <1>6, <2>1, <2>2 DEF HasBodyAssertion, jsonEqual
<1>7. CASE t.match = "contains" /\ t.expected # Absent
  <2>1. BodyMatches(t, body) <=> body \in t.expected
    BY <1>3, <1>7, Zenon DEF BodyMatches
  <2>2. BodyMet <=> t.expected # Unparsed /\ body \in t.expected
    BY <1>3, <1>7, Zenon DEF BodyMet
  <2>3. t.expected # Unparsed
    BY <1>7, CaseAssumption DEF Types
  <2>4. QED
    BY <1>2, <1>7, <2>1, <2>2, <2>3 DEF HasBodyAssertion
<1>8. CASE t.match = "schema" /\ t.expected # Absent
  <2>1. BodyMatches(t, body) <=> t.expected # Unparsed /\ body # Unparsed /\ body \in t.expected
    BY <1>3, <1>8, Zenon DEF BodyMatches
  <2>2. BodyMet <=> t.expected # Unparsed /\ body \in t.expected
    BY <1>3, <1>8, Zenon DEF BodyMet
  <2>3. t.expected = Unparsed \/ Unparsed \notin t.expected
    BY <1>8, CaseAssumption DEF Types
  <2>4. QED
    BY <1>2, <1>8, <2>1, <2>2, <2>3 DEF HasBodyAssertion
<1>9. CASE t.match = "regex"
  <2>1. BodyMatches(t, body) <=> Pattern(t) # Unparsed /\ body \in Pattern(t)
    BY <1>3, <1>9, Zenon DEF BodyMatches
  <2>2. CASE t.pattern # Absent
    <3>1. BodyMet <=> t.pattern # Unparsed /\ body \in t.pattern
      BY <1>3, <1>9, <2>2, Zenon DEF BodyMet
    <3>2. QED
      BY <1>2, <1>9, <2>1, <2>2, <3>1 DEF HasBodyAssertion, Pattern
  <2>3. CASE t.pattern = Absent /\ t.expected # Absent
    <3>1. BodyMet <=> t.expected # Unparsed /\ body \in t.expected
      BY <1>3, <1>9, <2>3, Zenon DEF BodyMet
    <3>2. QED
      BY <1>2, <1>9, <2>1, <2>3, <3>1 DEF HasBodyAssertion, Pattern
  <2>4. CASE t.pattern = Absent /\ t.expected = Absent
    <3>1. BodyMet
      BY <1>3, <1>9, <2>4, Zenon DEF BodyMet
    <3>2. QED
      BY <1>2, <2>4, <3>1 DEF HasBodyAssertion
  <2>5. QED
    BY <2>2, <2>3, <2>4
<1>10. QED
  BY <1>1, <1>4, <1>5, <1>6, <1>7, <1>8, <1>9

LEMMA RulesAreJudged ==
  ASSUME Types, response # Unreachable
  PROVE  RuleFailures = {} <=> RulesMet
<1>1. \A h \in response.headers : h = [name |-> h.name, value |-> h.value]
  BY ResponseAssumption DEF Types
<1>2. ASSUME NEW n, NEW v
      PROVE  [name |-> n, value |-> v] \in response.headers
               <=> \E h \in response.headers : h.name = n /\ h.value = v
  BY <1>1
<1> DEFINE Met(rule) ==
      /\ rule.type = "status" => response.status = rule.expect
      /\ rule.type = "header" =>
           \E h \in response.headers : h.name = rule.name /\ h.value = rule.expect
<1>3. ASSUME NEW rule PROVE RuleHolds(rule) <=> Met(rule)
  BY <1>2, RulesByType
<1>4. Broken(tc.rules) = {} <=> \A i \in DOMAIN tc.rules : RuleHolds(tc.rules[i])
  BY DEF Broken
<1>5. (\A i \in DOMAIN tc.rules : RuleHolds(tc.rules[i]))
        <=> \A i \in DOMAIN tc.rules : Met(tc.rules[i])
  <2> HIDE DEF Met
  <2>1. QED
    BY <1>3
<1>6. QED
  BY <1>4, <1>5 DEF RuleFailures, RulesMet

\* A case passes exactly when its answer meets all it declares, for every case and every
\* answer (VerdictEarned).
THEOREM VerdictIsEarned == Spec => []VerdictEarned
<1>1. IInv => VerdictEarned
  <2> SUFFICES ASSUME IInv, at = "over", response # Unreachable, tc.match # "jsonpath"
               PROVE  status = "pass" <=> Meets(tc, response)
    BY DEF VerdictEarned
  <2>1. /\ failures = StatusFailures \union BodyFailures \union RuleFailures
        /\ status = "pass" <=> failures = {}
        /\ Types
    BY DEF IInv, Collected, Judged
  <2>2. StatusFailures = {} <=> StatusMet
    <3>1. tc.status \in Nat
      BY <2>1, CaseAssumption DEF Types
    <3>2. QED
      BY <3>1 DEF StatusFailures, StatusMet
  <2>3. BodyFailures = {} <=> BodyMet
    BY <2>1, BodyIsJudged
  <2>4. RuleFailures = {} <=> RulesMet
    BY <2>1, RulesAreJudged
  <2>5. Meets(tc, response) <=> StatusMet /\ BodyMet /\ RulesMet
    BY Zenon DEF Meets, StatusMet, BodyMet, RulesMet
  <2>6. QED
    BY <2>1, <2>2, <2>3, <2>4, <2>5
<1>2. QED
  BY <1>1, Invariance, PTL
=============================================================================
