----------------------------- MODULE Assertions -----------------------------
(***************************************************************************)
(* How a test case's answer is judged: Execute and Assert of backend/      *)
(* internal/runner (executor.go, assertion.go).  A JSON value is a record  *)
(* with one field, num, obj (a record of values) or arr (a sequence); a    *)
(* text that does not parse is Unparsed.  What a substring, a regular      *)
(* expression or a JSON schema accepts is given as a set of bodies.        *)
(***************************************************************************)
EXTENDS Integers, Sequences

CONSTANTS
  Cases,      \* test cases: status, match, expected, pattern, rules
  Responses,  \* status, headers (name in lower case, value), body; or Unreachable
  Unparsed,
  Unreachable,
  Absent,     \* a field of a test case that is not set; a part without an index
  JSON        \* JSON values, with all they contain

ASSUME MarksAssumption ==
  /\ Absent # Unparsed /\ Absent \notin Int /\ Unparsed \notin Int
  /\ Unparsed \notin JSON /\ Unreachable \notin Responses

ASSUME JSONAssumption == \A v \in JSON :
  /\ DOMAIN v \in {{"num"}, {"obj"}, {"arr"}}
  /\ "obj" \in DOMAIN v => \A k \in DOMAIN v.obj : v.obj[k] \in JSON
  /\ "arr" \in DOMAIN v => v.arr \in Seq(JSON)

ASSUME ResponseAssumption == \A answer \in Responses :
  /\ answer.body \in JSON \union {Unparsed}
  /\ \A h \in answer.headers : h = [name |-> h.name, value |-> h.value]

Part == [key : STRING, index : Int \union {Absent, Unparsed}]

\* The columns of a test case; a substring is not parsed, and what is no JSON has no
\* schema.
ASSUME CaseAssumption == \A t \in Cases :
  /\ t.status \in Nat
  /\ t.match \in {"exact", "contains", "jsonpath", "schema", "regex", "none"}
  /\ t.match = "contains" => t.expected # Unparsed
  /\ t.match = "schema" => t.expected \in {Absent, Unparsed} \/ Unparsed \notin t.expected
  /\ t.match = "jsonpath" => t.expected \in {Absent, Unparsed} \/ t.expected.path \in Seq(Part)

VARIABLES
  tc, response, at,
  failures,   \* the kinds of check that have failed
  status

vars == <<tc, response, at, failures, status>>

Init ==
  /\ tc \in Cases
  /\ response = Unreachable /\ at = "execute"
  /\ failures = {} /\ status = "none"

\* client.Do, with nothing to judge when there is no response.
Execute ==
  /\ at = "execute"
  /\ response' \in Responses \union {Unreachable}
  /\ IF response' = Unreachable THEN at' = "over" /\ status' = "error"
     ELSE at' = "status" /\ UNCHANGED status
  /\ UNCHANGED <<tc, failures>>

Goes(to, found) ==
  /\ at' = to /\ failures' = failures \union found
  /\ UNCHANGED <<tc, response, status>>

AssertStatus ==
  /\ at = "status"
  /\ Goes("body", IF tc.status > 0 /\ response.status # tc.status THEN {"status"} ELSE {})

(***************************************************************************)
(* jsonPathLookup.  A part has a key and the index behind it, which is     *)
(* Unparsed when it is not a number; an index of a second [..] in the same *)
(* part is not read.  A negative index panics.                             *)
(***************************************************************************)
NotFound == [found |-> "error"]
Panic == [found |-> "panic"]
Value(v) == [found |-> "value", value |-> v]

PastEndOffByOne(i, arr) == i > Len(arr)
PastEnd(i, arr) == i >= Len(arr)

Element(v, i) ==
  IF i = Unparsed THEN NotFound
  ELSE IF i = Absent THEN Value(v)
  ELSE IF "arr" \notin DOMAIN v \/ PastEnd(i, v.arr) THEN NotFound
  ELSE IF i + 1 \in DOMAIN v.arr THEN Value(v.arr[i + 1]) ELSE Panic

Navigate(cur, part) ==
  IF cur.found # "value" THEN cur
  ELSE IF part.index = Unparsed \/ "obj" \notin DOMAIN cur.value THEN NotFound
  ELSE IF part.key \notin DOMAIN cur.value.obj THEN NotFound
  ELSE Element(cur.value.obj[part.key], part.index)

jsonPathLookup(body, path) ==
  LET cur[i \in 0 .. Len(path)] ==
        IF i = 0 THEN Value(body) ELSE Navigate(cur[i - 1], path[i])
  IN IF body = Unparsed THEN NotFound ELSE cur[Len(path)]

(***************************************************************************)
(* assertBody.                                                             *)
(***************************************************************************)
HasBodyAssertionWithPattern(t) ==
  t.match # "none" /\ t.expected # Absent /\ (t.match = "regex" => t.pattern # Absent)
\* A pattern without an expected body counts for "regex" only.
HasBodyAssertion(t) ==
  t.match # "none" /\ (t.expected # Absent \/ (t.match = "regex" /\ t.pattern # Absent))

jsonEqual(a, b) == a # Unparsed /\ a = b

Pattern(t) == IF t.pattern # Absent THEN t.pattern ELSE t.expected

BodyMatches(t, body) ==
  CASE t.match = "exact" -> jsonEqual(t.expected, body)
    [] t.match = "contains" -> body \in t.expected
    [] t.match = "regex" -> Pattern(t) # Unparsed /\ body \in Pattern(t)
    [] t.match = "schema" -> t.expected # Unparsed /\ body # Unparsed /\ body \in t.expected
    [] OTHER -> FALSE

AssertBody ==
  /\ at = "body"
  /\ IF ~HasBodyAssertion(tc) THEN Goes("advanced", {})
     ELSE IF tc.match = "jsonpath" /\ tc.expected # Unparsed
     THEN LET got == jsonPathLookup(response.body, tc.expected.path) IN
          IF got = Panic THEN Goes("panicked", {})
          ELSE Goes("advanced", IF got = Value(tc.expected.expect) THEN {} ELSE {"body"})
     ELSE Goes("advanced", IF BodyMatches(tc, response.body) THEN {} ELSE {"body"})

(***************************************************************************)
(* assertAdvanced: the rules of assertions_json, of which those of another *)
(* type are passed over.                                                   *)
(***************************************************************************)
RuleHolds(rule) ==
  CASE rule.type = "status" -> rule.expect = response.status
    [] rule.type = "header" -> [name |-> rule.name, value |-> rule.expect] \in response.headers
    [] OTHER -> TRUE

Broken(rules) == {rules[i].type : i \in {j \in DOMAIN rules : ~RuleHolds(rules[j])}}

AssertAdvanced ==
  /\ at = "advanced"
  /\ Goes("judge", IF tc.rules = Absent THEN {}
                   ELSE IF tc.rules = Unparsed THEN {"parse"} ELSE Broken(tc.rules))

Judge ==
  /\ at = "judge"
  /\ at' = "over" /\ status' = IF failures = {} THEN "pass" ELSE "fail"
  /\ UNCHANGED <<tc, response, failures>>

Next == Execute \/ AssertStatus \/ AssertBody \/ AssertAdvanced \/ Judge
Spec == Init /\ [][Next]_vars

(***************************************************************************)
(* Properties.                                                             *)
(***************************************************************************)
\* v is what one part of a path leads to from u.
Leads(u, part, v) ==
  /\ "obj" \in DOMAIN u /\ part.key \in DOMAIN u.obj
  /\ \/ part.index = Absent /\ v = u.obj[part.key]
     \/ /\ part.index \in Int /\ "arr" \in DOMAIN u.obj[part.key]
        /\ part.index \in 0..(Len(u.obj[part.key].arr) - 1)
        /\ v = u.obj[part.key].arr[part.index + 1]

\* The values at the end of a path.
Ends(body, path) ==
  LET ends[i \in 0 .. Len(path)] ==
        IF i = 0 THEN {body}
        ELSE {v \in JSON : \E u \in ends[i - 1] : Leads(u, path[i], v)}
  IN ends[Len(path)]

\* A jsonpath check passes exactly when the expected value is at the end of the path,
\* whatever is missing, of another type or out of range on the way; only a negative
\* index stops the process (jsonPathLookup indexes the slice with it).
LookupSound ==
  tc.match = "jsonpath" /\ tc.expected \notin {Absent, Unparsed} /\ response # Unreachable =>
    /\ at = "panicked" => \E i \in DOMAIN tc.expected.path :
         tc.expected.path[i].index \in Int /\ tc.expected.path[i].index < 0
    /\ at \in {"advanced", "judge", "over"} =>
         ("body" \notin failures
            <=> response.body # Unparsed /\ tc.expected.expect \in Ends(response.body, tc.expected.path))

Meets(t, answer) ==
  /\ t.status \in {0, answer.status}
  /\ CASE t.match \in {"exact", "schema", "contains"} /\ t.expected # Absent ->
            t.expected # Unparsed /\ (t.match = "exact" => answer.body = t.expected)
              /\ (t.match # "exact" => answer.body \in t.expected)
       [] t.match = "regex" /\ t.pattern # Absent -> t.pattern # Unparsed /\ answer.body \in t.pattern
       [] t.match = "regex" /\ t.pattern = Absent /\ t.expected # Absent ->
            t.expected # Unparsed /\ answer.body \in t.expected
       [] OTHER -> TRUE
  /\ t.rules = Absent \/ (t.rules # Unparsed /\ \A i \in DOMAIN t.rules :
       /\ t.rules[i].type = "status" => answer.status = t.rules[i].expect
       /\ t.rules[i].type = "header" =>
            \E h \in answer.headers : h.name = t.rules[i].name /\ h.value = t.rules[i].expect)

\* A case passes exactly when its answer meets all the case declares: its status, its
\* body by the declared match, and each rule of a known type.  A match other than regex
\* declares nothing without an expected body, even when there is a pattern.
VerdictEarned ==
  at = "over" /\ response # Unreachable /\ tc.match # "jsonpath" =>
    (status = "pass" <=> Meets(tc, response))
=============================================================================
