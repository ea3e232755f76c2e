---------------------------- MODULE MockMatcher ----------------------------
(***************************************************************************)
(* Which mock rule answers a request: backend/internal/mock/matcher.go,    *)
(* without state.  A rule is a record with its id, api, priority and match *)
(* specification: a set of fields, each with the place it looks at, its    *)
(* style and what it accepts.                                              *)
(*                                                                         *)
(* A request gives each place a value.  Values are the classes the styles  *)
(* tell apart: absent (or empty) and the JSON types a text can be read as. *)
(***************************************************************************)
EXTENDS Integers, Sequences, FiniteSets

Absent == "absent"
ValueClasses == {Absent, "text", "number", "boolean", "null", "array", "object"}

\* json.Unmarshal reads null into anything.
TypeAccepts(type) ==
  CASE type = "string" -> ValueClasses \ {Absent}
    [] type = "null" -> {Absent, "null"}
    [] type \in {"number", "boolean", "array", "object"} -> {type, "null"}
    [] OTHER -> {}

\* What a field accepts, by its style: an exact text, what a regular expression
\* matches, the values of a type.  A bad field is one decodeFieldSpec refuses.
Exact(place, value) == [place |-> place, style |-> "exact", accepts |-> {value} \ {Absent}]
Regex(place, matching) == [place |-> place, style |-> "regex", accepts |-> matching]
TypeOnly(place, type) == [place |-> place, style |-> "type", accepts |-> TypeAccepts(type)]
Bad(place) == [place |-> place, style |-> "bad", accepts |-> {}]

Weight == [exact |-> 50, regex |-> 30, type |-> 10]

IsBad(rule) == \E f \in rule.match : f.style = "bad"

\* How many fields of a style match the request.
FieldsThatMatch(rule, style, request) ==
  Cardinality({f \in rule.match : f.style = style /\ request[f.place] \in f.accepts})

\* A rule without fields catches all; otherwise the weights of the fields that
\* match add up, and those that do not are no obstacle.
ScoreRule(rule, request) ==
  IF rule.match = {} THEN 1
  ELSE Weight.exact * FieldsThatMatch(rule, "exact", request)
       + Weight.regex * FieldsThatMatch(rule, "regex", request)
       + Weight.type * FieldsThatMatch(rule, "type", request)

BeatsOnTies(a, b, request) == ScoreRule(a, request) >= ScoreRule(b, request)
\* PickBest: score, then priority, then id.
Beats(a, b, request) ==
  \/ ScoreRule(a, request) > ScoreRule(b, request)
  \/ /\ ScoreRule(a, request) = ScoreRule(b, request)
     /\ \/ a.priority < b.priority
        \/ a.priority = b.priority /\ a.id < b.id

NoRule == [id |-> 0]

\* One round of PickBest's loop: the better of the best so far and the next rule.
BetterOf(best, r, request) ==
  IF ScoreRule(r, request) = 0 \/ (best # NoRule /\ ~Beats(r, best, request)) THEN best ELSE r

\* The rule PickBest returns, NoRule if none matches.
PickBest(candidates, request) ==
  LET best[i \in 0 .. Len(candidates)] ==
        IF i = 0 THEN NoRule ELSE BetterOf(best[i - 1], candidates[i], request)
  IN best[Len(candidates)]
=============================================================================
