---------------------------- MODULE MCMockEngine ----------------------------
(* One call against any three rules, and two calls with rules that extract *)
(* and show a variable.                                                    *)
EXTENDS MockEngine, TLC
CONSTANTS c1, c2
Rule(id, api, priority, match) ==
  [id |-> id, api |-> api, priority |-> priority, match |-> match,
   delay |-> FALSE, extracts |-> <<>>, shows |-> {}]

Specs == {{}, {Exact("query", "text")}, {Regex("query", {"text", "null"}), TypeOnly("header", "number")},
          {TypeOnly("header", "null"), Exact("header", "null")}, {Bad("query")}}
Values == {Absent, "text", "number", "null"}
Requests == {[api |-> "a", query |-> q, header |-> h] : q, h \in Values}
Contests ==
  {[rules |-> {Rule(1, "a", p1, s1), Rule(2, "a", p2, s2), Rule(3, api, 1, s3)},
    calls |-> {c1}, requests |-> Requests] :
      p1, p2 \in 1..2, api \in {"a", "b"}, s1, s2, s3 \in Specs}

Writer == [Rule(1, "a", 1, {}) EXCEPT !.delay = TRUE, !.shows = {"x"},
             !.extracts = <<[as |-> "x", finds |-> "value"], [as |-> "y", finds |-> "nothing"],
                            [as |-> "y", finds |-> "value"], [as |-> "x", finds |-> "value"],
                            [as |-> "x", finds |-> "bad"]>>]
Reader == [Rule(2, "b", 1, {}) EXCEPT !.shows = {"x", "y"}]
Flows ==
  {[rules |-> {Writer, Reader}, calls |-> {c1, c2},
    requests |-> {[api |-> a, query |-> Absent, header |-> Absent] : a \in {"a", "b"}}]}

AllSetups == Contests \union Flows
=============================================================================
