---------------------------- MODULE MCAssertions ----------------------------
(* Small bodies, and cases that check the status, the body and the rules.  *)
EXTENDS Assertions, TLC
Num(n) == [num |-> n]
Obj(f) == [obj |-> f]
Arr(s) == [arr |-> s]

Bodies == {Num(1), Arr(<<Num(1)>>), Obj([a |-> Num(1)]), Obj([a |-> Arr(<<>>)]),
           Obj([a |-> Arr(<<Num(1), Obj([b |-> Num(2)])>>), b |-> Num(2)]),
           Obj([a |-> Obj([b |-> Arr(<<Num(2), Num(1)>>)])]), Unparsed}

Inside(S) ==
  S \union UNION {IF "obj" \in DOMAIN v THEN {v.obj[k] : k \in DOMAIN v.obj}
                  ELSE IF "arr" \in DOMAIN v THEN {v.arr[i] : i \in DOMAIN v.arr}
                  ELSE {} : v \in S}
Values == Inside(Inside(Inside(Bodies \ {Unparsed})))

Header(v) == [name |-> "trace", value |-> v]
Answers == {[status |-> s, headers |-> h, body |-> b] : s \in {200, 500}, b \in Bodies,
              h \in {{}, {Header("x")}, {Header("x"), Header("y")}}}

Parts == {[key |-> k, index |-> i] : k \in {"a", "b"}, i \in {Absent, Unparsed, -1, 0, 1, 2}}
Paths == {<<p>> : p \in Parts} \union {<<p, q>> : p, q \in Parts}

Case(match, expected, pattern) ==
  [status |-> 0, match |-> match, expected |-> expected, pattern |-> pattern, rules |-> Absent]
Sets == {Absent, Unparsed, {Num(1), Obj([a |-> Num(1)])}}

Judged ==
  {Case("jsonpath", [path |-> p, expect |-> e], Absent) :
     p \in Paths, e \in {Num(1), Num(2), Arr(<<>>)}} \union
  {[Case(c.match, c.expected, c.pattern) EXCEPT !.status = s, !.rules = rules] :
     c \in {[match |-> "exact", expected |-> e, pattern |-> p] :
              e \in {Absent, Unparsed, Num(1), Obj([a |-> Num(1)])}, p \in {Absent}}
       \union {[match |-> m, expected |-> e, pattern |-> p] :
              m \in {"schema", "regex"}, e \in Sets, p \in Sets}
       \union {[match |-> "contains", expected |-> e, pattern |-> p] :
              e \in {Absent, {Num(1), Unparsed}}, p \in Sets}
       \union {[match |-> "none", expected |-> Num(1), pattern |-> Absent]},
     s \in {0, 200},
     rules \in {Absent, Unparsed, <<[type |-> "other"]>>,
                <<[type |-> "status", expect |-> 200], [type |-> "header", name |-> "trace", expect |-> "y"]>>}}
=============================================================================
