------------------------------ MODULE Contract ------------------------------
(***************************************************************************)
(* The operations of an OpenAPI document (backend/internal/contract/       *)
(* parser.go) and the comparison of two lists of apis (differ.go).  A      *)
(* document is a set of operations, each a path, known by its place in     *)
(* the order of path strings, and a method.                                *)
(***************************************************************************)
EXTENDS Integers, SequencesExt

httpMethods == <<"GET", "POST", "PUT", "PATCH", "DELETE", "HEAD", "OPTIONS">>

MethodPlace(method) == CHOOSE i \in DOMAIN httpMethods : httpMethods[i] = method

Operations(doc) == {op \in doc : \E i \in DOMAIN httpMethods : httpMethods[i] = op.method}

\* By path, the methods of a path in their order.
Precedes(a, b) ==
  a.path < b.path \/ (a.path = b.path /\ MethodPlace(a.method) < MethodPlace(b.method))

\* One api for each operation.
ExtractAPIs(doc) ==
  CHOOSE s \in [1 .. Cardinality(Operations(doc)) -> Operations(doc)] :
    \A i, j \in DOMAIN s : i < j => Precedes(s[i], s[j])

\* Rows that have a method and a path, keyed by both.
indexByPath(apis) == {[path |-> a.path, method |-> a.method] : a \in apis}

(***************************************************************************)
(* An api found on both sides is "modified", whatever it holds: the        *)
(* methods are equal, since the method is in the key, and spec_json is one *)
(* path item, in which diffOne looks for the path and never finds it.      *)
(***************************************************************************)
Diff(old, newer) ==
  LET before == indexByPath(old)
      after == indexByPath(newer)
  IN {[type |-> "removed", op |-> k, breaking |-> TRUE] : k \in before \ after}
     \union {[type |-> "modified", op |-> k, breaking |-> FALSE] : k \in before \cap after}
     \union {[type |-> "added", op |-> k, breaking |-> FALSE] : k \in after \ before}
=============================================================================
