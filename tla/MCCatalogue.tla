---------------------------- MODULE MCCatalogue -----------------------------
(* Any two of these requests, with one that disturbs them, on a project    *)
(* with an owner, an engineer, a viewer, one api, one rule and one case,   *)
(* beside the engineer's own project.                                      *)
EXTENDS Catalogue, TLC
CONSTANTS p1, p2, a1, k1, t1, t2, ann, bob, cat, dan

Get == [path |-> 1, method |-> "GET"]
Post == [path |-> 1, method |-> "POST"]
Get2 == [path |-> 2, method |-> "GET"]

Asked(kind, by, id, op, arg) ==
  [kind |-> kind, by |-> by, pid |-> p1, id |-> id, ops |-> <<op>>, arg |-> arg, doc |-> {},
   fields |-> [c \in {} |-> None]]
Updated(kind, id, fields) == [Asked(kind, bob, id, None, None) EXCEPT !.fields = fields]

Asks ==
  {Asked("createProject", bob, None, None, s) : s \in {"one", "three"}} \union
  {Asked("updateProject", u, None, None, "second") : u \in {ann, bob}} \union
  {Asked("deleteProject", ann, None, None, None)} \union
  {Asked("addMember", ann, dan, None, "engineer"), Asked("addMember", bob, dan, None, "viewer")} \union
  {Asked("createApi", u, None, Post, None) : u \in {bob, dan}} \union
  {Updated("updateApi", a1, fields) :
     fields \in {[path |-> 1, method |-> "POST"], [path |-> 1]}} \union
  {Asked("deleteApi", u, a1, None, None) : u \in {ann, bob}} \union
  {[Asked("deleteApi", u, a1, None, None) EXCEPT !.pid = p2] : u \in {ann, bob}} \union
  {Asked("addTag", bob, a1, None, tag) : tag \in {"x", "y"}} \union
  {Asked("removeTag", u, a1, None, "x") : u \in {ann, cat}} \union
  {[Asked("import", u, None, None, None) EXCEPT !.doc = {Get, Post, Get2}] : u \in {bob, dan}} \union
  {Asked(kind, bob, k1, None, a1) : kind \in {"createRule", "updateRule", "deleteRule", "recordHit"}} \union
  {Updated("updateCase", t1, fields) :
     fields \in {[api |-> a1], [api |-> None], [project |-> p2], [id |-> t2]}} \union
  {Asked("createCase", bob, None, None, a1), Asked("deleteCase", bob, t1, None, None)}

Disturbing ==
  {Asked("createProject", bob, None, None, "one"), Asked("deleteProject", ann, None, None, None),
   Asked("deleteApi", ann, a1, None, None)}

AllSetups ==
  {[projects |-> {[id |-> p1, owner |-> ann, slug |-> "one", name |-> "first"],
                  [id |-> p2, owner |-> bob, slug |-> "two", name |-> "first"]},
    members |-> {Member(p1, ann, "admin"), Member(p1, bob, "engineer"), Member(p1, cat, "viewer"),
                 Member(p2, bob, "admin")},
    apis |-> {[id |-> a1, project |-> p1, path |-> 1, method |-> "GET", tags |-> {"x"}]},
    rules |-> {[id |-> k1, api |-> a1, enabled |-> TRUE, hits |-> 0]},
    cases |-> {[id |-> t1, project |-> p1, api |-> a1]},
    asks |-> asks] : asks \in {f \in [Requests -> Asks] : \E r \in Requests : f[r] \in Disturbing}}

Sym == Permutations(Requests)
=============================================================================
