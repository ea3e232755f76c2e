----------------------------- MODULE Catalogue ------------------------------
(***************************************************************************)
(* The catalogue: projects and members, apis and their tags, imports, mock *)
(* rules and test cases (backend/internal/service and api over             *)
(* repository), as requests that run together on one database.  A request  *)
(* takes one step for each query it makes; nothing is in a transaction.    *)
(* Requests are well formed: the checks of empty names are left out.       *)
(***************************************************************************)
EXTENDS Contract, FiniteSets

CONSTANTS
  Requests,   \* also the ids of the projects they create
  Setups,     \* what the database holds at first, and what each request asks
  None,       \* no api, no project
  MaxFaults   \* bound: queries that fail

(***************************************************************************)
(* The tables.                                                             *)
(***************************************************************************)
NoRow == [id |-> None]
Has(table, id) == \E x \in table : x.id = id
Row(table, id) == IF Has(table, id) THEN CHOOSE x \in table : x.id = id ELSE NoRow

Columns(table, columns) == \A x \in table : DOMAIN x = columns
Unique(table) == \A x, y \in table : x.id = y.id => x = y
Member(pid, user, role) == [project |-> pid, user |-> user, role |-> role]
Roles == {"admin", "engineer", "viewer"}

\* The keys and foreign keys of the migrations: one row for an id, a slug, a member
\* of a project and an operation of a project.
Linked(ps, ms, as, ks, cs) ==
  /\ Columns(ps, {"id", "owner", "slug", "name"}) /\ Unique(ps)
  /\ \A p, q \in ps : p.slug = q.slug => p = q
  /\ \A m \in ms : m = Member(m.project, m.user, m.role) /\ Has(ps, m.project) /\ m.role \in Roles
  /\ \A m, n \in ms : m.project = n.project /\ m.user = n.user => m = n
  /\ Columns(as, {"id", "project", "path", "method", "tags"}) /\ Unique(as)
  /\ \A a \in as : Has(ps, a.project)
  /\ \A a, b \in as : a.project = b.project /\ a.path = b.path /\ a.method = b.method => a = b
  /\ Columns(ks, {"id", "api", "enabled", "hits"}) /\ Unique(ks)
  /\ \A k \in ks : Has(as, k.api) /\ k.hits \in Nat
  /\ Columns(cs, {"id", "project", "api"}) /\ Unique(cs)
  /\ \A c \in cs : Has(ps, c.project) /\ (c.api = None \/ Has(as, c.api))

\* Ids are made by the server: a request meets none of its own making beforehand.
\* Its document is a finite set of operations, its role one of the three.
WellAsked(s, r) ==
  LET ask == s.asks[r] IN
  /\ Len(ask.ops) = 1
  /\ IsFiniteSet(ask.doc) /\ ask.doc \subseteq [path : Int, method : STRING]
  /\ \A a \in s.apis, op \in {ask.ops[1]} \union ask.doc : a.id # <<r, op>>
  /\ ask.kind = "addMember" => ask.arg \in Roles
  /\ ask.kind = "updateApi" => DOMAIN ask.fields \subseteq {"path", "method"}
  /\ ask.kind = "updateCase" /\ "id" \in DOMAIN ask.fields => ask.fields.id \notin Requests

ASSUME CatalogueAssumption ==
  /\ IsFiniteSet(Requests) /\ None \notin Requests
  /\ MaxFaults \in Nat
  /\ \A s \in Setups :
       /\ Linked(s.projects, s.members, s.apis, s.rules, s.cases)
       /\ \A p \in s.projects : /\ p.id \notin Requests \union {None}
                                 /\ Member(p.id, p.owner, "admin") \in s.members
       /\ \A c \in s.cases : c.id \notin Requests
       /\ \A r \in Requests : WellAsked(s, r)

VARIABLES
  setup,      \* the choice from Setups
  projects, members, apis, rules, cases,   \* tables
  req,        \* each request: the queries left, the row it read, its answer
  faults

tables == <<projects, members, apis, rules, cases>>
vars == <<setup, tables, req, faults>>

Ask(r) == setup.asks[r]

(***************************************************************************)
(* The queries of each kind of request, in order.  "guard" is the role     *)
(* check in front of the handler, "role" the one in the service.           *)
(***************************************************************************)
Program(kind) ==
  CASE kind = "createProject" -> <<"write", "join">>
    [] kind = "updateProject" -> <<"guard", "role", "find", "write">>
    [] kind = "deleteProject" -> <<"guard", "find", "write">>
    [] kind \in {"updateApi"} -> <<"guard", "find", "role", "write", "again">>
    [] kind \in {"addTag", "removeTag"} -> <<"guard", "find", "refind", "role", "write", "again">>
    [] kind = "deleteApi" -> <<"guard", "find", "role", "write">>
    [] kind = "updateCase" -> <<"guard", "role", "write", "again">>
    [] kind = "recordHit" -> <<"write">>
    [] kind \in {"createRule", "updateRule", "deleteRule"} -> <<"rule">>
    [] OTHER -> <<"guard", "role", "write">>  \* addMember, createApi, createCase, deleteCase

Steps(kind, ops) == LET p == Program(kind) IN [i \in DOMAIN p |-> [do |-> p[i], op |-> ops[1]]]

\* An import calls Create for one operation after the other.
ImportSteps(ops) ==
  <<[do |-> "guard", op |-> None]>>
    \o [i \in 1..(2 * Len(ops)) |-> [do |-> IF i % 2 = 1 THEN "role" ELSE "write",
                                     op |-> ops[(i + 1) \div 2]]]

Todo(ask) ==
  IF ask.kind = "import" THEN ImportSteps(ExtractAPIs(ask.doc)) ELSE Steps(ask.kind, ask.ops)

Init ==
  /\ setup \in Setups
  /\ projects = setup.projects /\ members = setup.members
  /\ apis = setup.apis /\ rules = setup.rules /\ cases = setup.cases
  /\ req = [r \in Requests |->
       [todo |-> Todo(setup.asks[r]), found |-> FALSE, seen |-> NoRow, answer |-> "none",
        wrote |-> FALSE, revived |-> FALSE, created |-> {}, failed |-> {}, missed |-> {},
        overtaken |-> {}]]
  /\ faults = 0

Step(r) == Head(req[r].todo)
Doing(r, do) == req[r].todo # <<>> /\ Step(r).do = do /\ ~req[r].found
Query(ok) == (ok \/ faults < MaxFaults) /\ faults' = IF ok THEN faults ELSE faults + 1

IsLive(pid) == Has(projects, pid)

\* The first answer written is the one the client reads.
Answered(q, answer) == [q EXCEPT !.answer = IF @ = "none" THEN answer ELSE @]
Ends(q) == IF q.todo = <<>> THEN Answered(q, "ok") ELSE q
Passed(q) == Ends([q EXCEPT !.todo = Tail(@), !.found = FALSE])

RestAfterFailureStop(q) == <<>>
\* What an import still does after one operation has failed: the others.
RestAfterFailure(q) == IF Head(q.todo).do = "role" THEN Tail(Tail(q.todo)) ELSE Tail(q.todo)
Failed(r, q, why) ==
  IF Ask(r).kind = "import"
  THEN Ends([q EXCEPT !.failed = @ \union {Head(q.todo).op}, !.found = FALSE,
                      !.todo = RestAfterFailure(q)])
  ELSE Answered([q EXCEPT !.todo = <<>>, !.found = FALSE], why)

Becomes(r, q) == req' = [req EXCEPT ![r] = q]
Pass(r) == Becomes(r, Passed(req[r]))
Fail(r, why) == Becomes(r, Failed(r, req[r], why))

(***************************************************************************)
(* Roles.  The levels main.go gives RequireProjectRole, and the roles the  *)
(* services ask for.  The middleware answers but does not abort: the       *)
(* handler runs after a refusal too, and only its own check stops it.      *)
(***************************************************************************)
Writers == {"admin", "engineer"}
Levels(kind) ==
  CASE kind \in {"updateProject", "addMember", "deleteApi"} -> {"admin"}
    [] kind = "deleteProject" -> Roles
    [] OTHER -> Writers
NeededIsLeftToTheRoute(kind) == Roles \union {"stranger", "missing", "error"}
Needed(kind) == IF kind \in {"updateProject", "addMember", "deleteApi"} THEN {"admin"} ELSE Writers

Refusal(role) == IF role \in {"missing", "error"} THEN role ELSE "forbidden"
RoleKnown(r, role) ==
  LET q == req[r] IN
  Becomes(r, IF Step(r).do = "role"
             THEN IF role \in Needed(Ask(r).kind) THEN Passed(q) ELSE Failed(r, q, Refusal(role))
             ELSE IF role \in Levels(Ask(r).kind) THEN Passed(q)
                  ELSE Passed(Answered(q, Refusal(role))))

\* The project of the api read; for the others, and the guard, the one in the URL.
TargetProject(r) ==
  IF Ask(r).kind \in {"updateApi", "deleteApi", "addTag", "removeTag"}
  THEN req[r].seen.project ELSE Ask(r).pid
RoleProject(r) == IF Step(r).do = "role" THEN TargetProject(r) ELSE Ask(r).pid

\* RoleFor: the project, and its owner is an admin;
FindOwner(r) ==
  LET p == Row(projects, RoleProject(r)) IN
  /\ Doing(r, "guard") \/ Doing(r, "role")
  /\ \E ok \in BOOLEAN :
       /\ Query(ok)
       /\ IF ~ok THEN RoleKnown(r, "error")
          ELSE IF p = NoRow THEN RoleKnown(r, "missing")
          ELSE IF p.owner = Ask(r).by THEN RoleKnown(r, "admin")
          ELSE Becomes(r, [req[r] EXCEPT !.found = TRUE])
  /\ UNCHANGED <<setup, tables>>

RoleOf(user, pid) ==
  IF \E p \in projects : p.id = pid /\ p.owner = user THEN "admin"
  ELSE IF \E m \in members : m.project = pid /\ m.user = user
  THEN (CHOOSE m \in members : m.project = pid /\ m.user = user).role
  ELSE "stranger"

\* then, for anyone else, the row in project_members.
FindMember(r) ==
  /\ req[r].found
  /\ \E ok \in BOOLEAN :
       /\ Query(ok)
       /\ RoleKnown(r, IF ~ok THEN "error"
            ELSE IF \E m \in members : m.project = RoleProject(r) /\ m.user = Ask(r).by
            THEN (CHOOSE m \in members : m.project = RoleProject(r) /\ m.user = Ask(r).by).role
            ELSE "stranger")
  /\ UNCHANGED <<setup, tables>>

(***************************************************************************)
(* Reads of the row a request is about.                                    *)
(***************************************************************************)
Find(r) ==
  LET row == IF Ask(r).kind \in {"updateProject", "deleteProject"}
             THEN Row(projects, Ask(r).pid) ELSE Row(apis, Ask(r).id) IN
  /\ Doing(r, "find") \/ Doing(r, "refind")
  /\ \E ok \in BOOLEAN :
       /\ Query(ok)
       /\ IF ~ok THEN Fail(r, "error")
          ELSE IF row = NoRow THEN Fail(r, "missing")
          ELSE IF Ask(r).kind = "deleteProject" /\ row.owner # Ask(r).by THEN Fail(r, "forbidden")
          \* AddTag and RemoveTag work on the tags of their own, first read.
          ELSE IF Step(r).do = "refind" THEN Pass(r)
          ELSE Becomes(r, Passed([req[r] EXCEPT !.seen = row]))
  /\ UNCHANGED <<setup, tables>>

\* The row as it is after the update, which has been made whatever comes back.
FindAgain(r) ==
  LET row == Row(IF Ask(r).kind = "updateCase" THEN cases ELSE apis, Ask(r).id) IN
  /\ Doing(r, "again")
  /\ \E ok \in BOOLEAN :
       /\ Query(ok)
       /\ IF ~ok THEN Fail(r, "error")
          ELSE IF row # NoRow THEN Pass(r)
          ELSE Fail(r, IF Ask(r).kind = "updateCase" THEN "error" ELSE "missing")
  /\ UNCHANGED <<setup, tables>>

Writing(r, kinds) == Doing(r, "write") /\ Ask(r).kind \in kinds
Wrote(q) == [q EXCEPT !.wrote = TRUE]

(***************************************************************************)
(* Projects and members.                                                   *)
(***************************************************************************)
\* Create: the row, and an error of any kind when the slug is taken.
InsertProject(r) ==
  /\ Writing(r, {"createProject"})
  /\ \E ok \in BOOLEAN :
       /\ Query(ok)
       /\ IF ~ok \/ \E p \in projects : p.slug = Ask(r).arg
          THEN Fail(r, "error") /\ UNCHANGED projects
          ELSE /\ projects' = projects \union
                    {[id |-> r, owner |-> Ask(r).by, slug |-> Ask(r).arg, name |-> "first"]}
               /\ Becomes(r, Passed(Wrote(req[r])))
  /\ UNCHANGED <<setup, members, apis, rules, cases>>

\* A member row needs its project, and is one for each user.
CanJoin(user, pid) == IsLive(pid) /\ ~\E m \in members : m.project = pid /\ m.user = user

JoinFailureIgnored(r) == Pass(r)
\* Create returns the error and leaves the project row.
JoinFailure(r) == Fail(r, "error")

\* then the owner's row.
InsertOwner(r) ==
  /\ Doing(r, "join")
  /\ \E ok \in BOOLEAN :
       /\ Query(ok)
       /\ IF ok /\ CanJoin(Ask(r).by, r)
          THEN members' = members \union {Member(r, Ask(r).by, "admin")} /\ Pass(r)
          ELSE JoinFailure(r) /\ UNCHANGED members
  /\ UNCHANGED <<setup, projects, apis, rules, cases>>

AddMember(r) ==
  /\ Writing(r, {"addMember"})
  /\ \E ok \in BOOLEAN :
       /\ Query(ok)
       /\ IF ok /\ CanJoin(Ask(r).id, Ask(r).pid)
          THEN /\ members' = members \union {Member(Ask(r).pid, Ask(r).id, Ask(r).arg)}
               /\ Becomes(r, Passed(Wrote(req[r])))
          ELSE Fail(r, "error") /\ UNCHANGED members
  /\ UNCHANGED <<setup, projects, apis, rules, cases>>

\* gorm's Save of the row read before: every column by id and, when there is no
\* such row, an insert that turns into an update of the row with the same slug.
Saved(p) ==
  IF IsLive(p.id) THEN {q \in projects : q.id # p.id} \union {p}
  ELSE {q \in projects : q.slug # p.slug}
         \union {[p EXCEPT !.id = q.id] : q \in {q \in projects : q.slug = p.slug}}
         \union (IF \E q \in projects : q.slug = p.slug THEN {} ELSE {p})

\* A save that brings a project back, or gives it another owner, overtakes the requests
\* that have read their role on it and not yet written.
SaveProject(r) ==
  LET p == [req[r].seen EXCEPT !.name = Ask(r).arg]
      overtakes(q) == /\ Doing(q, "write")
                      /\ \E x \in Saved(p) :
                           /\ x.id = TargetProject(q)
                           /\ ~\E y \in projects : y.id = x.id /\ y.owner = x.owner
  IN
  /\ Writing(r, {"updateProject"})
  /\ \E ok \in BOOLEAN :
       /\ Query(ok)
       /\ IF ~ok THEN Fail(r, "error") /\ UNCHANGED projects
          ELSE /\ projects' = Saved(p)
               /\ req' = [q \in Requests |->
                    IF q = r THEN Passed([Wrote(req[r]) EXCEPT !.revived = ~IsLive(p.id)])
                    ELSE IF overtakes(q) THEN [req[q] EXCEPT !.overtaken = @ \union {Step(q).op}]
                    ELSE req[q]]
  /\ UNCHANGED <<setup, members, apis, rules, cases>>

(***************************************************************************)
(* Deletes, with what the foreign keys of the migrations take along.       *)
(***************************************************************************)
CasesWithoutReset(gone) == cases
\* api_id is set to null, mock rules go.
CasesWithout(gone) == {IF c.api \in gone THEN [c EXCEPT !.api = None] ELSE c : c \in cases}
RulesWithout(gone) == {k \in rules : k.api \notin gone}

DeleteProject(r) ==
  LET gone == {a.id : a \in {a \in apis : a.project = Ask(r).pid}} IN
  /\ Writing(r, {"deleteProject"})
  /\ \E ok \in BOOLEAN :
       /\ Query(ok)
       /\ IF ~ok THEN Fail(r, "error") /\ UNCHANGED tables
          ELSE /\ projects' = {p \in projects : p.id # Ask(r).pid}
               /\ members' = {m \in members : m.project # Ask(r).pid}
               /\ apis' = {a \in apis : a.id \notin gone}
               /\ rules' = RulesWithout(gone)
               /\ cases' = {c \in CasesWithout(gone) : c.project # Ask(r).pid}
               /\ Becomes(r, Passed(Wrote(req[r])))
  /\ UNCHANGED setup

DeleteApi(r) ==
  /\ Writing(r, {"deleteApi"})
  /\ \E ok \in BOOLEAN :
       /\ Query(ok)
       /\ IF ~ok THEN Fail(r, "error") /\ UNCHANGED tables
          ELSE /\ apis' = {a \in apis : a.id # Ask(r).id}
               /\ rules' = RulesWithout({Ask(r).id})
               /\ cases' = CasesWithout({Ask(r).id})
               /\ Becomes(r, Passed(Wrote(req[r])))
               /\ UNCHANGED <<projects, members>>
  /\ UNCHANGED setup

(***************************************************************************)
(* Apis: (project, method, path) is unique.                                *)
(***************************************************************************)
Taken(rows, pid, op) == \E a \in rows : a.project = pid /\ a.path = op.path /\ a.method = op.method

\* A row with the columns an update gives.
Overwritten(row, fields) ==
  [c \in DOMAIN row |-> IF c \in DOMAIN fields THEN fields[c] ELSE row[c]]

\* Create, which keeps neither the tags nor the schemas an import has extracted.
InsertApi(r) ==
  LET op == Step(r).op IN
  /\ Writing(r, {"createApi", "import"})
  /\ \E ok \in BOOLEAN :
       /\ Query(ok)
       /\ IF ~ok \/ ~IsLive(Ask(r).pid) \/ Taken(apis, Ask(r).pid, op)
          THEN Fail(r, "error") /\ UNCHANGED apis
          ELSE /\ apis' = apis \union {[id |-> <<r, op>>, project |-> Ask(r).pid, path |-> op.path,
                                        method |-> op.method, tags |-> {}]}
               /\ Becomes(r, Passed([Wrote(req[r]) EXCEPT !.created = @ \union {op}]))
  /\ UNCHANGED <<setup, projects, members, rules, cases>>

UpdateApi(r) ==
  LET row == Row(apis, Ask(r).id)
      new == Overwritten(row, Ask(r).fields) IN
  /\ Writing(r, {"updateApi"})
  /\ \E ok \in BOOLEAN :
       /\ Query(ok)
       /\ IF ok /\ row # NoRow /\ ~Taken(apis \ {row}, row.project, new)
          THEN /\ apis' = (apis \ {row}) \union {new}
               /\ Becomes(r, Passed(Wrote(req[r])))
          ELSE Fail(r, IF ok /\ row = NoRow THEN "missing" ELSE "error") /\ UNCHANGED apis
  /\ UNCHANGED <<setup, projects, members, rules, cases>>

ChangedAlone(ask, tags) == IF ask.kind = "addTag" THEN {ask.arg} ELSE tags \ {ask.arg}
\* appendUnique and removeTag, on the tags read.
Changed(ask, tags) ==
  IF ask.kind = "addTag" THEN tags \union {ask.arg} ELSE tags \ {ask.arg}

IsTagging(r) == Ask(r).kind \in {"addTag", "removeTag"}

\* tags_json is written as a whole; the requests that have read it and not yet
\* written miss this change.
UpdateTags(r) ==
  LET row == Row(apis, Ask(r).id) IN
  /\ Writing(r, {"addTag", "removeTag"})
  /\ \E ok \in BOOLEAN :
       /\ Query(ok)
       /\ IF ok /\ row # NoRow
          THEN /\ apis' = (apis \ {row}) \union
                            {[row EXCEPT !.tags = Changed(Ask(r), req[r].seen.tags)]}
               /\ req' = [q \in Requests |->
                    IF q = r THEN Passed(Wrote(req[r]))
                    ELSE IF IsTagging(q) /\ req[q].seen # NoRow /\ ~req[q].wrote
                    THEN [req[q] EXCEPT !.missed = @ \union {r}]
                    ELSE req[q]]
          ELSE Fail(r, IF ok THEN "missing" ELSE "error") /\ UNCHANGED apis
  /\ UNCHANGED <<setup, projects, members, rules, cases>>

(***************************************************************************)
(* Mock rules, without a guard in front.                                   *)
(***************************************************************************)
\* The handlers of rules pass "" for the project.
ProjectGiven(r) == None

\* The role on no project is "missing".
OnRule(r, kind, after) ==
  LET role == RoleOf(Ask(r).by, ProjectGiven(r)) IN
  /\ Doing(r, "rule") /\ Ask(r).kind = kind
  /\ \E ok \in BOOLEAN :
       /\ Query(ok)
       /\ IF ok /\ IsLive(ProjectGiven(r)) /\ role \in Writers
          THEN Pass(r) /\ rules' = after
          ELSE /\ Fail(r, IF ~ok THEN "error"
                          ELSE IF ~IsLive(ProjectGiven(r)) THEN "missing" ELSE "forbidden")
               /\ UNCHANGED rules
  /\ UNCHANGED <<setup, projects, members, apis, cases>>

CreateRule(r) ==
  OnRule(r, "createRule",
    rules \union {[id |-> r, api |-> Ask(r).arg, enabled |-> TRUE, hits |-> 0]})
UpdateRule(r) ==
  OnRule(r, "updateRule",
    {IF k.id = Ask(r).id THEN [k EXCEPT !.enabled = FALSE] ELSE k : k \in rules})
DeleteRule(r) == OnRule(r, "deleteRule", {k \in rules : k.id # Ask(r).id})

\* RecordHit: hit_count + 1 in the database.
RecordHit(r) ==
  LET row == Row(rules, Ask(r).id) IN
  /\ Writing(r, {"recordHit"})
  /\ \E ok \in BOOLEAN :
       /\ Query(ok)
       /\ IF ok /\ row # NoRow
          THEN Pass(r) /\ rules' = (rules \ {row}) \union {[row EXCEPT !.hits = @ + 1]}
          ELSE Fail(r, IF ok THEN "missing" ELSE "error") /\ UNCHANGED rules
  /\ UNCHANGED <<setup, projects, members, apis, cases>>

(***************************************************************************)
(* Test cases.  Update and Delete go by the id of the case; its project is *)
(* not compared with the one in the URL, and an update may give any column *)
(* another value, the id and the project included.                         *)
(***************************************************************************)
HasApi(id) == id = None \/ Has(apis, id)

OnCase(r, kind, allowed, after) ==
  /\ Writing(r, {kind})
  /\ \E ok \in BOOLEAN :
       /\ Query(ok)
       /\ IF ok /\ allowed
          THEN Becomes(r, Passed(Wrote(req[r]))) /\ cases' = after
          ELSE Fail(r, "error") /\ UNCHANGED cases
  /\ UNCHANGED <<setup, projects, members, apis, rules>>

CreateCase(r) ==
  OnCase(r, "createCase", IsLive(Ask(r).pid) /\ HasApi(Ask(r).arg),
    cases \union {[id |-> r, project |-> Ask(r).pid, api |-> Ask(r).arg]})
\* An update or a delete of a case that is gone changes no row and is no error.
UpdateCase(r) ==
  LET new(c) == IF c.id = Ask(r).id THEN Overwritten(c, Ask(r).fields) ELSE c
      fits(c) == /\ IsLive(new(c).project) /\ HasApi(new(c).api)
                 /\ \A d \in cases \ {c} : d.id # new(c).id
  IN OnCase(r, "updateCase", \A c \in cases : c.id = Ask(r).id => fits(c), {new(c) : c \in cases})
DeleteCase(r) == OnCase(r, "deleteCase", TRUE, {c \in cases : c.id # Ask(r).id})

RequestStep(r) ==
  \/ FindOwner(r) \/ FindMember(r) \/ Find(r) \/ FindAgain(r)
  \/ InsertProject(r) \/ InsertOwner(r) \/ AddMember(r) \/ SaveProject(r) \/ DeleteProject(r)
  \/ InsertApi(r) \/ UpdateApi(r) \/ UpdateTags(r) \/ DeleteApi(r)
  \/ CreateRule(r) \/ UpdateRule(r) \/ DeleteRule(r) \/ RecordHit(r)
  \/ CreateCase(r) \/ UpdateCase(r) \/ DeleteCase(r)

Next == \E r \in Requests : RequestStep(r)
Spec == Init /\ [][Next]_vars

(***************************************************************************)
(* Properties.                                                             *)
(***************************************************************************)
\* The rows stay connected as the migrations declare, with one row for a slug, a
\* member of a project, and an operation of a project, whatever requests delete,
\* insert and save meanwhile.
TypeOK ==
  /\ Linked(projects, members, apis, rules, cases)
  /\ \A r \in Requests : req[r].answer \in {"none", "ok", "forbidden", "missing", "error"}
  /\ faults \in 0..MaxFaults

Over(r) == req[r].todo = <<>>

\* An update of a project overlapped its deletion, and saved it over again.
Revived == \E r \in Requests : req[r].revived

\* Create answers well only when its owner is listed as an admin (ProjectService.Create
\* inserts two rows without a transaction), and the row is still there as long as the
\* project is.  It says nothing once an update has brought a deleted project back:
\* that one has no members at all.
OwnerListed ==
  \A p \in projects :
    \/ Member(p.id, p.owner, "admin") \in members
    \/ p.id \in Requests /\ req[p.id].answer # "ok"
    \/ Revived

\* Whoever changes an api is a writer of its project when the change is made, and an
\* admin when the api is deleted, though the role was read some queries before and
\* the route's own refusal stops nothing (APIService and RequireProjectRole); unless a
\* save of project_service.go:175 came in between, which brought the project back
\* without its members, or gave it the owner of one that was deleted.
WritersStillAllowed ==
  [][\A r \in Requests : req'[r].todo # req[r].todo =>
       \A a \in (apis \ apis') \union (apis' \ apis) :
         \/ RoleOf(Ask(r).by, a.project) \in (IF Ask(r).kind = "deleteApi" THEN {"admin"} ELSE Writers)
         \/ Ask(r).kind = "deleteProject"
         \/ Step(r).op \in req[r].overtaken]_vars

\* A tag that AddTag has acknowledged is on its api, unless a request has removed it or
\* one that had read the tags before has written them after.  Two requests that read
\* the same tags do lose one of two additions; nothing else does.
TagsKept ==
  \A r \in Requests : Ask(r).kind = "addTag" /\ req[r].wrote =>
    \A a \in apis : a.id = Ask(r).id =>
      \/ Ask(r).arg \in a.tags
      \/ \E q \in Requests : Ask(q).kind = "removeTag" /\ Ask(q).arg = Ask(r).arg /\ req[q].wrote
      \/ \E q \in Requests : r \in req[q].missed /\ req[q].wrote

\* An import that is over has accounted for every operation of its document: created
\* and failed ones make up the whole, and a diff of the catalogue against the document
\* finds nothing "added" but what failed or what others removed or renamed.
ImportAccounted ==
  \A r \in Requests : Ask(r).kind = "import" /\ Over(r) =>
    LET ops == ExtractAPIs(Ask(r).doc)
        rows == {a \in apis : a.project = Ask(r).pid}
        added == {c.op : c \in {c \in Diff(rows, ToSet(ops)) : c.type = "added"}}
    IN /\ req[r].created \union req[r].failed = ToSet(ops)
       /\ req[r].created \cap req[r].failed = {}
       /\ \/ added \subseteq req[r].failed
          \/ \E q \in Requests : Ask(q).kind \in {"updateApi", "deleteApi", "deleteProject"} /\ req[q].wrote
=============================================================================
