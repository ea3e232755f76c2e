-------------------------- MODULE CatalogueProofs ---------------------------
(***************************************************************************)
(* What holds of the catalogue for any number of requests and failing      *)
(* queries, whatever the requests ask and the database holds at first.     *)
(***************************************************************************)
EXTENDS Catalogue, FiniteSetTheorems, TLAPS

(***************************************************************************)
(* The inductive invariant.                                                *)
(***************************************************************************)
\* Requests that read the api they are about, and all that write apis under a role.
ReadsApi == {"updateApi", "deleteApi", "addTag", "removeTag"}
ApiWriters == ReadsApi \union {"createApi", "import"}

Kind(r) == Ask(r).kind
Plan(r) == req[r].todo
Made(r) == Ask(r).kind = "createProject" /\ req[r].wrote

StepsOf(r) == LET all == Todo(Ask(r)) IN {all[i] : i \in DOMAIN all}
RequestFields ==
  {"todo", "found", "seen", "answer", "wrote", "revived", "created", "failed", "missed",
   "overtaken"}

Shaped ==
  /\ setup \in Setups
  /\ req = [r \in Requests |-> req[r]]
  /\ \A r \in Requests :
       /\ DOMAIN req[r] = RequestFields
       /\ Plan(r) \in Seq(StepsOf(r))

\* What the rest of a plan may look like.  The parts are kept when its head is taken.
OneWrite(s) == \A i, j \in 1 .. Len(s) : s[i].do = "write" /\ s[j].do = "write" => i = j
RoleFirst(s) == \A i \in 2 .. Len(s) : s[i].do = "write" => s[i - 1].do = "role"
JoinLast(s) == \A i \in 1 .. Len(s) : s[i].do = "write" => i < Len(s)
FindFirst(s, uses) ==
  \A j \in 1 .. Len(s) : s[j].do \in uses => \E i \in 1 .. (j - 1) : s[i].do = "find"
Uses(kind) ==
  IF kind \in ReadsApi THEN {"role", "write"} ELSE IF kind = "updateProject" THEN {"write"} ELSE {}

Planned(r) ==
  LET s == Plan(r) IN
  /\ Kind(r) # "import" => OneWrite(s) /\ (req[r].wrote => \A i \in 1 .. Len(s) : s[i].do # "write")
  /\ Kind(r) \in ApiWriters => RoleFirst(s)
  /\ Kind(r) = "createProject" => JoinLast(s)
  /\ Kind(r) # "createProject" => \A i \in 1 .. Len(s) : s[i].do # "join"
  /\ req[r].seen = NoRow => FindFirst(s, Uses(Kind(r)))
  /\ req[r].found => s # <<>> /\ s[1].do \in {"guard", "role"}
  /\ req[r].revived => req[r].wrote
  /\ ~req[r].wrote => req[r].created = {}

\* The plan of an import, and the operations it has dealt with.
ImportPlan(s) ==
  /\ \A i \in 1 .. Len(s) : s[i].do \in {"guard", "role", "write"}
  /\ \A i \in 1 .. Len(s) : s[i].do = "role" =>
       i < Len(s) /\ s[i + 1].do = "write" /\ s[i + 1].op = s[i].op
  /\ \A i, j \in 1 .. Len(s) : s[i].do = "write" /\ s[j].do = "write" /\ s[i].op = s[j].op => i = j
Pending(s) == {s[i].op : i \in {i \in 1 .. Len(s) : s[i].do = "write"}}
Imports(r) ==
  LET pending == Pending(Plan(r)) IN
  /\ ImportPlan(Plan(r))
  /\ req[r].created \union req[r].failed \union pending = ToSet(ExtractAPIs(Ask(r).doc))
  /\ req[r].created \cap req[r].failed = {}
  /\ (req[r].created \union req[r].failed) \cap pending = {}
Accounted == \A r \in Requests : Kind(r) = "import" => Imports(r)

\* A request is only answered well when nothing is left to do.
Answers == {"none", "ok", "forbidden", "missing", "error"}
Answering ==
  \A r \in Requests :
    /\ req[r].answer \in Answers
    /\ Plan(r) # <<>> => req[r].answer # "ok"

\* Ids are not used again.
KnownProject(id) == Has(setup.projects, id) \/ (id \in Requests /\ Made(id))
KnownApi(id) ==
  Has(setup.apis, id) \/ \E r \in Requests : \E op \in req[r].created : id = <<r, op>>
KnownCase(id) == id \notin Requests \/ req[id].wrote
AllKnown ==
  /\ \A p \in projects : KnownProject(p.id)
  /\ \A a \in apis : KnownApi(a.id)
  /\ \A c \in cases : KnownCase(c.id)

\* The row a request has read still tells what never changes.
SawProject(r) == Kind(r) = "updateProject" /\ req[r].seen # NoRow
SawApi(r) == Kind(r) \in ReadsApi /\ req[r].seen # NoRow
SeenProjects ==
  \A r \in Requests : SawProject(r) =>
    LET seen == req[r].seen IN
    /\ DOMAIN seen = {"id", "owner", "slug", "name"} /\ KnownProject(seen.id)
    /\ \A p \in projects : p.id = seen.id => p.slug = seen.slug /\ (Revived \/ p.owner = seen.owner)
    /\ \A q \in Requests : SawProject(q) /\ req[q].seen.id = seen.id => req[q].seen.slug = seen.slug
SeenApis ==
  \A r \in Requests : SawApi(r) =>
    LET seen == req[r].seen IN
    /\ DOMAIN seen = {"id", "project", "path", "method", "tags"} /\ seen.id = Ask(r).id
    /\ KnownApi(seen.id) /\ KnownProject(seen.project)
    /\ \A a \in apis : a.id = seen.id => a.project = seen.project

\* Owners do not change, unless a project has come back.
OwnersKept == Revived \/ \A p \in projects : p.id \in Requests => p.owner = Ask(p.id).by

\* A role that was read is still held when the write it was read for is made, unless a
\* save has overtaken it.
RoleHeld ==
  \A r \in Requests : Kind(r) \in ApiWriters /\ Plan(r) # <<>> /\ Step(r).do = "write" =>
    /\ KnownProject(TargetProject(r))
    /\ \/ ~IsLive(TargetProject(r))
       \/ RoleOf(Ask(r).by, TargetProject(r)) \in Needed(Kind(r))
       \/ Step(r).op \in req[r].overtaken

\* Why a tag that was added may be missing.
Excused(r) ==
  \/ \E q \in Requests : Ask(q).kind = "removeTag" /\ Ask(q).arg = Ask(r).arg /\ req[q].wrote
  \/ \E q \in Requests : r \in req[q].missed /\ req[q].wrote
Tagged(r) == Kind(r) = "addTag" /\ req[r].wrote
TagsRead ==
  \A r \in Requests : Tagged(r) =>
    /\ KnownApi(Ask(r).id)
    /\ \A q \in Requests :
         IsTagging(q) /\ SawApi(q) /\ ~req[q].wrote /\ Ask(q).id = Ask(r).id =>
           r \in req[q].missed \/ Ask(r).arg \in req[q].seen.tags \/ Excused(r)

\* An operation that was created has its row until somebody changes rows.
Disturbed ==
  \E q \in Requests : Ask(q).kind \in {"updateApi", "deleteApi", "deleteProject"} /\ req[q].wrote
RowsCreated ==
  Disturbed \/ \A r \in Requests : Kind(r) = "import" => \A op \in req[r].created :
    \E a \in apis : a.project = Ask(r).pid /\ a.path = op.path /\ a.method = op.method

IInv ==
  /\ Shaped /\ (\A r \in Requests : Planned(r)) /\ Accounted /\ Answering /\ AllKnown
  /\ TypeOK /\ SeenProjects /\ SeenApis /\ OwnersKept /\ OwnerListed /\ RoleHeld
  /\ TagsRead /\ TagsKept /\ RowsCreated

(***************************************************************************)
(* Documents: ExtractAPIs lists every operation once.                      *)
(***************************************************************************)
LEMMA Places ==
  /\ DOMAIN httpMethods = 1 .. 7
  /\ \A method : (\E i \in DOMAIN httpMethods : httpMethods[i] = method) =>
       MethodPlace(method) \in 1 .. 7 /\ httpMethods[MethodPlace(method)] = method
<1>1. DOMAIN httpMethods = 1 .. 7  BY DEF httpMethods
<1>2. ASSUME NEW method, \E i \in DOMAIN httpMethods : httpMethods[i] = method
      PROVE  MethodPlace(method) \in 1 .. 7 /\ httpMethods[MethodPlace(method)] = method
  <2>1. PICK p : p = MethodPlace(method)  OBVIOUS
  <2>2. p \in DOMAIN httpMethods /\ httpMethods[p] = method  BY <1>2, <2>1 DEF MethodPlace
  <2> QED  BY <1>1, <2>1, <2>2
<1> QED  BY <1>1, <1>2

\* Precedes orders the operations of a document.
LEMMA Ordered ==
  ASSUME NEW doc, doc \subseteq [path : Int, method : STRING]
  PROVE  \A a, b \in Operations(doc) :
           /\ ~Precedes(a, a)
           /\ a = b \/ Precedes(a, b) \/ Precedes(b, a)
           /\ \A c \in Operations(doc) : Precedes(a, b) /\ Precedes(b, c) => Precedes(a, c)
<1> DEFINE D == Operations(doc)
           place == [a \in D |-> MethodPlace(a.method)]
<1>1. \A a \in D : /\ a \in [path : Int, method : STRING] /\ a.path \in Int
                   /\ place[a] \in 1 .. 7 /\ httpMethods[place[a]] = a.method
  BY Places DEF Operations
<1>2. \A a, b \in D : Precedes(a, b) <=> a.path < b.path \/ (a.path = b.path /\ place[a] < place[b])
  BY DEF Precedes
<1>3. \A a, b \in D : a.path = b.path /\ place[a] = place[b] => a = b
  BY <1>1
<1> HIDE DEF D, place
<1>4. \A a, b \in D : /\ ~Precedes(a, a)
                      /\ a = b \/ Precedes(a, b) \/ Precedes(b, a)
  BY <1>1, <1>2, <1>3
<1>5. \A a, b, c \in D : Precedes(a, b) /\ Precedes(b, c) => Precedes(a, c)
  BY <1>1, <1>2
<1> QED  BY <1>4, <1>5 DEF D

LEMMA Extracted ==
  ASSUME NEW doc, IsFiniteSet(doc), doc \subseteq [path : Int, method : STRING]
  PROVE  /\ ExtractAPIs(doc) \in Seq(doc)
         /\ \A i, j \in 1 .. Len(ExtractAPIs(doc)) :
              ExtractAPIs(doc)[i] = ExtractAPIs(doc)[j] => i = j
         /\ ToSet(ExtractAPIs(doc)) = Operations(doc)
<1> DEFINE D == Operations(doc)
           n == Cardinality(D)
           upTo(x) == {y \in D : y = x \/ Precedes(y, x)}
           rank == [x \in D |-> Cardinality(upTo(x))]
           Sorted(s) == \A i, j \in DOMAIN s : i < j => Precedes(s[i], s[j])
<1>1. IsFiniteSet(D) /\ n \in Nat /\ D \subseteq doc
  BY FS_Subset, FS_CardinalityType DEF Operations
<1>2. \A x \in D : IsFiniteSet(upTo(x)) /\ upTo(x) \in SUBSET D /\ rank[x] \in 1 .. n
  <2> SUFFICES ASSUME NEW x \in D
               PROVE  IsFiniteSet(upTo(x)) /\ upTo(x) \in SUBSET D /\ rank[x] \in 1 .. n
    OBVIOUS
  <2>1. upTo(x) \in SUBSET D /\ x \in upTo(x)  OBVIOUS
  <2>2. IsFiniteSet(upTo(x)) /\ Cardinality(upTo(x)) <= n  BY <1>1, <2>1, FS_Subset
  <2>3. Cardinality(upTo(x)) \in Nat /\ Cardinality(upTo(x)) # 0
    BY <2>1, <2>2, FS_CardinalityType, FS_EmptySet
  <2> QED  BY <1>1, <2>1, <2>2, <2>3
<1>3. \A x, y \in D : Precedes(x, y) => rank[x] < rank[y]
  <2> SUFFICES ASSUME NEW x \in D, NEW y \in D, Precedes(x, y) PROVE rank[x] < rank[y]
    OBVIOUS
  <2>1. upTo(x) \in SUBSET upTo(y)  BY Ordered
  <2>2. y \in upTo(y) /\ y \notin upTo(x)  BY Ordered
  <2>3. /\ Cardinality(upTo(x)) <= Cardinality(upTo(y))
        /\ Cardinality(upTo(y)) = Cardinality(upTo(x)) => upTo(y) = upTo(x)
    BY <1>2, <2>1, FS_Subset
  <2>4. Cardinality(upTo(x)) # Cardinality(upTo(y))  BY <2>2, <2>3
  <2>5. rank[x] = Cardinality(upTo(x)) /\ rank[y] = Cardinality(upTo(y))  OBVIOUS
  <2>6. rank[x] \in Int /\ rank[y] \in Int  BY <1>2, <1>1
  <2> QED  BY <2>3, <2>4, <2>5, <2>6
<1> HIDE DEF upTo, rank
<1>4. rank \in [D -> 1 .. n]  BY <1>2 DEF rank
<1>5. \A x, y \in D : rank[x] = rank[y] => x = y
  <2> SUFFICES ASSUME NEW x \in D, NEW y \in D, rank[x] = rank[y] PROVE x = y
    OBVIOUS
  <2>1. rank[x] \in Int  BY <1>1, <1>4
  <2> QED  BY <2>1, <1>3, Ordered
<1>6. IsFiniteSet(1 .. n) /\ Cardinality(1 .. n) = n  BY <1>1, FS_Interval
<1> HIDE DEF D, n
<1>7. \A i \in 1 .. n : \E x \in D : rank[x] = i
  <2>1. rank \in Injection(D, 1 .. n)  BY <1>4, <1>5 DEF Injection, IsInjective
  <2>2. Cardinality(D) = Cardinality(1 .. n)  BY <1>6 DEF n
  <2>3. rank \in Surjection(D, 1 .. n)  BY <2>1, <2>2, <1>6, FS_Injection
  <2> QED  BY <2>3 DEF Surjection
<1>8. \E s \in [1 .. n -> D] : Sorted(s)
  <2> DEFINE s == [i \in 1 .. n |-> CHOOSE x \in D : rank[x] = i]
  <2>1. \A i \in 1 .. n : s[i] \in D /\ rank[s[i]] = i  BY <1>7
  <2>2. s \in [1 .. n -> D] /\ DOMAIN s = 1 .. n  BY <2>1
  <2> HIDE DEF s
  <2>3. ASSUME NEW i \in 1 .. n, NEW j \in 1 .. n, i < j PROVE Precedes(s[i], s[j])
    <3>1. s[i] \in D /\ s[j] \in D /\ rank[s[i]] = i /\ rank[s[j]] = j  BY <2>1
    <3>2. ~Precedes(s[j], s[i])  BY <1>3, <2>3, <3>1, <1>1
    <3>3. s[i] # s[j]  BY <2>3, <3>1, <1>1
    <3> QED  BY <3>1, <3>2, <3>3, Ordered DEF D
  <2> QED  BY <2>2, <2>3
<1>9. PICK e : e = ExtractAPIs(doc)  OBVIOUS
<1>10. e \in [1 .. n -> D] /\ Sorted(e)
  BY <1>8, <1>9 DEF ExtractAPIs, D, n
<1>11. e \in Seq(doc) /\ Len(e) = n /\ DOMAIN e = 1 .. n  BY <1>1, <1>10
<1>12. \A i, j \in 1 .. n : e[i] = e[j] => i = j
  <2> SUFFICES ASSUME NEW i \in 1 .. n, NEW j \in 1 .. n, e[i] = e[j] PROVE i = j
    OBVIOUS
  <2>1. e[i] \in D /\ ~Precedes(e[i], e[i])  BY <1>10, Ordered DEF D
  <2>2. ~(i < j) /\ ~(j < i)  BY <1>10, <1>11, <2>1
  <2> QED  BY <1>1, <2>2
<1>13. ToSet(e) = D
  <2>1. e \in Injection(1 .. n, D)  BY <1>10, <1>12 DEF Injection, IsInjective
  <2>2. e \in Surjection(1 .. n, D)  BY <1>1, <1>6, <2>1, FS_Injection DEF n
  <2>3. \A x \in D : \E i \in 1 .. n : e[i] = x  BY <2>2 DEF Surjection
  <2> QED  BY <1>10, <1>11, <2>3 DEF ToSet
<1> QED  BY <1>9, <1>11, <1>12, <1>13 DEF D

(***************************************************************************)
(* Plans: what the queries of a request look like at first, and that what  *)
(* the invariant says of them is kept when the first is done.              *)
(***************************************************************************)
Named ==
  {"createProject", "updateProject", "deleteProject", "updateApi", "addTag", "removeTag",
   "deleteApi", "updateCase", "recordHit", "createRule", "updateRule", "deleteRule"}

LEMMA Programs ==
  ASSUME NEW kind
  PROVE  /\ kind = "createProject" => Program(kind) = <<"write", "join">>
         /\ kind = "updateProject" => Program(kind) = <<"guard", "role", "find", "write">>
         /\ kind = "deleteProject" => Program(kind) = <<"guard", "find", "write">>
         /\ kind = "updateApi" => Program(kind) = <<"guard", "find", "role", "write", "again">>
         /\ kind = "addTag" =>
              Program(kind) = <<"guard", "find", "refind", "role", "write", "again">>
         /\ kind = "removeTag" =>
              Program(kind) = <<"guard", "find", "refind", "role", "write", "again">>
         /\ kind = "deleteApi" => Program(kind) = <<"guard", "find", "role", "write">>
         /\ kind = "updateCase" => Program(kind) = <<"guard", "role", "write", "again">>
         /\ kind = "recordHit" => Program(kind) = <<"write">>
         /\ kind \in {"createRule", "updateRule", "deleteRule"} => Program(kind) = <<"rule">>
         /\ kind \notin Named => Program(kind) = <<"guard", "role", "write">>
BY Zenon DEF Program, Named

\* A program of a kind that fits what the invariant says of plans.
Fits(kind, p) ==
  /\ Len(p) \in Nat /\ Len(p) >= 1 /\ DOMAIN p = 1 .. Len(p)
  /\ \A i, j \in 1 .. Len(p) : p[i] = "write" /\ p[j] = "write" => i = j
  /\ kind \in ApiWriters =>
       p[1] # "write" /\ \A i \in 2 .. Len(p) : p[i] = "write" => p[i - 1] = "role"
  /\ kind = "createProject" => \A i \in 1 .. Len(p) : p[i] = "write" => i < Len(p)
  /\ kind # "createProject" => \A i \in 1 .. Len(p) : p[i] # "join"
  /\ \A j \in 1 .. Len(p) : p[j] \in Uses(kind) => \E i \in 1 .. (j - 1) : p[i] = "find"

LEMMA ProgramFits ==
  ASSUME NEW kind, NEW p, p = Program(kind)
  PROVE  Fits(kind, p)
<1>1. CASE kind = "createProject"
  <2>1. p = <<"write", "join">>  BY <1>1, Programs DEF Named
  <2>2. Len(p) = 2 /\ DOMAIN p = 1 .. 2
        /\ p[1] = "write" /\ p[2] = "join"
    BY <2>1
  <2>3. Uses(kind) = {}  BY <1>1 DEF Uses, ReadsApi
  <2> QED  BY <1>1, <2>2, <2>3 DEF Fits, ApiWriters, ReadsApi
<1>2. CASE kind = "updateProject"
  <2>1. p = <<"guard", "role", "find", "write">>  BY <1>2, Programs DEF Named
  <2>2. Len(p) = 4 /\ DOMAIN p = 1 .. 4
        /\ p[1] = "guard" /\ p[2] = "role" /\ p[3] = "find" /\ p[4] = "write"
    BY <2>1
  <2>3. Uses(kind) = {"write"}  BY <1>2 DEF Uses, ReadsApi
  <2>4. \A j \in 1 .. 4 : j > 3 => 3 \in 1 .. (j - 1)  OBVIOUS
  <2>5. \A i \in 1 .. 4 : i \in {1, 2, 3, 4}  OBVIOUS
  <2>6. \A j \in 1 .. Len(p) : p[j] \in Uses(kind) => \E i \in 1 .. (j - 1) : p[i] = "find"
    BY <2>2, <2>3, <2>4, <2>5
  <2>7. /\ \A i, j \in 1 .. Len(p) : p[i] = "write" /\ p[j] = "write" => i = j
        /\ p[1] # "write"
        /\ \A i \in 1 .. Len(p) : p[i] # "join"
    BY <2>2, <2>5
  <2> QED  BY <1>2, <2>2, <2>6, <2>7 DEF Fits, ApiWriters, ReadsApi
<1>3. CASE kind = "deleteProject"
  <2>1. p = <<"guard", "find", "write">>  BY <1>3, Programs DEF Named
  <2>2. Len(p) = 3 /\ DOMAIN p = 1 .. 3
        /\ p[1] = "guard" /\ p[2] = "find" /\ p[3] = "write"
    BY <2>1
  <2>3. Uses(kind) = {}  BY <1>3 DEF Uses, ReadsApi
  <2> QED  BY <1>3, <2>2, <2>3 DEF Fits, ApiWriters, ReadsApi
<1>4. CASE kind = "updateApi"
  <2>1. p = <<"guard", "find", "role", "write", "again">>  BY <1>4, Programs DEF Named
  <2>2. Len(p) = 5 /\ DOMAIN p = 1 .. 5
        /\ p[1] = "guard" /\ p[2] = "find" /\ p[3] = "role" /\ p[4] = "write" /\ p[5] = "again"
    BY <2>1
  <2>3. Uses(kind) = {"role", "write"}  BY <1>4 DEF Uses, ReadsApi
  <2>4. \A j \in 1 .. 5 : j > 2 => 2 \in 1 .. (j - 1)  OBVIOUS
  <2>5. \A i \in 1 .. 5 : i \in {1, 2, 3, 4, 5}  OBVIOUS
  <2>6. \A j \in 1 .. Len(p) : p[j] \in Uses(kind) => \E i \in 1 .. (j - 1) : p[i] = "find"
    BY <2>2, <2>3, <2>4, <2>5
  <2>7. /\ \A i, j \in 1 .. Len(p) : p[i] = "write" /\ p[j] = "write" => i = j
        /\ p[1] # "write" /\ \A i \in 2 .. Len(p) : p[i] = "write" => p[i - 1] = "role"
        /\ \A i \in 1 .. Len(p) : p[i] # "join"
    BY <2>2, <2>5
  <2> QED  BY <1>4, <2>2, <2>6, <2>7 DEF Fits, ApiWriters, ReadsApi
<1>5. CASE kind \in {"addTag", "removeTag"}
  <2>1. p = <<"guard", "find", "refind", "role", "write", "again">>  BY <1>5, Programs DEF Named
  <2>2. Len(p) = 6 /\ DOMAIN p = 1 .. 6
        /\ p[1] = "guard" /\ p[2] = "find" /\ p[3] = "refind" /\ p[4] = "role" /\ p[5] = "write" /\ p[6] = "again"
    BY <2>1
  <2>3. Uses(kind) = {"role", "write"}  BY <1>5 DEF Uses, ReadsApi
  <2>4. \A j \in 1 .. 6 : j > 2 => 2 \in 1 .. (j - 1)  OBVIOUS
  <2>5. \A i \in 1 .. 6 : i \in {1, 2, 3, 4, 5, 6}  OBVIOUS
  <2>6. \A j \in 1 .. Len(p) : p[j] \in Uses(kind) => \E i \in 1 .. (j - 1) : p[i] = "find"
    BY <2>2, <2>3, <2>4, <2>5
  <2>7. /\ \A i, j \in 1 .. Len(p) : p[i] = "write" /\ p[j] = "write" => i = j
        /\ p[1] # "write" /\ \A i \in 2 .. Len(p) : p[i] = "write" => p[i - 1] = "role"
        /\ \A i \in 1 .. Len(p) : p[i] # "join"
    BY <2>2, <2>5
  <2> QED  BY <1>5, <2>2, <2>6, <2>7 DEF Fits, ApiWriters, ReadsApi
<1>6. CASE kind = "deleteApi"
  <2>1. p = <<"guard", "find", "role", "write">>  BY <1>6, Programs DEF Named
  <2>2. Len(p) = 4 /\ DOMAIN p = 1 .. 4
        /\ p[1] = "guard" /\ p[2] = "find" /\ p[3] = "role" /\ p[4] = "write"
    BY <2>1
  <2>3. Uses(kind) = {"role", "write"}  BY <1>6 DEF Uses, ReadsApi
  <2>4. \A j \in 1 .. 4 : j > 2 => 2 \in 1 .. (j - 1)  OBVIOUS
  <2>5. \A i \in 1 .. 4 : i \in {1, 2, 3, 4}  OBVIOUS
  <2>6. \A j \in 1 .. Len(p) : p[j] \in Uses(kind) => \E i \in 1 .. (j - 1) : p[i] = "find"
    BY <2>2, <2>3, <2>4, <2>5
  <2>7. /\ \A i, j \in 1 .. Len(p) : p[i] = "write" /\ p[j] = "write" => i = j
        /\ p[1] # "write" /\ \A i \in 2 .. Len(p) : p[i] = "write" => p[i - 1] = "role"
        /\ \A i \in 1 .. Len(p) : p[i] # "join"
    BY <2>2, <2>5
  <2> QED  BY <1>6, <2>2, <2>6, <2>7 DEF Fits, ApiWriters, ReadsApi
<1>7. CASE kind = "updateCase"
  <2>1. p = <<"guard", "role", "write", "again">>  BY <1>7, Programs DEF Named
  <2>2. Len(p) = 4 /\ DOMAIN p = 1 .. 4
        /\ p[1] = "guard" /\ p[2] = "role" /\ p[3] = "write" /\ p[4] = "again"
    BY <2>1
  <2>3. Uses(kind) = {}  BY <1>7 DEF Uses, ReadsApi
  <2> QED  BY <1>7, <2>2, <2>3 DEF Fits, ApiWriters, ReadsApi
<1>8. CASE kind = "recordHit"
  <2>1. p = <<"write">>  BY <1>8, Programs DEF Named
  <2>2. Len(p) = 1 /\ DOMAIN p = 1 .. 1
        /\ p[1] = "write"
    BY <2>1
  <2>3. Uses(kind) = {}  BY <1>8 DEF Uses, ReadsApi
  <2> QED  BY <1>8, <2>2, <2>3 DEF Fits, ApiWriters, ReadsApi
<1>9. CASE kind \in {"createRule", "updateRule", "deleteRule"}
  <2>1. p = <<"rule">>  BY <1>9, Programs DEF Named
  <2>2. Len(p) = 1 /\ DOMAIN p = 1 .. 1
        /\ p[1] = "rule"
    BY <2>1
  <2>3. Uses(kind) = {}  BY <1>9 DEF Uses, ReadsApi
  <2> QED  BY <1>9, <2>2, <2>3 DEF Fits, ApiWriters, ReadsApi
<1>10. CASE kind \notin Named
  <2>1. p = <<"guard", "role", "write">>  BY <1>10, Programs DEF Named
  <2>2. Len(p) = 3 /\ DOMAIN p = 1 .. 3
        /\ p[1] = "guard" /\ p[2] = "role" /\ p[3] = "write"
    BY <2>1
  <2>3. Uses(kind) = {}  BY <1>10 DEF Uses, ReadsApi, Named
  <2> QED  BY <1>10, <2>2, <2>3 DEF Fits, ApiWriters, ReadsApi, Named
<1> QED  BY <1>1, <1>2, <1>3, <1>4, <1>5, <1>6, <1>7, <1>8, <1>9, <1>10 DEF Named

LEMMA OtherPlans ==
  ASSUME NEW kind, NEW ops, NEW s, s = Steps(kind, ops)
  PROVE  /\ s \in Seq({s[i] : i \in DOMAIN s}) /\ s # <<>>
         /\ \A i \in 1 .. Len(s) : s[i].op = ops[1]
         /\ OneWrite(s)
         /\ kind \in ApiWriters => RoleFirst(s) /\ s[1].do # "write"
         /\ kind = "createProject" => JoinLast(s)
         /\ kind # "createProject" => \A i \in 1 .. Len(s) : s[i].do # "join"
         /\ FindFirst(s, Uses(kind))
<1>1. PICK p : p = Program(kind)  OBVIOUS
<1>2. Fits(kind, p) /\ Len(p) \in Nat /\ Len(p) >= 1 /\ DOMAIN p = 1 .. Len(p)
  BY <1>1, ProgramFits DEF Fits
<1>3. s = [i \in DOMAIN p |-> [do |-> p[i], op |-> ops[1]]]  BY <1>1 DEF Steps
<1>4. DOMAIN s = 1 .. Len(p) /\ s # <<>>  BY <1>2, <1>3
<1>5. s \in Seq({s[i] : i \in DOMAIN s}) /\ Len(s) = Len(p)
  <2>1. s \in [1 .. Len(p) -> {s[i] : i \in DOMAIN s}]  BY <1>3, <1>4
  <2>2. Len(p) \in Nat  BY <1>2
  <2> QED  BY <1>4, <2>1, <2>2
<1>6. \A i \in 1 .. Len(s) : s[i].do = p[i] /\ s[i].op = ops[1]  BY <1>3, <1>4, <1>5
<1>7. Len(s) \in Nat /\ Len(s) >= 1  BY <1>2, <1>5
<1>8. OneWrite(s)
  <2>1. \A i, j \in 1 .. Len(p) : p[i] = "write" /\ p[j] = "write" => i = j  BY <1>2 DEF Fits
  <2> QED  BY <1>5, <1>6, <2>1 DEF OneWrite
<1>9. kind \in ApiWriters => RoleFirst(s) /\ s[1].do # "write"
  <2>1. kind \in ApiWriters =>
          p[1] # "write" /\ \A i \in 2 .. Len(p) : p[i] = "write" => p[i - 1] = "role"
    BY <1>2 DEF Fits
  <2> QED  BY <1>5, <1>6, <1>7, <2>1 DEF RoleFirst
<1>10. kind = "createProject" => JoinLast(s)
  <2>1. kind = "createProject" => \A i \in 1 .. Len(p) : p[i] = "write" => i < Len(p)
    BY <1>2 DEF Fits
  <2> QED  BY <1>5, <1>6, <2>1 DEF JoinLast
<1>11. kind # "createProject" => \A i \in 1 .. Len(s) : s[i].do # "join"
  BY <1>2, <1>5, <1>6 DEF Fits
<1>12. FindFirst(s, Uses(kind))
  <2>1. \A j \in 1 .. Len(p) : p[j] \in Uses(kind) => \E i \in 1 .. (j - 1) : p[i] = "find"
    BY <1>2 DEF Fits
  <2> SUFFICES ASSUME NEW j \in 1 .. Len(s), s[j].do \in Uses(kind)
               PROVE  \E i \in 1 .. (j - 1) : s[i].do = "find"
    BY DEF FindFirst
  <2>2. PICK i \in 1 .. (j - 1) : p[i] = "find"  BY <1>5, <1>6, <2>1
  <2> QED  BY <1>6, <1>7, <2>2
<1> QED  BY <1>4, <1>5, <1>6, <1>8, <1>9, <1>10, <1>11, <1>12

LEMMA ImportPlans ==
  ASSUME NEW D, NEW ops \in Seq(D), NEW s, s = ImportSteps(ops),
         \A i, j \in 1 .. Len(ops) : ops[i] = ops[j] => i = j
  PROVE  /\ s \in Seq({s[i] : i \in DOMAIN s}) /\ s # <<>>
         /\ \A i \in 1 .. Len(s) : s[i].do # "guard" => s[i].op \in D
         /\ RoleFirst(s) /\ s[1].do # "write"
         /\ ImportPlan(s)
         /\ Pending(s) = ToSet(ops)
<1> DEFINE n == Len(ops)
           t == [i \in 1 .. (2 * n) |-> [do |-> IF i % 2 = 1 THEN "role" ELSE "write",
                                         op |-> ops[(i + 1) \div 2]]]
           U == {t[i] : i \in 1 .. (2 * n)} \union {[do |-> "guard", op |-> None]}
<1>1. n \in Nat /\ 2 * n \in Nat  OBVIOUS
<1>2. t \in Seq(U) /\ Len(t) = 2 * n
  <2>1. \A i \in 1 .. (2 * n) : t[i] \in U  OBVIOUS
  <2>2. DOMAIN t = 1 .. (2 * n) /\ t = [i \in 1 .. (2 * n) |-> t[i]]  OBVIOUS
  <2> HIDE DEF t, U
  <2>3. t \in [1 .. (2 * n) -> U]  BY <2>1, <2>2
  <2> QED  BY <1>1, <2>2, <2>3
<1>3. <<[do |-> "guard", op |-> None]>> \in Seq(U)  OBVIOUS
<1>4. s = <<[do |-> "guard", op |-> None]>> \o t  BY DEF ImportSteps
<1>5. s \in Seq(U) /\ Len(s) = 1 + 2 * n  BY <1>2, <1>3, <1>4
<1>6. s[1] = [do |-> "guard", op |-> None]  BY <1>2, <1>3, <1>4
<1>7. \A i \in 2 .. Len(s) : s[i] = t[i - 1]  BY <1>1, <1>2, <1>3, <1>4, <1>5
<1>8. \A i \in 1 .. (2 * n) : /\ t[i].do = IF i % 2 = 1 THEN "role" ELSE "write"
                              /\ t[i].op = ops[(i + 1) \div 2]
                              /\ (i + 1) \div 2 \in 1 .. n
  BY <1>1
<1> HIDE DEF t, U
<1>9. \A i \in 2 .. Len(s) : /\ i % 2 = 0 => s[i].do = "role"
                             /\ i % 2 = 1 => s[i].do = "write"
                             /\ s[i].op = ops[i \div 2] /\ i \div 2 \in 1 .. n
  <2> SUFFICES ASSUME NEW i \in 2 .. Len(s)
               PROVE  /\ i % 2 = 0 => s[i].do = "role"
                      /\ i % 2 = 1 => s[i].do = "write"
                      /\ s[i].op = ops[i \div 2] /\ i \div 2 \in 1 .. n
    OBVIOUS
  <2>1. PICK k \in 1 .. (2 * n) : i = k + 1
    <3>1. i - 1 \in 1 .. (2 * n) /\ i = (i - 1) + 1  BY <1>1, <1>5
    <3> QED  BY <3>1
  <2>2. s[i] = t[k]  BY <1>1, <1>7, <2>1
  <2>3. t[k].op = ops[i \div 2] /\ i \div 2 \in 1 .. n  BY <1>8, <2>1
  <2>4. (i % 2 = 0 => k % 2 = 1) /\ (i % 2 = 1 => k % 2 # 1)  BY <2>1
  <2>5. (k % 2 = 1 => t[k].do = "role") /\ (k % 2 # 1 => t[k].do = "write")  BY <1>8
  <2> QED  BY <2>2, <2>3, <2>4, <2>5
<1>10. \A i \in 2 .. Len(s) : i \in Nat /\ (i % 2 = 0 \/ i % 2 = 1)  BY <1>5
<1>11. s \in Seq({s[i] : i \in DOMAIN s}) /\ s # <<>> /\ DOMAIN s = 1 .. Len(s)
  <2>1. Len(s) \in Nat /\ s = [i \in 1 .. Len(s) |-> s[i]]  BY <1>5
  <2>2. s \in [1 .. Len(s) -> {s[i] : i \in DOMAIN s}]  BY <2>1
  <2> QED  BY <1>1, <1>5, <2>1, <2>2
<1>12. \A i \in 1 .. Len(s) : i = 1 \/ i \in 2 .. Len(s)  BY <1>5
<1>13. \A i \in 1 .. Len(s) : s[i].do # "guard" => s[i].op \in D
  BY <1>6, <1>9, <1>12
<1>14. s[1].do = "guard"  BY <1>6
<1>15. RoleFirst(s)
  <2> SUFFICES ASSUME NEW i \in 2 .. Len(s), s[i].do = "write" PROVE s[i - 1].do = "role"
    BY DEF RoleFirst
  <2>1. i % 2 = 1  BY <1>9, <1>10
  <2>2. i \in Nat /\ i >= 2  BY <1>1, <1>5
  <2>3. (i - 1) % 2 = 0  BY <2>1, <2>2
  <2>4. i # 2  BY <2>1
  <2>5. i - 1 \in 2 .. Len(s)  BY <1>1, <1>5, <2>2, <2>4
  <2> QED  BY <1>9, <2>3, <2>5
<1>16. ImportPlan(s)
  <2>1. ASSUME NEW i \in 1 .. Len(s) PROVE s[i].do \in {"guard", "role", "write"}
    BY <1>9, <1>10, <1>12, <1>14
  <2>2. ASSUME NEW i \in 1 .. Len(s), s[i].do = "role"
        PROVE  i < Len(s) /\ s[i + 1].do = "write" /\ s[i + 1].op = s[i].op
    <3>1. i \in 2 .. Len(s)  BY <1>12, <1>14, <2>2
    <3>2. i % 2 = 0  BY <1>9, <1>10, <2>2, <3>1
    <3>3. i < Len(s) /\ i + 1 \in 2 .. Len(s) /\ (i + 1) % 2 = 1 /\ (i + 1) \div 2 = i \div 2
      BY <1>1, <1>5, <3>1, <3>2
    <3> QED  BY <1>9, <3>1, <3>3
  <2>3. ASSUME NEW i \in 1 .. Len(s), NEW j \in 1 .. Len(s),
               s[i].do = "write", s[j].do = "write", s[i].op = s[j].op
        PROVE  i = j
    <3>1. i \in 2 .. Len(s) /\ j \in 2 .. Len(s)  BY <1>12, <1>14, <2>3
    <3>2. i % 2 = 1 /\ j % 2 = 1  BY <1>9, <1>10, <2>3, <3>1
    <3>3. i \div 2 = j \div 2  BY <1>9, <2>3, <3>1
    <3> QED  BY <1>5, <3>1, <3>2, <3>3
  <2> QED  BY <2>1, <2>2, <2>3 DEF ImportPlan
<1>17. Pending(s) = ToSet(ops)
  <2>1. ASSUME NEW x \in Pending(s) PROVE x \in ToSet(ops)
    <3>1. PICK i \in 1 .. Len(s) : s[i].do = "write" /\ x = s[i].op  BY DEF Pending
    <3> QED  BY <1>9, <1>12, <1>14, <3>1 DEF ToSet
  <2>2. ASSUME NEW x \in ToSet(ops) PROVE x \in Pending(s)
    <3>1. PICK k \in 1 .. n : x = ops[k]  BY DEF ToSet
    <3>2. /\ 2 * k + 1 \in 2 .. Len(s) /\ 2 * k + 1 \in 1 .. Len(s)
          /\ (2 * k + 1) % 2 = 1 /\ (2 * k + 1) \div 2 = k
      BY <1>1, <1>5
    <3>3. s[2 * k + 1].do = "write" /\ s[2 * k + 1].op = x  BY <1>9, <3>1, <3>2
    <3> QED  BY <3>2, <3>3 DEF Pending
  <2> QED  BY <2>1, <2>2
<1> QED  BY <1>11, <1>13, <1>14, <1>15, <1>16, <1>17

LEMMA Tails ==
  ASSUME NEW S, NEW s \in Seq(S), s # <<>>, NEW t, t = Tail(s)
  PROVE  /\ t \in Seq(S) /\ Len(s) \in Nat /\ Len(s) >= 1 /\ Len(t) = Len(s) - 1 /\ Head(s) = s[1]
         /\ \A i \in 1 .. Len(t) : t[i] = s[i + 1] /\ i + 1 \in 2 .. Len(s) /\ i + 1 \in 1 .. Len(s)
         /\ t # <<>> => Head(t) = s[2] /\ 2 \in 2 .. Len(s)
OBVIOUS

LEMMA PlanTails ==
  ASSUME NEW S, NEW s \in Seq(S), s # <<>>, NEW t, t = Tail(s)
  PROVE  /\ OneWrite(s) =>
              OneWrite(t) /\ (Head(s).do = "write" => \A i \in 1 .. Len(t) : t[i].do # "write")
         /\ RoleFirst(s) =>
              RoleFirst(t) /\ (t # <<>> /\ Head(t).do = "write" => Head(s).do = "role")
         /\ JoinLast(s) => JoinLast(t) /\ (Head(s).do = "write" => t # <<>>)
         /\ \A x : (\A i \in 1 .. Len(s) : s[i].do # x) =>
              Head(s).do # x /\ \A i \in 1 .. Len(t) : t[i].do # x
         /\ \A uses : FindFirst(s, uses) =>
              Head(s).do \notin uses /\ (Head(s).do # "find" => FindFirst(t, uses))
<1> DEFINE n == Len(t)
<1>1. /\ t \in Seq(S) /\ Len(s) \in Nat /\ Len(s) >= 1 /\ n = Len(s) - 1 /\ Head(s) = s[1]
      /\ \A i \in 1 .. n : t[i] = s[i + 1] /\ i + 1 \in 2 .. Len(s) /\ i + 1 \in 1 .. Len(s)
      /\ t # <<>> => Head(t) = s[2] /\ 2 \in 2 .. Len(s)
  BY Tails
<1>2. 1 \in 1 .. Len(s) /\ n \in Nat  BY <1>1
<1>3. OneWrite(s) =>
        OneWrite(t) /\ (Head(s).do = "write" => \A i \in 1 .. n : t[i].do # "write")
  <2> SUFFICES ASSUME OneWrite(s)
               PROVE  OneWrite(t) /\ (Head(s).do = "write" => \A i \in 1 .. n : t[i].do # "write")
    OBVIOUS
  <2>1. \A i, j \in 1 .. Len(s) : s[i].do = "write" /\ s[j].do = "write" => i = j  BY DEF OneWrite
  <2>2. \A i, j \in 1 .. n : t[i].do = "write" /\ t[j].do = "write" => i + 1 = j + 1
    BY <1>1, <2>1
  <2>3. Head(s).do = "write" => \A i \in 1 .. n : t[i].do = "write" => i + 1 = 1
    BY <1>1, <1>2, <2>1
  <2> QED  BY <1>2, <2>2, <2>3 DEF OneWrite
<1>4. RoleFirst(s) =>
        RoleFirst(t) /\ (t # <<>> /\ Head(t).do = "write" => Head(s).do = "role")
  <2> SUFFICES ASSUME RoleFirst(s)
               PROVE  RoleFirst(t) /\ (t # <<>> /\ Head(t).do = "write" => Head(s).do = "role")
    OBVIOUS
  <2>1. \A i \in 2 .. Len(s) : s[i].do = "write" => s[i - 1].do = "role"  BY DEF RoleFirst
  <2>2. ASSUME NEW i \in 2 .. n, t[i].do = "write" PROVE t[i - 1].do = "role"
    <3>1. i \in 1 .. n /\ i - 1 \in 1 .. n /\ (i - 1) + 1 = i /\ (i + 1) - 1 = i  BY <1>2
    <3>2. s[i + 1].do = "write" /\ i + 1 \in 2 .. Len(s)  BY <1>1, <2>2, <3>1
    <3>3. s[i].do = "role"  BY <2>1, <3>1, <3>2
    <3>4. t[i - 1] = s[i]  BY <1>1, <3>1
    <3> QED  BY <3>3, <3>4
  <2>3. ASSUME t # <<>>, Head(t).do = "write" PROVE Head(s).do = "role"
    <3>1. s[2].do = "write" /\ 2 \in 2 .. Len(s) /\ 2 - 1 = 1  BY <1>1, <2>3
    <3>2. s[2 - 1].do = "role"  BY <2>1, <3>1
    <3> QED  BY <1>1, <3>1, <3>2
  <2> QED  BY <2>2, <2>3 DEF RoleFirst
<1>5. JoinLast(s) => JoinLast(t) /\ (Head(s).do = "write" => t # <<>>)
  <2> SUFFICES ASSUME JoinLast(s)
               PROVE  JoinLast(t) /\ (Head(s).do = "write" => t # <<>>)
    OBVIOUS
  <2>1. \A i \in 1 .. Len(s) : s[i].do = "write" => i < Len(s)  BY DEF JoinLast
  <2>2. ASSUME NEW i \in 1 .. n, t[i].do = "write" PROVE i < n
    BY <1>1, <2>1, <2>2
  <2>3. ASSUME Head(s).do = "write" PROVE t # <<>>
    <3>1. 1 < Len(s)  BY <1>1, <1>2, <2>1, <2>3
    <3>2. n # 0 /\ Len(<<>>) = 0  BY <1>1, <3>1
    <3> QED  BY <3>2
  <2> QED  BY <2>2, <2>3 DEF JoinLast
<1>6. \A x : (\A i \in 1 .. Len(s) : s[i].do # x) =>
              Head(s).do # x /\ \A i \in 1 .. n : t[i].do # x
  BY <1>1, <1>2
<1>7. ASSUME NEW uses, FindFirst(s, uses)
      PROVE  Head(s).do \notin uses /\ (Head(s).do # "find" => FindFirst(t, uses))
  <2>1. \A j \in 1 .. Len(s) : s[j].do \in uses => \E i \in 1 .. (j - 1) : s[i].do = "find"
    BY <1>7 DEF FindFirst
  <2>2. Head(s).do \notin uses
    <3>1. \A i \in 1 .. (1 - 1) : FALSE  OBVIOUS
    <3> QED  BY <1>1, <1>2, <2>1, <3>1
  <2>3. ASSUME Head(s).do # "find", NEW j \in 1 .. n, t[j].do \in uses
        PROVE  \E i \in 1 .. (j - 1) : t[i].do = "find"
    <3>1. s[j + 1].do \in uses /\ j + 1 \in 1 .. Len(s) /\ j \in Nat  BY <1>1, <1>2, <2>3
    <3>2. PICK i \in 1 .. (j + 1 - 1) : s[i].do = "find"  BY <2>1, <3>1
    <3>3. i # 1  BY <1>1, <2>3, <3>2
    <3>4. i - 1 \in 1 .. (j - 1) /\ i - 1 \in 1 .. n /\ (i - 1) + 1 = i  BY <1>2, <3>1, <3>2, <3>3
    <3>5. t[i - 1] = s[i]  BY <1>1, <3>4
    <3> QED  BY <3>2, <3>4, <3>5
  <2> QED  BY <2>2, <2>3 DEF FindFirst
<1> QED  BY <1>3, <1>4, <1>5, <1>6, <1>7

LEMMA ImportTails ==
  ASSUME NEW S, NEW s \in Seq(S), s # <<>>, NEW t, t = Tail(s), ImportPlan(s)
  PROVE  /\ Head(s).do \in {"guard", "role", "write"}
         /\ ImportPlan(t)
         /\ Head(s).do = "role" => t # <<>> /\ Head(t).do = "write" /\ Head(t).op = Head(s).op
         /\ Head(s).do # "write" => Pending(t) = Pending(s)
         /\ Head(s).do = "write" =>
              Pending(s) = Pending(t) \union {Head(s).op} /\ Head(s).op \notin Pending(t)
<1> DEFINE n == Len(t)
<1>1. /\ t \in Seq(S) /\ Len(s) \in Nat /\ Len(s) >= 1 /\ n = Len(s) - 1 /\ Head(s) = s[1]
      /\ \A i \in 1 .. n : t[i] = s[i + 1] /\ i + 1 \in 2 .. Len(s) /\ i + 1 \in 1 .. Len(s)
      /\ t # <<>> => Head(t) = s[2] /\ 2 \in 2 .. Len(s)
  BY Tails
<1>2. 1 \in 1 .. Len(s) /\ n \in Nat  BY <1>1
<1>3. \A i \in 1 .. Len(s) : i = 1 \/ (i - 1 \in 1 .. n /\ t[i - 1] = s[i])
  <2> SUFFICES ASSUME NEW i \in 1 .. Len(s), i # 1 PROVE i - 1 \in 1 .. n /\ t[i - 1] = s[i]
    OBVIOUS
  <2>1. i - 1 \in 1 .. n /\ (i - 1) + 1 = i  BY <1>1
  <2> QED  BY <1>1, <2>1
<1>4. /\ \A i \in 1 .. Len(s) : s[i].do \in {"guard", "role", "write"}
      /\ \A i \in 1 .. Len(s) : s[i].do = "role" =>
           i < Len(s) /\ s[i + 1].do = "write" /\ s[i + 1].op = s[i].op
      /\ \A i, j \in 1 .. Len(s) : s[i].do = "write" /\ s[j].do = "write" /\ s[i].op = s[j].op => i = j
  BY DEF ImportPlan
<1>5. Head(s).do \in {"guard", "role", "write"}  BY <1>1, <1>2, <1>4
<1>6. Head(s).do = "role" => t # <<>> /\ Head(t).do = "write" /\ Head(t).op = Head(s).op
  <2> SUFFICES ASSUME Head(s).do = "role"
               PROVE  t # <<>> /\ Head(t).do = "write" /\ Head(t).op = Head(s).op
    OBVIOUS
  <2>1. 1 < Len(s) /\ s[1 + 1].do = "write" /\ s[1 + 1].op = s[1].op  BY <1>1, <1>2, <1>4
  <2>2. t # <<>> /\ 1 + 1 = 2  BY <1>1, <2>1
  <2> QED  BY <1>1, <2>1, <2>2
<1>7. ImportPlan(t)
  <2>1. \A i \in 1 .. n : t[i].do \in {"guard", "role", "write"}  BY <1>1, <1>4
  <2>2. ASSUME NEW i \in 1 .. n, t[i].do = "role"
        PROVE  i < n /\ t[i + 1].do = "write" /\ t[i + 1].op = t[i].op
    <3>1. t[i] = s[i + 1] /\ i + 1 \in 1 .. Len(s)  BY <1>1
    <3>2. i + 1 < Len(s) /\ s[i + 1 + 1].do = "write" /\ s[i + 1 + 1].op = s[i + 1].op
      BY <1>4, <2>2, <3>1
    <3>3. i < n /\ i + 1 \in 1 .. n  BY <1>1, <3>1, <3>2
    <3>4. t[i + 1] = s[i + 1 + 1]  BY <1>1, <3>3
    <3> QED  BY <3>1, <3>2, <3>3, <3>4
  <2>3. ASSUME NEW i \in 1 .. n, NEW j \in 1 .. n, t[i].do = "write", t[j].do = "write", t[i].op = t[j].op
        PROVE  i = j
    <3>1. i + 1 = j + 1  BY <1>1, <1>4, <2>3
    <3> QED  BY <3>1
  <2> QED  BY <2>1, <2>2, <2>3 DEF ImportPlan
<1>8. \A x : x \in Pending(t) => x \in Pending(s)  BY <1>1 DEF Pending
<1>9. \A x : x \in Pending(s) => x \in Pending(t) \/ (Head(s).do = "write" /\ x = Head(s).op)
  <2> SUFFICES ASSUME NEW x \in Pending(s)
               PROVE  x \in Pending(t) \/ (Head(s).do = "write" /\ x = Head(s).op)
    OBVIOUS
  <2>1. PICK i \in 1 .. Len(s) : s[i].do = "write" /\ x = s[i].op  BY DEF Pending
  <2>2. CASE i = 1  BY <1>1, <2>1, <2>2
  <2>3. CASE i - 1 \in 1 .. n /\ t[i - 1] = s[i]  BY <2>1, <2>3 DEF Pending
  <2> QED  BY <1>3, <2>2, <2>3
<1>10. Head(s).do = "write" => Head(s).op \in Pending(s) /\ Head(s).op \notin Pending(t)
  <2> SUFFICES ASSUME Head(s).do = "write"
               PROVE  Head(s).op \in Pending(s) /\ Head(s).op \notin Pending(t)
    OBVIOUS
  <2>1. Head(s).op \in Pending(s)  BY <1>1, <1>2 DEF Pending
  <2>2. ASSUME Head(s).op \in Pending(t) PROVE FALSE
    <3>1. PICK i \in 1 .. n : t[i].do = "write" /\ t[i].op = Head(s).op  BY <2>2 DEF Pending
    <3>2. i + 1 = 1  BY <1>1, <1>2, <1>4, <3>1
    <3> QED  BY <3>2
  <2> QED  BY <2>1, <2>2
<1> QED  BY <1>5, <1>6, <1>7, <1>8, <1>9, <1>10

LEMMA NothingLeft ==
  /\ OneWrite(<<>>) /\ RoleFirst(<<>>) /\ JoinLast(<<>>) /\ ImportPlan(<<>>)
  /\ \A uses : FindFirst(<<>>, uses)
  /\ Len(<<>>) = 0 /\ \A i \in 1 .. Len(<<>>) : FALSE
BY DEF OneWrite, RoleFirst, JoinLast, ImportPlan, FindFirst

(***************************************************************************)
(* What a step does to the request that takes it, and to the others.       *)
(***************************************************************************)
LEMMA PassedFields ==
  ASSUME NEW q, DOMAIN q = RequestFields, NEW p, p = Passed(q)
  PROVE  /\ DOMAIN p = RequestFields
         /\ p.todo = Tail(q.todo) /\ ~p.found
         /\ p.seen = q.seen /\ p.wrote = q.wrote /\ p.revived = q.revived
         /\ p.created = q.created /\ p.failed = q.failed /\ p.missed = q.missed
         /\ p.overtaken = q.overtaken
         /\ q.answer = "none" /\ Tail(q.todo) = <<>> => p.answer = "ok"
         /\ ~(q.answer = "none" /\ Tail(q.todo) = <<>>) => p.answer = q.answer
<1> DEFINE m == [q EXCEPT !.todo = Tail(@), !.found = FALSE]
<1>1. /\ DOMAIN m = RequestFields
      /\ m.todo = Tail(q.todo) /\ ~m.found
      /\ m.seen = q.seen /\ m.wrote = q.wrote /\ m.revived = q.revived
      /\ m.created = q.created /\ m.failed = q.failed /\ m.missed = q.missed
      /\ m.overtaken = q.overtaken /\ m.answer = q.answer
  BY DEF RequestFields
<1>2. p = Ends(m)  BY DEF Passed
<1> HIDE DEF m
<1>3. CASE m.todo = <<>>
  <2>1. p = [m EXCEPT !.answer = IF @ = "none" THEN "ok" ELSE @]  BY <1>2, <1>3 DEF Ends, Answered
  <2> QED  BY <1>1, <1>3, <2>1 DEF RequestFields
<1>4. CASE m.todo # <<>>
  <2>1. p = m  BY <1>2, <1>4 DEF Ends
  <2> QED  BY <1>1, <1>4, <2>1
<1> QED  BY <1>3, <1>4

LEMMA AnsweredFields ==
  ASSUME NEW q, DOMAIN q = RequestFields, NEW why, NEW p, p = Answered(q, why)
  PROVE  /\ DOMAIN p = RequestFields
         /\ p.todo = q.todo /\ p.found = q.found
         /\ p.seen = q.seen /\ p.wrote = q.wrote /\ p.revived = q.revived
         /\ p.created = q.created /\ p.failed = q.failed /\ p.missed = q.missed
         /\ p.overtaken = q.overtaken
         /\ q.answer = "none" => p.answer = why
         /\ q.answer # "none" => p.answer = q.answer
BY DEF Answered, RequestFields

LEMMA FailedFields ==
  ASSUME NEW q, DOMAIN q = RequestFields, NEW why, NEW r, NEW p, p = Failed(r, q, why)
  PROVE  /\ DOMAIN p = RequestFields /\ ~p.found
         /\ p.seen = q.seen /\ p.wrote = q.wrote /\ p.revived = q.revived
         /\ p.created = q.created /\ p.missed = q.missed /\ p.overtaken = q.overtaken
         /\ Kind(r) # "import" =>
              /\ p.todo = <<>> /\ p.failed = q.failed
              /\ q.answer = "none" => p.answer = why
              /\ q.answer # "none" => p.answer = q.answer
         /\ Kind(r) = "import" =>
              /\ p.todo = RestAfterFailure(q) /\ p.failed = q.failed \union {Head(q.todo).op}
              /\ p.answer = q.answer \/ (p.answer = "ok" /\ p.todo = <<>>)
<1>1. CASE Kind(r) # "import"
  <2> DEFINE m == [q EXCEPT !.todo = <<>>, !.found = FALSE]
  <2>1. /\ DOMAIN m = RequestFields
        /\ m.todo = <<>> /\ ~m.found
        /\ m.seen = q.seen /\ m.wrote = q.wrote /\ m.revived = q.revived
        /\ m.created = q.created /\ m.failed = q.failed /\ m.missed = q.missed
        /\ m.overtaken = q.overtaken /\ m.answer = q.answer
    BY DEF RequestFields
  <2>2. p = Answered(m, why)  BY <1>1 DEF Failed, Kind
  <2> HIDE DEF m
  <2> QED  BY <1>1, <2>1, <2>2, AnsweredFields
<1>2. CASE Kind(r) = "import"
  <2> DEFINE m == [q EXCEPT !.failed = @ \union {Head(q.todo).op}, !.found = FALSE,
                            !.todo = RestAfterFailure(q)]
  <2>1. /\ DOMAIN m = RequestFields
        /\ m.todo = RestAfterFailure(q) /\ ~m.found
        /\ m.seen = q.seen /\ m.wrote = q.wrote /\ m.revived = q.revived
        /\ m.created = q.created /\ m.failed = q.failed \union {Head(q.todo).op}
        /\ m.missed = q.missed /\ m.overtaken = q.overtaken /\ m.answer = q.answer
    BY DEF RequestFields
  <2>2. p = Ends(m)  BY <1>2 DEF Failed, Kind
  <2> HIDE DEF m
  <2>3. CASE m.todo = <<>>
    <3>1. p = Answered(m, "ok")  BY <2>2, <2>3 DEF Ends
    <3> QED  BY <1>2, <2>1, <2>3, <3>1, AnsweredFields
  <2>4. CASE m.todo # <<>>
    <3>1. p = m  BY <2>2, <2>4 DEF Ends
    <3> QED  BY <1>2, <2>1, <3>1
  <2> QED  BY <2>3, <2>4
<1> QED  BY <1>1, <1>2

\* The replies a step may give, and the ways on for the request that takes it.
Replies(r) ==
  /\ req'[r].answer \in Answers \union {req[r].answer}
  /\ req'[r].answer = "ok" => req[r].answer = "ok" \/ req'[r].todo = <<>>
Onward(r) ==
  /\ Plan(r) # <<>> /\ req'[r].todo = Tail(Plan(r)) /\ ~req'[r].found
  /\ req'[r].failed = req[r].failed /\ Replies(r)
Skips(r) ==
  /\ Kind(r) = "import" /\ Plan(r) # <<>> /\ Step(r).do # "guard"
  /\ req'[r].todo = RestAfterFailure(req[r]) /\ ~req'[r].found
  /\ req'[r].failed = req[r].failed \union {Step(r).op} /\ Replies(r)
Stops(r) ==
  /\ Kind(r) # "import" /\ Plan(r) # <<>>
  /\ req'[r].todo = <<>> /\ ~req'[r].found
  /\ req'[r].failed = req[r].failed
  /\ req'[r].answer \in (Answers \ {"ok"}) \union {req[r].answer}

Unmoved(q) ==
  /\ req'[q].todo = req[q].todo /\ req'[q].found = req[q].found /\ req'[q].seen = req[q].seen
  /\ req'[q].answer = req[q].answer /\ req'[q].wrote = req[q].wrote
  /\ req'[q].revived = req[q].revived
  /\ req'[q].created = req[q].created /\ req'[q].failed = req[q].failed
Others(r) ==
  /\ setup' = setup /\ req' = [q \in Requests |-> req'[q]]
  /\ \A q \in Requests : DOMAIN req'[q] = RequestFields
  /\ \A q \in Requests : q # r =>
       /\ Unmoved(q) /\ req[q].missed \subseteq req'[q].missed
       /\ req[q].overtaken \subseteq req'[q].overtaken
  /\ req'[r].missed = req[r].missed /\ req'[r].overtaken = req[r].overtaken
Kept(r) ==
  req'[r].wrote = req[r].wrote /\ req'[r].revived = req[r].revived /\ req'[r].created = req[r].created

(***************************************************************************)
(* The steps, by what they do.                                             *)
(***************************************************************************)
Asks(r) ==
  /\ Others(r) /\ Kept(r) /\ UNCHANGED tables /\ req'[r].seen = req[r].seen
  /\ Plan(r) # <<>> /\ Step(r).do \in {"guard", "role"}
  /\ req'[r].todo = Plan(r) /\ req'[r].found
  /\ req'[r].failed = req[r].failed /\ req'[r].answer = req[r].answer
Moves(r) ==
  /\ Others(r) /\ Kept(r) /\ UNCHANGED tables /\ req'[r].seen = req[r].seen /\ Onward(r)
  /\ Step(r).do \notin {"write", "find", "join"}
  /\ Step(r).do = "role" =>
       IsLive(RoleProject(r)) /\ RoleOf(Ask(r).by, RoleProject(r)) \in Needed(Kind(r))
Reads(r) ==
  /\ Others(r) /\ Kept(r) /\ UNCHANGED tables /\ Onward(r) /\ Step(r).do = "find"
  /\ \/ /\ Kind(r) \in {"updateProject", "deleteProject"}
        /\ req'[r].seen \in projects /\ req'[r].seen.id = Ask(r).pid
     \/ /\ Kind(r) \notin {"updateProject", "deleteProject"}
        /\ req'[r].seen \in apis /\ req'[r].seen.id = Ask(r).id
Fails(r) ==
  /\ Others(r) /\ Kept(r) /\ UNCHANGED tables /\ req'[r].seen = req[r].seen /\ (Skips(r) \/ Stops(r))

Writes(r, kinds) ==
  /\ Others(r) /\ req'[r].seen = req[r].seen /\ Onward(r)
  /\ Step(r).do = "write" /\ Kind(r) \in kinds
Marks(r, kinds) ==
  /\ Writes(r, kinds) /\ req'[r].wrote
  /\ req'[r].revived = req[r].revived /\ req'[r].created = req[r].created

InsertsProject(r) ==
  /\ Marks(r, {"createProject"}) /\ \A p \in projects : p.slug # Ask(r).arg
  /\ projects' = projects \union
       {[id |-> r, owner |-> Ask(r).by, slug |-> Ask(r).arg, name |-> "first"]}
  /\ UNCHANGED <<members, apis, rules, cases>>
InsertsOwner(r) ==
  /\ Others(r) /\ Kept(r) /\ req'[r].seen = req[r].seen /\ Onward(r) /\ Step(r).do = "join"
  /\ CanJoin(Ask(r).by, r)
  /\ members' = members \union {Member(r, Ask(r).by, "admin")}
  /\ UNCHANGED <<projects, apis, rules, cases>>
AddsMember(r) ==
  /\ Marks(r, {"addMember"}) /\ CanJoin(Ask(r).id, Ask(r).pid)
  /\ members' = members \union {Member(Ask(r).pid, Ask(r).id, Ask(r).arg)}
  /\ UNCHANGED <<projects, apis, rules, cases>>
\* A project that is there after the step has had its owner before.
SameOwner(pid) ==
  \A x \in projects' : x.id = pid => \E y \in projects : y.id = x.id /\ y.owner = x.owner
SavesProject(r) ==
  /\ Writes(r, {"updateProject"}) /\ req'[r].wrote /\ req'[r].created = req[r].created
  /\ (req'[r].revived <=> ~IsLive(req[r].seen.id))
  /\ projects' = Saved([req[r].seen EXCEPT !.name = Ask(r).arg])
  /\ \A q \in Requests : q # r /\ Plan(q) # <<>> /\ Step(q).do = "write" =>
       SameOwner(TargetProject(q)) \/ Step(q).op \in req'[q].overtaken
  /\ UNCHANGED <<members, apis, rules, cases>>
DeletesProject(r) ==
  LET gone == {a.id : a \in {a \in apis : a.project = Ask(r).pid}} IN
  /\ Marks(r, {"deleteProject"})
  /\ projects' = {p \in projects : p.id # Ask(r).pid}
  /\ members' = {m \in members : m.project # Ask(r).pid}
  /\ apis' = {a \in apis : a.id \notin gone}
  /\ rules' = RulesWithout(gone)
  /\ cases' = {c \in CasesWithout(gone) : c.project # Ask(r).pid}
InsertsApi(r) ==
  LET op == Step(r).op IN
  /\ Writes(r, {"createApi", "import"}) /\ req'[r].wrote
  /\ req'[r].revived = req[r].revived /\ req'[r].created = req[r].created \union {op}
  /\ IsLive(Ask(r).pid) /\ ~Taken(apis, Ask(r).pid, op)
  /\ apis' = apis \union {[id |-> <<r, op>>, project |-> Ask(r).pid, path |-> op.path,
                           method |-> op.method, tags |-> {}]}
  /\ UNCHANGED <<projects, members, rules, cases>>
UpdatesApi(r) ==
  /\ Marks(r, {"updateApi"})
  /\ \E row \in apis :
       LET new == Overwritten(row, Ask(r).fields) IN
       /\ row.id = Ask(r).id /\ ~Taken(apis \ {row}, row.project, new)
       /\ apis' = (apis \ {row}) \union {new}
  /\ UNCHANGED <<projects, members, rules, cases>>
UpdatesTags(r) ==
  /\ Marks(r, {"addTag", "removeTag"})
  /\ \E row \in apis : /\ row.id = Ask(r).id
                       /\ apis' = (apis \ {row}) \union
                                    {[row EXCEPT !.tags = Changed(Ask(r), req[r].seen.tags)]}
  /\ \A q \in Requests : q # r /\ IsTagging(q) /\ req[q].seen # NoRow /\ ~req[q].wrote =>
       r \in req'[q].missed
  /\ UNCHANGED <<projects, members, rules, cases>>
DeletesApi(r) ==
  /\ Marks(r, {"deleteApi"})
  /\ apis' = {a \in apis : a.id # Ask(r).id}
  /\ rules' = RulesWithout({Ask(r).id})
  /\ cases' = CasesWithout({Ask(r).id})
  /\ UNCHANGED <<projects, members>>
RecordsHit(r) ==
  /\ Writes(r, {"recordHit"}) /\ Kept(r)
  /\ \E row \in rules : /\ row.id = Ask(r).id
                        /\ rules' = (rules \ {row}) \union {[row EXCEPT !.hits = @ + 1]}
  /\ UNCHANGED <<projects, members, apis, cases>>
UpdatedCase(r, c) == IF c.id = Ask(r).id THEN Overwritten(c, Ask(r).fields) ELSE c
CaseFits(r, c) ==
  /\ IsLive(UpdatedCase(r, c).project) /\ HasApi(UpdatedCase(r, c).api)
  /\ \A d \in cases \ {c} : d.id # UpdatedCase(r, c).id
ChangesCases(r) ==
  /\ \/ /\ Marks(r, {"createCase"}) /\ IsLive(Ask(r).pid) /\ HasApi(Ask(r).arg)
        /\ cases' = cases \union {[id |-> r, project |-> Ask(r).pid, api |-> Ask(r).arg]}
     \/ /\ Marks(r, {"updateCase"}) /\ \A c \in cases : c.id = Ask(r).id => CaseFits(r, c)
        /\ cases' = {UpdatedCase(r, c) : c \in cases}
     \/ Marks(r, {"deleteCase"}) /\ cases' = {c \in cases : c.id # Ask(r).id}
  /\ UNCHANGED <<projects, members, apis, rules>>

Rests(r) == Asks(r) \/ Moves(r) \/ Reads(r) \/ Fails(r)
Effect(r) ==
  \/ Rests(r) \/ InsertsProject(r) \/ InsertsOwner(r) \/ AddsMember(r) \/ SavesProject(r)
  \/ DeletesProject(r) \/ InsertsApi(r) \/ UpdatesApi(r) \/ UpdatesTags(r) \/ DeletesApi(r)
  \/ RecordsHit(r) \/ ChangesCases(r)

\* One request goes on, with the fields of another record.
LEMMA Became ==
  ASSUME Shaped, NEW r \in Requests, NEW p, DOMAIN p = RequestFields, Becomes(r, p),
         setup' = setup, p.missed = req[r].missed, p.overtaken = req[r].overtaken
  PROVE  Others(r) /\ req'[r] = p
<1>1. req' = [req EXCEPT ![r] = p]  BY DEF Becomes
<1>2. DOMAIN req = Requests /\ \A q \in Requests : DOMAIN req[q] = RequestFields
  BY DEF Shaped
<1>3. DOMAIN req' = Requests /\ req'[r] = p /\ \A q \in Requests : q # r => req'[q] = req[q]
  BY <1>1, <1>2
<1>4. req' = [q \in Requests |-> req'[q]]  BY <1>1, <1>2
<1>5. \A q \in Requests : DOMAIN req'[q] = RequestFields  BY <1>2, <1>3
<1>6. \A q \in Requests : q # r =>
        /\ Unmoved(q) /\ req[q].missed \subseteq req'[q].missed
        /\ req[q].overtaken \subseteq req'[q].overtaken
  BY <1>3 DEF Unmoved
<1> QED  BY <1>3, <1>4, <1>5, <1>6 DEF Others

LEMMA Passes ==
  ASSUME Shaped, NEW r \in Requests, Plan(r) # <<>>, NEW q, DOMAIN q = RequestFields,
         Becomes(r, Passed(q)), setup' = setup,
         q.todo = req[r].todo, q.failed = req[r].failed, q.missed = req[r].missed,
         q.overtaken = req[r].overtaken,
         q.answer \in Answers \union {req[r].answer}, q.answer = "ok" => req[r].answer = "ok"
  PROVE  /\ Others(r) /\ Onward(r)
         /\ req'[r].seen = q.seen /\ req'[r].wrote = q.wrote /\ req'[r].revived = q.revived
         /\ req'[r].created = q.created
<1>1. PICK p : p = Passed(q)  OBVIOUS
<1>2. Becomes(r, p)  BY <1>1 DEF Becomes
<1>3. /\ DOMAIN p = RequestFields
      /\ p.todo = Tail(q.todo) /\ ~p.found
      /\ p.seen = q.seen /\ p.wrote = q.wrote /\ p.revived = q.revived
      /\ p.created = q.created /\ p.failed = q.failed /\ p.missed = q.missed
      /\ p.overtaken = q.overtaken
      /\ q.answer = "none" /\ Tail(q.todo) = <<>> => p.answer = "ok"
      /\ ~(q.answer = "none" /\ Tail(q.todo) = <<>>) => p.answer = q.answer
  BY <1>1, PassedFields
<1>4. Others(r) /\ req'[r] = p  BY <1>2, <1>3, Became
<1>5. Replies(r)  BY <1>3, <1>4 DEF Replies, Answers, Plan
<1> QED  BY <1>3, <1>4, <1>5 DEF Onward, Plan

LEMMA FailsHere ==
  ASSUME Shaped, NEW r \in Requests, Plan(r) # <<>>, Step(r).do # "guard",
         NEW why \in {"forbidden", "missing", "error"},
         Fail(r, why), UNCHANGED <<setup, tables>>
  PROVE  Fails(r)
<1>0. PICK q : q = req[r]  OBVIOUS
<1>1. PICK p : p = Failed(r, q, why)  OBVIOUS
<1>2. Becomes(r, p)  BY Zenon, <1>0, <1>1 DEF Becomes, Fail, Failed, Answered, Ends, RestAfterFailure
<1>3. DOMAIN q = RequestFields  BY <1>0 DEF Shaped
<1>4. /\ DOMAIN p = RequestFields /\ ~p.found
      /\ p.seen = q.seen /\ p.wrote = q.wrote /\ p.revived = q.revived
      /\ p.created = q.created /\ p.missed = q.missed /\ p.overtaken = q.overtaken
      /\ Kind(r) # "import" =>
           /\ p.todo = <<>> /\ p.failed = q.failed
           /\ q.answer = "none" => p.answer = why
           /\ q.answer # "none" => p.answer = q.answer
      /\ Kind(r) = "import" =>
           /\ p.todo = RestAfterFailure(q) /\ p.failed = q.failed \union {Head(q.todo).op}
           /\ p.answer = q.answer \/ (p.answer = "ok" /\ p.todo = <<>>)
  BY <1>1, <1>3, FailedFields
<1>5. Others(r) /\ req'[r] = p  BY <1>0, <1>2, <1>4, Became
<1>6. Kept(r) /\ req'[r].seen = req[r].seen  BY <1>0, <1>4, <1>5 DEF Kept
<1>7. Skips(r) \/ Stops(r)
  <2>1. CASE Kind(r) = "import"
    <3>1. Replies(r)  BY <1>0, <1>4, <1>5, <2>1 DEF Replies, Answers
    <3> QED  BY <1>0, <1>4, <1>5, <2>1, <3>1 DEF Skips, Plan, Step, RestAfterFailure
  <2>2. CASE Kind(r) # "import"  BY <1>0, <1>4, <1>5, <2>2 DEF Stops, Plan, Answers
  <2> QED  BY <2>1, <2>2
<1> QED  BY <1>5, <1>6, <1>7 DEF Fails, tables

(***************************************************************************)
(* Every step of the specification is one of these.                        *)
(***************************************************************************)
LEMMA Rows ==
  ASSUME NEW t, NEW columns, "project" \in columns \/ "owner" \in columns \/ "api" \in columns,
         Columns(t, columns), NEW id, NEW row, row = Row(t, id)
  PROVE  /\ Has(t, id) => row \in t /\ row.id = id /\ row # NoRow
         /\ ~Has(t, id) => row = NoRow
<1>1. CASE Has(t, id)
  <2>1. \E x \in t : x.id = id  BY <1>1 DEF Has
  <2>2. row \in t /\ row.id = id  BY <1>1, <2>1 DEF Row
  <2>3. DOMAIN row = columns  BY <2>2 DEF Columns
  <2>4. DOMAIN NoRow = {"id"}  BY DEF NoRow
  <2>5. row # NoRow  BY <2>3, <2>4
  <2> QED  BY <1>1, <2>2, <2>5
<1>2. CASE ~Has(t, id)  BY <1>2 DEF Row
<1> QED  BY <1>1, <1>2

LEMMA Tables ==
  ASSUME TypeOK
  PROVE  /\ Columns(projects, {"id", "owner", "slug", "name"})
         /\ Columns(apis, {"id", "project", "path", "method", "tags"})
         /\ Columns(rules, {"id", "api", "enabled", "hits"})
         /\ Columns(cases, {"id", "project", "api"})
BY DEF TypeOK, Linked

LEMMA RolePasses ==
  ASSUME Shaped, NEW r \in Requests, Plan(r) # <<>>, Step(r).do \in {"guard", "role"},
         NEW role, RoleKnown(r, role), UNCHANGED <<setup, tables>>,
         Step(r).do = "role" /\ role \in Needed(Kind(r)) =>
           IsLive(RoleProject(r)) /\ RoleOf(Ask(r).by, RoleProject(r)) \in Needed(Kind(r))
  PROVE  Moves(r) \/ Fails(r)
<1>1. PICK q : q = req[r]  OBVIOUS
<1>2. DOMAIN q = RequestFields  BY <1>1 DEF Shaped
<1>3. PICK why \in {"forbidden", "missing", "error"} : why = Refusal(role)  BY DEF Refusal
<1>4. PICK a : a = Answered(q, why)  OBVIOUS
<1>5. /\ DOMAIN a = RequestFields
      /\ a.todo = q.todo
      /\ a.seen = q.seen /\ a.wrote = q.wrote /\ a.revived = q.revived
      /\ a.created = q.created /\ a.failed = q.failed /\ a.missed = q.missed
      /\ a.overtaken = q.overtaken
      /\ q.answer = "none" => a.answer = why
      /\ q.answer # "none" => a.answer = q.answer
  BY <1>2, <1>4, AnsweredFields
<1>6. CASE Becomes(r, Passed(q)) /\ (Step(r).do = "role" => role \in Needed(Kind(r)))
  <2>1. /\ Others(r) /\ Onward(r)
        /\ req'[r].seen = q.seen /\ req'[r].wrote = q.wrote /\ req'[r].revived = q.revived
        /\ req'[r].created = q.created
    BY <1>1, <1>2, <1>6, Passes
  <2> QED  BY <1>1, <1>6, <2>1 DEF Moves, Kept, tables
<1>7. CASE Becomes(r, Passed(a)) /\ Step(r).do # "role"
  <2>1. a.answer \in Answers \union {req[r].answer} /\ (a.answer = "ok" => req[r].answer = "ok")
    BY <1>1, <1>5 DEF Answers
  <2>2. /\ Others(r) /\ Onward(r)
        /\ req'[r].seen = a.seen /\ req'[r].wrote = a.wrote /\ req'[r].revived = a.revived
        /\ req'[r].created = a.created
    BY <1>1, <1>5, <1>7, <2>1, Passes
  <2> QED  BY <1>1, <1>5, <1>7, <2>2 DEF Moves, Kept, tables
<1>8. CASE Fail(r, why) /\ Step(r).do = "role"
  BY <1>8, FailsHere
<1>9. \/ Becomes(r, Passed(q)) /\ (Step(r).do = "role" => role \in Needed(Kind(r)))
      \/ Becomes(r, Passed(a)) /\ Step(r).do # "role"
      \/ Fail(r, why) /\ Step(r).do = "role"
  BY Zenon, <1>1, <1>3, <1>4 DEF RoleKnown, Kind, Fail, Becomes
<1> QED  BY <1>6, <1>7, <1>8, <1>9

LEMMA FindsOwner ==
  ASSUME Shaped, TypeOK, NEW r \in Requests, FindOwner(r)
  PROVE  Rests(r)
<1>1. Plan(r) # <<>> /\ Step(r).do \in {"guard", "role"} /\ UNCHANGED <<setup, tables>>
  BY DEF FindOwner, Doing, Plan
<1>2. PICK p : p = Row(projects, RoleProject(r))  OBVIOUS
<1>3. /\ Has(projects, RoleProject(r)) => p \in projects /\ p.id = RoleProject(r) /\ p # NoRow
      /\ ~Has(projects, RoleProject(r)) => p = NoRow
  BY <1>2, Rows, Tables
<1>4. \/ RoleKnown(r, "error") \/ RoleKnown(r, "missing")
      \/ p # NoRow /\ p.owner = Ask(r).by /\ RoleKnown(r, "admin")
      \/ Becomes(r, [req[r] EXCEPT !.found = TRUE])
  BY Zenon, <1>2 DEF FindOwner
<1>5. CASE RoleKnown(r, "error") \/ RoleKnown(r, "missing")
  <2>1. "error" \notin Needed(Kind(r)) /\ "missing" \notin Needed(Kind(r))
    BY DEF Needed, Writers
  <2> QED  BY <1>1, <1>5, <2>1, RolePasses DEF Rests
<1>6. CASE p # NoRow /\ p.owner = Ask(r).by /\ RoleKnown(r, "admin")
  <2>1. p \in projects /\ p.id = RoleProject(r) /\ IsLive(RoleProject(r))  BY <1>3, <1>6 DEF IsLive
  <2>2. RoleOf(Ask(r).by, RoleProject(r)) = "admin"  BY <1>6, <2>1 DEF RoleOf
  <2>3. "admin" \in Needed(Kind(r))  BY DEF Needed, Writers
  <2> QED  BY <1>1, <1>6, <2>1, <2>2, <2>3, RolePasses DEF Rests
<1>7. CASE Becomes(r, [req[r] EXCEPT !.found = TRUE])
  <2>1. PICK m : m = [req[r] EXCEPT !.found = TRUE]  OBVIOUS
  <2>2. /\ DOMAIN m = RequestFields /\ m.found
        /\ m.todo = req[r].todo /\ m.seen = req[r].seen /\ m.wrote = req[r].wrote
        /\ m.revived = req[r].revived /\ m.created = req[r].created
        /\ m.failed = req[r].failed /\ m.missed = req[r].missed
        /\ m.overtaken = req[r].overtaken /\ m.answer = req[r].answer
    BY <2>1 DEF Shaped, RequestFields
  <2>3. Becomes(r, m)  BY <1>7, <2>1 DEF Becomes
  <2>4. Others(r) /\ req'[r] = m  BY <1>1, <2>2, <2>3, Became
  <2>5. Asks(r)  BY <1>1, <2>2, <2>4 DEF Asks, Kept, tables, Plan
  <2> QED  BY <2>5 DEF Rests
<1> QED  BY <1>4, <1>5, <1>6, <1>7

LEMMA FindsMember ==
  ASSUME Shaped, TypeOK, NEW r \in Requests, Planned(r), FindMember(r)
  PROVE  Rests(r)
<1>1. Plan(r) # <<>> /\ Step(r).do \in {"guard", "role"} /\ UNCHANGED <<setup, tables>>
  BY DEF FindMember, Planned, Step, Plan
<1> DEFINE Is(m) == m.project = RoleProject(r) /\ m.user = Ask(r).by
<1>2. PICK n : n = CHOOSE m \in members : Is(m)  OBVIOUS
<1>3. (\E m \in members : Is(m)) => n \in members /\ Is(n)  BY <1>2
<1>4. \/ RoleKnown(r, "error") \/ RoleKnown(r, "stranger")
      \/ (\E m \in members : Is(m)) /\ RoleKnown(r, n.role)
  <2>1. PICK ok \in BOOLEAN :
          RoleKnown(r, IF ~ok THEN "error" ELSE IF \E m \in members : Is(m) THEN n.role ELSE "stranger")
    BY Zenon, <1>2 DEF FindMember
  <2>2. CASE ~ok
    <3>1. RoleKnown(r, "error")  BY Zenon, <2>1, <2>2 DEF RoleKnown
    <3> QED  BY <3>1
  <2>3. CASE ok /\ \E m \in members : Is(m)
    <3>1. RoleKnown(r, n.role)  BY Zenon, <2>1, <2>3 DEF RoleKnown
    <3> QED  BY <2>3, <3>1
  <2>4. CASE ok /\ ~\E m \in members : Is(m)
    <3>1. RoleKnown(r, "stranger")  BY Zenon, <2>1, <2>4 DEF RoleKnown
    <3> QED  BY <3>1
  <2> QED  BY <2>2, <2>3, <2>4
<1>5. CASE RoleKnown(r, "error") \/ RoleKnown(r, "stranger")
  <2>1. "error" \notin Needed(Kind(r)) /\ "stranger" \notin Needed(Kind(r))
    BY DEF Needed, Writers
  <2> QED  BY <1>1, <1>5, <2>1, RolePasses DEF Rests
<1>6. CASE (\E m \in members : Is(m)) /\ RoleKnown(r, n.role)
  <2>1. n \in members /\ Is(n)  BY <1>3, <1>6
  <2>2. IsLive(RoleProject(r))  BY <2>1 DEF TypeOK, Linked, IsLive
  <2>3. RoleOf(Ask(r).by, RoleProject(r)) \in {"admin", n.role}
    <3>1. PICK o : o = CHOOSE m \in members : m.project = RoleProject(r) /\ m.user = Ask(r).by
      OBVIOUS
    <3>2. o = n  BY <1>2, <3>1
    <3> QED  BY <1>6, <3>1, <3>2 DEF RoleOf
  <2>4. "admin" \in Needed(Kind(r))  BY DEF Needed, Writers
  <2> QED  BY <1>1, <1>6, <2>2, <2>3, <2>4, RolePasses DEF Rests
<1> QED  BY <1>4, <1>5, <1>6

\* A query that fails, or finds that it may not.
LEMMA FailedQuery ==
  ASSUME Shaped, NEW r \in Requests, NEW do \in {"find", "refind", "again", "write", "join", "rule"},
         Doing(r, do), NEW why \in {"forbidden", "missing", "error"}, Fail(r, why),
         UNCHANGED <<setup, tables>>
  PROVE  Rests(r)
<1>1. Plan(r) # <<>> /\ Step(r).do # "guard"  BY DEF Doing, Plan
<1> QED  BY <1>1, FailsHere DEF Rests

\* A query that is made, and nothing else.
LEMMA PassedQuery ==
  ASSUME Shaped, NEW r \in Requests, NEW do, Doing(r, do), Pass(r), setup' = setup
  PROVE  /\ Others(r) /\ Kept(r) /\ Onward(r) /\ req'[r].seen = req[r].seen
         /\ Plan(r) # <<>> /\ Step(r).do = do
<1>1. PICK q : q = req[r]  OBVIOUS
<1>2. DOMAIN q = RequestFields  BY <1>1 DEF Shaped
<1>3. Becomes(r, Passed(q))  BY Zenon, <1>1 DEF Pass, Becomes
<1>4. Plan(r) # <<>> /\ Step(r).do = do  BY DEF Doing, Plan
<1>5. /\ Others(r) /\ Onward(r)
      /\ req'[r].seen = q.seen /\ req'[r].wrote = q.wrote /\ req'[r].revived = q.revived
      /\ req'[r].created = q.created
  BY <1>1, <1>2, <1>3, <1>4, Passes
<1> QED  BY <1>1, <1>4, <1>5 DEF Kept

LEMMA FindsRow ==
  ASSUME Shaped, TypeOK, NEW r \in Requests, Find(r)
  PROVE  Rests(r)
<1> DEFINE OnProject == Kind(r) \in {"updateProject", "deleteProject"}
<1>1. PICK row : row = IF OnProject THEN Row(projects, Ask(r).pid) ELSE Row(apis, Ask(r).id)
  OBVIOUS
<1>2. row # NoRow => \/ OnProject /\ row \in projects /\ row.id = Ask(r).pid
                     \/ ~OnProject /\ row \in apis /\ row.id = Ask(r).id
  <2>1. CASE OnProject
    <3>1. row = Row(projects, Ask(r).pid)  BY <1>1, <2>1
    <3> QED  BY <2>1, <3>1, Rows, Tables
  <2>2. CASE ~OnProject
    <3>1. row = Row(apis, Ask(r).id)  BY <1>1, <2>2
    <3> QED  BY <2>2, <3>1, Rows, Tables
  <2> QED  BY <2>1, <2>2
<1>3. PICK do \in {"find", "refind"} : Doing(r, do)  BY DEF Find
<1>4. UNCHANGED <<setup, tables>>  BY DEF Find
<1>5. \/ Fail(r, "error") \/ Fail(r, "missing") \/ Fail(r, "forbidden")
      \/ row # NoRow /\ Step(r).do = "refind" /\ Pass(r)
      \/ row # NoRow /\ Step(r).do # "refind" /\ Becomes(r, Passed([req[r] EXCEPT !.seen = row]))
  BY Zenon, <1>1 DEF Find, Kind
<1>6. CASE Fail(r, "error") \/ Fail(r, "missing") \/ Fail(r, "forbidden")
  BY <1>3, <1>4, <1>6, FailedQuery
<1>7. CASE row # NoRow /\ Step(r).do = "refind" /\ Pass(r)
  <2>1. /\ Others(r) /\ Kept(r) /\ Onward(r) /\ req'[r].seen = req[r].seen
    BY <1>3, <1>4, <1>7, PassedQuery
  <2>2. Moves(r)  BY <1>4, <1>7, <2>1 DEF Moves, tables
  <2> QED  BY <2>2 DEF Rests
<1>8. CASE row # NoRow /\ Step(r).do # "refind" /\ Becomes(r, Passed([req[r] EXCEPT !.seen = row]))
  <2>1. PICK m : m = [req[r] EXCEPT !.seen = row]  OBVIOUS
  <2>2. /\ DOMAIN m = RequestFields /\ m.seen = row
        /\ m.todo = req[r].todo /\ m.wrote = req[r].wrote
        /\ m.revived = req[r].revived /\ m.created = req[r].created
        /\ m.failed = req[r].failed /\ m.missed = req[r].missed
        /\ m.overtaken = req[r].overtaken /\ m.answer = req[r].answer
    BY <2>1 DEF Shaped, RequestFields
  <2>3. Becomes(r, Passed(m))  BY Zenon, <1>8, <2>1 DEF Becomes
  <2>4. Plan(r) # <<>> /\ Step(r).do = "find"  BY <1>3, <1>8 DEF Doing, Plan
  <2>5. m.answer \in Answers \union {req[r].answer} /\ (m.answer = "ok" => req[r].answer = "ok")
    BY <2>2
  <2>6. /\ Others(r) /\ Onward(r)
        /\ req'[r].seen = row /\ req'[r].wrote = m.wrote /\ req'[r].revived = m.revived
        /\ req'[r].created = m.created
    BY <1>4, <2>2, <2>3, <2>4, <2>5, Passes
  <2>7. Kept(r)  BY <2>2, <2>6 DEF Kept
  <2>8. UNCHANGED tables  BY <1>4
  <2>9. Reads(r)  BY <1>2, <1>8, <2>4, <2>6, <2>7, <2>8 DEF Reads
  <2> QED  BY <2>9 DEF Rests
<1> QED  BY <1>5, <1>6, <1>7, <1>8

LEMMA FindsAgain ==
  ASSUME Shaped, NEW r \in Requests, FindAgain(r)
  PROVE  Rests(r)
<1>1. Doing(r, "again") /\ UNCHANGED <<setup, tables>>  BY DEF FindAgain
<1>2. PICK why \in {"missing", "error"} :
        why = IF Ask(r).kind = "updateCase" THEN "error" ELSE "missing"
  OBVIOUS
<1>3. Fail(r, "error") \/ Pass(r) \/ Fail(r, why)
  BY Zenon, <1>2 DEF FindAgain, Fail, Becomes
<1>4. CASE Fail(r, "error") \/ Fail(r, why)  BY <1>1, <1>4, FailedQuery
<1>5. CASE Pass(r)
  <2>1. /\ Others(r) /\ Kept(r) /\ Onward(r) /\ req'[r].seen = req[r].seen /\ Step(r).do = "again"
    BY <1>1, <1>5, PassedQuery
  <2>2. Moves(r)  BY <1>1, <2>1 DEF Moves, tables
  <2> QED  BY <2>2 DEF Rests
<1> QED  BY <1>3, <1>4, <1>5

\* A write that is made, with the fields it sets.
LEMMA Marked ==
  ASSUME Shaped, NEW r \in Requests, NEW kinds, Writing(r, kinds), setup' = setup,
         Becomes(r, Passed(Wrote(req[r])))
  PROVE  Marks(r, kinds)
<1>1. PICK m : m = [req[r] EXCEPT !.wrote = TRUE]  OBVIOUS
<1>2. /\ DOMAIN m = RequestFields /\ m.wrote
      /\ m.todo = req[r].todo /\ m.seen = req[r].seen
      /\ m.revived = req[r].revived /\ m.created = req[r].created
      /\ m.failed = req[r].failed /\ m.missed = req[r].missed
      /\ m.overtaken = req[r].overtaken /\ m.answer = req[r].answer
  BY <1>1 DEF Shaped, RequestFields
<1>3. Becomes(r, Passed(m))  BY Zenon, <1>1 DEF Becomes, Wrote
<1>4. Plan(r) # <<>> /\ Step(r).do = "write" /\ Kind(r) \in kinds
  BY DEF Writing, Doing, Plan, Kind
<1>5. m.answer \in Answers \union {req[r].answer} /\ (m.answer = "ok" => req[r].answer = "ok")
  BY <1>2
<1>6. /\ Others(r) /\ Onward(r)
      /\ req'[r].seen = m.seen /\ req'[r].wrote = m.wrote /\ req'[r].revived = m.revived
      /\ req'[r].created = m.created
  BY <1>2, <1>3, <1>4, <1>5, Passes
<1>7. Writes(r, kinds)  BY <1>2, <1>4, <1>6 DEF Writes
<1> QED  BY <1>2, <1>6, <1>7 DEF Marks

LEMMA StepInsertProject ==
  ASSUME Shaped, NEW r \in Requests, InsertProject(r)
  PROVE  Rests(r) \/ InsertsProject(r)
<1>1. Writing(r, {"createProject"}) /\ Doing(r, "write")
      /\ setup' = setup /\ UNCHANGED <<members, apis, rules, cases>>
  BY DEF InsertProject, Writing
<1>2. CASE Fail(r, "error") /\ UNCHANGED projects
  BY <1>1, <1>2, FailedQuery DEF tables
<1>3. CASE /\ ~\E p \in projects : p.slug = Ask(r).arg
           /\ projects' = projects \union
                {[id |-> r, owner |-> Ask(r).by, slug |-> Ask(r).arg, name |-> "first"]}
           /\ Becomes(r, Passed(Wrote(req[r])))
  <2>1. Marks(r, {"createProject"})  BY <1>1, <1>3, Marked
  <2> QED  BY <1>1, <1>3, <2>1 DEF InsertsProject
<1> QED  BY Zenon, <1>2, <1>3 DEF InsertProject

LEMMA StepInsertOwner ==
  ASSUME Shaped, NEW r \in Requests, InsertOwner(r)
  PROVE  Rests(r) \/ InsertsOwner(r)
<1>1. Doing(r, "join") /\ setup' = setup /\ UNCHANGED <<projects, apis, rules, cases>>
  BY DEF InsertOwner
<1>2. CASE Fail(r, "error") /\ UNCHANGED members
  BY <1>1, <1>2, FailedQuery DEF tables
<1>3. CASE /\ CanJoin(Ask(r).by, r) /\ Pass(r)
           /\ members' = members \union {Member(r, Ask(r).by, "admin")}
  <2>1. /\ Others(r) /\ Kept(r) /\ Onward(r) /\ req'[r].seen = req[r].seen /\ Step(r).do = "join"
    BY <1>1, <1>3, PassedQuery
  <2> QED  BY <1>1, <1>3, <2>1 DEF InsertsOwner
<1> QED  BY Zenon, <1>2, <1>3 DEF InsertOwner, JoinFailure

LEMMA StepAddMember ==
  ASSUME Shaped, NEW r \in Requests, AddMember(r)
  PROVE  Rests(r) \/ AddsMember(r)
<1>1. Writing(r, {"addMember"}) /\ Doing(r, "write")
      /\ setup' = setup /\ UNCHANGED <<projects, apis, rules, cases>>
  BY DEF AddMember, Writing
<1>2. CASE Fail(r, "error") /\ UNCHANGED members
  BY <1>1, <1>2, FailedQuery DEF tables
<1>3. CASE /\ CanJoin(Ask(r).id, Ask(r).pid)
           /\ members' = members \union {Member(Ask(r).pid, Ask(r).id, Ask(r).arg)}
           /\ Becomes(r, Passed(Wrote(req[r])))
  <2>1. Marks(r, {"addMember"})  BY <1>1, <1>3, Marked
  <2> QED  BY <1>1, <1>3, <2>1 DEF AddsMember
<1> QED  BY Zenon, <1>2, <1>3 DEF AddMember

LEMMA StepSaveProject ==
  ASSUME Shaped, NEW r \in Requests, SaveProject(r),
         req[r].seen # NoRow /\ Kind(r) = "updateProject" =>
           DOMAIN req[r].seen = {"id", "owner", "slug", "name"},
         \A q \in Requests : Planned(q)
  PROVE  Rests(r) \/ SavesProject(r)
<1> DEFINE overtakes(p, q) == /\ Doing(q, "write")
                              /\ \E x \in Saved(p) :
                                   /\ x.id = TargetProject(q)
                                   /\ ~\E y \in projects : y.id = x.id /\ y.owner = x.owner
           after(p, q) == IF overtakes(p, q)
                          THEN [req[q] EXCEPT !.overtaken = @ \union {Step(q).op}] ELSE req[q]
           others(p) == [q \in Requests |->
                           IF q = r THEN Passed([Wrote(req[r]) EXCEPT !.revived = ~IsLive(p.id)])
                           ELSE after(p, q)]
<1>1. Writing(r, {"updateProject"}) /\ Doing(r, "write")
      /\ setup' = setup /\ UNCHANGED <<members, apis, rules, cases>>
  BY DEF SaveProject, Writing
<1>2. CASE Fail(r, "error") /\ UNCHANGED projects
  BY <1>1, <1>2, FailedQuery DEF tables
<1>3. PICK p : p = [req[r].seen EXCEPT !.name = Ask(r).arg]  OBVIOUS
<1>4. Plan(r) # <<>> /\ Step(r).do = "write" /\ Kind(r) = "updateProject"
  BY <1>1 DEF Writing, Doing, Plan, Kind
<1>5. req[r].seen # NoRow
  <2> SUFFICES ASSUME req[r].seen = NoRow PROVE FALSE  OBVIOUS
  <2>1. FindFirst(Plan(r), {"write"})  BY <1>4 DEF Planned, Uses, ReadsApi
  <2>2. Plan(r) \in Seq(StepsOf(r))  BY DEF Shaped
  <2>3. Head(Plan(r)).do \notin {"write"}  BY <1>4, <2>1, <2>2, PlanTails
  <2> QED  BY <1>4, <2>3 DEF Step, Plan
<1>6. p.id = req[r].seen.id  BY <1>3, <1>4, <1>5
<1>7. ASSUME projects' = Saved(p), req' = others(p) PROVE SavesProject(r)
  <2>1. PICK v \in BOOLEAN : v = ~IsLive(p.id)  OBVIOUS
  <2>2. PICK w : w = [req[r] EXCEPT !.wrote = TRUE]  OBVIOUS
  <2>3. PICK m : m = [w EXCEPT !.revived = v]  OBVIOUS
  <2>4. /\ DOMAIN w = RequestFields /\ w.wrote
        /\ w.todo = req[r].todo /\ w.seen = req[r].seen
        /\ w.created = req[r].created /\ w.failed = req[r].failed
        /\ w.missed = req[r].missed /\ w.overtaken = req[r].overtaken /\ w.answer = req[r].answer
    BY <2>2 DEF Shaped, RequestFields
  <2>5. /\ DOMAIN m = RequestFields /\ m.wrote /\ m.revived = v
        /\ m.todo = req[r].todo /\ m.seen = req[r].seen
        /\ m.created = req[r].created /\ m.failed = req[r].failed
        /\ m.missed = req[r].missed /\ m.overtaken = req[r].overtaken /\ m.answer = req[r].answer
    BY Zenon, <2>3, <2>4 DEF RequestFields
  <2>6. PICK n : n = Passed(m)  OBVIOUS
  <2>7. DOMAIN m = RequestFields  BY <2>5
  <2>8. /\ DOMAIN n = RequestFields
        /\ n.todo = Tail(m.todo) /\ ~n.found
        /\ n.seen = m.seen /\ n.wrote = m.wrote /\ n.revived = m.revived
        /\ n.created = m.created /\ n.failed = m.failed
        /\ n.missed = m.missed /\ n.overtaken = m.overtaken
        /\ m.answer = "none" /\ Tail(m.todo) = <<>> => n.answer = "ok"
        /\ ~(m.answer = "none" /\ Tail(m.todo) = <<>>) => n.answer = m.answer
    BY <2>6, <2>7, PassedFields
  <2>9. req'[r] = n  BY Zenon, <1>7, <2>1, <2>2, <2>3, <2>6 DEF Wrote
  <2> HIDE DEF overtakes
  <2>10. \A q \in Requests : q # r => req'[q] = after(p, q)  BY Zenon, <1>7
  <2>11. \A q \in Requests : q # r =>
           /\ DOMAIN req'[q] = RequestFields /\ Unmoved(q)
           /\ req[q].missed \subseteq req'[q].missed /\ req[q].overtaken \subseteq req'[q].overtaken
           /\ overtakes(p, q) => Step(q).op \in req'[q].overtaken
    <3> SUFFICES ASSUME NEW q \in Requests, q # r
                 PROVE  /\ DOMAIN req'[q] = RequestFields /\ Unmoved(q)
                        /\ req[q].missed \subseteq req'[q].missed
                        /\ req[q].overtaken \subseteq req'[q].overtaken
                        /\ overtakes(p, q) => Step(q).op \in req'[q].overtaken
      OBVIOUS
    <3>1. DOMAIN req[q] = RequestFields  BY DEF Shaped
    <3>2. CASE overtakes(p, q)
      <4>1. PICK op : op = Step(q).op  OBVIOUS
      <4>2. req'[q] = [req[q] EXCEPT !.overtaken = @ \union {op}]  BY Zenon, <2>10, <3>2, <4>1
      <4> QED  BY <3>1, <4>1, <4>2 DEF Unmoved, RequestFields
    <3>3. CASE ~overtakes(p, q)
      <4>1. req'[q] = req[q]  BY Zenon, <2>10, <3>3
      <4> QED  BY <3>1, <3>3, <4>1 DEF Unmoved
    <3> QED  BY <3>2, <3>3
  <2>12. req' = [q \in Requests |-> req'[q]]
    <3>1. DOMAIN req' = Requests  BY Zenon, <1>7
    <3> QED  BY Zenon, <1>7
  <2>13. Others(r)  BY <1>1, <2>5, <2>8, <2>9, <2>11, <2>12 DEF Others
  <2>14. Replies(r)  BY <1>4, <2>5, <2>8, <2>9 DEF Replies, Answers, Plan
  <2>15. Onward(r)  BY <1>4, <2>5, <2>8, <2>9, <2>14 DEF Onward, Plan
  <2>16. Writes(r, {"updateProject"}) /\ req'[r].created = req[r].created
    BY <1>4, <2>5, <2>8, <2>9, <2>13, <2>15 DEF Writes
  <2>17. req'[r].revived <=> ~IsLive(req[r].seen.id)
    <3>1. req'[r].revived = v  BY <2>5, <2>8, <2>9
    <3>2. IsLive(p.id) <=> IsLive(req[r].seen.id)  BY <1>6 DEF IsLive, Has
    <3> QED  BY Zenon, <2>1, <3>1, <3>2
  <2>18. req'[r].wrote  BY Zenon, <2>5, <2>8, <2>9
  <2>19. projects' = Saved([req[r].seen EXCEPT !.name = Ask(r).arg])
    BY Zenon, <1>3, <1>7 DEF Saved, IsLive
  <2>20. ASSUME NEW q \in Requests, q # r, Plan(q) # <<>>, Step(q).do = "write",
                ~SameOwner(TargetProject(q))
         PROVE  Step(q).op \in req'[q].overtaken
    <3>1. ~req[q].found
      <4>1. Planned(q)  OBVIOUS
      <4>2. Plan(q) \in Seq(StepsOf(q))  BY DEF Shaped
      <4>3. Step(q) = Plan(q)[1]  BY <2>20, <4>2 DEF Step, Plan
      <4> QED  BY <2>20, <4>1, <4>3 DEF Planned
    <3>2. Doing(q, "write")  BY <2>20, <3>1 DEF Doing, Plan
    <3>3. overtakes(p, q)  BY Zenon, <1>7, <2>20, <3>2 DEF overtakes, SameOwner
    <3> QED  BY <2>11, <2>20, <3>3
  <2> QED  BY <1>1, <2>16, <2>17, <2>18, <2>19, <2>20 DEF SavesProject
<1>8. (projects' = Saved(p) /\ req' = others(p)) \/ (Fail(r, "error") /\ UNCHANGED projects)
  BY Zenon, <1>3 DEF SaveProject
<1> QED  BY <1>2, <1>7, <1>8

LEMMA StepDeleteProject ==
  ASSUME Shaped, NEW r \in Requests, DeleteProject(r)
  PROVE  Rests(r) \/ DeletesProject(r)
<1>1. Writing(r, {"deleteProject"}) /\ Doing(r, "write") /\ setup' = setup
  BY DEF DeleteProject, Writing
<1>2. CASE Fail(r, "error") /\ UNCHANGED tables
  BY <1>1, <1>2, FailedQuery
<1>3. CASE Becomes(r, Passed(Wrote(req[r]))) /\ ~(Fail(r, "error") /\ UNCHANGED tables)
  <2>1. Marks(r, {"deleteProject"})  BY <1>1, <1>3, Marked
  <2> QED  BY Zenon, <1>3, <2>1 DEF DeletesProject, DeleteProject
<1> QED  BY Zenon, <1>2, <1>3 DEF DeleteProject

LEMMA StepDeleteApi ==
  ASSUME Shaped, NEW r \in Requests, DeleteApi(r)
  PROVE  Rests(r) \/ DeletesApi(r)
<1>1. Writing(r, {"deleteApi"}) /\ Doing(r, "write") /\ setup' = setup
  BY DEF DeleteApi, Writing
<1>2. CASE Fail(r, "error") /\ UNCHANGED tables
  BY <1>1, <1>2, FailedQuery
<1>3. CASE Becomes(r, Passed(Wrote(req[r]))) /\ ~(Fail(r, "error") /\ UNCHANGED tables)
  <2>1. Marks(r, {"deleteApi"})  BY <1>1, <1>3, Marked
  <2> QED  BY Zenon, <1>3, <2>1 DEF DeletesApi, DeleteApi
<1> QED  BY Zenon, <1>2, <1>3 DEF DeleteApi

LEMMA StepInsertApi ==
  ASSUME Shaped, NEW r \in Requests, InsertApi(r)
  PROVE  Rests(r) \/ InsertsApi(r)
<1> DEFINE op == Step(r).op
<1>1. Writing(r, {"createApi", "import"}) /\ Doing(r, "write")
      /\ setup' = setup /\ UNCHANGED <<projects, members, rules, cases>>
  BY DEF InsertApi, Writing
<1>2. CASE Fail(r, "error") /\ UNCHANGED apis
  BY <1>1, <1>2, FailedQuery DEF tables
<1>3. CASE /\ IsLive(Ask(r).pid) /\ ~Taken(apis, Ask(r).pid, op)
           /\ apis' = apis \union {[id |-> <<r, op>>, project |-> Ask(r).pid, path |-> op.path,
                                    method |-> op.method, tags |-> {}]}
           /\ Becomes(r, Passed([Wrote(req[r]) EXCEPT !.created = @ \union {op}]))
  <2>1. PICK w : w = [req[r] EXCEPT !.wrote = TRUE]  OBVIOUS
  <2>2. PICK m : m = [w EXCEPT !.created = @ \union {op}]  OBVIOUS
  <2>3. /\ DOMAIN w = RequestFields /\ w.wrote
        /\ w.todo = req[r].todo /\ w.seen = req[r].seen
        /\ w.revived = req[r].revived /\ w.created = req[r].created
        /\ w.failed = req[r].failed /\ w.missed = req[r].missed
        /\ w.overtaken = req[r].overtaken /\ w.answer = req[r].answer
    BY <2>1 DEF Shaped, RequestFields
  <2>4. /\ DOMAIN m = RequestFields /\ m.wrote
        /\ m.todo = req[r].todo /\ m.seen = req[r].seen
        /\ m.revived = req[r].revived /\ m.created = req[r].created \union {op}
        /\ m.failed = req[r].failed /\ m.missed = req[r].missed
        /\ m.overtaken = req[r].overtaken /\ m.answer = req[r].answer
    BY <2>2, <2>3 DEF RequestFields
  <2>5. Becomes(r, Passed(m))  BY Zenon, <1>3, <2>1, <2>2 DEF Becomes, Wrote
  <2>6. m.answer \in Answers \union {req[r].answer} /\ (m.answer = "ok" => req[r].answer = "ok")
    BY <2>4
  <2>7. Plan(r) # <<>> /\ Step(r).do = "write" /\ Kind(r) \in {"createApi", "import"}
    BY <1>1 DEF Writing, Doing, Plan, Kind
  <2>8. /\ Others(r) /\ Onward(r)
        /\ req'[r].seen = m.seen /\ req'[r].wrote = m.wrote /\ req'[r].revived = m.revived
        /\ req'[r].created = m.created
    BY <1>1, <2>4, <2>5, <2>6, <2>7, Passes
  <2>9. Writes(r, {"createApi", "import"})  BY <2>4, <2>7, <2>8 DEF Writes
  <2> QED  BY <1>1, <1>3, <2>4, <2>8, <2>9 DEF InsertsApi
<1> QED  BY Zenon, <1>2, <1>3 DEF InsertApi

LEMMA StepUpdateApi ==
  ASSUME Shaped, TypeOK, NEW r \in Requests, UpdateApi(r)
  PROVE  Rests(r) \/ UpdatesApi(r)
<1> DEFINE new(row) == Overwritten(row, Ask(r).fields)
           free(row) == ~Taken(apis \ {row}, row.project, new(row))
<1>1. Writing(r, {"updateApi"}) /\ Doing(r, "write")
      /\ setup' = setup /\ UNCHANGED <<projects, members, rules, cases>>
  BY DEF UpdateApi, Writing
<1>2. PICK row : row = Row(apis, Ask(r).id)  OBVIOUS
<1>3. row # NoRow => row \in apis /\ row.id = Ask(r).id  BY <1>2, Rows, Tables
<1>4. PICK ok \in BOOLEAN :
        IF ok /\ row # NoRow /\ free(row)
        THEN /\ apis' = (apis \ {row}) \union {new(row)}
             /\ Becomes(r, Passed(Wrote(req[r])))
        ELSE Fail(r, IF ok /\ row = NoRow THEN "missing" ELSE "error") /\ UNCHANGED apis
  BY Zenon, <1>2 DEF UpdateApi
<1> HIDE DEF new, free
<1>5. CASE ok /\ row # NoRow /\ free(row)
  <2>1. /\ apis' = (apis \ {row}) \union {new(row)}
        /\ Becomes(r, Passed(Wrote(req[r])))
    BY Zenon, <1>4, <1>5
  <2>2. Marks(r, {"updateApi"})  BY <1>1, <2>1, Marked
  <2> QED  BY Zenon, <1>1, <1>3, <1>5, <2>1, <2>2 DEF UpdatesApi, new, free
<1>6. CASE ~(ok /\ row # NoRow /\ free(row))
  <2>1. PICK why \in {"missing", "error"} : why = IF ok /\ row = NoRow THEN "missing" ELSE "error"
    OBVIOUS
  <2>2. Fail(r, why) /\ UNCHANGED apis  BY Zenon, <1>4, <1>6, <2>1 DEF Fail, Becomes
  <2> QED  BY <1>1, <2>2, FailedQuery DEF tables
<1> QED  BY <1>5, <1>6

LEMMA StepUpdateTags ==
  ASSUME Shaped, TypeOK, NEW r \in Requests, UpdateTags(r)
  PROVE  Rests(r) \/ UpdatesTags(r)
<1> DEFINE newer(row) == (apis \ {row}) \union
                           {[row EXCEPT !.tags = Changed(Ask(r), req[r].seen.tags)]}
           misses(q) == IsTagging(q) /\ req[q].seen # NoRow /\ ~req[q].wrote
           others == [q \in Requests |->
                        IF q = r THEN Passed(Wrote(req[r]))
                        ELSE IF misses(q) THEN [req[q] EXCEPT !.missed = @ \union {r}] ELSE req[q]]
<1>1. Writing(r, {"addTag", "removeTag"}) /\ Doing(r, "write")
      /\ setup' = setup /\ UNCHANGED <<projects, members, rules, cases>>
  BY DEF UpdateTags, Writing
<1>2. PICK row : row = Row(apis, Ask(r).id)  OBVIOUS
<1>3. row # NoRow => row \in apis /\ row.id = Ask(r).id  BY <1>2, Rows, Tables
<1>4. PICK ok \in BOOLEAN :
        IF ok /\ row # NoRow THEN apis' = newer(row) /\ req' = others
        ELSE Fail(r, IF ok THEN "missing" ELSE "error") /\ UNCHANGED apis
  BY Zenon, <1>2 DEF UpdateTags
<1> HIDE DEF newer, misses, others
<1>5. CASE ok /\ row # NoRow
  <2>1. apis' = newer(row) /\ req' = others  BY Zenon, <1>4, <1>5
  <2>2. PICK m : m = [req[r] EXCEPT !.wrote = TRUE]  OBVIOUS
  <2>3. /\ DOMAIN m = RequestFields /\ m.wrote
        /\ m.todo = req[r].todo /\ m.seen = req[r].seen
        /\ m.revived = req[r].revived /\ m.created = req[r].created
        /\ m.failed = req[r].failed /\ m.missed = req[r].missed
        /\ m.overtaken = req[r].overtaken /\ m.answer = req[r].answer
    BY <2>2 DEF Shaped, RequestFields
  <2>3a. DOMAIN m = RequestFields  BY <2>3
  <2>4. PICK p : p = Passed(m)  OBVIOUS
  <2>5. /\ DOMAIN p = RequestFields
        /\ p.todo = Tail(m.todo) /\ ~p.found
        /\ p.seen = m.seen /\ p.wrote = m.wrote /\ p.revived = m.revived
        /\ p.created = m.created /\ p.failed = m.failed /\ p.missed = m.missed
        /\ p.overtaken = m.overtaken
        /\ m.answer = "none" /\ Tail(m.todo) = <<>> => p.answer = "ok"
        /\ ~(m.answer = "none" /\ Tail(m.todo) = <<>>) => p.answer = m.answer
    BY <2>4, <2>3a, PassedFields
  <2>6. req'[r] = p  BY Zenon, <2>1, <2>2, <2>4 DEF Wrote, others
  <2>7. \A q \in Requests : q # r =>
          req'[q] = IF misses(q) THEN [req[q] EXCEPT !.missed = @ \union {r}] ELSE req[q]
    BY Zenon, <2>1 DEF others
  <2>8. \A q \in Requests : q # r =>
          /\ DOMAIN req'[q] = RequestFields /\ Unmoved(q) /\ req[q].missed \subseteq req'[q].missed
          /\ req[q].overtaken \subseteq req'[q].overtaken
          /\ misses(q) => r \in req'[q].missed
    <3> SUFFICES ASSUME NEW q \in Requests, q # r
                 PROVE  /\ DOMAIN req'[q] = RequestFields /\ Unmoved(q)
                        /\ req[q].missed \subseteq req'[q].missed
                        /\ req[q].overtaken \subseteq req'[q].overtaken
                        /\ misses(q) => r \in req'[q].missed
      OBVIOUS
    <3>1. DOMAIN req[q] = RequestFields  BY DEF Shaped
    <3>2. CASE misses(q)
      <4>1. req'[q] = [req[q] EXCEPT !.missed = @ \union {r}]  BY Zenon, <2>7, <3>2
      <4> QED  BY <3>1, <4>1 DEF Unmoved, RequestFields
    <3>3. CASE ~misses(q)
      <4>1. req'[q] = req[q]  BY Zenon, <2>7, <3>3
      <4> QED  BY <3>1, <3>3, <4>1 DEF Unmoved
    <3> QED  BY <3>2, <3>3
  <2>9. req' = [q \in Requests |-> req'[q]]
    <3>1. DOMAIN req' = Requests  BY Zenon, <2>1 DEF others
    <3> QED  BY Zenon, <2>1 DEF others
  <2>10. Others(r)  BY <1>1, <2>3, <2>5, <2>6, <2>8, <2>9 DEF Others
  <2>11. Plan(r) # <<>> /\ Step(r).do = "write" /\ Kind(r) \in {"addTag", "removeTag"}
    BY <1>1 DEF Writing, Doing, Plan, Kind
  <2>12. Replies(r)  BY <2>3, <2>5, <2>6, <2>11 DEF Replies, Answers, Plan
  <2>13. Onward(r)  BY <2>3, <2>5, <2>6, <2>11, <2>12 DEF Onward, Plan
  <2>14. Marks(r, {"addTag", "removeTag"})
    BY <2>3, <2>5, <2>6, <2>10, <2>11, <2>13 DEF Marks, Writes
  <2>15. row \in apis /\ row.id = Ask(r).id  BY <1>3, <1>5
  <2> QED  BY Zenon, <1>1, <2>1, <2>8, <2>14, <2>15 DEF UpdatesTags, newer, misses
<1>6. CASE ~(ok /\ row # NoRow)
  <2>1. PICK why \in {"missing", "error"} : why = IF ok THEN "missing" ELSE "error"
    OBVIOUS
  <2>2. Fail(r, why) /\ UNCHANGED apis  BY Zenon, <1>4, <1>6, <2>1 DEF Fail, Becomes
  <2> QED  BY <1>1, <2>2, FailedQuery DEF tables
<1> QED  BY <1>5, <1>6

\* The requests on rules name no project, so no role is found for them.
LEMMA StepRule ==
  ASSUME Shaped, ~IsLive(None), NEW r \in Requests, CreateRule(r) \/ UpdateRule(r) \/ DeleteRule(r)
  PROVE  Rests(r)
<1>1. Doing(r, "rule") /\ UNCHANGED <<setup, projects, members, apis, cases>>
  BY DEF CreateRule, UpdateRule, DeleteRule, OnRule
<1>2. ~IsLive(ProjectGiven(r))  BY DEF ProjectGiven
<1>3. \E why \in {"error", "missing", "forbidden"} : Fail(r, why) /\ UNCHANGED rules
  BY Zenon, <1>2 DEF CreateRule, UpdateRule, DeleteRule, OnRule, Fail, Becomes
<1> QED  BY <1>1, <1>3, FailedQuery DEF tables

LEMMA StepRecordHit ==
  ASSUME Shaped, TypeOK, NEW r \in Requests, RecordHit(r)
  PROVE  Rests(r) \/ RecordsHit(r)
<1>1. Writing(r, {"recordHit"}) /\ Doing(r, "write") /\ Kind(r) = "recordHit"
      /\ setup' = setup /\ UNCHANGED <<projects, members, apis, cases>>
  BY DEF RecordHit, Writing, Kind
<1>2. PICK row : row = Row(rules, Ask(r).id)  OBVIOUS
<1>3. row # NoRow => row \in rules /\ row.id = Ask(r).id  BY <1>2, Rows, Tables
<1>4. PICK ok \in BOOLEAN :
        IF ok /\ row # NoRow
        THEN Pass(r) /\ rules' = (rules \ {row}) \union {[row EXCEPT !.hits = @ + 1]}
        ELSE Fail(r, IF ok THEN "missing" ELSE "error") /\ UNCHANGED rules
  BY Zenon, <1>2 DEF RecordHit
<1>5. CASE ok /\ row # NoRow
  <2>1. Pass(r) /\ rules' = (rules \ {row}) \union {[row EXCEPT !.hits = @ + 1]}
    BY Zenon, <1>4, <1>5
  <2>2. /\ Others(r) /\ Kept(r) /\ Onward(r) /\ req'[r].seen = req[r].seen /\ Step(r).do = "write"
    BY <1>1, <2>1, PassedQuery
  <2>3. Writes(r, {"recordHit"})  BY <1>1, <2>2 DEF Writes
  <2> QED  BY Zenon, <1>1, <1>3, <1>5, <2>1, <2>2, <2>3 DEF RecordsHit
<1>6. CASE ~(ok /\ row # NoRow)
  <2>1. PICK why \in {"missing", "error"} : why = IF ok THEN "missing" ELSE "error"
    OBVIOUS
  <2>2. Fail(r, why) /\ UNCHANGED rules  BY Zenon, <1>4, <1>6, <2>1 DEF Fail, Becomes
  <2> QED  BY <1>1, <2>2, FailedQuery DEF tables
<1> QED  BY <1>5, <1>6

LEMMA StepCase ==
  ASSUME Shaped, NEW r \in Requests, NEW kind, NEW allowed \in BOOLEAN, NEW after,
         OnCase(r, kind, allowed, after)
  PROVE  \/ Rests(r)
         \/ /\ Marks(r, {kind}) /\ allowed /\ cases' = after
            /\ UNCHANGED <<projects, members, apis, rules>>
<1>1. Writing(r, {kind}) /\ Doing(r, "write")
      /\ setup' = setup /\ UNCHANGED <<projects, members, apis, rules>>
  BY DEF OnCase, Writing
<1>2. CASE Fail(r, "error") /\ UNCHANGED cases
  BY <1>1, <1>2, FailedQuery DEF tables
<1>3. CASE allowed /\ Becomes(r, Passed(Wrote(req[r]))) /\ cases' = after
  <2>1. Marks(r, {kind})  BY <1>1, <1>3, Marked
  <2> QED  BY <1>1, <1>3, <2>1
<1> QED  BY Zenon, <1>2, <1>3 DEF OnCase

LEMMA StepCases ==
  ASSUME Shaped, NEW r \in Requests, CreateCase(r) \/ UpdateCase(r) \/ DeleteCase(r)
  PROVE  Rests(r) \/ ChangesCases(r)
<1>1. CASE CreateCase(r)
  <2>1. PICK allowed \in BOOLEAN : allowed <=> (IsLive(Ask(r).pid) /\ HasApi(Ask(r).arg))  OBVIOUS
  <2>2. PICK after : after = cases \union {[id |-> r, project |-> Ask(r).pid, api |-> Ask(r).arg]}
    OBVIOUS
  <2>3. OnCase(r, "createCase", allowed, after)
    BY Zenon, <1>1, <2>1, <2>2 DEF CreateCase, OnCase
  <2> QED  BY <2>1, <2>2, <2>3, StepCase DEF ChangesCases
<1>2. CASE UpdateCase(r)
  <2>1. PICK allowed \in BOOLEAN :
          allowed <=> (\A c \in cases : c.id = Ask(r).id => CaseFits(r, c))
    OBVIOUS
  <2>2. PICK after : after = {UpdatedCase(r, c) : c \in cases}  OBVIOUS
  <2>3. OnCase(r, "updateCase", allowed, after)
    BY Zenon, <1>2, <2>1, <2>2 DEF UpdateCase, OnCase, CaseFits, UpdatedCase
  <2> QED  BY Zenon, <2>1, <2>2, <2>3, StepCase DEF ChangesCases
<1>3. CASE DeleteCase(r)
  <2>1. PICK after : after = {c \in cases : c.id # Ask(r).id}  OBVIOUS
  <2>2. OnCase(r, "deleteCase", TRUE, after)  BY Zenon, <1>3, <2>1 DEF DeleteCase
  <2> QED  BY <2>1, <2>2, StepCase DEF ChangesCases
<1> QED  BY <1>1, <1>2, <1>3

LEMMA StepEffect ==
  ASSUME IInv, NEW r \in Requests, RequestStep(r)
  PROVE  Effect(r)
<1>1. Shaped /\ TypeOK /\ Planned(r)  BY DEF IInv
<1>2. ~IsLive(None)
  <2> SUFFICES ASSUME NEW p \in projects, p.id = None PROVE FALSE  BY DEF IsLive, Has
  <2>1. KnownProject(None)  BY DEF IInv, AllKnown
  <2>2. setup \in Setups /\ None \notin Requests  BY <1>1, CatalogueAssumption DEF Shaped
  <2>3. PICK o \in setup.projects : o.id = None  BY <2>1, <2>2 DEF KnownProject, Has
  <2> QED  BY <2>2, <2>3, CatalogueAssumption
<1>3. req[r].seen # NoRow /\ Kind(r) = "updateProject" =>
        DOMAIN req[r].seen = {"id", "owner", "slug", "name"}
  BY DEF IInv, SeenProjects, SawProject
<1>4. CASE FindOwner(r)  BY <1>1, <1>4, FindsOwner DEF Effect
<1>5. CASE FindMember(r)  BY <1>1, <1>5, FindsMember DEF Effect
<1>6. CASE Find(r)  BY <1>1, <1>6, FindsRow DEF Effect
<1>7. CASE FindAgain(r)  BY <1>1, <1>7, FindsAgain DEF Effect
<1>8. CASE InsertProject(r)  BY <1>1, <1>8, StepInsertProject DEF Effect
<1>9. CASE InsertOwner(r)  BY <1>1, <1>9, StepInsertOwner DEF Effect
<1>10. CASE AddMember(r)  BY <1>1, <1>10, StepAddMember DEF Effect
<1>11. CASE SaveProject(r)
  <2>1. \A q \in Requests : Planned(q)  BY DEF IInv
  <2> QED  BY <1>1, <1>3, <1>11, <2>1, StepSaveProject DEF Effect
<1>12. CASE DeleteProject(r)  BY <1>1, <1>12, StepDeleteProject DEF Effect
<1>13. CASE InsertApi(r)  BY <1>1, <1>13, StepInsertApi DEF Effect
<1>14. CASE UpdateApi(r)  BY <1>1, <1>14, StepUpdateApi DEF Effect
<1>15. CASE UpdateTags(r)  BY <1>1, <1>15, StepUpdateTags DEF Effect
<1>16. CASE DeleteApi(r)  BY <1>1, <1>16, StepDeleteApi DEF Effect
<1>17. CASE CreateRule(r) \/ UpdateRule(r) \/ DeleteRule(r)
  BY <1>1, <1>2, <1>17, StepRule DEF Effect
<1>18. CASE RecordHit(r)  BY <1>1, <1>18, StepRecordHit DEF Effect
<1>19. CASE CreateCase(r) \/ UpdateCase(r) \/ DeleteCase(r)  BY <1>1, <1>19, StepCases DEF Effect
<1> QED
  BY <1>4, <1>5, <1>6, <1>7, <1>8, <1>9, <1>10, <1>11, <1>12, <1>13, <1>14, <1>15, <1>16, <1>17,
     <1>18, <1>19
  DEF RequestStep

(***************************************************************************)
(* The request that takes a step, whatever the tables become.              *)
(***************************************************************************)
Waits(r) ==
  /\ Plan(r) # <<>> /\ Step(r).do \in {"guard", "role"}
  /\ req'[r].todo = Plan(r) /\ req'[r].answer = req[r].answer
  /\ req'[r].failed = req[r].failed /\ req'[r].created = req[r].created
  /\ req'[r].seen = req[r].seen
  /\ (req'[r].wrote <=> req[r].wrote) /\ (req'[r].revived <=> req[r].revived)
Advances(r) ==
  /\ Onward(r)
  /\ Kind(r) \notin {"createApi", "import"} => req'[r].created = req[r].created
  /\ Step(r).do # "write" =>
       /\ req'[r].created = req[r].created
       /\ (req'[r].wrote <=> req[r].wrote) /\ (req'[r].revived <=> req[r].revived)
  /\ Step(r).do = "write" =>
       /\ Kind(r) # "recordHit" => req'[r].wrote
       /\ Kind(r) = "recordHit" => (req'[r].wrote <=> req[r].wrote)
       /\ Kind(r) \in {"createApi", "import"} =>
            req'[r].created = req[r].created \union {Step(r).op}
       /\ Kind(r) # "updateProject" => (req'[r].revived <=> req[r].revived)
  /\ Step(r).do = "find" => req'[r].seen # NoRow
  /\ Step(r).do # "find" => req'[r].seen = req[r].seen
Ceases(r) ==
  /\ Skips(r) \/ Stops(r)
  /\ req'[r].seen = req[r].seen /\ req'[r].created = req[r].created
  /\ (req'[r].wrote <=> req[r].wrote) /\ (req'[r].revived <=> req[r].revived)

LEMMA Frame ==
  ASSUME TypeOK, NEW r \in Requests, Effect(r)
  PROVE  Others(r) /\ (Waits(r) \/ Advances(r) \/ Ceases(r))
<1>1. CASE Asks(r)  BY <1>1 DEF Asks, Waits, Kept
<1>2. CASE Moves(r)  BY <1>2 DEF Moves, Advances, Kept
<1>3. CASE Reads(r)
  <2>1. DOMAIN req'[r].seen \in
          {{"id", "owner", "slug", "name"}, {"id", "project", "path", "method", "tags"}}
    BY <1>3, Tables DEF Reads, Columns
  <2>2. DOMAIN NoRow = {"id"}  BY DEF NoRow
  <2>3. req'[r].seen # NoRow  BY <2>1, <2>2
  <2> QED  BY <1>3, <2>3 DEF Reads, Advances, Kept
<1>4. CASE Fails(r)  BY <1>4 DEF Fails, Ceases, Kept
<1>5. ASSUME NEW kinds, Marks(r, kinds), kinds \cap {"createApi", "import", "recordHit"} = {}
      PROVE  Others(r) /\ Advances(r)
  BY <1>5 DEF Marks, Writes, Advances
<1>6. CASE InsertsProject(r) \/ AddsMember(r) \/ DeletesProject(r) \/ UpdatesApi(r) \/ UpdatesTags(r)
           \/ DeletesApi(r) \/ ChangesCases(r)
  <2>1. \/ Marks(r, {"createProject"}) \/ Marks(r, {"addMember"}) \/ Marks(r, {"deleteProject"})
        \/ Marks(r, {"updateApi"}) \/ Marks(r, {"addTag", "removeTag"}) \/ Marks(r, {"deleteApi"})
        \/ Marks(r, {"createCase"}) \/ Marks(r, {"updateCase"}) \/ Marks(r, {"deleteCase"})
    BY Zenon, <1>6
    DEF InsertsProject, AddsMember, DeletesProject, UpdatesApi, UpdatesTags, DeletesApi, ChangesCases
  <2> QED  BY <1>5, <2>1
<1>7. CASE InsertsOwner(r)  BY <1>7 DEF InsertsOwner, Advances, Kept
<1>8. CASE SavesProject(r)  BY <1>8 DEF SavesProject, Writes, Advances
<1>9. CASE InsertsApi(r)  BY <1>9 DEF InsertsApi, Writes, Advances
<1>10. CASE RecordsHit(r)  BY <1>10 DEF RecordsHit, Writes, Advances, Kept
<1> QED  BY <1>1, <1>2, <1>3, <1>4, <1>6, <1>7, <1>8, <1>9, <1>10 DEF Effect, Rests

\* What a request is asked makes a plan that fits.
LEMMA Planning ==
  ASSUME setup \in Setups, NEW r \in Requests, NEW s, s = Todo(Ask(r))
  PROVE  /\ s \in Seq(StepsOf(r)) /\ StepsOf(r) = {s[i] : i \in DOMAIN s}
         /\ Kind(r) # "import" => OneWrite(s)
         /\ Kind(r) \in ApiWriters => RoleFirst(s) /\ s[1].do # "write"
         /\ Kind(r) = "createProject" => JoinLast(s)
         /\ Kind(r) # "createProject" => \A i \in 1 .. Len(s) : s[i].do # "join"
         /\ FindFirst(s, Uses(Kind(r)))
         /\ Kind(r) = "import" => ImportPlan(s) /\ Pending(s) = ToSet(ExtractAPIs(Ask(r).doc))
         /\ \A step \in StepsOf(r) : step.do = "write" =>
              step.op \in {Ask(r).ops[1]} \union Ask(r).doc
<1>1. StepsOf(r) = {s[i] : i \in DOMAIN s}  BY DEF StepsOf
<1>2. IsFiniteSet(Ask(r).doc) /\ Ask(r).doc \subseteq [path : Int, method : STRING]
  BY CatalogueAssumption DEF WellAsked, Ask
<1>3. CASE Kind(r) # "import"
  <2>1. PICK kind : kind = Kind(r)  OBVIOUS
  <2>2. PICK ops : ops = Ask(r).ops  OBVIOUS
  <2>3. s = Steps(kind, ops)  BY Zenon, <1>3, <2>1, <2>2 DEF Todo, Kind, Steps
  <2>4. /\ s \in Seq({s[i] : i \in DOMAIN s}) /\ s # <<>>
        /\ \A i \in 1 .. Len(s) : s[i].op = ops[1]
        /\ OneWrite(s)
        /\ kind \in ApiWriters => RoleFirst(s) /\ s[1].do # "write"
        /\ kind = "createProject" => JoinLast(s)
        /\ kind # "createProject" => \A i \in 1 .. Len(s) : s[i].do # "join"
        /\ FindFirst(s, Uses(kind))
    BY <2>3, OtherPlans
  <2>5. FindFirst(s, Uses(Kind(r)))  BY <2>1, <2>4 DEF Uses, FindFirst
  <2>6. DOMAIN s = 1 .. Len(s)  BY <2>4
  <2> QED  BY <1>1, <1>3, <2>1, <2>2, <2>4, <2>5, <2>6
<1>4. CASE Kind(r) = "import"
  <2>1. PICK e : e = ExtractAPIs(Ask(r).doc)  OBVIOUS
  <2>2. PICK doc : doc = Ask(r).doc  OBVIOUS
  <2>3. e = ExtractAPIs(doc)  BY Zenon, <2>1, <2>2 DEF ExtractAPIs, Operations
  <2>4. e \in Seq(doc) /\ \A i, j \in 1 .. Len(e) : e[i] = e[j] => i = j
    BY <1>2, <2>2, <2>3, Extracted
  <2>5. s = ImportSteps(e)  BY Zenon, <1>4, <2>1 DEF Todo, Kind, ImportSteps
  <2>6. /\ s \in Seq({s[i] : i \in DOMAIN s}) /\ s # <<>>
        /\ \A i \in 1 .. Len(s) : s[i].do # "guard" => s[i].op \in doc
        /\ RoleFirst(s) /\ s[1].do # "write"
        /\ ImportPlan(s)
        /\ Pending(s) = ToSet(e)
    BY <2>4, <2>5, ImportPlans
  <2>7. DOMAIN s = 1 .. Len(s)  BY <2>6
  <2>8. \A i \in 1 .. Len(s) : s[i].do # "join"  BY <2>6 DEF ImportPlan
  <2>9. FindFirst(s, Uses(Kind(r)))  BY <1>4 DEF FindFirst, Uses, ReadsApi
  <2>10. ToSet(e) = ToSet(ExtractAPIs(Ask(r).doc))  BY <2>1 DEF ToSet
  <2> QED  BY <1>1, <1>4, <2>2, <2>6, <2>7, <2>8, <2>9, <2>10
<1> QED  BY <1>3, <1>4

LEMMA ShapedStays ==
  ASSUME Shaped, (\A q \in Requests : Planned(q)), Accounted,
         NEW r \in Requests, Others(r), Waits(r) \/ Advances(r) \/ Ceases(r)
  PROVE  Shaped'
<1>1. Plan(r) \in Seq(StepsOf(r))  BY DEF Shaped
<1>2. \A q \in Requests : StepsOf(q)' = StepsOf(q)  BY DEF Others, StepsOf, Ask
<1>3. req'[r].todo \in Seq(StepsOf(r))
  <2>1. CASE Waits(r)  BY <1>1, <2>1 DEF Waits
  <2>2. CASE Advances(r)  BY <1>1, <2>2, Tails DEF Advances, Onward
  <2>3. CASE Ceases(r) /\ Stops(r)  BY <2>3 DEF Stops
  <2>4. CASE Ceases(r) /\ Skips(r)
    <3>1. /\ Kind(r) = "import" /\ Plan(r) # <<>>
          /\ req'[r].todo = IF Step(r).do = "role" THEN Tail(Tail(Plan(r))) ELSE Tail(Plan(r))
      BY <2>4 DEF Skips, RestAfterFailure, Step, Plan
    <3>2. PICK t : t = Tail(Plan(r))  OBVIOUS
    <3>3. t \in Seq(StepsOf(r))  BY <1>1, <3>1, <3>2, Tails
    <3>4. ImportPlan(Plan(r))  BY <3>1 DEF Accounted, Imports
    <3>5. Step(r).do = "role" => t # <<>>  BY <1>1, <3>1, <3>2, <3>4, ImportTails DEF Step, Plan
    <3>6. Step(r).do = "role" => Tail(t) \in Seq(StepsOf(r))  BY <3>3, <3>5, Tails
    <3> QED  BY <3>1, <3>2, <3>3, <3>6
  <2> QED  BY <2>1, <2>2, <2>3, <2>4 DEF Ceases
<1>4. ASSUME NEW q \in Requests PROVE req'[q].todo \in Seq(StepsOf(q)')
  <2>1. CASE q = r  BY <1>2, <1>3, <2>1
  <2>2. CASE q # r  BY <1>2, <2>2 DEF Others, Unmoved, Shaped, Plan
  <2> QED  BY <2>1, <2>2
<1>5. setup' \in Setups /\ req' = [q \in Requests |-> req'[q]]
      /\ \A q \in Requests : DOMAIN req'[q] = RequestFields
  BY DEF Others, Shaped
<1> QED  BY <1>4, <1>5 DEF Shaped, Plan

\* The rest of an import that has met with a failure.
LEMMA Skipped ==
  ASSUME Shaped, NEW r \in Requests, Planned(r), Imports(r), Skips(r),
         NEW s, s = Plan(r), NEW t, t = req'[r].todo
  PROVE  /\ RoleFirst(t) /\ ImportPlan(t) /\ \A i \in 1 .. Len(t) : t[i].do # "join"
         /\ Pending(s) = Pending(t) \union {Step(r).op} /\ Step(r).op \notin Pending(t)
<1>1. /\ s \in Seq(StepsOf(r)) /\ s # <<>> /\ Kind(r) = "import" /\ Step(r) = Head(s)
      /\ t = IF Step(r).do = "role" THEN Tail(Tail(s)) ELSE Tail(s)
      /\ Step(r).do # "guard"
  BY DEF Skips, RestAfterFailure, Step, Plan, Shaped
<1>2. PICK u : u = Tail(s)  OBVIOUS
<1>3. ImportPlan(s)  BY DEF Imports
<1>4. u \in Seq(StepsOf(r))  BY <1>1, <1>2, Tails
<1>5. RoleFirst(u)
  <2>1. RoleFirst(s)  BY <1>1 DEF Planned, ApiWriters
  <2> QED  BY <1>1, <1>2, <2>1, PlanTails
<1>6. /\ Head(s).do \in {"guard", "role", "write"}
      /\ ImportPlan(u)
      /\ Head(s).do = "role" => u # <<>> /\ Head(u).do = "write" /\ Head(u).op = Head(s).op
      /\ Head(s).do # "write" => Pending(u) = Pending(s)
      /\ Head(s).do = "write" =>
           Pending(s) = Pending(u) \union {Head(s).op} /\ Head(s).op \notin Pending(u)
  BY <1>1, <1>2, <1>3, ImportTails
<1>7. CASE Step(r).do = "role"
  <2>1. t = Tail(u) /\ u # <<>> /\ Head(u).do = "write" /\ Head(u).op = Step(r).op
    BY <1>1, <1>2, <1>6, <1>7
  <2>2. RoleFirst(t)  BY <1>4, <1>5, <2>1, PlanTails
  <2>3. /\ ImportPlan(t)
        /\ Pending(u) = Pending(t) \union {Head(u).op} /\ Head(u).op \notin Pending(t)
    BY <1>4, <1>6, <2>1, ImportTails
  <2>4. Pending(u) = Pending(s)  BY <1>1, <1>6, <1>7
  <2> QED  BY <2>1, <2>2, <2>3, <2>4 DEF ImportPlan
<1>8. CASE Step(r).do = "write"
  <2>1. t = u  BY <1>1, <1>2, <1>8
  <2> QED  BY <1>1, <1>5, <1>6, <1>8, <2>1 DEF ImportPlan
<1> QED  BY <1>1, <1>6, <1>7, <1>8

\* What is done with stays so.
Lacks(s, do) == \A i \in 1 .. Len(s) : s[i].do # do

LEMMA LessToDo ==
  ASSUME NEW S, NEW s \in Seq(S), s # <<>>, NEW t, t = Tail(s)
  PROVE  /\ OneWrite(s) => OneWrite(t) /\ (Head(s).do = "write" => Lacks(t, "write"))
         /\ RoleFirst(s) => RoleFirst(t)
         /\ JoinLast(s) => JoinLast(t)
         /\ \A x : Lacks(s, x) => Lacks(t, x)
<1>1. \A x : Lacks(s, x) => Lacks(t, x)  BY Tails DEF Lacks
<1>2. ASSUME OneWrite(s) PROVE OneWrite(t)  BY Zenon, <1>2, PlanTails
<1>3. ASSUME OneWrite(s), Head(s).do = "write" PROVE Lacks(t, "write")
  <2>1. \A i \in 1 .. Len(t) : t[i].do # "write"
    <3>1. /\ \A i, j \in 1 .. Len(s) : s[i].do = "write" /\ s[j].do = "write" => i = j
          /\ 1 \in 1 .. Len(s) /\ s[1].do = "write"
      BY <1>3, Tails DEF OneWrite
    <3> SUFFICES ASSUME NEW i \in 1 .. Len(t), t[i].do = "write" PROVE FALSE  OBVIOUS
    <3>2. s[i + 1].do = "write" /\ i + 1 \in 1 .. Len(s)  BY Tails
    <3>3. i + 1 = 1  BY <3>1, <3>2
    <3> QED  BY <3>3
  <2> QED  BY <2>1 DEF Lacks
<1>4. ASSUME RoleFirst(s) PROVE RoleFirst(t)  BY Zenon, <1>4, PlanTails
<1>5. ASSUME JoinLast(s) PROVE JoinLast(t)  BY Zenon, <1>5, PlanTails
<1> QED  BY <1>1, <1>2, <1>3, <1>4, <1>5

LEMMA PlannedStays ==
  ASSUME Shaped, (\A q \in Requests : Planned(q)), Accounted,
         NEW r \in Requests, Others(r), Waits(r) \/ Advances(r) \/ Ceases(r)
  PROVE  \A q \in Requests : Planned(q)'
<1>1. \A q \in Requests : Kind(q)' = Kind(q)  BY DEF Others, Kind, Ask
<1>2. ASSUME NEW q \in Requests, q # r PROVE Planned(q)'
  <2>1. Planned(q)  OBVIOUS
  <2>2. Unmoved(q)  BY <1>2 DEF Others
  <2> QED  BY <1>1, <2>1, <2>2 DEF Planned, Unmoved, Plan
<1>3. PICK kind : kind = Kind(r) /\ kind = Kind(r)'  BY <1>1
<1>4. PICK s : s = Plan(r)  OBVIOUS
<1>5. PICK t : t = req'[r].todo  OBVIOUS
<1>6. s \in Seq(StepsOf(r)) /\ s # <<>> /\ Step(r) = Head(s)
  BY <1>4 DEF Shaped, Waits, Advances, Onward, Ceases, Skips, Stops, Step, Plan
<1>7. /\ kind # "import" => OneWrite(s) /\ (req[r].wrote => \A i \in 1 .. Len(s) : s[i].do # "write")
      /\ kind \in ApiWriters => RoleFirst(s)
      /\ kind = "createProject" => JoinLast(s)
      /\ kind # "createProject" => \A i \in 1 .. Len(s) : s[i].do # "join"
      /\ req[r].seen = NoRow => FindFirst(s, Uses(kind))
      /\ req[r].revived => req[r].wrote
      /\ ~req[r].wrote => req[r].created = {}
  <2>1. Planned(r)  OBVIOUS
  <2> QED  BY <1>3, <1>4, <2>1 DEF Planned
<1>8. /\ kind # "import" => OneWrite(t) /\ (req'[r].wrote => \A i \in 1 .. Len(t) : t[i].do # "write")
      /\ kind \in ApiWriters => RoleFirst(t)
      /\ kind = "createProject" => JoinLast(t)
      /\ kind # "createProject" => \A i \in 1 .. Len(t) : t[i].do # "join"
      /\ req'[r].seen = NoRow => FindFirst(t, Uses(kind))
      /\ req'[r].revived => req'[r].wrote
      /\ ~req'[r].wrote => req'[r].created = {}
      /\ req'[r].found => t # <<>> /\ t[1].do \in {"guard", "role"}
  <2>1. CASE Waits(r)
    <3>1. t = s /\ s[1].do \in {"guard", "role"}  BY <1>4, <1>5, <1>6, <2>1, Tails DEF Waits
    <3> QED  BY <1>6, <1>7, <2>1, <3>1 DEF Waits
  <2>2. CASE Advances(r)
    <3>0. t = Tail(s)  BY <1>4, <1>5, <2>2 DEF Advances, Onward
    <3>1. ~req'[r].found  BY <2>2 DEF Advances, Onward
    <3>2. /\ OneWrite(s) => OneWrite(t) /\ (Head(s).do = "write" => Lacks(t, "write"))
          /\ RoleFirst(s) => RoleFirst(t)
          /\ JoinLast(s) => JoinLast(t)
          /\ Lacks(s, "join") => Lacks(t, "join")
          /\ Lacks(s, "write") => Lacks(t, "write")
      BY Zenon, <1>6, <3>0, LessToDo
    <3>3. /\ RoleFirst(s) => RoleFirst(t)
          /\ JoinLast(s) => JoinLast(t)
          /\ (\A i \in 1 .. Len(s) : s[i].do # "join") => \A i \in 1 .. Len(t) : t[i].do # "join"
          /\ (\A i \in 1 .. Len(s) : s[i].do # "write") => \A i \in 1 .. Len(t) : t[i].do # "write"
      BY <3>2 DEF Lacks
    <3>4. FindFirst(s, Uses(kind)) /\ Head(s).do # "find" => FindFirst(t, Uses(kind))
      BY <1>6, <3>0, PlanTails
    <3>5. (Step(r).do # "write" => (req'[r].wrote <=> req[r].wrote))
          /\ (Step(r).do = "write" /\ kind # "recordHit" => req'[r].wrote)
          /\ (Step(r).do = "find" => req'[r].seen # NoRow)
          /\ (Step(r).do # "find" => req'[r].seen = req[r].seen)
          /\ (kind # "updateProject" \/ Step(r).do # "write" => (req'[r].revived <=> req[r].revived))
          /\ (Step(r).do = "write" /\ kind = "recordHit" => (req'[r].wrote <=> req[r].wrote))
      BY <1>3, <2>2 DEF Advances
    <3>6. kind # "import" => OneWrite(t) /\ (req'[r].wrote => \A i \in 1 .. Len(t) : t[i].do # "write")
      BY <1>6, <1>7, <3>2, <3>3, <3>5 DEF Lacks
    <3>7. req'[r].seen = NoRow => FindFirst(t, Uses(kind))
      BY <1>6, <1>7, <3>4, <3>5
    <3>8. req'[r].revived => req'[r].wrote  BY <1>7, <3>5
    <3>9. ~req'[r].wrote => req'[r].created = {}  BY <1>3, <1>7, <2>2 DEF Advances
    <3> QED  BY <1>7, <3>1, <3>3, <3>6, <3>7, <3>8, <3>9
  <2>3. CASE Ceases(r) /\ Stops(r)
    <3>1. t = <<>> /\ ~req'[r].found /\ kind # "import"  BY <1>3, <1>5, <2>3 DEF Stops
    <3> QED  BY <1>7, <2>3, <3>1, NothingLeft DEF Ceases
  <2>4. CASE Ceases(r) /\ Skips(r)
    <3>1. kind = "import" /\ ~req'[r].found  BY <1>3, <2>4 DEF Skips
    <3>2. Imports(r) /\ Planned(r)  BY <1>3, <3>1 DEF Accounted
    <3>3. RoleFirst(t) /\ \A i \in 1 .. Len(t) : t[i].do # "join"
      BY <1>4, <1>5, <2>4, <3>2, Skipped
    <3>4. FindFirst(t, Uses(kind))  BY <3>1 DEF FindFirst, Uses, ReadsApi
    <3> QED  BY <1>7, <2>4, <3>1, <3>3, <3>4 DEF Ceases
  <2> QED  BY <2>1, <2>2, <2>3, <2>4 DEF Ceases
<1>9. Planned(r)'  BY <1>3, <1>5, <1>8 DEF Planned, Plan
<1> QED  BY <1>2, <1>9

LEMMA AccountedStays ==
  ASSUME Shaped, (\A q \in Requests : Planned(q)), Accounted,
         NEW r \in Requests, Others(r), Waits(r) \/ Advances(r) \/ Ceases(r)
  PROVE  Accounted'
<1>1. \A q \in Requests : Kind(q)' = Kind(q) /\ Ask(q)' = Ask(q)  BY DEF Others, Kind, Ask
<1> SUFFICES ASSUME NEW q \in Requests, Kind(q) = "import" PROVE Imports(q)'
  BY <1>1 DEF Accounted
<1>2. PICK ops : ops = ToSet(ExtractAPIs(Ask(q).doc))  OBVIOUS
<1>3. ops = ToSet(ExtractAPIs(Ask(q).doc))'
  BY Zenon, <1>1, <1>2 DEF ExtractAPIs, ToSet, Operations
<1>4. PICK s : s = Plan(q)  OBVIOUS
<1>5. PICK t : t = req'[q].todo  OBVIOUS
<1>6. /\ ImportPlan(s)
      /\ req[q].created \union req[q].failed \union Pending(s) = ops
      /\ req[q].created \cap req[q].failed = {}
      /\ (req[q].created \union req[q].failed) \cap Pending(s) = {}
  <2>1. Imports(q)  BY DEF Accounted
  <2>2. Pending(Plan(q)) = Pending(s)  BY <1>4 DEF Pending
  <2> QED  BY <1>2, <1>4, <2>1, <2>2 DEF Imports, ImportPlan
<1>7. /\ ImportPlan(t)
      /\ req'[q].created \union req'[q].failed \union Pending(t) = ops
      /\ req'[q].created \cap req'[q].failed = {}
      /\ (req'[q].created \union req'[q].failed) \cap Pending(t) = {}
  <2>1. CASE q # r  BY <1>4, <1>5, <1>6, <2>1 DEF Others, Unmoved, Plan
  <2>2. CASE q = r /\ Waits(r)  BY <1>4, <1>5, <1>6, <2>2 DEF Waits
  <2>3. CASE q = r /\ Advances(r)
    <3>1. s \in Seq(StepsOf(r)) /\ s # <<>> /\ t = Tail(s) /\ Step(r) = Head(s)
      BY <1>4, <1>5, <2>3 DEF Advances, Onward, Shaped, Step, Plan
    <3>2. /\ ImportPlan(t)
          /\ Head(s).do # "write" => Pending(t) = Pending(s)
          /\ Head(s).do = "write" =>
               Pending(s) = Pending(t) \union {Head(s).op} /\ Head(s).op \notin Pending(t)
      BY <1>6, <3>1, ImportTails
    <3>3. /\ req'[r].failed = req[r].failed
          /\ Step(r).do # "write" => req'[r].created = req[r].created
          /\ Step(r).do = "write" => req'[r].created = req[r].created \union {Step(r).op}
      BY <2>3 DEF Advances, Onward
    <3> QED  BY <1>6, <2>3, <3>1, <3>2, <3>3
  <2>4. CASE q = r /\ Ceases(r)
    <3>1. Skips(r)  BY <2>4 DEF Ceases, Stops
    <3>2. Imports(r) /\ Planned(r)  BY <2>4 DEF Accounted
    <3>3. /\ ImportPlan(t)
          /\ Pending(s) = Pending(t) \union {Step(r).op} /\ Step(r).op \notin Pending(t)
      BY <1>4, <1>5, <2>4, <3>1, <3>2, Skipped
    <3>4. req'[r].created = req[r].created /\ req'[r].failed = req[r].failed \union {Step(r).op}
      BY <2>4, <3>1 DEF Ceases, Skips
    <3> QED  BY <1>6, <2>4, <3>3, <3>4
  <2> QED  BY <2>1, <2>2, <2>3, <2>4
<1>8. Pending(Plan(q))' = Pending(t)  BY <1>5 DEF Pending, Plan
<1> QED  BY <1>3, <1>5, <1>7, <1>8 DEF Imports, ImportPlan, Plan

LEMMA AnsweringStays ==
  ASSUME Answering, NEW r \in Requests, Others(r), Waits(r) \/ Advances(r) \/ Ceases(r)
  PROVE  Answering'
<1>1. ASSUME NEW q \in Requests, q # r
      PROVE  req'[q].answer \in Answers /\ (req'[q].todo # <<>> => req'[q].answer # "ok")
  BY <1>1 DEF Others, Unmoved, Answering, Plan
<1>2. Plan(r) # <<>> /\ req[r].answer \in Answers /\ req[r].answer # "ok"
  BY DEF Answering, Waits, Advances, Onward, Ceases, Skips, Stops
<1>3. req'[r].answer \in Answers
  BY <1>2 DEF Waits, Advances, Onward, Ceases, Skips, Stops, Replies
<1>4. req'[r].todo # <<>> => req'[r].answer # "ok"
  BY <1>2 DEF Waits, Advances, Onward, Ceases, Skips, Stops, Replies
<1> QED  BY <1>1, <1>3, <1>4 DEF Answering, Plan

(***************************************************************************)
(* What never shrinks, and which ids are new.                              *)
(***************************************************************************)
LEMMA Grows ==
  ASSUME (\A q \in Requests : Planned(q)), Shaped,
         NEW r \in Requests, Others(r), Waits(r) \/ Advances(r) \/ Ceases(r)
  PROVE  /\ Plan(r) # <<>>
         /\ \A q \in Requests :
              /\ Ask(q)' = Ask(q) /\ Kind(q)' = Kind(q)
              /\ req[q].wrote => req'[q].wrote
              /\ req[q].revived => req'[q].revived
              /\ req[q].created \subseteq req'[q].created
              /\ req[q].missed \subseteq req'[q].missed /\ req[q].overtaken \subseteq req'[q].overtaken
<1>1. Plan(r) # <<>>  BY DEF Waits, Advances, Onward, Ceases, Skips, Stops
<1>2. \A q \in Requests : Ask(q)' = Ask(q) /\ Kind(q)' = Kind(q)  BY DEF Others, Kind, Ask
<1>3. \A q \in Requests :
        req[q].missed \subseteq req'[q].missed /\ req[q].overtaken \subseteq req'[q].overtaken
  BY DEF Others
<1>4. req[r].created \subseteq req'[r].created  BY DEF Waits, Advances, Ceases
<1>5. Step(r).do = "write" /\ Kind(r) # "import" => ~req[r].wrote
  <2> SUFFICES ASSUME Step(r).do = "write", Kind(r) # "import", req[r].wrote PROVE FALSE  OBVIOUS
  <2>1. PICK s : s = Plan(r)  OBVIOUS
  <2>2. s \in Seq(StepsOf(r)) /\ s # <<>> /\ Step(r) = Head(s)  BY <1>1, <2>1 DEF Shaped, Step, Plan
  <2>3. Planned(r)  OBVIOUS
  <2>4. \A i \in 1 .. Len(s) : s[i].do # "write"  BY <2>1, <2>3 DEF Planned
  <2>5. PICK t : t = Tail(s)  OBVIOUS
  <2>6. Len(s) \in Nat /\ Len(s) >= 1 /\ Head(s) = s[1]  BY <2>2, <2>5, Tails
  <2> QED  BY <2>2, <2>4, <2>6
<1>6. req[r].revived => req[r].wrote
  <2>1. Planned(r)  OBVIOUS
  <2> QED  BY <2>1 DEF Planned
<1>7. (req[r].wrote => req'[r].wrote) /\ (req[r].revived => req'[r].revived)
  BY <1>5, <1>6 DEF Waits, Advances, Ceases
<1>8. \A q \in Requests : q # r =>
        /\ req'[q].wrote = req[q].wrote /\ req'[q].revived = req[q].revived
        /\ req'[q].created = req[q].created
  BY DEF Others, Unmoved
<1> QED  BY <1>1, <1>2, <1>3, <1>4, <1>7, <1>8

LEMMA Remembered ==
  ASSUME (\A q \in Requests : Planned(q)), Shaped,
         NEW r \in Requests, Others(r), Waits(r) \/ Advances(r) \/ Ceases(r)
  PROVE  /\ \A id : /\ KnownProject(id) => KnownProject(id)'
                    /\ KnownApi(id) => KnownApi(id)'
                    /\ KnownCase(id) => KnownCase(id)'
         /\ Revived => Revived'
         /\ Disturbed => Disturbed'
         /\ \A q \in Requests : Excused(q) => Excused(q)'
<1>1. \A q \in Requests :
        /\ Ask(q)' = Ask(q) /\ Kind(q)' = Kind(q)
        /\ req[q].wrote => req'[q].wrote
        /\ req[q].revived => req'[q].revived
        /\ req[q].created \subseteq req'[q].created
        /\ req[q].missed \subseteq req'[q].missed /\ req[q].overtaken \subseteq req'[q].overtaken
  BY Grows
<1>2. setup' = setup  BY DEF Others
<1>3. \A id : KnownProject(id) => KnownProject(id)'  BY <1>1, <1>2 DEF KnownProject, Made, Has
<1>4. \A id : KnownApi(id) => KnownApi(id)'  BY <1>1, <1>2 DEF KnownApi, Has
<1>5. \A id : KnownCase(id) => KnownCase(id)'  BY <1>1, <1>2 DEF KnownCase, Has
<1>6. Revived => Revived'  BY <1>1 DEF Revived
<1>7. Disturbed => Disturbed'  BY <1>1 DEF Disturbed
<1>8. \A q \in Requests : Excused(q) => Excused(q)'  BY <1>1 DEF Excused
<1> QED  BY <1>3, <1>4, <1>5, <1>6, <1>7, <1>8

\* The first write of a request, and the ids it makes.
LEMMA FirstWrite ==
  ASSUME Shaped, NEW r \in Requests, Planned(r), Plan(r) # <<>>, Step(r).do = "write"
  PROVE  /\ Kind(r) # "import" => ~req[r].wrote
         /\ Kind(r) \in ReadsApi \union {"updateProject"} => req[r].seen # NoRow
<1>1. PICK s : s = Plan(r)  OBVIOUS
<1>2. s \in Seq(StepsOf(r)) /\ s # <<>> /\ Step(r) = Head(s)  BY <1>1 DEF Shaped, Step, Plan
<1>3. PICK t : t = Tail(s)  OBVIOUS
<1>4. Len(s) \in Nat /\ Len(s) >= 1 /\ Head(s) = s[1]  BY <1>2, <1>3, Tails
<1>5. s[1].do = "write" /\ 1 \in 1 .. Len(s)  BY <1>2, <1>4
<1>6. Kind(r) # "import" => ~req[r].wrote  BY <1>1, <1>5 DEF Planned
<1>7. ASSUME Kind(r) \in ReadsApi \union {"updateProject"}, req[r].seen = NoRow PROVE FALSE
  <2>1. FindFirst(s, Uses(Kind(r)))  BY <1>1, <1>7 DEF Planned
  <2>2. "write" \in Uses(Kind(r))  BY <1>7 DEF Uses, ReadsApi
  <2>3. \E i \in 1 .. (1 - 1) : s[i].do = "find"  BY <1>5, <2>1, <2>2 DEF FindFirst
  <2> QED  BY <2>3
<1> QED  BY <1>6, <1>7

LEMMA NewIds ==
  ASSUME Shaped, NEW r \in Requests, Planned(r), Accounted, Plan(r) # <<>>, Step(r).do = "write"
  PROVE  /\ Kind(r) = "createProject" => ~KnownProject(r)
         /\ Kind(r) \in {"createApi", "import"} => ~KnownApi(<<r, Step(r).op>>)
         /\ Kind(r) = "createCase" => ~KnownCase(r)
<1>1. setup \in Setups  BY DEF Shaped
<1>2. Kind(r) # "import" => ~req[r].wrote  BY FirstWrite
<1>3. ASSUME NEW p \in setup.projects PROVE p.id # r  BY <1>1, <1>3, CatalogueAssumption
<1>4. PICK op : op = Step(r).op  OBVIOUS
<1>5. op \in {Ask(r).ops[1]} \union Ask(r).doc
  <2>1. PICK s : s = Plan(r)  OBVIOUS
  <2>2. s \in Seq(StepsOf(r)) /\ s # <<>> /\ Step(r) = Head(s)  BY <2>1 DEF Shaped, Step, Plan
  <2>3. Step(r) \in StepsOf(r)  BY <2>2
  <2>4. PICK all : all = Todo(Ask(r))  OBVIOUS
  <2>5. \A step \in StepsOf(r) : step.do = "write" => step.op \in {Ask(r).ops[1]} \union Ask(r).doc
    BY <1>1, <2>4, Planning
  <2> QED  BY <1>4, <2>3, <2>5
<1>6. ASSUME NEW a \in setup.apis PROVE a.id # <<r, op>>
  BY <1>1, <1>5, <1>6, CatalogueAssumption DEF WellAsked, Ask
<1>7. Kind(r) \in {"createApi", "import"} => op \notin req[r].created
  <2>1. CASE Kind(r) = "createApi"  BY <1>2, <2>1 DEF Planned
  <2>2. CASE Kind(r) = "import"
    <3>1. PICK s : s = Plan(r)  OBVIOUS
    <3>2. s \in Seq(StepsOf(r)) /\ s # <<>> /\ Step(r) = Head(s)  BY <3>1 DEF Shaped, Step, Plan
    <3>3. PICK t : t = Tail(s)  OBVIOUS
    <3>4. Len(s) \in Nat /\ Len(s) >= 1 /\ Head(s) = s[1]  BY <3>2, <3>3, Tails
    <3>5. op \in Pending(s)  BY <1>4, <3>2, <3>4 DEF Pending
    <3>6. Pending(Plan(r)) = Pending(s)  BY <3>1 DEF Pending
    <3>7. Imports(r)  BY <2>2 DEF Accounted
    <3> QED  BY <3>5, <3>6, <3>7 DEF Imports
  <2> QED  BY <2>1, <2>2
<1>8. Kind(r) = "createProject" => ~KnownProject(r)  BY <1>2, <1>3 DEF KnownProject, Has, Made, Kind
<1>9. Kind(r) = "createCase" => ~KnownCase(r)  BY <1>2 DEF KnownCase
<1>10. Kind(r) \in {"createApi", "import"} => ~KnownApi(<<r, op>>)
  <2> SUFFICES ASSUME Kind(r) \in {"createApi", "import"}, KnownApi(<<r, op>>) PROVE FALSE  OBVIOUS
  <2>1. ~Has(setup.apis, <<r, op>>)  BY <1>6 DEF Has
  <2>2. PICK q \in Requests : \E o \in req[q].created : <<r, op>> = <<q, o>>  BY <2>1 DEF KnownApi
  <2>3. op \in req[r].created  BY <2>2
  <2> QED  BY <1>7, <2>3
<1> QED  BY <1>4, <1>8, <1>9, <1>10

(***************************************************************************)
(* The tables after a step.                                                *)
(***************************************************************************)
LEMMA Touched ==
  ASSUME NEW r \in Requests, Effect(r)
  PROVE  /\ InsertsProject(r) \/ SavesProject(r) \/ DeletesProject(r) \/ UNCHANGED projects
         /\ InsertsOwner(r) \/ AddsMember(r) \/ DeletesProject(r) \/ UNCHANGED members
         /\ \/ DeletesProject(r) \/ InsertsApi(r) \/ UpdatesApi(r) \/ UpdatesTags(r) \/ DeletesApi(r)
            \/ UNCHANGED apis
         /\ DeletesProject(r) \/ DeletesApi(r) \/ RecordsHit(r) \/ UNCHANGED rules
         /\ DeletesProject(r) \/ DeletesApi(r) \/ ChangesCases(r) \/ UNCHANGED cases
<1>1. CASE Rests(r)  BY <1>1 DEF Rests, Asks, Moves, Reads, Fails, tables
<1>2. CASE InsertsProject(r)  BY <1>2 DEF InsertsProject
<1>3. CASE InsertsOwner(r)  BY <1>3 DEF InsertsOwner
<1>4. CASE AddsMember(r)  BY <1>4 DEF AddsMember
<1>5. CASE SavesProject(r)  BY <1>5 DEF SavesProject
<1>6. CASE DeletesProject(r)  BY <1>6
<1>7. CASE InsertsApi(r)  BY <1>7 DEF InsertsApi
<1>8. CASE UpdatesApi(r)  BY <1>8 DEF UpdatesApi
<1>9. CASE UpdatesTags(r)  BY <1>9 DEF UpdatesTags
<1>10. CASE DeletesApi(r)  BY <1>10 DEF DeletesApi
<1>11. CASE RecordsHit(r)  BY <1>11 DEF RecordsHit
<1>12. CASE ChangesCases(r)  BY <1>12 DEF ChangesCases
<1> QED  BY <1>1, <1>2, <1>3, <1>4, <1>5, <1>6, <1>7, <1>8, <1>9, <1>10, <1>11, <1>12 DEF Effect

\* The parts of Linked.
ProjectRows(ps) ==
  Columns(ps, {"id", "owner", "slug", "name"}) /\ Unique(ps) /\ \A p, q \in ps : p.slug = q.slug => p = q
MemberRows(ps, ms) ==
  /\ \A m \in ms : m = Member(m.project, m.user, m.role) /\ Has(ps, m.project) /\ m.role \in Roles
  /\ \A m, n \in ms : m.project = n.project /\ m.user = n.user => m = n
ApiRows(ps, as) ==
  /\ Columns(as, {"id", "project", "path", "method", "tags"}) /\ Unique(as)
  /\ \A a \in as : Has(ps, a.project)
  /\ \A a, b \in as : a.project = b.project /\ a.path = b.path /\ a.method = b.method => a = b
RuleRows(as, ks) ==
  /\ Columns(ks, {"id", "api", "enabled", "hits"}) /\ Unique(ks)
  /\ \A k \in ks : Has(as, k.api) /\ k.hits \in Nat
CaseRows(ps, as, cs) ==
  /\ Columns(cs, {"id", "project", "api"}) /\ Unique(cs)
  /\ \A c \in cs : Has(ps, c.project) /\ (c.api = None \/ Has(as, c.api))

LEMMA LinkedParts ==
  ASSUME NEW ps, NEW ms, NEW as, NEW ks, NEW cs
  PROVE  Linked(ps, ms, as, ks, cs) <=>
           ProjectRows(ps) /\ MemberRows(ps, ms) /\ ApiRows(ps, as) /\ RuleRows(as, ks)
             /\ CaseRows(ps, as, cs)
BY DEF Linked, ProjectRows, MemberRows, ApiRows, RuleRows, CaseRows

LEMMA ProjectRowsStay ==
  ASSUME IInv, NEW r \in Requests, Effect(r)
  PROVE  /\ ProjectRows(projects')
         /\ DeletesProject(r) \/ \A id : Has(projects, id) => Has(projects', id)
         /\ \A p \in projects' :
              \/ \E q \in projects : q.id = p.id /\ q.slug = p.slug /\ (Revived' \/ q.owner = p.owner)
              \/ /\ InsertsProject(r) /\ ~KnownProject(r)
                 /\ p.id = r /\ p.owner = Ask(r).by /\ p.slug = Ask(r).arg
              \/ SavesProject(r) /\ Revived' /\ p.id = req[r].seen.id /\ p.slug = req[r].seen.slug
<1>1. /\ ProjectRows(projects) /\ Shaped /\ Planned(r) /\ Accounted
      /\ Others(r) /\ (Waits(r) \/ Advances(r) \/ Ceases(r))
      /\ \A p \in projects : KnownProject(p.id)
  BY LinkedParts, Frame DEF IInv, TypeOK, AllKnown
<1>2. CASE UNCHANGED projects  BY <1>1, <1>2
<1>3. CASE InsertsProject(r)
  <2>1. Plan(r) # <<>> /\ Step(r).do = "write" /\ Kind(r) = "createProject"
    BY <1>3 DEF InsertsProject, Marks, Writes, Onward
  <2>2. ~KnownProject(r)  BY <1>1, <2>1, NewIds
  <2>3. PICK new : new = [id |-> r, owner |-> Ask(r).by, slug |-> Ask(r).arg, name |-> "first"]
    OBVIOUS
  <2>4. projects' = projects \union {new} /\ \A p \in projects : p.slug # Ask(r).arg
    BY <1>3, <2>3 DEF InsertsProject
  <2>5. /\ DOMAIN new = {"id", "owner", "slug", "name"}
        /\ new.id = r /\ new.owner = Ask(r).by /\ new.slug = Ask(r).arg
    BY <2>3
  <2>6. \A p \in projects : p.id # new.id /\ p.slug # new.slug  BY <1>1, <2>2, <2>4, <2>5
  <2>7. ProjectRows(projects')  BY <1>1, <2>4, <2>5, <2>6 DEF ProjectRows, Columns, Unique
  <2> QED  BY <1>3, <2>2, <2>4, <2>5, <2>7 DEF Has
<1>4. CASE SavesProject(r)
  <2>1. SawProject(r)
    <3>1. Plan(r) # <<>> /\ Step(r).do = "write" /\ Kind(r) = "updateProject"
      BY <1>4 DEF SavesProject, Writes, Onward
    <3> QED  BY <1>1, <3>1, FirstWrite DEF SawProject
  <2>2. PICK seen : seen = req[r].seen  OBVIOUS
  <2>3. /\ DOMAIN seen = {"id", "owner", "slug", "name"}
        /\ \A p \in projects : p.id = seen.id => p.slug = seen.slug /\ (Revived \/ p.owner = seen.owner)
    BY <2>1, <2>2 DEF IInv, SeenProjects
  <2>4. PICK new : new = [seen EXCEPT !.name = Ask(r).arg]  OBVIOUS
  <2>5. /\ DOMAIN new = {"id", "owner", "slug", "name"}
        /\ new.id = seen.id /\ new.owner = seen.owner /\ new.slug = seen.slug
    BY <2>3, <2>4
  <2>6. projects' = Saved(new)  BY Zenon, <1>4, <2>2, <2>4 DEF SavesProject, Saved, IsLive
  <2>7. Revived => Revived'  BY <1>1, Remembered DEF IInv
  <2>8. CASE IsLive(new.id)
    <3>1. projects' = {q \in projects : q.id # new.id} \union {new}  BY <2>6, <2>8 DEF Saved
    <3>2. PICK old \in projects : old.id = new.id  BY <2>8 DEF IsLive, Has
    <3>3. old.slug = new.slug /\ (Revived' \/ old.owner = new.owner)  BY <2>3, <2>5, <2>7, <3>2
    <3>4. \A q \in projects : q.id # new.id => q.slug # new.slug
      BY <1>1, <3>2, <3>3 DEF ProjectRows
    <3>5. ProjectRows(projects')  BY <1>1, <2>5, <3>1, <3>4 DEF ProjectRows, Columns, Unique
    <3>6. \A id : Has(projects, id) => Has(projects', id)  BY <3>1 DEF Has
    <3>7. \A p \in projects' : \E q \in projects :
            q.id = p.id /\ q.slug = p.slug /\ (Revived' \/ q.owner = p.owner)
      BY <3>1, <3>2, <3>3
    <3> QED  BY <3>5, <3>6, <3>7
  <2>9. CASE ~IsLive(new.id)
    <3>1. Revived'
      <4>1. req'[r].revived  BY <1>4, <2>2, <2>5, <2>9 DEF SavesProject
      <4> QED  BY <4>1 DEF Revived
    <3>2. \A q \in projects : q.id # new.id  BY <2>9 DEF IsLive, Has
    <3>3. CASE \E q \in projects : q.slug = new.slug
      <4>1. PICK old \in projects : old.slug = new.slug  BY <3>3
      <4>2. PICK as : as = [new EXCEPT !.id = old.id]  OBVIOUS
      <4>3. /\ DOMAIN as = {"id", "owner", "slug", "name"}
            /\ as.id = old.id /\ as.slug = old.slug
        BY <2>5, <4>1, <4>2
      <4>4. {q \in projects : q.slug = new.slug} = {old}  BY <1>1, <4>1 DEF ProjectRows
      <4>5. projects' = {q \in projects : q.slug # new.slug} \union {as}
        BY <2>6, <2>9, <3>3, <4>2, <4>4 DEF Saved
      <4>6. \A q \in projects : q.slug # new.slug => q.id # as.id
        BY <1>1, <4>1, <4>3 DEF ProjectRows, Unique
      <4>7. ProjectRows(projects')
        BY <1>1, <4>1, <4>3, <4>5, <4>6 DEF ProjectRows, Columns, Unique
      <4>8. \A id : Has(projects, id) => Has(projects', id)
        <5> SUFFICES ASSUME NEW q \in projects PROVE Has(projects', q.id)  BY DEF Has
        <5>1. CASE q.slug = new.slug  BY <4>3, <4>4, <4>5, <5>1 DEF Has
        <5>2. CASE q.slug # new.slug  BY <4>5, <5>2 DEF Has
        <5> QED  BY <5>1, <5>2
      <4>9. \A p \in projects' : \E q \in projects : q.id = p.id /\ q.slug = p.slug
        BY <4>1, <4>3, <4>5
      <4> QED  BY <3>1, <4>7, <4>8, <4>9
    <3>4. CASE ~\E q \in projects : q.slug = new.slug
      <4>1. projects' = projects \union {new}
        BY <2>6, <2>9, <3>4 DEF Saved
      <4>2. ProjectRows(projects')  BY <1>1, <2>5, <3>2, <3>4, <4>1 DEF ProjectRows, Columns, Unique
      <4> QED  BY <1>4, <2>2, <2>5, <3>1, <4>1, <4>2 DEF Has
    <3> QED  BY <3>3, <3>4
  <2> QED  BY <2>8, <2>9
<1>5. CASE DeletesProject(r)
  <2>1. projects' = {p \in projects : p.id # Ask(r).pid}  BY <1>5 DEF DeletesProject
  <2>2. ProjectRows(projects')  BY <1>1, <2>1 DEF ProjectRows, Columns, Unique
  <2> QED  BY <1>5, <2>1, <2>2
<1> QED  BY <1>2, <1>3, <1>4, <1>5, Touched

LEMMA MemberRowsStay ==
  ASSUME IInv, NEW r \in Requests, Effect(r)
  PROVE  MemberRows(projects', members')
<1>1. MemberRows(projects, members) /\ Shaped  BY LinkedParts DEF IInv, TypeOK
<1>2. DeletesProject(r) \/ \A id : Has(projects, id) => Has(projects', id)  BY ProjectRowsStay
<1>3. CASE DeletesProject(r)
  <2>1. projects' = {p \in projects : p.id # Ask(r).pid} /\ members' = {m \in members : m.project # Ask(r).pid}
    BY <1>3 DEF DeletesProject
  <2>2. \A m \in members' : Has(projects', m.project)  BY <1>1, <2>1 DEF MemberRows, Has
  <2> QED  BY <1>1, <2>1, <2>2 DEF MemberRows
<1>4. ASSUME NEW pid, NEW user, NEW role \in Roles, CanJoin(user, pid), projects' = projects,
             members' = members \union {Member(pid, user, role)}
      PROVE  MemberRows(projects', members')
  <2>1. PICK new : new = Member(pid, user, role)  OBVIOUS
  <2>2. new.project = pid /\ new.user = user /\ new.role = role  BY <2>1 DEF Member
  <2>3. new = Member(new.project, new.user, new.role)  BY <2>1, <2>2
  <2>4. Has(projects, pid) /\ \A m \in members : ~(m.project = pid /\ m.user = user)
    BY <1>4 DEF CanJoin, IsLive
  <2>5. members' = members \union {new}  BY <1>4, <2>1
  <2> QED  BY <1>1, <1>4, <2>2, <2>3, <2>4, <2>5 DEF MemberRows
<1>5. CASE InsertsOwner(r)
  <2>1. "admin" \in Roles  BY DEF Roles
  <2> QED  BY <1>4, <1>5, <2>1 DEF InsertsOwner
<1>6. CASE AddsMember(r)
  <2>1. Ask(r).arg \in Roles
    BY <1>1, <1>6, CatalogueAssumption DEF AddsMember, Marks, Writes, Kind, Ask, WellAsked, Shaped
  <2> QED  BY <1>4, <1>6, <2>1 DEF AddsMember
<1>7. CASE UNCHANGED members /\ ~DeletesProject(r)  BY <1>1, <1>2, <1>7 DEF MemberRows
<1> QED  BY <1>3, <1>5, <1>6, <1>7, Touched

\* Rows of apis keep their id and project; new ones have a new id.
LEMMA ApiRowsStay ==
  ASSUME IInv, NEW r \in Requests, Effect(r)
  PROVE  /\ ApiRows(projects', apis')
         /\ DeletesProject(r) \/ DeletesApi(r) \/ \A id : Has(apis, id) => Has(apis', id)
         /\ \A a \in apis' :
              \/ \E b \in apis : /\ a.id = b.id /\ a.project = b.project
                                 /\ UpdatesApi(r) \/ (a.path = b.path /\ a.method = b.method)
                                 /\ UpdatesTags(r) \/ a.tags = b.tags
              \/ /\ InsertsApi(r) /\ ~KnownApi(a.id)
                 /\ a.id = <<r, Step(r).op>> /\ a.project = Ask(r).pid
                 /\ a.path = Step(r).op.path /\ a.method = Step(r).op.method
<1>1. ApiRows(projects, apis) /\ Shaped /\ Planned(r) /\ Accounted
      /\ (\A a \in apis : KnownApi(a.id))
  BY LinkedParts DEF IInv, TypeOK, AllKnown
<1>2. DeletesProject(r) \/ \A id : Has(projects, id) => Has(projects', id)  BY ProjectRowsStay
<1>3. CASE DeletesProject(r)
  <2> DEFINE gone == {a.id : a \in {a \in apis : a.project = Ask(r).pid}}
  <2>1. projects' = {p \in projects : p.id # Ask(r).pid} /\ apis' = {a \in apis : a.id \notin gone}
    BY <1>3 DEF DeletesProject
  <2>2. \A a \in apis' : a \in apis /\ a.project # Ask(r).pid  BY <2>1
  <2> HIDE DEF gone
  <2>3. \A a \in apis' : Has(projects', a.project)  BY <1>1, <2>1, <2>2 DEF ApiRows, Has
  <2>4. ApiRows(projects', apis')  BY <1>1, <2>2, <2>3 DEF ApiRows, Columns, Unique
  <2> QED  BY <1>3, <2>2, <2>4
<1>4. CASE InsertsApi(r)
  <2>1. PICK op : op = Step(r).op  OBVIOUS
  <2>2. PICK new : new = [id |-> <<r, op>>, project |-> Ask(r).pid, path |-> op.path,
                          method |-> op.method, tags |-> {}]
    OBVIOUS
  <2>3. apis' = apis \union {new} /\ projects' = projects /\ IsLive(Ask(r).pid) /\ ~Taken(apis, Ask(r).pid, op)
    BY <1>4, <2>1, <2>2 DEF InsertsApi
  <2>4. /\ DOMAIN new = {"id", "project", "path", "method", "tags"}
        /\ new.id = <<r, op>> /\ new.project = Ask(r).pid
        /\ new.path = op.path /\ new.method = op.method
    BY <2>2
  <2>5. ~KnownApi(new.id)
    <3>1. Plan(r) # <<>> /\ Step(r).do = "write" /\ Kind(r) \in {"createApi", "import"}
      BY <1>4 DEF InsertsApi, Writes, Onward
    <3>2. ~KnownApi(<<r, Step(r).op>>)  BY <1>1, <3>1, NewIds
    <3> QED  BY <2>1, <2>4, <3>2
  <2>6. \A a \in apis : a.id # new.id  BY <1>1, <2>5
  <2>7. \A a \in apis : ~(a.project = new.project /\ a.path = new.path /\ a.method = new.method)
    BY <2>3, <2>4 DEF Taken
  <2>8. Has(projects', new.project)  BY <2>3, <2>4 DEF IsLive
  <2>9. ApiRows(projects', apis')  BY <1>1, <2>3, <2>4, <2>6, <2>7, <2>8 DEF ApiRows, Columns, Unique
  <2> QED  BY <1>4, <2>1, <2>3, <2>4, <2>5, <2>9 DEF Has
<1>5. ASSUME NEW row \in apis, NEW new, apis' = (apis \ {row}) \union {new}, projects' = projects,
             DOMAIN new = {"id", "project", "path", "method", "tags"},
             new.id = row.id, new.project = row.project,
             \A a \in apis \ {row} : ~(a.project = new.project /\ a.path = new.path /\ a.method = new.method)
      PROVE  ApiRows(projects', apis') /\ \A id : Has(apis, id) => Has(apis', id)
  <2>1. \A a \in apis \ {row} : a.id # new.id  BY <1>1, <1>5 DEF ApiRows, Unique
  <2>2. Has(projects', new.project)  BY <1>1, <1>5 DEF ApiRows
  <2>3. ApiRows(projects', apis')  BY <1>1, <1>5, <2>1, <2>2 DEF ApiRows, Columns, Unique
  <2> QED  BY <1>5, <2>3 DEF Has
<1>6. CASE UpdatesApi(r)
  <2>1. PICK fields : fields = Ask(r).fields  OBVIOUS
  <2>2. PICK row \in apis :
          /\ ~Taken(apis \ {row}, row.project, Overwritten(row, fields)) /\ projects' = projects
          /\ apis' = (apis \ {row}) \union {Overwritten(row, fields)}
    BY Zenon, <1>6, <2>1 DEF UpdatesApi
  <2>3. PICK new : new = Overwritten(row, fields)  OBVIOUS
  <2>4. /\ DOMAIN new = {"id", "project", "path", "method", "tags"}
        /\ new.id = row.id /\ new.project = row.project /\ new.tags = row.tags
    <3>1. DOMAIN row = {"id", "project", "path", "method", "tags"}  BY <1>1 DEF ApiRows, Columns
    <3>2. DOMAIN fields \subseteq {"path", "method"}
      <4>1. Ask(r).kind = "updateApi"  BY <1>6 DEF UpdatesApi, Marks, Writes, Kind
      <4> QED  BY <1>1, <2>1, <4>1, CatalogueAssumption DEF Shaped, WellAsked, Ask
    <3> QED  BY <2>3, <3>1, <3>2 DEF Overwritten
  <2>5. \A a \in apis \ {row} :
          ~(a.project = new.project /\ a.path = new.path /\ a.method = new.method)
    BY Zenon, <2>2, <2>3, <2>4 DEF Taken
  <2>6. apis' = (apis \ {row}) \union {new}  BY <2>2, <2>3
  <2>7. ApiRows(projects', apis') /\ \A id : Has(apis, id) => Has(apis', id)
    BY <1>5, <2>2, <2>4, <2>5, <2>6
  <2> QED  BY <1>6, <2>2, <2>4, <2>6, <2>7
<1>7. CASE UpdatesTags(r)
  <2>1. PICK tags : tags = Changed(Ask(r), req[r].seen.tags)  OBVIOUS
  <2>2. PICK row \in apis : apis' = (apis \ {row}) \union {[row EXCEPT !.tags = tags]} /\ projects' = projects
    BY <1>7, <2>1 DEF UpdatesTags
  <2>3. PICK new : new = [row EXCEPT !.tags = tags]  OBVIOUS
  <2>4. /\ DOMAIN new = {"id", "project", "path", "method", "tags"}
        /\ new.id = row.id /\ new.project = row.project
        /\ new.path = row.path /\ new.method = row.method
    BY <1>1, <2>3 DEF ApiRows, Columns
  <2>5. \A a \in apis \ {row} : ~(a.project = new.project /\ a.path = new.path /\ a.method = new.method)
    BY <1>1, <2>2, <2>4 DEF ApiRows
  <2>6. apis' = (apis \ {row}) \union {new}  BY <2>2, <2>3
  <2>7. ApiRows(projects', apis') /\ \A id : Has(apis, id) => Has(apis', id)
    BY <1>5, <2>2, <2>4, <2>5, <2>6
  <2> QED  BY <1>7, <2>2, <2>4, <2>6, <2>7
<1>8. CASE DeletesApi(r)
  <2>1. apis' = {a \in apis : a.id # Ask(r).id} /\ projects' = projects  BY <1>8 DEF DeletesApi
  <2>2. ApiRows(projects', apis')  BY <1>1, <2>1 DEF ApiRows, Columns, Unique
  <2> QED  BY <1>8, <2>1, <2>2
<1>9. CASE UNCHANGED apis /\ ~DeletesProject(r)
  <2>1. ApiRows(projects', apis')  BY <1>1, <1>2, <1>9 DEF ApiRows
  <2> QED  BY <1>9, <2>1
<1> QED  BY <1>3, <1>4, <1>6, <1>7, <1>8, <1>9, Touched

LEMMA RuleRowsStay ==
  ASSUME IInv, NEW r \in Requests, Effect(r)
  PROVE  RuleRows(apis', rules')
<1>1. RuleRows(apis, rules)  BY LinkedParts DEF IInv, TypeOK
<1>2. DeletesProject(r) \/ DeletesApi(r) \/ \A id : Has(apis, id) => Has(apis', id)  BY ApiRowsStay
<1>3. ASSUME NEW gone, apis' = {a \in apis : a.id \notin gone}, rules' = {k \in rules : k.api \notin gone}
      PROVE  RuleRows(apis', rules')
  BY <1>1, <1>3 DEF RuleRows, Columns, Unique, Has
<1>4. CASE DeletesProject(r)  BY <1>3, <1>4 DEF DeletesProject, RulesWithout
<1>5. CASE DeletesApi(r)
  <2>1. apis' = {a \in apis : a.id \notin {Ask(r).id}}  BY <1>5 DEF DeletesApi
  <2>2. rules' = {k \in rules : k.api \notin {Ask(r).id}}  BY <1>5 DEF DeletesApi, RulesWithout
  <2> QED  BY <1>3, <2>1, <2>2
<1>6. CASE RecordsHit(r)
  <2>1. apis' = apis  BY <1>6 DEF RecordsHit
  <2>2. PICK row \in rules : rules' = (rules \ {row}) \union {[row EXCEPT !.hits = @ + 1]}
    BY <1>6 DEF RecordsHit
  <2>3. PICK new : new = [row EXCEPT !.hits = @ + 1]  OBVIOUS
  <2>4. DOMAIN row = {"id", "api", "enabled", "hits"} /\ row.hits \in Nat /\ Has(apis, row.api)
    BY <1>1 DEF RuleRows, Columns
  <2>5. /\ DOMAIN new = {"id", "api", "enabled", "hits"}
        /\ new.id = row.id /\ new.api = row.api /\ new.hits = row.hits + 1
    BY <2>3, <2>4
  <2>6. rules' = (rules \ {row}) \union {new}  BY <2>2, <2>3
  <2> QED  BY <1>1, <2>1, <2>2, <2>4, <2>5, <2>6 DEF RuleRows, Columns, Unique
<1>7. CASE UNCHANGED rules /\ ~DeletesProject(r) /\ ~DeletesApi(r)  BY <1>1, <1>2, <1>7 DEF RuleRows
<1> QED  BY <1>4, <1>5, <1>6, <1>7, Touched

LEMMA CaseRowsStay ==
  ASSUME IInv, NEW r \in Requests, Effect(r)
  PROVE  /\ CaseRows(projects', apis', cases')
         /\ \A c \in cases' :
              \/ \E b \in cases : b.id = c.id
              \/ c.id \notin Requests
              \/ Marks(r, {"createCase"}) /\ c.id = r
<1>1. CaseRows(projects, apis, cases) /\ Shaped /\ Planned(r) /\ Accounted
      /\ (\A c \in cases : KnownCase(c.id))
  BY LinkedParts DEF IInv, TypeOK, AllKnown
<1>2. /\ DeletesProject(r) \/ \A id : Has(projects, id) => Has(projects', id)
      /\ DeletesProject(r) \/ DeletesApi(r) \/ \A id : Has(apis, id) => Has(apis', id)
  BY ProjectRowsStay, ApiRowsStay
\* Some keep all but their api, which is then none.
<1>3. ASSUME NEW gone, apis' = {a \in apis : a.id \notin gone},
             cases' \subseteq CasesWithout(gone),
             \A c \in cases' : Has(projects, c.project) => Has(projects', c.project)
      PROVE  CaseRows(projects', apis', cases') /\ \A c \in cases' : \E b \in cases : b.id = c.id
  <2>1. ASSUME NEW c \in cases'
        PROVE  \E b \in cases : /\ DOMAIN c = {"id", "project", "api"}
                                /\ c = IF b.api \in gone THEN [b EXCEPT !.api = None] ELSE b
                                /\ c.id = b.id /\ c.project = b.project
                                /\ c.api = IF b.api \in gone THEN None ELSE b.api
    <3>1. PICK b \in cases : c = IF b.api \in gone THEN [b EXCEPT !.api = None] ELSE b
      BY <1>3 DEF CasesWithout
    <3>2. DOMAIN b = {"id", "project", "api"}  BY <1>1 DEF CaseRows, Columns
    <3>3. CASE b.api \in gone  BY <3>1, <3>2, <3>3
    <3>4. CASE b.api \notin gone  BY <3>1, <3>2, <3>4
    <3> QED  BY <3>3, <3>4
  <2>2. Unique(cases')
    <3> SUFFICES ASSUME NEW c \in cases', NEW d \in cases', c.id = d.id PROVE c = d  BY DEF Unique
    <3>1. PICK b \in cases : c.id = b.id /\ c = IF b.api \in gone THEN [b EXCEPT !.api = None] ELSE b  BY <2>1
    <3>2. PICK e \in cases : d.id = e.id /\ d = IF e.api \in gone THEN [e EXCEPT !.api = None] ELSE e  BY <2>1
    <3>3. b = e  BY <1>1, <3>1, <3>2 DEF CaseRows, Unique
    <3> QED  BY <3>1, <3>2, <3>3
  <2>3. ASSUME NEW c \in cases'
        PROVE  Has(projects', c.project) /\ (c.api = None \/ Has(apis', c.api))
    <3>1. PICK b \in cases : /\ c.project = b.project
                             /\ c.api = IF b.api \in gone THEN None ELSE b.api
      BY <2>1
    <3>2. Has(projects, b.project) /\ (b.api = None \/ Has(apis, b.api))  BY <1>1 DEF CaseRows
    <3>3. b.api \notin gone /\ Has(apis, b.api) => Has(apis', b.api)  BY <1>3 DEF Has
    <3> QED  BY <1>3, <3>1, <3>2, <3>3
  <2> QED  BY <2>1, <2>2, <2>3 DEF CaseRows, Columns
<1>4. CASE DeletesProject(r)
  <2> DEFINE gone == {a.id : a \in {a \in apis : a.project = Ask(r).pid}}
  <2>1. /\ apis' = {a \in apis : a.id \notin gone} /\ projects' = {p \in projects : p.id # Ask(r).pid}
        /\ cases' = {c \in CasesWithout(gone) : c.project # Ask(r).pid}
    BY <1>4 DEF DeletesProject
  <2> HIDE DEF gone
  <2>2. \A c \in cases' : Has(projects, c.project) => Has(projects', c.project)  BY <2>1 DEF Has
  <2>3. cases' \subseteq CasesWithout(gone)  BY <2>1
  <2> QED  BY <1>3, <2>1, <2>2, <2>3
<1>5. CASE DeletesApi(r)
  <2>1. apis' = {a \in apis : a.id \notin {Ask(r).id}} /\ projects' = projects
    BY <1>5 DEF DeletesApi
  <2>2. cases' \subseteq CasesWithout({Ask(r).id})  BY <1>5 DEF DeletesApi
  <2> QED  BY <1>3, <2>1, <2>2
<1>6. CASE ChangesCases(r)
  <2>0. UNCHANGED <<projects, apis>>  BY <1>6 DEF ChangesCases
  <2>1. CASE /\ Marks(r, {"createCase"}) /\ IsLive(Ask(r).pid) /\ HasApi(Ask(r).arg)
             /\ cases' = cases \union {[id |-> r, project |-> Ask(r).pid, api |-> Ask(r).arg]}
    <3>1. PICK new : new = [id |-> r, project |-> Ask(r).pid, api |-> Ask(r).arg]  OBVIOUS
    <3>2. /\ DOMAIN new = {"id", "project", "api"}
          /\ new.id = r /\ new.project = Ask(r).pid /\ new.api = Ask(r).arg
      BY <3>1
    <3>3. cases' = cases \union {new}  BY <2>1, <3>1
    <3>4. ~KnownCase(r)
      <4>1. Plan(r) # <<>> /\ Step(r).do = "write" /\ Kind(r) = "createCase"
        BY <2>1 DEF Marks, Writes, Onward
      <4> QED  BY <1>1, <4>1, NewIds
    <3>5. \A c \in cases : c.id # new.id  BY <1>1, <3>2, <3>4
    <3>6. Has(projects, new.project) /\ (new.api = None \/ Has(apis, new.api))
      BY <2>1, <3>2 DEF IsLive, HasApi
    <3>7. CaseRows(projects', apis', cases')
      BY <1>1, <2>0, <3>2, <3>3, <3>5, <3>6 DEF CaseRows, Columns, Unique
    <3> QED  BY <2>1, <3>2, <3>3, <3>7
  <2>2. CASE /\ Marks(r, {"updateCase"}) /\ \A c \in cases : c.id = Ask(r).id => CaseFits(r, c)
             /\ cases' = {UpdatedCase(r, c) : c \in cases}
    <3> DEFINE new(c) == UpdatedCase(r, c)
    <3>1. \A c \in cases : DOMAIN c = {"id", "project", "api"}  BY <1>1 DEF CaseRows, Columns
    <3>2. PICK fields : fields = Ask(r).fields  OBVIOUS
    <3>3. "id" \in DOMAIN fields => fields.id \notin Requests
      <4>1. Ask(r).kind = "updateCase"  BY <2>2 DEF Marks, Writes, Kind
      <4> QED  BY <1>1, <3>2, <4>1, CatalogueAssumption DEF Shaped, WellAsked, Ask
    <3>4. ASSUME NEW c \in cases, c.id = Ask(r).id
          PROVE  /\ DOMAIN new(c) = {"id", "project", "api"}
                 /\ new(c).id \notin Requests \/ new(c).id = c.id
                 /\ Has(projects', new(c).project) /\ (new(c).api = None \/ Has(apis', new(c).api))
                 /\ \A d \in cases \ {c} : d.id # new(c).id
      <4>1. new(c) = [x \in DOMAIN c |-> IF x \in DOMAIN fields THEN fields[x] ELSE c[x]]
        BY Zenon, <3>2, <3>4 DEF UpdatedCase, Overwritten
      <4>2. PICK n : n = new(c)  OBVIOUS
      <4>3. CaseFits(r, c)  BY <2>2, <3>4
      <4>4. IsLive(n.project) /\ HasApi(n.api) /\ \A d \in cases \ {c} : d.id # n.id
        BY Zenon, <4>2, <4>3 DEF CaseFits
      <4>5. DOMAIN n = {"id", "project", "api"} /\ (n.id \notin Requests \/ n.id = c.id)
        BY <3>1, <3>3, <4>1, <4>2
      <4>6. Has(projects', n.project) /\ (n.api = None \/ Has(apis', n.api))
        BY <2>0, <4>4 DEF IsLive, HasApi
      <4> HIDE DEF new
      <4> QED  BY <4>2, <4>4, <4>5, <4>6
    <3>5. ASSUME NEW c \in cases, c.id # Ask(r).id PROVE new(c) = c
      BY Zenon, <3>5 DEF UpdatedCase
    <3> HIDE DEF new
    <3>6. \A x \in cases' : \E c \in cases : x = new(c)  BY Zenon, <2>2 DEF new
    <3>7. ASSUME NEW c \in cases
          PROVE  /\ DOMAIN new(c) = {"id", "project", "api"}
                 /\ new(c).id \notin Requests \/ new(c).id = c.id
                 /\ Has(projects', new(c).project) /\ (new(c).api = None \/ Has(apis', new(c).api))
      <4>1. CASE c.id = Ask(r).id  BY <3>4, <4>1
      <4>2. CASE c.id # Ask(r).id  BY <1>1, <2>0, <3>1, <3>5, <4>2 DEF CaseRows
      <4> QED  BY <4>1, <4>2
    <3>8. Unique(cases')
      <4> SUFFICES ASSUME NEW x \in cases', NEW y \in cases', x.id = y.id PROVE x = y  BY DEF Unique
      <4>1. PICK c \in cases : x = new(c)  BY <3>6
      <4>2. PICK d \in cases : y = new(d)  BY <3>6
      <4>3. c.id = d.id => c = d  BY <1>1 DEF CaseRows, Unique
      <4>4. c = d
        <5>1. CASE c.id = Ask(r).id /\ d.id # Ask(r).id  BY <3>4, <3>5, <4>1, <4>2, <5>1
        <5>2. CASE c.id # Ask(r).id /\ d.id = Ask(r).id  BY <3>4, <3>5, <4>1, <4>2, <5>2
        <5>3. CASE c.id = Ask(r).id /\ d.id = Ask(r).id  BY <4>3, <5>3
        <5>4. CASE c.id # Ask(r).id /\ d.id # Ask(r).id  BY <3>5, <4>1, <4>2, <4>3, <5>4
        <5> QED  BY <5>1, <5>2, <5>3, <5>4
      <4> QED  BY <4>1, <4>2, <4>4
    <3>9. CaseRows(projects', apis', cases')  BY <3>6, <3>7, <3>8 DEF CaseRows, Columns
    <3>10. \A x \in cases' : (\E b \in cases : b.id = x.id) \/ x.id \notin Requests  BY <3>6, <3>7
    <3> QED  BY <3>9, <3>10
  <2>3. CASE cases' = {c \in cases : c.id # Ask(r).id}
    BY <1>1, <2>0, <2>3 DEF CaseRows, Columns, Unique
  <2> QED  BY <1>6, <2>1, <2>2, <2>3 DEF ChangesCases
<1>7. CASE UNCHANGED cases /\ ~DeletesProject(r) /\ ~DeletesApi(r)  BY <1>1, <1>2, <1>7 DEF CaseRows
<1> QED  BY <1>4, <1>5, <1>6, <1>7, Touched

\* Every step is a query.
LEMMA FaultsStay ==
  ASSUME faults \in 0 .. MaxFaults, NEW r \in Requests, RequestStep(r)
  PROVE  faults' \in 0 .. MaxFaults
<1>1. ASSUME NEW ok \in BOOLEAN, Query(ok) PROVE faults' \in 0 .. MaxFaults
  BY <1>1, CatalogueAssumption DEF Query
<1>2. \E ok \in BOOLEAN : Query(ok)
  <2>1. CASE FindOwner(r)  BY Zenon, <2>1 DEF FindOwner
  <2>2. CASE FindMember(r)  BY Zenon, <2>2 DEF FindMember
  <2>3. CASE Find(r)  BY Zenon, <2>3 DEF Find
  <2>4. CASE FindAgain(r)  BY Zenon, <2>4 DEF FindAgain
  <2>5. CASE InsertProject(r)  BY Zenon, <2>5 DEF InsertProject
  <2>6. CASE InsertOwner(r)  BY Zenon, <2>6 DEF InsertOwner
  <2>7. CASE AddMember(r)  BY Zenon, <2>7 DEF AddMember
  <2>8. CASE SaveProject(r)  BY Zenon, <2>8 DEF SaveProject
  <2>9. CASE DeleteProject(r)  BY Zenon, <2>9 DEF DeleteProject
  <2>10. CASE InsertApi(r)  BY Zenon, <2>10 DEF InsertApi
  <2>11. CASE UpdateApi(r)  BY Zenon, <2>11 DEF UpdateApi
  <2>12. CASE UpdateTags(r)  BY Zenon, <2>12 DEF UpdateTags
  <2>13. CASE DeleteApi(r)  BY Zenon, <2>13 DEF DeleteApi
  <2>14. CASE CreateRule(r)  BY Zenon, <2>14 DEF CreateRule, OnRule
  <2>15. CASE UpdateRule(r)  BY Zenon, <2>15 DEF UpdateRule, OnRule
  <2>16. CASE DeleteRule(r)  BY Zenon, <2>16 DEF DeleteRule, OnRule
  <2>17. CASE RecordHit(r)  BY Zenon, <2>17 DEF RecordHit
  <2>18. CASE CreateCase(r)  BY Zenon, <2>18 DEF CreateCase, OnCase
  <2>19. CASE UpdateCase(r)  BY Zenon, <2>19 DEF UpdateCase, OnCase
  <2>20. CASE DeleteCase(r)  BY Zenon, <2>20 DEF DeleteCase, OnCase
  <2> QED
    BY <2>1, <2>2, <2>3, <2>4, <2>5, <2>6, <2>7, <2>8, <2>9, <2>10, <2>11, <2>12, <2>13, <2>14,
       <2>15, <2>16, <2>17, <2>18, <2>19, <2>20
    DEF RequestStep
<1> QED  BY <1>1, <1>2

LEMMA AllKnownStays ==
  ASSUME IInv, NEW r \in Requests, Effect(r)
  PROVE  AllKnown'
<1>1. /\ AllKnown /\ Shaped /\ (\A q \in Requests : Planned(q))
      /\ Others(r) /\ (Waits(r) \/ Advances(r) \/ Ceases(r))
  BY Frame DEF IInv
<1>2. \A id : /\ KnownProject(id) => KnownProject(id)'
              /\ KnownApi(id) => KnownApi(id)'
              /\ KnownCase(id) => KnownCase(id)'
  BY <1>1, Remembered
<1>3. ASSUME NEW p \in projects' PROVE KnownProject(p.id)'
  <2>1. CASE \E q \in projects : q.id = p.id  BY <1>1, <1>2, <2>1 DEF AllKnown
  <2>2. CASE InsertsProject(r) /\ p.id = r
    <3>1. Kind(r)' = "createProject" /\ req'[r].wrote
      BY <1>1, <2>2, Grows DEF InsertsProject, Marks, Writes
    <3> QED  BY <2>2, <3>1 DEF KnownProject, Made, Kind
  <2>3. CASE SavesProject(r) /\ p.id = req[r].seen.id
    <3>1. Plan(r) # <<>> /\ Step(r).do = "write" /\ Kind(r) = "updateProject"
      BY <2>3 DEF SavesProject, Writes, Onward
    <3>2. SawProject(r)  BY <1>1, <3>1, FirstWrite DEF SawProject
    <3>3. KnownProject(p.id)  BY <2>3, <3>2 DEF IInv, SeenProjects
    <3> QED  BY <1>2, <3>3
  <2> QED  BY <2>1, <2>2, <2>3, ProjectRowsStay
<1>4. ASSUME NEW a \in apis' PROVE KnownApi(a.id)'
  <2>1. CASE \E b \in apis : a.id = b.id  BY <1>1, <1>2, <2>1 DEF AllKnown
  <2>2. CASE InsertsApi(r) /\ a.id = <<r, Step(r).op>>
    <3>1. Step(r).op \in req'[r].created  BY <2>2 DEF InsertsApi
    <3> QED  BY <2>2, <3>1 DEF KnownApi
  <2> QED  BY <2>1, <2>2, ApiRowsStay
<1>5. ASSUME NEW c \in cases' PROVE KnownCase(c.id)'
  <2>1. CASE \E b \in cases : b.id = c.id  BY <1>1, <1>2, <2>1 DEF AllKnown
  <2>2. CASE c.id \notin Requests  BY <2>2 DEF KnownCase
  <2>3. CASE Marks(r, {"createCase"}) /\ c.id = r  BY <2>3 DEF KnownCase, Marks
  <2> QED  BY <2>1, <2>2, <2>3, CaseRowsStay
<1> QED  BY <1>3, <1>4, <1>5 DEF AllKnown

(***************************************************************************)
(* The rows that were read, and owners.                                    *)
(***************************************************************************)
\* The row a request holds is the one it held, or one of the tables.
LEMMA Held ==
  ASSUME IInv, NEW r \in Requests, Effect(r), NEW q \in Requests
  PROVE  /\ SawProject(q)' =>
              \/ SawProject(q) /\ req'[q].seen = req[q].seen
              \/ Reads(r) /\ q = r /\ req'[q].seen \in projects
         /\ SawApi(q)' =>
              \/ SawApi(q) /\ req'[q].seen = req[q].seen
              \/ Reads(r) /\ q = r /\ req'[q].seen \in apis /\ req'[q].seen.id = Ask(q).id
<1>1. /\ Kind(q)' = Kind(q) /\ Others(r) /\ (Waits(r) \/ Advances(r) \/ Ceases(r))
  BY Frame, Grows DEF IInv
<1>2. CASE req'[q].seen = req[q].seen  BY <1>1, <1>2 DEF SawProject, SawApi
<1>3. CASE req'[q].seen # req[q].seen
  <2>1. q = r  BY <1>1, <1>3 DEF Others, Unmoved
  <2>2. Step(r).do = "find" /\ Advances(r)  BY <1>1, <1>3, <2>1 DEF Waits, Advances, Ceases
  <2>3. Plan(r) # <<>> /\ Step(r).do \notin {"write", "join", "guard", "role"}  BY <2>2 DEF Advances, Onward
  <2>4. Reads(r)
    <3>1. CASE Asks(r) \/ Moves(r) \/ Fails(r)
      BY <1>3, <2>1, <3>1 DEF Asks, Moves, Fails
    <3>2. CASE Reads(r)  BY <3>2
    <3>3. CASE InsertsOwner(r)  BY <2>3, <3>3 DEF InsertsOwner
    <3>4. ASSUME NEW kinds, Writes(r, kinds) PROVE FALSE  BY <2>3, <3>4 DEF Writes
    <3>5. CASE InsertsProject(r) \/ AddsMember(r) \/ SavesProject(r) \/ DeletesProject(r) \/ InsertsApi(r)
               \/ UpdatesApi(r) \/ UpdatesTags(r) \/ DeletesApi(r) \/ RecordsHit(r) \/ ChangesCases(r)
      <4>1. \E kinds : Writes(r, kinds)
        BY Zenon, <3>5
        DEF InsertsProject, AddsMember, SavesProject, DeletesProject, InsertsApi, UpdatesApi, UpdatesTags,
            DeletesApi, RecordsHit, ChangesCases, Marks
      <4> QED  BY <3>4, <4>1
    <3> QED  BY <3>1, <3>2, <3>3, <3>5 DEF Effect, Rests
  <2>5. Kind(q) = "updateProject" => req'[q].seen \in projects  BY <2>1, <2>4 DEF Reads
  <2>6. Kind(q) \in ReadsApi => req'[q].seen \in apis /\ req'[q].seen.id = Ask(q).id
    BY <2>1, <2>4 DEF Reads, ReadsApi
  <2> QED  BY <1>1, <2>1, <2>4, <2>5, <2>6 DEF SawProject, SawApi
<1> QED  BY <1>2, <1>3

LEMMA SeenProjectsStay ==
  ASSUME IInv, NEW r \in Requests, Effect(r)
  PROVE  SeenProjects'
<1>1. /\ SeenProjects /\ AllKnown /\ Shaped /\ (\A q \in Requests : Planned(q))
      /\ Others(r) /\ (Waits(r) \/ Advances(r) \/ Ceases(r))
      /\ ProjectRows(projects)
  BY Frame, LinkedParts DEF IInv, TypeOK
<1>2. (\A id : KnownProject(id) => KnownProject(id)') /\ (Revived => Revived')  BY <1>1, Remembered
\* A row that somebody holds, before or after.
<1> DEFINE holds(q, row) == \/ SawProject(q) /\ row = req[q].seen
                            \/ Reads(r) /\ row \in projects
<1>3. \A q \in Requests : SawProject(q)' => holds(q, req'[q].seen)  BY Held
<1>4. ASSUME NEW q \in Requests, NEW row, holds(q, row)
      PROVE  /\ DOMAIN row = {"id", "owner", "slug", "name"} /\ KnownProject(row.id)
             /\ \A p \in projects : p.id = row.id => p.slug = row.slug /\ (Revived \/ p.owner = row.owner)
  <2>1. CASE SawProject(q) /\ row = req[q].seen  BY <1>1, <2>1 DEF SeenProjects
  <2>2. CASE row \in projects  BY <1>1, <2>2 DEF AllKnown, ProjectRows, Columns, Unique
  <2> QED  BY <1>4, <2>1, <2>2
<1>5. ASSUME NEW q \in Requests, NEW row, holds(q, row), NEW o \in Requests, NEW other, holds(o, other),
             row.id = other.id
      PROVE  other.slug = row.slug
  <2>1. CASE row \in projects  BY <1>4, <1>5, <2>1
  <2>2. CASE other \in projects  BY <1>4, <1>5, <2>2
  <2>3. CASE SawProject(q) /\ row = req[q].seen /\ SawProject(o) /\ other = req[o].seen
    BY <1>1, <1>5, <2>3 DEF SeenProjects
  <2> QED  BY <1>5, <2>1, <2>2, <2>3
<1>6. ASSUME NEW q \in Requests, NEW row, holds(q, row), NEW p \in projects', p.id = row.id
      PROVE  p.slug = row.slug /\ (Revived' \/ p.owner = row.owner)
  <2>1. CASE \E o \in projects : o.id = p.id /\ o.slug = p.slug /\ (Revived' \/ o.owner = p.owner)
    BY <1>2, <1>4, <1>6, <2>1
  <2>2. CASE InsertsProject(r) /\ ~KnownProject(r) /\ p.id = r  BY <1>4, <1>6, <2>2
  <2>3. CASE SavesProject(r) /\ Revived' /\ p.id = req[r].seen.id /\ p.slug = req[r].seen.slug
    <3>1. Plan(r) # <<>> /\ Step(r).do = "write" /\ Kind(r) = "updateProject"
      BY <2>3 DEF SavesProject, Writes, Onward
    <3>2. SawProject(r)  BY <1>1, <3>1, FirstWrite DEF SawProject
    <3>3. PICK mine : mine = req[r].seen  OBVIOUS
    <3>4. holds(r, mine) /\ row.id = mine.id  BY <1>6, <2>3, <3>2, <3>3
    <3>5. row.slug = mine.slug  BY <1>5, <1>6, <3>4
    <3> QED  BY <2>3, <3>3, <3>5
  <2> QED  BY <2>1, <2>2, <2>3, ProjectRowsStay
<1> HIDE DEF holds
<1>7. ASSUME NEW q \in Requests, SawProject(q)'
      PROVE  /\ DOMAIN req'[q].seen = {"id", "owner", "slug", "name"} /\ KnownProject(req[q].seen.id)'
             /\ \A p \in projects' : p.id = req'[q].seen.id =>
                  p.slug = req'[q].seen.slug /\ (Revived' \/ p.owner = req'[q].seen.owner)
             /\ \A o \in Requests : SawProject(o)' /\ req'[o].seen.id = req'[q].seen.id =>
                  req'[o].seen.slug = req'[q].seen.slug
  <2>1. PICK row : row = req'[q].seen  OBVIOUS
  <2>2. holds(q, row)
    <3>1. holds(q, req'[q].seen)  BY <1>3, <1>7
    <3> QED  BY <2>1, <3>1
  <2>3. DOMAIN row = {"id", "owner", "slug", "name"} /\ KnownProject(row.id)  BY <1>4, <2>2
  <2>4. KnownProject(row.id)'  BY <1>2, <2>3
  <2>5. \A p \in projects' : p.id = row.id => p.slug = row.slug /\ (Revived' \/ p.owner = row.owner)
    BY <1>6, <2>2
  <2>6. ASSUME NEW o \in Requests, SawProject(o)', req'[o].seen.id = row.id PROVE req'[o].seen.slug = row.slug
    <3>1. PICK other : other = req'[o].seen  OBVIOUS
    <3>2. holds(o, other)
      <4>1. holds(o, req'[o].seen)  BY <1>3, <2>6
      <4> QED  BY <3>1, <4>1
    <3> QED  BY <1>5, <2>2, <2>6, <3>1, <3>2
  <2>7. KnownProject(req[q].seen.id)'  BY Zenon, <2>1, <2>4 DEF KnownProject, Made, Has
  <2> QED  BY <2>1, <2>3, <2>5, <2>6, <2>7
<1> QED  BY <1>7 DEF SeenProjects

LEMMA SeenApisStay ==
  ASSUME IInv, NEW r \in Requests, Effect(r)
  PROVE  SeenApis'
<1>1. /\ SeenApis /\ AllKnown /\ Shaped /\ (\A q \in Requests : Planned(q))
      /\ Others(r) /\ (Waits(r) \/ Advances(r) \/ Ceases(r))
      /\ ApiRows(projects, apis)
  BY Frame, LinkedParts DEF IInv, TypeOK
<1>2. \A id : (KnownProject(id) => KnownProject(id)') /\ (KnownApi(id) => KnownApi(id)')
  BY <1>1, Remembered
<1>3. \A q \in Requests : Ask(q)' = Ask(q)  BY <1>1, Grows
<1>4. ASSUME NEW q \in Requests, SawApi(q)'
      PROVE  /\ DOMAIN req'[q].seen = {"id", "project", "path", "method", "tags"}
             /\ req'[q].seen.id = Ask(q).id
             /\ KnownApi(req[q].seen.id)' /\ KnownProject(req[q].seen.project)'
             /\ \A a \in apis' : a.id = req'[q].seen.id => a.project = req'[q].seen.project
  <2>1. PICK row : row = req'[q].seen  OBVIOUS
  <2>2. /\ DOMAIN row = {"id", "project", "path", "method", "tags"} /\ row.id = Ask(q).id
        /\ KnownApi(row.id) /\ KnownProject(row.project)
        /\ \A a \in apis : a.id = row.id => a.project = row.project
    <3>1. CASE SawApi(q) /\ row = req[q].seen  BY <1>1, <3>1 DEF SeenApis
    <3>2. CASE row \in apis /\ row.id = Ask(q).id
      BY <1>1, <3>2 DEF AllKnown, ApiRows, Columns, Unique, Has
    <3> QED  BY <1>4, <2>1, <3>1, <3>2, Held
  <2>3. KnownApi(row.id)' /\ KnownProject(row.project)'  BY <1>2, <2>2
  <2>4. KnownApi(req[q].seen.id)' /\ KnownProject(req[q].seen.project)'
    BY Zenon, <2>1, <2>3 DEF KnownProject, KnownApi, Made, Has
  <2>5. \A a \in apis' : a.id = row.id => a.project = row.project
    <3> SUFFICES ASSUME NEW a \in apis', a.id = row.id PROVE a.project = row.project  OBVIOUS
    <3>1. \/ \E b \in apis : a.id = b.id /\ a.project = b.project
          \/ ~KnownApi(a.id)
      BY ApiRowsStay
    <3>2. KnownApi(a.id)  BY <2>2
    <3> QED  BY <2>2, <3>1, <3>2
  <2> QED  BY <1>3, <2>1, <2>2, <2>4, <2>5
<1> QED  BY <1>3, <1>4 DEF SeenApis

(***************************************************************************)
(* Owners and roles.                                                       *)
(***************************************************************************)
LEMMA OwnersKeptStays ==
  ASSUME IInv, NEW r \in Requests, Effect(r)
  PROVE  OwnersKept'
<1>1. /\ OwnersKept /\ Shaped /\ (\A q \in Requests : Planned(q))
      /\ Others(r) /\ (Waits(r) \/ Advances(r) \/ Ceases(r))
  BY Frame DEF IInv
<1>2. \A q \in Requests : Ask(q)' = Ask(q)  BY <1>1, Grows
<1>3. Revived => Revived'  BY <1>1, Remembered
<1> SUFFICES ASSUME ~Revived', NEW p \in projects', p.id \in Requests PROVE p.owner = Ask(p.id)'.by
  BY DEF OwnersKept
<1>4. p.owner = Ask(p.id).by  BY <1>1, <1>3, ProjectRowsStay DEF OwnersKept
<1> QED  BY <1>2, <1>4

LEMMA CreationSteps ==
  ASSUME NEW r, Kind(r) = "createProject"
  PROVE  \A step \in StepsOf(r) : step.do \in {"write", "join"}
<1>1. PICK all : all = Todo(Ask(r))  OBVIOUS
<1>2. PICK ops : ops = Ask(r).ops  OBVIOUS
<1>3. PICK p : p = Program("createProject")  OBVIOUS
<1>4. p = <<"write", "join">>  BY <1>3, Programs
<1>5. all = [i \in DOMAIN p |-> [do |-> p[i], op |-> ops[1]]]
  <2>1. Ask(r).kind = "createProject"  BY DEF Kind
  <2>2. all = Steps("createProject", ops)  BY Zenon, <1>1, <1>2, <2>1 DEF Todo
  <2> QED  BY <1>3, <2>2 DEF Steps
<1>6. StepsOf(r) = {all[i] : i \in DOMAIN all}  BY <1>1 DEF StepsOf
<1>7. DOMAIN p = 1 .. 2 /\ p[1] = "write" /\ p[2] = "join"  BY <1>4
<1>8. \A i \in DOMAIN all : all[i].do \in {"write", "join"}
  <2>1. DOMAIN all = 1 .. 2 /\ \A i \in 1 .. 2 : all[i].do = p[i]  BY <1>5, <1>7
  <2> QED  BY <1>7, <2>1
<1> QED  BY <1>6, <1>8

LEMMA OwnerListedStays ==
  ASSUME IInv, NEW r \in Requests, Effect(r)
  PROVE  OwnerListed'
<1>1. /\ OwnerListed /\ OwnersKept /\ Answering /\ Shaped /\ AllKnown
      /\ (\A q \in Requests : Planned(q))
      /\ Others(r) /\ (Waits(r) \/ Advances(r) \/ Ceases(r)) /\ setup \in Setups
  BY Frame DEF IInv, Shaped
<1>2. Revived => Revived'  BY <1>1, Remembered
<1>3. Plan(r) # <<>> /\ req[r].answer # "ok"  BY <1>1, Grows DEF Answering
<1> SUFFICES ASSUME NEW p \in projects', ~Revived'
             PROVE  \/ Member(p.id, p.owner, "admin") \in members'
                    \/ p.id \in Requests /\ req'[p.id].answer # "ok"
  BY DEF OwnerListed
<1>4. CASE InsertsProject(r) /\ p.id = r
  <2>1. Kind(r) = "createProject" /\ Step(r).do = "write" /\ req'[r].todo = Tail(Plan(r)) /\ Replies(r)
    BY <1>4 DEF InsertsProject, Marks, Writes, Onward
  <2>2. req'[r].todo # <<>>
    <3>1. PICK s : s = Plan(r)  OBVIOUS
    <3>2. s \in Seq(StepsOf(r)) /\ s # <<>> /\ Step(r) = Head(s)  BY <1>1, <1>3, <3>1 DEF Shaped, Step, Plan
    <3>3. JoinLast(s)
      <4>1. Planned(r)  BY <1>1
      <4> QED  BY <2>1, <3>1, <4>1 DEF Planned
    <3>4. PICK t : t = Tail(s)  OBVIOUS
    <3>5. Len(s) \in Nat /\ Len(s) >= 1 /\ Len(t) = Len(s) - 1 /\ Head(s) = s[1]  BY <3>2, <3>4, Tails
    <3>6. 1 < Len(s)  BY <2>1, <3>2, <3>3, <3>5 DEF JoinLast
    <3>7. t # <<>>  BY <3>5, <3>6
    <3> QED  BY <2>1, <3>1, <3>4, <3>7
  <2> QED  BY <1>3, <1>4, <2>1, <2>2 DEF Replies
<1>5. ASSUME NEW q \in projects, q.id = p.id, q.owner = p.owner
      PROVE  \/ Member(p.id, p.owner, "admin") \in members'
             \/ p.id \in Requests /\ req'[p.id].answer # "ok"
  <2>1. CASE Member(q.id, q.owner, "admin") \in members
    <3>1. PICK m : m = Member(p.id, p.owner, "admin")  OBVIOUS
    <3>2. m \in members /\ m.project = p.id  BY <1>5, <2>1, <3>1 DEF Member
    <3>3. DeletesProject(r) => p.id # Ask(r).pid  BY DEF DeletesProject
    <3>4. m \in members'
      <4>1. CASE DeletesProject(r)  BY <3>2, <3>3, <4>1 DEF DeletesProject
      <4>2. CASE InsertsOwner(r)  BY <3>2, <4>2 DEF InsertsOwner
      <4>3. CASE AddsMember(r)  BY <3>2, <4>3 DEF AddsMember
      <4>4. CASE UNCHANGED members  BY <3>2, <4>4
      <4> QED  BY <4>1, <4>2, <4>3, <4>4, Touched
    <3> QED  BY <3>1, <3>4
  <2>2. CASE q.id \in Requests /\ req[q.id].answer # "ok"
    <3>1. CASE p.id # r  BY <1>1, <1>5, <2>2, <3>1 DEF Others, Unmoved
    <3>2. CASE p.id = r
      <4>1. ~\E o \in setup.projects : o.id = r  BY <1>1, CatalogueAssumption
      <4>2. Kind(r) = "createProject" /\ req[r].wrote
        BY <1>1, <1>5, <3>2, <4>1 DEF AllKnown, KnownProject, Has, Made, Kind
      <4>3. Step(r).do = "join"
        <5>1. PICK s : s = Plan(r)  OBVIOUS
        <5>2. s \in Seq(StepsOf(r)) /\ s # <<>> /\ Step(r) = Head(s)
          BY <1>1, <1>3, <5>1 DEF Shaped, Step, Plan
        <5>3. Step(r).do \in {"write", "join"}  BY <4>2, <5>2, CreationSteps
        <5>4. Step(r).do # "write"  BY <1>1, <1>3, <4>2, FirstWrite
        <5> QED  BY <5>3, <5>4
      <4>4. CASE InsertsOwner(r)
        <5>1. p.owner = Ask(r).by  BY <1>1, <1>2, <1>5, <3>2 DEF OwnersKept
        <5> QED  BY <3>2, <4>4, <5>1 DEF InsertsOwner
      <4>5. CASE Fails(r)
        <5>1. Stops(r)  BY <4>2, <4>5 DEF Fails, Skips
        <5> QED  BY <1>3, <3>2, <5>1 DEF Stops
      <4>6. InsertsOwner(r) \/ Fails(r)
        <5>1. CASE Asks(r) \/ Moves(r) \/ Reads(r)  BY <4>3, <5>1 DEF Asks, Moves, Reads
        <5>2. ASSUME NEW kinds, Writes(r, kinds) PROVE FALSE  BY <4>3, <5>2 DEF Writes
        <5>3. CASE InsertsProject(r) \/ AddsMember(r) \/ SavesProject(r) \/ DeletesProject(r)
                   \/ InsertsApi(r) \/ UpdatesApi(r) \/ UpdatesTags(r) \/ DeletesApi(r)
                   \/ RecordsHit(r) \/ ChangesCases(r)
          <6>1. \E kinds : Writes(r, kinds)
            BY Zenon, <5>3
            DEF InsertsProject, AddsMember, SavesProject, DeletesProject, InsertsApi, UpdatesApi,
                UpdatesTags, DeletesApi, RecordsHit, ChangesCases, Marks
          <6> QED  BY <5>2, <6>1
        <5> QED  BY <5>1, <5>3 DEF Effect, Rests
      <4> QED  BY <4>4, <4>5, <4>6
    <3> QED  BY <3>1, <3>2
  <2> QED  BY <1>1, <1>2, <2>1, <2>2 DEF OwnerListed
<1> QED  BY <1>4, <1>5, ProjectRowsStay

\* RoleOf, in tables given.
RoleIn(ps, ms, user, pid) ==
  IF \E p \in ps : p.id = pid /\ p.owner = user THEN "admin"
  ELSE IF \E m \in ms : m.project = pid /\ m.user = user
  THEN (CHOOSE m \in ms : m.project = pid /\ m.user = user).role
  ELSE "stranger"

LEMMA SameRole ==
  ASSUME NEW ps, NEW ms, NEW ps2, NEW ms2, NEW user, NEW pid,
         \A m, n \in ms2 : m.project = n.project /\ m.user = n.user => m = n,
         \A m \in ms : m.project = pid => m \in ms2,
         (\E p \in ps : p.id = pid /\ p.owner = user) <=> (\E p \in ps2 : p.id = pid /\ p.owner = user),
         RoleIn(ps, ms, user, pid) \in Roles
  PROVE  RoleIn(ps2, ms2, user, pid) = RoleIn(ps, ms, user, pid)
<1>1. CASE \E p \in ps : p.id = pid /\ p.owner = user  BY <1>1 DEF RoleIn
<1>2. CASE ~\E p \in ps : p.id = pid /\ p.owner = user
  <2>1. \E m \in ms : m.project = pid /\ m.user = user
    <3> SUFFICES ASSUME ~\E m \in ms : m.project = pid /\ m.user = user PROVE FALSE  OBVIOUS
    <3>1. RoleIn(ps, ms, user, pid) = "stranger"  BY <1>2 DEF RoleIn
    <3> QED  BY <3>1 DEF Roles
  <2>2. PICK m : m = CHOOSE x \in ms : x.project = pid /\ x.user = user  OBVIOUS
  <2>3. m \in ms /\ m.project = pid /\ m.user = user  BY <2>1, <2>2
  <2>4. m \in ms2  BY <2>3
  <2>5. PICK n : n = CHOOSE x \in ms2 : x.project = pid /\ x.user = user  OBVIOUS
  <2>6. n \in ms2 /\ n.project = pid /\ n.user = user  BY <2>3, <2>4, <2>5
  <2>7. n = m  BY <2>3, <2>4, <2>6
  <2>8. RoleIn(ps, ms, user, pid) = m.role  BY <1>2, <2>1, <2>2 DEF RoleIn
  <2>9. RoleIn(ps2, ms2, user, pid) = n.role  BY <1>2, <2>5, <2>6 DEF RoleIn
  <2> QED  BY <2>7, <2>8, <2>9
<1> QED  BY <1>1, <1>2

\* A known project is there with the owner it had, unless it is saved.
LEMMA OwnersLast ==
  ASSUME IInv, NEW r \in Requests, Effect(r), ~SavesProject(r), NEW pid, KnownProject(pid)
  PROVE  SameOwner(pid)
<1>1. CASE InsertsProject(r)
  <2>1. PICK new : new = [id |-> r, owner |-> Ask(r).by, slug |-> Ask(r).arg, name |-> "first"]
    OBVIOUS
  <2>2. projects' = projects \union {new} /\ new.id = r  BY <1>1, <2>1 DEF InsertsProject
  <2>3. ~KnownProject(r)
    <3>1. Plan(r) # <<>> /\ Step(r).do = "write" /\ Kind(r) = "createProject"
      BY <1>1 DEF InsertsProject, Marks, Writes, Onward
    <3>2. Shaped /\ Planned(r) /\ Accounted  BY DEF IInv
    <3> QED  BY <3>1, <3>2, NewIds
  <2>4. pid # r  BY <2>3
  <2> QED  BY <2>2, <2>4 DEF SameOwner
<1>2. CASE DeletesProject(r)  BY <1>2 DEF DeletesProject, SameOwner
<1>3. CASE UNCHANGED projects  BY <1>3 DEF SameOwner
<1> QED  BY <1>1, <1>2, <1>3, Touched

\* A role lasts as long as its project and the owner of that.
LEMMA RolesLast ==
  ASSUME IInv, NEW r \in Requests, Effect(r), NEW pid, SameOwner(pid), Has(projects', pid)
  PROVE  /\ IsLive(pid)
         /\ \A user : RoleOf(user, pid) \in Roles =>
              RoleIn(projects', members', user, pid) = RoleOf(user, pid)
<1>1. ProjectRows(projects) /\ MemberRows(projects', members')
  BY LinkedParts, MemberRowsStay DEF IInv, TypeOK
<1>2. ASSUME NEW p \in projects', p.id = pid
      PROVE  \E q \in projects : q.id = pid /\ q.owner = p.owner
  BY <1>2 DEF SameOwner
<1>3. PICK p \in projects' : p.id = pid  BY DEF Has
<1>4. IsLive(pid)  BY <1>2, <1>3 DEF IsLive, Has
<1>5. ASSUME NEW user, RoleOf(user, pid) \in Roles
      PROVE  RoleIn(projects', members', user, pid) = RoleOf(user, pid)
  <2>1. RoleOf(user, pid) = RoleIn(projects, members, user, pid)  BY DEF RoleOf, RoleIn
  <2>2. (\E q \in projects : q.id = pid /\ q.owner = user) <=> (\E q \in projects' : q.id = pid /\ q.owner = user)
    <3>1. ASSUME NEW q \in projects, q.id = pid PROVE p.owner = q.owner
      BY <1>1, <1>2, <1>3, <3>1 DEF ProjectRows, Unique
    <3> QED  BY <1>2, <1>3, <3>1
  <2>3. \A m \in members : m.project = pid => m \in members'
    <3>1. CASE DeletesProject(r)
      <4>1. pid # Ask(r).pid  BY <1>3, <3>1 DEF DeletesProject
      <4> QED  BY <3>1, <4>1 DEF DeletesProject
    <3>2. CASE InsertsOwner(r)  BY <3>2 DEF InsertsOwner
    <3>3. CASE AddsMember(r)  BY <3>3 DEF AddsMember
    <3>4. CASE UNCHANGED members  BY <3>4
    <3> QED  BY <3>1, <3>2, <3>3, <3>4, Touched
  <2>4. \A m, n \in members' : m.project = n.project /\ m.user = n.user => m = n  BY <1>1 DEF MemberRows
  <2> QED  BY <1>5, <2>1, <2>2, <2>3, <2>4, SameRole
<1> QED  BY <1>4, <1>5

\* What was done before a write under a role.
LEMMA RoleBefore ==
  ASSUME IInv, NEW r \in Requests, Effect(r), Kind(r) \in ApiWriters,
         req'[r].todo # <<>>, Head(req'[r].todo).do = "write"
  PROVE  Moves(r) /\ Step(r).do = "role"
<1>1. /\ Shaped /\ Planned(r) /\ Accounted
      /\ Others(r) /\ (Waits(r) \/ Advances(r) \/ Ceases(r))
  BY Frame DEF IInv
<1>2. PICK s : s = Plan(r)  OBVIOUS
<1>3. PICK t : t = req'[r].todo  OBVIOUS
<1>4. PICK u : u = Tail(s)  OBVIOUS
<1>5. s \in Seq(StepsOf(r)) /\ s # <<>> /\ Step(r) = Head(s)
  BY <1>1, <1>2 DEF Shaped, Waits, Advances, Onward, Ceases, Skips, Stops, Step, Plan
<1>6. RoleFirst(s)  BY <1>1, <1>2 DEF Planned
<1>7. RoleFirst(u) /\ (u # <<>> /\ Head(u).do = "write" => Head(s).do = "role")
  BY Zenon, <1>4, <1>5, <1>6, PlanTails
<1>8. t # <<>> /\ Head(t).do = "write"  BY <1>3
<1>9. CASE Waits(r)
  <2>1. t = s  BY <1>2, <1>3, <1>9 DEF Waits
  <2> QED  BY <1>5, <1>8, <1>9, <2>1 DEF Waits
<1>10. CASE Advances(r)
  <2>1. t = u  BY <1>2, <1>3, <1>4, <1>10 DEF Advances, Onward
  <2>2. Step(r).do = "role"  BY <1>5, <1>7, <1>8, <2>1
  <2>3. CASE Asks(r) \/ Fails(r)
    <3>1. CASE Asks(r)
      <4>1. t = s  BY <1>2, <1>3, <3>1 DEF Asks
      <4> QED  BY <1>5, <1>8, <2>2, <4>1
    <3>2. CASE Fails(r) /\ Stops(r)  BY <1>3, <1>8, <3>2 DEF Stops
    <3>3. CASE Fails(r) /\ Skips(r)
      <4>1. t = Tail(u) /\ Kind(r) = "import"
        BY <1>2, <1>3, <1>4, <2>2, <3>3 DEF Skips, RestAfterFailure, Plan, Step
      <4>2. Len(t) = Len(u) - 1 /\ Len(t) \in Nat
        BY <1>4, <1>5, <2>1, <1>8, <4>1, Tails
      <4> QED  BY <2>1, <4>2
    <3> QED  BY <2>3, <3>1, <3>2, <3>3 DEF Fails
  <2>4. CASE Reads(r) \/ InsertsOwner(r)  BY <2>2, <2>4 DEF Reads, InsertsOwner
  <2>5. ASSUME NEW kinds, Writes(r, kinds) PROVE FALSE  BY <2>2, <2>5 DEF Writes
  <2>6. CASE InsertsProject(r) \/ AddsMember(r) \/ SavesProject(r) \/ DeletesProject(r)
             \/ InsertsApi(r) \/ UpdatesApi(r) \/ UpdatesTags(r) \/ DeletesApi(r)
             \/ RecordsHit(r) \/ ChangesCases(r)
    <3>1. \E kinds : Writes(r, kinds)
      BY Zenon, <2>6
      DEF InsertsProject, AddsMember, SavesProject, DeletesProject, InsertsApi, UpdatesApi,
          UpdatesTags, DeletesApi, RecordsHit, ChangesCases, Marks
    <3> QED  BY <2>5, <3>1
  <2> QED  BY <2>2, <2>3, <2>4, <2>6 DEF Effect, Rests
<1>11. CASE Ceases(r) /\ Stops(r)  BY <1>3, <1>8, <1>11 DEF Stops
<1>12. CASE Ceases(r) /\ Skips(r)
  <2>1. Kind(r) = "import" /\ t = (IF Step(r).do = "role" THEN Tail(u) ELSE u) /\ Step(r).do # "guard"
    BY <1>2, <1>3, <1>4, <1>12 DEF Skips, RestAfterFailure, Plan, Step
  <2>2. ImportPlan(s)
    <3>1. Imports(r)  BY <1>1, <2>1 DEF Accounted
    <3> QED  BY <1>2, <3>1 DEF Imports
  <2>3. Head(s).do = "role" => u # <<>> /\ Head(u).do = "write"
    BY Zenon, <1>4, <1>5, <2>2, ImportTails
  <2>4. CASE Step(r).do = "role"
    <3>1. u \in Seq(StepsOf(r))  BY <1>4, <1>5, Tails
    <3>2. t = Tail(u) /\ u # <<>> /\ Head(u).do = "write"  BY <1>5, <2>1, <2>3, <2>4
    <3>3. t # <<>> /\ Head(t).do = "write" => Head(u).do = "role"
      BY Zenon, <1>7, <3>1, <3>2, PlanTails
    <3> QED  BY <1>8, <3>2, <3>3
  <2>5. CASE Step(r).do # "role"  BY <1>5, <1>7, <1>8, <2>1, <2>5
  <2> QED  BY <2>4, <2>5
<1> QED  BY <1>1, <1>9, <1>10, <1>11, <1>12 DEF Ceases

LEMMA RoleHeldStays ==
  ASSUME IInv, NEW r \in Requests, Effect(r)
  PROVE  RoleHeld'
<1>1. /\ RoleHeld /\ Shaped /\ AllKnown /\ (\A q \in Requests : Planned(q))
      /\ Others(r) /\ (Waits(r) \/ Advances(r) \/ Ceases(r))
  BY Frame DEF IInv
<1>2. \A q \in Requests : Ask(q)' = Ask(q) /\ Kind(q)' = Kind(q)  BY <1>1, Grows
<1>3. \A id : KnownProject(id) => KnownProject(id)'  BY <1>1, Remembered
<1> SUFFICES ASSUME NEW q \in Requests, Kind(q) \in ApiWriters, req'[q].todo # <<>>,
                    Head(req'[q].todo).do = "write"
             PROVE  /\ KnownProject(TargetProject(q))'
                    /\ \/ ~IsLive(TargetProject(q))'
                       \/ RoleOf(Ask(q).by, TargetProject(q))' \in Needed(Kind(q))
                       \/ Head(req'[q].todo).op \in req'[q].overtaken
  BY <1>2 DEF RoleHeld, Plan, Step, Needed
<1>4. PICK pid : pid = TargetProject(q)'  OBVIOUS
<1>5. PICK user : user = Ask(q).by  OBVIOUS
<1>6. \A role : role \in Needed(Kind(q)) => role \in Roles  BY DEF Needed, Writers, Roles
<1> DEFINE Late == Head(req'[q].todo).op \in req'[q].overtaken
<1>7. /\ KnownProject(pid)
      /\ ~IsLive(pid) \/ RoleOf(user, pid) \in Needed(Kind(q)) \/ Late
      /\ SameOwner(pid) \/ Late
  <2>1. CASE q = r
    <3>1. Moves(r) /\ Step(r).do = "role"  BY <2>1, RoleBefore
    <3>2. /\ IsLive(RoleProject(r)) /\ RoleOf(Ask(r).by, RoleProject(r)) \in Needed(Kind(r))
          /\ req'[r].seen = req[r].seen
      BY <3>1 DEF Moves
    <3>3. RoleProject(r) = TargetProject(r)  BY <3>1 DEF RoleProject
    <3>4. pid = RoleProject(r)  BY <1>2, <1>4, <2>1, <3>2, <3>3 DEF TargetProject
    <3>5. KnownProject(RoleProject(r))  BY <1>1, <3>2 DEF IsLive, Has, AllKnown
    <3>6. KnownProject(pid)  BY <3>4, <3>5
    <3>7. RoleOf(user, pid) = RoleOf(Ask(r).by, RoleProject(r))  BY <1>5, <2>1, <3>4 DEF RoleOf
    <3>8. ~SavesProject(r)  BY <3>1 DEF SavesProject, Writes
    <3>9. SameOwner(pid)  BY <3>6, <3>8, OwnersLast
    <3> QED  BY <2>1, <3>2, <3>6, <3>7, <3>9
  <2>2. CASE q # r
    <3>1. req'[q].todo = req[q].todo /\ req'[q].seen = req[q].seen  BY <1>1, <2>2 DEF Others, Unmoved
    <3>2. pid = TargetProject(q)  BY <1>2, <1>4, <3>1 DEF TargetProject
    <3>3. /\ KnownProject(TargetProject(q))
          /\ \/ ~IsLive(TargetProject(q))
             \/ RoleOf(Ask(q).by, TargetProject(q)) \in Needed(Kind(q))
             \/ Step(q).op \in req[q].overtaken
      BY <1>1, <3>1 DEF RoleHeld, Plan, Step
    <3>4. RoleOf(user, pid) = RoleOf(Ask(q).by, TargetProject(q))  BY <1>5, <3>2 DEF RoleOf
    <3>5. IsLive(pid) => IsLive(TargetProject(q))  BY <3>2
    <3>6. KnownProject(pid)  BY <3>2, <3>3
    <3>7. Step(q).op \in req[q].overtaken => Late
      <4>1. req[q].overtaken \subseteq req'[q].overtaken  BY <1>1, <2>2 DEF Others
      <4> QED  BY <3>1, <4>1 DEF Step
    <3>8. SameOwner(pid) \/ Late
      <4>1. CASE SavesProject(r)
        <5>1. Plan(q) # <<>> /\ Step(q).do = "write"  BY <3>1 DEF Plan, Step
        <5>2. SameOwner(TargetProject(q)) \/ Step(q).op \in req'[q].overtaken
          BY <2>2, <4>1, <5>1 DEF SavesProject
        <5>3. SameOwner(TargetProject(q)) => SameOwner(pid)  BY <3>2 DEF SameOwner
        <5> QED  BY <3>1, <5>2, <5>3 DEF Step
      <4>2. CASE ~SavesProject(r)  BY <3>6, <4>2, OwnersLast
      <4> QED  BY <4>1, <4>2
    <3> QED  BY <3>3, <3>4, <3>5, <3>6, <3>7, <3>8
  <2> QED  BY <2>1, <2>2
<1>8. KnownProject(TargetProject(q))'
  <2>1. KnownProject(pid)'  BY <1>3, <1>7
  <2> QED  BY Zenon, <1>4, <2>1 DEF KnownProject, Made, Has
<1> HIDE DEF Late
<1>9. ASSUME IsLive(TargetProject(q))', ~Late
      PROVE  RoleOf(Ask(q).by, TargetProject(q))' \in Needed(Kind(q))
  <2>1. Has(projects', pid)  BY <1>4, <1>9 DEF IsLive, Has
  <2>2. /\ IsLive(pid)
        /\ \A u : RoleOf(u, pid) \in Roles =>
             RoleIn(projects', members', u, pid) = RoleOf(u, pid)
    BY <1>7, <1>9, <2>1, RolesLast
  <2>3. RoleIn(projects', members', user, pid) \in Needed(Kind(q))  BY <1>6, <1>7, <1>9, <2>2
  <2>4. RoleOf(Ask(q).by, TargetProject(q))' = RoleIn(projects', members', user, pid)
    <3>1. user = Ask(q)'.by  BY <1>2, <1>5
    <3> QED  BY Zenon, <1>4, <3>1 DEF RoleOf, RoleIn
  <2> QED  BY <2>3, <2>4
<1> QED  BY <1>8, <1>9 DEF Late

(***************************************************************************)
(* Tags and imports.                                                       *)
(***************************************************************************)
LEMMA NewlyTagged ==
  ASSUME IInv, NEW r \in Requests, Effect(r), NEW x \in Requests, Tagged(x)'
  PROVE  Tagged(x) \/ (x = r /\ UpdatesTags(r))
<1>1. /\ Shaped /\ (\A q \in Requests : Planned(q))
      /\ Others(r) /\ (Waits(r) \/ Advances(r) \/ Ceases(r))
  BY Frame DEF IInv
<1>2. Kind(x) = "addTag" /\ req'[x].wrote  BY <1>1, Grows DEF Tagged
<1>3. CASE x # r  BY <1>1, <1>2, <1>3 DEF Others, Unmoved, Tagged
<1>4. CASE x = r
  <2>1. CASE Rests(r) \/ InsertsOwner(r) \/ RecordsHit(r)
    <3>1. Kept(r)  BY <2>1 DEF Rests, Asks, Moves, Reads, Fails, InsertsOwner, RecordsHit
    <3> QED  BY <1>2, <1>4, <3>1 DEF Kept, Tagged
  <2>2. ASSUME NEW kinds, Writes(r, kinds), "addTag" \notin kinds PROVE FALSE
    BY <1>2, <1>4, <2>2 DEF Writes
  <2>3. CASE InsertsProject(r) \/ AddsMember(r) \/ SavesProject(r) \/ DeletesProject(r)
             \/ InsertsApi(r) \/ UpdatesApi(r) \/ DeletesApi(r) \/ ChangesCases(r)
    <3>1. \/ Writes(r, {"createProject"}) \/ Writes(r, {"addMember"}) \/ Writes(r, {"updateProject"})
          \/ Writes(r, {"deleteProject"}) \/ Writes(r, {"createApi", "import"}) \/ Writes(r, {"updateApi"})
          \/ Writes(r, {"deleteApi"}) \/ Writes(r, {"createCase"}) \/ Writes(r, {"updateCase"})
          \/ Writes(r, {"deleteCase"})
      BY Zenon, <2>3
      DEF InsertsProject, AddsMember, SavesProject, DeletesProject, InsertsApi, UpdatesApi,
          DeletesApi, ChangesCases, Marks
    <3> QED  BY <2>2, <3>1
  <2> QED  BY <1>4, <2>1, <2>3 DEF Effect
<1> QED  BY <1>3, <1>4

LEMMA TagsReadStays ==
  ASSUME IInv, NEW r \in Requests, Effect(r)
  PROVE  TagsRead'
<1>1. /\ TagsRead /\ TagsKept /\ AllKnown /\ Shaped /\ (\A q \in Requests : Planned(q))
      /\ Others(r) /\ (Waits(r) \/ Advances(r) \/ Ceases(r))
  BY Frame DEF IInv
<1>2. \A q \in Requests :
        /\ Ask(q)' = Ask(q) /\ Kind(q)' = Kind(q)
        /\ req[q].wrote => req'[q].wrote
        /\ req[q].missed \subseteq req'[q].missed /\ req[q].overtaken \subseteq req'[q].overtaken
  BY <1>1, Grows
<1>3. /\ \A id : KnownApi(id) => KnownApi(id)'
      /\ \A q \in Requests : Excused(q) => Excused(q)'
  BY <1>1, Remembered
<1>4. ASSUME NEW x \in Requests, Tagged(x)' PROVE KnownApi(Ask(x).id)
  <2>1. CASE Tagged(x)  BY <1>1, <2>1 DEF TagsRead
  <2>2. CASE x = r /\ UpdatesTags(r)  BY <1>1, <2>2 DEF UpdatesTags, AllKnown
  <2> QED  BY <1>4, <2>1, <2>2, NewlyTagged
<1>5. ASSUME NEW x \in Requests, Tagged(x)', NEW q \in Requests,
             IsTagging(q)', SawApi(q)', ~req'[q].wrote, Ask(q).id = Ask(x).id
      PROVE  x \in req'[q].missed \/ Ask(x).arg \in req'[q].seen.tags \/ Excused(x)'
  <2>1. IsTagging(q) /\ ~req[q].wrote  BY <1>2, <1>5 DEF IsTagging
  <2>2. CASE Tagged(x) /\ SawApi(q) /\ req'[q].seen = req[q].seen
    <3>1. x \in req[q].missed \/ Ask(x).arg \in req[q].seen.tags \/ Excused(x)
      BY <1>1, <1>5, <2>1, <2>2 DEF TagsRead
    <3> QED  BY <1>2, <1>3, <2>2, <3>1
  <2>3. CASE Tagged(x) /\ req'[q].seen \in apis /\ req'[q].seen.id = Ask(q).id
    <3>1. Ask(x).arg \in req'[q].seen.tags \/ Excused(x)
      BY <1>1, <1>5, <2>3 DEF TagsKept, Tagged, Kind, Excused
    <3> QED  BY <1>3, <3>1
  <2>4. CASE x = r /\ UpdatesTags(r)
    <3>1. req'[r].wrote  BY <2>4 DEF UpdatesTags, Marks
    <3>2. q # r  BY <1>5, <3>1
    <3>3. req[q].seen # NoRow
      <4>1. req'[q].seen = req[q].seen  BY <1>1, <3>2 DEF Others, Unmoved
      <4>2. req'[q].seen # NoRow
        <5>1. (SawApi(q)') => (req'[q].seen # NoRow')  BY DEF SawApi
        <5> QED  BY <1>5, <5>1 DEF NoRow
      <4> QED  BY <4>1, <4>2
    <3> QED  BY <2>1, <2>4, <3>2, <3>3 DEF UpdatesTags
  <2> QED  BY <1>5, <2>2, <2>3, <2>4, NewlyTagged, Held
<1>6. \A x \in Requests : Tagged(x)' => KnownApi(Ask(x).id)'
  <2> SUFFICES ASSUME NEW x \in Requests, Tagged(x)' PROVE KnownApi(Ask(x).id)'  OBVIOUS
  <2>1. PICK id : id = Ask(x).id  OBVIOUS
  <2>2. KnownApi(id)'  BY <1>3, <1>4, <2>1
  <2>3. id = Ask(x)'.id  BY <1>2, <2>1
  <2> QED  BY Zenon, <2>2, <2>3 DEF KnownApi, Has
<1> QED  BY <1>2, <1>5, <1>6 DEF TagsRead

LEMMA TagsKeptStays ==
  ASSUME IInv, NEW r \in Requests, Effect(r)
  PROVE  TagsKept'
<1>1. /\ TagsRead /\ TagsKept /\ Shaped /\ (\A q \in Requests : Planned(q))
      /\ Others(r) /\ (Waits(r) \/ Advances(r) \/ Ceases(r))
      /\ ApiRows(projects, apis)
  BY Frame, LinkedParts DEF IInv, TypeOK
<1>2. \A q \in Requests :
        /\ Ask(q)' = Ask(q) /\ Kind(q)' = Kind(q)
        /\ req[q].missed \subseteq req'[q].missed /\ req[q].overtaken \subseteq req'[q].overtaken
  BY <1>1, Grows
<1>3. \A q \in Requests : Excused(q) => Excused(q)'  BY <1>1, Remembered
<1>4. ASSUME NEW x \in Requests, Tagged(x)', NEW a \in apis', a.id = Ask(x).id
      PROVE  Ask(x).arg \in a.tags \/ Excused(x)'
  <2>1. ASSUME Tagged(x), NEW b \in apis, b.id = a.id, b.tags = a.tags
        PROVE  Ask(x).arg \in a.tags \/ Excused(x)'
    <3>1. Ask(x).arg \in b.tags \/ Excused(x)
      BY <1>1, <1>4, <2>1 DEF TagsKept, Tagged, Kind, Excused
    <3> QED  BY <1>3, <2>1, <3>1
  <2>2. CASE UpdatesTags(r)
    <3>1. PICK tags : tags = Changed(Ask(r), req[r].seen.tags)  OBVIOUS
    <3>2. PICK row \in apis : row.id = Ask(r).id /\ apis' = (apis \ {row}) \union {[row EXCEPT !.tags = tags]}
      BY <2>2, <3>1 DEF UpdatesTags
    <3>3. PICK new : new = [row EXCEPT !.tags = tags]  OBVIOUS
    <3>4. new.id = row.id /\ new.tags = tags  BY <1>1, <3>3 DEF ApiRows, Columns
    <3>5. /\ Plan(r) # <<>> /\ Step(r).do = "write" /\ Kind(r) \in {"addTag", "removeTag"} /\ req'[r].wrote
      BY <2>2 DEF UpdatesTags, Marks, Writes, Onward
    <3>6. ~req[r].wrote /\ IsTagging(r) /\ SawApi(r)
      BY <1>1, <3>5, FirstWrite DEF SawApi, ReadsApi, IsTagging, Kind
    <3>7. CASE a \in apis \ {row}
      <4>1. a.id # row.id  BY <1>1, <3>2, <3>7 DEF ApiRows, Unique
      <4>2. Tagged(x)  BY <1>4, <3>2, <4>1, NewlyTagged
      <4> QED  BY <2>1, <3>7, <4>2
    <3>8. CASE a = new /\ x = r
      <4>1. Kind(r) = "addTag"  BY <1>2, <1>4, <3>8 DEF Tagged
      <4> QED  BY <3>1, <3>4, <3>8, <4>1 DEF Changed, Kind
    <3>9. CASE a = new /\ x # r
      <4>1. Tagged(x)  BY <1>4, <3>9, NewlyTagged
      <4>2. x \in req[r].missed \/ Ask(x).arg \in req[r].seen.tags \/ Excused(x)
        BY <1>1, <1>4, <3>2, <3>4, <3>6, <3>9, <4>1 DEF TagsRead
      <4>3. CASE x \in req[r].missed
        <5>1. x \in req'[r].missed  BY <1>2, <4>3
        <5>2. Excused(x)'  BY <3>5, <5>1 DEF Excused
        <5> QED  BY <5>2
      <4>4. CASE Ask(x).arg \in req[r].seen.tags
        <5>1. CASE Kind(r) = "removeTag" /\ Ask(r).arg = Ask(x).arg
          <6>1. Ask(r)'.kind = "removeTag" /\ Ask(r)'.arg = Ask(x)'.arg  BY <1>2, <5>1 DEF Kind
          <6>2. Excused(x)'  BY <3>5, <6>1 DEF Excused
          <6> QED  BY <6>2
        <5>2. CASE ~(Kind(r) = "removeTag" /\ Ask(r).arg = Ask(x).arg)
          BY <3>1, <3>4, <3>5, <3>9, <4>4, <5>2 DEF Changed, Kind
        <5> QED  BY <5>1, <5>2
      <4> QED  BY <1>3, <4>2, <4>3, <4>4
    <3> QED  BY <1>4, <3>2, <3>3, <3>7, <3>8, <3>9
  <2>3. CASE ~UpdatesTags(r)
    <3>1. Tagged(x)  BY <1>4, <2>3, NewlyTagged
    <3>2. KnownApi(a.id)  BY <1>1, <1>4, <3>1 DEF TagsRead
    <3>3. \E b \in apis : a.id = b.id /\ a.tags = b.tags  BY <2>3, <3>2, ApiRowsStay
    <3> QED  BY <2>1, <3>1, <3>3
  <2> QED  BY <2>2, <2>3
<1>5. ASSUME NEW x \in Requests, Ask(x)'.kind = "addTag", req'[x].wrote, NEW a \in apis', a.id = Ask(x)'.id
      PROVE  Ask(x)'.arg \in a.tags \/ Excused(x)'
  <2>1. Tagged(x)'  BY <1>5 DEF Tagged, Kind
  <2> QED  BY <1>2, <1>4, <1>5, <2>1
<1> QED  BY <1>5 DEF TagsKept, Excused

LEMMA RowsCreatedStays ==
  ASSUME IInv, NEW r \in Requests, Effect(r)
  PROVE  RowsCreated'
<1>1. /\ RowsCreated /\ Shaped /\ (\A q \in Requests : Planned(q))
      /\ Others(r) /\ (Waits(r) \/ Advances(r) \/ Ceases(r))
      /\ ApiRows(projects, apis)
  BY Frame, LinkedParts DEF IInv, TypeOK
<1>2. \A q \in Requests : Ask(q)' = Ask(q) /\ Kind(q)' = Kind(q)  BY <1>1, Grows
<1>3. Disturbed => Disturbed'  BY <1>1, Remembered
<1>4. CASE UpdatesApi(r) \/ DeletesApi(r) \/ DeletesProject(r)
  <2>1. req'[r].wrote /\ Kind(r) \in {"updateApi", "deleteApi", "deleteProject"}
    BY <1>4 DEF UpdatesApi, DeletesApi, DeletesProject, Marks, Writes
  <2>2. Ask(r)'.kind \in {"updateApi", "deleteApi", "deleteProject"}  BY <1>2, <2>1 DEF Kind
  <2>3. Disturbed'  BY <2>1, <2>2 DEF Disturbed
  <2> QED  BY <2>3 DEF RowsCreated
<1>5. CASE ~(UpdatesApi(r) \/ DeletesApi(r) \/ DeletesProject(r))
  <2> SUFFICES ASSUME ~Disturbed', NEW x \in Requests, Kind(x) = "import", NEW op \in req'[x].created
               PROVE  \E a \in apis' :
                        a.project = Ask(x).pid /\ a.path = op.path /\ a.method = op.method
    BY <1>2 DEF RowsCreated
  <2>1. CASE op \in req[x].created
    <3>1. PICK a \in apis : a.project = Ask(x).pid /\ a.path = op.path /\ a.method = op.method
      BY <1>1, <1>3, <2>1 DEF RowsCreated
    <3>2. PICK b \in apis' : b.id = a.id  BY <1>5, <3>1, ApiRowsStay DEF Has
    <3>3. CASE \E c \in apis : c.id = b.id /\ c.project = b.project /\ c.path = b.path /\ c.method = b.method
      <4>1. PICK c \in apis : c.id = b.id /\ c.project = b.project /\ c.path = b.path /\ c.method = b.method
        BY <3>3
      <4>2. c = a  BY <1>1, <3>1, <3>2, <4>1 DEF ApiRows, Unique
      <4> QED  BY <3>1, <4>1, <4>2
    <3>4. CASE ~KnownApi(b.id)
      <4>1. KnownApi(a.id)  BY <3>1 DEF IInv, AllKnown
      <4> QED  BY <3>2, <3>4, <4>1
    <3> QED  BY <1>5, <3>2, <3>3, <3>4, ApiRowsStay
  <2>2. CASE op \notin req[x].created
    <3>1. x = r
      <4>1. x # r => req'[x].created = req[x].created  BY <1>1 DEF Others, Unmoved
      <4> QED  BY <2>2, <4>1
    <3>2. req'[r].created # req[r].created  BY <2>2, <3>1
    <3>3. InsertsApi(r)
      <4>1. CASE Rests(r) \/ InsertsOwner(r) \/ RecordsHit(r)
        <5>1. Kept(r)  BY <4>1 DEF Rests, Asks, Moves, Reads, Fails, InsertsOwner, RecordsHit
        <5> QED  BY <3>2, <5>1 DEF Kept
      <4>2. CASE SavesProject(r)  BY <3>2, <4>2 DEF SavesProject
      <4>3. ASSUME NEW kinds, Marks(r, kinds) PROVE FALSE  BY <3>2, <4>3 DEF Marks
      <4>4. CASE InsertsProject(r) \/ AddsMember(r) \/ UpdatesTags(r) \/ ChangesCases(r)
        <5>1. \E kinds : Marks(r, kinds)
          BY Zenon, <4>4 DEF InsertsProject, AddsMember, UpdatesTags, ChangesCases
        <5> QED  BY <4>3, <5>1
      <4> QED  BY <1>5, <4>1, <4>2, <4>4 DEF Effect
    <3>4. PICK mine : mine = Step(r).op  OBVIOUS
    <3>5. PICK new : new = [id |-> <<r, mine>>, project |-> Ask(r).pid, path |-> mine.path,
                            method |-> mine.method, tags |-> {}]
      OBVIOUS
    <3>6. new \in apis' /\ req'[r].created = req[r].created \union {mine}
      BY <3>3, <3>4, <3>5 DEF InsertsApi
    <3>7. op = mine  BY <2>2, <3>1, <3>6
    <3>8. new.project = Ask(x).pid /\ new.path = op.path /\ new.method = op.method
      BY <3>1, <3>5, <3>7
    <3> QED  BY <3>6, <3>8
  <2> QED  BY <2>1, <2>2
<1> QED  BY <1>4, <1>5

(***************************************************************************)
(* The invariant holds at first and is kept.                               *)
(***************************************************************************)
LEMMA InitInvariant ==
  ASSUME Init PROVE IInv
<1>1. setup \in Setups  BY DEF Init
<1>2. ASSUME NEW r \in Requests
      PROVE  /\ DOMAIN req[r] = RequestFields
             /\ req[r].todo = Todo(Ask(r)) /\ ~req[r].found /\ req[r].seen = NoRow
             /\ req[r].answer = "none" /\ ~req[r].wrote /\ ~req[r].revived
             /\ req[r].created = {} /\ req[r].failed = {} /\ req[r].missed = {}
             /\ req[r].overtaken = {}
  BY DEF Init, RequestFields, Ask
<1>3. req = [r \in Requests |-> req[r]]  BY DEF Init
<1>4. /\ projects = setup.projects /\ members = setup.members
      /\ apis = setup.apis /\ rules = setup.rules /\ cases = setup.cases /\ faults = 0
  BY DEF Init
<1>5. /\ Linked(setup.projects, setup.members, setup.apis, setup.rules, setup.cases)
      /\ \A p \in setup.projects : /\ p.id \notin Requests
                                   /\ Member(p.id, p.owner, "admin") \in setup.members
  BY <1>1, CatalogueAssumption
<1>6. ASSUME NEW r \in Requests, NEW s, s = Plan(r)
      PROVE  /\ s \in Seq(StepsOf(r))
             /\ Kind(r) # "import" => OneWrite(s)
             /\ Kind(r) \in ApiWriters => RoleFirst(s) /\ s[1].do # "write"
             /\ Kind(r) = "createProject" => JoinLast(s)
             /\ Kind(r) # "createProject" => \A i \in 1 .. Len(s) : s[i].do # "join"
             /\ FindFirst(s, Uses(Kind(r)))
             /\ Kind(r) = "import" => ImportPlan(s) /\ Pending(s) = ToSet(ExtractAPIs(Ask(r).doc))
  <2>1. s = Todo(Ask(r))  BY <1>2, <1>6 DEF Plan
  <2> QED  BY <1>1, <2>1, Planning
<1>7. Shaped  BY <1>1, <1>2, <1>3, <1>6 DEF Shaped
<1>8. \A r \in Requests : Planned(r)
  <2> SUFFICES ASSUME NEW r \in Requests PROVE Planned(r)  OBVIOUS
  <2>1. ~req[r].found /\ ~req[r].wrote /\ ~req[r].revived /\ req[r].created = {}  BY <1>2
  <2> QED  BY <1>6, <2>1 DEF Planned
<1>9. Accounted
  <2> SUFFICES ASSUME NEW r \in Requests, Kind(r) = "import" PROVE Imports(r)  BY DEF Accounted
  <2>1. ImportPlan(Plan(r)) /\ Pending(Plan(r)) = ToSet(ExtractAPIs(Ask(r).doc))  BY <1>6
  <2>2. req[r].created = {} /\ req[r].failed = {}  BY <1>2
  <2> QED  BY <2>1, <2>2 DEF Imports
<1>10. Answering  BY <1>2 DEF Answering, Answers
<1>11. AllKnown  BY <1>1, <1>4, CatalogueAssumption DEF AllKnown, KnownProject, KnownApi, KnownCase, Has
<1>12. TypeOK
  <2>1. faults \in 0 .. MaxFaults  BY <1>4, CatalogueAssumption
  <2>2. Linked(projects, members, apis, rules, cases)  BY <1>4, <1>5 DEF Linked
  <2> QED  BY <1>2, <2>1, <2>2 DEF TypeOK
<1>13. SeenProjects /\ SeenApis  BY <1>2 DEF SeenProjects, SeenApis, SawProject, SawApi
<1>14. OwnersKept /\ OwnerListed  BY <1>4, <1>5 DEF OwnersKept, OwnerListed
<1>15. RoleHeld
  <2> SUFFICES ASSUME NEW r \in Requests, Kind(r) \in ApiWriters, Plan(r) # <<>>, Step(r).do = "write"
               PROVE  FALSE
    BY DEF RoleHeld
  <2>1. PICK s : s = Plan(r)  OBVIOUS
  <2>2. s \in Seq(StepsOf(r)) /\ s # <<>> /\ s[1].do # "write"  BY <1>6, <2>1
  <2>3. Step(r) = Head(s)  BY <2>1 DEF Step, Plan
  <2>4. PICK t : t = Tail(s)  OBVIOUS
  <2>5. Head(s) = s[1]  BY <2>2, <2>4, Tails
  <2> QED  BY <2>2, <2>3, <2>5
<1>16. TagsRead /\ TagsKept  BY <1>2 DEF TagsRead, TagsKept, Tagged
<1>17. RowsCreated  BY <1>2 DEF RowsCreated
<1> QED
  BY <1>7, <1>8, <1>9, <1>10, <1>11, <1>12, <1>13, <1>14, <1>15, <1>16, <1>17 DEF IInv

LEMMA StutterInvariant ==
  ASSUME IInv, UNCHANGED vars PROVE IInv'
<1>1. /\ setup' = setup /\ projects' = projects /\ members' = members /\ apis' = apis
      /\ rules' = rules /\ cases' = cases /\ req' = req /\ faults' = faults
  BY DEF vars, tables
<1>2. \A r : Ask(r)' = Ask(r) /\ Kind(r)' = Kind(r) /\ Plan(r)' = Plan(r) /\ Step(r)' = Step(r)
  BY <1>1 DEF Ask, Kind, Plan, Step
<1>3. Shaped'
  <2>1. \A r : StepsOf(r)' = StepsOf(r)  BY <1>1 DEF StepsOf, Ask
  <2> QED  BY <1>1, <1>2, <2>1 DEF IInv, Shaped
<1>4. (\A r \in Requests : Planned(r))'
  <2>1. \A r \in Requests : Planned(r)  BY DEF IInv
  <2> QED  BY <1>1, <1>2, <2>1 DEF Planned
<1>5. Accounted'
  <2>1. Accounted  BY DEF IInv
  <2> QED  BY Zenon, <1>1, <2>1 DEF Accounted, Imports, Kind, Plan, Ask
<1>6. Answering'  BY <1>1, <1>2 DEF IInv, Answering
<1>7. AllKnown'
  <2>1. AllKnown  BY DEF IInv
  <2> QED  BY Zenon, <1>1, <2>1 DEF AllKnown, KnownProject, KnownApi, KnownCase, Has, Made, Ask
<1>8. TypeOK'
  <2>1. TypeOK  BY DEF IInv
  <2> QED  BY Zenon, <1>1, <2>1 DEF TypeOK
<1>9. SeenProjects'
  <2>1. SeenProjects  BY DEF IInv
  <2> QED
    BY Zenon, <1>1, <2>1 DEF SeenProjects, SawProject, KnownProject, Made, Has, Revived, Kind, Ask
<1>10. SeenApis'
  <2>1. SeenApis  BY DEF IInv
  <2> QED
    BY <1>1, <2>1 DEF SeenApis, SawApi, KnownApi, KnownProject, Made, Has, Kind, Ask
<1>11. OwnersKept'
  <2>1. OwnersKept  BY DEF IInv
  <2> QED  BY <1>1, <1>2, <2>1 DEF OwnersKept, Revived
<1>12. OwnerListed'
  <2>1. OwnerListed  BY DEF IInv
  <2> QED  BY <1>1, <2>1 DEF OwnerListed, Revived
<1>13. RoleHeld'
  <2>1. RoleHeld  BY DEF IInv
  <2>2. \A q : req'[q].overtaken = req[q].overtaken  BY <1>1
  <2> SUFFICES ASSUME NEW q \in Requests, Kind(q) \in ApiWriters, Plan(q) # <<>>, Step(q).do = "write"
               PROVE  /\ KnownProject(TargetProject(q))'
                      /\ \/ ~IsLive(TargetProject(q))'
                         \/ RoleOf(Ask(q).by, TargetProject(q))' \in Needed(Kind(q))
                         \/ Step(q).op \in req[q].overtaken
    BY <1>2, <2>2 DEF RoleHeld, Needed
  <2>3. /\ KnownProject(TargetProject(q))
        /\ \/ ~IsLive(TargetProject(q))
           \/ RoleOf(Ask(q).by, TargetProject(q)) \in Needed(Kind(q))
           \/ Step(q).op \in req[q].overtaken
    BY <2>1 DEF RoleHeld
  <2>4. TargetProject(q)' = TargetProject(q)  BY <1>1, <1>2 DEF TargetProject
  <2>5. KnownProject(TargetProject(q))' <=> KnownProject(TargetProject(q))
    BY Zenon, <1>1, <2>4 DEF KnownProject, Made, Has, Ask
  <2>6. IsLive(TargetProject(q))' <=> IsLive(TargetProject(q))  BY Zenon, <1>1, <2>4 DEF IsLive, Has
  <2>7. RoleOf(Ask(q).by, TargetProject(q))' = RoleOf(Ask(q).by, TargetProject(q))
    BY <1>1, <1>2, <2>4 DEF RoleOf
  <2> QED  BY <2>3, <2>5, <2>6, <2>7
<1>14. TagsRead'
  <2>1. TagsRead  BY DEF IInv
  <2> QED
    BY Zenon, <1>1, <2>1
    DEF TagsRead, Tagged, KnownApi, Has, IsTagging, SawApi, Excused, Kind, Ask
<1>15. TagsKept'
  <2>1. TagsKept  BY DEF IInv
  <2> QED  BY Zenon, <1>1, <2>1 DEF TagsKept, Ask
<1>16. RowsCreated'
  <2>1. RowsCreated  BY DEF IInv
  <2> QED  BY Zenon, <1>1, <2>1 DEF RowsCreated, Disturbed, Kind, Ask
<1> QED
  BY <1>3, <1>4, <1>5, <1>6, <1>7, <1>8, <1>9, <1>10, <1>11, <1>12, <1>13, <1>14, <1>15, <1>16
  DEF IInv

LEMMA StepInvariant ==
  ASSUME IInv, NEW r \in Requests, RequestStep(r) PROVE IInv'
<1>1. /\ Effect(r) /\ Shaped /\ (\A q \in Requests : Planned(q)) /\ Accounted /\ Answering
      /\ TypeOK
  BY StepEffect DEF IInv
<1>2. Others(r) /\ (Waits(r) \/ Advances(r) \/ Ceases(r))  BY <1>1, Frame
<1>3. Shaped'  BY <1>1, <1>2, ShapedStays
<1>4. \A q \in Requests : Planned(q)'  BY <1>1, <1>2, PlannedStays
<1>5. Accounted'  BY <1>1, <1>2, AccountedStays
<1>6. Answering'  BY <1>1, <1>2, AnsweringStays
<1>7. AllKnown'  BY <1>1, AllKnownStays
<1>8. TypeOK'
  <2>1. faults' \in 0 .. MaxFaults  BY <1>1, FaultsStay DEF TypeOK
  <2>2. Linked(projects, members, apis, rules, cases)'
    <3>1. /\ ProjectRows(projects') /\ MemberRows(projects', members') /\ ApiRows(projects', apis')
          /\ RuleRows(apis', rules') /\ CaseRows(projects', apis', cases')
      BY <1>1, ProjectRowsStay, MemberRowsStay, ApiRowsStay, RuleRowsStay, CaseRowsStay
    <3> QED  BY <3>1, LinkedParts
  <2>3. \A q \in Requests : req'[q].answer \in Answers  BY <1>6 DEF Answering
  <2> QED  BY <2>1, <2>2, <2>3 DEF TypeOK, Answers
<1>9. SeenProjects' /\ SeenApis'  BY <1>1, SeenProjectsStay, SeenApisStay
<1>10. OwnersKept' /\ OwnerListed' /\ RoleHeld'
  BY <1>1, OwnersKeptStays, OwnerListedStays, RoleHeldStays
<1>11. TagsRead' /\ TagsKept'  BY <1>1, TagsReadStays, TagsKeptStays
<1>12. RowsCreated'  BY <1>1, RowsCreatedStays
<1> QED
  BY <1>3, <1>4, <1>5, <1>6, <1>7, <1>8, <1>9, <1>10, <1>11, <1>12 DEF IInv

(***************************************************************************)
(* Writers: the change of an api by its request.                           *)
(***************************************************************************)
MayChange(kind) == IF kind = "deleteApi" THEN {"admin"} ELSE Writers

LEMMA ApisChanged ==
  ASSUME IInv, NEW r \in Requests, Effect(r),
         NEW a \in (apis \ apis') \union (apis' \ apis)
  PROVE  \/ RoleOf(Ask(r).by, a.project) \in MayChange(Kind(r)) \/ Kind(r) = "deleteProject"
         \/ Step(r).op \in req[r].overtaken
<1>1. /\ RoleHeld /\ SeenApis /\ Shaped /\ Planned(r) /\ ApiRows(projects, apis)
  BY LinkedParts DEF IInv, TypeOK
<1>2. CASE DeletesProject(r)  BY <1>2 DEF DeletesProject, Marks, Writes
<1>3. ASSUME Kind(r) \in ApiWriters, Plan(r) # <<>>, Step(r).do = "write",
             a.project = TargetProject(r), IsLive(a.project)
      PROVE  RoleOf(Ask(r).by, a.project) \in MayChange(Kind(r)) \/ Step(r).op \in req[r].overtaken
  <2>1. \/ RoleOf(Ask(r).by, TargetProject(r)) \in Needed(Kind(r))
        \/ Step(r).op \in req[r].overtaken
    BY <1>1, <1>3 DEF RoleHeld
  <2>2. RoleOf(Ask(r).by, a.project) = RoleOf(Ask(r).by, TargetProject(r))  BY <1>3 DEF RoleOf
  <2>3. Needed(Kind(r)) \subseteq MayChange(Kind(r))
    BY DEF Needed, MayChange, Writers
  <2> QED  BY <2>1, <2>2, <2>3
<1>4. CASE InsertsApi(r)
  <2>1. /\ Kind(r) \in {"createApi", "import"} /\ Plan(r) # <<>> /\ Step(r).do = "write"
        /\ IsLive(Ask(r).pid)
    BY <1>4 DEF InsertsApi, Writes, Onward
  <2>2. PICK op : op = Step(r).op  OBVIOUS
  <2>3. PICK new : new = [id |-> <<r, op>>, project |-> Ask(r).pid, path |-> op.path,
                           method |-> op.method, tags |-> {}]
    OBVIOUS
  <2>4. apis' = apis \union {new}  BY <1>4, <2>2, <2>3 DEF InsertsApi
  <2>5. a = new /\ a.project = Ask(r).pid  BY <2>3, <2>4
  <2>6. TargetProject(r) = Ask(r).pid  BY <2>1 DEF TargetProject, Kind
  <2>7. IsLive(a.project)  BY <2>1, <2>5
  <2> QED  BY <1>3, <2>1, <2>5, <2>6, <2>7 DEF ApiWriters
<1>5. CASE UpdatesApi(r) \/ UpdatesTags(r) \/ DeletesApi(r)
  <2>1. Kind(r) \in ReadsApi /\ Plan(r) # <<>> /\ Step(r).do = "write"
    BY <1>5 DEF UpdatesApi, UpdatesTags, DeletesApi, Marks, Writes, Onward, ReadsApi
  <2>2. SawApi(r)  BY <1>1, <2>1, FirstWrite DEF SawApi
  <2>3. ASSUME NEW row \in apis, row.id = Ask(r).id, a.project = row.project
        PROVE  RoleOf(Ask(r).by, a.project) \in MayChange(Kind(r)) \/ Step(r).op \in req[r].overtaken
    <3>1. row.project = req[r].seen.project  BY <1>1, <2>2, <2>3 DEF SeenApis
    <3>2. a.project = TargetProject(r)  BY <2>1, <2>3, <3>1 DEF TargetProject, ReadsApi, Kind
    <3>3. IsLive(a.project)  BY <1>1, <2>3 DEF ApiRows, IsLive
    <3> QED  BY <1>3, <2>1, <3>2, <3>3 DEF ApiWriters
  <2>4. \E row \in apis : row.id = Ask(r).id /\ a.project = row.project
    <3>1. CASE DeletesApi(r)
      <4>1. apis' = {b \in apis : b.id # Ask(r).id}  BY <3>1 DEF DeletesApi
      <4> QED  BY <4>1
    <3>2. CASE UpdatesApi(r)
      <4>1. PICK fields : fields = Ask(r).fields  OBVIOUS
      <4>2. PICK row \in apis : /\ row.id = Ask(r).id
                                /\ apis' = (apis \ {row}) \union {Overwritten(row, fields)}
        BY Zenon, <3>2, <4>1 DEF UpdatesApi
      <4>3. DOMAIN fields \subseteq {"path", "method"}
        <5>1. Ask(r).kind = "updateApi"  BY <3>2 DEF UpdatesApi, Marks, Writes, Kind
        <5> QED  BY <1>1, <4>1, <5>1, CatalogueAssumption DEF Shaped, WellAsked, Ask
      <4>4. Overwritten(row, fields).project = row.project
        BY <1>1, <4>3 DEF Overwritten, ApiRows, Columns
      <4> QED  BY <4>2, <4>4
    <3>3. CASE UpdatesTags(r)
      <4>1. PICK tags : tags = Changed(Ask(r), req[r].seen.tags)  OBVIOUS
      <4>2. PICK row \in apis : /\ row.id = Ask(r).id
                                /\ apis' = (apis \ {row}) \union {[row EXCEPT !.tags = tags]}
        BY <3>3, <4>1 DEF UpdatesTags
      <4>3. [row EXCEPT !.tags = tags].project = row.project
        BY <1>1 DEF ApiRows, Columns
      <4> QED  BY <4>2, <4>3
    <3> QED  BY <1>5, <3>1, <3>2, <3>3
  <2> QED  BY <2>3, <2>4
<1>6. ~UNCHANGED apis  OBVIOUS
<1> QED  BY <1>2, <1>4, <1>5, <1>6, Touched

LEMMA OnlyTheirs ==
  ASSUME IInv, NEW r \in Requests, Effect(r), NEW q \in Requests, req'[q].todo # req[q].todo
  PROVE  q = r
<1>1. Others(r)  BY Frame DEF IInv
<1> QED  BY <1>1 DEF Others, Unmoved

(***************************************************************************)
(* Imports that are over.                                                  *)
(***************************************************************************)
LEMMA AllDealtWith ==
  ASSUME IInv, NEW r \in Requests, Kind(r) = "import", Over(r)
  PROVE  LET ops == ExtractAPIs(Ask(r).doc)
             rows == {a \in apis : a.project = Ask(r).pid}
             added == {c.op : c \in {c \in Diff(rows, ToSet(ops)) : c.type = "added"}}
         IN /\ req[r].created \union req[r].failed = ToSet(ops)
            /\ req[r].created \cap req[r].failed = {}
            /\ added \subseteq req[r].failed \/ Disturbed
<1> DEFINE ops == ExtractAPIs(Ask(r).doc)
           rows == {a \in apis : a.project = Ask(r).pid}
           added == {c.op : c \in {c \in Diff(rows, ToSet(ops)) : c.type = "added"}}
<1>1. Imports(r) /\ RowsCreated /\ Shaped  BY DEF IInv, Accounted
<1>2. Pending(Plan(r)) = {}
  <2>1. PICK s : s = Plan(r)  OBVIOUS
  <2>2. Len(s) = 0  BY <2>1 DEF Over, Plan
  <2>3. Pending(s) = {}  BY <2>2 DEF Pending
  <2> QED  BY <2>1, <2>3 DEF Pending
<1>3. /\ req[r].created \union req[r].failed = ToSet(ops)
      /\ req[r].created \cap req[r].failed = {}
  BY <1>1, <1>2 DEF Imports
<1>4. \A op \in ToSet(ops) : op = [path |-> op.path, method |-> op.method]
  <2>1. setup \in Setups  BY <1>1 DEF Shaped
  <2>2. PICK doc : doc = Ask(r).doc  OBVIOUS
  <2>3. IsFiniteSet(doc) /\ doc \subseteq [path : Int, method : STRING]
    BY <2>1, <2>2, CatalogueAssumption DEF WellAsked, Ask
  <2>4. ToSet(ops) \subseteq doc  BY <2>2, <2>3, Extracted DEF Operations
  <2> QED  BY <2>3, <2>4
<1>5. ASSUME ~Disturbed PROVE added \subseteq req[r].failed
  <2> SUFFICES ASSUME NEW op \in added PROVE op \in req[r].failed  OBVIOUS
  <2>1. op \in indexByPath(ToSet(ops)) \ indexByPath(rows)
    <3>1. PICK before : before = indexByPath(rows)  OBVIOUS
    <3>2. PICK after : after = indexByPath(ToSet(ops))  OBVIOUS
    <3>3. PICK c \in Diff(rows, ToSet(ops)) : c.type = "added" /\ op = c.op  OBVIOUS
    <3>4. \/ \E k \in before \ after : c = [type |-> "removed", op |-> k, breaking |-> TRUE]
          \/ \E k \in before \cap after : c = [type |-> "modified", op |-> k, breaking |-> FALSE]
          \/ \E k \in after \ before : c = [type |-> "added", op |-> k, breaking |-> FALSE]
      BY Zenon, <3>1, <3>2, <3>3 DEF Diff
    <3>5. "removed" # "added" /\ "modified" # "added"  OBVIOUS
    <3>6. ASSUME NEW k, NEW x, NEW y, c = [type |-> x, op |-> k, breaking |-> y]
          PROVE  c.type = x /\ c.op = k
      BY <3>6
    <3>7. PICK k \in after \ before : op = k  BY Zenon, <3>3, <3>4, <3>5, <3>6
    <3> QED  BY <3>1, <3>2, <3>7
  <2>2. PICK x \in ToSet(ops) : op = [path |-> x.path, method |-> x.method]
    BY <2>1 DEF indexByPath
  <2>3. op = x  BY <1>4, <2>2
  <2>4. op \notin req[r].created
    <3> SUFFICES ASSUME op \in req[r].created PROVE FALSE  OBVIOUS
    <3>1. PICK a \in apis : a.project = Ask(r).pid /\ a.path = op.path /\ a.method = op.method
      BY <1>1, <1>5 DEF RowsCreated
    <3>2. a \in rows  BY <3>1
    <3>3. op = [path |-> a.path, method |-> a.method]  BY <1>4, <2>2, <2>3, <3>1
    <3>4. op \in indexByPath(rows)  BY <3>2, <3>3 DEF indexByPath
    <3> QED  BY <2>1, <3>4
  <2> QED  BY <1>3, <2>2, <2>3, <2>4
<1> QED  BY <1>3, <1>5

(***************************************************************************)
(* The theorems.                                                           *)
(***************************************************************************)
\* The inductive invariant holds throughout.
THEOREM Invariant == Spec => []IInv
<1>1. Init => IInv  BY InitInvariant
<1>2. IInv /\ [Next]_vars => IInv'
  <2> SUFFICES ASSUME IInv, [Next]_vars PROVE IInv'  OBVIOUS
  <2>1. CASE UNCHANGED vars  BY <2>1, StutterInvariant
  <2>2. CASE Next
    <3>1. PICK r \in Requests : RequestStep(r)  BY <2>2 DEF Next
    <3> QED  BY <3>1, StepInvariant
  <2> QED  BY <2>1, <2>2
<1> QED  BY <1>1, <1>2, PTL DEF Spec

\* Rows stay connected as the migrations declare, whatever requests of any number delete,
\* insert and save at once, and whichever of their queries fail.
THEOREM RowsStayLinked == Spec => []TypeOK
<1>1. IInv => TypeOK  BY DEF IInv
<1> QED  BY <1>1, Invariant, PTL

\* A project whose creation was answered well has its owner listed as an admin, since the
\* two inserts of ProjectService.Create are in that order and only the second one answers.
THEOREM CreatedProjectsHaveTheirOwner == Spec => []OwnerListed
<1>1. IInv => OwnerListed  BY DEF IInv
<1> QED  BY <1>1, Invariant, PTL

\* The only ways a tag that AddTag has acknowledged is lost are its removal and a write of
\* tags that were read before.
THEOREM AcknowledgedTagsKept == Spec => []TagsKept
<1>1. IInv => TagsKept  BY DEF IInv
<1> QED  BY <1>1, Invariant, PTL

\* Every operation of an imported document is counted once, as created or as failed, and
\* what was created is in the catalogue unless others have changed it.
THEOREM ImportsAccountForAll == Spec => []ImportAccounted
<1>1. IInv => ImportAccounted
  BY Zenon, AllDealtWith DEF ImportAccounted, Disturbed, Kind
<1> QED  BY <1>1, Invariant, PTL

\* An api is only changed by one who, at that moment, has the role the change needs, although
\* the role was read in an earlier query and projects come and go meanwhile; or by one whom
\* a save overtook that brought the project back or gave it another owner.  Nothing else
\* that any number of requests do takes a role away while the project is there.
THEOREM WritersHoldTheirRole == Spec => WritersStillAllowed
<1> DEFINE Authorised(r) ==
      req'[r].todo # req[r].todo =>
        \A a \in (apis \ apis') \union (apis' \ apis) :
          \/ RoleOf(Ask(r).by, a.project) \in (IF Ask(r).kind = "deleteApi" THEN {"admin"} ELSE Writers)
          \/ Ask(r).kind = "deleteProject"
          \/ Step(r).op \in req[r].overtaken
<1>1. IInv /\ [Next]_vars => [\A r \in Requests : Authorised(r)]_vars
  <2> SUFFICES ASSUME IInv, Next, NEW q \in Requests, req'[q].todo # req[q].todo,
                      NEW a \in (apis \ apis') \union (apis' \ apis)
               PROVE  \/ RoleOf(Ask(q).by, a.project) \in
                           (IF Ask(q).kind = "deleteApi" THEN {"admin"} ELSE Writers)
                      \/ Ask(q).kind = "deleteProject"
                      \/ Step(q).op \in req[q].overtaken
    OBVIOUS
  <2>1. PICK r \in Requests : RequestStep(r)  BY DEF Next
  <2>2. Effect(r)  BY <2>1, StepEffect DEF IInv
  <2>3. q = r  BY <2>2, OnlyTheirs
  <2>4. \/ RoleOf(Ask(r).by, a.project) \in MayChange(Kind(r)) \/ Kind(r) = "deleteProject"
        \/ Step(r).op \in req[r].overtaken
    BY <2>2, ApisChanged
  <2> QED  BY <2>3, <2>4 DEF MayChange, Kind
<1> HIDE DEF Authorised
<1>2. WritersStillAllowed <=> [][\A r \in Requests : Authorised(r)]_vars
  BY DEF WritersStillAllowed, Authorised
<1> QED  BY <1>1, <1>2, Invariant, PTL DEF Spec
=============================================================================
