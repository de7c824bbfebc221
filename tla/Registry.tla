------------------------------ MODULE Registry ------------------------------
(***************************************************************************)
(* The product and repository registry (storage/registry.go).  Loaders     *)
(* register products, repositories, what a product ships, and who owns     *)
(* it, concurrently and from inventories that overlap.  A call draws a     *)
(* fresh identifier, upserts by the natural key of the table and reads     *)
(* back the identifier that is stored.  COMMIT may succeed and its reply   *)
(* be lost; the loader then calls again, and draws another identifier.     *)
(*                                                                         *)
(* Each statement is an action: PostgreSQL runs the transaction at READ    *)
(* COMMITTED, an upsert waits for a transaction that wrote a row with the  *)
(* same key, and SQLite admits one writer.                                 *)
(***************************************************************************)
EXTENDS Integers, FiniteSets

CONSTANTS
  Loaders,     \* concurrent callers, one connection each
  Ids,         \* identifiers newRegistryID may draw; bounds the calls
  Slugs, Urls, Refs, Versions, Teams,  \* names, as given by the caller
  Attributes,  \* descriptive values: segments, categories, images, managers
  Empty,       \* the empty string
  Garbled,     \* a text that is not NUL-free UTF-8
  None         \* SQL NULL, or no value

Texts == Slugs \cup Urls \cup Refs \cup Versions \cup Teams \cup Attributes

\* What a call may return.
Answers == {"ok", "input", "rejected", "missing", "error", "absent"}

ASSUME RegistryAssumption ==
  None \notin Ids \cup Loaders \cup Texts \cup Answers

Tables == {"product", "repo", "product_repo", "product_repo_version", "repo_owner"}

\* The tables whose rows other rows and callers refer to by identifier.
Identified == {"product", "repo", "product_repo"}

Keys == [table : Tables, parents : {<<>>} \cup Ids \X {None} \cup Ids \X Ids,
         name : Texts]

KeyOf(r) == [table |-> r.table, parents |-> r.parents, name |-> r.name]

Rows == [table : Tables, parents : {<<>>} \cup Ids \X {None} \cup Ids \X Ids,
         name : Texts, id : Ids \cup {None}, attributes : Attributes \cup {None}]

VARIABLES
  dialect,  \* "postgres" or "sqlite", as detectDialect found it
  rows,     \* the committed rows of the five tables
  staged,   \* the row each open transaction wrote, as a set
  writer,   \* the loader in BEGIN IMMEDIATE, or None (SQLite)
  drawn,    \* identifiers already drawn
  pc,       \* the next statement of each loader
  request,  \* the row a loader asks for, with the identifier it drew
  found,    \* the identifier its read-back returned
  answer,   \* what its last call returned
  told      \* <<key, identifier>> callers were answered with

vars == <<dialect, rows, staged, writer, drawn, pc, request, found, answer, told>>

TypeOK ==
  /\ dialect \in {"postgres", "sqlite"}
  /\ rows \subseteq Rows
  /\ staged \in [Loaders -> SUBSET Rows]
  /\ writer \in Loaders \cup {None}
  /\ drawn \subseteq Ids
  /\ pc \in [Loaders -> {"idle", "begin", "upsert", "read", "commit"}]
  /\ request \in [Loaders -> Rows \cup {None}]
  /\ found \in [Loaders -> Ids \cup {None}]
  /\ answer \in [Loaders -> Answers \cup {None}]
  /\ told \subseteq Keys \X Ids

Init ==
  /\ dialect \in {"postgres", "sqlite"}
  /\ rows = {} /\ drawn = {} /\ told = {}
  /\ staged = [p \in Loaders |-> {}]
  /\ writer = None
  /\ pc = [p \in Loaders |-> "idle"]
  /\ request = [p \in Loaders |-> None]
  /\ found = [p \in Loaders |-> None]
  /\ answer = [p \in Loaders |-> None]

-----------------------------------------------------------------------------
\* A key is not empty where the column forbids it; no text is garbled.
registryText(value, required, attributes) ==
  /\ required => value # Empty
  /\ Garbled \notin {value} \cup attributes

\* A list attribute encoded as it comes, an empty one as an empty array.
registryList_Raw(values) == values

\* A list attribute; an empty list is stored as NULL.
registryList(values) == IF values = {} THEN None ELSE CHOOSE v \in values : TRUE

At(p, statement) == pc[p] = statement

Goto(p, statement) == pc' = [pc EXCEPT ![p] = statement]

\* SQLite's write lock goes with the transaction.
Released(p) == IF writer = p THEN None ELSE writer

\* A connection that goes back to the pool in the middle of its transaction.
Ended_InPool(p) == staged

\* COMMIT and ROLLBACK end the transaction: it holds no row any more.
Ended(p) == [staged EXCEPT ![p] = {}]

Return(p, a) ==
  /\ answer' = [answer EXCEPT ![p] = a]
  /\ staged' = Ended(p)
  /\ writer' = Released(p)
  /\ request' = [request EXCEPT ![p] = None]
  /\ found' = [found EXCEPT ![p] = None]
  /\ Goto(p, "idle")

\* The deferred ROLLBACK of a call that returns before COMMIT.
Rollback(p, a) == Return(p, a) /\ UNCHANGED <<rows, drawn, told>>

\* An input error returns before a connection is taken.
Refuse(p) ==
  /\ answer' = [answer EXCEPT ![p] = "input"]
  /\ UNCHANGED <<rows, staged, writer, drawn, pc, request, found, told>>

Ask(p, table, parents, name, i, attributes) ==
  /\ request' = [request EXCEPT ![p] =
       [table |-> table, parents |-> parents, name |-> name, id |-> i,
        attributes |-> attributes]]
  /\ answer' = [answer EXCEPT ![p] = None]
  /\ Goto(p, "begin")
  /\ UNCHANGED <<rows, staged, writer, found, told>>

\* uuid.NewString: an identifier nobody has drawn; which one tells nothing.
newRegistryID == CHOOSE i \in Ids : i \notin drawn

\* The call draws its identifier before it opens a connection.
AskFresh(p, table, parents, name, attributes) ==
  /\ drawn # Ids
  /\ drawn' = drawn \cup {newRegistryID}
  /\ Ask(p, table, parents, name, newRegistryID, attributes)

RegisterProduct(p, slug, segment) ==
  /\ At(p, "idle")
  /\ IF registryText(slug, TRUE, {segment})
     THEN AskFresh(p, "product", <<>>, slug, segment)
     ELSE Refuse(p)

RegisterRepo(p, url) ==
  /\ At(p, "idle")
  /\ IF registryText(url, TRUE, {})
     THEN AskFresh(p, "repo", <<>>, url, None)
     ELSE Refuse(p)

\* The ids are what earlier calls returned, or identifiers never registered.
RegisterProductRepo(p, product, repo, ref, service) ==
  /\ At(p, "idle")
  /\ IF registryText(ref, FALSE, {service})
     THEN AskFresh(p, "product_repo", <<product, repo>>, ref, service)
     ELSE Refuse(p)

RegisterProductRepoVersion(p, productRepo, version, images) ==
  /\ At(p, "idle")
  /\ IF registryText(version, TRUE, {}) /\ \A image \in images : registryText(image, TRUE, {})
     THEN /\ Ask(p, "product_repo_version", <<productRepo, None>>, version, None,
                 registryList(images))
          /\ UNCHANGED drawn
     ELSE Refuse(p)

RegisterRepoOwner(p, productRepo, team, manager) ==
  /\ At(p, "idle")
  /\ IF registryText(team, TRUE, {manager})
     THEN /\ Ask(p, "repo_owner", <<productRepo, None>>, team, None, manager)
          /\ UNCHANGED drawn
     ELSE Refuse(p)

-----------------------------------------------------------------------------
Begin(p) ==
  /\ At(p, "begin")
  /\ dialect = "sqlite" => writer = None
  /\ writer' = IF dialect = "sqlite" THEN p ELSE writer
  /\ Goto(p, "upsert")
  /\ UNCHANGED <<rows, staged, drawn, request, found, answer, told>>

\* SQLite: the database stays locked longer than the connection waits.
Busy(p) == At(p, "begin") /\ writer # None /\ Rollback(p, "error")

\* The identifiers rows of a table are referred to by.
IdsOf(table) == {q.id : q \in {r \in rows : r.table = table}}

\* product_repo with a foreign key on the product alone.
Parents_ProductOnly(r) ==
  CASE r.table \in {"product", "repo"} -> TRUE
    [] r.table = "product_repo" -> r.parents[1] \in IdsOf("product")
    [] OTHER -> r.parents[1] \in IdsOf("product_repo")

\* The foreign keys of a row: its parents are committed rows.
Parents(r) ==
  CASE r.table \in {"product", "repo"} -> TRUE
    [] r.table = "product_repo" -> /\ r.parents[1] \in IdsOf("product")
                                   /\ r.parents[2] \in IdsOf("repo")
    [] OTHER -> r.parents[1] \in IdsOf("product_repo")

\* ON CONFLICT (slug) DO UPDATE SET segment
productUpsert(stored, r) == [stored EXCEPT !.attributes = r.attributes]

\* ON CONFLICT (repo_url) DO NOTHING
repoUpsert(stored, r) == stored

\* ON CONFLICT (product_id, repo_id, ref) DO UPDATE SET sub_service, resource_type
productRepoUpsert(stored, r) == [stored EXCEPT !.attributes = r.attributes]

\* ON CONFLICT (product_repo_id, version) DO UPDATE SET category, images, ...
productRepoVersionUpsert(stored, r) == [stored EXCEPT !.attributes = r.attributes]

\* ON CONFLICT (product_repo_id, team) DO UPDATE SET manager, individuals, ...
repoOwnerUpsert(stored, r) == [stored EXCEPT !.attributes = r.attributes]

OnConflict(stored, r) ==
  CASE r.table = "product" -> productUpsert(stored, r)
    [] r.table = "repo" -> repoUpsert(stored, r)
    [] r.table = "product_repo" -> productRepoUpsert(stored, r)
    [] r.table = "product_repo_version" -> productRepoVersionUpsert(stored, r)
    [] OTHER -> repoOwnerUpsert(stored, r)

\* The rows the unique key of the table makes equal to r.
Stored(r) == {q \in rows : KeyOf(q) = KeyOf(r)}

\* An upsert that compares with committed rows only.
Contended_Unseen(p) == FALSE

\* Another open transaction holds the row, or the index entry, of this key.
Contended(p) ==
  \E o \in Loaders \ {p} : \E q \in staged[o] : KeyOf(q) = KeyOf(request[p])

Upsert(p) ==
  /\ At(p, "upsert")
  /\ ~Contended(p)
  /\ IF Parents(request[p])
     THEN /\ staged' = [staged EXCEPT ![p] =
               IF Stored(request[p]) = {} THEN {request[p]}
               ELSE {OnConflict(q, request[p]) : q \in Stored(request[p])}]
          /\ Goto(p, IF request[p].table \in Identified THEN "read" ELSE "commit")
          /\ UNCHANGED <<rows, writer, drawn, request, found, answer, told>>
     ELSE Rollback(p, "rejected")

\* A read-back that looks the row up by the identifier the caller drew.
Visible_ByDrawnId(p, r) == {q \in Stored(r) \cup staged[p] : q.id = r.id}

\* What a statement of p sees of a key.
Visible(p, r) == {q \in Stored(r) \cup staged[p] : KeyOf(q) = KeyOf(r)}

\* productGet, repoGet, productRepoGet, and storedID: no row is an error.
ReadBack(p) ==
  /\ At(p, "read")
  /\ IF Visible(p, request[p]) = {}
     THEN Rollback(p, "missing")
     ELSE /\ \E q \in Visible(p, request[p]) : found' = [found EXCEPT ![p] = q.id]
          /\ Goto(p, "commit")
          /\ UNCHANGED <<rows, staged, writer, drawn, request, answer, told>>

\* The committed rows after the transaction of p.
Merged(p) == {q \in rows : \A r \in staged[p] : KeyOf(q) # KeyOf(r)} \cup staged[p]

Tell(p, i) ==
  told' = IF i = None THEN told ELSE told \cup {<<KeyOf(request[p]), i>>}

Commit(p) ==
  /\ At(p, "commit")
  /\ rows' = Merged(p)
  /\ Tell(p, found[p])
  /\ Return(p, "ok")
  /\ UNCHANGED drawn

\* COMMIT took effect, its reply did not arrive: the caller sees an error.
CommitUnheard(p) ==
  /\ At(p, "commit")
  /\ rows' = Merged(p)
  /\ Return(p, "error")
  /\ UNCHANGED <<drawn, told>>

\* A connection, statement or BEGIN IMMEDIATE that fails; the server rolls back.
Fail(p) == ~At(p, "idle") /\ Rollback(p, "error")

\* productRepoFind: product_repo joined to its product and its repo by name.
Hits(slug, url, ref) ==
  {r \in rows : /\ r.table = "product_repo" /\ r.name = ref
                /\ \E q \in rows : /\ q.table = "product" /\ q.name = slug
                                   /\ q.id = r.parents[1]
                /\ \E q \in rows : /\ q.table = "repo" /\ q.name = url
                                   /\ q.id = r.parents[2]}

\* One statement, no transaction; finding nothing is an answer of its own.
FindProductRepo(p, slug, url, ref) ==
  LET hits == Hits(slug, url, ref)
  IN /\ At(p, "idle")
     /\ answer' = [answer EXCEPT ![p] = IF hits = {} THEN "absent" ELSE "ok"]
     /\ IF hits = {} THEN told' = told
        ELSE \E r \in hits : told' = told \cup {<<KeyOf(r), r.id>>}
     /\ UNCHANGED <<rows, staged, writer, drawn, pc, request, found>>

-----------------------------------------------------------------------------
\* Identifiers a loader may pass on: those it was told, or one of nobody's.
Known(table) == {t[2] : t \in {u \in told : u[1].table = table}}

Call(p) ==
  \/ \E slug \in Slugs, segment \in Attributes : RegisterProduct(p, slug, segment)
  \/ \E url \in Urls : RegisterRepo(p, url)
  \/ \E product \in Known("product"), repo \in Known("repo") \cup Known("product"),
        ref \in Refs, service \in {None} : RegisterProductRepo(p, product, repo, ref, service)
  \/ \E owner \in Known("product_repo"), version \in Versions,
        images \in SUBSET (Attributes \cup {Empty}) : RegisterProductRepoVersion(p, owner, version, images)
  \/ \E owner \in Known("product_repo"), team \in Teams,
        manager \in Attributes : RegisterRepoOwner(p, owner, team, manager)
  \/ \E slug \in Slugs, url \in Urls, ref \in Refs : FindProductRepo(p, slug, url, ref)

\* The next statement of a call completes.
Statement(p) == Begin(p) \/ Busy(p) \/ ReadBack(p) \/ Commit(p) \/ CommitUnheard(p)

Step(p) == UNCHANGED dialect /\ (Statement(p) \/ Upsert(p) \/ Fail(p))

Next == \E p \in Loaders : Step(p) \/ (Call(p) /\ UNCHANGED dialect)

\* A statement completes; PostgreSQL queues the transactions that wait for a
\* row, so an upsert that can proceed again and again does.
Fairness ==
  \A p \in Loaders : /\ WF_vars(Statement(p) /\ UNCHANGED dialect)
                     /\ SF_vars(Upsert(p) /\ UNCHANGED dialect)

Spec == Init /\ [][Next]_vars /\ Fairness

-----------------------------------------------------------------------------
\* The <<key, identifier>> pairs the committed tables stand for.
Given == {<<KeyOf(r), r.id>> : r \in {q \in rows : q.table \in Identified}}

N == INSTANCE Names WITH given <- Given, told <- told

\* The registry implements a map from names to identifiers that only grows: two
\* loaders registering one name, and one loader repeating a registration whose
\* reply was lost, are always told the identifier the database kept, and it
\* never changes or comes to mean another name.
IdentifiersAreStable == N!Spec

\* The read-back inside the transaction always finds a row, whoever inserted it:
\* ErrRegistryRowMissing (storedID) is never returned.
ReadBackFinds == \A p \in Loaders : answer[p] # "missing"

\* Whatever order the calls fall in, every product_repo row is found by names, and
\* is all that is found: FindProductRepo never has a choice and never misses what
\* RegisterProductRepo acknowledged.
FoundByName ==
  \A r \in rows : r.table = "product_repo" =>
    \E slug \in Slugs, url \in Urls : Hits(slug, url, r.name) = {r}

\* Every call returns, also when two loaders upsert one key.
EveryCallReturns == \A p \in Loaders : ~At(p, "idle") ~> At(p, "idle")
-----------------------------------------------------------------------------
(* Why every call returns: who waits for whom.                             *)

\* The next statement of p cannot run before the transaction of o has ended.
WaitsFor(p, o) ==
  \/ At(p, "begin") /\ dialect = "sqlite" /\ writer = o
  \/ /\ At(p, "upsert") /\ o # p
     /\ \E q \in staged[o] : KeyOf(q) = KeyOf(request[p])

\* A loader waits for one that waits for nobody: a transaction writes one row, so
\* it has done its waiting when others can come to wait for it.
WaitsEnd == \A p, o \in Loaders : WaitsFor(p, o) =>
  ~At(o, "idle") /\ \A u \in Loaders : ~WaitsFor(o, u)
=============================================================================
