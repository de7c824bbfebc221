# A formal model of traust-sdk

TLA+ specifications of the Go SDK in `src/`, TLC configurations that check them
on small instances, and proofs checked by TLAPS. Line numbers refer to files of
the repository; paths without a root are below `src/go/v1/`.

    tlc -config StorageSave.cfg MCStorageSave        # about 70 s
    tlc -config StorageInit.cfg MCStorageInit        # about 10 s
    tlc -config Registry.cfg MCRegistry              # about 15 s
    tlc -config CurrentViews.cfg MCCurrentViews      # about 30 s
    tlc -config Projection.cfg MCProjection          # a few seconds
    tlc -config StorageRead.cfg MCStorageRead        # about 2 min
    tlc -config Adjudication.cfg MCAdjudication      # about 2 min

    tlapm BindingProofs.tla                          # and the other *Proofs.tla

Five more configurations show a disagreement between the code and its own
documentation, as a violation: `ViewsTextOrder`, `ViewsRollup`, `ViewsPolicy` (all of
`MCCurrentViews`), `ProjectionAllOf` (`MCProjection`) and `Dashboards` (`MCStorageRead`).

The first part below says what is modelled, checked and proved. The second is the
inventory of the whole system, the third what is left.

## 1. What is here

| part of the SDK | modules | run | proofs |
|---|---|---|---|
| saving an artifact (`storage/write.go`) | `Binding`, `StorageSave`, abstractly `BindingStore` | `save` | `BindingProofs`, `StorageSaveProofs` |
| initialising a database (`storage/client.go`) | `StorageInit` | `init` | `StorageInitProofs` |
| names (`storage/registry.go`) | `Registry`, abstractly `Names` | `registry` | `RegistryProofs` |
| the views that say which evidence counts (`storage/schema.go`) | `CurrentViews` over `Binding` | `views` and three violations | `CurrentViewsProofs` |
| from a document to its rows (`storage/projections.go`, `operations.go`, `types/`, the contracts) | `Contracts`, `ReviewContracts`, `GoTypes`, `Projectors`, `Tables`, `Projection` | `projection`, `projection_allof` | `ProjectionProofs` |
| reading bytes and dashboards (`storage/read.go`, `resolver.go`, `queries.go`) | `StorageRead`, `Dashboards` | `read`, `dashboards` | `StorageReadProofs` |
| from a skill to the ledger (`skills/`, `ledger/`) | `Skills`, `Conversion`, `Ledger`, composed by `Adjudication` | `adjudication` | `AdjudicationProofs` |

An `MC…` module holds the instance of each. Three ideas are shared. `Binding` is a row
of `artifact_binding` and what makes a set of such rows a good history; saving, the views
and reading all stand on it. `BindingStore`, the specification `StorageSave` is shown to
implement, is what `StorageRead` takes a save to be: one indivisible step. And the rule of
a database transaction is the same in `StorageSave`, `StorageInit` and `Registry`: one
action per SQL statement; at READ COMMITTED a statement reads what is committed and what
its own transaction wrote; an insert waits for an open transaction with an equal unique
key; any statement may fail, and the deferred `ROLLBACK` then runs; the reply to `COMMIT`
may be lost. SQLite differs in one lock for the whole database, taken by
`BEGIN IMMEDIATE`, and in giving up with `SQLITE_BUSY`. Where both databases are checked,
the dialect is a variable the initial state chooses.

### Saving an artifact

`saveTypedArtifact` (`write.go:39`) validates its input, projects the document
and calls `writeArtifact` (`write.go:82`), which runs one transaction:

| action | statement | code |
|---|---|---|
| `Call` | a valid call is made | `write.go:39-80` |
| `Begin`, `Busy` | `BEGIN`, or `BEGIN IMMEDIATE` on SQLite | `write.go:349` |
| `LockArtifact` | `pg_advisory_xact_lock` of the digest's first eight bytes (PostgreSQL) | `write.go:196` |
| `LookUp` | is the binding identifier there already | `write.go:114-130`, `249` |
| `ValidatePredecessor` | read and compare the superseded binding | `write.go:282` |
| `InsertEvidence` | `ON CONFLICT (digest) DO NOTHING` | `write.go:206` |
| `InsertBinding` | `ON CONFLICT (binding_id) DO NOTHING`, two unique indexes, a foreign key | `write.go:224` |
| `RegisterLocations` | one row per reference, on the new and on the already-bound path | `write.go:326` |
| `Project` | the rows of the document | `operations.go` |
| `Commit`, `CommitUnacknowledged` | `COMMIT`, whose reply may be lost | `write.go:125`, `146` |
| `Fail` | any statement fails; the deferred `ROLLBACK` runs | `write.go:358` |
| `RegisterProductRepo` | another client adds a row the foreign key needs | `registry.go:77` |

The state is the committed tables (`evidence`, `bindings`, `locations`,
`projections`, `productRepos`), the locks, what each open transaction has
`staged`, and per caller its next statement `pc`, its `request` and the last
`answer`. At READ COMMITTED a statement reads the committed tables and its own
staged rows; other transactions' statements come between any two of its own. A
unique index also sees uncommitted rows: an insert with an equal key waits until
the other transaction has ended. `StagedByOthers` is that rule. On SQLite
`BEGIN IMMEDIATE` takes one lock for the whole database and gives up with
`SQLITE_BUSY` when it is taken too long.

Abstractions. A digest is a model value and an identifier is the pair (digest,
context): SHA-256 is taken to be injective. The eight-byte lock key is not: the
instance has two digests that share it. Times of registration are left out (they
matter to the views and to reading). Projections are one token per binding.
Invalid input (`types.go:52-114`) never reaches the database and is left out:
`RequestType` is what is left after validation. A caller that stops for ever in
the middle of a transaction is covered by `Fail`, since the database rolls the
transaction back when the connection ends.

#### Why the checks are about something

`validatePredecessor` does not look for a rival successor, and `ON CONFLICT DO
NOTHING` does not say whose row was kept. What keeps the store right is a
combination: the advisory lock of the digest makes look-up and insertion of one
identifier atomic; the unique index, which blocks on uncommitted rivals, is the
only thing that stops two different digests from superseding one binding; the
partial index on cumulative reports stops two roots of one chain, whose subjects
and digests (and so whose locks) may differ.

* `LinearHistory`: a binding has at most one successor.
* `GroundedHistory`: every successor follows a committed binding of the same
  context and product_repo, and no history closes on itself.
* `OneCurrentCumulative`: at most one cumulative report is current per scope,
  product_repo and run (the promise in the comment of
  `idx_artifact_binding_cumulative_root`). It follows from the two above and the
  root index together, never from one of them.
* `WholeArtifacts`: binding, evidence and projection become visible together.
* `SuccessIsTrue`: an answer `saved` or `already_bound` is the truth about the
  committed rows, including which of the two it is.
* `RefusalIsTrue`: a definite refusal is never given for a save that is already
  durable, as after a lost reply to `COMMIT` and a repeated call.
* `AppendOnly`: committed bindings and locations stay.
* `EveryCallReturns`: the lock and the index never make callers wait in a circle.
* `ImplementsStore`: every behaviour is one of `BindingStore`, under the mapping
  `bindings <- WholeBindings`, `pending <- request`.

#### The run

The run `save` checks all of these, on either database (the dialect is a variable
that the initial state chooses). Two callers make any of nine requests again and
again, over three digests (two of which share a lock
key), two contexts that differ only in the subject, one product_repo that is
registered at any moment, and two references. The nine requests are the smallest
set in which every rule has its race: two roots of one chain under different
subjects and under different digests, two successors of one root, a chain of
three, the same identifier with two predecessors, a predecessor of another
product_repo, a binding that supersedes itself, a retry with another reference.
Two callers are enough for every pairwise conflict, and every rule above is about
a pair of rows; the proofs remove the bound. Nothing is cut off by a constraint:
the reachable state space is finite because committed rows come from the
requests. Deadlock checking is on.

Fairness (`Fairness`). `WF` on the statements of each caller: a transaction that
can run its next statement does, or fails. `SF` on `LockArtifact` and
`InsertBinding`, the two statements that wait: PostgreSQL queues the waiters of
an advisory lock and of a transaction, so a waiter whose turn comes infinitely
often gets it. Nothing is assumed about new calls, failures or registrations. On
SQLite there is no queue: a caller may also return because it gave up (`Busy`),
and that is how `EveryCallReturns` is met there.

#### The proofs

`StorageSaveProofs` proves, for any sets of savers, requests, digests, contexts
and product_repos, any assignment of lock keys, and both dialects:

| theorem | states |
|---|---|
| `TypeCorrect` | `Spec => []TypeOK` |
| `Invariant` | `Spec => []IInv` |
| `HistoryIsLinear`, `HistoryIsGrounded`, `CumulativeIsUnique`, `ArtifactsAreWhole` | the four safety invariants |
| `SuccessTheorem`, `RefusalTheorem`, `AppendOnlyTheorem` | the three action properties |
| `Refinement` | `Spec => Store!Spec` |
| `LocksAreHeldByTransactions` | a lock is held by a transaction under way |
| `WaitsEndTheorem`, `SomebodyProceedsTheorem` | who waits for whom never closes to a circle |
| `SavesComeWhole` | what `CurrentViews` and `StorageRead` assume of a save |

None of the safety properties is inductive. `IInv` adds what each statement
relies on: a transaction past its lock holds it (`LockInv`), so what its first
read found stays true (`LookUpInv`); a valid predecessor stays valid because
bindings are never removed (`PredecessorInv`); what is staged is determined by
the next statement and the request (`StagedInv`); a staged row clashes with no
committed row and with no row staged elsewhere, so either of two open
transactions may commit first (`IndexInv`); and the committed rows form a
`GoodHistory`. `BindingProofs` shows that a row which may join a good history
leaves a good history: the case of `OneHeadPerChain` uses `Linear`, `Acyclic` and
`Rooted` together. Every action but `Publish` is shown to be private to its
saver (`PrivateStepInv`), so that each needs its argument for one saver only.

Assumptions, all of them ASSUMEs that TLC evaluates on each run:
`ContextAssumption` (a report has a subject and a run, only reports have a role),
`NoneAssumption` and `SaverAssumption` (None is not a value), `RequestAssumption`,
`LockAssumption`.

`EveryCallReturns` is only model-checked: liveness under fairness is outside what
the proof system handles. What can be proved of it is its safety half. `WaitsFor(s, t)`
says that the next statement of `s` cannot run before the transaction of `t` has ended;
`WaitingIsBeingBlocked` shows that this is so exactly where the conjunct of the
statement's guard that speaks of other transactions is false. `WaitsEndTheorem`: a caller
may wait for an advisory lock whose holder waits, in `INSERT INTO artifact_binding`, for
a third, and there the line ends, as the third has all its locks and its row staged;
evidence is never waited for, since equal digests share the lock. So with any number of
savers and any collisions of lock keys there is no deadlock for PostgreSQL to detect, and
while a call is open some call can go on (`SomebodyProceedsTheorem`). That each of them is
served in the end is what the run adds, for two callers.

Three modules take a save to be one step. `SavesComeWhole` proves that each step of
`StorageSave` leaves the committed rows alone or adds one artifact that may join the
history (`Saved` of `BindingProofs`), and `AdmitsEverySave`, in `CurrentViewsProofs` and
`StorageReadProofs`, that their step allows every such change: what is proved there holds
of what the interleaved saves do.

### Initialising a database

`Init` (`client.go:84`) runs in every program that uses the database, at any time and on
several hosts at once. Its actions are `Begin`, `Lock` (the advisory lock of the
metadata, PostgreSQL), `StorageMetadataExists`, `RequireStorageRevision`, `Bootstrap` (one
`CREATE … IF NOT EXISTS` per step), `Upsert` (the metadata row) and `Commit`. A program
dies between any two of them (`Fail`) and may call again.

`IF NOT EXISTS` looks only at what is committed; a `CREATE` waits for a transaction that
is creating the same object. `objects` records from which revision each object was
created, so a schema of mixed origin can be seen. PostgreSQL's `CREATE OR REPLACE VIEW` is
taken for another `IF NOT EXISTS`: it runs only where the read found no row, and then nobody
of another revision has created a view. The database starts empty, in use, or
created by hand from the contracts' DDL, which has no row: a program then bootstraps over
it, which changes no object, and stamps its own revision. That is right only if the DDL
was of that revision, so `Init` of the model takes such a database only where all programs
are of the revision of its objects.

* `OneRevision`: there is nothing, or the whole schema of one revision, and the row tells
  which.
* `AnswersStand`: `ok` means that the program's own schema is there,
  `ErrIncompatibleRevision` that it never will be.
* `RevisionStands`: no `Init` replaces a recorded revision.
* `EveryInitReturns`: programs that wait for one another all return.

The run has three programs of any two revisions (two of one can race a third of the
other), four statements with the metadata table second (one object before it, two after)
and both databases. Fairness is `WF` on the statements and `SF` on `Lock`, whose waiters
PostgreSQL queues; crashes are not assumed.

`StorageInitProofs` proves the three safety properties for any number of programs,
revisions and statements, from `InitAssumption`. The invariant: from its first read to
its end a transaction holds the lock, so what it read stands and nobody else has
created or stamped anything; it has created nothing or exactly the objects before its
next statement; a schema without a row is of everybody's revision. `WaitsEndTheorem` adds
that programs wait for the lock only, and for one that waits for nobody: no two `CREATE`s
of different programs ever meet.

### Names

`RegisterProduct` and its four siblings (`registry.go:44-160`) draw a fresh identifier,
upsert, read the row back by its key and commit; `FindProductRepo` (`registry.go:164`)
goes from names to the identifier. The reply tells the caller which identifier its name
has, and every other row refers to it. A registration whose `COMMIT` reply is lost is
made again under another identifier.

State: the rows, what each open transaction has staged, the identifiers `drawn` so far,
per loader its statement, request and answer, and `told`, every pair of a name and an
identifier anybody was ever answered. `Upsert` takes the stored row under `ON CONFLICT`
with what `DO UPDATE` replaces, checks the foreign keys against committed rows, and waits
for an uncommitted row of its key. Loaders use the identifiers they were told
(`Known`), as the API requires. Texts are valid, empty or garbled (NUL bytes, invalid
UTF-8); a list with an empty element is refused.

* `IdentifiersAreStable`: every behaviour is one of `Names`, in which a name is given an
  identifier once and every answer is that one. The mapping reads `given` off the
  committed rows.
* `ReadBackFinds`: `ErrRegistryRowMissing` is never returned, although the row read may
  have been written by anybody.
* `FoundByName`: `FindProductRepo` finds every product_repo by the names it was
  registered under, and what it answers exists.
* `EveryCallReturns`: loaders that wait for each other's rows all return.

The run has two loaders with overlapping inventories: one product, repository and ref,
one version, one team and one that is garbled, four identifiers, so that each name can
be lost and registered again. Each rule compares two transactions of one key; a third
only repeats the second's view. Deadlock checking is off: with all four identifiers
drawn and nothing known, there may be nothing left to call. Fairness is `WF` on the
statements and `SF` on the `Upsert` that waits for a row.

`RegistryProofs` proves all but the liveness for any loaders, texts and identifiers,
from `RegistryAssumption`. The invariant: keys and identifiers are unique among committed
rows; an open transaction's row keeps the identifier of its key; two open
transactions never hold one key or one identifier; `told` agrees with the rows. The
refinement is the last step: an `Upsert` stutters, a `Commit` gives or knows a name.
`WaitsEndTheorem`: a transaction writes one row, so who is waited for waits for nobody,
and loaders may register their inventories in any order.

### Which evidence counts

Nothing is ever deleted, so every dashboard stands on views that choose among the
bindings of a subject. `CurrentViews` has one variable, the committed `entries`
(a row of `artifact_binding` and its `bound_at`), one action, `Bind`, with the
rules of a save that succeeds (concurrency is the business of `StorageSave`), and
one operator per view, named like the view.

| operator | view | rule |
|---|---|---|
| `Superseded` | `current_binding` (`schema.go:113`) | no binding of the scope names it as predecessor |
| `report_current` | `schema.go:114` | unsuperseded; disposition-aware first, then newest, then identifier |
| `ownership_current` | `schema.go:115` | newest declaration of a subject, over all scopes |
| `current_finding` | `schema.go:116` | finding rows of counted reports and of current policy reports, joined with the owner |
| `threat_current`, `advisory_exposure` | `schema.go:117`, `126` | newest per subject, per advisory; supersession is not looked at |
| `pqc_posture`, `pqc_readiness_rollup` | `schema.go:121`, `137` | every unsuperseded assessment; sums per owner |

Time. `boundAt` is `time.Now` of the client (`write.go:240`), taken before an
INSERT that may wait. So stamps need not follow the order of commits, and may be
equal (PostgreSQL rounds to microseconds): `Bind` takes any instant, also for a
correction, whose client may have a clock that is behind. Instants are hundredths of a
second; on PostgreSQL they are compared as numbers, on SQLite as the text `nowUTC`
writes, whose order is `TextOrder`. `Rank` is the order of identifiers, any injective
one. `Document` gives for each payload the few values the views read.

* `FindingCountedOnce`: exactly one report of a subject counts, whatever has been
  restated or superseded, and each of its findings has exactly one row.
* `OneDocumentPerKey`: the same for threat models, advisories and owners.
* `CorrectionsCount`: the three views that ignore supersession still never count a
  document whose correction is stamped later, except for what the correction no longer
  speaks of (another CVE, a subject no longer declared). Only the times make this so: a
  correction stamped earlier, by a client whose clock is behind, does not count there.
* `CountedDocumentStands`: what counts gives way only to its own correction or to a
  better claim; nothing older comes back.

`views` checks these on PostgreSQL: sixteen candidate bindings, for each family a
first document, its correction and a rival that supersedes nothing, two runs, two
scopes for the registry, payloads bound twice. Up to `MaxEntries` = 4 of them are
bound, at three instants. Each rule compares two bindings of one family, a
correction makes three, an owner four. There are no deadlock checks: when all is
bound the system rests. The proofs remove the bounds.

Three runs show a disagreement between the code and its comments, as a violation:

* `views_text_order`: on SQLite the earlier of two bindings in one second may
  count, as `RFC3339Nano` drops trailing zeros and the text is compared.
* `views_rollup`: `pqc_readiness_rollup` says it counts subjects; three of its
  columns add up assessments, and no assessment can supersede that of another run.
* `views_policy`: `current_finding` says it unifies code and policy findings; no
  save of this SDK writes `cloud_config_finding`.

`CurrentViewsProofs` proves `TypeCorrect`, `FindingsCountedOnce` and
`DocumentsCountedOnce` for both databases (on SQLite, too, exactly one document
counts, if not the right one). The invariant says that any set of bindings has a newest
one, a preferred one and one that none of the set supersedes, each kept by adding one
binding to a strict total order; existence of the counted document follows, and
uniqueness from totality, for which the identifier breaks ties.

`CorrectionTheorem`, `CountedStandsTheorem` and `MostRecentTheorem` speak of time, so they
need `StampsCompare`: PostgreSQL, or stamps without a trailing zero to drop. Without it
they are false on SQLite, as `views_text_order` shows; so dropped zeros are the whole
cause. Likewise `RollupTheorem` proves that the rollup counts subjects as long as no
subject has two assessments that are not superseded (`OneAssessment`), the situation
`views_rollup` reaches, and `SpineIsOfReports` that the spine never has a row of a policy
report, which makes `views_policy` the rule and not a case.

The assumptions are `CandidateAssumption`, `InstantAssumption`, `RankAssumption`,
`DocumentAssumption` and `DialectAssumption`, which TLC evaluates.

### From a document to its rows

A document passes four places that are written or generated separately: the contract
(JSON Schema), the Go struct, the projector and the table. Any two may disagree about
one member, and no test saves every document without every member.

| module | what it holds | source |
|---|---|---|
| `Contracts`, `ReviewContracts` | every object of the 31 contracts: its members, the required and the nullable ones, what it takes over by `allOf` | `validate/schemas_gen.go` |
| `GoTypes` | how a member becomes a field (pointer, `omitempty`), what decoding and encoding keep | `src/go/internal/generate/types.go`, `types/artifact.go` |
| `Projectors` | which member each column is filled from, and by which helper | `projections.go`, `report_projection.go`, `operations.go` |
| `Tables` | columns, and which are NOT NULL | `queries.go`, `schema.go` |
| `Projection` | the passage itself: `ParseArtifact`, `ValidateBinding`, `Decode`, `ProjectRow` or `ProjectJSON` | `write.go:39-80` |

A member of a document is given, empty (a list or map without entries), null or absent; a
Go value is given, empty, nil or a zero; a column is given, empty, null or a zero. Objects
are taken wherever they land: 26 families of one row, 16 objects that land in the rows of
list items, and each object inside a JSON column. `Documents` says which documents of an object are handed in: the run takes those
with all members, with each member missing, null or empty in turn, and with nothing but
what is required; the proofs take any.

* `AdmittedIsStored`: what the contract admits the database accepts.
* `NothingInvented`: absent stays absent, through decoding, projecting and encoding.
* `OwnMembersReachTheRow`: each member an object names reaches a column as it was written.
  `Omitted` is the exception: inside a JSON column `omitempty` drops an optional list or map
  that is empty, which the stored document then cannot tell from one that was not given.

`projection_allof` shows that this is not so for what an object takes over by `allOf`: a
validation's novel finding loses all of its members but its own.

The run ends when all documents have been taken: no deadlock check. Left out are the
values of members, `if`/`then` conditions, formats, and the identifiers given to list
items, of which `ON CONFLICT DO NOTHING` keeps the first of two equal ones.

`ProjectionProofs` removes the run's choice of documents. An object of thirty members has
4^30 documents, and a projector or a Go type that treats two missing members otherwise than
each alone would escape an enumeration one at a time. `TablesAgree` is the part that goes
through the tables: for each place an object lands, every column is filled from a field
of the generated type, a column that may not be null from a member that is always there,
and each member an object names fills one. From this and nothing else about the tables,
`AdmittedIsAlwaysStored`, `NothingIsInvented` and `OwnMembersAlwaysReachTheRow` follow for
every document, member by member. `OnlyInheritedOrEmptyIsLost` is the other side
of `projection_allof`: what a stored document lacks is exactly what was written of the
members inherited by `allOf`, and the empties of `Omitted`. `DocumentAssumption` only says that `Documents` are documents.

### Reading bytes and dashboards

`GetBinding`, `GetPayload` and the generated `Get<Artifact>` (`read.go:31-190`) read the
binding, the size of its evidence and its references by three statements outside any
transaction, and then try the references in the order (`registered_at`, `reference`)
until one has bytes of that size and digest. The 24 dashboards run one view each in
a read-only transaction with a scope setting (`read.go:340-384`); the query itself asks for
rows of the scopes, and the setting filters one view, `findings_summary`, once more
(`schema.go:133`).

A malformed identifier is refused as `ErrBindingNotFound` before a connection is asked for.
A dashboard may fail to get its connection (`ConnectFails`). That typed bytes do not decode
after a fetch (`read.go:94-97`) is left out: they have the digest of bytes that a save
has validated and decoded.

`StorageRead` has an action per statement and per reference tried. Around the readers,
`Save` adds a binding or references to it in one step (`BindingStore`), and `Move` lets
producers, who own the bytes, write, overwrite and delete them at any moment. Every
call holds one connection of the pool from `Connect` to its answer; `pool` keeps of each
connection what may leak: an open transaction and the scope setting. `witness` records
what a call may count on: what was committed before it began, and the references whose
bytes were within reach and unmoved ever since.

* `MirrorIsFound`: a payload is the bound one, and a call fails only if no reference
  registered before it kept the bytes to its end.
* `MismatchIsReported`: a mismatch is never hidden behind an absence, nor an absence
  behind an outage, in whatever order the references fail.
* `SavedIsSeen`: three separate statements still see every save that returned before the
  call.
* `ScopedRows`: a dashboard shows all rows of its scopes and no others.
* `PoolIsClean`: no connection goes back with a transaction or a scope, on any path.
* `EveryReadReturns`: with one connection for all, every call is answered.

The run `read` has two readers (one without a resolver), one connection, so that each
call follows another on the same one and readers have to wait; two references, so that any two
ways to fail meet in either order; two digests of one length, so that only the digest
tells them apart; artifacts in two scopes. Fairness is `WF` on statements and fetches, which
are taken to return in the end (a fetch is the caller's own code), and `SF` on `Connect`:
`database/sql` hands a connection that is put back to a waiter. `dashboards` asks every dashboard: three of them select more columns
than their row type has fields, and fail as soon as there is a row. `Dashboards` lists
columns and fields of all 24; `ColumnsMeetTheirFields` compares their order.

`StorageReadProofs` proves all but the liveness for any readers, connections, references
and producers. The invariant: an unmoved reference is still to be tried or has failed
for a reason that is in `seen`; a reader past `Connect` has a connection of its own, in
a transaction or with a scope only where its statement says so; what a reader has read
stands, as rows are never deleted. `FittingDashboardsAnswer` is the other side of `dashboards`: a caller that asks only
dashboards whose columns meet their fields is never given an error of the query's own.

### From a skill to the ledger

A consumer runs a skill, takes the artifact it returns, and submits it to the ledger as
a triage, validation or verification report. `Adjudication` composes three modules.

`Skills` (`skills/skill.go`): `Run` waits for its result; `Dispatch` returns a `JobRef`,
which callers keep and may store without its skill name (`Restore`), and `Collect` turns
it into an artifact later. The provider is external: it fails, fails after it has
started the job, and returns any bytes.

`Conversion` (`ledger/convert.go`): what each finding of a report becomes: an event, an
item for review, a skipped finding, or nothing.

`Ledger` (`ledger/client.go`, `ingest.go`, `filters.go`, `operations.go`): a call
prepares its request, may refuse it (validation, fingerprints, filters), posts it once,
and ends by `Receive` or by `Fail`. `wire` holds the requests on their way, also of
callers that have given up: a request may be lost, arrive late, or be carried out while
its reply is lost (`Fail`) or replaced by a gateway's error (`Obscured`). There is no
retry and no idempotency key, so a repeated submission may put the findings on the layer
twice; the properties speak of each request by its number.

The service is external and is taken to do what the client's comments say: a batch is
accepted whole or not at all, `initialise` never replaces a layer, a stamp never
overwrites a fingerprint, a status of 2xx means the request was carried out and one of
4xx that it was not, a 404 is the service's own, and nothing redirects (`net/http` would
turn the `POST` into a `GET`).

A submission is decoded, encoded and validated again (`ingest.go:41-48`). A validation
report with novel findings loses their inherited members in between, as
`projection_allof` shows, and is refused before it is sent; `Report` says so.

* `JobsKeepTheirSkill`: an artifact has the schema of the skill it was asked of and, if
  its reference still has its name, is the work of that skill.
* `EventsAreEarned`: an event on a layer says what a finding of its job's own output says
  of the same reference in the lane of that output, disposition by disposition (`Earns`
  names for each the verdicts it may come from); no refutation that never tested its
  claim closes a finding, no confirmation by inference opens one.
* `AnswersAreTrue`: success, and a reply that did not decode, mean that all that the
  report decides is on the layer, each finding once; a refusal, that nothing of it is
  there or on its way; any other error, all or nothing. A finding without a reference is
  skipped by the code and is not among what a report decides.
* `OwnLayerIsFound`: a caller that has initialised its layer is never told there is none.

The run `adjudication` has two consumers, two layers, a skill of each lane and one more
of the schema of triage, documents with every branch of the conversions, one job and
two calls: a call and one it may race, repeat or contradict. `SkillsFirst` is a
reduction: steps of the skills and calls to the ledger commute, since a call reads the
artifact and nothing else of the skills, and finished jobs do not change. Consumers and
layers are symmetric. There is no deadlock check (calls run out) and no liveness:
nothing makes a network deliver.

#### The proofs

`AdjudicationProofs` proves `JobsKeepTheirSkill` and `EventsAreEarned` for any skills,
documents of the three lanes, consumers, layers and calls, from `LaneAssumption` (of the
skills, those whose output is a report) and `OperationAssumption` (the operations of
which only the end is modelled are others than the modelled ones). The invariant has three parts: references and executions name the
skill their job was started for and a finished job does not change (`SkillsInv`); each
event on a layer (`LayersInv`) and each event in a request on its way or awaited
(`WireInv`) is earned by the output of the job it names. `Convert` is the heart: the
lemmas on each lane say that what it makes of a finding is earned by that finding.

It also proves `AnswersAreTrue`, `OwnLayerIsFound` and `TypeOK`, from two more
assumptions: documents conform to what their contract says of verdicts, grades and
references (`DocumentAssumption`, the enumerations of `schemas_gen.go`), and an index
holds references (`IndexAssumption`). The argument follows the number of a request.

* A conversion makes of every finding that the report decides one event or one item for
  review (`ConvertPlans`); this needs the contract's verdicts, since the code skips one
  it does not know. So a request carries everything it decides, once (`Complete`).
* A number stands for one request (`NumberInv`), and what lies on the layers under one
  number lies on one of them (`Lone`).
* A submission on its way lies on no layer. Accepting it puts all of it there; a stamp or
  a resolution keeps each entry what it was (`Keeps`), so what lies there stays whole. A
  reply, and then an answer, of 2xx says that it does; one of 4xx that it does not, and
  that the request is no longer on its way (`SubmissionInv`).
* A reply that there is no layer was made when there was none, hence before anyone was
  told of an initialisation, and its caller hears of nothing else until the call ends
  (`FindInv`).

### What is only model-checked

* Liveness: `EveryCallReturns` (twice), `EveryInitReturns`, `EveryReadReturns`. The prover
  does not handle fairness. That nobody waits in a circle is proved for the first three
  (`WaitsEndTheorem` of each module); that the scheduler gets round to everybody is not.
* All other properties of the passing runs are theorems. `CorrectionsCount` and
  `CountedDocumentStands` hold under `StampsCompare` only, as said above.

### What the violations show

| run | what the code does | what it says | the theorem that delimits it |
|---|---|---|---|
| `views_text_order` | on SQLite the earlier of two bindings in one second may count | the newest wins | `MostRecentTheorem`: never on PostgreSQL, nor where no stamp ends in a zero |
| `views_rollup` | columns of `pqc_readiness_rollup` add up assessments | they count subjects | `RollupTheorem`: never while each subject has one current assessment |
| `views_policy` | no save writes `cloud_config_finding` | `current_finding` unifies code and policy findings | `SpineIsOfReports`: of every policy report with findings |
| `projection_allof` | a validation's novel findings are stored without their members | nested values remain JSON | `OnlyInheritedOrEmptyIsLost`: all that is written of inherited members, and else only optional empties inside a JSON column |
| `dashboards` | three dashboards fail with a scan error on their first row | it returns the threats of the current register | `FittingDashboardsAnswer`: of no dashboard whose columns fit |

`PROJECT.json` quotes the lines.

## 2. Inventory

**Storage, writing** (`storage/write.go`, `types.go`, generated `operations.go`).
State: the artifact tables and the locks. Called by producers, concurrently and from
several processes. Hard: READ COMMITTED interleavings, waiting on indexes, lost commits.
Modelled.

**Storage, initialisation** (`storage/client.go`). State: the metadata row and the schema.
Hard: several programs on an empty database, a crash between statements, programs of
several revisions. Modelled. `Save` and the reads never look at the revision: a program
that does not call `Init` is on its own, which the model leaves as it is.

**Storage, registry** (`storage/registry.go`). State: product, repo, product_repo,
versions, owners. Hard: a fresh identifier per call, racing and repeated calls.
Modelled.

**Storage, reading and dashboards** (`storage/read.go`, `resolver.go`, `queries.go`).
State: the pooled connection. Hard: statements outside a transaction, bytes that other
programs own, settings that survive on a connection. Modelled.

**Storage, views** (`storage/schema.go:113-142`, `252-281`). Pure functions of the tables,
which choose among several bindings that are current at once. The views that count
documents are modelled; the views over tables that no save fills
(`validation_current`, `compliance_posture`, `verification_current`,
`remediation_current`), the aggregations and the SLA views are not.

**Storage, projections** (`projections.go`, `report_projection.go`,
`projection_identifiers.go`, generated save functions). Pure: document to rows. Presence
of members modelled, their values and the identifiers of list items not.

**Ledger client, conversion, filters** (`ledger/`). State: the open call; the layer lives
in the service. Hard: no retry and no key, a reply that is lost or replaced. The report
lanes are modelled with what they do to a layer; of the human lane (`SubmitCountersign`,
`SubmitSeverity`), of signing and of the other reads only how a call ends.

**Skills** (`skills/`). State: the jobs of a provider, the references of callers. Hard: a
reference that outlives its process. Modelled.

**Validation** (`validate/validate.go`). State: one compiler and a cache, process-wide. The
contracts' presence rules are modelled as the gate of `Projection`; the evaluation of
JSON Schema and the compiler's lock are the library's.

**Types, enums** (`types/`, `enums/`). Generated. What decoding keeps is in `GoTypes`;
`enums` is a look-up.

**Generator** (`internal/generate/`), **CI** (`ci/`). Sequential developer tools. The rules
by which the generator gives a member its Go type and its column are modelled, as far as
they decide what survives a save.

**Release** (`release.py`). State: VERSION files, tags. A maintainer's script.

Storage and ledger never call each other; a product_repo identifier from the registry is
what joins them. Skills produce the artifacts a caller then saves and submits.
`PROJECT.json` lists every component with its sources and, under `hazards`, each place
where the code can go wrong in a way tests hardly reach, with the property that watches
it or the reason why none does.

## 3. Not modelled, and what is left

* Values of members, `if`/`then`, formats and patterns of the contracts: the library
  evaluates them; no state of the SDK depends on more than the verdict.
* The identifiers of list items: whether two items of a document can get one identifier
  is a question about hashed text. The code then keeps the first (`ON CONFLICT DO NOTHING`).
* The compiler cache of `validate` (`sync.Once`, a mutex): a model of it would be one of the
  Go library.
* A `ROLLBACK` that fails and leaves its connection to the pool: `database/sql` closes such
  a connection. The proof of `PoolIsClean` covers the paths where it works.
* Aggregations, SLA views, URL building, the length cap of a rationale, test doubles, the
  generated enums, CI and the release script.

Left to do, in order: the views over tables that are not filled today, once a save fills
them; the human lane of the ledger.
