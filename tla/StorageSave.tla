---------------------------- MODULE StorageSave ----------------------------
(***************************************************************************)
(* Concurrent calls of Save<Artifact> (storage/write.go) against one       *)
(* database.  Every call is one SQL transaction; each statement of it is   *)
(* an action, because PostgreSQL runs the transactions at READ COMMITTED   *)
(* and another caller's statements fall between any two of them.  SQLite   *)
(* opens the transaction with BEGIN IMMEDIATE and so admits one writer.    *)
(*                                                                         *)
(* A statement sees the committed tables and what its own transaction      *)
(* staged.  Rows another transaction staged are invisible to reads, but a  *)
(* unique index makes an INSERT wait for the transaction that staged a     *)
(* row with an equal key.                                                  *)
(***************************************************************************)
EXTENDS Binding

CONSTANTS
  Savers,       \* concurrent callers, one database connection each
  Requests,     \* the calls they may make
  LockKeys,     \* values of the advisory lock key
  LockKey,      \* LockKey[d]: the first eight bytes of digest d; may collide
  Database      \* the lock BEGIN IMMEDIATE takes

ASSUME RequestAssumption == Requests \subseteq RequestType

ASSUME LockAssumption ==
  /\ LockKey \in [Digests -> LockKeys]
  /\ Database \notin LockKeys

ASSUME SaverAssumption == None \notin Savers /\ None \notin Requests

VARIABLES
  dialect,       \* "postgres" or "sqlite", as detectDialect found it
  evidence,      \* committed artifact_evidence: digests
  bindings,      \* committed artifact_binding: rows
  locations,     \* committed artifact_location: <<binding id, reference>>
  projections,   \* bindings whose projection rows are committed
  productRepos,  \* committed product_repo rows, the target of a foreign key
  lock,          \* the saver holding each lock, or None
  staged,        \* what each open transaction wrote and has not committed
  pc,            \* the next statement of each saver
  request,       \* the call each saver is making
  answer         \* what its last call returned

tables == <<evidence, bindings, locations, projections>>
vars == <<dialect, tables, productRepos, lock, staged, pc, request, answer>>

Locks == LockKeys \cup {Database}

NothingStaged ==
  [evidence |-> {}, bindings |-> {}, locations |-> {}, projections |-> {}]

Answers == {None, "saved", "already_bound", "mismatch", "not_found",
            "constraint", "error"}

Statements == {"begin", "lock", "lookup", "predecessor", "evidence", "binding",
               "locations", "project", "commit", "relocate", "recommit"}

StagedRows == [ evidence    : SUBSET Digests,
                bindings    : SUBSET Rows,
                locations   : SUBSET (BindingIds \X References),
                projections : SUBSET BindingIds ]

TypeOK ==
  /\ dialect \in {"postgres", "sqlite"}
  /\ evidence \subseteq Digests
  /\ bindings \subseteq Rows
  /\ locations \subseteq BindingIds \X References
  /\ projections \subseteq BindingIds
  /\ productRepos \subseteq ProductRepos
  /\ lock \in [Locks -> Savers \cup {None}]
  /\ staged \in [Savers -> StagedRows]
  /\ pc \in [Savers -> Statements \cup {"idle"}]
  /\ request \in [Savers -> Requests \cup {None}]
  /\ answer \in [Savers -> Answers]

Init ==
  /\ dialect \in {"postgres", "sqlite"}
  /\ evidence = {} /\ bindings = {} /\ locations = {} /\ projections = {}
  /\ productRepos = {}
  /\ lock = [k \in Locks |-> None]
  /\ staged = [s \in Savers |-> NothingStaged]
  /\ pc = [s \in Savers |-> "idle"]
  /\ request = [s \in Savers |-> None]
  /\ answer = [s \in Savers |-> None]

-----------------------------------------------------------------------------
Row(s) == RowOf(request[s])

\* The lock that serialises the transactions of a digest.
LockOf(digest) == IF dialect = "postgres" THEN LockKey[digest] ELSE Database

\* A session lock (pg_advisory_lock) nobody unlocks.
Unlocked_Session(s) == lock

\* The transaction's locks go with it, whether it commits or rolls back.
Unlocked(s) == [k \in Locks |-> IF lock[k] = s THEN None ELSE lock[k]]

\* An index that only compares with committed rows.
StagedByOthers_Unseen(s) == {}

StagedByOthers(s) == UNION {staged[t].bindings : t \in Savers \ {s}}

At(s, statement) == pc[s] = statement

Goto(s, statement) == pc' = [pc EXCEPT ![s] = statement]

\* The call returns: the transaction is over and the saver is free again.
Return(s, a) ==
  /\ answer' = [answer EXCEPT ![s] = a]
  /\ request' = [request EXCEPT ![s] = None]
  /\ staged' = [staged EXCEPT ![s] = NothingStaged]
  /\ lock' = Unlocked(s)
  /\ Goto(s, "idle")
  /\ UNCHANGED productRepos

\* An early return before COMMIT: the deferred ROLLBACK discards the work.
Rollback(s, a) == Return(s, a) /\ UNCHANGED tables

\* References of this save replace those of earlier ones.
Publish_Replace(s, a) ==
  /\ evidence' = evidence \cup staged[s].evidence
  /\ bindings' = bindings \cup staged[s].bindings
  /\ locations' = {l \in locations : l[1] # Row(s).id} \cup staged[s].locations
  /\ projections' = projections \cup staged[s].projections
  /\ Return(s, a)

\* COMMIT took effect in the database.
Publish(s, a) ==
  /\ evidence' = evidence \cup staged[s].evidence
  /\ bindings' = bindings \cup staged[s].bindings
  /\ locations' = locations \cup staged[s].locations
  /\ projections' = projections \cup staged[s].projections
  /\ Return(s, a)

-----------------------------------------------------------------------------
(* One call, statement by statement.                                       *)

\* Save<Artifact> with a valid artifact, binding and references.
Call(s, r) ==
  /\ At(s, "idle")
  /\ request' = [request EXCEPT ![s] = r]
  /\ answer' = [answer EXCEPT ![s] = None]
  /\ Goto(s, "begin")
  /\ UNCHANGED <<tables, productRepos, lock, staged>>

\* BEGIN, or BEGIN IMMEDIATE once no other SQLite connection is writing.
Begin(s) ==
  /\ At(s, "begin")
  /\ \/ /\ dialect = "postgres"
        /\ UNCHANGED lock
        /\ Goto(s, "lock")
     \/ /\ dialect = "sqlite"
        /\ lock[Database] = None
        /\ lock' = [lock EXCEPT ![Database] = s]
        /\ Goto(s, "lookup")
  /\ UNCHANGED <<tables, productRepos, staged, request, answer>>

\* SQLITE_BUSY: BEGIN IMMEDIATE gave up waiting for the writer.
Busy(s) ==
  /\ At(s, "begin")
  /\ dialect = "sqlite"
  /\ lock[Database] # None
  /\ Rollback(s, "error")

\* No lock: the transaction goes on to its first read.
LockArtifact_Skip(s) ==
  /\ At(s, "lock")
  /\ Goto(s, "lookup")
  /\ UNCHANGED <<tables, productRepos, lock, staged, request, answer>>

\* pg_advisory_xact_lock: wait for the transactions that share the key.
LockArtifact(s) ==
  /\ At(s, "lock")
  /\ LET k == LockOf(request[s].digest)
     IN  /\ lock[k] = None
         /\ lock' = [lock EXCEPT ![k] = s]
  /\ Goto(s, "lookup")
  /\ UNCHANGED <<tables, productRepos, staged, request, answer>>

\* Pointer comparison in place of sameOptional: non-nil fields never match.
sameBinding_Pointers(b, row) == b = row /\ row.supersedes = None

\* All fields but the references and the time of binding.
sameBinding(b, row) == b = row

\* getBinding of the call's own identifier.
LookUp(s) ==
  /\ At(s, "lookup")
  /\ \/ /\ \E b \in bindings : b.id = Row(s).id /\ ~ sameBinding(b, Row(s))
        /\ Rollback(s, "mismatch")
     \/ /\ \E b \in bindings : b.id = Row(s).id /\ sameBinding(b, Row(s))
        /\ Goto(s, "relocate")
        /\ UNCHANGED <<tables, productRepos, lock, staged, request, answer>>
     \/ /\ \A b \in bindings : b.id # Row(s).id
        /\ Goto(s, "predecessor")
        /\ UNCHANGED <<tables, productRepos, lock, staged, request, answer>>

\* The product_repo of the predecessor is not compared.
ValidPredecessor_AnyRepo(row) ==
  \/ row.supersedes = None
  \/ /\ row.supersedes # row.id
     /\ \E p \in bindings : /\ p.id = row.supersedes
                           /\ p.id.context = row.id.context

ValidPredecessor(row) ==
  \/ row.supersedes = None
  \/ /\ row.supersedes # row.id
     /\ \E p \in bindings : p.id = row.supersedes /\ Continues(row, p)

ValidatePredecessor(s) ==
  /\ At(s, "predecessor")
  /\ \/ /\ ValidPredecessor(Row(s))
        /\ Goto(s, "evidence")
        /\ UNCHANGED <<tables, productRepos, lock, staged, request, answer>>
     \/ /\ ~ ValidPredecessor(Row(s))
        /\ \/ Row(s).supersedes = Row(s).id
           \/ \E p \in bindings : p.id = Row(s).supersedes
        /\ Rollback(s, "mismatch")
     \/ /\ Row(s).supersedes \notin {None, Row(s).id}
        /\ \A p \in bindings : p.id # Row(s).supersedes
        /\ Rollback(s, "not_found")

\* The evidence row is written outside the transaction.
InsertEvidence_Autocommit(s) ==
  /\ At(s, "evidence")
  /\ evidence' = evidence \cup {request[s].digest}
  /\ Goto(s, "binding")
  /\ UNCHANGED <<bindings, locations, projections, productRepos, lock, staged,
                 request, answer>>

\* ON CONFLICT (digest) DO NOTHING: waits for a transaction inserting the same
\* digest, then keeps whichever row is there.
InsertEvidence(s) ==
  /\ At(s, "evidence")
  /\ \A t \in Savers \ {s} : request[s].digest \notin staged[t].evidence
  /\ staged' = [staged EXCEPT ![s].evidence = {request[s].digest} \ evidence]
  /\ Goto(s, "binding")
  /\ UNCHANGED <<tables, productRepos, lock, request, answer>>

\* ON CONFLICT (binding_id) DO NOTHING, under two unique indexes and the
\* product_repo foreign key.  A row staged by another transaction under an
\* equal key makes the statement wait for that transaction to end.
InsertBinding(s) ==
  /\ At(s, "binding")
  /\ \A x \in StagedByOthers(s) : x.id # Row(s).id /\ ~ Clash(x, Row(s))
  /\ \/ /\ \E x \in bindings : x.id = Row(s).id
        /\ Goto(s, "locations")
        /\ UNCHANGED <<tables, productRepos, lock, staged, request, answer>>
     \/ /\ \A x \in bindings : x.id # Row(s).id /\ ~ Clash(x, Row(s))
        /\ Row(s).repo \in productRepos \cup {None}
        /\ staged' = [staged EXCEPT ![s].bindings = {Row(s)}]
        /\ Goto(s, "locations")
        /\ UNCHANGED <<tables, productRepos, lock, request, answer>>
     \/ /\ \A x \in bindings : x.id # Row(s).id
        /\ \/ \E x \in bindings : Clash(x, Row(s))
           \/ Row(s).repo \notin productRepos \cup {None}
        /\ Rollback(s, "constraint")

StageLocations(s) ==
  staged' = [staged EXCEPT ![s].locations = LocationsOf(request[s])]

RegisterLocations(s) ==
  /\ \/ At(s, "locations") /\ Goto(s, "project")
     \/ At(s, "relocate") /\ Goto(s, "recommit")
  /\ StageLocations(s)
  /\ UNCHANGED <<tables, productRepos, lock, request, answer>>

\* Every projection row of the document, keyed by its binding.
Project(s) ==
  /\ At(s, "project")
  /\ staged' = [staged EXCEPT ![s].projections = {Row(s).id}]
  /\ Goto(s, "commit")
  /\ UNCHANGED <<tables, productRepos, lock, request, answer>>

Commit(s) ==
  \/ At(s, "commit") /\ Publish(s, "saved")
  \/ At(s, "recommit") /\ Publish(s, "already_bound")

\* The database committed but the reply to COMMIT was lost: the caller gets an
\* error for work that is durable.  The ROLLBACK that follows has nothing to undo.
CommitUnacknowledged(s) ==
  /\ pc[s] \in {"commit", "recommit"}
  /\ Publish(s, "error")

\* A statement fails, the context is cancelled, the connection or the client
\* dies: the open transaction is rolled back.
Fail(s) ==
  /\ pc[s] # "idle"
  /\ Rollback(s, "error")

\* Registration of a product_repo by another client (registry.go).
RegisterProductRepo(p) ==
  /\ p \notin productRepos
  /\ productRepos' = productRepos \cup {p}
  /\ UNCHANGED <<tables, lock, staged, pc, request, answer>>

-----------------------------------------------------------------------------
Step(s) ==
  \/ Begin(s) \/ Busy(s) \/ LockArtifact(s) \/ LookUp(s)
  \/ ValidatePredecessor(s) \/ InsertEvidence(s) \/ InsertBinding(s)
  \/ RegisterLocations(s) \/ Project(s) \/ Commit(s)

Next ==
  /\ \/ \E s \in Savers :
          \/ \E r \in Requests : Call(s, r)
          \/ Step(s)
          \/ CommitUnacknowledged(s)
          \/ Fail(s)
     \/ \E p \in ProductRepos : RegisterProductRepo(p)
  /\ UNCHANGED dialect

\* A transaction that can take its next statement takes it.  The two waits are
\* served in turn: PostgreSQL queues advisory lock requests, and wakes the
\* INSERT that waits for another transaction when that transaction ends.
Fairness ==
  \A s \in Savers :
    /\ WF_vars(Step(s) /\ UNCHANGED dialect)
    /\ SF_vars(LockArtifact(s) /\ UNCHANGED dialect)
    /\ SF_vars(InsertBinding(s) /\ UNCHANGED dialect)

Spec == Init /\ [][Next]_vars

FairSpec == Spec /\ Fairness

-----------------------------------------------------------------------------
(* Safety.                                                                 *)

\* A binding has at most one successor.  validatePredecessor does not look for
\* one, so two calls that name the same predecessor both pass it; only the
\* unique index, checked while the rival is still uncommitted, keeps a history
\* from forking.
LinearHistory == Keyed(bindings) /\ Linear(bindings)

\* Every successor follows a committed binding of the same context and
\* product_repo: validatePredecessor read it in an earlier statement than the
\* one that inserts the successor.  So a history never closes on itself.
GroundedHistory == Grounded(bindings) /\ Acyclic(bindings)

\* At most one cumulative report is current per scope, product_repo and run,
\* whichever subjects the racing reports name: the promise in the comment of
\* idx_artifact_binding_cumulative_root.
OneCurrentCumulative == OneHeadPerChain(bindings)

\* What one COMMIT makes visible is whole: a binding never shows without its
\* evidence and its projection, and none of these without the binding, at any
\* moment of any interleaving of failing and committing saves.
WholeArtifacts ==
  LET ids == {b.id : b \in bindings}
  IN  /\ projections = ids
      /\ evidence = {i.digest : i \in ids}
      /\ \A l \in locations : l[1] \in ids

Returns(s, A) == At(s, "idle")' /\ ~ At(s, "idle") /\ answer'[s] \in A

\* A successful answer is the truth about the store: the binding is exactly the
\* one the caller described, its references are registered, and AlreadyBound
\* tells whether an earlier call had created it.  ON CONFLICT DO NOTHING would
\* let a lost race answer "saved" for a row another caller wrote.
SuccessIsTrue ==
  [][\A s \in Savers :
       /\ Returns(s, {"saved", "already_bound"}) =>
            Row(s) \in bindings' /\ LocationsOf(request[s]) \subseteq locations'
       /\ Returns(s, {"saved"}) => Row(s) \notin bindings
       /\ Returns(s, {"already_bound"}) => Row(s) \in bindings]_vars

\* A definite refusal is never given for a save that is already durable.  A
\* caller whose COMMIT was not acknowledged and who repeats the call is told
\* already_bound (or meets another failure), not that its own binding is in
\* its way.
RefusalIsTrue ==
  [][\A s \in Savers :
       Returns(s, {"mismatch", "not_found", "constraint"}) =>
         Row(s) \notin bindings]_vars

\* Committed work is never undone or rewritten, in particular not by the
\* ROLLBACK that follows an unacknowledged COMMIT: a binding keeps its
\* successor pointer, and a reference once registered stays.
AppendOnly ==
  [][/\ bindings \subseteq bindings'
     /\ locations \subseteq locations']_vars

\* Every call returns: the two waits (the lock, the unique index) never close
\* a cycle, since a transaction waits for an index only while it holds its
\* lock, and for a transaction that has passed both.
EveryCallReturns == \A s \in Savers : At(s, "begin") ~> At(s, "idle")

-----------------------------------------------------------------------------
(* Why the safety properties hold: the inductive invariant.                *)

Holding == Statements \ {"begin", "lock"}
Fresh == Holding \ {"lookup", "relocate", "recommit"}

\* A saver has a call exactly while it is not idle.
CallInv == \A s \in Savers : pc[s] = "idle" <=> request[s] = None

\* From its first read to its end a transaction holds the lock of its digest.
LockInv == \A s \in Savers :
  pc[s] \in Holding => lock[LockOf(request[s].digest)] = s

\* So what the first read found stays true: no other transaction can commit a
\* binding of the same digest.
LookUpInv == \A s \in Savers :
  /\ pc[s] \in Fresh => \A b \in bindings : b.id # Row(s).id
  /\ pc[s] \in {"relocate", "recommit"} => Row(s) \in bindings

\* A predecessor that was valid stays valid: bindings are never removed.
PredecessorInv == \A s \in Savers :
  pc[s] \in Fresh \ {"predecessor"} => ValidPredecessor(Row(s))

\* What a transaction has staged by the statement it is about to run.
StagedBy(s) ==
  /\ IF pc[s] \in {"binding", "locations", "project", "commit"}
     THEN /\ staged[s].evidence \subseteq {request[s].digest}
          /\ request[s].digest \in evidence \cup staged[s].evidence
     ELSE staged[s].evidence = {}
  /\ staged[s].bindings =
       IF pc[s] \in {"locations", "project", "commit"} THEN {Row(s)} ELSE {}
  /\ staged[s].locations =
       IF pc[s] \in {"project", "commit", "recommit"}
       THEN LocationsOf(request[s]) ELSE {}
  /\ staged[s].projections = IF pc[s] = "commit" THEN {Row(s).id} ELSE {}

StagedInv == \A s \in Savers : StagedBy(s)

\* A staged row breaks no constraint, neither with a committed row nor with a
\* row another transaction staged: whichever commits first, the other stays
\* admissible.
AdmissibleBy(s) == \A x \in staged[s].bindings :
  /\ \A b \in bindings : ~ Clash(b, x)
  /\ \A t \in Savers \ {s} : \A y \in staged[t].bindings : ~ Clash(y, x)
  /\ x.repo \in productRepos \cup {None}

IndexInv == \A s \in Savers : AdmissibleBy(s)

IInv ==
  /\ TypeOK /\ CallInv /\ LockInv /\ LookUpInv /\ PredecessorInv /\ StagedInv
  /\ IndexInv /\ GoodHistory(bindings) /\ WholeArtifacts

-----------------------------------------------------------------------------
(* Why every call returns: who waits for whom.                             *)

\* The next statement of s cannot run before the transaction of t has ended.
WaitsFor(s, t) ==
  \/ At(s, "begin") /\ dialect = "sqlite" /\ lock[Database] = t
  \/ At(s, "lock") /\ lock[LockOf(request[s].digest)] = t
  \/ At(s, "evidence") /\ t # s /\ request[s].digest \in staged[t].evidence
  \/ /\ At(s, "binding") /\ t # s
     /\ \E x \in staged[t].bindings : x.id = Row(s).id \/ Clash(x, Row(s))

\* A lock is held by a transaction that has begun to read, or has done so.
HolderInv == \A k \in Locks, s \in Savers : lock[k] = s => pc[s] \in Holding

\* One wait may lead to another, but the third in the line waits for nobody, and
\* evidence is never waited for: its digest's lock is the caller's own.
WaitsEnd == \A s, t \in Savers : WaitsFor(s, t) =>
  /\ ~ At(s, "evidence") /\ ~ At(t, "idle")
  /\ \A u \in Savers : WaitsFor(t, u) => \A v \in Savers : ~ WaitsFor(u, v)

\* While a call is open, one that is open waits for nobody.
SomebodyProceeds ==
  (\E s \in Savers : ~ At(s, "idle")) =>
    \E s \in Savers : ~ At(s, "idle") /\ \A t \in Savers : ~ WaitsFor(s, t)

-----------------------------------------------------------------------------
(* Refinement.                                                             *)

\* The call a saver has in flight, as BindingStore sees it, is request; the
\* artifacts it sees are the bindings whose evidence and projection are there.
WholeBindings ==
  {b \in bindings : b.id \in projections /\ b.id.digest \in evidence}

Store == INSTANCE BindingStore WITH bindings <- WholeBindings, pending <- request

\* However its statements interleave with those of other calls, a save looks
\* like one indivisible step of BindingStore, or like no step at all.
ImplementsStore == Store!Spec
=============================================================================
