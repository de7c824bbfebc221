----------------------------- MODULE StorageInit -----------------------------
(***************************************************************************)
(* Init (storage/client.go): the programs that share a database create its *)
(* schema, or verify that the one they find is of their own revision.      *)
(* They start together, may have been built from different revisions, may  *)
(* die between any two statements and start again.                         *)
(*                                                                         *)
(* Each statement is an action.  A statement sees what is committed and    *)
(* what its own transaction wrote.  A CREATE waits for a transaction that  *)
(* is creating an object of the same name, which IF NOT EXISTS does not    *)
(* see; once that one has committed, it finds the object, or fails.        *)
(***************************************************************************)
EXTENDS Naturals

CONSTANTS
  Clients,   \* programs, one connection each
  Revisions, \* contract revisions programs are built from
  N,         \* the number of bootstrap statements
  Meta,      \* the statement that creates traust_storage_meta
  None       \* nobody, nothing

ASSUME InitAssumption ==
  /\ N \in Nat
  /\ Meta \in 1 .. N
  /\ None \notin Clients \cup Revisions \cup {"ok", "incompatible", "error"}

Objects == 1 .. N

VARIABLES
  dialect,  \* "postgres" or "sqlite"
  built,    \* contractRevision, in each program
  objects,  \* the revision each object of the schema was created from, or None
  row,      \* the revision in traust_storage_meta, or None
  lock,     \* the client in the bootstrap lock or BEGIN IMMEDIATE, or None
  created,  \* the objects the open transaction of each client has created
  stamped,  \* clients whose open transaction has written the row
  pc,       \* the next statement of each client
  next,     \* the next bootstrap statement of each client
  answer    \* what its last Init returned

vars == <<dialect, built, objects, row, lock, created, stamped, pc, next, answer>>

Steps == {"begin", "lock", "exists", "revision", "bootstrap", "upsert", "commit"}

\* The schema of one revision, its row written or not: DDL run by hand writes none.
Whole(r) == [i \in Objects |-> r]

TypeOK ==
  /\ dialect \in {"postgres", "sqlite"}
  /\ built \in [Clients -> Revisions]
  /\ objects \in [Objects -> Revisions \cup {None}]
  /\ row \in Revisions \cup {None}
  /\ lock \in Clients \cup {None}
  /\ created \in [Clients -> SUBSET Objects]
  /\ stamped \subseteq Clients
  /\ pc \in [Clients -> Steps \cup {"idle"}]
  /\ next \in [Clients -> 1 .. N + 1]
  /\ answer \in [Clients -> {"ok", "incompatible", "error", None}]

\* An empty database, one in use, or one whose DDL was run by hand.
Init ==
  /\ dialect \in {"postgres", "sqlite"}
  /\ built \in [Clients -> Revisions]
  /\ \/ objects = Whole(None) /\ row = None
     \/ \E r \in Revisions : objects = Whole(r) /\ row = r
     \/ \E r \in Revisions : /\ objects = Whole(r) /\ row = None
                             /\ \A c \in Clients : built[c] = r
  /\ lock = None /\ stamped = {}
  /\ created = [c \in Clients |-> {}]
  /\ pc = [c \in Clients |-> "idle"]
  /\ next = [c \in Clients |-> 1]
  /\ answer = [c \in Clients |-> None]

-----------------------------------------------------------------------------
At(c, step) == pc[c] = step

Goto(c, step) == pc' = [pc EXCEPT ![c] = step]

database == <<objects, row>>
environment == <<dialect, built>>

\* A pooled connection that is closed without its ROLLBACK.
Released_Kept(c) == lock

\* The lock goes with the transaction.
Released(c) == IF lock = c THEN None ELSE lock

Return(c, a) ==
  /\ answer' = [answer EXCEPT ![c] = a]
  /\ lock' = Released(c)
  /\ created' = [created EXCEPT ![c] = {}]
  /\ stamped' = stamped \ {c}
  /\ next' = [next EXCEPT ![c] = 1]
  /\ Goto(c, "idle")

\* The deferred ROLLBACK: DDL is part of the transaction on both databases.
Rollback(c, a) == Return(c, a) /\ UNCHANGED database

Moves(c, step) == Goto(c, step) /\ UNCHANGED <<database, created, stamped, next, answer>>

Call(c) ==
  /\ At(c, "idle")
  /\ answer' = [answer EXCEPT ![c] = None]
  /\ Goto(c, "begin")
  /\ UNCHANGED <<database, lock, created, stamped, next>>

\* BEGIN ISOLATION LEVEL READ COMMITTED, or BEGIN IMMEDIATE.
Begin(c) ==
  /\ At(c, "begin")
  /\ \/ dialect = "postgres" /\ lock' = lock /\ Moves(c, "lock")
     \/ dialect = "sqlite" /\ lock = None /\ lock' = c /\ Moves(c, "exists")

\* SQLITE_BUSY: another connection is writing for longer than this one waits.
Busy(c) == At(c, "begin") /\ dialect = "sqlite" /\ lock # None /\ Rollback(c, "error")

\* No lock: the transaction goes on to its first read.
Lock_Skipped(c) == At(c, "lock") /\ lock' = lock /\ Moves(c, "exists")

\* traustStorageMetaLock: pg_advisory_xact_lock.
Lock(c) == At(c, "lock") /\ lock = None /\ lock' = c /\ Moves(c, "exists")

StorageMetadataExists(c) ==
  /\ At(c, "exists")
  /\ lock' = lock
  /\ Moves(c, IF objects[Meta] # None THEN "revision" ELSE "bootstrap")

\* The contract version alone: all revisions are of "v1".
Compatible_VersionOnly(c) == TRUE

Compatible(c) == row = built[c]

\* Any error of the check leads to bootstrap.
RequireStorageRevision_Repair(c) ==
  /\ At(c, "revision")
  /\ lock' = lock
  /\ Moves(c, IF Compatible(c) THEN "commit" ELSE "bootstrap")

\* A row that is missing is no error: the schema is bootstrapped once more.
RequireStorageRevision(c) ==
  /\ At(c, "revision")
  /\ IF row # None /\ ~Compatible(c) THEN Rollback(c, "incompatible")
     ELSE lock' = lock /\ Moves(c, IF row = None THEN "bootstrap" ELSE "commit")

\* What the other open transactions are creating.
CreatedByOthers(c) == UNION {created[o] : o \in Clients \ {c}}

\* bootstrap: CREATE ... IF NOT EXISTS, one statement after the other.  A view of
\* PostgreSQL is created OR REPLACEd: by what it was, as nobody comes here over
\* another revision.
Bootstrap(c) ==
  /\ At(c, "bootstrap")
  /\ next[c] \in Objects \ CreatedByOthers(c)
  /\ created' = IF objects[next[c]] = None
                THEN [created EXCEPT ![c] = @ \cup {next[c]}] ELSE created
  /\ next' = [next EXCEPT ![c] = @ + 1]
  /\ Goto(c, IF next[c] = N THEN "upsert" ELSE "bootstrap")
  /\ UNCHANGED <<database, lock, stamped, answer>>

\* traustStorageMetaUpsert, on the primary key 1.
Upsert(c) ==
  /\ At(c, "upsert")
  /\ stamped \subseteq {c}
  /\ stamped' = stamped \cup {c}
  /\ Goto(c, "commit")
  /\ UNCHANGED <<database, lock, created, next, answer>>

\* COMMIT takes effect; its reply may not arrive.
Commit(c) ==
  /\ At(c, "commit")
  /\ objects' = [i \in Objects |-> IF i \in created[c] THEN built[c] ELSE objects[i]]
  /\ row' = IF c \in stamped THEN built[c] ELSE row
  /\ \E a \in {"ok", "error"} : Return(c, a)

\* A statement fails, or the client or its connection dies.
Fail(c) == ~At(c, "idle") /\ Rollback(c, "error")

Statement(c) ==
  \/ Begin(c) \/ Busy(c) \/ StorageMetadataExists(c) \/ RequireStorageRevision(c)
  \/ Bootstrap(c) \/ Upsert(c) \/ Commit(c)

Next ==
  /\ \E c \in Clients : Call(c) \/ Statement(c) \/ Lock(c) \/ Fail(c)
  /\ UNCHANGED environment

\* A statement completes; PostgreSQL queues the requests for the lock.
Fairness ==
  \A c \in Clients : /\ WF_vars(Statement(c) /\ UNCHANGED environment)
                     /\ SF_vars(Lock(c) /\ UNCHANGED environment)

Spec == Init /\ [][Next]_vars /\ Fairness

-----------------------------------------------------------------------------
\* The database is never left between two revisions or half made, whatever the
\* programs that start together were built from and wherever they die: there is
\* nothing, or the whole schema of one revision, and the row tells which.
OneRevision ==
  /\ objects = Whole(None) \/ \E r \in Revisions : objects = Whole(r)
  /\ row # None => objects = Whole(row)

\* What Init answered stays true: "ok" means that the schema of the program's own
\* revision is there, ErrIncompatibleRevision that it never will be (client.go:84,
\* "creates storage in an empty database or verifies its exact revision").
AnswersStand ==
  \A c \in Clients :
    /\ answer[c] = "ok" => objects = Whole(built[c]) /\ row = built[c]
    /\ answer[c] = "incompatible" => row \notin {None, built[c]}

\* Once a revision is recorded, no Init of any program replaces it.
RevisionStands == [][row # None => row' = row]_vars

\* Every Init returns, although they wait for one another.
EveryInitReturns == \A c \in Clients : ~At(c, "idle") ~> At(c, "idle")
-----------------------------------------------------------------------------
(* Why every Init returns: who waits for whom.                             *)

\* The next statement of c cannot run before the transaction of o has ended.
WaitsFor(c, o) ==
  \/ At(c, "begin") /\ dialect = "sqlite" /\ lock = o
  \/ At(c, "lock") /\ lock = o
  \/ At(c, "bootstrap") /\ o # c /\ next[c] \in created[o]
  \/ At(c, "upsert") /\ o # c /\ o \in stamped

\* Only the lock is ever waited for, and who holds it waits for nobody: no CREATE
\* and no upsert meets another program's, in whatever order they start.
WaitsEnd == \A c, o \in Clients : WaitsFor(c, o) =>
  /\ pc[c] \in {"begin", "lock"} /\ ~At(o, "idle")
  /\ \A u \in Clients : ~WaitsFor(o, u)
=============================================================================
