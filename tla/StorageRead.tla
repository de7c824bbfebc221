---------------------------- MODULE StorageRead ----------------------------
(***************************************************************************)
(* The read side of storage (read.go): GetBinding, GetPayload and the      *)
(* typed Get<Artifact>, which fetch bytes from the registered references   *)
(* and verify them, and the dashboard queries, which run one view in a     *)
(* read-only transaction of their own.  All of them draw a connection from *)
(* the caller's pool and hold it until they return.                        *)
(*                                                                         *)
(* Around them, saves commit (one step each: BindingStore, which           *)
(* StorageSave implements) and the producers, who own the bytes, move,     *)
(* overwrite and delete them at any time.                                  *)
(***************************************************************************)
EXTENDS Binding, Naturals, Sequences

CONSTANTS
  Readers,      \* concurrent callers
  Resolvers,    \* those whose client was given WithResolver
  Connections,  \* the pool
  Requests,     \* the saves that may happen
  Calls,        \* Calls[r]: the reads r may ask for
  Selections,   \* view -> what is selected from it, and the fields it is scanned into
  Clock,        \* readings of a saver's clock, as the database orders them
  Size,         \* Size[d]: the length of the payload with digest d
  Dialect       \* "postgres" or "sqlite"

ASSUME ReferenceAssumption == References \subseteq Nat  \* in text order
ASSUME ClockAssumption == Clock \subseteq Nat
ASSUME DialectAssumption == Dialect \in {"postgres", "sqlite"}
ASSUME SizeAssumption == Size \in [Digests -> Nat]
ASSUME SaveAssumption == Requests \subseteq RequestType
ASSUME AbsenceAssumption == None \notin Digests \cup Connections
ASSUME CallAssumption ==
  \A r \in Readers : \A c \in Calls[r] :
    \/ c.op = "Query" /\ c.scopes \subseteq {x.scope : x \in Contexts}
    \/ c.op \in {"GetPayload", "GetBinding", "Get"}

VARIABLES
  bindings,    \* committed artifact_binding rows
  registered,  \* committed artifact_location: <<id, reference>> -> registered_at
  content,     \* what is at each reference: the digest of its bytes, or None
  pool,        \* of each connection: in a transaction?  its scope setting
  pc,          \* the next statement of each reader
  call,        \* what it was asked
  conn,        \* the connection it holds
  references,  \* those it has still to try
  seen,        \* how the ones it tried have failed
  answer,      \* what its last call returned
  witness      \* what was there when the call began and has been ever since

database == <<bindings, registered, content>>
reader == <<pc, call, conn, references, seen, answer, witness>>
vars == <<database, pool, reader>>

Scopes == {c.scope : c \in Contexts}
Bound == {x.id : x \in bindings}
evidence == {id.digest : id \in Bound}
Nothing == [bound |-> FALSE, scopes |-> {}, registered |-> {}, steady |-> {}]
Clean == [tx |-> FALSE, scopes |-> {}]

\* A view has a row for every scope something is bound in.
Occupied == {id.context.scope : id \in Bound}

-----------------------------------------------------------------------------
(* The database, the producers and the callers *)

Init ==
  /\ bindings = {} /\ registered = <<>>
  /\ content = [f \in References |-> None]
  /\ pool = [c \in Connections |-> Clean]
  /\ pc = [r \in Readers |-> "idle"]
  /\ call = [r \in Readers |-> None]
  /\ conn = [r \in Readers |-> None]
  /\ references = [r \in Readers |-> {}]
  /\ seen = [r \in Readers |-> {}]
  /\ answer = [r \in Readers |-> None]
  /\ witness = [r \in Readers |-> Nothing]

\* All references of one save carry one reading of its clock.
Save(q) ==
  LET row == RowOf(q)
      new == ({row.id} \X q.references) \ DOMAIN registered
  IN  /\ row \in bindings \/ row.id \notin Bound
      /\ row \notin bindings \/ new # {}
      /\ bindings' = bindings \cup {row}
      /\ \E t \in Clock :
           registered' = [l \in new \cup DOMAIN registered |->
                            IF l \in new THEN t ELSE registered[l]]
      /\ UNCHANGED <<content, pool, reader>>

\* What a call may rely on: what was committed before it began, and the
\* references whose bytes have been within reach and the same all along.
There(c) ==
  LET found == {f \in References : <<c.id, f>> \in DOMAIN registered}
  IN  [ bound      |-> c.op # "Query" /\ c.id \in Bound,
        scopes     |-> IF c.op = "Query" THEN Occupied ELSE {},
        registered |-> IF c.op = "GetBinding" THEN found ELSE {},
        steady     |-> IF c.op \in {"GetPayload", "Get"} THEN found ELSE {} ]

Unsteady(r, f) == [witness[r] EXCEPT !.steady = @ \ {f}]

\* A producer writes, overwrites (b a digest) or deletes (b = None).
Move(f, b) ==
  /\ content[f] # b
  /\ content' = [content EXCEPT ![f] = b]
  /\ witness' = [r \in Readers |-> Unsteady(r, f)]
  /\ UNCHANGED <<bindings, registered, pool, pc, call, conn, references, seen, answer>>

-----------------------------------------------------------------------------
(* Every call *)

At(r, statement) == pc[r] = statement
Goto(r, statement) == pc' = [pc EXCEPT ![r] = statement]
Continue(r, statement) ==
  Goto(r, statement) /\ UNCHANGED <<database, call, conn, references, seen, answer>>

\* digestPattern refuses what cannot be an identifier, scopeValue an empty list.
Malformed(c) == IF c.op = "Query" THEN c.scopes = {} ELSE c.id \notin BindingIds

Ask(r, c) ==
  /\ At(r, "idle")
  /\ Goto(r, IF Malformed(c) THEN "refuse" ELSE "connect")
  /\ call' = [call EXCEPT ![r] = c]
  /\ witness' = [witness EXCEPT ![r] = There(c)]
  /\ UNCHANGED <<database, pool, conn, references, seen, answer>>

\* db.Conn waits until a connection is free.
Free_Any == Connections
Free == Connections \ {conn[q] : q \in Readers}

Connect(r) ==
  /\ At(r, "connect")
  /\ \E c \in Free : conn' = [conn EXCEPT ![r] = c]
  /\ Goto(r, IF call[r].op = "Query" THEN "begin" ELSE "binding")
  /\ UNCHANGED <<database, pool, call, references, seen, answer, witness>>

Answer(r, kind, value) ==
  /\ Goto(r, "done")
  /\ answer' = [answer EXCEPT ![r] = [kind |-> kind, value |-> value]]
  /\ references' = [references EXCEPT ![r] = {}]
  /\ seen' = [seen EXCEPT ![r] = {}]
  /\ UNCHANGED <<database, call>>

\* The deferred conn.Close puts the connection back into the pool.
Return_Leak(r, kind, value) ==
  /\ Answer(r, kind, value)
  /\ conn' = [conn EXCEPT ![r] = IF kind = "scan_error" THEN @ ELSE None]
Return(r, kind, value) == Answer(r, kind, value) /\ conn' = [conn EXCEPT ![r] = None]
Refuse(r, reason) == Return(r, reason, None)

Hear(r) ==
  /\ At(r, "done")
  /\ Goto(r, "idle")
  /\ call' = [call EXCEPT ![r] = None]
  /\ answer' = [answer EXCEPT ![r] = None]
  /\ witness' = [witness EXCEPT ![r] = Nothing]
  /\ UNCHANGED <<database, pool, conn, references, seen>>

RefuseInput(r) ==
  /\ At(r, "refuse")
  /\ Refuse(r, IF call[r].op = "Query" THEN "scope_required" ELSE "binding_not_found")
  /\ UNCHANGED <<pool, witness>>

\* db.Conn fails, or the PRAGMA on a new connection: the context ended while the
\* caller waited, or the database cannot be reached.
ConnectFails(r) == At(r, "connect") /\ Refuse(r, "error") /\ UNCHANGED <<pool, witness>>

\* A statement fails: the connection broke or the context ended.  The
\* deferred ROLLBACK ends the transaction before the connection goes back.
rollbackUnlessCommitted_Skipped(c) == pool' = [pool EXCEPT ![c].tx = FALSE]
rollbackUnlessCommitted(c) == pool' = [pool EXCEPT ![c] = Clean]

Fail(r) ==
  /\ pc[r] \in {"binding", "size", "locations", "begin", "scope", "list", "commit"}
  /\ rollbackUnlessCommitted(conn[r])
  /\ Refuse(r, "error")
  /\ UNCHANGED witness

-----------------------------------------------------------------------------
(* Reading a binding and its bytes *)

getBinding(r) ==
  /\ At(r, "binding")
  /\ IF call[r].id \in Bound THEN Continue(r, "size") ELSE Refuse(r, "binding_not_found")
  /\ UNCHANGED <<pool, witness>>

artifactEvidenceSizeGet(r) ==
  /\ At(r, "size")
  /\ IF call[r].id.digest \in evidence THEN Continue(r, "locations") ELSE Refuse(r, "not_found")
  /\ UNCHANGED <<pool, witness>>

\* One of the references only.
artifactLocationGet_First(id) ==
  LET found == {f \in References : <<id, f>> \in DOMAIN registered}
  IN  {f \in found : \A g \in found : f <= g}
artifactLocationGet(id) == {f \in References : <<id, f>> \in DOMAIN registered}

\* ORDER BY registered_at, reference
Precedes(id, f, g) ==
  LET at(h) == registered[<<id, h>>]
  IN  at(f) < at(g) \/ (at(f) = at(g) /\ f <= g)

locations(r) ==
  LET found == artifactLocationGet(call[r].id)
      mismatch == call[r].op = "Get" /\ call[r].id.context.name # call[r].name
  IN  /\ At(r, "locations")
      /\ \/ call[r].op = "GetBinding" /\ Return(r, "record", found)
         \/ call[r].op # "GetBinding" /\ mismatch /\ Refuse(r, "type_mismatch")
         \/ /\ call[r].op # "GetBinding" /\ ~ mismatch
            /\ IF r \notin Resolvers THEN Refuse(r, "no_resolver")
               ELSE IF found = {} THEN Refuse(r, "not_found")
               ELSE /\ Goto(r, "fetch")
                    /\ references' = [references EXCEPT ![r] = found]
                    /\ UNCHANGED <<database, call, conn, seen, answer>>
      /\ UNCHANGED <<pool, witness>>

\* What resolve makes of the failures when no reference is left: errors.Is
\* finds ErrNotFound among the joined ones wherever it is.
Failure_NotFoundFirst(failures) ==
  IF "missing" \in failures THEN "not_found"
  ELSE IF "corrupt" \in failures THEN "corrupt" ELSE "unavailable"
Failure(failures) ==
  IF "corrupt" \in failures THEN "corrupt"
  ELSE IF "missing" \in failures THEN "not_found" ELSE "unavailable"

Matches_Size(id, bytes) == Size[bytes] = Size[id.digest]
Matches(id, bytes) == Size[bytes] = Size[id.digest] /\ bytes = id.digest

Outcome(id, bytes) ==
  IF bytes = None THEN "missing" ELSE IF Matches(id, bytes) THEN "match" ELSE "corrupt"

Failed(r, f, how) ==
  IF references[r] = {f} THEN Refuse(r, Failure(seen[r] \cup {how}))
  ELSE /\ references' = [references EXCEPT ![r] = @ \ {f}]
       /\ seen' = [seen EXCEPT ![r] = @ \cup {how}]
       /\ UNCHANGED <<database, pc, call, conn, answer>>

\* One turn of the loop of resolve.  Fetch is the caller's: it may fail to
\* reach its store ("down").  Bytes with the digest are those a save validated
\* under the contract of this name, so the typed call parses them.
Fetch(r) ==
  /\ At(r, "fetch")
  /\ \E f \in references[r] :
       LET outcome == Outcome(call[r].id, content[f])
       IN  /\ \A g \in references[r] : Precedes(call[r].id, f, g)
           /\ \/ /\ IF outcome = "match" THEN Return(r, "payload", content[f])
                    ELSE Failed(r, f, outcome)
                 /\ UNCHANGED witness
              \/ /\ Failed(r, f, "down")
                 /\ witness' = [witness EXCEPT ![r] = Unsteady(r, f)]
  /\ UNCHANGED pool

-----------------------------------------------------------------------------
(* scopedRead *)

Begin(r) ==
  /\ At(r, "begin")
  /\ pool' = [pool EXCEPT ![conn[r]].tx = TRUE]
  /\ Continue(r, IF Dialect = "postgres" THEN "scope" ELSE "list")
  /\ UNCHANGED witness

\* set_config('traust.scope_ids', ..., true): until the transaction ends
scopeSet_Default(r) ==
  /\ At(r, "scope")
  /\ Continue(r, "list")
  /\ UNCHANGED <<pool, witness>>
scopeSet(r) ==
  /\ At(r, "scope")
  /\ pool' = [pool EXCEPT ![conn[r]].scopes = call[r].scopes]
  /\ Continue(r, "list")
  /\ UNCHANGED witness

\* WHERE scope_id IN the asked ones; on PostgreSQL the view findings_summary
\* itself has no rows but those of the scopes the setting names.
Visible(r) ==
  IF Dialect = "postgres" /\ call[r].view = "findings_summary"
  THEN pool[conn[r]].scopes ELSE Scopes
RowsFor_Unfiltered(r) == Occupied \cap Visible(r)
RowsFor(r) == Occupied \cap Visible(r) \cap call[r].scopes

\* rows.Scan refuses a row with more or fewer columns than it has fields.
Scans(d) == Len(d.columns) = Len(d.fields)

ListAndScan(r) ==
  /\ At(r, "list")
  /\ IF RowsFor(r) = {} \/ Scans(Selections[call[r].view])
     THEN /\ Goto(r, "commit")
          /\ answer' = [answer EXCEPT ![r] = [kind |-> "rows", value |-> RowsFor(r)]]
          /\ UNCHANGED <<database, pool, call, conn, references, seen>>
     ELSE Refuse(r, "scan_error") /\ rollbackUnlessCommitted(conn[r])
  /\ UNCHANGED witness

Commit(r) ==
  /\ At(r, "commit")
  /\ pool' = [pool EXCEPT ![conn[r]] = Clean]
  /\ Return(r, "rows", answer[r].value)
  /\ UNCHANGED witness

-----------------------------------------------------------------------------
Step(r) ==
  \/ RefuseInput(r) \/ getBinding(r) \/ artifactEvidenceSizeGet(r) \/ locations(r) \/ Fetch(r)
  \/ Begin(r) \/ scopeSet(r) \/ ListAndScan(r) \/ Commit(r) \/ Fail(r)

Next ==
  \/ \E q \in Requests : Save(q)
  \/ \E f \in References, b \in Digests \cup {None} : Move(f, b)
  \/ \E r \in Readers : \/ \E c \in Calls[r] : Ask(r, c)
                       \/ Hear(r) \/ Connect(r) \/ ConnectFails(r) \/ Step(r)

\* Statements and fetches return, and a waiting db.Conn is served: the pool
\* hands a connection that is put back to a caller in its queue.  Nobody counts
\* on a caller giving up its wait.
Fairness == \A r \in Readers : WF_vars(Step(r)) /\ SF_vars(Connect(r))

Spec == Init /\ [][Next]_vars /\ Fairness

-----------------------------------------------------------------------------
Reasons ==
  {"scope_required", "error", "binding_not_found", "not_found", "type_mismatch",
   "no_resolver", "corrupt", "unavailable", "scan_error"}

\* Types, and which connection a reader holds: one of its own from its first
\* statement to its answer.
TypeOK ==
  /\ bindings \subseteq Rows
  /\ registered \in [DOMAIN registered -> Clock]
  /\ DOMAIN registered \subseteq Bound \X References
  /\ content \in [References -> Digests \cup {None}]
  /\ pool \in [Connections -> [tx : BOOLEAN, scopes : SUBSET Scopes]]
  /\ \A r \in Readers :
       /\ At(r, "done") => answer[r].kind \in Reasons \cup {"payload", "record", "rows"}
       /\ (conn[r] = None) <=> pc[r] \in {"idle", "refuse", "connect", "done"}
       /\ \A q \in Readers : conn[q] = conn[r] => q = r \/ conn[r] = None
       /\ At(r, "fetch") <=> references[r] # {}

Answered(r, kinds) == At(r, "done") /\ answer[r].kind \in kinds

\* "The exact bytes bound by bindingID" (read.go:24), and from any one
\* reference that has them: whoever else overwrites, deletes or is down in
\* the meantime, a call fails only if no reference registered before it
\* began kept the bytes within reach until it ended.
MirrorIsFound ==
  \A r \in Readers :
    /\ Answered(r, {"payload"}) => answer[r].value = call[r].id.digest
    /\ Answered(r, {"corrupt", "not_found", "unavailable"}) =>
         \A f \in witness[r].steady : content[f] # call[r].id.digest

\* "A mismatch is reported in preference to 'not found' because it means the
\* location was overwritten" (read.go:144), and "not found" in preference to
\* an outage, wherever in the list the reference with that failure stands.
MismatchIsReported ==
  \A r \in Readers :
    /\ Answered(r, {"not_found"}) => \A f \in witness[r].steady : content[f] = None
    /\ Answered(r, {"unavailable"}) => witness[r].steady = {}

\* Three statements outside a transaction still see every save that
\* returned before the call: its binding is found, and none of its
\* references is missing from the record.
SavedIsSeen ==
  \A r \in Readers :
    /\ Answered(r, {"binding_not_found"}) => ~ witness[r].bound
    /\ Answered(r, {"record"}) =>
         witness[r].registered \subseteq answer[r].value

\* A dashboard shows the rows of the scopes it was asked for and no others,
\* and all those that were there when it was asked: it never answers with
\* the empty table of a forgotten scope (read.go:331).
ScopedRows ==
  \A r \in Readers : Answered(r, {"rows"}) =>
    /\ answer[r].value \subseteq call[r].scopes
    /\ witness[r].scopes \cap call[r].scopes \subseteq answer[r].value

\* A connection goes back to the pool without a transaction and without a
\* scope, on every path; nobody else holds one that has either.
PoolIsClean ==
  \A c \in Connections : pool[c] # Clean =>
    \E r \in Readers : conn[r] = c /\ call[r].op = "Query"

\* Every read returns, on a pool smaller than the number of readers.
EveryReadReturns == \A r \in Readers : pc[r] # "idle" ~> pc[r] = "done"

\* A dashboard that has rows answers with them.  It does not: the list
\* queries of threat_current, threat_exposure and finding_timeline select
\* more columns than their row types have fields.
DashboardsAnswer == \A r \in Readers : ~ Answered(r, {"scan_error"})
=============================================================================
