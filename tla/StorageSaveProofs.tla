------------------------- MODULE StorageSaveProofs -------------------------
(***************************************************************************)
(* Proofs about StorageSave, for any number of savers, any requests, any   *)
(* digests that share lock keys, and both dialects.                        *)
(***************************************************************************)
EXTENDS StorageSave, BindingProofs

\* A request has a row of its own, with an identifier made of its digest.
LEMMA RequestFacts ==
  ASSUME NEW r \in Requests
  PROVE  /\ RowOf(r) \in Rows
         /\ RowOf(r).id \in BindingIds
         /\ RowOf(r).id # None
         /\ RowOf(r).id.digest = r.digest
         /\ r.digest \in Digests
         /\ LocationsOf(r) \subseteq BindingIds \X References
         /\ \A l \in LocationsOf(r) : l[1] = RowOf(r).id
         /\ r # None
<1>1. r \in RequestType
  BY RequestAssumption
<1>2. identifyBinding(r.digest, r.context) \in BindingIds
  BY <1>1 DEF RequestType, BindingIds, identifyBinding
<1>3. RowOf(r) \in Rows /\ RowOf(r).id = identifyBinding(r.digest, r.context)
  BY <1>1, <1>2 DEF RowOf, Rows, RequestType
<1>4. RowOf(r).id.digest = r.digest /\ r.digest \in Digests
  BY <1>1, <1>3 DEF identifyBinding, RequestType
<1>5. LocationsOf(r) \subseteq BindingIds \X References
  BY <1>1, <1>2 DEF LocationsOf, RequestType
<1>6. \A l \in LocationsOf(r) : l[1] = RowOf(r).id
  BY <1>3 DEF LocationsOf
<1> QED
  BY <1>2, <1>3, <1>4, <1>5, <1>6, NoneAssumption, SaverAssumption DEF BindingIds

LEMMA ClashSymmetric ==
  ASSUME NEW x, NEW y, Clash(x, y)
  PROVE  Clash(y, x)
BY DEF Clash, SuccessorClash, RootClash

LEMMA LockOfType ==
  ASSUME NEW d \in Digests
  PROVE  LockOf(d) \in Locks
BY LockAssumption DEF LockOf, Locks

-----------------------------------------------------------------------------
(* Type correctness.                                                       *)

LEMMA ReturnType ==
  ASSUME TypeOK, NEW s \in Savers, NEW a \in Answers, Return(s, a)
  PROVE  /\ productRepos' \subseteq ProductRepos
         /\ lock' \in [Locks -> Savers \cup {None}]
         /\ staged' \in [Savers -> StagedRows]
         /\ pc' \in [Savers -> Statements \cup {"idle"}]
         /\ request' \in [Savers -> Requests \cup {None}]
         /\ answer' \in [Savers -> Answers]
<1>1. NothingStaged \in StagedRows
  BY DEF NothingStaged, StagedRows
<1> QED
  BY <1>1 DEF TypeOK, Return, Unlocked, Goto

\* Writing to one table of a transaction keeps the type of what it staged.
LEMMA StagedType ==
  ASSUME NEW st \in StagedRows
  PROVE  /\ \A E \in SUBSET Digests : [st EXCEPT !.evidence = E] \in StagedRows
         /\ \A B \in SUBSET Rows : [st EXCEPT !.bindings = B] \in StagedRows
         /\ \A G \in SUBSET (BindingIds \X References) :
              [st EXCEPT !.locations = G] \in StagedRows
         /\ \A J \in SUBSET BindingIds : [st EXCEPT !.projections = J] \in StagedRows
BY DEF StagedRows

LEMMA StageType ==
  ASSUME TypeOK, NEW s \in Savers, NEW st \in StagedRows,
         staged' = [staged EXCEPT ![s] = st]
  PROVE  staged' \in [Savers -> StagedRows]
BY DEF TypeOK

LEMMA RollbackType ==
  ASSUME TypeOK, dialect' = dialect, NEW s \in Savers, NEW a \in Answers, Rollback(s, a)
  PROVE  TypeOK'
<1>1. Return(s, a) /\ UNCHANGED tables
  BY DEF Rollback
<1> QED
  BY <1>1, ReturnType DEF TypeOK, tables

LEMMA PublishType ==
  ASSUME TypeOK, dialect' = dialect, NEW s \in Savers, NEW a \in Answers, Publish(s, a)
  PROVE  TypeOK'
<1>1. Return(s, a)
  BY DEF Publish
<1>2. staged[s] \in StagedRows
  BY DEF TypeOK
<1>3. /\ evidence' \subseteq Digests
      /\ bindings' \subseteq Rows
      /\ locations' \subseteq BindingIds \X References
      /\ projections' \subseteq BindingIds
  BY <1>2 DEF TypeOK, Publish, StagedRows
<1> QED
  BY <1>1, <1>3, ReturnType DEF TypeOK

\* A saver that is not idle has a call, whose row and locations are typed.
LEMMA CallFacts ==
  ASSUME TypeOK, CallInv, NEW s \in Savers, pc[s] # "idle"
  PROVE  request[s] \in Requests
BY DEF TypeOK, CallInv

LEMMA ReturnCallInv ==
  ASSUME TypeOK, CallInv, NEW s \in Savers, NEW a \in Answers, Return(s, a)
  PROVE  CallInv'
BY DEF CallInv, TypeOK, Return, Goto

LEMMA TypeStep ==
  ASSUME TypeOK, CallInv, [Next]_vars
  PROVE  TypeOK' /\ CallInv'
<1> DEFINE Typed == TypeOK' /\ CallInv'
<1>d. dialect' = dialect
  BY DEF Next, vars
<1> USE <1>d
<1>0. ASSUME NEW s \in Savers, NEW a \in Answers, Rollback(s, a)
      PROVE  Typed
  BY <1>0, RollbackType, ReturnCallInv DEF Rollback
<1>00. ASSUME NEW s \in Savers, NEW a \in Answers, Publish(s, a)
      PROVE  Typed
  BY <1>00, PublishType, ReturnCallInv DEF Publish
<1>1. ASSUME NEW s \in Savers, NEW r \in Requests, Call(s, r)
      PROVE  Typed
  BY <1>1, SaverAssumption
     DEF Call, At, TypeOK, CallInv, tables, Goto, Statements, Answers
<1>2. ASSUME NEW s \in Savers, Begin(s)
      PROVE  Typed
  BY <1>2 DEF Begin, At, TypeOK, CallInv, tables, Goto, Statements, Locks
<1>3. ASSUME NEW s \in Savers, Busy(s)
      PROVE  Typed
  BY <1>0, <1>3 DEF Busy, Answers
<1>4. ASSUME NEW s \in Savers, LockArtifact(s)
      PROVE  Typed
  BY <1>4 DEF LockArtifact, At, TypeOK, CallInv, tables, Goto, Statements
<1>5. ASSUME NEW s \in Savers, LookUp(s)
      PROVE  Typed
  <2>1. CASE Rollback(s, "mismatch")
    BY <1>0, <2>1 DEF Answers
  <2>2. CASE /\ Goto(s, "relocate") \/ Goto(s, "predecessor")
             /\ UNCHANGED <<tables, productRepos, lock, staged, request, answer>>
    BY <1>5, <2>2 DEF LookUp, At, TypeOK, CallInv, tables, Goto, Statements
  <2> QED
    BY <1>5, <2>1, <2>2 DEF LookUp
<1>6. ASSUME NEW s \in Savers, ValidatePredecessor(s)
      PROVE  Typed
  <2>1. CASE Rollback(s, "mismatch") \/ Rollback(s, "not_found")
    BY <1>0, <2>1 DEF Answers
  <2>2. CASE /\ Goto(s, "evidence")
             /\ UNCHANGED <<tables, productRepos, lock, staged, request, answer>>
    BY <1>6, <2>2 DEF ValidatePredecessor, At, TypeOK, CallInv, tables, Goto, Statements
  <2> QED
    BY <1>6, <2>1, <2>2 DEF ValidatePredecessor
<1>7. ASSUME NEW s \in Savers, InsertEvidence(s)
      PROVE  Typed
  <2>1. request[s].digest \in Digests
    BY <1>7, CallFacts, RequestFacts DEF InsertEvidence, At
  <2>2. staged' = [staged EXCEPT ![s] =
                    [staged[s] EXCEPT !.evidence = {request[s].digest} \ evidence]]
    BY <1>7 DEF InsertEvidence
  <2>3. staged' \in [Savers -> StagedRows]
    BY <2>1, <2>2, StagedType, StageType DEF TypeOK
  <2> QED
    BY <1>7, <2>3 DEF InsertEvidence, At, TypeOK, CallInv, tables, Goto, Statements
<1>8. ASSUME NEW s \in Savers, InsertBinding(s)
      PROVE  Typed
  <2>1. Row(s) \in Rows
    BY <1>8, CallFacts, RequestFacts DEF InsertBinding, At, Row
  <2>2. CASE Rollback(s, "constraint")
    BY <1>0, <2>2 DEF Answers
  <2>3. CASE /\ Goto(s, "locations")
             /\ UNCHANGED <<tables, productRepos, lock, staged, request, answer>>
    BY <1>8, <2>3 DEF InsertBinding, At, TypeOK, CallInv, tables, Goto, Statements
  <2>4. CASE /\ staged' = [staged EXCEPT ![s].bindings = {Row(s)}]
             /\ Goto(s, "locations")
             /\ UNCHANGED <<tables, productRepos, lock, request, answer>>
    <3>1. staged' = [staged EXCEPT ![s] = [staged[s] EXCEPT !.bindings = {Row(s)}]]
      BY <2>4
    <3>2. staged' \in [Savers -> StagedRows]
      BY <2>1, <3>1, StagedType, StageType DEF TypeOK
    <3> QED
      BY <1>8, <2>4, <3>2 DEF InsertBinding, At, TypeOK, CallInv, tables, Goto, Statements
  <2> QED
    BY <1>8, <2>2, <2>3, <2>4 DEF InsertBinding
<1>9. ASSUME NEW s \in Savers, RegisterLocations(s)
      PROVE  Typed
  <2>1. LocationsOf(request[s]) \subseteq BindingIds \X References
    BY <1>9, CallFacts, RequestFacts DEF RegisterLocations, At
  <2>2. staged' = [staged EXCEPT ![s] =
                    [staged[s] EXCEPT !.locations = LocationsOf(request[s])]]
    BY <1>9 DEF RegisterLocations, StageLocations
  <2>3. staged' \in [Savers -> StagedRows]
    BY <2>1, <2>2, StagedType, StageType DEF TypeOK
  <2> QED
    BY <1>9, <2>3
       DEF RegisterLocations, At, TypeOK, CallInv, tables, Goto, Statements
<1>10. ASSUME NEW s \in Savers, Project(s)
       PROVE  Typed
  <2>1. Row(s).id \in BindingIds
    BY <1>10, CallFacts, RequestFacts DEF Project, At, Row
  <2>2. staged' = [staged EXCEPT ![s] = [staged[s] EXCEPT !.projections = {Row(s).id}]]
    BY <1>10 DEF Project
  <2>3. staged' \in [Savers -> StagedRows]
    BY <2>1, <2>2, StagedType, StageType DEF TypeOK
  <2> QED
    BY <1>10, <2>3 DEF Project, At, TypeOK, CallInv, tables, Goto, Statements
<1>11. ASSUME NEW s \in Savers, Commit(s) \/ CommitUnacknowledged(s)
       PROVE  Typed
  BY <1>00, <1>11 DEF Commit, CommitUnacknowledged, Answers
<1>12. ASSUME NEW s \in Savers, Fail(s)
       PROVE  Typed
  BY <1>0, <1>12 DEF Fail, Answers
<1>13. ASSUME NEW p \in ProductRepos, RegisterProductRepo(p)
       PROVE  Typed
  BY <1>13 DEF RegisterProductRepo, TypeOK, CallInv, tables
<1>14. CASE UNCHANGED vars
  BY <1>14 DEF vars, tables, TypeOK, CallInv
<1> QED
  BY <1>1, <1>2, <1>3, <1>4, <1>5, <1>6, <1>7, <1>8, <1>9, <1>10, <1>11, <1>12,
     <1>13, <1>14 DEF Next, Step

LEMMA InitType == Init => TypeOK /\ CallInv
<1>1. NothingStaged \in StagedRows
  BY DEF NothingStaged, StagedRows
<1> QED
  BY <1>1 DEF Init, TypeOK, CallInv, Answers

\* Every reachable state is of the declared types.
THEOREM TypeCorrect == Spec => []TypeOK
BY InitType, TypeStep, PTL DEF Spec

-----------------------------------------------------------------------------
(* The inductive invariant.                                                *)

\* Returning, by ROLLBACK or after COMMIT, disturbs no other saver.
LEMMA ReturnFrame ==
  ASSUME TypeOK, NEW s \in Savers, NEW a, Return(s, a)
  PROVE  /\ pc'[s] = "idle"
         /\ \A t \in Savers \ {s} : /\ pc'[t] = pc[t]
                                    /\ request'[t] = request[t]
                                    /\ staged'[t] = staged[t]
                                    /\ answer'[t] = answer[t]
                                    /\ Row(t)' = Row(t)
         /\ staged'[s] = NothingStaged
         /\ \A k \in Locks : lock[k] # s => lock'[k] = lock[k]
         /\ productRepos' = productRepos
BY DEF TypeOK, Return, Goto, Unlocked, Row

LEMMA RollbackStep ==
  ASSUME IInv, TypeOK', CallInv', dialect' = dialect, NEW s \in Savers, NEW a, Rollback(s, a)
  PROVE  IInv'
<1> USE DEF IInv
<1>1. /\ Return(s, a)
      /\ UNCHANGED <<evidence, bindings, locations, projections>>
  BY DEF Rollback, tables
<1>2. /\ pc'[s] = "idle"
      /\ \A t \in Savers \ {s} : /\ pc'[t] = pc[t]
                                 /\ request'[t] = request[t]
                                 /\ staged'[t] = staged[t]
                                 /\ Row(t)' = Row(t)
      /\ staged'[s] = NothingStaged
      /\ \A k \in Locks : lock[k] # s => lock'[k] = lock[k]
      /\ productRepos' = productRepos
  BY <1>1, ReturnFrame
<1>3. LockInv'
  BY <1>2, LockOfType, CallFacts, RequestFacts, SaverAssumption
     DEF LockInv, Holding, Statements, TypeOK, LockOf
<1>4. LookUpInv'
  BY <1>1, <1>2 DEF LookUpInv, Fresh, Holding, Statements, TypeOK
<1>5. PredecessorInv'
  BY <1>1, <1>2 DEF PredecessorInv, Fresh, Holding, Statements, TypeOK, ValidPredecessor
<1>6. StagedInv'
  <2>1. StagedBy(s)'
    BY <1>2 DEF StagedBy, NothingStaged
  <2>2. ASSUME NEW t \in Savers \ {s}
        PROVE  StagedBy(t)'
    BY <1>1, <1>2, <2>2 DEF StagedInv, StagedBy
  <2> QED
    BY <2>1, <2>2 DEF StagedInv
<1>7. IndexInv'
  <2>1. AdmissibleBy(s)'
    BY <1>2 DEF AdmissibleBy, NothingStaged
  <2>2. ASSUME NEW t \in Savers \ {s}
        PROVE  AdmissibleBy(t)'
    BY <1>1, <1>2, <2>2 DEF IndexInv, AdmissibleBy, NothingStaged
  <2> QED
    BY <2>1, <2>2 DEF IndexInv
<1>8. GoodHistory(bindings') /\ WholeArtifacts'
  BY <1>1 DEF WholeArtifacts
<1> QED
  BY <1>3, <1>4, <1>5, <1>6, <1>7, <1>8

\* The row a transaction commits may join the committed history.
LEMMA CommitMayJoin ==
  ASSUME IInv, NEW s \in Savers, pc[s] = "commit"
  PROVE  MayJoin(Row(s), bindings) /\ staged[s].bindings = {Row(s)}
<1>1. staged[s].bindings = {Row(s)}
  BY DEF IInv, StagedInv, StagedBy
<1>2. \A x \in bindings : x.id # Row(s).id /\ ~ Clash(x, Row(s))
  BY <1>1 DEF IInv, LookUpInv, Fresh, Holding, Statements, IndexInv,
            AdmissibleBy
<1>3. ValidPredecessor(Row(s))
  BY DEF IInv, PredecessorInv, Fresh, Holding, Statements
<1> QED
  BY <1>1, <1>2, <1>3 DEF MayJoin, ValidPredecessor

\* Two transactions past their first read never work on the same digest.
LEMMA DigestExclusion ==
  ASSUME IInv, NEW s \in Savers, NEW t \in Savers,
         pc[s] \in Holding, pc[t] \in Holding, request[s].digest = request[t].digest
  PROVE  s = t
BY DEF IInv, LockInv

LEMMA PublishStep ==
  ASSUME IInv, TypeOK', CallInv', dialect' = dialect, NEW s \in Savers, NEW a, Publish(s, a),
         pc[s] \in {"commit", "recommit"}
  PROVE  IInv'
<1> USE DEF IInv
<1>1. /\ Return(s, a)
      /\ evidence' = evidence \cup staged[s].evidence
      /\ bindings' = bindings \cup staged[s].bindings
      /\ locations' = locations \cup staged[s].locations
      /\ projections' = projections \cup staged[s].projections
  BY DEF Publish
<1>2. /\ pc'[s] = "idle"
      /\ \A t \in Savers \ {s} : /\ pc'[t] = pc[t]
                                 /\ request'[t] = request[t]
                                 /\ staged'[t] = staged[t]
                                 /\ Row(t)' = Row(t)
      /\ staged'[s] = NothingStaged
      /\ \A k \in Locks : lock[k] # s => lock'[k] = lock[k]
      /\ productRepos' = productRepos
  BY <1>1, ReturnFrame
<1>3. request[s] \in Requests /\ pc[s] \in Holding
  BY CallFacts DEF Holding, Statements
<1>4. LockInv'
  BY <1>2, LockOfType, CallFacts, RequestFacts, SaverAssumption
     DEF LockInv, Holding, Statements, TypeOK, LockOf
<1>5. LookUpInv'
  <2>1. ASSUME NEW t \in Savers \ {s}, pc[t] \in Fresh, NEW b \in bindings'
        PROVE  b.id # Row(t).id
    <3>1. CASE b \in bindings
      BY <2>1, <3>1 DEF LookUpInv
    <3>2. CASE b \in staged[s].bindings
      <4>0. b = Row(s)
        BY <3>2 DEF StagedInv, StagedBy
      <4>1. b.id.digest = request[s].digest
        BY <1>3, <4>0, RequestFacts DEF Row
      <4>2. Row(t).id.digest = request[t].digest
        BY <2>1, CallFacts, RequestFacts DEF Row, Fresh, Holding, Statements
      <4>3. pc[t] \in Holding
        BY <2>1 DEF Fresh
      <4> QED
        BY <1>3, <4>1, <4>2, <4>3, DigestExclusion
    <3> QED
      BY <1>1, <2>1, <3>1, <3>2
  <2> QED
    BY <1>1, <1>2, <2>1 DEF LookUpInv, Fresh, Holding, Statements, TypeOK
<1>6. PredecessorInv'
  BY <1>1, <1>2 DEF PredecessorInv, Fresh, Holding, Statements, TypeOK, ValidPredecessor
<1>7. StagedInv'
  <2>1. StagedBy(s)'
    BY <1>2 DEF StagedBy, NothingStaged
  <2>2. ASSUME NEW t \in Savers \ {s}
        PROVE  StagedBy(t)'
    BY <1>1, <1>2, <2>2 DEF StagedInv, StagedBy
  <2> QED
    BY <2>1, <2>2 DEF StagedInv
<1>8. IndexInv'
  <2>1. ASSUME NEW t \in Savers \ {s}, NEW x \in staged[t].bindings, NEW b \in bindings'
        PROVE  ~ Clash(b, x)
    BY <1>1, <2>1 DEF IndexInv, AdmissibleBy
  <2>2. AdmissibleBy(s)'
    BY <1>2 DEF AdmissibleBy, NothingStaged
  <2>3. ASSUME NEW t \in Savers \ {s}
        PROVE  AdmissibleBy(t)'
    BY <1>2, <2>1, <2>3 DEF IndexInv, AdmissibleBy, NothingStaged
  <2> QED
    BY <2>2, <2>3 DEF IndexInv
<1>9. GoodHistory(bindings')
  <2>1. CASE pc[s] = "commit"
    BY <1>1, <1>3, <2>1, CommitMayJoin, JoinGoodHistory, RequestFacts DEF Row
  <2>2. CASE pc[s] = "recommit"
    BY <1>1, <2>2 DEF StagedInv, StagedBy
  <2> QED
    BY <2>1, <2>2
<1>10. WholeArtifacts'
  <2>1. CASE pc[s] = "commit"
    <3>1. /\ bindings' = bindings \cup {Row(s)}
          /\ projections' = projections \cup {Row(s).id}
          /\ evidence' = evidence \cup {Row(s).id.digest}
          /\ \A l \in locations' \ locations : l[1] = Row(s).id
      <4>1. /\ staged[s].bindings = {Row(s)}
            /\ staged[s].projections = {Row(s).id}
            /\ staged[s].locations = LocationsOf(request[s])
            /\ evidence \cup staged[s].evidence = evidence \cup {request[s].digest}
        BY <2>1 DEF StagedInv, StagedBy
      <4>2. /\ Row(s).id.digest = request[s].digest
            /\ \A l \in LocationsOf(request[s]) : l[1] = Row(s).id
        BY <1>3, RequestFacts DEF Row
      <4> QED
        BY <1>1, <4>1, <4>2
    <3> QED
      BY <3>1 DEF WholeArtifacts
  <2>2. CASE pc[s] = "recommit"
    <3>1. /\ bindings' = bindings /\ projections' = projections /\ evidence' = evidence
          /\ Row(s) \in bindings
          /\ \A l \in locations' \ locations : l[1] = Row(s).id
      <4>1. /\ staged[s].bindings = {} /\ staged[s].projections = {}
            /\ staged[s].evidence = {}
            /\ staged[s].locations = LocationsOf(request[s])
        BY <2>2 DEF StagedInv, StagedBy
      <4>2. Row(s) \in bindings
        BY <2>2 DEF LookUpInv
      <4>3. \A l \in LocationsOf(request[s]) : l[1] = Row(s).id
        BY <1>3, RequestFacts DEF Row
      <4> QED
        BY <1>1, <4>1, <4>2, <4>3
    <3> QED
      BY <3>1 DEF WholeArtifacts
  <2> QED
    BY <2>1, <2>2
<1> QED
  BY <1>4, <1>5, <1>6, <1>7, <1>8, <1>9, <1>10

\* The part of the invariant that speaks of one saver.
OwnInv(s) ==
  /\ pc[s] \in Holding => lock[LockOf(request[s].digest)] = s
  /\ pc[s] \in Fresh => \A b \in bindings : b.id # Row(s).id
  /\ pc[s] \in {"relocate", "recommit"} => Row(s) \in bindings
  /\ pc[s] \in Fresh \ {"predecessor"} => ValidPredecessor(Row(s))
  /\ StagedBy(s)
  /\ AdmissibleBy(s)

\* A transaction that has not read yet has staged nothing.
LEMMA EmptyTransaction ==
  ASSUME TypeOK, NEW s \in Savers, StagedBy(s), pc[s] \in {"idle", "begin", "lock"}
  PROVE  staged[s] = NothingStaged
<1>1. staged[s] \in StagedRows
  BY DEF TypeOK
<1>2. /\ staged[s].evidence = {} /\ staged[s].bindings = {}
      /\ staged[s].locations = {} /\ staged[s].projections = {}
  BY DEF StagedBy
<1> QED
  BY <1>1, <1>2 DEF StagedRows, NothingStaged

\* A statement before the end of the transaction: it is private to its saver,
\* except that it may take a free lock.
PrivateStep(s) ==
  /\ UNCHANGED <<evidence, bindings, locations, projections, productRepos>>
  /\ \A t \in Savers \ {s} : /\ pc'[t] = pc[t]
                             /\ request'[t] = request[t]
                             /\ staged'[t] = staged[t]
                             /\ Row(t)' = Row(t)
  /\ \A k \in Locks : lock[k] # None => lock'[k] = lock[k]

LEMMA OwnInvHolds ==
  ASSUME IInv, NEW s \in Savers
  PROVE  OwnInv(s)
BY DEF IInv, OwnInv, LockInv, LookUpInv, PredecessorInv, StagedInv, IndexInv

LEMMA PrivateStepInv ==
  ASSUME IInv, TypeOK', CallInv', dialect' = dialect, NEW s \in Savers, PrivateStep(s), OwnInv(s)'
  PROVE  IInv'
<1> USE DEF PrivateStep
<1>1. ASSUME NEW t \in Savers
      PROVE  OwnInv(t)'
  <2>1. CASE t = s
    BY <2>1
  <2> SUFFICES ASSUME t # s
               PROVE  OwnInv(t)'
    BY <2>1
  <2>2. OwnInv(t)
    BY OwnInvHolds
  <2>3. (pc[t] \in Holding => lock[LockOf(request[t].digest)] = t)'
    BY <2>2, LockOfType, CallFacts, RequestFacts, SaverAssumption
       DEF OwnInv, IInv, LockOf, Holding, Statements
  <2>4. StagedBy(t)'
    BY <2>2 DEF OwnInv, StagedBy
  <2>5. AdmissibleBy(t)'
    <3>1. ASSUME NEW x \in staged[t].bindings, NEW y \in staged'[s].bindings
          PROVE  ~ Clash(y, x)
      BY ClashSymmetric DEF OwnInv, AdmissibleBy
    <3> QED
      BY <2>2, <3>1 DEF OwnInv, AdmissibleBy
  <2> QED
    BY <2>2, <2>3, <2>4, <2>5 DEF OwnInv, ValidPredecessor
<1>2. LockInv' /\ LookUpInv' /\ PredecessorInv' /\ StagedInv' /\ IndexInv'
  BY <1>1 DEF OwnInv, LockInv, LookUpInv, PredecessorInv, StagedInv, IndexInv
<1>3. GoodHistory(bindings') /\ WholeArtifacts'
  BY DEF IInv, WholeArtifacts
<1> QED
  BY <1>2, <1>3 DEF IInv

\* A statement that only moves its saver on.
LEMMA GotoStep ==
  ASSUME TypeOK, NEW s \in Savers, NEW q, Goto(s, q),
         UNCHANGED <<tables, productRepos, lock, staged, request, answer>>
  PROVE  /\ PrivateStep(s) /\ pc'[s] = q
         /\ Row(s)' = Row(s) /\ request' = request /\ staged' = staged
         /\ lock' = lock /\ bindings' = bindings /\ evidence' = evidence
BY DEF TypeOK, Goto, PrivateStep, tables, Row

LEMMA InductiveStep ==
  ASSUME IInv, [Next]_vars
  PROVE  IInv'
<1>0. /\ TypeOK' /\ CallInv' /\ TypeOK /\ CallInv
      /\ dialect' = dialect
  BY TypeStep DEF IInv, Next, vars
<1> USE <1>0
<1>1. ASSUME NEW s \in Savers, NEW r \in Requests, Call(s, r)
      PROVE  IInv'
  <2>0. staged[s] = NothingStaged
    BY <1>1, OwnInvHolds, EmptyTransaction DEF Call, At, OwnInv
  <2>1. PrivateStep(s) /\ pc'[s] = "begin" /\ staged'[s] = NothingStaged
    BY <1>1, <2>0 DEF Call, At, Goto, PrivateStep, tables, Row, TypeOK
  <2>2. OwnInv(s)'
    BY <2>1 DEF OwnInv, StagedBy, AdmissibleBy, Holding, Fresh, NothingStaged
  <2> QED
    BY <2>1, <2>2, PrivateStepInv
<1>2. ASSUME NEW s \in Savers, Begin(s)
      PROVE  IInv'
  <2>1. /\ PrivateStep(s) /\ pc'[s] \in {"lock", "lookup"}
        /\ request' = request /\ staged' = staged
    BY <1>2 DEF Begin, At, Goto, PrivateStep, tables, Row, TypeOK, Locks
  <2>2. staged[s] = NothingStaged
    BY <1>2, OwnInvHolds, EmptyTransaction DEF Begin, At, OwnInv
  <2>3. pc'[s] = "lookup" => lock'[LockOf(request[s].digest)] = s
    BY <1>2 DEF Begin, At, Goto, TypeOK, Locks, LockOf
  <2>4. OwnInv(s)'
    BY <2>1, <2>2, <2>3
       DEF OwnInv, StagedBy, AdmissibleBy, Holding, Fresh, NothingStaged, LockOf
  <2> QED
    BY <2>1, <2>4, PrivateStepInv
<1>3. ASSUME NEW s \in Savers, LockArtifact(s)
      PROVE  IInv'
  <2>0. LockOf(request[s].digest) \in Locks
    BY <1>3, CallFacts, RequestFacts, LockOfType DEF LockArtifact, At
  <2>1. /\ PrivateStep(s) /\ pc'[s] = "lookup"
        /\ request' = request /\ staged' = staged
        /\ lock'[LockOf(request[s].digest)] = s
    BY <1>3, <2>0 DEF LockArtifact, At, Goto, PrivateStep, tables, Row, TypeOK
  <2>2. staged[s] = NothingStaged
    BY <1>3, OwnInvHolds, EmptyTransaction DEF LockArtifact, At, OwnInv
  <2>3. OwnInv(s)'
    BY <2>1, <2>2
       DEF OwnInv, StagedBy, AdmissibleBy, Holding, Fresh, NothingStaged, LockOf
  <2> QED
    BY <2>1, <2>3, PrivateStepInv
<1>4. ASSUME NEW s \in Savers, LookUp(s)
      PROVE  IInv'
  <2>1. CASE Rollback(s, "mismatch")
    BY <2>1, RollbackStep
  <2>2. CASE /\ \/ Goto(s, "relocate") /\ Row(s) \in bindings
                \/ Goto(s, "predecessor") /\ \A b \in bindings : b.id # Row(s).id
             /\ UNCHANGED <<tables, productRepos, lock, staged, request, answer>>
    <3>1. OwnInv(s) /\ pc[s] = "lookup"
      BY <1>4, OwnInvHolds DEF LookUp, At
    <3>2. PrivateStep(s)
      BY <2>2, GotoStep
    <3>3. OwnInv(s)'
      BY <2>2, <3>1, GotoStep
         DEF OwnInv, StagedBy, AdmissibleBy, Holding, Fresh, Statements, LockOf, tables
    <3> QED
      BY <3>2, <3>3, PrivateStepInv
  <2> QED
    BY <1>4, <2>1, <2>2 DEF LookUp, sameBinding
<1>5. ASSUME NEW s \in Savers, ValidatePredecessor(s)
      PROVE  IInv'
  <2>1. CASE Rollback(s, "mismatch") \/ Rollback(s, "not_found")
    BY <2>1, RollbackStep
  <2>2. CASE /\ Goto(s, "evidence") /\ ValidPredecessor(Row(s))
             /\ UNCHANGED <<tables, productRepos, lock, staged, request, answer>>
    <3>1. OwnInv(s) /\ pc[s] = "predecessor"
      BY <1>5, OwnInvHolds DEF ValidatePredecessor, At
    <3>2. PrivateStep(s)
      BY <2>2, GotoStep
    <3>3. OwnInv(s)'
      BY <2>2, <3>1, GotoStep
         DEF OwnInv, StagedBy, AdmissibleBy, Holding, Fresh, Statements, LockOf,
             ValidPredecessor, tables
    <3> QED
      BY <3>2, <3>3, PrivateStepInv
  <2> QED
    BY <1>5, <2>1, <2>2 DEF ValidatePredecessor
<1>6. ASSUME NEW s \in Savers, InsertEvidence(s)
      PROVE  IInv'
  <2>1. OwnInv(s) /\ pc[s] = "evidence"
    BY <1>6, OwnInvHolds DEF InsertEvidence, At
  <2>2. /\ PrivateStep(s) /\ pc'[s] = "binding" /\ request' = request /\ lock' = lock
        /\ bindings' = bindings /\ evidence' = evidence
        /\ staged'[s] = [staged[s] EXCEPT !.evidence = {request[s].digest} \ evidence]
    BY <1>6 DEF InsertEvidence, At, Goto, PrivateStep, tables, Row, TypeOK
  <2>3. StagedBy(s)' /\ AdmissibleBy(s)'
    BY <2>1, <2>2 DEF OwnInv, StagedBy, AdmissibleBy, TypeOK, StagedRows
  <2>4. OwnInv(s)'
    BY <2>1, <2>2, <2>3
       DEF OwnInv, Holding, Fresh, Statements, LockOf, Row, ValidPredecessor
  <2> QED
    BY <2>2, <2>4, PrivateStepInv
<1>7. ASSUME NEW s \in Savers, InsertBinding(s)
      PROVE  IInv'
  <2>1. OwnInv(s) /\ pc[s] = "binding"
    BY <1>7, OwnInvHolds DEF InsertBinding, At
  <2>2. CASE Rollback(s, "constraint")
    BY <2>2, RollbackStep
  <2>3. CASE \E x \in bindings : x.id = Row(s).id
    BY <2>1, <2>3 DEF OwnInv, Fresh, Holding, Statements
  <2>4. CASE /\ \A x \in bindings : x.id # Row(s).id /\ ~ Clash(x, Row(s))
             /\ Row(s).repo \in productRepos \cup {None}
             /\ staged' = [staged EXCEPT ![s].bindings = {Row(s)}]
             /\ Goto(s, "locations")
             /\ UNCHANGED <<tables, productRepos, lock, request, answer>>
    <3>1. /\ PrivateStep(s) /\ pc'[s] = "locations" /\ request' = request /\ lock' = lock
          /\ bindings' = bindings /\ evidence' = evidence /\ productRepos' = productRepos
          /\ staged'[s] = [staged[s] EXCEPT !.bindings = {Row(s)}]
      BY <2>4 DEF Goto, PrivateStep, tables, Row, TypeOK
    <3>2. StagedBy(s)'
      BY <2>1, <3>1 DEF OwnInv, StagedBy, Row, TypeOK, StagedRows
    <3>3. staged'[s].bindings = {Row(s)}
      BY <3>1 DEF TypeOK, StagedRows
    <3>4. \A t \in Savers \ {s} : \A y \in staged'[t].bindings : ~ Clash(y, Row(s))
      BY <1>7, <3>1 DEF InsertBinding, StagedByOthers, PrivateStep
    <3>5. AdmissibleBy(s)'
      BY <2>4, <3>1, <3>3, <3>4 DEF AdmissibleBy
    <3>6. OwnInv(s)'
      BY <2>1, <3>1, <3>2, <3>5
         DEF OwnInv, Holding, Fresh, Statements, LockOf, Row, ValidPredecessor
    <3> QED
      BY <3>1, <3>6, PrivateStepInv
  <2> QED
    BY <1>7, <2>2, <2>3, <2>4 DEF InsertBinding
<1>8. ASSUME NEW s \in Savers, RegisterLocations(s)
      PROVE  IInv'
  <2>1. OwnInv(s) /\ pc[s] \in {"locations", "relocate"}
    BY <1>8, OwnInvHolds DEF RegisterLocations, At
  <2>2. /\ PrivateStep(s) /\ request' = request /\ lock' = lock
        /\ pc'[s] = IF pc[s] = "locations" THEN "project" ELSE "recommit"
        /\ bindings' = bindings /\ evidence' = evidence /\ productRepos' = productRepos
        /\ staged'[s] = [staged[s] EXCEPT !.locations = LocationsOf(request[s])]
    BY <1>8
       DEF RegisterLocations, StageLocations, At, Goto, PrivateStep, tables, Row, TypeOK
  <2>3. StagedBy(s)'
    BY <2>1, <2>2 DEF OwnInv, StagedBy, Row, TypeOK, StagedRows
  <2>4. AdmissibleBy(s)'
    BY <2>1, <2>2 DEF OwnInv, AdmissibleBy, PrivateStep, TypeOK, StagedRows
  <2>5. OwnInv(s)'
    BY <2>1, <2>2, <2>3, <2>4
       DEF OwnInv, Holding, Fresh, Statements, LockOf, Row, ValidPredecessor
  <2> QED
    BY <2>2, <2>5, PrivateStepInv
<1>9. ASSUME NEW s \in Savers, Project(s)
      PROVE  IInv'
  <2>1. OwnInv(s) /\ pc[s] = "project"
    BY <1>9, OwnInvHolds DEF Project, At
  <2>2. /\ PrivateStep(s) /\ request' = request /\ lock' = lock /\ pc'[s] = "commit"
        /\ bindings' = bindings /\ evidence' = evidence /\ productRepos' = productRepos
        /\ staged'[s] = [staged[s] EXCEPT !.projections = {Row(s).id}]
    BY <1>9 DEF Project, At, Goto, PrivateStep, tables, Row, TypeOK
  <2>3. StagedBy(s)'
    BY <2>1, <2>2 DEF OwnInv, StagedBy, Row, TypeOK, StagedRows
  <2>4. AdmissibleBy(s)'
    BY <2>1, <2>2 DEF OwnInv, AdmissibleBy, PrivateStep, TypeOK, StagedRows
  <2>5. OwnInv(s)'
    BY <2>1, <2>2, <2>3, <2>4
       DEF OwnInv, Holding, Fresh, Statements, LockOf, Row, ValidPredecessor
  <2> QED
    BY <2>2, <2>5, PrivateStepInv
<1>10. ASSUME NEW s \in Savers, Busy(s) \/ Fail(s)
       PROVE  IInv'
  BY <1>10, RollbackStep DEF Busy, Fail
<1>11. ASSUME NEW s \in Savers, Commit(s) \/ CommitUnacknowledged(s)
       PROVE  IInv'
  BY <1>11, PublishStep DEF Commit, CommitUnacknowledged, At
<1>12. ASSUME NEW p \in ProductRepos, RegisterProductRepo(p)
       PROVE  IInv'
  <2>1. /\ productRepos \subseteq productRepos'
        /\ UNCHANGED <<evidence, bindings, locations, projections, lock, staged, pc, request>>
    BY <1>12 DEF RegisterProductRepo, tables
  <2>2. IndexInv'
    BY <2>1 DEF IInv, IndexInv, AdmissibleBy
  <2> QED
    BY <2>1, <2>2
       DEF IInv, LockInv, LookUpInv, PredecessorInv, StagedInv, StagedBy, Row,
           ValidPredecessor, WholeArtifacts, LockOf
<1>13. CASE UNCHANGED vars
  BY <1>13
     DEF vars, tables, IInv, LockInv, LookUpInv, PredecessorInv, StagedInv, StagedBy, Row,
         ValidPredecessor, WholeArtifacts, LockOf, IndexInv, AdmissibleBy
<1> QED
  BY <1>1, <1>2, <1>3, <1>4, <1>5, <1>6, <1>7, <1>8, <1>9, <1>10, <1>11, <1>12, <1>13
     DEF Next, Step

LEMMA InitInv == Init => IInv
<1> SUFFICES ASSUME Init PROVE IInv
  OBVIOUS
<1>1. TypeOK /\ CallInv
  BY InitType
<1>2. /\ LockInv /\ LookUpInv /\ PredecessorInv /\ StagedInv /\ IndexInv
  BY DEF Init, LockInv, LookUpInv, PredecessorInv, StagedInv, StagedBy, IndexInv,
         AdmissibleBy, NothingStaged, Holding, Fresh, Statements
<1>3. GoodHistory(bindings) /\ WholeArtifacts
  BY EmptyHistory DEF Init, WholeArtifacts
<1> QED
  BY <1>1, <1>2, <1>3 DEF IInv

\* The invariant above is inductive.
THEOREM Invariant == Spec => []IInv
BY InitInv, InductiveStep, PTL DEF Spec

-----------------------------------------------------------------------------
(* The safety properties.                                                  *)

\* A binding is superseded at most once, whoever races to supersede it.
THEOREM HistoryIsLinear == Spec => []LinearHistory
<1>1. IInv => LinearHistory
  BY DEF IInv, GoodHistory, LinearHistory
<1> QED
  BY <1>1, Invariant, PTL

\* Every history leads back, without a cycle, to bindings that exist.
THEOREM HistoryIsGrounded == Spec => []GroundedHistory
<1>1. IInv => GroundedHistory
  BY DEF IInv, GoodHistory, GroundedHistory
<1> QED
  BY <1>1, Invariant, PTL

\* One cumulative report is current per scope, product_repo and run.
THEOREM CumulativeIsUnique == Spec => []OneCurrentCumulative
<1>1. IInv => OneCurrentCumulative
  BY DEF IInv, GoodHistory, OneCurrentCumulative
<1> QED
  BY <1>1, Invariant, PTL

\* Bindings, evidence and projections appear together.
THEOREM ArtifactsAreWhole == Spec => []WholeArtifacts
<1>1. IInv => WholeArtifacts
  BY DEF IInv
<1> QED
  BY <1>1, Invariant, PTL

-----------------------------------------------------------------------------
(* The answers.                                                            *)

\* A saver becomes idle by a step of its own, and by one of these.
LEMMA ReturnCases ==
  ASSUME TypeOK, [Next]_vars, NEW s \in Savers, At(s, "idle")', ~ At(s, "idle")
  PROVE  \/ Rollback(s, "error")
         \/ LookUp(s) /\ Rollback(s, "mismatch")
         \/ ValidatePredecessor(s) /\ \/ Rollback(s, "mismatch")
                                      \/ Rollback(s, "not_found")
         \/ InsertBinding(s) /\ Rollback(s, "constraint")
         \/ Commit(s)
         \/ CommitUnacknowledged(s)
<1>1. ASSUME NEW t \in Savers, t # s, NEW q, Goto(t, q)
      PROVE  FALSE
  BY <1>1 DEF Goto, At, TypeOK
<1>2. ASSUME NEW q, q # "idle", Goto(s, q)
      PROVE  FALSE
  BY <1>2 DEF Goto, At, TypeOK
<1>3. ~ UNCHANGED pc
  BY DEF At
<1>4. ASSUME NEW t \in Savers, t # s,
             \/ \E r \in Requests : Call(t, r)
             \/ Step(t) \/ CommitUnacknowledged(t) \/ Fail(t)
      PROVE  FALSE
  <2>1. \E q : Goto(t, q)
    BY <1>4
       DEF Call, Step, Begin, Busy, LockArtifact, LookUp, ValidatePredecessor,
           InsertEvidence, InsertBinding, RegisterLocations, Project, Commit,
           CommitUnacknowledged, Fail, Rollback, Publish, Return
  <2> QED
    BY <1>1, <1>4, <2>1
<1>5. \A r \in Requests : ~ Call(s, r)
  BY <1>2 DEF Call
<1>6. ~ Begin(s) /\ ~ LockArtifact(s) /\ ~ InsertEvidence(s) /\ ~ RegisterLocations(s)
      /\ ~ Project(s)
  BY <1>2 DEF Begin, LockArtifact, InsertEvidence, RegisterLocations, Project
<1>7. LookUp(s) => Rollback(s, "mismatch")
  BY <1>2 DEF LookUp
<1>8. ValidatePredecessor(s) => Rollback(s, "mismatch") \/ Rollback(s, "not_found")
  BY <1>2 DEF ValidatePredecessor
<1>9. InsertBinding(s) => Rollback(s, "constraint")
  BY <1>2 DEF InsertBinding
<1>10. Busy(s) \/ Fail(s) => Rollback(s, "error")
  BY DEF Busy, Fail
<1>11. ~ (\E p \in ProductRepos : RegisterProductRepo(p)) /\ ~ UNCHANGED vars
  BY <1>3 DEF RegisterProductRepo, vars
<1> QED
  BY <1>4, <1>5, <1>6, <1>7, <1>8, <1>9, <1>10, <1>11 DEF Next, Step

\* Each answer belongs to one way of returning.
LEMMA AnswerOf ==
  ASSUME TypeOK, NEW s \in Savers, NEW a, Return(s, a)
  PROVE  answer'[s] = a
BY DEF TypeOK, Return

LEMMA SuccessStep ==
  ASSUME IInv, [Next]_vars, NEW s \in Savers, Returns(s, {"saved", "already_bound"})
  PROVE  /\ Row(s) \in bindings'
         /\ LocationsOf(request[s]) \subseteq locations'
         /\ answer'[s] = "saved" => Row(s) \notin bindings
         /\ answer'[s] = "already_bound" => Row(s) \in bindings
<1>1. TypeOK
  BY DEF IInv
<1>2. \A a : Rollback(s, a) => answer'[s] = a
  BY <1>1, AnswerOf DEF Rollback
<1>3. CommitUnacknowledged(s) => answer'[s] = "error"
  BY <1>1, AnswerOf DEF CommitUnacknowledged, Publish
<1>4. Commit(s)
  BY <1>1, <1>2, <1>3, ReturnCases DEF Returns
<1>5. CASE At(s, "commit") /\ Publish(s, "saved")
  <2>1. /\ staged[s].bindings = {Row(s)}
        /\ staged[s].locations = LocationsOf(request[s])
    BY <1>5 DEF IInv, StagedInv, StagedBy, At
  <2>2. Row(s) \notin bindings
    BY <1>5 DEF IInv, LookUpInv, Fresh, Holding, Statements, At
  <2>3. answer'[s] = "saved"
    BY <1>1, <1>5, AnswerOf DEF Publish
  <2> QED
    BY <1>5, <2>1, <2>2, <2>3 DEF Publish
<1>6. CASE At(s, "recommit") /\ Publish(s, "already_bound")
  <2>1. staged[s].locations = LocationsOf(request[s])
    BY <1>6 DEF IInv, StagedInv, StagedBy, At
  <2>2. Row(s) \in bindings
    BY <1>6 DEF IInv, LookUpInv, At
  <2>3. answer'[s] = "already_bound"
    BY <1>1, <1>6, AnswerOf DEF Publish
  <2> QED
    BY <1>6, <2>1, <2>2, <2>3 DEF Publish
<1> QED
  BY <1>4, <1>5, <1>6 DEF Commit

\* A success is the truth about the store.
THEOREM SuccessTheorem == Spec => SuccessIsTrue
<1>1. ASSUME IInv, [Next]_vars
      PROVE  [\A s \in Savers :
                /\ Returns(s, {"saved", "already_bound"}) =>
                     Row(s) \in bindings' /\ LocationsOf(request[s]) \subseteq locations'
                /\ Returns(s, {"saved"}) => Row(s) \notin bindings
                /\ Returns(s, {"already_bound"}) => Row(s) \in bindings]_vars
  BY <1>1, SuccessStep DEF Returns
<1> QED
  BY <1>1, Invariant, PTL DEF Spec, SuccessIsTrue

\* A refused row is not in the store.
LEMMA RefusalStep ==
  ASSUME IInv, [Next]_vars, NEW s \in Savers,
         Returns(s, {"mismatch", "not_found", "constraint"})
  PROVE  Row(s) \notin bindings
<1>1. TypeOK
  BY DEF IInv
<1>2. \A a : Rollback(s, a) => answer'[s] = a
  BY <1>1, AnswerOf DEF Rollback
<1>3. /\ CommitUnacknowledged(s) => answer'[s] = "error"
      /\ Commit(s) => answer'[s] \in {"saved", "already_bound"}
  BY <1>1, AnswerOf DEF CommitUnacknowledged, Commit, Publish
<1>4. LookUp(s) \/ ValidatePredecessor(s) \/ InsertBinding(s)
  BY <1>1, <1>2, <1>3, ReturnCases DEF Returns
<1>5. CASE LookUp(s)
  <2>1. Keyed(bindings)
    BY DEF IInv, GoodHistory
  <2>2. \A q : ~ (Goto(s, q) /\ q # "idle")
    BY <1>1 DEF Returns, Goto, At, TypeOK
  <2>3. \E b \in bindings : b.id = Row(s).id /\ b # Row(s)
    BY <1>5, <2>2 DEF LookUp, sameBinding
  <2> QED
    BY <2>1, <2>3 DEF Keyed
<1>6. CASE ValidatePredecessor(s) \/ InsertBinding(s)
  BY <1>6 DEF ValidatePredecessor, InsertBinding, At, IInv, LookUpInv, Fresh, Holding, Statements
<1> QED
  BY <1>4, <1>5, <1>6

\* A definite refusal is never given for a save that is durable.
THEOREM RefusalTheorem == Spec => RefusalIsTrue
<1>1. ASSUME IInv, [Next]_vars
      PROVE  [\A s \in Savers : Returns(s, {"mismatch", "not_found", "constraint"}) =>
                Row(s) \notin bindings]_vars
  BY <1>1, RefusalStep
<1> QED
  BY <1>1, Invariant, PTL DEF Spec, RefusalIsTrue

\* Committed rows and registered references stay.
THEOREM AppendOnlyTheorem == Spec => AppendOnly
<1>1. ASSUME [Next]_vars
      PROVE  [/\ bindings \subseteq bindings' /\ locations \subseteq locations']_vars
  BY <1>1
     DEF Next, Step, Call, Begin, Busy, LockArtifact, LookUp, ValidatePredecessor,
         InsertEvidence, InsertBinding, RegisterLocations, Project, Commit,
         CommitUnacknowledged, Fail, Rollback, Publish, RegisterProductRepo, tables, vars
<1> QED
  BY <1>1, PTL DEF Spec, AppendOnly

-----------------------------------------------------------------------------
(* Why every call returns: the waits.                                      *)

\* Moving one saver keeps the invariant, unless a lock holder moves back to
\* a statement before its lock.
LEMMA HolderKept ==
  ASSUME TypeOK, HolderInv, NEW s \in Savers, NEW q, Goto(s, q),
         pc[s] \in Holding => q \in Holding, lock' = lock
  PROVE  HolderInv'
BY DEF HolderInv, TypeOK, Goto

LEMMA HolderTakes ==
  ASSUME TypeOK, HolderInv, NEW s \in Savers, NEW k \in Locks,
         lock' = [lock EXCEPT ![k] = s], Goto(s, "lookup")
  PROVE  HolderInv'
BY DEF HolderInv, TypeOK, Goto, Holding, Statements

LEMMA HolderReturns ==
  ASSUME TypeOK, HolderInv, NEW s \in Savers, NEW a, Return(s, a)
  PROVE  HolderInv'
BY SaverAssumption DEF HolderInv, TypeOK, Return, Unlocked, Goto

LEMMA HolderStep ==
  ASSUME TypeOK, HolderInv, [Next]_vars
  PROVE  HolderInv'
<1>1. ASSUME NEW s \in Savers, NEW r \in Requests, Call(s, r)
      PROVE  HolderInv'
  BY <1>1, HolderKept DEF Call, At, Holding, Statements
<1>2. ASSUME NEW s \in Savers, Begin(s)
      PROVE  HolderInv'
  BY <1>2, HolderKept, HolderTakes DEF Begin, At, Holding, Locks
<1>3. ASSUME NEW s \in Savers, LockArtifact(s)
      PROVE  HolderInv'
  <2>1. CASE LockOf(request[s].digest) \in Locks
    BY <1>3, <2>1, HolderTakes DEF LockArtifact
  <2>2. CASE LockOf(request[s].digest) \notin Locks
    BY <1>3, <2>2 DEF LockArtifact, HolderInv, TypeOK, Goto, Holding, Statements
  <2> QED
    BY <2>1, <2>2
<1>4. ASSUME NEW s \in Savers, NEW a, Rollback(s, a) \/ Publish(s, a)
      PROVE  HolderInv'
  BY <1>4, HolderReturns DEF Rollback, Publish
<1>5. ASSUME NEW s \in Savers, NEW q \in Holding, Goto(s, q), lock' = lock
      PROVE  HolderInv'
  BY <1>5, HolderKept
<1>6. /\ {"lookup", "predecessor", "evidence", "binding", "locations"} \subseteq Holding
      /\ {"project", "commit", "relocate", "recommit"} \subseteq Holding
  BY DEF Holding, Statements
<1>7. ASSUME NEW s \in Savers, LookUp(s) \/ ValidatePredecessor(s)
      PROVE  HolderInv'
  BY <1>4, <1>5, <1>6, <1>7 DEF LookUp, ValidatePredecessor
<1>8. ASSUME NEW s \in Savers, InsertEvidence(s) \/ InsertBinding(s)
      PROVE  HolderInv'
  BY <1>4, <1>5, <1>6, <1>8 DEF InsertEvidence, InsertBinding
<1>9. ASSUME NEW s \in Savers, RegisterLocations(s) \/ Project(s)
      PROVE  HolderInv'
  BY <1>5, <1>6, <1>9 DEF RegisterLocations, Project
<1>10. ASSUME NEW s \in Savers,
              Busy(s) \/ Commit(s) \/ CommitUnacknowledged(s) \/ Fail(s)
       PROVE  HolderInv'
  BY <1>4, <1>10 DEF Busy, Commit, CommitUnacknowledged, Fail
<1>11. ASSUME NEW p \in ProductRepos, RegisterProductRepo(p)
       PROVE  HolderInv'
  BY <1>11 DEF RegisterProductRepo, HolderInv
<1>12. CASE UNCHANGED vars
  BY <1>12 DEF vars, HolderInv
<1> QED
  BY <1>1, <1>2, <1>3, <1>7, <1>8, <1>9, <1>10, <1>11, <1>12 DEF Next, Step

\* Only a transaction that is past its lock has anything others can wait for,
\* and after its own INSERT INTO artifact_binding it waits for nobody.
LEMMA AwaitedIsFar ==
  ASSUME IInv, HolderInv, NEW s \in Savers, NEW t \in Savers, WaitsFor(s, t)
  PROVE  /\ pc[t] \in Holding
         /\ At(s, "binding") => pc[t] \in {"locations", "project", "commit"}
         /\ ~ At(s, "evidence")
<1>1. TypeOK /\ CallInv /\ OwnInv(s) /\ OwnInv(t)
  BY OwnInvHolds DEF IInv
<1>2. CASE At(s, "begin") \/ At(s, "lock")
  <2>1. \E k \in Locks : lock[k] = t
    BY <1>1, <1>2, CallFacts, RequestFacts, LockOfType DEF WaitsFor, At, Locks
  <2> QED
    BY <1>2, <2>1 DEF HolderInv, At
<1>3. CASE At(s, "evidence")
  <2>1. t # s /\ request[s].digest \in staged[t].evidence
    BY <1>3 DEF WaitsFor, At
  <2>2. /\ pc[t] \in {"binding", "locations", "project", "commit"}
        /\ request[t].digest = request[s].digest
    BY <1>1, <2>1 DEF OwnInv, StagedBy
  <2>3. pc[t] \in Holding /\ pc[s] \in Holding
    BY <1>3, <2>2 DEF Holding, Statements, At
  <2> QED
    BY <1>1, <2>1, <2>2, <2>3 DEF OwnInv
<1>4. CASE At(s, "binding")
  <2>1. staged[t].bindings # {}
    BY <1>4 DEF WaitsFor, At
  <2>2. pc[t] \in {"locations", "project", "commit"}
    BY <1>1, <2>1 DEF OwnInv, StagedBy
  <2> QED
    BY <1>4, <2>2 DEF Holding, Statements, At
<1> QED
  BY <1>2, <1>3, <1>4 DEF WaitsFor

LEMMA WaitsEndHere ==
  ASSUME IInv, HolderInv
  PROVE  WaitsEnd
<1> SUFFICES ASSUME NEW s \in Savers, NEW t \in Savers, WaitsFor(s, t)
             PROVE  /\ ~ At(s, "evidence") /\ ~ At(t, "idle")
                    /\ \A u \in Savers : WaitsFor(t, u) =>
                         \A v \in Savers : ~ WaitsFor(u, v)
  BY DEF WaitsEnd
<1>1. ~ At(s, "evidence") /\ pc[t] \in Holding
  BY AwaitedIsFar
<1>2. ASSUME NEW u \in Savers, WaitsFor(t, u), NEW v \in Savers
      PROVE  ~ WaitsFor(u, v)
  <2>1. At(t, "binding")
    BY <1>1, <1>2, AwaitedIsFar DEF WaitsFor, At, Holding
  <2>2. pc[u] \in {"locations", "project", "commit"}
    BY <1>2, <2>1, AwaitedIsFar
  <2> QED
    BY <2>2 DEF WaitsFor, At
<1> QED
  BY <1>1, <1>2 DEF At, Holding, Statements

\* Who waits, by WaitsFor, is who finds that conjunct of its statement's guard
\* false which speaks of other transactions: nothing else in it can.
LEMMA WaitingIsBeingBlocked ==
  ASSUME IInv, NEW s \in Savers
  PROVE  (\E t \in Savers : WaitsFor(s, t)) <=>
           \/ At(s, "begin") /\ dialect = "sqlite" /\ lock[Database] # None
           \/ At(s, "lock") /\ lock[LockOf(request[s].digest)] # None
           \/ /\ At(s, "evidence")
              /\ ~ \A t \in Savers \ {s} : request[s].digest \notin staged[t].evidence
           \/ /\ At(s, "binding")
              /\ ~ \A x \in StagedByOthers(s) : x.id # Row(s).id /\ ~ Clash(x, Row(s))
<1>1. \A k \in Locks : lock[k] # None <=> \E t \in Savers : lock[k] = t
  BY SaverAssumption DEF IInv, TypeOK
<1>2. Database \in Locks
  BY DEF Locks
<1>3. At(s, "lock") => LockOf(request[s].digest) \in Locks
  BY CallFacts, RequestFacts, LockOfType DEF IInv, At, Locks
<1>4. CASE At(s, "begin")
  BY <1>1, <1>2, <1>4 DEF WaitsFor, At
<1>5. CASE At(s, "lock")
  BY <1>1, <1>3, <1>5 DEF WaitsFor, At
<1>6. CASE At(s, "evidence")
  BY <1>6 DEF WaitsFor, At
<1>7. CASE At(s, "binding")
  BY <1>7 DEF WaitsFor, At, StagedByOthers
<1> QED
  BY <1>4, <1>5, <1>6, <1>7 DEF WaitsFor

\* Nobody's lock is left behind: its holder is in the middle of a transaction.
THEOREM LocksAreHeldByTransactions == Spec => []HolderInv
<1>1. Init => HolderInv
  BY SaverAssumption DEF Init, HolderInv
<1>2. TypeOK /\ HolderInv /\ [Next]_vars => HolderInv'
  BY HolderStep
<1> QED
  BY <1>1, <1>2, TypeCorrect, PTL DEF Spec

\* The chain of transactions that wait for each other is at most two waits
\* long, so it never closes: no deadlock of the advisory locks with the unique
\* indexes, however many savers there are and however digests share lock keys.
THEOREM WaitsEndTheorem == Spec => []WaitsEnd
<1>1. IInv /\ HolderInv => WaitsEnd
  BY WaitsEndHere
<1> QED
  BY <1>1, Invariant, LocksAreHeldByTransactions, PTL

\* In every reachable state with an open call some open call waits for nobody:
\* the fairness EveryCallReturns assumes is only about scheduling.
THEOREM SomebodyProceedsTheorem == Spec => []SomebodyProceeds
<1>1. WaitsEnd => SomebodyProceeds
  BY DEF WaitsEnd, SomebodyProceeds
<1> QED
  BY <1>1, WaitsEndTheorem, PTL

-----------------------------------------------------------------------------
(* Refinement: a save is one indivisible step of BindingStore.             *)

LEMMA AllWhole ==
  ASSUME IInv
  PROVE  WholeBindings = bindings
BY DEF IInv, WholeArtifacts, WholeBindings

LEMMA AllWholeNext ==
  ASSUME IInv'
  PROVE  WholeBindings' = bindings'
BY DEF IInv, WholeArtifacts, WholeBindings

\* BindingStore reads the rules of module Binding as StorageSave does.
LEMMA SameRules ==
  /\ \A x, y : Store!Clash(x, y) <=> Clash(x, y)
  /\ \A x, y : Store!Continues(x, y) <=> Continues(x, y)
  /\ \A r : Store!RowOf(r) = RowOf(r) /\ Store!LocationsOf(r) = LocationsOf(r)
BY DEF Store!Clash, Store!SuccessorClash, Store!RootClash, Store!Root, Store!Cumulative,
       Store!ChainOf, Clash, SuccessorClash, RootClash, Root, Cumulative, ChainOf,
       Store!Continues, Continues, Store!RowOf, RowOf, Store!LocationsOf, LocationsOf,
       Store!identifyBinding, identifyBinding

LEMMA ReturnTells ==
  ASSUME TypeOK, CallInv, NEW s \in Savers, pc[s] # "idle", NEW a, Return(s, a)
  PROVE  Store!Tell(s, a)
<1>1. request[s] # None
  BY CallFacts, RequestFacts
<1> QED
  BY <1>1 DEF Return, Store!Tell

LEMMA CommitRefines ==
  ASSUME IInv, IInv', NEW s \in Savers, NEW a, Publish(s, a),
         \/ pc[s] = "commit" /\ a \in {"saved", "error"}
         \/ pc[s] = "recommit" /\ a \in {"already_bound", "error"}
  PROVE  Store!Bind(s) \/ Store!Rebind(s)
<1>1. WholeBindings = bindings /\ WholeBindings' = bindings'
  BY AllWhole, AllWholeNext
<1>2. Store!Tell(s, a)
  BY ReturnTells DEF Publish, IInv
<1>3. CASE pc[s] = "commit"
  <2>1. MayJoin(Row(s), bindings) /\ staged[s].bindings = {Row(s)}
    BY <1>3, CommitMayJoin
  <2>2. Row(s).repo \in productRepos \cup {None}
    BY <2>1 DEF IInv, IndexInv, AdmissibleBy
  <2>3. staged[s].locations = LocationsOf(request[s])
    BY <1>3 DEF IInv, StagedInv, StagedBy
  <2>4. Store!Admissible(Row(s))
    BY <1>1, <2>1, <2>2, SameRules DEF Store!Admissible, MayJoin
  <2> QED
    BY <1>1, <1>2, <1>3, <2>1, <2>3, <2>4, SameRules DEF Publish, Store!Bind, Row
<1>4. CASE pc[s] = "recommit"
  <2>1. Row(s) \in bindings
    BY <1>4 DEF IInv, LookUpInv
  <2>2. staged[s].locations = LocationsOf(request[s]) /\ staged[s].bindings = {}
    BY <1>4 DEF IInv, StagedInv, StagedBy
  <2> QED
    BY <1>1, <1>2, <1>4, <2>1, <2>2, SameRules DEF Publish, Store!Rebind, Row
<1> QED
  BY <1>3, <1>4

LEMMA RefusalRefines ==
  ASSUME IInv, IInv', NEW s \in Savers, [Next]_vars,
         NEW a \in {"mismatch", "not_found", "constraint"}, Rollback(s, a),
         LookUp(s) \/ ValidatePredecessor(s) \/ InsertBinding(s)
  PROVE  Store!Refuse(s)
<1>1. WholeBindings = bindings /\ WholeBindings' = bindings'
  BY AllWhole, AllWholeNext
<1>2. TypeOK /\ CallInv /\ pc[s] # "idle"
  BY DEF IInv, LookUp, ValidatePredecessor, InsertBinding, At
<1>3. Store!Tell(s, a) /\ UNCHANGED <<WholeBindings, locations>>
  BY <1>1, <1>2, ReturnTells DEF Rollback, tables
<1>4. pc'[s] = "idle" /\ answer'[s] = a
  BY <1>2, ReturnFrame, AnswerOf DEF Rollback
<1>5. Row(s) \notin bindings
  BY <1>2, <1>4, RefusalStep DEF Returns, At
<1>6. \A q : q # "idle" => ~ Goto(s, q)
  BY <1>2, <1>4 DEF Goto, TypeOK
<1>7. \A c : Rollback(s, c) => c = a
  BY <1>2, <1>4, AnswerOf DEF Rollback
<1>8. CASE LookUp(s)
  <2>1. a = "mismatch" /\ \E b \in bindings : b.id = Row(s).id /\ b # Row(s)
    BY <1>6, <1>7, <1>8 DEF LookUp, sameBinding
  <2> QED
    BY <1>1, <1>3, <1>5, <2>1, SameRules DEF Store!Refuse, Row
<1>9. CASE ValidatePredecessor(s)
  <2>1. \/ /\ a = "mismatch" /\ ~ ValidPredecessor(Row(s))
           /\ \/ Row(s).supersedes = Row(s).id
              \/ \E p \in bindings : p.id = Row(s).supersedes
        \/ /\ a = "not_found" /\ Row(s).supersedes # None
           /\ \A p \in bindings : p.id # Row(s).supersedes
    BY <1>6, <1>7, <1>9 DEF ValidatePredecessor
  <2>2. ASSUME Row(s).supersedes # Row(s).id, ~ ValidPredecessor(Row(s)),
               NEW p \in bindings, p.id = Row(s).supersedes
        PROVE  ~ Continues(Row(s), p)
    BY <2>2 DEF ValidPredecessor
  <2> QED
    BY <1>1, <1>3, <1>5, <2>1, <2>2, SameRules DEF Store!Refuse, Row
<1>10. CASE InsertBinding(s)
  <2>1. /\ a = "constraint"
        /\ \A x \in bindings : x.id # Row(s).id
        /\ \/ \E x \in bindings : Clash(x, Row(s))
           \/ Row(s).repo \notin productRepos \cup {None}
    BY <1>6, <1>7, <1>10 DEF InsertBinding
  <2> QED
    BY <1>1, <1>3, <1>5, <2>1, SameRules DEF Store!Refuse, Row
<1> QED
  BY <1>8, <1>9, <1>10

LEMMA RefinementStep ==
  ASSUME IInv, IInv', [Next]_vars
  PROVE  [Store!Next]_(Store!vars)
<1>1. WholeBindings = bindings /\ WholeBindings' = bindings' /\ TypeOK /\ CallInv
  BY AllWhole, AllWholeNext DEF IInv
<1>2. ASSUME NEW s \in Savers, NEW r \in Requests, Call(s, r)
      PROVE  Store!Ask(s, r)
  BY <1>1, <1>2 DEF Call, At, CallInv, Store!Ask, tables
<1>3. ASSUME NEW s \in Savers, pc[s] # "idle", Rollback(s, "error")
      PROVE  Store!Fail(s)
  BY <1>1, <1>3, ReturnTells DEF Rollback, Store!Fail, tables
<1>4. ASSUME NEW s \in Savers,
             LookUp(s) \/ ValidatePredecessor(s) \/ InsertBinding(s)
      PROVE  Store!Refuse(s) \/ UNCHANGED Store!vars
  <2>1. ASSUME NEW a \in {"mismatch", "not_found", "constraint"}, Rollback(s, a)
        PROVE  Store!Refuse(s)
    BY <1>4, <2>1, RefusalRefines
  <2>2. CASE UNCHANGED <<tables, productRepos, request, answer>>
    BY <2>2 DEF Store!vars, tables, WholeBindings
  <2> QED
    BY <1>4, <2>1, <2>2 DEF LookUp, ValidatePredecessor, InsertBinding
<1>5. ASSUME NEW s \in Savers, Commit(s) \/ CommitUnacknowledged(s)
      PROVE  Store!Bind(s) \/ Store!Rebind(s)
  BY <1>5, CommitRefines DEF Commit, CommitUnacknowledged, At
<1>6. ASSUME NEW s \in Savers,
             \/ Begin(s) \/ LockArtifact(s) \/ InsertEvidence(s)
             \/ RegisterLocations(s) \/ Project(s)
      PROVE  UNCHANGED Store!vars
  BY <1>6
     DEF Begin, LockArtifact, InsertEvidence, RegisterLocations, Project, Store!vars,
         tables, WholeBindings
<1>7. ASSUME NEW p \in ProductRepos, RegisterProductRepo(p)
      PROVE  Store!Register(p)
  BY <1>1, <1>7 DEF RegisterProductRepo, Store!Register, tables
<1>8. CASE UNCHANGED vars
  BY <1>8 DEF vars, tables, Store!vars, WholeBindings
<1>9. ASSUME NEW s \in Savers, Busy(s) \/ Fail(s)
      PROVE  Store!Fail(s)
  BY <1>3, <1>9 DEF Busy, Fail, At
<1> QED
  BY <1>2, <1>4, <1>5, <1>6, <1>7, <1>8, <1>9 DEF Next, Step, Store!Next

LEMMA RefinementInit == Init => Store!Init
BY DEF Init, Store!Init, WholeBindings

\* However statements interleave, a save is one step of BindingStore or none.
THEOREM Refinement == Spec => ImplementsStore
<1>1. Spec => Init /\ [][Next]_vars /\ []IInv
  BY Invariant DEF Spec
<1> QED
  BY <1>1, RefinementInit, RefinementStep, PTL DEF ImplementsStore, Store!Spec

-----------------------------------------------------------------------------
(* What the modules that read the tables may take a save to be.            *)

\* The tables change by whole saves only: the row, which the store did not have
\* and which breaks no rule, or had already, and every reference of the call.
SavesAreWhole ==
  [][bindings' # bindings \/ locations' # locations =>
       \E r \in Requests : Saved(r, bindings, locations, bindings', locations')]_vars

\* StorageRead!Save and CurrentViews!Bind assume no more than StorageSave gives,
\* whichever statements of other calls fall in between (AdmitsEverySave there).
THEOREM SavesComeWhole == Spec => SavesAreWhole
<1>1. ASSUME IInv, [Next]_vars, bindings' # bindings \/ locations' # locations
      PROVE  \E r \in Requests : Saved(r, bindings, locations, bindings', locations')
  <2>1. PICK s \in Savers : Commit(s) \/ CommitUnacknowledged(s)
    BY <1>1
       DEF Next, Step, Call, Begin, Busy, LockArtifact, LookUp, ValidatePredecessor,
           InsertEvidence, InsertBinding, RegisterLocations, Project, Fail,
           RegisterProductRepo, Rollback, tables, vars
  <2>2. /\ pc[s] \in {"commit", "recommit"}
        /\ bindings' = bindings \cup staged[s].bindings
        /\ locations' = locations \cup staged[s].locations
    BY <2>1 DEF Commit, CommitUnacknowledged, At, Publish
  <2>3. request[s] \in Requests /\ staged[s].locations = LocationsOf(request[s])
    BY <1>1, <2>2, CallFacts DEF IInv, StagedInv, StagedBy
  <2>4. CASE pc[s] = "commit"
    <3>1. MayJoin(Row(s), bindings) /\ staged[s].bindings = {Row(s)}
      BY <1>1, <2>4, CommitMayJoin
    <3> QED
      BY <2>2, <2>3, <3>1 DEF Saved, Row
  <2>5. CASE pc[s] = "recommit"
    <3>1. Row(s) \in bindings /\ staged[s].bindings = {}
      BY <1>1, <2>5 DEF IInv, LookUpInv, StagedInv, StagedBy
    <3> QED
      BY <2>2, <2>3, <3>1 DEF Saved, Row
  <2> QED
    BY <2>2, <2>4, <2>5
<1> QED
  BY <1>1, Invariant, PTL DEF Spec, SavesAreWhole
=============================================================================
