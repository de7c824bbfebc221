------------------------- MODULE StorageInitProofs -------------------------
(***************************************************************************)
(* Proofs about StorageInit, for any number of programs, revisions and     *)
(* bootstrap statements, and both dialects.                                *)
(***************************************************************************)
EXTENDS StorageInit, TLAPS

\* The metadata table tells an empty database from a schema.
LEMMA WholeFacts ==
  /\ Meta \in Objects
  /\ \A r, q \in Revisions \cup {None} : Whole(r) = Whole(q) => r = q
  /\ \A r \in Revisions \cup {None} : Whole(r)[Meta] = r
<1>1. Meta \in Objects
  BY InitAssumption DEF Objects
<1>2. \A r \in Revisions \cup {None} : Whole(r)[Meta] = r
  BY <1>1 DEF Whole
<1> QED
  BY <1>1, <1>2

-----------------------------------------------------------------------------
(* Type correctness.                                                       *)

LEMMA ReturnType ==
  ASSUME TypeOK, NEW c \in Clients, NEW a \in {"ok", "incompatible", "error", None},
         Return(c, a)
  PROVE  /\ lock' \in Clients \cup {None}
         /\ created' \in [Clients -> SUBSET Objects]
         /\ stamped' \subseteq Clients
         /\ pc' \in [Clients -> Steps \cup {"idle"}]
         /\ next' \in [Clients -> 1 .. N + 1]
         /\ answer' \in [Clients -> {"ok", "incompatible", "error", None}]
<1>1. 1 \in 1 .. N + 1
  BY InitAssumption
<1>2. lock' \in Clients \cup {None}
  BY DEF TypeOK, Return, Released
<1> QED
  BY <1>1, <1>2 DEF TypeOK, Return, Goto

LEMMA TypeStep == TypeOK /\ [Next]_vars => TypeOK'
<1> SUFFICES ASSUME TypeOK, [Next]_vars
             PROVE  TypeOK'
  OBVIOUS
<1> USE DEF TypeOK
<1>1. dialect' = dialect /\ built' = built
  BY DEF Next, vars, environment
<1> USE <1>1
<1>2. ASSUME NEW c \in Clients, NEW a \in {"ok", "incompatible", "error", None},
             Rollback(c, a)
      PROVE  TypeOK'
  BY <1>2, ReturnType DEF Rollback, database
<1>3. ASSUME NEW c \in Clients, NEW s \in Steps, Moves(c, s),
             lock' \in Clients \cup {None}
      PROVE  TypeOK'
  BY <1>3 DEF Moves, Goto, database
<1>4. ASSUME NEW c \in Clients, Call(c)
      PROVE  TypeOK'
  BY <1>4 DEF Call, Goto, database, Steps
<1>5. ASSUME NEW c \in Clients, Begin(c)
      PROVE  TypeOK'
  BY <1>3, <1>5 DEF Begin, Steps
<1>6. ASSUME NEW c \in Clients, Busy(c) \/ Fail(c)
      PROVE  TypeOK'
  BY <1>2, <1>6 DEF Busy, Fail
<1>7. ASSUME NEW c \in Clients, Lock(c)
      PROVE  TypeOK'
  BY <1>3, <1>7 DEF Lock, Steps
<1>8. ASSUME NEW c \in Clients, StorageMetadataExists(c)
      PROVE  TypeOK'
  BY <1>3, <1>8 DEF StorageMetadataExists, Steps
<1>9. ASSUME NEW c \in Clients, RequireStorageRevision(c)
      PROVE  TypeOK'
  BY <1>2, <1>3, <1>9 DEF RequireStorageRevision, Steps
<1>10. ASSUME NEW c \in Clients, Bootstrap(c)
       PROVE  TypeOK'
  <2>1. next[c] \in Objects /\ next[c] + 1 \in 1 .. N + 1
    BY <1>10, InitAssumption DEF Bootstrap, Objects
  <2>2. created' \in [Clients -> SUBSET Objects]
    BY <1>10, <2>1 DEF Bootstrap
  <2>3. next' \in [Clients -> 1 .. N + 1]
    BY <1>10, <2>1 DEF Bootstrap
  <2> QED
    BY <1>10, <2>2, <2>3 DEF Bootstrap, Goto, database, Steps
<1>11. ASSUME NEW c \in Clients, Upsert(c)
       PROVE  TypeOK'
  BY <1>11 DEF Upsert, Goto, database, Steps
<1>12. ASSUME NEW c \in Clients, Commit(c)
       PROVE  TypeOK'
  <2>1. objects' \in [Objects -> Revisions \cup {None}] /\ row' \in Revisions \cup {None}
    BY <1>12 DEF Commit
  <2>2. PICK a \in {"ok", "error"} : Return(c, a)
    BY <1>12 DEF Commit
  <2> QED
    BY <2>1, <2>2, ReturnType
<1>13. CASE UNCHANGED vars
  BY <1>13 DEF vars
<1> QED
  BY <1>4, <1>5, <1>6, <1>7, <1>8, <1>9, <1>10, <1>11, <1>12, <1>13
     DEF Next, Statement

LEMMA InitType == Init => TypeOK
<1> SUFFICES ASSUME Init PROVE TypeOK
  OBVIOUS
<1>1. \A r \in Revisions \cup {None} : Whole(r) \in [Objects -> Revisions \cup {None}]
  BY DEF Whole
<1>2. objects \in [Objects -> Revisions \cup {None}] /\ row \in Revisions \cup {None}
  BY <1>1 DEF Init
<1>3. 1 \in 1 .. N + 1
  BY InitAssumption
<1> QED
  BY <1>2, <1>3 DEF Init, TypeOK

\* Every reachable state is of the declared types.
THEOREM TypeCorrect == Spec => []TypeOK
BY InitType, TypeStep, PTL DEF Spec

-----------------------------------------------------------------------------
(* Why the safety properties hold: the inductive invariant.                *)

Working == Steps \ {"begin", "lock"}

\* A transaction that creates the schema creates all of it, in order.
Creates(c) ==
  IF objects # Whole(None) THEN created[c] = {}
  ELSE created[c] = {i \in Objects : i < next[c]}

\* From its first read to its end a transaction is alone, so that what it read
\* stays: the row is missing until the transaction that writes it commits.
Own(c) ==
  /\ pc[c] # "idle" => answer[c] = None
  /\ pc[c] \in Working => lock = c
  /\ pc[c] \notin {"bootstrap", "upsert", "commit"} => created[c] = {} /\ next[c] = 1
  /\ c \in stamped => pc[c] = "commit"
  /\ pc[c] = "bootstrap" => row = None /\ Creates(c) /\ next[c] \in Objects
  /\ pc[c] = "upsert" \/ c \in stamped => row = None /\ Creates(c) /\ next[c] = N + 1
  /\ pc[c] = "commit" /\ c \notin stamped => row = built[c] /\ created[c] = {}

\* A schema whose row is missing is of the revision every program has.
UnstampedInv ==
  row = None /\ objects # Whole(None) => \A c \in Clients : objects = Whole(built[c])

IInv ==
  /\ TypeOK /\ OneRevision /\ AnswersStand /\ UnstampedInv
  /\ \A c \in Clients : Own(c)

\* A step that touches neither the database nor another program's transaction.
Private(c) ==
  /\ UNCHANGED <<database, environment>>
  /\ \A t \in Clients \ {c} :
       /\ pc'[t] = pc[t] /\ created'[t] = created[t] /\ next'[t] = next[t]
       /\ answer'[t] = answer[t]
       /\ t \in stamped' <=> t \in stamped
       /\ lock = t => lock' = t

LEMMA PrivateStep ==
  ASSUME IInv, TypeOK', NEW c \in Clients, Private(c), Own(c)',
         answer'[c] \in {None, "error", "incompatible"},
         answer'[c] = "incompatible" => row \notin {None, built[c]}
  PROVE  IInv'
<1>1. objects' = objects /\ row' = row /\ built' = built
  BY DEF Private, database, environment
<1>2. OneRevision' /\ UnstampedInv'
  BY <1>1 DEF IInv, OneRevision, UnstampedInv, Whole
<1>3. AnswersStand'
  <2> SUFFICES ASSUME NEW t \in Clients
               PROVE  /\ answer'[t] = "ok" => objects = Whole(built[t]) /\ row = built[t]
                      /\ answer'[t] = "incompatible" => row \notin {None, built[t]}
    BY <1>1 DEF AnswersStand, Whole
  <2>1. CASE t = c
    BY <2>1, InitAssumption
  <2>2. CASE t # c
    BY <2>2 DEF IInv, AnswersStand, Private
  <2> QED
    BY <2>1, <2>2
<1>4. ASSUME NEW t \in Clients
      PROVE  Own(t)'
  <2>1. CASE t = c
    BY <2>1
  <2>2. CASE t # c
    <3>1. /\ pc'[t] = pc[t] /\ created'[t] = created[t] /\ next'[t] = next[t]
          /\ t \in stamped' <=> t \in stamped
          /\ lock = t => lock' = t
      BY <2>2 DEF Private
    <3>2. Own(t)
      BY DEF IInv
    <3>3. Creates(t) => Creates(t)'
      BY <1>1, <3>1 DEF Creates, Whole
    <3>4. /\ pc'[t] # "idle" => answer'[t] = None
          /\ pc'[t] \in Working => lock' = t
          /\ pc'[t] \notin {"bootstrap", "upsert", "commit"} => created'[t] = {} /\ next'[t] = 1
          /\ t \in stamped' => pc'[t] = "commit"
      BY <3>1, <3>2, <2>2 DEF Own, Private
    <3>5. /\ pc'[t] = "bootstrap" => row' = None /\ Creates(t)' /\ next'[t] \in Objects
          /\ pc'[t] = "upsert" \/ t \in stamped'
               => row' = None /\ Creates(t)' /\ next'[t] = N + 1
          /\ pc'[t] = "commit" /\ t \notin stamped' => row' = built'[t] /\ created'[t] = {}
      BY <1>1, <3>1, <3>2, <3>3 DEF Own
    <3> QED
      BY <3>4, <3>5 DEF Own
  <2> QED
    BY <2>1, <2>2
<1> QED
  BY <1>2, <1>3, <1>4 DEF IInv

\* What a ROLLBACK leaves of its program's transaction, and of the others'.
LEMMA RollbackStep ==
  ASSUME IInv, TypeOK', NEW c \in Clients, NEW a, Rollback(c, a), UNCHANGED environment,
         a \in {"error", "incompatible"}, a = "incompatible" => row \notin {None, built[c]}
  PROVE  IInv'
<1>1. Private(c)
  BY DEF Private, Rollback, Return, Released, Goto, IInv, TypeOK
<1>2. pc'[c] = "idle" /\ created'[c] = {} /\ next'[c] = 1 /\ c \notin stamped' /\ answer'[c] = a
  BY DEF Rollback, Return, Goto, IInv, TypeOK
<1>3. Own(c)'
  BY <1>2 DEF Own, Working, Steps
<1> QED
  BY <1>1, <1>2, <1>3, PrivateStep

LEMMA MovesStep ==
  ASSUME IInv, TypeOK', NEW c \in Clients, NEW s \in Steps, Moves(c, s), UNCHANGED environment,
         \A t \in Clients \ {c} : lock = t => lock' = t,
         answer[c] = None, Own(c)'
  PROVE  IInv'
<1>1. Private(c)
  BY DEF Private, Moves, Goto, IInv, TypeOK
<1>2. answer'[c] = None
  BY DEF Moves
<1> QED
  BY <1>1, <1>2, PrivateStep, InitAssumption

\* The transaction of c is alone: no other program has written anything.
LEMMA Alone ==
  ASSUME IInv, NEW c \in Clients, pc[c] \in Working, NEW t \in Clients \ {c}
  PROVE  pc[t] \notin Working
BY InitAssumption DEF IInv, Own

LEMMA CommitStep ==
  ASSUME IInv, TypeOK', NEW c \in Clients, Commit(c), UNCHANGED environment
  PROVE  IInv'
<1> USE DEF IInv
<1>0. /\ Own(c) /\ pc[c] = "commit" /\ pc[c] \in Working /\ built' = built
      /\ built[c] \in Revisions /\ None \notin Revisions
  BY InitAssumption DEF Commit, At, Working, Steps, environment, TypeOK
<1>1. PICK a \in {"ok", "error"} : Return(c, a)
  BY DEF Commit
<1>2. /\ pc'[c] = "idle" /\ created'[c] = {} /\ next'[c] = 1 /\ c \notin stamped'
      /\ answer'[c] = a
      /\ \A t \in Clients \ {c} :
           /\ pc'[t] = pc[t] /\ created'[t] = created[t] /\ next'[t] = next[t]
           /\ answer'[t] = answer[t] /\ (t \in stamped' <=> t \in stamped)
  BY <1>1 DEF Return, Goto, TypeOK
<1>3. objects' = Whole(built[c]) /\ row' = built[c]
  <2>1. CASE c \notin stamped
    <3>1. created[c] = {} /\ row = built[c]
      BY <1>0, <2>1 DEF Own
    <3>2. objects' = objects
      BY <3>1 DEF Commit, TypeOK
    <3>3. objects = Whole(row)
      BY <1>0, <3>1 DEF OneRevision
    <3> QED
      BY <2>1, <3>1, <3>2, <3>3 DEF Commit
  <2>2. CASE c \in stamped
    <3>1. row = None /\ Creates(c) /\ next[c] = N + 1
      BY <1>0, <2>2 DEF Own
    <3>2. CASE objects = Whole(None)
      <4>1. created[c] = Objects
        <5>1. created[c] = {i \in Objects : i < N + 1}
          BY <3>1, <3>2 DEF Creates
        <5>2. \A i \in Objects : i < N + 1
          BY InitAssumption DEF Objects
        <5> QED
          BY <5>1, <5>2
      <4> QED
        BY <2>2, <4>1 DEF Commit, Whole
    <3>3. CASE objects # Whole(None)
      <4>1. created[c] = {} /\ objects = Whole(built[c])
        BY <3>1, <3>3 DEF Creates, UnstampedInv
      <4>2. objects' = objects
        BY <4>1 DEF Commit, TypeOK
      <4> QED
        BY <2>2, <4>1, <4>2 DEF Commit
    <3> QED
      BY <3>2, <3>3
  <2> QED
    BY <2>1, <2>2
<1>4. row # None => objects' = objects /\ row' = row
  BY <1>0, <1>3 DEF Own, OneRevision
<1>5. OneRevision' /\ UnstampedInv'
  BY <1>0, <1>3 DEF OneRevision, UnstampedInv, Whole
<1>6. AnswersStand'
  <2>1. ASSUME NEW t \in Clients
        PROVE  /\ answer'[t] = "ok" => objects' = Whole(built[t]) /\ row' = built[t]
               /\ answer'[t] = "incompatible" => row' \notin {None, built[t]}
    <3>1. CASE t = c
      BY <1>2, <1>3, <3>1
    <3>2. CASE t # c
      <4>1. answer'[t] = answer[t] /\ built[t] \in Revisions
        BY <1>2, <3>2 DEF TypeOK
      <4>2. answer[t] \in {"ok", "incompatible"} => row # None
        BY <1>0, <4>1 DEF AnswersStand
      <4> QED
        BY <1>4, <4>1, <4>2 DEF AnswersStand
    <3> QED
      BY <3>1, <3>2
  <2> QED
    BY <1>0, <2>1 DEF AnswersStand, Whole
<1>7. ASSUME NEW t \in Clients
      PROVE  Own(t)'
  <2>1. CASE t = c
    BY <1>2, <2>1 DEF Own, Working, Steps
  <2>2. CASE t # c
    <3>1. pc[t] \notin Working /\ Own(t)
      BY <1>0, <2>2, Alone
    <3> QED
      BY <1>2, <2>2, <3>1 DEF Own, Working, Steps, TypeOK
  <2> QED
    BY <2>1, <2>2
<1> QED
  BY <1>5, <1>6, <1>7

LEMMA InductiveStep == IInv /\ [Next]_vars => IInv'
<1> SUFFICES ASSUME IInv, [Next]_vars
             PROVE  IInv'
  OBVIOUS
<1>0. TypeOK /\ TypeOK' /\ UNCHANGED environment
  BY TypeStep DEF IInv, Next, vars, environment
<1>00. ASSUME NEW c \in Clients
       PROVE  Own(c)
  BY DEF IInv
<1> USE <1>0
<1>1. ASSUME NEW c \in Clients, Call(c)
      PROVE  IInv'
  <2>1. Private(c) /\ pc'[c] = "begin" /\ answer'[c] = None
    BY <1>1 DEF Private, Call, Goto, TypeOK, database, environment
  <2>2. created'[c] = {} /\ next'[c] = 1 /\ c \notin stamped'
    BY <1>00, <1>1 DEF Own, Call, At
  <2>3. Own(c)'
    BY <2>1, <2>2 DEF Own, Working
  <2> QED
    BY <2>1, <2>3, PrivateStep, InitAssumption
<1>2. ASSUME NEW c \in Clients, Begin(c)
      PROVE  IInv'
  <2>1. /\ answer[c] = None /\ created[c] = {} /\ next[c] = 1 /\ c \notin stamped
    BY <1>00, <1>2 DEF Own, Begin, At
  <2>2. CASE lock' = lock /\ Moves(c, "lock")
    <3>1. Own(c)'
      BY <2>1, <2>2 DEF Own, Working, Moves, Goto, TypeOK
    <3> QED
      BY <2>1, <2>2, <3>1, MovesStep DEF Steps
  <2>3. CASE lock = None /\ lock' = c /\ Moves(c, "exists")
    <3>1. Own(c)'
      BY <2>1, <2>3 DEF Own, Working, Moves, Goto, TypeOK
    <3> QED
      BY <2>1, <2>3, <3>1, MovesStep, InitAssumption DEF Steps
  <2> QED
    BY <1>2, <2>2, <2>3 DEF Begin
<1>3. ASSUME NEW c \in Clients, Lock(c)
      PROVE  IInv'
  <2>1. /\ answer[c] = None /\ created[c] = {} /\ next[c] = 1 /\ c \notin stamped
    BY <1>00, <1>3 DEF Own, Lock, At
  <2>2. Own(c)'
    BY <1>3, <2>1 DEF Lock, Own, Working, Moves, Goto, TypeOK
  <2> QED
    BY <1>3, <2>1, <2>2, MovesStep, InitAssumption DEF Lock, Steps
<1>4. ASSUME NEW c \in Clients, StorageMetadataExists(c)
      PROVE  IInv'
  <2>1. /\ answer[c] = None /\ created[c] = {} /\ next[c] = 1 /\ c \notin stamped /\ lock = c
    BY <1>00, <1>4 DEF Own, StorageMetadataExists, At, Working, Steps
  <2>2. CASE objects[Meta] # None
    <3>1. Moves(c, "revision") /\ lock' = lock
      BY <1>4, <2>2 DEF StorageMetadataExists
    <3>2. Own(c)'
      BY <2>1, <3>1 DEF Own, Working, Moves, Goto, TypeOK
    <3> QED
      BY <2>1, <3>1, <3>2, MovesStep DEF Steps
  <2>3. CASE objects[Meta] = None
    <3>1. Moves(c, "bootstrap") /\ lock' = lock
      BY <1>4, <2>3 DEF StorageMetadataExists
    <3>2. objects = Whole(None) /\ row = None
      BY <2>3, WholeFacts, InitAssumption DEF IInv, OneRevision, TypeOK
    <3>3. Creates(c)' /\ next[c] \in Objects
      BY <2>1, <3>1, <3>2, InitAssumption DEF Creates, Objects, Moves, database, Whole
    <3>4. Own(c)'
      BY <2>1, <3>1, <3>2, <3>3 DEF Own, Working, Moves, Goto, TypeOK, database
    <3> QED
      BY <2>1, <3>1, <3>4, MovesStep DEF Steps
  <2> QED
    BY <2>2, <2>3
<1>5. ASSUME NEW c \in Clients, RequireStorageRevision(c)
      PROVE  IInv'
  <2>1. /\ answer[c] = None /\ created[c] = {} /\ next[c] = 1 /\ c \notin stamped /\ lock = c
    BY <1>00, <1>5 DEF Own, RequireStorageRevision, At, Working, Steps
  <2>2. CASE row # None /\ ~Compatible(c)
    BY <1>5, <2>2, RollbackStep DEF RequireStorageRevision, Compatible
  <2>3. CASE row # None /\ Compatible(c)
    <3>1. Moves(c, "commit") /\ lock' = lock
      BY <1>5, <2>3 DEF RequireStorageRevision
    <3>2. Own(c)'
      BY <2>1, <2>3, <3>1 DEF Own, Working, Moves, Goto, TypeOK, Compatible, database,
         environment
    <3> QED
      BY <2>1, <3>1, <3>2, MovesStep DEF Steps
  <2>4. CASE row = None
    <3>1. Moves(c, "bootstrap") /\ lock' = lock
      BY <1>5, <2>4 DEF RequireStorageRevision
    <3>2. Creates(c)' /\ next[c] \in Objects
      BY <2>1, <3>1, InitAssumption DEF Creates, Objects, Moves, database, Whole
    <3>3. Own(c)'
      BY <2>1, <2>4, <3>1, <3>2 DEF Own, Working, Moves, Goto, TypeOK, database
    <3> QED
      BY <2>1, <3>1, <3>3, MovesStep DEF Steps
  <2> QED
    BY <2>2, <2>3, <2>4
<1>6. ASSUME NEW c \in Clients, Bootstrap(c)
      PROVE  IInv'
  <2>1. /\ answer[c] = None /\ c \notin stamped /\ lock = c
        /\ row = None /\ Creates(c) /\ next[c] \in Objects
    BY <1>00, <1>6 DEF Own, Bootstrap, At, Working, Steps
  <2>2. Private(c) /\ answer'[c] = None /\ c \notin stamped'
    BY <1>6, <2>1 DEF Private, Bootstrap, Goto, TypeOK
  <2>3. /\ next'[c] = next[c] + 1
        /\ created'[c] = IF objects[next[c]] = None THEN created[c] \cup {next[c]}
                                                    ELSE created[c]
    BY <1>6 DEF Bootstrap, TypeOK
  <2>4. Creates(c)'
    <3>1. CASE objects = Whole(None)
      <4>1. objects[next[c]] = None
        BY <2>1, <3>1 DEF Whole
      <4>2. created'[c] = {i \in Objects : i < next[c] + 1}
        BY <2>1, <2>3, <3>1, <4>1 DEF Creates, Objects
      <4> QED
        BY <1>6, <2>3, <3>1, <4>2 DEF Creates, Bootstrap, database, Whole
    <3>2. CASE objects # Whole(None)
      <4>1. objects = Whole(built[c]) /\ built[c] \in Revisions
        BY <2>1, <3>2 DEF IInv, UnstampedInv, TypeOK
      <4>2. objects[next[c]] # None
        BY <2>1, <4>1, InitAssumption DEF Whole
      <4> QED
        BY <1>6, <2>1, <2>3, <3>2, <4>2 DEF Creates, Bootstrap, database, Whole
    <3> QED
      BY <3>1, <3>2
  <2>5. /\ pc'[c] = IF next[c] = N THEN "upsert" ELSE "bootstrap"
        /\ next'[c] = N + 1 \/ next'[c] \in Objects
        /\ next[c] = N <=> next'[c] = N + 1
    <3>1. pc'[c] = IF next[c] = N THEN "upsert" ELSE "bootstrap"
      BY <1>6 DEF Bootstrap, Goto, TypeOK
    <3>2. ASSUME NEW n \in Objects
          PROVE  (n + 1 = N + 1 \/ n + 1 \in Objects) /\ (n = N <=> n + 1 = N + 1)
      BY InitAssumption DEF Objects
    <3> QED
      BY <2>1, <2>3, <3>1, <3>2
  <2>6. Own(c)'
    BY <1>6, <2>1, <2>2, <2>4, <2>5 DEF Own, Working, Bootstrap, database
  <2> QED
    BY <2>2, <2>6, PrivateStep, InitAssumption
<1>7. ASSUME NEW c \in Clients, Upsert(c)
      PROVE  IInv'
  <2>1. /\ answer[c] = None /\ lock = c /\ row = None /\ Creates(c) /\ next[c] = N + 1
    BY <1>00, <1>7 DEF Own, Upsert, At, Working, Steps
  <2>2. Private(c) /\ answer'[c] = None
    BY <1>7, <2>1 DEF Private, Upsert, Goto, TypeOK
  <2>3. Creates(c)'
    BY <1>7, <2>1 DEF Creates, Upsert, database, Whole
  <2>4. Own(c)'
    BY <1>7, <2>1, <2>3 DEF Own, Working, Upsert, Goto, TypeOK, database
  <2> QED
    BY <2>2, <2>4, PrivateStep, InitAssumption
<1>8. ASSUME NEW c \in Clients, Busy(c) \/ Fail(c)
      PROVE  IInv'
  BY <1>8, RollbackStep DEF Busy, Fail
<1>9. ASSUME NEW c \in Clients, Commit(c)
      PROVE  IInv'
  BY <1>9, CommitStep
<1>10. CASE UNCHANGED vars
  BY <1>10 DEF vars, IInv, TypeOK, OneRevision, AnswersStand, UnstampedInv, Own, Creates, Whole
<1> QED
  BY <1>1, <1>2, <1>3, <1>4, <1>5, <1>6, <1>7, <1>8, <1>9, <1>10 DEF Next, Statement

LEMMA InitInv == Init => IInv
<1> SUFFICES ASSUME Init PROVE IInv
  OBVIOUS
<1>1. TypeOK
  BY InitType
<1>2. OneRevision /\ UnstampedInv
  BY InitAssumption DEF Init, OneRevision, UnstampedInv, TypeOK
<1>3. AnswersStand /\ \A c \in Clients : Own(c)
  BY InitAssumption DEF Init, AnswersStand, Own, Working, Steps
<1> QED
  BY <1>1, <1>2, <1>3 DEF IInv

\* The inductive invariant, of every reachable state.
THEOREM Invariant == Spec => []IInv
BY InitInv, InductiveStep, PTL DEF Spec

\* The database is empty or has the whole schema of one revision, which its row
\* tells, wherever any of the programs dies.
THEOREM SchemaIsWhole == Spec => []OneRevision
<1>1. IInv => OneRevision
  BY DEF IInv
<1> QED
  BY <1>1, Invariant, PTL

\* What Init answered stays true.
THEOREM AnswersAreLasting == Spec => []AnswersStand
<1>1. IInv => AnswersStand
  BY DEF IInv
<1> QED
  BY <1>1, Invariant, PTL

\* No Init replaces a recorded revision.
THEOREM RevisionIsLasting == Spec => RevisionStands
<1>1. ASSUME IInv, [Next]_vars
      PROVE  [row # None => row' = row]_vars
  <2>1. ASSUME NEW c \in Clients, Commit(c), row # None
        PROVE  row' = row
    BY <1>1, <2>1 DEF IInv, Own, Commit
  <2>2. ASSUME NEW c \in Clients, Call(c) \/ Begin(c) \/ Busy(c) \/ Lock(c) \/ Fail(c)
                  \/ StorageMetadataExists(c) \/ RequireStorageRevision(c)
                  \/ Bootstrap(c) \/ Upsert(c)
        PROVE  row' = row
    BY <2>2 DEF Call, Begin, Busy, Lock, Fail, StorageMetadataExists,
       RequireStorageRevision, Bootstrap, Upsert, Moves, Rollback, database
  <2> QED
    BY <1>1, <2>1, <2>2 DEF Next, Statement
<1> QED
  BY <1>1, Invariant, PTL DEF Spec, RevisionStands

-----------------------------------------------------------------------------
(* Why every Init returns: the waits.                                      *)

\* The lock is in the hands of a transaction that is past it, or of nobody.
HolderInv == lock # None => pc[lock] \in Working

LEMMA HolderStep ==
  ASSUME TypeOK, HolderInv, [Next]_vars
  PROVE  HolderInv'
<1>0. None \notin Clients
  BY InitAssumption
<1>1. ASSUME NEW c \in Clients, Call(c)
      PROVE  HolderInv'
  BY <1>1 DEF Call, At, Goto, HolderInv, TypeOK, Working, Steps
<1>2. ASSUME NEW c \in Clients, Begin(c) \/ Lock(c)
      PROVE  HolderInv'
  BY <1>0, <1>2 DEF Begin, Lock, Moves, At, Goto, HolderInv, TypeOK, Working, Steps
<1>3. ASSUME NEW c \in Clients, NEW a, Return(c, a)
      PROVE  HolderInv'
  BY <1>3 DEF Return, Released, Goto, HolderInv, TypeOK
<1>4. ASSUME NEW c \in Clients, NEW s \in Working, Goto(c, s), lock' = lock
      PROVE  HolderInv'
  BY <1>4 DEF Goto, HolderInv, TypeOK
<1>5. {"exists", "revision", "bootstrap", "upsert", "commit"} \subseteq Working
  BY DEF Working, Steps
<1>6. ASSUME NEW c \in Clients, StorageMetadataExists(c) \/ RequireStorageRevision(c)
      PROVE  HolderInv'
  BY <1>3, <1>4, <1>5, <1>6
     DEF StorageMetadataExists, RequireStorageRevision, Moves, Rollback
<1>7. ASSUME NEW c \in Clients, Bootstrap(c) \/ Upsert(c)
      PROVE  HolderInv'
  BY <1>4, <1>5, <1>7 DEF Bootstrap, Upsert
<1>8. ASSUME NEW c \in Clients, Busy(c) \/ Commit(c) \/ Fail(c)
      PROVE  HolderInv'
  BY <1>3, <1>8 DEF Busy, Commit, Fail, Rollback
<1>9. CASE UNCHANGED vars
  BY <1>9 DEF vars, HolderInv
<1> QED
  BY <1>1, <1>2, <1>6, <1>7, <1>8, <1>9 DEF Next, Statement

\* A program that others can wait for is in the middle of a transaction, whose
\* remaining statements wait for nobody.
LEMMA WaitsEndHere ==
  ASSUME IInv, HolderInv
  PROVE  WaitsEnd
<1>1. ASSUME NEW c \in Clients, NEW o \in Clients, WaitsFor(c, o)
      PROVE  pc[c] \in {"begin", "lock"} /\ pc[o] \in Working
  <2>1. CASE pc[c] \in {"begin", "lock"}
    <3>1. lock = o /\ o # None
      BY <1>1, <2>1, InitAssumption DEF WaitsFor, At
    <3> QED
      BY <2>1, <3>1 DEF HolderInv
  <2>2. CASE pc[c] \in {"bootstrap", "upsert"}
    <3>1. o # c /\ (created[o] # {} \/ o \in stamped)
      BY <1>1, <2>2 DEF WaitsFor, At
    <3>2. pc[o] \in {"bootstrap", "upsert", "commit"}
      BY <3>1 DEF IInv, Own
    <3>3. pc[c] \in Working /\ pc[o] \in Working
      BY <2>2, <3>2 DEF Working, Steps
    <3> QED
      BY <3>1, <3>3, Alone
  <2> QED
    BY <1>1, <2>1, <2>2 DEF WaitsFor, At
<1> QED
  BY <1>1 DEF WaitsEnd, At, Working, Steps

\* Who waits, by WaitsFor, is who finds that conjunct of its statement's guard
\* false which speaks of other programs.
LEMMA WaitingIsBeingBlocked ==
  ASSUME TypeOK, NEW c \in Clients
  PROVE  (\E o \in Clients : WaitsFor(c, o)) <=>
           \/ At(c, "begin") /\ dialect = "sqlite" /\ lock # None
           \/ At(c, "lock") /\ lock # None
           \/ At(c, "bootstrap") /\ next[c] \in CreatedByOthers(c)
           \/ At(c, "upsert") /\ ~ stamped \subseteq {c}
<1>1. lock # None <=> \E o \in Clients : lock = o
  BY InitAssumption DEF TypeOK
<1>2. CASE At(c, "begin")
  BY <1>1, <1>2 DEF WaitsFor, At
<1>3. CASE At(c, "lock")
  BY <1>1, <1>3 DEF WaitsFor, At
<1>4. CASE At(c, "bootstrap")
  BY <1>4 DEF WaitsFor, At, CreatedByOthers
<1>5. CASE At(c, "upsert")
  BY <1>5 DEF WaitsFor, At, TypeOK
<1> QED
  BY <1>2, <1>3, <1>4, <1>5 DEF WaitsFor

\* Programs that start together wait for the lock only, and for one that waits
\* for nobody: no interleaving of their CREATEs deadlocks, however many they are.
THEOREM WaitsEndTheorem == Spec => []WaitsEnd
<1>1. Init => HolderInv
  BY DEF Init, HolderInv
<1>2. TypeOK /\ HolderInv /\ [Next]_vars => HolderInv'
  BY HolderStep
<1>3. IInv /\ HolderInv => WaitsEnd
  BY WaitsEndHere
<1> QED
  BY <1>1, <1>2, <1>3, TypeCorrect, Invariant, PTL DEF Spec
=============================================================================
