------------------------- MODULE StorageReadProofs -------------------------
(***************************************************************************)
(* Proofs about StorageRead, for any number of readers, connections,       *)
(* references and saves, any views, and both dialects.                     *)
(***************************************************************************)
EXTENDS StorageRead, BindingProofs

-----------------------------------------------------------------------------
(* The inductive invariant.                                                *)

Reading == {"binding", "size", "locations", "fetch"}
Querying == {"begin", "scope", "list", "commit"}
Outside == {"idle", "refuse", "connect", "done"}

Failures == {"missing", "corrupt", "down"}
Kinds == Reasons \cup {"payload", "record", "rows"}
Values == {None} \cup Digests \cup (SUBSET References) \cup (SUBSET Scopes)

Shape ==
  /\ bindings \subseteq Rows
  /\ registered \in [DOMAIN registered -> Clock]
  /\ DOMAIN registered \subseteq Bound \X References
  /\ content \in [References -> Digests \cup {None}]
  /\ pool \in [Connections -> [tx : BOOLEAN, scopes : SUBSET Scopes]]
  /\ pc \in [Readers -> Outside \cup Reading \cup Querying]
  /\ call \in [Readers -> {None} \cup UNION {Calls[r] : r \in Readers}]
  /\ conn \in [Readers -> {None} \cup Connections]
  /\ references \in [Readers -> SUBSET References]
  /\ seen \in [Readers -> SUBSET Failures]
  /\ answer \in [Readers -> {None} \cup [kind : Kinds, value : Values]]
  /\ witness \in [Readers -> [bound : BOOLEAN, scopes : SUBSET Scopes,
                              registered : SUBSET References, steady : SUBSET References]]

Exclusive == \A q, r \in Readers : conn[q] = conn[r] => q = r \/ conn[r] = None

\* What a reader holds at each of its statements, and what it was asked.
Holds(r) ==
  /\ conn[r] = None <=> pc[r] \in Outside
  /\ pc[r] = "fetch" <=> references[r] # {}
  /\ pc[r] # "fetch" => seen[r] = {}
  /\ pc[r] # "idle" => call[r] \in Calls[r]
  /\ pc[r] \in Reading => call[r].op # "Query"
  /\ pc[r] \in Querying => call[r].op = "Query"
  /\ pc[r] = "refuse" => Malformed(call[r])
  /\ pc[r] \in {"commit", "done"} => answer[r] \in [kind : Kinds, value : Values]

Rightly(r) ==
  /\ answer[r].value \subseteq call[r].scopes
  /\ witness[r].scopes \cap call[r].scopes \subseteq answer[r].value

\* What its statements have established.
Found(r) ==
  /\ pc[r] \in {"size", "locations", "fetch"} => call[r].id \in Bound
  /\ pc[r] \in {"list", "commit"} /\ Dialect = "postgres" =>
       pool[conn[r]].scopes = call[r].scopes
  /\ pc[r] = "commit" => answer[r].kind = "rows" /\ Rightly(r)

\* What was there when it began is there still.
Witnessed(r) ==
  /\ witness[r].bound => call[r].id \in Bound
  /\ witness[r].scopes \subseteq Occupied
  /\ \A f \in witness[r].registered \cup witness[r].steady :
       <<call[r].id, f>> \in DOMAIN registered

\* Each steady reference is still to be tried or has failed, in a way that
\* is remembered and still the case.
Tried(r) ==
  pc[r] = "fetch" =>
    \A f \in witness[r].steady \ references[r] :
      Outcome(call[r].id, content[f]) \in seen[r]

\* The properties, for one reader.
Says(r) ==
  /\ Answered(r, {"payload"}) => answer[r].value = call[r].id.digest
  /\ Answered(r, {"corrupt", "not_found", "unavailable"}) =>
       \A f \in witness[r].steady : content[f] # call[r].id.digest
  /\ Answered(r, {"not_found"}) => \A f \in witness[r].steady : content[f] = None
  /\ Answered(r, {"unavailable"}) => witness[r].steady = {}
  /\ Answered(r, {"binding_not_found"}) => ~ witness[r].bound
  /\ Answered(r, {"record"}) => witness[r].registered \subseteq answer[r].value
  /\ Answered(r, {"rows"}) => Rightly(r)

Good(r) == Holds(r) /\ Found(r) /\ Witnessed(r) /\ Tried(r) /\ Says(r)

IInv == Shape /\ Exclusive /\ PoolIsClean /\ \A r \in Readers : Good(r)

-----------------------------------------------------------------------------
(* The initial states.                                                     *)

LEMMA InitInv == Init => IInv
<1> SUFFICES ASSUME Init PROVE IInv
  OBVIOUS
<1>1. Shape
  BY AbsenceAssumption DEF Init, Shape, Clean, Nothing, Outside, Bound
<1>2. Exclusive /\ PoolIsClean
  BY DEF Init, Exclusive, PoolIsClean
<1>3. \A r \in Readers : Good(r)
  BY DEF Init, Good, Holds, Found, Witnessed, Tried, Says, Answered, At, Nothing, Outside,
         Reading, Querying
<1> QED
  BY <1>1, <1>2, <1>3 DEF IInv

-----------------------------------------------------------------------------
(* The steps of others: what a reader has established stands.              *)

LEMMA SaveInv ==
  ASSUME IInv, NEW q \in Requests, Save(q)
  PROVE  IInv'
<1> DEFINE row == RowOf(q)
           new == ({row.id} \X q.references) \ DOMAIN registered
<1>1. PICK t \in Clock : 
        registered' = [l \in new \cup DOMAIN registered |->
                         IF l \in new THEN t ELSE registered[l]]
  BY DEF Save
<1>2. row \in Rows /\ row.id \in BindingIds /\ new \subseteq {row.id} \X References
  BY SaveAssumption DEF RequestType, RowOf, Rows, BindingIds, identifyBinding
<1>3. /\ bindings' = bindings \cup {row}
      /\ UNCHANGED <<content, pool, reader>>
  BY DEF Save
<1>4. /\ DOMAIN registered' = new \cup DOMAIN registered
      /\ registered' \in [DOMAIN registered' -> Clock]
  <2> HIDE DEF new
  <2> QED
    BY <1>1 DEF IInv, Shape
<1>5. Bound' = Bound \cup {row.id} /\ Occupied \subseteq Occupied'
  BY <1>3 DEF Bound, Occupied
<1>6. Shape'
  <2>1. DOMAIN registered' \subseteq Bound' \X References
    BY <1>2, <1>4, <1>5 DEF IInv, Shape
  <2> QED
    BY <1>2, <1>3, <1>4, <2>1 DEF IInv, Shape, reader
<1>7. Exclusive' /\ PoolIsClean'
  BY <1>3 DEF IInv, Exclusive, PoolIsClean, reader
<1>8. ASSUME NEW r \in Readers PROVE Good(r)'
  <2> USE <1>3, <1>4, <1>5 DEF reader
  <2>1. Holds(r)'
    BY DEF IInv, Good, Holds
  <2>2. Found(r)'
    BY DEF IInv, Good, Found, Rightly
  <2>3. Witnessed(r)'
    BY DEF IInv, Good, Witnessed
  <2>4. Tried(r)'
    BY DEF IInv, Good, Tried, Outcome, Matches
  <2>5. Says(r)'
    BY DEF IInv, Good, Says, Answered, At, Rightly
  <2> QED
    BY <2>1, <2>2, <2>3, <2>4, <2>5 DEF Good
<1> QED
  BY <1>6, <1>7, <1>8 DEF IInv

LEMMA MoveInv ==
  ASSUME IInv, NEW f \in References, NEW b \in Digests \cup {None}, Move(f, b)
  PROVE  IInv'
<1>1. /\ content' = [content EXCEPT ![f] = b]
      /\ UNCHANGED <<bindings, registered, pool, pc, call, conn, references, seen, answer>>
  BY DEF Move
<1>2. \A r \in Readers :
        /\ witness'[r].bound = witness[r].bound
        /\ witness'[r].scopes = witness[r].scopes
        /\ witness'[r].registered = witness[r].registered
        /\ witness'[r].steady = witness[r].steady \ {f}
  BY DEF Move, Unsteady, IInv, Shape
<1>3. /\ Bound' = Bound /\ Occupied' = Occupied
      /\ \A g \in References \ {f} : content'[g] = content[g]
  BY <1>1 DEF Bound, Occupied, IInv, Shape
<1>4. Shape'
  <2>1. witness' \in [Readers -> [bound : BOOLEAN, scopes : SUBSET Scopes,
                                  registered : SUBSET References, steady : SUBSET References]]
    BY DEF Move, Unsteady, IInv, Shape
  <2> QED
    BY <1>1, <1>3, <2>1 DEF IInv, Shape
<1>5. Exclusive' /\ PoolIsClean'
  BY <1>1 DEF IInv, Exclusive, PoolIsClean
<1>6. ASSUME NEW r \in Readers PROVE Good(r)'
  <2> USE <1>1, <1>2, <1>3
  <2>1. Holds(r)'
    BY DEF IInv, Good, Holds
  <2>2. Found(r)'
    BY DEF IInv, Good, Found, Rightly
  <2>3. Witnessed(r)'
    BY DEF IInv, Good, Witnessed
  <2>4. witness[r].steady \subseteq References
    BY DEF IInv, Shape
  <2>5. Tried(r)'
    BY <2>4 DEF IInv, Good, Tried, Outcome, Matches
  <2>6. Says(r)'
    BY <2>4 DEF IInv, Good, Says, Answered, At, Rightly
  <2> QED
    BY <2>1, <2>2, <2>3, <2>5, <2>6 DEF Good
<1> QED
  BY <1>4, <1>5, <1>6 DEF IInv

\* A step of r leaves every other reader, and the connection it holds, alone.
LEMMA Others ==
  ASSUME IInv, NEW r \in Readers, UNCHANGED database,
         \A q \in Readers \ {r} :
           /\ pc'[q] = pc[q] /\ call'[q] = call[q] /\ conn'[q] = conn[q]
           /\ references'[q] = references[q] /\ seen'[q] = seen[q]
           /\ answer'[q] = answer[q] /\ witness'[q] = witness[q]
           /\ conn[q] # None => pool'[conn[q]] = pool[conn[q]]
  PROVE  \A q \in Readers \ {r} : Good(q)'
<1> TAKE q \in Readers \ {r}
<1>1. Bound' = Bound /\ Occupied' = Occupied /\ UNCHANGED <<registered, content>>
  BY DEF database, Bound, Occupied
<1>2. Good(q)
  BY DEF IInv
<1>3. Holds(q)'
  BY <1>1, <1>2 DEF Good, Holds
<1>4. Found(q)'
  <2>1. pc[q] \in {"list", "commit"} => conn[q] # None
    BY <1>2 DEF Good, Holds, Outside
  <2> QED
    BY <1>1, <1>2, <2>1 DEF Good, Found, Rightly
<1>5. Witnessed(q)'
  BY <1>1, <1>2 DEF Good, Witnessed
<1>6. Tried(q)'
  BY <1>1, <1>2 DEF Good, Tried, Outcome, Matches
<1>7. Says(q)'
  BY <1>1, <1>2 DEF Good, Says, Answered, At, Rightly
<1> QED
  BY <1>3, <1>4, <1>5, <1>6, <1>7 DEF Good

-----------------------------------------------------------------------------
(* The steps of a reader.                                                  *)

LEMMA AskInv ==
  ASSUME IInv, NEW r \in Readers, NEW c \in Calls[r], Ask(r, c)
  PROVE  IInv'
<1> USE DEF IInv
<1>1. /\ pc[r] = "idle"
      /\ pc' = [pc EXCEPT ![r] = IF Malformed(c) THEN "refuse" ELSE "connect"]
      /\ call' = [call EXCEPT ![r] = c]
      /\ witness' = [witness EXCEPT ![r] = There(c)]
      /\ UNCHANGED <<database, pool, conn, references, seen, answer>>
  BY DEF Ask, At, Goto
<1>2. UNCHANGED <<bindings, registered, content>> /\ Bound' = Bound /\ Occupied' = Occupied
  BY <1>1 DEF database, Bound, Occupied
<1>3. There(c) \in [bound : BOOLEAN, scopes : SUBSET Scopes,
                    registered : SUBSET References, steady : SUBSET References]
  <2>1. Occupied \subseteq Scopes
    BY DEF Shape, Occupied, Scopes, Bound, Rows, BindingIds
  <2> QED
    BY <2>1 DEF There
<1>4. Shape'
  BY <1>1, <1>2, <1>3 DEF Shape, Outside
<1>5. Exclusive'
  BY <1>1 DEF Exclusive
<1>6. conn[r] = None
  BY <1>1 DEF Good, Holds, Outside
<1>7. PoolIsClean'
  <2> SUFFICES ASSUME NEW k \in Connections, pool[k] # Clean
               PROVE  \E q \in Readers : conn'[q] = k /\ call'[q].op = "Query"
    BY <1>1 DEF PoolIsClean, Clean
  <2>1. PICK q \in Readers : conn[q] = k /\ call[q].op = "Query"
    BY DEF PoolIsClean
  <2>2. q # r
    BY <2>1, <1>6, AbsenceAssumption
  <2> QED
    BY <1>1, <2>1, <2>2 DEF Shape
<1>8. \A q \in Readers \ {r} : Good(q)'
  <2>1. \A q \in Readers \ {r} :
           /\ pc'[q] = pc[q] /\ call'[q] = call[q] /\ conn'[q] = conn[q]
           /\ references'[q] = references[q] /\ seen'[q] = seen[q]
           /\ answer'[q] = answer[q] /\ witness'[q] = witness[q]
           /\ conn[q] # None => pool'[conn[q]] = pool[conn[q]]
    BY <1>1 DEF Shape
  <2> QED
    BY <1>1, <2>1, Others
<1>9. Good(r)'
  <2>1. pc'[r] \in {"refuse", "connect"} /\ call'[r] = c /\ witness'[r] = There(c)
    BY <1>1 DEF Shape
  <2>2. pc'[r] = "refuse" => Malformed(c)
    BY <1>1 DEF Shape
  <2>3. Holds(r)'
    BY <1>1, <2>1, <2>2 DEF Good, Holds, Outside, Reading, Querying
  <2>4. Witnessed(r)'
    <3>1. There(c).bound => c.id \in Bound
      BY DEF There
    <3>2. There(c).scopes \subseteq Occupied
      BY DEF There
    <3>3. \A f \in There(c).registered \cup There(c).steady : <<c.id, f>> \in DOMAIN registered
      BY DEF There
    <3> QED
      BY <1>2, <2>1, <3>1, <3>2, <3>3 DEF Witnessed
  <2>5. Found(r)' /\ Tried(r)' /\ Says(r)'
    BY <2>1 DEF Found, Tried, Says, Answered, At
  <2> QED
    BY <2>3, <2>4, <2>5 DEF Good
<1> QED
  BY <1>4, <1>5, <1>7, <1>8, <1>9

LEMMA HearInv ==
  ASSUME IInv, NEW r \in Readers, Hear(r)
  PROVE  IInv'
<1> USE DEF IInv
<1>1. /\ pc[r] = "done"
      /\ pc' = [pc EXCEPT ![r] = "idle"]
      /\ call' = [call EXCEPT ![r] = None]
      /\ answer' = [answer EXCEPT ![r] = None]
      /\ witness' = [witness EXCEPT ![r] = Nothing]
      /\ UNCHANGED <<database, pool, conn, references, seen>>
  BY DEF Hear, At, Goto
<1>2. UNCHANGED <<bindings, registered, content>> /\ Bound' = Bound /\ Occupied' = Occupied
  BY <1>1 DEF database, Bound, Occupied
<1>4. Shape'
  <2>1. Nothing \in [bound : BOOLEAN, scopes : SUBSET Scopes,
                     registered : SUBSET References, steady : SUBSET References]
    BY DEF Nothing
  <2> QED
    BY <1>1, <1>2, <2>1 DEF Shape, Outside
<1>5. Exclusive'
  BY <1>1 DEF Exclusive
<1>6. conn[r] = None
  BY <1>1 DEF Good, Holds, Outside
<1>7. PoolIsClean'
  <2> SUFFICES ASSUME NEW k \in Connections, pool[k] # Clean
               PROVE  \E q \in Readers : conn'[q] = k /\ call'[q].op = "Query"
    BY <1>1 DEF PoolIsClean, Clean
  <2>1. PICK q \in Readers : conn[q] = k /\ call[q].op = "Query"
    BY DEF PoolIsClean
  <2>2. q # r
    BY <2>1, <1>6, AbsenceAssumption
  <2> QED
    BY <1>1, <2>1, <2>2 DEF Shape
<1>8. \A q \in Readers \ {r} : Good(q)'
  <2>1. \A q \in Readers \ {r} :
           /\ pc'[q] = pc[q] /\ call'[q] = call[q] /\ conn'[q] = conn[q]
           /\ references'[q] = references[q] /\ seen'[q] = seen[q]
           /\ answer'[q] = answer[q] /\ witness'[q] = witness[q]
           /\ conn[q] # None => pool'[conn[q]] = pool[conn[q]]
    BY <1>1 DEF Shape
  <2> QED
    BY <1>1, <2>1, Others
<1>9. Good(r)'
  <2>1. pc'[r] = "idle" /\ witness'[r] = Nothing
    BY <1>1 DEF Shape
  <2>2. Holds(r)'
    BY <1>1, <2>1 DEF Good, Holds, Outside, Reading, Querying
  <2>3. Found(r)' /\ Witnessed(r)' /\ Tried(r)' /\ Says(r)'
    BY <2>1 DEF Found, Witnessed, Tried, Says, Answered, At, Nothing
  <2> QED
    BY <2>2, <2>3 DEF Good
<1> QED
  BY <1>4, <1>5, <1>7, <1>8, <1>9

LEMMA ConnectInv ==
  ASSUME IInv, NEW r \in Readers, Connect(r)
  PROVE  IInv'
<1> USE DEF IInv
<1>1. PICK c \in Free :
        /\ pc[r] = "connect"
        /\ conn' = [conn EXCEPT ![r] = c]
        /\ pc' = [pc EXCEPT ![r] = IF call[r].op = "Query" THEN "begin" ELSE "binding"]
        /\ UNCHANGED <<database, pool, call, references, seen, answer, witness>>
  BY DEF Connect, At, Goto
<1>2. UNCHANGED <<bindings, registered, content>> /\ Bound' = Bound /\ Occupied' = Occupied
  BY <1>1 DEF database, Bound, Occupied
<1>3. c \in Connections /\ c # None /\ \A q \in Readers : conn[q] # c
  BY AbsenceAssumption DEF Free
<1>4. Shape'
  BY <1>1, <1>2, <1>3 DEF Shape, Reading, Querying
<1>5. Exclusive'
  BY <1>1, <1>3 DEF Exclusive, Shape
<1>6. conn[r] = None
  BY <1>1 DEF Good, Holds, Outside
<1>7. PoolIsClean'
  <2> SUFFICES ASSUME NEW k \in Connections, pool[k] # Clean
               PROVE  \E q \in Readers : conn'[q] = k /\ call'[q].op = "Query"
    BY <1>1 DEF PoolIsClean, Clean
  <2>1. PICK q \in Readers : conn[q] = k /\ call[q].op = "Query"
    BY DEF PoolIsClean
  <2>2. q # r
    BY <2>1, <1>6, AbsenceAssumption
  <2> QED
    BY <1>1, <2>1, <2>2 DEF Shape
<1>8. \A q \in Readers \ {r} : Good(q)'
  <2>1. \A q \in Readers \ {r} :
           /\ pc'[q] = pc[q] /\ call'[q] = call[q] /\ conn'[q] = conn[q]
           /\ references'[q] = references[q] /\ seen'[q] = seen[q]
           /\ answer'[q] = answer[q] /\ witness'[q] = witness[q]
           /\ conn[q] # None => pool'[conn[q]] = pool[conn[q]]
    BY <1>1 DEF Shape
  <2> QED
    BY <1>1, <2>1, Others
<1>9. Good(r)'
  <2>1. /\ pc'[r] \in {"begin", "binding"} /\ conn'[r] = c
        /\ pc'[r] = "begin" <=> call[r].op = "Query"
    BY <1>1 DEF Shape
  <2>2. Holds(r)'
    BY <1>1, <1>3, <2>1 DEF Good, Holds, Outside, Reading, Querying
  <2>3. Witnessed(r)'
    BY <1>1, <1>2 DEF Good, Witnessed
  <2>4. Found(r)' /\ Tried(r)' /\ Says(r)'
    BY <2>1 DEF Found, Tried, Says, Answered, At
  <2> QED
    BY <2>2, <2>3, <2>4 DEF Good
<1> QED
  BY <1>4, <1>5, <1>7, <1>8, <1>9

\* A step of r changes only what is r's, and leaves the connection it gives
\* back, or has no transaction on, clean.
Alone(r) ==
  /\ UNCHANGED <<database, call>>
  /\ \A q \in Readers \ {r} :
       /\ pc'[q] = pc[q] /\ conn'[q] = conn[q]
       /\ references'[q] = references[q] /\ seen'[q] = seen[q]
       /\ answer'[q] = answer[q] /\ witness'[q] = witness[q]
  /\ conn'[r] \in {conn[r], None}
  /\ \A c \in Connections : c # conn[r] => pool'[c] = pool[c]
  /\ conn[r] # None /\ (conn'[r] = None \/ call[r].op # "Query") => pool'[conn[r]] = Clean

LEMMA AloneInv ==
  ASSUME IInv, NEW r \in Readers, Alone(r), Shape', Good(r)'
  PROVE  IInv'
<1> USE DEF IInv
<1>1. Exclusive'
  BY DEF Exclusive, Alone
<1>2. PoolIsClean'
  <2> SUFFICES ASSUME NEW k \in Connections, pool'[k] # Clean
               PROVE  \E q \in Readers : conn'[q] = k /\ call'[q].op = "Query"
    BY DEF PoolIsClean, Clean
  <2>1. CASE k = conn[r]
    BY <2>1, AbsenceAssumption DEF Alone
  <2>2. CASE k # conn[r]
    <3>1. PICK q \in Readers : conn[q] = k /\ call[q].op = "Query"
      BY <2>2 DEF PoolIsClean, Alone
    <3> QED
      BY <2>2, <3>1 DEF Alone
  <2> QED
    BY <2>1, <2>2
<1>3. \A q \in Readers \ {r} : Good(q)'
  <2>1. \A q \in Readers \ {r} : conn[q] # None => pool'[conn[q]] = pool[conn[q]]
    BY DEF Exclusive, Alone, Shape
  <2>2. \A q \in Readers \ {r} : call'[q] = call[q]
    BY DEF Alone
  <2> QED
    BY <2>1, <2>2, Others DEF Alone
<1> QED
  BY <1>1, <1>2, <1>3

\* A read that is not a query finds its connection clean.
LEMMA CleanToRead ==
  ASSUME IInv, NEW r \in Readers, conn[r] # None, call[r].op # "Query"
  PROVE  pool[conn[r]] = Clean
<1>1. conn[r] \in Connections
  BY DEF IInv, Shape
<1>2. \A q \in Readers : conn[q] = conn[r] => q = r
  BY DEF IInv, Exclusive
<1> QED
  BY <1>1, <1>2 DEF IInv, PoolIsClean

\* The next statement, with nothing to remember.
LEMMA GotoInv ==
  ASSUME IInv, NEW r \in Readers, NEW s \in {"size", "locations", "scope", "list"},
         Continue(r, s), UNCHANGED witness,
         pool' \in [Connections -> [tx : BOOLEAN, scopes : SUBSET Scopes]],
         \A c \in Connections : c # conn[r] => pool'[c] = pool[c],
         call[r].op # "Query" => pool' = pool,
         pc[r] \in (Reading \cup Querying) \ {"fetch"},
         pc[r] \in Reading <=> s \in Reading, Found(r)'
  PROVE  IInv'
<1> USE DEF IInv
<1>1. /\ pc' = [pc EXCEPT ![r] = s]
      /\ UNCHANGED <<database, call, conn, references, seen, answer>>
      /\ UNCHANGED <<bindings, registered, content>> /\ Bound' = Bound /\ Occupied' = Occupied
  BY DEF Continue, Goto, database, Bound, Occupied
<1>2. pc'[r] = s
  BY <1>1 DEF Shape
<1>3. conn[r] # None
  BY DEF Good, Holds, Outside, Reading, Querying
<1>4. Shape'
  BY <1>1 DEF Shape, Reading, Querying
<1>5. Alone(r)
  BY <1>1, <1>3, CleanToRead DEF Alone, Shape
<1>6. Good(r)'
  <2>1. Holds(r)'
    BY <1>1, <1>2, <1>3 DEF Good, Holds, Outside, Reading, Querying
  <2>2. Witnessed(r)'
    BY <1>1 DEF Good, Witnessed
  <2>3. Tried(r)' /\ Says(r)'
    BY <1>2 DEF Tried, Says, Answered, At
  <2> QED
    BY <2>1, <2>2, <2>3 DEF Good
<1> QED
  BY <1>4, <1>5, <1>6, AloneInv

\* A store that was out of reach once is no longer steady.
Weaker(r) ==
  \/ UNCHANGED witness
  \/ \E f \in References : witness' = [witness EXCEPT ![r] = Unsteady(r, f)]

LEMMA WeakerWitness ==
  ASSUME Shape, NEW r \in Readers, Weaker(r)
  PROVE  /\ witness' \in [Readers -> [bound : BOOLEAN, scopes : SUBSET Scopes,
                                      registered : SUBSET References, steady : SUBSET References]]
         /\ \A q \in Readers \ {r} : witness'[q] = witness[q]
         /\ witness'[r].bound = witness[r].bound
         /\ witness'[r].scopes = witness[r].scopes
         /\ witness'[r].registered = witness[r].registered
         /\ witness'[r].steady \subseteq witness[r].steady
  BY DEF Shape, Weaker, Unsteady

\* The end of a call.
LEMMA ReturnInv ==
  ASSUME IInv, NEW r \in Readers, NEW kind \in Kinds, NEW value \in Values,
         Return(r, kind, value), pc[r] \notin {"idle", "done"}, Weaker(r),
         \/ pool' = pool /\ call[r].op # "Query"
         \/ pool' = pool /\ conn[r] = None
         \/ pool' = [pool EXCEPT ![conn[r]] = Clean] /\ conn[r] # None,
         Says(r)'
  PROVE  IInv'
<1> USE DEF IInv
<1>1. /\ pc' = [pc EXCEPT ![r] = "done"]
      /\ answer' = [answer EXCEPT ![r] = [kind |-> kind, value |-> value]]
      /\ references' = [references EXCEPT ![r] = {}]
      /\ seen' = [seen EXCEPT ![r] = {}]
      /\ conn' = [conn EXCEPT ![r] = None]
      /\ UNCHANGED <<database, call>>
      /\ UNCHANGED <<bindings, registered, content>> /\ Bound' = Bound /\ Occupied' = Occupied
  BY DEF Return, Answer, Goto, database, Bound, Occupied
<1>2. pc'[r] = "done" /\ conn'[r] = None /\ answer'[r] = [kind |-> kind, value |-> value]
  BY <1>1 DEF Shape
<1>3. answer'[r] \in [kind : Kinds, value : Values]
  BY <1>2
<1>4. Shape'
  <2>1. pool' \in [Connections -> [tx : BOOLEAN, scopes : SUBSET Scopes]]
    <3>1. Clean \in [tx : BOOLEAN, scopes : SUBSET Scopes]
      BY DEF Clean
    <3>2. CASE pool' = pool
      BY <3>2 DEF Shape
    <3>3. CASE pool' = [pool EXCEPT ![conn[r]] = Clean]
      BY <3>1, <3>3 DEF Shape
    <3> QED
      BY <3>2, <3>3
  <2>2. pc' \in [Readers -> Outside \cup Reading \cup Querying]
    BY <1>1 DEF Shape, Outside
  <2>3. answer' \in [Readers -> {None} \cup [kind : Kinds, value : Values]]
    BY <1>1 DEF Shape
  <2> QED
    BY <1>1, <2>1, <2>2, <2>3, WeakerWitness DEF Shape
<1>5. Alone(r)
  <2>1. conn[r] # None => pool'[conn[r]] = Clean
    BY CleanToRead DEF Shape
  <2>2. \A c \in Connections : c # conn[r] => pool'[c] = pool[c]
    BY DEF Shape
  <2> QED
    BY <1>1, <1>2, <2>1, <2>2, WeakerWitness DEF Alone, Shape
<1>6. Good(r)'
  <2>1. references'[r] = {} /\ seen'[r] = {}
    BY <1>1 DEF Shape
  <2>2. Holds(r)'
    BY <1>1, <1>2, <1>3, <2>1 DEF Good, Holds, Outside, Reading, Querying
  <2>3. Witnessed(r)'
    BY <1>1, WeakerWitness DEF Good, Witnessed
  <2>4. Found(r)' /\ Tried(r)'
    BY <1>2 DEF Found, Tried
  <2> QED
    BY <2>2, <2>3, <2>4 DEF Good
<1> QED
  BY <1>4, <1>5, <1>6, AloneInv

-----------------------------------------------------------------------------
(* Each statement of a reader.                                             *)

LEMMA RefuseInputInv ==
  ASSUME IInv, NEW r \in Readers, RefuseInput(r)
  PROVE  IInv'
<1> DEFINE reason == IF call[r].op = "Query" THEN "scope_required" ELSE "binding_not_found"
<1>1. /\ pc[r] = "refuse" /\ Return(r, reason, None)
      /\ UNCHANGED <<pool, witness>>
  BY DEF RefuseInput, Refuse, At
<1>2. conn[r] = None
  BY <1>1 DEF IInv, Good, Holds, Outside
<1>3. call[r].op # "Query" => ~ witness[r].bound
  <2>1. Bound \subseteq BindingIds
    BY DEF IInv, Shape, Bound, Rows
  <2>2. Malformed(call[r]) /\ Witnessed(r)
    BY <1>1 DEF IInv, Good, Holds
  <2> QED
    BY <2>1, <2>2 DEF Malformed, Witnessed
<1>4. reason \in Kinds /\ reason \in {"scope_required", "binding_not_found"}
  BY DEF Kinds, Reasons
<1>5. Says(r)'
  <2>1. answer'[r].kind = reason /\ witness' = witness
    BY <1>1 DEF Return, Answer, IInv, Shape
  <2> QED
    BY <1>3, <2>1 DEF Says, Answered
<1> HIDE DEF reason
<1> QED
  BY <1>1, <1>2, <1>4, <1>5, ReturnInv DEF Weaker, Values

LEMMA ConnectFailsInv ==
  ASSUME IInv, NEW r \in Readers, ConnectFails(r)
  PROVE  IInv'
<1>1. pc[r] = "connect" /\ Return(r, "error", None) /\ UNCHANGED <<pool, witness>>
  BY DEF ConnectFails, Refuse, At
<1>2. conn[r] = None
  BY <1>1 DEF IInv, Good, Holds, Outside
<1>3. Says(r)'
  <2>1. answer'[r].kind = "error"
    BY <1>1 DEF Return, Answer, IInv, Shape
  <2> QED
    BY <2>1 DEF Says, Answered
<1> QED
  BY <1>1, <1>2, <1>3, ReturnInv DEF Weaker, Kinds, Reasons, Values

LEMMA FailInv ==
  ASSUME IInv, NEW r \in Readers, Fail(r)
  PROVE  IInv'
<1>1. /\ pc[r] \in {"binding", "size", "locations", "begin", "scope", "list", "commit"}
      /\ Return(r, "error", None)
      /\ pool' = [pool EXCEPT ![conn[r]] = Clean]
      /\ UNCHANGED witness
  BY DEF Fail, Refuse, rollbackUnlessCommitted
<1>2. conn[r] # None
  BY <1>1 DEF IInv, Good, Holds, Outside
<1>3. Says(r)'
  <2>1. answer'[r].kind = "error"
    BY <1>1 DEF Return, Answer, IInv, Shape
  <2> QED
    BY <2>1 DEF Says, Answered
<1> QED
  BY <1>1, <1>2, <1>3, ReturnInv DEF Weaker, Kinds, Reasons, Values

LEMMA getBindingInv ==
  ASSUME IInv, NEW r \in Readers, getBinding(r)
  PROVE  IInv'
<1>1. /\ pc[r] = "binding"
      /\ IF call[r].id \in Bound THEN Continue(r, "size")
                                 ELSE Return(r, "binding_not_found", None)
      /\ UNCHANGED <<pool, witness>>
  BY DEF getBinding, Refuse, At
<1>2. call[r].op # "Query"
  BY <1>1 DEF IInv, Good, Holds, Reading
<1>3. CASE call[r].id \in Bound
  <2>1. Continue(r, "size")
    BY <1>1, <1>3
  <2>2. pc'[r] = "size" /\ UNCHANGED <<bindings, call>>
    BY <2>1 DEF Continue, Goto, IInv, Shape, database
  <2>3. Found(r)'
    BY <1>3, <2>2 DEF Found, Bound
  <2> QED
    BY <1>1, <1>2, <2>1, <2>3, GotoInv DEF Reading, Querying, IInv, Shape
<1>4. CASE call[r].id \notin Bound
  <2>1. Return(r, "binding_not_found", None)
    BY <1>1, <1>4
  <2>2. answer'[r].kind = "binding_not_found" /\ ~ witness'[r].bound
    BY <1>1, <1>4, <2>1 DEF Return, Answer, IInv, Shape, Good, Witnessed
  <2>3. Says(r)'
    BY <2>2 DEF Says, Answered
  <2> QED
    BY <1>1, <1>2, <2>1, <2>3, ReturnInv DEF Weaker, Kinds, Reasons, Values
<1> QED
  BY <1>3, <1>4

LEMMA artifactEvidenceSizeGetInv ==
  ASSUME IInv, NEW r \in Readers, artifactEvidenceSizeGet(r)
  PROVE  IInv'
<1>1. /\ pc[r] = "size" /\ UNCHANGED <<pool, witness>>
      /\ call[r].id.digest \in evidence => Continue(r, "locations")
      /\ call[r].id.digest \notin evidence => Return(r, "not_found", None)
  BY DEF artifactEvidenceSizeGet, Refuse, At
<1>2. call[r].op # "Query" /\ call[r].id \in Bound
  BY <1>1 DEF IInv, Good, Holds, Found, Reading
<1>3. Continue(r, "locations")
  BY <1>1, <1>2 DEF evidence
<1>4. pc'[r] = "locations" /\ UNCHANGED <<bindings, call>>
  BY <1>3 DEF Continue, Goto, IInv, Shape, database
<1>5. Found(r)'
  BY <1>2, <1>4 DEF Found, Bound
<1> QED
  BY <1>1, <1>2, <1>3, <1>5, GotoInv DEF Reading, Querying, IInv, Shape

LEMMA BeginInv ==
  ASSUME IInv, NEW r \in Readers, Begin(r)
  PROVE  IInv'
<1> DEFINE s == IF Dialect = "postgres" THEN "scope" ELSE "list"
<1>1. /\ pc[r] = "begin" /\ Continue(r, s) /\ UNCHANGED witness
      /\ pool' = [pool EXCEPT ![conn[r]].tx = TRUE]
  BY DEF Begin, At
<1>2. call[r].op = "Query"
  BY <1>1 DEF IInv, Good, Holds, Querying
<1>3. pc'[r] = s
  BY <1>1 DEF Continue, Goto, IInv, Shape
<1>4. Found(r)'
  BY <1>3 DEF Found
<1>5. pool' \in [Connections -> [tx : BOOLEAN, scopes : SUBSET Scopes]]
  <2>1. \A p \in [tx : BOOLEAN, scopes : SUBSET Scopes] :
          [p EXCEPT !.tx = TRUE] \in [tx : BOOLEAN, scopes : SUBSET Scopes]
    OBVIOUS
  <2> QED
    BY <1>1, <2>1 DEF IInv, Shape
<1> QED
  BY <1>1, <1>2, <1>4, <1>5, GotoInv DEF Reading, Querying, IInv, Shape

LEMMA scopeSetInv ==
  ASSUME IInv, NEW r \in Readers, scopeSet(r)
  PROVE  IInv'
<1>1. /\ pc[r] = "scope" /\ Continue(r, "list") /\ UNCHANGED witness
      /\ pool' = [pool EXCEPT ![conn[r]].scopes = call[r].scopes]
  BY DEF scopeSet, At
<1>2. call[r].op = "Query" /\ call[r] \in Calls[r] /\ conn[r] \in Connections
  BY <1>1 DEF IInv, Good, Holds, Querying, Shape, Outside
<1>3. call[r].scopes \subseteq Scopes
  BY <1>2, CallAssumption DEF Scopes
<1>4. pool' \in [Connections -> [tx : BOOLEAN, scopes : SUBSET Scopes]]
  <2>1. \A p \in [tx : BOOLEAN, scopes : SUBSET Scopes] :
          [p EXCEPT !.scopes = call[r].scopes] \in [tx : BOOLEAN, scopes : SUBSET Scopes]
    BY <1>3
  <2> QED
    BY <1>1, <2>1 DEF IInv, Shape
<1>5. Found(r)'
  <2>1. pc'[r] = "list" /\ call' = call /\ conn' = conn
    BY <1>1 DEF Continue, Goto, IInv, Shape
  <2>2. pool'[conn[r]].scopes = call[r].scopes
    BY <1>1, <1>2 DEF IInv, Shape
  <2> QED
    BY <2>1, <2>2 DEF Found
<1> QED
  BY <1>1, <1>2, <1>4, <1>5, GotoInv DEF Reading, Querying, IInv, Shape

LEMMA locationsInv ==
  ASSUME IInv, NEW r \in Readers, locations(r)
  PROVE  IInv'
<1> USE DEF IInv
<1> DEFINE found == artifactLocationGet(call[r].id)
<1>1. /\ pc[r] = "locations" /\ UNCHANGED <<pool, witness>>
      /\ \/ call[r].op = "GetBinding" /\ Return(r, "record", found)
         \/ \E reason \in {"type_mismatch", "no_resolver"} : Return(r, reason, None)
         \/ call[r].op # "GetBinding" /\ found = {} /\ Return(r, "not_found", None)
         \/ /\ found # {}
            /\ pc' = [pc EXCEPT ![r] = "fetch"]
            /\ references' = [references EXCEPT ![r] = found]
            /\ UNCHANGED <<database, call, conn, seen, answer>>
  BY DEF locations, Refuse, At, Goto
<1>2. call[r].op # "Query" /\ call[r].id \in Bound /\ conn[r] # None /\ seen[r] = {}
  BY <1>1 DEF Good, Holds, Found, Reading, Outside
<1>3. found \subseteq References /\ witness[r].registered \cup witness[r].steady \subseteq found
  BY DEF Good, Witnessed, artifactLocationGet, Shape
<1>4. CASE Return(r, "record", found)
  <2>1. /\ answer'[r].kind = "record" /\ answer'[r].value = found
        /\ witness'[r].registered \subseteq found
    BY <1>1, <1>3, <1>4 DEF Return, Answer, Shape
  <2>2. Says(r)'
    BY <2>1 DEF Says, Answered
  <2>3. found \in Values
    BY <1>3 DEF Values
  <2> HIDE DEF found
  <2> QED
    BY <1>1, <1>2, <1>4, <2>2, <2>3, ReturnInv DEF Weaker, Kinds
<1>5. ASSUME NEW reason \in {"type_mismatch", "no_resolver"}, Return(r, reason, None)
      PROVE  IInv'
  <2>1. answer'[r].kind = reason
    BY <1>5 DEF Return, Answer, Shape
  <2>2. Says(r)'
    BY <2>1 DEF Says, Answered
  <2> QED
    BY <1>1, <1>2, <1>5, <2>2, ReturnInv DEF Weaker, Kinds, Reasons, Values
<1>6. CASE found = {} /\ Return(r, "not_found", None)
  <2>1. answer'[r].kind = "not_found" /\ witness'[r].steady = {}
    BY <1>1, <1>3, <1>6 DEF Return, Answer, Shape
  <2>2. Says(r)'
    BY <2>1 DEF Says, Answered
  <2> QED
    BY <1>1, <1>2, <1>6, <2>2, ReturnInv DEF Weaker, Kinds, Reasons, Values
<1>7. CASE /\ found # {}
           /\ pc' = [pc EXCEPT ![r] = "fetch"]
           /\ references' = [references EXCEPT ![r] = found]
           /\ UNCHANGED <<database, call, conn, seen, answer>>
  <2>1. /\ pc'[r] = "fetch" /\ references'[r] = found
        /\ UNCHANGED <<bindings, registered, content>> /\ Bound' = Bound
    BY <1>7 DEF Shape, database, Bound
  <2>2. Shape'
    <3>1. pc' \in [Readers -> Outside \cup Reading \cup Querying]
      BY <1>7 DEF Shape, Reading
    <3>2. references' \in [Readers -> SUBSET References]
      BY <1>3, <1>7 DEF Shape
    <3> QED
      BY <1>1, <1>7, <2>1, <3>1, <3>2 DEF Shape
  <2>3. Alone(r)
    BY <1>1, <1>2, <1>7, CleanToRead DEF Alone, Shape
  <2>4. Holds(r)'
    BY <1>1, <1>2, <1>7, <2>1 DEF Good, Holds, Outside, Reading, Querying
  <2>5. Found(r)'
    BY <1>2, <1>7, <2>1 DEF Found
  <2>6. Witnessed(r)'
    BY <1>1, <1>7, <2>1 DEF Good, Witnessed, Occupied
  <2>7. Tried(r)' /\ Says(r)'
    BY <1>1, <1>3, <2>1 DEF Tried, Says, Answered, At
  <2> QED
    BY <2>2, <2>3, <2>4, <2>5, <2>6, <2>7, AloneInv DEF Good
<1> QED
  BY <1>1, <1>4, <1>5, <1>6, <1>7

\* What the bytes at a reference are to the reader of a binding.
LEMMA OutcomeOf ==
  ASSUME NEW id \in BindingIds, NEW b \in Digests \cup {None}
  PROVE  /\ Outcome(id, b) \in Failures \cup {"match"}
         /\ Outcome(id, b) = "match" <=> b = id.digest
         /\ Outcome(id, b) = "missing" <=> b = None
         /\ Outcome(id, b) # "down"
  BY AbsenceAssumption DEF Outcome, Matches, Failures, BindingIds

\* Failing at one reference: the next, or the reason that tells most.
LEMMA FailedInv ==
  ASSUME IInv, NEW r \in Readers, pc[r] = "fetch", NEW f \in references[r],
         NEW how \in Failures, Failed(r, f, how), UNCHANGED pool, Weaker(r),
         \A g \in witness'[r].steady \ (references[r] \ {f}) :
           Outcome(call[r].id, content[g]) \in seen[r] \cup {how}
  PROVE  IInv'
<1> USE DEF IInv
<1>1. /\ conn[r] # None /\ call[r].op # "Query" /\ call[r].id \in Bound
      /\ call[r].id \in BindingIds
  BY DEF Good, Holds, Found, Reading, Outside, Shape, Bound, Rows
<1>2. CASE references[r] = {f}
  <2> DEFINE failures == seen[r] \cup {how}
  <2>1. Return(r, Failure(failures), None)
    BY <1>2 DEF Failed, Refuse
  <2>2. \A g \in witness'[r].steady : Outcome(call[r].id, content[g]) \in failures
    BY <1>2
  <2>3. "match" \notin failures
    BY DEF Shape, Failures
  <2>4. /\ answer'[r].kind = Failure(failures) /\ call' = call /\ content' = content
        /\ witness'[r].steady \subseteq References
    BY <2>1, WeakerWitness DEF Return, Answer, Shape, database
  <2> HIDE DEF failures
  <2>5. Failure(failures) \in {"corrupt", "not_found", "unavailable"}
    BY DEF Failure
  <2>6. \A g \in witness'[r].steady : content[g] # call[r].id.digest
    BY <1>1, <2>2, <2>3, <2>4, OutcomeOf DEF Shape
  <2>7. Failure(failures) = "not_found" => \A g \in witness'[r].steady : content[g] = None
    BY <1>1, <2>2, <2>3, <2>4, OutcomeOf DEF Shape, Failure, Failures
  <2>8. Failure(failures) = "unavailable" => witness'[r].steady = {}
    <3> SUFFICES ASSUME NEW g \in witness'[r].steady
                 PROVE  "missing" \in failures \/ "corrupt" \in failures
      BY DEF Failure
    <3>1. Outcome(call[r].id, content[g]) \in {"missing", "corrupt", "match"}
      BY <1>1, <2>4, OutcomeOf DEF Shape, Failures
    <3> QED
      BY <3>1, <2>2, <2>3
  <2>9. Says(r)'
    BY <2>4, <2>5, <2>6, <2>7, <2>8 DEF Says, Answered
  <2> QED
    BY <1>1, <2>1, <2>5, <2>9, ReturnInv DEF Kinds, Reasons, Values
<1>3. CASE references[r] # {f}
  <2>1. /\ references' = [references EXCEPT ![r] = @ \ {f}]
        /\ seen' = [seen EXCEPT ![r] = @ \cup {how}]
        /\ UNCHANGED <<database, pc, call, conn, answer>>
    BY <1>3 DEF Failed
  <2>2. /\ references'[r] = references[r] \ {f} /\ seen'[r] = seen[r] \cup {how}
        /\ UNCHANGED <<bindings, registered, content>> /\ Bound' = Bound /\ Occupied' = Occupied
    BY <2>1 DEF Shape, database, Bound, Occupied
  <2>3. Shape'
    BY <2>1, <2>2, WeakerWitness DEF Shape
  <2>4. Alone(r)
    BY <1>1, <2>1, CleanToRead, WeakerWitness DEF Alone, Shape
  <2>5. Holds(r)'
    BY <1>1, <1>3, <2>1, <2>2 DEF Good, Holds
  <2>6. Found(r)'
    BY <2>1, <2>2 DEF Good, Found
  <2>7. Witnessed(r)'
    BY <2>1, <2>2, WeakerWitness DEF Good, Witnessed
  <2>8. Tried(r)'
    BY <2>1, <2>2 DEF Tried, Outcome, Matches
  <2>9. Says(r)'
    BY <2>1 DEF Says, Answered, At
  <2> QED
    BY <2>3, <2>4, <2>5, <2>6, <2>7, <2>8, <2>9, AloneInv DEF Good
<1> QED
  BY <1>2, <1>3

LEMMA FetchInv ==
  ASSUME IInv, NEW r \in Readers, Fetch(r)
  PROVE  IInv'
<1> USE DEF IInv
<1>1. pc[r] = "fetch" /\ UNCHANGED pool
  BY DEF Fetch, At
<1>2. PICK f \in references[r] :
        \/ /\ IF Outcome(call[r].id, content[f]) = "match" THEN Return(r, "payload", content[f])
              ELSE Failed(r, f, Outcome(call[r].id, content[f]))
           /\ UNCHANGED witness
        \/ /\ Failed(r, f, "down")
           /\ witness' = [witness EXCEPT ![r] = Unsteady(r, f)]
  BY DEF Fetch
<1>3. /\ call[r].op # "Query" /\ call[r].id \in BindingIds
      /\ f \in References /\ content[f] \in Digests \cup {None}
  BY <1>1 DEF Good, Holds, Found, Reading, Shape, Bound, Rows
<1> DEFINE outcome == Outcome(call[r].id, content[f])
<1>4. \A g \in witness[r].steady \ references[r] :
        Outcome(call[r].id, content[g]) \in seen[r]
  BY <1>1 DEF Good, Tried
<1>5. CASE outcome = "match" /\ Return(r, "payload", content[f]) /\ UNCHANGED witness
  <2>1. content[f] = call[r].id.digest /\ content[f] \in Values
    BY <1>3, <1>5, OutcomeOf DEF Values
  <2>2. answer'[r].kind = "payload" /\ answer'[r].value = content[f] /\ call' = call
    BY <1>5 DEF Return, Answer, Shape
  <2>3. Says(r)'
    BY <2>1, <2>2 DEF Says, Answered
  <2> QED
    BY <1>1, <1>3, <1>5, <2>1, <2>3, ReturnInv DEF Weaker, Kinds
<1>6. CASE outcome # "match" /\ Failed(r, f, outcome) /\ UNCHANGED witness
  <2>1. outcome \in Failures
    BY <1>3, <1>6, OutcomeOf
  <2>2. \A g \in witness'[r].steady \ (references[r] \ {f}) :
          Outcome(call[r].id, content[g]) \in seen[r] \cup {outcome}
    BY <1>4, <1>6
  <2> HIDE DEF outcome
  <2> QED
    BY <1>1, <1>6, <2>1, <2>2, FailedInv DEF Weaker
<1>7. CASE Failed(r, f, "down") /\ witness' = [witness EXCEPT ![r] = Unsteady(r, f)]
  <2>1. witness'[r].steady = witness[r].steady \ {f}
    BY <1>7 DEF Shape, Unsteady
  <2>2. \A g \in witness'[r].steady \ (references[r] \ {f}) :
          Outcome(call[r].id, content[g]) \in seen[r] \cup {"down"}
    BY <1>4, <2>1
  <2> QED
    BY <1>1, <1>3, <1>7, <2>2, FailedInv DEF Weaker, Failures
<1> QED
  BY <1>2, <1>5, <1>6, <1>7

LEMMA ListAndScanInv ==
  ASSUME IInv, NEW r \in Readers, ListAndScan(r)
  PROVE  IInv'
<1> USE DEF IInv
<1>1. /\ pc[r] = "list" /\ UNCHANGED witness
      /\ \/ /\ pc' = [pc EXCEPT ![r] = "commit"]
            /\ answer' = [answer EXCEPT ![r] = [kind |-> "rows", value |-> RowsFor(r)]]
            /\ UNCHANGED <<database, pool, call, conn, references, seen>>
         \/ Return(r, "scan_error", None) /\ pool' = [pool EXCEPT ![conn[r]] = Clean]
  BY DEF ListAndScan, At, Goto, Refuse, rollbackUnlessCommitted
<1>2. conn[r] # None /\ call[r].op = "Query" /\ call[r] \in Calls[r]
  BY <1>1 DEF Good, Holds, Outside, Querying
<1>3. CASE Return(r, "scan_error", None) /\ pool' = [pool EXCEPT ![conn[r]] = Clean]
  <2>1. answer'[r].kind = "scan_error"
    BY <1>3 DEF Return, Answer, Shape
  <2>2. Says(r)'
    BY <2>1 DEF Says, Answered
  <2> QED
    BY <1>1, <1>2, <1>3, <2>2, ReturnInv DEF Weaker, Kinds, Reasons, Values
<1>4. CASE /\ pc' = [pc EXCEPT ![r] = "commit"]
           /\ answer' = [answer EXCEPT ![r] = [kind |-> "rows", value |-> RowsFor(r)]]
           /\ UNCHANGED <<database, pool, call, conn, references, seen>>
  <2>1. Occupied \subseteq Scopes
    BY DEF Shape, Occupied, Scopes, Bound, Rows, BindingIds
  <2>2. RowsFor(r) = Occupied \cap call[r].scopes
    BY <1>1, <2>1 DEF RowsFor, Visible, Good, Found
  <2>3. RowsFor(r) \in Values
    <3>1. RowsFor(r) \in SUBSET Scopes
      BY <2>1, <2>2
    <3> QED
      BY <3>1 DEF Values
  <2>4. /\ pc'[r] = "commit" /\ answer'[r] = [kind |-> "rows", value |-> RowsFor(r)]
        /\ UNCHANGED <<bindings, registered, content>> /\ Bound' = Bound /\ Occupied' = Occupied
    BY <1>4 DEF Shape, database, Bound, Occupied
  <2>5. Shape'
    <3>1. pc' \in [Readers -> Outside \cup Reading \cup Querying]
      BY <1>4 DEF Shape, Querying
    <3>2. answer' \in [Readers -> {None} \cup [kind : Kinds, value : Values]]
      BY <1>4, <2>3 DEF Shape, Kinds
    <3> QED
      BY <1>1, <1>4, <2>4, <3>1, <3>2 DEF Shape
  <2>6. Alone(r)
    BY <1>1, <1>2, <1>4 DEF Alone, Shape
  <2>7. Holds(r)'
    BY <1>1, <1>2, <1>4, <2>3, <2>4 DEF Kinds, Good, Holds, Outside, Reading, Querying
  <2>8. Found(r)'
    <3>1. witness[r].scopes \subseteq Occupied
      BY DEF Good, Witnessed
    <3> QED
      BY <1>1, <1>4, <2>2, <2>4, <3>1 DEF Good, Found, Rightly
  <2>9. Witnessed(r)' /\ Tried(r)' /\ Says(r)'
    BY <1>1, <1>4, <2>4 DEF Good, Witnessed, Tried, Says, Answered, At
  <2> QED
    BY <2>5, <2>6, <2>7, <2>8, <2>9, AloneInv DEF Good
<1> QED
  BY <1>1, <1>3, <1>4

LEMMA CommitInv ==
  ASSUME IInv, NEW r \in Readers, Commit(r)
  PROVE  IInv'
<1> USE DEF IInv
<1>1. /\ pc[r] = "commit" /\ Return(r, "rows", answer[r].value)
      /\ pool' = [pool EXCEPT ![conn[r]] = Clean] /\ UNCHANGED witness
  BY DEF Commit, At
<1>2. conn[r] # None /\ answer[r].kind = "rows" /\ Rightly(r)
  BY <1>1 DEF Good, Holds, Found, Outside
<1>3. answer[r].value \in Values
  BY <1>1 DEF Good, Holds, Shape
<1>4. /\ answer'[r].kind = "rows" /\ answer'[r].value = answer[r].value /\ call' = call
  BY <1>1 DEF Return, Answer, Shape
<1>5. Says(r)'
  BY <1>1, <1>2, <1>4 DEF Says, Answered, Rightly
<1> QED
  BY <1>1, <1>2, <1>3, <1>5, ReturnInv DEF Weaker, Kinds

-----------------------------------------------------------------------------
(* The theorems.                                                           *)

LEMMA StepInv == IInv /\ [Next]_vars => IInv'
<1> SUFFICES ASSUME IInv, [Next]_vars PROVE IInv'
  OBVIOUS
<1>1. ASSUME NEW q \in Requests, Save(q) PROVE IInv'
  BY <1>1, SaveInv
<1>2. ASSUME NEW f \in References, NEW b \in Digests \cup {None}, Move(f, b) PROVE IInv'
  BY <1>2, MoveInv
<1>3. ASSUME NEW r \in Readers, NEW c \in Calls[r], Ask(r, c) PROVE IInv'
  BY <1>3, AskInv
<1>4. ASSUME NEW r \in Readers, Hear(r) PROVE IInv'
  BY <1>4, HearInv
<1>5. ASSUME NEW r \in Readers, Connect(r) \/ ConnectFails(r) PROVE IInv'
  BY <1>5, ConnectInv, ConnectFailsInv
<1>6. ASSUME NEW r \in Readers, Step(r) PROVE IInv'
  BY <1>6, RefuseInputInv, getBindingInv, artifactEvidenceSizeGetInv, locationsInv, FetchInv,
     BeginInv, scopeSetInv, ListAndScanInv, CommitInv, FailInv DEF Step
<1>7. CASE UNCHANGED vars
  <2> USE <1>7 DEF vars, database, reader
  <2>1. Shape' /\ Exclusive' /\ PoolIsClean'
    BY DEF IInv, Shape, Exclusive, PoolIsClean, Bound
  <2>2. \A r \in Readers : Good(r)'
    BY DEF IInv, Good, Holds, Found, Witnessed, Tried, Says, Answered, At, Rightly, Bound,
           Occupied, Outcome, Matches
  <2> QED
    BY <2>1, <2>2 DEF IInv
<1> QED
  BY <1>1, <1>2, <1>3, <1>4, <1>5, <1>6, <1>7 DEF Next

\* The invariant: an asked reader alone holds its connection, what its
\* statements have established stands, and each reference that has been
\* within reach all along is still to be tried or has failed for a reason
\* that is remembered.
THEOREM Invariant == Spec => []IInv
  BY InitInv, StepInv, PTL DEF Spec

\* Every reachable state has the declared types, and a reader holds one
\* connection of its own exactly while it works.
THEOREM TypeCorrect == Spec => []TypeOK
<1>1. IInv => TypeOK
  BY DEF IInv, TypeOK, Shape, Exclusive, Good, Holds, Outside, Kinds, At
<1> QED
  BY <1>1, Invariant, PTL

\* A payload read is the payload bound, and it is found wherever one
\* reference kept it, for any number of mirrors and any moves of their owners.
THEOREM AnyMirrorServes == Spec => []MirrorIsFound
<1>1. IInv => MirrorIsFound
  BY DEF IInv, MirrorIsFound, Good, Says
<1> QED
  BY <1>1, Invariant, PTL

\* "Corrupt" is never hidden behind "not found", nor that behind an outage.
THEOREM ReasonTheorem == Spec => []MismatchIsReported
<1>1. IInv => MismatchIsReported
  BY DEF IInv, MismatchIsReported, Good, Says
<1> QED
  BY <1>1, Invariant, PTL

\* A read sees every save that returned before it was called, although its
\* three statements share no transaction.
THEOREM EarlierSavesAreSeen == Spec => []SavedIsSeen
<1>1. IInv => SavedIsSeen
  BY DEF IInv, SavedIsSeen, Good, Says
<1> QED
  BY <1>1, Invariant, PTL

\* A dashboard shows the rows of its scopes, all of them and no others.
THEOREM RowsAreScoped == Spec => []ScopedRows
<1>1. IInv => ScopedRows
  BY DEF IInv, ScopedRows, Good, Says, Rightly
<1> QED
  BY <1>1, Invariant, PTL

\* No connection goes back to the pool with a transaction or a scope.
THEOREM PoolTheorem == Spec => []PoolIsClean
<1>1. IInv => PoolIsClean
  BY DEF IInv
<1> QED
  BY <1>1, Invariant, PTL

-----------------------------------------------------------------------------
(* What is assumed about the saves, and what the queries depend on.        *)

\* Save allows every change StorageSave makes (SavesComeWhole there): whatever is
\* committed around a read, the invariants above hold.
THEOREM AdmitsEverySave ==
  ASSUME NEW q \in Requests, NEW t \in Clock,
         Saved(q, bindings, DOMAIN registered, bindings', DOMAIN registered'),
         bindings' # bindings \/ DOMAIN registered' # DOMAIN registered,
         registered' = [l \in DOMAIN registered' |->
                          IF l \in DOMAIN registered THEN registered[l] ELSE t],
         UNCHANGED <<content, pool, reader>>
  PROVE  Save(q)
<1> DEFINE row == RowOf(q)
           new == ({row.id} \X q.references) \ DOMAIN registered
<1>1. LocationsOf(q) = {row.id} \X q.references
  BY DEF LocationsOf, RowOf
<1>2. DOMAIN registered' = new \cup DOMAIN registered
  BY <1>1 DEF Saved
<1>3. registered' = [l \in new \cup DOMAIN registered |->
                       IF l \in new THEN t ELSE registered[l]]
  BY <1>2
<1>4. row \in bindings \/ row.id \notin Bound
  BY DEF Saved, MayJoin, Bound
<1>5. row \notin bindings \/ new # {}
  BY <1>2 DEF Saved
<1> QED
  BY <1>3, <1>4, <1>5 DEF Save, Saved

\* A query that is refused its rows is one whose selection has more or fewer
\* columns than its row type has fields.
OnlyMisfitsFail ==
  \A r \in Readers : Answered(r, {"scan_error"}) =>
    call[r].op = "Query" /\ ~ Scans(Selections[call[r].view])

Misfit(c) == c.op = "Query" /\ ~ Scans(Selections[c.view])

LEMMA MisfitReturns ==
  ASSUME Shape, OnlyMisfitsFail, NEW r \in Readers, NEW kind, NEW value,
         Return(r, kind, value), kind = "scan_error" => Misfit(call[r])
  PROVE  OnlyMisfitsFail'
BY DEF Shape, OnlyMisfitsFail, Return, Answer, Goto, Answered, At, Misfit

LEMMA MisfitMoves ==
  ASSUME Shape, OnlyMisfitsFail, NEW r \in Readers, NEW s, Goto(r, s), s # "done",
         \A q \in Readers \ {r} : call'[q] = call[q] /\ answer'[q] = answer[q]
  PROVE  OnlyMisfitsFail'
BY DEF Shape, OnlyMisfitsFail, Goto, Answered, At

LEMMA MisfitStep ==
  ASSUME IInv, OnlyMisfitsFail, [Next]_vars
  PROVE  OnlyMisfitsFail'
<1>0. Shape
  BY DEF IInv
<1>1. ASSUME UNCHANGED <<pc, call, answer>>
      PROVE  OnlyMisfitsFail'
  BY <1>1 DEF OnlyMisfitsFail, Answered, At
<1>2. ASSUME NEW r \in Readers, NEW c \in Calls[r], Ask(r, c)
      PROVE  OnlyMisfitsFail'
  BY <1>0, <1>2, MisfitMoves DEF Ask, Shape
<1>3. ASSUME NEW r \in Readers, Hear(r)
      PROVE  OnlyMisfitsFail'
  BY <1>0, <1>3, MisfitMoves DEF Hear, Shape
<1>4. ASSUME NEW r \in Readers, Connect(r)
      PROVE  OnlyMisfitsFail'
  BY <1>0, <1>4, MisfitMoves DEF Connect
<1>5. ASSUME NEW r \in Readers, NEW s, Continue(r, s), s # "done"
      PROVE  OnlyMisfitsFail'
  BY <1>0, <1>5, MisfitMoves DEF Continue
<1>6. ASSUME NEW r \in Readers, NEW reason, Refuse(r, reason), reason # "scan_error"
      PROVE  OnlyMisfitsFail'
  BY <1>0, <1>6, MisfitReturns DEF Refuse
<1>7. ASSUME NEW r \in Readers,
             \/ RefuseInput(r) \/ ConnectFails(r) \/ getBinding(r)
             \/ artifactEvidenceSizeGet(r) \/ Fail(r)
      PROVE  OnlyMisfitsFail'
  BY <1>5, <1>6, <1>7 DEF RefuseInput, ConnectFails, getBinding, artifactEvidenceSizeGet, Fail
<1>8. ASSUME NEW r \in Readers, locations(r)
      PROVE  OnlyMisfitsFail'
  BY <1>0, <1>6, <1>8, MisfitReturns, MisfitMoves DEF locations
<1>9. ASSUME NEW r \in Readers, Fetch(r)
      PROVE  OnlyMisfitsFail'
  <2>1. ASSUME NEW f, NEW how, Failed(r, f, how)
        PROVE  OnlyMisfitsFail'
    BY <1>1, <1>6, <2>1 DEF Failed, Failure
  <2> QED
    BY <1>0, <1>9, <2>1, MisfitReturns DEF Fetch
<1>10. ASSUME NEW r \in Readers, Begin(r) \/ scopeSet(r)
       PROVE  OnlyMisfitsFail'
  BY <1>5, <1>10 DEF Begin, scopeSet
<1>11. ASSUME NEW r \in Readers, ListAndScan(r)
       PROVE  OnlyMisfitsFail'
  <2>1. call[r].op = "Query"
    BY <1>11 DEF ListAndScan, At, IInv, Good, Holds, Querying
  <2>2. CASE RowsFor(r) = {} \/ Scans(Selections[call[r].view])
    BY <1>0, <1>11, <2>2, MisfitMoves DEF ListAndScan, Shape
  <2>3. CASE ~ (RowsFor(r) = {} \/ Scans(Selections[call[r].view]))
    <3>1. Return(r, "scan_error", None)
      BY <1>11, <2>3 DEF ListAndScan, Refuse
    <3> QED
      BY <1>0, <2>1, <2>3, <3>1, MisfitReturns DEF Misfit
  <2> QED
    BY <2>2, <2>3
<1>12. ASSUME NEW r \in Readers, Commit(r)
       PROVE  OnlyMisfitsFail'
  BY <1>0, <1>12, MisfitReturns DEF Commit
<1>13. ASSUME NEW q \in Requests, Save(q)
       PROVE  OnlyMisfitsFail'
  BY <1>1, <1>13 DEF Save, reader
<1>14. ASSUME NEW f, NEW b, Move(f, b)
       PROVE  OnlyMisfitsFail'
  BY <1>1, <1>14 DEF Move
<1>15. CASE UNCHANGED vars
  BY <1>1, <1>15 DEF vars, reader
<1> QED
  BY <1>2, <1>3, <1>4, <1>7, <1>8, <1>9, <1>10, <1>11, <1>12, <1>13, <1>14, <1>15
     DEF Next, Step

\* Every query answers, whatever is in the database and whoever else uses the
\* pool, if its selection has one column per field: what the run of Dashboards
\* finds is due to the three list queries that do not, and to nothing else.
THEOREM FittingDashboardsAnswer ==
  ASSUME \A r \in Readers : \A c \in Calls[r] :
           c.op = "Query" => Scans(Selections[c.view])
  PROVE  Spec => []DashboardsAnswer
<1>1. Init => OnlyMisfitsFail
  BY DEF Init, OnlyMisfitsFail, Answered, At
<1>2. IInv /\ OnlyMisfitsFail /\ [Next]_vars => OnlyMisfitsFail'
  BY MisfitStep
<1>3. IInv /\ OnlyMisfitsFail => DashboardsAnswer
  <2> SUFFICES ASSUME IInv, OnlyMisfitsFail, NEW r \in Readers, Answered(r, {"scan_error"})
               PROVE  FALSE
    BY DEF DashboardsAnswer
  <2>1. call[r] \in Calls[r]
    BY DEF IInv, Good, Holds, Answered, At
  <2> QED
    BY <2>1 DEF OnlyMisfitsFail
<1> QED
  BY <1>1, <1>2, <1>3, Invariant, PTL DEF Spec
=============================================================================
