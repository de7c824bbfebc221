--------------------------- MODULE RegistryProofs ---------------------------
(***************************************************************************)
(* Proofs about Registry, for any number of loaders, any names and both    *)
(* dialects.                                                               *)
(***************************************************************************)
EXTENDS Registry, TLAPS

-----------------------------------------------------------------------------
(* The inductive invariant.                                                *)

WellFormed(r) ==
  /\ r.table \in {"product", "repo"} => r.parents = <<>>
  /\ r.table = "product" => r.name \in Slugs
  /\ r.table = "repo" => r.name \in Urls
  /\ r.table = "product_repo" => r.parents \in Ids \X Ids
  /\ r.id # None <=> r.table \in Identified

\* The constraints of the five tables.
RowsInv ==
  /\ \A r \in rows : WellFormed(r) /\ Parents(r) /\ r.id \in drawn \cup {None}
  /\ \A r, q \in rows : KeyOf(r) = KeyOf(q) => r = q
  /\ \A r, q \in rows : r.id = q.id /\ r.id # None => r = q

\* No row is known by this identifier.
Fresh(i) == i # None => \A r \in rows : r.id # i

\* The open transaction of p has written q, which keeps the identifier of its key.
Writes(p, q) ==
  /\ staged[p] = {q}
  /\ KeyOf(q) = KeyOf(request[p]) /\ WellFormed(q) /\ Parents(q)
  /\ \A r \in rows : KeyOf(r) = KeyOf(q) => r.id = q.id
  /\ \/ q.id = request[p].id
     \/ \E r \in rows : KeyOf(r) = KeyOf(q) /\ r.id = q.id
  /\ pc[p] = "commit" => found[p] = q.id

\* What a call has established when it reaches each of its statements.
Own(p) ==
  /\ pc[p] \notin {"read", "commit"} => staged[p] = {}
  /\ pc[p] # "commit" => found[p] = None
  /\ pc[p] # "idle" =>
       /\ request[p] \in Rows /\ WellFormed(request[p])
       /\ request[p].id \in drawn \cup {None} /\ Fresh(request[p].id)
  /\ pc[p] = "read" => request[p].table \in Identified
  /\ pc[p] \in {"read", "commit"} => \E q \in Rows : Writes(p, q)

\* Two calls never hold one identifier or one key.
Apart(p, o) ==
  /\ pc[p] # "idle" /\ pc[o] # "idle" /\ request[p].id # None => request[p].id # request[o].id
  /\ \A q \in staged[p], r \in staged[o] : KeyOf(q) # KeyOf(r)

IInv ==
  /\ TypeOK /\ RowsInv /\ ReadBackFinds
  /\ \A p \in Loaders : Own(p)
  /\ \A p, o \in Loaders : p # o => Apart(p, o)
  /\ told \subseteq Given

-----------------------------------------------------------------------------
(* Type correctness.                                                       *)

LEMMA FreshId ==
  ASSUME drawn \subseteq Ids, drawn # Ids
  PROVE  newRegistryID \in Ids /\ newRegistryID \notin drawn
<1>1. \E i \in Ids : i \notin drawn
  OBVIOUS
<1> QED
  BY <1>1 DEF newRegistryID

LEMMA KnownIds == ASSUME TypeOK, NEW table PROVE Known(table) \subseteq Ids
BY DEF TypeOK, Known

LEMMA KeyFacts ==
  ASSUME NEW r \in Rows
  PROVE  /\ KeyOf(r) \in Keys
         /\ KeyOf(r).table = r.table /\ KeyOf(r).parents = r.parents /\ KeyOf(r).name = r.name
BY DEF Rows, Keys, KeyOf

LEMMA SameKey ==
  ASSUME NEW r \in Rows, NEW q \in Rows
  PROVE  KeyOf(r) = KeyOf(q) <=> r.table = q.table /\ r.parents = q.parents /\ r.name = q.name
BY KeyFacts DEF KeyOf

LEMMA UpsertKeepsKey ==
  ASSUME NEW r \in Rows, NEW q \in Rows
  PROVE  /\ OnConflict(q, r) \in Rows
         /\ KeyOf(OnConflict(q, r)) = KeyOf(q)
         /\ OnConflict(q, r).id = q.id
<1>1. OnConflict(q, r) = q \/ OnConflict(q, r) = [q EXCEPT !.attributes = r.attributes]
  BY DEF OnConflict, productUpsert, repoUpsert, productRepoUpsert, productRepoVersionUpsert,
     repoOwnerUpsert
<1>2. CASE OnConflict(q, r) = q
  BY <1>2
<1>3. CASE OnConflict(q, r) = [q EXCEPT !.attributes = r.attributes]
  BY <1>3 DEF Rows, KeyOf
<1> QED
  BY <1>1, <1>2, <1>3

LEMMA AskType ==
  ASSUME TypeOK, NEW p \in Loaders, NEW table \in Tables,
         NEW parents \in {<<>>} \cup Ids \X {None} \cup Ids \X Ids,
         NEW name \in Texts, NEW i \in Ids \cup {None},
         NEW attributes \in Attributes \cup {None},
         Ask(p, table, parents, name, i, attributes), drawn' \subseteq Ids,
         UNCHANGED dialect
  PROVE  TypeOK'
<1>1. [table |-> table, parents |-> parents, name |-> name, id |-> i,
       attributes |-> attributes] \in Rows
  BY DEF Rows
<1> QED
  BY <1>1 DEF TypeOK, Ask, Goto

LEMMA AskFreshType ==
  ASSUME TypeOK, NEW p \in Loaders, NEW table \in Tables,
         NEW parents \in {<<>>} \cup Ids \X {None} \cup Ids \X Ids,
         NEW name \in Texts, NEW attributes \in Attributes \cup {None},
         AskFresh(p, table, parents, name, attributes), UNCHANGED dialect
  PROVE  TypeOK'
<1>1. newRegistryID \in Ids
  BY FreshId DEF TypeOK, AskFresh
<1>2. drawn' \subseteq Ids
  BY <1>1 DEF AskFresh, TypeOK
<1> QED
  BY <1>1, <1>2, AskType DEF AskFresh

LEMMA ReturnType ==
  ASSUME TypeOK, NEW p \in Loaders, NEW a \in Answers, Return(p, a)
  PROVE  /\ staged' \in [Loaders -> SUBSET Rows]
         /\ writer' \in Loaders \cup {None}
         /\ pc' \in [Loaders -> {"idle", "begin", "upsert", "read", "commit"}]
         /\ request' \in [Loaders -> Rows \cup {None}]
         /\ found' \in [Loaders -> Ids \cup {None}]
         /\ answer' \in [Loaders -> Answers \cup {None}]
BY DEF TypeOK, Return, Ended, Released, Goto

LEMMA RefuseType ==
  ASSUME TypeOK, NEW p \in Loaders, Refuse(p), UNCHANGED dialect
  PROVE  TypeOK'
BY DEF TypeOK, Refuse, Answers

LEMMA RollbackType ==
  ASSUME TypeOK, NEW p \in Loaders, NEW a \in Answers, Rollback(p, a), UNCHANGED dialect
  PROVE  TypeOK'
BY ReturnType DEF Rollback, TypeOK

LEMMA CommitFacts ==
  ASSUME NEW p \in Loaders, Commit(p) \/ CommitUnheard(p)
  PROVE  /\ pc[p] = "commit" /\ rows' = Merged(p) /\ drawn' = drawn
         /\ \E a \in {"ok", "error"} : Return(p, a)
         /\ told' = told \/ (found[p] # None /\ told' = told \cup {<<KeyOf(request[p]), found[p]>>})
BY DEF Commit, CommitUnheard, At, Tell

LEMMA UpsertFacts ==
  ASSUME NEW p \in Loaders, Upsert(p), Parents(request[p])
  PROVE  /\ pc[p] = "upsert" /\ ~Contended(p)
         /\ staged' = [staged EXCEPT ![p] =
               IF Stored(request[p]) = {} THEN {request[p]}
               ELSE {OnConflict(q, request[p]) : q \in Stored(request[p])}]
         /\ Goto(p, IF request[p].table \in Identified THEN "read" ELSE "commit")
         /\ UNCHANGED <<rows, writer, drawn, request, found, answer, told>>
BY DEF Upsert, At

\* What a call that takes a connection asks for.
LEMMA CallTypes ==
  ASSUME TypeOK, RowsInv, NEW p \in Loaders, Call(p), UNCHANGED dialect
  PROVE  TypeOK'
<1>1. ASSUME NEW slug \in Slugs, NEW segment \in Attributes, RegisterProduct(p, slug, segment)
      PROVE  TypeOK'
  BY <1>1, AskFreshType, RefuseType DEF RegisterProduct, Tables, Texts
<1>2. ASSUME NEW url \in Urls, RegisterRepo(p, url)
      PROVE  TypeOK'
  BY <1>2, AskFreshType, RefuseType DEF RegisterRepo, Tables, Texts
<1>3. ASSUME NEW product \in Known("product"), NEW repo \in Known("repo") \cup Known("product"),
             NEW ref \in Refs, NEW service \in {None},
             RegisterProductRepo(p, product, repo, ref, service)
      PROVE  TypeOK'
  <2>1. <<product, repo>> \in Ids \X Ids
    BY KnownIds
  <2> QED
    BY <1>3, <2>1, AskFreshType, RefuseType DEF RegisterProductRepo, Tables, Texts
<1>4. ASSUME NEW owner \in Known("product_repo"), NEW version \in Versions,
             NEW images \in SUBSET (Attributes \cup {Empty}),
             RegisterProductRepoVersion(p, owner, version, images)
      PROVE  TypeOK'
  <2>1. <<owner, None>> \in Ids \X {None}
    BY KnownIds
  <2>2. (\A image \in images : registryText(image, TRUE, {})) =>
          registryList(images) \in Attributes \cup {None}
    BY DEF registryList, registryText
  <2>3. drawn' = drawn => drawn' \subseteq Ids
    BY DEF TypeOK
  <2> QED
    BY <1>4, <2>1, <2>2, <2>3, AskType, RefuseType DEF RegisterProductRepoVersion, Tables, Texts
<1>5. ASSUME NEW owner \in Known("product_repo"), NEW team \in Teams,
             NEW manager \in Attributes, RegisterRepoOwner(p, owner, team, manager)
      PROVE  TypeOK'
  <2>1. <<owner, None>> \in Ids \X {None}
    BY KnownIds
  <2>2. drawn' = drawn => drawn' \subseteq Ids
    BY DEF TypeOK
  <2> QED
    BY <1>5, <2>1, <2>2, AskType, RefuseType DEF RegisterRepoOwner, Tables, Texts
<1>6. ASSUME NEW slug \in Slugs, NEW url \in Urls, NEW ref \in Refs,
             FindProductRepo(p, slug, url, ref)
      PROVE  TypeOK'
  <2>1. answer' \in [Loaders -> Answers \cup {None}]
    BY <1>6 DEF FindProductRepo, TypeOK, Answers
  <2>2. ASSUME NEW r \in Hits(slug, url, ref)
        PROVE  <<KeyOf(r), r.id>> \in Keys \X Ids
    <3>1. r \in rows /\ r \in Rows /\ r.table \in Identified
      BY DEF Hits, TypeOK, Identified
    <3>2. r.id # None
      BY <3>1 DEF RowsInv, WellFormed
    <3>3. r.id \in Ids
      BY <3>1, <3>2 DEF Rows
    <3> QED
      BY <3>1, <3>3, KeyFacts
  <2> QED
    BY <1>6, <2>1, <2>2 DEF FindProductRepo, TypeOK
<1> QED
  BY <1>1, <1>2, <1>3, <1>4, <1>5, <1>6 DEF Call

LEMMA TypeStep == TypeOK /\ RowsInv /\ (\A p \in Loaders : Own(p)) /\ [Next]_vars => TypeOK'
<1> SUFFICES ASSUME TypeOK, RowsInv, \A p \in Loaders : Own(p), [Next]_vars
             PROVE  TypeOK'
  OBVIOUS
<1>0. dialect' = dialect
  BY DEF Next, Step, vars
<1> USE <1>0
<1>1. ASSUME NEW p \in Loaders, Call(p)
      PROVE  TypeOK'
  BY <1>1, CallTypes
<1>2. ASSUME NEW p \in Loaders, Begin(p)
      PROVE  TypeOK'
  BY <1>2 DEF Begin, Goto, TypeOK
<1>3. ASSUME NEW p \in Loaders, Busy(p) \/ Fail(p)
      PROVE  TypeOK'
  BY <1>3, RollbackType DEF Busy, Fail, Answers
<1>4. ASSUME NEW p \in Loaders, Upsert(p)
      PROVE  TypeOK'
  <2>1. CASE Parents(request[p])
    <3>1. pc[p] = "upsert" /\ request[p] \in Rows
      BY <1>4, <2>1, UpsertFacts DEF Own
    <3>2. \A q \in Stored(request[p]) : OnConflict(q, request[p]) \in Rows
      BY <3>1, UpsertKeepsKey DEF Stored, TypeOK
    <3>3. staged' \in [Loaders -> SUBSET Rows]
      BY <1>4, <2>1, <3>1, <3>2, UpsertFacts DEF TypeOK
    <3> QED
      BY <1>4, <2>1, <3>3, UpsertFacts DEF TypeOK, Goto
  <2>2. CASE ~Parents(request[p])
    BY <1>4, <2>2, RollbackType DEF Upsert, Answers
  <2> QED
    BY <2>1, <2>2
<1>5. ASSUME NEW p \in Loaders, ReadBack(p)
      PROVE  TypeOK'
  <2>1. CASE Visible(p, request[p]) = {}
    BY <1>5, <2>1, RollbackType DEF ReadBack, Answers
  <2>2. CASE Visible(p, request[p]) # {}
    <3>1. PICK q \in Visible(p, request[p]) : found' = [found EXCEPT ![p] = q.id]
      BY <1>5, <2>2 DEF ReadBack
    <3>2. q \in Rows
      BY DEF Visible, Stored, TypeOK
    <3>3. q.id \in Ids \cup {None}
      BY <3>2 DEF Rows
    <3> QED
      BY <1>5, <2>2, <3>1, <3>3 DEF ReadBack, Goto, TypeOK
  <2> QED
    BY <2>1, <2>2
<1>6. ASSUME NEW p \in Loaders, Commit(p) \/ CommitUnheard(p)
      PROVE  TypeOK'
  <2>1. PICK a \in {"ok", "error"} : Return(p, a)
    BY <1>6, CommitFacts
  <2>2. request[p] \in Rows
    BY <1>6, CommitFacts DEF Own
  <2>3. rows' \subseteq Rows
    BY <1>6, CommitFacts DEF Merged, TypeOK
  <2>4. told' \subseteq Keys \X Ids
    BY <1>6, <2>2, CommitFacts, KeyFacts DEF TypeOK
  <2>5. drawn' \subseteq Ids
    BY <1>6, CommitFacts DEF TypeOK
  <2>6. a \in Answers
    BY DEF Answers
  <2> QED
    BY <2>1, <2>3, <2>4, <2>5, <2>6, ReturnType DEF TypeOK
<1>7. CASE UNCHANGED vars
  BY <1>7 DEF vars, TypeOK
<1> QED
  BY <1>1, <1>2, <1>3, <1>4, <1>5, <1>6, <1>7 DEF Next, Step, Statement

-----------------------------------------------------------------------------
(* Steps that leave the committed rows alone.                              *)

\* The calls of the other loaders go on as they were.
Others(p) ==
  \A t \in Loaders \ {p} :
    /\ pc'[t] = pc[t] /\ staged'[t] = staged[t] /\ request'[t] = request[t]
    /\ found'[t] = found[t] /\ answer'[t] = answer[t]

LEMMA QuietStep ==
  ASSUME IInv, TypeOK', NEW p \in Loaders, Others(p),
         rows' = rows, drawn \subseteq drawn', told' \subseteq Given,
         answer'[p] # "missing", Own(p)',
         \A t \in Loaders \ {p} : Apart(p, t)'
  PROVE  IInv'
<1>1. Given' = Given
  BY DEF Given
<1>2. \A r : Parents(r)' <=> Parents(r)
  BY DEF Parents, IdsOf
<1>3. RowsInv'
  BY <1>2 DEF IInv, RowsInv, WellFormed
<1>4. ReadBackFinds'
  BY DEF IInv, ReadBackFinds, Others
<1>5. ASSUME NEW t \in Loaders
      PROVE  Own(t)'
  <2>1. CASE t = p
    BY <2>1
  <2>2. CASE t # p
    <3>1. /\ pc'[t] = pc[t] /\ staged'[t] = staged[t] /\ request'[t] = request[t]
          /\ found'[t] = found[t]
      BY <2>2 DEF Others
    <3>2. Own(t)
      BY DEF IInv
    <3>3. ASSUME NEW q \in Rows, Writes(t, q)
          PROVE  Writes(t, q)'
      BY <1>2, <3>1, <3>3 DEF Writes, WellFormed
    <3>4. \A i : Fresh(i) <=> Fresh(i)'
      BY DEF Fresh
    <3>5. \A r : WellFormed(r) <=> WellFormed(r)'
      BY DEF WellFormed
    <3>6. request'[t].id \in drawn \cup {None} => request'[t].id \in drawn' \cup {None}
      OBVIOUS
    <3> QED
      BY <3>1, <3>2, <3>3, <3>4, <3>5, <3>6 DEF Own
  <2> QED
    BY <2>1, <2>2
<1>6. ASSUME NEW t \in Loaders, NEW o \in Loaders, t # o
      PROVE  Apart(t, o)'
  <2>1. CASE t = p
    BY <1>6, <2>1
  <2>2. CASE o = p
    BY <1>6, <2>2 DEF Apart
  <2>3. CASE t # p /\ o # p
    <3>1. Apart(t, o)
      BY <1>6 DEF IInv
    <3>2. /\ pc'[t] = pc[t] /\ staged'[t] = staged[t] /\ request'[t] = request[t]
          /\ pc'[o] = pc[o] /\ staged'[o] = staged[o] /\ request'[o] = request[o]
      BY <2>3 DEF Others
    <3> QED
      BY <3>1, <3>2 DEF Apart
  <2> QED
    BY <2>1, <2>2, <2>3
<1> QED
  BY <1>1, <1>3, <1>4, <1>5, <1>6 DEF IInv

\* A call asks for a row whose identifier is its own, or that has none.
LEMMA AskStep ==
  ASSUME IInv, TypeOK', NEW p \in Loaders, At(p, "idle"),
         NEW table \in Tables, NEW parents, NEW name, NEW i, NEW attributes,
         Ask(p, table, parents, name, i, attributes),
         drawn' = drawn \cup ({i} \ {None}), i \notin drawn,
         [table |-> table, parents |-> parents, name |-> name, id |-> i,
          attributes |-> attributes] \in Rows,
         WellFormed([table |-> table, parents |-> parents, name |-> name, id |-> i,
                     attributes |-> attributes])
  PROVE  IInv'
<1> DEFINE r == [table |-> table, parents |-> parents, name |-> name, id |-> i,
                 attributes |-> attributes]
<1>1. r.id = i /\ r \in Rows /\ WellFormed(r)
  OBVIOUS
<1> HIDE DEF r
<1>2. /\ request'[p] = r /\ pc'[p] = "begin" /\ answer'[p] = None
      /\ staged'[p] = staged[p] /\ found'[p] = found[p] /\ rows' = rows /\ told' = told
      /\ Others(p)
  BY DEF Ask, Goto, Others, IInv, TypeOK, r
<1>3. staged[p] = {} /\ found[p] = None
  BY DEF IInv, Own, At
<1>4. Fresh(i)'
  BY <1>2 DEF IInv, RowsInv, Fresh
<1>5. Own(p)'
  BY <1>1, <1>2, <1>3, <1>4 DEF Own, WellFormed
<1>6. ASSUME NEW t \in Loaders \ {p}
      PROVE  Apart(p, t)'
  <2>1. pc[t] # "idle" => request[t].id \in drawn \cup {None}
    BY DEF IInv, Own
  <2> QED
    BY <1>1, <1>2, <1>3, <2>1 DEF Apart, Others
<1>7. answer'[p] # "missing" /\ told' \subseteq Given
  BY <1>2, RegistryAssumption DEF IInv, Answers
<1> QED
  BY <1>2, <1>5, <1>6, <1>7, QuietStep

LEMMA AskFreshStep ==
  ASSUME IInv, TypeOK', NEW p \in Loaders, At(p, "idle"),
         NEW table \in Identified, NEW parents \in {<<>>} \cup Ids \X Ids,
         NEW name \in Texts, NEW attributes \in Attributes \cup {None},
         AskFresh(p, table, parents, name, attributes),
         table \in {"product", "repo"} => parents = <<>>,
         table = "product" => name \in Slugs,
         table = "repo" => name \in Urls,
         table = "product_repo" => parents \in Ids \X Ids
  PROVE  IInv'
<1>1. newRegistryID \in Ids /\ newRegistryID \notin drawn /\ newRegistryID # None
  BY FreshId, RegistryAssumption DEF AskFresh, IInv, TypeOK
<1>2. [table |-> table, parents |-> parents, name |-> name, id |-> newRegistryID,
       attributes |-> attributes] \in Rows
  BY <1>1 DEF Rows, Identified, Tables
<1>3. WellFormed([table |-> table, parents |-> parents, name |-> name,
                  id |-> newRegistryID, attributes |-> attributes])
  BY <1>1 DEF WellFormed
<1>4. table \in Tables
  BY DEF Identified, Tables
<1>5. /\ Ask(p, table, parents, name, newRegistryID, attributes)
      /\ drawn' = drawn \cup ({newRegistryID} \ {None})
  BY <1>1 DEF AskFresh
<1> QED
  BY <1>1, <1>2, <1>3, <1>4, <1>5, AskStep

\* A row of the two tables that have no identifier.
LEMMA AskPlainStep ==
  ASSUME IInv, TypeOK', NEW p \in Loaders, At(p, "idle"),
         NEW table \in Tables \ Identified, NEW owner \in Ids,
         NEW name \in Texts, NEW attributes \in Attributes \cup {None},
         Ask(p, table, <<owner, None>>, name, None, attributes), drawn' = drawn
  PROVE  IInv'
<1>1. [table |-> table, parents |-> <<owner, None>>, name |-> name, id |-> None,
       attributes |-> attributes] \in Rows
  BY DEF Rows
<1>2. WellFormed([table |-> table, parents |-> <<owner, None>>, name |-> name, id |-> None,
                  attributes |-> attributes])
  BY DEF WellFormed, Identified
<1>3. None \notin drawn
  BY RegistryAssumption DEF IInv, TypeOK
<1> QED
  BY <1>1, <1>2, <1>3, AskStep

LEMMA RefuseStep ==
  ASSUME IInv, TypeOK', NEW p \in Loaders, Refuse(p)
  PROVE  IInv'
<1>1. Others(p) /\ rows' = rows /\ told' \subseteq Given /\ answer'[p] # "missing"
  BY DEF Refuse, Others, IInv, TypeOK
<1>2. Own(p)'
  BY DEF Refuse, IInv, Own, Fresh, Writes, Parents, IdsOf, WellFormed
<1>3. \A t \in Loaders \ {p} : Apart(p, t)'
  BY DEF Refuse, IInv, Apart
<1> QED
  BY <1>1, <1>2, <1>3, QuietStep DEF Refuse

LEMMA RollbackStep ==
  ASSUME IInv, TypeOK', NEW p \in Loaders, NEW a \in Answers \ {"missing"}, Rollback(p, a)
  PROVE  IInv'
<1>1. /\ Others(p) /\ rows' = rows /\ told' \subseteq Given /\ answer'[p] = a
      /\ pc'[p] = "idle" /\ staged'[p] = {} /\ found'[p] = None
  BY DEF Rollback, Return, Ended, Goto, Others, IInv, TypeOK
<1>2. Own(p)'
  BY <1>1 DEF Own
<1>3. \A t \in Loaders \ {p} : Apart(p, t)'
  BY <1>1 DEF Apart
<1> QED
  BY <1>1, <1>2, <1>3, QuietStep DEF Rollback

LEMMA BeginStep ==
  ASSUME IInv, TypeOK', NEW p \in Loaders, Begin(p)
  PROVE  IInv'
<1>1. /\ Others(p) /\ rows' = rows /\ told' \subseteq Given /\ answer'[p] # "missing"
      /\ pc[p] = "begin" /\ pc'[p] = "upsert" /\ staged'[p] = staged[p]
      /\ found'[p] = found[p] /\ request'[p] = request[p]
  BY DEF Begin, At, Goto, Others, IInv, TypeOK, ReadBackFinds
<1>2. Own(p) /\ drawn' = drawn
  BY DEF IInv, Begin
<1>3. Own(p)'
  BY <1>1, <1>2 DEF Own, Fresh, WellFormed
<1>4. \A t \in Loaders \ {p} : Apart(p, t)'
  BY <1>1 DEF IInv, Apart, Others
<1> QED
  BY <1>1, <1>2, <1>3, <1>4, QuietStep

LEMMA UpsertStep ==
  ASSUME IInv, TypeOK', NEW p \in Loaders, Upsert(p), Parents(request[p])
  PROVE  IInv'
<1>1. /\ pc[p] = "upsert" /\ ~Contended(p) /\ Own(p) /\ request[p] \in Rows
      /\ rows' = rows /\ drawn' = drawn /\ told' \subseteq Given /\ answer'[p] # "missing"
      /\ request'[p] = request[p] /\ found'[p] = None /\ Others(p)
      /\ pc'[p] = IF request[p].table \in Identified THEN "read" ELSE "commit"
  BY UpsertFacts DEF IInv, Own, Goto, Others, TypeOK, ReadBackFinds
<1>2. PICK q \in Rows : /\ staged'[p] = {q} /\ KeyOf(q) = KeyOf(request[p])
                        /\ \/ Stored(request[p]) = {} /\ q = request[p]
                           \/ \E r \in Stored(request[p]) : q.id = r.id
  <2>1. CASE Stored(request[p]) = {}
    <3>1. staged'[p] = {request[p]}
      BY <2>1, UpsertFacts DEF IInv, TypeOK
    <3> QED
      BY <1>1, <2>1, <3>1
  <2>2. CASE Stored(request[p]) # {}
    <3>1. PICK r : r \in Stored(request[p])
      BY <2>2
    <3>2. r \in rows /\ r \in Rows /\ KeyOf(r) = KeyOf(request[p])
      BY <3>1 DEF Stored, IInv, TypeOK
    <3>3. Stored(request[p]) = {r}
      BY <3>2 DEF Stored, IInv, RowsInv
    <3>4. staged'[p] = {OnConflict(r, request[p])}
      BY <2>2, <3>3, UpsertFacts DEF IInv, TypeOK
    <3>5. /\ OnConflict(r, request[p]) \in Rows /\ OnConflict(r, request[p]).id = r.id
          /\ KeyOf(OnConflict(r, request[p])) = KeyOf(r)
      BY <1>1, <3>2, UpsertKeepsKey
    <3> QED
      BY <3>1, <3>2, <3>4, <3>5
  <2> QED
    BY <2>1, <2>2
<1>3. q.table = request[p].table /\ q.parents = request[p].parents /\ q.name = request[p].name
  BY <1>1, <1>2, SameKey
<1>4. \A r \in rows : KeyOf(r) = KeyOf(q) => r.id = q.id
  BY <1>2 DEF Stored, IInv, RowsInv
<1>5. q.id = request[p].id \/ \E r \in rows : KeyOf(r) = KeyOf(q) /\ r.id = q.id
  BY <1>2 DEF Stored
<1>6. WellFormed(request[p])
  BY <1>1 DEF Own
<1>7. q.id # None <=> q.table \in Identified
  <2>1. CASE q.id = request[p].id
    BY <1>3, <1>6, <2>1 DEF WellFormed
  <2>2. CASE \E r \in rows : KeyOf(r) = KeyOf(q) /\ r.id = q.id
    <3>1. PICK r \in rows : KeyOf(r) = KeyOf(q) /\ r.id = q.id
      BY <2>2
    <3>2. r.table = q.table /\ WellFormed(r)
      BY <3>1, SameKey DEF IInv, TypeOK, RowsInv
    <3> QED
      BY <3>1, <3>2 DEF WellFormed
  <2> QED
    BY <1>5, <2>1, <2>2
<1>8. WellFormed(q)'
  BY <1>3, <1>6, <1>7 DEF WellFormed
<1>9. Parents(q)'
  BY <1>1, <1>3 DEF Parents, IdsOf
<1>10. pc'[p] = "commit" => found'[p] = q.id
  BY <1>1, <1>3, <1>7
<1>11. Writes(p, q)'
  BY <1>1, <1>2, <1>4, <1>5, <1>8, <1>9, <1>10 DEF Writes
<1>12. Own(p)'
  <2>1. Fresh(request[p].id)' /\ WellFormed(request[p])'
    BY <1>1 DEF Own, Fresh, WellFormed
  <2> QED
    BY <1>1, <1>11, <2>1 DEF Own
<1>13. ASSUME NEW t \in Loaders \ {p}
       PROVE  Apart(p, t)'
  <2>1. Apart(p, t) /\ pc'[t] = pc[t] /\ request'[t] = request[t] /\ staged'[t] = staged[t]
    BY <1>1 DEF IInv, Others
  <2>2. \A r \in staged[t] : KeyOf(q) # KeyOf(r)
    BY <1>1, <1>2 DEF Contended
  <2> QED
    BY <1>1, <1>2, <2>1, <2>2 DEF Apart
<1> QED
  BY <1>1, <1>12, <1>13, QuietStep

LEMMA ReadBackStep ==
  ASSUME IInv, TypeOK', NEW p \in Loaders, ReadBack(p)
  PROVE  IInv'
<1>1. pc[p] = "read" /\ Own(p) /\ request[p] \in Rows
  BY DEF ReadBack, At, IInv, Own
<1>2. PICK q \in Rows : Writes(p, q)
  BY <1>1 DEF Own
<1>3. q \in Visible(p, request[p])
  BY <1>2 DEF Writes, Visible
<1>4. PICK r \in Visible(p, request[p]) : found' = [found EXCEPT ![p] = r.id]
  BY <1>3 DEF ReadBack
<1>5. r.id = q.id
  BY <1>2, <1>4 DEF Visible, Stored, Writes
<1>6. /\ Others(p) /\ rows' = rows /\ drawn' = drawn /\ told' \subseteq Given
      /\ answer'[p] # "missing" /\ pc'[p] = "commit" /\ found'[p] = q.id
      /\ request'[p] = request[p] /\ staged'[p] = staged[p]
  BY <1>3, <1>4, <1>5 DEF ReadBack, Goto, Others, IInv, TypeOK, ReadBackFinds
<1>7. Writes(p, q)'
  BY <1>2, <1>6 DEF Writes, WellFormed, Parents, IdsOf
<1>8. Own(p)'
  BY <1>1, <1>6, <1>7 DEF Own, Fresh, WellFormed
<1>9. \A t \in Loaders \ {p} : Apart(p, t)'
  BY <1>1, <1>6 DEF IInv, Apart, Others
<1> QED
  BY <1>6, <1>8, <1>9, QuietStep

-----------------------------------------------------------------------------
(* COMMIT, the only step that changes the committed rows.                  *)

LEMMA Committed ==
  ASSUME IInv, NEW p \in Loaders, Commit(p) \/ CommitUnheard(p)
  PROVE  \E q \in Rows :
           /\ Writes(p, q) /\ found[p] = q.id
           /\ rows' = {r \in rows : KeyOf(r) # KeyOf(q)} \cup {q}
<1>1. pc[p] = "commit" /\ Own(p) /\ rows' = Merged(p)
  BY CommitFacts DEF IInv
<1>2. PICK q \in Rows : Writes(p, q)
  BY <1>1 DEF Own
<1>3. rows' = {r \in rows : KeyOf(r) # KeyOf(q)} \cup {q}
  BY <1>1, <1>2 DEF Writes, Merged
<1> QED
  BY <1>1, <1>2, <1>3 DEF Writes

\* A commit gives at most one name an identifier, and takes none away.
LEMMA CommitGives ==
  ASSUME IInv, NEW p \in Loaders, NEW q \in Rows, Writes(p, q),
         rows' = {r \in rows : KeyOf(r) # KeyOf(q)} \cup {q}
  PROVE  /\ \A r \in rows : \E s \in rows' : KeyOf(s) = KeyOf(r) /\ s.id = r.id /\ s.table = r.table
         /\ Given' = IF q.table \in Identified THEN Given \cup {<<KeyOf(q), q.id>>} ELSE Given
         /\ \A table : IdsOf(table) \subseteq IdsOf(table)'
<1>1. ASSUME NEW r \in rows
      PROVE  \E s \in rows' : KeyOf(s) = KeyOf(r) /\ s.id = r.id /\ s.table = r.table
  <2>1. CASE KeyOf(r) # KeyOf(q)
    BY <2>1
  <2>2. CASE KeyOf(r) = KeyOf(q)
    <3>1. q.id = r.id /\ q.table = r.table
      BY <2>2, SameKey DEF Writes, IInv, TypeOK
    <3> QED
      BY <2>2, <3>1
  <2> QED
    BY <2>1, <2>2
<1>2. \A g \in Given : g \in Given'
  BY <1>1 DEF Given
<1>3. q.table \in Identified => <<KeyOf(q), q.id>> \in Given'
  BY DEF Given
<1>4. ASSUME NEW g \in Given'
      PROVE  g \in Given \/ (q.table \in Identified /\ g = <<KeyOf(q), q.id>>)
  <2>1. PICK r \in rows' : r.table \in Identified /\ g = <<KeyOf(r), r.id>>
    BY DEF Given
  <2> QED
    BY <2>1 DEF Given
<1>5. \A table : IdsOf(table) \subseteq IdsOf(table)'
  BY <1>1 DEF IdsOf
<1> QED
  BY <1>1, <1>2, <1>3, <1>4, <1>5

LEMMA CommitRows ==
  ASSUME IInv, NEW p \in Loaders, NEW q \in Rows, Writes(p, q), pc[p] = "commit",
         drawn' = drawn, rows' = {r \in rows : KeyOf(r) # KeyOf(q)} \cup {q}
  PROVE  RowsInv' /\ \A r \in Rows : Parents(r) => Parents(r)'
<1>0. rows \subseteq Rows
  BY DEF IInv, TypeOK
<1>1. \A r \in Rows : Parents(r) => Parents(r)'
  BY CommitGives DEF Parents
<1>2. /\ request[p].id \in drawn \cup {None}
      /\ Fresh(request[p].id)
  BY DEF IInv, Own
<1>3. q.id \in drawn \cup {None}
  BY <1>2 DEF Writes, IInv, RowsInv
<1>4. \A r \in rows' : WellFormed(r)' /\ Parents(r)' /\ r.id \in drawn' \cup {None}
  <2> SUFFICES ASSUME NEW r \in rows'
               PROVE  WellFormed(r) /\ Parents(r)' /\ r.id \in drawn' \cup {None}
    BY DEF WellFormed
  <2>1. CASE r = q
    BY <1>1, <1>3, <2>1 DEF Writes
  <2>2. CASE r \in rows
    BY <1>0, <1>1, <2>2 DEF IInv, RowsInv
  <2> QED
    BY <2>1, <2>2
<1>5. \A r, s \in rows' : KeyOf(r) = KeyOf(s) => r = s
  BY DEF IInv, RowsInv
<1>6. ASSUME NEW r \in rows, KeyOf(r) # KeyOf(q), q.id # None
      PROVE  q.id # r.id
  <2>1. CASE q.id = request[p].id
    BY <1>2, <1>6, <2>1 DEF Fresh
  <2>2. CASE \E s \in rows : KeyOf(s) = KeyOf(q) /\ s.id = q.id
    BY <1>6, <2>2 DEF IInv, RowsInv
  <2> QED
    BY <2>1, <2>2 DEF Writes
<1>7. \A r, s \in rows' : r.id = s.id /\ r.id # None => r = s
  BY <1>6 DEF IInv, RowsInv
<1>8. \A r \in rows' : KeyOf(r)' = KeyOf(r)
  BY DEF KeyOf
<1> QED
  BY <1>1, <1>4, <1>5, <1>7, <1>8 DEF RowsInv

LEMMA CommitStep ==
  ASSUME IInv, TypeOK', NEW p \in Loaders, Commit(p) \/ CommitUnheard(p)
  PROVE  IInv'
<1>1. PICK q \in Rows : /\ Writes(p, q) /\ found[p] = q.id
                        /\ rows' = {r \in rows : KeyOf(r) # KeyOf(q)} \cup {q}
  BY Committed
<1>2. PICK a \in {"ok", "error"} : Return(p, a)
  BY CommitFacts
<1>3. /\ pc[p] = "commit" /\ Own(p) /\ drawn' = drawn /\ Others(p)
      /\ pc'[p] = "idle" /\ staged'[p] = {} /\ found'[p] = None /\ answer'[p] = a
  <2>1. pc[p] = "commit" /\ Own(p) /\ drawn' = drawn
    BY CommitFacts DEF IInv
  <2>2. \A t \in Loaders :
          /\ answer'[t] = IF t = p THEN a ELSE answer[t]
          /\ staged'[t] = IF t = p THEN {} ELSE staged[t]
          /\ request'[t] = IF t = p THEN None ELSE request[t]
          /\ found'[t] = IF t = p THEN None ELSE found[t]
          /\ pc'[t] = IF t = p THEN "idle" ELSE pc[t]
    BY <1>2 DEF IInv, Return, Ended, Goto, TypeOK
  <2> QED
    BY <2>1, <2>2 DEF Others
<1>4. RowsInv' /\ \A r \in Rows : Parents(r) => Parents(r)'
  BY <1>1, <1>3, CommitRows
<1>5. ReadBackFinds'
  BY <1>3 DEF IInv, ReadBackFinds, Others
<1>6. told' \subseteq Given'
  <2>1. told \subseteq Given'
    BY <1>1, CommitGives DEF IInv
  <2>2. q.id # None => <<KeyOf(q), q.id>> \in Given'
    BY <1>1, CommitGives DEF Writes, WellFormed
  <2>3. KeyOf(request[p]) = KeyOf(q)
    BY <1>1 DEF Writes
  <2> QED
    BY <1>1, <2>1, <2>2, <2>3, CommitFacts
<1>7. ASSUME NEW t \in Loaders
      PROVE  Own(t)'
  <2>1. CASE t = p
    BY <1>3, <2>1 DEF Own
  <2>2. CASE t # p
    <3>1. /\ pc'[t] = pc[t] /\ staged'[t] = staged[t] /\ request'[t] = request[t]
          /\ found'[t] = found[t]
      BY <1>3, <2>2 DEF Others
    <3>2. Own(t) /\ Apart(p, t)
      BY <2>2 DEF IInv
    <3>3. ASSUME NEW s \in Rows, Writes(t, s)
          PROVE  Writes(t, s)'
      <4>1. KeyOf(s) # KeyOf(q)
        BY <1>1, <3>2, <3>3 DEF Writes, Apart
      <4>2. \A r \in rows' : KeyOf(r) = KeyOf(s) => r.id = s.id
        BY <1>1, <3>3, <4>1 DEF Writes
      <4>3. s.id = request[t].id \/ \E r \in rows' : KeyOf(r) = KeyOf(s) /\ r.id = s.id
        BY <1>1, <3>3, <4>1 DEF Writes
      <4>4. Parents(s)' /\ WellFormed(s)'
        BY <1>4, <3>3 DEF Writes, WellFormed
      <4> QED
        BY <3>1, <3>3, <4>2, <4>3, <4>4 DEF Writes
    <3>4. pc[t] # "idle" => Fresh(request[t].id)'
      <4> SUFFICES ASSUME pc[t] # "idle", request[t].id # None, NEW r \in rows'
                   PROVE  r.id # request[t].id
        BY <3>1 DEF Fresh
      <4>1. Fresh(request[t].id) /\ request[p].id # request[t].id
        BY <1>3, <3>2 DEF Own, Apart
      <4>2. CASE r \in rows
        BY <4>1, <4>2 DEF Fresh
      <4>3. CASE r = q
        BY <1>1, <4>1, <4>3 DEF Fresh, Writes
      <4> QED
        BY <1>1, <4>2, <4>3
    <3>5. \A r : WellFormed(r) <=> WellFormed(r)'
      BY DEF WellFormed
    <3> QED
      BY <1>3, <3>1, <3>2, <3>3, <3>4, <3>5 DEF Own
  <2> QED
    BY <2>1, <2>2
<1>8. ASSUME NEW t \in Loaders, NEW o \in Loaders, t # o
      PROVE  Apart(t, o)'
  <2>1. CASE t = p \/ o = p
    BY <1>3, <2>1 DEF Apart
  <2>2. CASE t # p /\ o # p
    <3>1. Apart(t, o)
      BY <1>8 DEF IInv
    <3> QED
      BY <1>3, <2>2, <3>1 DEF Apart, Others
  <2> QED
    BY <2>1, <2>2
<1> QED
  BY <1>4, <1>5, <1>6, <1>7, <1>8 DEF IInv

-----------------------------------------------------------------------------
(* The invariant, and what follows from it.                                *)

\* FindProductRepo tells what the tables stand for.
LEMMA FindTells ==
  ASSUME IInv, NEW p \in Loaders, NEW slug, NEW url, NEW ref, FindProductRepo(p, slug, url, ref)
  PROVE  /\ UNCHANGED <<rows, staged, writer, drawn, pc, request, found>>
         /\ \E a \in {"ok", "absent"} : answer' = [answer EXCEPT ![p] = a]
         /\ told' = told \/ \E g \in Given : told' = told \cup {g}
<1>1. \A r \in Hits(slug, url, ref) : <<KeyOf(r), r.id>> \in Given
  BY DEF Hits, Given, Identified
<1> QED
  BY <1>1 DEF FindProductRepo

LEMMA FindStep ==
  ASSUME IInv, TypeOK', NEW p \in Loaders, NEW slug, NEW url, NEW ref,
         FindProductRepo(p, slug, url, ref)
  PROVE  IInv'
<1>1. /\ UNCHANGED <<rows, staged, writer, drawn, pc, request, found>>
      /\ answer'[p] \in {"ok", "absent"} /\ Others(p) /\ told' \subseteq Given
  BY FindTells DEF IInv, TypeOK, Others
<1>2. Own(p)'
  BY <1>1 DEF IInv, Own, Fresh, Writes, Parents, IdsOf, WellFormed
<1>3. \A t \in Loaders \ {p} : Apart(p, t)'
  BY <1>1 DEF IInv, Apart
<1> QED
  BY <1>1, <1>2, <1>3, QuietStep

LEMMA CallStep ==
  ASSUME IInv, TypeOK', NEW p \in Loaders, Call(p)
  PROVE  IInv'
<1>0. TypeOK
  BY DEF IInv
<1>1. ASSUME NEW slug \in Slugs, NEW segment \in Attributes, RegisterProduct(p, slug, segment)
      PROVE  IInv'
  BY <1>1, AskFreshStep, RefuseStep DEF RegisterProduct, Identified, Texts
<1>2. ASSUME NEW url \in Urls, RegisterRepo(p, url)
      PROVE  IInv'
  BY <1>2, AskFreshStep, RefuseStep DEF RegisterRepo, Identified, Texts
<1>3. ASSUME NEW product \in Known("product"), NEW repo \in Known("repo") \cup Known("product"),
             NEW ref \in Refs, NEW service \in {None},
             RegisterProductRepo(p, product, repo, ref, service)
      PROVE  IInv'
  <2>1. <<product, repo>> \in Ids \X Ids
    BY <1>0, KnownIds
  <2> QED
    BY <1>3, <2>1, AskFreshStep, RefuseStep DEF RegisterProductRepo, Identified, Texts
<1>4. ASSUME NEW owner \in Known("product_repo"), NEW version \in Versions,
             NEW images \in SUBSET (Attributes \cup {Empty}),
             RegisterProductRepoVersion(p, owner, version, images)
      PROVE  IInv'
  <2>1. owner \in Ids
    BY <1>0, KnownIds
  <2>2. (\A image \in images : registryText(image, TRUE, {})) =>
          registryList(images) \in Attributes \cup {None}
    BY DEF registryList, registryText
  <2> QED
    BY <1>4, <2>1, <2>2, AskPlainStep, RefuseStep
       DEF RegisterProductRepoVersion, Identified, Tables, Texts
<1>5. ASSUME NEW owner \in Known("product_repo"), NEW team \in Teams,
             NEW manager \in Attributes, RegisterRepoOwner(p, owner, team, manager)
      PROVE  IInv'
  <2>1. owner \in Ids
    BY <1>0, KnownIds
  <2> QED
    BY <1>5, <2>1, AskPlainStep, RefuseStep DEF RegisterRepoOwner, Identified, Tables, Texts
<1>6. ASSUME NEW slug \in Slugs, NEW url \in Urls, NEW ref \in Refs,
             FindProductRepo(p, slug, url, ref)
      PROVE  IInv'
  BY <1>6, FindStep
<1> QED
  BY <1>1, <1>2, <1>3, <1>4, <1>5, <1>6 DEF Call

LEMMA InductiveStep == IInv /\ [Next]_vars => IInv'
<1> SUFFICES ASSUME IInv, [Next]_vars
             PROVE  IInv'
  OBVIOUS
<1>0. TypeOK'
  BY TypeStep DEF IInv
<1>1. ASSUME NEW p \in Loaders, Upsert(p)
      PROVE  IInv'
  <2>1. CASE Parents(request[p])
    BY <1>0, <1>1, <2>1, UpsertStep
  <2>2. CASE ~Parents(request[p])
    BY <1>0, <1>1, <2>2, RollbackStep DEF Upsert, Answers
  <2> QED
    BY <2>1, <2>2
<1>2. ASSUME NEW p \in Loaders, Busy(p) \/ Fail(p)
      PROVE  IInv'
  BY <1>0, <1>2, RollbackStep DEF Busy, Fail, Answers
<1>3. ASSUME NEW p \in Loaders,
             Call(p) \/ Begin(p) \/ ReadBack(p) \/ Commit(p) \/ CommitUnheard(p)
      PROVE  IInv'
  BY <1>0, <1>3, CallStep, BeginStep, ReadBackStep, CommitStep
<1>4. CASE UNCHANGED vars
  BY <1>0, <1>4 DEF vars, IInv, RowsInv, ReadBackFinds, Own, Apart, Given, Fresh, Writes,
     Parents, IdsOf, WellFormed
<1> QED
  BY <1>1, <1>2, <1>3, <1>4 DEF Next, Step, Statement

LEMMA InitInv == Init => IInv
<1> SUFFICES ASSUME Init PROVE IInv
  OBVIOUS
<1>1. TypeOK
  BY DEF Init, TypeOK
<1>2. RowsInv /\ ReadBackFinds /\ told \subseteq Given
  BY RegistryAssumption DEF Init, RowsInv, ReadBackFinds, Answers
<1>3. \A p \in Loaders : Own(p)
  BY DEF Init, Own
<1>4. \A p, o \in Loaders : Apart(p, o)
  BY DEF Init, Apart
<1> QED
  BY <1>1, <1>2, <1>3, <1>4 DEF IInv

\* The inductive invariant, of every reachable state.
THEOREM Invariant == Spec => []IInv
BY InitInv, InductiveStep, PTL DEF Spec

\* Every reachable state is of the declared types.
THEOREM TypeCorrect == Spec => []TypeOK
<1>1. IInv => TypeOK
  BY DEF IInv
<1> QED
  BY <1>1, Invariant, PTL

\* The read-back inside the transaction always finds a row.
THEOREM ReadBackSucceeds == Spec => []ReadBackFinds
<1>1. IInv => ReadBackFinds
  BY DEF IInv
<1> QED
  BY <1>1, Invariant, PTL

\* FindProductRepo finds every product_repo row by names, and nothing beside it.
THEOREM NamesFindTheirRow == Spec => []FoundByName
<1>1. ASSUME IInv, NEW r \in rows, r.table = "product_repo"
      PROVE  \E slug \in Slugs, url \in Urls : Hits(slug, url, r.name) = {r}
  <2>0. rows \subseteq Rows /\ \A s \in rows : WellFormed(s)
    BY <1>1 DEF IInv, TypeOK, RowsInv
  <2>1. r.parents[1] \in IdsOf("product") /\ r.parents[2] \in IdsOf("repo")
    BY <1>1 DEF IInv, RowsInv, Parents
  <2>2. PICK a \in rows : a.table = "product" /\ a.id = r.parents[1]
    BY <2>1 DEF IdsOf
  <2>3. PICK b \in rows : b.table = "repo" /\ b.id = r.parents[2]
    BY <2>1 DEF IdsOf
  <2>4. a.name \in Slugs /\ b.name \in Urls
    BY <2>0, <2>2, <2>3 DEF WellFormed
  <2>5. r \in Hits(a.name, b.name, r.name)
    BY <1>1, <2>2, <2>3 DEF Hits
  <2>6. ASSUME NEW s \in Hits(a.name, b.name, r.name)
        PROVE  s = r
    <3>1. s \in rows /\ s.table = "product_repo" /\ s.name = r.name
      BY DEF Hits
    <3>2. PICK x \in rows : x.table = "product" /\ x.name = a.name /\ x.id = s.parents[1]
      BY DEF Hits
    <3>3. PICK y \in rows : y.table = "repo" /\ y.name = b.name /\ y.id = s.parents[2]
      BY DEF Hits
    <3>4. x = a
      BY <1>1, <2>0, <2>2, <3>2, SameKey DEF IInv, RowsInv, WellFormed
    <3>5. y = b
      BY <1>1, <2>0, <2>3, <3>3, SameKey DEF IInv, RowsInv, WellFormed
    <3>6. s.parents = r.parents
      BY <1>1, <2>0, <2>2, <2>3, <3>1, <3>2, <3>3, <3>4, <3>5 DEF WellFormed
    <3> QED
      BY <1>1, <2>0, <3>1, <3>6, SameKey DEF IInv, RowsInv
  <2> QED
    BY <2>4, <2>5, <2>6
<1>2. IInv => FoundByName
  BY <1>1 DEF FoundByName
<1> QED
  BY <1>2, Invariant, PTL

-----------------------------------------------------------------------------
(* Refinement: a registration is one step of Names.                        *)

LEMMA InitRefines == Init => N!Init
BY DEF Init, N!Init, Given

LEMMA CommitRefines ==
  ASSUME IInv, NEW p \in Loaders, Commit(p) \/ CommitUnheard(p)
  PROVE  \/ UNCHANGED <<Given, told>>
         \/ \E g \in Given' : N!Register(g[1], g[2])
<1>1. PICK q \in Rows : /\ Writes(p, q) /\ found[p] = q.id
                        /\ rows' = {r \in rows : KeyOf(r) # KeyOf(q)} \cup {q}
  BY Committed
<1>2. Given' = IF q.table \in Identified THEN Given \cup {<<KeyOf(q), q.id>>} ELSE Given
  BY <1>1, CommitGives
<1>3. KeyOf(q) = KeyOf(request[p]) /\ (q.id # None <=> q.table \in Identified)
  BY <1>1 DEF Writes, WellFormed
<1>4. told' = told \/ (q.id # None /\ told' = told \cup {<<KeyOf(q), q.id>>})
  BY <1>1, <1>3, CommitFacts
<1>5. CASE q.table \notin Identified
  BY <1>2, <1>3, <1>4, <1>5
<1>6. CASE q.table \in Identified
  <2> DEFINE g == <<KeyOf(q), q.id>>
  <2>1. g \in Given' /\ Given' = Given \cup {g} /\ g[1] = KeyOf(q) /\ g[2] = q.id
    BY <1>2, <1>6
  <2>2. told' \in {told, told \cup {g}}
    BY <1>4
  <2>3. CASE g \in Given
    BY <2>1, <2>2, <2>3 DEF N!Register, N!Know
  <2>4. CASE g \notin Given
    <3>1. ASSUME NEW r \in rows, r.table \in Identified
          PROVE  KeyOf(r) # KeyOf(q) /\ r.id # q.id
      <4>1. KeyOf(r) # KeyOf(q)
        BY <1>1, <2>4, <3>1 DEF Writes, Given
      <4>2. q.id = request[p].id
        <5>1. CASE \E s \in rows : KeyOf(s) = KeyOf(q) /\ s.id = q.id
          BY <1>6, <2>4, <5>1, SameKey DEF Given, IInv, TypeOK
        <5> QED
          BY <1>1, <5>1 DEF Writes
      <4>3. Fresh(q.id)
        BY <4>2, CommitFacts DEF IInv, Own
      <4> QED
        BY <1>3, <1>6, <4>1, <4>3 DEF Fresh
    <3>2. \A h \in Given : h[1] # KeyOf(q) /\ h[2] # q.id
      BY <3>1 DEF Given
    <3> QED
      BY <2>1, <2>2, <3>2 DEF N!Register, N!Give
  <2> QED
    BY <2>3, <2>4
<1> QED
  BY <1>5, <1>6

LEMMA StepRefines ==
  ASSUME IInv, [Next]_vars
  PROVE  [\E g \in Given' : N!Register(g[1], g[2])]_<<Given, told>>
<1>1. rows' = rows => Given' = Given
  BY DEF Given
<1>2. ASSUME NEW p \in Loaders, NEW slug \in Slugs, NEW url \in Urls, NEW ref \in Refs,
             FindProductRepo(p, slug, url, ref)
      PROVE  \/ UNCHANGED <<Given, told>>
             \/ \E g \in Given' : N!Register(g[1], g[2])
  <2>1. Given' = Given
    BY <1>1, <1>2, FindTells
  <2>2. CASE told' = told
    BY <2>1, <2>2
  <2>3. CASE \E g \in Given : told' = told \cup {g}
    <3>1. PICK g \in Given : told' = told \cup {g}
      BY <2>3
    <3>2. g = <<g[1], g[2]>>
      BY DEF Given
    <3> QED
      BY <2>1, <3>1, <3>2 DEF N!Register, N!Know
  <2> QED
    BY <1>2, <2>2, <2>3, FindTells
<1>3. ASSUME NEW p \in Loaders, Call(p)
      PROVE  \/ UNCHANGED <<Given, told>>
             \/ \E g \in Given' : N!Register(g[1], g[2])
  BY <1>1, <1>2, <1>3 DEF Call, RegisterProduct, RegisterRepo, RegisterProductRepo,
     RegisterProductRepoVersion, RegisterRepoOwner, AskFresh, Ask, Refuse
<1>4. ASSUME NEW p \in Loaders,
             Begin(p) \/ Busy(p) \/ Upsert(p) \/ ReadBack(p) \/ Fail(p)
      PROVE  UNCHANGED <<Given, told>>
  BY <1>1, <1>4 DEF Begin, Busy, Upsert, ReadBack, Fail, Rollback
<1>5. CASE UNCHANGED vars
  BY <1>1, <1>5 DEF vars
<1> QED
  BY <1>3, <1>4, <1>5, CommitRefines DEF Next, Step, Statement

\* Every name gets one identifier, once, and every answer about it, of any loader
\* and after any lost reply, is that identifier.
THEOREM RegistryIsAMap == Spec => IdentifiersAreStable
BY InitRefines, StepRefines, Invariant, PTL DEF Spec, IdentifiersAreStable, N!Spec

-----------------------------------------------------------------------------
(* Why every call returns: the waits.                                      *)

Writing == {"upsert", "read", "commit"}

\* On SQLite the writer is the one loader in a transaction; PostgreSQL has none.
WriterInv ==
  \A o \in Loaders : writer = o <=> dialect = "sqlite" /\ pc[o] \in Writing

LEMMA WriterStep ==
  ASSUME TypeOK, WriterInv, [Next]_vars
  PROVE  WriterInv'
<1>0. /\ None \notin Loaders
      /\ dialect' = dialect
  BY RegistryAssumption DEF Next, Step, vars
<1> USE <1>0
<1>1. ASSUME NEW p \in Loaders, NEW table, NEW parents, NEW name, NEW i, NEW attributes,
             Ask(p, table, parents, name, i, attributes), At(p, "idle")
      PROVE  WriterInv'
  BY <1>1 DEF Ask, Goto, At, WriterInv, TypeOK, Writing
<1>2. ASSUME NEW p \in Loaders, Refuse(p)
      PROVE  WriterInv'
  BY <1>2 DEF Refuse, WriterInv
<1>3. ASSUME NEW p \in Loaders, Call(p)
      PROVE  WriterInv'
  <2>1. CASE \E slug \in Slugs, segment \in Attributes : RegisterProduct(p, slug, segment)
    BY <1>1, <1>2, <2>1 DEF RegisterProduct, AskFresh
  <2>2. CASE \E url \in Urls : RegisterRepo(p, url)
    BY <1>1, <1>2, <2>2 DEF RegisterRepo, AskFresh
  <2>3. CASE \E product, repo, ref, service : RegisterProductRepo(p, product, repo, ref, service)
    BY <1>1, <1>2, <2>3 DEF RegisterProductRepo, AskFresh
  <2>4. CASE \E owner, version, images : RegisterProductRepoVersion(p, owner, version, images)
    BY <1>1, <1>2, <2>4 DEF RegisterProductRepoVersion
  <2>5. CASE \E owner, team, manager : RegisterRepoOwner(p, owner, team, manager)
    BY <1>1, <1>2, <2>5 DEF RegisterRepoOwner
  <2>6. CASE \E slug, url, ref : FindProductRepo(p, slug, url, ref)
    BY <2>6 DEF FindProductRepo, WriterInv
  <2> QED
    BY <1>3, <2>1, <2>2, <2>3, <2>4, <2>5, <2>6 DEF Call
<1>4. ASSUME NEW p \in Loaders, Begin(p)
      PROVE  WriterInv'
  BY <1>4 DEF Begin, At, Goto, WriterInv, TypeOK, Writing
<1>5. ASSUME NEW p \in Loaders, NEW a, Return(p, a)
      PROVE  WriterInv'
  BY <1>5 DEF Return, Released, Goto, WriterInv, TypeOK, Writing
<1>6. ASSUME NEW p \in Loaders, NEW s \in Writing, Goto(p, s), pc[p] \in Writing,
             writer' = writer
      PROVE  WriterInv'
  BY <1>6 DEF Goto, WriterInv, TypeOK
<1>7. ASSUME NEW p \in Loaders, Upsert(p) \/ ReadBack(p)
      PROVE  WriterInv'
  BY <1>5, <1>6, <1>7 DEF Upsert, ReadBack, At, Rollback, Writing
<1>8. ASSUME NEW p \in Loaders, Busy(p) \/ Commit(p) \/ CommitUnheard(p) \/ Fail(p)
      PROVE  WriterInv'
  BY <1>5, <1>8 DEF Busy, Commit, CommitUnheard, Fail, Rollback
<1>9. CASE UNCHANGED vars
  BY <1>9 DEF vars, WriterInv
<1> QED
  BY <1>3, <1>4, <1>7, <1>8, <1>9 DEF Next, Step, Statement

LEMMA WaitsEndHere ==
  ASSUME IInv, WriterInv
  PROVE  WaitsEnd
<1>1. ASSUME NEW p \in Loaders, NEW o \in Loaders, WaitsFor(p, o)
      PROVE  /\ pc[o] \in Writing
             /\ dialect = "sqlite" \/ pc[o] \in {"read", "commit"}
  BY <1>1 DEF WaitsFor, At, WriterInv, Writing, IInv, Own
<1>2. ASSUME NEW p \in Loaders, NEW o \in Loaders, WaitsFor(p, o),
             NEW u \in Loaders, WaitsFor(o, u)
      PROVE  FALSE
  <2>1. dialect = "sqlite" /\ At(o, "upsert") /\ u # o /\ pc[u] \in Writing
    BY <1>1, <1>2 DEF WaitsFor, At, Writing
  <2> QED
    BY <2>1 DEF WriterInv, At, Writing
<1> QED
  BY <1>1, <1>2 DEF WaitsEnd, At, Writing

\* Who waits, by WaitsFor, is who finds that conjunct of its statement's guard
\* false which speaks of other transactions.
LEMMA WaitingIsBeingBlocked ==
  ASSUME TypeOK, NEW p \in Loaders
  PROVE  (\E o \in Loaders : WaitsFor(p, o)) <=>
           \/ At(p, "begin") /\ dialect = "sqlite" /\ writer # None
           \/ At(p, "upsert") /\ Contended(p)
<1>1. writer # None <=> \E o \in Loaders : writer = o
  BY RegistryAssumption DEF TypeOK
<1>2. CASE At(p, "begin")
  BY <1>1, <1>2 DEF WaitsFor, At
<1>3. CASE At(p, "upsert")
  BY <1>3 DEF WaitsFor, At, Contended
<1> QED
  BY <1>2, <1>3 DEF WaitsFor

\* Upserts of one key wait for a transaction that waits for nobody: loaders with
\* overlapping inventories never deadlock, in whatever order they register.
THEOREM WaitsEndTheorem == Spec => []WaitsEnd
<1>1. Init => WriterInv
  BY RegistryAssumption DEF Init, WriterInv, Writing
<1>2. TypeOK /\ WriterInv /\ [Next]_vars => WriterInv'
  BY WriterStep
<1>3. IInv /\ WriterInv => WaitsEnd
  BY WaitsEndHere
<1> QED
  BY <1>1, <1>2, <1>3, TypeCorrect, Invariant, PTL DEF Spec
=============================================================================
