------------------------ MODULE CurrentViewsProofs ------------------------
(***************************************************************************)
(* Proofs about CurrentViews: which evidence counts is determined, for any *)
(* set of candidate rows, any stamps and any documents.                    *)
(***************************************************************************)
EXTENDS CurrentViews, BindingProofs, FiniteSetTheorems

-----------------------------------------------------------------------------
(* The two comparisons are strict total orders of the bindings.            *)

LEMMA EntryFacts ==
  ASSUME NEW e \in Entries
  PROVE  /\ e.row \in Candidates /\ e.row \in Rows
         /\ e.row.id \in BindingIds /\ e.row.id # None
         /\ e.at \in Int /\ bound_at(e) \in Int
         /\ Rank[e.row.id] \in Int
         /\ Doc(e).aware \in BOOLEAN
<1>1. e.row \in Candidates /\ e.row \in Rows
  BY CandidateAssumption DEF Entries
<1>2. e.row.id \in BindingIds /\ e.row.id # None
  BY <1>1, NoneAssumption DEF Rows, BindingIds
<1>3. e.at \in Int
  <2>1. e.at \in Instants
    BY DEF Entries
  <2>2. e.at \in Nat
    BY <2>1, InstantAssumption
  <2> QED
    BY <2>2
<1>4. bound_at(e) \in Int
  BY <1>3 DEF bound_at, TextOrder
<1>5. Rank[e.row.id] \in Int
  BY <1>2, RankAssumption
<1>6. e.row.id.digest \in Digests
  BY <1>2 DEF BindingIds
<1>7. Doc(e).aware \in BOOLEAN
  BY <1>6, DocumentAssumption DEF Doc, DocumentType
<1> QED
  BY <1>1, <1>2, <1>3, <1>4, <1>5, <1>7

LEMMA NewerOrder ==
  ASSUME NEW x \in Entries, NEW y \in Entries, NEW z \in Entries
  PROVE  /\ ~ Newer(x, x)
         /\ Newer(x, y) /\ Newer(y, z) => Newer(x, z)
         /\ x.row.id # y.row.id => Newer(x, y) \/ Newer(y, x)
<1>1. \A e \in {x, y, z} : bound_at(e) \in Int /\ Rank[e.row.id] \in Int
  BY EntryFacts
<1>2. x.row.id # y.row.id => Rank[x.row.id] # Rank[y.row.id]
  BY EntryFacts, RankAssumption
<1> QED
  BY <1>1, <1>2 DEF Newer

LEMMA PrefersOrder ==
  ASSUME NEW x \in Entries, NEW y \in Entries, NEW z \in Entries
  PROVE  /\ ~ Prefers(x, x)
         /\ Prefers(x, y) /\ Prefers(y, z) => Prefers(x, z)
         /\ x.row.id # y.row.id => Prefers(x, y) \/ Prefers(y, x)
<1>1. \A e \in {x, y, z} : Doc(e).aware \in BOOLEAN
  BY EntryFacts
<1>2. /\ ~ Newer(x, x)
      /\ Newer(x, y) /\ Newer(y, z) => Newer(x, z)
      /\ x.row.id # y.row.id => Newer(x, y) \/ Newer(y, x)
  BY NewerOrder
<1> QED
  BY <1>1, <1>2 DEF Prefers

-----------------------------------------------------------------------------
(* The inductive invariant.                                                *)

\* A binding is stamped once.
OneStamp == \A x, y \in entries : x.row.id = y.row.id => x = y

\* Any bindings include one that none of them supersedes, ...
HasHead(E) ==
  \A S \in SUBSET E : S # {} => \E x \in S : \A y \in S : ~ Supersedes(y, x)

\* ... one that none of them is newer than, ...
HasNewest(E) ==
  \A S \in SUBSET E : S # {} => \E x \in S : \A y \in S : ~ Newer(y, x)

\* ... and one that none of them outranks.
HasPreferred(E) ==
  \A S \in SUBSET E : S # {} => \E x \in S : \A y \in S : ~ Prefers(y, x)

IInv ==
  /\ TypeOK
  /\ GoodHistory(rows)
  /\ OneStamp
  /\ HasHead(entries)
  /\ HasNewest(entries)
  /\ HasPreferred(entries)

LEMMA JoinHead ==
  ASSUME NEW E, NEW n, HasHead(E), ~ Supersedes(n, n), \A x \in E : ~ Supersedes(x, n)
  PROVE  HasHead(E \cup {n})
<1> SUFFICES ASSUME NEW S \in SUBSET (E \cup {n}), S # {}
             PROVE  \E x \in S : \A y \in S : ~ Supersedes(y, x)
  BY DEF HasHead
<1>1. CASE n \in S
  BY <1>1
<1>2. CASE n \notin S
  BY <1>2 DEF HasHead
<1> QED
  BY <1>1, <1>2

LEMMA JoinNewest ==
  ASSUME NEW E \in SUBSET Entries, NEW n \in Entries, HasNewest(E)
  PROVE  HasNewest(E \cup {n})
<1> SUFFICES ASSUME NEW S \in SUBSET (E \cup {n}), S # {}
             PROVE  \E x \in S : \A y \in S : ~ Newer(y, x)
  BY DEF HasNewest
<1>1. CASE S \ {n} = {}
  <2>1. S = {n}
    BY <1>1
  <2> QED
    BY <2>1, NewerOrder
<1>2. CASE S \ {n} # {}
  <2>1. PICK x \in S \ {n} : \A y \in S \ {n} : ~ Newer(y, x)
    BY <1>2 DEF HasNewest
  <2>2. CASE n \in S /\ Newer(n, x)
    <3>1. ASSUME NEW y \in S, Newer(y, n)
          PROVE  FALSE
      BY <2>1, <2>2, <3>1, NewerOrder
    <3> QED
      BY <2>2, <3>1
  <2>3. CASE ~ (n \in S /\ Newer(n, x))
    BY <2>1, <2>3
  <2> QED
    BY <2>2, <2>3
<1> QED
  BY <1>1, <1>2

LEMMA JoinPreferred ==
  ASSUME NEW E \in SUBSET Entries, NEW n \in Entries, HasPreferred(E)
  PROVE  HasPreferred(E \cup {n})
<1> SUFFICES ASSUME NEW S \in SUBSET (E \cup {n}), S # {}
             PROVE  \E x \in S : \A y \in S : ~ Prefers(y, x)
  BY DEF HasPreferred
<1>1. CASE S \ {n} = {}
  <2>1. S = {n}
    BY <1>1
  <2> QED
    BY <2>1, PrefersOrder
<1>2. CASE S \ {n} # {}
  <2>1. PICK x \in S \ {n} : \A y \in S \ {n} : ~ Prefers(y, x)
    BY <1>2 DEF HasPreferred
  <2>2. CASE n \in S /\ Prefers(n, x)
    <3>1. ASSUME NEW y \in S, Prefers(y, n)
          PROVE  FALSE
      BY <2>1, <2>2, <3>1, PrefersOrder
    <3> QED
      BY <2>2, <3>1
  <2>3. CASE ~ (n \in S /\ Prefers(n, x))
    BY <2>1, <2>3
  <2> QED
    BY <2>2, <2>3
<1> QED
  BY <1>1, <1>2

LEMMA InitInv == Init => IInv
<1> SUFFICES ASSUME Init PROVE IInv
  OBVIOUS
<1>1. entries = {} /\ rows = {}
  BY DEF Init, rows
<1> QED
  BY <1>1, EmptyHistory
     DEF IInv, TypeOK, OneStamp, HasHead, HasNewest, HasPreferred

\* What a save finds before it and leaves behind.
LEMMA BindFacts ==
  ASSUME IInv, NEW r \in Candidates, NEW at \in Instants, Bind(r, at),
         NEW n, n = [row |-> r, at |-> at]
  PROVE  /\ n \in Entries
         /\ entries' = entries \cup {n}
         /\ rows' = rows \cup {r}
         /\ MayJoin(r, rows)
         /\ \A x \in entries : x.row.id # r.id /\ ~ Supersedes(x, n)
         /\ ~ Supersedes(n, n)
<1>1. n \in Entries /\ n.row = r
  BY DEF Entries
<1>2. entries' = entries \cup {n}
  BY DEF Bind
<1>3. rows' = rows \cup {r}
  BY <1>1, <1>2 DEF rows
<1>4. MayJoin(r, rows)
  BY DEF Bind, MayJoin, rows
<1>5. \A x \in entries : x.row \in rows
  BY DEF rows
<1>6. \A x \in entries : x.row.id # r.id
  BY <1>4, <1>5 DEF MayJoin
<1>7. r.id # None
  BY <1>1, EntryFacts
<1>8. \A x \in rows : x.supersedes # r.id
  BY <1>4, <1>7, NotYetSuperseded DEF IInv, GoodHistory, MayJoin
<1>9. ~ Supersedes(n, n)
  BY <1>1 DEF Bind, Supersedes
<1> QED
  BY <1>1, <1>2, <1>3, <1>4, <1>5, <1>6, <1>8, <1>9 DEF Supersedes

LEMMA NextInv == IInv /\ [Next]_entries => IInv'
<1> SUFFICES ASSUME IInv, [Next]_entries PROVE IInv'
  OBVIOUS
<1>1. CASE UNCHANGED entries
  BY <1>1 DEF IInv, TypeOK, rows, OneStamp
<1>2. ASSUME NEW r \in Candidates, NEW at \in Instants, Bind(r, at)
      PROVE  IInv'
  <2> DEFINE n == [row |-> r, at |-> at]
  <2>1. /\ n \in Entries
        /\ entries' = entries \cup {n}
        /\ rows' = rows \cup {r}
        /\ MayJoin(r, rows)
        /\ \A x \in entries : x.row.id # r.id /\ ~ Supersedes(x, n)
        /\ ~ Supersedes(n, n)
    BY <1>2, BindFacts
  <2>2. n.row = r /\ n.at = at /\ r.id # None
    BY <2>1, EntryFacts
  <2> HIDE DEF n
  <2>3. TypeOK'
    BY <2>1 DEF IInv, TypeOK
  <2>4. GoodHistory(rows)'
    <3>1. GoodHistory(rows \cup {r})
      BY <2>1, <2>2, JoinGoodHistory DEF IInv
    <3> QED
      BY <2>1, <3>1
  <2>5. OneStamp'
    BY <2>1, <2>2 DEF IInv, OneStamp
  <2>6. HasHead(entries')
    BY <2>1, JoinHead DEF IInv
  <2>7. HasNewest(entries')
    BY <2>1, JoinNewest DEF IInv, TypeOK
  <2>8. HasPreferred(entries')
    BY <2>1, JoinPreferred DEF IInv, TypeOK
  <2> QED
    BY <2>3, <2>4, <2>5, <2>6, <2>7, <2>8 DEF IInv
<1> QED
  BY <1>1, <1>2 DEF Next

\* The committed bindings are a good history, each stamped once, of which any part
\* has a newest, a preferred and an unsuperseded member.
THEOREM Invariant == Spec => []IInv
BY InitInv, NextInv, PTL DEF Spec

\* Every reachable state has the declared types.
THEOREM TypeCorrect == Spec => []TypeOK
BY Invariant, PTL DEF IInv

-----------------------------------------------------------------------------
(* Which evidence counts.                                                  *)

\* Two bindings neither of which is newer are the same one.
LEMMA NewestUnique ==
  ASSUME IInv, NEW x \in entries, NEW y \in entries, ~ Newer(x, y), ~ Newer(y, x)
  PROVE  x = y
BY NewerOrder DEF IInv, TypeOK, OneStamp

\* A successor has the context of its predecessor.
LEMMA SameContext ==
  ASSUME IInv, NEW x \in entries, NEW y \in rows, y.supersedes = x.row.id
  PROVE  y.id.context = x.row.id.context
<1>1. x.row.id # None /\ x.row \in rows
  BY EntryFacts DEF IInv, TypeOK, rows
<1>2. PICK p \in rows : p.id = y.supersedes /\ Continues(y, p)
  BY <1>1 DEF IInv, GoodHistory, Grounded
<1> QED
  BY <1>2 DEF Continues

\* A subject with a report has one that counts ...
LEMMA SomeReportCounts ==
  ASSUME IInv, NEW e \in Named("report")
  PROVE  \E x \in report_current : SubjectOf(x) = SubjectOf(e)
<1> DEFINE S == {x \in Named("report") : SubjectOf(x) = SubjectOf(e)}
           C == {x \in CurrentReports : SubjectOf(x) = SubjectOf(e)}
<1>1. S \in SUBSET entries /\ e \in S
  BY DEF Named
<1>2. PICK h \in S : \A y \in S : ~ Supersedes(y, h)
  BY <1>1 DEF IInv, HasHead
<1>3. ASSUME NEW y \in rows, y.supersedes = h.row.id
      PROVE  FALSE
  <2>1. PICK z \in entries : z.row = y
    BY DEF rows
  <2>2. y.id.context = h.row.id.context
    BY <1>1, <1>2, <1>3, SameContext
  <2>3. z \in S
    BY <1>2, <2>1, <2>2 DEF Named, SubjectOf
  <2> QED
    BY <1>2, <1>3, <2>1, <2>3 DEF Supersedes
<1>4. h \in C
  BY <1>1, <1>2, <1>3 DEF CurrentReports, Superseded, Current, rows
<1>5. C \in SUBSET entries
  BY DEF CurrentReports, Named
<1>6. PICK x \in C : \A y \in C : ~ Prefers(y, x)
  BY <1>4, <1>5 DEF IInv, HasPreferred
<1> QED
  BY <1>6 DEF report_current

\* ... and only one.
LEMMA OneReportCounts ==
  ASSUME IInv, NEW x \in report_current, NEW y \in report_current,
         SubjectOf(x) = SubjectOf(y)
  PROVE  x = y
<1>1. x \in entries /\ y \in entries
  BY DEF report_current, CurrentReports, Named
<1>2. ~ Prefers(x, y) /\ ~ Prefers(y, x)
  BY DEF report_current
<1> QED
  BY <1>1, <1>2, PrefersOrder DEF IInv, TypeOK, OneStamp

\* A declared subject has exactly one owner, of whatever scope.
LEMMA OneOwner ==
  ASSUME IInv, NEW s
  PROVE  /\ Declarations(s) # {} => ownership_current(s) # {}
         /\ \A x, y \in ownership_current(s) : x = y
<1>1. Declarations(s) \in SUBSET entries
  BY DEF Declarations, Named
<1>2. ASSUME Declarations(s) # {}
      PROVE  ownership_current(s) # {}
  <2>1. PICK x \in Declarations(s) : \A y \in Declarations(s) : ~ Newer(y, x)
    BY <1>1, <1>2 DEF IInv, HasNewest
  <2> QED
    BY <2>1 DEF ownership_current
<1>3. \A x, y \in ownership_current(s) : x = y
  BY <1>1, NewestUnique DEF ownership_current
<1> QED
  BY <1>2, <1>3

\* The LEFT JOIN with the owners neither drops nor repeats a row.
LEMMA OneOwnerRow ==
  ASSUME IInv, NEW e
  PROVE  OwnerOf(e) # {} /\ \A o, p \in OwnerOf(e) : o = p
BY OneOwner DEF OwnerOf

\* Exactly one report of a subject counts, and each of its findings has one row
\* on the spine.
THEOREM FindingsCountedOnce == Spec => []FindingCountedOnce
<1>1. IInv => FindingCountedOnce
  <2> SUFFICES ASSUME IInv PROVE FindingCountedOnce
    OBVIOUS
  <2>1. ASSUME NEW e \in Named("report")
        PROVE  LET counted == {x \in report_current : SubjectOf(x) = SubjectOf(e)}
               IN  counted # {} /\ Unique(counted)
    BY SomeReportCounts, OneReportCounts DEF Unique
  <2>2. ASSUME NEW e \in report_current, NEW f \in FindingRows(e)
        PROVE  LET counted == {p \in current_finding : p.entry = e /\ p.finding = f}
               IN  counted # {} /\ Unique(counted)
    <3> DEFINE Rows_(x) == [entry : {x}, finding : FindingRows(x), owner : OwnerOf(x)]
               counted == {p \in current_finding : p.entry = e /\ p.finding = f}
    <3>1. PICK o : o \in OwnerOf(e)
      BY OneOwnerRow
    <3>2. [entry |-> e, finding |-> f, owner |-> o] \in Rows_(e)
      BY <3>1
    <3>3. [entry |-> e, finding |-> f, owner |-> o] \in counted
      BY <3>2 DEF current_finding
    <3>4. \A p \in counted : p = [entry |-> e, finding |-> f, owner |-> p.owner]
                             /\ p.owner \in OwnerOf(e)
      BY DEF current_finding
    <3>5. Unique(counted)
      <4> SUFFICES ASSUME NEW p \in counted, NEW q \in counted PROVE p = q
        BY DEF Unique
      <4>1. p.owner = q.owner
        BY <3>4, OneOwnerRow
      <4> QED
        BY <3>4, <4>1
    <3> QED
      BY <3>3, <3>5
  <2> QED
    BY <2>1, <2>2 DEF FindingCountedOnce
<1> QED
  BY <1>1, Invariant, PTL

\* Exactly one threat model of a subject, one analysis of an advisory and one
\* declaration of a subject count, on either database.
THEOREM DocumentsCountedOnce == Spec => []OneDocumentPerKey
<1>1. IInv => OneDocumentPerKey
  <2> SUFFICES ASSUME IInv PROVE OneDocumentPerKey
    OBVIOUS
  <2>1. ASSUME NEW e \in Named("threat-model")
        PROVE  LET counted == {x \in threat_current : SubjectOf(x) = SubjectOf(e)}
               IN  counted # {} /\ Unique(counted)
    <3> DEFINE S == {x \in Named("threat-model") : SubjectOf(x) = SubjectOf(e)}
    <3>1. S \in SUBSET entries /\ S # {}
      BY DEF Named
    <3>2. \E x \in S : \A y \in S : ~ Newer(y, x)
      BY <3>1 DEF IInv, HasNewest
    <3> QED
      BY <3>1, <3>2, NewestUnique DEF threat_current, NewestPer, Unique
  <2>2. ASSUME NEW e \in Named("impact-analysis")
        PROVE  LET counted == {x \in advisory_exposure : AdvisoryOf(x) = AdvisoryOf(e)}
               IN  counted # {} /\ Unique(counted)
    <3> DEFINE S == {x \in Named("impact-analysis") : AdvisoryOf(x) = AdvisoryOf(e)}
    <3>1. S \in SUBSET entries /\ S # {}
      BY DEF Named
    <3>2. \E x \in S : \A y \in S : ~ Newer(y, x)
      BY <3>1 DEF IInv, HasNewest
    <3> QED
      BY <3>1, <3>2, NewestUnique DEF advisory_exposure, NewestPer, Unique
  <2>3. \A s \in Subjects : Declarations(s) # {} =>
          ownership_current(s) # {} /\ Unique(ownership_current(s))
    BY OneOwner DEF Unique
  <2> QED
    BY <2>1, <2>2, <2>3 DEF OneDocumentPerKey
<1> QED
  BY <1>1, Invariant, PTL

-----------------------------------------------------------------------------
(* Where the order of the stamps is the order in time.                     *)

\* PostgreSQL compares times; SQLite compares texts, which agree with the times
\* when RFC3339Nano has no trailing zero to drop.
StampsCompare == Dialect = "postgres" \/ \A t \in Instants : t % 10 # 0

LEMMA TextOrderKept ==
  ASSUME NEW t \in Nat, NEW u \in Nat, t % 10 # 0, u % 10 # 0
  PROVE  t < u <=> TextOrder(t) < TextOrder(u)
<1> DEFINE place(v) == 111 * (v \div 100) + 11 * ((v % 100) \div 10) + (v % 10)
<1>1. \A v \in Nat : v % 10 # 0 => TextOrder(v) = place(v)
  BY SMT DEF TextOrder
<1>2. \A v \in Nat :
        /\ v = 100 * (v \div 100) + 10 * ((v % 100) \div 10) + (v % 10)
        /\ v \div 100 \in Nat /\ (v % 100) \div 10 \in 0..9 /\ v % 10 \in 0..9
  BY SMT
<1>3. t < u <=> place(t) < place(u)
  BY <1>2, SMT
<1> QED
  BY <1>1, <1>3

LEMMA StampOrder ==
  ASSUME StampsCompare, NEW x \in Entries, NEW y \in Entries
  PROVE  x.at < y.at <=> bound_at(x) < bound_at(y)
<1>1. x.at \in Instants /\ y.at \in Instants
  BY DEF Entries
<1>2. CASE Dialect = "postgres"
  BY <1>2 DEF bound_at
<1>3. CASE Dialect # "postgres"
  <2>1. /\ x.at \in Nat /\ x.at % 10 # 0
        /\ y.at \in Nat /\ y.at % 10 # 0
    BY <1>1, <1>3, InstantAssumption DEF StampsCompare
  <2>2. x.at < y.at <=> TextOrder(x.at) < TextOrder(y.at)
    BY <2>1, TextOrderKept
  <2> QED
    BY <1>3, <2>2 DEF bound_at
<1> QED
  BY <1>2, <1>3

\* A binding that is not newer was not made later.
LEMMA NotNewer ==
  ASSUME StampsCompare, NEW x \in Entries, NEW y \in Entries, ~ Newer(x, y)
  PROVE  y.at >= x.at
<1>1. x.at \in Int /\ y.at \in Int /\ bound_at(x) \in Int /\ bound_at(y) \in Int
  BY EntryFacts
<1>2. ~ bound_at(x) > bound_at(y)
  BY DEF Newer
<1>3. y.at < x.at <=> bound_at(y) < bound_at(x)
  BY StampOrder
<1> QED
  BY <1>1, <1>2, <1>3

\* Where stamps compare as times, a document whose correction is stamped later
\* counts only for what the correction no longer speaks of.
THEOREM CorrectionTheorem ==
  ASSUME StampsCompare
  PROVE  Spec => []CorrectionsCount
<1>1. IInv => CorrectionsCount
  <2> SUFFICES ASSUME IInv, NEW x \in entries, NEW y \in entries, Supersedes(y, x),
                      x.at < y.at
               PROVE  /\ x \notin threat_current
                      /\ x \in advisory_exposure => Doc(x).cve # Doc(y).cve
                      /\ \A s \in Doc(y).declares : x \notin ownership_current(s)
    BY DEF CorrectionsCount
  <2>1. y.row.id.context = x.row.id.context
    BY SameContext DEF Supersedes, rows
  <2>2. Newer(y, x)
    <3>1. x \in Entries /\ y \in Entries
      BY DEF IInv, TypeOK
    <3>2. bound_at(x) < bound_at(y)
      BY <3>1, StampOrder
    <3>3. bound_at(x) \in Int /\ bound_at(y) \in Int
      BY <3>1, EntryFacts
    <3> QED
      BY <3>2, <3>3 DEF Newer
  <2>3. x \notin threat_current
    BY <2>1, <2>2 DEF threat_current, NewestPer, Named, SubjectOf
  <2>4. x \in advisory_exposure => Doc(x).cve # Doc(y).cve
    BY <2>1, <2>2 DEF advisory_exposure, NewestPer, Named, AdvisoryOf
  <2>5. \A s \in Doc(y).declares : x \notin ownership_current(s)
    BY <2>1, <2>2 DEF ownership_current, Declarations, Named
  <2> QED
    BY <2>3, <2>4, <2>5
<1> QED
  BY <1>1, Invariant, PTL

\* Where stamps compare as times, a counted document is displaced only by its own
\* correction or by a better claim, never by something older.
THEOREM CountedStandsTheorem ==
  ASSUME StampsCompare
  PROVE  Spec => CountedDocumentStands
<1> DEFINE Stands ==
      /\ \A x \in report_current, y \in report_current' :
           SubjectOf(x) = SubjectOf(y) /\ x # y =>
             \/ \E z \in entries' : Supersedes(z, x)
             \/ Doc(y).aware /\ ~ Doc(x).aware
             \/ Doc(y).aware = Doc(x).aware /\ y.at >= x.at
      /\ \A x \in threat_current, y \in threat_current' :
           SubjectOf(x) = SubjectOf(y) => y.at >= x.at
      /\ \A s \in Subjects : \A x \in ownership_current(s), y \in ownership_current(s)' :
           y.at >= x.at
<1>1. IInv /\ [Next]_entries => [Stands]_entries
  <2> SUFFICES ASSUME IInv, Next PROVE Stands
    OBVIOUS
  <2>1. IInv'
    BY NextInv
  <2>2. entries \subseteq entries' /\ entries' \subseteq Entries
    BY <2>1 DEF Next, Bind, IInv, TypeOK
  <2>3. ASSUME NEW x \in entries, NEW y \in entries', ~ Newer(x, y)
        PROVE  y.at >= x.at
    BY <2>2, <2>3, NotNewer
  <2>4. ASSUME NEW x \in report_current, NEW y \in report_current',
               SubjectOf(x) = SubjectOf(y), x # y
        PROVE  \/ \E z \in entries' : Supersedes(z, x)
               \/ Doc(y).aware /\ ~ Doc(x).aware
               \/ Doc(y).aware = Doc(x).aware /\ y.at >= x.at
    <3>1. x \in Named("report") /\ x \in entries /\ x \in entries' /\ y \in entries'
      BY <2>2 DEF report_current, CurrentReports, Named
    <3>2. CASE \E z \in rows' : z.supersedes = x.row.id
      <4>1. \E z \in entries' : z.row.supersedes = x.row.id
        BY <3>2 DEF rows
      <4> QED
        BY <4>1 DEF Supersedes
    <3>3. CASE \A z \in rows' : z.supersedes # x.row.id
      <4>1. x \in CurrentReports'
        BY <3>1, <3>3 DEF CurrentReports, Named, Superseded, Current, rows
      <4>2. ~ Prefers(x, y)
        BY <2>4, <4>1 DEF report_current, SubjectOf, Prefers, Newer, Doc, bound_at
      <4>3. x \in Entries /\ y \in Entries /\ x.row.id # y.row.id
        BY <2>1, <2>2, <2>4, <3>1 DEF IInv, OneStamp
      <4>4. Prefers(y, x)
        BY <4>2, <4>3, PrefersOrder
      <4>5. ~ Newer(x, y) \/ Doc(x).aware # Doc(y).aware
        BY <4>2 DEF Prefers
      <4> QED
        BY <2>3, <3>1, <4>4, <4>5 DEF Prefers
    <3> QED
      BY <3>2, <3>3
  <2>5. ASSUME NEW x \in threat_current, NEW y \in threat_current',
               SubjectOf(x) = SubjectOf(y)
        PROVE  y.at >= x.at
    <3>1. x \in entries /\ x \in Named("threat-model")' /\ y \in entries'
      BY <2>2 DEF threat_current, NewestPer, Named
    <3>2. ~ Newer(x, y)
      BY <2>5, <3>1 DEF threat_current, NewestPer, SubjectOf, Newer, bound_at
    <3> QED
      BY <2>3, <3>1, <3>2
  <2>6. ASSUME NEW s \in Subjects, NEW x \in ownership_current(s),
               NEW y \in ownership_current(s)'
        PROVE  y.at >= x.at
    <3>1. x \in entries /\ x \in Declarations(s)' /\ y \in entries'
      BY <2>2 DEF ownership_current, Declarations, Named, Doc
    <3>2. ~ Newer(x, y)
      BY <3>1 DEF ownership_current, Newer, bound_at
    <3> QED
      BY <2>3, <3>1, <3>2
  <2> QED
    BY <2>4, <2>5, <2>6
<1> QED
  BY <1>1, Invariant, PTL DEF Spec, CountedDocumentStands

\* Where stamps compare as times, the most recently bound threat model, and the
\* most recently bound of the equally aware current reports, is the one that
\* counts: what ViewsTextOrder refutes needs a stamp on SQLite with a zero to drop.
THEOREM MostRecentTheorem ==
  ASSUME StampsCompare
  PROVE  Spec => []MostRecentlyBoundWins
<1>1. IInv => MostRecentlyBoundWins
  <2> SUFFICES ASSUME IInv PROVE MostRecentlyBoundWins
    OBVIOUS
  <2>1. ASSUME NEW x \in threat_current, NEW y \in Named("threat-model"),
               SubjectOf(x) = SubjectOf(y)
        PROVE  x.at >= y.at
    <3>1. x \in Entries /\ y \in Entries /\ ~ Newer(y, x)
      BY <2>1 DEF threat_current, NewestPer, Named, IInv, TypeOK
    <3> QED
      BY <3>1, NotNewer
  <2>2. ASSUME NEW x \in report_current, NEW y \in CurrentReports,
               SubjectOf(x) = SubjectOf(y), Doc(x).aware = Doc(y).aware
        PROVE  x.at >= y.at
    <3>1. x \in Entries /\ y \in Entries /\ ~ Prefers(y, x)
      BY <2>2 DEF report_current, CurrentReports, Named, IInv, TypeOK
    <3>2. ~ Newer(y, x)
      BY <2>2, <3>1 DEF Prefers
    <3> QED
      BY <3>1, <3>2, NotNewer
  <2> QED
    BY <2>1, <2>2 DEF MostRecentlyBoundWins
<1> QED
  BY <1>1, Invariant, PTL

-----------------------------------------------------------------------------
(* Where the views do what their comments say.                             *)

\* No finding of a policy report is on the spine, in any state: FanOut leaves its
\* family out, so that SpineHasPolicyFindings fails for every such report that
\* has findings, and the spine is one of reports only.
THEOREM SpineIsOfReports ==
  \A p \in current_finding : p.entry \in report_current \ PolicyReports
<1> SUFFICES ASSUME NEW p \in current_finding
             PROVE  p.entry \in report_current \ PolicyReports
  OBVIOUS
<1>1. PICK e \in report_current \cup PolicyReports :
        p \in [entry : {e}, finding : FindingRows(e), owner : OwnerOf(e)]
  BY DEF current_finding
<1>2. p.entry = e /\ FindingRows(e) # {}
  BY <1>1
<1>3. \A x \in PolicyReports : x.row.id.context.name = "cloud-config-findings-current"
  BY DEF PolicyReports, Named
<1>4. e.row.id.context.name # "cloud-config-findings-current"
  BY <1>2 DEF FindingRows, FanOut
<1> QED
  BY <1>1, <1>2, <1>3, <1>4

FiniteInv == IsFiniteSet(entries)

LEMMA FiniteStep == FiniteInv /\ [Next]_entries => FiniteInv'
BY FS_AddElement DEF FiniteInv, Next, Bind

\* An assessment of a subject is superseded or the only one.
OneAssessment ==
  \A x, y \in Named("pqc-readiness") :
    ~ Superseded(x) /\ ~ Superseded(y) /\ SubjectOf(x) = SubjectOf(y) => x = y

SubjectIn(q) == q.entry.row.id.context.subject

LEMMA PostureFacts ==
  ASSUME NEW q \in pqc_posture
  PROVE  /\ q.entry \in entries /\ q = [entry |-> q.entry, owner |-> q.owner]
         /\ q.entry \in Named("pqc-readiness") /\ ~ Superseded(q.entry)
<1>1. PICK e \in {a \in Named("pqc-readiness") : ~ Superseded(a)} :
        q \in [entry : {e}, owner : OwnerOf(e)]
  BY DEF pqc_posture
<1>2. q.entry = e /\ q = [entry |-> q.entry, owner |-> q.owner]
  BY <1>1
<1> QED
  BY <1>1, <1>2 DEF Named

\* Within a group a subject then has one row.
LEMMA GroupBySubject ==
  ASSUME OneAssessment, NEW q \in pqc_posture, NEW v \in pqc_posture,
         GroupOf(q) = GroupOf(v), SubjectIn(q) = SubjectIn(v)
  PROVE  q = v
<1>1. SubjectOf(q.entry) = SubjectOf(v.entry) /\ q.owner = v.owner
  BY DEF GroupOf, SubjectIn, SubjectOf
<1>2. q.entry = v.entry
  BY <1>1, PostureFacts DEF OneAssessment
<1> QED
  BY <1>1, <1>2, PostureFacts

\* A subset of a group is no larger than the set of its subjects.
LEMMA CountedBySubject ==
  ASSUME OneAssessment, FiniteInv, NEW G \in SUBSET pqc_posture,
         \A q, v \in G : GroupOf(q) = GroupOf(v), NEW C \in SUBSET G
  PROVE  Cardinality(C) <= Cardinality({SubjectIn(q) : q \in G})
<1> DEFINE All == {e.row.id.context.subject : e \in entries}
           S == {SubjectIn(q) : q \in G}
           g == [e \in entries |-> e.row.id.context.subject]
           f == [q \in C |-> SubjectIn(q)]
<1>1. g \in Surjection(entries, All)
  BY DEF Surjection
<1>2. IsFiniteSet(All)
  BY <1>1, FS_Surjection DEF FiniteInv
<1>3. S \in SUBSET All
  BY PostureFacts DEF SubjectIn
<1>4. IsFiniteSet(S)
  BY <1>2, <1>3, FS_Subset
<1>5. f \in Injection(C, S)
  <2>1. f \in [C -> S]
    OBVIOUS
  <2>2. \A q, v \in C : f[q] = f[v] => q = v
    BY GroupBySubject
  <2> QED
    BY <2>1, <2>2 DEF Injection, IsInjective
<1> HIDE DEF f, S
<1>6. Cardinality(C) <= Cardinality(S)
  BY <1>4, <1>5, FS_Injection
<1> QED
  BY <1>6 DEF S

\* The readiness rollup counts subjects as long as no subject has two assessments
\* that are not superseded: that, and nothing else, is what RollupCountsSubjects
\* fails on.
THEOREM RollupTheorem == Spec => [](OneAssessment => RollupCountsSubjects)
<1>1. Init => FiniteInv
  BY FS_EmptySet DEF Init, FiniteInv
<1>2. FiniteInv /\ OneAssessment => RollupCountsSubjects
  <2> SUFFICES ASSUME FiniteInv, OneAssessment, NEW g \in pqc_readiness_rollup
               PROVE  g.with_2030_clock <= g.subjects
    BY DEF RollupCountsSubjects
  <2>1. PICK p \in pqc_posture :
          LET group == {q \in pqc_posture : GroupOf(q) = GroupOf(p)}
          IN  g = [subjects        |-> Cardinality({q.entry.row.id.context.subject : q \in group}),
                   with_2030_clock |-> Cardinality({q \in group : Doc(q.entry).clock})]
    BY DEF pqc_readiness_rollup
  <2> DEFINE group == {q \in pqc_posture : GroupOf(q) = GroupOf(p)}
             clocked == {q \in group : Doc(q.entry).clock}
  <2>2. /\ g.subjects = Cardinality({SubjectIn(q) : q \in group})
        /\ g.with_2030_clock = Cardinality(clocked)
    BY <2>1 DEF SubjectIn
  <2>3. /\ group \in SUBSET pqc_posture /\ clocked \in SUBSET group
        /\ \A q, v \in group : GroupOf(q) = GroupOf(v)
    OBVIOUS
  <2> HIDE DEF group, clocked
  <2>4. Cardinality(clocked) <= Cardinality({SubjectIn(q) : q \in group})
    BY <2>3, CountedBySubject
  <2> QED
    BY <2>2, <2>4
<1> QED
  BY <1>1, <1>2, FiniteStep, PTL DEF Spec

-----------------------------------------------------------------------------
(* What is assumed about the saves.                                        *)

\* Bind allows every row StorageSave adds (SavesComeWhole there), with any stamp.
THEOREM AdmitsEverySave ==
  ASSUME NEW r \in Candidates, NEW at \in Instants, MayJoin(r, rows),
         Cardinality(entries) < MaxEntries,
         entries' = entries \cup {[row |-> r, at |-> at]}
  PROVE  Bind(r, at)
<1>1. r.id # None
  BY CandidateAssumption, NoneAssumption DEF Rows, BindingIds
<1>2. ASSUME r.supersedes # None
      PROVE  \E p \in rows : p.id = r.supersedes /\ Continues(r, p)
  BY <1>2 DEF MayJoin
<1>3. r.supersedes # r.id
  BY <1>1, <1>2 DEF MayJoin
<1> QED
  BY <1>2, <1>3 DEF Bind, MayJoin
=============================================================================
