---------------------------- MODULE CurrentViews ----------------------------
(***************************************************************************)
(* The views that say which evidence counts (storage/schema.go).  Many     *)
(* bindings of one subject stay in the database: corrections of a document,*)
(* restatements of a report in another layer, a new model or assessment in *)
(* a new run, every import of the ownership registry.  Each view picks     *)
(* among them, by supersession (current_binding), by kind of report, and   *)
(* by the time of binding with the binding identifier breaking ties.       *)
(*                                                                         *)
(* The state is the committed rows of artifact_binding with their bound_at.*)
(* How concurrent saves come to commit is StorageSave; here a save is one  *)
(* step, whose rules are the same.  The stamp is taken by the client       *)
(* before its INSERT, which may then wait, and clients have clocks of their*)
(* own: stamps come in any order and may be equal, and a correction may be *)
(* stamped before what it corrects.                                        *)
(***************************************************************************)
EXTENDS Binding, Integers, FiniteSets

CONSTANTS
  Candidates,   \* the rows that may be saved
  Instants,     \* hundredths of a second: what nowUTC may return
  Rank,         \* the order of binding identifiers as text
  Document,     \* Document[d]: what the views read from the payload of d
  Subjects,     \* subject_id values
  Findings,     \* finding identifiers
  Advisories,   \* CVE identifiers
  Dialect,      \* "postgres" or "sqlite"
  MaxEntries    \* bound on the number of bindings

DocumentType ==
  [ aware    : BOOLEAN,          \* a report with a disposition_summary
    findings : SUBSET Findings,  \* of a report or a cloud-config report
    cve      : Advisories,       \* of an impact analysis
    declares : SUBSET Subjects,  \* by a corpus registry
    clock    : BOOLEAN ]         \* a PQC assessment with 2030 clock items

\* The save operations of these artifacts require a subject.
SubjectBound == {"report", "threat-model", "pqc-readiness",
                 "cloud-config-findings-current"}

ASSUME CandidateAssumption ==
  /\ Candidates \subseteq Rows
  /\ \A r \in Candidates :
       r.id.context.name \in SubjectBound => r.id.context.subject \in Subjects

ASSUME InstantAssumption == Instants \subseteq Nat

ASSUME RankAssumption ==
  /\ Rank \in [BindingIds -> Nat]
  /\ \A i, j \in BindingIds : Rank[i] = Rank[j] => i = j

ASSUME DocumentAssumption == Document \in [Digests -> DocumentType]

ASSUME DialectAssumption == Dialect \in {"postgres", "sqlite"}

VARIABLE entries    \* committed bindings: [row, at]

Entries == [row : Candidates, at : Instants]

TypeOK == entries \subseteq Entries

Init == entries = {}

rows == {e.row : e \in entries}

\* insertBinding without boundAt.
Bind_Unstamped(r, at) == entries' = entries \cup {[row |-> r, at |-> None]}

\* Save<Artifact> of a new binding, once nothing it conflicts with is in its
\* way.  Saving what is bound already changes nothing here.
Bind(r, at) ==
  /\ Cardinality(entries) < MaxEntries
  /\ \A x \in rows : x.id # r.id /\ ~ Clash(x, r)
  /\ r.supersedes # r.id
  /\ r.supersedes # None =>
       \E p \in rows : p.id = r.supersedes /\ Continues(r, p)
  /\ entries' = entries \cup {[row |-> r, at |-> at]}

Next == \E r \in Candidates, at \in Instants : Bind(r, at)

Spec == Init /\ [][Next]_entries

-----------------------------------------------------------------------------
(* Comparing two bindings.                                                 *)

\* nowUTC formats with RFC3339Nano, which drops the trailing zeros of the
\* fraction, and SQLite keeps the text: 'Z' sorts after every digit and after
\* the point.  With a two-digit fraction, the place of instant t in that order.
TextOrder(t) ==
  LET fraction == t % 100
      digit    == t % 10
  IN  111 * (t \div 100) +
        IF fraction = 0 THEN 110
        ELSE 11 * (fraction \div 10) + (IF digit = 0 THEN 10 ELSE digit)

\* The text compared in PostgreSQL too.
bound_at_Text(e) == TextOrder(e.at)

bound_at(e) == IF Dialect = "postgres" THEN e.at ELSE TextOrder(e.at)

\* The comparison the wrong way round.
Newer_Oldest(x, y) == bound_at(x) < bound_at(y)

\* x is bound more recently than y, binding_id breaking ties.
Newer(x, y) ==
  \/ bound_at(x) > bound_at(y)
  \/ bound_at(x) = bound_at(y) /\ Rank[x.row.id] > Rank[y.row.id]

Doc(e) == Document[e.row.id.digest]

Named(name) == {e \in entries : e.row.id.context.name = name}

\* A row of the current_binding view.
Superseded(e) == e.row \notin Current(rows)

SubjectOf(e) == <<e.row.id.context.scope, e.row.id.context.subject>>

AdvisoryOf(e) == <<e.row.id.context.scope, Doc(e).cve>>

-----------------------------------------------------------------------------
(* The views.                                                              *)

\* x outranks y: a disposition-aware report first, then the newer.
Prefers(x, y) ==
  \/ Doc(x).aware /\ ~ Doc(y).aware
  \/ Doc(x).aware = Doc(y).aware /\ Newer(x, y)

CurrentReports == {e \in Named("report") : ~ Superseded(e)}

\* Rivals looked up in artifact_binding instead of current_binding.
report_current_AnyRival ==
  {e \in CurrentReports :
     ~ \E rival \in Named("report") : SubjectOf(rival) = SubjectOf(e) /\ Prefers(rival, e)}

report_current ==
  {e \in CurrentReports :
     ~ \E rival \in CurrentReports : SubjectOf(rival) = SubjectOf(e) /\ Prefers(rival, e)}

\* The newest entry of S for each key.
NewestPer(Key(_), S) ==
  {e \in S : ~ \E rival \in S : Key(rival) = Key(e) /\ Newer(rival, e)}

threat_current == NewestPer(SubjectOf, Named("threat-model"))

advisory_exposure == NewestPer(AdvisoryOf, Named("impact-analysis"))

Declarations(subject) ==
  {e \in Named("corpus-registry") : subject \in Doc(e).declares}

\* One declaration per scope and subject, like the views of documents.
ownership_current_PerScope(subject) == NewestPer(SubjectOf, Declarations(subject))

\* The declarations ownership_current keeps for a subject, of all scopes.
ownership_current(subject) ==
  {e \in Declarations(subject) :
     ~ \E rival \in Declarations(subject) : Newer(rival, e)}

\* LEFT JOIN ownership_current ON subject_id.
OwnerOf(e) ==
  LET owners == ownership_current(e.row.id.context.subject)
  IN  IF owners = {} THEN {None} ELSE owners

\* Artifacts whose save writes one row per item: the families the generator
\* knows to have a projector written by hand.
FanOut == {"report", "layer", "triage", "vuln-findings", "corpus-registry",
           "threat-model"}

\* Rows of report_finding and cloud_config_finding of a binding.
FindingRows(e) == IF e.row.id.context.name \in FanOut THEN Doc(e).findings ELSE {}

PolicyReports ==
  {e \in Named("cloud-config-findings-current") : ~ Superseded(e)}

\* The spine: findings of the counted reports and of the current policy
\* reports, each with its owner.
current_finding ==
  UNION {[entry : {e}, finding : FindingRows(e), owner : OwnerOf(e)] :
           e \in report_current \cup PolicyReports}

pqc_posture ==
  UNION {[entry : {e}, owner : OwnerOf(e)] :
           e \in {a \in Named("pqc-readiness") : ~ Superseded(a)}}

\* The group of pqc_readiness_rollup a posture row falls into.  One readiness
\* bucket and one owner per declaration are enough to tell its counts apart.
GroupOf(p) == <<p.entry.row.id.context.scope, p.owner>>

pqc_readiness_rollup ==
  {LET group == {q \in pqc_posture : GroupOf(q) = GroupOf(p)}
   IN  [subjects        |-> Cardinality({q.entry.row.id.context.subject : q \in group}),
        with_2030_clock |-> Cardinality({q \in group : Doc(q.entry).clock})] :
     p \in pqc_posture}

-----------------------------------------------------------------------------
(* What the dashboards rely on.                                            *)

Unique(S) == \A x, y \in S : x = y

\* However often the findings of a subject are restated, corrected or assigned
\* an owner, exactly one report of it counts and each of its findings has one
\* row: not none because the best report was superseded, and not one per
\* ownership import.
FindingCountedOnce ==
  /\ \A e \in Named("report") :
       LET counted == {x \in report_current : SubjectOf(x) = SubjectOf(e)}
       IN  counted # {} /\ Unique(counted)
  /\ \A e \in report_current : \A f \in FindingRows(e) :
       LET counted == {p \in current_finding : p.entry = e /\ p.finding = f}
       IN  counted # {} /\ Unique(counted)

\* Exactly one threat model of a subject, one analysis of an advisory and one
\* declaration of a subject count, whichever stamps coincide.
OneDocumentPerKey ==
  /\ \A e \in Named("threat-model") :
       LET counted == {x \in threat_current : SubjectOf(x) = SubjectOf(e)}
       IN  counted # {} /\ Unique(counted)
  /\ \A e \in Named("impact-analysis") :
       LET counted == {x \in advisory_exposure : AdvisoryOf(x) = AdvisoryOf(e)}
       IN  counted # {} /\ Unique(counted)
  /\ \A s \in Subjects : Declarations(s) # {} =>
       ownership_current(s) # {} /\ Unique(ownership_current(s))

Supersedes(y, x) == y.row.supersedes = x.row.id

\* These three views do not look at supersession; the stamps stand in for it.  A
\* threat model never counts once its correction is stamped later.  An analysis
\* or registry then counts only for what the correction no longer speaks of.
CorrectionsCount ==
  \A x, y \in entries : Supersedes(y, x) /\ x.at < y.at =>
    /\ x \notin threat_current
    /\ x \in advisory_exposure => Doc(x).cve # Doc(y).cve
    /\ \A s \in Doc(y).declares : x \notin ownership_current(s)

\* A counted document steps back only for a better claim: a report for its own
\* correction or for a preferred report, a threat model or a declaration for one
\* bound no earlier.  A dashboard that polls never sees an older threat model
\* come back.
CountedDocumentStands ==
  [][ /\ \A x \in report_current, y \in report_current' :
           SubjectOf(x) = SubjectOf(y) /\ x # y =>
             \/ \E z \in entries' : Supersedes(z, x)
             \/ Doc(y).aware /\ ~ Doc(x).aware
             \/ Doc(y).aware = Doc(x).aware /\ y.at >= x.at
      /\ \A x \in threat_current, y \in threat_current' :
           SubjectOf(x) = SubjectOf(y) => y.at >= x.at
      /\ \A s \in Subjects : \A x \in ownership_current(s), y \in ownership_current(s)' :
           y.at >= x.at ]_entries

\* "Among equals the most recently bound wins" (schema.go:114, 117): no threat
\* model of the subject, and no equally aware current report, was bound after
\* the one that counts.
MostRecentlyBoundWins ==
  /\ \A x \in threat_current, y \in Named("threat-model") :
       SubjectOf(x) = SubjectOf(y) => x.at >= y.at
  /\ \A x \in report_current, y \in CurrentReports :
       SubjectOf(x) = SubjectOf(y) /\ Doc(x).aware = Doc(y).aware => x.at >= y.at

\* "Counts SUBJECTS, not assessments" (schema.go:137): no count of a group
\* exceeds the number of its subjects.
RollupCountsSubjects ==
  \A g \in pqc_readiness_rollup : g.with_2030_clock <= g.subjects

\* "BOTH finding families ... unified here" (schema.go:116): the findings of a
\* current policy report are on the spine.
SpineHasPolicyFindings ==
  \A e \in PolicyReports : \A f \in Doc(e).findings :
    \E p \in current_finding : p.entry = e /\ p.finding = f
=============================================================================
