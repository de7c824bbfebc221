--------------------------- MODULE MCCurrentViews ---------------------------
(* The instance all configurations of CurrentViews check: one subject, and  *)
(* for each family of documents a first binding, its correction and a rival *)
(* that supersedes nothing.                                                 *)
EXTENDS CurrentViews, Sequences

CONSTANTS
  audit, corrected, reaudit, disposed,   \* reports
  model, remodel,                        \* threat models
  analysis, moved, reanalysis,           \* impact analyses
  registry, shrunk, foreign,             \* corpus registries
  readiness,                             \* a PQC assessment, of two runs
  policy,                                \* a cloud-config report
  s1, s2, f1, cve1, cve2

Context(name, scope, subject, run) ==
  [name |-> name, role |-> None, scope |-> scope, subject |-> subject,
   run |-> run, layer |-> None]

Bound(name, run) == Context(name, "local", s1, run)
Unbound(name, scope) == Context(name, scope, None, None)

First(digest, context) ==
  [id |-> [digest |-> digest, context |-> context], supersedes |-> None,
   repo |-> None, commit |-> None]

Correction(digest, row) ==
  [row EXCEPT !.id.digest = digest, !.supersedes = row.id]

MCCandidates ==
  LET cumulative == [Bound("report", "run2") EXCEPT !.role = "cumulative"]
      report == First(disposed, cumulative)
      threats == First(model, Bound("threat-model", "run1"))
      impact == First(analysis, Unbound("impact-analysis", "local"))
      owners == First(registry, Unbound("corpus-registry", "local"))
  IN  { First(audit, Bound("report", "run1")),
        First(reaudit, Bound("report", "run2")),
        report, Correction(corrected, report),
        threats, Correction(remodel, threats),
        First(model, Bound("threat-model", "run2")),
        impact, Correction(moved, impact),
        First(reanalysis, Unbound("impact-analysis", "local")),
        owners, Correction(shrunk, owners),
        First(foreign, Unbound("corpus-registry", "other")),
        First(readiness, Bound("pqc-readiness", "run1")),
        First(readiness, Bound("pqc-readiness", "run2")),
        First(policy, Bound("cloud-config-findings-current", "run1")) }

MCContexts == {r.id.context : r \in MCCandidates}

MCDocument ==
  [d \in Digests |->
    [ aware    |-> d \in {disposed},
      findings |-> IF d \in {audit, corrected, reaudit, disposed, policy} THEN {f1} ELSE {},
      cve      |-> IF d = moved THEN cve2 ELSE cve1,
      declares |-> IF d \in {registry, foreign} THEN {s1, s2}
                   ELSE IF d = shrunk THEN {s1} ELSE {},
      clock    |-> d = readiness ]]

PlaceIn(seq, x) == CHOOSE n \in DOMAIN seq : seq[n] = x

DigestOrder ==
  <<corrected, audit, disposed, reaudit, remodel, model, analysis, reanalysis, moved,
    shrunk, foreign, registry, readiness, policy>>

\* Ordered by digest, then by context: some corrections come before and some
\* after what they correct.
MCRank ==
  [i \in BindingIds |->
     LET c == i.context
     IN  1000 * PlaceIn(DigestOrder, i.digest)
         + 100 * PlaceIn(<<"report", "threat-model", "impact-analysis", "corpus-registry",
                           "pqc-readiness", "cloud-config-findings-current">>, c.name)
         + 10 * PlaceIn(<<None, "run1", "run2">>, c.run)
         + (IF c.role = None THEN 0 ELSE 1)
         + (IF c.scope = "local" THEN 0 ELSE 2)]
=============================================================================
