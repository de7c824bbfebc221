--------------------------- MODULE MCAdjudication ---------------------------
(* Two consumers, a skill of each lane and one more with the output schema  *)
(* of triage, and a document or two for every branch of the conversions.    *)
EXTENDS Adjudication, TLC

CONSTANTS c1, c2, l1, l2

T(verdict, ref) == [verdict |-> verdict, ref |-> ref]
V(verdict, ref, flag, grade) == [verdict |-> verdict, ref |-> ref, flag |-> flag, grade |-> grade]
R(verdict, ref, pending) == [verdict |-> verdict, ref |-> ref, pending |-> pending]
D(schema, findings) == [schema |-> schema, findings |-> findings, novel |-> FALSE]

MCDocuments ==
  {D("triage", <<T("true_positive", "f1"), T("undetermined", "f2"), T("duplicate", "f1"),
                 T("false_positive", "f2"), T("hardening", "")>>),
   D("triage", <<T("hardening", "f1"), T("true_positive", " ")>>),
   D("validation", <<V("confirmed", "f1", "probe", "E1"), V("confirmed", "f2", "", "E3"),
                     V("refuted", "f1", "probe", ""), V("refuted", "f2", " ", ""),
                     V("inconclusive", "f1", "probe", ""), V("inconclusive", "f2", "", ""),
                     V("not_attempted", "f1", "probe", ""), V("refuted", "", "", "")>>),
   [D("validation", <<V("confirmed", "f1", "", "E0")>>) EXCEPT !.novel = TRUE],
   D("verification", <<R("resolved", "f1", FALSE), R("partially_resolved", "f2", TRUE),
                       R("unresolved", "f1", FALSE), R("false_positive", "f2", FALSE),
                       R("regression", " ", FALSE), R("partially_resolved", "f1", FALSE),
                       R("new_approach", "f2", TRUE), R("regression", "f1", FALSE),
                       R("risk_accepted", "f2", FALSE)>>)}

MCOutputSchema ==
  [triage |-> "triage", rescore |-> "triage", validate |-> "validation", verify |-> "verification"]

MCFilters ==
  {[kind |-> "eq", key |-> "review_status", value |-> "pending"],
   [kind |-> "in", key |-> "layer_id", value |-> {"a", "a,b"}]}

\* Calls to the ledger read the artifact and nothing else of the skills, and
\* what they read is never taken back: steps of the two commute.  The skills go
\* first, and one of the ways to come by an artifact stands for all.
Settled == jobs = <<>> \/ (artifact # NoArtifact /\ refs = {} /\ executing = {})
SkillsFirst ==
  /\ calls > 0 => UNCHANGED skillVars
  /\ calls' > calls => Settled

Symmetric == Permutations({c1, c2}) \cup Permutations({l1, l2})
=============================================================================
