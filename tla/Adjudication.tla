---------------------------- MODULE Adjudication ----------------------------
(***************************************************************************)
(* From a skill to the ledger: consumers have skills run, take the value   *)
(* of the artifact they get and submit it in the lane of its type, under   *)
(* the job as its source.                                                  *)
(***************************************************************************)
EXTENDS Skills, Ledger

\* Of all skills, those whose artifact is a report of one of the lanes.
ASSUME LaneAssumption == OutputSchema \in [SkillNames -> Lanes]

\* What the contracts say of the findings of a report, as far as it is read.
Verdicts ==
  [triage |-> {"true_positive", "hardening", "undetermined", "false_positive", "duplicate"},
   validation |-> {"confirmed", "refuted", "inconclusive", "blocked_by_scope", "not_attempted"},
   verification |-> {"resolved", "partially_resolved", "unresolved", "new_approach",
                     "regression", "false_positive", "risk_accepted"}]

\* The documents of a lane conform to its contract; a reference may be blank.
ASSUME DocumentAssumption ==
  \A d \in Documents : d.schema \in Lanes =>
    /\ d.novel \in BOOLEAN
    /\ DOMAIN d.findings \subseteq Nat
    /\ \A i \in DOMAIN d.findings :
         LET f == d.findings[i]
         IN  /\ f.verdict \in Verdicts[d.schema]
             /\ f.ref \in Refs \cup {"", " "}
             /\ d.schema = "validation" => f.grade \in {"", "E0", "E1", "E2", "E3"}

ASSUME IndexAssumption == Indexes \subseteq SUBSET Refs

ASSUME OperationAssumption ==
  /\ MaxCalls \in Nat
  /\ OtherOps \cap {"report", "batch", "initialize", "stamp", "resolve", "find", "list"} = {}

vars == <<skillVars, ledgerVars>>

\* The value of the artifact, as the caller may hand it on: as it is, or with a
\* full timestamp for its date, which its schema does not admit.  Nor does the
\* value conform when there are novel findings: their Go type keeps no member
\* they take over from a report finding, the required ones included.
Report(date) ==
  LET document == jobs[artifact.job].output
  IN  [lane |-> document.schema, findings |-> document.findings, source |-> artifact.job,
       date |-> date, conforms |-> date = "day" /\ ~document.novel]

Init == SkillsInit /\ LedgerInit

Submit ==
  /\ artifact # NoArtifact
  /\ \E c \in Consumers, layer \in LayerIDs, index \in Indexes, date \in {"day", "instant"} :
       \/ SubmitReport(c, layer, Report(date), index)
       \/ BatchSubmit(c, layer, Report(date), index)

OtherCalls ==
  \E c \in Consumers :
    \/ FindLayer(c)
    \/ \E filters \in SUBSET Filters : ListLayers(c, filters)
    \/ \E layer \in LayerIDs :
         \/ InitializeLayer(c, layer)
         \/ \E fingerprints \in Indexes : StampEventIdentities(c, layer, fingerprints)
         \/ \E r \in layers[layer].queue : ResolveReviewItem(c, layer, r.item)
         \/ \E op \in OtherOps : Ask(c, op, layer)

LedgerNext ==
  \/ Submit
  \/ OtherCalls
  \/ \E q \in wire : Serve(q)
  \/ \E c \in Consumers : Fail(c) \/ \E reply \in replies : Receive(c, reply)

Next ==
  \/ SkillsNext /\ UNCHANGED ledgerVars
  \/ LedgerNext /\ UNCHANGED skillVars

Spec == Init /\ [][Next]_vars

-----------------------------------------------------------------------------

TypeOK == SkillsTypeOK /\ LedgerTypeOK

\* What it takes for a disposition, and nothing else does, by the words of the
\* contracts rather than by the code's tables.
Earns(f, disposition) ==
  CASE disposition = "confirmed" ->
         \/ f.verdict = "true_positive"
         \/ f.verdict = "confirmed" /\ f.grade # "E3"
    [] disposition = "false_positive" ->
         \/ f.verdict = "false_positive"
         \/ f.verdict = "refuted" /\ TrimSpace(f.flag) = ""
    [] disposition = "resolved" -> f.verdict \in {"resolved", "new_approach"}
    [] disposition = "fix_in_progress" -> f.verdict = "partially_resolved" /\ f.pending
    [] disposition = "partially_resolved" -> f.verdict = "partially_resolved" /\ ~f.pending
    [] disposition = "hardening" -> f.verdict = "hardening"
    [] disposition = "open" -> f.verdict = "unresolved"
    [] disposition = "regression_introduced" -> f.verdict = "regression"
    [] disposition = "risk_accepted" -> f.verdict = "risk_accepted"
    [] OTHER -> FALSE

\* Whatever is dispatched, collected, retried, delayed or backfilled, an event
\* on a layer says what a finding of its job's own output says of the same
\* reference, in the lane of that output: no refutation that never soundly
\* tested its claim closes a finding, no confirmation by inference opens one,
\* and a fingerprint is that of the finding (convert.go:99-105).
EventsAreEarned ==
  \A l \in LayerIDs : \A e \in layers[l].events :
    LET output == jobs[e.item.source].output
    IN  /\ output.schema = e.item.lane
        /\ \E f \in {output.findings[i] : i \in DOMAIN output.findings} :
             TrimSpace(f.ref) = TrimSpace(e.item.ref) /\ Earns(f, e.item.disposition)
        /\ e.item.fingerprint \in {"", e.item.ref}
=============================================================================
