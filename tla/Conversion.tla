----------------------------- MODULE Conversion -----------------------------
(***************************************************************************)
(* What a report becomes on the ledger (ledger/convert.go): each finding   *)
(* is an event, an item for a person to review, a skipped finding, or      *)
(* nothing at all.  Texts are kept only as far as the conversion reads     *)
(* them: "" is empty and " " is blank; a date is known by its shape.       *)
(***************************************************************************)
EXTENDS Sequences

Lanes == {"triage", "validation", "verification"}

TrimSpace(text) == IF text = " " THEN "" ELSE text

\* What the caller's index knows for a reference; its fingerprint goes by the
\* reference it was computed for.
stampFingerprint(index, ref) == IF ref \in index THEN ref ELSE ""

\* A date that carries a time is passed on; any other is given one.
eventOccurredAt_Padded(reportDate, recordedAt) ==
  IF reportDate = "instant" THEN "instant, midnight" ELSE "midnight"

eventOccurredAt(reportDate, recordedAt) ==
  LET date == IF reportDate = "" THEN recordedAt ELSE reportDate
  IN  IF date = "instant" THEN "instant" ELSE "midnight"

-----------------------------------------------------------------------------
(* The four fates of a finding *)

Event(ref, disposition, grade, index) ==
  [to |-> "Events",
   item |-> [ref |-> ref, disposition |-> disposition, grade |-> grade,
             fingerprint |-> stampFingerprint(index, ref)]]
Review(ref, reason) == [to |-> "NeedsReview", item |-> [ref |-> ref, reason |-> reason]]
Skip(ref, reason) == [to |-> "Skipped", item |-> [ref |-> ref, reason |-> reason]]
Nothing == [to |-> "nothing"]

-----------------------------------------------------------------------------
(* Triage *)

triageValidity ==
  [true_positive |-> "confirmed", hardening |-> "hardening", false_positive |-> "false_positive"]

TriageFinding(f, index) ==
  IF f.verdict = "duplicate" THEN Nothing
  ELSE IF f.ref = "" THEN Skip(f.ref, "missing orig_id")
  ELSE IF f.verdict = "undetermined" THEN Review(f.ref, "undetermined_finding")
  ELSE IF f.verdict \notin DOMAIN triageValidity THEN Skip(f.ref, "unknown verdict")
  ELSE Event(f.ref, triageValidity[f.verdict], "", index)

-----------------------------------------------------------------------------
(* Validation.  A refutation whose probe never soundly tested the claim, and *)
(* a confirmation by inference only, are for a person to judge.              *)

gradable(f) == f.verdict \in {"confirmed", "refuted"}
flagged(f) == TrimSpace(f.flag) # ""

unsound_Inconclusive(f) == flagged(f) /\ f.verdict = "inconclusive"
unsound(f) == flagged(f) /\ f.verdict # "confirmed"

ValidatedFinding(f, index) ==
  LET grade == TrimSpace(f.grade)
  IN  IF ~gradable(f) /\ ~(f.verdict = "inconclusive" /\ flagged(f)) THEN Nothing
      ELSE IF f.ref = "" THEN Nothing
      ELSE IF unsound(f) THEN Review(f.ref, "unsound_refutation")
      ELSE IF f.verdict = "confirmed" /\ grade = "E3" THEN Review(f.ref, "weak_confirmation")
      ELSE Event(f.ref, IF f.verdict = "refuted" THEN "false_positive" ELSE "confirmed",
                 grade, index)

-----------------------------------------------------------------------------
(* Verification *)

verificationDisposition(f) ==
  CASE f.verdict \in {"resolved", "new_approach"} -> "resolved"
    [] f.verdict = "partially_resolved" ->
         IF f.pending THEN "fix_in_progress" ELSE "partially_resolved"
    [] f.verdict = "unresolved" -> "open"
    [] f.verdict = "regression" -> "regression_introduced"
    [] f.verdict \in {"risk_accepted", "false_positive"} -> f.verdict
    [] OTHER -> ""

VerifiedFinding(f, index) ==
  LET ref == TrimSpace(f.ref)
  IN  IF ref = "" THEN Skip("", "empty original_id")
      ELSE IF verificationDisposition(f) = "" THEN Skip(ref, "unknown verdict")
      ELSE Event(ref, verificationDisposition(f), "", index)

-----------------------------------------------------------------------------
(* A whole report *)

Finding(lane, f, index) ==
  CASE lane = "triage" -> TriageFinding(f, index)
    [] lane = "validation" -> ValidatedFinding(f, index)
    [] lane = "verification" -> VerifiedFinding(f, index)

\* The converted findings of one fate, each under its place in the report.
Pile(report, index, fate) ==
  LET fates == [i \in DOMAIN report.findings |-> Finding(report.lane, report.findings[i], index)]
  IN  {[n |-> i, item |-> fates[i].item] : i \in {j \in DOMAIN fates : fates[j].to = fate}}

Convert(report, index) ==
  [Events |-> {[n |-> e.n,
                item |-> [ref |-> e.item.ref, disposition |-> e.item.disposition,
                          grade |-> e.item.grade, fingerprint |-> e.item.fingerprint,
                          lane |-> report.lane, source |-> report.source,
                          occurredAt |-> eventOccurredAt(report.date, "instant")]] :
                 e \in Pile(report, index, "Events")},
   NeedsReview |-> Pile(report, index, "NeedsReview"),
   Skipped |-> Pile(report, index, "Skipped")]
=============================================================================
