---------------------------- MODULE ReviewContracts ----------------------------
(****************************************************************************)
(* The JSON contracts the SDK embeds (go/v1/validate/schemas_gen.go): which *)
(* members every object of every artifact family must have, which it may    *)
(* have, and which may be an explicit null.  An object has the name of the  *)
(* Go struct it is decoded into.  What a member holds - its type, pattern   *)
(* or bounds - and conditions that tie one member to another (if/then) are  *)
(* left out: Projection.tla asks only what becomes of a member that is      *)
(* there and of one that is not.                                            *)
(*                                                                          *)
(* Here are the families a review of code produces, from a scanner's result *)
(* to the layer its findings end on; Contracts.tla has the others.          *)
(****************************************************************************)

\* "required", "properties": what the schema says of one object.
Object(required, optional) ==
    [required |-> required, own |-> required \cup optional, nullable |-> {}, inherited |-> {}]

\* "type": [..., "null"]: these members may be null.
Nullable(object, names) == [object EXCEPT !.nullable = names]

\* "allOf": [{"$ref": ...}]: everything base says holds of object too.
AllOf(object, base) ==
    [object EXCEPT !.required = @ \cup base.required,
                   !.nullable = @ \cup base.nullable,
                   !.inherited = base.own]

\* -------- adapter-result
AdapterResult ==
    Object({"target", "scanned_at", "metadata", "findings"}, {"summary", "focus_areas"})
Metadata == Object({"tool"}, {"scanner_version"})
Summary == Object({"total"}, {"by_severity"})

\* -------- layer
Layer == Object({"metadata", "events", "needs_review"}, {"baseline_claims"})
LayerMetadata ==
    Object({"audit_report", "repository", "created", "harness_version"}, {"audit_report_sha256",
     "artifact_digests", "audit_report_ref", "audit_commit", "updated", "claim_hashes",
     "finding_aliases", "external_refs", "merkle_root", "merkle_epoch", "merkle_size",
     "merkle_algorithm", "leaf_format", "pre_merkle_checkpoint", "merkle_root_signature",
     "merkle_signature_format", "merkle_signing_method"})
LayerMetadataFindingAliasesEntry ==
    Object({"new_id", "matched_by", "mapped_at"}, {"from_report", "confirmed", "similarity",
     "note", "path_overlap", "confirmed_by", "confirmed_at", "rejected", "rejected_by",
     "rejected_at"})
LayerMetadataExternalRefsEntryItem ==
    Object({"system", "id"}, {"url", "confidence", "matched_on", "stamped_at"})
Event ==
    Nullable(Object({"event_id", "finding_ref", "recorded_at", "source", "disposition",
     "rationale"}, {"occurred_at", "evidence_refs", "harness_version", "fingerprint",
     "fingerprint_algo", "risk_weight", "auto_accept_tier", "evidence_grade", "alias",
     "finding", "restatement"}), {"evidence_grade"})
EventSource == Object({"type", "ref", "actor"}, {"reported_by"})
Actor ==
    Object({"kind"}, {"identity", "ldap_verified", "identity_verified", "identity_provider",
     "identity_issuer", "identity_subject", "employee_status", "display_name"})
Disposition == Object({}, {"validity", "resolution", "severity", "embargo"})
EventRiskWeight ==
    Object({"lambda", "weights_version", "tenancy_profile", "profile_source"}, {})
EventAlias ==
    Object({"new_finding_ref", "matched_by"}, {"confirmed", "rejected", "similarity",
     "path_overlap", "from_report", "note"})
EventFinding ==
    Object({"id", "title", "severity", "cwes", "locations", "description", "remediation"},
     {"validation_status", "origin", "source_findings"})
EventRestatement ==
    Object({"target", "reason", "before", "after", "authority"}, {"schema_from", "schema_to"})
EventRestatementAuthority == Object({"ticket"}, {"approved_by"})
ReviewItem ==
    Object({"queued_at", "source_ref", "quote", "author", "status"}, {"submitted_by",
     "suggested_finding_ref", "suggested_disposition", "queue_reason", "resolution_note"})

\* -------- refuted-register
RefutedRegister == Object({"source", "generated_at", "entries"}, {"sources"})
Entry ==
    Nullable(Object({"finding_ref", "title", "refute_reasons", "tier", "evidence_refs",
     "asserted_at", "asserted_by", "note"}, {"triage_id", "source", "file", "line", "category",
     "claimed_severity", "exclusion_rule"}), {"file", "line", "category", "claimed_severity",
     "exclusion_rule"})

\* -------- remediation
Remediation ==
    Object({"title", "metadata", "source_findings", "fork", "patch", "checks", "summary"},
     {"evidence", "revalidation", "pull_request", "notes", "footer"})
RemediationMetadata ==
    Object({"date", "harness_version", "logical_product", "repository"}, {"audited_commit",
     "language", "jira_keys", "operator"})
SourceFinding ==
    Object({"finding_ref", "title", "severity", "cwes", "locations"}, {"triage_confidence",
     "validation_verdict", "audit_report_path", "triage_report_path", "validation_report_path"})
Fork ==
    Object({"url", "visibility", "base_ref", "fix_branch"}, {"host", "upstream_remote",
     "base_commit", "fix_commit", "synced_from_upstream_at"})
Patch ==
    Object({"strategy", "rationale", "files_changed", "diffstat"}, {"behaviour_change",
     "diff_path", "diff_sha256", "tests_added", "residual_risk"})
PatchFilesChangedItem == Object({"path", "change_type"}, {"hunks", "additions", "deletions"})
PatchDiffstat == Object({"files", "additions", "deletions"}, {})
Check == Object({"name", "command", "outcome"}, {"duration_seconds", "log_path", "summary"})
PatchEvidence ==
    Object({"kind", "outcome"}, {"base_observation", "patched_observation", "tool", "command",
     "log_path", "deterministic_steps"})
Revalidation ==
    Object({"performed"}, {"method", "image_ref", "validation_report_path", "before_verdict",
     "after_verdict", "fixed"})
PullRequest == Object({"url", "target"}, {"number", "base_branch", "reviewers", "state"})
RemediationSummary ==
    Object({"status", "checks_passed", "checks_total"}, {"findings_addressed",
     "ready_for_review"})

\* -------- report
Report ==
    Object({"title", "metadata", "executive_summary", "severity_criteria", "findings",
     "findings_summary", "remediation_roadmap"}, {"dependency_audit", "negative_results",
     "asvs_coverage", "scanner_correlation", "peach_isolation_review", "disposition_summary",
     "footer"})
ReportFinding ==
    Object({"id", "title", "severity", "cwes", "locations", "description", "remediation"},
     {"asvs_references", "peach_references", "cvss", "capec", "evidence", "attack_pattern",
     "category", "validation_status", "source_findings", "origin", "pqc_classification",
     "remediation_effort", "blocked_external", "isolation_dimensions", "isolation_boundary",
     "disposition", "fingerprint", "fingerprint_algo", "effective_severity", "passes",
     "dependency"})
Location == Object({"path"}, {"lines", "description"})
ReportFindingCvss == Object({"score", "vector"}, {})
EvidenceBlock == Object({"code"}, {"language", "caption"})
ReportDisposition ==
    Object({"validity", "resolution", "last_updated", "events"}, {"conflict",
     "refuted_awaiting_signoff", "assurance", "fp_overridden", "fp_reassertion_blocked",
     "severity_override"})
ReportDispositionSeverityOverride == Object({"severity", "by", "at"}, {"rationale"})
ReportFindingDependency ==
    Object({"advisory", "module"}, {"ecosystem", "purl", "vulnerable_range", "fixed_version",
     "installed_version", "evidence_level", "classification", "impact_artifact"})
ReportMetadata ==
    Object({"date", "scope"}, {"repository", "commit", "ref", "ref_kind", "framework",
     "auditor", "methodology", "loc_reviewed", "loc_breakdown", "tools", "additional",
     "audit_profile"})
ReportMetadataLocBreakdown == Object({"total"}, {"by_language", "tool", "excludes"})
ReportMetadataAdditional == Object({}, {"harness_version", "contracts_version"})
ExecutiveSummary == Object({"prose", "severity_counts"}, {"key_risks", "positive_observations"})
ExecutiveSummarySeverityCounts ==
    Object({"critical", "high", "medium", "low", "informational"}, {})
SeverityCriterion == Nullable(Object({"level", "definition"}, {"cvss_range"}), {"cvss_range"})
SeverityCountEntry == Object({"severity", "count", "finding_ids"}, {})
RoadmapItem == Object({"priority", "action", "addresses"}, {"effort", "blocked_external"})
DependencyAudit == Object({}, {"prose", "entries"})
DependencyAuditEntriesItem == Object({"package", "version", "status"}, {"notes"})
NegativeResult == Object({"area", "result"}, {"files"})
AsvsChapter ==
    Object({"chapter", "area"}, {"requirements_assessed", "violations", "highest_severity"})
ScannerEntry ==
    Object({"tool", "result"}, {"configured", "notes", "rule_id", "location", "finding_ids"})
PeachIsolationReview == Object({"applicable"}, {"rationale", "interfaces"})
PeachIsolationReviewInterfacesItem ==
    Object({"name", "complexity", "shared", "boundary_type"}, {"hardening_gaps", "finding_ids",
     "notes"})
DispositionSummary ==
    Object({"layer_ref", "generated_at", "by_resolution", "by_validity"}, {"conflicts",
     "needs_review_count", "severity_overrides"})
DispositionSummaryByResolution ==
    Object({"open", "fix_in_progress", "resolved", "partially_resolved", "risk_accepted",
     "regression_introduced"}, {})
DispositionSummaryByValidity ==
    Object({"confirmed", "corrected", "false_positive", "not_verified"}, {"hardening"})
DispositionSummarySeverityOverridesItem ==
    Nullable(Object({"finding", "severity", "by", "at"}, {"from", "rationale"}), {"from"})

\* -------- threat-model
ThreatModel ==
    Object({"system", "provenance", "threats"}, {"subject_id", "system_context", "assets",
     "entry_points", "deprioritized", "open_questions", "mitigations", "attack_scenarios",
     "tenant_boundaries", "update_history"})
Provenance == Object({"mode", "date", "target"}, {"inputs", "owner", "harness_version"})
Asset ==
    Object({"asset", "description", "sensitivity"}, {"regulatory_scope", "example_records"})
EntryPoint == Object({"entry_point", "description", "trust_boundary", "reachable_assets"}, {})
Threat ==
    Object({"id", "threat", "actor", "status"}, {"surface", "asset", "impact", "likelihood",
     "controls", "evidence", "attack_refs", "isolation_dimensions", "risk_rating"})
OwaspRiskRating == Object({"method", "likelihood", "impact", "severity"}, {"rationale"})
OwaspRiskRatingLikelihood == Object({"factors", "score", "level"}, {})
OwaspRiskRatingLikelihoodFactors ==
    Object({"skill_level", "motive", "opportunity", "population_size", "ease_of_discovery",
     "ease_of_exploit", "awareness", "intrusion_detection"}, {})
OwaspRiskRatingImpact == Object({"basis", "technical", "score", "level"}, {"business"})
OwaspRiskRatingImpactTechnical ==
    Object({"confidentiality", "integrity", "availability", "accountability"}, {})
OwaspRiskRatingImpactBusiness ==
    Object({"financial", "reputation", "non_compliance", "privacy"}, {})
DeprioritizedThreat == Object({"threat", "reason"}, {})
Mitigation ==
    Object({"mitigation", "threat_ids", "closes_class", "effort"}, {"blocked_external"})
AttackScenario == Object({"id", "steps"}, {"threat"})
TenantBoundary ==
    Object({"boundary_id", "interface", "kind", "exposure"}, {"complexity", "privilege",
     "encryption", "authentication", "connectivity", "hygiene", "threat_ids",
     "isolation_review_ref"})
HistoryEntry == Object({"date", "changes", "reason"}, {})

\* -------- triage
Triage == Object({"triage_completed", "triage_context", "summary", "findings"}, {})
TriageContext ==
    Object({"environment", "votes_per_finding", "repo", "harness_version"}, {"mode",
     "threat_model", "scoring", "noise_tolerance", "findings_path", "source_report", "rerun_of",
     "reemitted", "reemit_method"})
TriageSummary ==
    Object({"input_count", "true_positives", "hardening", "false_positives", "undetermined",
     "duplicates", "by_severity"}, {"needs_manual_test"})
TriageSummaryBySeverity == Object({"critical", "high", "medium", "low"}, {"informational"})
TriageFinding ==
    Nullable(Object({"id", "title", "verdict"}, {"orig_id", "source", "file", "line",
     "category", "claimed_severity", "verify_verdict", "confidence", "severity",
     "severity_label", "severity_alignment", "preconditions", "access_level", "threat_match",
     "rationale", "recommendation", "vote_breakdown", "refute_reasons", "exclusion_rule",
     "first_links", "duplicate_of", "absorbed", "owner_hint", "component", "missing_fields",
     "fingerprint", "fingerprint_algo"}), {"orig_id", "source", "file", "line", "category",
     "claimed_severity", "verify_verdict", "confidence", "severity", "severity_label",
     "severity_alignment", "access_level", "threat_match", "rationale", "recommendation",
     "vote_breakdown", "exclusion_rule", "duplicate_of", "owner_hint", "component"})

\* -------- validation
Validation ==
    Object({"title", "metadata", "source_reports", "summary", "validated_findings",
     "attack_chains", "novel_findings", "execution_log_ref"}, {"negative_results",
     "execution_log_sha256", "footer"})
ValidationMetadata ==
    Nullable(Object({"date", "harness_version", "scope_binding_mode", "target_fingerprint"},
     {"scope_source", "engagement", "authorized_by", "expires", "target_environment",
     "approval", "flags", "additional", "target_attestation"}), {"target_attestation"})
Fingerprint == Object({"adapter", "identity"}, {"version", "digest", "details"})
ValidationMetadataApproval == Object({}, {"mode", "by", "at", "environment"})
SourceReport == Object({"kind", "path"}, {"sha256"})
ValidationSummary ==
    Nullable(Object({"by_verdict", "by_technique"}, {"prose", "novel_count", "chain_count",
     "highest_impact_chain"}), {"highest_impact_chain"})
ValidationSummaryByVerdict ==
    Object({"confirmed", "refuted", "inconclusive", "blocked_by_scope", "not_attempted"}, {})
ValidatedFinding ==
    Nullable(Object({"source_id", "source_report", "verdict", "technique"}, {"title",
     "claimed_severity", "steps", "evidence", "observed_impact", "deviation_from_claim",
     "rollback_performed", "not_attempted_reason", "soundness_flag", "evidence_grade",
     "grade_rationale", "severity_validation", "chain_context"}), {"rollback_performed",
     "evidence_grade", "grade_rationale", "severity_validation", "chain_context"})
StepResult ==
    Nullable(Object({"step_id", "adapter", "verb", "classification", "verdict"}, {"finding_ref",
     "novel_ref", "target", "expected", "observed", "evidence", "rollback_performed",
     "rollback_output", "scope_reason", "duration_ms", "soundness_flag", "error", "controls",
     "differential", "replay"}), {"finding_ref", "novel_ref", "rollback_performed", "controls",
     "differential", "replay"})
EvidenceArtifact == Object({"type", "path"}, {"sha256", "caption", "redacted"})
AttackChain ==
    Object({"chain_id", "name", "entry_point", "terminal_asset", "steps", "verdict"},
     {"mitre_attack_refs", "narrative"})
NovelFinding ==
    AllOf(Nullable(Object({}, {"discovery_method", "chain_context", "step_ref"}),
     {"chain_context"}), ReportFinding)

\* -------- verification
Verification ==
    Object({"title", "metadata", "summary", "verified_findings", "regressions",
     "commit_timeline"}, {"evidence", "recommendations", "notes", "footer"})
VerificationMetadata ==
    Nullable(Object({"date", "harness_version", "original_report", "original_commit",
     "patched_commit", "repository"}, {"patched_ref", "ref", "ref_kind", "scope", "framework",
     "auditor", "additional", "fix_repository", "fix_ref"}), {"fix_repository", "fix_ref"})
VerificationSummary == Object({"total_findings", "by_verdict", "regressions"}, {"prose"})
VerificationSummaryByVerdict ==
    Object({"resolved", "partially_resolved", "unresolved", "new_approach", "regression",
     "false_positive", "risk_accepted"}, {})
VerifiedFinding ==
    Nullable(Object({"original_id", "original_title", "original_severity", "verdict",
     "remediation_commits", "unattributed", "evidence"}, {"disposition_rationale",
     "residual_risk", "residual_severity", "cross_repo"}), {"disposition_rationale",
     "residual_risk", "residual_severity"})
RemediationCommit ==
    Nullable(Object({"sha", "short_sha", "date", "author", "subject", "relevance"},
     {"pr_number"}), {"pr_number"})
VerifiedFindingEvidence ==
    Object({"explanation", "framework_reference"}, {"original_code", "patched_code"})
CrossRepo ==
    Nullable(Object({"fix_repo", "propagation"}, {"fix_ref", "propagation_evidence"}),
     {"fix_ref", "propagation_evidence"})
Regression ==
    Object({"id", "title", "severity", "cwes", "locations", "description", "remediation",
     "introduced_by"}, {"cvss", "evidence", "attack_pattern", "category", "routed_id",
     "fingerprint", "fingerprint_algo"})
RegressionCvss == Object({"score", "vector"}, {})
TimelineEntry ==
    Nullable(Object({"sha", "full_sha", "date", "author", "subject", "addresses"},
     {"pr_number"}), {"pr_number"})

\* -------- vuln-findings
VulnFindings ==
    Object({"target", "scanned_at", "focus_areas", "metadata", "findings", "summary"},
     {"known_findings"})
VulnFindingsMetadata ==
    Nullable(Object({"repo", "repo_slug", "scanned_ref", "harness_version", "baseline",
     "baseline_findings"}, {"additional"}), {"baseline"})
VulnFindingsFinding ==
    Nullable(Object({"id", "file", "line", "category", "severity", "confidence", "title",
     "description", "recommendation"}, {"scanner_ref", "cwe", "exploit_scenario",
     "confidence_reason", "fingerprint", "fingerprint_algo"}), {"line"})
KnownFinding == Object({"title", "matches_baseline_id"}, {})
VulnFindingsSummary ==
    Object({"total", "critical", "high", "medium", "low", "informational", "known",
     "low_confidence"}, {})
================================================================================
