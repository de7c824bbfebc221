-------------------------------- MODULE Tables --------------------------------
(****************************************************************************)
(* The projection tables, as the upserts of go/v1/storage/queries.go write  *)
(* them: the columns a row must have (NOT NULL in schema.go, a plain Go     *)
(* parameter of the upsert) and those that may be NULL.  binding_id and     *)
(* artifact_digest, which every row has from the save itself, are left out. *)
(****************************************************************************)

Table(required, nullable) == [required |-> required, columns |-> required \cup nullable]

adapter_result ==
    Table({"target", "scanned_at", "metadata", "findings"}, {"summary", "focus_areas"})
adr_registry == Table({"version", "registers"}, {"note"})
attack_mapping ==
    Table({"mapping_version", "attack_version", "source", "attribution", "capability_map",
     "category_map"}, {"documentation", "schema"})
benchmark_target == Table({"version", "updated", "targets"}, {})
cloud_config_audit == Table({"title", "metadata", "summary", "findings"}, {"gaps"})
cloud_config_findings_current ==
    Table({"title", "metadata", "summary", "findings", "disposition_summary"}, {"gaps"})
compliance_assessment == Table({"metadata", "coverage", "results"}, {})
compliance_mapping == Table({"version", "controls", "checks"}, {"note"})
compliance_scope == Table({"version", "updated", "boundaries"}, {})
doc_variance == Table({"metadata", "records"}, {})
finding ==
    Table({"finding_id", "target", "scanned_at", "title", "severity", "description", "file",
     "recommendation", "confidence"}, {"category", "line", "cwe"})
fleet_fix ==
    Table({"id", "pattern_ref", "description", "matcher", "rewrite", "guards", "tests"},
     {"resolver"})
impact_analysis == Table({"metadata", "summary", "repos"}, {})
isolation_review == Table({"title", "metadata", "interfaces", "gaps", "posture"}, {"notes"})
layer_event ==
    Table({"event_id", "finding_ref", "recorded_at"}, {"fingerprint", "fingerprint_algo",
     "occurred_at", "source_type", "source_ref", "actor_kind", "validity", "resolution",
     "evidence_grade", "auto_accept_tier", "rationale", "harness_version", "evidence_refs",
     "source_reported_by", "severity", "embargo", "risk_lambda", "risk_weights_version",
     "risk_tenancy_profile", "risk_profile_source", "alias", "finding", "restatement"})
org_parameters == Table({"version", "declared_by", "parameters"}, {"declared_on", "note"})
pqc_blockers ==
    Table({"artifact", "title", "metadata", "executive_summary", "severity_criteria",
     "findings", "findings_summary", "remediation_roadmap"}, {})
pqc_decision_tree ==
    Table({"tree_version", "provenance_tree", "remediation_effort", "readiness_buckets",
     "tls_control_crosswalk", "fips_interaction", "pqc_classification_map"}, {"plan", "schema",
     "server_side_caveat"})
pqc_facts == Table({"artifact", "repository", "stamps", "coverage", "summary", "facts"}, {})
pqc_readiness ==
    Table({"title", "metadata", "scores", "flags", "provenance_summary"}, {"clock_items",
     "readiness_bucket", "fips_interaction", "runtime_evidence", "server_side_caveats", "notes",
     "remediations"})
priv_profile ==
    Table({"repo"}, {"tier", "workloads", "rbac_rules", "rbac_flags", "scc_requests",
     "sccs_shipped", "namespaces", "install_modes", "operatorgroups",
     "tier2_required_vs_granted", "example_or_test_manifests_excluded", "summary"})
refuted_register == Table({"source", "generated_at", "entries"}, {"sources"})
remediation ==
    Table({"title", "metadata", "source_findings", "fork", "patch", "checks", "summary"},
     {"evidence", "revalidation", "pull_request", "notes", "footer"})
report ==
    Table({"title", "metadata", "executive_summary", "severity_criteria", "findings",
     "findings_summary", "remediation_roadmap"}, {"dependency_audit", "negative_results",
     "asvs_coverage", "scanner_correlation", "peach_isolation_review", "disposition_summary",
     "footer"})
report_finding ==
    Table({"finding_id"}, {"title", "severity", "fingerprint", "validation_status", "validity",
     "resolution", "assurance", "last_updated", "conflict", "fp_overridden",
     "fp_reassertion_blocked", "refuted_awaiting_signoff", "severity_override", "description",
     "remediation", "category", "cwes", "locations", "asvs_references", "peach_references",
     "capec", "attack_pattern", "cvss", "evidence", "effective_severity", "origin",
     "source_findings", "passes", "remediation_effort", "blocked_external",
     "pqc_classification", "fingerprint_algo", "isolation_boundary", "isolation_dimensions",
     "dependency"})
risk_rating_methodology ==
    Table({"methodology", "methodology_version", "source", "bands", "bucket_thresholds",
     "likelihood_factors", "impact_factors", "matrix", "fallback"}, {"documentation", "schema",
     "threat_intel_factor"})
sla_policy_ClockRequired ==
    Table({"policy_name", "source", "severity_mapping", "profiles", "clock_start"}, {})
sla_policy == Table({"policy_name", "source", "severity_mapping", "profiles"}, {"clock_start"})
subject_ownership ==
    Table({"subject_id", "tree", "ownership", "business_unit"}, {"label", "product", "repo_url",
     "ref", "ref_kind", "is_branch_audit"})
threat ==
    Table({"threat_key", "threat_id", "model"}, {"subject_id", "product", "statement",
     "surface", "asset", "impact", "likelihood", "risk_rating", "severity", "likelihood_score",
     "likelihood_level", "impact_score", "impact_level", "impact_basis", "status", "controls",
     "actors", "evidence", "linddun", "score", "attack_refs", "isolation_dimensions",
     "isolation_boundaries"})
triage_verdict ==
    Table({"finding_id", "triage_completed", "verdict"}, {"source_finding_id", "severity",
     "vote_breakdown", "rationale"})
validation ==
    Table({"title", "metadata", "source_reports", "summary", "validated_findings",
     "attack_chains", "novel_findings", "execution_log_ref"}, {"negative_results",
     "execution_log_sha256", "footer"})
verification ==
    Table({"title", "metadata", "summary", "verified_findings", "regressions",
     "commit_timeline"}, {"evidence", "recommendations", "notes", "footer"})
==============================================================================
