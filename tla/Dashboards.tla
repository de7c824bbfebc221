----------------------------- MODULE Dashboards -----------------------------
(****************************************************************************)
(* The dashboard queries of go/v1/storage: what each selects from its view  *)
(* (<view>List, queries.go) and the fields its rows are scanned into, in    *)
(* order and by the name of the column they are for (scan<View>, read.go).  *)
(****************************************************************************)

Dashboard(columns, fields) == [columns |-> columns, fields |-> fields]

findingsSummaryList ==
    <<"scope_id", "subject_id", "run_id", "layer_id", "repo", "severity", "verdict",
      "finding_count">>
scanFindingsSummary ==
    <<"scope_id", "subject_id", "run_id", "layer_id", "repo", "severity", "verdict",
      "finding_count">>
QueryFindingsSummary == Dashboard(findingsSummaryList, scanFindingsSummary)

openFindingsList ==
    <<"scope_id", "subject_id", "run_id", "finding_id", "title", "severity",
      "fingerprint", "validity", "resolution", "assurance", "family", "ownership",
      "business_unit", "tree", "is_branch_audit">>
scanFindings ==
    <<"scope_id", "subject_id", "run_id", "finding_id", "title", "severity",
      "fingerprint", "validity", "resolution", "assurance", "family", "ownership",
      "business_unit", "tree", "is_branch_audit">>
QueryOpenFindings == Dashboard(openFindingsList, scanFindings)

hardeningFindingsList ==
    <<"scope_id", "subject_id", "run_id", "finding_id", "title", "severity",
      "fingerprint", "validity", "resolution", "assurance", "family", "ownership",
      "business_unit", "tree", "is_branch_audit">>
QueryHardeningFindings == Dashboard(hardeningFindingsList, scanFindings)

distinctExposureList ==
    <<"scope_id", "fingerprint", "occurrences", "severity_example",
      "business_unit_example", "first_subject">>
scanDistinctExposure ==
    <<"scope_id", "fingerprint", "occurrences", "severity_example",
      "business_unit_example", "first_subject">>
QueryDistinctExposure == Dashboard(distinctExposureList, scanDistinctExposure)

censusPopulationList ==
    <<"scope_id", "tree", "ownership", "business_unit", "subjects", "branch_reaudits",
      "with_report">>
scanCensusPopulation ==
    <<"scope_id", "tree", "ownership", "business_unit", "subjects", "branch_reaudits",
      "with_report">>
QueryCensusPopulation == Dashboard(censusPopulationList, scanCensusPopulation)

censusExposureList ==
    <<"scope_id", "tree", "ownership", "business_unit", "is_branch_audit", "family",
      "severity", "exposure_class", "occurrences", "distinct_fingerprints">>
scanCensusExposure ==
    <<"scope_id", "tree", "ownership", "business_unit", "is_branch_audit", "family",
      "severity", "exposure_class", "occurrences", "distinct_fingerprints">>
QueryCensusExposure == Dashboard(censusExposureList, scanCensusExposure)

threatCurrentList ==
    <<"scope_id", "threat_key", "threat_id", "model", "subject_id", "product",
      "statement", "surface", "asset", "impact", "likelihood", "status", "controls",
      "evidence", "attack_refs", "linddun", "score", "isolation_dimensions",
      "isolation_boundaries", "ownership", "business_unit", "tree", "is_branch_audit",
      "risk_rating", "severity", "likelihood_score", "likelihood_level",
      "impact_score", "impact_level", "impact_basis">>
scanThreats ==
    <<"scope_id", "threat_key", "threat_id", "model", "subject_id", "product",
      "statement", "surface", "asset", "impact", "likelihood", "status", "controls",
      "evidence", "linddun", "score", "isolation_dimensions", "isolation_boundaries",
      "ownership", "business_unit", "tree", "is_branch_audit">>
QueryThreatCurrent == Dashboard(threatCurrentList, scanThreats)

threatExposureList ==
    <<"scope_id", "tree", "ownership", "business_unit", "product", "impact",
      "likelihood", "status", "evidenced", "linddun", "threats", "subjects",
      "top_score", "severity">>
scanThreatExposure ==
    <<"scope_id", "tree", "ownership", "business_unit", "product", "impact",
      "likelihood", "status", "evidenced", "linddun", "threats", "subjects",
      "top_score">>
QueryThreatExposure == Dashboard(threatExposureList, scanThreatExposure)

operatorPrivilegeList ==
    <<"scope_id", "subject_id", "run_id", "repo", "tier", "workload_count",
      "privileged_or_host_workloads", "rbac_rule_count", "distinct_rule_triples",
      "distinct_cluster_triples", "cluster_scoped_rules", "wildcard_rules",
      "no_scc_request_recorded", "flag_secrets_access", "flag_nodes_access",
      "flag_wildcard_verbs", "flag_wildcard_resources", "flag_rbac_write",
      "flag_pods_exec", "flag_escalate_bind_impersonate", "ownership",
      "business_unit", "tree", "is_branch_audit">>
scanOperatorPrivilege ==
    <<"scope_id", "subject_id", "run_id", "repo", "tier", "workload_count",
      "privileged_or_host_workloads", "rbac_rule_count", "distinct_rule_triples",
      "distinct_cluster_triples", "cluster_scoped_rules", "wildcard_rules",
      "no_scc_request_recorded", "flag_secrets_access", "flag_nodes_access",
      "flag_wildcard_verbs", "flag_wildcard_resources", "flag_rbac_write",
      "flag_pods_exec", "flag_escalate_bind_impersonate", "ownership",
      "business_unit", "tree", "is_branch_audit">>
QueryOperatorPrivilege == Dashboard(operatorPrivilegeList, scanOperatorPrivilege)

findingTimelineList ==
    <<"scope_id", "fingerprint", "first_seen", "last_seen", "subjects",
      "first_adjudicated", "first_routed_or_filed", "resolved_at", "regression_at",
      "days_to_resolve", "clock_inconsistent", "days_adjudicated_to_resolve",
      "regression_days", "regression_still_open", "events">>
scanFindingTimeline ==
    <<"scope_id", "fingerprint", "first_seen", "last_seen", "subjects",
      "first_adjudicated", "resolved_at", "regression_at", "days_to_resolve",
      "clock_inconsistent", "days_adjudicated_to_resolve", "regression_days",
      "regression_still_open", "events">>
QueryFindingTimeline == Dashboard(findingTimelineList, scanFindingTimeline)

exposureTrendList == <<"scope_id", "period", "opened", "closed", "net">>
scanExposureTrend == <<"scope_id", "period", "opened", "closed", "net">>
QueryExposureTrend == Dashboard(exposureTrendList, scanExposureTrend)

findingSlaList ==
    <<"scope_id", "fingerprint", "severity", "ownership", "business_unit", "tree",
      "policy_name", "profile_name", "clock_start", "clock_started_at", "resolved_at",
      "still_open", "resolve_days", "age_days", "breached", "days_to_resolve">>
scanFindingSLA ==
    <<"scope_id", "fingerprint", "severity", "ownership", "business_unit", "tree",
      "policy_name", "profile_name", "clock_start", "clock_started_at", "resolved_at",
      "still_open", "resolve_days", "age_days", "breached", "days_to_resolve">>
QueryFindingSLA == Dashboard(findingSlaList, scanFindingSLA)

slaThresholdList ==
    <<"scope_id", "policy_name", "profile_name", "clock_start", "severity",
      "resolve_days", "acknowledge_days">>
scanSLAThreshold ==
    <<"scope_id", "policy_name", "profile_name", "clock_start", "severity",
      "resolve_days", "acknowledge_days">>
QuerySLAThreshold == Dashboard(slaThresholdList, scanSLAThreshold)

pqcPostureList ==
    <<"scope_id", "subject_id", "readiness_bucket", "has_2030_clock", "hndl_priority",
      "runtime_verification_required", "dominant_provenance", "clock_items",
      "ownership", "business_unit", "tree", "is_branch_audit">>
scanPQCPosture ==
    <<"scope_id", "subject_id", "readiness_bucket", "has_2030_clock", "hndl_priority",
      "runtime_verification_required", "dominant_provenance", "clock_items",
      "ownership", "business_unit", "tree", "is_branch_audit">>
QueryPQCPosture == Dashboard(pqcPostureList, scanPQCPosture)

pqcReadinessRollupList ==
    <<"scope_id", "tree", "ownership", "business_unit", "readiness_bucket",
      "subjects", "with_2030_clock", "hndl_priority", "clock_items">>
scanPQCReadinessRollup ==
    <<"scope_id", "tree", "ownership", "business_unit", "readiness_bucket",
      "subjects", "with_2030_clock", "hndl_priority", "clock_items">>
QueryPQCReadinessRollup == Dashboard(pqcReadinessRollupList, scanPQCReadinessRollup)

advisoryExposureList ==
    <<"scope_id", "advisory", "ecosystem", "module", "fixed_version",
      "vulnerable_range", "generated_at", "tiers_executed", "vulnerable_symbols",
      "vulnerable_packages", "advisory_sources", "feature_description",
      "harness_version", "options", "portfolio_graph_db", "portfolio_graph_version",
      "repo", "classification", "version", "direct", "products",
      "binary_linked_library", "binary_string_scan", "binary_symbol_scan",
      "evidence_level", "feature_pattern_matches", "govulncheck", "govulncheck_trace",
      "l1_depends_on", "l1_version_in_range", "l4_package_imported",
      "l4_packages_found", "manifest_scan", "manifest_version", "needs_manual_trace",
      "notes", "sbom_scan", "sbom_shipped_version", "source_import_scan",
      "symbol_usage_scan">>
scanAdvisoryExposure ==
    <<"scope_id", "advisory", "ecosystem", "module", "fixed_version",
      "vulnerable_range", "generated_at", "tiers_executed", "vulnerable_symbols",
      "vulnerable_packages", "advisory_sources", "feature_description",
      "harness_version", "options", "portfolio_graph_db", "portfolio_graph_version",
      "repo", "classification", "version", "direct", "products",
      "binary_linked_library", "binary_string_scan", "binary_symbol_scan",
      "evidence_level", "feature_pattern_matches", "govulncheck", "govulncheck_trace",
      "l1_depends_on", "l1_version_in_range", "l4_package_imported",
      "l4_packages_found", "manifest_scan", "manifest_version", "needs_manual_trace",
      "notes", "sbom_scan", "sbom_shipped_version", "source_import_scan",
      "symbol_usage_scan">>
QueryAdvisoryExposure == Dashboard(advisoryExposureList, scanAdvisoryExposure)

validationExposureList ==
    <<"scope_id", "target_environment", "tree", "ownership", "business_unit",
      "product", "claimed_severity", "verdict", "attempted", "skip_reason",
      "findings", "subjects", "distinct_claims">>
scanValidationExposure ==
    <<"scope_id", "target_environment", "tree", "ownership", "business_unit",
      "product", "claimed_severity", "verdict", "attempted", "skip_reason",
      "findings", "subjects", "distinct_claims">>
QueryValidationExposure == Dashboard(validationExposureList, scanValidationExposure)

validationCurrentList ==
    <<"scope_id", "subject_id", "run_id", "target_environment", "source_id",
      "source_finding_id", "title", "claimed_severity", "surface", "verdict",
      "skip_reason", "technique", "observed_impact", "evidence_grade",
      "grade_rationale", "soundness_flag", "severity_validation",
      "deviation_from_claim", "rollback_performed", "chain_context",
      "not_attempted_reason", "ownership", "business_unit", "tree", "product",
      "is_branch_audit">>
scanValidationCurrent ==
    <<"scope_id", "subject_id", "run_id", "target_environment", "source_id",
      "source_finding_id", "title", "claimed_severity", "surface", "verdict",
      "skip_reason", "technique", "observed_impact", "evidence_grade",
      "grade_rationale", "soundness_flag", "severity_validation",
      "deviation_from_claim", "rollback_performed", "chain_context",
      "not_attempted_reason", "ownership", "business_unit", "tree", "product",
      "is_branch_audit">>
QueryValidationCurrent == Dashboard(validationCurrentList, scanValidationCurrent)

attackCoverageList ==
    <<"scope_id", "technique", "source", "evidence_tier", "occurrences", "subjects">>
scanAttackCoverage ==
    <<"scope_id", "technique", "source", "evidence_tier", "occurrences", "subjects">>
QueryAttackCoverage == Dashboard(attackCoverageList, scanAttackCoverage)

compliancePostureList ==
    <<"scope_id", "subject_id", "run_id", "framework", "control_id", "title",
      "classification", "verdict", "verdict_source", "assurance_tier", "check_id",
      "reason", "narrative", "evidence", "override", "n_pass_agreement", "ownership",
      "business_unit", "tree", "product", "is_branch_audit">>
scanCompliancePosture ==
    <<"scope_id", "subject_id", "run_id", "framework", "control_id", "title",
      "classification", "verdict", "verdict_source", "assurance_tier", "check_id",
      "reason", "narrative", "evidence", "override", "n_pass_agreement", "ownership",
      "business_unit", "tree", "product", "is_branch_audit">>
QueryCompliancePosture == Dashboard(compliancePostureList, scanCompliancePosture)

patternExposureList ==
    <<"scope_id", "tree", "ownership", "business_unit", "family", "cwe", "category",
      "severity", "effective_severity", "exposure_class", "occurrences",
      "distinct_fingerprints", "subjects">>
scanPatternExposure ==
    <<"scope_id", "tree", "ownership", "business_unit", "family", "cwe", "category",
      "severity", "effective_severity", "exposure_class", "occurrences",
      "distinct_fingerprints", "subjects">>
QueryPatternExposure == Dashboard(patternExposureList, scanPatternExposure)

remediationCurrentList ==
    <<"scope_id", "subject_id", "run_id", "finding_ref", "title", "severity", "cwes",
      "locations", "triage_confidence", "validation_verdict", "audit_report_path",
      "triage_report_path", "validation_report_path", "ownership", "business_unit",
      "tree", "product", "is_branch_audit">>
scanRemediationCurrent ==
    <<"scope_id", "subject_id", "run_id", "finding_ref", "title", "severity", "cwes",
      "locations", "triage_confidence", "validation_verdict", "audit_report_path",
      "triage_report_path", "validation_report_path", "ownership", "business_unit",
      "tree", "product", "is_branch_audit">>
QueryRemediationCurrent == Dashboard(remediationCurrentList, scanRemediationCurrent)

verificationCurrentList ==
    <<"scope_id", "subject_id", "run_id", "original_id", "original_title",
      "original_severity", "verdict", "held", "unattributed", "remediation_commits",
      "evidence_explanation", "evidence_framework_reference",
      "evidence_original_code", "evidence_patched_code", "disposition_rationale",
      "residual_risk", "residual_severity", "cross_repo", "ownership",
      "business_unit", "tree", "product", "is_branch_audit">>
scanVerificationCurrent ==
    <<"scope_id", "subject_id", "run_id", "original_id", "original_title",
      "original_severity", "verdict", "held", "unattributed", "remediation_commits",
      "evidence_explanation", "evidence_framework_reference",
      "evidence_original_code", "evidence_patched_code", "disposition_rationale",
      "residual_risk", "residual_severity", "cross_repo", "ownership",
      "business_unit", "tree", "product", "is_branch_audit">>
QueryVerificationCurrent == Dashboard(verificationCurrentList, scanVerificationCurrent)

verificationRegressionCurrentList ==
    <<"scope_id", "subject_id", "run_id", "regression_id", "title", "severity",
      "cwes", "cvss", "locations", "description", "remediation", "evidence",
      "attack_pattern", "category", "introduced_by", "routed_id", "fingerprint",
      "fingerprint_algo", "ownership", "business_unit", "tree", "product",
      "is_branch_audit">>
scanVerificationRegressionCurrent ==
    <<"scope_id", "subject_id", "run_id", "regression_id", "title", "severity",
      "cwes", "cvss", "locations", "description", "remediation", "evidence",
      "attack_pattern", "category", "introduced_by", "routed_id", "fingerprint",
      "fingerprint_algo", "ownership", "business_unit", "tree", "product",
      "is_branch_audit">>
QueryVerificationRegressionCurrent == Dashboard(verificationRegressionCurrentList, scanVerificationRegressionCurrent)

Dashboards ==
  [ findings_summary |-> QueryFindingsSummary,
    open_findings |-> QueryOpenFindings,
    hardening_findings |-> QueryHardeningFindings,
    distinct_exposure |-> QueryDistinctExposure,
    census_population |-> QueryCensusPopulation,
    census_exposure |-> QueryCensusExposure,
    threat_current |-> QueryThreatCurrent,
    threat_exposure |-> QueryThreatExposure,
    operator_privilege |-> QueryOperatorPrivilege,
    finding_timeline |-> QueryFindingTimeline,
    exposure_trend |-> QueryExposureTrend,
    finding_sla |-> QueryFindingSLA,
    sla_threshold |-> QuerySLAThreshold,
    pqc_posture |-> QueryPQCPosture,
    pqc_readiness_rollup |-> QueryPQCReadinessRollup,
    advisory_exposure |-> QueryAdvisoryExposure,
    validation_exposure |-> QueryValidationExposure,
    validation_current |-> QueryValidationCurrent,
    attack_coverage |-> QueryAttackCoverage,
    compliance_posture |-> QueryCompliancePosture,
    pattern_exposure |-> QueryPatternExposure,
    remediation_current |-> QueryRemediationCurrent,
    verification_current |-> QueryVerificationCurrent,
    verification_regression_current |-> QueryVerificationRegressionCurrent ]
=============================================================================
