------------------------------- MODULE Contracts -------------------------------
(****************************************************************************)
(* The contracts of the other families: registries and policies, audits of  *)
(* the cloud, compliance, post-quantum readiness, and fleet work.           *)
(****************************************************************************)
EXTENDS ReviewContracts

\* -------- adr-registry
AdrRegistry == Object({"version", "registers"}, {"note"})
AdrRegistryRegistersItem ==
    Object({"name", "repo", "paths", "pin"}, {"governs", "declared_status", "note"})

\* -------- attack-mapping
AttackMapping ==
    Object({"mapping_version", "attack_version", "source", "attribution", "capability_map",
     "category_map"}, {"documentation", "schema"})

\* -------- benchmark-target
BenchmarkTarget == Object({"version", "updated", "targets"}, {})
BenchmarkTargetTargetsItem ==
    Nullable(Object({"id", "repo_url", "provenance", "expected", "admitted"}, {"fix_commit",
     "pre_fix_sha", "evidence", "language", "embargo", "held_out", "admitted_by", "admitted_at",
     "notes", "injection"}), {"fix_commit", "pre_fix_sha", "language", "admitted_by",
     "admitted_at"})
BenchmarkTargetTargetsItemEvidence == Object({"kind", "ref"}, {"excerpt"})
BenchmarkTargetTargetsItemInjection == Object({"class", "tokens"}, {})
BenchmarkTargetTargetsItemExpectedItem ==
    Nullable(Object({"cwes", "paths", "severity"}, {"source_finding", "fingerprint", "title"}),
     {"fingerprint"})

\* -------- cloud-config-audit
CloudConfigAudit == Object({"title", "metadata", "summary", "findings"}, {"gaps"})
CloudConfigAuditMetadata ==
    Nullable(Object({"target", "assessment_mode", "harness_version", "checkov_version",
     "facts_ref", "facts_snapshot_id", "deterministic_steps"}, {"target_head", "ref",
     "ref_kind", "repository", "generated_at", "frameworks"}), {"target_head", "repository"})
CloudConfigAuditMetadataDeterministicStepsItem == Object({"tool", "invocation"}, {"version"})
CloudConfigAuditSummary ==
    Object({"facts_total", "confirmed", "suppressed", "needs_review", "gaps"}, {"by_severity",
     "by_provider"})
CloudConfigAuditFindingsItem ==
    Nullable(Object({"id", "fact_ids", "framework", "provider", "check_id", "title", "severity",
     "status"}, {"scanner_severity", "rationale", "locations", "cwe", "control_refs",
     "remediation", "external_correlation", "isolation_dimensions", "isolation_boundary",
     "fingerprint", "fingerprint_algo"}), {"cwe", "remediation"})
CloudConfigAuditFindingsItemLocationsItem ==
    Nullable(Object({}, {"file_path", "resource", "file_line_range"}), {"resource",
     "file_line_range"})

\* -------- cloud-config-findings-current
CloudConfigFindingsCurrent ==
    Object({"title", "metadata", "summary", "findings", "disposition_summary"}, {"gaps"})
CloudConfigFindingsCurrentMetadata ==
    Nullable(Object({"target", "assessment_mode", "harness_version", "checkov_version",
     "facts_ref", "facts_snapshot_id", "deterministic_steps", "additional", "date"},
     {"target_head", "ref", "ref_kind", "repository", "generated_at", "frameworks"}),
     {"target_head", "repository"})
CloudConfigFindingsCurrentMetadataDeterministicStepsItem ==
    Object({"tool", "invocation"}, {"version"})
CloudConfigFindingsCurrentMetadataAdditional == Object({"cumulative"}, {})
CloudConfigFindingsCurrentMetadataAdditionalCumulative ==
    Nullable(Object({"source_audit", "layer", "generated_at"}, {"original_report_date"}),
     {"original_report_date"})
CloudConfigFindingsCurrentSummary ==
    Object({"facts_total", "confirmed", "suppressed", "needs_review", "gaps"}, {"by_severity",
     "by_provider"})
CloudConfigFindingsCurrentFindingsItem ==
    Nullable(Object({"id", "fact_ids", "framework", "provider", "check_id", "title", "severity",
     "status", "disposition", "validation_status", "effective_severity"}, {"scanner_severity",
     "rationale", "locations", "cwe", "control_refs", "remediation", "external_correlation",
     "isolation_dimensions", "isolation_boundary", "fingerprint", "fingerprint_algo"}), {"cwe",
     "remediation"})
CloudConfigFindingsCurrentFindingsItemLocationsItem ==
    Nullable(Object({}, {"file_path", "resource", "file_line_range"}), {"resource",
     "file_line_range"})
CloudConfigFindingsCurrentFindingsItemDisposition ==
    Object({"validity", "resolution", "assurance", "last_updated", "events"},
     {"severity_override", "conflict", "refuted_awaiting_signoff", "fp_overridden",
     "fp_reassertion_blocked"})
CloudConfigFindingsCurrentFindingsItemDispositionSeverityOverride ==
    Object({"severity", "by", "at"}, {"rationale"})
CloudConfigFindingsCurrentDispositionSummary ==
    Object({"layer_ref", "generated_at", "by_resolution", "by_validity", "severity_overrides",
     "conflicts", "needs_review_count"}, {})
CloudConfigFindingsCurrentDispositionSummarySeverityOverridesItem ==
    Nullable(Object({"finding", "severity", "by", "at"}, {"from", "rationale"}), {"from"})

\* -------- compliance-assessment
ComplianceAssessment == Object({"metadata", "coverage", "results"}, {})
ComplianceAssessmentMetadata ==
    Object({"artifact", "harness_version", "target", "frameworks", "registry_hash",
     "generated_at"}, {"org_parameters_hash", "collector_versions", "owner_attestations"})
ComplianceAssessmentMetadataTarget ==
    Object({"kind"}, {"product", "repos", "environment", "scope_binding_mode", "snapshot_id",
     "cde_boundary", "personal_data_stores", "trust_service_categories", "scope"})
ComplianceAssessmentMetadataTargetScope ==
    Nullable(Object({"boundary", "resolves_via", "declared_by", "declared_at", "draft"},
     {"excluded", "registry_hash"}), {"registry_hash"})
ComplianceAssessmentMetadataTargetScopeExcludedItem == Object({"repo", "reason"}, {})
ComplianceAssessmentMetadataFrameworksItem == Object({"id"}, {"profile", "caveat"})
ComplianceAssessmentMetadataOwnerAttestationsItem ==
    Object({"id", "topic", "statement", "attested_by", "ldap_verified", "attested_at"},
     {"applies_to"})
ComplianceAssessmentCoverageEntry ==
    Object({"total_in_scope", "deterministic", "evidence_review", "organizational", "satisfied",
     "not_satisfied", "not_applicable", "not_assessed"}, {})
ComplianceAssessmentResultsItem ==
    Object({"framework", "control_id", "classification", "verdict", "verdict_source"}, {"title",
     "check_id", "reason", "narrative", "evidence", "override", "n_pass_agreement"})
ComplianceAssessmentResultsItemEvidenceItem ==
    Object({"sha256", "kind", "locator"}, {"excerpt"})
ComplianceAssessmentResultsItemOverride ==
    Object({"by", "date", "rationale"}, {"overridden_check_verdict"})
ComplianceAssessmentResultsItemNPassAgreement == Object({"passes", "agreed"}, {})

\* -------- compliance-mapping
ComplianceMapping == Object({"version", "controls", "checks"}, {"note"})
ComplianceMappingControlsItem ==
    Object({"framework", "control_id", "classification"}, {"checks", "evidence_request", "note",
     "crosswalk", "applicability", "parameters"})
Assertion == Object({"path", "operator"}, {"expected"})
ComplianceMappingChecksItem ==
    Object({"id", "collector", "assertion"}, {"description", "applies_when", "sampling",
     "fixtures", "parameter_refs"})

\* -------- compliance-scope
ComplianceScope == Object({"version", "updated", "boundaries"}, {})
ComplianceScopeBoundariesEntry ==
    Object({"frameworks", "resolves_via", "declared_by", "declared_at"}, {"product", "include",
     "exclude", "notes", "deployment_evidence"})
ComplianceScopeBoundariesEntryIncludeItem == Object({"repo", "reason"}, {})
ComplianceScopeBoundariesEntryExcludeItem == Object({"repo", "reason"}, {})
ComplianceScopeBoundariesEntryDeploymentEvidence == Object({"inventory", "service"}, {})

\* -------- corpus-registry
CorpusRegistry == Object({"version", "subjects"}, {"updated", "note"})
Subject ==
    Object({"subject_id", "tree", "ownership", "business_unit"}, {"label", "product",
     "repo_url", "ref", "ref_kind", "is_branch_audit"})

\* -------- doc-variance
DocVariance == Object({"metadata", "records"}, {})
DocVarianceMetadata == Object({"repository", "created", "harness_version"}, {"updated"})
DocVarianceRecordsItem ==
    Object({"id", "source", "claim", "code_evidence", "verified_at", "disposition"},
     {"variance", "verified_against", "disposition_note", "finding_refs", "threat_refs"})
DocVarianceRecordsItemSource == Object({"product_slug", "version", "url"}, {"guide", "quote"})
DocVarianceRecordsItemCodeEvidenceItem == Object({"repo", "path"}, {"ref", "lines", "note"})

\* -------- fleet-fix
FleetFix ==
    Object({"id", "pattern_ref", "description", "matcher", "rewrite", "guards", "tests"},
     {"resolver"})
FleetFixMatcher ==
    Object({"kind", "file_glob"}, {"context_regex", "context_window", "match_regex",
     "url_regex", "url_window", "pattern", "lang"})
FleetFixResolver == Object({}, {"kind", "ref"})
FleetFixRewrite == Object({"template"}, {})
FleetFixGuards == Object({}, {"max_files_changed", "require_clean_tree"})
FleetFixTestsItem ==
    Object({"name", "file", "before", "after_contains"}, {"after_not_contains"})

\* -------- impact-analysis
ImpactAnalysis == Object({"metadata", "summary", "repos"}, {})
ImpactAnalysisMetadata ==
    Nullable(Object({"cve", "module", "vulnerable_range", "harness_version", "generated_at",
     "tiers_executed", "options"}, {"ecosystem", "fixed_version", "vulnerable_symbols",
     "vulnerable_packages", "feature_description", "advisory_sources", "portfolio_graph_db",
     "portfolio_graph_version"}), {"fixed_version", "feature_description", "portfolio_graph_db",
     "portfolio_graph_version"})
ImpactAnalysisMetadataOptions == Object({}, {"govulncheck", "binary_scan", "sweep"})
ImpactAnalysisSummary ==
    Object({"repos_in_blast_radius", "version_in_range", "affected", "likely_affected",
     "not_observed", "version_not_in_range", "not_imported", "inconclusive"},
     {"product_surfaces"})
RepoEntry ==
    Nullable(Object({"repo", "classification", "evidence"}, {"products", "version", "direct"}),
     {"version", "direct"})
Evidence ==
    Nullable(Object({}, {"l1_depends_on", "l1_version_in_range", "l4_package_imported",
     "l4_packages_found", "govulncheck", "govulncheck_trace", "feature_pattern_matches",
     "binary_string_scan", "needs_manual_trace", "notes", "manifest_scan", "manifest_version",
     "source_import_scan", "binary_linked_library", "evidence_level", "symbol_usage_scan",
     "binary_symbol_scan", "sbom_scan", "sbom_shipped_version"}), {"l1_depends_on",
     "l1_version_in_range", "l4_package_imported", "l4_packages_found", "govulncheck",
     "govulncheck_trace", "feature_pattern_matches", "binary_string_scan", "needs_manual_trace",
     "notes", "manifest_scan", "manifest_version", "source_import_scan",
     "binary_linked_library", "evidence_level", "symbol_usage_scan", "binary_symbol_scan",
     "sbom_scan", "sbom_shipped_version"})

\* -------- isolation-review
IsolationReview == Object({"title", "metadata", "interfaces", "gaps", "posture"}, {"notes"})
IsolationReviewMetadata ==
    Object({"service", "repos", "graph_ref", "harness_version", "reviewed_at"}, {"framework"})
IsolationReviewPosture ==
    Object({"overall", "summary"}, {"interfaces_reviewed", "dimension_rollup"})
Interface ==
    Nullable(Object({"id", "name", "kind", "exposure", "complexity", "dimensions"},
     {"shared_instance", "repos"}), {"shared_instance"})
InterfaceDimensions ==
    Object({"privilege", "encryption", "authentication", "connectivity", "hygiene"}, {})
Dimension == Object({"result"}, {"evidence", "rationale"})
Gap == Object({"severity", "interface_id", "description", "remediation"}, {})

\* -------- operator-priv-profile
OperatorPrivProfile ==
    Object({"repo", "summary"}, {"tier", "workloads", "rbac_rules", "rbac_flags",
     "scc_requests", "sccs_shipped", "namespaces", "install_modes", "operatorgroups",
     "tier2_required_vs_granted", "example_or_test_manifests_excluded"})
Workload ==
    Nullable(Object({"kind"}, {"name", "manifest", "serviceAccountName", "hostNetwork",
     "hostPID", "hostIPC", "hostPath_volumes", "pod_securityContext", "containers"}), {"name",
     "serviceAccountName"})
OperatorPrivProfileRbacFlags ==
    Object({}, {"secrets_access", "nodes_access", "wildcard_verbs", "wildcard_resources",
     "rbac_write", "pods_exec", "escalate_bind_impersonate"})
OperatorPrivProfileSummary ==
    Object({"workloads", "rbac_rules"}, {"privileged_or_host_workloads",
     "distinct_rule_triples", "distinct_cluster_triples", "cluster_scoped_rules",
     "wildcard_rules", "scc_requests", "no_scc_request_recorded"})

\* -------- org-parameters
OrgParameters == Object({"version", "declared_by", "parameters"}, {"declared_on", "note"})
OrgParametersParametersEntry == Object({"value", "controls"}, {"note"})

\* -------- pqc-blockers
PqcBlockers ==
    Object({"artifact", "title", "metadata", "executive_summary", "severity_criteria",
     "findings", "findings_summary", "remediation_roadmap"}, {})
PqcBlockersMetadata ==
    Nullable(Object({"date", "scope", "repository"}, {"commit", "framework", "methodology",
     "additional"}), {"commit"})
PqcBlockersMetadataAdditional ==
    Object({"source_artifact", "who_sets_tls", "excluded_remediations"}, {"harness_version",
     "adapter_version", "readiness_status"})
PqcBlockersExecutiveSummary == Object({"prose", "severity_counts"}, {})
PqcBlockersSeverityCriteriaItem == Object({"level", "definition"}, {})
PqcBlockersFindingsSummaryItem == Object({"severity", "count", "finding_ids"}, {})
PqcBlockersRemediationRoadmapItem ==
    Object({"priority", "action", "addresses"}, {"effort", "blocked_external"})
Finding ==
    Object({"id", "title", "severity", "cwes", "locations", "description", "remediation",
     "category", "validation_status", "pqc_classification"}, {"remediation_effort",
     "blocked_external"})
FindingLocationsItem == Object({"path"}, {"lines"})

\* -------- pqc-decision-tree
PqcDecisionTree ==
    Object({"tree_version", "provenance_tree", "remediation_effort", "readiness_buckets",
     "tls_control_crosswalk", "fips_interaction", "pqc_classification_map"}, {"plan", "schema",
     "server_side_caveat"})
PqcDecisionTreeProvenanceTree == Object({"rules"}, {"_comment"})
PqcDecisionTreeProvenanceTreeRulesItem == Object({"provenance", "when"}, {})
PqcDecisionTreeRemediationEffort == Object({"rules", "classes"}, {"_comment"})
PqcDecisionTreeRemediationEffortRulesItem == Object({"effort", "when"}, {"blocked_external"})
PqcDecisionTreeReadinessBuckets ==
    Object({"score_ready_min", "score_partial_min", "rules", "buckets"}, {"_comment"})
PqcDecisionTreeReadinessBucketsRulesItem == Object({"bucket", "when"}, {})
PqcDecisionTreeTlsControlCrosswalk ==
    Object({"app-controlled", "infra-controlled", "vendor-controlled"}, {"_comment"})
PqcDecisionTreeFipsInteraction == Object({"rules"}, {"_comment"})
PqcDecisionTreeFipsInteractionRulesItem == Object({"verdict", "when"}, {"treat_as"})
PqcDecisionTreePqcClassificationMap == Object({}, {"_comment"})
PqcDecisionTreeServerSideCaveat == Object({"rules"}, {"_comment"})
PqcDecisionTreeServerSideCaveatRulesItem ==
    Object({"caveat", "when"}, {"scoring_ceiling", "treat_as", "_comment"})

\* -------- pqc-facts
PqcFacts == Object({"artifact", "repository", "stamps", "coverage", "summary", "facts"}, {})
PqcFactsStamps ==
    Object({"adapter_version", "pqc_scan_commit", "rules_sha256"}, {"binary_sha256"})
PqcFactsCoverage ==
    Nullable(Object({"assessment_basis", "scanned_files", "skipped_files", "rules_in_pack"},
     {"no_crypto_detected_assertion"}), {"scanned_files", "skipped_files", "rules_in_pack"})
PqcFactsSummary == Object({"by_rule", "by_qclass", "by_provenance_hint", "by_path_class"}, {})
Fact ==
    Nullable(Object({"fact_id", "rule_id", "file", "line", "detail", "ir8547",
     "provenance_hint", "path_class"}, {"match", "provider", "pqc_capable", "capability_hint",
     "fips_mode", "finding_id", "severity", "risk", "confidence"}), {"line", "finding_id",
     "severity", "risk", "confidence"})
FactIr8547 ==
    Nullable(Object({"qclass", "usage", "clock"}, {"qclass_resolved", "matched_prefix"}),
     {"clock"})

\* -------- pqc-readiness
PqcReadiness ==
    Object({"title", "metadata", "scores", "flags", "provenance_summary"}, {"clock_items",
     "readiness_bucket", "fips_interaction", "runtime_evidence", "server_side_caveats", "notes",
     "remediations"})
PqcReadinessMetadata ==
    Nullable(Object({"repository", "assessment_basis", "tool"}, {"commit", "assessed_at",
     "facts_ref", "cbom_ref"}), {"commit", "cbom_ref"})
PqcReadinessMetadataTool ==
    Nullable(Object({"pqc_scan_commit", "rules_sha256"}, {"binary_sha256", "adapter_version"}),
     {"binary_sha256"})
PqcReadinessScores == Object({"VULN", "AGIL", "PQCA", "HNDL", "overall"}, {})
PqcReadinessFlags ==
    Object({"has_2030_clock_items", "hndl_priority", "runtime_verification_required"}, {})
PqcReadinessProvenanceSummary == Object({"counts", "dominant"}, {})
PqcReadinessClockItemsItem ==
    Nullable(Object({"fact_ids", "primitive", "disallowed_after"}, {"deprecated_after",
     "remediation_effort", "blocked_external", "blast_radius"}), {"deprecated_after",
     "disallowed_after"})
PqcReadinessFipsInteraction == Object({"verdict", "fact_ids"}, {"rationale"})
PqcReadinessRuntimeEvidence ==
    Object({}, {"validation_report_ref", "pqc_caps", "closed_runtime_verification",
     "runtime_confirmed_at", "staleness_window_days"})
PqcReadinessServerSideCaveatsItem == Object({"fact_ids", "caveat_type"}, {"rationale"})
PqcReadinessRemediationsItem ==
    Nullable(Object({"id", "category", "action"}, {"details", "locations", "fact_ids", "recipe",
     "target", "remediation_effort", "blocked_external", "blast_radius", "deadline",
     "blocked_on"}), {"details", "recipe", "target", "deadline", "blocked_on"})
Domain == Object({"score", "checks"}, {"assessable_checks"})
DomainChecksItem ==
    Object({"id", "result"}, {"points", "fact_ids", "rationale", "crypto_governance"})
DomainChecksItemCryptoGovernance ==
    Object({}, {"class", "governor", "detection_facts", "evaluation_target"})

\* -------- risk-rating-methodology
RiskRatingMethodology ==
    Object({"methodology", "methodology_version", "source", "bands", "bucket_thresholds",
     "likelihood_factors", "impact_factors", "matrix", "fallback"}, {"documentation", "schema",
     "threat_intel_factor"})
RiskRatingMethodologyBucketThresholds == Object({"medium_min", "high_min"}, {})
RiskRatingMethodologyLikelihoodFactors == Object({"AV", "AC", "PR", "UI"}, {})
RiskRatingMethodologyImpactFactors == Object({"C", "I", "A"}, {})
RiskRatingMethodologyMatrix == Object({"LOW", "MEDIUM", "HIGH"}, {})
RiskRatingMethodologyFallback == Object({"default_likelihood", "severity_impact"}, {})
RiskRatingMethodologyFallbackSeverityImpact ==
    Object({"critical", "high", "medium", "low", "informational"}, {})
RiskRatingMethodologyThreatIntelFactor == Object({"kev_score", "epss_bands"}, {"description"})
RiskRatingMethodologyThreatIntelFactorEpssBandsItem == Object({"min_epss", "score"}, {})
CiaMap == Object({"H", "L", "N"}, {})
MatrixRow == Object({"LOW", "MEDIUM", "HIGH"}, {})

\* -------- sla-policy
SlaPolicy == Object({"policy_name", "source", "severity_mapping", "profiles"}, {"clock_start"})
SlaPolicySource == Object({"name", "retrieved"}, {"url", "note"})
SlaPolicyProfilesEntry == Object({"slas"}, {"default", "description", "cvss_floor_days"})
SlaPolicyProfilesEntrySlasEntry ==
    Nullable(Object({"resolve_days"}, {"acknowledge_days"}), {"resolve_days",
     "acknowledge_days"})
SlaPolicyProfilesEntryCvssFloorDays == Object({"threshold", "resolve_days"}, {})

\* Every object of every contract.
Objects ==
    {AdapterResult, Metadata, Summary, AdrRegistry, AdrRegistryRegistersItem, AttackMapping,
     BenchmarkTarget, BenchmarkTargetTargetsItem, BenchmarkTargetTargetsItemEvidence,
     BenchmarkTargetTargetsItemInjection, BenchmarkTargetTargetsItemExpectedItem,
     CloudConfigAudit, CloudConfigAuditMetadata, CloudConfigAuditMetadataDeterministicStepsItem,
     CloudConfigAuditSummary, CloudConfigAuditFindingsItem,
     CloudConfigAuditFindingsItemLocationsItem, CloudConfigFindingsCurrent,
     CloudConfigFindingsCurrentMetadata,
     CloudConfigFindingsCurrentMetadataDeterministicStepsItem,
     CloudConfigFindingsCurrentMetadataAdditional,
     CloudConfigFindingsCurrentMetadataAdditionalCumulative, CloudConfigFindingsCurrentSummary,
     CloudConfigFindingsCurrentFindingsItem,
     CloudConfigFindingsCurrentFindingsItemLocationsItem,
     CloudConfigFindingsCurrentFindingsItemDisposition,
     CloudConfigFindingsCurrentFindingsItemDispositionSeverityOverride,
     CloudConfigFindingsCurrentDispositionSummary,
     CloudConfigFindingsCurrentDispositionSummarySeverityOverridesItem, ComplianceAssessment,
     ComplianceAssessmentMetadata, ComplianceAssessmentMetadataTarget,
     ComplianceAssessmentMetadataTargetScope,
     ComplianceAssessmentMetadataTargetScopeExcludedItem,
     ComplianceAssessmentMetadataFrameworksItem,
     ComplianceAssessmentMetadataOwnerAttestationsItem, ComplianceAssessmentCoverageEntry,
     ComplianceAssessmentResultsItem, ComplianceAssessmentResultsItemEvidenceItem,
     ComplianceAssessmentResultsItemOverride, ComplianceAssessmentResultsItemNPassAgreement,
     ComplianceMapping, ComplianceMappingControlsItem, Assertion, ComplianceMappingChecksItem,
     ComplianceScope, ComplianceScopeBoundariesEntry, ComplianceScopeBoundariesEntryIncludeItem,
     ComplianceScopeBoundariesEntryExcludeItem,
     ComplianceScopeBoundariesEntryDeploymentEvidence, CorpusRegistry, Subject, DocVariance,
     DocVarianceMetadata, DocVarianceRecordsItem, DocVarianceRecordsItemSource,
     DocVarianceRecordsItemCodeEvidenceItem, FleetFix, FleetFixMatcher, FleetFixResolver,
     FleetFixRewrite, FleetFixGuards, FleetFixTestsItem, ImpactAnalysis, ImpactAnalysisMetadata,
     ImpactAnalysisMetadataOptions, ImpactAnalysisSummary, RepoEntry, Evidence, IsolationReview,
     IsolationReviewMetadata, IsolationReviewPosture, Interface, InterfaceDimensions, Dimension,
     Gap, Layer, LayerMetadata, LayerMetadataFindingAliasesEntry,
     LayerMetadataExternalRefsEntryItem, Event, EventSource, Actor, Disposition,
     EventRiskWeight, EventAlias, EventFinding, EventRestatement, EventRestatementAuthority,
     ReviewItem, OperatorPrivProfile, Workload, OperatorPrivProfileRbacFlags,
     OperatorPrivProfileSummary, OrgParameters, OrgParametersParametersEntry, PqcBlockers,
     PqcBlockersMetadata, PqcBlockersMetadataAdditional, PqcBlockersExecutiveSummary,
     PqcBlockersSeverityCriteriaItem, PqcBlockersFindingsSummaryItem,
     PqcBlockersRemediationRoadmapItem, Finding, FindingLocationsItem, PqcDecisionTree,
     PqcDecisionTreeProvenanceTree, PqcDecisionTreeProvenanceTreeRulesItem,
     PqcDecisionTreeRemediationEffort, PqcDecisionTreeRemediationEffortRulesItem,
     PqcDecisionTreeReadinessBuckets, PqcDecisionTreeReadinessBucketsRulesItem,
     PqcDecisionTreeTlsControlCrosswalk, PqcDecisionTreeFipsInteraction,
     PqcDecisionTreeFipsInteractionRulesItem, PqcDecisionTreePqcClassificationMap,
     PqcDecisionTreeServerSideCaveat, PqcDecisionTreeServerSideCaveatRulesItem, PqcFacts,
     PqcFactsStamps, PqcFactsCoverage, PqcFactsSummary, Fact, FactIr8547, PqcReadiness,
     PqcReadinessMetadata, PqcReadinessMetadataTool, PqcReadinessScores, PqcReadinessFlags,
     PqcReadinessProvenanceSummary, PqcReadinessClockItemsItem, PqcReadinessFipsInteraction,
     PqcReadinessRuntimeEvidence, PqcReadinessServerSideCaveatsItem,
     PqcReadinessRemediationsItem, Domain, DomainChecksItem, DomainChecksItemCryptoGovernance,
     RefutedRegister, Entry, Remediation, RemediationMetadata, SourceFinding, Fork, Patch,
     PatchFilesChangedItem, PatchDiffstat, Check, PatchEvidence, Revalidation, PullRequest,
     RemediationSummary, Report, ReportFinding, Location, ReportFindingCvss, EvidenceBlock,
     ReportDisposition, ReportDispositionSeverityOverride, ReportFindingDependency,
     ReportMetadata, ReportMetadataLocBreakdown, ReportMetadataAdditional, ExecutiveSummary,
     ExecutiveSummarySeverityCounts, SeverityCriterion, SeverityCountEntry, RoadmapItem,
     DependencyAudit, DependencyAuditEntriesItem, NegativeResult, AsvsChapter, ScannerEntry,
     PeachIsolationReview, PeachIsolationReviewInterfacesItem, DispositionSummary,
     DispositionSummaryByResolution, DispositionSummaryByValidity,
     DispositionSummarySeverityOverridesItem, RiskRatingMethodology,
     RiskRatingMethodologyBucketThresholds, RiskRatingMethodologyLikelihoodFactors,
     RiskRatingMethodologyImpactFactors, RiskRatingMethodologyMatrix,
     RiskRatingMethodologyFallback, RiskRatingMethodologyFallbackSeverityImpact,
     RiskRatingMethodologyThreatIntelFactor,
     RiskRatingMethodologyThreatIntelFactorEpssBandsItem, CiaMap, MatrixRow, SlaPolicy,
     SlaPolicySource, SlaPolicyProfilesEntry, SlaPolicyProfilesEntrySlasEntry,
     SlaPolicyProfilesEntryCvssFloorDays, ThreatModel, Provenance, Asset, EntryPoint, Threat,
     OwaspRiskRating, OwaspRiskRatingLikelihood, OwaspRiskRatingLikelihoodFactors,
     OwaspRiskRatingImpact, OwaspRiskRatingImpactTechnical, OwaspRiskRatingImpactBusiness,
     DeprioritizedThreat, Mitigation, AttackScenario, TenantBoundary, HistoryEntry, Triage,
     TriageContext, TriageSummary, TriageSummaryBySeverity, TriageFinding, Validation,
     ValidationMetadata, Fingerprint, ValidationMetadataApproval, SourceReport,
     ValidationSummary, ValidationSummaryByVerdict, ValidatedFinding, StepResult,
     EvidenceArtifact, AttackChain, NovelFinding, Verification, VerificationMetadata,
     VerificationSummary, VerificationSummaryByVerdict, VerifiedFinding, RemediationCommit,
     VerifiedFindingEvidence, CrossRepo, Regression, RegressionCvss, TimelineEntry,
     VulnFindings, VulnFindingsMetadata, VulnFindingsFinding, KnownFinding, VulnFindingsSummary}
==============================================================================
