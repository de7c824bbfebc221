------------------------------ MODULE Projectors ------------------------------
(****************************************************************************)
(* The projectors of go/v1/storage: for every artifact family the identity  *)
(* its binding must carry (Save<Family>) and how a member of the decoded    *)
(* Go value becomes a column (project<Family>, operations.go).  The five    *)
(* families that fan out into one row per item, and the items of a report,  *)
(* have hand-written projectors (projections.go, report_projection.go); an  *)
(* object nested in an item lands in the columns of its item's row.         *)
(*                                                                          *)
(* How a column is filled:                                                  *)
(*   field     value.X, or a conversion of it that keeps nil               *)
(*   json      projectionJSON(value.X): nil becomes the text "null"         *)
(*   optional  optionalProjectionJSON(value.X): nil becomes NULL            *)
(****************************************************************************)

\* column |-> [member, by]; a column has the name of its member ...
Row(fields, json, optional) ==
    [c \in fields \cup json \cup optional |->
        [member |-> c,
         by |-> IF c \in fields THEN "field" ELSE IF c \in json THEN "json" ELSE "optional"]]

\* ... unless the projector files it under another one.
Filed(row, columns) ==
    LET column(m) == IF m \in DOMAIN columns THEN columns[m] ELSE m
    IN  [c \in {column(m) : m \in DOMAIN row} |->
            row[CHOOSE m \in DOMAIN row : column(m) = c]]

\* Save<Family>: the identity its binding needs, and its row.
Saves(needs, row) == [needs |-> needs, row |-> row]
FansOut == <<>>

\* -------- one row per artifact (operations.go)

AdapterResult ==
    Saves({"subject", "run"}, Row({"target", "scanned_at"}, {"metadata", "findings"},
     {"summary", "focus_areas"}))
AdrRegistry == Saves({}, Row({"version", "note"}, {"registers"}, {}))
AttackMapping ==
    Saves({}, Row({"mapping_version", "attack_version", "source", "documentation", "schema",
     "attribution"}, {"capability_map", "category_map"}, {}))
BenchmarkTarget == Saves({}, Row({"version", "updated"}, {"targets"}, {}))
CloudConfigAudit ==
    Saves({"subject", "run"}, Row({"title"}, {"metadata", "summary", "findings"}, {"gaps"}))
CloudConfigFindingsCurrent ==
    Saves({"subject", "run"}, Row({"title"}, {"metadata", "summary", "findings",
     "disposition_summary"}, {"gaps"}))
ComplianceAssessment ==
    Saves({"subject", "run"}, Row({}, {"metadata", "coverage", "results"}, {}))
ComplianceMapping == Saves({}, Row({"version", "note"}, {"controls", "checks"}, {}))
ComplianceScope == Saves({}, Row({"version", "updated"}, {"boundaries"}, {}))
CorpusRegistry == Saves({}, FansOut)
DocVariance == Saves({"subject", "run"}, Row({}, {"metadata", "records"}, {}))
FleetFix ==
    Saves({}, Row({"id", "pattern_ref", "description"}, {"matcher", "rewrite", "guards",
     "tests"}, {"resolver"}))
ImpactAnalysis == Saves({}, Row({}, {"metadata", "summary", "repos"}, {}))
IsolationReview ==
    Saves({}, Row({"title", "notes"}, {"metadata", "interfaces", "gaps", "posture"}, {}))
Layer == Saves({"layer"}, FansOut)
OperatorPrivProfile ==
    Saves({"subject", "run"}, Row({"repo", "tier"}, {}, {"workloads", "rbac_rules",
     "rbac_flags", "scc_requests", "sccs_shipped", "namespaces", "install_modes",
     "operatorgroups", "tier2_required_vs_granted", "example_or_test_manifests_excluded",
     "summary"}))
OrgParameters ==
    Saves({}, Row({"version", "declared_by", "declared_on", "note"}, {"parameters"}, {}))
PqcBlockers ==
    Saves({"subject", "run"}, Row({"artifact", "title"}, {"metadata", "executive_summary",
     "severity_criteria", "findings", "findings_summary", "remediation_roadmap"}, {}))
PqcDecisionTree ==
    Saves({}, Row({"tree_version", "plan", "schema"}, {"provenance_tree", "remediation_effort",
     "readiness_buckets", "tls_control_crosswalk", "fips_interaction",
     "pqc_classification_map"}, {"server_side_caveat"}))
PqcFacts ==
    Saves({"subject", "run"}, Row({"artifact", "repository"}, {"stamps", "coverage", "summary",
     "facts"}, {}))
PqcReadiness ==
    Saves({"subject", "run"}, Row({"title", "readiness_bucket", "notes"}, {"metadata", "scores",
     "flags", "provenance_summary"}, {"clock_items", "fips_interaction", "runtime_evidence",
     "server_side_caveats", "remediations"}))
RefutedRegister ==
    Saves({"subject", "run"}, Row({"source", "generated_at"}, {"entries"}, {"sources"}))
Remediation ==
    Saves({"subject", "run"}, Row({"title", "notes", "footer"}, {"metadata", "source_findings",
     "fork", "patch", "checks", "summary"}, {"evidence", "revalidation", "pull_request"}))
Report_NoDisposition ==
    Saves({"subject", "run"}, Row({"title", "footer"}, {"metadata", "executive_summary",
     "severity_criteria", "findings", "findings_summary", "remediation_roadmap"},
     {"dependency_audit", "negative_results", "asvs_coverage", "scanner_correlation",
     "peach_isolation_review"}))
Report ==
    Saves({"subject", "run"}, Row({"title", "footer"}, {"metadata", "executive_summary",
     "severity_criteria", "findings", "findings_summary", "remediation_roadmap"},
     {"dependency_audit", "negative_results", "asvs_coverage", "scanner_correlation",
     "peach_isolation_review", "disposition_summary"}))
RiskRatingMethodology ==
    Saves({}, Row({"methodology", "methodology_version", "source", "documentation", "schema"},
     {"bands", "bucket_thresholds", "likelihood_factors", "impact_factors", "matrix",
     "fallback"}, {"threat_intel_factor"}))
SlaPolicy ==
    Saves({}, Row({"policy_name", "clock_start"}, {"source", "severity_mapping", "profiles"},
     {}))
ThreatModel == Saves({"subject", "run"}, FansOut)
Triage == Saves({"subject", "run"}, FansOut)
Validation ==
    Saves({"subject", "run"}, Row({"title", "execution_log_ref", "execution_log_sha256",
     "footer"}, {"metadata", "source_reports", "summary", "validated_findings", "attack_chains",
     "novel_findings"}, {"negative_results"}))
Verification ==
    Saves({"subject", "run"}, Row({"title", "notes", "footer"}, {"metadata", "summary",
     "verified_findings", "regressions", "commit_timeline"}, {"evidence", "recommendations"}))
VulnFindings == Saves({"subject", "run"}, FansOut)

\* -------- one row per item (projections.go, report_projection.go)
LayerEvent ==
    Row({"event_id", "finding_ref", "fingerprint", "fingerprint_algo", "recorded_at",
         "occurred_at", "evidence_grade", "auto_accept_tier", "rationale", "harness_version"},
        {}, {"evidence_refs", "alias", "finding", "restatement"})
LayerEventSource ==
    Filed(Row({"type", "ref", "reported_by"}, {}, {}),
          [type |-> "source_type", ref |-> "source_ref", reported_by |-> "source_reported_by"])
LayerEventActor == Filed(Row({"kind"}, {}, {}), [kind |-> "actor_kind"])
LayerEventDisposition == Row({"validity", "resolution", "severity", "embargo"}, {}, {})
LayerEventRiskWeight ==
    Filed(Row({"lambda", "weights_version", "tenancy_profile", "profile_source"}, {}, {}),
          [lambda |-> "risk_lambda", weights_version |-> "risk_weights_version",
           tenancy_profile |-> "risk_tenancy_profile", profile_source |-> "risk_profile_source"])

Finding ==
    Filed(Row({"id", "title", "severity", "description", "category", "file", "line", "cwe",
               "recommendation", "confidence"}, {}, {}), [id |-> "finding_id"])
FindingDocument == Row({"target", "scanned_at"}, {}, {})

TriageVerdict ==
    Filed(Row({"id", "orig_id", "verdict", "severity", "rationale"}, {}, {"vote_breakdown"}),
          [id |-> "finding_id", orig_id |-> "source_finding_id"])
TriageVerdictDocument == Row({"triage_completed"}, {}, {})

SubjectOwnership ==
    Row({"subject_id", "tree", "ownership", "business_unit", "label", "product", "repo_url",
         "ref", "ref_kind", "is_branch_audit"}, {}, {})

Threat ==
    Filed(Row({"id", "threat", "surface", "asset", "impact", "likelihood", "status", "controls"},
              {}, {"actor", "evidence", "isolation_dimensions", "attack_refs", "risk_rating"}),
          [id |-> "threat_id", threat |-> "statement", actor |-> "actors"])
ThreatRating == Row({"severity"}, {}, {})
ThreatRatingLikelihood ==
    Filed(Row({"score", "level"}, {}, {}),
          [score |-> "likelihood_score", level |-> "likelihood_level"])
ThreatRatingImpact ==
    Filed(Row({"score", "level", "basis"}, {}, {}),
          [score |-> "impact_score", level |-> "impact_level", basis |-> "impact_basis"])

ReportFinding ==
    Filed(Row({"id", "title", "severity", "fingerprint", "validation_status", "description",
               "remediation", "category", "attack_pattern", "effective_severity", "origin",
               "remediation_effort", "blocked_external", "pqc_classification",
               "fingerprint_algo", "isolation_boundary"}, {},
              {"cwes", "locations", "asvs_references", "peach_references", "capec", "cvss",
               "evidence", "source_findings", "passes", "isolation_dimensions", "dependency"}),
          [id |-> "finding_id"])
ReportFindingDisposition ==
    Row({"validity", "resolution", "assurance", "last_updated", "conflict", "fp_overridden",
         "fp_reassertion_blocked", "refuted_awaiting_signoff"}, {}, {"severity_override"})

==============================================================================
