------------------------------ MODULE Projection ------------------------------
(****************************************************************************)
(* From a document to its row.  A producer's bytes are validated against    *)
(* their contract (types.ParseArtifact), saved under a binding, decoded     *)
(* into the generated Go type and projected into the family's table, all in *)
(* the transaction StorageSave.tla models statement by statement; here it   *)
(* is one step, and the data is what matters: which members are there.      *)
(*                                                                          *)
(* One object of the document is looked at: the root, an item that has a    *)
(* row of its own, an object whose members land in an item's row, or an     *)
(* object inside a JSON column, which is re-encoded from the Go value.      *)
(****************************************************************************)
EXTENDS GoTypes

C == INSTANCE Contracts
P == INSTANCE Projectors
T == INSTANCE Tables

VARIABLES site,      \* the object looked at, and where it lands
          document,  \* its members: "given", "empty", "null" or "absent"
          binding,   \* the identity fields the caller's binding carries
          stage,     \* how far Parse and Save have come
          value,     \* the decoded Go value
          stored     \* the columns, or the members of the JSON column

vars == <<site, document, binding, stage, value, stored>>

-------------------------------------------------------------------------------
(* Where an object lands *)

Family(object, saves, table) ==
    [object |-> object, needs |-> saves.needs, row |-> saves.row, table |-> table,
     whole |-> TRUE]

Item(object, saves, row, table) ==
    [object |-> object, needs |-> saves.needs, row |-> row, table |-> table, whole |-> FALSE]

InJSON(object) ==
    [object |-> object, needs |-> {}, row |-> P!Row({}, {}, emitStruct(object)),
     table |-> T!Table({}, emitStruct(object)), whole |-> TRUE]

Families ==
    {Family(C!AdapterResult, P!AdapterResult, T!adapter_result),
     Family(C!AdrRegistry, P!AdrRegistry, T!adr_registry),
     Family(C!AttackMapping, P!AttackMapping, T!attack_mapping),
     Family(C!BenchmarkTarget, P!BenchmarkTarget, T!benchmark_target),
     Family(C!CloudConfigAudit, P!CloudConfigAudit, T!cloud_config_audit),
     Family(C!CloudConfigFindingsCurrent, P!CloudConfigFindingsCurrent,
            T!cloud_config_findings_current),
     Family(C!ComplianceAssessment, P!ComplianceAssessment, T!compliance_assessment),
     Family(C!ComplianceMapping, P!ComplianceMapping, T!compliance_mapping),
     Family(C!ComplianceScope, P!ComplianceScope, T!compliance_scope),
     Family(C!DocVariance, P!DocVariance, T!doc_variance),
     Family(C!FleetFix, P!FleetFix, T!fleet_fix),
     Family(C!ImpactAnalysis, P!ImpactAnalysis, T!impact_analysis),
     Family(C!IsolationReview, P!IsolationReview, T!isolation_review),
     Family(C!OperatorPrivProfile, P!OperatorPrivProfile, T!priv_profile),
     Family(C!OrgParameters, P!OrgParameters, T!org_parameters),
     Family(C!PqcBlockers, P!PqcBlockers, T!pqc_blockers),
     Family(C!PqcDecisionTree, P!PqcDecisionTree, T!pqc_decision_tree),
     Family(C!PqcFacts, P!PqcFacts, T!pqc_facts),
     Family(C!PqcReadiness, P!PqcReadiness, T!pqc_readiness),
     Family(C!RefutedRegister, P!RefutedRegister, T!refuted_register),
     Family(C!Remediation, P!Remediation, T!remediation),
     Family(C!Report, P!Report, T!report),
     Family(C!RiskRatingMethodology, P!RiskRatingMethodology, T!risk_rating_methodology),
     Family(C!SlaPolicy, P!SlaPolicy, T!sla_policy),
     Family(C!Validation, P!Validation, T!validation),
     Family(C!Verification, P!Verification, T!verification)}

Items ==
    {Item(C!Event, P!Layer, P!LayerEvent, T!layer_event),
     Item(C!EventSource, P!Layer, P!LayerEventSource, T!layer_event),
     Item(C!Actor, P!Layer, P!LayerEventActor, T!layer_event),
     Item(C!Disposition, P!Layer, P!LayerEventDisposition, T!layer_event),
     Item(C!EventRiskWeight, P!Layer, P!LayerEventRiskWeight, T!layer_event),
     Item(C!VulnFindings, P!VulnFindings, P!FindingDocument, T!finding),
     Item(C!VulnFindingsFinding, P!VulnFindings, P!Finding, T!finding),
     Item(C!Triage, P!Triage, P!TriageVerdictDocument, T!triage_verdict),
     Item(C!TriageFinding, P!Triage, P!TriageVerdict, T!triage_verdict),
     Item(C!Subject, P!CorpusRegistry, P!SubjectOwnership,
          T!subject_ownership),
     Item(C!Threat, P!ThreatModel, P!Threat, T!threat),
     Item(C!OwaspRiskRating, P!ThreatModel, P!ThreatRating, T!threat),
     Item(C!OwaspRiskRatingLikelihood, P!ThreatModel, P!ThreatRatingLikelihood, T!threat),
     Item(C!OwaspRiskRatingImpact, P!ThreatModel, P!ThreatRatingImpact, T!threat),
     Item(C!ReportFinding, P!Report, P!ReportFinding, T!report_finding),
     Item(C!ReportDisposition, P!Report, P!ReportFindingDisposition, T!report_finding)}

Sites == Families \cup Items \cup {InJSON(o) : o \in C!Objects}

-------------------------------------------------------------------------------
Members(object) == object.own \cup object.inherited

\* What a producer may hand in for an object.
CONSTANT Documents(_)

AnyDocument(object) == [Members(object) -> Written \cup {"null", "absent"}]

ASSUME DocumentAssumption == \A s \in Sites : Documents(s.object) \subseteq AnyDocument(s.object)

(* validate.ValidateBytes *)
Admits(object, d) ==
    \A m \in Members(object) :
        /\ isRequired(object, m) => d[m] # "absent"
        /\ d[m] = "null" => m \in object.nullable

(* What the projector hands to the upsert for one column. *)
Column(p, v) ==
    IF v[p.member] # "nil" THEN v[p.member]
    ELSE IF p.by = "json" THEN "zero" ELSE "null"

Columns == [c \in DOMAIN site.row |-> Column(site.row[c], value)]

(* NOT NULL *)
Accepts(table, columns) == \A c \in DOMAIN columns : c \in table.required => columns[c] # "null"

-------------------------------------------------------------------------------
Init == /\ site \in Sites
        /\ document \in Documents(site.object)
        /\ binding \in SUBSET site.needs
        /\ stage = "parse"
        /\ value = <<>>
        /\ stored = <<>>

\* types.Parse<Family>Artifact
ParseArtifact ==
    /\ stage = "parse"
    /\ stage' = IF Admits(site.object, document) THEN "bind" ELSE "refused"
    /\ UNCHANGED <<site, document, binding, value, stored>>

\* saveTypedArtifact: validateBinding, then the bytes once more
ValidateBinding ==
    /\ stage = "bind"
    /\ stage' = IF site.needs \subseteq binding /\ Admits(site.object, document)
                THEN "decode" ELSE "refused"
    /\ UNCHANGED <<site, document, binding, value, stored>>

Decode ==
    /\ stage = "decode"
    /\ value' = Value(site.object, document)
    /\ stage' = "project"
    /\ UNCHANGED <<site, document, binding, stored>>

ProjectRow ==
    /\ stage = "project"
    /\ site \in Families \cup Items
    /\ IF Accepts(site.table, Columns)
       THEN stored' = Columns /\ stage' = "stored"
       ELSE stage' = "failed" /\ UNCHANGED stored
    /\ UNCHANGED <<site, document, binding, value>>

ProjectJSON ==
    /\ stage = "project"
    /\ site \notin Families \cup Items
    /\ stored' = Marshal(site.object, value)
    /\ stage' = "stored"
    /\ UNCHANGED <<site, document, binding, value>>

Next == ParseArtifact \/ ValidateBinding \/ Decode \/ ProjectRow \/ ProjectJSON

Spec == Init /\ [][Next]_vars

-------------------------------------------------------------------------------
(* Types: a Go value has no null and a row has no nil. *)
TypeOK ==
    /\ site \in Sites
    /\ document \in AnyDocument(site.object)
    /\ stage \in {"parse", "bind", "decode", "project", "stored", "refused", "failed"}
    /\ stage \in {"project", "stored", "failed"} =>
           value \in [emitStruct(site.object) -> Written \cup {"nil", "zero"}]
    /\ stage = "stored" =>
           stored \in [DOMAIN site.row -> Written \cup {"null", "absent", "zero"}]

(* No document its contract admits is refused by the database: contract,    *)
(* Go type, projector and table agree on what may be missing, though each   *)
(* is generated or written from a different file.                           *)
AdmittedIsStored == stage # "failed"

(* Absent stays absent: a column, or a member of a JSON column, has a value *)
(* only when some producer wrote it (projections.go:289 "keeps absent       *)
(* ABSENT").                                                                *)
NothingInvented ==
    stage = "stored" =>
        \A c \in DOMAIN stored :
            /\ stored[c] # "zero"
            /\ stored[c] \in Written => document[site.row[c].member] = stored[c]

Reaches(m) ==
    \E c \in DOMAIN stored : site.row[c].member = m /\ stored[c] = document[m]

(* Inside a JSON column an optional list or map without entries is left out *)
(* (omitempty), unless its contract lets it be null.                        *)
Omitted ==
    {m \in site.object.own \ (site.object.required \cup site.object.nullable) :
        document[m] = "empty" /\ site \notin Families \cup Items}

(* What an object's own schema names reaches the row or the JSON column as  *)
(* it was written, but for optional lists and maps written empty in JSON.   *)
OwnMembersReachTheRow ==
    stage = "stored" /\ site.whole =>
        \A m \in site.object.own \ Omitted : document[m] \in Written => Reaches(m)

(* So does what it takes over from another schema (go/README.md:313: "Root  *)
(* fields become typed columns while nested values remain JSON").  It does  *)
(* not: the generator reads no allOf, so the Go type of a validation's      *)
(* novel finding has none of the members of a report finding, its id, title *)
(* and severity included, and the column novel_findings has none of them.   *)
NothingIsLost ==
    stage = "stored" /\ site.whole =>
        \A m \in Members(site.object) : document[m] = "given" => Reaches(m)

-------------------------------------------------------------------------------
(* Why the properties hold: what the four files must agree on.              *)

\* A member every admitted document gives a value.
Always(object) == object.required \ object.nullable

\* A column is filled from a field of the Go type, and one whose NULL nobody
\* takes - not the table, not projectionJSON - from a member that is always there.
ColumnAgrees(object, row, table, c) ==
    /\ row[c].member \in emitStruct(object)
    /\ row[c].by = "json" \/ c \in table.required => row[c].member \in Always(object)

Agrees(s) ==
    /\ \A c \in DOMAIN s.row : ColumnAgrees(s.object, s.row, s.table, c)
    /\ s.whole => \A m \in s.object.own : \E c \in DOMAIN s.row : s.row[c].member = m

\* How far a document has come says what is known of it.
PassageInv ==
    /\ stage \in {"bind", "decode", "project", "stored"} => Admits(site.object, document)
    /\ stage \in {"project", "stored"} => value = Value(site.object, document)
    /\ stage = "stored" =>
           IF site \in Families \cup Items THEN stored = Columns
           ELSE stored = Marshal(site.object, value)

IInv == TypeOK /\ Agrees(site) /\ PassageInv /\ AdmittedIsStored
================================================================================
