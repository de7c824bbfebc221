--------------------------- MODULE ProjectionProofs ---------------------------
(****************************************************************************)
(* Proofs about Projection, for any documents: whatever members a producer  *)
(* leaves out or sets to null, and however many at once.  The contracts, the *)
(* projectors and the tables are those of the SDK.                          *)
(****************************************************************************)
EXTENDS Projection, TLAPS

-------------------------------------------------------------------------------
(* Where a document is admitted, a value or a column is missing only if its *)
(* member is not one that is always there.                                  *)

LEMMA AlwaysGiven ==
  ASSUME NEW object, NEW d, NEW m \in Always(object), m \in object.own,
         d \in AnyDocument(object), Admits(object, d)
  PROVE  d[m] \in Written
BY DEF Always, AnyDocument, Admits, isRequired, Members

LEMMA ValueOf ==
  ASSUME NEW object, NEW d, d \in AnyDocument(object), Admits(object, d)
  PROVE  /\ Value(object, d) \in [emitStruct(object) -> Written \cup {"nil"}]
         /\ \A m \in emitStruct(object) :
              /\ Value(object, d)[m] = IF d[m] \in Written THEN d[m] ELSE "nil"
              /\ m \in Always(object) => Value(object, d)[m] # "nil"
<1>1. ASSUME NEW m \in object.own, d[m] \notin Written
      PROVE  goType(object, m) # "value"
  <2>1. m \notin Always(object)
    BY <1>1, AlwaysGiven
  <2> QED
    BY <2>1 DEF Always, goType, goTypeBase, wrapOptional, isRequired
<1>2. \A m \in object.own : Value(object, d)[m] = IF d[m] \in Written THEN d[m] ELSE "nil"
  BY <1>1 DEF Value, emitStruct
<1> QED
  BY <1>2, AlwaysGiven DEF Value, emitStruct, Written

LEMMA ColumnOf ==
  ASSUME NEW object, NEW row, NEW table, NEW c, ColumnAgrees(object, row, table, c),
         NEW v \in [emitStruct(object) -> Written \cup {"nil"}],
         \A m \in emitStruct(object) \cap Always(object) : v[m] # "nil"
  PROVE  LET m == row[c].member
         IN  /\ Column(row[c], v) = IF v[m] = "nil" THEN "null" ELSE v[m]
             /\ c \in table.required => Column(row[c], v) # "null"
BY DEF ColumnAgrees, Column, Written

LEMMA MarshalOf ==
  ASSUME NEW object, NEW v \in [emitStruct(object) -> Written \cup {"nil"}]
  PROVE  /\ Marshal(object, v) \in [emitStruct(object) -> Written \cup {"null", "absent"}]
         /\ \A m \in emitStruct(object) :
              IF v[m] \in Written /\ ~ Omits(object, m, v[m]) THEN Marshal(object, v)[m] = v[m]
              ELSE Marshal(object, v)[m] \in {"null", "absent"}
BY DEF Marshal, emitStruct, Written

\* A value that a producer wrote and encoding/json leaves out.
LEMMA OmitsEmpty ==
  ASSUME NEW object, NEW m, NEW v \in Written
  PROVE  Omits(object, m, v) <=> v = "empty" /\ m \notin object.required \cup object.nullable
BY DEF Omits, jsonTag, goType, goTypeBase, wrapOptional, isRequired, Written

-------------------------------------------------------------------------------
(* The tables: every contract, projector and table agree.                   *)

\* A row by Row: columns have the names of their members.
Shaped(row, names, json) ==
  /\ DOMAIN row = names
  /\ \A c \in names : row[c].member = c /\ (row[c].by = "json" => c \in json)

LEMMA RowShape ==
  \A fields, json, optional :
    Shaped(P!Row(fields, json, optional), fields \cup json \cup optional, json)
BY DEF P!Row, Shaped

LEMMA FamilyAgrees ==
  ASSUME NEW object, NEW needs, NEW table, NEW fields, NEW json, NEW optional,
         fields \cup json \cup optional = object.own,
         json \cup (table.required \cap object.own) \subseteq Always(object)
  PROVE  Agrees(Family(object, P!Saves(needs, P!Row(fields, json, optional)), table))
<1> DEFINE row == P!Row(fields, json, optional)
           s == Family(object, P!Saves(needs, row), table)
<1>1. s.object = object /\ s.row = row /\ s.table = table
  BY DEF Family, P!Saves
<1>2. Shaped(row, object.own, json)
  BY RowShape
<1> HIDE DEF row, s
<1>3. \A c \in DOMAIN row : ColumnAgrees(object, row, table, c)
  BY <1>2 DEF ColumnAgrees, emitStruct, Shaped
<1>4. Agrees(s)
  BY <1>1, <1>2, <1>3 DEF Agrees, Shaped
<1> QED
  BY <1>4 DEF s, row

LEMMA InJSONAgrees == \A object : Agrees(InJSON(object))
<1> SUFFICES ASSUME NEW object PROVE Agrees(InJSON(object))
  OBVIOUS
<1> DEFINE row == P!Row({}, {}, emitStruct(object))
           s == InJSON(object)
<1>1. s.object = object /\ s.row = row /\ s.table.required = {}
  BY DEF InJSON, T!Table
<1>2. Shaped(row, object.own, {})
  <2>1. Shaped(row, {} \cup {} \cup emitStruct(object), {})
    BY RowShape
  <2> QED
    BY <2>1 DEF emitStruct
<1> HIDE DEF row, s
<1>3. \A c \in DOMAIN row : ColumnAgrees(object, row, s.table, c)
  BY <1>1, <1>2 DEF ColumnAgrees, emitStruct, Shaped
<1>4. Agrees(s)
  BY <1>1, <1>2, <1>3 DEF Agrees, Shaped
<1> QED
  BY <1>4 DEF s

\* The column a member is filed under.
Under(columns, m) == IF m \in DOMAIN columns THEN columns[m] ELSE m

LEMMA FiledShape ==
  ASSUME NEW row, NEW columns
  PROVE  \A c \in DOMAIN P!Filed(row, columns) :
           \E m \in DOMAIN row : Under(columns, m) = c /\ P!Filed(row, columns)[c] = row[m]
<1> DEFINE under == {Under(columns, m) : m \in DOMAIN row}
           from(c) == CHOOSE m \in DOMAIN row : Under(columns, m) = c
<1>1. P!Filed(row, columns) = [c \in under |-> row[from(c)]]
  BY DEF P!Filed, Under
<1>2. \A c \in under : from(c) \in DOMAIN row /\ Under(columns, from(c)) = c
  OBVIOUS
<1> QED
  BY <1>1, <1>2

LEMMA ItemAgrees ==
  ASSUME NEW object, NEW saves, NEW table, NEW fields, NEW json, NEW optional, NEW columns,
         fields \cup json \cup optional \subseteq object.own,
         json \subseteq Always(object),
         \A m \in fields \cup json \cup optional :
           Under(columns, m) \in table.required => m \in Always(object)
  PROVE  Agrees(Item(object, saves, P!Filed(P!Row(fields, json, optional), columns), table))
<1> DEFINE row == P!Row(fields, json, optional)
           filed == P!Filed(row, columns)
           s == Item(object, saves, filed, table)
<1>1. s.object = object /\ s.row = filed /\ s.table = table /\ ~ s.whole
  BY DEF Item
<1>2. Shaped(row, fields \cup json \cup optional, json)
  BY RowShape
<1>3. \A c \in DOMAIN filed : \E m \in DOMAIN row : Under(columns, m) = c /\ filed[c] = row[m]
  BY FiledShape
<1> HIDE DEF row, filed, s
<1>4. \A c \in DOMAIN filed : ColumnAgrees(object, filed, table, c)
  BY <1>2, <1>3 DEF ColumnAgrees, emitStruct, Shaped
<1>5. Agrees(s)
  BY <1>1, <1>4 DEF Agrees
<1> QED
  BY <1>5 DEF s, filed, row


LEMMA PlainItemAgrees ==
  ASSUME NEW object, NEW saves, NEW table, NEW fields, NEW json, NEW optional,
         fields \cup json \cup optional \subseteq object.own,
         json \cup (table.required \cap (fields \cup json \cup optional)) \subseteq Always(object)
  PROVE  Agrees(Item(object, saves, P!Row(fields, json, optional), table))
<1> DEFINE row == P!Row(fields, json, optional)
           s == Item(object, saves, row, table)
<1>1. s.object = object /\ s.row = row /\ s.table = table /\ ~ s.whole
  BY DEF Item
<1>2. Shaped(row, fields \cup json \cup optional, json)
  BY RowShape
<1> HIDE DEF row, s
<1>3. \A c \in DOMAIN row : ColumnAgrees(object, row, table, c)
  BY <1>2 DEF ColumnAgrees, emitStruct, Shaped
<1>4. Agrees(s)
  BY <1>1, <1>3 DEF Agrees
<1> QED
  BY <1>4 DEF s, row

LEMMA FamiliesAgree == \A s \in Families : Agrees(s)
<1>1. Agrees(Family(C!AdapterResult, P!AdapterResult, T!adapter_result))
  BY FamilyAgrees DEF C!AdapterResult, C!Object, P!AdapterResult, T!adapter_result,
     T!Table, Always
<1>2. Agrees(Family(C!AdrRegistry, P!AdrRegistry, T!adr_registry))
  BY FamilyAgrees DEF C!AdrRegistry, C!Object, P!AdrRegistry, T!adr_registry, T!Table,
     Always
<1>3. Agrees(Family(C!AttackMapping, P!AttackMapping, T!attack_mapping))
  BY FamilyAgrees DEF C!AttackMapping, C!Object, P!AttackMapping, T!attack_mapping,
     T!Table, Always
<1>4. Agrees(Family(C!BenchmarkTarget, P!BenchmarkTarget, T!benchmark_target))
  BY FamilyAgrees DEF C!BenchmarkTarget, C!Object, P!BenchmarkTarget,
     T!benchmark_target, T!Table, Always
<1>5. Agrees(Family(C!CloudConfigAudit, P!CloudConfigAudit, T!cloud_config_audit))
  BY FamilyAgrees DEF C!CloudConfigAudit, C!Object, P!CloudConfigAudit,
     T!cloud_config_audit, T!Table, Always
<1>6. Agrees(Family(C!CloudConfigFindingsCurrent, P!CloudConfigFindingsCurrent, T!cloud_config_findings_current))
  BY FamilyAgrees DEF C!CloudConfigFindingsCurrent, C!Object,
     P!CloudConfigFindingsCurrent, T!cloud_config_findings_current, T!Table, Always
<1>7. Agrees(Family(C!ComplianceAssessment, P!ComplianceAssessment, T!compliance_assessment))
  BY FamilyAgrees DEF C!ComplianceAssessment, C!Object, P!ComplianceAssessment,
     T!compliance_assessment, T!Table, Always
<1>8. Agrees(Family(C!ComplianceMapping, P!ComplianceMapping, T!compliance_mapping))
  BY FamilyAgrees DEF C!ComplianceMapping, C!Object, P!ComplianceMapping,
     T!compliance_mapping, T!Table, Always
<1>9. Agrees(Family(C!ComplianceScope, P!ComplianceScope, T!compliance_scope))
  BY FamilyAgrees DEF C!ComplianceScope, C!Object, P!ComplianceScope,
     T!compliance_scope, T!Table, Always
<1>10. Agrees(Family(C!DocVariance, P!DocVariance, T!doc_variance))
  BY FamilyAgrees DEF C!DocVariance, C!Object, P!DocVariance, T!doc_variance, T!Table,
     Always
<1>11. Agrees(Family(C!FleetFix, P!FleetFix, T!fleet_fix))
  BY FamilyAgrees DEF C!FleetFix, C!Object, P!FleetFix, T!fleet_fix, T!Table, Always
<1>12. Agrees(Family(C!ImpactAnalysis, P!ImpactAnalysis, T!impact_analysis))
  BY FamilyAgrees DEF C!ImpactAnalysis, C!Object, P!ImpactAnalysis, T!impact_analysis,
     T!Table, Always
<1>13. Agrees(Family(C!IsolationReview, P!IsolationReview, T!isolation_review))
  BY FamilyAgrees DEF C!IsolationReview, C!Object, P!IsolationReview,
     T!isolation_review, T!Table, Always
<1>14. Agrees(Family(C!OperatorPrivProfile, P!OperatorPrivProfile, T!priv_profile))
  BY FamilyAgrees DEF C!OperatorPrivProfile, C!Object, P!OperatorPrivProfile,
     T!priv_profile, T!Table, Always
<1>15. Agrees(Family(C!OrgParameters, P!OrgParameters, T!org_parameters))
  BY FamilyAgrees DEF C!OrgParameters, C!Object, P!OrgParameters, T!org_parameters,
     T!Table, Always
<1>16. Agrees(Family(C!PqcBlockers, P!PqcBlockers, T!pqc_blockers))
  BY FamilyAgrees DEF C!PqcBlockers, C!Object, P!PqcBlockers, T!pqc_blockers, T!Table,
     Always
<1>17. Agrees(Family(C!PqcDecisionTree, P!PqcDecisionTree, T!pqc_decision_tree))
  BY FamilyAgrees DEF C!PqcDecisionTree, C!Object, P!PqcDecisionTree,
     T!pqc_decision_tree, T!Table, Always
<1>18. Agrees(Family(C!PqcFacts, P!PqcFacts, T!pqc_facts))
  BY FamilyAgrees DEF C!PqcFacts, C!Object, P!PqcFacts, T!pqc_facts, T!Table, Always
<1>19. Agrees(Family(C!PqcReadiness, P!PqcReadiness, T!pqc_readiness))
  BY FamilyAgrees DEF C!PqcReadiness, C!Object, P!PqcReadiness, T!pqc_readiness,
     T!Table, Always
<1>20. Agrees(Family(C!RefutedRegister, P!RefutedRegister, T!refuted_register))
  BY FamilyAgrees DEF C!RefutedRegister, C!Object, P!RefutedRegister,
     T!refuted_register, T!Table, Always
<1>21. Agrees(Family(C!Remediation, P!Remediation, T!remediation))
  BY FamilyAgrees DEF C!Remediation, C!Object, P!Remediation, T!remediation, T!Table,
     Always
<1>22. Agrees(Family(C!Report, P!Report, T!report))
  BY FamilyAgrees DEF C!Report, C!Object, P!Report, T!report, T!Table, Always
<1>23. Agrees(Family(C!RiskRatingMethodology, P!RiskRatingMethodology, T!risk_rating_methodology))
  BY FamilyAgrees DEF C!RiskRatingMethodology, C!Object, P!RiskRatingMethodology,
     T!risk_rating_methodology, T!Table, Always
<1>24. Agrees(Family(C!SlaPolicy, P!SlaPolicy, T!sla_policy))
  BY FamilyAgrees DEF C!SlaPolicy, C!Object, P!SlaPolicy, T!sla_policy, T!Table, Always
<1>25. Agrees(Family(C!Validation, P!Validation, T!validation))
  BY FamilyAgrees DEF C!Validation, C!Object, P!Validation, T!validation, T!Table,
     Always
<1>26. Agrees(Family(C!Verification, P!Verification, T!verification))
  BY FamilyAgrees DEF C!Verification, C!Object, P!Verification, T!verification,
     T!Table, Always
<1> QED
  BY <1>1, <1>2, <1>3, <1>4, <1>5, <1>6, <1>7, <1>8, <1>9, <1>10, <1>11, <1>12,
     <1>13, <1>14, <1>15, <1>16, <1>17, <1>18, <1>19, <1>20, <1>21, <1>22, <1>23,
     <1>24, <1>25, <1>26 DEF Families

LEMMA ItemsAgree == \A s \in Items : Agrees(s)
<1>1. Agrees(Item(C!Event, P!Layer, P!LayerEvent, T!layer_event))
  BY PlainItemAgrees DEF C!Event, C!Object, C!Nullable, P!LayerEvent, T!layer_event,
     T!Table, Always
<1>2. Agrees(Item(C!EventSource, P!Layer, P!LayerEventSource, T!layer_event))
  BY ItemAgrees DEF C!EventSource, C!Object, P!LayerEventSource, T!layer_event,
     T!Table, Always, Under
<1>3. Agrees(Item(C!Actor, P!Layer, P!LayerEventActor, T!layer_event))
  BY ItemAgrees DEF C!Actor, C!Object, P!LayerEventActor, T!layer_event, T!Table,
     Always, Under
<1>4. Agrees(Item(C!Disposition, P!Layer, P!LayerEventDisposition, T!layer_event))
  BY PlainItemAgrees DEF C!Disposition, C!Object, P!LayerEventDisposition,
     T!layer_event, T!Table, Always
<1>5. Agrees(Item(C!EventRiskWeight, P!Layer, P!LayerEventRiskWeight, T!layer_event))
  BY ItemAgrees DEF C!EventRiskWeight, C!Object, P!LayerEventRiskWeight, T!layer_event,
     T!Table, Always, Under
<1>6. Agrees(Item(C!VulnFindings, P!VulnFindings, P!FindingDocument, T!finding))
  BY PlainItemAgrees DEF C!VulnFindings, C!Object, P!FindingDocument, T!finding,
     T!Table, Always
<1>7. Agrees(Item(C!VulnFindingsFinding, P!VulnFindings, P!Finding, T!finding))
  BY ItemAgrees DEF C!VulnFindingsFinding, C!Object, C!Nullable, P!Finding, T!finding,
     T!Table, Always, Under
<1>8. Agrees(Item(C!Triage, P!Triage, P!TriageVerdictDocument, T!triage_verdict))
  BY PlainItemAgrees DEF C!Triage, C!Object, P!TriageVerdictDocument, T!triage_verdict,
     T!Table, Always
<1>9. Agrees(Item(C!TriageFinding, P!Triage, P!TriageVerdict, T!triage_verdict))
  BY ItemAgrees DEF C!TriageFinding, C!Object, C!Nullable, P!TriageVerdict,
     T!triage_verdict, T!Table, Always, Under
<1>10. Agrees(Item(C!Subject, P!CorpusRegistry, P!SubjectOwnership, T!subject_ownership))
  BY PlainItemAgrees DEF C!Subject, C!Object, P!SubjectOwnership, T!subject_ownership,
     T!Table, Always
<1>11. Agrees(Item(C!Threat, P!ThreatModel, P!Threat, T!threat))
  BY ItemAgrees DEF C!Threat, C!Object, P!Threat, T!threat, T!Table, Always, Under
<1>12. Agrees(Item(C!OwaspRiskRating, P!ThreatModel, P!ThreatRating, T!threat))
  BY PlainItemAgrees DEF C!OwaspRiskRating, C!Object, P!ThreatRating, T!threat,
     T!Table, Always
<1>13. Agrees(Item(C!OwaspRiskRatingLikelihood, P!ThreatModel, P!ThreatRatingLikelihood, T!threat))
  BY ItemAgrees DEF C!OwaspRiskRatingLikelihood, C!Object, P!ThreatRatingLikelihood,
     T!threat, T!Table, Always, Under
<1>14. Agrees(Item(C!OwaspRiskRatingImpact, P!ThreatModel, P!ThreatRatingImpact, T!threat))
  BY ItemAgrees DEF C!OwaspRiskRatingImpact, C!Object, P!ThreatRatingImpact, T!threat,
     T!Table, Always, Under
<1>15. Agrees(Item(C!ReportFinding, P!Report, P!ReportFinding, T!report_finding))
  BY ItemAgrees DEF C!ReportFinding, C!Object, P!ReportFinding, T!report_finding,
     T!Table, Always, Under
<1>16. Agrees(Item(C!ReportDisposition, P!Report, P!ReportFindingDisposition, T!report_finding))
  BY PlainItemAgrees DEF C!ReportDisposition, C!Object, P!ReportFindingDisposition,
     T!report_finding, T!Table, Always
<1> QED
  BY <1>1, <1>2, <1>3, <1>4, <1>5, <1>6, <1>7, <1>8, <1>9, <1>10, <1>11, <1>12,
     <1>13, <1>14, <1>15, <1>16 DEF Items

\* Every contract, Go type, projector and table agree on what may be missing and
\* on which member lands in which column, though each is generated or written from
\* a different file.
THEOREM TablesAgree == \A s \in Sites : Agrees(s)
BY FamiliesAgree, ItemsAgree, InJSONAgrees DEF Sites

-------------------------------------------------------------------------------
(* One document on its way.                                                 *)

LEMMA InitInv == Init => IInv
<1> SUFFICES ASSUME Init PROVE IInv
  OBVIOUS
<1>1. site \in Sites /\ document \in AnyDocument(site.object) /\ stage = "parse"
  BY DocumentAssumption DEF Init
<1> QED
  BY <1>1, TablesAgree DEF IInv, TypeOK, PassageInv, AdmittedIsStored

\* A value decoded from an admitted document.
LEMMA Decoded ==
  ASSUME IInv, stage \in {"project", "stored"}
  PROVE  /\ value \in [emitStruct(site.object) -> Written \cup {"nil"}]
         /\ \A m \in emitStruct(site.object) :
              /\ value[m] = IF document[m] \in Written THEN document[m] ELSE "nil"
              /\ m \in Always(site.object) => value[m] # "nil"
<1>1. document \in AnyDocument(site.object) /\ Admits(site.object, document)
  BY DEF IInv, TypeOK, PassageInv
<1>2. value = Value(site.object, document)
  BY DEF IInv, PassageInv
<1> QED
  BY <1>1, <1>2, ValueOf

\* The row of an admitted document: no column is refused, none is made up.
LEMMA RowOf ==
  ASSUME IInv, stage \in {"project", "stored"}
  PROVE  /\ Columns \in [DOMAIN site.row -> Written \cup {"null"}]
         /\ \A c \in DOMAIN site.row :
              Columns[c] = IF document[site.row[c].member] \in Written
                           THEN document[site.row[c].member] ELSE "null"
         /\ Accepts(site.table, Columns)
<1>1. \A c \in DOMAIN site.row : ColumnAgrees(site.object, site.row, site.table, c)
  BY DEF IInv, Agrees
<1>2. ASSUME NEW c \in DOMAIN site.row
      PROVE  /\ Column(site.row[c], value) = IF value[site.row[c].member] = "nil" THEN "null"
                                            ELSE value[site.row[c].member]
             /\ c \in site.table.required => Column(site.row[c], value) # "null"
  BY <1>1, Decoded, ColumnOf
<1>3. \A c \in DOMAIN site.row : site.row[c].member \in emitStruct(site.object)
  BY <1>1 DEF ColumnAgrees
<1> QED
  BY <1>2, <1>3, Decoded DEF Columns, Accepts, Written

\* The same for a JSON column, whose members are those of the Go type.
LEMMA JSONOf ==
  ASSUME IInv, stage \in {"project", "stored"}, site \notin Families \cup Items
  PROVE  /\ DOMAIN site.row = emitStruct(site.object)
         /\ \A c \in DOMAIN site.row : site.row[c].member = c
         /\ Marshal(site.object, value) \in [DOMAIN site.row -> Written \cup {"null", "absent"}]
         /\ \A c \in DOMAIN site.row :
              IF document[c] \in Written /\ c \notin Omitted
              THEN Marshal(site.object, value)[c] = document[c]
              ELSE Marshal(site.object, value)[c] \in {"null", "absent"}
<1>1. PICK object : site = InJSON(object)
  BY DEF IInv, TypeOK, Sites
<1>2. site.object = object /\ site.row = P!Row({}, {}, emitStruct(object))
  BY <1>1 DEF InJSON
<1>3. Shaped(site.row, emitStruct(object), {})
  <2>1. Shaped(site.row, {} \cup {} \cup emitStruct(object), {})
    BY <1>2, RowShape
  <2> QED
    BY <2>1
<1>4. DOMAIN site.row = emitStruct(site.object) /\ \A c \in DOMAIN site.row : site.row[c].member = c
  BY <1>2, <1>3 DEF Shaped
<1>5. ASSUME NEW c \in emitStruct(site.object), document[c] \in Written
      PROVE  Omits(site.object, c, value[c]) <=> c \in Omitted
  BY <1>5, Decoded, OmitsEmpty DEF Omitted, emitStruct
<1>6. \A c \in emitStruct(site.object) : document[c] \notin Written => value[c] \notin Written
  BY Decoded DEF Written
<1>7. \A c \in emitStruct(site.object) : document[c] \in Written => value[c] = document[c]
  BY Decoded
<1> QED
  BY <1>4, <1>5, <1>6, <1>7, Decoded, MarshalOf

LEMMA InductiveStep == IInv /\ [Next]_vars => IInv'
<1> SUFFICES ASSUME IInv, [Next]_vars PROVE IInv'
  OBVIOUS
<1> USE DEF IInv
<1>1. CASE ParseArtifact
  BY <1>1 DEF ParseArtifact, TypeOK, PassageInv, AdmittedIsStored
<1>2. CASE ValidateBinding
  BY <1>2 DEF ValidateBinding, TypeOK, PassageInv, AdmittedIsStored
<1>3. CASE Decode
  <2>1. document \in AnyDocument(site.object) /\ Admits(site.object, document)
    BY <1>3 DEF Decode, TypeOK, PassageInv
  <2>2. Value(site.object, document) \in [emitStruct(site.object) -> Written \cup {"nil"}]
    BY <2>1, ValueOf
  <2> QED
    BY <1>3, <2>1, <2>2 DEF Decode, TypeOK, PassageInv, AdmittedIsStored
<1>4. CASE ProjectRow
  <2>1. stage' = "stored" /\ stored' = Columns /\ UNCHANGED <<site, document, binding, value>>
    BY <1>4, RowOf DEF ProjectRow
  <2>2. Columns \in [DOMAIN site.row -> Written \cup {"null"}]
    BY <1>4, RowOf DEF ProjectRow
  <2>3. Columns' = Columns
    BY <2>1 DEF Columns
  <2> QED
    BY <1>4, <2>1, <2>2, <2>3 DEF ProjectRow, TypeOK, PassageInv, AdmittedIsStored
<1>5. CASE ProjectJSON
  <2>1. Marshal(site.object, value) \in [DOMAIN site.row -> Written \cup {"null", "absent"}]
    BY <1>5, JSONOf DEF ProjectJSON
  <2> QED
    BY <1>5, <2>1 DEF ProjectJSON, TypeOK, PassageInv, AdmittedIsStored
<1>6. CASE UNCHANGED vars
  <2>1. Columns' = Columns
    BY <1>6 DEF vars, Columns
  <2> QED
    BY <1>6, <2>1 DEF vars, TypeOK, PassageInv, AdmittedIsStored
<1> QED
  BY <1>1, <1>2, <1>3, <1>4, <1>5, <1>6 DEF Next

\* What is past validation is admitted, what is decoded is the document's value, and
\* what is stored is the projection of that value.
THEOREM Invariant == Spec => []IInv
BY InitInv, InductiveStep, PTL DEF Spec

\* A Go value has no null and a row no nil, for every document.
THEOREM TypeCorrect == Spec => []TypeOK
<1>1. IInv => TypeOK
  BY DEF IInv
<1> QED
  BY <1>1, Invariant, PTL

\* No document its contract admits is refused by the database.
THEOREM AdmittedIsAlwaysStored == Spec => []AdmittedIsStored
<1>1. IInv => AdmittedIsStored
  BY DEF IInv
<1> QED
  BY <1>1, Invariant, PTL

\* What is stored of an admitted document: each column of the row has the value of the
\* member it is filled from, if that has one and is not left out.
LEMMA StoredOf ==
  ASSUME IInv, stage = "stored"
  PROVE  /\ DOMAIN stored = DOMAIN site.row
         /\ \A c \in DOMAIN stored :
              IF document[site.row[c].member] \in Written /\ site.row[c].member \notin Omitted
              THEN stored[c] = document[site.row[c].member]
              ELSE stored[c] \in {"null", "absent"}
<1>1. CASE site \in Families \cup Items
  <2>1. stored = Columns
    BY <1>1 DEF IInv, PassageInv
  <2>2. Omitted = {}
    BY <1>1 DEF Omitted
  <2> QED
    BY <2>1, <2>2, RowOf
<1>2. CASE site \notin Families \cup Items
  <2>1. stored = Marshal(site.object, value)
    BY <1>2 DEF IInv, PassageInv
  <2> QED
    BY <1>2, <2>1, JSONOf
<1> QED
  BY <1>1, <1>2

\* Absent stays absent, however many members are missing at once.
THEOREM NothingIsInvented == Spec => []NothingInvented
<1>1. IInv => NothingInvented
  BY StoredOf DEF NothingInvented, Written
<1> QED
  BY <1>1, Invariant, PTL

\* Each member an object names and a producer wrote reaches its column, whatever
\* other members are missing, unless it is empty and left out inside a JSON column.
THEOREM OwnMembersAlwaysReachTheRow == Spec => []OwnMembersReachTheRow
<1>1. ASSUME IInv, stage = "stored", site.whole,
             NEW m \in site.object.own \ Omitted, document[m] \in Written
      PROVE  Reaches(m)
  <2>1. PICK c \in DOMAIN site.row : site.row[c].member = m
    BY <1>1 DEF IInv, Agrees
  <2>2. c \in DOMAIN stored /\ stored[c] = document[m]
    BY <1>1, <2>1, StoredOf
  <2> QED
    BY <2>1, <2>2 DEF Reaches
<1>2. IInv => OwnMembersReachTheRow
  BY <1>1 DEF OwnMembersReachTheRow
<1> QED
  BY <1>2, Invariant, PTL

\* What a stored document loses is exactly what its producer wrote of the members the
\* object takes over by allOf, the loss the run of NothingIsLost finds, and what
\* encoding/json leaves out because it is empty.
Lost == {m \in Members(site.object) : document[m] \in Written /\ ~ Reaches(m)}

LossIsInheritedOrEmpty ==
  stage = "stored" /\ site.whole =>
    Lost = {m \in site.object.inherited \ site.object.own : document[m] \in Written}
             \cup Omitted

\* A stored document loses what was written for members it inherits, and what is left
\* out as empty, and no others.
THEOREM OnlyInheritedOrEmptyIsLost == Spec => []LossIsInheritedOrEmpty
<1>1. ASSUME IInv, OwnMembersReachTheRow, stage = "stored", site.whole
      PROVE  Lost = {m \in site.object.inherited \ site.object.own : document[m] \in Written}
                      \cup Omitted
  <2>1. \A c \in DOMAIN stored : site.row[c].member \in site.object.own
    BY <1>1, StoredOf DEF IInv, Agrees, ColumnAgrees, emitStruct
  <2>2. \A m : Reaches(m) => m \in site.object.own
    BY <2>1 DEF Reaches
  <2>3. \A m \in Omitted : m \in site.object.own /\ document[m] = "empty" /\ ~ Reaches(m)
    BY <1>1, StoredOf DEF Omitted, Reaches
  <2>4. \A m \in site.object.own \ Omitted : document[m] \in Written => Reaches(m)
    BY <1>1 DEF OwnMembersReachTheRow
  <2> QED
    BY <2>2, <2>3, <2>4 DEF Lost, Members, Written
<1>2. IInv /\ OwnMembersReachTheRow => LossIsInheritedOrEmpty
  BY <1>1 DEF LossIsInheritedOrEmpty
<1> QED
  BY <1>2, Invariant, OwnMembersAlwaysReachTheRow, PTL
===============================================================================
