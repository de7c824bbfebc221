---------------------------- MODULE MCStorageRead ----------------------------
(* One report with a second reference added later, another artifact in      *)
(* another scope, and readers on a pool with a single connection.           *)
EXTENDS StorageRead, TLC

V == INSTANCE Dashboards

CONSTANTS d1, d2, r1, r2, A, B

Context(name, scope) ==
  [name |-> name, role |-> None, scope |-> scope, subject |-> "s", run |-> "r", layer |-> None]
MCContexts == {Context("report", A), Context("triage", B)}

Artifact(d, c, f) ==
  [digest |-> d, context |-> c, supersedes |-> None, repo |-> None, commit |-> None,
   references |-> f]
MCRequests ==
  {Artifact(d1, Context("report", A), {2}), Artifact(d1, Context("report", A), {1, 2}),
   Artifact(d2, Context("triage", B), {})}

Id == identifyBinding(d1, Context("report", A))
MCCalls ==
  (r1 :> {[op |-> "GetPayload", id |-> Id], [op |-> "GetPayload", id |-> None],
          [op |-> "GetBinding", id |-> Id],
          [op |-> "Get", id |-> Id, name |-> "triage"]})
  @@ (r2 :> {[op |-> "Get", id |-> Id, name |-> "report"]}
            \cup {[op |-> "Query", view |-> "findings_summary", scopes |-> {A}],
                  [op |-> "Query", view |-> "open_findings", scopes |-> {}],
                  [op |-> "Query", view |-> "finding_timeline", scopes |-> {A}]})
DashboardCalls ==
  (r1 :> [op : {"Query"}, view : DOMAIN V!Dashboards, scopes : {{A}}]) @@ (r2 :> {})
MCSelections == V!Dashboards

MCSize == [d \in Digests |-> 7]

\* Each dashboard that scans as many columns as it selects puts every one
\* into the field of its name.
ASSUME ColumnsMeetTheirFields ==
  \A v \in DOMAIN V!Dashboards :
    Scans(V!Dashboards[v]) => V!Dashboards[v].columns = V!Dashboards[v].fields
==============================================================================
