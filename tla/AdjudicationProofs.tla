------------------------- MODULE AdjudicationProofs -------------------------
(***************************************************************************)
(* Proofs about Adjudication, for any number of skills, jobs, documents,   *)
(* consumers, layers and calls: first what is on a layer, then what a      *)
(* consumer may conclude from an answer.                                   *)
(***************************************************************************)
EXTENDS Adjudication, TLAPS

-----------------------------------------------------------------------------
(* The skills.                                                             *)

JobType == [skill : SkillNames, done : BOOLEAN, output : Documents \cup {[schema |-> ""]}]

\* References and executions are of the skill their job was started for.
SkillsInv ==
  /\ SkillsTypeOK /\ JobsKeepTheirSkill
  /\ \A ref \in refs : ref.SkillName # "" => jobs[ref.ID].skill = ref.SkillName
  /\ \A e \in executing : jobs[e.job].skill = e.skill
  /\ artifact # NoArtifact => jobs[artifact.job].done

\* A job keeps its skill, and once it is done its output.
JobsStay ==
  /\ DOMAIN jobs \subseteq DOMAIN jobs'
  /\ \A id \in DOMAIN jobs : /\ jobs'[id].skill = jobs[id].skill
                             /\ jobs[id].done => jobs'[id] = jobs[id]

LEMMA StartedStays ==
  ASSUME SkillsInv, NEW s \in SkillNames, Started(s)
  PROVE  /\ JobsStay /\ jobs' \in Seq(JobType)
         /\ NextID \in DOMAIN jobs' /\ jobs'[NextID].skill = s
<1>1. Job(s) \in JobType /\ jobs \in Seq(JobType)
  BY DEF Job, JobType, SkillsInv, SkillsTypeOK
<1> HIDE DEF JobType
<1>2. /\ jobs' \in Seq(JobType) /\ Len(jobs') = Len(jobs) + 1
      /\ \A id \in DOMAIN jobs : jobs'[id] = jobs[id]
      /\ jobs'[Len(jobs) + 1] = Job(s)
  BY <1>1 DEF Started
<1>3. DOMAIN jobs = 1 .. Len(jobs) /\ DOMAIN jobs' = 1 .. Len(jobs) + 1 /\ Len(jobs) \in Nat
  BY <1>1, <1>2
<1>4. Len(jobs) + 1 \in DOMAIN jobs' /\ DOMAIN jobs \subseteq DOMAIN jobs'
  BY <1>3
<1>5. Job(s).skill = s
  BY DEF Job
<1> QED
  BY <1>2, <1>4, <1>5 DEF JobsStay, NextID

LEMMA FinishStays ==
  ASSUME SkillsInv, NEW id \in DOMAIN jobs, NEW document \in Documents, Finish(id, document)
  PROVE  JobsStay /\ jobs' \in Seq(JobType)
<1>1. jobs \in Seq(JobType)
  BY DEF JobType, SkillsInv, SkillsTypeOK
<1>2. jobs[id] \in JobType
  BY <1>1
<1>3. [[jobs[id] EXCEPT !.done = TRUE] EXCEPT !.output = document] \in JobType
  BY <1>2 DEF JobType
<1>4. /\ jobs' = [jobs EXCEPT ![id] = [[jobs[id] EXCEPT !.done = TRUE] EXCEPT !.output = document]]
      /\ ~jobs[id].done
  BY <1>1, <1>2 DEF Finish, JobType
<1>5. jobs' \in Seq(JobType) /\ DOMAIN jobs' = DOMAIN jobs
  <2> HIDE DEF JobType
  <2> QED
    BY <1>1, <1>3, <1>4
<1>6. \A i \in DOMAIN jobs : jobs'[i].skill = jobs[i].skill /\ (jobs[i].done => jobs'[i] = jobs[i])
  BY <1>1, <1>2, <1>4 DEF JobType
<1> QED
  BY <1>5, <1>6 DEF JobsStay

\* What jobs that stay keep true.
LEMMA KeptJobs ==
  ASSUME SkillsInv, JobsStay
  PROVE  /\ \A ref \in refs : ref.SkillName # "" => jobs'[ref.ID].skill = ref.SkillName
         /\ \A e \in executing : jobs'[e.job].skill = e.skill
         /\ refs \subseteq [ID : DOMAIN jobs', SkillName : SkillNames \cup {""}]
         /\ executing \subseteq [skill : SkillNames, job : DOMAIN jobs']
         /\ artifact \in {NoArtifact}
              \cup [skill : SkillNames, job : DOMAIN jobs', SkillName : SkillNames \cup {""}]
         /\ artifact # NoArtifact => jobs'[artifact.job] = jobs[artifact.job]
<1>1. \A ref \in refs : ref.ID \in DOMAIN jobs
  BY DEF SkillsInv, SkillsTypeOK
<1>2. \A e \in executing : e.job \in DOMAIN jobs
  BY DEF SkillsInv, SkillsTypeOK
<1>3. artifact # NoArtifact => artifact.job \in DOMAIN jobs
  BY DEF SkillsInv, SkillsTypeOK
<1>4. refs \subseteq [ID : DOMAIN jobs', SkillName : SkillNames \cup {""}]
  BY DEF SkillsInv, SkillsTypeOK, JobsStay
<1>5. executing \subseteq [skill : SkillNames, job : DOMAIN jobs']
  BY DEF SkillsInv, SkillsTypeOK, JobsStay
<1>6. artifact \in {NoArtifact}
        \cup [skill : SkillNames, job : DOMAIN jobs', SkillName : SkillNames \cup {""}]
  BY DEF SkillsInv, SkillsTypeOK, JobsStay
<1> QED
  BY <1>1, <1>2, <1>3, <1>4, <1>5, <1>6 DEF SkillsInv, JobsStay

\* A call that returns an artifact of the job it names.
LEMMA ReturnedArtifact ==
  ASSUME SkillsInv, NEW s \in SkillNames, NEW id \in DOMAIN jobs,
         NEW under \in SkillNames \cup {""}, Returned(s, id, under), jobs' = jobs,
         under # "" => jobs[id].skill = s
  PROVE  /\ JobsKeepTheirSkill'
         /\ artifact' \in {NoArtifact}
              \cup [skill : SkillNames, job : DOMAIN jobs, SkillName : SkillNames \cup {""}]
         /\ jobs[artifact'.job].done
BY DEF Returned, ParseArtifact, JobsKeepTheirSkill

LEMMA SkillsStep ==
  ASSUME SkillsInv, SkillsNext
  PROVE  SkillsInv' /\ JobsStay
<1>0. jobs \in Seq(JobType)
  BY DEF SkillsInv, SkillsTypeOK, JobType
<1>1. ASSUME JobsStay, jobs' \in Seq(JobType), UNCHANGED artifact,
             refs' \subseteq [ID : DOMAIN jobs', SkillName : SkillNames \cup {""}],
             executing' \subseteq [skill : SkillNames, job : DOMAIN jobs'],
             \A ref \in refs' : ref.SkillName # "" => jobs'[ref.ID].skill = ref.SkillName,
             \A e \in executing' : jobs'[e.job].skill = e.skill
      PROVE  SkillsInv'
  <2>1. JobsKeepTheirSkill' /\ (artifact # NoArtifact => jobs'[artifact.job].done)
    BY <1>1, KeptJobs DEF JobsKeepTheirSkill, SkillsInv
  <2>2. SkillsTypeOK'
    BY <1>1, KeptJobs DEF SkillsTypeOK, JobType
  <2> QED
    BY <1>1, <2>1, <2>2 DEF SkillsInv
<1>2. ASSUME NEW s \in SkillNames, Dispatch(s) \/ DispatchFails(s) \/ Execute(s)
      PROVE  SkillsInv' /\ JobsStay
  <2>1. Started(s)
    BY <1>2 DEF Dispatch, DispatchFails, Execute
  <2>2. /\ JobsStay /\ jobs' \in Seq(JobType) /\ UNCHANGED artifact
        /\ NextID \in DOMAIN jobs' /\ jobs'[NextID].skill = s
    BY <1>2, <2>1, StartedStays DEF Dispatch, DispatchFails, Execute
  <2>3. /\ refs' \subseteq refs \cup {[ID |-> NextID, SkillName |-> s]}
        /\ executing' \subseteq executing \cup {[skill |-> s, job |-> NextID]}
    BY <1>2 DEF Dispatch, DispatchFails, Execute
  <2>4. /\ refs' \subseteq [ID : DOMAIN jobs', SkillName : SkillNames \cup {""}]
        /\ \A ref \in refs' : ref.SkillName # "" => jobs'[ref.ID].skill = ref.SkillName
    <3>1. [ID |-> NextID, SkillName |-> s] \in [ID : DOMAIN jobs', SkillName : SkillNames \cup {""}]
      BY <2>2
    <3>2. \A ref \in refs' : ref \in refs \/ (ref.ID = NextID /\ ref.SkillName = s)
      BY <2>3
    <3> QED
      BY <2>2, <2>3, <3>1, <3>2, KeptJobs
  <2>5. /\ executing' \subseteq [skill : SkillNames, job : DOMAIN jobs']
        /\ \A e \in executing' : jobs'[e.job].skill = e.skill
    <3>1. [skill |-> s, job |-> NextID] \in [skill : SkillNames, job : DOMAIN jobs']
      BY <2>2
    <3>2. \A e \in executing' : e \in executing \/ (e.job = NextID /\ e.skill = s)
      BY <2>3
    <3> QED
      BY <2>2, <2>3, <3>1, <3>2, KeptJobs
  <2> QED
    BY <1>1, <2>2, <2>4, <2>5
<1>3. ASSUME NEW id \in DOMAIN jobs, NEW document \in Documents, Finish(id, document)
      PROVE  SkillsInv' /\ JobsStay
  <2>1. JobsStay /\ jobs' \in Seq(JobType) /\ UNCHANGED <<refs, executing, artifact>>
    BY <1>3, FinishStays DEF Finish
  <2> QED
    BY <1>1, <2>1, KeptJobs
<1>4. ASSUME NEW ref \in refs, Restore(ref)
      PROVE  SkillsInv' /\ JobsStay
  <2>1. JobsStay /\ jobs' = jobs /\ UNCHANGED <<executing, artifact>>
    BY <1>4 DEF Restore, JobsStay
  <2>2. ref \in [ID : DOMAIN jobs, SkillName : SkillNames \cup {""}]
    BY DEF SkillsInv, SkillsTypeOK
  <2>3. [ref EXCEPT !.SkillName = ""] \in [ID : DOMAIN jobs, SkillName : {""}]
    BY <2>2
  <2>4. refs' \subseteq refs \cup {[ref EXCEPT !.SkillName = ""]}
    BY <1>4 DEF Restore
  <2>5. /\ refs' \subseteq [ID : DOMAIN jobs', SkillName : SkillNames \cup {""}]
        /\ \A q \in refs' : q.SkillName # "" => jobs'[q.ID].skill = q.SkillName
    BY <2>1, <2>3, <2>4, KeptJobs
  <2> QED
    BY <1>0, <1>1, <2>1, <2>5, KeptJobs
<1>5. ASSUME NEW s \in SkillNames, NEW ref \in refs, Collect(s, ref)
      PROVE  SkillsInv' /\ JobsStay
  <2>1. UNCHANGED <<jobs, refs, executing>> /\ Returned(s, ref.ID, ref.SkillName)
    BY <1>5 DEF Collect
  <2>2. ref.ID \in DOMAIN jobs /\ ref.SkillName \in SkillNames \cup {""}
    BY DEF SkillsInv, SkillsTypeOK
  <2>3. ref.SkillName # "" => jobs[ref.ID].skill = s
    BY <1>5 DEF Collect, SkillNameAgrees, SkillsInv
  <2> QED
    BY <2>1, <2>2, <2>3, ReturnedArtifact DEF SkillsInv, SkillsTypeOK, JobsStay
<1>6. ASSUME NEW e \in executing, Run(e)
      PROVE  SkillsInv' /\ JobsStay
  <2>1. jobs' = jobs /\ refs' = refs /\ executing' \subseteq executing
        /\ Returned(e.skill, e.job, e.skill)
    BY <1>6 DEF Run
  <2>2. e.job \in DOMAIN jobs /\ e.skill \in SkillNames /\ jobs[e.job].skill = e.skill
    BY DEF SkillsInv, SkillsTypeOK
  <2> QED
    BY <2>1, <2>2, ReturnedArtifact DEF SkillsInv, SkillsTypeOK, JobsStay
<1>7. ASSUME NEW e \in executing, RunFails(e)
      PROVE  SkillsInv' /\ JobsStay
  <2>1. JobsStay /\ UNCHANGED <<jobs, refs, artifact>> /\ executing' \subseteq executing
    BY <1>7 DEF RunFails, JobsStay
  <2> QED
    BY <1>0, <1>1, <2>1, KeptJobs
<1> QED
  BY <1>2, <1>3, <1>4, <1>5, <1>6, <1>7 DEF SkillsNext

-----------------------------------------------------------------------------
(* What a conversion makes of a finding.                                   *)

LEMMA TrimTwice == \A text : TrimSpace(TrimSpace(text)) = TrimSpace(text)
BY DEF TrimSpace

\* An event is about the finding it comes of, and the finding earns it.
EventOf(f, item) ==
  /\ TrimSpace(f.ref) = TrimSpace(item.ref) /\ Earns(f, item.disposition)
  /\ item.fingerprint \in {"", item.ref}

LEMMA FindingEarns ==
  ASSUME NEW lane \in Lanes, NEW f, NEW index, Finding(lane, f, index).to = "Events"
  PROVE  EventOf(f, Finding(lane, f, index).item)
<1>1. ASSUME NEW ref, NEW disposition, NEW grade,
             TrimSpace(ref) = TrimSpace(f.ref), Earns(f, disposition)
      PROVE  EventOf(f, Event(ref, disposition, grade, index).item)
  <2>1. /\ Event(ref, disposition, grade, index).item.ref = ref
        /\ Event(ref, disposition, grade, index).item.disposition = disposition
        /\ Event(ref, disposition, grade, index).item.fingerprint \in {"", ref}
    BY DEF Event, stampFingerprint
  <2> QED
    BY <1>1, <2>1 DEF EventOf
<1>2. \A ref, reason : Review(ref, reason).to # "Events" /\ Skip(ref, reason).to # "Events"
  BY DEF Review, Skip
<1>3. Nothing.to # "Events"
  BY DEF Nothing
<1>4. CASE lane = "triage"
  <2>1. /\ f.verdict \in {"true_positive", "hardening", "false_positive"}
        /\ Finding(lane, f, index) = Event(f.ref, triageValidity[f.verdict], "", index)
    BY <1>2, <1>3, <1>4 DEF Finding, TriageFinding, triageValidity
  <2>2. Earns(f, triageValidity[f.verdict])
    <3>1. CASE f.verdict = "true_positive"
      BY <3>1 DEF Earns, triageValidity
    <3>2. CASE f.verdict = "hardening"
      BY <3>2 DEF Earns, triageValidity
    <3>3. CASE f.verdict = "false_positive"
      BY <3>3 DEF Earns, triageValidity
    <3> QED
      BY <2>1, <3>1, <3>2, <3>3
  <2> QED
    BY <1>1, <2>1, <2>2
<1>5. CASE lane = "validation"
  <2>1. /\ Finding(lane, f, index)
           = Event(f.ref, IF f.verdict = "refuted" THEN "false_positive" ELSE "confirmed",
                   TrimSpace(f.grade), index)
        /\ gradable(f) \/ (f.verdict = "inconclusive" /\ flagged(f))
        /\ ~unsound(f) /\ ~(f.verdict = "confirmed" /\ TrimSpace(f.grade) = "E3")
    BY <1>2, <1>3, <1>5 DEF Finding, ValidatedFinding
  <2>2. Earns(f, IF f.verdict = "refuted" THEN "false_positive" ELSE "confirmed")
    BY <2>1 DEF Earns, gradable, unsound, flagged, TrimSpace
  <2> QED
    BY <1>1, <2>1, <2>2
<1>6. CASE lane = "verification"
  <2>1. /\ Finding(lane, f, index) = Event(TrimSpace(f.ref), verificationDisposition(f), "", index)
        /\ verificationDisposition(f) # ""
    BY <1>2, <1>6 DEF Finding, VerifiedFinding
  <2>2. Earns(f, verificationDisposition(f))
    BY <2>1 DEF Earns, verificationDisposition
  <2> QED
    BY <1>1, <2>1, <2>2, TrimTwice
<1> QED
  BY <1>4, <1>5, <1>6 DEF Lanes

ItemShape(x) ==
  x = [ref |-> x.ref, disposition |-> x.disposition, grade |-> x.grade,
       fingerprint |-> x.fingerprint, lane |-> x.lane, source |-> x.source,
       occurredAt |-> x.occurredAt]

LEMMA ConvertEarns ==
  ASSUME NEW report, report.lane \in Lanes, NEW index, NEW e \in Convert(report, index).Events
  PROVE  /\ ItemShape(e.item) /\ e.item.lane = report.lane /\ e.item.source = report.source
         /\ \E i \in DOMAIN report.findings : EventOf(report.findings[i], e.item)
<1>1. PICK p \in Pile(report, index, "Events") :
        e = [n |-> p.n,
             item |-> [ref |-> p.item.ref, disposition |-> p.item.disposition,
                       grade |-> p.item.grade, fingerprint |-> p.item.fingerprint,
                       lane |-> report.lane, source |-> report.source,
                       occurredAt |-> eventOccurredAt(report.date, "instant")]]
  BY DEF Convert
<1>2. PICK i \in DOMAIN report.findings :
        /\ Finding(report.lane, report.findings[i], index).to = "Events"
        /\ p.item = Finding(report.lane, report.findings[i], index).item
  <2> DEFINE fates == [i \in DOMAIN report.findings |-> Finding(report.lane, report.findings[i], index)]
  <2>1. p \in {[n |-> i, item |-> fates[i].item] :
                  i \in {j \in DOMAIN fates : fates[j].to = "Events"}}
    BY DEF Pile
  <2>2. PICK i \in DOMAIN fates : fates[i].to = "Events" /\ p = [n |-> i, item |-> fates[i].item]
    <3> HIDE DEF fates
    <3> QED
      BY <2>1
  <2>3. i \in DOMAIN report.findings /\ fates[i] = Finding(report.lane, report.findings[i], index)
    BY <2>2
  <2> QED
    BY <2>2, <2>3
<1>3. EventOf(report.findings[i], p.item)
  BY <1>2, FindingEarns
<1>4. EventOf(report.findings[i], e.item)
  BY <1>1, <1>3 DEF EventOf
<1> QED
  BY <1>1, <1>4 DEF ItemShape

-----------------------------------------------------------------------------
(* The ledger.                                                             *)

\* The output of the item's job says what the item says.
Earned(item) ==
  /\ item.source \in DOMAIN jobs /\ jobs[item.source].done
  /\ jobs[item.source].output.schema = item.lane
  /\ \E i \in DOMAIN jobs[item.source].output.findings :
       EventOf(jobs[item.source].output.findings[i], item)

LEMMA EarnedStays ==
  ASSUME JobsStay, NEW item, Earned(item)
  PROVE  Earned(item)'
BY DEF JobsStay, Earned

EventShape(e) == e = [n |-> e.n, place |-> e.place, item |-> e.item] /\ ItemShape(e.item)

\* Only submissions bring events.
Brings(q) == q.op \in {"report", "batch"}

LayersInv ==
  /\ layers = [l \in LayerIDs |-> [exists |-> layers[l].exists, events |-> layers[l].events,
                                   queue |-> layers[l].queue]]
  /\ \A l \in LayerIDs : \A e \in layers[l].events : EventShape(e) /\ Earned(e.item)

WireInv ==
  \A q \in wire : Brings(q) =>
    q.layer \in LayerIDs /\ \A e \in q.body.Events : ItemShape(e.item) /\ Earned(e.item)

IInv == SkillsInv /\ LayersInv /\ WireInv

LEMMA ReportEarned ==
  ASSUME SkillsInv, artifact # NoArtifact, NEW date, NEW index,
         NEW e \in Convert(Report(date), index).Events
  PROVE  ItemShape(e.item) /\ Earned(e.item)
<1>1. /\ Report(date).lane = jobs[artifact.job].output.schema
      /\ Report(date).findings = jobs[artifact.job].output.findings
      /\ Report(date).source = artifact.job
  BY DEF Report
<1>2. artifact.skill \in SkillNames /\ artifact.job \in DOMAIN jobs
  BY DEF SkillsInv, SkillsTypeOK
<1>3. jobs[artifact.job].output.schema \in Lanes /\ jobs[artifact.job].done
  BY <1>2, LaneAssumption DEF SkillsInv, JobsKeepTheirSkill
<1> QED
  BY <1>1, <1>2, <1>3, ConvertEarns DEF Earned

LEMMA SubmitStep ==
  ASSUME IInv, Submit, UNCHANGED skillVars
  PROVE  IInv'
<1>1. PICK c \in Consumers, layer \in LayerIDs, index \in Indexes, date \in {"day", "instant"} :
        \/ SubmitReport(c, layer, Report(date), index)
        \/ BatchSubmit(c, layer, Report(date), index)
  BY DEF Submit
<1> DEFINE body == BatchSubmitInput(Report(date), Convert(Report(date), index))
           sent(op) == Request(op, layer, body)
<1>2. /\ layers' = layers
      /\ \E op \in {"report", "batch"} : wire' \subseteq wire \cup {sent(op)}
  BY <1>1 DEF SubmitReport, BatchSubmit, post, Refuse
<1>3. ASSUME NEW op
      PROVE  sent(op).layer = layer /\ sent(op).body.Events = Convert(Report(date), index).Events
  BY DEF Request, BatchSubmitInput
<1> HIDE DEF sent
<1>4. ASSUME NEW e \in Convert(Report(date), index).Events
      PROVE  ItemShape(e.item) /\ Earned(e.item)
  BY ReportEarned DEF IInv, Submit
<1>5. ASSUME NEW op, NEW e \in sent(op).body.Events
      PROVE  ItemShape(e.item) /\ Earned(e.item)
  BY <1>3, <1>4
<1>6. UNCHANGED <<jobs, refs, executing, artifact>>
  BY DEF skillVars
<1>7. \A item : Earned(item)' <=> Earned(item)
  BY <1>6 DEF Earned
<1>8. WireInv'
  BY <1>2, <1>3, <1>5, <1>7 DEF IInv, WireInv, Brings
<1>9. LayersInv'
  BY <1>2, <1>7 DEF IInv, LayersInv
<1> QED
  BY <1>6, <1>8, <1>9 DEF IInv, SkillsInv, SkillsTypeOK, JobsKeepTheirSkill

LEMMA OtherCallsStep ==
  ASSUME OtherCalls
  PROVE  layers' = layers /\ \E q : wire' \subseteq wire \cup {q} /\ ~Brings(q)
<1>0. \A op, layer, body : op \notin {"report", "batch"} => ~Brings(Request(op, layer, body))
  BY DEF Request, Brings
<1>1. ASSUME NEW c, NEW op, NEW layer, NEW body, op \notin {"report", "batch"},
             post(c, Request(op, layer, body)) \/ \E phase : Refuse(c, Request(op, layer, body), phase)
      PROVE  layers' = layers /\ \E q : wire' \subseteq wire \cup {q} /\ ~Brings(q)
  BY <1>0, <1>1 DEF post, Refuse
<1>2. PICK c \in Consumers :
        \/ FindLayer(c)
        \/ \E filters \in SUBSET Filters : ListLayers(c, filters)
        \/ \E layer \in LayerIDs :
             \/ InitializeLayer(c, layer)
             \/ \E fingerprints \in Indexes : StampEventIdentities(c, layer, fingerprints)
             \/ \E r \in layers[layer].queue : ResolveReviewItem(c, layer, r.item)
             \/ \E op \in OtherOps : Ask(c, op, layer)
  BY DEF OtherCalls
<1>3. CASE FindLayer(c)
  <2>1. ~Brings(Request("find", "", {}))
    BY <1>0
  <2>2. layers' = layers /\ wire' = wire \cup {Request("find", "", {})}
    BY <1>3 DEF FindLayer, post
  <2> QED
    BY <2>1, <2>2
<1>4. CASE \E filters \in SUBSET Filters : ListLayers(c, filters)
  <2>1. PICK filters \in SUBSET Filters : ListLayers(c, filters)
    BY <1>4
  <2>2. ~Brings(Request("list", "", filters))
    BY <1>0
  <2>3. layers' = layers /\ wire' \subseteq wire \cup {Request("list", "", filters)}
    BY <2>1 DEF ListLayers, post, Refuse
  <2> QED
    BY <2>2, <2>3
<1>5. CASE \E layer \in LayerIDs :
             \/ InitializeLayer(c, layer)
             \/ \E fingerprints \in Indexes : StampEventIdentities(c, layer, fingerprints)
             \/ \E r \in layers[layer].queue : ResolveReviewItem(c, layer, r.item)
  BY <1>1, <1>5 DEF InitializeLayer, StampEventIdentities, ResolveReviewItem
<1>6. CASE \E layer \in LayerIDs, op \in OtherOps : Ask(c, op, layer)
  BY <1>1, <1>6, OperationAssumption DEF Ask
<1> QED
  BY <1>2, <1>3, <1>4, <1>5, <1>6

LEMMA LayerFields ==
  ASSUME LayersInv, NEW l \in LayerIDs
  PROVE  /\ \A b : [layers[l] EXCEPT !.exists = b]
                  = [exists |-> b, events |-> layers[l].events, queue |-> layers[l].queue]
         /\ \A E : [layers[l] EXCEPT !.events = E]
                  = [exists |-> layers[l].exists, events |-> E, queue |-> layers[l].queue]
         /\ \A Q : [layers[l] EXCEPT !.queue = Q]
                  = [exists |-> layers[l].exists, events |-> layers[l].events, queue |-> Q]
         /\ \A E, Q : [[layers[l] EXCEPT !.events = E] EXCEPT !.queue = Q]
                  = [exists |-> layers[l].exists, events |-> E, queue |-> Q]
<1> DEFINE b0 == layers[l].exists
           E0 == layers[l].events
           Q0 == layers[l].queue
<1>1. layers[l] = [exists |-> b0, events |-> E0, queue |-> Q0]
  BY DEF LayersInv
<1> HIDE DEF b0, E0, Q0
<1>2. /\ \A b : [layers[l] EXCEPT !.exists = b] = [exists |-> b, events |-> E0, queue |-> Q0]
      /\ \A E : [layers[l] EXCEPT !.events = E] = [exists |-> b0, events |-> E, queue |-> Q0]
      /\ \A Q : [layers[l] EXCEPT !.queue = Q] = [exists |-> b0, events |-> E0, queue |-> Q]
      /\ \A E, Q : [[layers[l] EXCEPT !.events = E] EXCEPT !.queue = Q]
                     = [exists |-> b0, events |-> E, queue |-> Q]
  <2>1. \A b : [layers[l] EXCEPT !.exists = b] = [exists |-> b, events |-> E0, queue |-> Q0]
    BY <1>1
  <2>2. \A E : [layers[l] EXCEPT !.events = E] = [exists |-> b0, events |-> E, queue |-> Q0]
    BY <1>1
  <2>3. \A Q : [layers[l] EXCEPT !.queue = Q] = [exists |-> b0, events |-> E0, queue |-> Q]
    BY <1>1
  <2>4. \A E, Q : [[layers[l] EXCEPT !.events = E] EXCEPT !.queue = Q]
                   = [exists |-> b0, events |-> E, queue |-> Q]
    <3> TAKE E, Q
    <3>1. [[layers[l] EXCEPT !.events = E] EXCEPT !.queue = Q]
            = [[exists |-> b0, events |-> E, queue |-> Q0] EXCEPT !.queue = Q]
      BY <2>2
    <3> QED
      BY <3>1
  <2> QED
    BY <2>1, <2>2, <2>3, <2>4
<1> QED
  BY <1>2 DEF b0, E0, Q0

\* What the service makes of a layer, field by field.
Queued(q) == {[n |-> q.n, place |-> r.n, item |-> r.item, resolved |-> FALSE] : r \in q.body.NeedsReview}
Entered(q) == {[n |-> q.n, place |-> e.n, item |-> e.item] : e \in q.body.Events}

LEMMA AcceptedLayer ==
  ASSUME LayersInv, NEW q, q.layer \in LayerIDs
  PROVE  Accepted(q) = [layers EXCEPT ![q.layer] =
                          [exists |-> layers[q.layer].exists,
                           events |-> layers[q.layer].events \cup Entered(q),
                           queue |-> layers[q.layer].queue \cup Queued(q)]]
<1> DEFINE queue == layers[q.layer].queue \cup Queued(q)
           events == layers[q.layer].events \cup Entered(q)
<1>1. Accepted(q) = [layers EXCEPT ![q.layer] =
                       [[layers[q.layer] EXCEPT !.events = events] EXCEPT !.queue = queue]]
  BY DEF LayersInv, Accepted, Queued, Entered
<1>2. [[layers[q.layer] EXCEPT !.events = events] EXCEPT !.queue = queue]
        = [exists |-> layers[q.layer].exists, events |-> events, queue |-> queue]
  <2> HIDE DEF events, queue
  <2>1. \A E, Q : [[layers[q.layer] EXCEPT !.events = E] EXCEPT !.queue = Q]
                  = [exists |-> layers[q.layer].exists, events |-> E, queue |-> Q]
    BY LayerFields
  <2> QED
    BY <2>1, Zenon
<1> QED
  BY <1>1, <1>2

LEMMA EffectCases ==
  ASSUME NEW q, NEW y \in Effects(q)
  PROVE  \/ /\ q.op = "find" /\ y.layers = layers
            /\ y.status = IF Existing = {} THEN "404" ELSE "2xx"
         \/ /\ q.op = "initialize" /\ q.layer \notin Existing /\ y.status = "2xx"
            /\ y.layers = [layers EXCEPT ![q.layer].exists = TRUE]
         \/ /\ Brings(q) /\ q.layer \in Existing /\ y.status = "2xx"
            /\ y.layers = Accepted(q)
         \/ /\ q.op = "stamp" /\ q.layer \in Existing /\ y.status = "2xx"
            /\ y.layers = [layers EXCEPT ![q.layer].events = {Stamped(e, q.body) : e \in @}]
         \/ /\ q.op = "resolve" /\ q.layer \in Existing /\ y.status = "2xx"
            /\ y.layers = [layers EXCEPT ![q.layer].queue =
                              {[r EXCEPT !.resolved = @ \/ r.item = q.body] : r \in @}]
         \/ /\ ~Brings(q) /\ q.op \notin {"find", "stamp", "resolve"}
            /\ q.op = "list" \/ q.layer \in Existing
            /\ y.layers = layers /\ y.status = "2xx"
<1>1. CASE q.op = "find"
  BY <1>1 DEF Effects
<1>2. CASE q.op = "initialize" /\ q.layer \notin Existing
  <2>1. Effects(q) = {[layers |-> [layers EXCEPT ![q.layer].exists = TRUE], status |-> "2xx"]}
    BY <1>2 DEF Effects
  <2> QED
    BY <1>2, <2>1
<1>3. CASE q.op \in {"report", "batch"} /\ q.layer \in Existing
  <2>1. Effects(q) = {[layers |-> Accepted(q), status |-> "2xx"]}
    BY <1>3 DEF Effects
  <2> QED
    BY <1>3, <2>1 DEF Brings
<1>4. CASE q.op = "stamp" /\ q.layer \in Existing
  BY <1>4 DEF Effects
<1>5. CASE q.op = "resolve" /\ q.layer \in Existing
  BY <1>5 DEF Effects
<1>6. CASE /\ q.op \notin {"find", "report", "batch", "stamp", "resolve"}
           /\ q.op = "list" \/ q.layer \in Existing
  <2>1. Effects(q) = {[layers |-> layers, status |-> "2xx"]}
    BY <1>6 DEF Effects
  <2> QED
    BY <1>6, <2>1 DEF Brings
<1>7. CASE /\ q.op # "find" /\ q.op # "list" /\ q.layer \notin Existing /\ q.op # "initialize"
  <2>1. Effects(q) = {}
    BY <1>7 DEF Effects
  <2> QED
    BY <2>1
<1> QED
  BY <1>1, <1>2, <1>3, <1>4, <1>5, <1>6, <1>7

\* What came of a request, and the reply a caller who waits will get.
CameOf(q, x) ==
  \/ x \in Effects(q)
  \/ x.status = "4xx" /\ x.layers = layers
  \/ x.status = "5xx" /\ (x.layers = layers \/ \E y \in Effects(q) : x.layers = y.layers)

Replied(q, status) ==
  replies' = IF Awaited(q)
             THEN replies \cup {[n |-> q.n, status |-> status, found |-> Existing]}
             ELSE replies

LEMMA ServeCases ==
  ASSUME NEW q \in wire, Serve(q)
  PROVE  \E x : layers' = x.layers /\ Replied(q, x.status) /\ CameOf(q, x)
<1>1. PICK x \in Effects(q) \cup {Refused} \cup Obscured(Effects(q)) :
        layers' = x.layers /\ Replied(q, x.status)
  BY DEF Serve, Replied
<1>2. CameOf(q, x)
  <2>1. CASE x \in Effects(q)
    BY <2>1 DEF CameOf
  <2>2. CASE x = Refused
    <3>1. x.status = "4xx" /\ x.layers = layers
      BY <2>2 DEF Refused
    <3> QED
      BY <3>1 DEF CameOf
  <2>3. CASE x \in Obscured(Effects(q))
    <3>1. PICK y \in Effects(q) \cup {Refused} : x = [y EXCEPT !.status = "5xx"]
      BY <2>3 DEF Obscured
    <3>2. y = [layers |-> y.layers, status |-> y.status]
      BY DEF Effects, Refused
    <3>3. x.layers = y.layers /\ x.status = "5xx"
      BY <3>1, <3>2
    <3>4. x.layers = layers \/ \E z \in Effects(q) : x.layers = z.layers
      BY <3>1, <3>3 DEF Refused
    <3> QED
      BY <3>3, <3>4 DEF CameOf
  <2> QED
    BY <1>1, <2>1, <2>2, <2>3
<1> QED
  BY <1>1, <1>2

LEMMA ServeStep ==
  ASSUME IInv, NEW q \in wire, Serve(q), UNCHANGED skillVars
  PROVE  LayersInv'
<1>0. jobs' = jobs
  BY DEF skillVars
<1>1. \A item : Earned(item)' <=> Earned(item)
  BY <1>0 DEF Earned
<1>3. layers' = layers \/ \E y \in Effects(q) : layers' = y.layers
  <2>1. PICK x : layers' = x.layers /\ CameOf(q, x)
    BY ServeCases
  <2> QED
    BY <2>1 DEF CameOf
<1>4. ASSUME NEW l \in LayerIDs, NEW E, \A e \in E : EventShape(e) /\ Earned(e.item),
             NEW b, NEW Q, layers' = [layers EXCEPT ![l] = [exists |-> b, events |-> E, queue |-> Q]]
      PROVE  LayersInv'
  BY <1>1, <1>4 DEF IInv, LayersInv
<1>5. layers' = layers => LayersInv'
  BY <1>1 DEF IInv, LayersInv
<1>6. CASE layers' = [layers EXCEPT ![q.layer].exists = TRUE]
  <2>1. CASE q.layer \in LayerIDs
    <3>1. layers' = [layers EXCEPT ![q.layer] =
             [exists |-> TRUE, events |-> layers[q.layer].events, queue |-> layers[q.layer].queue]]
      BY <1>6, <2>1, LayerFields DEF IInv
    <3> QED
      BY <1>4, <2>1, <3>1 DEF IInv, LayersInv
  <2>2. CASE q.layer \notin LayerIDs
    BY <1>5, <1>6, <2>2 DEF IInv, LayersInv
  <2> QED
    BY <2>1, <2>2
<1>7. CASE Brings(q) /\ q.layer \in Existing /\ layers' = Accepted(q)
  <2>1. q.layer \in LayerIDs /\ \A e \in q.body.Events : ItemShape(e.item) /\ Earned(e.item)
    BY <1>7 DEF IInv, WireInv
  <2>2. ASSUME NEW e \in Entered(q)
        PROVE  EventShape(e) /\ Earned(e.item)
    <3>1. PICK d \in q.body.Events : e = [n |-> q.n, place |-> d.n, item |-> d.item]
      BY DEF Entered
    <3>2. e.item = d.item /\ e = [n |-> e.n, place |-> e.place, item |-> e.item]
      BY <3>1
    <3> QED
      BY <2>1, <3>2 DEF EventShape
  <2>3. \A e \in layers[q.layer].events \cup Entered(q) : EventShape(e) /\ Earned(e.item)
    BY <2>1, <2>2 DEF IInv, LayersInv
  <2>4. layers' = [layers EXCEPT ![q.layer] =
           [exists |-> layers[q.layer].exists, events |-> layers[q.layer].events \cup Entered(q),
            queue |-> layers[q.layer].queue \cup Queued(q)]]
    BY <1>7, <2>1, AcceptedLayer DEF IInv
  <2> QED
    BY <1>4, <2>1, <2>3, <2>4
<1>8. CASE /\ q.layer \in Existing
           /\ layers' = [layers EXCEPT ![q.layer].events = {Stamped(e, q.body) : e \in @}]
  <2>1. q.layer \in LayerIDs
    BY <1>8 DEF Existing
  <2> DEFINE E == {Stamped(e, q.body) : e \in layers[q.layer].events}
  <2>2. ASSUME NEW e \in E
        PROVE  EventShape(e) /\ Earned(e.item)
    <3>1. PICK d \in layers[q.layer].events : e = Stamped(d, q.body)
      OBVIOUS
    <3>2. EventShape(d) /\ Earned(d.item)
      BY <2>1 DEF IInv, LayersInv
    <3>3. CASE e = d
      BY <3>2, <3>3
    <3>4. CASE e = [d EXCEPT !.item.fingerprint = d.item.ref]
      <4>1. e = [n |-> d.n, place |-> d.place,
                 item |-> [ref |-> d.item.ref, disposition |-> d.item.disposition,
                           grade |-> d.item.grade, fingerprint |-> d.item.ref,
                           lane |-> d.item.lane, source |-> d.item.source,
                           occurredAt |-> d.item.occurredAt]]
        BY <3>2, <3>4 DEF EventShape, ItemShape
      <4>2. EventShape(e)
        BY <4>1 DEF EventShape, ItemShape
      <4>3. /\ e.item.ref = d.item.ref /\ e.item.disposition = d.item.disposition
            /\ e.item.source = d.item.source /\ e.item.lane = d.item.lane
            /\ e.item.fingerprint = d.item.ref
        BY <4>1
      <4>4. Earned(e.item)
        BY <3>2, <4>3 DEF Earned, EventOf
      <4> QED
        BY <4>2, <4>4
    <3> QED
      BY <3>1, <3>3, <3>4 DEF Stamped
  <2>3. layers' = [layers EXCEPT ![q.layer] =
           [exists |-> layers[q.layer].exists, events |-> E, queue |-> layers[q.layer].queue]]
    BY <1>8, <2>1, LayerFields DEF IInv
  <2> HIDE DEF E
  <2> QED
    BY <1>4, <2>1, <2>2, <2>3
<1>9. CASE \E Q : q.layer \in Existing /\ layers' = [layers EXCEPT ![q.layer].queue = Q]
  <2>1. PICK Q : layers' = [layers EXCEPT ![q.layer].queue = Q]
    BY <1>9
  <2>2. q.layer \in LayerIDs
    BY <1>9 DEF Existing
  <2>3. layers' = [layers EXCEPT ![q.layer] =
           [exists |-> layers[q.layer].exists, events |-> layers[q.layer].events, queue |-> Q]]
    BY <2>1, <2>2, LayerFields DEF IInv
  <2> QED
    BY <1>4, <2>2, <2>3 DEF IInv, LayersInv
<1>10. ASSUME NEW y \in Effects(q), layers' = y.layers
       PROVE  \/ layers' = layers
              \/ layers' = [layers EXCEPT ![q.layer].exists = TRUE]
              \/ Brings(q) /\ q.layer \in Existing /\ layers' = Accepted(q)
              \/ /\ q.layer \in Existing
                 /\ layers' = [layers EXCEPT ![q.layer].events = {Stamped(e, q.body) : e \in @}]
              \/ \E Q : q.layer \in Existing /\ layers' = [layers EXCEPT ![q.layer].queue = Q]
  BY <1>10, EffectCases
<1> QED
  BY <1>3, <1>5, <1>6, <1>7, <1>8, <1>9, <1>10

-----------------------------------------------------------------------------
(* The invariant, and what follows from it.                                *)

LEMMA SkillsKept ==
  ASSUME SkillsInv, UNCHANGED skillVars
  PROVE  SkillsInv' /\ JobsStay
BY DEF skillVars, SkillsInv, SkillsTypeOK, JobsKeepTheirSkill, JobsStay

LEMMA LedgerKept ==
  ASSUME IInv, JobsStay
  PROVE  /\ layers' = layers => LayersInv'
         /\ wire' \subseteq wire => WireInv'
         /\ \A q : wire' \subseteq wire \cup {q} /\ ~Brings(q) => WireInv'
<1>1. ASSUME NEW item, Earned(item) PROVE Earned(item)'
  BY <1>1, EarnedStays
<1>2. ASSUME layers' = layers PROVE LayersInv'
  BY <1>1, <1>2 DEF IInv, LayersInv
<1>3. ASSUME NEW q, wire' \subseteq wire \cup {q}, ~Brings(q) PROVE WireInv'
  BY <1>1, <1>3 DEF IInv, WireInv, Brings
<1>4. ASSUME wire' \subseteq wire PROVE WireInv'
  BY <1>1, <1>4 DEF IInv, WireInv, Brings
<1> QED
  BY <1>2, <1>3, <1>4

LEMMA InductiveStep == IInv /\ [Next]_vars => IInv'
<1> SUFFICES ASSUME IInv, [Next]_vars
             PROVE  IInv'
  OBVIOUS
<1>1. CASE SkillsNext /\ UNCHANGED ledgerVars
  <2>1. SkillsInv' /\ JobsStay
    BY <1>1, SkillsStep DEF IInv
  <2> QED
    BY <1>1, <2>1, LedgerKept DEF IInv, ledgerVars
<1>2. CASE UNCHANGED skillVars /\ Submit
  BY <1>2, SubmitStep
<1>3. CASE UNCHANGED skillVars /\ OtherCalls
  BY <1>3, SkillsKept, LedgerKept, OtherCallsStep DEF IInv
<1>4. CASE UNCHANGED skillVars /\ \E q \in wire : Serve(q)
  <2>1. LayersInv'
    BY <1>4, ServeStep
  <2>2. wire' \subseteq wire
    BY <1>4 DEF Serve
  <2> QED
    BY <1>4, <2>1, <2>2, SkillsKept, LedgerKept DEF IInv
<1>5. CASE UNCHANGED skillVars /\ \E c \in Consumers : Fail(c) \/ \E reply \in replies : Receive(c, reply)
  <2>1. wire' = wire /\ layers' = layers
    BY <1>5 DEF Fail, Receive
  <2> QED
    BY <1>5, <2>1, SkillsKept, LedgerKept DEF IInv
<1>6. CASE UNCHANGED vars
  BY <1>6, SkillsKept, LedgerKept DEF IInv, vars, ledgerVars
<1> QED
  BY <1>1, <1>2, <1>3, <1>4, <1>5, <1>6 DEF Next, LedgerNext

LEMMA InitInv == Init => IInv
<1> SUFFICES ASSUME Init PROVE IInv
  OBVIOUS
<1>1. SkillsInv
  BY DEF Init, SkillsInit, SkillsInv, SkillsTypeOK, JobsKeepTheirSkill
<1>2. LayersInv
  BY DEF Init, LedgerInit, LayersInv, NoLayer
<1>3. WireInv
  BY DEF Init, LedgerInit, WireInv
<1> QED
  BY <1>1, <1>2, <1>3 DEF IInv

\* The inductive invariant, of every reachable state.
THEOREM Invariant == Spec => []IInv
BY InitInv, InductiveStep, PTL DEF Spec

\* An artifact is the work of the skill its reference names, under its schema.
THEOREM JobsKeepTheirSkills == Spec => []JobsKeepTheirSkill
<1>1. IInv => JobsKeepTheirSkill
  BY DEF IInv, SkillsInv
<1> QED
  BY <1>1, Invariant, PTL

\* Every event on a layer is earned by a finding of its job's own output.
THEOREM EventsAreAlwaysEarned == Spec => []EventsAreEarned
<1>1. ASSUME IInv, NEW l \in LayerIDs, NEW e \in layers[l].events
      PROVE  LET output == jobs[e.item.source].output
             IN  /\ output.schema = e.item.lane
                 /\ \E f \in {output.findings[i] : i \in DOMAIN output.findings} :
                      TrimSpace(f.ref) = TrimSpace(e.item.ref) /\ Earns(f, e.item.disposition)
                 /\ e.item.fingerprint \in {"", e.item.ref}
  <2>1. Earned(e.item)
    BY <1>1 DEF IInv, LayersInv
  <2> QED
    BY <2>1 DEF Earned, EventOf
<1>2. IInv => EventsAreEarned
  BY <1>1 DEF EventsAreEarned
<1> QED
  BY <1>2, Invariant, PTL

(***************************************************************************)
(* From here on: what a consumer may conclude from an answer of the ledger. *)
(* The argument follows one request by its number, from the conversion of  *)
(* its report over the wire to the layer, and its reply back.              *)
(***************************************************************************)
-----------------------------------------------------------------------------
(* What a conversion makes of a report: every finding the report decides is *)
(* an event or an item for review, once.                                   *)

Expected(report, i) == TrimSpace(report.findings[i].ref)
Decided(report) == {i \in DOMAIN report.findings : Decides(report.lane, report.findings[i])}

LEMMA DecidedFate ==
  ASSUME NEW lane \in Lanes, NEW f, NEW index, Decides(lane, f), f.verdict \in Verdicts[lane]
  PROVE  LET fate == Finding(lane, f, index)
         IN  fate.to \in {"Events", "NeedsReview"} /\ fate.item.ref = TrimSpace(f.ref)
<1>1. \A ref, disposition, grade :
        /\ Event(ref, disposition, grade, index).to = "Events"
        /\ Event(ref, disposition, grade, index).item.ref = ref
  BY DEF Event
<1>2. \A ref, reason : Review(ref, reason).to = "NeedsReview" /\ Review(ref, reason).item.ref = ref
  BY DEF Review
<1>3. TrimSpace(f.ref) # "" /\ f.ref # "" /\ TrimSpace(f.ref) = f.ref
  BY DEF Decides, TrimSpace
<1> DEFINE Right(fate) == fate.to \in {"Events", "NeedsReview"} /\ fate.item.ref = f.ref
<1>10. \A reason : Right(Review(f.ref, reason))
  BY <1>2
<1>11. \A disposition, grade : Right(Event(f.ref, disposition, grade, index))
  BY <1>1
<1> HIDE DEF Right
<1> SUFFICES Right(Finding(lane, f, index))
  BY <1>3 DEF Right
<1>4. CASE lane = "triage"
  <2>1. f.verdict \in {"true_positive", "hardening", "undetermined", "false_positive"}
    BY <1>4 DEF Decides, Verdicts
  <2>2. \/ Finding(lane, f, index) = Review(f.ref, "undetermined_finding")
        \/ Finding(lane, f, index) = Event(f.ref, triageValidity[f.verdict], "", index)
    BY <1>3, <1>4, <2>1 DEF Finding, TriageFinding, triageValidity
  <2> QED
    BY <1>10, <1>11, <2>2
<1>5. CASE lane = "validation"
  <2>1. gradable(f) \/ (f.verdict = "inconclusive" /\ flagged(f))
    BY <1>5 DEF Decides, gradable
  <2>2. \/ \E reason : Finding(lane, f, index) = Review(f.ref, reason)
        \/ \E disposition, grade : Finding(lane, f, index) = Event(f.ref, disposition, grade, index)
    BY <1>3, <1>5, <2>1 DEF Finding, ValidatedFinding
  <2> QED
    BY <1>10, <1>11, <2>2
<1>6. CASE lane = "verification"
  <2>1. verificationDisposition(f) # ""
    <3>1. f.verdict \in {"resolved", "partially_resolved", "unresolved", "new_approach",
                         "regression", "false_positive", "risk_accepted"}
      BY <1>6 DEF Verdicts
    <3> QED
      BY <3>1 DEF verificationDisposition
  <2>2. Finding(lane, f, index) = Event(f.ref, verificationDisposition(f), "", index)
    BY <1>3, <1>6, <2>1 DEF Finding, VerifiedFinding
  <2> QED
    BY <1>11, <2>2
<1> QED
  BY <1>4, <1>5, <1>6 DEF Lanes

LEMMA InPile ==
  ASSUME NEW report, NEW index, NEW to
  PROVE  \A x : x \in Pile(report, index, to) <=>
           \E i \in DOMAIN report.findings :
             LET fate == Finding(report.lane, report.findings[i], index)
             IN  fate.to = to /\ x = [n |-> i, item |-> fate.item]
<1> DEFINE fates == [i \in DOMAIN report.findings |-> Finding(report.lane, report.findings[i], index)]
<1>1. Pile(report, index, to) =
        {[n |-> i, item |-> fates[i].item] : i \in {j \in DOMAIN fates : fates[j].to = to}}
  BY DEF Pile
<1>2. /\ DOMAIN fates = DOMAIN report.findings
      /\ \A i \in DOMAIN report.findings :
           fates[i] = Finding(report.lane, report.findings[i], index)
  OBVIOUS
<1> HIDE DEF fates
<1> QED
  BY <1>1, <1>2

\* One entry and no more is at place i: an event, or an item for review.
OneAt(events, queue, i, ref, stamped) ==
  \/ \E e : /\ {x \in events : x.n = i} = {e} /\ {x \in queue : x.n = i} = {}
            /\ e.item.ref = ref /\ (stamped => e.item.fingerprint # "")
  \/ \E r : /\ {x \in queue : x.n = i} = {r} /\ {x \in events : x.n = i} = {}
            /\ r.item.ref = ref

LEMMA ConvertPlans ==
  ASSUME NEW report, report.lane \in Lanes, NEW index, NEW i \in Decided(report),
         report.findings[i].verdict \in Verdicts[report.lane], NEW stamped,
         stamped => EventFingerprints(Convert(report, index).Events)
  PROVE  OneAt(Convert(report, index).Events, Convert(report, index).NeedsReview, i,
               Expected(report, i), stamped)
<1> DEFINE fate == Finding(report.lane, report.findings[i], index)
           events == Convert(report, index).Events
           queue == Convert(report, index).NeedsReview
           Made(x) == [n |-> x.n,
                       item |-> [ref |-> x.item.ref, disposition |-> x.item.disposition,
                                 grade |-> x.item.grade, fingerprint |-> x.item.fingerprint,
                                 lane |-> report.lane, source |-> report.source,
                                 occurredAt |-> eventOccurredAt(report.date, "instant")]]
           mine == [n |-> i, item |-> fate.item]
<1>1. events = {Made(x) : x \in Pile(report, index, "Events")}
  BY DEF Convert
<1>2. queue = Pile(report, index, "NeedsReview")
  BY DEF Convert
<1>3. i \in DOMAIN report.findings /\ fate.to \in {"Events", "NeedsReview"}
      /\ fate.item.ref = Expected(report, i)
  BY DecidedFate DEF Decided, Expected
<1>4. \A x : Made(x).n = x.n /\ Made(x).item.ref = x.item.ref
  OBVIOUS
<1>5. \A to, x : x \in Pile(report, index, to) /\ x.n = i => fate.to = to /\ x = mine
  BY InPile
<1>6. \A to : fate.to = to => mine \in Pile(report, index, to)
  BY <1>3, InPile
<1>7. mine.n = i /\ mine.item.ref = Expected(report, i)
  BY <1>3
<1> HIDE DEF fate, events, queue, Made, mine
<1>8. CASE fate.to = "Events"
  <2>1. {x \in events : x.n = i} = {Made(mine)}
    BY <1>1, <1>4, <1>5, <1>6, <1>7, <1>8
  <2>2. {x \in queue : x.n = i} = {}
    BY <1>2, <1>5, <1>8
  <2>3. stamped => Made(mine).item.fingerprint # ""
    BY <2>1 DEF EventFingerprints, events
  <2> QED
    BY <1>4, <1>7, <2>1, <2>2, <2>3 DEF OneAt, events, queue
<1>9. CASE fate.to = "NeedsReview"
  <2>1. {x \in queue : x.n = i} = {mine}
    BY <1>2, <1>5, <1>6, <1>7, <1>9
  <2>2. {x \in events : x.n = i} = {}
    BY <1>1, <1>4, <1>5, <1>9
  <2> QED
    BY <1>7, <2>1, <2>2 DEF OneAt, events, queue
<1> QED
  BY <1>3, <1>8, <1>9

-----------------------------------------------------------------------------
(* What lies on the layers.                                                *)

Entries(l) == layers[l].events \cup layers[l].queue
EventsAt(l, n, i) == {e \in layers[l].events : e.n = n /\ e.place = i}
QueueAt(l, n, i) == {r \in layers[l].queue : r.n = n /\ r.place = i}

\* What one request has brought lies on one layer.
Lone ==
  \A l, k \in LayerIDs : \A x \in Entries(l), y \in Entries(k) : x.n = y.n => l = k

\* The finding at place i lies on layer l, once.
Lies(l, q, i) ==
  \/ \E e : /\ EventsAt(l, q.n, i) = {e} /\ QueueAt(l, q.n, i) = {}
            /\ e.item.ref = Expected(q.body.report, i)
            /\ q.op = "report" => e.item.fingerprint # ""
  \/ \E r : /\ QueueAt(l, q.n, i) = {r} /\ EventsAt(l, q.n, i) = {}
            /\ r.item.ref = Expected(q.body.report, i)

Carried(q) == \E l \in LayerIDs : \A i \in Decided(q.body.report) : Lies(l, q, i)

LEMMA InEvents == \A n, x : x \in Events(n) <=> \E l \in LayerIDs : x \in layers[l].events /\ x.n = n
BY DEF Events

LEMMA InQueue == \A n, x : x \in Queue(n) <=> \E l \in LayerIDs : x \in layers[l].queue /\ x.n = n
BY DEF Queue

LEMMA AbsentMeans ==
  \A q : Absent(q) <=> \A l \in LayerIDs : \A x \in Entries(l) : x.n # q.n
BY InEvents, InQueue DEF Absent, Entries

LEMMA CarriedIsWhole ==
  ASSUME Lone, NEW q, Carried(q)
  PROVE  Whole(q)
<1>1. PICK l \in LayerIDs : \A i \in Decided(q.body.report) : Lies(l, q, i)
  BY DEF Carried
<1>2. ASSUME NEW i \in Decided(q.body.report)
      PROVE  \E e \in At(q.n, i) :
               /\ At(q.n, i) = {e}
               /\ e.item.ref = Expected(q.body.report, i)
               /\ e \in Events(q.n) /\ q.op = "report" => e.item.fingerprint # ""
  <2>1. ASSUME NEW z \in Entries(l), z.n = q.n
        PROVE  \A x : /\ x \in Events(q.n) <=> x \in layers[l].events /\ x.n = q.n
                      /\ x \in Queue(q.n) <=> x \in layers[l].queue /\ x.n = q.n
    BY <2>1, InEvents, InQueue DEF Lone, Entries
  <2>2. ASSUME NEW z \in Entries(l), z.n = q.n
        PROVE  \A x : x \in At(q.n, i) <=> x \in EventsAt(l, q.n, i) \cup QueueAt(l, q.n, i)
    BY <2>1, <2>2 DEF At, EventsAt, QueueAt
  <2>3. CASE \E e : /\ EventsAt(l, q.n, i) = {e} /\ QueueAt(l, q.n, i) = {}
                    /\ e.item.ref = Expected(q.body.report, i)
                    /\ q.op = "report" => e.item.fingerprint # ""
    <3>1. PICK e : /\ EventsAt(l, q.n, i) = {e} /\ QueueAt(l, q.n, i) = {}
                   /\ e.item.ref = Expected(q.body.report, i)
                   /\ q.op = "report" => e.item.fingerprint # ""
      BY <2>3
    <3>2. e \in Entries(l) /\ e.n = q.n
      BY <3>1 DEF EventsAt, Entries
    <3>3. At(q.n, i) = {e}
      BY <2>2, <3>1, <3>2
    <3> QED
      BY <3>1, <3>3
  <2>4. CASE \E r : /\ QueueAt(l, q.n, i) = {r} /\ EventsAt(l, q.n, i) = {}
                    /\ r.item.ref = Expected(q.body.report, i)
    <3>1. PICK r : /\ QueueAt(l, q.n, i) = {r} /\ EventsAt(l, q.n, i) = {}
                   /\ r.item.ref = Expected(q.body.report, i)
      BY <2>4
    <3>2. r \in Entries(l) /\ r.n = q.n /\ r.place = i
      BY <3>1 DEF QueueAt, Entries
    <3>3. At(q.n, i) = {r}
      BY <2>2, <3>1, <3>2
    <3>4. r \notin Events(q.n)
      BY <2>1, <3>1, <3>2 DEF EventsAt
    <3> QED
      BY <3>1, <3>3, <3>4
  <2> QED
    BY <1>1, <2>3, <2>4 DEF Lies
<1> QED
  BY <1>2 DEF Whole, Decided, Expected

\* An entry that is stamped or resolved stays the entry it was.
Same(x, y) ==
  /\ y.n = x.n /\ y.place = x.place /\ y.item.ref = x.item.ref
  /\ x.item.fingerprint # "" => y.item.fingerprint # ""

Keeps(l) ==
  \E f, g :
    /\ layers'[l].events = {f[e] : e \in layers[l].events}
    /\ layers'[l].queue = {g[r] : r \in layers[l].queue}
    /\ \A e \in layers[l].events : Same(e, f[e])
    /\ \A r \in layers[l].queue : Same(r, g[r])

LEMMA KeptPlaces ==
  ASSUME NEW l \in LayerIDs, Keeps(l), NEW q, NEW i
  PROVE  Lies(l, q, i) => Lies(l, q, i)'
<1>1. PICK f, g : /\ layers'[l].events = {f[e] : e \in layers[l].events}
                  /\ layers'[l].queue = {g[r] : r \in layers[l].queue}
                  /\ \A e \in layers[l].events : Same(e, f[e])
                  /\ \A r \in layers[l].queue : Same(r, g[r])
  BY DEF Keeps
<1>2. \A x : x \in EventsAt(l, q.n, i)' <=> \E e \in EventsAt(l, q.n, i) : x = f[e]
  <2>1. \A x : x \in EventsAt(l, q.n, i)'
              <=> \E e \in layers[l].events : x = f[e] /\ x.n = q.n /\ x.place = i
    BY <1>1 DEF EventsAt
  <2>2. \A e \in layers[l].events : f[e].n = e.n /\ f[e].place = e.place
    BY <1>1 DEF Same
  <2> QED
    BY <2>1, <2>2 DEF EventsAt
<1>3. \A x : x \in QueueAt(l, q.n, i)' <=> \E r \in QueueAt(l, q.n, i) : x = g[r]
  <2>1. \A x : x \in QueueAt(l, q.n, i)'
              <=> \E r \in layers[l].queue : x = g[r] /\ x.n = q.n /\ x.place = i
    BY <1>1 DEF QueueAt
  <2>2. \A r \in layers[l].queue : g[r].n = r.n /\ g[r].place = r.place
    BY <1>1 DEF Same
  <2> QED
    BY <2>1, <2>2 DEF QueueAt
<1>4. ASSUME NEW e, EventsAt(l, q.n, i) = {e} /\ QueueAt(l, q.n, i) = {}
                    /\ e.item.ref = Expected(q.body.report, i)
                    /\ (q.op = "report" => e.item.fingerprint # "")
      PROVE  Lies(l, q, i)'
  <2>0. e \in layers[l].events
    BY <1>4 DEF EventsAt
  <2>1. EventsAt(l, q.n, i)' = {f[e]}
    BY <1>2, <1>4
  <2>2. QueueAt(l, q.n, i)' = {}
    BY <1>3, <1>4
  <2>3. Same(e, f[e])
    BY <1>1, <2>0
  <2> QED
    BY <1>4, <2>1, <2>2, <2>3 DEF Lies, Same
<1>5. ASSUME NEW r, QueueAt(l, q.n, i) = {r} /\ EventsAt(l, q.n, i) = {}
                    /\ r.item.ref = Expected(q.body.report, i)
      PROVE  Lies(l, q, i)'
  <2>0. r \in layers[l].queue
    BY <1>5 DEF QueueAt
  <2>1. QueueAt(l, q.n, i)' = {g[r]}
    BY <1>3, <1>5
  <2>2. EventsAt(l, q.n, i)' = {}
    BY <1>2, <1>5
  <2>3. Same(r, g[r])
    BY <1>1, <2>0
  <2> QED
    BY <1>5, <2>1, <2>2, <2>3 DEF Lies, Same
<1> QED
  BY <1>4, <1>5 DEF Lies

LEMMA KeptContent ==
  ASSUME \A l \in LayerIDs : Keeps(l)
  PROVE  /\ \A l \in LayerIDs : \A y \in Entries(l)' : \E x \in Entries(l) : y.n = x.n
         /\ Lone => Lone'
         /\ \A q : Carried(q) => Carried(q)'
         /\ \A q : Absent(q) => Absent(q)'
<1>1. ASSUME NEW l \in LayerIDs, NEW y \in Entries(l)'
      PROVE  \E x \in Entries(l) : y.n = x.n
  <2>1. PICK f, g : /\ layers'[l].events = {f[e] : e \in layers[l].events}
                    /\ layers'[l].queue = {g[r] : r \in layers[l].queue}
                    /\ \A e \in layers[l].events : Same(e, f[e])
                    /\ \A r \in layers[l].queue : Same(r, g[r])
    BY DEF Keeps
  <2>2. (\E e \in layers[l].events : y = f[e]) \/ (\E r \in layers[l].queue : y = g[r])
    BY <1>1, <2>1 DEF Entries
  <2>3. \A e \in layers[l].events : e \in Entries(l) /\ f[e].n = e.n
    BY <2>1 DEF Entries, Same
  <2>4. \A r \in layers[l].queue : r \in Entries(l) /\ g[r].n = r.n
    BY <2>1 DEF Entries, Same
  <2> QED
    BY <2>2, <2>3, <2>4
<1>2. Lone => Lone'
  BY <1>1 DEF Lone
<1>3. ASSUME NEW q, Carried(q)
      PROVE  Carried(q)'
  BY <1>3, KeptPlaces DEF Carried
<1>4. ASSUME NEW q, Absent(q)
      PROVE  Absent(q)'
  <2>1. \A l \in LayerIDs : \A x \in Entries(l) : x.n # q.n
    BY <1>4, AbsentMeans
  <2>2. \A l \in LayerIDs : \A x \in Entries(l)' : x.n # q.n
    BY <1>1, <2>1
  <2> QED
    BY <2>2, AbsentMeans DEF Absent, Events, Queue, Entries
<1> QED
  BY <1>1, <1>2, <1>3, <1>4
-----------------------------------------------------------------------------
(* What the service does to the layers.                                    *)

\* The batch of a request holds every finding its report decides, once.
Complete(q) ==
  \A i \in Decided(q.body.report) :
    OneAt(q.body.Events, q.body.NeedsReview, i, Expected(q.body.report, i), q.op = "report")

QueueShape(r) ==
  r = [n |-> r.n, place |-> r.place, item |-> r.item, resolved |-> r.resolved]

QueuesInv == \A l \in LayerIDs : \A r \in layers[l].queue : QueueShape(r)

LEMMA KeptLayer ==
  ASSUME NEW l \in LayerIDs, layers'[l].events = layers[l].events,
         layers'[l].queue = layers[l].queue
  PROVE  Keeps(l)
<1> DEFINE f == [e \in layers[l].events |-> e]
           g == [r \in layers[l].queue |-> r]
<1>1. /\ layers'[l].events = {f[e] : e \in layers[l].events}
      /\ layers'[l].queue = {g[r] : r \in layers[l].queue}
      /\ \A e \in layers[l].events : Same(e, f[e])
      /\ \A r \in layers[l].queue : Same(r, g[r])
  BY DEF Same
<1> HIDE DEF f, g
<1> QED
  BY <1>1 DEF Keeps

\* Layer k is now of existence b, with events E and queue Q.
Becomes(k, b, E, Q) ==
  \A l \in LayerIDs : /\ layers'[l].exists = IF l = k THEN b ELSE layers[l].exists
                      /\ layers'[l].events = IF l = k THEN E ELSE layers[l].events
                      /\ layers'[l].queue = IF l = k THEN Q ELSE layers[l].queue

LEMMA NewLayer ==
  ASSUME LayersInv, NEW k \in LayerIDs, NEW b, NEW E, NEW Q,
         layers' = [layers EXCEPT ![k] = [exists |-> b, events |-> E, queue |-> Q]]
  PROVE  Becomes(k, b, E, Q)
<1>1. DOMAIN layers = LayerIDs
  BY DEF LayersInv
<1>2. \A l \in LayerIDs : layers'[l] = IF l = k THEN [exists |-> b, events |-> E, queue |-> Q]
                                                ELSE layers[l]
  BY <1>1
<1> QED
  BY <1>2 DEF Becomes

LEMMA InitialisedKeeps ==
  ASSUME LayersInv, NEW q, q.layer \in LayerIDs,
         layers' = [layers EXCEPT ![q.layer].exists = TRUE]
  PROVE  /\ \A l \in LayerIDs : Keeps(l)
         /\ QueuesInv => QueuesInv'
         /\ Existing' = Existing \cup {q.layer}
         /\ \A l \in LayerIDs : layers'[l].events = layers[l].events
<1>1. layers' = [layers EXCEPT ![q.layer] =
         [exists |-> TRUE, events |-> layers[q.layer].events, queue |-> layers[q.layer].queue]]
  BY LayerFields
<1>2. \A l \in LayerIDs : /\ layers'[l].events = layers[l].events
                          /\ layers'[l].queue = layers[l].queue
                          /\ layers'[l].exists = IF l = q.layer THEN TRUE ELSE layers[l].exists
  <2> DEFINE E == layers[q.layer].events
             Q == layers[q.layer].queue
  <2>1. layers' = [layers EXCEPT ![q.layer] = [exists |-> TRUE, events |-> E, queue |-> Q]]
    BY <1>1
  <2> HIDE DEF E, Q
  <2>2. Becomes(q.layer, TRUE, E, Q)
    BY <2>1, NewLayer, Zenon
  <2> QED
    BY <2>2 DEF Becomes, E, Q
<1>3. \A l \in LayerIDs : Keeps(l)
  BY <1>2, KeptLayer
<1> QED
  BY <1>2, <1>3 DEF QueuesInv, Existing

LEMMA StampedKeeps ==
  ASSUME LayersInv, NEW q, q.layer \in LayerIDs,
         layers' = [layers EXCEPT ![q.layer].events = {Stamped(e, q.body) : e \in @}]
  PROVE  /\ \A l \in LayerIDs : Keeps(l)
         /\ QueuesInv => QueuesInv'
         /\ Existing' = Existing
         /\ \A l \in LayerIDs : \A d \in layers'[l].events :
              d \in layers[l].events \/ \E e \in layers[l].events : d = Stamped(e, q.body)
<1> DEFINE E == {Stamped(e, q.body) : e \in layers[q.layer].events}
<1>1. layers' = [layers EXCEPT ![q.layer] =
         [exists |-> layers[q.layer].exists, events |-> E, queue |-> layers[q.layer].queue]]
  BY LayerFields
<1>2. \A l \in LayerIDs : /\ layers'[l].events = IF l = q.layer THEN E ELSE layers[l].events
                          /\ layers'[l].queue = layers[l].queue
                          /\ layers'[l].exists = layers[l].exists
  <2> HIDE DEF E
  <2> QED
    BY <1>1, NewLayer DEF Becomes
<1>3. ASSUME NEW e \in layers[q.layer].events, NEW d, d = Stamped(e, q.body)
      PROVE  Same(e, d)
  <2>1. EventShape(e)
    BY DEF LayersInv
  <2>2. CASE d = e
    BY <2>2 DEF Same
  <2>3. CASE e.item.fingerprint = "" /\ d = [e EXCEPT !.item.fingerprint = e.item.ref]
    <3>1. d = [n |-> e.n, place |-> e.place,
               item |-> [ref |-> e.item.ref, disposition |-> e.item.disposition,
                         grade |-> e.item.grade, fingerprint |-> e.item.ref,
                         lane |-> e.item.lane, source |-> e.item.source,
                         occurredAt |-> e.item.occurredAt]]
      BY <2>1, <2>3 DEF EventShape, ItemShape
    <3>2. d.n = e.n /\ d.place = e.place /\ d.item.ref = e.item.ref
      BY <3>1
    <3> QED
      BY <2>3, <3>2 DEF Same
  <2> QED
    BY <1>3, <2>2, <2>3 DEF Stamped
<1>4. Keeps(q.layer)
  <2> DEFINE f == [e \in layers[q.layer].events |-> Stamped(e, q.body)]
             g == [r \in layers[q.layer].queue |-> r]
  <2>1. /\ E = {f[e] : e \in layers[q.layer].events}
        /\ layers[q.layer].queue = {g[r] : r \in layers[q.layer].queue}
        /\ \A e \in layers[q.layer].events : Same(e, f[e])
        /\ \A r \in layers[q.layer].queue : Same(r, g[r])
    BY <1>3 DEF Same
  <2> HIDE DEF f, g, E
  <2> QED
    BY <1>2, <2>1 DEF Keeps
<1>5. \A l \in LayerIDs : Keeps(l)
  BY <1>2, <1>4, KeptLayer
<1> QED
  <2>1. \A l \in LayerIDs : \A d \in layers'[l].events :
          d \in layers[l].events \/ \E e \in layers[l].events : d = Stamped(e, q.body)
    BY <1>2
  <2> QED
    BY <1>2, <1>5, <2>1 DEF QueuesInv, Existing

LEMMA ResolvedKeeps ==
  ASSUME LayersInv, QueuesInv, NEW q, q.layer \in LayerIDs,
         layers' = [layers EXCEPT ![q.layer].queue =
                      {[r EXCEPT !.resolved = @ \/ r.item = q.body] : r \in @}]
  PROVE  /\ \A l \in LayerIDs : Keeps(l)
         /\ QueuesInv'
         /\ Existing' = Existing
         /\ \A l \in LayerIDs : layers'[l].events = layers[l].events
<1> DEFINE Done(r) == [r EXCEPT !.resolved = @ \/ r.item = q.body]
           Q == {Done(r) : r \in layers[q.layer].queue}
<1>1. layers' = [layers EXCEPT ![q.layer] =
         [exists |-> layers[q.layer].exists, events |-> layers[q.layer].events, queue |-> Q]]
  BY LayerFields
<1>2. \A l \in LayerIDs : /\ layers'[l].events = layers[l].events
                          /\ layers'[l].queue = IF l = q.layer THEN Q ELSE layers[l].queue
                          /\ layers'[l].exists = layers[l].exists
  <2> DEFINE b == layers[q.layer].exists
             E == layers[q.layer].events
  <2>1. layers' = [layers EXCEPT ![q.layer] = [exists |-> b, events |-> E, queue |-> Q]]
    BY <1>1
  <2> HIDE DEF b, E, Q
  <2>2. Becomes(q.layer, b, E, Q)
    BY <2>1, NewLayer, Zenon
  <2> QED
    BY <2>2 DEF Becomes, b, E
<1>3. ASSUME NEW r \in layers[q.layer].queue
      PROVE  Same(r, Done(r)) /\ QueueShape(Done(r))
  <2>1. QueueShape(r)
    BY DEF QueuesInv
  <2>2. Done(r) = [n |-> r.n, place |-> r.place, item |-> r.item,
                   resolved |-> r.resolved \/ r.item = q.body]
    BY <2>1 DEF QueueShape
  <2> QED
    BY <2>2 DEF Same, QueueShape
<1>4. Keeps(q.layer)
  <2> DEFINE f == [e \in layers[q.layer].events |-> e]
             g == [r \in layers[q.layer].queue |-> Done(r)]
  <2>1. /\ layers[q.layer].events = {f[e] : e \in layers[q.layer].events}
        /\ Q = {g[r] : r \in layers[q.layer].queue}
        /\ \A e \in layers[q.layer].events : Same(e, f[e])
        /\ \A r \in layers[q.layer].queue : Same(r, g[r])
    <3> HIDE DEF Done
    <3> QED
      BY <1>3 DEF Same
  <2> HIDE DEF f, g, Q
  <2> QED
    BY <1>2, <2>1 DEF Keeps
<1>5. \A l \in LayerIDs : Keeps(l)
  BY <1>2, <1>4, KeptLayer
<1>6. QueuesInv'
  <2> HIDE DEF Done
  <2> QED
    BY <1>2, <1>3 DEF QueuesInv, QueueShape
<1> QED
  BY <1>2, <1>5, <1>6 DEF Existing

LEMMA AcceptedContent ==
  ASSUME LayersInv, NEW q, q.layer \in LayerIDs, Absent(q), layers' = Accepted(q)
  PROVE  /\ Becomes(q.layer, layers[q.layer].exists, layers[q.layer].events \cup Entered(q),
                    layers[q.layer].queue \cup Queued(q))
         /\ QueuesInv => QueuesInv'
         /\ Existing' = Existing
         /\ \A l \in LayerIDs : \A y \in Entries(l)' :
              y \in Entries(l) \/ (y.n = q.n /\ l = q.layer)
         /\ Complete(q) => Carried(q)'
         /\ \A p : p.n # q.n /\ Carried(p) => Carried(p)'
         /\ \A p : p.n # q.n /\ Absent(p) => Absent(p)'
         /\ Lone => Lone'
<1> DEFINE k == q.layer
           b == layers[k].exists
           E == layers[k].events \cup Entered(q)
           Q == layers[k].queue \cup Queued(q)
<1>1. Becomes(k, b, E, Q)
  <2>1. layers' = [layers EXCEPT ![k] = [exists |-> b, events |-> E, queue |-> Q]]
    BY AcceptedLayer
  <2> HIDE DEF k, b, E, Q
  <2>2. k \in LayerIDs
    BY DEF k
  <2> QED
    BY <2>1, <2>2, NewLayer, Zenon
<1>2. \A l \in LayerIDs : /\ layers'[l].exists = layers[l].exists
                          /\ l # k => /\ layers'[l].events = layers[l].events
                                      /\ layers'[l].queue = layers[l].queue
      /\ layers'[k].events = layers[k].events \cup Entered(q)
      /\ layers'[k].queue = layers[k].queue \cup Queued(q)
  BY <1>1 DEF Becomes
<1>3. \A x : x \in Entered(q) <=> \E e \in q.body.Events : x = [n |-> q.n, place |-> e.n, item |-> e.item]
  BY DEF Entered
<1>4. \A x : x \in Queued(q) <=> \E r \in q.body.NeedsReview :
                x = [n |-> q.n, place |-> r.n, item |-> r.item, resolved |-> FALSE]
  BY DEF Queued
<1>5. \A l \in LayerIDs : \A x \in Entries(l) : x.n # q.n
  BY AbsentMeans
<1>6. k \in LayerIDs
  OBVIOUS
<1>7. QueuesInv => QueuesInv'
  <2>1. \A r \in Queued(q) : QueueShape(r)
    BY <1>4 DEF QueueShape
  <2> HIDE DEF k
  <2> QED
    BY <1>2, <1>6, <2>1 DEF QueuesInv, QueueShape
<1>8. Existing' = Existing
  BY <1>2 DEF Existing
<1>9. \A l \in LayerIDs : \A y \in Entries(l)' : y \in Entries(l) \/ (y.n = q.n /\ l = k)
  <2>1. \A x \in Entered(q) \cup Queued(q) : x.n = q.n
    BY <1>3, <1>4
  <2> HIDE DEF k
  <2> QED
    BY <1>2, <1>6, <2>1 DEF Entries
<1>10. ASSUME NEW p, p.n # q.n
       PROVE  (Carried(p) => Carried(p)') /\ (Absent(p) => Absent(p)')
  <2>0. \A x \in Entered(q) \cup Queued(q) : x.n = q.n
    BY <1>3, <1>4
  <2>1. \A l \in LayerIDs : \A i : /\ EventsAt(l, p.n, i)' = EventsAt(l, p.n, i)
                                   /\ QueueAt(l, p.n, i)' = QueueAt(l, p.n, i)
    <3> HIDE DEF k
    <3>1. \A l \in LayerIDs : \A x : x.n = p.n =>
             /\ x \in layers'[l].events <=> x \in layers[l].events
             /\ x \in layers'[l].queue <=> x \in layers[l].queue
      BY <1>2, <1>6, <1>10, <2>0
    <3> QED
      BY <3>1 DEF EventsAt, QueueAt
  <2>2. Carried(p) => Carried(p)'
    BY <2>1 DEF Carried, Lies
  <2>3. Absent(p) => Absent(p)'
    <3>1. ASSUME Absent(p) PROVE \A l \in LayerIDs : \A x \in Entries(l)' : x.n # p.n
      BY <1>9, <1>10, <3>1, AbsentMeans
    <3> QED
      BY <3>1, AbsentMeans DEF Absent, Events, Queue, Entries
  <2> QED
    BY <2>2, <2>3
<1>11. ASSUME Lone PROVE Lone'
  <2> SUFFICES ASSUME NEW l \in LayerIDs, NEW m \in LayerIDs, NEW x \in Entries(l)',
                      NEW y \in Entries(m)', x.n = y.n
               PROVE  l = m
    BY DEF Lone
  <2>1. x \in Entries(l) \/ (x.n = q.n /\ l = k)
    BY <1>9
  <2>2. y \in Entries(m) \/ (y.n = q.n /\ m = k)
    BY <1>9
  <2> QED
    BY <1>5, <1>11, <2>1, <2>2 DEF Lone
<1>12. ASSUME Complete(q), NEW i \in Decided(q.body.report)
       PROVE  Lies(k, q, i)'
  <2> HIDE DEF k
  <2> DEFINE AsEvent(e) == [n |-> q.n, place |-> e.n, item |-> e.item]
             AsItem(r) == [n |-> q.n, place |-> r.n, item |-> r.item, resolved |-> FALSE]
             asked == q.op = "report"
  <2>0. /\ \A x : x \in Entered(q) <=> \E e \in q.body.Events : x = AsEvent(e)
        /\ \A x : x \in Queued(q) <=> \E r \in q.body.NeedsReview : x = AsItem(r)
        /\ \A e : AsEvent(e).n = q.n /\ AsEvent(e).place = e.n /\ AsEvent(e).item = e.item
        /\ \A r : AsItem(r).n = q.n /\ AsItem(r).place = r.n /\ AsItem(r).item = r.item
    BY <1>3, <1>4
  <2> HIDE DEF AsEvent, AsItem, asked
  <2>1. \A x : x \in EventsAt(k, q.n, i)' <=> \E e \in q.body.Events : e.n = i /\ x = AsEvent(e)
    <3>1. \A x : x \in EventsAt(k, q.n, i)' <=> x \in Entered(q) /\ x.n = q.n /\ x.place = i
      BY <1>2, <1>5, <1>6 DEF EventsAt, Entries
    <3> QED
      BY <2>0, <3>1
  <2>2. \A x : x \in QueueAt(k, q.n, i)' <=> \E r \in q.body.NeedsReview : r.n = i /\ x = AsItem(r)
    <3>1. \A x : x \in QueueAt(k, q.n, i)' <=> x \in Queued(q) /\ x.n = q.n /\ x.place = i
      BY <1>2, <1>5, <1>6 DEF QueueAt, Entries
    <3> QED
      BY <2>0, <3>1
  <2>3. OneAt(q.body.Events, q.body.NeedsReview, i, Expected(q.body.report, i), asked)
    BY <1>12 DEF Complete, asked
  <2>4. CASE \E e : /\ {x \in q.body.Events : x.n = i} = {e} /\ {x \in q.body.NeedsReview : x.n = i} = {}
                    /\ e.item.ref = Expected(q.body.report, i)
                    /\ (asked => e.item.fingerprint # "")
    <3>1. PICK e : /\ {x \in q.body.Events : x.n = i} = {e} /\ {x \in q.body.NeedsReview : x.n = i} = {}
                   /\ e.item.ref = Expected(q.body.report, i)
                   /\ (asked => e.item.fingerprint # "")
      BY <2>4
    <3>2. EventsAt(k, q.n, i)' = {AsEvent(e)}
      BY <2>1, <3>1
    <3>3. QueueAt(k, q.n, i)' = {}
      BY <2>2, <3>1
    <3>4. AsEvent(e).item = e.item
      BY <2>0
    <3> QED
      BY <3>1, <3>2, <3>3, <3>4 DEF Lies, asked
  <2>5. CASE \E r : /\ {x \in q.body.NeedsReview : x.n = i} = {r} /\ {x \in q.body.Events : x.n = i} = {}
                    /\ r.item.ref = Expected(q.body.report, i)
    <3>1. PICK r : /\ {x \in q.body.NeedsReview : x.n = i} = {r} /\ {x \in q.body.Events : x.n = i} = {}
                   /\ r.item.ref = Expected(q.body.report, i)
      BY <2>5
    <3>2. QueueAt(k, q.n, i)' = {AsItem(r)}
      BY <2>2, <3>1
    <3>3. EventsAt(k, q.n, i)' = {}
      BY <2>1, <3>1
    <3>4. AsItem(r).item = r.item
      BY <2>0
    <3> QED
      BY <3>1, <3>2, <3>3, <3>4 DEF Lies
  <2> QED
    BY <2>3, <2>4, <2>5 DEF OneAt
<1>13. Complete(q) => Carried(q)'
  <2> HIDE DEF k
  <2> QED
    BY <1>6, <1>12 DEF Carried
<1> QED
  BY <1>1, <1>7, <1>8, <1>9, <1>10, <1>11, <1>13

-----------------------------------------------------------------------------
(* The invariant.                                                          *)

Told == UNION {{answers[c][i] : i \in DOMAIN answers[c]} : c \in Consumers}

\* The requests under way, open, or answered.
Known ==
  wire \cup {p \in {call[c] : c \in Consumers} : p # NoCall} \cup {a.request : a \in Told}

Statuses == {"2xx", "4xx", "5xx", "404"}

\* A number stands for one request.
NumberInv ==
  /\ calls \in Nat
  /\ \A q \in Known : q.n \in 1 .. calls
  /\ \A p, q \in Known : p.n = q.n => p = q
  /\ \A r \in replies : r.n \in 1 .. calls /\ r.status \in Statuses
  /\ \A l \in LayerIDs : \A x \in Entries(l) : x.n \in 1 .. calls

AnswersInv ==
  /\ \E S : answers \in [Consumers -> Seq(S)]
  /\ DOMAIN call = Consumers

\* What a submission has come to, by what is said of it.
SubmissionInv ==
  /\ Lone
  /\ \A q \in wire : Brings(q) => q.layer \in LayerIDs /\ Absent(q) /\ Complete(q)
  /\ \A q \in Known : Brings(q) => Absent(q) \/ Carried(q)
  /\ \A r \in replies : \A q \in Known : r.n = q.n =>
       /\ q \notin wire
       /\ Brings(q) /\ r.status = "2xx" => Carried(q)
       /\ Brings(q) /\ r.status = "4xx" => Absent(q)
  /\ \A a \in Told : Brings(a.request) =>
       /\ a.outcome \in {"ok", "decode"} => Carried(a.request) /\ a.request \notin wire
       /\ a.outcome \in LocalPhases \cup {"4xx"} => Absent(a.request) /\ a.request \notin wire

\* Whoever has been told of an initialisation has a layer, and is not about to
\* be told that there is none.
Initialised(a) == a.request.op = "initialize" /\ a.outcome = "ok"

FindInv ==
  /\ \A q \in wire : q.op \in {"initialize", "stamp", "resolve"} => q.layer \in LayerIDs
  /\ \A r \in replies : \A q \in Known :
       r.n = q.n /\ q.op = "initialize" /\ r.status = "2xx" => Existing # {}
  /\ \A a \in Told : Initialised(a) => Existing # {}
  /\ \A r \in replies : \A c \in Consumers :
       call[c] # NoCall /\ call[c].n = r.n /\ r.status = "404" =>
         \A i \in DOMAIN answers[c] : ~Initialised(answers[c][i])
  /\ OwnLayerIsFound

SInv == QueuesInv /\ NumberInv /\ AnswersInv /\ SubmissionInv /\ FindInv

-----------------------------------------------------------------------------
(* What serving a request comes to.                                        *)

InitialisedLayers(q) == [layers EXCEPT ![q.layer].exists = TRUE]
StampedLayers(q) == [layers EXCEPT ![q.layer].events = {Stamped(e, q.body) : e \in @}]
ResolvedLayers(q) ==
  [layers EXCEPT ![q.layer].queue = {[r EXCEPT !.resolved = @ \/ r.item = q.body] : r \in @}]

LEMMA Causes ==
  ASSUME NEW q, NEW x, CameOf(q, x)
  PROVE  /\ x.status \in Statuses
         /\ x.status = "404" => Existing = {}
         /\ \/ /\ x.layers = layers /\ (Brings(q) => x.status # "2xx")
               /\ q.op = "initialize" /\ x.status = "2xx" => q.layer \in Existing
            \/ q.op = "initialize" /\ x.layers = InitialisedLayers(q)
            \/ /\ Brings(q) /\ q.layer \in Existing
               /\ x.layers = Accepted(q) /\ x.status # "4xx"
            \/ q.op = "stamp" /\ x.layers = StampedLayers(q)
            \/ q.op = "resolve" /\ x.layers = ResolvedLayers(q)
<1>1. \A y \in Effects(q) :
        \/ q.op = "find" /\ y.layers = layers /\ y.status = IF Existing = {} THEN "404" ELSE "2xx"
        \/ q.op = "initialize" /\ y.layers = InitialisedLayers(q) /\ y.status = "2xx"
        \/ Brings(q) /\ q.layer \in Existing /\ y.layers = Accepted(q) /\ y.status = "2xx"
        \/ q.op = "stamp" /\ y.layers = StampedLayers(q) /\ y.status = "2xx"
        \/ q.op = "resolve" /\ y.layers = ResolvedLayers(q) /\ y.status = "2xx"
        \/ /\ ~Brings(q) /\ (q.op = "list" \/ q.layer \in Existing)
           /\ y.layers = layers /\ y.status = "2xx"
  BY EffectCases DEF InitialisedLayers, StampedLayers, ResolvedLayers
<1>2. CASE x \in Effects(q)
  BY <1>1, <1>2 DEF Brings, Statuses
<1>3. CASE x.status = "4xx" /\ x.layers = layers
  BY <1>3 DEF Statuses
<1>4. CASE x.status = "5xx" /\ x.layers = layers
  BY <1>4 DEF Statuses
<1>5. CASE x.status = "5xx" /\ \E y \in Effects(q) : x.layers = y.layers
  <2>1. PICK y \in Effects(q) : x.layers = y.layers
    BY <1>5
  <2> QED
    BY <1>1, <1>5, <2>1 DEF Statuses
<1> QED
  BY <1>2, <1>3, <1>4, <1>5 DEF CameOf

LEMMA ServeContent ==
  ASSUME IInv, SInv, NEW q \in wire, NEW x, CameOf(q, x), layers' = x.layers
  PROVE  /\ QueuesInv' /\ Lone'
         /\ \A l \in LayerIDs : \A y \in Entries(l)' : y.n \in 1 .. calls
         /\ \A p : p.n # q.n /\ Carried(p) => Carried(p)'
         /\ \A p : p.n # q.n /\ Absent(p) => Absent(p)'
         /\ Brings(q) => \/ Absent(q)' /\ x.status # "2xx"
                         \/ Carried(q)' /\ x.status # "4xx"
         /\ Existing \subseteq Existing'
         /\ q.op = "initialize" /\ x.status = "2xx" => Existing' # {}
<1> DEFINE Numbered == \A l \in LayerIDs : \A y \in Entries(l)' : y.n \in 1 .. calls
           Stays == \A p : (Carried(p) => Carried(p)') /\ (Absent(p) => Absent(p)')
<1>0. /\ q \in Known /\ LayersInv /\ QueuesInv /\ Lone
      /\ \A l \in LayerIDs : \A y \in Entries(l) : y.n \in 1 .. calls
      /\ q.n \in 1 .. calls
      /\ Brings(q) => q.layer \in LayerIDs /\ Absent(q) /\ Complete(q)
      /\ q.op \in {"initialize", "stamp", "resolve"} => q.layer \in LayerIDs
  BY DEF IInv, SInv, SubmissionInv, NumberInv, FindInv, Known
<1>1. ASSUME \A l \in LayerIDs : Keeps(l)
      PROVE  Numbered /\ Stays /\ Lone'
  BY <1>0, <1>1, KeptContent
<1>2. CASE /\ layers' = layers /\ (Brings(q) => x.status # "2xx")
           /\ q.op = "initialize" /\ x.status = "2xx" => q.layer \in Existing
  <2>1. \A l \in LayerIDs : Keeps(l)
    BY <1>2, KeptLayer
  <2>2. QueuesInv' /\ Existing' = Existing
    BY <1>0, <1>2 DEF QueuesInv, Existing, QueueShape
  <2> HIDE DEF Stays
  <2>3. Numbered /\ Stays /\ Lone'
    BY <1>1, <2>1
  <2> QED
    BY <1>0, <1>2, <2>2, <2>3 DEF Stays
<1>3. CASE q.op = "initialize" /\ layers' = InitialisedLayers(q)
  <2>1. /\ \A l \in LayerIDs : Keeps(l)
        /\ QueuesInv' /\ Existing' = Existing \cup {q.layer}
    BY <1>0, <1>3, InitialisedKeeps DEF InitialisedLayers
  <2> QED
    BY <1>1, <1>3, <2>1 DEF Brings
<1>4. CASE Brings(q) /\ layers' = Accepted(q) /\ x.status # "4xx"
  <2>1. /\ QueuesInv' /\ Existing' = Existing /\ Carried(q)'
        /\ \A l \in LayerIDs : \A y \in Entries(l)' : y \in Entries(l) \/ y.n = q.n
        /\ \A p : p.n # q.n /\ Carried(p) => Carried(p)'
        /\ \A p : p.n # q.n /\ Absent(p) => Absent(p)'
        /\ Lone'
    BY <1>0, <1>4, AcceptedContent
  <2>2. Numbered
    BY <1>0, <2>1
  <2> QED
    BY <1>4, <2>1, <2>2 DEF Brings
<1>5. CASE q.op = "stamp" /\ layers' = StampedLayers(q)
  <2>1. (\A l \in LayerIDs : Keeps(l)) /\ QueuesInv' /\ Existing' = Existing
    BY <1>0, <1>5, StampedKeeps DEF StampedLayers
  <2> QED
    BY <1>1, <1>5, <2>1 DEF Brings
<1>6. CASE q.op = "resolve" /\ layers' = ResolvedLayers(q)
  <2>1. (\A l \in LayerIDs : Keeps(l)) /\ QueuesInv' /\ Existing' = Existing
    BY <1>0, <1>6, ResolvedKeeps DEF ResolvedLayers
  <2> QED
    BY <1>1, <1>6, <2>1 DEF Brings
<1> QED
  BY <1>2, <1>3, <1>4, <1>5, <1>6, Causes

-----------------------------------------------------------------------------
(* The steps that leave the layers alone.                                  *)

LEMMA SameLayers ==
  ASSUME layers' = layers
  PROVE  /\ \A p : (Carried(p)' <=> Carried(p)) /\ (Absent(p)' <=> Absent(p))
         /\ Lone' <=> Lone
         /\ QueuesInv' <=> QueuesInv
         /\ Existing' = Existing
         /\ \A l : Entries(l)' = Entries(l)
<1>1. \A p : Carried(p)' <=> Carried(p)
  BY DEF Carried, Lies, EventsAt, QueueAt
<1>2. \A p : Absent(p)' <=> Absent(p)
  BY DEF Absent, Events, Queue
<1>3. Lone' <=> Lone
  BY DEF Lone, Entries
<1>4. QueuesInv' <=> QueuesInv
  BY DEF QueuesInv, QueueShape
<1>5. Existing' = Existing
  BY DEF Existing
<1>6. \A l : Entries(l)' = Entries(l)
  BY DEF Entries
<1> QED
  BY <1>1, <1>2, <1>3, <1>4, <1>5, <1>6

LEMMA SameAnswers ==
  ASSUME answers' = answers
  PROVE  Told' = Told /\ (OwnLayerIsFound => OwnLayerIsFound')
<1>1. Told' = Told
  BY DEF Told
<1> DEFINE Found == \A d \in Consumers : \A i, j \in DOMAIN answers[d] :
                      i < j /\ Initialised(answers[d][i]) => answers[d][j].outcome # "not found"
<1>2. OwnLayerIsFound <=> Found
  BY DEF OwnLayerIsFound, Initialised
<1>3. OwnLayerIsFound' <=> Found'
  BY DEF OwnLayerIsFound, Initialised
<1>4. Found => Found'
  BY Zenon
<1> QED
  BY <1>1, <1>2, <1>3, <1>4

\* A consumer's list of answers has grown by one.
Grown(c, n, a) ==
  /\ DOMAIN answers[c] = 1 .. n /\ DOMAIN answers'[c] = 1 .. n + 1
  /\ \A i \in DOMAIN answers[c] : answers'[c][i] = answers[c][i]
  /\ answers'[c][n + 1] = a

LEMMA AnswerTold ==
  ASSUME AnswersInv, NEW c \in Consumers, NEW request, NEW outcome, Answer(c, request, outcome)
  PROVE  LET a == [request |-> request, outcome |-> outcome]
         IN  /\ \E S : answers' \in [Consumers -> Seq(S)]
             /\ Told' = Told \cup {a}
             /\ \A d \in Consumers : d # c => answers'[d] = answers[d]
             /\ \E n \in Nat : Grown(c, n, a)
<1> DEFINE L == Len(answers[c])
           a == [request |-> request, outcome |-> outcome]
<1>1. PICK S : answers \in [Consumers -> Seq(S)]
  BY DEF AnswersInv
<1>2. answers' = [answers EXCEPT ![c] = Append(answers[c], a)]
  BY DEF Answer
<1> HIDE DEF a
<1> DEFINE T == S \cup {a}
<1>3. \A d \in Consumers : answers[d] \in Seq(T)
  BY <1>1
<1>4. a \in T
  OBVIOUS
<1> HIDE DEF T
<1>5. Append(answers[c], a) \in Seq(T)
  BY <1>3, <1>4
<1>6. answers' \in [Consumers -> Seq(T)]
  BY <1>1, <1>2, <1>3, <1>5
<1>7. /\ L \in Nat /\ DOMAIN answers[c] = 1 .. L /\ DOMAIN answers'[c] = 1 .. L + 1
      /\ \A i \in DOMAIN answers[c] : answers'[c][i] = answers[c][i]
      /\ answers'[c][L + 1] = a
  BY <1>1, <1>2, <1>3, <1>4, <1>5
<1>8. \A d \in Consumers : d # c => answers'[d] = answers[d]
  BY <1>1, <1>2
<1>9. Told' = Told \cup {a}
  <2>1. {answers'[c][i] : i \in DOMAIN answers'[c]} = {answers[c][i] : i \in DOMAIN answers[c]} \cup {a}
    BY <1>7
  <2> QED
    BY <1>8, <2>1 DEF Told
<1>10. \E n \in Nat : Grown(c, n, a)
  <2>1. L \in Nat /\ Grown(c, L, a)
    BY <1>7 DEF Grown
  <2> QED
    BY <2>1
<1> QED
  BY <1>6, <1>8, <1>9, <1>10 DEF a

LEMMA Places ==
  ASSUME NEW n \in Nat, NEW i \in 1 .. n + 1, NEW j \in 1 .. n + 1
  PROVE  (i < j => i \in 1 .. n) /\ (j \in 1 .. n \/ j = n + 1)
OBVIOUS

LEMMA AnswerFind ==
  ASSUME OwnLayerIsFound, NEW c \in Consumers, NEW a, NEW n \in Nat, Grown(c, n, a),
         \A d \in Consumers : d # c => answers'[d] = answers[d],
         a.outcome = "not found" => \A i \in DOMAIN answers[c] : ~Initialised(answers[c][i])
  PROVE  OwnLayerIsFound'
<1>1. ASSUME NEW d \in Consumers, NEW i \in DOMAIN answers'[d], NEW j \in DOMAIN answers'[d],
             i < j, Initialised(answers'[d][i])
      PROVE  answers'[d][j].outcome # "not found"
  <2>1. CASE d # c
    BY <1>1, <2>1 DEF OwnLayerIsFound, Initialised
  <2>2. CASE d = c
    <3>1. i \in 1 .. n + 1 /\ j \in 1 .. n + 1 /\ i < j
      BY <1>1, <2>2 DEF Grown
    <3>2. i \in 1 .. n /\ (j \in 1 .. n \/ j = n + 1)
      BY <3>1, Places, Zenon
    <3>3. i \in DOMAIN answers[c] /\ Initialised(answers[c][i])
      BY <1>1, <2>2, <3>2 DEF Grown
    <3>4. CASE j \in 1 .. n
      <4>1. j \in DOMAIN answers[c] /\ answers'[c][j] = answers[c][j]
        BY <3>4 DEF Grown
      <4> QED
        BY <1>1, <2>2, <3>3, <4>1 DEF OwnLayerIsFound, Initialised
    <3>5. CASE j = n + 1
      BY <2>2, <3>3, <3>5 DEF Grown
    <3> QED
      BY <3>2, <3>4, <3>5
  <2> QED
    BY <2>1, <2>2
<1> QED
  BY <1>1 DEF OwnLayerIsFound, Initialised

LEMMA Answered ==
  ASSUME AnswersInv, OwnLayerIsFound, NEW c \in Consumers, NEW request, NEW outcome,
         Answer(c, request, outcome),
         outcome = "not found" => \A i \in DOMAIN answers[c] : ~Initialised(answers[c][i])
  PROVE  /\ \E S : answers' \in [Consumers -> Seq(S)]
         /\ Told' = Told \cup {[request |-> request, outcome |-> outcome]}
         /\ \A d \in Consumers : d # c => answers'[d] = answers[d]
         /\ OwnLayerIsFound'
<1> DEFINE a == [request |-> request, outcome |-> outcome]
<1>1. /\ \E S : answers' \in [Consumers -> Seq(S)]
      /\ Told' = Told \cup {a}
      /\ \A d \in Consumers : d # c => answers'[d] = answers[d]
      /\ \E n \in Nat : Grown(c, n, a)
  BY AnswerTold
<1>2. a.outcome = outcome
  OBVIOUS
<1>3. PICK n \in Nat : Grown(c, n, a)
  BY <1>1
<1> HIDE DEF a
<1>4. OwnLayerIsFound'
  BY <1>1, <1>2, <1>3, AnswerFind, Zenon
<1> QED
  BY <1>1, <1>4 DEF a

\* A new request, sent or refused.
LEMMA FreshStep ==
  ASSUME SInv, NEW c \in Consumers, NEW q, q.n = calls + 1, calls' = calls + 1,
         call[c] = NoCall,
         \/ post(c, q)
         \/ \E phase \in LocalPhases : Refuse(c, q, phase),
         wire' # wire /\ Brings(q) => q.layer \in LayerIDs /\ Complete(q),
         wire' # wire /\ q.op \in {"initialize", "stamp", "resolve"} => q.layer \in LayerIDs
  PROVE  SInv'
<1>0. /\ layers' = layers /\ replies' = replies
      /\ calls \in Nat /\ calls' \in Nat
  BY DEF post, Refuse, SInv, NumberInv
<1>1. q \notin Known
  BY <1>0 DEF SInv, NumberInv
<1>2. /\ \A p : (Carried(p)' <=> Carried(p)) /\ (Absent(p)' <=> Absent(p))
      /\ Lone' <=> Lone
      /\ QueuesInv' <=> QueuesInv
      /\ Existing' = Existing
      /\ \A l : Entries(l)' = Entries(l)
  BY <1>0, SameLayers
<1>3. Absent(q)
  <2>1. \A l \in LayerIDs : \A x \in Entries(l) : x.n # q.n
    BY <1>0 DEF SInv, NumberInv
  <2> QED
    BY <2>1, AbsentMeans
<1>4. /\ AnswersInv' /\ OwnLayerIsFound'
      /\ \/ Told' = Told /\ wire' = wire \cup {q}
         \/ \E phase \in LocalPhases :
              Told' = Told \cup {[request |-> q, outcome |-> phase]} /\ wire' = wire
      /\ Known' \subseteq Known \cup {q}
      /\ \A d \in Consumers : d # c => call'[d] = call[d] /\ answers'[d] = answers[d]
      /\ call'[c] \in {q, NoCall}
  <2>1. CASE post(c, q)
    <3>1. answers' = answers /\ wire' = wire \cup {q} /\ call' = [call EXCEPT ![c] = q]
      BY <2>1 DEF post
    <3>2. DOMAIN call = Consumers /\ AnswersInv /\ OwnLayerIsFound
      BY DEF SInv, AnswersInv, FindInv
    <3>3. /\ DOMAIN call' = Consumers /\ call'[c] = q
          /\ \A d \in Consumers : d # c => call'[d] = call[d]
      BY <3>1, <3>2
    <3>4. Told' = Told /\ OwnLayerIsFound' /\ AnswersInv'
      <4>1. Told' = Told /\ OwnLayerIsFound'
        BY <3>1, <3>2, SameAnswers
      <4>2. AnswersInv'
        BY <3>1, <3>2, <3>3 DEF AnswersInv
      <4> QED
        BY <4>1, <4>2
    <3>5. Known' \subseteq Known \cup {q}
      BY <3>1, <3>3, <3>4 DEF Known
    <3> QED
      BY <3>1, <3>3, <3>4, <3>5
  <2>2. ASSUME NEW phase \in LocalPhases, Refuse(c, q, phase)
        PROVE  /\ AnswersInv' /\ OwnLayerIsFound'
               /\ Told' = Told \cup {[request |-> q, outcome |-> phase]} /\ wire' = wire
               /\ Known' \subseteq Known \cup {q}
               /\ \A d \in Consumers : d # c => call'[d] = call[d] /\ answers'[d] = answers[d]
               /\ call'[c] = NoCall
    <3>1. Answer(c, q, phase) /\ wire' = wire /\ call' = call
      BY <2>2 DEF Refuse
    <3>2. phase # "not found"
      BY DEF LocalPhases
    <3>3. DOMAIN call = Consumers /\ AnswersInv /\ OwnLayerIsFound
      BY DEF SInv, AnswersInv, FindInv
    <3>4. /\ \E S : answers' \in [Consumers -> Seq(S)]
          /\ Told' = Told \cup {[request |-> q, outcome |-> phase]}
          /\ \A d \in Consumers : d # c => answers'[d] = answers[d]
          /\ OwnLayerIsFound'
      BY <3>1, <3>2, <3>3, Answered
    <3>5. AnswersInv'
      BY <3>1, <3>3, <3>4 DEF AnswersInv
    <3>6. Known' \subseteq Known \cup {q}
      BY <3>1, <3>4 DEF Known
    <3> QED
      BY <3>1, <3>4, <3>5, <3>6
  <2> QED
    BY <2>1, <2>2
<1>5. /\ \A i \in 1 .. calls : i \in 1 .. calls' /\ i # q.n
      /\ q.n \in 1 .. calls'
  BY <1>0
<1>6. NumberInv'
  <2>1. \A p \in Known' : p.n \in 1 .. calls'
    BY <1>4, <1>5 DEF SInv, NumberInv
  <2>2. \A p1, p2 \in Known' : p1.n = p2.n => p1 = p2
    BY <1>4, <1>5 DEF SInv, NumberInv
  <2>3. \A r \in replies : r.n \in 1 .. calls' /\ r.status \in Statuses
    BY <1>5 DEF SInv, NumberInv
  <2>4. \A l \in LayerIDs : \A x \in Entries(l) : x.n \in 1 .. calls'
    BY <1>5 DEF SInv, NumberInv
  <2> QED
    BY <1>0, <1>2, <2>1, <2>2, <2>3, <2>4 DEF NumberInv, Statuses
<1>7. SubmissionInv'
  <2>1. \A p \in wire' : Brings(p) => p.layer \in LayerIDs /\ Absent(p)' /\ Complete(p)
    BY <1>2, <1>3, <1>4 DEF SInv, SubmissionInv
  <2>2. \A p \in Known' : Brings(p) => Absent(p)' \/ Carried(p)'
    BY <1>2, <1>3, <1>4 DEF SInv, SubmissionInv
  <2>3. ASSUME NEW r \in replies, NEW p \in Known', r.n = p.n
        PROVE  /\ p \notin wire'
               /\ Brings(p) /\ r.status = "2xx" => Carried(p)'
               /\ Brings(p) /\ r.status = "4xx" => Absent(p)'
    <3>1. p # q
      BY <1>5, <2>3 DEF SInv, NumberInv
    <3>2. p \in Known /\ (p \in wire' => p \in wire)
      BY <1>4, <3>1
    <3> QED
      BY <1>2, <2>3, <3>2 DEF SInv, SubmissionInv
  <2>4. ASSUME NEW a \in Told, Brings(a.request)
        PROVE  /\ a.outcome \in {"ok", "decode"} => Carried(a.request)' /\ a.request \notin wire'
               /\ a.outcome \in LocalPhases \cup {"4xx"} => Absent(a.request)' /\ a.request \notin wire'
    <3>1. a.request \in Known
      BY DEF Known
    <3>2. a.request # q
      BY <1>1, <3>1
    <3>3. a.request \in wire' => a.request \in wire
      BY <1>4, <3>2
    <3> QED
      BY <1>2, <2>4, <3>3 DEF SInv, SubmissionInv
  <2>5. ASSUME NEW phase \in LocalPhases, wire' = wire
        PROVE  /\ phase \notin {"ok", "decode"}
               /\ Absent(q)' /\ q \notin wire'
    BY <1>1, <1>2, <1>3, <2>5 DEF LocalPhases, Known
  <2>6. \A a \in Told' : Brings(a.request) =>
               /\ a.outcome \in {"ok", "decode"} => Carried(a.request)' /\ a.request \notin wire'
               /\ a.outcome \in LocalPhases \cup {"4xx"} => Absent(a.request)' /\ a.request \notin wire'
    <3>1. CASE Told' = Told
      BY <2>4, <3>1
    <3>2. CASE wire' = wire /\ \E phase \in LocalPhases : Told' = Told \cup {[request |-> q, outcome |-> phase]}
      <4>1. PICK phase \in LocalPhases : Told' = Told \cup {[request |-> q, outcome |-> phase]}
        BY <3>2
      <4>2. ASSUME NEW a, a = [request |-> q, outcome |-> phase]
            PROVE  a.request = q /\ a.outcome = phase
        BY <4>2
      <4> QED
        BY <2>4, <2>5, <3>2, <4>1, <4>2
    <3> QED
      BY <1>4, <3>1, <3>2
  <2>7. Lone'
    BY <1>2 DEF SInv, SubmissionInv
  <2> QED
    BY <1>0, <2>1, <2>2, <2>3, <2>6, <2>7 DEF SubmissionInv, Brings, Complete, LocalPhases
<1>8. FindInv'
  <2>1. \A p \in wire' : p.op \in {"initialize", "stamp", "resolve"} => p.layer \in LayerIDs
    BY <1>4 DEF SInv, FindInv
  <2>2. \A r \in replies : \A p \in Known' :
          r.n = p.n /\ p.op = "initialize" /\ r.status = "2xx" => Existing # {}
    BY <1>4, <1>5 DEF SInv, FindInv, NumberInv
  <2>3. \A a \in Told' : Initialised(a) => Existing # {}
    <3>1. \A a, phase : a = [request |-> q, outcome |-> phase] /\ phase \in LocalPhases => ~Initialised(a)
      BY DEF Initialised, LocalPhases
    <3>2. \A a \in Told' : a \in Told \/ \E phase \in LocalPhases : a = [request |-> q, outcome |-> phase]
      BY <1>4
    <3> QED
      BY <3>1, <3>2 DEF SInv, FindInv
  <2>4. ASSUME NEW r \in replies, NEW d \in Consumers, call'[d] # NoCall, call'[d].n = r.n,
               r.status = "404", NEW i \in DOMAIN answers'[d]
        PROVE  ~Initialised(answers'[d][i])
    <3>1. d # c
      BY <1>4, <1>5, <2>4 DEF SInv, NumberInv
    <3> QED
      BY <1>4, <2>4, <3>1 DEF SInv, FindInv
  <2> QED
    BY <1>0, <1>2, <1>4, <2>1, <2>2, <2>3, <2>4 DEF FindInv, Initialised
<1> QED
  BY <1>2, <1>4, <1>6, <1>7, <1>8 DEF SInv

\* A call that ends, with the answer that became of its reply or with none.
LEMMA EndStep ==
  ASSUME SInv, NEW c \in Consumers, NEW q, q = call[c], q # NoCall, NEW outcome,
         Answer(c, q, outcome),
         call' = [call EXCEPT ![c] = NoCall], replies' \subseteq replies,
         UNCHANGED <<layers, wire, calls>>,
         \/ outcome = "ingest"
         \/ \E reply \in replies :
              reply.n = q.n /\ outcome \in Outcomes(q, reply)
  PROVE  SInv'
<1> DEFINE a == [request |-> q, outcome |-> outcome]
<1>0. q \in Known /\ q # NoCall /\ DOMAIN call = Consumers
  BY DEF Known, SInv, AnswersInv
<1>1. /\ outcome \in {"ok", "decode"} =>
           \E reply \in replies : reply.n = q.n /\ reply.status = "2xx"
      /\ outcome = "4xx" => \E reply \in replies : reply.n = q.n /\ reply.status = "4xx"
      /\ outcome = "not found" =>
           \E reply \in replies : reply.n = q.n /\ reply.status = "404"
      /\ outcome \notin LocalPhases
  <2>1. CASE outcome = "ingest"
    BY <2>1 DEF LocalPhases
  <2>2. ASSUME NEW reply \in replies, reply.n = q.n, outcome \in Outcomes(q, reply)
        PROVE  /\ outcome \in {"ok", "decode"} => reply.status = "2xx"
               /\ outcome = "4xx" => reply.status = "4xx"
               /\ outcome = "not found" => reply.status = "404"
               /\ outcome \notin LocalPhases
    <3>1. reply.status \in Statuses
      BY DEF SInv, NumberInv
    <3>2. CASE q.op = "find" /\ reply.status = "404"
      BY <2>2, <3>2 DEF Outcomes, NoLayerStatus, LocalPhases
    <3>3. CASE reply.status = "2xx"
      BY <2>2, <3>3 DEF Outcomes, NoLayerStatus, Decoded, LocalPhases
    <3>4. CASE ~(q.op = "find" /\ reply.status = "404") /\ reply.status # "2xx"
      BY <2>2, <3>1, <3>4 DEF Outcomes, NoLayerStatus, LocalPhases, Statuses
    <3> QED
      BY <3>2, <3>3, <3>4
  <2> QED
    BY <2>1, <2>2
<1>2. /\ \A p : (Carried(p)' <=> Carried(p)) /\ (Absent(p)' <=> Absent(p))
      /\ Lone' <=> Lone
      /\ QueuesInv' <=> QueuesInv
      /\ Existing' = Existing
      /\ \A l : Entries(l)' = Entries(l)
  BY SameLayers
<1>3. outcome = "not found" => \A i \in DOMAIN answers[c] : ~Initialised(answers[c][i])
  BY <1>0, <1>1 DEF SInv, FindInv
<1>4. /\ \E S : answers' \in [Consumers -> Seq(S)]
      /\ Told' = Told \cup {a}
      /\ \A d \in Consumers : d # c => answers'[d] = answers[d]
      /\ OwnLayerIsFound'
  <2>1. AnswersInv /\ OwnLayerIsFound
    BY DEF SInv, FindInv
  <2> QED
    BY <1>3, <2>1, Answered
<1>5. a.request = q /\ a.outcome = outcome
  OBVIOUS
<1>6. call'[c] = NoCall /\ (\A d \in Consumers : d # c => call'[d] = call[d]) /\ DOMAIN call' = Consumers
  BY <1>0
<1> HIDE DEF a
<1>7. Known' \subseteq Known
  <2>1. \A p \in {call'[d] : d \in Consumers} : p = NoCall \/ p \in {call[d] : d \in Consumers}
    BY <1>6
  <2>2. \A b \in Told' : b \in Told \/ b.request = q
    BY <1>4, <1>5
  <2> QED
    BY <1>0, <2>1, <2>2 DEF Known
<1>8. NumberInv'
  BY <1>2, <1>7 DEF SInv, NumberInv, Statuses
<1>9. AnswersInv'
  BY <1>4, <1>6 DEF AnswersInv
<1>10. SubmissionInv'
  <2>1. \A p \in wire : Brings(p) => p.layer \in LayerIDs /\ Absent(p)' /\ Complete(p)
    BY <1>2 DEF SInv, SubmissionInv
  <2>2. \A p \in Known' : Brings(p) => Absent(p)' \/ Carried(p)'
    BY <1>2, <1>7 DEF SInv, SubmissionInv
  <2>3. \A r \in replies : \A p \in Known' : r.n = p.n =>
               /\ p \notin wire
               /\ Brings(p) /\ r.status = "2xx" => Carried(p)'
               /\ Brings(p) /\ r.status = "4xx" => Absent(p)'
    BY <1>2, <1>7 DEF SInv, SubmissionInv
  <2>4. \A b \in Told : Brings(b.request) =>
               /\ b.outcome \in {"ok", "decode"} => Carried(b.request)' /\ b.request \notin wire
               /\ b.outcome \in LocalPhases \cup {"4xx"} => Absent(b.request)' /\ b.request \notin wire
    BY <1>2 DEF SInv, SubmissionInv
  <2>5. Brings(q) =>
               /\ outcome \in {"ok", "decode"} => Carried(q)' /\ q \notin wire
               /\ outcome \in LocalPhases \cup {"4xx"} => Absent(q)' /\ q \notin wire
    BY <1>0, <1>1, <1>2 DEF SInv, SubmissionInv
  <2>6. \A b \in Told' : Brings(b.request) =>
               /\ b.outcome \in {"ok", "decode"} => Carried(b.request)' /\ b.request \notin wire
               /\ b.outcome \in LocalPhases \cup {"4xx"} => Absent(b.request)' /\ b.request \notin wire
    BY <1>4, <1>5, <2>4, <2>5
  <2>7. Lone'
    BY <1>2 DEF SInv, SubmissionInv
  <2> QED
    BY <2>1, <2>2, <2>3, <2>6, <2>7 DEF SubmissionInv, Brings, Complete, LocalPhases
<1>11. FindInv'
  <2>1. \A p \in wire : p.op \in {"initialize", "stamp", "resolve"} => p.layer \in LayerIDs
    BY DEF SInv, FindInv
  <2>2. \A r \in replies : \A p \in Known' :
          r.n = p.n /\ p.op = "initialize" /\ r.status = "2xx" => Existing # {}
    BY <1>7 DEF SInv, FindInv
  <2>3. \A b \in Told' : Initialised(b) => Existing # {}
    <3>1. Initialised(a) => Existing # {}
      BY <1>0, <1>1, <1>5 DEF Initialised, SInv, FindInv
    <3> QED
      BY <1>4, <3>1 DEF SInv, FindInv
  <2>4. ASSUME NEW r \in replies, NEW d \in Consumers, call'[d] # NoCall, call'[d].n = r.n,
               r.status = "404", NEW i \in DOMAIN answers'[d]
        PROVE  ~Initialised(answers'[d][i])
    <3>1. d # c
      BY <1>6, <2>4
    <3> QED
      BY <1>4, <1>6, <2>4, <3>1 DEF SInv, FindInv
  <2> QED
    BY <1>2, <1>4, <2>1, <2>2, <2>3, <2>4 DEF FindInv, Initialised
<1> QED
  BY <1>2, <1>8, <1>9, <1>10, <1>11 DEF SInv

\* A request that reaches the service.
LEMMA ServedStep ==
  ASSUME IInv, SInv, NEW q \in wire, Serve(q)
  PROVE  SInv'
<1>1. PICK x : layers' = x.layers /\ Replied(q, x.status) /\ CameOf(q, x)
  BY ServeCases
<1>2. /\ QueuesInv' /\ Lone'
      /\ \A l \in LayerIDs : \A y \in Entries(l)' : y.n \in 1 .. calls
      /\ \A p : p.n # q.n /\ Carried(p) => Carried(p)'
      /\ \A p : p.n # q.n /\ Absent(p) => Absent(p)'
      /\ Brings(q) => \/ Absent(q)' /\ x.status # "2xx"
                      \/ Carried(q)' /\ x.status # "4xx"
      /\ Existing \subseteq Existing'
      /\ q.op = "initialize" /\ x.status = "2xx" => Existing' # {}
  BY <1>1, ServeContent
<1>3. x.status \in Statuses /\ (x.status = "404" => Existing = {})
  BY <1>1, Causes
<1>4. wire' = wire \ {q} /\ call' = call /\ calls' = calls /\ answers' = answers
  BY DEF Serve
<1>5. Told' = Told /\ OwnLayerIsFound'
  BY <1>4, SameAnswers DEF SInv, FindInv
<1>6. Known' \subseteq Known /\ q \in Known
  BY <1>4, <1>5 DEF Known
<1>7. \A r \in replies' : r \in replies \/ (r.n = q.n /\ r.status = x.status)
  BY <1>1 DEF Replied
<1>8. \A p \in Known : p.n = q.n => p = q
  BY <1>6 DEF SInv, NumberInv
<1>9. NumberInv'
  <2>1. \A r \in replies' : r.n \in 1 .. calls /\ r.status \in Statuses
    BY <1>3, <1>6, <1>7 DEF SInv, NumberInv
  <2>2. /\ \A p \in Known' : p.n \in 1 .. calls
        /\ \A p1, p2 \in Known' : p1.n = p2.n => p1 = p2
        /\ calls \in Nat
    BY <1>6 DEF SInv, NumberInv
  <2> QED
    BY <1>2, <1>4, <2>1, <2>2 DEF NumberInv, Statuses
<1>10. AnswersInv'
  BY <1>4 DEF SInv, AnswersInv
<1>11. SubmissionInv'
  <2>1. \A p \in wire' : Brings(p) => p.layer \in LayerIDs /\ Absent(p)' /\ Complete(p)
    <3>1. \A p \in wire' : p.n # q.n
      BY <1>4, <1>8 DEF Known
    <3> QED
      BY <1>2, <1>4, <3>1 DEF SInv, SubmissionInv
  <2>2. \A p \in Known' : Brings(p) => Absent(p)' \/ Carried(p)'
    BY <1>2, <1>6, <1>8 DEF SInv, SubmissionInv
  <2>3. ASSUME NEW r \in replies', NEW p \in Known', r.n = p.n
        PROVE  /\ p \notin wire'
               /\ Brings(p) /\ r.status = "2xx" => Carried(p)'
               /\ Brings(p) /\ r.status = "4xx" => Absent(p)'
    <3>1. CASE p = q
      <4>1. r \notin replies
        BY <1>6, <2>3, <3>1 DEF SInv, SubmissionInv
      <4> QED
        BY <1>2, <1>4, <1>7, <3>1, <4>1
    <3>2. CASE p # q
      <4>1. p.n # q.n /\ p \in Known /\ r \in replies
        BY <1>6, <1>7, <1>8, <2>3, <3>2
      <4> QED
        BY <1>2, <1>4, <2>3, <4>1 DEF SInv, SubmissionInv
    <3> QED
      BY <3>1, <3>2
  <2>4. ASSUME NEW a \in Told, Brings(a.request)
        PROVE  /\ a.outcome \in {"ok", "decode"} => Carried(a.request)' /\ a.request \notin wire'
               /\ a.outcome \in LocalPhases \cup {"4xx"} => Absent(a.request)' /\ a.request \notin wire'
    <3>1. a.request \in Known
      BY DEF Known
    <3>2. CASE a.request = q
      BY <2>4, <3>2 DEF SInv, SubmissionInv
    <3>3. CASE a.request # q
      <4>1. a.request.n # q.n
        BY <1>8, <3>1, <3>3
      <4> QED
        BY <1>2, <1>4, <2>4, <4>1 DEF SInv, SubmissionInv
    <3> QED
      BY <3>2, <3>3
  <2> QED
    BY <1>2, <1>5, <2>1, <2>2, <2>3, <2>4 DEF SubmissionInv, Brings, Complete, LocalPhases
<1>12. FindInv'
  <2>0. Existing # {} => Existing' # {}
    BY <1>2
  <2>1. \A p \in wire' : p.op \in {"initialize", "stamp", "resolve"} => p.layer \in LayerIDs
    BY <1>4 DEF SInv, FindInv
  <2>2. ASSUME NEW r \in replies', NEW p \in Known', r.n = p.n, p.op = "initialize", r.status = "2xx"
        PROVE  Existing' # {}
    <3>1. CASE r \in replies
      BY <1>6, <2>0, <2>2, <3>1 DEF SInv, FindInv
    <3>2. CASE r.n = q.n /\ r.status = x.status
      BY <1>2, <1>6, <1>8, <2>2, <3>2
    <3> QED
      BY <1>7, <3>1, <3>2
  <2>3. \A b \in Told : Initialised(b) => Existing' # {}
    BY <2>0 DEF SInv, FindInv
  <2>4. ASSUME NEW r \in replies', NEW d \in Consumers, call[d] # NoCall, call[d].n = r.n,
               r.status = "404", NEW i \in DOMAIN answers[d]
        PROVE  ~Initialised(answers[d][i])
    <3>1. CASE r \in replies
      BY <2>4, <3>1 DEF SInv, FindInv
    <3>2. CASE r.status = x.status
      <4>1. answers[d][i] \in Told
        BY DEF Told
      <4> QED
        BY <1>3, <2>4, <3>2, <4>1 DEF SInv, FindInv
    <3> QED
      BY <1>7, <3>1, <3>2
  <2> QED
    BY <1>4, <1>5, <2>1, <2>2, <2>3, <2>4 DEF FindInv, Initialised
<1> QED
  BY <1>2, <1>9, <1>10, <1>11, <1>12 DEF SInv

\* A report that is submitted decides what its batch carries.
LEMMA ReportPlans ==
  ASSUME SkillsInv, artifact # NoArtifact, NEW date, NEW index,
         NEW q, NEW layer,
         q = Request(q.op, layer, BatchSubmitInput(Report(date), Convert(Report(date), index))),
         q.op = "report" => EventFingerprints(Convert(Report(date), index).Events)
  PROVE  Complete(q)
<1> DEFINE report == Report(date)
           output == jobs[artifact.job].output
<1>1. output.schema \in Lanes /\ output \in Documents
  <2>1. artifact.skill \in SkillNames /\ artifact.job \in DOMAIN jobs /\ jobs \in Seq(JobType)
    BY DEF SkillsInv, SkillsTypeOK, JobType
  <2>2. jobs[artifact.job].output.schema \in Lanes
    BY <2>1, LaneAssumption DEF SkillsInv, JobsKeepTheirSkill
  <2>3. jobs[artifact.job] \in JobType
    BY <2>1
  <2>4. output \in Documents \cup {[schema |-> ""]}
    BY <2>3 DEF JobType
  <2>5. output # [schema |-> ""]
    <3>1. [schema |-> ""].schema = ""
      OBVIOUS
    <3> QED
      BY <2>2, <3>1 DEF Lanes
  <2> QED
    BY <2>2, <2>4, <2>5
<1>2. report.lane = output.schema /\ report.findings = output.findings
  BY DEF Report
<1>3. \A i \in DOMAIN report.findings : report.findings[i].verdict \in Verdicts[report.lane]
  BY <1>1, <1>2, DocumentAssumption
<1>4. /\ q.body.report = report
      /\ q.body.Events = Convert(report, index).Events
      /\ q.body.NeedsReview = Convert(report, index).NeedsReview
  BY DEF Request, BatchSubmitInput
<1>5. report.lane \in Lanes
  BY <1>1, <1>2
<1> HIDE DEF report
<1>6. ASSUME NEW i \in Decided(report)
      PROVE  OneAt(Convert(report, index).Events, Convert(report, index).NeedsReview, i,
                   Expected(report, i), q.op = "report")
  <2>1. report.findings[i].verdict \in Verdicts[report.lane]
    BY <1>3 DEF Decided
  <2>2. q.op = "report" => EventFingerprints(Convert(report, index).Events)
    BY DEF report
  <2> QED
    BY <1>5, <2>1, <2>2, ConvertPlans
<1> QED
  BY <1>4, <1>6 DEF Complete

LEMMA SubmitFresh ==
  ASSUME IInv, SInv, Submit
  PROVE  SInv'
<1>1. PICK c \in Consumers, layer \in LayerIDs, index \in Indexes, date \in {"day", "instant"} :
        \/ SubmitReport(c, layer, Report(date), index)
        \/ BatchSubmit(c, layer, Report(date), index)
  BY DEF Submit
<1> DEFINE converted == Convert(Report(date), index)
           body == BatchSubmitInput(Report(date), converted)
<1>2. \E q : /\ q = Request(q.op, layer, body) /\ q.op \in {"report", "batch"}
             /\ Begin(c)
             /\ \/ post(c, q) /\ (q.op = "report" => EventFingerprints(converted.Events))
                \/ \E phase \in LocalPhases : Refuse(c, q, phase)
  <2>1. \A op : Request(op, layer, body).op = op
    BY DEF Request
  <2>2. CASE SubmitReport(c, layer, Report(date), index)
    <3>1. /\ Begin(c)
          /\ \/ \E phase \in LocalPhases : Refuse(c, Request("report", layer, body), phase)
             \/ EventFingerprints(converted.Events) /\ post(c, Request("report", layer, body))
      BY <2>2 DEF SubmitReport, LocalPhases
    <3> HIDE DEF body, converted
    <3> QED
      BY <2>1, <3>1
  <2>3. CASE BatchSubmit(c, layer, Report(date), index)
    <3>1. Begin(c) /\ post(c, Request("batch", layer, body))
      BY <2>3 DEF BatchSubmit
    <3> HIDE DEF body, converted
    <3> QED
      BY <2>1, <3>1
  <2> QED
    BY <1>1, <2>2, <2>3
<1>3. PICK q : /\ q = Request(q.op, layer, body) /\ q.op \in {"report", "batch"}
               /\ Begin(c)
               /\ \/ post(c, q) /\ (q.op = "report" => EventFingerprints(converted.Events))
                  \/ \E phase \in LocalPhases : Refuse(c, q, phase)
  BY <1>2
<1>4. /\ q.n = calls + 1 /\ q.layer = layer
      /\ calls' = calls + 1 /\ call[c] = NoCall
  BY <1>3 DEF Request, Begin
<1>5. wire' # wire => post(c, q) /\ (q.op = "report" => EventFingerprints(converted.Events))
  BY <1>3 DEF Refuse
<1>6. wire' # wire => Complete(q)
  BY <1>3, <1>5, ReportPlans DEF IInv, Submit
<1>7. q.op \notin {"initialize", "stamp", "resolve"}
  BY <1>3
<1>8. post(c, q) \/ \E phase \in LocalPhases : Refuse(c, q, phase)
  BY <1>3
<1> QED
  BY <1>4, <1>6, <1>7, <1>8, FreshStep

LEMMA OtherFresh ==
  ASSUME SInv, OtherCalls
  PROVE  SInv'
<1>1. ASSUME NEW c \in Consumers, NEW op, NEW layer, NEW body, Begin(c),
             \/ post(c, Request(op, layer, body))
             \/ \E phase \in LocalPhases : Refuse(c, Request(op, layer, body), phase),
             op \notin {"report", "batch"},
             op \in {"initialize", "stamp", "resolve"} => layer \in LayerIDs
      PROVE  SInv'
  <2>1. PICK q : q = Request(op, layer, body)
    OBVIOUS
  <2>2. /\ q.n = calls + 1 /\ q.layer = layer /\ q.op = op
        /\ calls' = calls + 1 /\ call[c] = NoCall
    BY <1>1, <2>1 DEF Request, Begin
  <2>3. ~Brings(q)
    BY <1>1, <2>2 DEF Brings
  <2>4. post(c, q) \/ \E phase \in LocalPhases : Refuse(c, q, phase)
    BY <1>1, <2>1
  <2> QED
    BY <1>1, <2>2, <2>3, <2>4, FreshStep
<1>2. PICK c \in Consumers :
        \/ FindLayer(c)
        \/ \E filters \in SUBSET Filters : ListLayers(c, filters)
        \/ \E layer \in LayerIDs :
             \/ InitializeLayer(c, layer)
             \/ \E fingerprints \in Indexes : StampEventIdentities(c, layer, fingerprints)
             \/ \E r \in layers[layer].queue : ResolveReviewItem(c, layer, r.item)
             \/ \E op \in OtherOps : Ask(c, op, layer)
  BY DEF OtherCalls
<1>3. CASE FindLayer(c)
  <2>1. Begin(c) /\ post(c, Request("find", "", {}))
    BY <1>3 DEF FindLayer
  <2>2. "find" \notin {"report", "batch", "initialize", "stamp", "resolve"}
    OBVIOUS
  <2> QED
    BY <1>1, <2>1, <2>2
<1>4. CASE \E filters \in SUBSET Filters : ListLayers(c, filters)
  <2>1. PICK filters \in SUBSET Filters : ListLayers(c, filters)
    BY <1>4
  <2>2. /\ Begin(c)
        /\ \/ post(c, Request("list", "", filters))
           \/ \E phase \in LocalPhases : Refuse(c, Request("list", "", filters), phase)
    BY <2>1 DEF ListLayers, LocalPhases
  <2>3. "list" \notin {"report", "batch", "initialize", "stamp", "resolve"}
    OBVIOUS
  <2> QED
    BY <1>1, <2>2, <2>3
<1>5. CASE \E layer \in LayerIDs : InitializeLayer(c, layer)
  BY <1>1, <1>5 DEF InitializeLayer
<1>6. CASE \E layer \in LayerIDs, fingerprints \in Indexes : StampEventIdentities(c, layer, fingerprints)
  BY <1>1, <1>6 DEF StampEventIdentities
<1>7. CASE \E layer \in LayerIDs : \E r \in layers[layer].queue : ResolveReviewItem(c, layer, r.item)
  BY <1>1, <1>7 DEF ResolveReviewItem
<1>8. CASE \E layer \in LayerIDs, op \in OtherOps : Ask(c, op, layer)
  BY <1>1, <1>8, OperationAssumption DEF Ask
<1> QED
  BY <1>2, <1>3, <1>4, <1>5, <1>6, <1>7, <1>8

LEMMA LedgerRests ==
  ASSUME SInv, UNCHANGED ledgerVars
  PROVE  SInv'
<1>1. UNCHANGED <<layers, wire, replies, call, calls, answers>>
  BY DEF ledgerVars
<1>2. /\ \A p : (Carried(p)' <=> Carried(p)) /\ (Absent(p)' <=> Absent(p))
      /\ Lone' <=> Lone
      /\ QueuesInv' <=> QueuesInv
      /\ Existing' = Existing
      /\ \A l : Entries(l)' = Entries(l)
  BY <1>1, SameLayers
<1>3. Told' = Told /\ OwnLayerIsFound'
  BY <1>1, SameAnswers DEF SInv, FindInv
<1>4. Known' = Known
  BY <1>1, <1>3 DEF Known
<1>5. NumberInv' /\ AnswersInv'
  BY <1>1, <1>2, <1>4 DEF SInv, NumberInv, AnswersInv, Statuses
<1>6. SubmissionInv'
  <2>1. /\ \A q \in wire : Brings(q) => q.layer \in LayerIDs /\ Absent(q)' /\ Complete(q)
        /\ \A q \in Known : Brings(q) => Absent(q)' \/ Carried(q)'
        /\ \A r \in replies : \A q \in Known : r.n = q.n =>
             /\ q \notin wire
             /\ Brings(q) /\ r.status = "2xx" => Carried(q)'
             /\ Brings(q) /\ r.status = "4xx" => Absent(q)'
        /\ \A a \in Told : Brings(a.request) =>
             /\ a.outcome \in {"ok", "decode"} => Carried(a.request)' /\ a.request \notin wire
             /\ a.outcome \in LocalPhases \cup {"4xx"} => Absent(a.request)' /\ a.request \notin wire
        /\ Lone'
    BY <1>2 DEF SInv, SubmissionInv
  <2> QED
    BY <1>1, <1>3, <1>4, <2>1 DEF SubmissionInv, Brings, Complete, LocalPhases
<1>7. FindInv'
  BY <1>1, <1>2, <1>3, <1>4 DEF SInv, FindInv, Initialised
<1> QED
  BY <1>2, <1>5, <1>6, <1>7 DEF SInv

-----------------------------------------------------------------------------
(* The invariant holds of every reachable state, and the properties follow. *)

LEMMA SubmissionInit == Init => SInv
<1> SUFFICES ASSUME Init PROVE SInv
  OBVIOUS
<1>1. /\ \A l \in LayerIDs : layers[l].events = {} /\ layers[l].queue = {}
      /\ wire = {} /\ replies = {} /\ calls = 0
      /\ call = [c \in Consumers |-> NoCall]
      /\ answers = [c \in Consumers |-> <<>>]
  BY DEF Init, LedgerInit, NoLayer
<1>2. \A l \in LayerIDs : Entries(l) = {}
  BY <1>1 DEF Entries
<1>3. Told = {}
  <2>1. \A c \in Consumers : answers[c] = <<>>
    BY <1>1
  <2>2. DOMAIN <<>> = {}
    OBVIOUS
  <2> QED
    BY <2>1, <2>2 DEF Told
<1>4. Known = {}
  BY <1>1, <1>3 DEF Known
<1>5. QueuesInv
  BY <1>1 DEF QueuesInv
<1>6. NumberInv
  BY <1>1, <1>2, <1>4 DEF NumberInv
<1>7. AnswersInv
  <2>1. answers \in [Consumers -> Seq({})]
    BY <1>1
  <2> QED
    BY <1>1, <2>1 DEF AnswersInv
<1>8. SubmissionInv
  BY <1>1, <1>2, <1>3, <1>4 DEF SubmissionInv, Lone
<1>9. FindInv
  <2>1. OwnLayerIsFound
    <3>1. \A c \in Consumers : answers[c] = <<>>
      BY <1>1
    <3>2. DOMAIN <<>> = {}
      OBVIOUS
    <3> QED
      BY <3>1, <3>2 DEF OwnLayerIsFound
  <2> QED
    BY <1>1, <1>3, <1>4, <2>1 DEF FindInv
<1> QED
  BY <1>5, <1>6, <1>7, <1>8, <1>9 DEF SInv

LEMMA SubmissionStep == IInv /\ SInv /\ [Next]_vars => SInv'
<1> SUFFICES ASSUME IInv, SInv, [Next]_vars
             PROVE  SInv'
  OBVIOUS
<1>1. CASE UNCHANGED ledgerVars
  BY <1>1, LedgerRests
<1>2. CASE Submit
  BY <1>2, SubmitFresh
<1>3. CASE OtherCalls
  BY <1>3, OtherFresh
<1>4. CASE \E q \in wire : Serve(q)
  BY <1>4, ServedStep
<1>5. ASSUME NEW c \in Consumers, NEW reply \in replies, Receive(c, reply)
      PROVE  SInv'
  <2>1. PICK outcome \in Outcomes(call[c], reply) : Answer(c, call[c], outcome)
    BY <1>5 DEF Receive
  <2>2. PICK q : q = call[c]
    OBVIOUS
  <2>3. /\ q # NoCall /\ reply.n = q.n /\ outcome \in Outcomes(q, reply)
        /\ Answer(c, q, outcome)
        /\ call' = [call EXCEPT ![c] = NoCall] /\ replies' \subseteq replies
        /\ UNCHANGED <<layers, wire, calls>>
    BY <1>5, <2>1, <2>2 DEF Receive
  <2> QED
    BY <2>2, <2>3, EndStep
<1>6. ASSUME NEW c \in Consumers, Fail(c)
      PROVE  SInv'
  <2>1. PICK q : q = call[c]
    OBVIOUS
  <2>2. /\ q # NoCall /\ Answer(c, q, "ingest")
        /\ call' = [call EXCEPT ![c] = NoCall] /\ replies' \subseteq replies
        /\ UNCHANGED <<layers, wire, calls>>
    BY <1>6, <2>1 DEF Fail
  <2> QED
    BY <2>1, <2>2, EndStep
<1> QED
  BY <1>1, <1>2, <1>3, <1>4, <1>5, <1>6 DEF Next, LedgerNext, vars

\* What is known of a call's request on its way, on a layer and in a reply, in every
\* reachable state.
THEOREM SubmissionInvariant == Spec => [](IInv /\ SInv)
<1>1. Init => IInv /\ SInv
  BY InitInv, SubmissionInit
<1>2. IInv /\ SInv /\ [Next]_vars => IInv' /\ SInv'
  BY InductiveStep, SubmissionStep
<1> QED
  BY <1>1, <1>2, PTL DEF Spec

\* What a submission is answered is true of the layer, then and ever after.
THEOREM AnswersAreAlwaysTrue == Spec => []AnswersAreTrue
<1>1. ASSUME SInv, NEW a \in Submissions
      PROVE  /\ a.outcome \in {"ok", "decode"} => Whole(a.request)
             /\ a.outcome \in LocalPhases \cup {"4xx"} => Absent(a.request) /\ a.request \notin wire
             /\ a.outcome \in {"ingest", "5xx"} => Absent(a.request) \/ Whole(a.request)
  <2>1. a \in Told /\ Brings(a.request) /\ a.request \in Known
    BY DEF Submissions, Told, Brings, Known
  <2>2. Carried(a.request) => Whole(a.request)
    BY <1>1, CarriedIsWhole DEF SInv, SubmissionInv
  <2> QED
    BY <1>1, <2>1, <2>2 DEF SInv, SubmissionInv
<1>2. SInv => AnswersAreTrue
  BY <1>1 DEF AnswersAreTrue
<1> QED
  BY <1>2, SubmissionInvariant, PTL

\* Whoever has initialised a layer is never told afterwards that there is none.
THEOREM OwnLayerIsAlwaysFound == Spec => []OwnLayerIsFound
<1>1. SInv => OwnLayerIsFound
  BY DEF SInv, FindInv
<1> QED
  BY <1>1, SubmissionInvariant, PTL

-----------------------------------------------------------------------------
(* The types.                                                              *)

Dispositions ==
  {"confirmed", "hardening", "false_positive", "resolved", "open", "fix_in_progress",
   "partially_resolved", "regression_introduced", "risk_accepted"}

Item ==
  [ref : Refs \cup {" "}, lane : Lanes, source : Nat, grade : {"", "E0", "E1", "E2", "E3"},
   fingerprint : Refs \cup {""}, occurredAt : {"instant", "midnight"},
   disposition : Dispositions]

LEMMA LayerEventIs == LayerEvent = [n : 1 .. MaxCalls, place : Nat, item : Item]
BY DEF LayerEvent, Item, Dispositions

\* The fields a finding gives an event.
Sound(item) ==
  /\ item.ref \in Refs \cup {" "} /\ item.grade \in {"", "E0", "E1", "E2", "E3"}
  /\ item.fingerprint \in Refs \cup {""} /\ item.disposition \in Dispositions

LEMMA FindingSound ==
  ASSUME NEW lane \in Lanes, NEW f, NEW index, index \subseteq Refs,
         f.verdict \in Verdicts[lane], f.ref \in Refs \cup {"", " "},
         lane = "validation" => f.grade \in {"", "E0", "E1", "E2", "E3"},
         Finding(lane, f, index).to = "Events"
  PROVE  Sound(Finding(lane, f, index).item)
<1>1. ASSUME NEW ref \in Refs \cup {" "}, NEW disposition \in Dispositions,
             NEW grade \in {"", "E0", "E1", "E2", "E3"}
      PROVE  Sound(Event(ref, disposition, grade, index).item)
  <2>1. /\ Event(ref, disposition, grade, index).item.ref = ref
        /\ Event(ref, disposition, grade, index).item.disposition = disposition
        /\ Event(ref, disposition, grade, index).item.grade = grade
        /\ Event(ref, disposition, grade, index).item.fingerprint = stampFingerprint(index, ref)
    BY DEF Event
  <2>2. stampFingerprint(index, ref) \in Refs \cup {""}
    BY DEF stampFingerprint
  <2> QED
    BY <2>1, <2>2 DEF Sound
<1>2. \A ref, reason : Review(ref, reason).to # "Events" /\ Skip(ref, reason).to # "Events"
  BY DEF Review, Skip
<1>3. Nothing.to # "Events"
  BY DEF Nothing
<1>4. CASE lane = "triage"
  <2>1. /\ f.verdict \in {"true_positive", "hardening", "false_positive"} /\ f.ref # ""
        /\ Finding(lane, f, index) = Event(f.ref, triageValidity[f.verdict], "", index)
    BY <1>2, <1>3, <1>4 DEF Finding, TriageFinding, triageValidity
  <2>2. triageValidity[f.verdict] \in Dispositions
    <3>1. /\ triageValidity["true_positive"] = "confirmed"
          /\ triageValidity["hardening"] = "hardening"
          /\ triageValidity["false_positive"] = "false_positive"
      BY DEF triageValidity
    <3> QED
      BY <2>1, <3>1 DEF Dispositions
  <2> QED
    BY <1>1, <2>1, <2>2
<1>5. CASE lane = "validation"
  <2>1. /\ Finding(lane, f, index)
           = Event(f.ref, IF f.verdict = "refuted" THEN "false_positive" ELSE "confirmed",
                   TrimSpace(f.grade), index)
        /\ f.ref # ""
    BY <1>2, <1>3, <1>5 DEF Finding, ValidatedFinding
  <2>2. TrimSpace(f.grade) \in {"", "E0", "E1", "E2", "E3"}
    BY <1>5 DEF TrimSpace
  <2>3. (IF f.verdict = "refuted" THEN "false_positive" ELSE "confirmed") \in Dispositions
    BY DEF Dispositions
  <2> QED
    BY <1>1, <2>1, <2>2, <2>3
<1>6. CASE lane = "verification"
  <2>1. /\ Finding(lane, f, index) = Event(TrimSpace(f.ref), verificationDisposition(f), "", index)
        /\ verificationDisposition(f) # "" /\ TrimSpace(f.ref) # ""
    BY <1>2, <1>6 DEF Finding, VerifiedFinding
  <2>2. TrimSpace(f.ref) \in Refs
    BY <2>1 DEF TrimSpace
  <2>3. verificationDisposition(f) \in Dispositions
    BY <2>1 DEF verificationDisposition, Dispositions
  <2> QED
    BY <1>1, <2>1, <2>2, <2>3
<1> QED
  BY <1>4, <1>5, <1>6 DEF Lanes

LEMMA ReportSound ==
  ASSUME SkillsInv, artifact # NoArtifact, NEW date, NEW index \in Indexes,
         NEW e \in Convert(Report(date), index).Events
  PROVE  e.n \in Nat /\ e.item \in Item
<1> DEFINE report == Report(date)
           output == jobs[artifact.job].output
<1>1. /\ output.schema \in Lanes /\ output \in Documents
      /\ artifact.job \in Nat
  <2>1. artifact.skill \in SkillNames /\ artifact.job \in DOMAIN jobs /\ jobs \in Seq(JobType)
    BY DEF SkillsInv, SkillsTypeOK, JobType
  <2> HIDE DEF JobType
  <2>2. artifact.job \in Nat /\ jobs[artifact.job] \in JobType
    BY <2>1
  <2>3. output \in Documents \cup {[schema |-> ""]}
    BY <2>2 DEF JobType
  <2>4. output.schema \in Lanes
    BY <2>1, LaneAssumption DEF SkillsInv, JobsKeepTheirSkill
  <2>5. output # [schema |-> ""]
    <3>1. [schema |-> ""].schema = ""
      OBVIOUS
    <3> QED
      BY <2>4, <3>1 DEF Lanes
  <2> QED
    BY <2>2, <2>3, <2>4, <2>5
<1>2. report.lane = output.schema /\ report.findings = output.findings /\ report.source = artifact.job
  BY DEF Report
<1> HIDE DEF report, output
<1>3. PICK p \in Pile(report, index, "Events") :
        e = [n |-> p.n,
             item |-> [ref |-> p.item.ref, disposition |-> p.item.disposition,
                       grade |-> p.item.grade, fingerprint |-> p.item.fingerprint,
                       lane |-> report.lane, source |-> report.source,
                       occurredAt |-> eventOccurredAt(report.date, "instant")]]
  BY DEF Convert, report
<1>4. PICK i \in DOMAIN report.findings :
        LET fate == Finding(report.lane, report.findings[i], index)
        IN  fate.to = "Events" /\ p = [n |-> i, item |-> fate.item]
  BY InPile
<1>5. /\ i \in Nat
      /\ report.findings[i].verdict \in Verdicts[report.lane]
      /\ report.findings[i].ref \in Refs \cup {"", " "}
      /\ report.lane = "validation" => report.findings[i].grade \in {"", "E0", "E1", "E2", "E3"}
  BY <1>1, <1>2, DocumentAssumption
<1>6. index \subseteq Refs
  BY IndexAssumption
<1>7. Sound(p.item) /\ p.n = i
  BY <1>1, <1>2, <1>4, <1>5, <1>6, FindingSound
<1>8. eventOccurredAt(report.date, "instant") \in {"instant", "midnight"}
  BY DEF eventOccurredAt
<1>9. report.lane \in Lanes /\ report.source \in Nat
  BY <1>1, <1>2
<1> QED
  BY <1>3, <1>5, <1>7, <1>8, <1>9 DEF Item, Sound

-----------------------------------------------------------------------------

TypeInv ==
  /\ calls \in 0 .. MaxCalls
  /\ \A l \in LayerIDs : \A e \in layers[l].events : e.place \in Nat /\ e.item \in Item
  /\ \A l \in LayerIDs : Entries(l) # {} => l \in Existing
  /\ \A q \in wire : Brings(q) => \A e \in q.body.Events : e.n \in Nat /\ e.item \in Item
  /\ \A q \in wire : q # NoCall /\ (q.op = "stamp" => q.body \subseteq Refs)
  /\ \A r \in replies : \E c \in Consumers : call[c] # NoCall /\ call[c].n = r.n
  /\ \A r1, r2 \in replies : r1.n = r2.n => r1 = r2

LEMMA StampedSound ==
  ASSUME NEW e, NEW d, NEW fingerprints, EventShape(e), e.place \in Nat /\ e.item \in Item,
         fingerprints \subseteq Refs, d = Stamped(e, fingerprints)
  PROVE  d.place \in Nat /\ d.item \in Item
<1>1. CASE d = e
  BY <1>1
<1>2. CASE e.item.ref \in fingerprints /\ d = [e EXCEPT !.item.fingerprint = e.item.ref]
  <2>1. d = [n |-> e.n, place |-> e.place,
             item |-> [ref |-> e.item.ref, disposition |-> e.item.disposition,
                       grade |-> e.item.grade, fingerprint |-> e.item.ref,
                       lane |-> e.item.lane, source |-> e.item.source,
                       occurredAt |-> e.item.occurredAt]]
    BY <1>2 DEF EventShape, ItemShape
  <2>2. d.place = e.place /\ d.item.ref = e.item.ref /\ d.item.fingerprint = e.item.ref
        /\ d.item.disposition = e.item.disposition /\ d.item.grade = e.item.grade
        /\ d.item.lane = e.item.lane /\ d.item.source = e.item.source
        /\ d.item.occurredAt = e.item.occurredAt /\ ItemShape(d.item)
    BY <2>1 DEF ItemShape
  <2>3. e.item.ref \in Refs
    BY <1>2
  <2>4. ASSUME NEW i, ItemShape(i), i.ref \in Refs, i.fingerprint = i.ref,
               i.disposition = e.item.disposition, i.grade = e.item.grade,
               i.lane = e.item.lane, i.source = e.item.source,
               i.occurredAt = e.item.occurredAt
        PROVE  i \in Item
    <3>1. /\ i.lane \in Lanes /\ i.source \in Nat /\ i.grade \in {"", "E0", "E1", "E2", "E3"}
          /\ i.occurredAt \in {"instant", "midnight"} /\ i.disposition \in Dispositions
      BY <2>4 DEF Item
    <3> QED
      BY <2>4, <3>1 DEF Item, ItemShape
  <2> QED
    BY <2>2, <2>3, <2>4
<1> QED
  BY <1>1, <1>2 DEF Stamped

LEMMA ServedTypes ==
  ASSUME IInv, SInv, TypeInv, NEW q \in wire, Serve(q)
  PROVE  TypeInv'
<1> DEFINE Sounds == \A l \in LayerIDs : \A e \in layers'[l].events : e.place \in Nat /\ e.item \in Item
           Exists == \A l \in LayerIDs : Entries(l)' # {} => l \in Existing'
<1>1. PICK x : layers' = x.layers /\ Replied(q, x.status) /\ CameOf(q, x)
  BY ServeCases
<1>2. wire' = wire \ {q} /\ call' = call /\ calls' = calls
  BY DEF Serve
<1>3. /\ LayersInv /\ QueuesInv
      /\ \A l \in LayerIDs : \A e \in layers[l].events : e.place \in Nat /\ e.item \in Item
      /\ \A l \in LayerIDs : Entries(l) # {} => l \in Existing
      /\ q.op \in {"initialize", "stamp", "resolve"} => q.layer \in LayerIDs
      /\ q.op = "stamp" => q.body \subseteq Refs
      /\ Brings(q) => /\ q.layer \in LayerIDs /\ Absent(q)
                      /\ \A e \in q.body.Events : e.n \in Nat /\ e.item \in Item
  BY DEF IInv, SInv, SubmissionInv, FindInv, TypeInv
<1>4. Existing \subseteq Existing'
  BY <1>1, ServeContent
<1>5. ASSUME \A l \in LayerIDs : Keeps(l)
      PROVE  Exists
  <2>1. \A l \in LayerIDs : \A y \in Entries(l)' : \E z \in Entries(l) : y.n = z.n
    BY <1>5, KeptContent
  <2> QED
    BY <1>3, <1>4, <2>1
<1>6. Sounds /\ Exists
  <2>1. CASE layers' = layers
    <3>1. Existing' = Existing /\ \A l : Entries(l)' = Entries(l)
      BY <2>1, SameLayers
    <3> QED
      BY <1>3, <2>1, <3>1
  <2>2. CASE q.op = "initialize" /\ layers' = InitialisedLayers(q)
    <3>1. /\ \A l \in LayerIDs : Keeps(l)
          /\ \A l \in LayerIDs : layers'[l].events = layers[l].events
      BY <1>3, <2>2, InitialisedKeeps DEF InitialisedLayers
    <3> QED
      BY <1>3, <1>5, <3>1
  <2>3. CASE Brings(q) /\ q.layer \in Existing /\ layers' = Accepted(q)
    <3>1. /\ Becomes(q.layer, layers[q.layer].exists, layers[q.layer].events \cup Entered(q),
                     layers[q.layer].queue \cup Queued(q))
          /\ \A l \in LayerIDs : \A y \in Entries(l)' :
               y \in Entries(l) \/ (y.n = q.n /\ l = q.layer)
      BY <1>3, <2>3, AcceptedContent
    <3>2. Exists
      BY <1>3, <1>4, <2>3, <3>1
    <3>3. \A l \in LayerIDs : \A e \in layers'[l].events :
            \/ e \in layers[l].events
            \/ \E d \in q.body.Events : e = [n |-> q.n, place |-> d.n, item |-> d.item]
      <4>1. \A l \in LayerIDs : layers'[l].events \subseteq layers[l].events \cup Entered(q)
        BY <3>1 DEF Becomes
      <4> QED
        BY <4>1 DEF Entered
    <3>4. Sounds
      BY <1>3, <2>3, <3>3
    <3> QED
      BY <3>2, <3>4
  <2>4. CASE q.op = "stamp" /\ layers' = StampedLayers(q)
    <3>1. /\ \A l \in LayerIDs : Keeps(l)
          /\ \A l \in LayerIDs : \A d \in layers'[l].events :
               d \in layers[l].events \/ \E e \in layers[l].events : d = Stamped(e, q.body)
      BY <1>3, <2>4, StampedKeeps DEF StampedLayers
    <3>2. \A l \in LayerIDs : \A e \in layers[l].events : EventShape(e)
      BY <1>3 DEF LayersInv
    <3>3. Sounds
      BY <1>3, <2>4, <3>1, <3>2, StampedSound
    <3> QED
      BY <1>5, <3>1, <3>3
  <2>5. CASE q.op = "resolve" /\ layers' = ResolvedLayers(q)
    <3>1. /\ \A l \in LayerIDs : Keeps(l)
          /\ \A l \in LayerIDs : layers'[l].events = layers[l].events
      BY <1>3, <2>5, ResolvedKeeps DEF ResolvedLayers
    <3> QED
      BY <1>3, <1>5, <3>1
  <2> QED
    BY <1>1, <2>1, <2>2, <2>3, <2>4, <2>5, Causes
<1>7. \A p \in wire' : /\ Brings(p) => \A e \in p.body.Events : e.n \in Nat /\ e.item \in Item
                       /\ p # NoCall /\ (p.op = "stamp" => p.body \subseteq Refs)
  BY <1>2 DEF TypeInv
<1>8. ASSUME NEW r \in replies'
      PROVE  \E c \in Consumers : call[c] # NoCall /\ call[c].n = r.n
  <2>1. CASE r \in replies
    BY <2>1 DEF TypeInv
  <2>2. CASE r \notin replies
    <3>1. Awaited(q) /\ r.n = q.n
      BY <1>1, <2>2 DEF Replied
    <3>2. PICK c \in Consumers : call[c] = q
      BY <3>1 DEF Awaited
    <3>3. q # NoCall
      BY DEF TypeInv
    <3> QED
      BY <3>1, <3>2, <3>3
  <2> QED
    BY <2>1, <2>2
<1>9. calls \in 0 .. MaxCalls
  BY DEF TypeInv
<1>10. \A r1, r2 \in replies' : r1.n = r2.n => r1 = r2
  <2>1. \A r \in replies : r.n # q.n
    BY DEF SInv, SubmissionInv, Known
  <2> DEFINE new == [n |-> q.n, status |-> x.status, found |-> Existing]
  <2>2. \A r \in replies' : r \in replies \/ r = new
    BY <1>1 DEF Replied
  <2>3. new.n = q.n
    OBVIOUS
  <2> HIDE DEF new
  <2> QED
    BY <2>1, <2>2, <2>3 DEF TypeInv
<1> HIDE DEF Sounds, Exists
<1> QED
  BY <1>2, <1>6, <1>7, <1>8, <1>9, <1>10
  DEF TypeInv, Sounds, Exists, Brings, Item, Dispositions, NoCall

\* A step that leaves the layers alone.
LEMMA OtherTypes ==
  ASSUME TypeInv, layers' = layers, calls' \in 0 .. MaxCalls,
         \A q \in wire' : q \in wire \/
           /\ q # NoCall
           /\ Brings(q) => \A e \in q.body.Events : e.n \in Nat /\ e.item \in Item
           /\ q.op = "stamp" => q.body \subseteq Refs,
         replies' \subseteq replies,
         \A r \in replies' : \E c \in Consumers : call'[c] # NoCall /\ call'[c].n = r.n
  PROVE  TypeInv'
<1>1. /\ \A l : Entries(l)' = Entries(l)
      /\ Existing' = Existing
  BY SameLayers
<1>2. /\ \A l \in LayerIDs : \A e \in layers[l].events : e.place \in Nat /\ e.item \in Item
      /\ \A l \in LayerIDs : Entries(l) # {} => l \in Existing
      /\ \A r1, r2 \in replies' : r1.n = r2.n => r1 = r2
  BY DEF TypeInv
<1>3. \A q \in wire' :
        /\ Brings(q) => \A e \in q.body.Events : e.n \in Nat /\ e.item \in Item
        /\ q # NoCall /\ (q.op = "stamp" => q.body \subseteq Refs)
  BY DEF TypeInv
<1> QED
  BY <1>1, <1>2, <1>3 DEF TypeInv, Brings, Item, Dispositions, NoCall

LEMMA FreshTypes ==
  ASSUME SInv, TypeInv, NEW c \in Consumers, Begin(c), NEW op, NEW layer, NEW body,
         \/ post(c, Request(op, layer, body))
         \/ \E phase : Refuse(c, Request(op, layer, body), phase),
         op \in {"report", "batch"} => \A e \in body.Events : e.n \in Nat /\ e.item \in Item,
         op = "stamp" => body \subseteq Refs
  PROVE  TypeInv'
<1>1. PICK q : q = Request(op, layer, body)
  OBVIOUS
<1>2. q.op = op /\ q.body = body /\ q # NoCall
  BY <1>1 DEF Request, NoCall
<1>3. /\ layers' = layers /\ replies' = replies /\ wire' \subseteq wire \cup {q}
      /\ call' = [call EXCEPT ![c] = q] \/ call' = call
  BY <1>1 DEF post, Refuse
<1>4. calls' \in 0 .. MaxCalls
  BY OperationAssumption DEF Begin, SInv, NumberInv
<1>5. \A q1 \in wire' : q1 \in wire \/
           /\ q1 # NoCall
           /\ Brings(q1) => \A e \in q1.body.Events : e.n \in Nat /\ e.item \in Item
           /\ q1.op = "stamp" => q1.body \subseteq Refs
  BY <1>2, <1>3 DEF Brings
<1>6. ASSUME NEW r \in replies'
      PROVE  \E d \in Consumers : call'[d] # NoCall /\ call'[d].n = r.n
  <2>1. PICK d \in Consumers : call[d] # NoCall /\ call[d].n = r.n
    BY <1>3 DEF TypeInv
  <2>2. d # c
    BY <2>1 DEF Begin
  <2>3. call'[d] = call[d]
    BY <1>3, <2>2 DEF SInv, AnswersInv
  <2> QED
    BY <2>1, <2>3
<1> QED
  BY <1>3, <1>4, <1>5, <1>6, OtherTypes

LEMMA EndTypes ==
  ASSUME SInv, TypeInv, NEW c \in Consumers, call' = [call EXCEPT ![c] = NoCall],
         UNCHANGED <<layers, wire, calls>>, replies' \subseteq replies,
         \A r \in replies' : r.n # call[c].n
  PROVE  TypeInv'
<1>1. ASSUME NEW r \in replies'
      PROVE  \E d \in Consumers : call'[d] # NoCall /\ call'[d].n = r.n
  <2>1. PICK d \in Consumers : call[d] # NoCall /\ call[d].n = r.n
    BY DEF TypeInv
  <2>2. d # c
    BY <2>1
  <2>3. call'[d] = call[d]
    BY <2>2 DEF SInv, AnswersInv
  <2> QED
    BY <2>1, <2>3
<1>2. calls' \in 0 .. MaxCalls
  BY DEF TypeInv
<1> QED
  BY <1>1, <1>2, OtherTypes

LEMMA TypeStep == IInv /\ SInv /\ TypeInv /\ [Next]_vars => TypeInv'
<1> SUFFICES ASSUME IInv, SInv, TypeInv, [Next]_vars
             PROVE  TypeInv'
  OBVIOUS
<1>1. CASE UNCHANGED ledgerVars
  <2>1. UNCHANGED <<layers, wire, replies, call, calls>>
    BY <1>1 DEF ledgerVars
  <2>2. calls' \in 0 .. MaxCalls /\ \A r \in replies' : \E c \in Consumers : call'[c] # NoCall /\ call'[c].n = r.n
    BY <2>1 DEF TypeInv
  <2> QED
    BY <2>1, <2>2, OtherTypes
<1>2. CASE Submit
  <2>1. PICK c \in Consumers, layer \in LayerIDs, index \in Indexes, date \in {"day", "instant"} :
          \/ SubmitReport(c, layer, Report(date), index)
          \/ BatchSubmit(c, layer, Report(date), index)
    BY <1>2 DEF Submit
  <2> DEFINE converted == Convert(Report(date), index)
             body == BatchSubmitInput(Report(date), converted)
  <2>2. body.Events = converted.Events
    BY DEF BatchSubmitInput
  <2>3. \A e \in converted.Events : e.n \in Nat /\ e.item \in Item
    BY <1>2, ReportSound DEF IInv, Submit
  <2>4. \E op \in {"report", "batch"} :
          /\ Begin(c)
          /\ \/ post(c, Request(op, layer, body))
             \/ \E phase : Refuse(c, Request(op, layer, body), phase)
    BY <2>1 DEF SubmitReport, BatchSubmit
  <2> HIDE DEF body, converted
  <2>5. PICK op \in {"report", "batch"} :
          /\ Begin(c)
          /\ \/ post(c, Request(op, layer, body))
             \/ \E phase : Refuse(c, Request(op, layer, body), phase)
    BY <2>4
  <2>6. op # "stamp" /\ \A e \in body.Events : e.n \in Nat /\ e.item \in Item
    BY <2>2, <2>3
  <2>7. PICK b : b = body
    OBVIOUS
  <2> QED
    BY <2>5, <2>6, <2>7, FreshTypes
<1>3. CASE OtherCalls
  <2>1. ASSUME NEW c \in Consumers, NEW op, NEW layer, NEW body, Begin(c),
               \/ post(c, Request(op, layer, body))
               \/ \E phase : Refuse(c, Request(op, layer, body), phase),
               op \notin {"report", "batch"}, op = "stamp" => body \subseteq Refs
        PROVE  TypeInv'
    BY <2>1, FreshTypes
  <2>2. PICK c \in Consumers :
        \/ FindLayer(c)
        \/ \E filters \in SUBSET Filters : ListLayers(c, filters)
        \/ \E layer \in LayerIDs :
             \/ InitializeLayer(c, layer)
             \/ \E fingerprints \in Indexes : StampEventIdentities(c, layer, fingerprints)
             \/ \E r \in layers[layer].queue : ResolveReviewItem(c, layer, r.item)
             \/ \E op \in OtherOps : Ask(c, op, layer)
    BY <1>3 DEF OtherCalls
  <2>3. CASE FindLayer(c)
    <3>1. Begin(c) /\ post(c, Request("find", "", {}))
      BY <2>3 DEF FindLayer
    <3>2. "find" \notin {"report", "batch", "stamp"}
      OBVIOUS
    <3> QED
      BY <2>1, <3>1, <3>2
  <2>4. CASE \E filters \in SUBSET Filters : ListLayers(c, filters)
    <3>1. PICK filters \in SUBSET Filters : ListLayers(c, filters)
      BY <2>4
    <3>2. /\ Begin(c)
          /\ \/ post(c, Request("list", "", filters))
             \/ \E phase : Refuse(c, Request("list", "", filters), phase)
      BY <3>1 DEF ListLayers
    <3>3. "list" \notin {"report", "batch", "stamp"}
      OBVIOUS
    <3> QED
      BY <2>1, <3>2, <3>3
  <2>5. CASE \E layer \in LayerIDs : InitializeLayer(c, layer)
    BY <2>1, <2>5 DEF InitializeLayer
  <2>6. CASE \E layer \in LayerIDs, fingerprints \in Indexes : StampEventIdentities(c, layer, fingerprints)
    BY <2>1, <2>6, IndexAssumption DEF StampEventIdentities
  <2>7. CASE \E layer \in LayerIDs : \E r \in layers[layer].queue : ResolveReviewItem(c, layer, r.item)
    BY <2>1, <2>7 DEF ResolveReviewItem
  <2>8. CASE \E layer \in LayerIDs, op \in OtherOps : Ask(c, op, layer)
    BY <2>1, <2>8, OperationAssumption DEF Ask
  <2> QED
    BY <2>2, <2>3, <2>4, <2>5, <2>6, <2>7, <2>8
<1>4. CASE \E q \in wire : Serve(q)
  BY <1>4, ServedTypes
<1>5. ASSUME NEW c \in Consumers, NEW reply \in replies, Receive(c, reply)
      PROVE  TypeInv'
  <2>1. \A r \in replies' : r.n # call[c].n
    BY <1>5 DEF Receive, TypeInv
  <2> QED
    BY <1>5, <2>1, EndTypes DEF Receive
<1>6. ASSUME NEW c \in Consumers, Fail(c)
      PROVE  TypeInv'
  <2>1. \A r \in replies' : r \in replies /\ r.n # call[c].n
    BY <1>6 DEF Fail
  <2> QED
    BY <1>6, <2>1, EndTypes DEF Fail
<1> QED
  BY <1>1, <1>2, <1>3, <1>4, <1>5, <1>6 DEF Next, LedgerNext, vars

\* Jobs, calls and layers keep their shapes, and every reply has a call waiting.
THEOREM TypeCorrect == Spec => []TypeOK
<1>1. Init => TypeInv
  <2> SUFFICES ASSUME Init PROVE TypeInv
    OBVIOUS
  <2>1. /\ \A l \in LayerIDs : layers[l].events = {} /\ layers[l].queue = {}
        /\ wire = {} /\ replies = {} /\ calls = 0
    BY DEF Init, LedgerInit, NoLayer
  <2>2. calls \in 0 .. MaxCalls
    BY <2>1, OperationAssumption
  <2> QED
    BY <2>1, <2>2 DEF TypeInv, Entries
<1>2. ASSUME IInv, SInv, TypeInv
      PROVE  TypeOK
  <2>1. SkillsTypeOK
    BY <1>2 DEF IInv, SkillsInv
  <2>2. ASSUME NEW l \in LayerIDs, NEW e \in layers[l].events
        PROVE  e \in LayerEvent
    <3>1. EventShape(e) /\ e.place \in Nat /\ e.item \in Item
      BY <1>2 DEF IInv, LayersInv, TypeInv
    <3>2. e.n \in 1 .. MaxCalls
      <4>1. e.n \in 1 .. calls
        BY <1>2 DEF SInv, NumberInv, Entries
      <4>2. calls \in 0 .. MaxCalls
        BY <1>2 DEF TypeInv
      <4> QED
        BY <4>1, <4>2, OperationAssumption
    <3>3. e = [n |-> e.n, place |-> e.place, item |-> e.item]
      BY <3>1 DEF EventShape
    <3> QED
      BY <3>1, <3>2, <3>3, LayerEventIs
  <2>3. /\ \A l \in LayerIDs : Entries(l) # {} => layers[l].exists
        /\ calls \in 0 .. MaxCalls
        /\ \A r \in replies : \E c \in Consumers : call[c] # NoCall /\ call[c].n = r.n
    BY <1>2 DEF TypeInv, Existing
  <2>4. /\ \A q \in wire : q.n <= calls
        /\ \A c \in Consumers : call[c] = NoCall \/ call[c].n <= calls
    <3>1. \A q \in Known : q.n <= calls
      BY <1>2 DEF SInv, NumberInv
    <3> QED
      BY <3>1 DEF Known
  <2> QED
    BY <2>1, <2>2, <2>3, <2>4 DEF TypeOK, LedgerTypeOK, Entries
<1>3. IInv /\ SInv /\ TypeInv /\ [Next]_vars => IInv' /\ SInv' /\ TypeInv'
  BY InductiveStep, SubmissionStep, TypeStep
<1>4. Init => IInv /\ SInv
  BY InitInv, SubmissionInit
<1> QED
  BY <1>1, <1>2, <1>3, <1>4, PTL DEF Spec
=============================================================================
