------------------------------- MODULE Skills -------------------------------
(***************************************************************************)
(* Invoking skills (skills/skill.go).  Run waits for its result; Dispatch   *)
(* returns a reference, which the caller keeps as long as it likes, and    *)
(* Collect turns it into an artifact, perhaps in another process.  Where   *)
(* and how a skill runs is the provider's: it may fail, may fail after it  *)
(* has started the job, and may return any bytes.                          *)
(***************************************************************************)
EXTENDS Naturals, Sequences

CONSTANTS
  SkillNames,
  OutputSchema,  \* OutputSchema[s]: the contract of what s returns
  Documents,     \* what a provider may return, each under the schema it conforms to
  MaxJobs        \* bound: jobs a provider is ever given

VARIABLES
  jobs,       \* the provider's jobs, in the order of their identifiers
  refs,       \* the references callers have kept
  executing,  \* jobs some Run is waiting for
  artifact    \* what the last call to succeed returned

skillVars == <<jobs, refs, executing, artifact>>

Job(s) == [skill |-> s, done |-> FALSE, output |-> [schema |-> ""]]
Started(s) == jobs' = Append(jobs, Job(s))
NextID == Len(jobs) + 1
NoArtifact == [job |-> 0]

SkillsInit == jobs = <<>> /\ refs = {} /\ executing = {} /\ artifact = NoArtifact

-----------------------------------------------------------------------------
(* Dispatch and Collect *)

\* The reference is the provider's; the SDK puts the name of the skill on it.
Dispatch(s) ==
  /\ Len(jobs) < MaxJobs
  /\ Started(s)
  /\ refs' = refs \cup {[ID |-> NextID, SkillName |-> s]}
  /\ UNCHANGED <<executing, artifact>>

\* The provider reports an error for a job it has started.
DispatchFails(s) ==
  /\ Len(jobs) < MaxJobs
  /\ Started(s)
  /\ UNCHANGED <<refs, executing, artifact>>

SkillNameAgrees_Always(ref, s) == TRUE

SkillNameAgrees(ref, s) == ref.SkillName # "" => ref.SkillName = s

\* types.ParseArtifact: the exact bytes, once they conform to the schema.
ParseArtifact(schema, output) == output.schema = schema

\* How a call came by its bytes stays on the artifact, for the properties.
Returned(s, id, under) ==
  /\ jobs[id].done
  /\ ParseArtifact(OutputSchema[s], jobs[id].output)
  /\ artifact' = [skill |-> s, job |-> id, SkillName |-> under]

\* A call that is refused or fails returns an error and changes nothing.
Collect(s, ref) ==
  /\ ref \in refs
  /\ SkillNameAgrees(ref, s)
  /\ Returned(s, ref.ID, ref.SkillName)
  /\ UNCHANGED <<jobs, refs, executing>>

-----------------------------------------------------------------------------
(* Run, through SyncAdapter: dispatch, then collect, on the provider itself *)

Execute(s) ==
  /\ Len(jobs) < MaxJobs
  /\ Started(s)
  /\ executing' = executing \cup {[skill |-> s, job |-> NextID]}
  /\ UNCHANGED <<refs, artifact>>

Run(e) ==
  /\ e \in executing
  /\ Returned(e.skill, e.job, e.skill)
  /\ executing' = executing \ {e}
  /\ UNCHANGED <<jobs, refs>>

RunFails(e) ==
  /\ e \in executing
  /\ jobs[e.job].done => ~ParseArtifact(OutputSchema[e.skill], jobs[e.job].output)
  /\ executing' = executing \ {e}
  /\ UNCHANGED <<jobs, refs, artifact>>

-----------------------------------------------------------------------------
(* The provider and the callers *)

Finish(id, document) ==
  /\ ~jobs[id].done
  /\ jobs' = [jobs EXCEPT ![id].done = TRUE, ![id].output = document]
  /\ UNCHANGED <<refs, executing, artifact>>

\* Of a reference, a caller may have stored the identifier alone.
Restore(ref) ==
  /\ ref.SkillName # ""
  /\ refs' = (refs \ {ref}) \cup {[ref EXCEPT !.SkillName = ""]}
  /\ UNCHANGED <<jobs, executing, artifact>>

SkillsNext ==
  \/ \E s \in SkillNames : Dispatch(s) \/ DispatchFails(s) \/ Execute(s)
  \/ \E s \in SkillNames, ref \in refs : Collect(s, ref)
  \/ \E e \in executing : Run(e) \/ RunFails(e)
  \/ \E id \in DOMAIN jobs, document \in Documents : Finish(id, document)
  \/ \E ref \in refs : Restore(ref)

-----------------------------------------------------------------------------

\* An artifact conforms to the schema of the skill it was asked of, and, as
\* long as its reference kept the name it was dispatched under, it is the
\* work of that very skill and not of another with the same output schema
\* (async_provider.go:47, "checked by Collect to prevent cross-skill misuse").
JobsKeepTheirSkill ==
  artifact # NoArtifact =>
    /\ jobs[artifact.job].output.schema = OutputSchema[artifact.skill]
    /\ artifact.SkillName # "" => jobs[artifact.job].skill = artifact.skill

SkillsTypeOK ==
  /\ jobs \in Seq([skill : SkillNames, done : BOOLEAN, output : Documents \cup {[schema |-> ""]}])
  /\ refs \subseteq [ID : DOMAIN jobs, SkillName : SkillNames \cup {""}]
  /\ executing \subseteq [skill : SkillNames, job : DOMAIN jobs]
  /\ artifact \in {NoArtifact}
       \cup [skill : SkillNames, job : DOMAIN jobs, SkillName : SkillNames \cup {""}]
=============================================================================
