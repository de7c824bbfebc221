\* From skills to the ledger.
CONSTANTS
  c1 = c1  c2 = c2  l1 = l1  l2 = l2
  Consumers = {c1, c2}
  LayerIDs = {l1, l2}
  Refs = {"f1", "f2"}
  Indexes = {{"f1"}, {"f1", "f2"}}
  SkillNames = {"triage", "rescore", "validate", "verify"}
  OutputSchema <- MCOutputSchema
  Documents <- MCDocuments
  Filters <- MCFilters
  OtherOps = {"sign"}
  MaxJobs = 1
  MaxCalls = 2
SPECIFICATION Spec
ACTION_CONSTRAINT SkillsFirst
SYMMETRY Symmetric
CHECK_DEADLOCK FALSE
INVARIANTS
  TypeOK
  JobsKeepTheirSkill
  EventsAreEarned
  AnswersAreTrue
  OwnLayerIsFound
