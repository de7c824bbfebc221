\* Three programs of any two revisions, four statements, either database.
CONSTANTS
  a = a  b = b  c = c  r1 = r1  r2 = r2
  None = None
  Clients = {a, b, c}
  Revisions = {r1, r2}
  N = 4
  Meta = 2
SPECIFICATION Spec
INVARIANTS
  OneRevision
  AnswersStand
PROPERTIES
  RevisionStands
  EveryInitReturns
