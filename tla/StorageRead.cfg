\* Two callers of the read side on a pool of one connection.
CONSTANTS
  None = None
  d1 = d1  d2 = d2  r1 = r1  r2 = r2  c1 = c1  A = A  B = B
  Digests = {d1, d2}
  ProductRepos = {}
  Commits = {}
  References = {1, 2}
  Readers = {r1, r2}
  Resolvers = {r1}
  Connections = {c1}
  Clock = {1}
  Dialect = "postgres"
  Contexts <- MCContexts
  Requests <- MCRequests
  Calls <- MCCalls
  Selections <- MCSelections
  Size <- MCSize
SPECIFICATION Spec
INVARIANTS
  TypeOK
  MirrorIsFound
  MismatchIsReported
  SavedIsSeen
  ScopedRows
  PoolIsClean
PROPERTIES
  EveryReadReturns
