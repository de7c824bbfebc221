CONSTANTS
  None = None
  d1 = d1  d2 = d2  d3 = d3  p1 = p1  f1 = f1  f2 = f2  k1 = k1  k2 = k2
  Digests = {d1, d2, d3}
  ProductRepos = {p1}
  Commits = {}
  References = {f1, f2}
  Savers = {s1, s2}
  LockKeys = {k1, k2}
  Database = Database
  Contexts <- MCContexts
  Requests <- MCRequests
  LockKey <- MCLockKey
SPECIFICATION FairSpec
INVARIANTS
  TypeOK
  LinearHistory
  GroundedHistory
  OneCurrentCumulative
  WholeArtifacts
PROPERTIES
  SuccessIsTrue
  RefusalIsTrue
  AppendOnly
  ImplementsStore
  EveryCallReturns
