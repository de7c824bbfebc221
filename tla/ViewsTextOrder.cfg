CONSTANTS
  None = None
  audit = audit  corrected = corrected  reaudit = reaudit  disposed = disposed
  model = model  remodel = remodel
  analysis = analysis  moved = moved  reanalysis = reanalysis
  registry = registry  shrunk = shrunk  foreign = foreign
  readiness = readiness  policy = policy
  s1 = s1  s2 = s2  f1 = f1  cve1 = cve1  cve2 = cve2
  Digests = {audit, corrected, reaudit, disposed, model, remodel, analysis, moved,
             reanalysis, registry, shrunk, foreign, readiness, policy}
  Contexts <- MCContexts
  ProductRepos = {}
  Commits = {}
  References = {}
  Candidates <- MCCandidates
  Instants = {0, 10, 11}
  Rank <- MCRank
  Document <- MCDocument
  Subjects = {s1, s2}
  Findings = {f1}
  Advisories = {cve1, cve2}
  Dialect = "sqlite"
  MaxEntries = 4
SPECIFICATION Spec
CHECK_DEADLOCK FALSE
INVARIANTS
  MostRecentlyBoundWins
