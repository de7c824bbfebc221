\* Overlapping loaders on either database, lost replies included.
SPECIFICATION Spec
CONSTANTS
  Loaders = {p1, p2}
  Ids = {i1, i2, i3, i4}
  Slugs <- MCSlugs
  Urls <- MCUrls
  Refs <- MCRefs
  Versions <- MCVersions
  Teams <- MCTeams
  Attributes <- MCAttributes
  Empty = Empty
  Garbled = Garbled
  None = None
  slug = slug
  url = url
  release = release
  team = team
  value = value
INVARIANTS
  TypeOK
  ReadBackFinds
  FoundByName
PROPERTIES
  IdentifiersAreStable
  EveryCallReturns
CHECK_DEADLOCK FALSE
