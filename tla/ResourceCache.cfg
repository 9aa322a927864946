SPECIFICATION FairSpec
CONSTANTS
  Callers = {c1, c2}
  Requests = {1, 2, 3}
  Unsupported = {2}
  FeatureLists = {3}
  Capacity = 1
  Permits = 1
  MaxFetches = 2
INVARIANTS
  SingleFlight
  OnlyDueIsFetched
PROPERTIES
  LastSuccessKept
  CallsReturn
