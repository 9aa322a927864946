SPECIFICATION FairSpec
CONSTANTS
  Owners = {o1, o2, o3}
  Requests = {1, 2}
  MaxOwners = 2
  MaxTasks = 1
  RevisionModulus = 1
  MaxGeneration = 4
INVARIANTS
  OwnersAndEntriesAgree
  OnlyOwnFetchLands
  PublishedIsCurrent
PROPERTIES
  ServedInOrder
  StopCompletes
