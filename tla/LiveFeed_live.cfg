SPECIFICATION FairFeedSpec
CONSTANTS
  o1 = o1
  o2 = o2
  Owners = {o1}
  Requests = {1, 2}
  MaxOwners = 1
  MaxTasks = 1
  RevisionModulus = 100
  MaxGeneration = 2
  NotesCapacity = 1
  CommandQueue = 1
  Conditions <- InOrder
  MaxBegins = 2
INVARIANT WantedIsBound
PROPERTY ScreenIsFed
CHECK_DEADLOCK FALSE
