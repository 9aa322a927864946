SPECIFICATION FeedSpec
CONSTANTS
  o1 = o1
  o2 = o2
  Owners = {o1}
  Requests = {1}
  MaxOwners = 1
  MaxTasks = 1
  RevisionModulus = 100
  MaxGeneration = 2
  NotesCapacity = 1
  CommandQueue = 10
  Conditions <- Overtaken
  MaxBegins = 2
INVARIANT WantedIsBound
CHECK_DEADLOCK FALSE
