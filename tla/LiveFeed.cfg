SPECIFICATION FeedSpec
CONSTANTS
  o1 = o1
  o2 = o2
  Owners = {o1, o2}
  Requests = {1}
  MaxOwners = 2
  MaxTasks = 1
  RevisionModulus = 100
  MaxGeneration = 2
  NotesCapacity = 1
  CommandQueue = 10
  Conditions <- InOrderOrRacing
  MaxBegins = 2
INVARIANTS
  NoOrphanSubscription
  SettledScreenIsCurrent
PROPERTY BindingsEndByOwnCommand
CHECK_DEADLOCK FALSE
