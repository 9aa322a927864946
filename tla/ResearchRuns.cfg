SPECIFICATION FairSpec
CONSTANTS
  Ids = {1, 2, 3}
  MaxJobs = 2
  MaxRunning = 2
  MaxOutput = 1
  Channel = 2
  MaxInputs = 4
  Threads <- MCThreads
INVARIANTS
  OneRunPerThread
  AnswerNotLost
PROPERTIES
  RunningKeptInOrder
  CancelEnds
  ShutdownEnds
CHECK_DEADLOCK FALSE
