SPECIFICATION FairSpec
CONSTANTS
  Clients = {c1, c2}
  Keys = {k1}
  Trades <- MCTrades
  Imports <- MCImports
  Titles = {1}
  MaxTrades = 2
  MaxCorrections = 1
  MaxPortfolios = 1
  MaxCalls = 4
  MaxRestarts = 1
INVARIANTS
  HistoriesAreSound
PROPERTIES
  TakesEffectAtomically
  CallsReturn
  StoreCloses
CHECK_DEADLOCK FALSE
