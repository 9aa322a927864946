SPECIFICATION Spec
CONSTANTS
    None = None
    Main = "main"
    Blank = ""
    LegacyDesks = {"Moomoo Market Desk", "moomoo market desk"}
    NameKey <- MCNameKey
    DeskNames <- MCDeskNames
    LegacyPanels <- MCLegacyPanels
    MaxLists = 2
    MaxInstruments = 2
    MaxLayouts = 3
    MaxPresets = 2
    MaxDrawings = 1
    MaxHistory = 1
    SeedSymbol = "a"
    Symbols = {"a", "b"}
    PanelIds = {"chart", "watchlist"}
    Ranges = {"6M", "1Y"}
    Scenarios <- MCScenarios
    Messages <- MCMessages
    MaxTasks = 2
    QueueSize = 2
INVARIANTS HistoryIsSelected HandlesAreLive ShownIsSaved ShownIsSound
PROPERTIES ListsChangeBySaving ChartsChangeByCharting
CHECK_DEADLOCK FALSE
