SPECIFICATION Spec
CONSTANTS
    None = None
    Callers = {c1, c2}
    Readers = {r1, r2}
    Queries <- MCQueries
    Sources <- MCSources
    Instruments = {1, 2, 3, 4, 5, 6}
    Volume <- MCVolume
    Unreadable = {6}
    Foreign = {4}
    PageSize = 2
    MaxRows = 3
    Concurrency = 1
    ScreenSize = 2
    MaxCommands = 2
INVARIANTS NothingOutlivesExit SnapshotsAreWhole
PROPERTY ExitEnds
CHECK_DEADLOCK FALSE
