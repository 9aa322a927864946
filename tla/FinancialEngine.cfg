SPECIFICATION Spec
CONSTANTS
    prices = prices
    filing = filing
    a = a
    b = b
    c = c
    None = None
    Snapshots = {prices, filing}
    Prices = {prices}
    SeriesOf <- MCSeriesOf
    Plans <- MCPlans
    MaxCalls = 3
    CommandLine = 0
    Importers = {0, 1, 2, 3}
    MaxAdmitted = 2
    MaxWorkers = 1
    Buffered = 1
INVARIANTS
    IndexLoads
    ChildrenHeld
    InFlightIsPending
PROPERTY CallsEnd
