SPECIFICATION Spec
CONSTANTS
    c1 = c1
    c2 = c2
    chain = chain
    search = search
    q1 = q1
    q2 = q2
    None = None
    MaxEntries = 2
    Clients = {c1, c2}
    Requests = {chain, search, q1, q2}
    Kind <- MCKind
    Setups <- MCSetups
INVARIANT SharedFlights
PROPERTY RequestsEnd
