CONSTANTS
    h1 = h1
    h2 = h2
    c1 = c1
    c2 = c2
    Hosts = {h1, h2}
    Clients = {c1, c2}
    NoHost = NoHost
    Kinds <- MCKinds
    SessionLength = 3
    Batch = 2
    MaxEntries = 4
    MaxAnalyses = 2
    MaxFaults = 1
CHECK_DEADLOCK FALSE
SPECIFICATION Spec
INVARIANTS
    EachEntryInOneSession
    SessionsAreOfOneClient
    SessionsAsDefined
