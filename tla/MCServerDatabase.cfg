CONSTANTS
    h1 = h1
    h2 = h2
    l1 = l1
    l2 = l2
    s1 = s1
    Hosts <- MCHosts
    Logs <- TwoLogs
    ShellLogs <- OneShell
    HostOf <- HostOfParts
    WebHost = h1
    Batch = 1
    MaxClock = 2
    MaxRequests = 0
    MaxFaults = 1
    MaxCrashes = 1
    FaultyThreads = {"dbus", "analyzer"}
    NoLog = NoLog
    NoHost = NoHost
SYMMETRY Symmetry
SPECIFICATION Spec
INVARIANTS
    AckedDurable
    CountedOnce
    NamesKnown
    NoSilentLoss
PROPERTIES
    SessionsCommittedWhole
    ImplementsLedger
