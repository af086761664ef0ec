CONSTANTS
    h1 = h1
    h2 = h2
    l1 = l1
    l2 = l2
    s1 = s1
    Hosts <- MCHosts
    Logs <- TwoLogs
    ShellLogs = {}
    HostOf <- HostOfTwo
    WebHost = h1
    Batch = 1
    MaxClock = 2
    MaxRequests = 1
    MaxFaults = 1
    MaxCrashes = 0
    FaultyThreads = {"analyzer", "web"}
    NoLog = NoLog
    NoHost = NoHost
SPECIFICATION FairSpec
INVARIANTS
    WebOkDurable
PROPERTIES
    EveryOperationEnds
    AckedIsCounted
