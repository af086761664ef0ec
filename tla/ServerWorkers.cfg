CONSTANTS
    MaxReports = 2
    MaxAsks = 2
    MaxStops = 1
SPECIFICATION FairSpec
INVARIANTS
    ReportsAccounted
    CleanExit
PROPERTIES
    ReportsMailed
    RequestServed
    StopEndsServer
