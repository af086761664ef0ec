CONSTANTS
    Sessions <- MCSessions
    Requests <- MCRequests
    Selections <- MCSelections
    MaxRows = 3
    NumberOfNeighbours = 2
    MaxCommands = 2
CHECK_DEADLOCK FALSE
SPECIFICATION FairSpec
INVARIANTS
    NearestKept
    ReportedOnce
    AllClassified
    MarksHold
PROPERTIES
    AnalysisEnds
