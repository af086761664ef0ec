CONSTANTS
    a1 = a1
    a2 = a2
    Agents = {a1, a2}
    NoAgent = NoAgent
    Ids <- OneId
    Statistics <- TwoStatistics
    AgentOf <- AgentOfTwo
    UserOf <- UserOfTwo
    Has <- HasOfTwo
    Commands <- OneCommand
    Ranges <- AllStatistics
    MaxRows = 1
    MaxCommands = 3
    MaxAnalyses = 2
    MaxCrashes = 1
CHECK_DEADLOCK FALSE
SPECIFICATION Spec
INVARIANTS
    
    NoBlindRun
