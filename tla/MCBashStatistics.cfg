CONSTANTS
    a1 = a1
    a2 = a2
    u1 = u1
    ls = ls
    vi = vi
    Agents = {a1, a2}
    Users = {u1}
    Commands = {ls, vi}
    NoCommand = NoCommand
    Entries <- MCEntries
    Offsets <- MCOffsets
    BufferSize = 2
    MaxDay = 2
    MaxAnalyses = 2
    MaxCrashes = 1
CHECK_DEADLOCK FALSE
SPECIFICATION Spec
INVARIANTS
    SystemRowsOnce
    UserRowsAccount
