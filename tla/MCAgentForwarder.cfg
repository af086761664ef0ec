CONSTANTS
    a1 = a1
    b1 = b1
    Entries <- MCEntries
    SourceOf <- MCSourceOf
    MaxSignals = 1
    NoEntry = NoEntry
SPECIFICATION FairSpec
INVARIANTS
    EachEntryOnce
    StopDrainsTheList
PROPERTIES
    CommandsAreExecuted
    SignalEndsTheProcess
