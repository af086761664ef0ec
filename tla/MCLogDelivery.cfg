CONSTANTS
    a1 = a1
    a2 = a2
    b1 = b1
    Entries <- MCEntries
    SourceOf <- MCSourceOf
    MaxSignals = 0
    NoEntry = NoEntry
SYMMETRY Symmetry
SPECIFICATION DeliverySpec
INVARIANTS
    CalledOnce
    LossesKnown
PROPERTY CallsInOrder
