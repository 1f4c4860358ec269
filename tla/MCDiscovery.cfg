CONSTANTS
    Fixed = {0, 1, 2, 3}
    Window = {7, 8}
    Banks = {1, 2}
    NoBank = 0
    BankOrder <- InOrder
    RowLimit = 3
    Roms <- SmallRoms
    MaxCandidates = 5
    ScanLimit = 2
    External = {20}
SPECIFICATION FairAuditSpec
INVARIANTS Closed NothingInvented AuditExact
PROPERTY Terminates
CHECK_DEADLOCK FALSE
