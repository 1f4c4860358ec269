CONSTANTS
    Fixed = {0, 1, 2, 3, 4, 5, 6, 7, 8, 9}
    Window = {}
    Banks = {1}
    NoBank = 0
    BankOrder <- OneBank
    RowLimit = 3
    Roms <- StraightRun
    MaxCandidates = 12
    ScanLimit = 2
    EmitLimit = 3
    PerShard = 2
    UserWords = 1
    SuperWords = 4
    None = None
SPECIFICATION ProgramSpec
INVARIANTS LongBodiesContinue
CHECK_DEADLOCK FALSE
