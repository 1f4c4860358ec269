CONSTANTS
    Fixed = {0, 1, 2, 3, 4, 5}
    Window = {9, 10}
    Banks = {1, 2}
    NoBank = 0
    BankOrder <- InOrder
    RowLimit = 3
    Roms <- Programs
    MaxCandidates = 12
    ScanLimit = 2
    EmitLimit = 5
    PerShard = 2
    UserWords = 1
    SuperWords = 4
    None = None
SPECIFICATION ProgramSpec
INVARIANTS OnlyComputedMiss ShardsAgree
PROPERTY FollowsProgram
CHECK_DEADLOCK FALSE
