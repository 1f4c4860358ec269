CONSTANTS
    Words <- AllWords
    Rooms = {2, 10}
    Lists <- SomeLists
SPECIFICATION Spec
INVARIANTS OpcodeMap AcceptedIffKnown WordsReadOnce SlipsRefused OperandsExact TimesExact
CHECK_DEADLOCK FALSE
