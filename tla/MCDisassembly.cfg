SPECIFICATION SpecDis
CONSTANTS
    W = 1073741824
    NEntries = 1
    WordBits = 30
    HalfBits = 16
    ByteBits = 8
    ExitCode = 11387102
    Words <- MCWords
    MaxLines = 2
INVARIANTS NamesTellLegality
PROPERTIES SameLineSameInstruction
CHECK_DEADLOCK FALSE
