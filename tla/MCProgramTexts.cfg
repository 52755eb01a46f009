\* Every program of the palettes, read back from its text.
SPECIFICATION Spec
CONSTANTS
    Palettes <- MCPalettes
    MaxInt = 7
    Unit = 2
    Top = 24
    Floats <- MCFloats
    Printable <- MCPrintable
INVARIANTS
    TypeOK
    ReadsBack
    LayoutDoesNotMatter
    CutShortIsNoProgram
    DumpDeterminesProgram
CHECK_DEADLOCK FALSE
