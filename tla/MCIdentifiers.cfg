\* The identifiers of the tests of the grammar, as statements.
SPECIFICATION Spec
CONSTANTS
    Palettes <- MCTestNames
    MaxInt = 7
    Unit = 2
    Top = 24
    Floats <- MCFloats
    Printable <- MCPrintable
INVARIANT ValidIdentifiersAreStatements
CHECK_DEADLOCK FALSE
