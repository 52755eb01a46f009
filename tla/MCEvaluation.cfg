\* Every value that expressions of any size over a few literals and names have.
SPECIFICATION Spec
CONSTANTS
    MaxInt = 7
    Unit = 2
    Top = 24
    Floats <- MCFloats
    Leaves <- MCLeaves
    MaxOpen = 3
    MaxText = 1
INVARIANTS ResultsHaveTheirType OrderHasNoCycle LogicIsDual
