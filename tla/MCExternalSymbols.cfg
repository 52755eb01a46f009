\* Three tables, never two of the same on the stack.
SPECIFICATION FairSpec
CONSTANTS
    Tables = {t1, t2, t3}
    Globals = Globals
    None = None
    Names = {x}
    Repeats = FALSE
    MaxDepth = 3
INVARIANTS TypeOK PoppedIsInvisible
PROPERTIES ImplementsScopeStack LookupsClimb LookupEnds
