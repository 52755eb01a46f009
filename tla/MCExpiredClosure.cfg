CONSTANTS
    Addr = {a1, a2, a3, a4}
    Globals = Globals
    None = None
    Plain = Plain
    Builtin = Builtin
    This = this
    foo = foo
    bar = bar
    Names <- MCNames
    OwnNames = {foo}
    Builtins = {print}
    Signatures <- NoParameters
    ClassBodies <- MCClassBodies
    NodeKinds = {"ExpressionStatement", "Call", "Identifier", "Function", "Block", "Return"}
    MaxFrames = 7
    MaxArgs = 0
    MaxStale = 0
    Retries = FALSE
SPECIFICATION Spec
INVARIANTS ReportedNamesAreUndeclared
