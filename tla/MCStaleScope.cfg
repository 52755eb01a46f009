CONSTANTS
    Addr = {a1, a2, a3}
    Globals = Globals
    None = None
    Plain = Plain
    Builtin = Builtin
    This = this
    foo = foo
    bar = bar
    Names <- MCNames
    OwnNames = {foo}
    Builtins = {print}
    Signatures <- NoParameters
    ClassBodies <- MCClassBodies
    NodeKinds = {"ExpressionStatement", "Identifier", "Block"}
    MaxFrames = 6
    MaxArgs = 0
    MaxStale = 1
    Retries = TRUE
SPECIFICATION Spec
INVARIANTS ReportedNamesAreUndeclared
