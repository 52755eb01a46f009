CONSTANTS
    Addr = {a1, a2, a3, a4, a5}
    Globals = Globals
    None = None
    Plain = Plain
    Builtin = Builtin
    This = this
    foo = foo
    bar = bar
    Names <- MCNamesOfObjects
    OwnNames = {foo}
    Builtins = {print}
    Signatures <- NoParameters
    ClassBodies <- MCClassOfObjects
    NodeKinds = {"ExpressionStatement", "Class", "Call", "Identifier", "Get", "Set", "Assignment"}
    MaxFrames = 5
    MaxArgs = 0
    MaxStale = 0
    Retries = FALSE
SPECIFICATION Spec
INVARIANTS MethodsSeeTheirInstance ReportedNamesAreUndeclared OnlyKnotsLeak
