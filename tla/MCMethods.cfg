CONSTANTS
    Addr = {a1, a2, a3, a4, a5}
    Globals = Globals
    None = None
    Plain = Plain
    Builtin = Builtin
    This = this
    foo = foo
    bar = bar
    Names <- MCNames
    OwnNames = {foo}
    Builtins = {}
    Signatures <- OneParameter
    ClassBodies <- MCClassBodies
    NodeKinds = {"ExpressionStatement", "Class", "Call", "Return", "AnonymousMethod", "Identifier", "BinaryOp"}
    MaxFrames = 6
    MaxArgs = 1
    MaxStale = 0
    Retries = FALSE
SPECIFICATION Spec
INVARIANTS ScopesRestored ScopesIntact MethodsSeeTheirInstance ReportedNamesAreUndeclared
PROPERTY KeepsCallDiscipline
