CONSTANTS
    Addr = {a1, a2, a3}
    Globals = Globals
    None = None
    Plain = Plain
    Builtin = Builtin
    This = this
    foo = foo
    bar = bar
    Names <- MCNames
    OwnNames = {foo, this}
    Builtins = {}
    Signatures <- NoParameters
    ClassBodies <- MCClassBodies
    NodeKinds = {"ExpressionStatement", "Identifier", "Unary", "LogicOp", "Assignment", "If", "Loop", "VarDecl", "Block", "Return"}
    MaxFrames = 7
    MaxArgs = 0
    MaxStale = 0
    Retries = FALSE
SPECIFICATION Spec
INVARIANTS ValuesBalanced ReportedNamesAreUndeclared
