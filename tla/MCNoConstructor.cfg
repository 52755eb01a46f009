CONSTANTS
    Addr = {a1, a2, a3}
    Globals = Globals
    None = None
    Plain = Plain
    Builtin = Builtin
    This = this
    foo = foo
    bar = bar
    Names <- MCNames
    OwnNames = {foo}
    Builtins = {}
    Signatures <- NoParameters
    ClassBodies <- MCClassBodies
    NodeKinds = {"ExpressionStatement", "Class", "Call", "Identifier"}
    MaxFrames = 6
    MaxArgs = 0
    MaxStale = 0
    Retries = FALSE
SPECIFICATION Spec
INVARIANTS CalledClassesAreDeclared
