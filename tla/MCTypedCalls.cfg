\* Two names, two classes at a time, every order of static initialization.
SPECIFICATION Spec
CONSTANTS
    Integer = Integer
    Null = Null
    Function = Function
    Data = {Integer, Null, Function}
    TypeNames = {Integer}
    A = A
    x = x
    Variables = {A, x}
    Classes = {c1, c2}
    Meta = Meta
    Nil = Nil
    None = None
    Any = Any
    Vector = Vector
    Signatures <- MCSignatures
    HostTypes <- MCHostTypes
    MaxArgs = 2
INVARIANTS TypeOK OnlyNullsAndCopiesCrash ParametersAreOfTheirTypes MismatchesAreReal AcceptedArgumentsHaveTypes
