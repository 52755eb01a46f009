----------------------------- MODULE TypedCalls -----------------------------
(***************************************************************************)
(* How a call checks and converts its arguments: the declared types of the *)
(* parameters of a script's function (Function::Call), and the C++ types   *)
(* of a function the host registered (register_callable, call_function,    *)
(* argument_value), print, type and time among them.                       *)
(*                                                                         *)
(* InterpreterVisitor has one value, Plain, for all that is neither        *)
(* callable nor an instance, and lets any check fail.  Here a value is     *)
(* known by the class of values it belongs to, and calls do not nest: to   *)
(* check a parameter runs nothing else.  Functions are declared at the top *)
(* level, so the table of a call hangs below the globals, as it does for a *)
(* method.                                                                 *)
(***************************************************************************)
EXTENDS Naturals, Sequences, FiniteSets

CONSTANTS
    Data,        \* classes of values with a static TypeInfo: Integer, Function...
    TypeNames,   \* those of them that the globals name
    Integer,     \* what time returns
    Null,        \* what a function returns that returns nothing
    Variables,   \* names a script declares
    Classes,     \* the bound on the classes that exist at a time
    Meta,        \* the TypeInfo of TypeInfo
    Nil,         \* a null BaseValuePtr
    None,        \* no symbol, no type
    Any,         \* the C++ type const BaseValuePtr &
    Vector,      \* the C++ type const std::vector<BaseValuePtr> &
    Signatures,  \* the parameters of functions of scripts
    HostTypes,   \* the C++ types of the arguments of functions of the host
    MaxArgs      \* bound on the arguments of a call

Names == TypeNames \cup Variables
Sorts == Data \cup Classes \cup {Meta}
Parameter == [name : Names, type : Names \cup {None}]

ASSUME SortsDistinct ==
    /\ TypeNames \cup {Integer, Null} \subseteq Data
    /\ Data \cap Classes = {} /\ Meta \notin Data \cup Classes
    /\ {Any, Vector} \cap Sorts = {} /\ Any # Vector

ASSUME CallsWellFormed ==
    /\ Signatures \subseteq Seq(Parameter) /\ <<>> \in Signatures
    /\ HostTypes \subseteq Seq(Data \cup {Any})
    /\ None \notin Names /\ MaxArgs \in Nat

VARIABLES
    early,    \* the TypeInfos built before TypeInfo::typeInfo: the order of
              \* static initialization, which the build decides
    globals,  \* m_globals
    call      \* the call in progress

vars == <<early, globals, call>>

-----------------------------------------------------------------------------
(***************************************************************************)
(* Values.                                                                 *)
(***************************************************************************)
Object == [is : {"datum"}, of : Data] \cup [is : {"class", "instance"}, of : Classes]
          \cup [is : {"type"}, of : Sorts]
Value == Object \cup {Nil}

ASSUME NilIsNoObject == Nil \notin Object /\ None \notin Value

Datum(d) == [is |-> "datum", of |-> d]
Class(c) == [is |-> "class", of |-> c]
Instance(c) == [is |-> "instance", of |-> c]
TypeInfo(s) == [is |-> "type", of |-> s]

\* Mutant of TypeOf: an instance has Instance::typeInfo, as it has in the
\* header, and not the TypeInfo of its class.
TypeOfNoInstance(v) ==
    IF v.is = "type" /\ v.of \in early \cup {Meta} THEN Nil
    ELSE TypeInfo(IF v.is \in {"type", "instance"} THEN Meta ELSE v.of)

\* m_type.  A class has a TypeInfo of its own, which its instances share; a
\* TypeInfo built before TypeInfo::typeInfo copied a null pointer.
TypeOf(v) ==
    IF v.is = "type" /\ v.of \in early \cup {Meta} THEN Nil
    ELSE TypeInfo(IF v.is = "type" THEN Meta ELSE v.of)

Bound == {globals[n] : n \in Names} \ {None}

\* Mutant of InReach: a name that is not declared has a value all the same.
InReachUndeclared == {Datum(d) : d \in Data} \cup {globals[n] : n \in Names}

\* What an expression without a call yields: a literal, what a name stands for,
\* a new instance of a class that has a name.
InReach == {Datum(d) : d \in Data} \cup Bound
           \cup {Instance(c) : c \in {d \in Classes : Class(d) \in Bound}}

-----------------------------------------------------------------------------
(***************************************************************************)
(* Functions.                                                              *)
(***************************************************************************)
ScriptFunction(params) ==
    [runs |-> "script", takes |-> params, arity |-> Len(params), variadic |-> FALSE]

\* Mutant of RegisterCallable: every function of the host is variadic.
RegisterVariadic(name, types) ==
    [runs |-> name, takes |-> types, arity |-> Len(types), variadic |-> TRUE]

\* register_callable: the arity is the number of C++ arguments, except for a
\* function that takes all of them in one vector.
RegisterCallable(name, types) ==
    [runs |-> name, takes |-> types,
     arity |-> IF types = <<Vector>> THEN 0 ELSE Len(types),
     variadic |-> types = <<Vector>>]

Registered == {RegisterCallable("host", types) : types \in HostTypes}
              \cup {RegisterCallable("print", <<Vector>>),
                    RegisterCallable("type", <<Any>>),
                    RegisterCallable("time", <<>>)}

\* Instance::Bind of a function that the host registered and a script assigned to
\* a field: the copy is a plain Function, with the arity but with no parameters
\* and no body.
BoundCopy(f) == [f EXCEPT !.runs = "copy", !.takes = <<>>]

Functions == {ScriptFunction(params) : params \in Signatures}
             \cup Registered \cup {BoundCopy(f) : f \in Registered}

NoSymbols == [n \in Names |-> None]

\* next is the index of the parameter to check or the argument to convert,
\* table the symbols of the table that the call entered.
Call == [phase : {"none", "checking", "body", "mismatch", "failed", "crashed"},
         callee : Functions, args : Seq(Value), next : Nat \ {0},
         table : [Names -> Value \cup {None}]]

NoCall == [phase |-> "none", callee |-> ScriptFunction(<<>>), args |-> <<>>,
           next |-> 1, table |-> NoSymbols]

Init == /\ early \in SUBSET Data
        /\ globals = [n \in Names |-> IF n \in TypeNames THEN TypeInfo(n) ELSE None]
        /\ call = NoCall

-----------------------------------------------------------------------------
(***************************************************************************)
(* What a script does between its calls.                                   *)
(***************************************************************************)
Idle == call.phase = "none"

VarDecl == /\ Idle
           /\ \E n \in Variables, v \in InReach : globals' = [globals EXCEPT ![n] = v]
           /\ UNCHANGED <<early, call>>

\* A class declared again is another class: the instances of the first one
\* that are still in reach keep its TypeInfo.
ClassDeclaration ==
    /\ Idle
    /\ \E n \in Variables, c \in Classes :
          /\ \A v \in Bound : v # Nil => v.of # c
          /\ globals' = [globals EXCEPT ![n] = Class(c)]
    /\ UNCHANGED <<early, call>>

-----------------------------------------------------------------------------
(***************************************************************************)
(* A call.                                                                 *)
(***************************************************************************)
Runs(phase) == call' = [call EXCEPT !.phase = phase]

\* There is an instance, whose fields give copies.
FieldsInReach == \E c \in Classes : Instance(c) \in InReach

\* Visit(Call): a wrong number of arguments is refused before anything else.
Enter ==
    /\ Idle
    /\ \E f \in Functions, k \in 0..MaxArgs : \E args \in [1..k -> InReach] :
          /\ f.variadic \/ f.arity = k
          /\ f.runs = "copy" => FieldsInReach
          /\ call' = [NoCall EXCEPT !.phase = "checking", !.callee = f, !.args = args]
    /\ UNCHANGED <<early, globals>>

Checking(who) == call.phase = "checking" /\ call.callee.runs \in who

\* The parameters and the arguments that remain.
Remaining == call.next <= call.callee.arity
Formal == call.callee.takes[call.next]
Actual == call.args[call.next]

\* SymbolTable::Get from the table of the call, which hangs below the globals.
Meaning(n) == IF call.table[n] # None THEN call.table[n] ELSE globals[n]

\* Mutants of Mismatch: a class does not stand for the type of its instances,
\* and two null types are the same type.
MismatchOfTypeInfo(type, arg) == type # TypeOf(arg)
MismatchOfNull(type, arg) == TypeOf(type) # TypeOf(arg) /\ type # TypeOf(arg)

Mismatch(type, arg) ==
    /\ TypeOf(type) = Nil \/ TypeOf(type) # TypeOf(arg)
    /\ type # TypeOf(arg)

Declare == call' = [call EXCEPT !.table[Formal.name] = Actual, !.next = @ + 1]

\* One iteration of the loop of Function::Call.  A copy has no parameter for the
\* index, which is not tested.  The message of a mismatch names the type of the
\* argument.
CheckParameter ==
    /\ Checking({"script", "copy"}) /\ Remaining
    /\ \/ call.next \notin DOMAIN call.callee.takes /\ Runs("crashed")
       \/ /\ call.next \in DOMAIN call.callee.takes
          /\ Formal.type = None /\ Declare
       \/ /\ call.next \in DOMAIN call.callee.takes
          /\ Formal.type # None
          /\ LET type == Meaning(Formal.type)
             IN  \/ type = None /\ Runs("failed")
                 \/ type # None /\ Nil \in {type, Actual} /\ Runs("crashed")
                 \/ /\ type # None /\ Nil \notin {type, Actual}
                    /\ \/ Mismatch(type, Actual) /\ TypeOf(Actual) # Nil /\ Runs("mismatch")
                       \/ Mismatch(type, Actual) /\ TypeOf(Actual) = Nil /\ Runs("crashed")
                       \/ ~Mismatch(type, Actual) /\ Declare
    /\ UNCHANGED <<early, globals>>

\* argument_value looks into an Integer only for an int, and so on.
Converts(type, v) == type = Any \/ v = Datum(type)

\* There is an argument at the index, which is not tested, and argument_value can
\* look into it.
Readable == call.next \in DOMAIN call.args /\ (Formal # Any => Actual # Nil)

\* call_function: the arguments are converted one by one, by their places.
ConvertArgument ==
    /\ Checking({"host", "print", "type", "time"}) /\ Remaining
    /\ \/ ~Readable /\ Runs("crashed")
       \/ /\ Readable /\ Converts(Formal, Actual)
          /\ call' = [call EXCEPT !.next = @ + 1]
       \/ Readable /\ ~Converts(Formal, Actual) /\ Runs("failed")
    /\ UNCHANGED <<early, globals>>

\* The function is run: a copy has no body, and print and type look at what they
\* are given.
Runnable == /\ call.callee.runs # "copy"
            /\ call.callee.runs \in {"print", "type"} =>
                  \A i \in DOMAIN call.args : call.args[i] # Nil

Run ==
    /\ call.phase = "checking" /\ ~Remaining
    /\ Runs(IF Runnable THEN "body" ELSE "crashed")
    /\ UNCHANGED <<early, globals>>

\* What the call is worth: return_from_function throws what the C++ function
\* returned; one that returns nothing leaves the value to Visit(Call).
Results ==
    CASE call.callee.runs = "script" -> InReach \cup {call.args[i] : i \in DOMAIN call.args}
      [] call.callee.runs = "host" -> {Datum(d) : d \in Data}
      [] call.callee.runs = "type" -> {TypeOf(call.args[1])}
      [] call.callee.runs = "time" -> {Datum(Integer)}
      [] call.callee.runs = "print" -> {Datum(Null)}

Return ==
    /\ call.phase = "body"
    /\ call' = NoCall
    /\ \/ UNCHANGED globals
       \/ \E n \in Variables, v \in Results : globals' = [globals EXCEPT ![n] = v]
    /\ UNCHANGED early

\* An exception leaves the call; the host interprets another script.
Abandon ==
    /\ call.phase \in {"mismatch", "failed"}
    /\ call' = NoCall
    /\ UNCHANGED <<early, globals>>

Stop == call.phase = "crashed" /\ UNCHANGED vars

Next == \/ VarDecl \/ ClassDeclaration \/ Enter \/ CheckParameter
        \/ ConvertArgument \/ Run \/ Return \/ Abandon \/ Stop

Spec == Init /\ [][Next]_vars

-----------------------------------------------------------------------------
(***************************************************************************)
(* Properties.                                                             *)
(***************************************************************************)
TypeOK == /\ early \subseteq Data
          /\ globals \in [Names -> Value \cup {None}]
          /\ call \in Call

HasNoType(v) == v = Nil \/ TypeOf(v) = Nil

\* What a call looks into: its arguments, and the type of the parameter it checks.
LookedInto == {call.args[i] : i \in DOMAIN call.args}
              \cup IF /\ call.callee.runs = "script" /\ call.next \in DOMAIN call.callee.takes
                      /\ Formal.type # None
                   THEN {Meaning(Formal.type)} ELSE {}

\* A call can end the process, and only for these reasons: what it looks into is
\* null or has no type, or the function is a copy that Instance::Bind made of a
\* function of the host, which always does.  It never does because of the number
\* of arguments, by which Function::Call and call_function index unchecked.
OnlyNullsAndCopiesCrash ==
    /\ call.callee.runs = "copy" => call.phase \in {"checking", "crashed"}
    /\ call.phase = "crashed" /\ call.callee.runs # "copy" =>
          \E v \in LookedInto : HasNoType(v)

\* The class of values, or the class, that a value belongs to.
Sort(v) == IF v.is = "type" THEN Meta ELSE v.of

\* What is of the type that a value stands for: what belongs to the class of values
\* or to the class, the class itself among the latter, also if the value is no
\* type.  And m_type being compared, a TypeInfo is of the type of any other, unless
\* one of them has no m_type: type Float passes for a parameter of type Integer.
OfType(type, arg) ==
    /\ TypeOf(arg) # Nil
    /\ \/ Sort(arg) = type.of
       \/ type.is = "type" /\ arg.is = "type" /\ TypeOf(type) # Nil

\* The parameters of a function whose type is looked up in the globals: no
\* earlier parameter has the name of the type.
Typed(params) ==
    {i \in DOMAIN params : /\ params[i].type # None
                           /\ \A j \in 1..(i - 1) : params[j].name # params[i].type}

\* A body runs with arguments that are of the types of its declaration, in the
\* sense of OfType.  Types are compared by identity: an instance of a class that was
\* declared anew is not accepted for the name of the class.
ParametersAreOfTheirTypes ==
    call.phase = "body" /\ call.callee.runs = "script" =>
        \A i \in Typed(call.callee.takes) :
            LET type == globals[call.callee.takes[i].type]
            IN  /\ {type, call.args[i]} \cap {None, Nil} = {}
                /\ OfType(type, call.args[i])

\* The other way round: an argument is only refused when it is not of its type.
MismatchesAreReal ==
    call.phase = "mismatch" => ~OfType(Meaning(Formal.type), Actual)

\* An argument that was accepted has a type: type() of it is not null, although
\* TypeInfos have no type in some builds, and TypeInfo::typeInfo in none.
AcceptedArgumentsHaveTypes ==
    call.phase = "body" /\ call.callee.runs = "script" =>
        \A i \in DOMAIN call.args :
            call.callee.takes[i].type # None => TypeOf(call.args[i]) # Nil

=============================================================================
