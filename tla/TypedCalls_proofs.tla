-------------------------- MODULE TypedCalls_proofs --------------------------
(***************************************************************************)
(* What TypedCalls shows of calls, for every set of classes of values,     *)
(* every signature and every order of static initialization.               *)
(***************************************************************************)
EXTENDS TypedCalls, TLAPS

-----------------------------------------------------------------------------
(***************************************************************************)
(* Types.                                                                  *)
(***************************************************************************)

\* m_type of an object is a TypeInfo or null.
LEMMA TypeOfType ==
    ASSUME NEW v \in Object
    PROVE  /\ TypeOf(v) \in Value
           /\ TypeOf(v) # Nil => TypeOf(v) = TypeInfo(Sort(v))
           /\ v.is # "type" => TypeOf(v) # Nil
<1>1. TypeOf(v) \in {Nil, TypeInfo(Sort(v))}
  BY DEF TypeOf, Sort
<1>2. Sort(v) \in Sorts
  BY SMT DEF Sort, Object, Sorts
<1>3. TypeInfo(Sort(v)) \in Object
  BY <1>2, SMT DEF TypeInfo, Object
<1>4. v.is # "type" => TypeOf(v) = TypeInfo(Sort(v))
  BY DEF TypeOf, Sort
<1> QED
  BY <1>1, <1>3, <1>4, NilIsNoObject DEF Value

\* The check of a parameter decides whether the argument is of its type.
LEMMA MismatchDecides ==
    ASSUME NEW type \in Object, NEW arg \in Object, TypeOf(arg) # Nil
    PROVE  Mismatch(type, arg) <=> ~OfType(type, arg)
<1>1. TypeOf(arg) = TypeInfo(Sort(arg))
  BY TypeOfType
<1>2. TypeOf(type) # Nil => TypeOf(type) = TypeInfo(Sort(type))
  BY TypeOfType
<1>3. CASE type.is = "type"
  <2>1. type = TypeInfo(type.of) /\ Sort(type) = Meta
    BY <1>3, SMT DEF TypeInfo, Object, Sort
  <2>2. type = TypeOf(arg) <=> Sort(arg) = type.of
    BY <1>1, <2>1 DEF TypeInfo
  <2>3. ASSUME TypeOf(type) # Nil
        PROVE  TypeOf(type) = TypeOf(arg) <=> arg.is = "type"
    <3>1. TypeOf(type) = TypeOf(arg) <=> Sort(arg) = Meta
      BY <1>1, <1>2, <2>1, <2>3 DEF TypeInfo
    <3>2. arg.is # "type" => arg.of \in Data \cup Classes
      BY SMT DEF Object
    <3> QED
      BY <3>1, <3>2, SortsDistinct DEF Sort
  <2> QED
    BY <1>3, <2>2, <2>3 DEF Mismatch, OfType
<1>4. CASE type.is # "type"
  <2>1. TypeOf(type) # Nil /\ Sort(type) = type.of
    BY <1>4, TypeOfType DEF Sort
  <2>2. type # TypeOf(arg)
    BY <1>1, <1>4 DEF TypeInfo
  <2>3. TypeOf(type) = TypeOf(arg) <=> Sort(arg) = type.of
    BY <1>1, <1>2, <2>1 DEF TypeInfo
  <2> QED
    BY <1>4, <2>1, <2>2, <2>3 DEF Mismatch, OfType
<1> QED
  BY <1>3, <1>4

\* An argument without a type is not accepted.
LEMMA AcceptedHasType ==
    ASSUME NEW type \in Object, NEW arg \in Object, ~Mismatch(type, arg)
    PROVE  TypeOf(arg) # Nil
BY NilIsNoObject DEF Mismatch

-----------------------------------------------------------------------------
(***************************************************************************)
(* The inductive invariant.                                                *)
(***************************************************************************)

\* Visit(Call) let the call begin.
ArityFits == call.phase # "none" =>
                 call.callee.variadic \/ call.callee.arity = Len(call.args)

\* The parameters the loop of Function::Call is done with.
Done == {i \in 1..Len(call.callee.takes) : i < call.next}

\* Only their names are declared in the table of the call, and they have their
\* types.
Checked == call.phase # "none" /\ call.callee.runs = "script" =>
    /\ \A n \in Names : call.table[n] # None =>
          \E i \in Done : call.callee.takes[i].name = n
    /\ \A i \in Done : call.callee.takes[i].type # None => TypeOf(call.args[i]) # Nil
    /\ \A i \in Done \cap Typed(call.callee.takes) :
          LET type == globals[call.callee.takes[i].type]
          IN  /\ {type, call.args[i]} \cap {None, Nil} = {}
              /\ OfType(type, call.args[i])

\* A body runs when there is no parameter left, a mismatch is one, and a crash
\* has its reason.
Phases == /\ call.phase = "body" => ~Remaining
          /\ OnlyNullsAndCopiesCrash
          /\ call.phase = "body" /\ call.callee.runs = "type" =>
                \A i \in DOMAIN call.args : call.args[i] # Nil
          /\ call.phase = "mismatch" =>
                /\ call.callee.runs = "script" /\ Remaining
                /\ Meaning(Formal.type) \in Object /\ Actual \in Object
                /\ Mismatch(Meaning(Formal.type), Actual)

IInv == TypeOK /\ ArityFits /\ Checked /\ Phases

\* What register_callable says of a function.
LEMMA RegisteredFacts ==
    ASSUME NEW f \in Registered
    PROVE  /\ f.arity \in Nat
           /\ f.variadic => f.arity = 0
           /\ ~f.variadic => f.takes \in Seq(Data \cup {Any}) /\ f.arity = Len(f.takes)
           /\ f.runs = "type" => ~f.variadic /\ f.arity = 1
           /\ f.runs \in {"host", "print", "type", "time"}
           /\ DOMAIN f = {"runs", "takes", "arity", "variadic"}
<1>1. CASE f \in {RegisterCallable("host", types) : types \in HostTypes}
  <2>1. PICK types \in HostTypes : f = RegisterCallable("host", types)
    BY <1>1
  <2>2. types \in Seq(Data \cup {Any})
    BY CallsWellFormed
  <2>3. types # <<Vector>>
    <3>1. SUFFICES ASSUME types = <<Vector>> PROVE FALSE
      OBVIOUS
    <3>2. types[1] = Vector /\ Len(types) = 1
      BY <3>1
    <3>3. types[1] \in Data \cup {Any}
      BY <2>2, <3>2
    <3> QED
      BY <3>2, <3>3, SortsDistinct DEF Sorts
  <2>4. f = [runs |-> "host", takes |-> types, arity |-> Len(types), variadic |-> FALSE]
    BY <2>1, <2>3 DEF RegisterCallable
  <2> QED
    BY <2>2, <2>4
<1>2. CASE f = RegisterCallable("print", <<Vector>>)
  BY <1>2 DEF RegisterCallable
<1>3. CASE f = RegisterCallable("type", <<Any>>)
  <2>1. <<Any>> # <<Vector>> /\ <<Any>> \in Seq(Data \cup {Any}) /\ Len(<<Any>>) = 1
    BY SortsDistinct
  <2> QED
    BY <1>3, <2>1 DEF RegisterCallable
<1>4. CASE f = RegisterCallable("time", <<>>)
  <2>1. <<>> # <<Vector>> /\ <<>> \in Seq(Data \cup {Any}) /\ Len(<<>>) = 0
    OBVIOUS
  <2> QED
    BY <1>4, <2>1 DEF RegisterCallable
<1> QED
  BY <1>1, <1>2, <1>3, <1>4 DEF Registered

\* What the declaration, register_callable and Bind say of a function.
LEMMA FunctionFacts ==
    ASSUME NEW f \in Functions
    PROVE  /\ f.arity \in Nat
           /\ f.variadic => f.arity = 0
           /\ ~f.variadic /\ f.runs # "copy" =>
                 /\ f.takes \in Seq(Parameter) \cup Seq(Data \cup {Any})
                 /\ f.arity = Len(f.takes)
           /\ f.runs = "copy" => f.takes = <<>>
           /\ f.runs = "script" => ~f.variadic /\ f.takes \in Signatures
           /\ f.runs = "type" => ~f.variadic /\ f.arity = 1
           /\ f.runs \in {"script", "copy", "host", "print", "type", "time"}
<1>1. CASE f \in {ScriptFunction(params) : params \in Signatures}
  <2>1. PICK params \in Signatures : f = ScriptFunction(params)
    BY <1>1
  <2>2. params \in Seq(Parameter)
    BY CallsWellFormed
  <2> QED
    BY <2>1, <2>2 DEF ScriptFunction
<1>2. CASE f \in Registered
  BY <1>2, RegisteredFacts
<1>3. CASE f \in {BoundCopy(g) : g \in Registered}
  <2>1. PICK g \in Registered : f = BoundCopy(g)
    BY <1>3
  <2> QED
    BY <2>1, RegisteredFacts DEF BoundCopy
<1> QED
  BY <1>1, <1>2, <1>3 DEF Functions

\* A call that is checking its arguments has one for the index it uses.
LEMMA IndexInRange ==
    ASSUME TypeOK, ArityFits, call.phase # "none", call.callee.runs # "copy", Remaining
    PROVE  /\ call.next \in 1..Len(call.args) /\ call.next \in 1..Len(call.callee.takes)
           /\ call.next \in DOMAIN call.args /\ call.next \in DOMAIN call.callee.takes
           /\ Actual \in Value
<1>1. call.callee \in Functions /\ call.next \in Nat \ {0} /\ call.args \in Seq(Value)
  BY DEF TypeOK, Call
<1>2. ~call.callee.variadic /\ call.callee.arity = Len(call.callee.takes)
  BY <1>1, FunctionFacts DEF Remaining
<1>3. call.callee.takes \in Seq(Parameter) \cup Seq(Data \cup {Any})
  BY <1>1, <1>2, FunctionFacts
<1>4. call.callee.arity = Len(call.args)
  BY <1>2 DEF ArityFits
<1>5. DOMAIN call.callee.takes = 1..Len(call.callee.takes)
  BY <1>3
<1>6. call.next \in 1..Len(call.args)
  BY <1>1, <1>4 DEF Remaining
<1>7. call.next \in 1..Len(call.callee.takes)
  BY <1>2, <1>4, <1>6
<1>8. DOMAIN call.args = 1..Len(call.args) /\ Actual \in Value
  BY <1>1, <1>6 DEF Actual
<1> QED
  BY <1>5, <1>6, <1>7, <1>8

LEMMA InReachIsValues == TypeOK => InReach \subseteq Value
<1> SUFFICES ASSUME TypeOK PROVE InReach \subseteq Value
  OBVIOUS
<1>1. Bound \subseteq Value
  BY DEF TypeOK, Bound
<1>2. \A d \in Data : Datum(d) \in Object
  BY SMT DEF Datum, Object
<1>3. \A c \in Classes : Instance(c) \in Object
  BY SMT DEF Instance, Object
<1> QED
  BY <1>1, <1>2, <1>3 DEF InReach, Value

LEMMA ClassIsValue == ASSUME NEW c \in Classes PROVE Class(c) \in Value
BY SMT DEF Class, Object, Value

LEMMA NoCallIsCall == NoCall \in Call
<1>1. ScriptFunction(<<>>) \in Functions
  BY CallsWellFormed DEF Functions
<1>2. NoSymbols \in [Names -> Value \cup {None}]
  BY DEF NoSymbols
<1> QED
  BY <1>1, <1>2 DEF NoCall, Call

\* What the function returns is a value.
LEMMA ResultsAreValues ==
    ASSUME TypeOK, ArityFits, Phases, call.phase = "body"
    PROVE  Results \subseteq Value \cup {None}
<1> USE DEF Results
<1>1. call.callee \in Functions /\ call.args \in Seq(Value)
  BY DEF TypeOK, Call
<1>2. call.callee.runs \in {"script", "host", "print", "type", "time"}
  BY <1>1, FunctionFacts DEF Phases, OnlyNullsAndCopiesCrash
<1>3. CASE call.callee.runs = "script"
  <2>1. {call.args[i] : i \in DOMAIN call.args} \subseteq Value
    BY <1>1
  <2> QED
    BY <1>3, <2>1, InReachIsValues
<1>4. CASE call.callee.runs \in {"host", "print", "time"}
  <2>1. \A d \in Data : Datum(d) \in Value
    BY SMT DEF Datum, Object, Value
  <2> QED
    BY <1>4, <2>1, SortsDistinct
<1>5. CASE call.callee.runs = "type"
  <2>1. Len(call.args) = 1
    BY <1>1, <1>5, FunctionFacts DEF ArityFits
  <2>2. 1 \in DOMAIN call.args /\ call.args[1] \in Value
    BY <1>1, <2>1
  <2>3. call.args[1] \in Object
    BY <1>5, <2>2 DEF Phases, Value
  <2> QED
    BY <1>5, <2>3, TypeOfType
<1> QED
  BY <1>2, <1>3, <1>4, <1>5

-----------------------------------------------------------------------------
(***************************************************************************)
(* Every step keeps the invariant.                                         *)
(***************************************************************************)
LEMMA InitInvariant == Init => IInv
<1> SUFFICES ASSUME Init PROVE IInv
  OBVIOUS
<1>1. \A n \in TypeNames : TypeInfo(n) \in Value
  BY SortsDistinct, SMT DEF TypeInfo, Object, Value, Sorts
<1>2. globals \in [Names -> Value \cup {None}]
  BY <1>1 DEF Init
<1>3. TypeOK
  BY <1>2, NoCallIsCall DEF Init, TypeOK
<1> QED
  BY <1>3 DEF Init, NoCall, ScriptFunction, IInv, ArityFits, Checked, Phases,
              OnlyNullsAndCopiesCrash

\* Between calls nothing but the globals changes.
LEMMA IdleStep ==
    ASSUME IInv, call.phase = "none" \/ call' = NoCall, UNCHANGED early,
           call' = NoCall \/ UNCHANGED call,
           globals' \in [Names -> Value \cup {None}]
    PROVE  IInv'
<1>1. /\ call'.phase = "none" /\ call' \in Call
      /\ call'.callee.runs = "copy" => call'.phase \in {"checking", "crashed"}
  <2>1. CASE call' = NoCall
    BY <2>1, NoCallIsCall DEF NoCall, ScriptFunction
  <2>2. CASE call' = call /\ call.phase = "none"
    BY <2>2 DEF IInv, TypeOK, Phases, OnlyNullsAndCopiesCrash
  <2> QED
    BY <2>1, <2>2
<1>2. TypeOK'
  BY <1>1 DEF IInv, TypeOK
<1> QED
  BY <1>1, <1>2 DEF IInv, ArityFits, Checked, Phases, OnlyNullsAndCopiesCrash

LEMMA EnterStep == ASSUME IInv, Enter PROVE IInv'
<1>1. PICK f \in Functions, k \in 0..MaxArgs : \E args \in [1..k -> InReach] :
          /\ f.variadic \/ f.arity = k
          /\ call' = [NoCall EXCEPT !.phase = "checking", !.callee = f, !.args = args]
  BY DEF Enter
<1>2. PICK args \in [1..k -> InReach] :
          /\ f.variadic \/ f.arity = k
          /\ call' = [NoCall EXCEPT !.phase = "checking", !.callee = f, !.args = args]
  BY <1>1
<1>3. k \in Nat /\ args \in Seq(Value) /\ Len(args) = k
  <2>1. k \in Nat
    BY CallsWellFormed
  <2>2. args \in [1..k -> Value]
    BY <1>2, InReachIsValues DEF IInv
  <2> QED
    BY <2>1, <2>2
<1>4. /\ call' \in Call
      /\ call'.phase = "checking" /\ call'.callee = f /\ call'.args = args
      /\ call'.next = 1 /\ call'.table = NoSymbols
  BY <1>2, <1>3, NoCallIsCall DEF NoCall, Call
<1>5. TypeOK'
  BY <1>4 DEF Enter, IInv, TypeOK
<1>6. ArityFits' /\ Phases'
  BY <1>2, <1>3, <1>4 DEF ArityFits, Phases, OnlyNullsAndCopiesCrash
<1>7. Done' = {}
  BY <1>4 DEF Done
<1>8. Checked'
  BY <1>4, <1>7 DEF Checked, NoSymbols
<1> QED
  BY <1>5, <1>6, <1>8 DEF IInv

\* A call that only changes its phase, other than to "body".
LEMMA PhaseStep ==
    ASSUME IInv, call.phase # "none", UNCHANGED <<early, globals>>,
           NEW p \in {"failed", "crashed"}, Runs(p),
           p = "failed" => call.callee.runs # "copy",
           p = "crashed" => \/ call.callee.runs = "copy"
                            \/ \E v \in LookedInto : HasNoType(v)
    PROVE  IInv'
<1>1. /\ call' \in Call /\ call'.phase = p
      /\ call'.callee = call.callee /\ call'.args = call.args
      /\ call'.next = call.next /\ call'.table = call.table
  BY DEF IInv, TypeOK, Call, Runs
<1>2. TypeOK' /\ ArityFits'
  BY <1>1 DEF IInv, TypeOK, ArityFits
<1>3. Done' = Done
  BY <1>1 DEF Done
<1>4. Checked'
  BY <1>1, <1>3 DEF IInv, Checked, OfType, TypeOf
<1>5. LookedInto' = LookedInto /\ \A v : HasNoType(v)' <=> HasNoType(v)
  BY <1>1 DEF LookedInto, Formal, Meaning, HasNoType, TypeOf
<1>6. OnlyNullsAndCopiesCrash'
  BY <1>1, <1>5 DEF OnlyNullsAndCopiesCrash
<1>7. Phases'
  BY <1>1, <1>6 DEF Phases
<1> QED
  BY <1>2, <1>4, <1>7 DEF IInv

\* One more parameter is declared, or one more argument converted.
LEMMA NextStep ==
    ASSUME IInv, call.phase = "checking", call.callee.runs # "copy", Remaining,
           UNCHANGED <<early, globals>>,
           NEW t \in [Names -> Value \cup {None}],
           call' = [call EXCEPT !.table = t, !.next = @ + 1]
    PROVE  /\ TypeOK' /\ ArityFits' /\ Phases'
           /\ call'.phase = "checking" /\ call'.table = t
           /\ call'.callee = call.callee /\ call'.args = call.args
           /\ call.callee.runs = "script" => Done' = Done \cup {call.next}
<1>1. call \in Call /\ call.next \in Nat \ {0}
  BY DEF IInv, TypeOK, Call
<1>2. /\ call' \in Call /\ call'.phase = "checking"
      /\ call'.callee = call.callee /\ call'.args = call.args
      /\ call'.next = call.next + 1 /\ call'.table = t
  <2>1. call.next + 1 \in Nat \ {0}
    BY <1>1
  <2> DEFINE k == call.next + 1
  <2>2. call' = [call EXCEPT !.table = t, !.next = k]
    OBVIOUS
  <2> HIDE DEF k
  <2>3. k \in Nat \ {0}
    BY <2>1 DEF k
  <2>4. call' \in Call /\ call'.next = k
    BY <1>1, <2>2, <2>3 DEF Call
  <2>5. /\ call'.phase = "checking" /\ call'.callee = call.callee
        /\ call'.args = call.args /\ call'.table = t
    BY <1>1, <2>2 DEF Call
  <2> QED
    BY <2>4, <2>5 DEF k
<1>3. TypeOK' /\ ArityFits' /\ Phases'
  BY <1>2 DEF IInv, TypeOK, ArityFits, Phases, OnlyNullsAndCopiesCrash
<1>4. call.next \in 1..Len(call.callee.takes)
  BY IndexInRange DEF IInv
<1>5. Done' = {i \in 1..Len(call.callee.takes) : i < call.next + 1}
  BY <1>2 DEF Done
<1>6. ASSUME call.callee.runs = "script" PROVE Done' = Done \cup {call.next}
  <2>1. Len(call.callee.takes) \in Nat
    BY <1>1, <1>6, FunctionFacts, CallsWellFormed DEF Call
  <2> QED
    BY <1>1, <1>4, <1>5, <2>1 DEF Done
<1> QED
  BY <1>2, <1>3, <1>6

LEMMA DeclareStep ==
    ASSUME IInv, Checking({"script"}), Remaining, Declare,
           UNCHANGED <<early, globals>>,
           Formal.type # None =>
               /\ Meaning(Formal.type) \in Object /\ Actual \in Object
               /\ ~Mismatch(Meaning(Formal.type), Actual)
    PROVE  IInv'
<1> DEFINE t == [call.table EXCEPT ![Formal.name] = Actual]
<1>1. /\ call.phase = "checking" /\ call.callee.runs = "script"
      /\ call.callee \in Functions /\ call \in Call
  BY DEF Checking, IInv, TypeOK, Call
<1>2. call.next \in 1..Len(call.callee.takes) /\ Actual \in Value
  BY <1>1, IndexInRange DEF IInv
<1>3. call.callee.takes \in Seq(Parameter)
  BY <1>1, FunctionFacts, CallsWellFormed
<1>4. Formal \in Parameter
  BY <1>2, <1>3 DEF Formal
<1>5. t \in [Names -> Value \cup {None}]
  BY <1>1, <1>2, <1>4 DEF Call, Parameter
<1>6. call' = [call EXCEPT !.table = t, !.next = @ + 1]
  BY DEF Declare
<1>7. /\ TypeOK' /\ ArityFits' /\ Phases'
      /\ call'.phase = "checking" /\ call'.table = t
      /\ call'.callee = call.callee /\ call'.args = call.args
      /\ Done' = Done \cup {call.next}
  <2> HIDE DEF t
  <2> QED
    BY <1>1, <1>5, <1>6, NextStep
<1>8. ASSUME NEW n \in Names, t[n] # None
      PROVE  \E i \in Done \cup {call.next} : call.callee.takes[i].name = n
  <2>1. CASE n = Formal.name
    BY <2>1 DEF Formal
  <2>2. CASE n # Formal.name
    <3>1. call.table[n] # None
      BY <1>1, <1>8, <2>2 DEF Call
    <3> QED
      BY <1>1, <3>1 DEF IInv, Checked
  <2> QED
    BY <2>1, <2>2
<1>9. ASSUME NEW i \in Done \cup {call.next}, call.callee.takes[i].type # None
      PROVE  TypeOf(call.args[i]) # Nil
  <2>1. CASE i \in Done
    BY <1>1, <1>9, <2>1 DEF IInv, Checked
  <2>2. CASE i = call.next
    BY <1>9, <2>2, AcceptedHasType DEF Formal, Actual
  <2> QED
    BY <2>1, <2>2
<1>10. ASSUME NEW i \in (Done \cup {call.next}) \cap Typed(call.callee.takes)
       PROVE  LET type == globals[call.callee.takes[i].type]
              IN  /\ {type, call.args[i]} \cap {None, Nil} = {}
                  /\ OfType(type, call.args[i])
  <2>1. CASE i \in Done
    BY <1>1, <2>1 DEF IInv, Checked
  <2>2. CASE i = call.next
    <3>1. /\ Formal.type # None
          /\ \A j \in 1..(call.next - 1) : call.callee.takes[j].name # Formal.type
      BY <1>10, <2>2 DEF Typed, Formal
    <3>2. call.table[Formal.type] = None
      <4>1. SUFFICES ASSUME call.table[Formal.type] # None PROVE FALSE
        OBVIOUS
      <4>2. Formal.type \in Names
        BY <1>4, <3>1 DEF Parameter
      <4>3. PICK j \in Done : call.callee.takes[j].name = Formal.type
        BY <1>1, <4>1, <4>2 DEF IInv, Checked
      <4>4. j \in 1..(call.next - 1)
        BY <1>2, <4>3 DEF Done
      <4> QED
        BY <3>1, <4>3, <4>4
    <3>3. Meaning(Formal.type) = globals[Formal.type]
      BY <3>2 DEF Meaning
    <3>4. OfType(globals[Formal.type], Actual)
      BY <3>1, <3>3, AcceptedHasType, MismatchDecides
    <3>5. {globals[Formal.type], Actual} \cap {None, Nil} = {}
      BY <3>1, <3>3, NilIsNoObject DEF Value
    <3> QED
      BY <2>2, <3>4, <3>5 DEF Formal, Actual
  <2> QED
    BY <2>1, <2>2
<1>11. Checked'
  <2> HIDE DEF t
  <2> QED
    BY <1>1, <1>7, <1>8, <1>9, <1>10 DEF Checked, OfType, TypeOf
<1> QED
  BY <1>7, <1>11 DEF IInv

LEMMA CheckParameterStep == ASSUME IInv, CheckParameter PROVE IInv'
<1>1. /\ call.phase = "checking" /\ call.callee.runs \in {"script", "copy"} /\ Remaining
      /\ UNCHANGED <<early, globals>>
  BY DEF CheckParameter, Checking
<1>2. CASE call.callee.runs = "copy"
  <2>1. call.next \notin DOMAIN call.callee.takes
    BY <1>2, FunctionFacts DEF IInv, TypeOK, Call
  <2>2. Runs("crashed")
    BY <2>1 DEF CheckParameter
  <2> QED
    BY <1>1, <1>2, <2>2, PhaseStep
<1>3. CASE Formal.type = None /\ call.callee.runs = "script"
  <2>1. call.next \in DOMAIN call.callee.takes
    BY <1>1, <1>3, IndexInRange DEF IInv
  <2>2. Declare
    BY <1>3, <2>1 DEF CheckParameter
  <2> QED
    BY <1>1, <1>3, <2>2, DeclareStep DEF Checking
<1>4. ASSUME Formal.type # None, call.callee.runs = "script"
      PROVE  IInv'
  <2> DEFINE type == Meaning(Formal.type)
  <2>1. /\ call.next \in DOMAIN call.callee.takes
        /\ \/ type = None /\ Runs("failed")
           \/ type # None /\ Nil \in {type, Actual} /\ Runs("crashed")
           \/ /\ type # None /\ Nil \notin {type, Actual}
              /\ \/ Mismatch(type, Actual) /\ TypeOf(Actual) # Nil /\ Runs("mismatch")
                 \/ Mismatch(type, Actual) /\ TypeOf(Actual) = Nil /\ Runs("crashed")
                 \/ ~Mismatch(type, Actual) /\ Declare
    <3>1. call.next \in DOMAIN call.callee.takes
      BY <1>1, <1>4, IndexInRange DEF IInv
    <3> QED
      BY <1>4, <3>1 DEF CheckParameter
  <2>5. CASE Runs("failed")
    BY <1>1, <1>4, <2>5, PhaseStep
  <2>6. ASSUME Nil \in {type, Actual} \/ TypeOf(Actual) = Nil, Runs("crashed")
        PROVE  IInv'
    <3>1. Actual \in LookedInto
      BY <1>1, <1>4, IndexInRange DEF IInv, LookedInto, Actual
    <3>2. type \in LookedInto
      BY <1>4, <2>1 DEF LookedInto
    <3>3. \E v \in LookedInto : HasNoType(v)
      BY <2>6, <3>1, <3>2 DEF HasNoType
    <3> QED
      BY <1>1, <2>6, <3>3, PhaseStep
  <2>2. ASSUME type # None, Nil \notin {type, Actual}
        PROVE  type \in Object /\ Actual \in Object
    <3>1. Actual \in Value
      BY <1>1, <1>4, IndexInRange DEF IInv
    <3>2. Formal \in Parameter
      <4>1. call.callee.takes \in Seq(Parameter)
        BY <1>4, FunctionFacts, CallsWellFormed DEF IInv, TypeOK, Call
      <4>2. call.next \in 1..Len(call.callee.takes)
        BY <1>1, <1>4, IndexInRange DEF IInv
      <4> QED
        BY <4>1, <4>2 DEF Formal
    <3>3. type \in Value \cup {None}
      BY <1>4, <3>2 DEF Meaning, IInv, TypeOK, Call, Parameter
    <3> QED
      BY <2>2, <3>1, <3>3 DEF Value
  <2>3. ASSUME type \in Object, Actual \in Object, ~Mismatch(type, Actual), Declare
        PROVE  IInv'
    BY <1>1, <1>4, <2>3, DeclareStep DEF Checking
  <2>4. ASSUME type \in Object, Actual \in Object,
               Mismatch(type, Actual), Runs("mismatch")
        PROVE  IInv'
    <3>1. /\ call' \in Call /\ call'.phase = "mismatch"
          /\ call'.callee = call.callee /\ call'.args = call.args
          /\ call'.next = call.next /\ call'.table = call.table
      BY <2>4 DEF IInv, TypeOK, Call, Runs
    <3>2. TypeOK' /\ ArityFits'
      BY <1>1, <3>1 DEF IInv, TypeOK, ArityFits
    <3>3. Done' = Done
      BY <3>1 DEF Done
    <3>4. Checked'
      BY <1>1, <3>1, <3>3 DEF IInv, Checked, OfType, TypeOf
    <3>5. /\ Formal' = Formal /\ Actual' = Actual /\ Remaining'
          /\ Meaning(Formal.type)' = type
      BY <1>1, <3>1 DEF Formal, Actual, Remaining, Meaning
    <3>6. Mismatch(Meaning(Formal.type), Actual)'
      BY <1>1, <2>4, <3>5 DEF Mismatch, TypeOf
    <3>7. Phases'
      BY <1>4, <2>4, <3>1, <3>5, <3>6 DEF Phases, OnlyNullsAndCopiesCrash
    <3> QED
      BY <3>2, <3>4, <3>7 DEF IInv
  <2> QED
    BY <2>1, <2>2, <2>3, <2>4, <2>5, <2>6
<1> QED
  BY <1>1, <1>2, <1>3, <1>4

LEMMA ConvertArgumentStep == ASSUME IInv, ConvertArgument PROVE IInv'
<1>1. /\ call.phase = "checking" /\ call.callee.runs \notin {"script", "copy"} /\ Remaining
      /\ UNCHANGED <<early, globals>>
  BY DEF ConvertArgument, Checking
<1>2. CASE Runs("failed")
  BY <1>1, <1>2, PhaseStep
<1>4. CASE ~Readable /\ Runs("crashed")
  <2>1. call.next \in DOMAIN call.args
    BY <1>1, IndexInRange DEF IInv
  <2>2. Actual = Nil /\ Actual \in LookedInto
    BY <1>4, <2>1 DEF Readable, LookedInto, Actual
  <2> QED
    BY <1>1, <1>4, <2>2, PhaseStep DEF HasNoType
<1>3. CASE call' = [call EXCEPT !.next = @ + 1]
  <2>1. call.table \in [Names -> Value \cup {None}] /\ call \in Call
    BY DEF IInv, TypeOK, Call
  <2>2. call' = [call EXCEPT !.table = call.table, !.next = @ + 1]
    BY <1>3, <2>1 DEF Call
  <2>3. /\ TypeOK' /\ ArityFits' /\ Phases'
        /\ call'.callee = call.callee
    BY <1>1, <2>1, <2>2, NextStep
  <2> QED
    BY <1>1, <2>3 DEF IInv, Checked
<1> QED
  BY <1>2, <1>3, <1>4 DEF ConvertArgument

LEMMA RunStep == ASSUME IInv, Run PROVE IInv'
<1>1. call.phase = "checking" /\ ~Remaining /\ UNCHANGED <<early, globals>>
  BY DEF Run
<1>2. CASE ~Runnable /\ Runs("crashed")
  <2>1. \/ call.callee.runs = "copy"
        \/ \E i \in DOMAIN call.args : call.args[i] = Nil
    BY <1>2 DEF Runnable
  <2> QED
    BY <1>1, <1>2, <2>1, PhaseStep DEF LookedInto, HasNoType
<1>3. CASE Runnable /\ Runs("body")
  <2>1. /\ call' \in Call /\ call'.phase = "body"
        /\ call'.callee = call.callee /\ call'.args = call.args
        /\ call'.next = call.next /\ call'.table = call.table
    BY <1>3 DEF IInv, TypeOK, Call, Runs
  <2>2. TypeOK' /\ ArityFits'
    BY <1>1, <2>1 DEF IInv, TypeOK, ArityFits
  <2>3. Done' = Done
    BY <2>1 DEF Done
  <2>4. Checked'
    BY <1>1, <2>1, <2>3 DEF IInv, Checked, OfType, TypeOf
  <2>5. /\ call.callee.runs # "copy"
        /\ call.callee.runs = "type" => \A i \in DOMAIN call.args : call.args[i] # Nil
    BY <1>3 DEF Runnable
  <2>6. Phases'
    BY <1>1, <2>1, <2>5 DEF Phases, OnlyNullsAndCopiesCrash, Remaining
  <2> QED
    BY <2>2, <2>4, <2>6 DEF IInv
<1> QED
  BY <1>2, <1>3 DEF Run

LEMMA NextInvariant == IInv /\ [Next]_vars => IInv'
<1> SUFFICES ASSUME IInv, [Next]_vars PROVE IInv'
  OBVIOUS
<1>1. CASE UNCHANGED vars \/ Stop
  <2>1. UNCHANGED <<early, globals, call>>
    BY <1>1 DEF vars, Stop
  <2>2. Done' = Done /\ Remaining' = Remaining /\ Formal' = Formal /\ Actual' = Actual
    BY <2>1 DEF Done, Remaining, Formal, Actual
  <2> QED
    BY <2>1, <2>2 DEF IInv, TypeOK, ArityFits, Checked, Phases, OnlyNullsAndCopiesCrash,
                      LookedInto, HasNoType, OfType, TypeOf, Mismatch, Meaning
<1>2. CASE VarDecl
  <2>1. globals' \in [Names -> Value \cup {None}]
    BY <1>2, InReachIsValues DEF VarDecl, IInv, TypeOK
  <2> QED
    BY <1>2, <2>1, IdleStep DEF VarDecl, Idle
<1>3. CASE ClassDeclaration
  <2>1. globals' \in [Names -> Value \cup {None}]
    BY <1>3, ClassIsValue DEF ClassDeclaration, IInv, TypeOK
  <2> QED
    BY <1>3, <2>1, IdleStep DEF ClassDeclaration, Idle
<1>4. CASE Enter
  BY <1>4, EnterStep
<1>5. CASE CheckParameter
  BY <1>5, CheckParameterStep
<1>6. CASE ConvertArgument
  BY <1>6, ConvertArgumentStep
<1>7. CASE Run
  BY <1>7, RunStep
<1>8. CASE Return
  <2>1. globals' \in [Names -> Value \cup {None}]
    BY <1>8, ResultsAreValues DEF Return, IInv, TypeOK
  <2> QED
    BY <1>8, <2>1, IdleStep DEF Return
<1>9. CASE Abandon
  BY <1>9, IdleStep DEF Abandon, IInv, TypeOK
<1> QED
  BY <1>1, <1>2, <1>3, <1>4, <1>5, <1>6, <1>7, <1>8, <1>9 DEF Next

-----------------------------------------------------------------------------
(***************************************************************************)
(* The theorems.                                                           *)
(***************************************************************************)

\* Calls keep to IInv: the arity fits, and the parameters that are declared
\* are of their types.
THEOREM Invariant == Spec => []IInv
<1>1. Init => IInv
  BY InitInvariant
<1>2. IInv /\ [Next]_vars => IInv'
  BY NextInvariant
<1> QED
  BY <1>1, <1>2, PTL DEF Spec

\* Every variable has its type, whatever the script and the build.
THEOREM TypeCorrect == Spec => []TypeOK
BY Invariant, PTL DEF IInv

\* A call ends the process only for a null value, for a value without a type, or
\* because it is of a copy of a function of the host, as every one of those does.
THEOREM CrashesHaveReasons == Spec => []OnlyNullsAndCopiesCrash
BY Invariant, PTL DEF IInv, Phases

\* In the body of a script's function every parameter has been checked.
LEMMA AllDone ==
    ASSUME IInv, call.phase = "body", call.callee.runs = "script"
    PROVE  /\ Done = DOMAIN call.callee.takes
           /\ DOMAIN call.args = DOMAIN call.callee.takes
<1>1. call.callee \in Functions /\ call.next \in Nat \ {0} /\ call.args \in Seq(Value)
  BY DEF IInv, TypeOK, Call
<1>2. /\ call.callee.takes \in Seq(Parameter)
      /\ call.callee.arity = Len(call.callee.takes) /\ ~call.callee.variadic
  BY <1>1, FunctionFacts, CallsWellFormed
<1>3. ~(call.next <= Len(call.callee.takes)) /\ Len(call.args) = Len(call.callee.takes)
  BY <1>2 DEF IInv, Phases, Remaining, ArityFits
<1> QED
  BY <1>1, <1>2, <1>3 DEF Done

\* A body runs with arguments that are of the types its parameters name in the
\* sense of OfType, in which every TypeInfo is of the type of another: in every
\* build, and whatever has become of the classes since.
THEOREM BodiesGetTheirTypes == Spec => []ParametersAreOfTheirTypes
<1>1. IInv => ParametersAreOfTheirTypes
  <2> SUFFICES ASSUME IInv, call.phase = "body", call.callee.runs = "script",
                      NEW i \in Typed(call.callee.takes)
               PROVE  LET type == globals[call.callee.takes[i].type]
                      IN  /\ {type, call.args[i]} \cap {None, Nil} = {}
                          /\ OfType(type, call.args[i])
    BY DEF ParametersAreOfTheirTypes
  <2>1. i \in Done
    BY AllDone DEF Typed
  <2> QED
    BY <2>1 DEF IInv, Checked
<1> QED
  BY <1>1, Invariant, PTL

\* No null type gets past the check of a parameter.
THEOREM NoNullTypeIsAccepted == Spec => []AcceptedArgumentsHaveTypes
<1>1. IInv => AcceptedArgumentsHaveTypes
  <2> SUFFICES ASSUME IInv, call.phase = "body", call.callee.runs = "script",
                      NEW i \in DOMAIN call.args, call.callee.takes[i].type # None
               PROVE  TypeOf(call.args[i]) # Nil
    BY DEF AcceptedArgumentsHaveTypes
  <2>1. i \in Done
    BY AllDone
  <2> QED
    BY <2>1 DEF IInv, Checked
<1> QED
  BY <1>1, Invariant, PTL

\* A mismatch is reported only for an argument of another type.
THEOREM NoFalseMismatch == Spec => []MismatchesAreReal
<1>1. IInv => MismatchesAreReal
  BY MismatchDecides DEF IInv, Phases, MismatchesAreReal, OfType
<1> QED
  BY <1>1, Invariant, PTL
=============================================================================
