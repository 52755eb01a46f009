------------------------- MODULE InterpreterVisitor -------------------------
(***************************************************************************)
(* The tree-walking interpreter of SelScript: interpreter_visitor, the     *)
(* symbol tables it moves through, and the function, class and instance    *)
(* values it creates.                                                      *)
(*                                                                         *)
(* A script is not a constant: which node the interpreter visits next is   *)
(* chosen when it is visited, so the behaviours are those of every script  *)
(* over NodeKinds, Names, Signatures and ClassBodies whose evaluation      *)
(* nests at most MaxFrames activations deep.  Values that are neither      *)
(* callable nor instances are one value, Plain; a condition on it may go   *)
(* either way or fail (a TypeInfo has no boolean value).                   *)
(*                                                                         *)
(* frames is the C++ stack of Visit and Call activations; an activation    *)
(* whose node is not chosen yet is a hole ("Expr", "Statement",            *)
(* "Declaration", after the rules of the grammar).  The fields at, base    *)
(* and scope of a frame are auxiliary: m_symbolTable and m_values.size()   *)
(* when the activation began, and the table its children run in.           *)
(*                                                                         *)
(* shared_ptr and weak_ptr: every step ends by destroying the cells that   *)
(* are no longer reachable over chains of strong references from a root or *)
(* from a cycle of strong references; a weak parent that pointed to a      *)
(* destroyed table is expired, which is written None.                      *)
(***************************************************************************)
EXTENDS Naturals, Sequences, FiniteSets

CONSTANTS
    Addr,         \* addresses of heap objects: the bound on the heap
    Globals,      \* m_globals
    None,         \* null pointer, expired weak_ptr, missing symbol
    Names,        \* identifiers that occur in scripts
    OwnNames,     \* those a script declares or assigns to
    This,         \* the identifier "this"
    Builtins,     \* the names of the builtin functions
    Plain,        \* any value that is not callable and not an instance
    Builtin,      \* a builtin function (print, type, time)
    NodeKinds,    \* the AST nodes scripts are made of
    Signatures,   \* parameter lists of functions
    ClassBodies,  \* method tables of classes
    MaxFrames,    \* bound on the nesting of activations
    MaxArgs,      \* bound on the arguments of a call
    MaxStale,     \* bound on operands left over by failed scripts
    Retries       \* whether the embedder goes on after a script that failed

ASSUME AddressesDistinct ==
    /\ Globals \notin Addr /\ None \notin Addr \cup {Globals}
    /\ {Plain, Builtin} \cap (Addr \cup {Globals, None}) = {}
    /\ None \notin Names
    /\ IsFiniteSet(Addr)

ASSUME ScriptsWellFormed ==
    /\ {This} \cup OwnNames \cup Builtins \subseteq Names
    /\ Signatures \subseteq Seq(Names)
    /\ ClassBodies \subseteq [Names -> Signatures \cup {None}]
    /\ <<>> \in Signatures

ASSUME BoundsAreNumbers == MaxFrames \in Nat /\ MaxArgs \in Nat /\ MaxStale \in Nat

ASSUME RetriesIsBoolean == Retries \in BOOLEAN

VARIABLES
    frames,   \* the C++ activations, innermost last
    values,   \* m_values, top last
    last,     \* m_lastValue
    cur,      \* m_symbolTable
    heap,     \* every shared object
    status,   \* "idle", "running", "returning" (a value in flight), "crashed"
    thrown,   \* the value in flight
    failure   \* how the last Interpret ended, if by an exception

control == <<status, thrown, failure>>
vars == <<frames, values, last, cur, heap, status, thrown, failure>>

-----------------------------------------------------------------------------
(***************************************************************************)
(* Data.                                                                   *)
(***************************************************************************)
Ref == Addr \cup {Globals}
Value == Addr \cup {Plain, Builtin}

\* Activations with a child that leaves a value, with a child that does not,
\* and with no child.
Awaiting == {"BinRhs", "BinLhs", "Unary", "LogicLhs", "LogicRhs", "Assign",
             "Callee", "Arg", "AnonInst", "Get", "SetLhs", "SetRhs",
             "ExprStmt", "If", "LoopCond", "VarDecl", "Return"}
Holders == {"Program", "Block", "Body", "Ctor", "AnonBody", "LoopBody"}
Childless == {"Expr", "Statement", "Declaration", "Args"}
Ops == Awaiting \cup Holders \cup Childless

StatementLists == {"Program", "Block", "Body", "Ctor", "AnonBody"}
Catchers == {"Body", "AnonBody"}   \* catch (BaseValuePtr &)

Frame == [op : Ops, prev : Ref \cup {None}, locals : Seq(Value \cup {None}),
          at : Ref, base : Nat, scope : Ref]

Cell == [tag : {"free", "table", "function", "class", "instance"},
         parent : Ref \cup {None},     \* weak: SymbolTable::m_parentScope
         link : Ref \cup {None},       \* strong: a closure, an instance's class
         bound : Ref \cup {None},      \* strong: Function::m_boundInstance
         symbols : [Names -> Value \cup {None}],
         params : Seq(Names) \cup {None},  \* None: a function without a body
         methods : [Names -> Signatures \cup {None}],
         name : Names \cup {None}]     \* the name of a class

NoSymbols == [n \in Names |-> None]
FreeCell == [tag |-> "free", parent |-> None, link |-> None, bound |-> None,
             symbols |-> NoSymbols, params |-> None, methods |-> NoSymbols,
             name |-> None]

\* Mutant of Table: a scope that is not linked to the one around it.
OrphanTable(parent, symbols) ==
    [FreeCell EXCEPT !.tag = "table", !.symbols = symbols]

Table(parent, symbols) ==
    [FreeCell EXCEPT !.tag = "table", !.parent = parent, !.symbols = symbols]
Function(closure, params) ==
    [FreeCell EXCEPT !.tag = "function", !.link = closure, !.params = params]
Class(n, closure, methods) ==
    [FreeCell EXCEPT !.tag = "class", !.name = n, !.link = closure,
                     !.methods = methods]
Instance(class) == [FreeCell EXCEPT !.tag = "instance", !.link = class]

\* Mutant of Bound: the table of "this" does not have the globals for parent.
BoundToThisOnly(instance, params) ==
    [FreeCell EXCEPT !.tag = "function", !.bound = instance, !.params = params,
                     !.symbols = [NoSymbols EXCEPT ![This] = instance]]

\* Instance::Bind: a copy of the function whose closure is a table of its own
\* that holds "this" and has the globals for parent.  Nothing else refers to
\* that table, so it is kept in the cell of the copy.
Bound(instance, params) ==
    [FreeCell EXCEPT !.tag = "function", !.bound = instance, !.params = params,
                     !.parent = Globals,
                     !.symbols = [NoSymbols EXCEPT ![This] = instance]]

Is(v, tag) == v \in Addr /\ heap[v].tag = tag

-----------------------------------------------------------------------------
(***************************************************************************)
(* Symbol tables.                                                          *)
(***************************************************************************)

\* The table a lookup of n starting in t ends at, at most one: the lookup
\* passes a table that does not declare n for its parent, and sees the smallest
\* set of tables that is closed under this.
FindSymbol(t, n) ==
    LET declaring == {s \in Ref : heap[s].symbols[n] # None}
        closed == {X \in SUBSET Ref :
                      /\ t \in X
                      /\ \A s \in X \ declaring : heap[s].parent \in X \cup {None}}
    IN  {s \in declaring : \A X \in closed : s \in X}

Declare(h, t, n, v) == [h EXCEPT ![t].symbols[n] = v]

-----------------------------------------------------------------------------
(***************************************************************************)
(* Reference counting.                                                     *)
(***************************************************************************)
\* Cell c refers to a strongly.
Holds(c, a) == a = c.link \/ a = c.bound \/ \E n \in Names : a = c.symbols[n]

Roots == {Globals, cur, last, thrown}
         \cup {values[i] : i \in DOMAIN values}
         \cup {frames[i].prev : i \in DOMAIN frames}
         \cup UNION {{frames[i].locals[j] : j \in DOMAIN frames[i].locals} :
                        i \in DOMAIN frames}

\* The heap h less all but the cells in kept.
Keeping(h, kept) ==
    [a \in Ref |-> IF a \in kept
                   THEN [h[a] EXCEPT !.parent = IF @ \in kept THEN @ ELSE None]
                   ELSE FreeCell]

\* Given what is pointed to from outside the heap (rooted): the other objects,
\* who holds each of them, and the largest set of them that are each held by an
\* object that remains.
Unrooted(h, rooted) == {a \in Ref \ rooted : h[a].tag # "free"}
HeldBy(h, rooted, others) == [a \in others |-> {b \in rooted \cup others : Holds(h[b], a)}]
Surviving(rooted, heldBy) ==
    UNION {X \in SUBSET DOMAIN heldBy : \A a \in X : heldBy[a] \cap (rooted \cup X) # {}}

\* The heap becomes new less the cells whose reference count is now zero.
Retain(new) ==
    \E h \in {new}, rooted \in {Ref \cap Roots'} :
    \E heldBy \in {HeldBy(h, rooted, Unrooted(h, rooted))} :
    \E kept \in {rooted \cup Surviving(rooted, heldBy)} : heap' = Keeping(h, kept)

Free == {a \in Addr : heap[a].tag = "free"}

\* A new address; which one is not observable.
Fresh(taken) == CHOOSE a \in Free \ taken : TRUE

-----------------------------------------------------------------------------
(***************************************************************************)
(* Activations.                                                            *)
(***************************************************************************)
Top == frames[Len(frames)]
Callers == SubSeq(frames, 1, Len(frames) - 1)

At(op) == status = "running" /\ frames # <<>> /\ Top.op = op
AtStatement == At("Statement") \/ At("Declaration")

\* n more activations fit.
Room(n) == Len(frames) + n <= MaxFrames

Activation(op) == [op |-> op, prev |-> None, locals |-> <<>>,
                   at |-> cur, base |-> Len(values'), scope |-> cur]

\* The innermost activation goes on as f, or as f with a child to visit, or
\* is over.
Become(f) == frames' = [frames EXCEPT ![Len(frames)] = f]
Visit(f, child) ==
    frames' = Append([frames EXCEPT ![Len(frames)] = f], Activation(child))
Finish == frames' = Callers

Evaluate(op) == Visit([Top EXCEPT !.op = op], "Expr")

\* The top of m_values, what PopValue leaves below it, and PopValue itself.
Operand == values[Len(values)]
Rest == SubSeq(values, 1, Len(values) - 1)
\* Mutant of PopValue: m_values.top() without m_values.pop().
PeekValue == last' = Operand /\ UNCHANGED values

PopValue == last' = Operand /\ values' = Rest

\* A std::exception: nothing between the throw and the caller of Interpret
\* handles one, or restores m_symbolTable or m_values.
Raise(kind, n) == /\ frames' = <<>>
                  /\ status' = "idle"
                  /\ failure' = [kind |-> kind, name |-> n]
                  /\ UNCHANGED thrown

\* A null pointer is dereferenced, or an Integer divided by zero.
Crash == status' = "crashed" /\ UNCHANGED <<frames, cur, thrown, failure>>

\* Mutant of Throw: nothing is thrown.
ThrowNothing(v) == /\ Finish
                   /\ status' = "returning"
                   /\ UNCHANGED <<thrown, failure>>

\* A BaseValuePtr is thrown by the innermost activation.
Throw(v) == /\ Finish
            /\ thrown' = v
            /\ status' = "returning"
            /\ UNCHANGED failure

-----------------------------------------------------------------------------
(***************************************************************************)
(* Expressions: every one that ends leaves one value on m_values.          *)
(***************************************************************************)
Uses(kind) == kind \in NodeKinds

\* A node with a first child, visited in place of an expression hole.
BeginExpr(kind, op) == /\ Uses(kind) /\ At("Expr") /\ Room(1)
                       /\ UNCHANGED <<values, last, cur, control>>
                       /\ Evaluate(op)
                       /\ Retain(heap)

\* A lookup that fails, once the operands are as v says.
NotFound(n) == FindSymbol(cur, n) = {} /\ Raise("scope", n) /\ UNCHANGED cur

Literal == /\ At("Expr")
           /\ values' = Append(values, Plain)
           /\ Finish
           /\ UNCHANGED <<last, cur, control>>
           /\ Retain(heap)

Identifier ==
    /\ Uses("Identifier") /\ At("Expr")
    /\ UNCHANGED last
    /\ \E n \in Names :
          \/ /\ \E s \in FindSymbol(cur, n) :
                   values' = Append(values, heap[s].symbols[n])
             /\ Finish
             /\ UNCHANGED <<cur, control>>
          \/ NotFound(n) /\ UNCHANGED values
    /\ Retain(heap)

\* ArithmeticOp and ComparisonOp: the right operand is evaluated first and
\* waits on m_values for the left one; only a left operand with operators of
\* its own has a result.  An Integer divided by zero ends the process.
BinaryOp ==
    \/ BeginExpr("BinaryOp", "BinRhs")
    \/ /\ At("BinRhs")
       /\ UNCHANGED <<values, last, cur, control>>
       /\ Evaluate("BinLhs")
       /\ Retain(heap)
    \/ /\ At("BinLhs")
       /\ LET rhs == values[Len(values) - 1]
              below == SubSeq(values, 1, Len(values) - 2)
          IN  /\ last' = rhs
              /\ \/ /\ Operand = Plain
                    /\ values' = Append(below, Plain)
                    /\ Finish
                    /\ UNCHANGED control
                 \/ values' = below /\ Raise("other", None)
                 \/ Operand = Plain /\ values' = below /\ Crash
       /\ UNCHANGED cur
       /\ Retain(heap)

Unary ==
    \/ BeginExpr("Unary", "Unary")
    \/ /\ At("Unary")
       /\ last' = Operand
       /\ \/ /\ Operand = Plain
             /\ UNCHANGED <<values, control>>
             /\ Finish
          \/ values' = Rest /\ Raise("other", None)
       /\ UNCHANGED cur
       /\ Retain(heap)

\* Either operand may decide alone; the one that does is converted to Boolean.
LogicOp ==
    \/ BeginExpr("LogicOp", "LogicLhs")
    \/ /\ At("LogicLhs")
       /\ last' = Operand
       /\ \/ /\ Operand = Plain
             /\ UNCHANGED <<values, control>>
             /\ Finish
          \/ /\ Operand = Plain
             /\ values' = Rest
             /\ UNCHANGED control
             /\ Evaluate("LogicRhs")
          \/ values' = Rest /\ Raise("other", None)
       /\ UNCHANGED cur
       /\ Retain(heap)
    \/ /\ At("LogicRhs")
       /\ last' = Operand
       /\ \/ /\ Operand = Plain
             /\ UNCHANGED <<values, control>>
             /\ Finish
          \/ values' = Rest /\ Raise("other", None)
       /\ UNCHANGED cur
       /\ Retain(heap)

Assignment ==
    \/ BeginExpr("Assignment", "Assign")
    \/ /\ At("Assign")
       /\ last' = Operand
       /\ \E n \in OwnNames :
             \/ \E s \in FindSymbol(cur, n) :
                   /\ UNCHANGED <<values, cur, control>>
                   /\ Finish
                   /\ Retain(Declare(heap, s, n, Operand))
             \/ NotFound(n) /\ values' = Rest /\ Retain(heap)

\* Instance::GetMember and, for a function, Instance::Bind.
GetExpression ==
    \/ BeginExpr("Get", "Get")
    \/ /\ At("Get") /\ Is(Operand, "instance")
       /\ last' = Operand
       /\ UNCHANGED cur
       /\ \E n \in Names :
             LET field == heap[Operand].symbols[n]
                 method == heap[heap[Operand].link].methods[n]
                 member == IF field # None THEN field ELSE method
                 copy == Fresh({})
                 Give(v) == values' = Append(Rest, v) /\ Finish /\ UNCHANGED control
                 GiveBound(params) == /\ Free # {}
                                      /\ Give(copy)
                                      /\ Retain([heap EXCEPT ![copy] = Bound(Operand, params)])
             IN  \/ field # None /\ Is(field, "function") /\ GiveBound(heap[field].params)
                 \/ field = Builtin /\ GiveBound(None)
                 \/ /\ field # None /\ field # Builtin /\ ~Is(field, "function")
                    /\ Give(field)
                    /\ Retain(heap)
                 \/ field = None /\ method # None /\ GiveBound(method)
                 \/ /\ member = None
                    /\ values' = Rest
                    /\ Raise("member", n)
                    /\ Retain(heap)
    \/ /\ At("Get") /\ ~Is(Operand, "instance")
       /\ PopValue /\ Crash
       /\ Retain(heap)

\* The left side is cast to an instance when it is popped, but used only
\* after the right side.
SetExpression ==
    \/ BeginExpr("Set", "SetLhs")
    \/ /\ At("SetLhs")
       /\ PopValue
       /\ UNCHANGED <<cur, control>>
       /\ Visit([Top EXCEPT !.op = "SetRhs",
                            !.locals = <<IF Is(Operand, "instance") THEN Operand ELSE None>>],
                "Expr")
       /\ Retain(heap)
    \/ /\ At("SetRhs") /\ Top.locals[1] \in Addr
       /\ last' = Operand
       /\ UNCHANGED <<values, cur, control>>
       /\ Finish
       /\ \E n \in OwnNames : Retain(Declare(heap, Top.locals[1], n, Operand))
    \/ /\ At("SetRhs") /\ Top.locals[1] \notin Addr
       /\ PopValue /\ Crash
       /\ Retain(heap)

-----------------------------------------------------------------------------
(***************************************************************************)
(* Calls.  locals[1] is the callee, the rest are the arguments.            *)
(***************************************************************************)
Callee == Top.locals[1]
Args == SubSeq(Top.locals, 2, Len(Top.locals))

\* The symbols of a call's table once the first k parameters are declared;
\* of two parameters with one name the later wins.
Parameters(params, args, k) ==
    [n \in Names |->
        LET named == {i \in 1..k : params[i] = n}
        IN  IF named = {} THEN None
            ELSE args[CHOOSE i \in named : \A j \in named : j <= i]]

\* Mutants of Home: dynamic scoping, a function sees the scope of its caller; and
\* Instance::Bind leaves the copy its closure.
CallerScope(f) == cur

UnboundHome(f) == IF heap[f].link # None THEN heap[f].link ELSE Globals

\* The scope a function's table hangs below (EnterFunction).
Home(f) == IF heap[f].bound # None THEN f
           ELSE IF heap[f].link # None THEN heap[f].link ELSE Globals

\* What a parameter's type can be called for it not to be found, by a lookup that
\* starts in the call's table, where the earlier parameters are declared, and
\* goes on in home.
UnknownTypes(home, declared) ==
    {t \in Names : declared[t] = None /\ FindSymbol(home, t) = {}}

\* An argument is not of its parameter's type, or that type is not found.
Refuse(unknown) == Raise("other", None) \/ \E t \in unknown : Raise("scope", t)

\* A user function's Call: its parameters are checked and declared one by one,
\* and one that is refused leaves the earlier ones declared, in a table nobody
\* leaves.
CallFunction(params) ==
    LET table == Fresh({})
        Entered(k) == [heap EXCEPT ![table] =
                          Table(Home(Callee), Parameters(params, Args, k))]
    IN  /\ Free # {}
        /\ cur' = table
        /\ \/ /\ Become([Top EXCEPT !.op = "Body", !.prev = cur, !.scope = table])
              /\ UNCHANGED control
              /\ Retain(Entered(Len(params)))
           \/ \E k \in 0..(Len(params) - 1) :
                 /\ Refuse(UnknownTypes(Home(Callee), Parameters(params, Args, k)))
                 /\ Retain(Entered(k))

\* Mutant of CallClass: "this" is declared in the instance, which holds itself.
CallDeclaringThis(params) ==
    LET outer == Fresh({})
        instance == Fresh({outer})
        constructor == Fresh({outer, instance})
        inner == Fresh({outer, instance, constructor})
    IN  /\ Cardinality(Free) >= 4
        /\ cur' = inner
        /\ frames' = Append(
              [frames EXCEPT ![Len(frames)] =
                  [Top EXCEPT !.op = "Body", !.prev = cur, !.scope = outer]],
              [op |-> "Ctor", prev |-> outer, locals |-> <<instance, constructor>>,
               at |-> outer, base |-> Len(values), scope |-> inner])
        /\ UNCHANGED control
        /\ Retain([heap EXCEPT
              ![outer] = Table(heap[Callee].link, NoSymbols),
              ![instance] = [Instance(Callee) EXCEPT !.symbols[This] = instance],
              ![constructor] = Bound(instance, params),
              ![inner] = Table(constructor, Parameters(params, Args, Len(params)))])

\* Class::Call: a table for the call, the instance, the constructor bound to
\* it, and a table for the constructor, from which a lookup goes on in the table
\* of "this" and in the globals.
CallClass(params) ==
    LET outer == Fresh({})
        instance == Fresh({outer})
        constructor == Fresh({outer, instance})
        inner == Fresh({outer, instance, constructor})
        Entered(k) ==
            [heap EXCEPT ![outer] = Table(heap[Callee].link, NoSymbols),
                         ![instance] = Instance(Callee),
                         ![constructor] = Bound(instance, params),
                         ![inner] = Table(constructor, Parameters(params, Args, k))]
    IN  /\ Cardinality(Free) >= 4
        /\ cur' = inner
        /\ \/ /\ frames' = Append(
                     [frames EXCEPT ![Len(frames)] =
                         [Top EXCEPT !.op = "Body", !.prev = cur, !.scope = outer]],
                     [op |-> "Ctor", prev |-> outer,
                      locals |-> <<instance, constructor>>,
                      at |-> outer, base |-> Len(values), scope |-> inner])
              /\ UNCHANGED control
              /\ Retain(Entered(Len(params)))
           \/ \E k \in 0..(Len(params) - 1) :
                 /\ Refuse(UnknownTypes(Globals, Parameters(params, Args, k)) \ {This})
                 /\ Retain(Entered(k))

\* Callable::Call of whatever the callee turned out to be.
Dispatch ==
    \/ /\ Callee = Builtin
       /\ \/ values' = Append(values, Plain) /\ Finish /\ UNCHANGED control
          \/ UNCHANGED values /\ Raise("other", None)
       /\ UNCHANGED <<last, cur>>
       /\ Retain(heap)
    \/ /\ Is(Callee, "function")
       /\ UNCHANGED <<values, last>>
       /\ LET params == heap[Callee].params
          IN  \/ params # None /\ Len(params) = Len(Args) /\ CallFunction(params)
              \/ /\ params # None => Len(params) # Len(Args)
                 /\ Raise("other", None)
                 /\ UNCHANGED cur
                 /\ Retain(heap)
              \/ params = None /\ Crash /\ Retain(heap)
    \/ /\ Is(Callee, "class")
       /\ UNCHANGED <<values, last>>
       /\ LET class == heap[Callee]
              params == class.methods[class.name]
          IN  \/ params # None /\ Len(params) = Len(Args) /\ CallClass(params)
              \/ /\ params # None /\ Len(params) # Len(Args)
                 /\ Raise("other", None)
                 /\ UNCHANGED cur
                 /\ Retain(heap)
              \/ /\ params = None
                 /\ Raise("constructor", class.name)
                 /\ UNCHANGED cur
                 /\ Retain(heap)
    \/ /\ Callee = Plain \/ Is(Callee, "instance")
       /\ UNCHANGED <<values, last>> /\ Crash
       /\ Retain(heap)

\* Mutants of Return: m_symbolTable is not restored, and the operands below the
\* value are lost.
ReturnWithoutExit(v) == /\ values' = Append(values, v)
                        /\ Finish
                        /\ status' = "running"
                        /\ thrown' = None
                        /\ UNCHANGED <<last, cur, failure>>
                        /\ Retain(heap)

ReturnAlone(v) == /\ cur' = Top.prev
                  /\ values' = <<v>>
                  /\ Finish
                  /\ status' = "running"
                  /\ thrown' = None
                  /\ UNCHANGED <<last, failure>>
                  /\ Retain(heap)

\* The end of the activation that called: ExitFunction, and a value.
Return(v) == /\ cur' = Top.prev
             /\ values' = Append(values, v)
             /\ Finish
             /\ status' = "running"
             /\ thrown' = None
             /\ UNCHANGED <<last, failure>>
             /\ Retain(heap)

Call ==
    \/ BeginExpr("Call", "Callee")
    \/ /\ At("Callee")
       /\ PopValue
       /\ Become([Top EXCEPT !.op = "Args", !.locals = <<Operand>>])
       /\ UNCHANGED <<cur, control>>
       /\ Retain(heap)
    \/ /\ At("Args") /\ Len(Args) < MaxArgs
       /\ UNCHANGED <<values, last, cur, control>>
       /\ Evaluate("Arg")
       /\ Retain(heap)
    \/ /\ At("Arg")
       /\ PopValue
       /\ Become([Top EXCEPT !.op = "Args", !.locals = Append(@, Operand)])
       /\ UNCHANGED <<cur, control>>
       /\ Retain(heap)
    \/ At("Args") /\ Dispatch
    \/ At("Body") /\ Return(Plain)

\* The end of Class::Call: the instance is thrown.
EndConstructor == /\ At("Ctor")
                  /\ cur' = Top.prev
                  /\ Throw(Top.locals[1])
                  /\ UNCHANGED <<values, last>>
                  /\ Retain(heap)

\* Mutant of AnonymousMethod: its function is called as it is, without Bind, so its
\* closure is the scope it stands in.
AnonymousMethodUnbound ==
    \/ BeginExpr("AnonymousMethod", "AnonInst")
    \/ /\ At("AnonInst") /\ Is(Operand, "instance") /\ Cardinality(Free) >= 2
       /\ PopValue
       /\ LET method == Fresh({})
              table == Fresh({method})
          IN  /\ cur' = table
              /\ Become([Top EXCEPT !.op = "AnonBody", !.prev = cur, !.scope = table,
                                    !.locals = <<Operand, method>>])
              /\ UNCHANGED control
              /\ Retain([heap EXCEPT ![method] = Function(cur, <<>>),
                                     ![table] = Table(cur, NoSymbols)])
    \/ At("AnonInst") /\ ~Is(Operand, "instance") /\ PopValue /\ Crash /\ Retain(heap)
    \/ At("AnonBody") /\ Return(Top.locals[1])

AnonymousMethod ==
    \/ BeginExpr("AnonymousMethod", "AnonInst")
    \/ /\ At("AnonInst") /\ Is(Operand, "instance") /\ Cardinality(Free) >= 2
       /\ PopValue
       /\ LET method == Fresh({})
              table == Fresh({method})
          IN  /\ cur' = table
              /\ Become([Top EXCEPT !.op = "AnonBody", !.prev = cur, !.scope = table,
                                    !.locals = <<Operand, method>>])
              /\ UNCHANGED control
              /\ Retain([heap EXCEPT ![method] = Bound(Operand, <<>>),
                                     ![table] = Table(method, NoSymbols)])
    \/ /\ At("AnonInst") /\ ~Is(Operand, "instance")
       /\ PopValue /\ Crash
       /\ Retain(heap)
    \/ At("AnonBody") /\ Return(Top.locals[1])

\* A value in flight: caught by the call it returns from, else it unwinds one
\* activation, none of which restores the symbol table, else it leaves Interpret.
Catch == /\ status = "returning" /\ Top.op \in Catchers
         /\ Return(thrown)

Unwind == /\ status = "returning" /\ Top.op \notin Catchers \cup {"Program"}
          /\ Finish
          /\ UNCHANGED <<values, last, cur, control>>
          /\ Retain(heap)

Escape == /\ status = "returning" /\ Top.op = "Program"
          /\ Finish
          /\ status' = "idle"
          /\ thrown' = None
          /\ failure' = [kind |-> "value", name |-> None]
          /\ UNCHANGED <<values, last, cur>>
          /\ Retain(heap)

\* std::make_shared throws when the heap is exhausted.
BadAlloc == /\ \/ At("Args") /\ UNCHANGED <<values, last>>
               \/ (At("Get") \/ At("AnonInst")) /\ PopValue
            /\ Cardinality(Free) < 4
            /\ Raise("other", None)
            /\ UNCHANGED cur
            /\ Retain(heap)

-----------------------------------------------------------------------------
(***************************************************************************)
(* Statements: m_values is as before when one ends.                        *)
(***************************************************************************)

\* A statement that starts by evaluating an expression.
BeginStatement(kind, op) == /\ Uses(kind) /\ AtStatement /\ Room(1)
                            /\ UNCHANGED <<values, last, cur, control>>
                            /\ Evaluate(op)
                            /\ Retain(heap)

ExpressionStatement ==
    \/ BeginStatement("ExpressionStatement", "ExprStmt")
    \/ /\ At("ExprStmt")
       /\ PopValue
       /\ Finish
       /\ UNCHANGED <<cur, control>>
       /\ Retain(heap)

\* Nothing is left to do after the branch that is taken, so its statement
\* goes on in the activation of the If.
IfStatement ==
    \/ BeginStatement("If", "If")
    \/ /\ At("If")
       /\ PopValue
       /\ \/ /\ Operand = Plain
             /\ \/ Become([Top EXCEPT !.op = "Statement"])
                \/ Finish   \* false, without an else
             /\ UNCHANGED control
          \/ Raise("other", None)
       /\ UNCHANGED cur
       /\ Retain(heap)

Loop ==
    \/ Room(2) /\ BeginStatement("Loop", "LoopCond")
    \/ /\ At("LoopCond")
       /\ PopValue
       /\ \/ /\ Operand = Plain
             /\ \/ Visit([Top EXCEPT !.op = "LoopBody"], "Statement")
                \/ Finish
             /\ UNCHANGED control
          \/ Raise("other", None)
       /\ UNCHANGED cur
       /\ Retain(heap)
    \/ /\ At("LoopBody")
       /\ UNCHANGED <<values, last, cur, control>>
       /\ Evaluate("LoopCond")
       /\ Retain(heap)

VarDecl ==
    \/ At("Declaration") /\ BeginStatement("VarDecl", "VarDecl")
    \/ /\ Uses("VarDecl") /\ At("Declaration")
       /\ Finish
       /\ UNCHANGED <<values, last, cur, control>>
       /\ \E n \in OwnNames : Retain(Declare(heap, cur, n, Plain))
    \/ /\ At("VarDecl")
       /\ PopValue
       /\ Finish
       /\ UNCHANGED <<cur, control>>
       /\ \E n \in OwnNames : Retain(Declare(heap, cur, n, Operand))

StatementBlock ==
    \/ /\ Uses("Block") /\ AtStatement /\ Room(2) /\ Free # {}
       /\ LET table == Fresh({})
          IN  /\ cur' = table
              /\ Become([Top EXCEPT !.op = "Block", !.prev = cur, !.scope = table])
              /\ UNCHANGED <<values, last, control>>
              /\ Retain([heap EXCEPT ![table] = Table(cur, NoSymbols)])
    \/ /\ At("Block")
       /\ cur' = Top.prev
       /\ Finish
       /\ UNCHANGED <<values, last, control>>
       /\ Retain(heap)

ReturnStatement ==
    \/ BeginStatement("Return", "Return")
    \/ /\ Uses("Return") /\ AtStatement
       /\ Throw(Plain)
       /\ UNCHANGED <<values, last, cur>>
       /\ Retain(heap)
    \/ /\ At("Return")
       /\ PopValue
       /\ Throw(Operand)
       /\ UNCHANGED cur
       /\ Retain(heap)

\* The closure is the table of the declaration.
FunctionDeclaration ==
    /\ Uses("Function") /\ At("Declaration") /\ Free # {}
    /\ Finish
    /\ UNCHANGED <<values, last, cur, control>>
    /\ \E n \in OwnNames, params \in Signatures :
          LET f == Fresh({})
          IN  Retain(Declare([heap EXCEPT ![f] = Function(cur, params)], cur, n, f))

\* Each method holds the table of the declaration, and the class its methods.
ClassDeclaration ==
    /\ Uses("Class") /\ At("Declaration") /\ Free # {}
    /\ Finish
    /\ UNCHANGED <<values, last, cur, control>>
    /\ \E n \in OwnNames, methods \in ClassBodies :
          LET c == Fresh({})
              closure == IF methods = NoSymbols THEN None ELSE cur
          IN  Retain(Declare([heap EXCEPT ![c] = Class(n, closure, methods)], cur, n, c))

\* The statements of a program, a block or a body, one after the other.
NextStatement == /\ status = "running" /\ frames # <<>> /\ Top.op \in StatementLists
                 /\ Room(2)
                 /\ UNCHANGED <<values, last, cur, control>>
                 /\ Visit(Top, "Declaration")
                 /\ Retain(heap)

-----------------------------------------------------------------------------
(***************************************************************************)
(* The interpreter and its embedder.                                       *)
(***************************************************************************)
NoFailure == [kind |-> "none", name |-> None]

Init == /\ frames = <<>>
        /\ values = <<>>
        /\ last = None
        /\ cur = Globals
        /\ heap = [a \in Ref |->
                      IF a = Globals
                      THEN Table(None, [n \in Names |-> IF n \in Builtins THEN Builtin ELSE None])
                      ELSE FreeCell]
        /\ status = "idle"
        /\ thrown = None
        /\ failure = NoFailure

Interpret == /\ status = "idle" /\ Len(values) <= MaxStale
             /\ failure = NoFailure \/ Retries
             /\ status' = "running"
             /\ failure' = NoFailure
             /\ UNCHANGED <<values, last, cur, thrown>>
             /\ frames' = <<Activation("Program")>>
             /\ Retain(heap)

EndProgram == /\ At("Program")
              /\ status' = "idle"
              /\ Finish
              /\ UNCHANGED <<values, last, cur, thrown, failure>>
              /\ Retain(heap)

\* The embedder calls no more, or the process is gone.
Quit == status \in {"idle", "crashed"} /\ UNCHANGED vars

Step == \/ Literal \/ Identifier \/ BinaryOp \/ Unary \/ LogicOp \/ Assignment
        \/ GetExpression \/ SetExpression \/ Call \/ AnonymousMethod
        \/ ExpressionStatement \/ IfStatement \/ Loop \/ VarDecl
        \/ StatementBlock \/ ReturnStatement \/ FunctionDeclaration
        \/ ClassDeclaration \/ NextStatement \/ EndConstructor
        \/ Catch \/ Unwind \/ Escape \/ BadAlloc \/ EndProgram

Next == Interpret \/ Step \/ Quit

Spec == Init /\ [][Next]_vars

-----------------------------------------------------------------------------
(***************************************************************************)
(* Properties.                                                             *)
(***************************************************************************)

\* Every variable has its type: an instance has a class, and the C++ locals
\* that the handlers use without a test hold what the handlers expect.
TypeOK ==
    /\ frames \in Seq(Frame)
    /\ \A i \in DOMAIN frames :
          /\ frames[i].op \in Catchers \cup {"Block", "Ctor"} => frames[i].prev \in Ref
          /\ frames[i].op \in Catchers \cup {"Ctor", "Args", "Arg"} =>
                frames[i].locals # <<>> /\ frames[i].locals[1] \in Value
          /\ frames[i].op = "SetRhs" => frames[i].locals # <<>>
    /\ values \in Seq(Value)
    /\ last \in Value \cup {None}
    /\ cur \in Ref
    /\ heap \in [Ref -> Cell]
    /\ \A a \in Ref : heap[a].tag = "instance" => heap[a].link \in Ref
    /\ status \in {"idle", "running", "returning", "crashed"}
    /\ thrown \in Value \cup {None}
    /\ status = "returning" <=> thrown # None
    /\ failure \in [kind : {"none", "scope", "member", "constructor", "other", "value"},
                    name : Names \cup {None}]

\* The operands an activation leaves on m_values while its child is visited.
Pending(op) == IF op = "BinLhs" THEN 1 ELSE 0

\* Expressions stand where a value is awaited and statements where none is, so
\* a return never unwinds an activation that has operands waiting.
Nested ==
    /\ frames # <<>> => frames[1].op = "Program"
    /\ \A i \in 1..(Len(frames) - 1) :
          LET op == frames[i + 1].op
          IN  IF op \in {"ExprStmt", "If", "LoopCond", "LoopBody", "VarDecl", "Return",
                         "Block", "Ctor", "Statement", "Declaration"}
              THEN frames[i].op \in Holders
              ELSE frames[i].op \in Awaiting /\ op # "Program"
    /\ status = "returning" => frames # <<>> /\ Top.op \in Holders

Balanced ==
    /\ \A i \in 1..(Len(frames) - 1) :
          frames[i + 1].base = frames[i].base + Pending(frames[i].op)
    /\ frames # <<>> /\ status \in {"running", "returning"} =>
          Len(values) = Top.base + Pending(Top.op)
                        + IF Top.op \in Awaiting THEN 1 ELSE 0

\* Every Visit leaves m_values as it found it, plus one value if it is an
\* expression: no handler pops an operand that belongs to another activation
\* or leaves one behind, even when a return unwinds several of them.
ValuesBalanced == Nested /\ Balanced

\* Whatever a block, a call, a constructor or an anonymous method does to
\* m_symbolTable, and however it ends, the activation around it goes on in the
\* table it was in.
ScopesRestored ==
    /\ \A i \in 1..(Len(frames) - 1) : frames[i + 1].at = frames[i].scope
    /\ frames # <<>> /\ status = "running" => cur = Top.scope
    /\ \A i \in DOMAIN frames :
          IF frames[i].op \in Catchers \cup {"Block", "Ctor"}
          THEN frames[i].prev = frames[i].at
          ELSE frames[i].scope = frames[i].at

\* The scope an activation must hang below: a block's below the scope it stands
\* in, a function's below its closure, a method's below the table of "this".
ParentOf(f) ==
    IF f.op = "Block" THEN f.at
    ELSE IF f.op # "Body" THEN f.locals[2]
    ELSE IF heap[f.locals[1]].tag = "class" THEN heap[f.locals[1]].link
    ELSE Home(f.locals[1])

\* Names are scoped statically and, the parent being held only weakly, the
\* scope above a running block or call never expires while it runs.
ScopesIntact ==
    status = "running" => \A i \in DOMAIN frames :
        frames[i].op \in Catchers \cup {"Block", "Ctor"} =>
            /\ heap[frames[i].scope].tag = "table"
            /\ heap[frames[i].scope].parent = ParentOf(frames[i])
            /\ ParentOf(frames[i]) # None

\* What starts in a table of its own, or in the table a script was given; the
\* blocks, statements and expressions in it run in that table or below it.
Outsets == Catchers \cup {"Program", "Ctor"}
OutsetOf(i) == CHOOSE j \in 1..i : /\ frames[j].op \in Outsets
                                   /\ \A k \in (j + 1)..i : frames[k].op \notin Outsets

\* It stands in a scope that is neither the globals nor the table of a "this":
\* that of a script that failed before, or that of a nested declaration.
InClosure(f) == \/ f.op = "Program" /\ f.scope # Globals
                \/ f.op = "Body" /\ heap[f.locals[1]].bound = None /\ ParentOf(f) # Globals

\* Only code of a closure may lose the globals when scopes are destroyed around
\* it.  Everything else that runs sees all of them, in however many blocks and
\* wherever it was called from, when it goes on after any call it makes.
GlobalsAreSeen ==
    status = "running" => \A i \in DOMAIN frames :
        ~ InClosure(frames[OutsetOf(i)]) =>
            \A n \in Names :
                heap[Globals].symbols[n] # None => FindSymbol(frames[i].scope, n) # {}

\* The code of a method, a constructor or an anonymous method; its instance, and
\* what Instance::Bind made for it.
IsMethod(f) == \/ f.op \in {"Ctor", "AnonBody"}
               \/ f.op = "Body" /\ heap[f.locals[1]].bound # None
InstanceOf(f) == IF f.op = "Body" THEN heap[f.locals[1]].bound ELSE f.locals[1]
BoundFor(f) == IF f.op = "Body" THEN f.locals[1] ELSE f.locals[2]

\* In the code of a method, in however many blocks and after whatever calls it
\* made, "this" is found in the table that Instance::Bind made for the method,
\* which still holds the instance: unless the script declares the name, or
\* assigns to it.
MethodsSeeTheirInstance ==
    status = "running" /\ (\A a \in Ref : heap[a].tag = "table" => heap[a].symbols[This] = None) =>
        \A i \in DOMAIN frames :
            LET f == frames[OutsetOf(i)]
            IN  IsMethod(f) =>
                    /\ FindSymbol(frames[i].scope, This) = {BoundFor(f)}
                    /\ This \in OwnNames \/ heap[BoundFor(f)].symbols[This] = InstanceOf(f)

\* What may be held by what it holds: a function or class declared in a block or
\* a call holds the table it is declared in, and an object that was assigned to
\* a field, or to the "this" of a bound function, may hold that instance.
DeclaredInScope == {a \in Addr : /\ heap[a].tag \in {"function", "class"}
                                 /\ heap[a].bound = None
                                 /\ heap[a].link \in Addr}
AssignedTo == {a \in Addr : /\ heap[a].tag # "table"
                            /\ \E n \in OwnNames : heap[a].symbols[n] \in Addr \ {heap[a].bound}}

\* No call, block, constructor, bound method or anonymous method leaves an
\* object behind: of the objects that nothing reaches, none keep each other
\* alive but with the help of a nested declaration or an assigned object.
OnlyKnotsLeak ==
    LET useless == {a \in Addr : heap[a].tag # "free"}
                       \ (Roots \cup DeclaredInScope \cup AssignedTo)
    IN  \A X \in (SUBSET useless) \ {{}} :
            \E b \in Ref \ X : \E a \in X : Holds(heap[b], a)

(***************************************************************************)
(* What symbol_table.h says of a failed lookup: "Symbol " + symbolName +   *)
(* " referenced before declaration."                                       *)
(***************************************************************************)

\* A name reported as referenced before its declaration is not declared in the
\* globals, which every scope is meant to see.
ReportedNamesAreUndeclared ==
    failure.kind = "scope" => heap[Globals].symbols[failure.name] = None

\* The same, of the name of a class that is being called.
CalledClassesAreDeclared ==
    failure.kind = "constructor" => FindSymbol(cur, failure.name) = {}

(***************************************************************************)
(* Calls keep the discipline of CallDiscipline.                            *)
(***************************************************************************)
InCalls == {i \in DOMAIN frames : frames[i].op \in Catchers}

Discipline == INSTANCE CallDiscipline WITH
    Scopes <- Ref, Values <- Value, Outermost <- Globals,
    scope <- cur, operands <- values,
    calls <- [i \in InCalls |-> [scope |-> frames[i].prev,
                                 operands |-> SubSeq(values, 1, frames[i].base)]]

\* Every behaviour of the interpreter is one CallDiscipline allows: a call, an
\* anonymous method and a constructor give back the scope and the operands
\* they found, and one value.
KeepsCallDiscipline == Discipline!Spec

=============================================================================
