------------------------- MODULE NameLookup_proofs -------------------------
(***************************************************************************)
(* Proofs of what a lookup finds and what it can miss: "this" in the code  *)
(* of a method is what Bind made for it (MethodsSeeTheirInstance), and     *)
(* outside closures nothing that is declared in the globals is missed      *)
(* (GlobalsAreSeen), so that a report of a name as undeclared is right     *)
(* (ReportedNamesAreUndeclared).                                           *)
(*                                                                         *)
(* Tables hold their parents weakly, so the argument needs to know where   *)
(* the chain of scopes above an activation ends.  Every step is one of a   *)
(* few moves: what it does to the heap is to add to it and to destroy what *)
(* is not referred to (HeapMoves), and what it does to the activations is  *)
(* one of FrameMoves.  What is claimed of calls is proved of the moves.    *)
(***************************************************************************)
EXTENDS ScopeLifetimes_proofs

-----------------------------------------------------------------------------
(***************************************************************************)
(* What a step does to the heap.                                           *)
(***************************************************************************)

\* The table of "this" has the globals for parent, and declares it; only a
\* declaration makes a function that is not bound.
ClosureOK(c) ==
    /\ c.tag = "function" => IF c.bound # None
                             THEN c.parent = Globals /\ c.symbols[This] # None
                             ELSE "Function" \in NodeKinds
    /\ c.tag = "class" => c.bound = None

Fills(h, n) == \A a \in Ref : h[a].tag = "free" => ClosureOK(n[a])

HeapMoves == \E new \in [Ref -> Cell] : /\ Grows(heap, new)
                                        /\ Fills(heap, new)
                                        /\ Retain(new)

\* The cell at a is there after the step as it was before.
Remains(a) == /\ heap'[a].tag = heap[a].tag /\ heap'[a].link = heap[a].link
              /\ heap'[a].bound = heap[a].bound
              /\ heap'[a].parent \in {heap[a].parent, None}
              /\ heap[a].parent = Globals => heap'[a].parent = Globals
              /\ \A m \in Names : heap[a].symbols[m] # None => heap'[a].symbols[m] # None

LEMMA WhatRemains ==
    ASSUME HeapMoves, IInv, IInv'
    PROVE  \A a \in Ref :
              /\ heap[a].tag # "free" => heap'[a] = FreeCell \/ Remains(a)
              /\ heap[a].tag # "free" /\ a \in Roots' => Remains(a)
              /\ heap[a].tag = "free" => ClosureOK(heap'[a])
<1>1. PICK new \in [Ref -> Cell] : Grows(heap, new) /\ Fills(heap, new) /\ Retain(new)
   BY DEF HeapMoves
<1>2. PICK kept : heap' = Keeping(new, kept) /\ Ref \cap Roots' \subseteq kept
   BY <1>1, Zenon DEF Retain
<1>3. ASSUME NEW a \in Ref
      PROVE  heap'[a] = IF a \in kept
                        THEN [new[a] EXCEPT !.parent = IF @ \in kept THEN @ ELSE None]
                        ELSE FreeCell
   BY <1>2 DEF Keeping
<1>4. frames' \in Seq(Frame) /\ values' \in Seq(Value) BY DEF IInv, DataOK, StackOK, Chain
<1>5. Globals \in Ref /\ Globals \in kept BY <1>2, <1>4, RootsAre DEF Ref
<1>6. ASSUME NEW a \in Ref, a \in kept
      PROVE  /\ heap'[a].tag = new[a].tag /\ heap'[a].link = new[a].link
             /\ heap'[a].bound = new[a].bound /\ heap'[a].symbols = new[a].symbols
             /\ heap'[a].parent \in {new[a].parent, None}
             /\ new[a].parent = Globals => heap'[a].parent = Globals
   <2>1. new[a] \in Cell BY <1>1
   <2>2. QED BY <1>3, <1>5, <1>6, <2>1 DEF Cell
<1>7. ClosureOK(FreeCell) BY DEF ClosureOK, FreeCell
<1>8. ASSUME NEW a \in Ref
      PROVE  /\ heap[a].tag # "free" => heap'[a] = FreeCell \/ Remains(a)
             /\ heap[a].tag # "free" /\ a \in Roots' => Remains(a)
             /\ heap[a].tag = "free" => ClosureOK(heap'[a])
   <2>1. CASE a \notin kept BY <1>2, <1>3, <1>7, <2>1
   <2>2. CASE a \in kept
      <3>1. ASSUME heap[a].tag # "free" PROVE Remains(a)
         BY <1>1, <1>6, <2>2, <3>1 DEF Grows, Remains
      <3>2. ASSUME heap[a].tag = "free" PROVE ClosureOK(heap'[a])
         <4>1. ClosureOK(new[a]) BY <1>1, <3>2 DEF Fills
         <4>2. QED BY <1>6, <2>2, <4>1 DEF ClosureOK
      <3>3. QED BY <3>1, <3>2
   <2>3. QED BY <2>1, <2>2
<1>9. QED BY <1>8

\* The three ways in which a heap is made from another.
LEMMA SameHeapMoves ==
    ASSUME IInv, Retain(heap) PROVE HeapMoves
<1>1. heap \in [Ref -> Cell] BY DEF IInv, DataOK, HeapOK
<1>2. Grows(heap, heap) BY DEF Grows
<1>3. Fills(heap, heap) BY DEF Fills, ClosureOK
<1>4. QED BY <1>1, <1>2, <1>3 DEF HeapMoves

LEMMA AllocMoves ==
    ASSUME NEW h \in [Ref -> Cell], NEW a \in Free, h[a].tag = "free",
           Grows(heap, h), Fills(heap, h), NEW c \in Cell, ClosureOK(c)
    PROVE  LET n == Put(h, a, c)
           IN  /\ n \in [Ref -> Cell] /\ Grows(heap, n) /\ Fills(heap, n)
               /\ n[a] = c /\ \A b \in Ref : b # a => n[b] = h[b]
<1> DEFINE n == Put(h, a, c)
<1>1. a \in Ref /\ heap[a].tag = "free" BY FreeIsFree
<1>2. n \in [Ref -> Cell] /\ n[a] = c /\ \A b \in Ref : b # a => n[b] = h[b]
   BY <1>1 DEF Put
<1> HIDE DEF n
<1>3. Grows(heap, n) BY <1>1, <1>2 DEF Grows
<1>4. Fills(heap, n) BY <1>2 DEF Fills
<1>5. QED BY <1>2, <1>3, <1>4 DEF n

LEMMA DeclareMoves ==
    ASSUME NEW h \in [Ref -> Cell], Grows(heap, h), Fills(heap, h),
           NEW t \in Ref, NEW n \in Names, NEW v \in Value
    PROVE  LET d == Declare(h, t, n, v)
           IN  d \in [Ref -> Cell] /\ Grows(heap, d) /\ Fills(heap, d)
<1> DEFINE c == [h[t] EXCEPT !.symbols[n] = v]
           d == Declare(h, t, n, v)
<1>1. h[t] \in Cell BY DEF Cell
<1>2. /\ c.tag = h[t].tag /\ c.parent = h[t].parent /\ c.link = h[t].link
      /\ c.bound = h[t].bound /\ c.symbols = [h[t].symbols EXCEPT ![n] = v] /\ c \in Cell
   BY <1>1 DEF Cell
<1>3. v # None BY AddressesDistinct DEF Value
<1>4. \A m \in Names : h[t].symbols[m] # None => c.symbols[m] # None
   BY <1>1, <1>2, <1>3 DEF Cell
<1>5. d = [h EXCEPT ![t] = c] BY DEF Declare
<1>6. d \in [Ref -> Cell] /\ d[t] = c /\ \A b \in Ref : b # t => d[b] = h[b]
   BY <1>2, <1>5
<1> HIDE DEF c, d
<1>7. Grows(h, d) BY <1>2, <1>4, <1>6 DEF Grows
<1>10. Grows(heap, d) BY <1>7, GrowsTwice
<1>8. Fills(heap, d)
   <2>1. This \in Names BY ScriptsWellFormed
   <2>2. ASSUME ClosureOK(h[t]) PROVE ClosureOK(c)
      BY <1>2, <1>4, <2>1, <2>2, Zenon DEF ClosureOK
   <2>3. QED BY <1>6, <2>2 DEF Fills
<1>9. QED BY <1>6, <1>8, <1>10 DEF d

-----------------------------------------------------------------------------
(***************************************************************************)
(* What a step does to the activations.                                    *)
(***************************************************************************)
Scoped == Outsets \cup {"Block"}

\* The innermost activation goes on as f.
OnAs(f) == [frames EXCEPT ![Len(frames)] = f]

\* f is how it may go on in the scope it is in.
Onward(f) == \/ f = Top
             \/ f.op \notin Scoped /\ Top.op \notin Scoped /\ f.scope = Top.scope

\* It goes on, or gains a child that has no scope of its own.
Continues ==
    /\ status = "running" /\ status' = "running"
    /\ \E f : /\ Onward(f)
              /\ \/ frames' = OnAs(f)
                 \/ \E c : c.op \in Childless /\ frames' = Append(OnAs(f), c)

\* It enters a new scope, of a block, a function or an anonymous method.
Enters ==
    /\ status = "running" /\ status' = "running" /\ Top.op \notin Scoped
    /\ \E f : /\ f.op \in {"Block", "Body", "AnonBody"} /\ f.scope \in Free
              /\ f.op = "Body" => f.locals[1] \in Addr /\ heap[f.locals[1]].tag = "function"
              /\ frames' = OnAs(f)

\* The same of a class: its table, and that of its constructor.
Constructs ==
    /\ status = "running" /\ status' = "running" /\ Top.op \notin Scoped
    /\ \E f, c : /\ f.op = "Body" /\ f.scope \in Free
                 /\ f.locals[1] \in Addr /\ heap[f.locals[1]].tag = "class"
                 /\ c.op = "Ctor"
                 /\ frames' = Append(OnAs(f), c)

\* It ends: so, with a value, or because of the value in flight.
Ends == status = "running" /\ status' = "running" /\ frames' = Callers
        /\ Top.op \notin {"Ctor", "Program"}

Constructed == /\ status = "running" /\ status' = "returning" /\ frames' = Callers
               /\ Top.op = "Ctor"

Leaves == /\ status = "running" /\ status' = "returning" /\ frames' = Callers
          /\ Top.op \notin Scoped

Unwinds == /\ status = "returning" /\ status' = "returning" /\ frames' = Callers
           /\ Top.op \notin Catchers \cup {"Program"}

Catches == /\ status = "returning" /\ status' = "running" /\ frames' = Callers
           /\ Top.op \in Catchers

\* The script is over, has failed, or has crashed.
Completes == /\ status = "running" /\ status' = "idle" /\ Top.op = "Program"
             /\ frames' = <<>> /\ UNCHANGED <<cur, failure>>

\* A failed lookup is one of the innermost activation: from the scope it is in, or,
\* of the type of a parameter, from what the function or the class it calls hangs
\* below.
MissedFrom(t) == /\ failure'.name \in Names /\ FindSymbol(t, failure'.name) = {}
                 /\ heap'[Globals].symbols = heap[Globals].symbols

Misses == /\ status = "running"
          /\ \/ Top.op \in {"Expr", "Assign"} /\ MissedFrom(cur)
             \/ \E a \in Ref : heap[a].tag = "function" /\ MissedFrom(Home(a))
             \/ MissedFrom(Globals)

Fails == /\ status \in {"running", "returning"} /\ status' = "idle" /\ frames' = <<>>
         /\ failure'.kind # "none"
         /\ failure'.kind = "scope" => Misses

Crashes == status = "running" /\ status' = "crashed" /\ UNCHANGED <<frames, cur, failure>>

FrameMoves ==
    /\ frames # <<>>
    /\ \/ UNCHANGED failure /\ (Continues \/ Enters \/ Constructs \/ Ends \/ Constructed
                                \/ Leaves \/ Unwinds \/ Catches)
       \/ Completes \/ Fails \/ Crashes

Moves == HeapMoves /\ FrameMoves

LEMMA ScopedOps ==
    /\ Scoped = {"Body", "AnonBody", "Program", "Ctor", "Block"}
    /\ Scoped \cap Awaiting = {} /\ Scoped \cap Childless = {}
    /\ "LoopBody" \notin Scoped
BY DEF Scoped, Outsets, Catchers, Awaiting, Childless

\* The running activations of expressions and statements.
LEMMA InnerFacts ==
    ASSUME IInv, NEW op, At(op), op \notin Scoped
    PROVE  /\ frames # <<>> /\ status = "running" /\ Top.op = op /\ Top.op \notin Scoped
           /\ Top \in Frame
BY AtFacts DEF FrameOK

LEMMA VisitContinues ==
    ASSUME frames # <<>>, status = "running", status' = "running", failure' = failure,
           NEW f, Onward(f), NEW op \in Childless, Visit(f, op)
    PROVE  FrameMoves
<1>1. Activation(op).op \in Childless BY DEF Activation
<1>2. frames' = Append(OnAs(f), Activation(op)) BY DEF Visit, OnAs
<1> HIDE DEF Scoped
<1>3. Continues BY <1>1, <1>2 DEF Continues
<1>4. QED BY <1>3 DEF FrameMoves

LEMMA EvaluateContinues ==
    ASSUME frames # <<>>, status = "running", UNCHANGED control, Top \in Frame,
           Top.op \notin Scoped, NEW op \in Ops \ Scoped, Evaluate(op)
    PROVE  FrameMoves
<1> DEFINE f == [Top EXCEPT !.op = op]
<1>1. f.op = op /\ f.scope = Top.scope BY DEF Frame
<1>2. Visit(f, "Expr") /\ "Expr" \in Childless BY DEF Evaluate, Childless
<1>3. status' = "running" /\ failure' = failure BY DEF control
<1>4. Onward(f) BY <1>1 DEF Onward
<1> HIDE DEF f
<1>5. QED BY <1>2, <1>3, <1>4, VisitContinues

LEMMA BecomeContinues ==
    ASSUME frames # <<>>, status = "running", UNCHANGED control, Top.op \notin Scoped,
           NEW f, f.op \notin Scoped, f.scope = Top.scope, Become(f)
    PROVE  FrameMoves
<1>1. status' = "running" /\ failure' = failure /\ frames' = OnAs(f) BY DEF control, Become, OnAs
<1>2. Continues BY <1>1 DEF Continues, Onward
<1>3. QED BY <1>1, <1>2 DEF FrameMoves

LEMMA FinishEnds ==
    ASSUME frames # <<>>, status = "running", UNCHANGED control, Finish,
           Top.op \notin {"Ctor", "Program"}
    PROVE  FrameMoves
BY DEF FrameMoves, Ends, Finish, control

LEMMA RaiseFails ==
    ASSUME frames # <<>>, status = "running", NEW kind, kind \notin {"none", "scope"},
           NEW n, Raise(kind, n)
    PROVE  FrameMoves
BY DEF FrameMoves, Fails, Raise

\* The globals are never destroyed.
LEMMA GlobalsRemain ==
    ASSUME IInv', NEW new \in [Ref -> Cell], Retain(new), new[Globals] = heap[Globals]
    PROVE  heap'[Globals].symbols = heap[Globals].symbols
<1>1. PICK kept : heap' = Keeping(new, kept) /\ Ref \cap Roots' \subseteq kept
   BY Zenon DEF Retain
<1>2. frames' \in Seq(Frame) /\ values' \in Seq(Value) BY DEF IInv, DataOK, StackOK, Chain
<1>3. Globals \in Ref /\ Globals \in kept BY <1>1, <1>2, RootsAre DEF Ref
<1>4. heap'[Globals] = [new[Globals] EXCEPT !.parent = IF @ \in kept THEN @ ELSE None]
   BY <1>1, <1>3 DEF Keeping
<1>5. new[Globals] \in Cell BY <1>3
<1>6. QED BY <1>4, <1>5 DEF Cell

LEMMA NotFoundFails ==
    ASSUME IInv, IInv', frames # <<>>, status = "running", Top.op \in {"Expr", "Assign"},
           NEW n \in Names, NotFound(n), Retain(heap)
    PROVE  Moves
<1>1. /\ failure'.kind = "scope" /\ failure'.name = n /\ status' = "idle" /\ frames' = <<>>
      /\ FindSymbol(cur, n) = {}
   BY DEF NotFound, Raise
<1>2. heap'[Globals].symbols = heap[Globals].symbols
   BY GlobalsRemain DEF IInv, DataOK, HeapOK
<1>3. Misses BY <1>1, <1>2 DEF Misses, MissedFrom
<1>4. FrameMoves BY <1>1, <1>3 DEF FrameMoves, Fails
<1>5. QED BY <1>4, SameHeapMoves DEF Moves

\* A call whose parameter t is refused, in a table below home.
LEMMA RefuseFails ==
    ASSUME frames # <<>>, status = "running", NEW home, NEW unknown \in SUBSET Names,
           \A t \in unknown : FindSymbol(home, t) = {},
           Refuse(unknown), heap'[Globals].symbols = heap[Globals].symbols,
           home = Globals \/ \E a \in Ref : heap[a].tag = "function" /\ home = Home(a)
    PROVE  FrameMoves
<1>1. CASE Raise("other", None) BY <1>1, RaiseFails
<1>2. ASSUME NEW t \in unknown, Raise("scope", t) PROVE FrameMoves
   <2>1. /\ failure'.kind = "scope" /\ failure'.name = t /\ status' = "idle" /\ frames' = <<>>
      BY <1>2 DEF Raise
   <2>2. MissedFrom(home) BY <2>1 DEF MissedFrom
   <2>3. Misses BY <2>2 DEF Misses
   <2>4. QED BY <2>1, <2>3 DEF FrameMoves, Fails
<1>3. QED BY <1>1, <1>2 DEF Refuse

LEMMA CrashCrashes ==
    ASSUME frames # <<>>, status = "running", Crash
    PROVE  FrameMoves
BY DEF FrameMoves, Crashes, Crash

LEMMA ReturnEnds ==
    ASSUME frames # <<>>, status \in {"running", "returning"}, Top.op \in Catchers, NEW v, Return(v)
    PROVE  FrameMoves
<1>1. frames' = Callers /\ status' = "running" /\ failure' = failure
   BY DEF Return, Finish
<1>2. Top.op \notin {"Ctor", "Program"} BY DEF Catchers
<1>3. QED BY <1>1, <1>2 DEF FrameMoves, Ends, Catches

LEMMA BeginExprMoves ==
    ASSUME IInv, NEW kind, NEW op \in Awaiting, BeginExpr(kind, op)
    PROVE  Moves
<1>1. /\ frames # <<>> /\ status = "running" /\ Top \in Frame /\ Top.op \notin Scoped
      /\ UNCHANGED control /\ Evaluate(op) /\ Retain(heap)
   BY InnerFacts, ScopedOps DEF BeginExpr, Childless
<1>2. op \in Ops \ Scoped BY ScopedOps DEF Ops
<1>3. QED BY <1>1, <1>2, EvaluateContinues, SameHeapMoves DEF Moves

LEMMA BeginStatementMoves ==
    ASSUME IInv, NEW kind, NEW op \in Awaiting, BeginStatement(kind, op)
    PROVE  Moves
<1>1. /\ frames # <<>> /\ status = "running" /\ Top \in Frame /\ Top.op \notin Scoped
      /\ UNCHANGED control /\ Evaluate(op) /\ Retain(heap)
   BY InnerFacts, ScopedOps DEF BeginStatement, AtStatement, Childless
<1>2. op \in Ops \ Scoped BY ScopedOps DEF Ops
<1>3. QED BY <1>1, <1>2, EvaluateContinues, SameHeapMoves DEF Moves

-----------------------------------------------------------------------------
(***************************************************************************)
(* Every step is such a move.  First those that leave the heap alone, then  *)
(* those that add to it.                                                   *)
(***************************************************************************)

\* An activation with an operand on m_values ends, raises or crashes.
LEMMA OperandMoves ==
    ASSUME IInv, NEW op \in Awaiting, At(op), HeapMoves,
           \/ Finish /\ UNCHANGED control
           \/ \E kind \in {"other", "member"} : \E n : Raise(kind, n)
           \/ Crash
    PROVE  Moves
<1>1. frames # <<>> /\ status = "running" /\ Top.op = op BY DEF At
<1>2. Top.op \notin {"Ctor", "Program"} BY <1>1 DEF Awaiting
<1>3. CASE Finish /\ UNCHANGED control BY <1>1, <1>2, <1>3, FinishEnds DEF Moves
<1>4. ASSUME NEW kind \in {"other", "member"}, NEW n, Raise(kind, n) PROVE Moves
   BY <1>1, <1>4, RaiseFails DEF Moves
<1>5. CASE Crash BY <1>1, <1>5, CrashCrashes DEF Moves
<1>6. QED BY <1>3, <1>4, <1>5

LEMMA LiteralMoves == ASSUME IInv, Literal PROVE Moves
<1>1. frames # <<>> /\ status = "running" /\ Top.op = "Expr" BY DEF Literal, At
<1>2. QED BY <1>1, FinishEnds, SameHeapMoves DEF Literal, Moves, control

LEMMA IdentifierMoves == ASSUME IInv, IInv', Identifier PROVE Moves
<1>1. frames # <<>> /\ status = "running" /\ Top.op = "Expr" /\ Retain(heap)
   BY DEF Identifier, At
<1>2. (Finish /\ UNCHANGED control) \/ (\E n \in Names : NotFound(n)) BY DEF Identifier, control
<1>3. QED BY <1>1, <1>2, FinishEnds, NotFoundFails, SameHeapMoves DEF Moves

LEMMA BinaryOpMoves == ASSUME IInv, BinaryOp PROVE Moves
<1>1. CASE BeginExpr("BinaryOp", "BinRhs") BY <1>1, BeginExprMoves DEF Awaiting
<1>2. CASE At("BinRhs") /\ UNCHANGED control /\ Evaluate("BinLhs") /\ Retain(heap)
   BY <1>2, InnerFacts, EvaluateContinues, SameHeapMoves, ScopedOps DEF Moves, Ops, Awaiting
<1>3. CASE /\ At("BinLhs") /\ Retain(heap)
           /\ \/ Finish /\ UNCHANGED control
              \/ Raise("other", None)
              \/ Crash
   BY <1>3, OperandMoves, SameHeapMoves DEF Awaiting
<1>4. QED BY <1>1, <1>2, <1>3 DEF BinaryOp

LEMMA UnaryMoves == ASSUME IInv, Unary PROVE Moves
<1>1. CASE BeginExpr("Unary", "Unary") BY <1>1, BeginExprMoves DEF Awaiting
<1>2. CASE /\ At("Unary") /\ Retain(heap)
           /\ (Finish /\ UNCHANGED control) \/ Raise("other", None)
   BY <1>2, OperandMoves, SameHeapMoves DEF Awaiting
<1>3. QED BY <1>1, <1>2 DEF Unary, control

LEMMA LogicOpMoves == ASSUME IInv, LogicOp PROVE Moves
<1>1. CASE BeginExpr("LogicOp", "LogicLhs") BY <1>1, BeginExprMoves DEF Awaiting
<1>2. ASSUME NEW op \in {"LogicLhs", "LogicRhs"}, At(op), Retain(heap),
             (Finish /\ UNCHANGED control) \/ Raise("other", None)
      PROVE  Moves
   BY <1>2, OperandMoves, SameHeapMoves DEF Awaiting
<1>3. CASE At("LogicLhs") /\ UNCHANGED control /\ Evaluate("LogicRhs") /\ Retain(heap)
   BY <1>3, InnerFacts, EvaluateContinues, SameHeapMoves, ScopedOps DEF Moves, Ops, Awaiting
<1>4. QED BY <1>1, <1>2, <1>3 DEF LogicOp, control

LEMMA CallArgumentsMoves ==
    ASSUME IInv, \/ At("Callee") /\ PopValue
                    /\ Become([Top EXCEPT !.op = "Args", !.locals = <<Operand>>])
                 \/ At("Arg") /\ PopValue
                    /\ Become([Top EXCEPT !.op = "Args", !.locals = Append(@, Operand)]),
           UNCHANGED control, Retain(heap)
    PROVE  Moves
<1>1. PICK op \in {"Callee", "Arg"} : At(op) OBVIOUS
<1>2. /\ frames # <<>> /\ status = "running" /\ Top \in Frame /\ Top.op \notin Scoped
   BY <1>1, InnerFacts, ScopedOps DEF Awaiting
<1>3. PICK locals : Become([Top EXCEPT !.op = "Args", !.locals = locals])
   BY <1>2 DEF Frame
<1> DEFINE f == [Top EXCEPT !.op = "Args", !.locals = locals]
<1>4. f.op = "Args" /\ f.scope = Top.scope BY <1>2 DEF Frame
<1>5. f.op \notin Scoped BY <1>4, ScopedOps
<1>6. Become(f) BY <1>3
<1> HIDE DEF f
<1>7. QED BY <1>2, <1>4, <1>5, <1>6, BecomeContinues, SameHeapMoves DEF Moves

LEMMA EndConstructorMoves == ASSUME IInv, EndConstructor PROVE Moves
<1>1. /\ frames # <<>> /\ status = "running" /\ Top.op = "Ctor" /\ Retain(heap)
      /\ frames' = Callers /\ status' = "returning" /\ failure' = failure
   BY DEF EndConstructor, At, Throw, Finish
<1>2. QED BY <1>1, SameHeapMoves DEF Moves, FrameMoves, Constructed

LEMMA InFlight ==
    ASSUME IInv, status = "returning" PROVE frames # <<>>
BY EmptySeq DEF IInv, StackOK

LEMMA CatchMoves == ASSUME IInv, Catch PROVE Moves
<1>1. frames # <<>> /\ Top.op \in Catchers /\ Return(thrown) /\ Retain(heap)
      /\ status \in {"running", "returning"}
   BY InFlight DEF Catch, Return
<1>2. QED BY <1>1, ReturnEnds, SameHeapMoves DEF Moves

LEMMA UnwindMoves == ASSUME IInv, Unwind PROVE Moves
<1>1. frames # <<>> BY InFlight DEF Unwind
<1>2. QED BY <1>1, SameHeapMoves DEF Moves, FrameMoves, Unwinds, Unwind, Finish, control

\* The outermost activation is the only one of a script.
LEMMA LastOfScript ==
    ASSUME IInv, frames # <<>>, Top.op = "Program" PROVE Callers = <<>>
<1>1. Chain(frames) BY DEF IInv, StackOK
<1>2. Len(frames) = 1 BY <1>1, TopIsAFrame DEF Top
<1>3. Chain(SubSeq(frames, 1, Len(frames) - 1)) /\ Len(Callers) = 0
   BY <1>1, <1>2, FinishKeepsChain DEF Callers
<1>4. Callers \in Seq(Frame) BY <1>3 DEF Chain, Callers
<1>5. QED BY <1>3, <1>4, EmptySeq

LEMMA EscapeMoves == ASSUME IInv, Escape PROVE Moves
<1>1. frames # <<>> BY InFlight DEF Escape
<1>2. frames' = <<>> BY <1>1, LastOfScript DEF Escape, Finish
<1>3. QED BY <1>1, <1>2, SameHeapMoves DEF Moves, FrameMoves, Fails, Escape

LEMMA EndProgramMoves == ASSUME IInv, EndProgram PROVE Moves
<1>1. frames # <<>> /\ status = "running" /\ Top.op = "Program" /\ Retain(heap)
      /\ status' = "idle" /\ UNCHANGED <<cur, failure>> /\ Finish
   BY DEF EndProgram, At
<1>2. frames' = <<>> BY <1>1, LastOfScript DEF Finish
<1>3. QED BY <1>1, <1>2, SameHeapMoves DEF Moves, FrameMoves, Completes

LEMMA BadAllocMoves == ASSUME IInv, BadAlloc PROVE Moves
<1>1. frames # <<>> /\ status = "running" /\ Raise("other", None) /\ Retain(heap)
   BY DEF BadAlloc, At
<1>2. QED BY <1>1, RaiseFails, SameHeapMoves DEF Moves

LEMMA ExpressionStatementMoves == ASSUME IInv, ExpressionStatement PROVE Moves
<1>1. CASE BeginStatement("ExpressionStatement", "ExprStmt")
   BY <1>1, BeginStatementMoves DEF Awaiting
<1>2. CASE At("ExprStmt") /\ Finish /\ UNCHANGED control /\ Retain(heap)
   BY <1>2, OperandMoves, SameHeapMoves DEF Awaiting
<1>3. QED BY <1>1, <1>2 DEF ExpressionStatement, control

LEMMA IfStatementMoves == ASSUME IInv, IfStatement PROVE Moves
<1>1. CASE BeginStatement("If", "If") BY <1>1, BeginStatementMoves DEF Awaiting
<1>2. CASE At("If") /\ Retain(heap) /\ ((Finish /\ UNCHANGED control) \/ Raise("other", None))
   BY <1>2, OperandMoves, SameHeapMoves DEF Awaiting
<1>3. CASE At("If") /\ Retain(heap) /\ UNCHANGED control
           /\ Become([Top EXCEPT !.op = "Statement"])
   <2> DEFINE f == [Top EXCEPT !.op = "Statement"]
   <2>1. frames # <<>> /\ status = "running" /\ Top \in Frame /\ Top.op \notin Scoped
      BY <1>3, InnerFacts, ScopedOps DEF Awaiting
   <2>2. f.op \notin Scoped /\ f.scope = Top.scope /\ Become(f)
      BY <1>3, <2>1, ScopedOps DEF Frame, Childless
   <2> HIDE DEF f
   <2>3. QED BY <1>3, <2>1, <2>2, BecomeContinues, SameHeapMoves DEF Moves
<1>4. QED BY <1>1, <1>2, <1>3 DEF IfStatement

LEMMA LoopMoves == ASSUME IInv, Loop PROVE Moves
<1>1. CASE BeginStatement("Loop", "LoopCond") BY <1>1, BeginStatementMoves DEF Awaiting
<1>2. CASE At("LoopCond") /\ Retain(heap) /\ ((Finish /\ UNCHANGED control) \/ Raise("other", None))
   BY <1>2, OperandMoves, SameHeapMoves DEF Awaiting
<1>3. CASE At("LoopCond") /\ Retain(heap) /\ UNCHANGED control
           /\ Visit([Top EXCEPT !.op = "LoopBody"], "Statement")
   <2> DEFINE f == [Top EXCEPT !.op = "LoopBody"]
   <2>1. frames # <<>> /\ status = "running" /\ Top \in Frame /\ Top.op \notin Scoped
      BY <1>3, InnerFacts, ScopedOps DEF Awaiting
   <2>2. Onward(f) /\ Visit(f, "Statement")
      BY <1>3, <2>1, ScopedOps DEF Frame, Onward
   <2>3. "Statement" \in Childless /\ status' = "running" /\ failure' = failure
      BY <1>3, <2>1 DEF Childless, control
   <2> HIDE DEF f
   <2>4. QED BY <1>3, <2>1, <2>2, <2>3, VisitContinues, SameHeapMoves DEF Moves
<1>4. CASE At("LoopBody") /\ UNCHANGED control /\ Evaluate("LoopCond") /\ Retain(heap)
   BY <1>4, InnerFacts, EvaluateContinues, SameHeapMoves, ScopedOps DEF Moves, Ops, Awaiting
<1>5. QED BY <1>1, <1>2, <1>3, <1>4 DEF Loop, control

LEMMA ReturnStatementMoves == ASSUME IInv, ReturnStatement PROVE Moves
<1>1. CASE BeginStatement("Return", "Return") BY <1>1, BeginStatementMoves DEF Awaiting
<1>2. ASSUME NEW op \in {"Statement", "Declaration", "Return"}, At(op),
             NEW v, Throw(v), Retain(heap)
      PROVE  Moves
   <2>1. frames # <<>> /\ status = "running" /\ Top.op = op BY <1>2 DEF At
   <2>2. Top.op \notin Scoped BY <2>1, ScopedOps
   <2>3. Leaves /\ failure' = failure BY <1>2, <2>1, <2>2 DEF Leaves, Throw, Finish
   <2>4. QED BY <1>2, <2>1, <2>3, SameHeapMoves DEF Moves, FrameMoves
<1>3. CASE AtStatement /\ Throw(Plain) /\ Retain(heap)
   BY <1>2, <1>3 DEF AtStatement
<1>4. CASE At("Return") /\ Throw(Operand) /\ Retain(heap)
   BY <1>2, <1>4
<1>5. QED BY <1>1, <1>3, <1>4 DEF ReturnStatement

LEMMA NextStatementMoves == ASSUME IInv, NextStatement PROVE Moves
<1>1. /\ frames # <<>> /\ status = "running" /\ UNCHANGED control
      /\ Visit(Top, "Declaration") /\ Retain(heap)
   BY DEF NextStatement
<1>2. "Declaration" \in Childless /\ status' = "running" /\ failure' = failure
   BY <1>1 DEF Childless, control
<1>3. QED BY <1>1, <1>2, VisitContinues, SameHeapMoves DEF Moves, Onward

\* A name is given a value, in a table or an instance.
LEMMA DeclareHeapMoves ==
    ASSUME IInv, NEW t \in Ref, NEW n \in OwnNames, NEW v \in Value,
           Retain(Declare(heap, t, n, v))
    PROVE  HeapMoves
<1>1. heap \in [Ref -> Cell] /\ n \in Names BY ScriptsWellFormed DEF IInv, DataOK, HeapOK
<1>2. Grows(heap, heap) /\ Fills(heap, heap) BY DEF Grows, Fills, ClosureOK
<1>3. QED BY <1>1, <1>2, DeclareMoves DEF HeapMoves

\* One address is used.
LEMMA AllocHeapMoves ==
    ASSUME IInv, NEW a \in Free, NEW c \in Cell, ClosureOK(c)
    PROVE  LET n == Put(heap, a, c)
           IN  /\ n \in [Ref -> Cell] /\ Grows(heap, n) /\ Fills(heap, n)
               /\ n[a] = c /\ \A b \in Ref : b # a => n[b] = heap[b]
<1>1. heap \in [Ref -> Cell] BY DEF IInv, DataOK, HeapOK
<1>2. Grows(heap, heap) /\ Fills(heap, heap) BY DEF Grows, Fills, ClosureOK
<1>3. heap[a].tag = "free" BY FreeIsFree
<1>4. QED BY <1>1, <1>2, <1>3, AllocMoves

LEMMA NotAClosure ==
    /\ \A parent, symbols : ClosureOK(Table(parent, symbols))
    /\ \A n, closure, methods : ClosureOK(Class(n, closure, methods))
    /\ \A class : ClosureOK(Instance(class))
    /\ \A instance \in Addr : \A params : ClosureOK(Bound(instance, params))
    /\ "Function" \in NodeKinds => \A closure, params : ClosureOK(Function(closure, params))
<1>1. \A parent, symbols : Table(parent, symbols).tag = "table" BY DEF Table, FreeCell
<1>2. \A n, closure, methods : /\ Class(n, closure, methods).tag = "class"
                               /\ Class(n, closure, methods).bound = None
   BY DEF Class, FreeCell
<1>3. \A class : Instance(class).tag = "instance" BY DEF Instance, FreeCell
<1>4. ASSUME NEW instance \in Addr, NEW params PROVE ClosureOK(Bound(instance, params))
   <2>1. /\ Bound(instance, params).bound = instance /\ Bound(instance, params).parent = Globals
         /\ Bound(instance, params).tag = "function"
         /\ Bound(instance, params).symbols = [NoSymbols EXCEPT ![This] = instance]
      BY DEF Bound, FreeCell
   <2>2. instance # None /\ This \in Names BY AddressesDistinct, ScriptsWellFormed
   <2>3. Bound(instance, params).symbols[This] = instance BY <2>1, <2>2 DEF NoSymbols
   <2>4. QED BY <2>1, <2>2, <2>3 DEF ClosureOK
<1>5. \A closure, params : /\ Function(closure, params).bound = None
                           /\ Function(closure, params).tag = "function"
   BY DEF Function, FreeCell
<1>6. QED BY <1>1, <1>2, <1>3, <1>4, <1>5, Zenon DEF ClosureOK

LEMMA AssignmentMoves == ASSUME IInv, IInv', Assignment PROVE Moves
<1>1. CASE BeginExpr("Assignment", "Assign") BY <1>1, BeginExprMoves DEF Awaiting
<1>2. ASSUME At("Assign"), NEW n \in OwnNames, NotFound(n), Retain(heap) PROVE Moves
   BY <1>2, NotFoundFails, ScriptsWellFormed DEF At
<1>3. ASSUME At("Assign"), NEW n \in OwnNames, NEW s \in FindSymbol(cur, n),
             Finish, UNCHANGED control, Retain(Declare(heap, s, n, Operand))
      PROVE  Moves
   <2>1. HeapOK(heap) /\ n \in Names BY ScriptsWellFormed DEF IInv, DataOK
   <2>2. s \in Ref /\ Operand \in Value BY <1>3, <2>1, FoundSymbol, AtFacts DEF Awaiting
   <2>3. HeapMoves BY <1>3, <2>2, DeclareHeapMoves
   <2>4. QED BY <1>3, <2>3, OperandMoves DEF Awaiting
<1>4. QED BY <1>1, <1>2, <1>3 DEF Assignment, control

LEMMA GetExpressionMoves == ASSUME IInv, GetExpression PROVE Moves
<1>1. CASE BeginExpr("Get", "Get") BY <1>1, BeginExprMoves DEF Awaiting
<1>2. CASE At("Get") /\ Crash /\ Retain(heap)
   BY <1>2, OperandMoves, SameHeapMoves DEF Awaiting
<1>3. ASSUME At("Get"), Finish, UNCHANGED control, Free # {}, Is(Operand, "instance"),
             NEW params \in Seq(Names) \cup {None},
             Retain([heap EXCEPT ![Fresh({})] = Bound(Operand, params)])
      PROVE  Moves
   <2> DEFINE c == Bound(Operand, params)
              new == Put(heap, Fresh({}), c)
   <2>1. Fresh({}) \in Free /\ Operand \in Addr BY <1>3, FreshFacts DEF Is
   <2>2. c \in Cell /\ ClosureOK(c) BY <2>1, BoundFacts, NotAClosure
   <2>3. Retain(new) BY <1>3 DEF Put
   <2> HIDE DEF c
   <2>4. new \in [Ref -> Cell] /\ Grows(heap, new) /\ Fills(heap, new)
      BY <2>1, <2>2, AllocHeapMoves
   <2>5. HeapMoves BY <2>3, <2>4 DEF HeapMoves
   <2>6. QED BY <1>3, <2>5, OperandMoves DEF Awaiting
<1>4. ASSUME At("Get"), Is(Operand, "instance"), NEW n \in Names,
             LET field == heap[Operand].symbols[n]
                 method == heap[heap[Operand].link].methods[n]
                 Give == Finish /\ UNCHANGED control
                 GiveBound(params) ==
                    /\ Free # {} /\ Give
                    /\ Retain([heap EXCEPT ![Fresh({})] = Bound(Operand, params)])
             IN  \/ Is(field, "function") /\ GiveBound(heap[field].params)
                 \/ GiveBound(None)
                 \/ Give /\ Retain(heap)
                 \/ method # None /\ GiveBound(method)
                 \/ Raise("member", n) /\ Retain(heap)
      PROVE  Moves
   <2> DEFINE field == heap[Operand].symbols[n]
   <2> DEFINE method == heap[heap[Operand].link].methods[n]
   <2> DEFINE GiveBound(params) ==
                 /\ Free # {} /\ Finish /\ UNCHANGED control
                 /\ Retain([heap EXCEPT ![Fresh({})] = Bound(Operand, params)])
   <2>1. HeapOK(heap) BY DEF IInv, DataOK
   <2>2. Operand \in Ref /\ heap[Operand].tag = "instance" BY <1>4 DEF Is, Ref
   <2>3. heap[Operand].link \in Ref BY <2>1, <2>2, CellFacts
   <2>4. heap[heap[Operand].link] \in Cell BY <2>1, <2>3, CellFacts
   <2>5. method \in Seq(Names) \cup {None} BY <2>4, ScriptsWellFormed DEF Cell
   <2>6. CASE Is(field, "function") /\ GiveBound(heap[field].params)
      <3>1. field \in Ref BY <2>6 DEF Is, Ref
      <3>2. heap[field].params \in Seq(Names) \cup {None} BY <2>1, <3>1, CellFacts DEF Cell
      <3>3. QED BY <1>3, <1>4, <2>6, <3>2
   <2>7. CASE GiveBound(None) BY <1>3, <1>4, <2>7
   <2>8. CASE Finish /\ UNCHANGED control /\ Retain(heap)
      BY <1>4, <2>8, OperandMoves, SameHeapMoves DEF Awaiting
   <2>9. CASE GiveBound(method) BY <1>3, <1>4, <2>5, <2>9
   <2>10. CASE Raise("member", n) /\ Retain(heap)
      BY <1>4, <2>10, OperandMoves, SameHeapMoves DEF Awaiting
   <2>11. QED BY <1>4, <2>6, <2>7, <2>8, <2>9, <2>10
<1>5. QED BY <1>1, <1>2, <1>4, Zenon DEF GetExpression

LEMMA SetExpressionMoves == ASSUME IInv, SetExpression PROVE Moves
<1>1. CASE BeginExpr("Set", "SetLhs") BY <1>1, BeginExprMoves DEF Awaiting
<1>2. ASSUME NEW v, At("SetLhs"), UNCHANGED control, Retain(heap),
             Visit([Top EXCEPT !.op = "SetRhs", !.locals = v], "Expr")
      PROVE  Moves
   <2> DEFINE f == [Top EXCEPT !.op = "SetRhs", !.locals = v]
   <2>1. frames # <<>> /\ status = "running" /\ Top \in Frame /\ Top.op \notin Scoped
      BY <1>2, InnerFacts, ScopedOps DEF Awaiting
   <2>2. Onward(f) BY <2>1, ScopedOps DEF Frame, Onward
   <2>3. Visit(f, "Expr") /\ "Expr" \in Childless BY <1>2 DEF Childless
   <2>4. status' = "running" /\ failure' = failure BY <1>2, <2>1 DEF control
   <2> HIDE DEF f
   <2>5. QED BY <1>2, <2>1, <2>2, <2>3, <2>4, VisitContinues, SameHeapMoves DEF Moves
<1>3. ASSUME At("SetRhs"), Top.locals[1] \in Addr, UNCHANGED control, Finish,
             NEW n \in OwnNames, Retain(Declare(heap, Top.locals[1], n, Operand))
      PROVE  Moves
   <2>1. Top.locals[1] \in Ref /\ Operand \in Value BY <1>3, AtFacts DEF Ref, Awaiting
   <2>2. HeapMoves BY <1>3, <2>1, DeclareHeapMoves
   <2>3. QED BY <1>3, <2>2, OperandMoves DEF Awaiting
<1>4. CASE At("SetRhs") /\ Crash /\ Retain(heap)
   BY <1>4, OperandMoves, SameHeapMoves DEF Awaiting
<1>5. QED BY <1>1, <1>2, <1>3, <1>4 DEF SetExpression, control

LEMMA VarDeclMoves == ASSUME IInv, VarDecl PROVE Moves
<1>1. CASE BeginStatement("VarDecl", "VarDecl") BY <1>1, BeginStatementMoves DEF Awaiting
<1>2. cur \in Ref /\ Plain \in Value BY DEF IInv, DataOK, Value
<1>3. ASSUME At("Declaration"), Finish, UNCHANGED control, NEW n \in OwnNames,
             Retain(Declare(heap, cur, n, Plain))
      PROVE  Moves
   <2>1. HeapMoves BY <1>2, <1>3, DeclareHeapMoves
   <2>2. frames # <<>> /\ status = "running" /\ Top.op = "Declaration" BY <1>3 DEF At
   <2>3. QED BY <1>3, <2>1, <2>2, FinishEnds DEF Moves
<1>4. ASSUME At("VarDecl"), Finish, UNCHANGED control, NEW n \in OwnNames,
             Retain(Declare(heap, cur, n, Operand))
      PROVE  Moves
   <2>1. Operand \in Value BY <1>4, AtFacts DEF Awaiting
   <2>2. HeapMoves BY <1>2, <1>4, <2>1, DeclareHeapMoves
   <2>3. QED BY <1>4, <2>2, OperandMoves DEF Awaiting
<1>5. QED BY <1>1, <1>3, <1>4 DEF VarDecl, control

LEMMA StatementBlockMoves == ASSUME IInv, StatementBlock PROVE Moves
<1>1. CASE At("Block") /\ Finish /\ UNCHANGED control /\ Retain(heap)
   <2>1. frames # <<>> /\ status = "running" /\ Top.op = "Block" BY <1>1 DEF At
   <2>2. QED BY <1>1, <2>1, FinishEnds, SameHeapMoves DEF Moves
<1>2. ASSUME AtStatement, Free # {}, UNCHANGED control, NEW table, table = Fresh({}),
             Become([Top EXCEPT !.op = "Block", !.prev = cur, !.scope = table]),
             Retain([heap EXCEPT ![table] = Table(cur, NoSymbols)])
      PROVE  Moves
   <2> DEFINE f == [Top EXCEPT !.op = "Block", !.prev = cur, !.scope = table]
              c == Table(cur, NoSymbols)
              new == Put(heap, table, c)
   <2>1. frames # <<>> /\ status = "running" /\ Top \in Frame /\ Top.op \notin Scoped
      BY <1>2, InnerFacts, ScopedOps DEF AtStatement, Childless
   <2>2. table \in Free BY <1>2, FreshFacts
   <2>3. c \in Cell /\ ClosureOK(c)
      BY NewCells, NotAClosure DEF IInv, DataOK
   <2>4. Retain(new) BY <1>2 DEF Put
   <2> HIDE DEF c
   <2>5. new \in [Ref -> Cell] /\ Grows(heap, new) /\ Fills(heap, new)
      BY <2>2, <2>3, AllocHeapMoves
   <2>6. HeapMoves BY <2>4, <2>5 DEF HeapMoves
   <2>7. f.op = "Block" /\ f.scope = table BY <2>1 DEF Frame
   <2>8. frames' = OnAs(f) BY <1>2 DEF Become, OnAs
   <2> HIDE DEF f
   <2>9. status' = "running" /\ failure' = failure BY <1>2, <2>1 DEF control
   <2>10. Enters BY <2>1, <2>2, <2>7, <2>8, <2>9 DEF Enters
   <2>11. QED BY <2>1, <2>6, <2>9, <2>10 DEF Moves, FrameMoves
<1>3. QED BY <1>1, <1>2 DEF StatementBlock

\* A function or a class is made and declared in the innermost scope.
LEMMA DeclarationMoves ==
    ASSUME IInv, At("Declaration"), Finish, UNCHANGED control, Free # {},
           NEW n \in OwnNames, NEW c \in Cell, ClosureOK(c),
           Retain(Declare([heap EXCEPT ![Fresh({})] = c], cur, n, Fresh({})))
    PROVE  Moves
<1> DEFINE a == Fresh({})
           h == Put(heap, a, c)
<1>1. a \in Free /\ a \in Value /\ cur \in Ref /\ n \in Names
   BY FreshFacts, FreeIsFree, ScriptsWellFormed DEF IInv, DataOK
<1>2. Retain(Declare(h, cur, n, a)) BY DEF Put
<1> HIDE DEF a
<1>3. h \in [Ref -> Cell] /\ Grows(heap, h) /\ Fills(heap, h) BY <1>1, AllocHeapMoves
<1> HIDE DEF h
<1>4. HeapMoves BY <1>1, <1>2, <1>3, DeclareMoves DEF HeapMoves
<1>5. frames # <<>> /\ status = "running" /\ Top.op = "Declaration" BY DEF At
<1>6. QED BY <1>4, <1>5, FinishEnds DEF Moves

LEMMA FunctionDeclarationMoves == ASSUME IInv, FunctionDeclaration PROVE Moves
<1>1. PICK n \in OwnNames, params \in Signatures :
         Retain(Declare([heap EXCEPT ![Fresh({})] = Function(cur, params)], cur, n, Fresh({})))
   BY DEF FunctionDeclaration
<1>2. params \in Seq(Names) /\ cur \in Ref BY ScriptsWellFormed DEF IInv, DataOK
<1>3. Function(cur, params) \in Cell /\ ClosureOK(Function(cur, params))
   BY <1>2, NewCells, NotAClosure DEF FunctionDeclaration, Uses
<1>4. QED BY <1>1, <1>3, DeclarationMoves DEF FunctionDeclaration, control

LEMMA ClassDeclarationMoves == ASSUME IInv, ClassDeclaration PROVE Moves
<1>1. PICK n \in OwnNames, methods \in ClassBodies :
         LET closure == IF methods = NoSymbols THEN None ELSE cur
         IN  Retain(Declare([heap EXCEPT ![Fresh({})] = Class(n, closure, methods)],
                            cur, n, Fresh({})))
   BY DEF ClassDeclaration
<1> DEFINE closure == IF methods = NoSymbols THEN None ELSE cur
           c == Class(n, closure, methods)
<1>2. /\ n \in Names /\ methods \in [Names -> Signatures \cup {None}]
      /\ closure \in Ref \cup {None}
   BY ScriptsWellFormed DEF IInv, DataOK
<1>3. Retain(Declare([heap EXCEPT ![Fresh({})] = c], cur, n, Fresh({}))) BY <1>1
<1> HIDE DEF closure
<1>4. c \in Cell /\ ClosureOK(c) BY <1>2, NewCells, NotAClosure
<1> HIDE DEF c
<1>5. QED BY <1>3, <1>4, DeclarationMoves DEF ClassDeclaration, control

LEMMA AnonymousMethodMoves == ASSUME IInv, AnonymousMethod PROVE Moves
<1>1. CASE BeginExpr("AnonymousMethod", "AnonInst") BY <1>1, BeginExprMoves DEF Awaiting
<1>2. ASSUME At("AnonInst"), Is(Operand, "instance"), Cardinality(Free) >= 2,
             NEW method, method = Fresh({}), NEW table, table = Fresh({method}),
             Become([Top EXCEPT !.op = "AnonBody", !.prev = cur, !.scope = table,
                                !.locals = <<Operand, method>>]),
             UNCHANGED control,
             Retain([heap EXCEPT ![method] = Bound(Operand, <<>>),
                                 ![table] = Table(method, NoSymbols)])
      PROVE  Moves
   <2> DEFINE f == [Top EXCEPT !.op = "AnonBody", !.prev = cur, !.scope = table,
                               !.locals = <<Operand, method>>]
              c1 == Bound(Operand, <<>>)
              c2 == Table(method, NoSymbols)
              h1 == Put(heap, method, c1)
              new == Put(h1, table, c2)
   <2>1. /\ frames # <<>> /\ status = "running" /\ Top \in Frame /\ Top.op \notin Scoped
      BY <1>2, InnerFacts, ScopedOps DEF Awaiting
   <2>2. IsFiniteSet(Free) BY AddressesDistinct, FS_Subset DEF Free
   <2>3. Free # {} /\ Free \ {method} # {} BY <1>2, <2>2, TwoAreFree
   <2>4. method \in Free /\ table \in Free /\ table # method BY <1>2, <2>3, FreshFacts
   <2>5. method \in Ref /\ table \in Ref /\ heap[table].tag = "free" BY <2>4, FreeIsFree
   <2>6. Operand \in Addr /\ <<>> \in Seq(Names) BY <1>2, EmptySeq DEF Is
   <2>7. c1 \in Cell /\ ClosureOK(c1) BY <2>6, BoundFacts, NotAClosure
   <2>8. c2 \in Cell /\ ClosureOK(c2) BY <2>5, NewCells, NotAClosure
   <2>9. Retain(new) BY <1>2, Zenon DEF Put
   <2> HIDE DEF c1, c2
   <2>10. /\ h1 \in [Ref -> Cell] /\ Grows(heap, h1) /\ Fills(heap, h1)
          /\ \A b \in Ref : b # method => h1[b] = heap[b]
      BY <2>4, <2>7, AllocHeapMoves
   <2> HIDE DEF h1
   <2>11. h1[table].tag = "free" BY <2>4, <2>5, <2>10
   <2>12. new \in [Ref -> Cell] /\ Grows(heap, new) /\ Fills(heap, new)
      BY <2>4, <2>8, <2>10, <2>11, AllocMoves
   <2>13. HeapMoves BY <2>9, <2>12 DEF HeapMoves
   <2>14. f.op = "AnonBody" /\ f.scope = table BY <2>1 DEF Frame
   <2>15. frames' = OnAs(f) BY <1>2 DEF Become, OnAs
   <2> HIDE DEF f
   <2>16. status' = "running" /\ failure' = failure BY <1>2, <2>1 DEF control
   <2>17. Enters BY <2>1, <2>4, <2>14, <2>15, <2>16 DEF Enters
   <2>18. QED BY <2>1, <2>13, <2>16, <2>17 DEF Moves, FrameMoves
<1>3. CASE At("AnonInst") /\ Crash /\ Retain(heap)
   BY <1>3, OperandMoves, SameHeapMoves DEF Awaiting
<1>4. CASE At("AnonBody") /\ Return(Top.locals[1])
   <2>1. frames # <<>> /\ status = "running" /\ Top.op \in Catchers /\ Retain(heap)
      BY <1>4 DEF At, Catchers, Return
   <2>2. QED BY <1>4, <2>1, ReturnEnds, SameHeapMoves DEF Moves
<1>5. QED BY <1>1, <1>2, <1>3, <1>4 DEF AnonymousMethod

\* The activation of a call enters the table that was made for it.
LEMMA BodyIs ==
    ASSUME IInv, At("Args"), NEW table
    PROVE  LET f == [Top EXCEPT !.op = "Body", !.prev = cur, !.scope = table]
           IN  f.op = "Body" /\ f.scope = table /\ f.locals[1] = Callee
<1>1. Top \in Frame BY CalleeFacts
<1>2. QED BY <1>1 DEF Frame, Callee

LEMMA CallFunctionMoves ==
    ASSUME IInv, IInv', At("Args"), Is(Callee, "function"),
           NEW params \in Seq(Names), Len(params) = Len(Args), CallFunction(params)
    PROVE  Moves
<1> DEFINE table == Fresh({})
           c(k) == Table(Home(Callee), Parameters(params, Args, k))
           Entered(k) == Put(heap, table, c(k))
           f == [Top EXCEPT !.op = "Body", !.prev = cur, !.scope = table]
<1>1. /\ frames # <<>> /\ status = "running" /\ Top.op = "Args" /\ Top.op \notin Scoped
      /\ Args \in Seq(Value \cup {None}) /\ Len(params) \in Nat
   BY CalleeFacts, InnerFacts, LenProperties, ScopedOps DEF Childless
<1>2. table \in Free BY FreshFacts DEF CallFunction
<1>3. Home(Callee) \in Ref
   <2>1. Callee \in Ref /\ HeapOK(heap) BY DEF Is, Ref, IInv, DataOK
   <2>2. heap[Callee].link \in Ref \cup {None} BY <2>1, CellFacts DEF Cell
   <2>3. QED BY <2>1, <2>2 DEF Home, Ref
<1>4. ASSUME NEW k \in Nat, k <= Len(params), Retain(Entered(k))
      PROVE  HeapMoves /\ heap'[Globals].symbols = heap[Globals].symbols
   <2>1. Parameters(params, Args, k) \in [Names -> Value \cup {None}]
      BY <1>1, <1>4, ParametersType
   <2>2. c(k) \in Cell /\ ClosureOK(c(k)) BY <1>3, <2>1, NewCells, NotAClosure
   <2>3. Globals \in Ref /\ Globals # table BY <1>2, AddressesDistinct DEF Free, Ref
   <2> HIDE DEF c, table
   <2>4. /\ Entered(k) \in [Ref -> Cell] /\ Grows(heap, Entered(k)) /\ Fills(heap, Entered(k))
         /\ Entered(k)[Globals] = heap[Globals]
      BY <1>2, <2>2, <2>3, AllocHeapMoves
   <2> HIDE DEF Entered
   <2>5. QED BY <1>4, <2>4, GlobalsRemain DEF HeapMoves
<1>5. \/ Become(f) /\ UNCHANGED control /\ Retain(Entered(Len(params)))
      \/ \E k \in 0..(Len(params) - 1) :
            /\ Refuse(UnknownTypes(Home(Callee), Parameters(params, Args, k)))
            /\ Retain(Entered(k))
   BY Zenon DEF CallFunction, Put
<1>6. f.op = "Body" /\ f.scope = table /\ f.locals[1] = Callee BY BodyIs
<1> HIDE DEF Entered, f, table
<1>7. CASE Become(f) /\ UNCHANGED control /\ Retain(Entered(Len(params)))
   <2>1. HeapMoves BY <1>1, <1>4, <1>7
   <2>2. frames' = OnAs(f) /\ status' = "running" /\ failure' = failure
      BY <1>1, <1>7 DEF Become, OnAs, control
   <2>3. Callee \in Addr /\ heap[Callee].tag = "function" BY DEF Is
   <2>4. Enters BY <1>1, <1>2, <1>6, <2>2, <2>3 DEF Enters
   <2>5. QED BY <1>1, <2>1, <2>2, <2>4 DEF Moves, FrameMoves
<1>8. ASSUME NEW k \in 0..(Len(params) - 1), Retain(Entered(k)),
             Refuse(UnknownTypes(Home(Callee), Parameters(params, Args, k)))
      PROVE  Moves
   <2> DEFINE unknown == UnknownTypes(Home(Callee), Parameters(params, Args, k))
   <2>1. k \in Nat /\ k <= Len(params) BY <1>1
   <2>2. HeapMoves /\ heap'[Globals].symbols = heap[Globals].symbols BY <1>4, <1>8, <2>1
   <2>3. unknown \in SUBSET Names /\ \A t \in unknown : FindSymbol(Home(Callee), t) = {}
      BY DEF UnknownTypes
   <2>4. \E a \in Ref : heap[a].tag = "function" /\ Home(Callee) = Home(a) BY DEF Is, Ref
   <2> HIDE DEF unknown
   <2>5. FrameMoves BY <1>1, <1>8, <2>2, <2>3, <2>4, RefuseFails DEF unknown
   <2>6. QED BY <2>2, <2>5 DEF Moves
<1>9. QED BY <1>5, <1>7, <1>8

\* The four objects that a class's call makes.
LEMMA ClassHeapMoves ==
    ASSUME IInv, Is(Callee, "class"),
           NEW outer \in Free, NEW instance \in Free, NEW constructor \in Free,
           NEW inner \in Free, outer # instance, outer # constructor, outer # inner,
           instance # constructor, instance # inner, constructor # inner,
           NEW params \in Seq(Names), NEW symbols \in [Names -> Value \cup {None}]
    PROVE  LET new == ClassHeap(outer, instance, constructor, inner, params, symbols)
           IN  /\ new \in [Ref -> Cell] /\ Grows(heap, new) /\ Fills(heap, new)
               /\ new[Globals] = heap[Globals]
<1> DEFINE c1 == Table(heap[Callee].link, NoSymbols)
           c2 == Instance(Callee)
           c3 == Bound(instance, params)
           c4 == Table(constructor, symbols)
           h1 == Put(heap, outer, c1)
           h2 == Put(h1, instance, c2)
           h3 == Put(h2, constructor, c3)
           h4 == Put(h3, inner, c4)
<1>1. /\ outer \in Ref /\ instance \in Ref /\ constructor \in Ref /\ inner \in Ref
      /\ heap[instance].tag = "free" /\ instance \in Addr
      /\ heap[constructor].tag = "free" /\ heap[inner].tag = "free"
      /\ Globals \in Ref /\ Globals \notin {outer, instance, constructor, inner}
   BY FreeIsFree, AddressesDistinct DEF Free, Ref
<1>2. Callee \in Ref /\ HeapOK(heap) BY DEF Is, Ref, IInv, DataOK
<1>3. heap[Callee].link \in Ref \cup {None} BY <1>2, CellFacts DEF Cell
<1>4. c1 \in Cell /\ ClosureOK(c1) BY <1>3, NewCells, NotAClosure
<1>5. c2 \in Cell /\ ClosureOK(c2) BY <1>2, NewCells, NotAClosure
<1>6. c3 \in Cell /\ ClosureOK(c3) BY <1>1, BoundFacts, NotAClosure
<1>7. c4 \in Cell /\ ClosureOK(c4) BY <1>1, NewCells, NotAClosure
<1>8. h4 = ClassHeap(outer, instance, constructor, inner, params, symbols)
   BY DEF ClassHeap
<1> HIDE DEF c1, c2, c3, c4
<1>9. /\ h1 \in [Ref -> Cell] /\ Grows(heap, h1) /\ Fills(heap, h1)
      /\ \A b \in Ref : b # outer => h1[b] = heap[b]
   BY <1>4, AllocHeapMoves
<1> HIDE DEF h1
<1>10. /\ h2 \in [Ref -> Cell] /\ Grows(heap, h2) /\ Fills(heap, h2)
       /\ \A b \in Ref : b # instance => h2[b] = h1[b]
   <2>1. h1[instance].tag = "free" BY <1>1, <1>9
   <2>2. QED BY <1>5, <1>9, <2>1, AllocMoves
<1> HIDE DEF h2
<1>11. /\ h3 \in [Ref -> Cell] /\ Grows(heap, h3) /\ Fills(heap, h3)
       /\ \A b \in Ref : b # constructor => h3[b] = h2[b]
   <2>1. h2[constructor].tag = "free" BY <1>1, <1>9, <1>10
   <2>2. QED BY <1>6, <1>10, <2>1, AllocMoves
<1> HIDE DEF h3
<1>12. /\ h4 \in [Ref -> Cell] /\ Grows(heap, h4) /\ Fills(heap, h4)
       /\ \A b \in Ref : b # inner => h4[b] = h3[b]
   <2>1. h3[inner].tag = "free" BY <1>1, <1>9, <1>10, <1>11
   <2>2. QED BY <1>7, <1>11, <2>1, AllocMoves
<1> HIDE DEF h4
<1>13. h4[Globals] = heap[Globals] BY <1>1, <1>9, <1>10, <1>11, <1>12
<1>14. QED BY <1>8, <1>12, <1>13

LEMMA CallClassMoves ==
    ASSUME IInv, IInv', At("Args"), Is(Callee, "class"),
           NEW params \in Seq(Names), Len(params) = Len(Args), CallClass(params)
    PROVE  Moves
<1> DEFINE outer == Fresh({})
           instance == Fresh({outer})
           constructor == Fresh({outer, instance})
           inner == Fresh({outer, instance, constructor})
           Entered(k) == ClassHeap(outer, instance, constructor, inner, params,
                                   Parameters(params, Args, k))
           f == [Top EXCEPT !.op = "Body", !.prev = cur, !.scope = outer]
           g == [op |-> "Ctor", prev |-> outer, locals |-> <<instance, constructor>>,
                 at |-> outer, base |-> Len(values), scope |-> inner]
<1>1. /\ frames # <<>> /\ status = "running" /\ Top.op = "Args" /\ Top.op \notin Scoped
      /\ Args \in Seq(Value \cup {None}) /\ Len(params) \in Nat /\ IsFiniteSet(Free)
   BY CalleeFacts, InnerFacts, LenProperties, ScopedOps DEF Childless
<1>2. Cardinality(Free) >= 4 BY DEF CallClass
<1>3. /\ outer \in Free /\ instance \in Free /\ constructor \in Free /\ inner \in Free
      /\ outer # instance /\ outer # constructor /\ outer # inner
      /\ instance # constructor /\ instance # inner /\ constructor # inner
   BY <1>1, <1>2, FreshFour
<1>4. \/ /\ frames' = Append(OnAs(f), g)
         /\ UNCHANGED control
         /\ Retain(Entered(Len(params)))
      \/ \E k \in 0..(Len(params) - 1) :
            /\ Refuse(UnknownTypes(Globals, Parameters(params, Args, k)) \ {This})
            /\ Retain(Entered(k))
   BY Zenon DEF CallClass, ClassHeap, Put, OnAs
<1> HIDE DEF outer, instance, constructor, inner
<1>5. ASSUME NEW k \in Nat, k <= Len(params), Retain(Entered(k))
      PROVE  HeapMoves /\ heap'[Globals].symbols = heap[Globals].symbols
   <2>1. Parameters(params, Args, k) \in [Names -> Value \cup {None}]
      BY <1>1, <1>5, ParametersType
   <2>2. /\ Entered(k) \in [Ref -> Cell] /\ Grows(heap, Entered(k)) /\ Fills(heap, Entered(k))
         /\ Entered(k)[Globals] = heap[Globals]
      BY <1>3, <2>1, ClassHeapMoves
   <2> HIDE DEF Entered
   <2>3. QED BY <1>5, <2>2, GlobalsRemain DEF HeapMoves
<1>6. f.op = "Body" /\ f.scope = outer /\ f.locals[1] = Callee BY BodyIs
<1>7. g.op = "Ctor" OBVIOUS
<1> HIDE DEF Entered, f, g
<1>8. CASE /\ frames' = Append(OnAs(f), g) /\ UNCHANGED control
           /\ Retain(Entered(Len(params)))
   <2>1. HeapMoves BY <1>1, <1>5, <1>8
   <2>2. status' = "running" /\ failure' = failure BY <1>1, <1>8 DEF control
   <2>3. Callee \in Addr /\ heap[Callee].tag = "class" BY DEF Is
   <2>4. Constructs BY <1>1, <1>3, <1>6, <1>7, <1>8, <2>2, <2>3 DEF Constructs
   <2>5. QED BY <1>1, <2>1, <2>2, <2>4 DEF Moves, FrameMoves
<1>9. ASSUME NEW k \in 0..(Len(params) - 1), Retain(Entered(k)),
             Refuse(UnknownTypes(Globals, Parameters(params, Args, k)) \ {This})
      PROVE  Moves
   <2> DEFINE unknown == UnknownTypes(Globals, Parameters(params, Args, k)) \ {This}
   <2>1. k \in Nat /\ k <= Len(params) BY <1>1
   <2>2. HeapMoves /\ heap'[Globals].symbols = heap[Globals].symbols BY <1>5, <1>9, <2>1
   <2>3. unknown \in SUBSET Names /\ \A t \in unknown : FindSymbol(Globals, t) = {}
      BY DEF UnknownTypes
   <2> HIDE DEF unknown
   <2>4. FrameMoves BY <1>1, <1>9, <2>2, <2>3, RefuseFails DEF unknown
   <2>5. QED BY <2>2, <2>4 DEF Moves
<1>10. QED BY <1>4, <1>8, <1>9

LEMMA DispatchMoves == ASSUME IInv, IInv', At("Args"), Dispatch PROVE Moves
<1>1. /\ frames # <<>> /\ status = "running" /\ Top.op = "Args"
      /\ Top.op \notin {"Ctor", "Program"} /\ HeapOK(heap)
   BY CalleeFacts DEF IInv, DataOK
<1>2. ASSUME NEW kind \in {"other", "constructor"}, NEW n, Raise(kind, n), Retain(heap)
      PROVE  Moves
   BY <1>1, <1>2, RaiseFails, SameHeapMoves DEF Moves
<1>3. CASE Crash /\ Retain(heap)
   BY <1>1, <1>3, CrashCrashes, SameHeapMoves DEF Moves
<1>4. CASE Finish /\ UNCHANGED control /\ Retain(heap)
   BY <1>1, <1>4, FinishEnds, SameHeapMoves DEF Moves
<1>5. CASE /\ Is(Callee, "function")
           /\ LET params == heap[Callee].params
              IN  \/ params # None /\ Len(params) = Len(Args) /\ CallFunction(params)
                  \/ Raise("other", None) /\ Retain(heap)
                  \/ Crash /\ Retain(heap)
   <2>1. Callee \in Ref BY <1>5 DEF Is, Ref
   <2>2. heap[Callee].params \in Seq(Names) \cup {None} BY <1>1, <2>1, CellFacts DEF Cell
   <2>3. CASE /\ heap[Callee].params # None /\ Len(heap[Callee].params) = Len(Args)
              /\ CallFunction(heap[Callee].params)
      BY <1>5, <2>2, <2>3, CallFunctionMoves
   <2>4. QED BY <1>2, <1>3, <1>5, <2>3
<1>6. CASE /\ Is(Callee, "class")
           /\ LET class == heap[Callee]
                  params == class.methods[class.name]
              IN  \/ params # None /\ Len(params) = Len(Args) /\ CallClass(params)
                  \/ Raise("other", None) /\ Retain(heap)
                  \/ Raise("constructor", class.name) /\ Retain(heap)
   <2> DEFINE params == heap[Callee].methods[heap[Callee].name]
   <2>1. Callee \in Ref /\ heap[Callee].tag = "class" BY <1>6 DEF Is, Ref
   <2>2. heap[Callee] \in Cell /\ heap[Callee].name \in Names BY <1>1, <2>1, CellFacts
   <2>3. params \in Signatures \cup {None} BY <2>2 DEF Cell
   <2>4. params \in Seq(Names) \cup {None} BY <2>3, ScriptsWellFormed
   <2>5. CASE params # None /\ Len(params) = Len(Args) /\ CallClass(params)
      BY <1>6, <2>4, <2>5, CallClassMoves
   <2>6. QED BY <1>2, <1>6, <2>5
<1>7. QED BY <1>2, <1>3, <1>4, <1>5, <1>6 DEF Dispatch

LEMMA CallMoves == ASSUME IInv, IInv', Call PROVE Moves
<1>1. CASE BeginExpr("Call", "Callee") BY <1>1, BeginExprMoves DEF Awaiting
<1>2. CASE /\ \/ At("Callee") /\ PopValue
                 /\ Become([Top EXCEPT !.op = "Args", !.locals = <<Operand>>])
              \/ At("Arg") /\ PopValue
                 /\ Become([Top EXCEPT !.op = "Args", !.locals = Append(@, Operand)])
           /\ UNCHANGED control /\ Retain(heap)
   BY <1>2, CallArgumentsMoves
<1>3. CASE At("Args") /\ UNCHANGED control /\ Evaluate("Arg") /\ Retain(heap)
   BY <1>3, InnerFacts, EvaluateContinues, SameHeapMoves, ScopedOps
   DEF Moves, Ops, Awaiting, Childless
<1>4. CASE At("Args") /\ Dispatch BY <1>4, DispatchMoves
<1>5. CASE At("Body") /\ Return(Plain)
   <2>1. frames # <<>> /\ status = "running" /\ Top.op \in Catchers /\ Retain(heap)
      BY <1>5 DEF At, Catchers, Return
   <2>2. QED BY <1>5, <2>1, ReturnEnds, SameHeapMoves DEF Moves
<1>6. QED BY <1>1, <1>2, <1>3, <1>4, <1>5 DEF Call, control

LEMMA StepMoves == ASSUME IInv, IInv', Step PROVE Moves
BY LiteralMoves, IdentifierMoves, BinaryOpMoves, UnaryMoves, LogicOpMoves,
   AssignmentMoves, GetExpressionMoves, SetExpressionMoves, CallMoves,
   AnonymousMethodMoves, ExpressionStatementMoves, IfStatementMoves, LoopMoves,
   VarDeclMoves, StatementBlockMoves, ReturnStatementMoves,
   FunctionDeclarationMoves, ClassDeclarationMoves, NextStatementMoves,
   EndConstructorMoves, CatchMoves, UnwindMoves, EscapeMoves, BadAllocMoves,
   EndProgramMoves
DEF Step

-----------------------------------------------------------------------------
(***************************************************************************)
(* What is always true of calls.                                           *)
(***************************************************************************)
ClassBody(f, h) == f.op = "Body" /\ h[f.locals[1]].tag = "class"

\* What is called is a function or a class.
CallOK(f, h) == f.op = "Body" => /\ f.locals[1] \in Addr
                                 /\ h[f.locals[1]].tag \in {"function", "class"}

\* A class runs its constructor, and only a class does.
Constructing(p, q, h) == ClassBody(p, h) <=> q.op = "Ctor"

\* When a class is the innermost call, its constructor has thrown the instance,
\* or a return statement of the constructor has thrown something else.
CallsOK(fr, st, h) ==
    /\ \A i \in 1..Len(fr) : CallOK(fr[i], h)
    /\ \A i \in 1..(Len(fr) - 1) : Constructing(fr[i], fr[i + 1], h)
    /\ Len(fr) > 0 /\ st # "returning" => ~ ClassBody(fr[Len(fr)], h)

\* A script that fails is the last one, unless the embedder retries, so each
\* one starts in the globals.
StartsOK(fr, st, c, kind) ==
    /\ st # "idle" => kind = "none"
    /\ ~ Retries => /\ Len(fr) > 0 => fr[1].scope = Globals
                    /\ st = "idle" /\ kind = "none" => c = Globals

ClosuresOK == \A a \in Ref : ClosureOK(heap[a])

NInv == /\ ClosuresOK
        /\ CallsOK(frames, status, heap)
        /\ StartsOK(frames, status, cur, failure.kind)

LEMMA OnAsIs ==
    ASSUME IInv, frames # <<>>, NEW f, NEW c
    PROVE  /\ Len(frames) \in Nat \ {0} /\ Len(OnAs(f)) = Len(frames)
           /\ \A i \in 1..Len(frames) : OnAs(f)[i] = IF i = Len(frames) THEN f ELSE frames[i]
           /\ Len(Append(OnAs(f), c)) = Len(frames) + 1
           /\ \A i \in 1..Len(frames) : Append(OnAs(f), c)[i] = OnAs(f)[i]
           /\ Append(OnAs(f), c)[Len(frames) + 1] = c
<1> DEFINE S == Frame \cup {f, c}
           g == OnAs(f)
<1>1. frames \in Seq(Frame) BY DEF IInv, StackOK, Chain
<1>2. frames \in Seq(S) BY <1>1
<1>3. Len(frames) \in Nat \ {0} BY <1>1, EmptySeq
<1>4. g \in Seq(S) /\ Len(g) = Len(frames)
      /\ \A j \in 1..Len(frames) : g[j] = IF j = Len(frames) THEN f ELSE frames[j]
   BY <1>2, <1>3, ExceptSeq DEF OnAs
<1> HIDE DEF g
<1>5. /\ Len(Append(g, c)) = Len(g) + 1
      /\ \A j \in 1..Len(g) : Append(g, c)[j] = g[j]
      /\ Append(g, c)[Len(g) + 1] = c
   BY <1>4, AppendProperties
<1>6. QED BY <1>3, <1>4, <1>5 DEF g

\* Calls that are as they were, when the innermost activation goes on as f.
LEMMA CallsOnAs ==
    ASSUME IInv, frames # <<>>, CallsOK(frames, "running", heap),
           NEW f, CallOK(f, heap), f.op = "Ctor" <=> Top.op = "Ctor",
           Top.op = "Ctor" => f = Top
    PROVE  LET g == OnAs(f)
           IN  /\ \A i \in 1..Len(g) : CallOK(g[i], heap)
               /\ \A i \in 1..(Len(g) - 1) : Constructing(g[i], g[i + 1], heap)
<1> DEFINE g == OnAs(f)
<1>1. /\ Len(frames) \in Nat \ {0} /\ Len(g) = Len(frames)
      /\ \A i \in 1..Len(frames) : g[i] = IF i = Len(frames) THEN f ELSE frames[i]
   BY OnAsIs
<1> HIDE DEF g
<1>2. \A i \in 1..Len(g) : CallOK(g[i], heap) BY <1>1 DEF CallsOK
<1>3. ASSUME NEW i \in 1..(Len(g) - 1) PROVE Constructing(g[i], g[i + 1], heap)
   <2>1. i \in 1..Len(frames) /\ i + 1 \in 1..Len(frames) /\ i # Len(frames) BY <1>1
   <2>2. g[i] = frames[i] BY <1>1, <2>1
   <2>3. Constructing(frames[i], frames[i + 1], heap) BY <1>1 DEF CallsOK
   <2>4. CASE i + 1 # Len(frames)
      <3>1. g[i + 1] = frames[i + 1] BY <1>1, <2>1, <2>4
      <3>2. QED BY <2>2, <2>3, <3>1 DEF Constructing
   <2>5. CASE i + 1 = Len(frames)
      <3>1. g[i + 1] = f /\ frames[i + 1] = Top BY <1>1, <2>1, <2>5 DEF Top
      <3>2. QED BY <2>2, <2>3, <3>1 DEF Constructing
   <2>6. QED BY <2>4, <2>5
<1>4. QED BY <1>2, <1>3 DEF g

\* When the innermost activation is over.
LEMMA CallsOfCallers ==
    ASSUME IInv, frames # <<>>, NEW st, CallsOK(frames, st, heap)
    PROVE  /\ \A i \in 1..Len(Callers) : CallOK(Callers[i], heap)
           /\ \A i \in 1..(Len(Callers) - 1) :
                 Constructing(Callers[i], Callers[i + 1], heap)
           /\ Len(Callers) > 0 => Constructing(Callers[Len(Callers)], Top, heap)
<1>1. /\ Len(frames) \in Nat \ {0} /\ Len(Callers) = Len(frames) - 1
      /\ \A i \in 1..Len(Callers) : Callers[i] = frames[i] /\ i \in 1..Len(frames)
   BY CallersAre DEF IInv, StackOK, Callers
<1>2. \A i \in 1..Len(Callers) : CallOK(Callers[i], heap) BY <1>1 DEF CallsOK
<1>3. ASSUME NEW i \in 1..(Len(Callers) - 1)
      PROVE  Constructing(Callers[i], Callers[i + 1], heap)
   <2>1. i \in 1..Len(Callers) /\ i + 1 \in 1..Len(Callers) /\ i \in 1..(Len(frames) - 1)
      BY <1>1
   <2>2. Constructing(frames[i], frames[i + 1], heap) BY <2>1 DEF CallsOK
   <2>3. QED BY <1>1, <2>1, <2>2 DEF Constructing
<1>4. ASSUME Len(Callers) > 0
      PROVE  Constructing(Callers[Len(Callers)], Top, heap)
   <2> DEFINE k == Len(Callers)
   <2>1. k \in 1..k /\ k \in 1..(Len(frames) - 1) /\ k + 1 = Len(frames) BY <1>1, <1>4
   <2>2. Callers[k] = frames[k] BY <1>1, <2>1
   <2> HIDE DEF k
   <2>3. Constructing(frames[k], frames[k + 1], heap) BY <2>1 DEF CallsOK
   <2>4. QED BY <2>1, <2>2, <2>3 DEF k, Top
<1>5. QED BY <1>2, <1>3, <1>4

\* What the moves do to calls, judged in the heap before them.
LEMMA CallsMove ==
    ASSUME IInv, IInv', NInv, FrameMoves
    PROVE  CallsOK(frames', status', heap)
<1>1. /\ frames # <<>> /\ CallsOK(frames, status, heap)
      /\ Len(frames) \in Nat \ {0} /\ Len(frames) \in 1..Len(frames)
      /\ CallOK(Top, heap)
   <2>1. frames # <<>> BY DEF FrameMoves
   <2>2. Len(frames) \in Nat \ {0} BY <2>1, OnAsIs
   <2>3. Len(frames) \in 1..Len(frames) BY <2>2
   <2>4. QED BY <2>1, <2>2, <2>3 DEF NInv, CallsOK, Top
<1>2. ASSUME status = "running"
      PROVE  ~ ClassBody(Top, heap) /\ CallsOK(frames, "running", heap)
   BY <1>1, <1>2 DEF CallsOK, Top
<1>3. CASE Continues
   <2>1. PICK f : /\ Onward(f)
                  /\ \/ frames' = OnAs(f)
                     \/ \E c : c.op \in Childless /\ frames' = Append(OnAs(f), c)
      BY <1>3 DEF Continues
   <2>2. status = "running" /\ status' = "running" BY <1>3 DEF Continues
   <2>3. CallOK(f, heap) /\ ~ ClassBody(f, heap)
         /\ (f.op = "Ctor" <=> Top.op = "Ctor") /\ (Top.op = "Ctor" => f = Top)
      BY <1>1, <1>2, <2>1, <2>2, ScopedOps DEF Onward, CallOK, ClassBody
   <2> DEFINE g == OnAs(f)
   <2>4. /\ \A i \in 1..Len(g) : CallOK(g[i], heap)
         /\ \A i \in 1..(Len(g) - 1) : Constructing(g[i], g[i + 1], heap)
      BY <1>1, <1>2, <2>2, <2>3, CallsOnAs
   <2>5. Len(g) = Len(frames) /\ g[Len(g)] = f BY <1>1, OnAsIs
   <2>6. CASE frames' = g BY <2>2, <2>3, <2>4, <2>5, <2>6 DEF CallsOK
   <2>7. ASSUME NEW c, c.op \in Childless, frames' = Append(g, c)
         PROVE  CallsOK(frames', status', heap)
      <3>1. /\ Len(frames') = Len(g) + 1 /\ frames'[Len(g) + 1] = c
            /\ \A i \in 1..Len(g) : frames'[i] = g[i]
         BY <1>1, <2>5, <2>7, OnAsIs
      <3>2. c.op \notin {"Return", "Body", "Ctor"} BY <2>7 DEF Childless
      <3> HIDE DEF g
      <3>3. \A i \in 1..Len(frames') : CallOK(frames'[i], heap)
         <4>1. TAKE i \in 1..Len(frames')
         <4>2. CASE i = Len(g) + 1 BY <3>1, <3>2, <4>2 DEF CallOK
         <4>3. CASE i # Len(g) + 1
            <5>1. i \in 1..Len(g) BY <1>1, <2>5, <3>1, <4>3
            <5>2. QED BY <2>4, <3>1, <5>1
         <4>4. QED BY <4>2, <4>3
      <3>4. \A i \in 1..(Len(frames') - 1) :
               Constructing(frames'[i], frames'[i + 1], heap)
         <4>1. TAKE i \in 1..(Len(frames') - 1)
         <4>2. CASE i = Len(g)
            <5>1. frames'[i] = f /\ frames'[i + 1] = c BY <1>1, <2>5, <3>1, <4>2
            <5>2. QED BY <2>3, <3>2, <5>1 DEF Constructing, ClassBody
         <4>3. CASE i # Len(g)
            <5>1. i \in 1..(Len(g) - 1) /\ i \in 1..Len(g) /\ i + 1 \in 1..Len(g)
               BY <1>1, <2>5, <3>1, <4>3
            <5>2. QED BY <2>4, <3>1, <5>1
         <4>4. QED BY <4>2, <4>3
      <3>5. ~ ClassBody(frames'[Len(frames')], heap) BY <3>1, <3>2 DEF ClassBody
      <3>6. QED BY <2>2, <3>3, <3>4, <3>5 DEF CallsOK
   <2>8. QED BY <2>1, <2>6, <2>7
<1>4. CASE Enters
   <2>1. PICK f : /\ f.op \in {"Block", "Body", "AnonBody"}
                  /\ f.op = "Body" => f.locals[1] \in Addr /\ heap[f.locals[1]].tag = "function"
                  /\ frames' = OnAs(f)
      BY <1>4 DEF Enters
   <2>2. status = "running" /\ status' = "running" /\ Top.op # "Ctor"
      BY <1>4, ScopedOps DEF Enters
   <2>3. CallOK(f, heap) /\ ~ ClassBody(f, heap) /\ f.op # "Ctor"
      BY <2>1 DEF CallOK, ClassBody
   <2> DEFINE g == OnAs(f)
   <2>4. /\ \A i \in 1..Len(g) : CallOK(g[i], heap)
         /\ \A i \in 1..(Len(g) - 1) : Constructing(g[i], g[i + 1], heap)
      BY <1>1, <1>2, <2>2, <2>3, CallsOnAs
   <2>5. g[Len(g)] = f BY <1>1, OnAsIs
   <2>6. QED BY <2>1, <2>2, <2>3, <2>4, <2>5 DEF CallsOK
<1>5. CASE Constructs
   <2>1. PICK f, c : /\ f.op = "Body"
                     /\ f.locals[1] \in Addr /\ heap[f.locals[1]].tag = "class"
                     /\ c.op = "Ctor"
                     /\ frames' = Append(OnAs(f), c)
      BY <1>5 DEF Constructs
   <2>2. status = "running" /\ status' = "running" /\ Top.op # "Ctor"
      BY <1>5, ScopedOps DEF Constructs
   <2>3. CallOK(f, heap) /\ ClassBody(f, heap) BY <2>1 DEF CallOK, ClassBody
   <2>4. CallOK(c, heap) /\ ~ ClassBody(c, heap) BY <2>1 DEF CallOK, ClassBody
   <2> DEFINE g == OnAs(f)
   <2>5. /\ \A i \in 1..Len(g) : CallOK(g[i], heap)
         /\ \A i \in 1..(Len(g) - 1) : Constructing(g[i], g[i + 1], heap)
      BY <1>1, <1>2, <2>1, <2>2, <2>3, CallsOnAs
   <2>6. /\ Len(g) = Len(frames) /\ g[Len(g)] = f
         /\ Len(frames') = Len(g) + 1 /\ frames'[Len(g) + 1] = c
         /\ \A i \in 1..Len(g) : frames'[i] = g[i]
      <3>1. Len(g) = Len(frames) /\ g[Len(g)] = f BY <1>1, OnAsIs
      <3>2. frames' = Append(g, c) BY <2>1
      <3>3. /\ Len(frames') = Len(g) + 1 /\ frames'[Len(g) + 1] = c
            /\ \A i \in 1..Len(g) : frames'[i] = g[i]
         BY <1>1, <3>1, <3>2, OnAsIs
      <3>4. QED BY <3>1, <3>3
   <2> HIDE DEF g
   <2>7. \A i \in 1..Len(frames') : CallOK(frames'[i], heap)
      <3>1. TAKE i \in 1..Len(frames')
      <3>2. i = Len(g) + 1 \/ i \in 1..Len(g) BY <1>1, <2>6
      <3>3. QED BY <2>4, <2>5, <2>6, <3>2
   <2>8. \A i \in 1..(Len(frames') - 1) :
            Constructing(frames'[i], frames'[i + 1], heap)
      <3>1. TAKE i \in 1..(Len(frames') - 1)
      <3>2. CASE i = Len(g)
         <4>1. frames'[i] = f /\ frames'[i + 1] = c BY <1>1, <2>6, <3>2
         <4>2. QED BY <2>1, <2>3, <4>1 DEF Constructing
      <3>3. CASE i # Len(g)
         <4>1. i \in 1..(Len(g) - 1) /\ i \in 1..Len(g) /\ i + 1 \in 1..Len(g)
            BY <1>1, <2>6, <3>3
         <4>2. QED BY <2>5, <2>6, <4>1
      <3>4. QED BY <3>2, <3>3
   <2>9. QED BY <2>2, <2>4, <2>6, <2>7, <2>8 DEF CallsOK
<1>6. ASSUME frames' = Callers, NEW st \in {"running", "returning"}, status' = st,
             st = "running" /\ Len(Callers) > 0 => ~ ClassBody(Callers[Len(Callers)], heap)
      PROVE  CallsOK(frames', status', heap)
   <2>1. /\ \A i \in 1..Len(Callers) : CallOK(Callers[i], heap)
         /\ \A i \in 1..(Len(Callers) - 1) :
               Constructing(Callers[i], Callers[i + 1], heap)
      BY <1>1, CallsOfCallers
   <2>2. QED BY <1>6, <2>1 DEF CallsOK
<1>7. Len(Callers) > 0 => Constructing(Callers[Len(Callers)], Top, heap)
   BY <1>1, CallsOfCallers
<1>8. ASSUME Top.op # "Ctor", Len(Callers) > 0
      PROVE  ~ ClassBody(Callers[Len(Callers)], heap)
   BY <1>7, <1>8 DEF Constructing
<1>9. CASE Ends BY <1>6, <1>8, <1>9 DEF Ends
<1>10. CASE Catches BY <1>6, <1>8, <1>10 DEF Catches, Catchers
<1>11. CASE Constructed \/ Leaves \/ Unwinds
   BY <1>6, <1>11 DEF Constructed, Leaves, Unwinds
<1>12. CASE Completes \/ Fails
   <2>1. Len(frames') = 0 /\ status' = "idle" BY <1>12, EmptySeq DEF Completes, Fails
   <2>2. QED BY <2>1 DEF CallsOK
<1>13. CASE Crashes
   <2>1. frames' = frames /\ status' = "crashed" /\ status = "running"
      BY <1>13 DEF Crashes
   <2>2. QED BY <1>1, <1>2, <2>1 DEF CallsOK, Constructing
<1>14. QED
   BY <1>3, <1>4, <1>5, <1>9, <1>10, <1>11, <1>12, <1>13 DEF FrameMoves

\* What is called is held by the C++ stack.
LEMMA FirstIsRoot ==
    ASSUME IInv', NEW i \in 1..Len(frames'), frames'[i].op = "Body"
    PROVE  frames'[i].locals[1] \in Roots'
<1>1. frames' \in Seq(Frame) /\ values' \in Seq(Value) /\ FrameOK(frames'[i])
   BY DEF IInv, DataOK, StackOK, Chain
<1>2. 1 \in DOMAIN frames'[i].locals BY <1>1, LocalsOf DEF Catchers
<1>3. QED BY <1>1, <1>2, RootsAre

LEMMA CallRemains ==
    ASSUME HeapMoves, IInv, IInv', NEW i \in 1..Len(frames'), CallOK(frames'[i], heap)
    PROVE  CallOK(frames'[i], heap') /\ (ClassBody(frames'[i], heap') <=> ClassBody(frames'[i], heap))
<1> DEFINE c == frames'[i].locals[1]
<1>1. CASE frames'[i].op = "Body"
   <2>1. c \in Addr /\ c \in Ref /\ heap[c].tag \in {"function", "class"} /\ c \in Roots'
      BY <1>1, FirstIsRoot DEF CallOK, Ref
   <2>2. heap'[c].tag = heap[c].tag BY <2>1, WhatRemains DEF Remains
   <2>3. QED BY <2>1, <2>2 DEF CallOK, ClassBody
<1>2. CASE frames'[i].op # "Body" BY <1>2 DEF CallOK, ClassBody
<1>3. QED BY <1>1, <1>2

LEMMA CallsRemain ==
    ASSUME HeapMoves, IInv, IInv', CallsOK(frames', status', heap)
    PROVE  CallsOK(frames', status', heap')
<1>1. Len(frames') \in Nat BY LenProperties DEF IInv, StackOK, Chain
<1>2. \A i \in 1..Len(frames') : CallOK(frames'[i], heap') BY CallRemains DEF CallsOK
<1>3. ASSUME NEW i \in 1..(Len(frames') - 1)
      PROVE  Constructing(frames'[i], frames'[i + 1], heap')
   <2>1. i \in 1..Len(frames') BY <1>1
   <2>2. Constructing(frames'[i], frames'[i + 1], heap) BY DEF CallsOK
   <2>3. ClassBody(frames'[i], heap') <=> ClassBody(frames'[i], heap)
      BY <2>1, CallRemains DEF CallsOK
   <2>4. QED BY <2>2, <2>3 DEF Constructing
<1>4. ASSUME Len(frames') > 0, status' # "returning"
      PROVE  ~ ClassBody(frames'[Len(frames')], heap')
   <2>1. Len(frames') \in 1..Len(frames') BY <1>1, <1>4
   <2>2. QED BY <1>4, <2>1, CallRemains DEF CallsOK
<1>5. QED BY <1>2, <1>3, <1>4 DEF CallsOK

LEMMA ClosuresRemain ==
    ASSUME HeapMoves, IInv, IInv', ClosuresOK PROVE ClosuresOK'
<1> SUFFICES ASSUME NEW a \in Ref PROVE ClosureOK(heap'[a])
   BY DEF ClosuresOK
<1>1. ClosureOK(FreeCell) BY DEF ClosureOK, FreeCell
<1>2. CASE heap[a].tag = "free" BY <1>2, WhatRemains
<1>3. CASE heap'[a] = FreeCell BY <1>1, <1>3
<1>4. CASE Remains(a)
   <2>1. ClosureOK(heap[a]) BY DEF ClosuresOK
   <2>2. This \in Names BY ScriptsWellFormed
   <2>3. QED BY <1>4, <2>1, <2>2 DEF Remains, ClosureOK
<1>5. QED BY <1>2, <1>3, <1>4, WhatRemains

LEMMA StartsMove ==
    ASSUME IInv, IInv', NInv, FrameMoves
    PROVE  StartsOK(frames', status', cur', failure'.kind)
<1>1. /\ frames # <<>> /\ StartsOK(frames, status, cur, failure.kind)
      /\ Len(frames) \in Nat \ {0} /\ frames[1].op = "Program"
      /\ (~ Retries => frames[1].scope = Globals)
   <2>1. frames # <<>> BY DEF FrameMoves
   <2>2. Len(frames) \in Nat \ {0} BY <2>1, OnAsIs
   <2>3. Len(frames) > 0 BY <2>2
   <2>4. QED BY <2>1, <2>2, <2>3 DEF NInv, StartsOK, IInv, StackOK, Chain
<1>2. ASSUME failure' = failure, status # "idle", status' # "idle",
             Len(frames') > 0 => frames'[1].scope = frames[1].scope
      PROVE  StartsOK(frames', status', cur', failure'.kind)
   BY <1>1, <1>2 DEF StartsOK
<1>3. ASSUME NEW f, f.scope = frames[1].scope \/ Len(frames) # 1,
             frames' = OnAs(f) \/ \E c : frames' = Append(OnAs(f), c)
      PROVE  frames'[1].scope = frames[1].scope
   <2>1. 1 \in 1..Len(frames) BY <1>1
   <2>2. OnAs(f)[1] = IF Len(frames) = 1 THEN f ELSE frames[1] BY <1>1, <2>1, OnAsIs
   <2>3. ASSUME NEW c, frames' = Append(OnAs(f), c) PROVE frames'[1] = OnAs(f)[1]
      <3> DEFINE g == OnAs(f)
      <3>1. Len(g) = Len(frames) BY <1>1, OnAsIs
      <3>2. \A i \in 1..Len(g) : frames'[i] = g[i] BY <1>1, <2>3, <3>1, OnAsIs
      <3>3. QED BY <2>1, <3>1, <3>2
   <2>4. QED BY <1>3, <2>2, <2>3, Zenon
<1>4. CASE UNCHANGED failure /\ Continues
   <2>1. PICK f : Onward(f) /\ (frames' = OnAs(f) \/ \E c : frames' = Append(OnAs(f), c))
      BY <1>4 DEF Continues
   <2>2. f.scope = frames[1].scope \/ Len(frames) # 1 BY <2>1 DEF Onward, Top
   <2>3. frames'[1].scope = frames[1].scope BY <1>3, <2>1, <2>2
   <2>4. QED BY <1>2, <1>4, <2>3 DEF Continues
<1>5. Top.op \notin Scoped => Len(frames) # 1 BY <1>1, ScopedOps DEF Top
<1>6. CASE UNCHANGED failure /\ Enters
   <2>1. PICK f : frames' = OnAs(f) BY <1>6 DEF Enters
   <2>2. frames'[1].scope = frames[1].scope BY <1>3, <1>5, <1>6, <2>1 DEF Enters
   <2>3. QED BY <1>2, <1>6, <2>2 DEF Enters
<1>7. CASE UNCHANGED failure /\ Constructs
   <2>1. PICK f, c : frames' = Append(OnAs(f), c) BY <1>7, Zenon DEF Constructs
   <2>2. frames'[1].scope = frames[1].scope BY <1>3, <1>5, <1>7, <2>1 DEF Constructs
   <2>3. QED BY <1>2, <1>7, <2>2 DEF Constructs
<1>8. ASSUME frames' = Callers, Len(frames') > 0 PROVE frames'[1].scope = frames[1].scope
   <2>1. Len(Callers) = Len(frames) - 1 /\ \A i \in 1..Len(Callers) : Callers[i] = frames[i]
      BY <1>1, CallersAre DEF IInv, StackOK, Callers
   <2>2. 1 \in 1..Len(Callers) BY <1>1, <1>8, <2>1
   <2>3. QED BY <1>8, <2>1, <2>2
<1>9. CASE UNCHANGED failure /\ (Ends \/ Constructed \/ Leaves \/ Unwinds \/ Catches)
   BY <1>2, <1>8, <1>9 DEF Ends, Constructed, Leaves, Unwinds, Catches
<1>10. Len(<<>>) = 0 BY EmptySeq
<1>11. CASE Completes
   <2>1. Len(frames) = 1
      BY <1>1, <1>11, TopIsAFrame DEF Completes, IInv, StackOK, Top
   <2>2. cur = frames[1].scope
      BY <1>11, <2>1 DEF Completes, IInv, StackOK, Innermost
   <2>3. QED BY <1>1, <1>10, <1>11, <2>2 DEF Completes, StartsOK
<1>12. CASE Fails BY <1>10, <1>12 DEF Fails, StartsOK
<1>13. CASE Crashes BY <1>1, <1>13 DEF Crashes, StartsOK
<1>14. QED BY <1>4, <1>6, <1>7, <1>9, <1>11, <1>12, <1>13 DEF FrameMoves

LEMMA InterpretKeepsNInv == ASSUME IInv, IInv', NInv, Interpret PROVE NInv'
<1>1. HeapMoves BY SameHeapMoves DEF Interpret
<1>2. /\ frames' = <<Activation("Program")>> /\ status' = "running" /\ cur' = cur
      /\ failure' = NoFailure /\ status = "idle" /\ (failure = NoFailure \/ Retries)
   BY DEF Interpret
<1>3. Activation("Program").op = "Program" /\ Activation("Program").scope = cur
   BY DEF Activation
<1>4. NoFailure.kind = "none" BY DEF NoFailure
<1>5. /\ Len(frames') = 1 /\ frames'[1].op = "Program" /\ frames'[1].scope = cur
      /\ 1..1 = {1} /\ 1..(1 - 1) = {}
   BY <1>2, <1>3
<1>6. CallsOK(frames', status', heap)
   BY <1>2, <1>5 DEF CallsOK, CallOK, ClassBody
<1>7. StartsOK(frames', status', cur', failure'.kind)
   BY <1>2, <1>4, <1>5 DEF NInv, StartsOK
<1>8. QED BY <1>1, <1>6, <1>7, CallsRemain, ClosuresRemain DEF NInv

LEMMA InitImpliesNInv == Init => NInv
<1> SUFFICES ASSUME Init PROVE NInv
   OBVIOUS
<1> DEFINE g == Table(None, [n \in Names |-> IF n \in Builtins THEN Builtin ELSE None])
<1>1. heap = [a \in Ref |-> IF a = Globals THEN g ELSE FreeCell] BY DEF Init
<1>2. ClosureOK(g) BY NotAClosure
<1>3. ClosureOK(FreeCell) BY DEF ClosureOK, FreeCell
<1> HIDE DEF g
<1>4. ClosuresOK BY <1>1, <1>2, <1>3 DEF ClosuresOK
<1>5. Len(frames) = 0 /\ status = "idle" /\ cur = Globals /\ failure.kind = "none"
   BY EmptySeq DEF Init, NoFailure
<1>6. CallsOK(frames, status, heap) BY <1>5 DEF CallsOK
<1>7. QED BY <1>4, <1>5, <1>6 DEF NInv, StartsOK

LEMMA NextKeepsNInv == IInv /\ NInv /\ [Next]_vars => NInv'
<1> SUFFICES ASSUME IInv, NInv, [Next]_vars PROVE NInv'
   OBVIOUS
<1>1. IInv' BY NextKeepsIInv
<1>2. CASE UNCHANGED vars
   <2>1. ClosuresOK' BY <1>2 DEF NInv, ClosuresOK, vars
   <2>2. CallsOK(frames', status', heap')
         /\ StartsOK(frames', status', cur', failure'.kind)
      BY <1>2 DEF NInv, vars
   <2>3. QED BY <2>1, <2>2 DEF NInv
<1>3. CASE Interpret BY <1>1, <1>3, InterpretKeepsNInv
<1>4. CASE Step
   <2>1. HeapMoves /\ FrameMoves BY <1>1, <1>4, StepMoves DEF Moves
   <2>2. ClosuresOK' BY <1>1, <2>1, ClosuresRemain DEF NInv
   <2>3. CallsOK(frames', status', heap')
      BY <1>1, <2>1, CallsMove, CallsRemain
   <2>4. StartsOK(frames', status', cur', failure'.kind) BY <1>1, <2>1, StartsMove
   <2>5. QED BY <2>2, <2>3, <2>4 DEF NInv
<1>5. CASE Quit BY <1>2, <1>5 DEF Quit
<1>6. QED BY <1>2, <1>3, <1>4, <1>5 DEF Next

LEMMA CallsHold == Spec => [](IInv /\ LInv /\ NInv)
BY LifetimesHold, InitImpliesNInv, NextKeepsNInv, PTL DEF Spec

-----------------------------------------------------------------------------
(***************************************************************************)
(* Lookups.                                                                *)
(***************************************************************************)

\* A lookup of n that starts in t passes s, or ends in it.
Reaches(t, n, s) ==
    \A X \in SUBSET Ref :
        /\ t \in X
        /\ \A u \in X : heap[u].symbols[n] = None => heap[u].parent \in X \cup {None}
        => s \in X

LEMMA LookupClimbs ==
    ASSUME NEW t \in Ref, NEW n \in Names, FindSymbol(t, n) = {}
    PROVE  /\ Reaches(t, n, t)
           /\ \A s \in Ref : Reaches(t, n, s) =>
                 /\ heap[s].symbols[n] = None
                 /\ heap[s].parent \in Ref => Reaches(t, n, heap[s].parent)
<1> DEFINE declaring == {s \in Ref : heap[s].symbols[n] # None}
           closed == {X \in SUBSET Ref :
                         /\ t \in X
                         /\ \A s \in X \ declaring : heap[s].parent \in X \cup {None}}
<1>1. {s \in declaring : \A X \in closed : s \in X} = {} BY DEF FindSymbol
<1>2. \A X \in SUBSET Ref :
         X \in closed <=> /\ t \in X
                          /\ \A u \in X : heap[u].symbols[n] = None =>
                                             heap[u].parent \in X \cup {None}
   OBVIOUS
<1>3. \A s : Reaches(t, n, s) <=> \A X \in closed : s \in X BY <1>2 DEF Reaches
<1> HIDE DEF closed
<1>4. ASSUME NEW s \in Ref, Reaches(t, n, s) PROVE heap[s].symbols[n] = None
   BY <1>1, <1>3, <1>4
<1>5. ASSUME NEW s \in Ref, Reaches(t, n, s), heap[s].parent \in Ref
      PROVE  Reaches(t, n, heap[s].parent)
   <2>1. heap[s].symbols[n] = None /\ heap[s].parent # None
      BY <1>4, <1>5, AddressesDistinct DEF Ref
   <2>2. QED BY <1>5, <2>1 DEF Reaches
<1>6. Reaches(t, n, t) BY DEF Reaches
<1>7. QED BY <1>4, <1>5, <1>6

\* An activation that is not in a scope of its own is in that of the one below.
LEMMA OutsetIs ==
    ASSUME IInv, NEW i \in 1..Len(frames)
    PROVE  /\ OutsetOf(i) \in 1..i /\ OutsetOf(i) \in 1..Len(frames) /\ i \in Nat \ {0}
           /\ frames[OutsetOf(i)].op \in Outsets
           /\ \A k \in (OutsetOf(i) + 1)..i : frames[k].op \notin Outsets
<1> DEFINE S == {j \in 1..i : frames[j].op \in Outsets}
<1>1. frames \in Seq(Frame) /\ (Len(frames) > 0 => frames[1].op = "Program")
   BY DEF IInv, StackOK, Chain
<1>2. Len(frames) \in Nat /\ i \in Nat \ {0} /\ 1 \in 1..i BY <1>1, LenProperties
<1>3. 1 \in S BY <1>1, <1>2 DEF Outsets
<1>4. S \subseteq 1..i /\ S # {} /\ i \in Nat BY <1>2, <1>3
<1> HIDE DEF S
<1>5. PICK j \in S : \A k \in S : k <= j BY <1>4, GreatestIndex
<1>6. j \in 1..i /\ frames[j].op \in Outsets BY <1>5 DEF S
<1>7. ASSUME NEW k \in (j + 1)..i PROVE frames[k].op \notin Outsets
   <2>1. k \in 1..i /\ ~ (k <= j) BY <1>2, <1>6
   <2>2. k \notin S BY <1>5, <2>1
   <2>3. QED BY <2>1, <2>2 DEF S
<1> DEFINE IsOutset(m) == /\ frames[m].op \in Outsets
                            /\ \A k \in (m + 1)..i : frames[k].op \notin Outsets
<1>8. IsOutset(j) BY <1>6, <1>7
<1>9. OutsetOf(i) = CHOOSE m \in 1..i : IsOutset(m) BY DEF OutsetOf
<1> HIDE DEF IsOutset
<1>10. OutsetOf(i) \in 1..i /\ IsOutset(OutsetOf(i)) BY <1>6, <1>8, <1>9
<1>11. OutsetOf(i) \in 1..Len(frames) BY <1>2, <1>10
<1>12. QED BY <1>2, <1>10, <1>11 DEF IsOutset

\* Above its outset, an activation is in the scope of the one below it or in that
\* of a block right below that scope.
LEMMA BlocksNest ==
    ASSUME IInv, LInv, status = "running", NEW i \in 1..Len(frames),
           NEW j \in (OutsetOf(i) + 1)..i
    PROVE  /\ j \in 1..Len(frames) /\ j - 1 \in OutsetOf(i)..i
           /\ \/ frames[j].scope = frames[j - 1].scope
              \/ /\ heap[frames[j].scope].tag = "table"
                 /\ heap[frames[j].scope].parent = frames[j - 1].scope
<1> DEFINE r == OutsetOf(i)
           f == frames[j]
<1>1. r \in 1..i /\ i \in Nat \ {0} /\ Len(frames) \in Nat
      /\ \A k \in (r + 1)..i : frames[k].op \notin Outsets
   BY OutsetIs, LenProperties DEF IInv, StackOK, Chain
<1> HIDE DEF r
<1>2. j \in (r + 1)..i BY DEF r
<1>3. j \in 1..Len(frames) /\ j - 1 \in 1..(Len(frames) - 1) /\ (j - 1) + 1 = j
      /\ j - 1 \in r..i
   BY <1>1, <1>2
<1>4. Child(frames[j - 1], frames[(j - 1) + 1]) BY <1>3 DEF IInv, StackOK, Chain
<1>5. f.at = frames[j - 1].scope BY <1>3, <1>4 DEF Child
<1>6. f.op \notin Outsets /\ FrameOK(f) BY <1>1, <1>2, <1>3 DEF IInv, StackOK, Chain
<1>7. CASE f.op = "Block"
   <2>1. f.op \in ScopeOps BY <1>7 DEF ScopeOps
   <2>2. Intact(f, heap) BY <1>3, <2>1 DEF LInv, FramesOK, Protected
   <2>3. heap[f.scope].tag = "table" /\ heap[f.scope].parent = f.prev
      BY <1>7, <2>2 DEF Intact, Parent
   <2>4. f.prev = f.at BY <1>6, <2>1 DEF FrameOK
   <2>5. QED BY <1>3, <1>5, <2>3, <2>4 DEF r
<1>8. CASE f.op # "Block"
   <2>1. f.op \notin ScopeOps BY <1>6, <1>8 DEF ScopeOps, Outsets
   <2>2. f.scope = f.at BY <1>6, <2>1 DEF FrameOK
   <2>3. QED BY <1>3, <1>5, <2>2 DEF r
<1>9. QED BY <1>7, <1>8

LEMMA LookupLeadsOut ==
    ASSUME IInv, LInv, status = "running", NEW i \in 1..Len(frames), NEW n \in Names,
           FindSymbol(frames[i].scope, n) = {}
    PROVE  Reaches(frames[i].scope, n, frames[OutsetOf(i)].scope)
<1> DEFINE r == OutsetOf(i)
           R(s) == Reaches(frames[i].scope, n, s)
           S == {j \in r..i : ~ R(frames[j].scope)}
<1>1. r \in 1..i /\ r \in 1..Len(frames) /\ i \in Nat \ {0} /\ Len(frames) \in Nat
      /\ \A k \in (r + 1)..i : frames[k].op \notin Outsets
   BY OutsetIs, LenProperties DEF IInv, StackOK, Chain
<1>2. \A j \in 1..Len(frames) : frames[j].scope \in Ref /\ FrameOK(frames[j])
   BY LocalsOf DEF IInv, StackOK, Chain
<1>3. /\ R(frames[i].scope)
      /\ \A s \in Ref : R(s) => (heap[s].parent \in Ref => R(heap[s].parent))
   BY <1>2, LookupClimbs
<1>4. \A j \in (r + 1)..i : \/ frames[j].scope = frames[j - 1].scope
                             \/ heap[frames[j].scope].parent = frames[j - 1].scope
   BY BlocksNest
<1> HIDE DEF r, R
<1>5. S = {}
   <2> SUFFICES ASSUME S # {} PROVE FALSE
      OBVIOUS
   <2>1. S \subseteq 1..i /\ i \in Nat BY <1>1
   <2>2. PICK j \in S : \A k \in S : k <= j BY <2>1, GreatestIndex
   <2>3. j \in r..i /\ ~ R(frames[j].scope) /\ j # i BY <1>3, <2>2
   <2>4. /\ j \in 1..Len(frames) /\ j + 1 \in 1..Len(frames) /\ j + 1 \in (r + 1)..i
         /\ j + 1 \in r..i /\ ~ (j + 1 <= j) /\ (j + 1) - 1 = j
      BY <1>1, <2>3
   <2>5. R(frames[j + 1].scope) BY <2>2, <2>4
   <2>6. \/ frames[j + 1].scope = frames[j].scope
         \/ heap[frames[j + 1].scope].parent = frames[j].scope
      BY <1>4, <2>4
   <2>7. QED BY <1>2, <1>3, <2>3, <2>4, <2>5, <2>6
<1>6. r \in r..i BY <1>1
<1>7. R(frames[r].scope) BY <1>5, <1>6
<1>8. QED BY <1>7 DEF R, r

(***************************************************************************)
(* The code of a method.  A lookup of "this" passes the scopes of blocks,  *)
(* down to that of the method, and ends in what Bind made.                 *)
(***************************************************************************)

\* What Instance::Bind made is above the scope of a method, and holds "this".
LEMMA MethodIsBound ==
    ASSUME IInv, LInv, NInv, status = "running", NEW r \in 1..Len(frames),
           IsMethod(frames[r])
    PROVE  LET f == frames[r]
               b == BoundFor(f)
           IN  /\ f.scope \in Ref /\ heap[f.scope].tag = "table"
               /\ heap[f.scope].parent = b
               /\ b \in Ref /\ heap[b].tag = "function"
               /\ heap[b].bound = InstanceOf(f) /\ heap[b].bound \in Ref
               /\ heap[b].symbols[This] # None
<1> DEFINE f == frames[r]
           a == f.locals[1]
<1>1. f.scope \in Ref /\ FrameOK(f) BY LocalsOf DEF IInv, StackOK, Chain
<1>2. f.op \in ScopeOps BY DEF IsMethod, ScopeOps, Catchers
<1>3. Intact(f, heap) BY <1>2 DEF LInv, FramesOK, Protected
<1>4. HeapOK(heap) /\ heap[f.scope].tag = "table" BY <1>3 DEF IInv, DataOK, Intact
<1>5. CASE f.op \in {"Ctor", "AnonBody"}
   <2> DEFINE b == f.locals[2]
   <2>1. /\ heap[f.scope].parent = b /\ b \in Ref /\ heap[b].tag = "function"
         /\ heap[b].bound = a /\ heap[b].symbols[This] # None
      BY <1>3, <1>5 DEF Intact, Parent
   <2>2. a \in Ref
      <3>1. heap[b].bound \in Ref \cup {None} BY <1>4, <2>1, CellFacts DEF Cell
      <3>2. a # None BY <1>1, <1>5, AddressesDistinct DEF FrameOK, Value, Catchers
      <3>3. QED BY <2>1, <3>1, <3>2
   <2>3. BoundFor(f) = b /\ InstanceOf(f) = a BY <1>5 DEF BoundFor, InstanceOf
   <2>4. QED BY <1>1, <1>4, <2>1, <2>2, <2>3
<1>6. CASE f.op = "Body" /\ heap[a].bound # None
   <2>1. CallOK(f, heap) BY DEF NInv, CallsOK
   <2>2. a \in Ref /\ heap[a].tag \in {"function", "class"} BY <1>6, <2>1 DEF CallOK, Ref
   <2>3. ClosureOK(heap[a]) BY <2>2 DEF NInv, ClosuresOK
   <2>4. heap[a].tag = "function" /\ heap[a].symbols[This] # None
      BY <1>6, <2>2, <2>3 DEF ClosureOK
   <2>5. heap[f.scope].parent = a BY <1>3, <1>6, <2>4 DEF Intact, Parent
   <2>6. heap[a].bound \in Ref BY <1>4, <1>6, <2>2, CellFacts DEF Cell
   <2>7. BoundFor(f) = a /\ InstanceOf(f) = heap[a].bound BY <1>6 DEF BoundFor, InstanceOf
   <2>8. QED BY <1>1, <1>4, <2>2, <2>4, <2>5, <2>6, <2>7
<1>7. QED BY <1>5, <1>6 DEF IsMethod

\* A scope that activations r to i are in was entered by the first of them that
\* is in it: the r-th, or a block.
LEMMA ScopesOfOutset ==
    ASSUME IInv, LInv, status = "running", NEW i \in 1..Len(frames),
           NEW j \in OutsetOf(i)..i
    PROVE  LET u == frames[j].scope
           IN  \/ u = frames[OutsetOf(i)].scope
              \/ /\ heap[u].tag = "table"
                 /\ \E k \in OutsetOf(i)..i : heap[u].parent = frames[k].scope
<1> DEFINE r == OutsetOf(i)
           u == frames[j].scope
           T == {(i + 1) - k : k \in {m \in r..i : frames[m].scope = u}}
<1>1. r \in 1..i /\ i \in Nat \ {0} BY OutsetIs
<1>2. \A k \in (r + 1)..i :
         /\ k - 1 \in r..i
         /\ \/ frames[k].scope = frames[k - 1].scope
            \/ heap[frames[k].scope].tag = "table" /\ heap[frames[k].scope].parent = frames[k - 1].scope
   BY BlocksNest
<1> HIDE DEF r
<1>3. j \in r..i BY DEF r
<1>4. T \subseteq 1..i /\ T # {} BY <1>1, <1>3
<1>5. PICK t \in T : \A m \in T : m <= t BY <1>1, <1>4, GreatestIndex
<1>6. PICK k \in r..i : frames[k].scope = u /\ t = (i + 1) - k OBVIOUS
<1>7. CASE k = r BY <1>6, <1>7 DEF r
<1>8. CASE k # r
   <2>1. k \in (r + 1)..i /\ k - 1 \in r..i BY <1>1, <1>6, <1>8
   <2>2. frames[k - 1].scope # u
      <3> SUFFICES ASSUME frames[k - 1].scope = u PROVE FALSE
         OBVIOUS
      <3>1. (i + 1) - (k - 1) \in T BY <2>1
      <3>2. (i + 1) - (k - 1) <= t BY <1>5, <3>1
      <3>3. QED BY <1>1, <1>6, <2>1, <3>2
   <2>3. heap[u].tag = "table" /\ heap[u].parent = frames[k - 1].scope
      BY <1>2, <1>6, <2>1, <2>2
   <2>4. QED BY <2>1, <2>3 DEF r
<1>9. QED BY <1>7, <1>8

\* No table is found to declare "this", so what is found is what Bind made.
LEMMA MethodFindsInstance ==
    ASSUME IInv, LInv, NInv, status = "running", NEW i \in 1..Len(frames),
           IsMethod(frames[OutsetOf(i)]),
           \A a \in Ref : heap[a].tag = "table" => heap[a].symbols[This] = None
    PROVE  LET f == frames[OutsetOf(i)]
           IN  /\ FindSymbol(frames[i].scope, This) = {BoundFor(f)}
               /\ This \in OwnNames \/ heap[BoundFor(f)].symbols[This] = InstanceOf(f)
<1> DEFINE r == OutsetOf(i)
           t == frames[i].scope
           f == frames[r]
           b == BoundFor(f)
           Scopes == {s \in Ref : \E j \in r..i : s = frames[j].scope}
           X == Scopes \cup {b}
<1>1. r \in 1..i /\ r \in 1..Len(frames) /\ i \in Nat \ {0} /\ This \in Names
   BY OutsetIs, ScriptsWellFormed
<1>2. \A j \in 1..Len(frames) : frames[j].scope \in Ref
   BY LocalsOf DEF IInv, StackOK, Chain
<1>3. /\ f.scope \in Ref /\ heap[f.scope].tag = "table" /\ heap[f.scope].parent = b
      /\ b \in Ref /\ heap[b].tag = "function"
      /\ heap[b].bound = InstanceOf(f) /\ heap[b].bound \in Ref
      /\ heap[b].symbols[This] # None
   BY <1>1, MethodIsBound
<1>4. \A j \in r..i : j \in 1..Len(frames)
   <2>1. Len(frames) \in Nat BY LenProperties DEF IInv, StackOK, Chain
   <2>2. QED BY <1>1, <2>1
<1>5. ASSUME NEW u \in Scopes PROVE heap[u].tag = "table" /\ heap[u].parent \in X
   <2>1. PICK j \in r..i : u = frames[j].scope OBVIOUS
   <2>2. \/ u = f.scope
         \/ /\ heap[u].tag = "table"
            /\ \E k \in r..i : heap[u].parent = frames[k].scope
      BY <2>1, ScopesOfOutset
   <2>3. QED BY <1>2, <1>3, <1>4, <2>2
<1> HIDE DEF r, b
<1>6. t \in Scopes /\ X \in SUBSET Ref BY <1>1, <1>2, <1>3
<1>7. FindSymbol(t, This) # {}
   <2> SUFFICES ASSUME FindSymbol(t, This) = {} PROVE FALSE
      OBVIOUS
   <2>1. Reaches(t, This, f.scope) BY <1>1, LookupLeadsOut DEF r
   <2>2. Reaches(t, This, b) BY <1>1, <1>2, <1>3, <2>1, LookupClimbs
   <2>3. heap[b].symbols[This] = None BY <1>1, <1>2, <1>3, <2>2, LookupClimbs
   <2>4. QED BY <1>3, <2>3
<1>8. ASSUME NEW s \in FindSymbol(t, This) PROVE s = b
   <2>1. s \in Ref /\ heap[s].symbols[This] # None BY DEF FindSymbol
   <2>2. \A u \in X : heap[u].symbols[This] = None => heap[u].parent \in X
      BY <1>3, <1>5
   <2> HIDE DEF X
   <2>3. s \in X BY <1>6, <2>2, <1>8 DEF FindSymbol, X
   <2> USE DEF X
   <2>4. s \notin Scopes BY <1>5, <2>1
   <2>5. QED BY <2>3, <2>4
<1>9. This \in OwnNames \/ heap[b].symbols[This] = InstanceOf(f)
   <2>1. Kinds(heap[b], heap) BY <1>3 DEF LInv, HeapClosed
   <2>2. QED BY <1>1, <1>3, <2>1 DEF Kinds
<1>10. FindSymbol(t, This) = {b} BY <1>7, <1>8
<1>11. QED BY <1>9, <1>10 DEF b, r

\* Whatever blocks the code of a method stands in, and whatever the calls it made
\* have destroyed, "this" is the table that Bind made for it, and the instance.
THEOREM MethodsFindTheirInstance == Spec => []MethodsSeeTheirInstance
<1>1. IInv /\ LInv /\ NInv => MethodsSeeTheirInstance
   <2>1. IInv => DOMAIN frames = 1..Len(frames)
      BY LenProperties DEF IInv, StackOK, Chain
   <2>2. QED BY <2>1, MethodFindsInstance DEF MethodsSeeTheirInstance
<1>2. QED BY <1>1, CallsHold, PTL

\* Outside a closure, the chain of scopes ends at the globals.
LEMMA LookupEndsInGlobals ==
    ASSUME IInv, LInv, NInv, status = "running", NEW i \in 1..Len(frames), NEW n \in Names,
           ~ InClosure(frames[OutsetOf(i)]),
           FindSymbol(frames[i].scope, n) = {}
    PROVE  heap[Globals].symbols[n] = None
<1> DEFINE t == frames[i].scope
           f == frames[OutsetOf(i)]
           a == f.locals[1]
<1>1. t \in Ref /\ OutsetOf(i) \in 1..Len(frames) /\ f.op \in Outsets /\ FrameOK(f)
      /\ f.scope \in Ref /\ Globals \in Ref /\ None \notin Ref
   BY OutsetIs, LocalsOf, AddressesDistinct DEF IInv, StackOK, Chain, Ref
<1>2. Reaches(t, n, f.scope) BY LookupLeadsOut
<1>3. \A s \in Ref : Reaches(t, n, s) =>
         /\ heap[s].symbols[n] = None
         /\ heap[s].parent \in Ref => Reaches(t, n, heap[s].parent)
   BY <1>1, LookupClimbs
<1>4. f.op # "Program" => Intact(f, heap)
   BY <1>1 DEF LInv, FramesOK, Protected, ScopeOps, Outsets
<1>5. Reaches(t, n, Globals)
   <2>1. CASE f.op = "Program" BY <1>2, <2>1 DEF InClosure
   <2>2. CASE f.op \in {"Ctor", "AnonBody"}
      <3>1. /\ heap[f.scope].parent = f.locals[2] /\ f.locals[2] \in Ref
            /\ heap[f.locals[2]].parent = Globals
         BY <1>4, <2>2 DEF Intact, Parent
      <3>2. QED BY <1>1, <1>2, <1>3, <3>1
   <2>3. CASE f.op = "Body" /\ ParentOf(f) = Globals
      <3>1. Parent(f, heap) = ParentOf(f) BY <2>3 DEF Parent, ParentOf, Home
      <3>2. heap[f.scope].parent = Globals BY <1>4, <2>3, <3>1 DEF Intact
      <3>3. QED BY <1>1, <1>2, <1>3, <3>2
   <2>4. CASE f.op = "Body" /\ heap[a].bound # None
      <3>1. CallOK(f, heap) BY <1>1 DEF NInv, CallsOK
      <3>2. a \in Addr /\ a \in Ref /\ heap[a].tag \in {"function", "class"}
         BY <2>4, <3>1 DEF CallOK, Ref
      <3>3. ClosureOK(heap[a]) BY <3>2 DEF NInv, ClosuresOK
      <3>4. heap[a].tag = "function" /\ heap[a].parent = Globals
         BY <2>4, <3>2, <3>3 DEF ClosureOK
      <3>5. heap[f.scope].parent = a BY <1>4, <2>4, <3>4 DEF Intact, Parent
      <3>6. QED BY <1>1, <1>2, <1>3, <3>2, <3>4, <3>5
   <2>5. QED BY <1>1, <2>1, <2>2, <2>3, <2>4 DEF InClosure, Outsets, Catchers
<1>6. QED BY <1>1, <1>3, <1>5

\* Outside closures no code loses a global, in however many blocks it stands
\* and whatever the calls around it have destroyed.
THEOREM GlobalsStaySeen == Spec => []GlobalsAreSeen
<1>1. IInv /\ LInv /\ NInv => GlobalsAreSeen
   <2>1. IInv => DOMAIN frames = 1..Len(frames)
      BY LenProperties DEF IInv, StackOK, Chain
   <2>2. QED BY <2>1, LookupEndsInGlobals DEF GlobalsAreSeen
<1>2. QED BY <1>1, CallsHold, PTL

-----------------------------------------------------------------------------
(***************************************************************************)
(* Failed lookups.                                                         *)
(***************************************************************************)

\* No function is declared in a block or in the body of another.
FunctionsOfGlobals ==
    \A a \in Ref : heap[a].tag = "function" /\ heap[a].bound = None => heap[a].link = Globals

\* Where an expression is evaluated, it is not in a closure.
LEMMA TopIsInNoClosure ==
    ASSUME IInv, NInv, FunctionsOfGlobals, ~ Retries, status = "running",
           frames # <<>>, Top.op \in {"Expr", "Assign"}
    PROVE  /\ Len(frames) \in 1..Len(frames)
           /\ ~ InClosure(frames[OutsetOf(Len(frames))])
<1> DEFINE n == Len(frames)
           r == OutsetOf(n)
           f == frames[r]
           a == f.locals[1]
<1>1. n \in Nat \ {0} /\ n \in 1..n /\ (\A k \in 1..(n - 1) : Child(frames[k], frames[k + 1]))
   BY OnAsIs DEF IInv, StackOK, Chain
<1>2. r \in 1..n /\ \A k \in (r + 1)..n : frames[k].op \notin Outsets BY <1>1, OutsetIs
<1> HIDE DEF r
<1>3. frames[n].op \notin Outsets BY DEF Top, Outsets, Catchers
<1>4. ASSUME f.op = "Program" PROVE f.scope = Globals
   <2>1. r = 1
      <3> SUFFICES ASSUME r # 1 PROVE FALSE
         OBVIOUS
      <3>1. r - 1 \in 1..(n - 1) /\ (r - 1) + 1 = r BY <1>1, <1>2
      <3>2. Child(frames[r - 1], frames[r]) BY <1>1, <3>1
      <3>3. QED BY <1>4, <3>2 DEF Child, StatementOps
   <2>2. QED BY <1>1, <2>1 DEF NInv, StartsOK
<1>5. ASSUME f.op = "Body", heap[a].bound = None PROVE ParentOf(f) = Globals
   <2>1. CallOK(f, heap) BY <1>2 DEF NInv, CallsOK
   <2>2. a \in Addr /\ a \in Ref /\ heap[a].tag \in {"function", "class"}
      BY <1>5, <2>1 DEF CallOK, Ref
   <2>3. heap[a].tag # "class"
      <3> SUFFICES ASSUME heap[a].tag = "class" PROVE FALSE
         OBVIOUS
      <3>1. CASE r = n BY <1>3, <1>5, <3>1 DEF Outsets, Catchers
      <3>2. CASE r # n
         <4>1. r \in 1..(n - 1) /\ r + 1 \in (r + 1)..n BY <1>1, <1>2, <3>2
         <4>2. Constructing(frames[r], frames[r + 1], heap)
            BY <4>1 DEF NInv, CallsOK
         <4>3. frames[r + 1].op = "Ctor"
            BY <1>5, <4>2 DEF Constructing, ClassBody
         <4>4. QED BY <1>2, <4>1, <4>3 DEF Outsets
      <3>3. QED BY <3>1, <3>2
   <2>4. heap[a].link = Globals BY <1>5, <2>2, <2>3 DEF FunctionsOfGlobals
   <2>5. QED BY <1>5, <2>3, <2>4 DEF ParentOf, Home
<1>6. QED BY <1>1, <1>4, <1>5 DEF InClosure, r

\* The report of a failed lookup, while it stands.
ReportOK == failure.kind = "scope" =>
                status = "idle" /\ heap[Globals].symbols[failure.name] = None

\* Nor is what the type of a parameter is looked up in.
LEMMA MissedInGlobals ==
    ASSUME NEW n \in Names, FindSymbol(Globals, n) = {}
    PROVE  heap[Globals].symbols[n] = None
BY LookupClimbs DEF Ref

LEMMA HomesSeeGlobals ==
    ASSUME NInv, FunctionsOfGlobals, NEW a \in Ref, heap[a].tag = "function",
           NEW n \in Names, FindSymbol(Home(a), n) = {}
    PROVE  heap[Globals].symbols[n] = None
<1>1. ClosureOK(heap[a]) BY DEF NInv, ClosuresOK
<1>2. CASE heap[a].bound = None
   <2>1. Home(a) = Globals BY <1>2 DEF FunctionsOfGlobals, Home
   <2>2. QED BY <2>1, MissedInGlobals
<1>3. CASE heap[a].bound # None
   <2>1. Home(a) = a /\ heap[a].parent = Globals BY <1>1, <1>3 DEF Home, ClosureOK
   <2>2. Globals \in Ref BY DEF Ref
   <2>3. Reaches(a, n, Globals) BY <2>1, <2>2, LookupClimbs
   <2>4. QED BY <2>1, <2>2, <2>3, LookupClimbs
<1>4. QED BY <1>2, <1>3

LEMMA NextKeepsReportOK ==
    ASSUME IInv, LInv, NInv, IInv', FunctionsOfGlobals, ~ Retries, ReportOK, [Next]_vars
    PROVE  ReportOK'
<1>1. CASE UNCHANGED vars BY <1>1 DEF ReportOK, vars
<1>2. CASE Interpret BY <1>2 DEF ReportOK, Interpret, NoFailure
<1>3. CASE Step
   <2>1. FrameMoves BY <1>3, StepMoves DEF Moves
   <2>2. status # "idle" => failure.kind = "none" BY DEF NInv, StartsOK
   <2>3. CASE UNCHANGED failure /\ status # "idle" BY <2>2, <2>3 DEF ReportOK
   <2>4. CASE Fails
      <3> SUFFICES ASSUME failure'.kind = "scope"
                   PROVE  status' = "idle" /\ heap'[Globals].symbols[failure'.name] = None
         BY DEF ReportOK
      <3>1. Misses /\ status' = "idle" BY <2>4 DEF Fails
      <3>2. frames # <<>> /\ status = "running" BY <2>1, <3>1 DEF FrameMoves, Misses
      <3>3. CASE Top.op \in {"Expr", "Assign"} /\ MissedFrom(cur)
         <4>1. /\ Len(frames) \in 1..Len(frames)
               /\ ~ InClosure(frames[OutsetOf(Len(frames))])
            BY <3>2, <3>3, TopIsInNoClosure
         <4>2. cur = frames[Len(frames)].scope
            BY <3>2, <4>1, OnAsIs DEF IInv, StackOK, Innermost
         <4>3. heap[Globals].symbols[failure'.name] = None
            BY <3>2, <3>3, <4>1, <4>2, LookupEndsInGlobals DEF MissedFrom
         <4>4. QED BY <3>1, <3>3, <4>3 DEF MissedFrom
      <3>4. ASSUME NEW a \in Ref, heap[a].tag = "function", MissedFrom(Home(a))
            PROVE  heap[Globals].symbols[failure'.name] = None
         BY <3>4, HomesSeeGlobals DEF MissedFrom
      <3>5. CASE MissedFrom(Globals) BY <3>1, <3>5, MissedInGlobals DEF MissedFrom
      <3>6. QED BY <3>1, <3>3, <3>4, <3>5 DEF Misses, MissedFrom
   <2>5. QED
      BY <2>1, <2>3, <2>4 DEF FrameMoves, Continues, Enters, Constructs, Ends, Constructed,
                              Leaves, Unwinds, Catches, Completes, Crashes
<1>4. CASE Quit BY <1>1, <1>4 DEF Quit
<1>5. QED BY <1>1, <1>2, <1>3, <1>4 DEF Next

LEMMA InitImpliesReportOK == Init => ReportOK
BY DEF Init, ReportOK, NoFailure

\* As long as functions are declared in the globals alone, and Interpret is not
\* called after a failure, a name that SymbolTable::Get reports as referenced
\* before its declaration is not declared in the globals.
THEOREM ReportsAreRight ==
    ASSUME ~ Retries
    PROVE  Spec /\ []FunctionsOfGlobals => []ReportedNamesAreUndeclared
<1>1. IInv /\ LInv /\ NInv /\ FunctionsOfGlobals /\ ReportOK /\ [Next]_vars => ReportOK'
   BY NextKeepsIInv, NextKeepsReportOK
<1>2. ReportOK => ReportedNamesAreUndeclared BY DEF ReportOK, ReportedNamesAreUndeclared
<1>3. QED BY <1>1, <1>2, InitImpliesReportOK, CallsHold, PTL DEF Spec

\* Of scripts without named functions the reports are right, whatever methods,
\* constructors and anonymous methods do.
THEOREM ReportsOfMethodsAreRight ==
    ASSUME ~ Retries, "Function" \notin NodeKinds
    PROVE  Spec => []ReportedNamesAreUndeclared
<1>1. NInv => FunctionsOfGlobals BY DEF NInv, ClosuresOK, ClosureOK, FunctionsOfGlobals
<1>2. QED BY <1>1, CallsHold, ReportsAreRight, PTL
=============================================================================
