---------------------- MODULE InterpreterVisitor_proofs ----------------------
(***************************************************************************)
(* Proofs of TypeOK, ValuesBalanced and ScopesRestored for every heap,     *)
(* every set of names and every bound.                                     *)
(*                                                                         *)
(* The three are one inductive invariant: what a handler pops has a type   *)
(* only because the value stack is balanced, and the table it restores is  *)
(* the right one only because the activations are nested as they are.  The *)
(* stack of activations changes in four ways (it gains an activation, the  *)
(* innermost one goes on, ends, or ends with a value in flight), so a      *)
(* lemma on each carries the proof of every handler.                       *)
(***************************************************************************)
EXTENDS InterpreterVisitor, SequenceTheorems, FiniteSetTheorems,
        NaturalsInduction, WellFoundedInduction, TLAPS

StatementOps == {"ExprStmt", "If", "LoopCond", "LoopBody", "VarDecl", "Return",
                 "Block", "Ctor", "Statement", "Declaration"}
ScopeOps == Catchers \cup {"Block", "Ctor"}

\* Activation q may be the child of activation p.
Child(p, q) == /\ IF q.op \in StatementOps THEN p.op \in Holders
                  ELSE p.op \in Awaiting /\ q.op # "Program"
               /\ q.base = p.base + Pending(p.op)
               /\ q.at = p.scope

\* What is always true of one activation.
FrameOK(f) == /\ f \in Frame
              /\ f.op \in ScopeOps => f.prev \in Ref
              /\ f.op \in Catchers \cup {"Ctor", "Args", "Arg"} =>
                    f.locals # <<>> /\ f.locals[1] \in Value
              /\ f.op = "SetRhs" => f.locals # <<>>
              /\ IF f.op \in ScopeOps THEN f.prev = f.at ELSE f.scope = f.at

Chain(fr) == /\ fr \in Seq(Frame)
             /\ \A i \in 1..Len(fr) : FrameOK(fr[i])
             /\ \A i \in 1..(Len(fr) - 1) : Child(fr[i], fr[i + 1])
             /\ Len(fr) > 0 => fr[1].op = "Program"

\* What is true of the innermost activation when m_values holds n operands, c
\* is m_symbolTable and the status is st.
Innermost(f, n, c, st) ==
    /\ st = "running" => /\ n = f.base + Pending(f.op)
                                + IF f.op \in Awaiting THEN 1 ELSE 0
                         /\ c = f.scope
    /\ st = "returning" => f.op \in Holders /\ n = f.base + Pending(f.op)

StackOK(fr, n, c, st) ==
    /\ Chain(fr)
    /\ Len(fr) > 0 => Innermost(fr[Len(fr)], n, c, st)
    /\ st = "returning" => Len(fr) > 0

-----------------------------------------------------------------------------
(***************************************************************************)
(* The four ways the stack of activations changes.                         *)
(***************************************************************************)
LEMMA Lengths ==
    ASSUME NEW n \in Nat \ {0}
    PROVE  /\ n \in 1..n /\ n \in Int /\ n > 0
           /\ n - 1 \in Nat
           /\ (IF 1 <= n - 1 THEN n - 1 - 1 + 1 ELSE 0) = n - 1
           /\ n # 1 => n - 1 \in 1..(n - 1) /\ n - 1 + 1 = n
           /\ \A i \in 1..(n - 1) : 1 + i - 1 = i /\ i \in 1..(n - 1 - 1 + 1) /\ i \in 1..n
BY SMT

LEMMA TopIsAFrame ==
    ASSUME NEW fr, Chain(fr), fr # <<>>
    PROVE  /\ Len(fr) \in Nat \ {0}
           /\ FrameOK(fr[Len(fr)])
           /\ fr[Len(fr)].op = "Program" <=> Len(fr) = 1
<1>1. fr \in Seq(Frame) BY DEF Chain
<1>2. Len(fr) \in Nat \ {0} BY <1>1, EmptySeq
<1>3. FrameOK(fr[Len(fr)]) BY <1>2 DEF Chain
<1>4. Len(fr) = 1 => fr[Len(fr)].op = "Program" BY <1>2 DEF Chain
<1>5. ASSUME Len(fr) # 1 PROVE fr[Len(fr)].op # "Program"
   <2> DEFINE m == Len(fr) - 1
   <2>1. m \in 1..(Len(fr) - 1) /\ m + 1 = Len(fr) BY <1>2, <1>5, Lengths
   <2> HIDE DEF m
   <2>2. Child(fr[m], fr[m + 1]) BY <2>1 DEF Chain
   <2>4. QED BY <2>1, <2>2 DEF Child, StatementOps
<1>6. QED BY <1>2, <1>3, <1>4, <1>5

\* The innermost activation goes on as f.
LEMMA BecomeKeepsChain ==
    ASSUME NEW fr, Chain(fr), fr # <<>>,
           NEW f, FrameOK(f),
           f.at = fr[Len(fr)].at, f.base = fr[Len(fr)].base,
           f.op \in StatementOps <=> fr[Len(fr)].op \in StatementOps,
           f.op = "Program" <=> fr[Len(fr)].op = "Program"
    PROVE  LET new == [fr EXCEPT ![Len(fr)] = f]
           IN  Chain(new) /\ Len(new) = Len(fr) /\ new[Len(new)] = f
<1> DEFINE new == [fr EXCEPT ![Len(fr)] = f]
<1>1. /\ fr \in Seq(Frame) /\ Len(fr) \in Nat \ {0} /\ f \in Frame
      /\ (fr[Len(fr)].op = "Program" <=> Len(fr) = 1)
   BY TopIsAFrame DEF Chain, FrameOK
<1>2. /\ new \in Seq(Frame) /\ Len(new) = Len(fr)
      /\ \A j \in 1..Len(fr) : new[j] = IF j = Len(fr) THEN f ELSE fr[j]
   BY <1>1, ExceptSeq
<1> HIDE DEF new
<1>3. \A i \in 1..Len(new) : FrameOK(new[i]) BY <1>1, <1>2 DEF Chain
<1>4. ASSUME NEW i \in 1..(Len(new) - 1) PROVE Child(new[i], new[i + 1])
   <2>1. Child(fr[i], fr[i + 1]) BY <1>1, <1>2 DEF Chain
   <2>2. new[i] = fr[i] BY <1>1, <1>2
   <2>3. CASE i + 1 = Len(fr)
      <3>1. new[i + 1] = f /\ fr[i + 1] = fr[Len(fr)] BY <1>1, <1>2, <2>3
      <3>2. f.op # "Program" BY <1>1, <1>2, <2>3
      <3>3. QED BY <2>1, <2>2, <3>1, <3>2 DEF Child
   <2>4. CASE i + 1 # Len(fr)
      <3>1. new[i + 1] = fr[i + 1] BY <1>1, <1>2, <2>4
      <3>2. QED BY <2>1, <2>2, <3>1
   <2>5. QED BY <2>3, <2>4
<1>5. Len(new) > 0 => new[1].op = "Program" BY <1>1, <1>2 DEF Chain
<1>6. Chain(new) BY <1>2, <1>3, <1>4, <1>5 DEF Chain
<1>7. QED BY <1>1, <1>2, <1>6 DEF new

\* An activation gains a child.
LEMMA PushKeepsChain ==
    ASSUME NEW fr, Chain(fr), fr # <<>>,
           NEW f, FrameOK(f), Child(fr[Len(fr)], f)
    PROVE  LET new == Append(fr, f)
           IN  Chain(new) /\ Len(new) = Len(fr) + 1 /\ new[Len(new)] = f
<1> DEFINE new == Append(fr, f)
<1>1. fr \in Seq(Frame) /\ Len(fr) \in Nat \ {0} /\ f \in Frame
   BY TopIsAFrame DEF Chain, FrameOK
<1>2. /\ new \in Seq(Frame) /\ Len(new) = Len(fr) + 1
      /\ \A j \in 1..Len(fr) : new[j] = fr[j]
      /\ new[Len(fr) + 1] = f
   BY <1>1, AppendProperties
<1> HIDE DEF new
<1>3. \A i \in 1..Len(new) : FrameOK(new[i])
   <2>1. TAKE i \in 1..Len(new)
   <2>2. CASE i = Len(fr) + 1 BY <1>2, <2>2
   <2>3. CASE i # Len(fr) + 1
      <3>1. i \in 1..Len(fr) BY <1>1, <1>2, <2>3
      <3>2. QED BY <1>2, <3>1 DEF Chain
   <2>4. QED BY <2>2, <2>3
<1>4. ASSUME NEW i \in 1..(Len(new) - 1) PROVE Child(new[i], new[i + 1])
   <2>1. CASE i = Len(fr) BY <1>1, <1>2, <2>1
   <2>2. CASE i # Len(fr)
      <3>1. i \in 1..(Len(fr) - 1) /\ i \in 1..Len(fr) /\ i + 1 \in 1..Len(fr)
         BY <1>1, <1>2, <2>2
      <3>2. QED BY <1>2, <3>1 DEF Chain
   <2>3. QED BY <2>1, <2>2
<1>5. new[1].op = "Program" BY <1>1, <1>2 DEF Chain
<1>6. Chain(new) BY <1>2, <1>3, <1>4, <1>5 DEF Chain
<1>7. QED BY <1>2, <1>6 DEF new

\* The innermost activation ends.
LEMMA FinishKeepsChain ==
    ASSUME NEW fr, Chain(fr), fr # <<>>
    PROVE  LET new == SubSeq(fr, 1, Len(fr) - 1)
           IN  /\ Chain(new)
               /\ Len(new) = Len(fr) - 1
               /\ Len(new) > 0 => /\ FrameOK(new[Len(new)])
                                  /\ Child(new[Len(new)], fr[Len(fr)])
<1> DEFINE new == SubSeq(fr, 1, Len(fr) - 1)
<1>1. fr \in Seq(Frame) /\ Len(fr) \in Nat \ {0}
   BY TopIsAFrame DEF Chain
<1>2. \A i \in 1..(Len(fr) - 1) : fr[i] \in Frame BY <1>1, ElementOfSeq
<1>3. /\ new \in Seq(Frame) /\ Len(new) = Len(fr) - 1
      /\ \A i \in 1..(Len(fr) - 1) : new[i] = fr[i]
   <2>1. Len(fr) - 1 \in Nat /\ 1 \in Int /\ Len(fr) - 1 \in Int BY <1>1, Lengths
   <2>2. /\ new \in Seq(Frame)
         /\ Len(new) = IF 1 <= Len(fr) - 1 THEN Len(fr) - 1 - 1 + 1 ELSE 0
         /\ \A i \in 1..(Len(fr) - 1 - 1 + 1) : new[i] = fr[1 + i - 1]
      BY <1>2, <2>1, SubSeqProperties
   <2>3. QED BY <1>1, <2>2, Lengths
<1> HIDE DEF new
<1>4. \A i \in 1..Len(new) : FrameOK(new[i]) BY <1>1, <1>3 DEF Chain
<1>5. ASSUME NEW i \in 1..(Len(new) - 1) PROVE Child(new[i], new[i + 1])
   <2>1. i \in 1..(Len(fr) - 1) /\ i + 1 \in 1..(Len(fr) - 1) BY <1>1, <1>3
   <2>2. QED BY <1>3, <2>1 DEF Chain
<1>6. Len(new) > 0 => new[1].op = "Program" BY <1>1, <1>3 DEF Chain
<1>7. Chain(new) BY <1>3, <1>4, <1>5, <1>6 DEF Chain
<1>8. ASSUME Len(new) > 0
      PROVE  FrameOK(new[Len(new)]) /\ Child(new[Len(new)], fr[Len(fr)])
   <2>1. Len(new) \in 1..Len(new) /\ Len(new) \in 1..(Len(fr) - 1) /\ Len(new) + 1 = Len(fr)
      BY <1>1, <1>3, <1>8
   <2>2. Child(fr[Len(new)], fr[Len(fr)]) BY <2>1 DEF Chain
   <2>3. QED BY <1>3, <1>4, <2>1, <2>2
<1>9. QED BY <1>3, <1>7, <1>8 DEF new

-----------------------------------------------------------------------------
(***************************************************************************)
(* The invariant of the stack, after each kind of change.                  *)
(***************************************************************************)

\* An activation ends and its parent finds the value it waited for, or none.
LEMMA AfterFinish ==
    ASSUME NEW fr, Chain(fr), fr # <<>>,
           NEW n, n = fr[Len(fr)].base
                      + IF fr[Len(fr)].op \in StatementOps \cup {"Program"} THEN 0 ELSE 1
    PROVE  StackOK(SubSeq(fr, 1, Len(fr) - 1), n, fr[Len(fr)].at, "running")
<1> DEFINE new == SubSeq(fr, 1, Len(fr) - 1)
<1> DEFINE f == fr[Len(fr)]
<1> DEFINE p == new[Len(new)]
<1>1. Chain(new) BY FinishKeepsChain
<1>2. Len(fr) \in Nat \ {0} /\ FrameOK(f) /\ (f.op = "Program" <=> Len(fr) = 1)
   BY TopIsAFrame
<1>3. Len(new) = Len(fr) - 1
      /\ (Len(new) > 0 => FrameOK(p) /\ Child(p, f))
   BY FinishKeepsChain
<1> HIDE DEF new
<1>4. ASSUME Len(new) > 0 PROVE Innermost(p, n, f.at, "running")
   <2>1. /\ p.base \in Nat /\ f.op # "Program" /\ Child(p, f)
         /\ f.base = p.base + Pending(p.op) /\ f.at = p.scope
      BY <1>2, <1>3, <1>4 DEF FrameOK, Frame, Child
   <2>2. CASE f.op \in StatementOps
      <3>1. p.op \in Holders /\ p.op \notin Awaiting BY <2>1, <2>2 DEF Child, Holders, Awaiting
      <3>2. n = f.base + 0 BY <2>2
      <3>3. QED BY <2>1, <3>1, <3>2 DEF Innermost, Pending
   <2>3. CASE f.op \notin StatementOps
      <3>1. p.op \in Awaiting BY <2>1, <2>3 DEF Child
      <3>2. n = f.base + 1 BY <2>1, <2>3
      <3>3. QED BY <2>1, <3>1, <3>2 DEF Innermost, Pending
   <2>4. QED BY <2>2, <2>3
<1>5. QED BY <1>1, <1>4 DEF StackOK, new

\* A statement ends with a value in flight, whatever m_symbolTable is.
LEMMA AfterThrow ==
    ASSUME NEW fr, Chain(fr), fr # <<>>, fr[Len(fr)].op \in StatementOps,
           NEW n, n = fr[Len(fr)].base, NEW c
    PROVE  StackOK(SubSeq(fr, 1, Len(fr) - 1), n, c, "returning")
<1> DEFINE new == SubSeq(fr, 1, Len(fr) - 1)
<1> DEFINE f == fr[Len(fr)]
<1> DEFINE p == new[Len(new)]
<1>1. Chain(new) BY FinishKeepsChain
<1>2. Len(fr) \in Nat \ {0} /\ FrameOK(f) /\ (f.op = "Program" <=> Len(fr) = 1)
   BY TopIsAFrame
<1>3. Len(new) = Len(fr) - 1
      /\ (Len(new) > 0 => FrameOK(p) /\ Child(p, f))
   BY FinishKeepsChain
<1> HIDE DEF new
<1>4. Len(new) > 0
   <2>1. Len(fr) # 1 BY <1>2 DEF StatementOps
   <2>2. QED BY <1>2, <1>3, <2>1, Lengths
<1>5. Innermost(p, n, c, "returning")
   BY <1>3, <1>4 DEF Innermost, Child
<1>6. QED BY <1>1, <1>4, <1>5 DEF StackOK, new

\* An activation goes on.
LEMMA AfterBecome ==
    ASSUME NEW fr, Chain(fr), fr # <<>>,
           NEW f, FrameOK(f),
           f.at = fr[Len(fr)].at, f.base = fr[Len(fr)].base,
           f.op \in StatementOps <=> fr[Len(fr)].op \in StatementOps,
           f.op = "Program" <=> fr[Len(fr)].op = "Program",
           NEW n, NEW c, Innermost(f, n, c, "running")
    PROVE  StackOK([fr EXCEPT ![Len(fr)] = f], n, c, "running")
<1>1. QED BY BecomeKeepsChain DEF StackOK

\* An activation goes on and gains a child.
LEMMA AfterVisit ==
    ASSUME NEW fr, Chain(fr), fr # <<>>,
           NEW f, FrameOK(f),
           f.at = fr[Len(fr)].at, f.base = fr[Len(fr)].base,
           f.op \in StatementOps <=> fr[Len(fr)].op \in StatementOps,
           f.op = "Program" <=> fr[Len(fr)].op = "Program",
           NEW g, FrameOK(g), Child(f, g),
           NEW n, NEW c, Innermost(g, n, c, "running")
    PROVE  StackOK(Append([fr EXCEPT ![Len(fr)] = f], g), n, c, "running")
<1> DEFINE mid == [fr EXCEPT ![Len(fr)] = f]
<1>1. Chain(mid) /\ Len(mid) = Len(fr) /\ mid[Len(mid)] = f BY BecomeKeepsChain
<1>2. Len(fr) \in Nat \ {0} BY TopIsAFrame
<1> HIDE DEF mid
<1>3. mid # <<>> BY <1>1, <1>2, EmptySeq
<1>4. LET new == Append(mid, g) IN Chain(new) /\ new[Len(new)] = g
   BY <1>1, <1>3, PushKeepsChain
<1>5. QED BY <1>4 DEF StackOK, mid

-----------------------------------------------------------------------------
(***************************************************************************)
(* The inductive invariant.                                                *)
(***************************************************************************)
\* An instance has a class, a class has the name its constructor goes by.
HeapOK(h) == /\ h \in [Ref -> Cell]
             /\ \A a \in Ref :
                   /\ h[a].tag = "instance" => h[a].link \in Ref
                   /\ h[a].tag = "class" => h[a].name \in Names

DataOK == /\ values \in Seq(Value)
          /\ last \in Value \cup {None}
          /\ cur \in Ref
          /\ HeapOK(heap)

ControlOK ==
    /\ status \in {"idle", "running", "returning", "crashed"}
    /\ thrown \in Value \cup {None}
    /\ status = "returning" <=> thrown # None
    /\ failure \in [kind : {"none", "scope", "member", "constructor", "other", "value"},
                    name : Names \cup {None}]

IInv == DataOK /\ ControlOK /\ StackOK(frames, Len(values), cur, status)

LEMMA CellFacts ==
    ASSUME NEW h, HeapOK(h), NEW a \in Ref
    PROVE  /\ h[a] \in Cell
           /\ h[a].tag = "instance" => h[a].link \in Ref
           /\ h[a].tag = "class" => h[a].name \in Names
<1>1. h[a] \in Cell BY DEF HeapOK
<1>2. /\ h[a].tag = "instance" => h[a].link \in Ref
      /\ h[a].tag = "class" => h[a].name \in Names
   BY Zenon DEF HeapOK
<1>3. QED BY <1>1, <1>2

\* Destroying what nothing refers to leaves the heap well typed.
LEMMA RetainKeepsHeapOK ==
    ASSUME NEW new, HeapOK(new), Retain(new)
    PROVE  HeapOK(heap')
<1>1. FreeCell \in Cell /\ FreeCell.tag = "free" BY DEF FreeCell, Cell, NoSymbols
<1>2. PICK kept : heap' = Keeping(new, kept) BY Zenon DEF Retain
<1>3. ASSUME NEW a \in Ref
      PROVE  /\ heap'[a] \in Cell
             /\ heap'[a].tag = "instance" => heap'[a].link \in Ref
             /\ heap'[a].tag = "class" => heap'[a].name \in Names
   <2>1. CASE a \in kept
      <3>1. heap'[a] = [new[a] EXCEPT !.parent = IF @ \in kept THEN @ ELSE None] BY <1>2, <2>1 DEF Keeping
      <3>2. /\ new[a] \in Cell
            /\ new[a].tag = "instance" => new[a].link \in Ref
            /\ new[a].tag = "class" => new[a].name \in Names
         BY CellFacts
      <3>3. heap'[a] \in Cell /\ heap'[a].tag = new[a].tag
            /\ heap'[a].link = new[a].link /\ heap'[a].name = new[a].name
         BY <3>1, <3>2 DEF Cell
      <3>4. QED BY <3>2, <3>3
   <2>2. CASE a \notin kept BY <1>1, <1>2, <2>2 DEF Keeping
   <2>3. QED BY <2>1, <2>2
<1>4. heap' \in [Ref -> Cell] BY <1>2, <1>3 DEF Keeping
<1>5. QED BY <1>3, <1>4 DEF HeapOK

\* The cells the handlers create.
LEMMA NewCells ==
    /\ FreeCell \in Cell
    /\ NoSymbols \in [Names -> Value \cup {None}]
    /\ \A parent \in Ref \cup {None}, symbols \in [Names -> Value \cup {None}] :
          Table(parent, symbols) \in Cell /\ Table(parent, symbols).tag = "table"
    /\ \A closure \in Ref, params \in Seq(Names) :
          Function(closure, params) \in Cell /\ Function(closure, params).tag = "function"
    /\ \A n \in Names, closure \in Ref \cup {None}, methods \in [Names -> Signatures \cup {None}] :
          Class(n, closure, methods) \in Cell /\ Class(n, closure, methods).tag = "class"
             /\ Class(n, closure, methods).name = n
    /\ \A class \in Ref :
          Instance(class) \in Cell /\ Instance(class).tag = "instance"
             /\ Instance(class).link = class
    /\ \A instance \in Addr, params \in Seq(Names) \cup {None} :
          Bound(instance, params) \in Cell /\ Bound(instance, params).tag = "function"
<1>1. FreeCell \in Cell /\ NoSymbols \in [Names -> Value \cup {None}]
   BY DEF FreeCell, Cell, NoSymbols
<1>2. \A parent \in Ref \cup {None}, symbols \in [Names -> Value \cup {None}] :
          Table(parent, symbols) \in Cell /\ Table(parent, symbols).tag = "table"
   BY <1>1 DEF Table, Cell
<1>3. \A closure \in Ref, params \in Seq(Names) :
          Function(closure, params) \in Cell /\ Function(closure, params).tag = "function"
   BY <1>1 DEF Function, Cell
<1>4. \A n \in Names, closure \in Ref \cup {None}, methods \in [Names -> Signatures \cup {None}] :
          Class(n, closure, methods) \in Cell /\ Class(n, closure, methods).tag = "class"
             /\ Class(n, closure, methods).name = n
   BY <1>1 DEF Class, Cell
<1>5. \A class \in Ref :
          Instance(class) \in Cell /\ Instance(class).tag = "instance"
             /\ Instance(class).link = class
   BY <1>1 DEF Instance, Cell
<1>6. \A instance \in Addr, params \in Seq(Names) \cup {None} :
          Bound(instance, params) \in Cell /\ Bound(instance, params).tag = "function"
   <2>1. TAKE instance \in Addr, params \in Seq(Names) \cup {None}
   <2>2. instance \in Ref /\ instance \in Value /\ Globals \in Ref BY DEF Ref, Value
   <2>3. [NoSymbols EXCEPT ![This] = instance] \in [Names -> Value \cup {None}]
      BY <1>1, <2>2
   <2>4. QED BY <1>1, <2>2, <2>3 DEF Bound, Cell
<1>7. QED BY <1>1, <1>2, <1>3, <1>4, <1>5, <1>6

\* The same of one copy of a method.
LEMMA NewBound ==
    ASSUME NEW instance \in Addr, NEW params \in Seq(Names) \cup {None}
    PROVE  Bound(instance, params) \in Cell /\ Bound(instance, params).tag = "function"
<1>1. Bound(instance, params) \in Cell /\ Bound(instance, params).tag = "function"
   BY NewCells
<1>2. QED BY <1>1

\* A cell of the heap is replaced by one as good.
LEMMA HeapUpdate ==
    ASSUME NEW h, HeapOK(h), NEW a \in Ref, NEW c \in Cell,
           c.tag = "instance" => c.link \in Ref, c.tag = "class" => c.name \in Names
    PROVE  HeapOK([h EXCEPT ![a] = c])
BY DEF HeapOK

\* A name is declared in a table, or a member in an instance.
LEMMA DeclareKeepsHeapOK ==
    ASSUME NEW h, HeapOK(h), NEW t \in Ref, NEW n, NEW v \in Value \cup {None}
    PROVE  HeapOK(Declare(h, t, n, v))
<1> DEFINE c == [h[t] EXCEPT !.symbols[n] = v]
<1>1. h[t] \in Cell BY DEF HeapOK
<1>2. [h[t].symbols EXCEPT ![n] = v] \in [Names -> Value \cup {None}] BY <1>1 DEF Cell
<1>3. c \in Cell /\ c.tag = h[t].tag /\ c.link = h[t].link /\ c.name = h[t].name
   BY <1>1, <1>2 DEF Cell
<1>4. Declare(h, t, n, v) = [h EXCEPT ![t] = c] BY <1>1 DEF Declare, HeapOK
<1> HIDE DEF c
<1>5. QED BY <1>3, <1>4, HeapUpdate DEF HeapOK

\* What is known of the innermost activation, and of the operand it waits for.
LEMMA TopFacts ==
    ASSUME IInv, frames # <<>>
    PROVE  /\ Chain(frames) /\ Len(frames) \in Nat \ {0}
           /\ FrameOK(Top) /\ (Top.op = "Program" <=> Len(frames) = 1)
           /\ Innermost(Top, Len(values), cur, status)
           /\ Len(values) \in Nat
           /\ status = "running" /\ Top.op \in Awaiting =>
                 /\ Operand \in Value /\ Rest \in Seq(Value)
                 /\ Len(Rest) = Len(values) - 1
                 /\ Len(Rest) = Top.base + Pending(Top.op)
<1>1. Chain(frames) BY DEF IInv, StackOK
<1>2. Len(frames) \in Nat \ {0} /\ FrameOK(Top) /\ (Top.op = "Program" <=> Len(frames) = 1)
   BY <1>1, TopIsAFrame DEF Top
<1>3. Innermost(Top, Len(values), cur, status) BY <1>2 DEF IInv, StackOK, Top
<1>4. values \in Seq(Value) /\ Len(values) \in Nat BY LenProperties DEF IInv, DataOK
<1>5. ASSUME status = "running", Top.op \in Awaiting
      PROVE  /\ Operand \in Value /\ Rest \in Seq(Value)
             /\ Len(Rest) = Len(values) - 1
             /\ Len(Rest) = Top.base + Pending(Top.op)
   <2>1. Top.base \in Nat /\ Pending(Top.op) \in Nat BY <1>2 DEF FrameOK, Frame, Pending
   <2>2. Len(values) = Top.base + Pending(Top.op) + 1 BY <1>3, <1>5 DEF Innermost
   <2>3. Len(values) \in Nat \ {0} BY <2>1, <2>2
   <2>4. Operand \in Value BY <1>4, <2>3, Lengths, ElementOfSeq DEF Operand
   <2>5. Len(values) - 1 \in Nat /\ Len(values) - 1 \in Int /\ 1 \in Int BY <2>3
   <2>6. \A i \in 1..(Len(values) - 1) : values[i] \in Value BY <1>4, <2>3, ElementOfSeq
   <2>7. /\ Rest \in Seq(Value)
         /\ Len(Rest) = IF 1 <= Len(values) - 1 THEN Len(values) - 1 - 1 + 1 ELSE 0
      BY <2>5, <2>6, SubSeqProperties DEF Rest
   <2>8. Len(Rest) = Len(values) - 1 BY <2>3, <2>7, Lengths
   <2>9. QED BY <2>1, <2>2, <2>4, <2>7, <2>8
<1>6. QED BY <1>1, <1>2, <1>3, <1>4, <1>5

-----------------------------------------------------------------------------
(***************************************************************************)
(* The parts of the invariant after the steps the handlers are made of.    *)
(***************************************************************************)
LEMMA FinishStep ==
    ASSUME IInv, frames # <<>>, Finish, status' = "running", cur' = Top.at,
           Len(values') = Top.base
                          + IF Top.op \in StatementOps \cup {"Program"} THEN 0 ELSE 1
    PROVE  StackOK(frames', Len(values'), cur', status')
BY TopFacts, AfterFinish DEF Finish, Callers, Top

\* The same for the handlers that have no scope of their own.
LEMMA FinishInScope ==
    ASSUME IInv, frames # <<>>, status = "running", Top.op \notin ScopeOps,
           Finish, UNCHANGED <<cur, control>>,
           Len(values') = Top.base
                          + IF Top.op \in StatementOps \cup {"Program"} THEN 0 ELSE 1
    PROVE  ControlOK' /\ StackOK(frames', Len(values'), cur', status')
<1>1. cur' = Top.at BY TopFacts DEF Innermost, FrameOK
<1>2. status' = "running" BY DEF control
<1>3. ControlOK' BY DEF IInv, ControlOK, control
<1>4. QED BY <1>1, <1>2, <1>3, FinishStep

LEMMA ThrowStep ==
    ASSUME IInv, status = "running", frames # <<>>, NEW v \in Value, Throw(v),
           Top.op \in StatementOps, Len(values') = Top.base
    PROVE  ControlOK' /\ StackOK(frames', Len(values'), cur', status')
<1>1. ControlOK' BY AddressesDistinct DEF IInv, ControlOK, Throw, Value
<1>2. StackOK(frames', Len(values'), cur', status')
   BY TopFacts, AfterThrow DEF Throw, Finish, Callers, Top
<1>3. QED BY <1>1, <1>2

LEMMA RaiseStep ==
    ASSUME IInv, status = "running",
           NEW kind \in {"scope", "member", "constructor", "other"},
           NEW n \in Names \cup {None}, Raise(kind, n)
    PROVE  ControlOK' /\ StackOK(frames', Len(values'), cur', status')
<1>1. ControlOK' BY DEF IInv, ControlOK, Raise
<1>2. Chain(<<>>) /\ Len(<<>>) = 0 BY EmptySeq DEF Chain
<1>3. StackOK(frames', Len(values'), cur', status') BY <1>2 DEF Raise, StackOK
<1>4. QED BY <1>1, <1>3

LEMMA CrashStep ==
    ASSUME IInv, status = "running", frames # <<>>, Crash
    PROVE  cur' \in Ref /\ ControlOK' /\ StackOK(frames', Len(values'), cur', status')
<1>1. cur' \in Ref /\ ControlOK' BY DEF IInv, DataOK, ControlOK, Crash
<1>2. StackOK(frames', Len(values'), cur', status')
   BY DEF IInv, StackOK, Innermost, Crash
<1>3. QED BY <1>1, <1>2

LEMMA BecomeStep ==
    ASSUME IInv, frames # <<>>, status = "running",
           NEW f, FrameOK(f), f.at = Top.at, f.base = Top.base,
           f.op \in StatementOps <=> Top.op \in StatementOps,
           f.op # "Program", Top.op # "Program",
           Become(f), UNCHANGED control,
           Innermost(f, Len(values'), cur', "running")
    PROVE  ControlOK' /\ StackOK(frames', Len(values'), cur', status')
<1>1. status' = "running" /\ ControlOK' BY DEF IInv, ControlOK, control
<1>2. StackOK(frames', Len(values'), cur', status')
   BY <1>1, TopFacts, AfterBecome DEF Become, Top
<1>3. QED BY <1>1, <1>2

LEMMA VisitStep ==
    ASSUME IInv, frames # <<>>, status = "running",
           NEW f, FrameOK(f), f.at = Top.at, f.base = Top.base, f.scope = cur,
           f.op \in StatementOps <=> Top.op \in StatementOps,
           f.op = "Program" <=> Top.op = "Program",
           NEW child, \/ child = "Expr" /\ f.op \in Awaiting
                      \/ child \in {"Statement", "Declaration"} /\ f.op \in Holders,
           Visit(f, child), UNCHANGED <<cur, control>>,
           Len(values') = f.base + Pending(f.op), Len(values') \in Nat
    PROVE  ControlOK' /\ StackOK(frames', Len(values'), cur', status')
<1> DEFINE g == Activation(child)
<1>1. status' = "running" /\ ControlOK' BY DEF IInv, ControlOK, control
<1>2. cur \in Ref BY DEF IInv, DataOK
<1>3. /\ g.op = child /\ g.prev = None /\ g.locals = <<>> /\ g.at = cur
      /\ g.base = Len(values') /\ g.scope = cur /\ g \in Frame
   BY <1>2, EmptySeq DEF Activation, Frame, Ops, Childless
<1>4. FrameOK(g) BY <1>3 DEF FrameOK, ScopeOps, Catchers
<1>5. Child(f, g) BY <1>3 DEF Child, StatementOps
<1>6. Innermost(g, Len(values'), cur', "running")
   BY <1>3 DEF Innermost, Pending, Awaiting
<1> HIDE DEF g
<1>7. StackOK(Append([frames EXCEPT ![Len(frames)] = f], g), Len(values'), cur', "running")
   BY <1>4, <1>5, <1>6, TopFacts, AfterVisit DEF Top
<1>8. QED BY <1>1, <1>7 DEF Visit, g

LEMMA HeapStep ==
    ASSUME IInv, Retain(heap)
    PROVE  HeapOK(heap')
BY RetainKeepsHeapOK DEF IInv, DataOK

\* A node with a first child is visited in place of a hole.
LEMMA EvaluateStep ==
    ASSUME IInv, frames # <<>>, status = "running", Top.op \notin ScopeOps,
           Top.op # "Program",
           NEW op \in Awaiting \ {"Arg", "SetRhs"},
           op \in StatementOps <=> Top.op \in StatementOps,
           Evaluate(op), UNCHANGED <<cur, control>>,
           Len(values') = Top.base + Pending(op), Len(values') \in Nat
    PROVE  ControlOK' /\ StackOK(frames', Len(values'), cur', status')
<1> DEFINE f == [Top EXCEPT !.op = op]
<1>1. FrameOK(Top) /\ Innermost(Top, Len(values), cur, status) BY TopFacts
<1>2. /\ f \in Frame /\ f.op = op /\ f.prev = Top.prev /\ f.locals = Top.locals
      /\ f.at = Top.at /\ f.base = Top.base /\ f.scope = Top.scope
   BY <1>1 DEF FrameOK, Frame, Ops
<1>3. f.scope = cur /\ Top.scope = Top.at BY <1>1, <1>2 DEF Innermost, FrameOK
<1>4. op \notin ScopeOps /\ op # "Program" /\ op \notin Catchers \cup {"Ctor", "Args", "Arg"}
      /\ op # "SetRhs"
   BY DEF ScopeOps, Awaiting, Catchers
<1>5. FrameOK(f) BY <1>2, <1>3, <1>4 DEF FrameOK
<1>6. Visit(f, "Expr") BY DEF Evaluate
<1> HIDE DEF f
<1>7. QED BY <1>2, <1>3, <1>4, <1>5, <1>6, VisitStep

\* What is known when the innermost activation is at op.
LEMMA AtFacts ==
    ASSUME IInv, NEW op, At(op)
    PROVE  /\ frames # <<>> /\ status = "running" /\ Top.op = op
           /\ FrameOK(Top)
           /\ Len(values) \in Nat /\ Top.base \in Nat
           /\ Len(values) = Top.base + Pending(op) + IF op \in Awaiting THEN 1 ELSE 0
           /\ cur = Top.scope
           /\ op \in Awaiting => /\ Operand \in Value /\ Rest \in Seq(Value)
                                 /\ Len(Rest) = Top.base + Pending(op)
<1>1. frames # <<>> /\ status = "running" /\ Top.op = op BY DEF At
<1>2. QED BY <1>1, TopFacts DEF Innermost, FrameOK, Frame

LEMMA BeginExprStep ==
    ASSUME IInv, NEW kind, NEW op \in Awaiting \ ({"Arg", "SetRhs", "BinLhs"} \cup StatementOps),
           BeginExpr(kind, op)
    PROVE  IInv'
<1>1. At("Expr") BY DEF BeginExpr
<1>2. Len(values) = Top.base BY <1>1, AtFacts DEF Pending, Awaiting
<1>3. "Expr" \notin ScopeOps /\ "Expr" \notin StatementOps
   BY DEF ScopeOps, Catchers, StatementOps
<1>4. ControlOK' /\ StackOK(frames', Len(values'), cur', status')
   BY <1>1, <1>2, <1>3, AtFacts, EvaluateStep DEF BeginExpr, Pending
<1>5. DataOK' BY HeapStep DEF IInv, DataOK, BeginExpr
<1>6. QED BY <1>4, <1>5 DEF IInv

LEMMA PushFacts ==
    ASSUME NEW s \in Seq(Value), NEW v \in Value
    PROVE  /\ Append(s, v) \in Seq(Value) /\ Len(Append(s, v)) = Len(s) + 1
           /\ Len(s) \in Nat
BY AppendProperties, LenProperties

\* A lookup ends at a table that holds a value for the name.
LEMMA FoundSymbol ==
    ASSUME HeapOK(heap), NEW t, NEW n \in Names, NEW s \in FindSymbol(t, n)
    PROVE  s \in Ref /\ heap[s].symbols[n] \in Value
<1>1. s \in {a \in Ref : heap[a].symbols[n] # None} BY Zenon DEF FindSymbol
<1>2. s \in Ref /\ heap[s].symbols[n] # None BY <1>1
<1>3. heap[s] \in Cell BY <1>2, CellFacts
<1>4. heap[s].symbols \in [Names -> Value \cup {None}] BY <1>3 DEF Cell
<1>5. QED BY <1>2, <1>4

-----------------------------------------------------------------------------
(***************************************************************************)
(* Every step of the interpreter keeps the invariant.  First expressions.  *)
(***************************************************************************)
LEMMA LiteralStep == ASSUME IInv, Literal PROVE IInv'
<1>1. At("Expr") /\ values' = Append(values, Plain) BY DEF Literal
<1>2. Plain \in Value BY DEF Value
<1>3. /\ frames # <<>> /\ status = "running" /\ Top.op = "Expr"
      /\ Len(values) = Top.base
   BY <1>1, AtFacts DEF Pending, Awaiting
<1>4. values' \in Seq(Value) /\ Len(values') = Top.base + 1
   BY <1>1, <1>2, <1>3, PushFacts DEF IInv, DataOK
<1>5. Top.op \notin ScopeOps /\ Top.op \notin StatementOps \cup {"Program"}
   BY <1>3 DEF ScopeOps, Catchers, StatementOps
<1>6. ControlOK' /\ StackOK(frames', Len(values'), cur', status')
   BY <1>3, <1>4, <1>5, FinishInScope DEF Literal
<1>7. DataOK' BY <1>4, HeapStep DEF IInv, DataOK, Literal
<1>8. QED BY <1>6, <1>7 DEF IInv

LEMMA IdentifierStep == ASSUME IInv, Identifier PROVE IInv'
<1>1. At("Expr") /\ UNCHANGED last /\ Retain(heap) BY DEF Identifier
<1>2. /\ frames # <<>> /\ status = "running" /\ Top.op = "Expr"
      /\ Len(values) = Top.base
   BY <1>1, AtFacts DEF Pending, Awaiting
<1>3. Top.op \notin ScopeOps /\ Top.op \notin StatementOps \cup {"Program"}
   BY <1>2 DEF ScopeOps, Catchers, StatementOps
<1>4. PICK n \in Names :
         \/ /\ \E s \in FindSymbol(cur, n) :
                  values' = Append(values, heap[s].symbols[n])
            /\ Finish
            /\ UNCHANGED <<cur, control>>
         \/ NotFound(n) /\ UNCHANGED values
   BY DEF Identifier
<1>5. CASE /\ \E s \in FindSymbol(cur, n) :
                 values' = Append(values, heap[s].symbols[n])
           /\ Finish
           /\ UNCHANGED <<cur, control>>
   <2>1. PICK s \in FindSymbol(cur, n) : values' = Append(values, heap[s].symbols[n])
      BY <1>5
   <2>2. heap[s].symbols[n] \in Value BY FoundSymbol DEF IInv, DataOK
   <2>3. values' \in Seq(Value) /\ Len(values') = Top.base + 1
      BY <1>2, <2>1, <2>2, PushFacts DEF IInv, DataOK
   <2>4. ControlOK' /\ StackOK(frames', Len(values'), cur', status')
      BY <1>2, <1>3, <1>5, <2>3, FinishInScope
   <2>5. DataOK' BY <1>1, <1>5, <2>3, HeapStep DEF IInv, DataOK
   <2>6. QED BY <2>4, <2>5 DEF IInv
<1>6. CASE NotFound(n) /\ UNCHANGED values
   <2>1. ControlOK' /\ StackOK(frames', Len(values'), cur', status')
      BY <1>2, <1>6, RaiseStep DEF NotFound
   <2>2. DataOK' BY <1>1, <1>6, HeapStep DEF IInv, DataOK, NotFound
   <2>3. QED BY <2>1, <2>2 DEF IInv
<1>7. QED BY <1>4, <1>5, <1>6

LEMMA BinaryOpStep == ASSUME IInv, BinaryOp PROVE IInv'
<1>1. CASE BeginExpr("BinaryOp", "BinRhs")
   BY <1>1, BeginExprStep DEF Awaiting, StatementOps
<1>2. CASE /\ At("BinRhs")
           /\ UNCHANGED <<values, last, cur, control>>
           /\ Evaluate("BinLhs")
           /\ Retain(heap)
   <2>1. /\ frames # <<>> /\ status = "running" /\ Top.op = "BinRhs"
         /\ Len(values') = Top.base + 1 /\ Len(values') \in Nat
      BY <1>2, AtFacts DEF Pending, Awaiting
   <2>2. ControlOK' /\ StackOK(frames', Len(values'), cur', status')
      BY <1>2, <2>1, EvaluateStep DEF Pending, Awaiting, StatementOps, ScopeOps, Catchers
   <2>3. DataOK' BY <1>2, HeapStep DEF IInv, DataOK
   <2>4. QED BY <2>2, <2>3 DEF IInv
<1>3. CASE /\ At("BinLhs")
           /\ LET rhs == values[Len(values) - 1]
                  below == SubSeq(values, 1, Len(values) - 2)
              IN  /\ last' = rhs
                  /\ \/ /\ Operand = Plain
                        /\ values' = Append(below, Plain)
                        /\ Finish
                        /\ UNCHANGED control
                     \/ values' = below /\ Raise("other", None)
                     \/ Operand = Plain /\ values' = below /\ Crash
           /\ UNCHANGED cur
           /\ Retain(heap)
   <2> DEFINE below == SubSeq(values, 1, Len(values) - 2)
   <2>1. /\ frames # <<>> /\ status = "running" /\ Top.op = "BinLhs"
         /\ Len(values) = Top.base + 2 /\ Top.base \in Nat /\ Len(values) \in Nat
      BY <1>3, AtFacts DEF Pending, Awaiting
   <2>2. values \in Seq(Value) BY DEF IInv, DataOK
   <2>3. Len(values) - 2 = Top.base /\ Len(values) - 1 \in 1..Len(values) /\ 1 \in Int
         /\ Top.base \in Int /\ 1..Top.base \subseteq 1..Len(values)
      BY <2>1
   <2>4. last' \in Value BY <1>3, <2>2, <2>3, ElementOfSeq
   <2>5. below \in Seq(Value) /\ Len(below) = Top.base
      <3>1. \A i \in 1..Top.base : values[i] \in Value BY <2>2, <2>3, ElementOfSeq
      <3>2. below \in Seq(Value) /\ Len(below) = IF 1 <= Top.base THEN Top.base - 1 + 1 ELSE 0
         BY <2>3, <3>1, SubSeqProperties
      <3>3. QED BY <2>1, <3>2
   <2> HIDE DEF below
   <2>6. Plain \in Value BY DEF Value
   <2>7. CASE values' = Append(below, Plain) /\ Finish /\ UNCHANGED control
      <3>1. values' \in Seq(Value) /\ Len(values') = Top.base + 1
         BY <2>5, <2>6, <2>7, PushFacts
      <3>2. ControlOK' /\ StackOK(frames', Len(values'), cur', status')
         BY <1>3, <2>1, <2>7, <3>1, FinishInScope DEF ScopeOps, Catchers, StatementOps
      <3>3. DataOK' BY <1>3, <2>4, <3>1, HeapStep DEF IInv, DataOK
      <3>4. QED BY <3>2, <3>3 DEF IInv
   <2>8. CASE values' = below /\ Raise("other", None)
      <3>1. ControlOK' /\ StackOK(frames', Len(values'), cur', status')
         BY <2>1, <2>8, RaiseStep
      <3>2. DataOK' BY <1>3, <2>4, <2>5, <2>8, HeapStep DEF IInv, DataOK
      <3>3. QED BY <3>1, <3>2 DEF IInv
   <2>9. CASE values' = below /\ Crash
      <3>1. cur' \in Ref /\ ControlOK' /\ StackOK(frames', Len(values'), cur', status')
         BY <2>1, CrashStep, <2>9
      <3>2. DataOK' BY <1>3, <2>4, <2>5, <2>9, <3>1, HeapStep DEF IInv, DataOK
      <3>3. QED BY <3>1, <3>2 DEF IInv
   <2>10. QED BY <1>3, <2>7, <2>8, <2>9 DEF below
<1>4. QED BY <1>1, <1>2, <1>3 DEF BinaryOp

\* An expression ends with the value that is on top of m_values already.
LEMMA KeepOperandStep ==
    ASSUME IInv, NEW op \in Awaiting \ (StatementOps \cup {"BinLhs"}), At(op),
           last' = Operand, Finish, UNCHANGED <<values, cur, control>>, Retain(heap)
    PROVE  IInv'
<1>1. /\ frames # <<>> /\ status = "running" /\ Top.op = op
      /\ Len(values) = Top.base + 1 /\ Operand \in Value
   BY AtFacts DEF Pending
<1>2. Top.op \notin ScopeOps /\ Top.op \notin StatementOps \cup {"Program"}
   BY <1>1 DEF ScopeOps, Catchers, Awaiting
<1>3. ControlOK' /\ StackOK(frames', Len(values'), cur', status')
   BY <1>1, <1>2, FinishInScope
<1>4. DataOK' BY <1>1, HeapStep DEF IInv, DataOK
<1>5. QED BY <1>3, <1>4 DEF IInv

\* A handler throws a std::exception after it has popped its operand.
LEMMA PopAndRaise ==
    ASSUME IInv, NEW op \in Awaiting, At(op), PopValue, UNCHANGED cur,
           NEW kind \in {"scope", "member", "constructor", "other"},
           NEW n \in Names \cup {None}, Raise(kind, n), Retain(heap)
    PROVE  IInv'
<1>1. /\ frames # <<>> /\ status = "running" /\ Operand \in Value /\ Rest \in Seq(Value)
   BY AtFacts
<1>2. ControlOK' /\ StackOK(frames', Len(values'), cur', status') BY <1>1, RaiseStep
<1>3. DataOK' BY <1>1, HeapStep DEF IInv, DataOK, PopValue
<1>4. QED BY <1>2, <1>3 DEF IInv

\* A handler dereferences a null pointer after it has popped its operand.
LEMMA PopAndCrash ==
    ASSUME IInv, NEW op \in Awaiting, At(op), PopValue, Crash, Retain(heap)
    PROVE  IInv'
<1>1. /\ frames # <<>> /\ status = "running" /\ Operand \in Value /\ Rest \in Seq(Value)
   BY AtFacts
<1>2. cur' \in Ref /\ ControlOK' /\ StackOK(frames', Len(values'), cur', status')
   BY <1>1, CrashStep
<1>3. DataOK' BY <1>1, <1>2, HeapStep DEF IInv, DataOK, PopValue
<1>4. QED BY <1>2, <1>3 DEF IInv

LEMMA UnaryStep == ASSUME IInv, Unary PROVE IInv'
<1>1. CASE BeginExpr("Unary", "Unary")
   BY <1>1, BeginExprStep DEF Awaiting, StatementOps
<1>2. CASE /\ At("Unary") /\ last' = Operand
           /\ UNCHANGED <<values, control>> /\ Finish /\ UNCHANGED cur /\ Retain(heap)
   BY <1>2, KeepOperandStep DEF Awaiting, StatementOps
<1>3. CASE /\ At("Unary") /\ last' = Operand
           /\ values' = Rest /\ Raise("other", None) /\ UNCHANGED cur /\ Retain(heap)
   BY <1>3, PopAndRaise DEF Awaiting, PopValue
<1>4. QED BY <1>1, <1>2, <1>3 DEF Unary

LEMMA LogicOpStep == ASSUME IInv, LogicOp PROVE IInv'
<1>1. CASE BeginExpr("LogicOp", "LogicLhs")
   BY <1>1, BeginExprStep DEF Awaiting, StatementOps
<1>2. ASSUME NEW op \in {"LogicLhs", "LogicRhs"}, At(op), last' = Operand,
             UNCHANGED <<values, control>>, Finish, UNCHANGED cur, Retain(heap)
      PROVE  IInv'
   BY <1>2, KeepOperandStep DEF Awaiting, StatementOps
<1>3. ASSUME NEW op \in {"LogicLhs", "LogicRhs"}, At(op), last' = Operand,
             values' = Rest, Raise("other", None), UNCHANGED cur, Retain(heap)
      PROVE  IInv'
   BY <1>3, PopAndRaise DEF Awaiting, PopValue
<1>4. ASSUME At("LogicLhs"), last' = Operand, values' = Rest, UNCHANGED control,
             Evaluate("LogicRhs"), UNCHANGED cur, Retain(heap)
      PROVE  IInv'
   <2>1. /\ frames # <<>> /\ status = "running" /\ Top.op = "LogicLhs"
         /\ Operand \in Value /\ Rest \in Seq(Value) /\ Len(Rest) = Top.base
         /\ Top.base \in Nat
      BY <1>4, AtFacts DEF Pending, Awaiting
   <2>2. ControlOK' /\ StackOK(frames', Len(values'), cur', status')
      BY <1>4, <2>1, EvaluateStep DEF Pending, Awaiting, StatementOps, ScopeOps, Catchers
   <2>3. DataOK' BY <1>4, <2>1, HeapStep DEF IInv, DataOK
   <2>4. QED BY <2>2, <2>3 DEF IInv
<1>5. QED BY <1>1, <1>2, <1>3, <1>4 DEF LogicOp

LEMMA AssignmentStep == ASSUME IInv, Assignment PROVE IInv'
<1>1. CASE BeginExpr("Assignment", "Assign")
   BY <1>1, BeginExprStep DEF Awaiting, StatementOps
<1>2. ASSUME At("Assign"), last' = Operand, NEW n \in OwnNames,
             \/ \E s \in FindSymbol(cur, n) :
                   /\ UNCHANGED <<values, cur, control>>
                   /\ Finish
                   /\ Retain(Declare(heap, s, n, Operand))
             \/ NotFound(n) /\ values' = Rest /\ Retain(heap)
      PROVE  IInv'
   <2>1. n \in Names BY ScriptsWellFormed
   <2>2. /\ frames # <<>> /\ status = "running" /\ Top.op = "Assign"
         /\ Len(values) = Top.base + 1 /\ Operand \in Value
      BY <1>2, AtFacts DEF Pending, Awaiting
   <2>3. CASE NotFound(n) /\ values' = Rest /\ Retain(heap)
      BY <1>2, <2>1, <2>3, PopAndRaise DEF NotFound, PopValue, Awaiting
   <2>4. ASSUME NEW s \in FindSymbol(cur, n), UNCHANGED <<values, cur, control>>,
                Finish, Retain(Declare(heap, s, n, Operand))
         PROVE  IInv'
      <3>1. s \in Ref BY <2>1, FoundSymbol DEF IInv, DataOK
      <3>2. HeapOK(Declare(heap, s, n, Operand))
         BY <2>2, <3>1, DeclareKeepsHeapOK DEF IInv, DataOK
      <3>3. HeapOK(heap') BY <2>4, <3>2, RetainKeepsHeapOK
      <3>4. DataOK' BY <1>2, <2>2, <2>4, <3>3 DEF IInv, DataOK
      <3>5. ControlOK' /\ StackOK(frames', Len(values'), cur', status')
         BY <2>2, <2>4, FinishInScope DEF ScopeOps, Catchers, StatementOps
      <3>6. QED BY <3>4, <3>5 DEF IInv
   <2>5. QED BY <1>2, <2>3, <2>4
<1>3. QED BY <1>1, <1>2 DEF Assignment

\* A new address when there is one.
LEMMA FreshFacts ==
    ASSUME NEW taken, Free \ taken # {}
    PROVE  Fresh(taken) \in Addr /\ Fresh(taken) \in Free \ taken
<1>1. Fresh(taken) \in Free \ taken BY Zenon DEF Fresh
<1>2. QED BY <1>1 DEF Free

\* A member of an instance is given: the instance makes place for a value.
LEMMA GiveStep ==
    ASSUME IInv, At("Get"), last' = Operand, UNCHANGED <<cur, control>>,
           NEW v \in Value, values' = Append(Rest, v), Finish,
           NEW h, HeapOK(h), Retain(h)
    PROVE  IInv'
<1>1. /\ frames # <<>> /\ status = "running" /\ Top.op = "Get"
      /\ Operand \in Value /\ Rest \in Seq(Value) /\ Len(Rest) = Top.base
   BY AtFacts DEF Pending, Awaiting
<1>2. values' \in Seq(Value) /\ Len(values') = Top.base + 1
   BY <1>1, PushFacts
<1>3. ControlOK' /\ StackOK(frames', Len(values'), cur', status')
   BY <1>1, <1>2, FinishInScope DEF ScopeOps, Catchers, StatementOps
<1>4. HeapOK(heap') BY RetainKeepsHeapOK
<1>5. DataOK' BY <1>1, <1>2, <1>4 DEF IInv, DataOK
<1>6. QED BY <1>3, <1>5 DEF IInv

\* A method is bound to the instance it is found in.
LEMMA GiveBoundStep ==
    ASSUME IInv, At("Get"), last' = Operand, UNCHANGED <<cur, control>>, Operand \in Addr,
           NEW params \in Seq(Names) \cup {None}, Free # {},
           values' = Append(Rest, Fresh({})), Finish,
           Retain([heap EXCEPT ![Fresh({})] = Bound(Operand, params)])
    PROVE  IInv'
<1>1. Fresh({}) \in Addr BY FreshFacts
<1>2. Fresh({}) \in Ref /\ Fresh({}) \in Value BY <1>1 DEF Ref, Value
<1>3. HeapOK([heap EXCEPT ![Fresh({})] = Bound(Operand, params)])
   BY <1>2, NewCells, HeapUpdate DEF IInv, DataOK
<1>4. QED BY <1>2, <1>3, GiveStep

LEMMA GetExpressionStep == ASSUME IInv, GetExpression PROVE IInv'
<1>1. CASE BeginExpr("Get", "Get")
   BY <1>1, BeginExprStep DEF Awaiting, StatementOps
<1>2. CASE At("Get") /\ ~Is(Operand, "instance") /\ PopValue /\ Crash /\ Retain(heap)
   BY <1>2, PopAndCrash DEF Awaiting
<1>3. ASSUME At("Get"), Is(Operand, "instance"), last' = Operand, UNCHANGED cur,
             NEW n \in Names,
             LET field == heap[Operand].symbols[n]
                 method == heap[heap[Operand].link].methods[n]
                 member == IF field # None THEN field ELSE method
                 copy == Fresh({})
                 Give(v) == values' = Append(Rest, v) /\ Finish /\ UNCHANGED control
                 GiveBound(params) == /\ Free # {}
                                      /\ Give(copy)
                                      /\ Retain([heap EXCEPT ![copy] = Bound(Operand, params)])
             IN  \/ field # None /\ Is(field, "function") /\ GiveBound(heap[field].params)
                 \/ field = Builtin /\ GiveBound(None)
                 \/ /\ field # None /\ field # Builtin /\ ~Is(field, "function")
                    /\ Give(field)
                    /\ Retain(heap)
                 \/ field = None /\ method # None /\ GiveBound(method)
                 \/ /\ member = None
                    /\ values' = Rest
                    /\ Raise("member", n)
                    /\ Retain(heap)
      PROVE  IInv'
   <2> DEFINE field == heap[Operand].symbols[n]
   <2> DEFINE method == heap[heap[Operand].link].methods[n]
   <2> DEFINE Give(v) == values' = Append(Rest, v) /\ Finish /\ UNCHANGED control
   <2> DEFINE GiveBound(params) ==
                 /\ Free # {}
                 /\ Give(Fresh({}))
                 /\ Retain([heap EXCEPT ![Fresh({})] = Bound(Operand, params)])
   <2>1. HeapOK(heap) BY DEF IInv, DataOK
   <2>2. Operand \in Addr /\ Operand \in Ref /\ heap[Operand].tag = "instance"
      BY <1>3 DEF Is, Ref
   <2>3. heap[Operand] \in Cell /\ heap[Operand].link \in Ref BY <2>1, <2>2, CellFacts
   <2>4. field \in Value \cup {None} BY <2>3 DEF Cell
   <2>5. heap[heap[Operand].link] \in Cell BY <2>1, <2>3, CellFacts
   <2>6. method \in Signatures \cup {None} BY <2>5 DEF Cell
   <2>7. method \in Seq(Names) \cup {None} BY <2>6, ScriptsWellFormed
   <2>8. CASE Is(field, "function") /\ GiveBound(heap[field].params)
      <3>1. field \in Ref BY <2>8 DEF Is, Ref
      <3>2. heap[field].params \in Seq(Names) \cup {None} BY <2>1, <3>1, CellFacts DEF Cell
      <3>3. QED BY <1>3, <2>2, <2>8, <3>2, GiveBoundStep
   <2>9. CASE GiveBound(None)
      BY <1>3, <2>2, <2>9, GiveBoundStep
   <2>10. CASE field # None /\ Give(field) /\ Retain(heap)
      BY <1>3, <2>1, <2>4, <2>10, GiveStep
   <2>11. CASE GiveBound(method)
      BY <1>3, <2>2, <2>7, <2>11, GiveBoundStep
   <2>12. CASE values' = Rest /\ Raise("member", n) /\ Retain(heap)
      BY <1>3, <2>12, PopAndRaise DEF Awaiting, PopValue
   <2>13. QED BY <1>3, <2>8, <2>9, <2>10, <2>11, <2>12
<1>4. QED BY <1>1, <1>2, <1>3, Zenon DEF GetExpression

LEMMA SetExpressionStep == ASSUME IInv, SetExpression PROVE IInv'
<1>1. CASE BeginExpr("Set", "SetLhs")
   BY <1>1, BeginExprStep DEF Awaiting, StatementOps
<1>2. CASE /\ At("SetLhs")
           /\ PopValue
           /\ UNCHANGED <<cur, control>>
           /\ Visit([Top EXCEPT !.op = "SetRhs",
                                !.locals = <<IF Is(Operand, "instance") THEN Operand ELSE None>>],
                    "Expr")
           /\ Retain(heap)
   <2> DEFINE v == IF Is(Operand, "instance") THEN Operand ELSE None
   <2> DEFINE f == [Top EXCEPT !.op = "SetRhs", !.locals = <<v>>]
   <2>1. /\ frames # <<>> /\ status = "running" /\ Top.op = "SetLhs"
         /\ Operand \in Value /\ Rest \in Seq(Value) /\ Len(Rest) = Top.base
         /\ Top.base \in Nat /\ FrameOK(Top) /\ cur = Top.scope
      BY <1>2, AtFacts DEF Pending, Awaiting
   <2>2. v \in Value \cup {None} BY <2>1
   <2> HIDE DEF v
   <2>3. <<v>> \in Seq(Value \cup {None}) /\ <<v>> # <<>> BY <2>2
   <2>4. Top \in Frame /\ Top.scope = Top.at
      BY <2>1 DEF FrameOK, ScopeOps, Catchers
   <2>5. /\ f \in Frame /\ f.op = "SetRhs" /\ f.locals = <<v>>
         /\ f.at = Top.at /\ f.base = Top.base /\ f.scope = Top.scope
      BY <2>3, <2>4 DEF Frame, Ops, Awaiting
   <2>6. FrameOK(f) BY <2>3, <2>4, <2>5 DEF FrameOK, ScopeOps, Catchers
   <2>7. Visit(f, "Expr") BY <1>2 DEF v
   <2> HIDE DEF f
   <2>8. f.op \in Awaiting /\ f.op \notin StatementOps /\ Top.op \notin StatementOps
         /\ f.op # "Program" /\ Top.op # "Program" /\ Pending(f.op) = 0
      BY <2>1, <2>5 DEF Awaiting, StatementOps, Pending
   <2>9. values' = Rest BY <1>2 DEF PopValue
   <2>10. ControlOK' /\ StackOK(frames', Len(values'), cur', status')
      BY <1>2, <2>1, <2>5, <2>6, <2>7, <2>8, <2>9, VisitStep
   <2>11. DataOK' BY <1>2, <2>1, HeapStep DEF IInv, DataOK, PopValue
   <2>12. QED BY <2>10, <2>11 DEF IInv
<1>3. CASE /\ At("SetRhs") /\ Top.locals[1] \in Addr
           /\ last' = Operand
           /\ UNCHANGED <<values, cur, control>>
           /\ Finish
           /\ \E n \in OwnNames : Retain(Declare(heap, Top.locals[1], n, Operand))
   <2>1. /\ frames # <<>> /\ status = "running" /\ Top.op = "SetRhs"
         /\ Len(values) = Top.base + 1 /\ Operand \in Value
      BY <1>3, AtFacts DEF Pending, Awaiting
   <2>2. PICK n \in OwnNames : Retain(Declare(heap, Top.locals[1], n, Operand)) BY <1>3
   <2>3. Top.locals[1] \in Ref BY <1>3 DEF Ref
   <2>4. HeapOK(Declare(heap, Top.locals[1], n, Operand))
      BY <2>1, <2>3, DeclareKeepsHeapOK DEF IInv, DataOK
   <2>5. HeapOK(heap') BY <2>2, <2>4, RetainKeepsHeapOK
   <2>6. DataOK' BY <1>3, <2>1, <2>5 DEF IInv, DataOK
   <2>7. ControlOK' /\ StackOK(frames', Len(values'), cur', status')
      BY <1>3, <2>1, FinishInScope DEF ScopeOps, Catchers, StatementOps
   <2>8. QED BY <2>6, <2>7 DEF IInv
<1>4. CASE At("SetRhs") /\ PopValue /\ Crash /\ Retain(heap)
   BY <1>4, PopAndCrash DEF Awaiting
<1>5. QED BY <1>1, <1>2, <1>3, <1>4 DEF SetExpression

-----------------------------------------------------------------------------
(***************************************************************************)
(* Calls.                                                                  *)
(***************************************************************************)
\* A finite set of at least m elements, less one.
LEMMA OneLess ==
    ASSUME NEW S, IsFiniteSet(S), NEW m \in Nat, Cardinality(S) >= m + 1, NEW a
    PROVE  /\ S # {}
           /\ IsFiniteSet(S \ {a})
           /\ Cardinality(S \ {a}) >= m
<1>1. Cardinality(S) \in Nat BY FS_CardinalityType
<1>2. IsFiniteSet(S \ {a}) BY FS_RemoveElement
<1>3. Cardinality(S \ {a}) = IF a \in S THEN Cardinality(S) - 1 ELSE Cardinality(S)
   BY FS_RemoveElement
<1>4. Cardinality(S) # 0 BY <1>1
<1>5. S # {} BY <1>4, FS_EmptySet
<1>6. Cardinality(S \ {a}) >= m BY <1>1, <1>3
<1>7. QED BY <1>2, <1>5, <1>6

\* Two free addresses are enough for an anonymous method, four for the objects
\* of a constructor's call.
LEMMA TwoAreFree ==
    ASSUME Cardinality(Free) >= 2, IsFiniteSet(Free), NEW a
    PROVE  Free # {} /\ Free \ {a} # {}
<1>1. Free # {} /\ IsFiniteSet(Free \ {a}) /\ Cardinality(Free \ {a}) >= 0 + 1
   BY OneLess, 1 \in Nat, 2 = 1 + 1, 0 + 1 = 1
<1>2. QED BY <1>1, OneLess

LEMMA FourAreFree ==
    ASSUME Cardinality(Free) >= 4, IsFiniteSet(Free), NEW a, NEW b, NEW c
    PROVE  Free # {} /\ Free \ {a} # {} /\ Free \ {a, b} # {} /\ Free \ {a, b, c} # {}
<1>1. Free # {} /\ IsFiniteSet(Free \ {a}) /\ Cardinality(Free \ {a}) >= 2 + 1
   BY OneLess, 3 \in Nat, 4 = 3 + 1, 2 + 1 = 3
<1>2. /\ Free \ {a} # {}
      /\ IsFiniteSet((Free \ {a}) \ {b}) /\ Cardinality((Free \ {a}) \ {b}) >= 1 + 1
   BY <1>1, OneLess, 2 \in Nat, 1 + 1 = 2
<1>3. /\ (Free \ {a}) \ {b} # {}
      /\ IsFiniteSet(((Free \ {a}) \ {b}) \ {c})
      /\ Cardinality(((Free \ {a}) \ {b}) \ {c}) >= 0 + 1
   BY <1>2, OneLess, 1 \in Nat, 0 + 1 = 1
<1>4. ((Free \ {a}) \ {b}) \ {c} # {} BY <1>3, OneLess
<1>5. (Free \ {a}) \ {b} = Free \ {a, b} /\ ((Free \ {a}) \ {b}) \ {c} = Free \ {a, b, c}
   OBVIOUS
<1>6. QED BY <1>1, <1>2, <1>3, <1>4, <1>5

\* A set of indices has a greatest one.
LEMMA GreatestIndex ==
    ASSUME NEW k \in Nat, NEW T, T \subseteq 1..k, T # {}
    PROVE  \E i \in T : \A j \in T : j <= i
<1> DEFINE D == {k - i : i \in T}
<1>1. D \subseteq Nat /\ D # {}
   <2>1. \A i \in 1..k : k - i \in Nat OBVIOUS
   <2>2. \A i \in T : k - i \in Nat BY <2>1
   <2>3. QED BY <2>2
<1>2. PICK d \in D : \A e \in D : ~(<<e, d>> \in OpToRel(<, Nat))
   BY <1>1, NatLessThanWellFounded, WFMin
<1>3. \A e \in D : ~(e < d) BY <1>1, <1>2 DEF OpToRel
<1>4. PICK i \in T : d = k - i OBVIOUS
<1>5. \A j \in T : j <= i
   <2>1. TAKE j \in T
   <2>2. k - j \in D OBVIOUS
   <2>3. ~(k - j < k - i) BY <1>3, <1>4, <2>2
   <2>4. QED BY <2>3
<1>6. QED BY <1>5

LEMMA ParametersType ==
    ASSUME NEW params \in Seq(Names), NEW args \in Seq(Value \cup {None}),
           NEW k \in Nat, k <= Len(params), Len(params) = Len(args)
    PROVE  Parameters(params, args, k) \in [Names -> Value \cup {None}]
<1>1. ASSUME NEW n \in Names
      PROVE  LET named == {i \in 1..k : params[i] = n}
             IN  (IF named = {} THEN None
                  ELSE args[CHOOSE i \in named : \A j \in named : j <= i])
                    \in Value \cup {None}
   <2> DEFINE named == {i \in 1..k : params[i] = n}
   <2> DEFINE m == CHOOSE i \in named : \A j \in named : j <= i
   <2>1. CASE named = {} BY <2>1
   <2>2. CASE named # {}
      <3>1. named \subseteq 1..k OBVIOUS
      <3> HIDE DEF named
      <3>2. m \in named BY <2>2, <3>1, GreatestIndex
      <3> HIDE DEF m
      <3>0. m \in 1..k /\ Len(args) \in Nat BY <3>1, <3>2, LenProperties
      <3>3. m \in 1..Len(args) BY <3>0
      <3>4. args[m] \in Value \cup {None} BY <3>3, ElementOfSeq
      <3>5. QED BY <2>2, <3>4 DEF m, named
   <2>3. QED BY <2>1, <2>2
<1>2. QED BY <1>1, Zenon DEF Parameters

\* The callee, its scope and its arguments have their types.
LEMMA CalleeFacts ==
    ASSUME IInv, At("Args")
    PROVE  /\ frames # <<>> /\ status = "running" /\ Top.op = "Args"
           /\ FrameOK(Top) /\ Len(values) = Top.base /\ cur = Top.scope /\ cur = Top.at
           /\ cur \in Ref /\ Top \in Frame
           /\ Callee \in Value
           /\ Args \in Seq(Value \cup {None})
           /\ IsFiniteSet(Free)
<1>1. /\ frames # <<>> /\ status = "running" /\ Top.op = "Args"
      /\ FrameOK(Top) /\ Len(values) = Top.base /\ cur = Top.scope
   BY AtFacts DEF Pending, Awaiting
<1>2. cur \in Ref BY DEF IInv, DataOK
<1>3. Top \in Frame /\ Top.locals # <<>> /\ Top.locals[1] \in Value /\ cur = Top.at
   BY <1>1 DEF FrameOK, ScopeOps, Catchers
<1>4. Top.locals \in Seq(Value \cup {None}) BY <1>3 DEF Frame
<1>5. /\ Len(Top.locals) \in Int /\ 2 \in Int
      /\ \A i \in 2..Len(Top.locals) : Top.locals[i] \in Value \cup {None}
   <2>1. Len(Top.locals) \in Nat BY <1>4, LenProperties
   <2>2. ASSUME NEW i \in 2..Len(Top.locals) PROVE Top.locals[i] \in Value \cup {None}
      <3>1. i \in 1..Len(Top.locals) BY <2>1
      <3>2. QED BY <1>4, <3>1, ElementOfSeq
   <2>3. QED BY <2>1, <2>2
<1>6. Args \in Seq(Value \cup {None}) BY <1>5, SubSeqProperties DEF Args
<1>7. IsFiniteSet(Free) BY AddressesDistinct, FS_Subset DEF Free
<1>8. QED BY <1>1, <1>2, <1>3, <1>6, <1>7 DEF Callee

\* The call goes on in the activation of the function's body.
LEMMA BodyFrame ==
    ASSUME IInv, At("Args"), NEW table \in Ref
    PROVE  LET f == [Top EXCEPT !.op = "Body", !.prev = cur, !.scope = table]
           IN  /\ FrameOK(f) /\ f.op = "Body" /\ f.at = Top.at /\ f.base = Top.base
               /\ f.scope = table
<1> DEFINE f == [Top EXCEPT !.op = "Body", !.prev = cur, !.scope = table]
<1>1. /\ Top \in Frame /\ FrameOK(Top) /\ cur = Top.at /\ cur \in Ref /\ Top.op = "Args"
   BY CalleeFacts
<1>2. /\ f \in Frame /\ f.op = "Body" /\ f.prev = cur /\ f.locals = Top.locals
      /\ f.at = Top.at /\ f.base = Top.base /\ f.scope = table
   BY <1>1 DEF Frame, Ops, Holders
<1>3. Top.locals # <<>> /\ Top.locals[1] \in Value BY <1>1 DEF FrameOK
<1> HIDE DEF f
<1>4. FrameOK(f) BY <1>1, <1>2, <1>3 DEF FrameOK, ScopeOps, Catchers
<1>5. QED BY <1>2, <1>4 DEF f

\* A parameter is not of the type it is declared with.
LEMMA RaiseInCall ==
    ASSUME IInv, At("Args"), UNCHANGED <<values, last>>, cur' \in Ref,
           NEW kind \in {"scope", "member", "constructor", "other"},
           NEW n \in Names \cup {None}, Raise(kind, n),
           NEW h, HeapOK(h), Retain(h)
    PROVE  IInv'
<1>1. ControlOK' /\ StackOK(frames', Len(values'), cur', status')
   BY CalleeFacts, RaiseStep
<1>2. HeapOK(heap') BY RetainKeepsHeapOK
<1>3. DataOK' BY <1>2 DEF IInv, DataOK
<1>4. QED BY <1>1, <1>3 DEF IInv

\* A refused parameter is a failure of one of two kinds.
LEMMA RefuseRaises ==
    ASSUME NEW home, NEW declared, NEW unknown \in SUBSET UnknownTypes(home, declared),
           Refuse(unknown)
    PROVE  \E kind \in {"other", "scope"} : \E n \in Names \cup {None} : Raise(kind, n)
<1>1. unknown \subseteq Names BY DEF UnknownTypes
<1>2. QED BY <1>1, Zenon DEF Refuse

LEMMA CallFunctionStep ==
    ASSUME IInv, At("Args"), UNCHANGED <<values, last>>, Callee \in Addr,
           NEW params \in Seq(Names), Len(params) = Len(Args), CallFunction(params)
    PROVE  IInv'
<1> DEFINE table == Fresh({})
<1> DEFINE Entered(k) == [heap EXCEPT ![table] =
                             Table(Home(Callee), Parameters(params, Args, k))]
<1> DEFINE f == [Top EXCEPT !.op = "Body", !.prev = cur, !.scope = table]
<1>1. table \in Ref /\ cur' = table BY FreshFacts DEF CallFunction, Ref
<1>2. /\ frames # <<>> /\ status = "running" /\ Top.op = "Args" /\ Len(values) = Top.base
      /\ Args \in Seq(Value \cup {None}) /\ FrameOK(Top)
   BY CalleeFacts
<1>3. HeapOK(heap) BY DEF IInv, DataOK
<1>4. Home(Callee) \in Ref
   <2>1. Callee \in Ref /\ Globals \in Ref BY DEF Ref
   <2>2. heap[Callee].link \in Ref \cup {None} BY <1>3, <2>1, CellFacts DEF Cell
   <2>3. QED BY <2>1, <2>2 DEF Home
<1>5. ASSUME NEW k \in Nat, k <= Len(params) PROVE HeapOK(Entered(k))
   <2>1. Parameters(params, Args, k) \in [Names -> Value \cup {None}]
      BY <1>2, <1>5, ParametersType
   <2>2. /\ Table(Home(Callee), Parameters(params, Args, k)) \in Cell
         /\ Table(Home(Callee), Parameters(params, Args, k)).tag = "table"
      BY <1>4, <2>1, NewCells
   <2>3. QED BY <1>1, <1>3, <2>2, HeapUpdate
<1>6. Len(params) \in Nat BY LenProperties
<1>7. CASE /\ Become(f) /\ UNCHANGED control /\ Retain(Entered(Len(params)))
   <2>0. Len(params) <= Len(params) BY <1>6
   <2>1. HeapOK(heap')
      <3>1. HeapOK(Entered(Len(params))) BY <1>5, <1>6, <2>0
      <3> HIDE DEF Entered
      <3>2. QED BY <1>7, <3>1, RetainKeepsHeapOK
   <2>2. DataOK' BY <1>1, <2>1 DEF IInv, DataOK
   <2>3. /\ FrameOK(f) /\ f.op = "Body" /\ f.at = Top.at /\ f.base = Top.base
         /\ f.scope = table
      BY <1>1, BodyFrame
   <2> HIDE DEF f, table
   <2>4. Innermost(f, Len(values'), cur', "running")
      <3>1. f.base \in Nat BY <2>3 DEF FrameOK, Frame
      <3>2. QED BY <1>1, <1>2, <2>3, <3>1 DEF Innermost, Pending, Awaiting
   <2>5. f.op \notin StatementOps /\ Top.op \notin StatementOps
         /\ f.op # "Program" /\ Top.op # "Program"
      BY <1>2, <2>3 DEF StatementOps
   <2>6. ControlOK' /\ StackOK(frames', Len(values'), cur', status')
      BY <1>2, <1>7, <2>3, <2>4, <2>5, BecomeStep
   <2>7. QED BY <2>2, <2>6 DEF IInv
<1>8. ASSUME NEW k \in 0..(Len(params) - 1), Retain(Entered(k)),
             NEW kind \in {"other", "scope"}, NEW n \in Names \cup {None}, Raise(kind, n)
      PROVE  IInv'
   <2>1. k \in Nat /\ k <= Len(params) BY <1>6
   <2>2. HeapOK(Entered(k)) BY <1>5, <2>1
   <2> HIDE DEF Entered, table
   <2>3. QED BY <1>1, <1>8, <2>2, RaiseInCall
<1>9. ASSUME NEW k \in 0..(Len(params) - 1), Retain(Entered(k)),
             Refuse(UnknownTypes(Home(Callee), Parameters(params, Args, k)))
      PROVE  IInv'
   BY <1>8, <1>9, RefuseRaises
<1>10. QED BY <1>7, <1>9, Zenon DEF CallFunction

\* The heap during the call of a constructor, k parameters in.
LEMMA EnteredClass ==
    ASSUME IInv, Is(Callee, "class"), Args \in Seq(Value \cup {None}),
           NEW outer \in Addr, NEW instance \in Addr, NEW constructor \in Addr,
           NEW inner \in Addr,
           NEW params \in Seq(Names), Len(params) = Len(Args),
           NEW k \in Nat, k <= Len(params)
    PROVE  HeapOK([heap EXCEPT ![outer] = Table(heap[Callee].link, NoSymbols),
                               ![instance] = Instance(Callee),
                               ![constructor] = Bound(instance, params),
                               ![inner] = Table(constructor, Parameters(params, Args, k))])
<1>1. /\ outer \in Ref /\ instance \in Ref /\ constructor \in Ref /\ inner \in Ref
      /\ Callee \in Ref
   BY DEF Ref, Is
<1>2. HeapOK(heap) BY DEF IInv, DataOK
<1>3. heap[Callee].link \in Ref \cup {None} BY <1>1, <1>2, CellFacts DEF Cell
<1>4. /\ Table(heap[Callee].link, NoSymbols) \in Cell
      /\ Table(heap[Callee].link, NoSymbols).tag = "table"
   BY <1>3, NewCells
<1>5. /\ Instance(Callee) \in Cell /\ Instance(Callee).tag = "instance"
      /\ Instance(Callee).link \in Ref
   BY <1>1, NewCells
<1>6. Bound(instance, params) \in Cell /\ Bound(instance, params).tag = "function"
   BY NewCells
<1>7. Parameters(params, Args, k) \in [Names -> Value \cup {None}] BY ParametersType
<1>8. /\ Table(constructor, Parameters(params, Args, k)) \in Cell
      /\ Table(constructor, Parameters(params, Args, k)).tag = "table"
   BY <1>1, <1>7, NewCells
<1> DEFINE h1 == [heap EXCEPT ![outer] = Table(heap[Callee].link, NoSymbols)]
<1> DEFINE h2 == [h1 EXCEPT ![instance] = Instance(Callee)]
<1> DEFINE h3 == [h2 EXCEPT ![constructor] = Bound(instance, params)]
<1> DEFINE h4 == [h3 EXCEPT ![inner] = Table(constructor, Parameters(params, Args, k))]
<1>9. HeapOK(h1) BY <1>1, <1>2, <1>4, HeapUpdate
<1> HIDE DEF h1
<1>10. HeapOK(h2) BY <1>1, <1>5, <1>9, HeapUpdate
<1> HIDE DEF h2
<1>11. HeapOK(h3) BY <1>1, <1>6, <1>10, HeapUpdate
<1> HIDE DEF h3
<1>12. HeapOK(h4) BY <1>1, <1>8, <1>11, HeapUpdate
<1>13. QED BY <1>12, Zenon DEF h1, h2, h3, h4

LEMMA CallClassStep ==
    ASSUME IInv, At("Args"), UNCHANGED <<values, last>>, Is(Callee, "class"),
           NEW params \in Seq(Names), Len(params) = Len(Args), CallClass(params)
    PROVE  IInv'
<1> DEFINE outer == Fresh({})
<1> DEFINE instance == Fresh({outer})
<1> DEFINE constructor == Fresh({outer, instance})
<1> DEFINE inner == Fresh({outer, instance, constructor})
<1> DEFINE Entered(k) ==
        [heap EXCEPT ![outer] = Table(heap[Callee].link, NoSymbols),
                     ![instance] = Instance(Callee),
                     ![constructor] = Bound(instance, params),
                     ![inner] = Table(constructor, Parameters(params, Args, k))]
<1> DEFINE f == [Top EXCEPT !.op = "Body", !.prev = cur, !.scope = outer]
<1> DEFINE g == [op |-> "Ctor", prev |-> outer, locals |-> <<instance, constructor>>,
                 at |-> outer, base |-> Len(values), scope |-> inner]
<1>1. /\ frames # <<>> /\ status = "running" /\ Top.op = "Args" /\ Len(values) = Top.base
      /\ Args \in Seq(Value \cup {None}) /\ FrameOK(Top) /\ IsFiniteSet(Free)
   BY CalleeFacts
<1>2. Cardinality(Free) >= 4 /\ cur' = inner BY DEF CallClass
<1>3. outer \in Addr /\ instance \in Addr /\ constructor \in Addr /\ inner \in Addr
   <2>1. outer \in Addr BY <1>1, <1>2, FourAreFree, FreshFacts
   <2> HIDE DEF outer
   <2>2. instance \in Addr BY <1>1, <1>2, FourAreFree, FreshFacts
   <2> HIDE DEF instance
   <2>3. constructor \in Addr BY <1>1, <1>2, FourAreFree, FreshFacts
   <2> HIDE DEF constructor
   <2>4. inner \in Addr BY <1>1, <1>2, FourAreFree, FreshFacts
   <2>5. QED BY <2>1, <2>2, <2>3, <2>4
<1>4. /\ outer \in Ref /\ instance \in Ref /\ constructor \in Ref /\ inner \in Ref
      /\ Callee \in Ref /\ instance \in Value /\ constructor \in Value
   BY <1>3 DEF Ref, Value, Is
<1>5. CASE /\ frames' = Append([frames EXCEPT ![Len(frames)] = f], g)
           /\ UNCHANGED control
           /\ Retain(Entered(Len(params)))
   <2>1. Len(params) \in Nat /\ Len(params) <= Len(params) BY LenProperties
   <2>2. HeapOK(Entered(Len(params)))
      BY <1>1, <1>3, <2>1, EnteredClass
   <2>3. HeapOK(heap')
      <3> HIDE DEF Entered
      <3>1. QED BY <1>5, <2>2, RetainKeepsHeapOK
   <2>4. DataOK' BY <1>2, <1>4, <2>3 DEF IInv, DataOK
   <2>5. FrameOK(f) /\ f.op = "Body" /\ f.at = Top.at /\ f.base = Top.base /\ f.scope = outer
      BY <1>4, BodyFrame
   <2>6. f.base \in Nat BY <2>5 DEF FrameOK, Frame
   <2> HIDE DEF outer, instance, constructor, inner, Entered, f
   <2>7. /\ g.op = "Ctor" /\ g.prev = outer /\ g.locals = <<instance, constructor>>
         /\ g.at = outer /\ g.base = f.base /\ g.scope = inner
      BY <1>1, <2>5
   <2>8. <<instance, constructor>> \in Seq(Value \cup {None})
         /\ <<instance, constructor>> # <<>> /\ <<instance, constructor>>[1] = instance
      BY <1>4
   <2>9. g \in Frame BY <1>1, <1>4, <2>5, <2>6, <2>8 DEF Frame, Ops, Holders
   <2> HIDE DEF g
   <2>10. FrameOK(g)
      BY <1>4, <2>7, <2>8, <2>9 DEF FrameOK, ScopeOps
   <2>11. Child(f, g) BY <2>5, <2>6, <2>7 DEF Child, StatementOps, Holders, Pending
   <2>12. Innermost(g, Len(values'), cur', "running")
      BY <1>1, <1>2, <2>5, <2>6, <2>7 DEF Innermost, Pending, Awaiting
   <2>13. f.op \notin StatementOps /\ Top.op \notin StatementOps
          /\ f.op # "Program" /\ Top.op # "Program"
      BY <1>1, <2>5 DEF StatementOps
   <2>14. StackOK(frames', Len(values'), cur', "running")
      BY <1>1, <1>5, <2>5, <2>10, <2>11, <2>12, <2>13, TopFacts, AfterVisit DEF Top
   <2>15. status' = "running" /\ ControlOK' BY <1>1, <1>5 DEF IInv, ControlOK, control
   <2>16. QED BY <2>4, <2>14, <2>15 DEF IInv
<1>6. ASSUME NEW k \in 0..(Len(params) - 1), Retain(Entered(k)),
             NEW kind \in {"other", "scope"}, NEW n \in Names \cup {None}, Raise(kind, n)
      PROVE  IInv'
   <2>1. k \in Nat /\ k <= Len(params) BY LenProperties
   <2>2. HeapOK(Entered(k)) BY <1>1, <1>3, <2>1, EnteredClass
   <2> HIDE DEF Entered, inner
   <2>3. QED BY <1>2, <1>4, <1>6, <2>2, RaiseInCall
<1>7. ASSUME NEW k \in 0..(Len(params) - 1), Retain(Entered(k)),
             Refuse(UnknownTypes(Globals, Parameters(params, Args, k)) \ {This})
      PROVE  IInv'
   <2>1. UnknownTypes(Globals, Parameters(params, Args, k)) \ {This}
            \in SUBSET UnknownTypes(Globals, Parameters(params, Args, k))
      OBVIOUS
   <2>2. QED BY <1>6, <1>7, <2>1, RefuseRaises
<1>8. QED BY <1>5, <1>7, Zenon DEF CallClass

LEMMA DispatchStep == ASSUME IInv, At("Args"), Dispatch PROVE IInv'
<1>1. /\ frames # <<>> /\ status = "running" /\ Top.op = "Args"
      /\ Len(values) = Top.base /\ cur \in Ref
   BY CalleeFacts
<1>2. HeapOK(heap) BY DEF IInv, DataOK
<1>3. ASSUME UNCHANGED <<values, last, cur>>,
             NEW kind \in {"constructor", "other"}, NEW n \in Names \cup {None},
             Raise(kind, n), Retain(heap)
      PROVE  IInv'
   BY <1>1, <1>2, <1>3, RaiseInCall
<1>4. ASSUME UNCHANGED <<values, last>>, Crash, Retain(heap) PROVE IInv'
   <2>1. cur' \in Ref /\ ControlOK' /\ StackOK(frames', Len(values'), cur', status')
      BY <1>1, <1>4, CrashStep
   <2>2. DataOK' BY <1>4, <2>1, HeapStep DEF IInv, DataOK
   <2>3. QED BY <2>1, <2>2 DEF IInv
<1>5. CASE /\ \/ values' = Append(values, Plain) /\ Finish /\ UNCHANGED control
              \/ UNCHANGED values /\ Raise("other", None)
           /\ UNCHANGED <<last, cur>>
           /\ Retain(heap)
   <2>1. CASE UNCHANGED values /\ Raise("other", None) BY <1>3, <1>5, <2>1
   <2>2. CASE values' = Append(values, Plain) /\ Finish /\ UNCHANGED control
      <3>1. Plain \in Value BY DEF Value
      <3>2. values' \in Seq(Value) /\ Len(values') = Top.base + 1
         BY <1>1, <2>2, <3>1, PushFacts DEF IInv, DataOK
      <3>3. ControlOK' /\ StackOK(frames', Len(values'), cur', status')
         BY <1>1, <1>5, <2>2, <3>2, FinishInScope DEF ScopeOps, Catchers, StatementOps
      <3>4. DataOK' BY <1>5, <3>2, HeapStep DEF IInv, DataOK
      <3>5. QED BY <3>3, <3>4 DEF IInv
   <2>3. QED BY <1>5, <2>1, <2>2
<1>6. CASE /\ Is(Callee, "function")
           /\ UNCHANGED <<values, last>>
           /\ LET params == heap[Callee].params
              IN  \/ params # None /\ Len(params) = Len(Args) /\ CallFunction(params)
                  \/ /\ params # None => Len(params) # Len(Args)
                     /\ Raise("other", None)
                     /\ UNCHANGED cur
                     /\ Retain(heap)
                  \/ params = None /\ Crash /\ Retain(heap)
   <2>1. Callee \in Addr /\ Callee \in Ref BY <1>6 DEF Is, Ref
   <2>2. heap[Callee].params \in Seq(Names) \cup {None} BY <1>2, <2>1, CellFacts DEF Cell
   <2>3. CASE /\ heap[Callee].params # None /\ Len(heap[Callee].params) = Len(Args)
              /\ CallFunction(heap[Callee].params)
      BY <1>6, <2>1, <2>2, <2>3, CallFunctionStep
   <2>4. CASE Raise("other", None) /\ UNCHANGED cur /\ Retain(heap) BY <1>3, <1>6, <2>4
   <2>5. CASE Crash /\ Retain(heap) BY <1>4, <1>6, <2>5
   <2>6. QED BY <1>6, <2>3, <2>4, <2>5
<1>7. CASE /\ Is(Callee, "class")
           /\ UNCHANGED <<values, last>>
           /\ LET class == heap[Callee]
                  params == class.methods[class.name]
              IN  \/ params # None /\ Len(params) = Len(Args) /\ CallClass(params)
                  \/ /\ params # None /\ Len(params) # Len(Args)
                     /\ Raise("other", None)
                     /\ UNCHANGED cur
                     /\ Retain(heap)
                  \/ /\ params = None
                     /\ Raise("constructor", class.name)
                     /\ UNCHANGED cur
                     /\ Retain(heap)
   <2> DEFINE params == heap[Callee].methods[heap[Callee].name]
   <2>1. Callee \in Ref /\ heap[Callee].tag = "class" BY <1>7 DEF Is, Ref
   <2>2. heap[Callee] \in Cell /\ heap[Callee].name \in Names BY <1>2, <2>1, CellFacts
   <2>3. params \in Signatures \cup {None} BY <2>2 DEF Cell
   <2>4. params \in Seq(Names) \cup {None} BY <2>3, ScriptsWellFormed
   <2>5. CASE params # None /\ Len(params) = Len(Args) /\ CallClass(params)
      BY <1>7, <2>4, <2>5, CallClassStep
   <2>6. CASE Raise("other", None) /\ UNCHANGED cur /\ Retain(heap) BY <1>3, <1>7, <2>6
   <2>7. CASE Raise("constructor", heap[Callee].name) /\ UNCHANGED cur /\ Retain(heap)
      BY <1>3, <1>7, <2>2, <2>7
   <2>8. QED BY <1>7, <2>5, <2>6, <2>7
<1>8. CASE UNCHANGED <<values, last>> /\ Crash /\ Retain(heap) BY <1>4, <1>8
<1>9. QED BY <1>5, <1>6, <1>7, <1>8 DEF Dispatch

\* The end of a call or of an anonymous method, reached or returned to.
LEMMA ReturnStep ==
    ASSUME IInv, frames # <<>>, status \in {"running", "returning"}, Top.op \in Catchers,
           NEW v \in Value, Return(v)
    PROVE  IInv'
<1>1. FrameOK(Top) /\ Innermost(Top, Len(values), cur, status) BY TopFacts
<1>2. Top.prev \in Ref /\ Top.prev = Top.at /\ Top.base \in Nat
   BY <1>1 DEF FrameOK, ScopeOps, Frame
<1>3. Len(values) = Top.base
   BY <1>1, <1>2 DEF Innermost, Pending, Catchers, Awaiting
<1>4. values' \in Seq(Value) /\ Len(values') = Top.base + 1
   BY <1>3, PushFacts DEF IInv, DataOK, Return
<1>5. HeapOK(heap') BY HeapStep DEF Return
<1>6. DataOK' BY <1>2, <1>4, <1>5 DEF IInv, DataOK, Return
<1>7. ControlOK' BY DEF IInv, ControlOK, Return
<1>8. Top.op \notin StatementOps \cup {"Program"} BY DEF Catchers, StatementOps
<1>9. StackOK(frames', Len(values'), cur', status')
   BY <1>2, <1>4, <1>8, FinishStep DEF Return
<1>10. QED BY <1>6, <1>7, <1>9 DEF IInv

LEMMA CallStep == ASSUME IInv, Call PROVE IInv'
<1>1. CASE BeginExpr("Call", "Callee")
   BY <1>1, BeginExprStep DEF Awaiting, StatementOps
<1>2. ASSUME NEW op \in {"Callee", "Arg"}, At(op), PopValue,
             NEW locals \in Seq(Value \cup {None}), locals # <<>>, locals[1] \in Value,
             Become([Top EXCEPT !.op = "Args", !.locals = locals]),
             UNCHANGED <<cur, control>>, Retain(heap)
      PROVE  IInv'
   <2> DEFINE f == [Top EXCEPT !.op = "Args", !.locals = locals]
   <2>1. /\ frames # <<>> /\ status = "running" /\ Top.op = op
         /\ Operand \in Value /\ Rest \in Seq(Value) /\ Len(Rest) = Top.base
         /\ Top.base \in Nat /\ FrameOK(Top) /\ cur = Top.scope
      BY <1>2, AtFacts DEF Pending, Awaiting
   <2>2. Top \in Frame /\ Top.scope = Top.at
      BY <2>1 DEF FrameOK, ScopeOps, Catchers
   <2>3. /\ f \in Frame /\ f.op = "Args" /\ f.locals = locals
         /\ f.at = Top.at /\ f.base = Top.base /\ f.scope = Top.scope
      BY <1>2, <2>2 DEF Frame, Ops, Childless
   <2> HIDE DEF f
   <2>4. FrameOK(f) BY <1>2, <2>2, <2>3 DEF FrameOK, ScopeOps, Catchers
   <2>5. values' = Rest BY <1>2 DEF PopValue
   <2>6. Innermost(f, Len(values'), cur', "running")
      BY <1>2, <2>1, <2>3, <2>5 DEF Innermost, Pending, Awaiting
   <2>7. f.op \notin StatementOps /\ Top.op \notin StatementOps
         /\ f.op # "Program" /\ Top.op # "Program"
      BY <2>1, <2>3 DEF StatementOps
   <2>8. Become(f) BY <1>2 DEF f
   <2>9. ControlOK' /\ StackOK(frames', Len(values'), cur', status')
      BY <1>2, <2>1, <2>3, <2>4, <2>6, <2>7, <2>8, BecomeStep
   <2>10. DataOK' BY <1>2, <2>1, HeapStep DEF IInv, DataOK, PopValue
   <2>11. QED BY <2>9, <2>10 DEF IInv
<1>3. CASE /\ At("Callee")
           /\ PopValue
           /\ Become([Top EXCEPT !.op = "Args", !.locals = <<Operand>>])
           /\ UNCHANGED <<cur, control>>
           /\ Retain(heap)
   <2>1. Operand \in Value BY <1>3, AtFacts DEF Awaiting
   <2>2. <<Operand>> \in Seq(Value \cup {None}) /\ <<Operand>> # <<>> /\ <<Operand>>[1] \in Value
      BY <2>1
   <2>3. QED BY <1>2, <1>3, <2>2
<1>4. CASE /\ At("Args")
           /\ UNCHANGED <<values, last, cur, control>>
           /\ Evaluate("Arg")
           /\ Retain(heap)
   <2> DEFINE f == [Top EXCEPT !.op = "Arg"]
   <2>1. /\ frames # <<>> /\ status = "running" /\ Top.op = "Args" /\ Len(values) = Top.base
         /\ FrameOK(Top) /\ Top \in Frame /\ cur = Top.scope /\ cur = Top.at
      BY <1>4, CalleeFacts
   <2>2. /\ f \in Frame /\ f.op = "Arg" /\ f.locals = Top.locals
         /\ f.at = Top.at /\ f.base = Top.base /\ f.scope = Top.scope
      BY <2>1 DEF Frame, Ops, Awaiting
   <2>3. Visit(f, "Expr") BY <1>4 DEF Evaluate
   <2> HIDE DEF f
   <2>4. Top.locals # <<>> /\ Top.locals[1] \in Value BY <2>1 DEF FrameOK
   <2>5. FrameOK(f) BY <2>1, <2>2, <2>4 DEF FrameOK, ScopeOps, Catchers
   <2>6. f.op \in Awaiting /\ f.op \notin StatementOps /\ Top.op \notin StatementOps
         /\ f.op # "Program" /\ Top.op # "Program" /\ Pending(f.op) = 0
      BY <2>1, <2>2 DEF Awaiting, StatementOps, Pending
   <2>7. Len(values') = f.base + Pending(f.op) /\ Len(values') \in Nat
      BY <1>4, <2>1, <2>2, <2>6, TopFacts DEF Frame
   <2>8. ControlOK' /\ StackOK(frames', Len(values'), cur', status')
      BY <1>4, <2>1, <2>2, <2>3, <2>5, <2>6, <2>7, VisitStep
   <2>9. DataOK' BY <1>4, HeapStep DEF IInv, DataOK
   <2>10. QED BY <2>8, <2>9 DEF IInv
<1>5. CASE /\ At("Arg")
           /\ PopValue
           /\ Become([Top EXCEPT !.op = "Args", !.locals = Append(@, Operand)])
           /\ UNCHANGED <<cur, control>>
           /\ Retain(heap)
   <2> DEFINE locals == Append(Top.locals, Operand)
   <2>1. Operand \in Value /\ FrameOK(Top) /\ Top.op = "Arg" BY <1>5, AtFacts DEF Awaiting
   <2>2. Top.locals \in Seq(Value \cup {None}) /\ Top.locals # <<>> /\ Top.locals[1] \in Value
      BY <2>1 DEF FrameOK, Frame
   <2>3. 1 \in 1..Len(Top.locals) BY <2>2, EmptySeq
   <2>4. locals \in Seq(Value \cup {None}) /\ locals # <<>> /\ locals[1] = Top.locals[1]
      BY <2>1, <2>2, <2>3, AppendProperties
   <2>5. Become([Top EXCEPT !.op = "Args", !.locals = locals])
      BY <1>5, <2>1 DEF FrameOK, Frame
   <2> HIDE DEF locals
   <2>6. QED BY <1>2, <1>5, <2>2, <2>4, <2>5
<1>6. CASE At("Args") /\ Dispatch BY <1>6, DispatchStep
<1>7. CASE At("Body") /\ Return(Plain)
   BY <1>7, ReturnStep DEF At, Catchers, Value
<1>8. QED BY <1>1, <1>3, <1>4, <1>5, <1>6, <1>7 DEF Call

LEMMA EndConstructorStep == ASSUME IInv, EndConstructor PROVE IInv'
<1>1. /\ frames # <<>> /\ status = "running" /\ Top.op = "Ctor" /\ Len(values) = Top.base
      /\ FrameOK(Top)
   BY AtFacts DEF EndConstructor, Pending, Awaiting
<1>2. Top.prev \in Ref /\ Top.locals[1] \in Value /\ Top.op \in StatementOps
   BY <1>1 DEF FrameOK, ScopeOps, StatementOps
<1>3. ControlOK' /\ StackOK(frames', Len(values'), cur', status')
   BY <1>1, <1>2, ThrowStep DEF EndConstructor
<1>4. DataOK' BY <1>2, HeapStep DEF IInv, DataOK, EndConstructor
<1>5. QED BY <1>3, <1>4 DEF IInv

LEMMA AnonymousMethodStep == ASSUME IInv, AnonymousMethod PROVE IInv'
<1>1. CASE BeginExpr("AnonymousMethod", "AnonInst")
   BY <1>1, BeginExprStep DEF Awaiting, StatementOps
<1>2. ASSUME At("AnonInst"), Is(Operand, "instance"), Cardinality(Free) >= 2, PopValue,
             NEW method, method = Fresh({}), NEW table, table = Fresh({method}),
             cur' = table,
             Become([Top EXCEPT !.op = "AnonBody", !.prev = cur, !.scope = table,
                                !.locals = <<Operand, method>>]),
             UNCHANGED control,
             Retain([heap EXCEPT ![method] = Bound(Operand, <<>>),
                                 ![table] = Table(method, NoSymbols)])
      PROVE  IInv'
   <2> DEFINE f == [Top EXCEPT !.op = "AnonBody", !.prev = cur, !.scope = table,
                               !.locals = <<Operand, method>>]
   <2>1. /\ frames # <<>> /\ status = "running" /\ Top.op = "AnonInst"
         /\ Operand \in Value /\ Rest \in Seq(Value) /\ Len(Rest) = Top.base
         /\ Top.base \in Nat /\ FrameOK(Top) /\ cur = Top.scope
      BY <1>2, AtFacts DEF Pending, Awaiting
   <2>2. IsFiniteSet(Free) BY AddressesDistinct, FS_Subset DEF Free
   <2>3. method \in Addr BY <1>2, <2>2, TwoAreFree, FreshFacts
   <2>4. table \in Addr BY <1>2, <2>2, TwoAreFree, FreshFacts
   <2>5. method \in Ref /\ method \in Value /\ table \in Ref /\ Operand \in Addr
      BY <1>2, <2>3, <2>4 DEF Ref, Value, Is
   <2>6. HeapOK([heap EXCEPT ![method] = Bound(Operand, <<>>),
                             ![table] = Table(method, NoSymbols)])
      <3> DEFINE h1 == [heap EXCEPT ![method] = Bound(Operand, <<>>)]
      <3>1. <<>> \in Seq(Names) BY EmptySeq
      <3>2. Bound(Operand, <<>>) \in Cell /\ Bound(Operand, <<>>).tag = "function"
         <4>1. Operand \in Addr /\ <<>> \in Seq(Names) \cup {None} BY <2>5, <3>1
         <4>2. QED BY <4>1, NewBound
      <3>3. Table(method, NoSymbols) \in Cell /\ Table(method, NoSymbols).tag = "table"
         BY <2>5, NewCells
      <3>4. HeapOK(h1) BY <2>5, <3>2, HeapUpdate DEF IInv, DataOK
      <3> HIDE DEF h1
      <3>5. HeapOK([h1 EXCEPT ![table] = Table(method, NoSymbols)])
         BY <2>5, <3>3, <3>4, HeapUpdate
      <3>6. QED BY <3>5, Zenon DEF h1
   <2>7. HeapOK(heap') BY <1>2, <2>6, RetainKeepsHeapOK
   <2>8. DataOK' BY <1>2, <2>1, <2>5, <2>7 DEF IInv, DataOK, PopValue
   <2>9. cur \in Ref /\ Top \in Frame /\ Top.scope = Top.at
      BY <2>1 DEF IInv, DataOK, FrameOK, ScopeOps, Catchers
   <2>10. <<Operand, method>> \in Seq(Value \cup {None}) /\ <<Operand, method>> # <<>>
          /\ <<Operand, method>>[1] = Operand
      BY <2>1, <2>5
   <2>11. /\ f \in Frame /\ f.op = "AnonBody" /\ f.prev = cur /\ f.locals = <<Operand, method>>
          /\ f.at = Top.at /\ f.base = Top.base /\ f.scope = table
      BY <2>5, <2>9, <2>10 DEF Frame, Ops, Holders
   <2>12. Become(f) BY <1>2
   <2> HIDE DEF f
   <2>13. FrameOK(f)
      BY <2>1, <2>9, <2>10, <2>11 DEF FrameOK, ScopeOps, Catchers
   <2>14. Innermost(f, Len(values'), cur', "running")
      BY <1>2, <2>1, <2>11 DEF Innermost, Pending, Awaiting, PopValue
   <2>15. f.op \notin StatementOps /\ Top.op \notin StatementOps
          /\ f.op # "Program" /\ Top.op # "Program"
      BY <2>1, <2>11 DEF StatementOps
   <2>16. ControlOK' /\ StackOK(frames', Len(values'), cur', status')
      BY <1>2, <2>1, <2>11, <2>12, <2>13, <2>14, <2>15, BecomeStep
   <2>17. QED BY <2>8, <2>16 DEF IInv
<1>3. CASE At("AnonInst") /\ PopValue /\ Crash /\ Retain(heap)
   BY <1>3, PopAndCrash DEF Awaiting
<1>4. CASE At("AnonBody") /\ Return(Top.locals[1])
   <2>1. /\ frames # <<>> /\ status = "running" /\ Top.op = "AnonBody" /\ FrameOK(Top)
      BY <1>4, AtFacts
   <2>2. Top.locals[1] \in Value BY <2>1 DEF FrameOK, Catchers
   <2>3. QED BY <1>4, <2>1, <2>2, ReturnStep DEF Catchers
<1>5. QED BY <1>1, <1>2, <1>3, <1>4 DEF AnonymousMethod

-----------------------------------------------------------------------------
(***************************************************************************)
(* A value in flight, and failures.                                        *)
(***************************************************************************)
LEMMA CatchStep == ASSUME IInv, Catch PROVE IInv'
<1>1. frames # <<>> /\ thrown \in Value
   BY EmptySeq DEF IInv, StackOK, ControlOK, Catch
<1>2. QED BY <1>1, ReturnStep DEF Catch

LEMMA UnwindStep == ASSUME IInv, Unwind PROVE IInv'
<1>1. frames # <<>> /\ status = "returning"
   BY EmptySeq DEF IInv, StackOK, Unwind
<1>2. FrameOK(Top) /\ Chain(frames) /\ Top.op \in Holders
      /\ Len(values) = Top.base + Pending(Top.op)
   BY <1>1, TopFacts DEF Innermost
<1>3. Top.op \in StatementOps /\ Len(values) = Top.base
   <2>1. Top.op \in {"Block", "Ctor", "LoopBody"} BY <1>2 DEF Unwind, Holders, Catchers
   <2>2. Top.base \in Nat BY <1>2 DEF FrameOK, Frame
   <2>3. QED BY <1>2, <2>1, <2>2 DEF StatementOps, Pending
<1>4. StackOK(frames', Len(values'), cur', status')
   BY <1>1, <1>2, <1>3, AfterThrow DEF Unwind, control, Finish, Callers, Top
<1>5. DataOK' BY HeapStep DEF IInv, DataOK, Unwind
<1>6. ControlOK' BY DEF IInv, ControlOK, Unwind, control
<1>7. QED BY <1>4, <1>5, <1>6 DEF IInv

\* Interpret ends, or an exception or a value leaves it.
LEMMA EndOfProgram ==
    ASSUME IInv, frames # <<>>, Top.op = "Program", Finish, status' = "idle"
    PROVE  StackOK(frames', Len(values'), cur', status')
<1>1. Chain(frames) /\ Len(frames) \in Nat /\ Len(frames) = 1 BY TopFacts
<1>2. Chain(frames') /\ Len(frames') = Len(frames) - 1
   BY <1>1, FinishKeepsChain DEF Finish, Callers
<1>3. ~(Len(frames') > 0) BY <1>1, <1>2
<1>4. status' # "returning" OBVIOUS
<1>5. QED BY <1>2, <1>3, <1>4, Zenon DEF StackOK

LEMMA EscapeStep == ASSUME IInv, Escape PROVE IInv'
<1>1. frames # <<>> BY EmptySeq DEF IInv, StackOK, Escape
<1>2. StackOK(frames', Len(values'), cur', status') BY <1>1, EndOfProgram DEF Escape
<1>3. DataOK' BY HeapStep DEF IInv, DataOK, Escape
<1>4. ControlOK' BY DEF IInv, ControlOK, Escape
<1>5. QED BY <1>2, <1>3, <1>4 DEF IInv

LEMMA EndProgramStep == ASSUME IInv, EndProgram PROVE IInv'
<1>1. frames # <<>> /\ Top.op = "Program" /\ status = "running" BY DEF EndProgram, At
<1>2. StackOK(frames', Len(values'), cur', status') BY <1>1, EndOfProgram DEF EndProgram
<1>3. DataOK' BY HeapStep DEF IInv, DataOK, EndProgram
<1>4. ControlOK' BY <1>1 DEF IInv, ControlOK, EndProgram
<1>5. QED BY <1>2, <1>3, <1>4 DEF IInv

LEMMA BadAllocStep == ASSUME IInv, BadAlloc PROVE IInv'
<1>1. CASE At("Args") /\ UNCHANGED <<values, last>>
   <2>1. cur' \in Ref /\ HeapOK(heap) BY DEF IInv, DataOK, BadAlloc
   <2>2. QED BY <1>1, <2>1, RaiseInCall DEF BadAlloc
<1>2. ASSUME NEW op \in {"Get", "AnonInst"}, At(op), PopValue PROVE IInv'
   BY <1>2, PopAndRaise DEF BadAlloc, Awaiting
<1>3. QED BY <1>1, <1>2 DEF BadAlloc

LEMMA InterpretStep == ASSUME IInv, Interpret PROVE IInv'
<1> DEFINE g == Activation("Program")
<1>1. cur \in Ref /\ Len(values') \in Nat /\ cur' = cur /\ status' = "running"
      /\ frames' = <<g>>
   BY LenProperties DEF IInv, DataOK, Interpret
<1>2. /\ g.op = "Program" /\ g.prev = None /\ g.locals = <<>> /\ g.at = cur
      /\ g.base = Len(values') /\ g.scope = cur /\ g \in Frame
   BY <1>1, EmptySeq DEF Activation, Frame, Ops, Holders
<1> HIDE DEF g
<1>3. FrameOK(g) BY <1>2 DEF FrameOK, ScopeOps, Catchers
<1>4. Innermost(g, Len(values'), cur', "running")
   BY <1>1, <1>2 DEF Innermost, Pending, Awaiting
<1>5. <<g>> \in Seq(Frame) /\ Len(<<g>>) = 1 /\ <<g>>[1] = g BY <1>2
<1>6. Chain(<<g>>) BY <1>2, <1>3, <1>5 DEF Chain
<1>7. StackOK(<<g>>, Len(values'), cur', "running") BY <1>4, <1>5, <1>6 DEF StackOK
<1>8. DataOK' BY HeapStep DEF IInv, DataOK, Interpret
<1>9. ControlOK' BY DEF IInv, ControlOK, Interpret, NoFailure
<1>10. QED BY <1>1, <1>7, <1>8, <1>9 DEF IInv

-----------------------------------------------------------------------------
(***************************************************************************)
(* Statements.                                                             *)
(***************************************************************************)
\* What is known when a statement is to be executed.
LEMMA StatementFacts ==
    ASSUME IInv, AtStatement
    PROVE  /\ frames # <<>> /\ status = "running" /\ Top.op \in {"Statement", "Declaration"}
           /\ FrameOK(Top) /\ Top \in Frame /\ Len(values) = Top.base /\ Top.base \in Nat
           /\ cur = Top.scope /\ cur = Top.at /\ cur \in Ref
           /\ Top.op \in StatementOps /\ Top.op \notin ScopeOps
<1>1. PICK op \in {"Statement", "Declaration"} : At(op) BY DEF AtStatement
<1>2. /\ frames # <<>> /\ status = "running" /\ Top.op \in {"Statement", "Declaration"}
      /\ FrameOK(Top) /\ Len(values) = Top.base /\ Top.base \in Nat /\ cur = Top.scope
   BY <1>1, AtFacts DEF Pending, Awaiting
<1>3. Top.op \in StatementOps /\ Top.op \notin ScopeOps
   BY <1>2 DEF StatementOps, ScopeOps, Catchers
<1>4. cur \in Ref BY DEF IInv, DataOK
<1>5. QED BY <1>2, <1>3, <1>4 DEF FrameOK

\* The same when a statement has the value of its expression.
LEMMA StatementOperand ==
    ASSUME IInv, NEW op \in Awaiting \cap StatementOps, At(op), PopValue
    PROVE  /\ frames # <<>> /\ status = "running" /\ Top.op = op
           /\ FrameOK(Top) /\ Top \in Frame /\ Top.base \in Nat
           /\ Operand \in Value /\ values' \in Seq(Value) /\ Len(values') = Top.base
           /\ last' = Operand
           /\ cur = Top.scope /\ cur = Top.at /\ cur \in Ref
           /\ Top.op \in StatementOps /\ Top.op \notin ScopeOps
<1>1. /\ frames # <<>> /\ status = "running" /\ Top.op = op
      /\ Operand \in Value /\ Rest \in Seq(Value) /\ Len(Rest) = Top.base
      /\ Top.base \in Nat /\ FrameOK(Top) /\ cur = Top.scope
   BY AtFacts DEF Pending, StatementOps
<1>2. Top.op \in StatementOps /\ Top.op \notin ScopeOps
   BY <1>1 DEF StatementOps, ScopeOps, Catchers, Awaiting
<1>3. cur \in Ref BY DEF IInv, DataOK
<1>4. QED BY <1>1, <1>2, <1>3 DEF FrameOK, PopValue

\* A statement ends with nothing left on m_values.
LEMMA EndStatement ==
    ASSUME IInv, frames # <<>>, status = "running",
           Top.op \in StatementOps, Top.op \notin ScopeOps,
           values' \in Seq(Value), Len(values') = Top.base, last' \in Value \cup {None},
           Finish, UNCHANGED <<cur, control>>,
           NEW h, HeapOK(h), Retain(h)
    PROVE  IInv'
<1>1. ControlOK' /\ StackOK(frames', Len(values'), cur', status')
   BY TopFacts, FinishInScope DEF FrameOK, Frame
<1>2. HeapOK(heap') BY RetainKeepsHeapOK
<1>3. DataOK' BY <1>2 DEF IInv, DataOK
<1>4. QED BY <1>1, <1>3 DEF IInv

LEMMA BeginStatementStep ==
    ASSUME IInv, NEW kind, NEW op \in Awaiting \cap StatementOps, BeginStatement(kind, op)
    PROVE  IInv'
<1>1. /\ frames # <<>> /\ status = "running" /\ Top.op \in StatementOps
      /\ Top.op \notin ScopeOps /\ Len(values) = Top.base /\ Top.base \in Nat
   BY StatementFacts DEF BeginStatement
<1>2. op \in Awaiting \ {"Arg", "SetRhs"} /\ op # "BinLhs" /\ Top.op # "Program"
   BY <1>1 DEF StatementOps
<1>3. ControlOK' /\ StackOK(frames', Len(values'), cur', status')
   BY <1>1, <1>2, EvaluateStep DEF BeginStatement, Pending
<1>4. DataOK' BY HeapStep DEF IInv, DataOK, BeginStatement
<1>5. QED BY <1>3, <1>4 DEF IInv

LEMMA ExpressionStatementStep == ASSUME IInv, ExpressionStatement PROVE IInv'
<1>1. CASE BeginStatement("ExpressionStatement", "ExprStmt")
   BY <1>1, BeginStatementStep DEF Awaiting, StatementOps
<1>2. CASE At("ExprStmt") /\ PopValue /\ Finish /\ UNCHANGED <<cur, control>> /\ Retain(heap)
   <2>1. "ExprStmt" \in Awaiting \cap StatementOps BY DEF Awaiting, StatementOps
   <2>2. HeapOK(heap) BY DEF IInv, DataOK
   <2>3. QED BY <1>2, <2>1, <2>2, StatementOperand, EndStatement
<1>3. QED BY <1>1, <1>2 DEF ExpressionStatement

LEMMA IfStatementStep == ASSUME IInv, IfStatement PROVE IInv'
<1>1. CASE BeginStatement("If", "If")
   BY <1>1, BeginStatementStep DEF Awaiting, StatementOps
<1>2. "If" \in Awaiting \cap StatementOps BY DEF Awaiting, StatementOps
<1>3. CASE At("If") /\ PopValue /\ Raise("other", None) /\ UNCHANGED cur /\ Retain(heap)
   BY <1>2, <1>3, PopAndRaise
<1>4. CASE At("If") /\ PopValue /\ Finish /\ UNCHANGED control /\ UNCHANGED cur /\ Retain(heap)
   <2>1. HeapOK(heap) BY DEF IInv, DataOK
   <2>2. QED BY <1>2, <1>4, <2>1, StatementOperand, EndStatement
<1>5. CASE At("If") /\ PopValue /\ Become([Top EXCEPT !.op = "Statement"])
           /\ UNCHANGED control /\ UNCHANGED cur /\ Retain(heap)
   <2> DEFINE f == [Top EXCEPT !.op = "Statement"]
   <2>1. /\ frames # <<>> /\ status = "running" /\ Top.op = "If"
         /\ FrameOK(Top) /\ Top \in Frame /\ Top.base \in Nat
         /\ Operand \in Value /\ values' \in Seq(Value) /\ Len(values') = Top.base
         /\ last' = Operand /\ cur = Top.scope /\ cur = Top.at
      BY <1>2, <1>5, StatementOperand
   <2>2. /\ f \in Frame /\ f.op = "Statement"
         /\ f.at = Top.at /\ f.base = Top.base /\ f.scope = Top.scope
      BY <2>1 DEF Frame, Ops, Childless
   <2>3. Become(f) BY <1>5
   <2> HIDE DEF f
   <2>4. FrameOK(f) BY <2>1, <2>2 DEF FrameOK, ScopeOps, Catchers
   <2>5. Innermost(f, Len(values'), cur', "running")
      <3>1. cur' = f.scope /\ Len(values') = f.base /\ f.base \in Nat BY <1>5, <2>1, <2>2
      <3>2. f.op \notin Awaiting /\ Pending(f.op) = 0 BY <2>2 DEF Awaiting, Pending
      <3>3. QED BY <3>1, <3>2 DEF Innermost
   <2>6. ControlOK' /\ StackOK(frames', Len(values'), cur', status')
      BY <1>5, <2>1, <2>2, <2>3, <2>4, <2>5, BecomeStep DEF StatementOps
   <2>7. DataOK' BY <1>5, <2>1, HeapStep DEF IInv, DataOK
   <2>8. QED BY <2>6, <2>7 DEF IInv
<1>6. QED BY <1>1, <1>3, <1>4, <1>5 DEF IfStatement

\* A statement, or the program, goes on with a child that leaves no value.
LEMMA VisitStatement ==
    ASSUME IInv, frames # <<>>, status = "running",
           NEW op \in Holders, NEW child \in {"Statement", "Declaration"},
           op = Top.op \/ (op = "LoopBody" /\ Top.op \in StatementOps \ ScopeOps),
           Visit([Top EXCEPT !.op = op], child), UNCHANGED <<cur, control>>,
           values' \in Seq(Value), Len(values') = Top.base,
           last' \in Value \cup {None}, Retain(heap)
    PROVE  IInv'
<1> DEFINE f == [Top EXCEPT !.op = op]
<1>1. FrameOK(Top) /\ Top \in Frame /\ cur = Top.scope /\ Top.base \in Nat
   BY TopFacts DEF Innermost, FrameOK, Frame
<1>2. /\ f \in Frame /\ f.op = op /\ f.prev = Top.prev /\ f.locals = Top.locals
      /\ f.at = Top.at /\ f.base = Top.base /\ f.scope = Top.scope
   BY <1>1 DEF Frame, Ops
<1> HIDE DEF f
<1>3. FrameOK(f)
   BY <1>1, <1>2 DEF FrameOK, ScopeOps, Catchers, StatementOps
<1>4. f.op \in StatementOps <=> Top.op \in StatementOps BY <1>2 DEF StatementOps
<1>5. f.op = "Program" <=> Top.op = "Program" BY <1>2 DEF StatementOps
<1>6. Len(values') = f.base + Pending(f.op) /\ Len(values') \in Nat
   BY <1>1, <1>2 DEF Holders, Pending
<1>7. Visit(f, child) BY DEF f
<1>8. ControlOK' /\ StackOK(frames', Len(values'), cur', status')
   BY <1>1, <1>2, <1>3, <1>4, <1>5, <1>6, <1>7, VisitStep
<1>9. DataOK' BY HeapStep DEF IInv, DataOK
<1>10. QED BY <1>8, <1>9 DEF IInv

LEMMA LoopStep == ASSUME IInv, Loop PROVE IInv'
<1>1. CASE Room(2) /\ BeginStatement("Loop", "LoopCond")
   BY <1>1, BeginStatementStep DEF Awaiting, StatementOps
<1>2. "LoopCond" \in Awaiting \cap StatementOps BY DEF Awaiting, StatementOps
<1>3. CASE At("LoopCond") /\ PopValue /\ Raise("other", None) /\ UNCHANGED cur /\ Retain(heap)
   BY <1>2, <1>3, PopAndRaise
<1>4. CASE At("LoopCond") /\ PopValue /\ Finish /\ UNCHANGED control /\ UNCHANGED cur
           /\ Retain(heap)
   <2>1. HeapOK(heap) BY DEF IInv, DataOK
   <2>2. QED BY <1>2, <1>4, <2>1, StatementOperand, EndStatement
<1>5. CASE At("LoopCond") /\ PopValue /\ Visit([Top EXCEPT !.op = "LoopBody"], "Statement")
           /\ UNCHANGED control /\ UNCHANGED cur /\ Retain(heap)
   <2>1. "LoopBody" \in Holders BY DEF Holders
   <2>2. QED BY <1>2, <1>5, <2>1, StatementOperand, VisitStatement
<1>6. CASE At("LoopBody") /\ UNCHANGED <<values, last, cur, control>>
           /\ Evaluate("LoopCond") /\ Retain(heap)
   <2>1. /\ frames # <<>> /\ status = "running" /\ Top.op = "LoopBody"
         /\ Len(values) = Top.base /\ Top.base \in Nat
      BY <1>6, AtFacts DEF Pending, Awaiting
   <2>2. ControlOK' /\ StackOK(frames', Len(values'), cur', status')
      BY <1>6, <2>1, EvaluateStep DEF Pending, Awaiting, StatementOps, ScopeOps, Catchers
   <2>3. DataOK' BY <1>6, HeapStep DEF IInv, DataOK
   <2>4. QED BY <2>2, <2>3 DEF IInv
<1>7. QED BY <1>1, <1>3, <1>4, <1>5, <1>6 DEF Loop

LEMMA VarDeclStep == ASSUME IInv, VarDecl PROVE IInv'
<1>1. CASE BeginStatement("VarDecl", "VarDecl")
   BY <1>1, BeginStatementStep DEF Awaiting, StatementOps
<1>2. "VarDecl" \in Awaiting \cap StatementOps BY DEF Awaiting, StatementOps
<1>3. HeapOK(heap) /\ cur \in Ref BY DEF IInv, DataOK
<1>4. CASE /\ At("Declaration") /\ Finish /\ UNCHANGED <<values, last, cur, control>>
           /\ \E n \in OwnNames : Retain(Declare(heap, cur, n, Plain))
   <2>1. PICK n \in OwnNames : Retain(Declare(heap, cur, n, Plain)) BY <1>4
   <2>2. Plain \in Value BY DEF Value
   <2>3. HeapOK(Declare(heap, cur, n, Plain)) BY <1>3, <2>2, DeclareKeepsHeapOK
   <2>4. AtStatement BY <1>4 DEF AtStatement
   <2>5. values' \in Seq(Value) /\ last' \in Value \cup {None} BY <1>4 DEF IInv, DataOK
   <2>6. Len(values') = Top.base BY <1>4, <2>4, StatementFacts
   <2>7. QED BY <1>4, <2>1, <2>3, <2>4, <2>5, <2>6, StatementFacts, EndStatement
<1>5. CASE /\ At("VarDecl") /\ PopValue /\ Finish /\ UNCHANGED <<cur, control>>
           /\ \E n \in OwnNames : Retain(Declare(heap, cur, n, Operand))
   <2>1. PICK n \in OwnNames : Retain(Declare(heap, cur, n, Operand)) BY <1>5
   <2>2. Operand \in Value BY <1>2, <1>5, StatementOperand
   <2>3. HeapOK(Declare(heap, cur, n, Operand)) BY <1>3, <2>2, DeclareKeepsHeapOK
   <2>4. QED BY <1>2, <1>5, <2>1, <2>3, StatementOperand, EndStatement
<1>6. QED BY <1>1, <1>4, <1>5 DEF VarDecl

LEMMA StatementBlockStep == ASSUME IInv, StatementBlock PROVE IInv'
<1>1. ASSUME AtStatement, Free # {}, NEW table, table = Fresh({}), cur' = table,
             Become([Top EXCEPT !.op = "Block", !.prev = cur, !.scope = table]),
             UNCHANGED <<values, last, control>>,
             Retain([heap EXCEPT ![table] = Table(cur, NoSymbols)])
      PROVE  IInv'
   <2> DEFINE f == [Top EXCEPT !.op = "Block", !.prev = cur, !.scope = table]
   <2>1. /\ frames # <<>> /\ status = "running" /\ Top.op \in {"Statement", "Declaration"}
         /\ FrameOK(Top) /\ Top \in Frame /\ Len(values) = Top.base /\ Top.base \in Nat
         /\ cur = Top.at /\ cur \in Ref
      BY <1>1, StatementFacts
   <2>2. table \in Ref BY <1>1, FreshFacts DEF Ref
   <2>3. /\ f \in Frame /\ f.op = "Block" /\ f.prev = cur /\ f.at = Top.at
         /\ f.base = Top.base /\ f.scope = table
      BY <2>1, <2>2 DEF Frame, Ops, Holders
   <2>4. Become(f) BY <1>1
   <2> HIDE DEF f
   <2>5. FrameOK(f) BY <2>1, <2>3 DEF FrameOK, ScopeOps, Catchers
   <2>6. Innermost(f, Len(values'), cur', "running")
      <3>1. cur' = f.scope /\ Len(values') = f.base /\ f.base \in Nat BY <1>1, <2>1, <2>3
      <3>2. f.op \notin Awaiting /\ Pending(f.op) = 0 BY <2>3 DEF Awaiting, Pending
      <3>3. QED BY <3>1, <3>2 DEF Innermost
   <2>7. ControlOK' /\ StackOK(frames', Len(values'), cur', status')
      BY <1>1, <2>1, <2>3, <2>4, <2>5, <2>6, BecomeStep DEF StatementOps
   <2>8. Table(cur, NoSymbols) \in Cell /\ Table(cur, NoSymbols).tag = "table"
      BY <2>1, NewCells
   <2>9. HeapOK([heap EXCEPT ![table] = Table(cur, NoSymbols)])
      BY <2>2, <2>8, HeapUpdate DEF IInv, DataOK
   <2>10. HeapOK(heap') BY <1>1, <2>9, RetainKeepsHeapOK
   <2>11. DataOK' BY <1>1, <2>2, <2>10 DEF IInv, DataOK
   <2>12. QED BY <2>7, <2>11 DEF IInv
<1>2. CASE At("Block") /\ cur' = Top.prev /\ Finish /\ UNCHANGED <<values, last, control>>
           /\ Retain(heap)
   <2>1. /\ frames # <<>> /\ status = "running" /\ Top.op = "Block" /\ FrameOK(Top)
         /\ Len(values) = Top.base
      BY <1>2, AtFacts DEF Pending, Awaiting
   <2>2. Top.prev \in Ref /\ Top.prev = Top.at BY <2>1 DEF FrameOK, ScopeOps
   <2>3. status' = "running" /\ ControlOK' BY <1>2, <2>1 DEF IInv, ControlOK, control
   <2>4. StackOK(frames', Len(values'), cur', status')
      BY <1>2, <2>1, <2>2, <2>3, FinishStep DEF StatementOps, Frame, FrameOK
   <2>5. DataOK' BY <1>2, <2>2, HeapStep DEF IInv, DataOK
   <2>6. QED BY <2>3, <2>4, <2>5 DEF IInv
<1>3. QED BY <1>1, <1>2 DEF StatementBlock

LEMMA ReturnStatementStep == ASSUME IInv, ReturnStatement PROVE IInv'
<1>1. CASE BeginStatement("Return", "Return")
   BY <1>1, BeginStatementStep DEF Awaiting, StatementOps
<1>2. CASE AtStatement /\ Throw(Plain) /\ UNCHANGED <<values, last, cur>> /\ Retain(heap)
   <2>1. Plain \in Value BY DEF Value
   <2>2. ControlOK' /\ StackOK(frames', Len(values'), cur', status')
      BY <1>2, <2>1, StatementFacts, ThrowStep
   <2>3. DataOK' BY <1>2, HeapStep DEF IInv, DataOK
   <2>4. QED BY <2>2, <2>3 DEF IInv
<1>3. CASE At("Return") /\ PopValue /\ Throw(Operand) /\ UNCHANGED cur /\ Retain(heap)
   <2>1. "Return" \in Awaiting \cap StatementOps BY DEF Awaiting, StatementOps
   <2>2. ControlOK' /\ StackOK(frames', Len(values'), cur', status')
      BY <1>3, <2>1, StatementOperand, ThrowStep
   <2>3. DataOK' BY <1>3, <2>1, StatementOperand, HeapStep DEF IInv, DataOK
   <2>4. QED BY <2>2, <2>3 DEF IInv
<1>4. QED BY <1>1, <1>2, <1>3 DEF ReturnStatement

\* A function or a class is made and declared in the innermost scope.
LEMMA DeclarationStep ==
    ASSUME IInv, At("Declaration"), Finish, UNCHANGED <<values, last, cur, control>>,
           Free # {}, NEW n, NEW c \in Cell, c.tag # "instance",
           c.tag = "class" => c.name \in Names,
           Retain(Declare([heap EXCEPT ![Fresh({})] = c], cur, n, Fresh({})))
    PROVE  IInv'
<1>1. AtStatement BY DEF AtStatement
<1>2. Fresh({}) \in Ref /\ Fresh({}) \in Value BY FreshFacts DEF Ref, Value
<1>3. HeapOK(heap) /\ cur \in Ref /\ values' \in Seq(Value) /\ last' \in Value \cup {None}
   BY DEF IInv, DataOK
<1>4. HeapOK([heap EXCEPT ![Fresh({})] = c]) BY <1>2, <1>3, HeapUpdate
<1>5. HeapOK(Declare([heap EXCEPT ![Fresh({})] = c], cur, n, Fresh({})))
   BY <1>2, <1>3, <1>4, DeclareKeepsHeapOK
<1>6. Len(values') = Top.base BY <1>1, StatementFacts
<1>7. QED BY <1>1, <1>3, <1>5, <1>6, StatementFacts, EndStatement

LEMMA FunctionDeclarationStep == ASSUME IInv, FunctionDeclaration PROVE IInv'
<1>1. PICK n \in OwnNames, params \in Signatures :
         Retain(Declare([heap EXCEPT ![Fresh({})] = Function(cur, params)], cur, n, Fresh({})))
   BY DEF FunctionDeclaration
<1>2. params \in Seq(Names) /\ cur \in Ref BY ScriptsWellFormed DEF IInv, DataOK
<1>3. Function(cur, params) \in Cell /\ Function(cur, params).tag = "function"
   BY <1>2, NewCells
<1>4. QED BY <1>1, <1>3, DeclarationStep DEF FunctionDeclaration

LEMMA ClassDeclarationStep == ASSUME IInv, ClassDeclaration PROVE IInv'
<1>1. PICK n \in OwnNames, methods \in ClassBodies :
         LET closure == IF methods = NoSymbols THEN None ELSE cur
         IN  Retain(Declare([heap EXCEPT ![Fresh({})] = Class(n, closure, methods)],
                            cur, n, Fresh({})))
   BY DEF ClassDeclaration
<1> DEFINE closure == IF methods = NoSymbols THEN None ELSE cur
<1>2. n \in Names /\ methods \in [Names -> Signatures \cup {None}] /\ closure \in Ref \cup {None}
   BY ScriptsWellFormed DEF IInv, DataOK
<1>3. /\ Retain(Declare([heap EXCEPT ![Fresh({})] = Class(n, closure, methods)],
                        cur, n, Fresh({})))
   BY <1>1
<1> HIDE DEF closure
<1>4. /\ Class(n, closure, methods) \in Cell
      /\ Class(n, closure, methods).tag = "class" /\ Class(n, closure, methods).name = n
   BY <1>2, NewCells
<1>5. QED BY <1>2, <1>3, <1>4, DeclarationStep DEF ClassDeclaration

LEMMA NextStatementStep == ASSUME IInv, NextStatement PROVE IInv'
<1>1. /\ frames # <<>> /\ status = "running" /\ Top.op \in StatementLists
      /\ UNCHANGED <<values, last, cur, control>> /\ Visit(Top, "Declaration") /\ Retain(heap)
   BY DEF NextStatement
<1>2. FrameOK(Top) /\ Innermost(Top, Len(values), cur, status) BY <1>1, TopFacts
<1>3. Top.op \in Holders /\ Top \in Frame /\ Top.base \in Nat
   BY <1>1, <1>2 DEF StatementLists, Holders, FrameOK, Frame
<1>4. Len(values) = Top.base
   BY <1>1, <1>2, <1>3 DEF Innermost, Holders, Awaiting, Pending
<1>5. [Top EXCEPT !.op = Top.op] = Top BY <1>3 DEF Frame
<1>6. values' \in Seq(Value) /\ last' \in Value \cup {None} BY <1>1 DEF IInv, DataOK
<1>7. QED BY <1>1, <1>3, <1>4, <1>5, <1>6, VisitStatement

-----------------------------------------------------------------------------
(***************************************************************************)
(* The invariant is inductive, and implies what is claimed of every state. *)
(***************************************************************************)
LEMMA InitImpliesIInv == Init => IInv
<1> SUFFICES ASSUME Init PROVE IInv
   OBVIOUS
<1>1. <<>> \in Seq(Frame) /\ <<>> \in Seq(Value) /\ Len(<<>>) = 0 BY EmptySeq
<1>2. Chain(<<>>) BY <1>1 DEF Chain
<1>3. StackOK(frames, Len(values), cur, status)
   <2>1. ~(Len(frames) > 0) /\ status # "returning" BY <1>1 DEF Init
   <2>2. QED BY <1>2, <2>1, Zenon DEF StackOK, Init
<1>4. ControlOK BY DEF Init, ControlOK, NoFailure
<1>5. HeapOK(heap)
   <2> DEFINE symbols == [n \in Names |-> IF n \in Builtins THEN Builtin ELSE None]
   <2>1. symbols \in [Names -> Value \cup {None}] BY DEF Value
   <2> HIDE DEF symbols
   <2>2. Table(None, symbols) \in Cell /\ Table(None, symbols).tag = "table"
      BY <2>1, NewCells
   <2>3. FreeCell \in Cell /\ FreeCell.tag = "free" BY NewCells DEF FreeCell
   <2>4. heap = [a \in Ref |-> IF a = Globals THEN Table(None, symbols) ELSE FreeCell]
      BY DEF Init, symbols
   <2>5. QED BY <2>2, <2>3, <2>4 DEF HeapOK
<1>6. DataOK BY <1>1, <1>5 DEF Init, DataOK, Ref
<1>7. QED BY <1>3, <1>4, <1>6 DEF IInv

LEMMA NextKeepsIInv == IInv /\ [Next]_vars => IInv'
<1> SUFFICES ASSUME IInv, [Next]_vars PROVE IInv'
   OBVIOUS
<1>1. CASE UNCHANGED vars
   <2>1. DataOK' BY <1>1 DEF IInv, DataOK, vars
   <2>2. ControlOK' BY <1>1 DEF IInv, ControlOK, vars
   <2>3. StackOK(frames', Len(values'), cur', status') BY <1>1 DEF IInv, vars
   <2>4. QED BY <2>1, <2>2, <2>3 DEF IInv
<1>2. CASE Interpret BY <1>2, InterpretStep
<1>3. CASE Step
   BY <1>3, LiteralStep, IdentifierStep, BinaryOpStep, UnaryStep, LogicOpStep,
      AssignmentStep, GetExpressionStep, SetExpressionStep, CallStep,
      AnonymousMethodStep, ExpressionStatementStep, IfStatementStep, LoopStep,
      VarDeclStep, StatementBlockStep, ReturnStatementStep,
      FunctionDeclarationStep, ClassDeclarationStep, NextStatementStep,
      EndConstructorStep, CatchStep, UnwindStep, EscapeStep, BadAllocStep,
      EndProgramStep
   DEF Step
<1>4. CASE Quit BY <1>1, <1>4 DEF Quit
<1>5. QED BY <1>1, <1>2, <1>3, <1>4 DEF Next

LEMMA InvariantHolds == Spec => []IInv
<1>1. QED BY InitImpliesIInv, NextKeepsIInv, PTL DEF Spec

\* The C++ locals, the value stack, the symbol table and the heap keep their
\* types: an instance has a class when a member is looked up in it, the value
\* in flight is a value, and the locals a handler uses without a test are set.
THEOREM TypeCorrect == Spec => []TypeOK
<1>1. IInv => TypeOK
   <2> SUFFICES ASSUME IInv PROVE TypeOK
      OBVIOUS
   <2>1. frames \in Seq(Frame) /\ DOMAIN frames = 1..Len(frames)
      BY LenProperties DEF IInv, StackOK, Chain
   <2>2. \A i \in DOMAIN frames :
            /\ frames[i].op \in Catchers \cup {"Block", "Ctor"} => frames[i].prev \in Ref
            /\ frames[i].op \in Catchers \cup {"Ctor", "Args", "Arg"} =>
                  frames[i].locals # <<>> /\ frames[i].locals[1] \in Value
            /\ frames[i].op = "SetRhs" => frames[i].locals # <<>>
      BY <2>1 DEF IInv, StackOK, Chain, FrameOK, ScopeOps
   <2>3. \A a \in Ref : heap[a].tag = "instance" => heap[a].link \in Ref
      BY CellFacts DEF IInv, DataOK
   <2>4. heap \in [Ref -> Cell] BY DEF IInv, DataOK, HeapOK
   <2>5. DataOK /\ ControlOK BY DEF IInv
   <2>6. QED BY <2>1, <2>2, <2>3, <2>4, <2>5, Zenon DEF DataOK, ControlOK, TypeOK
<1>2. QED BY <1>1, InvariantHolds, PTL

\* Whatever a script does, nests, throws or returns through, an expression
\* leaves one value on m_values and a statement none.
THEOREM OperandsBalanced == Spec => []ValuesBalanced
<1>1. IInv => ValuesBalanced
   <2> SUFFICES ASSUME IInv PROVE ValuesBalanced
      OBVIOUS
   <2>1. /\ Chain(frames)
         /\ status = "returning" => frames # <<>>
         /\ frames # <<>> => Len(frames) > 0
      BY EmptySeq DEF IInv, StackOK, Chain
   <2>2. frames # <<>> => Innermost(Top, Len(values), cur, status) BY TopFacts
   <2>3. Nested
      BY <2>1, <2>2 DEF Nested, Chain, Child, Innermost, StatementOps
   <2>4. Balanced
      <3>1. \A i \in 1..(Len(frames) - 1) :
               frames[i + 1].base = frames[i].base + Pending(frames[i].op)
         BY <2>1 DEF Chain, Child
      <3>2. ASSUME frames # <<>>, status = "running"
            PROVE  Len(values) = Top.base + Pending(Top.op)
                                 + IF Top.op \in Awaiting THEN 1 ELSE 0
         BY <2>2, <3>2 DEF Innermost
      <3>3. ASSUME frames # <<>>, status = "returning"
            PROVE  Len(values) = Top.base + Pending(Top.op)
                                 + IF Top.op \in Awaiting THEN 1 ELSE 0
         <4>1. Top.op \notin Awaiting /\ Len(values) = Top.base + Pending(Top.op)
            BY <2>2, <3>3 DEF Innermost, Holders, Awaiting
         <4>2. Top.base \in Nat /\ Pending(Top.op) \in Nat
            BY <3>3, TopFacts DEF FrameOK, Frame, Pending
         <4>3. QED BY <4>1, <4>2
      <3>4. QED BY <3>1, <3>2, <3>3 DEF Balanced
   <2>5. QED BY <2>3, <2>4 DEF ValuesBalanced
<1>2. QED BY <1>1, InvariantHolds, PTL

\* Whatever a block, a call, a constructor or an anonymous method runs, and
\* however it ends, the activation around it goes on in the table it was in.
THEOREM ScopesAreRestored == Spec => []ScopesRestored
<1>1. IInv => ScopesRestored
   <2> SUFFICES ASSUME IInv PROVE ScopesRestored
      OBVIOUS
   <2>1. /\ Chain(frames)
         /\ DOMAIN frames = 1..Len(frames)
      BY LenProperties DEF IInv, StackOK, Chain
   <2>2. frames # <<>> => Innermost(Top, Len(values), cur, status) BY TopFacts
   <2>3. \A i \in 1..(Len(frames) - 1) : frames[i + 1].at = frames[i].scope
      BY <2>1 DEF Chain, Child
   <2>4. frames # <<>> /\ status = "running" => cur = Top.scope BY <2>2 DEF Innermost
   <2>5. \A i \in DOMAIN frames :
            IF frames[i].op \in Catchers \cup {"Block", "Ctor"}
            THEN frames[i].prev = frames[i].at
            ELSE frames[i].scope = frames[i].at
      BY <2>1 DEF Chain, FrameOK, ScopeOps
   <2>6. QED BY <2>3, <2>4, <2>5 DEF ScopesRestored
<1>2. QED BY <1>1, InvariantHolds, PTL
=============================================================================
