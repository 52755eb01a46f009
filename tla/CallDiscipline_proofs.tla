----------------------- MODULE CallDiscipline_proofs -----------------------
(***************************************************************************)
(* Proof that the interpreter implements CallDiscipline.                   *)
(*                                                                         *)
(* A call in progress is a frame that catches; what it set aside is in the *)
(* frame (prevSymbolTable) and at the bottom of m_values (the operands     *)
(* below the frame's base).  No step of another activation disturbs either *)
(* because the bases only grow along the stack of activations (CInv) and   *)
(* no handler goes below the base of the innermost one (Keeps).            *)
(***************************************************************************)
EXTENDS InterpreterVisitor_proofs

Ordered(fr) == \A i, j \in 1..Len(fr) : i <= j => fr[i].base <= fr[j].base

CInv == Ordered(frames) /\ (status = "idle" => frames = <<>>)

\* The lowest b of the operands vs are also the lowest of the operands to.
Keeps(vs, to, b) == /\ b \in Nat /\ b <= Len(vs) /\ b <= Len(to)
                    /\ \A i \in 1..b : to[i] = vs[i]

\* The same calls are in progress.
SameCalls(fr, to) ==
    /\ \A i \in 1..Len(to) :
          to[i].op \in Catchers => i \in 1..Len(fr) /\ fr[i].op \in Catchers
    /\ \A i \in 1..Len(fr) :
          fr[i].op \in Catchers => /\ i \in 1..Len(to) /\ to[i].op \in Catchers
                                   /\ to[i].prev = fr[i].prev /\ to[i].base = fr[i].base

-----------------------------------------------------------------------------
(***************************************************************************)
(* Operands.                                                               *)
(***************************************************************************)
LEMMA FirstOperands ==
    ASSUME NEW vs \in Seq(Value), NEW c \in Nat, c <= Len(vs)
    PROVE  /\ SubSeq(vs, 1, c) \in Seq(Value) /\ Len(SubSeq(vs, 1, c)) = c
           /\ \A i \in 1..c : SubSeq(vs, 1, c)[i] = vs[i]
<1>1. Len(vs) \in Nat BY LenProperties
<1>2. c \in Int /\ 1 \in Int /\ 1..c \subseteq 1..Len(vs) BY <1>1
<1>3. \A i \in 1..c : vs[i] \in Value BY <1>2, ElementOfSeq
<1>4. /\ SubSeq(vs, 1, c) \in Seq(Value)
      /\ Len(SubSeq(vs, 1, c)) = IF 1 <= c THEN c - 1 + 1 ELSE 0
      /\ \A i \in 1..(c - 1 + 1) : SubSeq(vs, 1, c)[i] = vs[1 + i - 1]
   BY <1>2, <1>3, SubSeqProperties
<1>5. QED BY <1>1, <1>4

LEMMA KeptOperands ==
    ASSUME NEW vs \in Seq(Value), NEW to \in Seq(Value), NEW c, Keeps(vs, to, c)
    PROVE  /\ SubSeq(to, 1, c) = SubSeq(vs, 1, c)
           /\ Discipline!IsPrefix(SubSeq(vs, 1, c), to)
<1> DEFINE a == SubSeq(vs, 1, c)
           b == SubSeq(to, 1, c)
<1>1. c \in Nat /\ c <= Len(vs) /\ c <= Len(to) BY DEF Keeps
<1>2. a \in Seq(Value) /\ Len(a) = c /\ \A i \in 1..c : a[i] = vs[i]
   BY <1>1, FirstOperands
<1>3. b \in Seq(Value) /\ Len(b) = c /\ \A i \in 1..c : b[i] = to[i]
   BY <1>1, FirstOperands
<1> HIDE DEF a, b
<1>4. \A i \in 1..Len(a) : a[i] = b[i] BY <1>2, <1>3 DEF Keeps
<1>5. a = b BY <1>2, <1>3, <1>4, SeqEqual
<1>6. SubSeq(a, 1, Len(a)) = a
   <2>1. /\ SubSeq(a, 1, c) \in Seq(Value) /\ Len(SubSeq(a, 1, c)) = c
         /\ \A i \in 1..c : SubSeq(a, 1, c)[i] = a[i]
      BY <1>1, <1>2, FirstOperands
   <2>2. QED BY <1>2, <2>1, SeqEqual
<1>7. Discipline!IsPrefix(a, to)
   BY <1>1, <1>2, <1>5, <1>6 DEF Discipline!IsPrefix, b
<1>8. QED BY <1>5, <1>7 DEF a, b

\* The same, of what a frame has set aside before and after a step.
LEMMA KeptAside ==
    ASSUME values \in Seq(Value), values' \in Seq(Value), NEW f, NEW g,
           g.base = f.base, Keeps(values, values', f.base)
    PROVE  /\ SubSeq(values', 1, g.base) = SubSeq(values, 1, f.base)
           /\ Discipline!IsPrefix(SubSeq(values, 1, f.base), values')
<1> DEFINE b == f.base
<1>1. Keeps(values, values', b) /\ g.base = b OBVIOUS
<1> HIDE DEF b
<1>2. /\ SubSeq(values', 1, b) = SubSeq(values, 1, b)
      /\ Discipline!IsPrefix(SubSeq(values, 1, b), values')
   BY <1>1, KeptOperands
<1>3. SubSeq(values', 1, g.base) = SubSeq(values, 1, b) BY <1>1, <1>2
<1>4. QED BY <1>2, <1>3 DEF b

\* All of the operands, and those that are left of them.
LEMMA AllOperands ==
    ASSUME NEW vs \in Seq(Value)
    PROVE  /\ SubSeq(vs, 1, Len(vs)) = vs
           /\ \A c \in Nat : c <= Len(vs) => Discipline!IsPrefix(SubSeq(vs, 1, c), vs)
           /\ Discipline!IsPrefix(vs, vs)
<1>1. Len(vs) \in Nat BY LenProperties
<1>2. ASSUME NEW c \in Nat, c <= Len(vs) PROVE Discipline!IsPrefix(SubSeq(vs, 1, c), vs)
   <2>1. Keeps(vs, vs, c) BY <1>2 DEF Keeps
   <2>2. QED BY <2>1, KeptOperands
<1>3. /\ SubSeq(vs, 1, Len(vs)) \in Seq(Value) /\ Len(SubSeq(vs, 1, Len(vs))) = Len(vs)
      /\ \A i \in 1..Len(vs) : SubSeq(vs, 1, Len(vs))[i] = vs[i]
   BY <1>1, FirstOperands
<1>4. SubSeq(vs, 1, Len(vs)) = vs BY <1>3, SeqEqual
<1>5. Discipline!IsPrefix(SubSeq(vs, 1, Len(vs)), vs) BY <1>1, <1>2
<1>6. QED BY <1>2, <1>4, <1>5

LEMMA AppendKeeps ==
    ASSUME NEW vs, NEW to \in Seq(Value), NEW b, Keeps(vs, to, b), NEW v \in Value
    PROVE  Keeps(vs, Append(to, v), b)
<1>1. /\ Len(Append(to, v)) = Len(to) + 1 /\ Len(to) \in Nat
      /\ \A i \in 1..Len(to) : Append(to, v)[i] = to[i]
   BY AppendProperties, LenProperties
<1>2. QED BY <1>1 DEF Keeps

LEMMA DropKeeps ==
    ASSUME NEW vs \in Seq(Value), NEW m \in Nat, m <= Len(vs), NEW b \in Nat, b <= m
    PROVE  Keeps(vs, SubSeq(vs, 1, m), b) /\ SubSeq(vs, 1, m) \in Seq(Value)
<1>1. Len(vs) \in Nat BY LenProperties
<1>2. /\ SubSeq(vs, 1, m) \in Seq(Value) /\ Len(SubSeq(vs, 1, m)) = m
      /\ \A i \in 1..m : SubSeq(vs, 1, m)[i] = vs[i]
   BY FirstOperands
<1>3. QED BY <1>1, <1>2 DEF Keeps

\* An activation leaves the operands that were there when it began.
LEMMA KeepsAll ==
    ASSUME IInv, frames # <<>>, status \in {"running", "returning"}
    PROVE  /\ Keeps(values, values, Top.base) /\ values \in Seq(Value)
           /\ \A v \in Value : Keeps(values, Append(values, v), Top.base)
<1>1. values \in Seq(Value) BY DEF IInv, DataOK
<1>2. Top.base \in Nat /\ Innermost(Top, Len(values), cur, status) /\ Len(values) \in Nat
   BY TopFacts DEF FrameOK, Frame
<1>3. Top.base <= Len(values) BY <1>2 DEF Innermost, Pending
<1>4. Keeps(values, values, Top.base) BY <1>2, <1>3 DEF Keeps
<1>5. QED BY <1>1, <1>4, AppendKeeps

LEMMA KeepsPopped ==
    ASSUME IInv, NEW op \in Awaiting, At(op)
    PROVE  /\ frames # <<>> /\ status = "running" /\ Top.op = op
           /\ Keeps(values, Rest, Top.base) /\ Keeps(values, values, Top.base)
           /\ \A v \in Value : Keeps(values, Append(Rest, v), Top.base)
           /\ Discipline!IsPrefix(Rest, values)
<1>1. /\ frames # <<>> /\ status = "running" /\ Top.op = op /\ Top.base \in Nat
      /\ Len(values) = Top.base + Pending(op) + 1
   BY AtFacts
<1>2. values \in Seq(Value) BY DEF IInv, DataOK
<1>3. Len(values) - 1 \in Nat /\ Len(values) - 1 <= Len(values) /\ Top.base <= Len(values) - 1
   BY <1>1 DEF Pending
<1>4. Keeps(values, Rest, Top.base) /\ Rest \in Seq(Value)
   BY <1>1, <1>2, <1>3, DropKeeps DEF Rest
<1>5. Discipline!IsPrefix(Rest, values) BY <1>2, <1>3, AllOperands DEF Rest
<1>6. QED BY <1>1, <1>4, <1>5, KeepsAll, AppendKeeps

-----------------------------------------------------------------------------
(***************************************************************************)
(* The stack of activations.                                               *)
(***************************************************************************)
LEMMA SameTwice ==
    ASSUME NEW fr, NEW mid, NEW to, SameCalls(fr, mid), SameCalls(mid, to)
    PROVE  SameCalls(fr, to)
BY DEF SameCalls

LEMMA FinishCalls ==
    ASSUME NEW fr, Chain(fr), fr # <<>>, Ordered(fr)
    PROVE  LET new == SubSeq(fr, 1, Len(fr) - 1)
           IN  /\ Ordered(new) /\ Len(new) = Len(fr) - 1 /\ Len(fr) \in Nat \ {0}
               /\ \A i \in 1..Len(new) : new[i] = fr[i]
               /\ fr[Len(fr)].op \notin Catchers => SameCalls(fr, new)
<1> DEFINE new == SubSeq(fr, 1, Len(fr) - 1)
<1>1. fr \in Seq(Frame) /\ Len(fr) \in Nat \ {0}
   BY TopIsAFrame DEF Chain
<1>2. \A i \in 1..(Len(fr) - 1) : fr[i] \in Frame BY <1>1, ElementOfSeq
<1>3. Len(fr) - 1 \in Nat /\ 1 \in Int /\ Len(fr) - 1 \in Int BY <1>1, Lengths
<1>4. /\ Len(new) = IF 1 <= Len(fr) - 1 THEN Len(fr) - 1 - 1 + 1 ELSE 0
      /\ \A i \in 1..(Len(fr) - 1 - 1 + 1) : new[i] = fr[1 + i - 1]
   BY <1>2, <1>3, SubSeqProperties
<1> HIDE DEF new
<1>5. Len(new) = Len(fr) - 1 /\ \A i \in 1..(Len(fr) - 1) : new[i] = fr[i]
   BY <1>1, <1>4, Lengths
<1>6. /\ \A i \in 1..(Len(fr) - 1) : i \in 1..Len(fr)
      /\ \A i \in 1..Len(fr) : i = Len(fr) \/ i \in 1..(Len(fr) - 1)
   BY <1>1
<1>7. Ordered(new) BY <1>5, <1>6 DEF Ordered
<1>8. fr[Len(fr)].op \notin Catchers => SameCalls(fr, new) BY <1>5, <1>6 DEF SameCalls
<1>9. QED BY <1>1, <1>5, <1>7, <1>8 DEF new

LEMMA BecomeCalls ==
    ASSUME NEW fr, Chain(fr), fr # <<>>, Ordered(fr), NEW f \in Frame,
           f.base = fr[Len(fr)].base
    PROVE  LET new == [fr EXCEPT ![Len(fr)] = f]
           IN  /\ new \in Seq(Frame) /\ Ordered(new)
               /\ Len(new) = Len(fr) /\ Len(fr) \in Nat \ {0}
               /\ \A i \in 1..Len(fr) : new[i] = IF i = Len(fr) THEN f ELSE fr[i]
               /\ fr[Len(fr)].op \notin Catchers /\ f.op \notin Catchers => SameCalls(fr, new)
<1> DEFINE new == [fr EXCEPT ![Len(fr)] = f]
<1>1. fr \in Seq(Frame) /\ Len(fr) \in Nat \ {0} BY TopIsAFrame DEF Chain
<1>2. /\ new \in Seq(Frame) /\ Len(new) = Len(fr)
      /\ \A j \in 1..Len(fr) : new[j] = IF j = Len(fr) THEN f ELSE fr[j]
   BY <1>1, ExceptSeq
<1> HIDE DEF new
<1>3. \A j \in 1..Len(fr) : new[j].base = fr[j].base BY <1>2
<1>4. Ordered(new) BY <1>2, <1>3 DEF Ordered
<1>5. fr[Len(fr)].op \notin Catchers /\ f.op \notin Catchers => SameCalls(fr, new)
   BY <1>2 DEF SameCalls
<1>6. QED BY <1>1, <1>2, <1>4, <1>5 DEF new

LEMMA PushCalls ==
    ASSUME NEW fr \in Seq(Frame), Ordered(fr), NEW f \in Frame,
           fr # <<>> => fr[Len(fr)].base <= f.base
    PROVE  LET new == Append(fr, f)
           IN  /\ Ordered(new) /\ Len(new) = Len(fr) + 1
               /\ \A i \in 1..Len(fr) : new[i] = fr[i]
               /\ f.op \notin Catchers => SameCalls(fr, new)
<1> DEFINE new == Append(fr, f)
           n == Len(fr) + 1
<1>1. /\ Len(fr) \in Nat /\ Len(new) = n
      /\ \A i \in 1..Len(fr) : new[i] = fr[i] /\ i \in 1..Len(new)
      /\ new[n] = f
      /\ \A i \in 1..Len(new) : i = n \/ i \in 1..Len(fr)
   BY AppendProperties, LenProperties
<1>2. f.base \in Nat /\ \A i \in 1..Len(fr) : fr[i].base \in Nat
   <2>1. \A i \in 1..Len(fr) : fr[i] \in Frame BY ElementOfSeq
   <2>2. \A g \in Frame : g.base \in Nat BY DEF Frame
   <2>3. QED BY <2>1, <2>2
<1> HIDE DEF new
<1>3. ASSUME NEW i \in 1..Len(new), NEW j \in 1..Len(new), i <= j
      PROVE  new[i].base <= new[j].base
   <2>1. CASE i \in 1..Len(fr) /\ j \in 1..Len(fr) BY <1>1, <1>3, <2>1 DEF Ordered
   <2>2. CASE i \in 1..Len(fr) /\ j = n
      <3>1. fr # <<>> /\ Len(fr) \in 1..Len(fr) /\ i <= Len(fr)
         BY <1>1, <2>2, EmptySeq
      <3>2. fr[i].base <= fr[Len(fr)].base BY <2>2, <3>1 DEF Ordered
      <3>3. QED BY <1>1, <1>2, <2>2, <3>1, <3>2
   <2>3. CASE i = n /\ j = n BY <1>1, <1>2, <2>3 DEF Frame
   <2>4. QED BY <1>1, <1>3, <2>1, <2>2, <2>3
<1>4. Ordered(new) BY <1>3 DEF Ordered
<1>5. f.op \notin Catchers => SameCalls(fr, new) BY <1>1 DEF SameCalls
<1>6. QED BY <1>1, <1>4, <1>5 DEF new

-----------------------------------------------------------------------------
(***************************************************************************)
(* The steps that handlers are made of, and what they are to CallDiscipline.*)
(***************************************************************************)
LEMMA WorkStep ==
    ASSUME values \in Seq(Value), values' \in Seq(Value),
           frames \in Seq(Frame), frames' \in Seq(Frame), SameCalls(frames, frames'),
           \A i \in 1..Len(frames) :
              frames[i].op \in Catchers => Keeps(values, values', frames[i].base)
    PROVE  Discipline!Work
<1> DEFINE calls == [i \in InCalls |-> [scope |-> frames[i].prev,
                                        operands |-> SubSeq(values, 1, frames[i].base)]]
<1>1. DOMAIN frames = 1..Len(frames) /\ DOMAIN frames' = 1..Len(frames') BY LenProperties
<1>2. InCalls' = InCalls BY <1>1 DEF InCalls, SameCalls
<1>3. \A i \in InCalls :
         /\ frames'[i].prev = frames[i].prev /\ frames'[i].base = frames[i].base
         /\ Keeps(values, values', frames[i].base)
   BY <1>1 DEF InCalls, SameCalls
<1>4. \A i \in InCalls :
         /\ SubSeq(values', 1, frames'[i].base) = SubSeq(values, 1, frames[i].base)
         /\ Discipline!IsPrefix(SubSeq(values, 1, frames[i].base), values')
   <2> SUFFICES ASSUME NEW i \in InCalls
                PROVE  /\ SubSeq(values', 1, frames'[i].base) = SubSeq(values, 1, frames[i].base)
                       /\ Discipline!IsPrefix(SubSeq(values, 1, frames[i].base), values')
      OBVIOUS
   <2>1. frames'[i].base = frames[i].base /\ Keeps(values, values', frames[i].base) BY <1>3
   <2> DEFINE f == frames[i]
              g == frames'[i]
   <2>2. g.base = f.base /\ Keeps(values, values', f.base) BY <2>1
   <2> HIDE DEF f, g
   <2>3. /\ SubSeq(values', 1, g.base) = SubSeq(values, 1, f.base)
         /\ Discipline!IsPrefix(SubSeq(values, 1, f.base), values')
      BY <2>2, KeptAside
   <2>4. QED BY <2>3 DEF f, g
<1>5. calls' = calls BY <1>2, <1>3, <1>4
<1>6. \A i \in InCalls : Discipline!IsPrefix(calls[i].operands, values') BY <1>4
<1>7. DOMAIN calls = InCalls OBVIOUS
<1>8. QED BY <1>5, <1>6, <1>7
      DEF Discipline!Work, Discipline!Untouched, Discipline!Depths

\* What is above the innermost base is nobody else's.
LEMMA WorkMove ==
    ASSUME IInv, CInv, IInv', frames # <<>>, SameCalls(frames, frames'),
           Keeps(values, values', Top.base)
    PROVE  Discipline!Work
<1>1. /\ values \in Seq(Value) /\ values' \in Seq(Value)
      /\ frames \in Seq(Frame) /\ frames' \in Seq(Frame)
   BY DEF IInv, DataOK, StackOK, Chain
<1>2. Len(frames) \in 1..Len(frames) /\ Len(frames) \in Nat BY TopFacts, Lengths
<1>3. ASSUME NEW i \in 1..Len(frames) PROVE Keeps(values, values', frames[i].base)
   <2>1. frames[i].base <= Top.base BY <1>2 DEF CInv, Ordered, Top
   <2>2. frames[i].base \in Nat
      <3>1. frames[i] \in Frame BY <1>1, ElementOfSeq
      <3>2. QED BY <3>1 DEF Frame
   <2>3. Len(values) \in Nat /\ Len(values') \in Nat /\ Top.base \in Nat
      BY <1>1, LenProperties DEF Keeps
   <2>4. QED BY <2>1, <2>2, <2>3 DEF Keeps
<1>4. QED BY <1>1, <1>3, WorkStep

\* What every handler is shown to do.
Disciplined == CInv' /\ (Discipline!Next \/ UNCHANGED vars)

LEMMA EndWork ==
    ASSUME IInv, CInv, IInv', frames # <<>>, Finish, Top.op \notin Catchers,
           Keeps(values, values', Top.base), status' # "idle" \/ Top.op = "Program"
    PROVE  Disciplined
<1>1. Chain(frames) /\ (Top.op = "Program" <=> Len(frames) = 1) BY TopFacts
<1>2. /\ Ordered(frames') /\ SameCalls(frames, frames') /\ Len(frames') = Len(frames) - 1
   BY <1>1, FinishCalls DEF CInv, Finish, Callers, Top
<1>3. ASSUME Top.op = "Program" PROVE frames' = <<>>
   <2>1. Len(frames') = 0 BY <1>1, <1>2, <1>3
   <2>2. frames' \in Seq(Frame) BY DEF IInv, StackOK, Chain
   <2>3. QED BY <2>1, <2>2, EmptySeq
<1>4. Discipline!Work BY <1>2, WorkMove
<1>5. QED BY <1>2, <1>3, <1>4 DEF Disciplined, CInv, Discipline!Next

LEMMA GoOnWork ==
    ASSUME IInv, CInv, IInv', frames # <<>>, status' # "idle", Top.op \notin Catchers,
           NEW f \in Frame, f.op \notin Catchers, f.base = Top.base, Become(f),
           Keeps(values, values', Top.base)
    PROVE  Disciplined
<1>1. Chain(frames) BY TopFacts
<1>2. Ordered(frames') /\ SameCalls(frames, frames')
   BY <1>1, BecomeCalls DEF CInv, Become, Top
<1>3. Discipline!Work BY <1>2, WorkMove
<1>4. QED BY <1>2, <1>3 DEF Disciplined, CInv, Discipline!Next

\* An activation, which goes on as before but for its child, gains the child.
LEMMA ChildWork ==
    ASSUME IInv, CInv, IInv', frames # <<>>, status' # "idle",
           NEW fr \in Seq(Frame), Ordered(fr), SameCalls(frames, fr), fr # <<>>,
           fr[Len(fr)].base = Top.base,
           NEW child \in Childless, frames' = Append(fr, Activation(child)),
           Keeps(values, values', Top.base)
    PROVE  Disciplined
<1> DEFINE g == Activation(child)
<1>1. cur \in Ref /\ Len(values') \in Nat BY LenProperties DEF IInv, DataOK
<1>2. g \in Frame /\ g.op = child /\ g.base = Len(values')
   BY <1>1, EmptySeq DEF Activation, Frame, Ops
<1> HIDE DEF g
<1>3. g.op \notin Catchers /\ fr[Len(fr)].base <= g.base
   BY <1>2 DEF Childless, Catchers, Keeps
<1>4. Ordered(frames') /\ SameCalls(fr, frames') BY <1>2, <1>3, PushCalls DEF g
<1>5. Discipline!Work BY <1>4, SameTwice, WorkMove
<1>6. QED BY <1>4, <1>5 DEF Disciplined, CInv, Discipline!Next

LEMMA VisitWork ==
    ASSUME IInv, CInv, IInv', frames # <<>>, status' # "idle", Top.op \notin Catchers,
           NEW f \in Frame, f.op \notin Catchers, f.base = Top.base,
           NEW child \in Childless, Visit(f, child), Keeps(values, values', Top.base)
    PROVE  Disciplined
<1> DEFINE fr == [frames EXCEPT ![Len(frames)] = f]
<1>1. Chain(frames) BY TopFacts
<1>2. /\ fr \in Seq(Frame) /\ Ordered(fr) /\ SameCalls(frames, fr)
      /\ Len(fr) = Len(frames) /\ Len(frames) \in Nat \ {0}
      /\ \A i \in 1..Len(frames) : fr[i] = IF i = Len(frames) THEN f ELSE frames[i]
   BY <1>1, BecomeCalls DEF CInv, Top
<1>3. frames' = Append(fr, Activation(child)) BY DEF Visit
<1> HIDE DEF fr
<1>4. fr # <<>> /\ fr[Len(fr)].base = Top.base BY <1>2, EmptySeq
<1>5. QED BY <1>2, <1>3, <1>4, ChildWork

\* The same activation at another stage.
LEMMA SameBase ==
    ASSUME NEW f \in Frame, NEW op \in Ops
    PROVE  LET g == [f EXCEPT !.op = op]
           IN  g \in Frame /\ g.op = op /\ g.base = f.base
BY DEF Frame

LEMMA TopIsFrame == ASSUME IInv, frames # <<>> PROVE Top \in Frame
BY TopFacts DEF FrameOK

LEMMA EvaluateWork ==
    ASSUME IInv, CInv, IInv', frames # <<>>, status' # "idle", Top.op \notin Catchers,
           NEW op \in Awaiting, Evaluate(op), Keeps(values, values', Top.base)
    PROVE  Disciplined
<1> DEFINE f == [Top EXCEPT !.op = op]
<1>1. f \in Frame /\ f.op = op /\ f.base = Top.base BY TopIsFrame, SameBase DEF Ops
<1>2. Visit(f, "Expr") /\ "Expr" \in Childless BY DEF Evaluate, Childless
<1> HIDE DEF f
<1>3. f.op \notin Catchers BY <1>1 DEF Awaiting, Catchers
<1>4. QED BY <1>1, <1>2, <1>3, VisitWork

\* A std::exception ends all calls.
LEMMA RaiseAborts ==
    ASSUME NEW kind, NEW n, Raise(kind, n), Discipline!IsPrefix(values', values)
    PROVE  Disciplined
<1>1. frames' = <<>> BY DEF Raise
<1>2. \A i \in 1..Len(<<>>) : FALSE BY EmptySeq
<1>3. CInv' BY <1>1, <1>2 DEF CInv, Ordered
<1>4. DOMAIN <<>> = {} OBVIOUS
<1>5. InCalls' = {} BY <1>1, <1>4 DEF InCalls
<1>6. Discipline!Abort BY <1>5 DEF Discipline!Abort
<1>7. QED BY <1>3, <1>6 DEF Disciplined, Discipline!Next

LEMMA CrashWork ==
    ASSUME IInv, CInv, IInv', frames # <<>>, Crash, Keeps(values, values', Top.base)
    PROVE  Disciplined
<1>1. frames' = frames /\ status' = "crashed" BY DEF Crash
<1>2. SameCalls(frames, frames') BY <1>1 DEF SameCalls
<1>3. Discipline!Work BY <1>2, WorkMove
<1>4. QED BY <1>1, <1>3 DEF Disciplined, CInv, Discipline!Next

\* The calls in progress when the innermost activation has become one, f.
LEMMA NewCall ==
    ASSUME NEW fr, NEW mid, NEW to, NEW f, SameCalls(mid, to),
           NEW d \in Nat \ {0}, Len(fr) = d, Len(mid) = d,
           \A i \in 1..d : mid[i] = IF i = d THEN f ELSE fr[i],
           f.op \in Catchers, fr[d].op \notin Catchers
    PROVE  /\ {i \in 1..Len(to) : to[i].op \in Catchers}
                 = {i \in 1..d : fr[i].op \in Catchers} \cup {d}
           /\ to[d].prev = f.prev /\ to[d].base = f.base
           /\ \A i \in 1..d : fr[i].op \in Catchers =>
                 i # d /\ to[i].prev = fr[i].prev /\ to[i].base = fr[i].base
<1>1. d \in 1..d /\ mid[d] = f OBVIOUS
<1>2. \A i \in 1..d : i # d => mid[i] = fr[i] OBVIOUS
<1>3. \A i : i \in 1..Len(to) /\ to[i].op \in Catchers
                 <=> i \in 1..d /\ mid[i].op \in Catchers
   BY DEF SameCalls
<1>4. \A i : i \in 1..d /\ mid[i].op \in Catchers
                 <=> (i \in 1..d /\ fr[i].op \in Catchers) \/ i = d
   BY <1>1, <1>2
<1>5. {i \in 1..Len(to) : to[i].op \in Catchers}
         = {i \in 1..d : fr[i].op \in Catchers} \cup {d}
   BY <1>3, <1>4, Zenon
<1>6. to[d].prev = f.prev /\ to[d].base = f.base BY <1>1 DEF SameCalls
<1>7. ASSUME NEW i \in 1..d, fr[i].op \in Catchers
      PROVE  i # d /\ to[i].prev = fr[i].prev /\ to[i].base = fr[i].base
   BY <1>2, <1>7 DEF SameCalls
<1>8. QED BY <1>5, <1>6, <1>7

\* An activation becomes a call, with or without a child; fr is the stack up to
\* the call.
LEMMA EnterStep ==
    ASSUME IInv, CInv, IInv', frames # <<>>, Top.op \notin Catchers,
           NEW f \in Frame, f.op \in Catchers, f.prev = cur, f.base = Top.base,
           NEW fr, SameCalls(fr, frames'), Len(fr) = Len(frames),
           \A i \in 1..Len(frames) : fr[i] = IF i = Len(frames) THEN f ELSE frames[i],
           Ordered(frames'), status' = "running",
           Len(values') = Top.base, Discipline!IsPrefix(values', values),
           Keeps(values, values', Top.base)
    PROVE  Disciplined
<1> DEFINE Calls == [i \in InCalls |-> [scope |-> frames[i].prev,
                                        operands |-> SubSeq(values, 1, frames[i].base)]]
           d == Len(frames)
<1>1. d \in Nat \ {0} BY TopFacts
<1>2. /\ Len(fr) = d /\ d \in Nat \ {0}
      /\ \A i \in 1..d : fr[i] = IF i = d THEN f ELSE frames[i]
   BY <1>1
<1>3. /\ frames \in Seq(Frame) /\ frames' \in Seq(Frame) /\ values \in Seq(Value)
      /\ values' \in Seq(Value)
      /\ DOMAIN frames = 1..d /\ DOMAIN frames' = 1..Len(frames')
   BY LenProperties DEF IInv, StackOK, Chain, DataOK
<1> DEFINE old == {i \in 1..d : frames[i].op \in Catchers}
<1>4. InCalls = old /\ InCalls' = {i \in 1..Len(frames') : frames'[i].op \in Catchers}
   BY <1>3 DEF InCalls
<1>5. /\ {i \in 1..Len(frames') : frames'[i].op \in Catchers} = old \cup {d}
       /\ frames'[d].prev = f.prev /\ frames'[d].base = f.base
       /\ \A i \in old : i # d /\ frames'[i].prev = frames[i].prev
                                 /\ frames'[i].base = frames[i].base
   <2>1. frames[d].op \notin Catchers BY DEF Top
   <2>2. QED BY <1>2, <2>1, NewCall
<1>6. InCalls' = InCalls \cup {d} BY <1>4, <1>5
<1>7. /\ frames'[d].prev = cur /\ frames'[d].base = Len(values')
      /\ \A i \in InCalls : /\ i # d /\ i \in 1..d
                            /\ frames'[i].prev = frames[i].prev
                            /\ frames'[i].base = frames[i].base
   BY <1>4, <1>5
<1>8. ASSUME NEW i \in InCalls
      PROVE  /\ SubSeq(values', 1, frames'[i].base) = SubSeq(values, 1, frames[i].base)
             /\ Discipline!IsPrefix(SubSeq(values, 1, frames[i].base), values')
   <2>1. i \in 1..d /\ d \in 1..d /\ i <= d BY <1>2, <1>7
   <2>2. frames[i].base <= Top.base BY <2>1 DEF CInv, Ordered, Top
   <2>3. frames[i].base \in Nat
      <3>1. frames[i] \in Frame BY <1>3, <2>1, ElementOfSeq
      <3>2. QED BY <3>1 DEF Frame
   <2>4. Len(values) \in Nat /\ Len(values') \in Nat /\ Top.base \in Nat
      BY <1>3, LenProperties DEF Keeps
   <2>5. Keeps(values, values', frames[i].base) BY <2>2, <2>3, <2>4 DEF Keeps
   <2> DEFINE g == frames[i]
              h == frames'[i]
   <2>6. h.base = g.base /\ Keeps(values, values', g.base) BY <1>7, <2>5
   <2> HIDE DEF g, h
   <2>7. /\ SubSeq(values', 1, h.base) = SubSeq(values, 1, g.base)
         /\ Discipline!IsPrefix(SubSeq(values, 1, g.base), values')
      BY <1>3, <2>6, KeptAside
   <2>8. QED BY <2>7 DEF g, h
<1>9. SubSeq(values', 1, frames'[d].base) = values' BY <1>3, <1>7, AllOperands
<1>10. Calls' = [e \in InCalls \cup {d} |->
                   IF e = d THEN [scope |-> cur, operands |-> values'] ELSE Calls[e]]
   <2>1. ASSUME NEW e \in InCalls \cup {d}
         PROVE  [scope |-> frames'[e].prev, operands |-> SubSeq(values', 1, frames'[e].base)]
                = IF e = d THEN [scope |-> cur, operands |-> values'] ELSE Calls[e]
      <3>1. CASE e = d BY <1>7, <1>9, <3>1
      <3>2. CASE e # d
         <4>1. e \in InCalls /\ frames'[e].prev = frames[e].prev
            BY <1>7, <3>2
         <4>2. SubSeq(values', 1, frames'[e].base) = SubSeq(values, 1, frames[e].base)
            BY <1>8, <4>1
         <4>3. QED BY <3>2, <4>1, <4>2
      <3>3. QED BY <3>1, <3>2
   <2>2. QED BY <1>6, <2>1
<1>11. DOMAIN Calls = InCalls /\ DOMAIN Calls' = InCalls \cup {d} BY <1>6
<1>12. \A e \in InCalls : e < d BY <1>2, <1>7
<1>13. \A e \in InCalls : Discipline!IsPrefix(Calls[e].operands, values') BY <1>8
<1>14. Discipline!Enter
   <2>1. d \in DOMAIN Calls' BY <1>11
   <2>2. /\ \A e \in DOMAIN Calls : e < d
         /\ Calls' = [e \in DOMAIN Calls \cup {d} |->
                        IF e = d THEN [scope |-> cur, operands |-> values'] ELSE Calls[e]]
      BY <1>10, <1>11, <1>12
   <2>3. \A e \in DOMAIN Calls : Discipline!IsPrefix(Calls[e].operands, values')
      BY <1>11, <1>13
   <2>4. QED
      BY <2>1, <2>2, <2>3, Zenon
      DEF Discipline!Enter, Discipline!Untouched, Discipline!Depths
<1>15. QED BY <1>14 DEF Disciplined, CInv, Discipline!Next

\* A call is over.
LEMMA LeaveStep ==
    ASSUME IInv, CInv, IInv', frames # <<>>, status \in {"running", "returning"},
           Top.op \in Catchers, NEW v \in Value, Return(v)
    PROVE  Disciplined
<1> DEFINE Calls == [i \in InCalls |-> [scope |-> frames[i].prev,
                                        operands |-> SubSeq(values, 1, frames[i].base)]]
           d == Len(frames)
<1>1. /\ frames' = SubSeq(frames, 1, d - 1) /\ values' = Append(values, v)
      /\ cur' = Top.prev /\ status' = "running"
   BY DEF Return, Finish, Callers
<1>2. Chain(frames) /\ Innermost(Top, Len(values), cur, status) /\ Top \in Frame
   BY TopFacts, TopIsFrame
<1>3. /\ Ordered(frames') /\ Len(frames') = d - 1 /\ d \in Nat \ {0}
      /\ \A i \in 1..Len(frames') : frames'[i] = frames[i]
   BY <1>1, <1>2, FinishCalls DEF CInv
<1>4. /\ frames \in Seq(Frame) /\ frames' \in Seq(Frame) /\ values \in Seq(Value)
      /\ values' \in Seq(Value)
      /\ DOMAIN frames = 1..d /\ DOMAIN frames' = 1..Len(frames')
   BY LenProperties DEF IInv, StackOK, Chain, DataOK
<1>5. d \in InCalls /\ InCalls' = InCalls \ {d} /\ InCalls \subseteq 1..d
   <2>1. d \in 1..d /\ \A i : i \in 1..(d - 1) <=> i \in 1..d /\ i # d BY <1>3
   <2>2. InCalls = {i \in 1..d : frames[i].op \in Catchers} BY <1>4 DEF InCalls
   <2>3. InCalls' = {i \in 1..(d - 1) : frames'[i].op \in Catchers} BY <1>3, <1>4 DEF InCalls
   <2>4. \A i \in 1..(d - 1) : frames'[i] = frames[i] BY <1>3
   <2>5. d \in InCalls BY <2>1, <2>2 DEF Top
   <2>6. InCalls' = InCalls \ {d} BY <2>1, <2>2, <2>3, <2>4
   <2>7. QED BY <2>2, <2>5, <2>6
<1>6. Top.base = Len(values)
   <2>1. Top.base \in Nat BY <1>2 DEF Frame
   <2>2. QED BY <1>2, <2>1 DEF Innermost, Catchers, Awaiting, Pending
<1>7. Calls[d] = [scope |-> cur', operands |-> values]
   <2>1. SubSeq(values, 1, Top.base) = values BY <1>4, <1>6, AllOperands
   <2>2. QED BY <1>1, <1>5, <2>1 DEF Top
<1>8. ASSUME NEW i \in InCalls \ {d}
      PROVE  /\ frames'[i] = frames[i]
             /\ SubSeq(values', 1, frames'[i].base) = SubSeq(values, 1, frames[i].base)
   <2>1. i \in 1..d /\ d \in 1..d /\ i <= d /\ i \in 1..(d - 1) BY <1>3, <1>5
   <2>2. frames[i].base <= Top.base BY <2>1 DEF CInv, Ordered, Top
   <2>3. frames[i].base \in Nat
      <3>1. frames[i] \in Frame BY <1>4, <2>1, ElementOfSeq
      <3>2. QED BY <3>1 DEF Frame
   <2>4. Len(values) \in Nat BY <1>4, LenProperties
   <2>5. Keeps(values, values, frames[i].base) BY <1>6, <2>2, <2>3, <2>4 DEF Keeps
   <2>6. Keeps(values, values', frames[i].base) BY <1>1, <1>4, <2>5, AppendKeeps
   <2>7. frames'[i] = frames[i] BY <1>3, <2>1
   <2> DEFINE g == frames[i]
              h == frames'[i]
   <2>8. h.base = g.base /\ Keeps(values, values', g.base) BY <2>6, <2>7
   <2> HIDE DEF g, h
   <2>9. SubSeq(values', 1, h.base) = SubSeq(values, 1, g.base) BY <1>4, <2>8, KeptAside
   <2>10. QED BY <2>7, <2>9 DEF g, h
<1>9. Calls' = [e \in InCalls \ {d} |-> Calls[e]] BY <1>5, <1>8
<1>10. DOMAIN Calls = InCalls OBVIOUS
<1>11. \A e \in InCalls : e <= d BY <1>3, <1>5
<1>12. Discipline!Leave
   BY <1>1, <1>5, <1>7, <1>9, <1>10, <1>11
   DEF Discipline!Leave, Discipline!Innermost, Discipline!Depths
<1>13. QED BY <1>1, <1>3, <1>12 DEF Disciplined, CInv, Discipline!Next

-----------------------------------------------------------------------------
(***************************************************************************)
(* Expressions.                                                            *)
(***************************************************************************)
LEMMA EndHere ==
    ASSUME IInv, CInv, IInv', NEW op, op \notin Catchers, At(op), Finish, status' # "idle",
           Keeps(values, values', Top.base)
    PROVE  Disciplined
BY AtFacts, EndWork

LEMMA EvaluateHere ==
    ASSUME IInv, CInv, IInv', NEW at, at \notin Catchers, At(at), status' # "idle",
           NEW op \in Awaiting, Evaluate(op), Keeps(values, values', Top.base)
    PROVE  Disciplined
BY AtFacts, EvaluateWork

LEMMA CrashHere ==
    ASSUME IInv, CInv, IInv', NEW op, At(op), Crash, Keeps(values, values', Top.base)
    PROVE  Disciplined
BY AtFacts, CrashWork

LEMMA KeepsHere ==
    ASSUME IInv, NEW op, At(op)
    PROVE  /\ Keeps(values, values, Top.base) /\ values \in Seq(Value)
           /\ \A v \in Value : Keeps(values, Append(values, v), Top.base)
           /\ Discipline!IsPrefix(values, values)
           /\ status = "running"
<1>1. frames # <<>> /\ status = "running" BY AtFacts
<1>2. values \in Seq(Value) BY DEF IInv, DataOK
<1>3. Discipline!IsPrefix(values, values) BY <1>2, AllOperands
<1>4. QED BY <1>1, <1>2, <1>3, KeepsAll

LEMMA BeginExprWorks ==
    ASSUME IInv, CInv, IInv', NEW kind, NEW op \in Awaiting, BeginExpr(kind, op)
    PROVE  Disciplined
<1>1. /\ At("Expr") /\ values' = values /\ status' = status /\ Evaluate(op)
      /\ "Expr" \notin Catchers
   BY DEF BeginExpr, control, Catchers
<1>2. Keeps(values, values', Top.base) /\ status' # "idle" BY <1>1, KeepsHere
<1>3. QED BY <1>1, <1>2, EvaluateHere

LEMMA LiteralWorks == ASSUME IInv, CInv, IInv', Literal PROVE Disciplined
<1>1. /\ At("Expr") /\ values' = Append(values, Plain) /\ Finish /\ status' = status
      /\ "Expr" \notin Catchers
   BY DEF Literal, control, Catchers
<1>2. Keeps(values, values', Top.base) /\ status' # "idle"
   BY <1>1, KeepsHere DEF Value
<1>3. QED BY <1>1, <1>2, EndHere

LEMMA NotFoundWorks ==
    ASSUME IInv, NEW n, NotFound(n), Discipline!IsPrefix(values', values)
    PROVE  Disciplined
BY RaiseAborts DEF NotFound

LEMMA IdentifierWorks == ASSUME IInv, CInv, IInv', Identifier PROVE Disciplined
<1>1. At("Expr") /\ "Expr" \notin Catchers BY DEF Identifier, Catchers
<1>2. PICK n \in Names :
         \/ /\ \E s \in FindSymbol(cur, n) :
                  values' = Append(values, heap[s].symbols[n])
            /\ Finish
            /\ UNCHANGED <<cur, control>>
         \/ NotFound(n) /\ UNCHANGED values
   BY DEF Identifier
<1>3. ASSUME NEW s \in FindSymbol(cur, n), values' = Append(values, heap[s].symbols[n]),
             Finish, UNCHANGED <<cur, control>>
      PROVE  Disciplined
   <2>1. heap[s].symbols[n] \in Value BY FoundSymbol DEF IInv, DataOK
   <2>2. Keeps(values, values', Top.base) /\ status' # "idle"
      BY <1>1, <1>3, <2>1, KeepsHere DEF control
   <2>3. QED BY <1>1, <1>3, <2>2, EndHere
<1>4. ASSUME NotFound(n), UNCHANGED values PROVE Disciplined
   BY <1>1, <1>4, KeepsHere, NotFoundWorks
<1>5. QED BY <1>2, <1>3, <1>4

LEMMA BinaryOpWorks == ASSUME IInv, CInv, IInv', BinaryOp PROVE Disciplined
<1>1. CASE BeginExpr("BinaryOp", "BinRhs") BY <1>1, BeginExprWorks DEF Awaiting
<1>2. CASE /\ At("BinRhs") /\ UNCHANGED <<values, last, cur, control>>
           /\ Evaluate("BinLhs") /\ Retain(heap)
   <2>1. Keeps(values, values', Top.base) /\ status' # "idle"
      BY <1>2, KeepsHere DEF control
   <2>2. QED BY <1>2, <2>1, EvaluateHere DEF Awaiting, Catchers
<1> DEFINE below == SubSeq(values, 1, Len(values) - 2)
<1>3. ASSUME At("BinLhs"),
             \/ /\ values' = Append(below, Plain) /\ Finish /\ UNCHANGED control
             \/ values' = below /\ Raise("other", None)
             \/ values' = below /\ Crash
      PROVE  Disciplined
   <2>1. /\ Top.base \in Nat /\ Len(values) \in Nat
         /\ Len(values) = Top.base + 2 /\ status = "running"
      BY <1>3, AtFacts DEF Pending, Awaiting
   <2>2. values \in Seq(Value) BY DEF IInv, DataOK
   <2>3. /\ Len(values) - 2 \in Nat /\ Len(values) - 2 <= Len(values)
         /\ Top.base <= Len(values) - 2
      BY <2>1
   <2>4. Keeps(values, below, Top.base) /\ below \in Seq(Value)
      BY <2>1, <2>2, <2>3, DropKeeps
   <2>5. Discipline!IsPrefix(below, values) BY <2>2, <2>3, AllOperands
   <2> HIDE DEF below
   <2>6. Keeps(values, Append(below, Plain), Top.base)
      BY <2>4, AppendKeeps DEF Value
   <2>7. CASE values' = Append(below, Plain) /\ Finish /\ UNCHANGED control
      BY <1>3, <2>1, <2>6, <2>7, EndHere DEF control, Catchers
   <2>8. CASE values' = below /\ Raise("other", None) BY <2>5, <2>8, RaiseAborts
   <2>9. CASE values' = below /\ Crash BY <1>3, <2>4, <2>9, CrashHere
   <2>10. QED BY <1>3, <2>7, <2>8, <2>9
<1>4. QED BY <1>1, <1>2, <1>3 DEF BinaryOp

LEMMA UnaryWorks == ASSUME IInv, CInv, IInv', Unary PROVE Disciplined
<1>1. CASE BeginExpr("Unary", "Unary") BY <1>1, BeginExprWorks DEF Awaiting
<1>2. CASE At("Unary") /\ UNCHANGED <<values, control>> /\ Finish
   <2>1. Keeps(values, values', Top.base) /\ status' # "idle"
      BY <1>2, KeepsHere DEF control
   <2>2. QED BY <1>2, <2>1, EndHere DEF Catchers
<1>3. CASE At("Unary") /\ values' = Rest /\ Raise("other", None)
   BY <1>3, KeepsPopped, RaiseAborts DEF Awaiting
<1>4. QED BY <1>1, <1>2, <1>3 DEF Unary

LEMMA LogicOpWorks == ASSUME IInv, CInv, IInv', LogicOp PROVE Disciplined
<1>1. CASE BeginExpr("LogicOp", "LogicLhs") BY <1>1, BeginExprWorks DEF Awaiting
<1>2. ASSUME NEW op \in {"LogicLhs", "LogicRhs"}, At(op),
             UNCHANGED <<values, control>>, Finish
      PROVE  Disciplined
   <2>1. Keeps(values, values', Top.base) /\ status' # "idle"
      BY <1>2, KeepsHere DEF control
   <2>2. QED BY <1>2, <2>1, EndHere DEF Catchers
<1>3. ASSUME NEW op \in {"LogicLhs", "LogicRhs"}, At(op),
             values' = Rest, Raise("other", None)
      PROVE  Disciplined
   BY <1>3, KeepsPopped, RaiseAborts DEF Awaiting
<1>4. CASE At("LogicLhs") /\ values' = Rest /\ UNCHANGED control /\ Evaluate("LogicRhs")
   <2>1. Keeps(values, values', Top.base) /\ status' # "idle"
      BY <1>4, KeepsPopped DEF control, Awaiting
   <2>2. QED BY <1>4, <2>1, EvaluateHere DEF Awaiting, Catchers
<1>5. QED BY <1>1, <1>2, <1>3, <1>4 DEF LogicOp

LEMMA AssignmentWorks == ASSUME IInv, CInv, IInv', Assignment PROVE Disciplined
<1>1. CASE BeginExpr("Assignment", "Assign") BY <1>1, BeginExprWorks DEF Awaiting
<1>2. CASE At("Assign") /\ UNCHANGED <<values, cur, control>> /\ Finish
   <2>1. Keeps(values, values', Top.base) /\ status' # "idle"
      BY <1>2, KeepsHere DEF control
   <2>2. QED BY <1>2, <2>1, EndHere DEF Catchers
<1>3. ASSUME At("Assign"), NEW n, NotFound(n), values' = Rest PROVE Disciplined
   BY <1>3, KeepsPopped, NotFoundWorks DEF Awaiting
<1>4. QED BY <1>1, <1>2, <1>3 DEF Assignment

\* A member is a value.
LEMMA GiveWorks ==
    ASSUME IInv, CInv, IInv', At("Get"), NEW v \in Value, values' = Append(Rest, v),
           Finish, UNCHANGED control
    PROVE  Disciplined
<1>1. Keeps(values, values', Top.base) /\ status' # "idle"
   BY KeepsPopped DEF control, Awaiting
<1>2. QED BY <1>1, EndHere DEF Catchers

LEMMA GiveBoundWorks ==
    ASSUME IInv, CInv, IInv', At("Get"), Free # {}, values' = Append(Rest, Fresh({})),
           Finish, UNCHANGED control
    PROVE  Disciplined
<1>1. Free \ {} # {} OBVIOUS
<1>2. Fresh({}) \in Value BY <1>1, FreshFacts DEF Value
<1>3. QED BY <1>2, GiveWorks

LEMMA GetExpressionWorks == ASSUME IInv, CInv, IInv', GetExpression PROVE Disciplined
<1>1. CASE BeginExpr("Get", "Get") BY <1>1, BeginExprWorks DEF Awaiting
<1>2. ASSUME At("Get"), NEW n \in Names, Is(Operand, "instance"),
             heap[Operand].symbols[n] # None,
             values' = Append(Rest, heap[Operand].symbols[n]), Finish, UNCHANGED control
      PROVE  Disciplined
   <2>1. Operand \in Ref /\ HeapOK(heap) BY <1>2 DEF Is, IInv, DataOK, Ref
   <2>2. heap[Operand] \in Cell BY <2>1, CellFacts
   <2>3. heap[Operand].symbols[n] \in Value BY <1>2, <2>2 DEF Cell
   <2>4. QED BY <1>2, <2>3, GiveWorks
<1>3. ASSUME At("Get"), Free # {}, values' = Append(Rest, Fresh({})), Finish,
             UNCHANGED control
      PROVE  Disciplined
   BY <1>3, GiveBoundWorks
<1>4. ASSUME At("Get"), NEW n, values' = Rest, Raise("member", n) PROVE Disciplined
   BY <1>4, KeepsPopped, RaiseAborts DEF Awaiting
<1>5. ASSUME At("Get"), values' = Rest, Crash PROVE Disciplined
   BY <1>5, KeepsPopped, CrashHere DEF Awaiting
<1>6. QED BY <1>1, <1>2, <1>3, <1>4, <1>5, Zenon DEF GetExpression, PopValue

LEMMA SetExpressionWorks == ASSUME IInv, CInv, IInv', SetExpression PROVE Disciplined
<1>1. CASE BeginExpr("Set", "SetLhs") BY <1>1, BeginExprWorks DEF Awaiting
<1>2. ASSUME At("SetLhs"), PopValue, UNCHANGED <<cur, control>>,
             Visit([Top EXCEPT !.op = "SetRhs",
                               !.locals = <<IF Is(Operand, "instance") THEN Operand ELSE None>>],
                   "Expr")
      PROVE  Disciplined
   <2> DEFINE lhs == IF Is(Operand, "instance") THEN Operand ELSE None
              f == [Top EXCEPT !.op = "SetRhs", !.locals = <<lhs>>]
   <2>1. frames # <<>> /\ status = "running" /\ Top.op = "SetLhs" /\ Top \in Frame
      BY <1>2, AtFacts, TopIsFrame
   <2>2. lhs \in Value \cup {None} BY DEF Is, Value
   <2> HIDE DEF lhs
   <2>3. f \in Frame /\ f.op = "SetRhs" /\ f.base = Top.base
      <3>1. <<lhs>> \in Seq(Value \cup {None}) BY <2>2
      <3>2. QED BY <2>1, <3>1 DEF Frame, Ops, Awaiting
   <2>4. Keeps(values, values', Top.base) /\ status' # "idle"
      BY <1>2, KeepsPopped DEF control, Awaiting, PopValue
   <2> HIDE DEF f
   <2>5. Visit(f, "Expr") BY <1>2 DEF f, lhs
   <2>6. "Expr" \in Childless /\ f.op \notin Catchers /\ Top.op \notin Catchers
      BY <2>1, <2>3 DEF Childless, Catchers
   <2>7. QED BY <2>1, <2>3, <2>4, <2>5, <2>6, VisitWork
<1>3. ASSUME At("SetRhs"), UNCHANGED <<values, cur, control>>, Finish PROVE Disciplined
   <2>1. Keeps(values, values', Top.base) /\ status' # "idle"
      BY <1>3, KeepsHere DEF control
   <2>2. QED BY <1>3, <2>1, EndHere DEF Catchers
<1>4. ASSUME At("SetRhs"), PopValue, Crash PROVE Disciplined
   BY <1>4, KeepsPopped, CrashHere DEF Awaiting, PopValue
<1>5. QED BY <1>1, <1>2, <1>3, <1>4 DEF SetExpression

-----------------------------------------------------------------------------
(***************************************************************************)
(* Calls.                                                                  *)
(***************************************************************************)
\* The stack when the innermost activation goes on as f.
Becoming(f) == [frames EXCEPT ![Len(frames)] = f]

LEMMA BecomingCalls ==
    ASSUME IInv, CInv, frames # <<>>, NEW f \in Frame, f.base = Top.base
    PROVE  /\ Becoming(f) \in Seq(Frame) /\ Ordered(Becoming(f))
           /\ Becoming(f) # <<>> /\ Len(Becoming(f)) = Len(frames)
           /\ Len(frames) \in Nat \ {0}
           /\ \A i \in 1..Len(frames) :
                 Becoming(f)[i] = IF i = Len(frames) THEN f ELSE frames[i]
           /\ Becoming(f)[Len(Becoming(f))] = f
           /\ SameCalls(Becoming(f), Becoming(f))
<1> DEFINE fr == Becoming(f)
<1>1. Chain(frames) BY TopFacts
<1>2. /\ fr \in Seq(Frame) /\ Ordered(fr)
      /\ Len(fr) = Len(frames) /\ Len(frames) \in Nat \ {0}
      /\ \A i \in 1..Len(frames) : fr[i] = IF i = Len(frames) THEN f ELSE frames[i]
   BY <1>1, BecomeCalls DEF CInv, Top, Becoming
<1> HIDE DEF fr
<1>3. fr # <<>> /\ fr[Len(fr)] = f BY <1>2, EmptySeq
<1>4. SameCalls(fr, fr) BY DEF SameCalls
<1>5. QED BY <1>2, <1>3, <1>4 DEF fr

LEMMA CallFunctionWorks ==
    ASSUME IInv, CInv, IInv', At("Args"), UNCHANGED values, NEW params, CallFunction(params)
    PROVE  Disciplined
<1> DEFINE table == Fresh({})
           f == [Top EXCEPT !.op = "Body", !.prev = cur, !.scope = table]
<1>1. /\ frames # <<>> /\ status = "running" /\ Top.op = "Args" /\ Top \in Frame
      /\ Len(values) = Top.base /\ cur \in Ref
   BY CalleeFacts
<1>2. table \in Ref
   <2>1. Free \ {} # {} BY DEF CallFunction
   <2>2. QED BY <2>1, FreshFacts DEF Ref
<1> HIDE DEF table
<1>3. f \in Frame /\ f.op = "Body" /\ f.prev = cur /\ f.base = Top.base
   BY <1>1, <1>2 DEF Frame, Ops, Holders
<1> HIDE DEF f
<1>4. ASSUME Become(f), UNCHANGED control PROVE Disciplined
   <2>1. frames' = Becoming(f) BY <1>4 DEF Become, Becoming
   <2>2. SameCalls(Becoming(f), frames') /\ Ordered(frames')
      BY <1>1, <1>3, <2>1, BecomingCalls
   <2>3. /\ Keeps(values, values', Top.base) /\ Discipline!IsPrefix(values', values)
         /\ status' = "running"
      BY <1>4, KeepsHere DEF control
   <2>4. Top.op \notin Catchers /\ f.op \in Catchers BY <1>1, <1>3 DEF Catchers
   <2>5. QED BY <1>1, <1>3, <2>2, <2>3, <2>4, BecomingCalls, EnterStep
<1>5. ASSUME NEW unknown, Refuse(unknown) PROVE Disciplined
   BY <1>5, KeepsHere, RaiseAborts DEF Refuse
<1>6. QED BY <1>4, <1>5, Zenon DEF CallFunction, f, table

LEMMA CallClassWorks ==
    ASSUME IInv, CInv, IInv', At("Args"), UNCHANGED values, NEW params, CallClass(params)
    PROVE  Disciplined
<1> DEFINE outer == Fresh({})
           instance == Fresh({outer})
           constructor == Fresh({outer, instance})
           inner == Fresh({outer, instance, constructor})
           f == [Top EXCEPT !.op = "Body", !.prev = cur, !.scope = outer]
           g == [op |-> "Ctor", prev |-> outer, locals |-> <<instance, constructor>>,
                 at |-> outer, base |-> Len(values), scope |-> inner]
<1>1. /\ frames # <<>> /\ status = "running" /\ Top.op = "Args" /\ Top \in Frame
      /\ Len(values) = Top.base /\ cur \in Ref /\ IsFiniteSet(Free) /\ Top.base \in Nat
   BY CalleeFacts, AtFacts
<1>2. outer \in Addr /\ instance \in Addr /\ constructor \in Addr /\ inner \in Addr
   <2>1. Cardinality(Free) >= 4 BY DEF CallClass
   <2>2. /\ Free \ {} # {} /\ Free \ {outer} # {} /\ Free \ {outer, instance} # {}
         /\ Free \ {outer, instance, constructor} # {}
      BY <1>1, <2>1, FourAreFree
   <2>3. QED BY <2>2, FreshFacts
<1> HIDE DEF outer, instance, constructor, inner
<1>3. f \in Frame /\ f.op = "Body" /\ f.prev = cur /\ f.base = Top.base
   BY <1>1, <1>2 DEF Frame, Ops, Holders, Ref
<1>4. g \in Frame /\ g.op = "Ctor" /\ g.base = Top.base
   <2>1. <<instance, constructor>> \in Seq(Value \cup {None}) BY <1>2 DEF Value
   <2>2. QED BY <1>1, <1>2, <2>1 DEF Frame, Ops, Holders, Ref
<1> HIDE DEF f, g
<1>5. ASSUME frames' = Append(Becoming(f), g), UNCHANGED control PROVE Disciplined
   <2>1. /\ Becoming(f) \in Seq(Frame) /\ Ordered(Becoming(f)) /\ Becoming(f) # <<>>
         /\ Becoming(f)[Len(Becoming(f))].base <= g.base
      BY <1>1, <1>3, <1>4, BecomingCalls
   <2>2. g.op \notin Catchers BY <1>4 DEF Catchers
   <2>3. SameCalls(Becoming(f), frames') /\ Ordered(frames')
      BY <1>4, <1>5, <2>1, <2>2, PushCalls
   <2>4. /\ Keeps(values, values', Top.base) /\ Discipline!IsPrefix(values', values)
         /\ status' = "running"
      BY <1>5, KeepsHere DEF control
   <2>5. Top.op \notin Catchers /\ f.op \in Catchers BY <1>1, <1>3 DEF Catchers
   <2>6. QED BY <1>1, <1>3, <2>3, <2>4, <2>5, BecomingCalls, EnterStep
<1>6. ASSUME NEW unknown, Refuse(unknown) PROVE Disciplined
   BY <1>6, KeepsHere, RaiseAborts DEF Refuse
<1>7. QED BY <1>5, <1>6, Zenon DEF CallClass, Becoming, f, g, outer, instance, constructor, inner

LEMMA DispatchWorks == ASSUME IInv, CInv, IInv', At("Args"), Dispatch PROVE Disciplined
<1>1. CASE values' = Append(values, Plain) /\ Finish /\ UNCHANGED control
   <2>1. Keeps(values, values', Top.base) /\ status' # "idle"
      BY <1>1, KeepsHere DEF control, Value
   <2>2. QED BY <1>1, <2>1, EndHere DEF Catchers
<1>2. ASSUME UNCHANGED values, NEW kind, NEW n, Raise(kind, n) PROVE Disciplined
   BY <1>2, KeepsHere, RaiseAborts
<1>3. ASSUME UNCHANGED values, NEW params, CallFunction(params) PROVE Disciplined
   BY <1>3, CallFunctionWorks
<1>4. ASSUME UNCHANGED values, NEW params, CallClass(params) PROVE Disciplined
   BY <1>4, CallClassWorks
<1>5. ASSUME UNCHANGED values, Crash PROVE Disciplined
   BY <1>5, KeepsHere, CrashHere
<1>6. QED BY <1>1, <1>2, <1>3, <1>4, <1>5, Zenon DEF Dispatch

LEMMA ReturnHere ==
    ASSUME IInv, CInv, IInv', NEW op \in Catchers, At(op), NEW v \in Value, Return(v)
    PROVE  Disciplined
BY AtFacts, LeaveStep

LEMMA CallWorks == ASSUME IInv, CInv, IInv', Call PROVE Disciplined
<1>1. CASE BeginExpr("Call", "Callee") BY <1>1, BeginExprWorks DEF Awaiting
<1>2. ASSUME NEW op \in {"Callee", "Arg"}, At(op), PopValue, UNCHANGED <<cur, control>>,
             NEW f \in Frame, f.op = "Args", f.base = Top.base, Become(f)
      PROVE  Disciplined
   <2>1. /\ frames # <<>> /\ status = "running" /\ Top.op = op
         /\ Keeps(values, values', Top.base)
      BY <1>2, KeepsPopped DEF Awaiting, PopValue
   <2>2. Top.op \notin Catchers /\ f.op \notin Catchers /\ status' # "idle"
      BY <1>2, <2>1 DEF Catchers, control
   <2>3. QED BY <1>2, <2>1, <2>2, GoOnWork
<1>3. ASSUME At("Callee"), PopValue, UNCHANGED <<cur, control>>,
             Become([Top EXCEPT !.op = "Args", !.locals = <<Operand>>])
      PROVE  Disciplined
   <2> DEFINE v == Operand
              f == [Top EXCEPT !.op = "Args", !.locals = <<v>>]
   <2>1. Top \in Frame /\ v \in Value \cup {None} /\ "Args" \in Ops
      BY <1>3, AtFacts, TopIsFrame DEF Awaiting, Ops, Childless
   <2>2. Become(f) BY <1>3
   <2> HIDE DEF v
   <2>3. f \in Frame /\ f.op = "Args" /\ f.base = Top.base
      <3>1. <<v>> \in Seq(Value \cup {None}) BY <2>1 DEF Frame
      <3>2. QED BY <2>1, <3>1 DEF Frame
   <2> HIDE DEF f
   <2>4. QED BY <1>2, <1>3, <2>2, <2>3
<1>4. ASSUME At("Arg"), PopValue, UNCHANGED <<cur, control>>,
             Become([Top EXCEPT !.op = "Args", !.locals = Append(@, Operand)])
      PROVE  Disciplined
   <2> DEFINE v == Operand
              f == [Top EXCEPT !.op = "Args", !.locals = Append(@, v)]
   <2>1. Top \in Frame /\ v \in Value \cup {None} /\ "Args" \in Ops
      BY <1>4, AtFacts, TopIsFrame DEF Awaiting, Ops, Childless
   <2>2. Become(f) BY <1>4
   <2> HIDE DEF v
   <2>3. f \in Frame /\ f.op = "Args" /\ f.base = Top.base
      <3>1. Append(Top.locals, v) \in Seq(Value \cup {None}) BY <2>1 DEF Frame
      <3>2. QED BY <2>1, <3>1 DEF Frame
   <2> HIDE DEF f
   <2>4. QED BY <1>2, <1>4, <2>2, <2>3
<1>5. CASE At("Args") /\ UNCHANGED <<values, last, cur, control>> /\ Evaluate("Arg")
   <2>1. Keeps(values, values', Top.base) /\ status' # "idle"
      BY <1>5, KeepsHere DEF control
   <2>2. QED BY <1>5, <2>1, EvaluateHere DEF Awaiting, Catchers
<1>6. CASE At("Args") /\ Dispatch BY <1>6, DispatchWorks
<1>7. CASE At("Body") /\ Return(Plain) BY <1>7, ReturnHere DEF Catchers, Value
<1>8. QED BY <1>1, <1>3, <1>4, <1>5, <1>6, <1>7, Zenon DEF Call

LEMMA EndConstructorWorks == ASSUME IInv, CInv, IInv', EndConstructor PROVE Disciplined
<1>1. At("Ctor") /\ Finish /\ status' = "returning" /\ values' = values
   BY DEF EndConstructor, Throw
<1>2. Keeps(values, values', Top.base) BY <1>1, KeepsHere
<1>3. QED BY <1>1, <1>2, EndHere DEF Catchers

LEMMA AnonymousMethodWorks == ASSUME IInv, CInv, IInv', AnonymousMethod PROVE Disciplined
<1>1. CASE BeginExpr("AnonymousMethod", "AnonInst")
   BY <1>1, BeginExprWorks DEF Awaiting
<1> DEFINE method == Fresh({})
           table == Fresh({method})
           f == [Top EXCEPT !.op = "AnonBody", !.prev = cur, !.scope = table,
                            !.locals = <<Operand, method>>]
<1>2. ASSUME At("AnonInst"), Cardinality(Free) >= 2, PopValue, Become(f), UNCHANGED control
      PROVE  Disciplined
   <2>1. /\ frames # <<>> /\ status = "running" /\ Top.op = "AnonInst"
         /\ Operand \in Value /\ Len(Rest) = Top.base
         /\ Top \in Frame /\ cur \in Ref
      BY <1>2, AtFacts, TopIsFrame DEF Awaiting, Pending, IInv, DataOK, Frame
   <2>2. method \in Addr /\ table \in Addr
      <3>1. IsFiniteSet(Free) BY AddressesDistinct, FS_Subset DEF Free
      <3>2. Free \ {} # {} /\ Free \ {method} # {} BY <1>2, <3>1, TwoAreFree
      <3>3. QED BY <3>2, FreshFacts
   <2>3. Become(f) BY <1>2
   <2> HIDE DEF method, table
   <2>4. f \in Frame /\ f.op = "AnonBody" /\ f.prev = cur /\ f.base = Top.base
      <3>1. <<Operand, method>> \in Seq(Value \cup {None}) BY <2>1, <2>2 DEF Value
      <3>2. QED BY <2>1, <2>2, <3>1 DEF Frame, Ops, Holders, Ref
   <2> HIDE DEF f
   <2>5. SameCalls(Becoming(f), frames') /\ Ordered(frames')
      BY <2>1, <2>3, <2>4, BecomingCalls DEF Become, Becoming
   <2>6. /\ Keeps(values, values', Top.base) /\ Discipline!IsPrefix(values', values)
         /\ status' = "running"
      BY <1>2, <2>1, KeepsPopped DEF control, PopValue, Awaiting
   <2>7. Top.op \notin Catchers /\ f.op \in Catchers BY <2>1, <2>4 DEF Catchers
   <2>8. Len(values') = Top.base BY <1>2, <2>1 DEF PopValue
   <2>9. QED BY <2>1, <2>4, <2>5, <2>6, <2>7, <2>8, BecomingCalls, EnterStep
<1>3. ASSUME At("AnonInst"), PopValue, Crash PROVE Disciplined
   BY <1>3, KeepsPopped, CrashHere DEF Awaiting, PopValue
<1>4. CASE At("AnonBody") /\ Return(Top.locals[1])
   <2>1. Top.locals[1] \in Value BY <1>4, AtFacts DEF FrameOK, Catchers
   <2>2. QED BY <1>4, <2>1, ReturnHere DEF Catchers
<1>5. QED BY <1>1, <1>2, <1>3, <1>4, Zenon DEF AnonymousMethod

LEMMA InFlight ==
    ASSUME IInv, status = "returning"
    PROVE  frames # <<>> /\ thrown \in Value /\ Keeps(values, values, Top.base)
<1>1. frames # <<>> BY EmptySeq DEF IInv, StackOK
<1>2. thrown \in Value BY DEF IInv, ControlOK
<1>3. QED BY <1>1, <1>2, KeepsAll

LEMMA CatchWorks == ASSUME IInv, CInv, IInv', Catch PROVE Disciplined
BY InFlight, LeaveStep DEF Catch

LEMMA UnwindWorks == ASSUME IInv, CInv, IInv', Unwind PROVE Disciplined
<1>1. /\ status = "returning" /\ Top.op \notin Catchers /\ Finish
      /\ values' = values /\ status' = status
   BY DEF Unwind, control
<1>2. frames # <<>> /\ Keeps(values, values', Top.base) BY <1>1, InFlight
<1>3. QED BY <1>1, <1>2, EndWork

LEMMA EscapeWorks == ASSUME IInv, CInv, IInv', Escape PROVE Disciplined
<1>1. /\ status = "returning" /\ Top.op = "Program" /\ Finish /\ values' = values
      /\ Top.op \notin Catchers
   BY DEF Escape, Catchers
<1>2. frames # <<>> /\ Keeps(values, values', Top.base) BY <1>1, InFlight
<1>3. QED BY <1>1, <1>2, EndWork

LEMMA BadAllocWorks == ASSUME IInv, CInv, IInv', BadAlloc PROVE Disciplined
<1>1. ASSUME At("Args"), UNCHANGED values, Raise("other", None) PROVE Disciplined
   BY <1>1, KeepsHere, RaiseAborts
<1>2. ASSUME NEW op \in {"Get", "AnonInst"}, At(op), PopValue, Raise("other", None)
      PROVE  Disciplined
   BY <1>2, KeepsPopped, RaiseAborts DEF Awaiting, PopValue
<1>3. QED BY <1>1, <1>2 DEF BadAlloc

-----------------------------------------------------------------------------
(***************************************************************************)
(* Statements.                                                             *)
(***************************************************************************)
LEMMA StatementHere ==
    ASSUME IInv, AtStatement
    PROVE  /\ frames # <<>> /\ status = "running" /\ Top.op \notin Catchers
           /\ Top \in Frame /\ cur \in Ref /\ Keeps(values, values, Top.base)
<1>1. /\ frames # <<>> /\ status = "running" /\ Top.op \in {"Statement", "Declaration"}
      /\ Top \in Frame /\ cur \in Ref
   BY StatementFacts
<1>2. QED BY <1>1, KeepsAll DEF Catchers

LEMMA BeginStatementWorks ==
    ASSUME IInv, CInv, IInv', NEW kind, NEW op \in Awaiting, BeginStatement(kind, op)
    PROVE  Disciplined
<1>1. AtStatement /\ values' = values /\ status' = status /\ Evaluate(op)
   BY DEF BeginStatement, control
<1>2. QED BY <1>1, StatementHere, EvaluateWork

\* A statement that is over, with its operand popped.
LEMMA EndPopped ==
    ASSUME IInv, CInv, IInv', NEW op \in Awaiting, At(op), PopValue, Finish, status' # "idle"
    PROVE  Disciplined
<1>1. Keeps(values, values', Top.base) BY KeepsPopped DEF PopValue
<1>2. QED BY <1>1, EndHere DEF Awaiting, Catchers

LEMMA RaisePopped ==
    ASSUME IInv, NEW op \in Awaiting, At(op), PopValue, NEW kind, NEW n, Raise(kind, n)
    PROVE  Disciplined
BY KeepsPopped, RaiseAborts DEF PopValue

LEMMA EndUnpopped ==
    ASSUME IInv, CInv, IInv', AtStatement, UNCHANGED values, Finish, status' # "idle"
    PROVE  Disciplined
<1>1. /\ frames # <<>> /\ status = "running" /\ Top.op \notin Catchers
      /\ Keeps(values, values', Top.base)
   BY StatementHere
<1>2. QED BY <1>1, EndWork

LEMMA Running == ASSUME NEW op, At(op) \/ AtStatement, UNCHANGED control
                 PROVE  status' # "idle"
BY DEF At, AtStatement, control

LEMMA ExpressionStatementWorks ==
    ASSUME IInv, CInv, IInv', ExpressionStatement PROVE Disciplined
<1>1. CASE BeginStatement("ExpressionStatement", "ExprStmt")
   BY <1>1, BeginStatementWorks DEF Awaiting
<1>2. CASE At("ExprStmt") /\ PopValue /\ Finish /\ UNCHANGED control
   BY <1>2, Running, EndPopped DEF Awaiting
<1>3. QED BY <1>1, <1>2 DEF ExpressionStatement

LEMMA IfStatementWorks == ASSUME IInv, CInv, IInv', IfStatement PROVE Disciplined
<1>1. CASE BeginStatement("If", "If") BY <1>1, BeginStatementWorks DEF Awaiting
<1>2. CASE At("If") /\ PopValue /\ Finish /\ UNCHANGED control
   BY <1>2, Running, EndPopped DEF Awaiting
<1>3. CASE At("If") /\ PopValue /\ Raise("other", None)
   BY <1>3, RaisePopped DEF Awaiting
<1>4. ASSUME At("If"), PopValue, Become([Top EXCEPT !.op = "Statement"]), UNCHANGED control
      PROVE  Disciplined
   <2> DEFINE f == [Top EXCEPT !.op = "Statement"]
   <2>1. /\ frames # <<>> /\ status = "running" /\ Top.op = "If" /\ Top \in Frame
         /\ Keeps(values, values', Top.base) /\ status' # "idle"
      BY <1>4, KeepsPopped, TopIsFrame, Running DEF Awaiting, PopValue
   <2>2. f \in Frame /\ f.op = "Statement" /\ f.base = Top.base
      BY <2>1, SameBase DEF Ops, Childless
   <2>3. Become(f) BY <1>4
   <2> HIDE DEF f
   <2>4. f.op \notin Catchers /\ Top.op \notin Catchers BY <2>1, <2>2 DEF Catchers
   <2>5. QED BY <2>1, <2>2, <2>3, <2>4, GoOnWork
<1>5. QED BY <1>1, <1>2, <1>3, <1>4 DEF IfStatement

LEMMA LoopWorks == ASSUME IInv, CInv, IInv', Loop PROVE Disciplined
<1>1. CASE BeginStatement("Loop", "LoopCond") BY <1>1, BeginStatementWorks DEF Awaiting
<1>2. CASE At("LoopCond") /\ PopValue /\ Finish /\ UNCHANGED control
   BY <1>2, Running, EndPopped DEF Awaiting
<1>3. CASE At("LoopCond") /\ PopValue /\ Raise("other", None)
   BY <1>3, RaisePopped DEF Awaiting
<1>4. ASSUME At("LoopCond"), PopValue, UNCHANGED control,
             Visit([Top EXCEPT !.op = "LoopBody"], "Statement")
      PROVE  Disciplined
   <2> DEFINE f == [Top EXCEPT !.op = "LoopBody"]
   <2>1. /\ frames # <<>> /\ status = "running" /\ Top.op = "LoopCond" /\ Top \in Frame
         /\ Keeps(values, values', Top.base) /\ status' # "idle"
      BY <1>4, KeepsPopped, TopIsFrame, Running DEF Awaiting, PopValue
   <2>2. f \in Frame /\ f.op = "LoopBody" /\ f.base = Top.base
      BY <2>1, SameBase DEF Ops, Holders
   <2>3. Visit(f, "Statement") BY <1>4
   <2> HIDE DEF f
   <2>4. f.op \notin Catchers /\ Top.op \notin Catchers /\ "Statement" \in Childless
      BY <2>1, <2>2 DEF Catchers, Childless
   <2>5. QED BY <2>1, <2>2, <2>3, <2>4, VisitWork
<1>5. CASE At("LoopBody") /\ UNCHANGED values /\ UNCHANGED control /\ Evaluate("LoopCond")
   <2>1. Keeps(values, values', Top.base) /\ status' # "idle"
      BY <1>5, KeepsHere, Running
   <2>2. QED BY <1>5, <2>1, EvaluateHere DEF Awaiting, Catchers
<1>6. QED BY <1>1, <1>2, <1>3, <1>4, <1>5 DEF Loop

LEMMA VarDeclWorks == ASSUME IInv, CInv, IInv', VarDecl PROVE Disciplined
<1>1. CASE BeginStatement("VarDecl", "VarDecl") BY <1>1, BeginStatementWorks DEF Awaiting
<1>2. CASE At("Declaration") /\ Finish /\ UNCHANGED values /\ UNCHANGED control
   BY <1>2, Running, EndUnpopped DEF AtStatement
<1>3. CASE At("VarDecl") /\ PopValue /\ Finish /\ UNCHANGED control
   BY <1>3, Running, EndPopped DEF Awaiting
<1>4. QED BY <1>1, <1>2, <1>3 DEF VarDecl

LEMMA StatementBlockWorks == ASSUME IInv, CInv, IInv', StatementBlock PROVE Disciplined
<1> DEFINE table == Fresh({})
           f == [Top EXCEPT !.op = "Block", !.prev = cur, !.scope = table]
<1>1. ASSUME AtStatement, Free # {}, Become(f), UNCHANGED values, UNCHANGED control
      PROVE  Disciplined
   <2>1. /\ frames # <<>> /\ Top.op \notin Catchers /\ Top \in Frame /\ cur \in Ref
         /\ Keeps(values, values', Top.base) /\ status' # "idle"
      BY <1>1, StatementHere, Running
   <2>2. table \in Ref
      <3>1. Free \ {} # {} BY <1>1
      <3>2. QED BY <3>1, FreshFacts DEF Ref
   <2>3. Become(f) BY <1>1
   <2> HIDE DEF table
   <2>4. f \in Frame /\ f.op = "Block" /\ f.base = Top.base
      BY <2>1, <2>2 DEF Frame, Ops, Holders
   <2> HIDE DEF f
   <2>5. f.op \notin Catchers BY <2>4 DEF Catchers
   <2>6. QED BY <2>1, <2>3, <2>4, <2>5, GoOnWork
<1>2. CASE At("Block") /\ Finish /\ UNCHANGED values /\ UNCHANGED control
   <2>1. Keeps(values, values', Top.base) /\ status' # "idle"
      BY <1>2, KeepsHere, Running
   <2>2. QED BY <1>2, <2>1, EndHere DEF Catchers
<1>3. QED BY <1>1, <1>2, Zenon DEF StatementBlock

LEMMA ReturnStatementWorks == ASSUME IInv, CInv, IInv', ReturnStatement PROVE Disciplined
<1>1. CASE BeginStatement("Return", "Return") BY <1>1, BeginStatementWorks DEF Awaiting
<1>2. CASE AtStatement /\ Throw(Plain) /\ UNCHANGED values
   BY <1>2, EndUnpopped DEF Throw
<1>3. CASE At("Return") /\ PopValue /\ Throw(Operand)
   BY <1>3, EndPopped DEF Throw, Awaiting
<1>4. QED BY <1>1, <1>2, <1>3 DEF ReturnStatement

LEMMA DeclarationWorks ==
    ASSUME IInv, CInv, IInv', FunctionDeclaration \/ ClassDeclaration PROVE Disciplined
<1>1. At("Declaration") /\ Finish /\ UNCHANGED values /\ UNCHANGED control
   BY DEF FunctionDeclaration, ClassDeclaration
<1>2. QED BY <1>1, Running, EndUnpopped DEF AtStatement

LEMMA NextStatementWorks == ASSUME IInv, CInv, IInv', NextStatement PROVE Disciplined
<1>1. /\ status = "running" /\ frames # <<>> /\ UNCHANGED values /\ status' = status
      /\ Visit(Top, "Declaration")
   BY DEF NextStatement, control
<1>2. Top \in Frame /\ Keeps(values, values', Top.base) BY <1>1, TopIsFrame, KeepsAll
<1> DEFINE fr == Becoming(Top)
<1>3. /\ fr \in Seq(Frame) /\ Ordered(fr) /\ fr # <<>> /\ Len(fr) = Len(frames)
      /\ \A i \in 1..Len(frames) : fr[i] = IF i = Len(frames) THEN Top ELSE frames[i]
      /\ fr[Len(fr)] = Top
   BY <1>1, <1>2, BecomingCalls
<1>4. frames' = Append(fr, Activation("Declaration")) BY <1>1 DEF Visit, Becoming
<1> HIDE DEF fr
<1>5. \A i \in 1..Len(frames) : fr[i] = frames[i] BY <1>3 DEF Top
<1>6. SameCalls(frames, fr) BY <1>3, <1>5 DEF SameCalls
<1>7. QED BY <1>1, <1>2, <1>3, <1>4, <1>6, ChildWork DEF Childless

-----------------------------------------------------------------------------
(***************************************************************************)
(* The interpreter.                                                        *)
(***************************************************************************)
LEMMA InterpretWorks == ASSUME IInv, CInv, IInv', Interpret PROVE Disciplined
<1> DEFINE g == Activation("Program")
<1>1. frames = <<>> /\ values' = values /\ status' = "running" /\ frames' = <<g>>
   BY DEF Interpret, CInv
<1>2. g.op = "Program" BY DEF Activation
<1> HIDE DEF g
<1>3. Len(frames) = 0 /\ Len(frames') = 1 /\ frames'[1] = g BY <1>1, EmptySeq
<1>4. g.base \in Nat
   <2>1. frames' \in Seq(Frame) BY DEF IInv, StackOK, Chain
   <2>2. frames'[1] \in Frame BY <1>3, <2>1, ElementOfSeq
   <2>3. QED BY <1>3, <2>2 DEF Frame
<1>5. Ordered(frames') BY <1>3, <1>4 DEF Ordered
<1>6. SameCalls(frames, frames') BY <1>2, <1>3 DEF SameCalls, Catchers
<1>7. /\ values \in Seq(Value) /\ values' \in Seq(Value)
      /\ frames \in Seq(Frame) /\ frames' \in Seq(Frame)
   BY DEF IInv, DataOK, StackOK, Chain
<1>8. \A i \in 1..Len(frames) : FALSE BY <1>3
<1>9. Discipline!Work BY <1>6, <1>7, <1>8, WorkStep
<1>10. QED BY <1>1, <1>5, <1>9 DEF Disciplined, CInv, Discipline!Next

LEMMA EndProgramWorks == ASSUME IInv, CInv, IInv', EndProgram PROVE Disciplined
<1>1. At("Program") /\ Finish /\ values' = values BY DEF EndProgram
<1>2. /\ Keeps(values, values', Top.base) /\ frames # <<>> /\ Top.op = "Program"
      /\ Top.op \notin Catchers
   BY <1>1, KeepsHere, AtFacts DEF Catchers
<1>3. QED BY <1>1, <1>2, EndWork

LEMMA QuitWorks == ASSUME IInv, CInv, Quit PROVE Disciplined
BY DEF Quit, Disciplined, vars, CInv

LEMMA StepWorks == ASSUME IInv, CInv, IInv', Step PROVE Disciplined
BY LiteralWorks, IdentifierWorks, BinaryOpWorks, UnaryWorks, LogicOpWorks,
   AssignmentWorks, GetExpressionWorks, SetExpressionWorks, CallWorks,
   AnonymousMethodWorks, ExpressionStatementWorks, IfStatementWorks, LoopWorks,
   VarDeclWorks, StatementBlockWorks, ReturnStatementWorks, DeclarationWorks,
   NextStatementWorks, EndConstructorWorks, CatchWorks, UnwindWorks, EscapeWorks,
   BadAllocWorks, EndProgramWorks, Zenon
   DEF Step

LEMMA NextWorks == ASSUME IInv, CInv, IInv', Next PROVE Disciplined
BY InterpretWorks, StepWorks, QuitWorks, Zenon DEF Next

LEMMA NothingMoves ==
    ASSUME UNCHANGED vars PROVE UNCHANGED Discipline!callVars
<1>1. frames' = frames /\ values' = values /\ cur' = cur BY DEF vars
<1>2. InCalls' = InCalls BY <1>1 DEF InCalls
<1>3. QED BY <1>1, <1>2 DEF Discipline!callVars

\* A call, an anonymous method and a constructor, however they end, give back
\* the scope and the operands they found and one value: every behaviour of the
\* interpreter is a behaviour of CallDiscipline.
THEOREM CallsKeepTheDiscipline == Spec => KeepsCallDiscipline
<1>1. Init => CInv /\ Discipline!Init
   <2> SUFFICES ASSUME Init PROVE CInv /\ Discipline!Init OBVIOUS
   <2>1. frames = <<>> /\ values = <<>> /\ cur = Globals BY DEF Init
   <2>2. CInv
      <3>1. \A i \in 1..Len(<<>>) : FALSE BY EmptySeq
      <3>2. QED BY <2>1, <3>1 DEF CInv, Ordered
   <2>3. InCalls = {}
      <3>1. DOMAIN <<>> = {} OBVIOUS
      <3>2. QED BY <2>1, <3>1 DEF InCalls
   <2>4. Discipline!Init BY <2>1, <2>3 DEF Discipline!Init
   <2>5. QED BY <2>2, <2>4
<1>2. IInv /\ IInv' /\ CInv /\ [Next]_vars
         => CInv' /\ [Discipline!Next]_(Discipline!callVars)
   <2> SUFFICES ASSUME IInv, IInv', CInv, [Next]_vars
                PROVE  CInv' /\ [Discipline!Next]_(Discipline!callVars)
      OBVIOUS
   <2>1. CASE Next
      <3>1. Disciplined BY <2>1, NextWorks
      <3>2. QED BY <3>1, NothingMoves DEF Disciplined
   <2>2. CASE UNCHANGED vars
      <3>1. CInv' BY <2>2 DEF vars, CInv
      <3>2. QED BY <2>2, <3>1, NothingMoves
   <2>3. QED BY <2>1, <2>2
<1>3. QED BY <1>1, <1>2, InvariantHolds, PTL
          DEF Spec, KeepsCallDiscipline, Discipline!Spec
=============================================================================
