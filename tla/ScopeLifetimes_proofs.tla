----------------------- MODULE ScopeLifetimes_proofs -----------------------
(***************************************************************************)
(* Proofs of ScopesIntact: no table that code is running in, and no table  *)
(* right above one, is destroyed under it, although tables hold their      *)
(* parents only weakly.  And of OnlyKnotsLeak: what nothing reaches is     *)
(* destroyed, but for the knots a script ties.                             *)
(*                                                                         *)
(* The argument is about who holds what.  Nothing strongly referred to is  *)
(* destroyed (HeapClosed), nor what the C++ stack, m_values or the         *)
(* interpreter hold.  A table that an activation runs in is m_symbolTable  *)
(* or the prevSymbolTable of a later activation (ScopeHeld), and what is   *)
(* above it is held by the locals of the activation that entered it        *)
(* (Intact).  A return leaves m_symbolTable in the innermost table while   *)
(* it unwinds; then only what is below the call that catches it counts     *)
(* (Protected).  Everything else is destroyed (NothingUnheld), and cells   *)
(* refer to cells of certain kinds only (Kinds), so what may hold itself   *)
(* is known.                                                               *)
(***************************************************************************)
EXTENDS InterpreterVisitor_proofs

Live(h, v) == v \in Ref => h[v].tag # "free"

\* If v is a reference it is one that a script can have: no symbol table.
Object(h, v) == v \in Ref => h[v].tag \in {"function", "class", "instance"}

\* What cell c refers to is of its kind: names are given objects, and what is
\* bound is an instance, in a cell that has no other closure; a table holds no
\* other table.  Only a table, and what a script assigns, has other symbols.
Kinds(c, h) ==
    /\ \A n \in Names : Object(h, c.symbols[n])
    /\ c.bound \in Ref => /\ h[c.bound].tag = "instance"
                          /\ c.tag = "function" /\ c.link \notin Ref
    /\ c.tag = "table" => c.link \notin Ref
    /\ c.tag = "instance" => h[c.link].tag = "class"
    /\ c.tag # "table" => \A n \in Names \ OwnNames : c.symbols[n] \in {None, c.bound}

\* A cell that is free holds nothing, and no other refers to it.
HeapClosed(h) ==
    /\ h[Globals].tag = "table"
    /\ \A a \in Ref :
          /\ h[a].tag = "free" => h[a].symbols = NoSymbols
          /\ h[a].tag = "class" /\ h[a].methods # NoSymbols => h[a].link \in Ref
          /\ \A v \in Ref : Holds(h[a], v) => Live(h, v)
          /\ h[a].tag # "free" => Kinds(h[a], h)

FrameLive(f, h) == /\ Live(h, f.prev)
                   /\ \A j \in DOMAIN f.locals : Object(h, f.locals[j])

\* When activation j has a scope of its own, the scope of activation i below
\* it is the previous table of j or of an activation between the two.
ScopeHeld(fr, c, st) ==
    /\ \A i, j \in 1..Len(fr) :
          i < j /\ fr[j].op \in ScopeOps =>
              \E k \in 1..Len(fr) : /\ i < k /\ k <= j
                                    /\ fr[k].op \in ScopeOps
                                    /\ fr[k].prev = fr[i].scope
    /\ st = "running" =>
          \A i \in 1..Len(fr) : \/ fr[i].scope = c
                                \/ \E j \in 1..Len(fr) : i < j /\ fr[j].op \in ScopeOps

\* Activation i goes on, now or after the return that is under way.
Protected(fr, st, i) == \/ st = "running"
                        \/ \E j \in 1..Len(fr) : i < j /\ fr[j].op \in Catchers

\* ParentOf, in any heap.
Parent(f, h) ==
    IF f.op = "Block" THEN f.prev
    ELSE IF f.op # "Body" THEN f.locals[2]
    ELSE IF h[f.locals[1]].tag = "class" THEN h[f.locals[1]].link
    ELSE IF h[f.locals[1]].bound # None THEN f.locals[1]
    ELSE IF h[f.locals[1]].link # None THEN h[f.locals[1]].link ELSE Globals

Intact(f, h) ==
    /\ h[f.scope].tag = "table"
    /\ h[f.scope].parent = Parent(f, h)
    /\ Parent(f, h) \in Ref
    /\ f.op = "Body" => f.locals[1] \in Addr
    /\ f.op \in {"Ctor", "AnonBody"} => /\ 2 \in DOMAIN f.locals
                                        /\ h[f.locals[2]].tag = "function"
                                        /\ h[f.locals[2]].bound = f.locals[1]
                                        /\ h[f.locals[2]].parent = Globals
                                        /\ h[f.locals[2]].symbols[This] # None

FramesOK(fr, c, st, h) ==
    /\ Live(h, c)
    /\ \A i \in 1..Len(fr) : FrameLive(fr[i], h)
    /\ ScopeHeld(fr, c, st)
    /\ \A i \in 1..Len(fr) :
          fr[i].op \in ScopeOps /\ Protected(fr, st, i) => Intact(fr[i], h)

OperandsLive(vs, l, t, h) ==
    Object(h, l) /\ Object(h, t) /\ \A i \in 1..Len(vs) : Object(h, vs[i])

\* Whatever is still there is held.
NothingUnheld ==
    \A a \in Ref \ Roots : heap[a].tag # "free" => \E b \in Ref : Holds(heap[b], a)

LInv == /\ NothingUnheld
        /\ HeapClosed(heap)
        /\ FramesOK(frames, cur, status, heap)
        /\ OperandsLive(values, last, thrown, heap)

-----------------------------------------------------------------------------
(***************************************************************************)
(* Reference counting.                                                     *)
(***************************************************************************)

\* Everything a destructor leaves: what is held from outside the heap, and all
\* that it holds; and no more than what one or the other of these holds.
LEMMA RetainFacts ==
    ASSUME NEW new, HeapClosed(new), Retain(new),
           \A v \in Roots' : Live(new, v)
    PROVE  \E kept \in SUBSET Ref :
              /\ heap' = Keeping(new, kept)
              /\ Ref \cap Roots' \subseteq kept
              /\ \A a \in kept : new[a].tag # "free"
              /\ \A a \in kept, b \in Ref : Holds(new[a], b) => b \in kept
              /\ \A a \in kept \ Roots' : \E b \in kept : Holds(new[b], a)
<1> DEFINE rooted == Ref \cap Roots'
           others == Unrooted(new, rooted)
           heldBy == HeldBy(new, rooted, others)
           Closed(X) == \A a \in X : heldBy[a] \cap (rooted \cup X) # {}
           kept == rooted \cup Surviving(rooted, heldBy)
<1>1. heap' = Keeping(new, kept) BY Zenon DEF Retain
<1>2. /\ others = {a \in Ref \ rooted : new[a].tag # "free"}
      /\ heldBy = [a \in others |-> {b \in rooted \cup others : Holds(new[b], a)}]
   BY DEF Unrooted, HeldBy
<1> HIDE DEF others, heldBy
<1>3. Surviving(rooted, heldBy) = UNION {X \in SUBSET others : Closed(X)}
   BY <1>2 DEF Surviving
<1>4. Surviving(rooted, heldBy) \subseteq others BY <1>3
<1>5. \A a \in kept : new[a].tag # "free" BY <1>2, <1>4 DEF Live
<1>6. ASSUME NEW a \in kept, NEW b \in Ref, Holds(new[a], b) PROVE b \in kept
   <2>1. a \in Ref /\ a \in rooted \cup others BY <1>2, <1>4
   <2>2. new[b].tag # "free" BY <1>6, <2>1 DEF HeapClosed, Live
   <2>3. CASE b \in rooted BY <2>3
   <2>4. CASE b \notin rooted
      <3>1. b \in others BY <1>2, <2>2, <2>4
      <3>2. a \in heldBy[b] BY <1>2, <1>6, <2>1, <3>1
      <3>3. \E X \in SUBSET others : Closed(X) /\ a \in rooted \cup X
         <4>1. CASE a \in rooted
            <5>1. Closed({}) /\ {} \in SUBSET others OBVIOUS
            <5>2. QED BY <4>1, <5>1
         <4>2. CASE a \in Surviving(rooted, heldBy) BY <1>3, <4>2
         <4>3. QED BY <4>1, <4>2
      <3>4. PICK X \in SUBSET others : Closed(X) /\ a \in rooted \cup X BY <3>3
      <3>5. ASSUME NEW x \in X \cup {b} PROVE heldBy[x] \cap (rooted \cup (X \cup {b})) # {}
         <4>1. CASE x \in X BY <3>4, <4>1
         <4>2. CASE x = b BY <3>2, <3>4, <4>2
         <4>3. QED BY <4>1, <4>2
      <3> DEFINE Y == X \cup {b}
      <3>6. Y \in SUBSET others /\ Closed(Y) /\ b \in Y BY <3>1, <3>4, <3>5
      <3> HIDE DEF Y, Closed
      <3>7. b \in Surviving(rooted, heldBy) BY <1>3, <3>6
      <3>8. QED BY <3>7
   <2>5. QED BY <2>3, <2>4
<1>7. kept \in SUBSET Ref BY <1>2, <1>4
<1>8. Ref \cap Roots' \subseteq kept OBVIOUS
<1>9. ASSUME NEW a \in kept, a \notin Roots' PROVE \E b \in kept : Holds(new[b], a)
   <2>1. PICK X \in SUBSET others : Closed(X) /\ a \in X BY <1>3, <1>9
   <2>2. PICK b \in rooted \cup X : b \in heldBy[a] BY <2>1
   <2>3. Holds(new[b], a) BY <1>2, <2>1, <2>2
   <2>4. b \in kept BY <1>3, <2>1, <2>2
   <2>5. QED BY <2>3, <2>4
<1> HIDE DEF kept
<1>10. QED BY <1>1, <1>5, <1>6, <1>7, <1>8, <1>9

LEMMA KeepingFacts ==
    ASSUME NEW h, HeapOK(h), NEW kept \in SUBSET Ref, NEW a \in Ref
    PROVE  /\ a \notin kept => Keeping(h, kept)[a] = FreeCell
           /\ a \in kept =>
                 /\ Keeping(h, kept)[a].tag = h[a].tag
                 /\ Keeping(h, kept)[a].link = h[a].link
                 /\ Keeping(h, kept)[a].bound = h[a].bound
                 /\ Keeping(h, kept)[a].symbols = h[a].symbols
                 /\ Keeping(h, kept)[a].methods = h[a].methods
                 /\ h[a].parent \in kept => Keeping(h, kept)[a].parent = h[a].parent
                 /\ \A v : Holds(Keeping(h, kept)[a], v) <=> Holds(h[a], v)
<1>1. h[a] \in Cell BY DEF HeapOK
<1>2. ASSUME a \in kept
      PROVE  Keeping(h, kept)[a] = [h[a] EXCEPT !.parent = IF @ \in kept THEN @ ELSE None]
   BY <1>2 DEF Keeping
<1>3. a \notin kept => Keeping(h, kept)[a] = FreeCell BY DEF Keeping
<1>4. ASSUME a \in kept
      PROVE  /\ Keeping(h, kept)[a].tag = h[a].tag
             /\ Keeping(h, kept)[a].link = h[a].link
             /\ Keeping(h, kept)[a].bound = h[a].bound
             /\ Keeping(h, kept)[a].symbols = h[a].symbols
             /\ Keeping(h, kept)[a].methods = h[a].methods
             /\ h[a].parent \in kept => Keeping(h, kept)[a].parent = h[a].parent
   BY <1>1, <1>2, <1>4 DEF Cell
<1>5. QED BY <1>3, <1>4, Zenon DEF Holds

\* What the C++ activation f refers to.
LEMMA LocalsOf ==
    ASSUME NEW f, FrameOK(f)
    PROVE  /\ f.scope \in Ref /\ f.at \in Ref /\ f.prev \in Ref \cup {None}
           /\ f.op \in ScopeOps => f.prev \in Ref /\ f.prev = f.at
           /\ f.locals \in Seq(Value \cup {None})
           /\ f.op \in Catchers \cup {"Ctor", "Args", "Arg"} =>
                 1 \in DOMAIN f.locals /\ f.locals[1] \in Value
<1>1. f \in Frame /\ f.locals \in Seq(Value \cup {None}) BY DEF FrameOK, Frame
<1>2. f.locals # <<>> => 1 \in DOMAIN f.locals
   BY <1>1, EmptySeq, LenProperties
<1>3. QED BY <1>1, <1>2 DEF FrameOK, Frame

\* The tables around an activation outlive a destructor if what the activation
\* refers to does.
LEMMA IntactKept ==
    ASSUME NEW h, HeapOK(h), NEW kept \in SUBSET Ref, Globals \in kept,
           \A a \in kept, b \in Ref : Holds(h[a], b) => b \in kept,
           NEW f, FrameOK(f), f.op \in ScopeOps, Intact(f, h),
           f.scope \in kept, f.prev \in kept,
           \A j \in DOMAIN f.locals : f.locals[j] \in Ref => f.locals[j] \in kept
    PROVE  Intact(f, Keeping(h, kept))
<1> DEFINE k == Keeping(h, kept)
           g == f.locals[1]
<1>1. \A a \in kept : /\ k[a].tag = h[a].tag /\ k[a].link = h[a].link
                      /\ k[a].bound = h[a].bound /\ k[a].symbols = h[a].symbols
                      /\ h[a].parent \in kept => k[a].parent = h[a].parent
   BY KeepingFacts
<1> HIDE DEF k
<1>2. f.op = "Body" => g \in kept /\ g \in Addr
   BY LocalsOf DEF Intact, Catchers, Ref
<1>3. f.op \in {"Ctor", "AnonBody"} => f.locals[2] \in kept /\ 2 \in DOMAIN f.locals
   BY DEF Intact, ScopeOps, Ref, Parent
<1>4. Parent(f, h) \in kept
   <2>1. CASE f.op = "Block" BY <2>1 DEF Parent
   <2>2. CASE f.op \in {"Ctor", "AnonBody"} BY <1>3, <2>2 DEF Parent
   <2>3. CASE f.op = "Body"
      <3>1. Holds(h[g], h[g].link) BY Zenon DEF Holds
      <3>2. h[g].link \in Ref => h[g].link \in kept BY <1>2, <2>3, <3>1
      <3>3. Parent(f, h) \in Ref BY DEF Intact
      <3>4. QED BY <1>2, <2>3, <3>2, <3>3 DEF Parent
   <2>4. QED BY <2>1, <2>2, <2>3 DEF ScopeOps, Catchers
<1>5. Parent(f, k) = Parent(f, h)
   BY <1>1, <1>2 DEF Parent
<1>6. k[f.scope].tag = "table" /\ k[f.scope].parent = Parent(f, k)
   BY <1>1, <1>4, <1>5 DEF Intact
<1>7. ASSUME f.op \in {"Ctor", "AnonBody"}
      PROVE  /\ k[f.locals[2]].tag = "function" /\ k[f.locals[2]].bound = f.locals[1]
             /\ k[f.locals[2]].parent = Globals /\ k[f.locals[2]].symbols[This] # None
   BY <1>1, <1>3, <1>7 DEF Intact
<1>8. QED BY <1>3, <1>5, <1>6, <1>7 DEF Intact, k

LEMMA RootsAre ==
    ASSUME frames' \in Seq(Frame), values' \in Seq(Value)
    PROVE  /\ {Globals, cur', last', thrown'} \subseteq Roots'
           /\ \A i \in 1..Len(values') : values'[i] \in Roots'
           /\ \A i \in 1..Len(frames') :
                 /\ frames'[i].prev \in Roots'
                 /\ \A j \in DOMAIN frames'[i].locals : frames'[i].locals[j] \in Roots'
           /\ \A v \in Roots' :
                 \/ v \in {Globals, cur', last', thrown'}
                 \/ \E i \in 1..Len(values') : v = values'[i]
                 \/ \E i \in 1..Len(frames') :
                       v = frames'[i].prev \/ \E j \in DOMAIN frames'[i].locals : v = frames'[i].locals[j]
<1>1. DOMAIN values' = 1..Len(values') /\ DOMAIN frames' = 1..Len(frames') BY LenProperties
<1>2. QED BY <1>1 DEF Roots

\* The scope of an activation that goes on is held by the C++ stack.
LEMMA ScopeIsHeld ==
    ASSUME NEW fr, NEW c, NEW st, ScopeHeld(fr, c, st),
           NEW i \in 1..Len(fr), Protected(fr, st, i)
    PROVE  \/ fr[i].scope = c
           \/ \E k \in 1..Len(fr) : fr[k].prev = fr[i].scope
<1>1. CASE fr[i].scope = c BY <1>1
<1>2. CASE \E j \in 1..Len(fr) : i < j /\ fr[j].op \in ScopeOps
   BY <1>2 DEF ScopeHeld
<1>3. QED BY <1>1, <1>2, Zenon DEF ScopeHeld, Protected, ScopeOps

LEMMA ObjectIsLive ==
    ASSUME NEW h, NEW v, Object(h, v)
    PROVE  Live(h, v)
BY DEF Object, Live

\* A cell is of its kind in any heap where what it refers to is what it was.
LEMMA KindsMoved ==
    ASSUME NEW c, NEW k, NEW h, NEW n, Kinds(c, h),
           k.tag = c.tag, k.link = c.link, k.bound = c.bound, k.symbols = c.symbols,
           c.tag = "instance" => c.link \in Ref,
           \A v \in Ref : Holds(c, v) => n[v].tag = h[v].tag
    PROVE  Kinds(k, n)
<1>1. /\ Holds(c, c.link) /\ Holds(c, c.bound)
      /\ \A m \in Names : Holds(c, c.symbols[m])
   BY Zenon DEF Holds
<1>2. \A m \in Names : Object(n, k.symbols[m]) BY <1>1 DEF Kinds, Object
<1>3. k.bound \in Ref => /\ n[k.bound].tag = "instance"
                         /\ k.tag = "function" /\ k.link \notin Ref
   BY <1>1 DEF Kinds
<1>4. k.tag = "instance" => n[k.link].tag = "class" BY <1>1 DEF Kinds
<1>5. k.tag # "table" => \A m \in Names \ OwnNames : k.symbols[m] \in {None, k.bound}
   BY DEF Kinds
<1>6. QED BY <1>2, <1>3, <1>4, <1>5, Zenon DEF Kinds

\* Every step ends in Retain: what has to be shown of it is shown of the heap
\* that Retain is given.
LEMMA RetainStep ==
    ASSUME IInv', NEW new, HeapOK(new), HeapClosed(new), Retain(new),
           FramesOK(frames', cur', status', new),
           OperandsLive(values', last', thrown', new)
    PROVE  LInv'
<1>1. /\ frames' \in Seq(Frame) /\ values' \in Seq(Value)
      /\ \A i \in 1..Len(frames') : FrameOK(frames'[i])
   BY DEF IInv, DataOK, StackOK, Chain
<1>2. \A v \in Roots' : Live(new, v)
   BY <1>1, RootsAre, ObjectIsLive DEF FramesOK, FrameLive, OperandsLive, HeapClosed, Live
<1>3. PICK kept \in SUBSET Ref :
         /\ heap' = Keeping(new, kept)
         /\ Ref \cap Roots' \subseteq kept
         /\ \A a \in kept : new[a].tag # "free"
         /\ \A a \in kept, b \in Ref : Holds(new[a], b) => b \in kept
         /\ \A a \in kept \ Roots' : \E b \in kept : Holds(new[b], a)
   BY <1>2, RetainFacts
<1>4. Globals \in kept BY <1>1, <1>3, RootsAre DEF Ref
<1>5. \A a \in kept : heap'[a].tag # "free" /\ heap'[a].tag = new[a].tag
   BY <1>3, KeepingFacts
<1>6. HeapClosed(heap')
   <2>1. heap'[Globals].tag = "table" BY <1>4, <1>5 DEF HeapClosed
   <2>2. ASSUME NEW a \in Ref
         PROVE  /\ heap'[a].tag = "free" => heap'[a].symbols = NoSymbols
                /\ heap'[a].tag = "class" /\ heap'[a].methods # NoSymbols => heap'[a].link \in Ref
                /\ \A v \in Ref : Holds(heap'[a], v) => Live(heap', v)
                /\ heap'[a].tag # "free" => Kinds(heap'[a], heap')
      <3>1. CASE a \in kept
         <4>1. /\ heap'[a].tag = new[a].tag /\ heap'[a].link = new[a].link
               /\ heap'[a].methods = new[a].methods
               /\ \A v : Holds(heap'[a], v) <=> Holds(new[a], v)
            BY <1>3, <3>1, KeepingFacts
         <4>2. /\ heap'[a].symbols = new[a].symbols /\ heap'[a].bound = new[a].bound
               /\ Kinds(new[a], new) /\ HeapOK(new)
            BY <1>3, <3>1, KeepingFacts DEF HeapClosed
         <4>3. \A v \in Ref : Holds(new[a], v) => heap'[v].tag = new[v].tag
            BY <1>3, <1>5, <3>1
         <4>4. Kinds(heap'[a], heap') BY <4>1, <4>2, <4>3, KindsMoved DEF HeapOK
         <4>5. QED BY <1>3, <1>5, <3>1, <4>1, <4>4 DEF HeapClosed, Live
      <3>2. CASE a \notin kept
         <4>1. heap'[a] = FreeCell BY <1>3, <3>2, KeepingFacts
         <4>2. \A v \in Ref : ~ Holds(FreeCell, v)
            BY AddressesDistinct DEF Holds, FreeCell, NoSymbols, Ref
         <4>3. QED BY <4>1, <4>2 DEF FreeCell
      <3>3. QED BY <3>1, <3>2
   <2>3. QED BY <2>1, <2>2, Zenon DEF HeapClosed
<1>7. \A v \in Roots' : /\ Live(heap', v)
                        /\ Object(new, v) => Object(heap', v)
   BY <1>3, <1>5 DEF Live, Object
<1>8. FramesOK(frames', cur', status', heap')
   <2>1. Live(heap', cur') /\ \A i \in 1..Len(frames') : FrameLive(frames'[i], heap')
      BY <1>1, <1>7, RootsAre DEF FrameLive, FramesOK
   <2>2. ASSUME NEW i \in 1..Len(frames'), frames'[i].op \in ScopeOps,
                Protected(frames', status', i)
         PROVE  Intact(frames'[i], heap')
      <3>1. FrameOK(frames'[i]) /\ Intact(frames'[i], new) BY <1>1, <2>2 DEF FramesOK
      <3>2. frames'[i].scope \in Ref /\ frames'[i].prev \in Ref BY <2>2, <3>1, LocalsOf
      <3>3. frames'[i].scope \in Roots'
         BY <1>1, <2>2, ScopeIsHeld, RootsAre DEF FramesOK
      <3>4. frames'[i].prev \in Roots' BY <1>1, RootsAre
      <3>5. \A j \in DOMAIN frames'[i].locals : frames'[i].locals[j] \in Roots'
         BY <1>1, RootsAre
      <3>6. QED BY <1>3, <1>4, <2>2, <3>1, <3>2, <3>3, <3>4, <3>5, IntactKept
   <2>3. QED BY <2>1, <2>2 DEF FramesOK
<1>9. OperandsLive(values', last', thrown', heap')
   BY <1>1, <1>7, RootsAre DEF OperandsLive
<1>10. NothingUnheld'
   <2>1. ASSUME NEW a \in Ref \ Roots', heap'[a].tag # "free"
         PROVE  \E b \in Ref : Holds(heap'[b], a)
      <3>1. a \in kept BY <1>3, <2>1, KeepingFacts DEF FreeCell
      <3>2. PICK b \in kept : Holds(new[b], a) BY <1>3, <2>1, <3>1
      <3>3. b \in Ref /\ Holds(heap'[b], a) BY <1>3, <3>2, KeepingFacts
      <3>4. QED BY <3>3
   <2>2. QED BY <2>1 DEF NothingUnheld
<1>11. QED BY <1>6, <1>8, <1>9, <1>10 DEF LInv

-----------------------------------------------------------------------------
(***************************************************************************)
(* What the handlers do to the heap: they give a name a value, and use     *)
(* free addresses.                                                         *)
(***************************************************************************)

\* What is not free in h is there in n, with all that names are looked up by.
Grows(h, n) ==
    \A a \in Ref : h[a].tag # "free" =>
       /\ n[a].tag = h[a].tag /\ n[a].parent = h[a].parent
       /\ n[a].link = h[a].link /\ n[a].bound = h[a].bound
       /\ \A m \in Names : h[a].symbols[m] # None => n[a].symbols[m] # None

LEMMA GrowsTwice ==
    ASSUME NEW h, NEW m, NEW n, Grows(h, m), Grows(m, n)
    PROVE  Grows(h, n)
BY DEF Grows

LEMMA GrowsLive ==
    ASSUME NEW h, NEW n, Grows(h, n), NEW v, Live(h, v)
    PROVE  Live(n, v)
BY DEF Grows, Live

LEMMA GrowsObject ==
    ASSUME NEW h, NEW n, Grows(h, n), NEW v, Object(h, v)
    PROVE  Object(n, v)
BY DEF Grows, Object

LEMMA GrowsKinds ==
    ASSUME NEW h, NEW n, Grows(h, n), NEW c, Kinds(c, h),
           c.tag = "instance" => c.link \in Ref,
           \A v \in Ref : Holds(c, v) => Live(h, v)
    PROVE  Kinds(c, n)
<1>1. \A v \in Ref : Holds(c, v) => n[v].tag = h[v].tag BY DEF Grows, Live
<1>2. QED BY <1>1, KindsMoved

LEMMA FrameGrows ==
    ASSUME NEW h, NEW n, Grows(h, n), NEW f, FrameLive(f, h)
    PROVE  FrameLive(f, n)
BY GrowsLive, GrowsObject DEF FrameLive

LEMMA IntactGrows ==
    ASSUME NEW h, NEW n, Grows(h, n), NEW f, FrameOK(f), f.op \in ScopeOps,
           FrameLive(f, h), Intact(f, h)
    PROVE  Intact(f, n)
<1> DEFINE g == f.locals[1]
           m == f.locals[2]
<1>1. f.scope \in Ref /\ f.prev \in Ref BY LocalsOf
<1>2. n[f.scope].tag = "table" /\ n[f.scope].parent = h[f.scope].parent
   BY <1>1 DEF Intact, Grows
<1>3. ASSUME f.op = "Body"
      PROVE  /\ g \in Addr /\ n[g].tag = h[g].tag /\ n[g].link = h[g].link
             /\ n[g].bound = h[g].bound
   <2>1. g \in Addr /\ g \in Ref /\ 1 \in DOMAIN f.locals
      BY <1>3, LocalsOf DEF Intact, Catchers, Ref
   <2>2. h[g].tag # "free" BY <2>1 DEF FrameLive, Object
   <2>3. QED BY <2>1, <2>2 DEF Grows
<1>4. Parent(f, n) = Parent(f, h) BY <1>3 DEF Parent
<1>5. ASSUME f.op \in {"Ctor", "AnonBody"}
      PROVE  /\ n[m].tag = "function" /\ n[m].bound = f.locals[1]
             /\ n[m].parent = Globals /\ n[m].symbols[This] # None /\ 2 \in DOMAIN f.locals
   <2>1. m \in Ref /\ 2 \in DOMAIN f.locals BY <1>5 DEF Intact, Parent
   <2>2. h[m].tag # "free" BY <2>1 DEF FrameLive, Object
   <2>3. QED BY <1>5, <2>1, <2>2, ScriptsWellFormed DEF Grows, Intact
<1>6. QED BY <1>2, <1>3, <1>4, <1>5 DEF Intact

LEMMA FramesGrow ==
    ASSUME NEW h, NEW n, Grows(h, n), NEW fr, Chain(fr), NEW c, NEW st,
           FramesOK(fr, c, st, h)
    PROVE  FramesOK(fr, c, st, n)
<1>1. Live(n, c) BY GrowsLive DEF FramesOK
<1>2. \A i \in 1..Len(fr) : FrameLive(fr[i], n) BY FrameGrows DEF FramesOK
<1>3. ASSUME NEW i \in 1..Len(fr), fr[i].op \in ScopeOps, Protected(fr, st, i)
      PROVE  Intact(fr[i], n)
   BY <1>3, IntactGrows DEF FramesOK, Chain
<1>4. QED BY <1>1, <1>2, <1>3 DEF FramesOK

LEMMA OperandsGrow ==
    ASSUME NEW h, NEW n, Grows(h, n), NEW vs, NEW l, NEW t, OperandsLive(vs, l, t, h)
    PROVE  OperandsLive(vs, l, t, n)
BY GrowsObject DEF OperandsLive

Put(h, a, c) == [h EXCEPT ![a] = c]

\* The references of cell c are in use.
Fits(c, h) ==
    /\ c \in Cell /\ c.tag # "free"
    /\ c.tag = "instance" => c.link \in Ref
    /\ c.tag = "class" => c.name \in Names
    /\ c.tag = "class" /\ c.methods # NoSymbols => c.link \in Ref
    /\ \A v \in Ref : Holds(c, v) => Live(h, v)
    /\ Kinds(c, h)

\* A free address is used for a cell whose references are in use.
LEMMA AllocHeap ==
    ASSUME NEW h, HeapOK(h), HeapClosed(h), NEW a \in Addr, h[a].tag = "free",
           NEW c, Fits(c, h)
    PROVE  /\ HeapOK(Put(h, a, c)) /\ HeapClosed(Put(h, a, c)) /\ Grows(h, Put(h, a, c))
           /\ Put(h, a, c)[a] = c /\ \A b \in Ref : b # a => Put(h, a, c)[b] = h[b]
<1> DEFINE n == Put(h, a, c)
<1>1. a \in Ref BY DEF Ref
<1>2. HeapOK(n) BY <1>1, HeapUpdate DEF Fits, Put
<1>3. n[a] = c /\ \A b \in Ref : b # a => n[b] = h[b] BY <1>1 DEF HeapOK, Put
<1> HIDE DEF n
<1>4. Grows(h, n) BY <1>3 DEF Grows
<1>5. ASSUME NEW b \in Ref
      PROVE  /\ n[b].tag = "free" => n[b].symbols = NoSymbols
             /\ n[b].tag = "class" /\ n[b].methods # NoSymbols => n[b].link \in Ref
             /\ \A v \in Ref : Holds(n[b], v) => Live(n, v)
             /\ n[b].tag # "free" => Kinds(n[b], n)
   <2>1. CASE b = a BY <1>3, <1>4, <2>1, GrowsLive, GrowsKinds DEF Fits
   <2>2. CASE b # a
      <3>1. n[b] = h[b] BY <1>3, <2>2
      <3>2. \A v \in Ref : Holds(h[b], v) => Live(h, v) BY DEF HeapClosed
      <3>3. h[b].tag # "free" => Kinds(h[b], n)
         BY <1>4, <3>2, GrowsKinds DEF HeapClosed, HeapOK
      <3>4. QED BY <1>4, <3>1, <3>2, <3>3, GrowsLive DEF HeapClosed
   <2>3. QED BY <2>1, <2>2
<1>6. n[Globals].tag = "table" BY <1>3, AddressesDistinct DEF HeapClosed, Ref
<1>7. HeapClosed(n) BY <1>5, <1>6, Zenon DEF HeapClosed
<1>8. QED BY <1>2, <1>3, <1>4, <1>7 DEF n

\* A table or an instance that is in use is given a name with a value in use.
LEMMA DeclareHeap ==
    ASSUME NEW h, HeapOK(h), HeapClosed(h), NEW t \in Ref, h[t].tag # "free",
           NEW n \in OwnNames, NEW v \in Value, Object(h, v)
    PROVE  /\ HeapOK(Declare(h, t, n, v)) /\ HeapClosed(Declare(h, t, n, v))
           /\ Grows(h, Declare(h, t, n, v))
<1> DEFINE c == [h[t] EXCEPT !.symbols[n] = v]
           new == Declare(h, t, n, v)
<1>1. h[t] \in Cell BY DEF HeapOK
<1>2. n \in Names /\ HeapOK(new) BY ScriptsWellFormed, DeclareKeepsHeapOK
<1>3. /\ c.tag = h[t].tag /\ c.parent = h[t].parent /\ c.link = h[t].link
      /\ c.bound = h[t].bound /\ c.methods = h[t].methods
      /\ c.symbols = [h[t].symbols EXCEPT ![n] = v]
   BY <1>1 DEF Cell
<1>4. new = [h EXCEPT ![t] = c] BY DEF Declare, HeapOK
<1>5. new[t] = c /\ \A b \in Ref : b # t => new[b] = h[b] BY <1>4 DEF HeapOK
<1>6. v # None BY AddressesDistinct DEF Value
<1>7. \A m \in Names : c.symbols[m] = IF m = n THEN v ELSE h[t].symbols[m]
   BY <1>1, <1>2, <1>3 DEF Cell
<1> HIDE DEF c, new
<1>8. Grows(h, new) BY <1>3, <1>5, <1>6, <1>7 DEF Grows
<1>9. \A w \in Ref : Holds(c, w) => w = v \/ Holds(h[t], w) BY <1>3, <1>7 DEF Holds
<1>10. ASSUME NEW b \in Ref
       PROVE  /\ new[b].tag = "free" => new[b].symbols = NoSymbols
              /\ new[b].tag = "class" /\ new[b].methods # NoSymbols => new[b].link \in Ref
              /\ \A w \in Ref : Holds(new[b], w) => Live(new, w)
              /\ new[b].tag # "free" => Kinds(new[b], new)
   <2>1. \A w \in Ref : Holds(h[b], w) => Live(h, w) BY DEF HeapClosed
   <2>2. CASE b = t
      <3>1. /\ Kinds(h[t], new) /\ Object(new, v)
         BY <1>8, <2>1, <2>2, GrowsKinds, GrowsObject DEF HeapClosed, HeapOK
      <3>2. Kinds(c, new) BY <1>3, <1>7, <3>1 DEF Kinds
      <3>3. v \in Ref => Live(h, v) BY ObjectIsLive
      <3>4. QED BY <1>3, <1>5, <1>8, <1>9, <2>1, <2>2, <3>2, <3>3, GrowsLive DEF HeapClosed
   <2>3. CASE b # t
      <3>1. new[b] = h[b] BY <1>5, <2>3
      <3>2. h[b].tag # "free" => Kinds(h[b], new)
         BY <1>8, <2>1, GrowsKinds DEF HeapClosed, HeapOK
      <3>3. QED BY <1>8, <2>1, <3>1, <3>2, GrowsLive DEF HeapClosed
   <2>4. QED BY <2>2, <2>3
<1>11. Globals \in Ref BY DEF Ref
<1>12. new[Globals].tag = "table" BY <1>8, <1>11 DEF Grows, HeapClosed
<1>13. HeapClosed(new) BY <1>10, <1>12, Zenon DEF HeapClosed
<1>14. QED BY <1>2, <1>8, <1>13 DEF new

\* What a cell in use holds is in use.
LEMMA HeldIsLive ==
    ASSUME NEW h, HeapClosed(h), NEW a \in Ref, NEW n \in Names
    PROVE  Object(h, h[a].symbols[n]) /\ Live(h, h[a].link) /\ Live(h, h[a].bound)
<1>1. /\ Holds(h[a], h[a].symbols[n]) /\ Holds(h[a], h[a].link) /\ Holds(h[a], h[a].bound)
   BY Zenon DEF Holds
<1>2. h[a].tag = "free" => h[a].symbols[n] = None BY DEF HeapClosed, NoSymbols
<1>3. Object(h, h[a].symbols[n])
   BY <1>2, AddressesDistinct DEF HeapClosed, Kinds, Object, Ref
<1>4. QED BY <1>1, <1>3 DEF HeapClosed, Live

-----------------------------------------------------------------------------
(***************************************************************************)
(* The stack of activations.                                               *)
(***************************************************************************)
LEMMA CallersAre ==
    ASSUME NEW fr, Chain(fr), fr # <<>>
    PROVE  LET new == SubSeq(fr, 1, Len(fr) - 1)
           IN  /\ Len(fr) \in Nat \ {0} /\ Len(new) = Len(fr) - 1
               /\ \A i \in 1..Len(new) : new[i] = fr[i] /\ i \in 1..Len(fr) /\ i < Len(fr)
               /\ \A i \in 1..Len(fr) : i = Len(fr) \/ i \in 1..Len(new)
<1> DEFINE new == SubSeq(fr, 1, Len(fr) - 1)
<1>1. fr \in Seq(Frame) /\ Len(fr) \in Nat \ {0}
   BY TopIsAFrame DEF Chain
<1>2. \A i \in 1..(Len(fr) - 1) : fr[i] \in Frame BY <1>1, ElementOfSeq
<1>3. Len(fr) - 1 \in Nat /\ 1 \in Int /\ Len(fr) - 1 \in Int BY <1>1, Lengths
<1>4. /\ Len(new) = IF 1 <= Len(fr) - 1 THEN Len(fr) - 1 - 1 + 1 ELSE 0
      /\ \A i \in 1..(Len(fr) - 1 - 1 + 1) : new[i] = fr[1 + i - 1]
   BY <1>2, <1>3, SubSeqProperties
<1> HIDE DEF new
<1>5. Len(new) = Len(fr) - 1 BY <1>1, <1>4, Lengths
<1>6. \A i \in 1..(Len(fr) - 1) : new[i] = fr[i] BY <1>1, <1>4, Lengths
<1>7. /\ \A i \in 1..(Len(fr) - 1) : i \in 1..Len(fr) /\ i < Len(fr)
      /\ \A i \in 1..Len(fr) : i = Len(fr) \/ i \in 1..(Len(fr) - 1)
   BY <1>1
<1>8. QED BY <1>1, <1>5, <1>6, <1>7 DEF new

\* The innermost activation ends, and what called it goes on.
LEMMA FramesFinish ==
    ASSUME NEW fr, Chain(fr), fr # <<>>, NEW c, NEW st, NEW h, FramesOK(fr, c, st, h),
           st = "running" \/ fr[Len(fr)].op \in Catchers
    PROVE  FramesOK(SubSeq(fr, 1, Len(fr) - 1), fr[Len(fr)].at, "running", h)
<1> DEFINE new == SubSeq(fr, 1, Len(fr) - 1)
           f == fr[Len(fr)]
<1>1. /\ Len(fr) \in Nat \ {0} /\ Len(new) = Len(fr) - 1
      /\ \A i \in 1..Len(new) : new[i] = fr[i] /\ i \in 1..Len(fr) /\ i < Len(fr)
      /\ \A i \in 1..Len(fr) : i = Len(fr) \/ i \in 1..Len(new)
   BY CallersAre
<1>2. Len(fr) \in 1..Len(fr) /\ \A i, j \in 1..Len(fr) : i < j /\ j < Len(fr) => i < Len(fr)
   BY <1>1
<1> HIDE DEF new
<1>3. FrameOK(f) BY <1>2 DEF Chain
<1>4. ScopeHeld(fr, c, st) BY DEF FramesOK
<1> DEFINE Entered(i) == \E j \in 1..Len(new) : i < j /\ new[j].op \in ScopeOps
<1>5. ASSUME f.op \in ScopeOps
      PROVE  Live(h, f.at) /\ \A i \in 1..Len(new) : new[i].scope = f.at \/ Entered(i)
   <2>1. f.at = f.prev BY <1>3, <1>5 DEF FrameOK
   <2>2. Live(h, f.at) BY <1>2, <2>1 DEF FramesOK, FrameLive
   <2>3. ASSUME NEW i \in 1..Len(new)
         PROVE  new[i].scope = f.at \/ Entered(i)
      <3>1. PICK k \in 1..Len(fr) : i < k /\ fr[k].op \in ScopeOps /\ fr[k].prev = fr[i].scope
         BY <1>1, <1>2, <1>4, <1>5 DEF ScopeHeld
      <3>2. CASE k = Len(fr) BY <1>1, <2>1, <3>1, <3>2
      <3>3. CASE k # Len(fr) BY <1>1, <3>1, <3>3
      <3>4. QED BY <3>2, <3>3
   <2>4. QED BY <2>2, <2>3
<1>6. ASSUME f.op \notin ScopeOps
      PROVE  Live(h, f.at) /\ \A i \in 1..Len(new) : new[i].scope = f.at \/ Entered(i)
   <2>1. st = "running" BY <1>6 DEF ScopeOps
   <2>2. \A j \in 1..Len(fr) : ~(Len(fr) < j) BY <1>1
   <2>3. f.at = c BY <1>2, <1>3, <1>4, <1>6, <2>1, <2>2 DEF ScopeHeld, FrameOK
   <2>4. Live(h, f.at) BY <2>3 DEF FramesOK
   <2>5. ASSUME NEW i \in 1..Len(new)
         PROVE  new[i].scope = f.at \/ Entered(i)
      <3>1. CASE \E j \in 1..Len(fr) : i < j /\ fr[j].op \in ScopeOps
         <4>1. PICK j \in 1..Len(fr) : i < j /\ fr[j].op \in ScopeOps BY <3>1
         <4>2. j # Len(fr) BY <1>6, <4>1
         <4>3. QED BY <1>1, <4>1, <4>2
      <3>2. CASE fr[i].scope = c BY <1>1, <2>3, <3>2
      <3>3. QED BY <1>1, <1>4, <2>1, <3>1, <3>2 DEF ScopeHeld
   <2>6. QED BY <2>4, <2>5
<1>7. Live(h, f.at) /\ \A i \in 1..Len(new) : new[i].scope = f.at \/ Entered(i)
   BY <1>5, <1>6
<1>8. \A i \in 1..Len(new) : FrameLive(new[i], h) BY <1>1 DEF FramesOK
<1>9. ASSUME NEW i \in 1..Len(new), NEW j \in 1..Len(new), i < j, new[j].op \in ScopeOps
      PROVE  \E k \in 1..Len(new) : /\ i < k /\ k <= j /\ new[k].op \in ScopeOps
                                    /\ new[k].prev = new[i].scope
   <2>1. PICK k \in 1..Len(fr) : /\ i < k /\ k <= j /\ fr[k].op \in ScopeOps
                                 /\ fr[k].prev = fr[i].scope
      BY <1>1, <1>4, <1>9 DEF ScopeHeld
   <2>2. k \in 1..Len(new) BY <2>1
   <2>3. QED BY <1>1, <2>1, <2>2
<1>10. ScopeHeld(new, f.at, "running") BY <1>7, <1>9 DEF ScopeHeld
<1>11. ASSUME NEW i \in 1..Len(new), new[i].op \in ScopeOps PROVE Intact(new[i], h)
   <2>1. new[i] = fr[i] /\ i \in 1..Len(fr) /\ i < Len(fr) BY <1>1
   <2>2. Protected(fr, st, i) BY <1>2, <2>1 DEF Protected
   <2>3. QED BY <1>11, <2>1, <2>2 DEF FramesOK
<1>12. QED BY <1>7, <1>8, <1>10, <1>11 DEF FramesOK, new

\* The innermost activation ends without giving back its scope.
LEMMA FramesUnwind ==
    ASSUME NEW fr, Chain(fr), fr # <<>>, NEW c, NEW st, NEW h, FramesOK(fr, c, st, h),
           NEW d, Live(h, d), NEW su, su # "running"
    PROVE  FramesOK(SubSeq(fr, 1, Len(fr) - 1), d, su, h)
<1> DEFINE new == SubSeq(fr, 1, Len(fr) - 1)
<1>1. /\ Len(fr) \in Nat \ {0} /\ Len(new) = Len(fr) - 1
      /\ \A i \in 1..Len(new) : new[i] = fr[i] /\ i \in 1..Len(fr) /\ i < Len(fr)
   BY CallersAre
<1> HIDE DEF new
<1>2. ScopeHeld(fr, c, st) BY DEF FramesOK
<1>3. ASSUME NEW i \in 1..Len(new), NEW j \in 1..Len(new), i < j, new[j].op \in ScopeOps
      PROVE  \E k \in 1..Len(new) : /\ i < k /\ k <= j /\ new[k].op \in ScopeOps
                                    /\ new[k].prev = new[i].scope
   <2>1. PICK k \in 1..Len(fr) : /\ i < k /\ k <= j /\ fr[k].op \in ScopeOps
                                 /\ fr[k].prev = fr[i].scope
      BY <1>1, <1>2, <1>3 DEF ScopeHeld
   <2>2. k \in 1..Len(new) BY <2>1
   <2>3. QED BY <1>1, <2>1, <2>2
<1>4. ScopeHeld(new, d, su) BY <1>3 DEF ScopeHeld
<1>5. ASSUME NEW i \in 1..Len(new), new[i].op \in ScopeOps, Protected(new, su, i)
      PROVE  Intact(new[i], h)
   <2>1. new[i] = fr[i] /\ i \in 1..Len(fr) BY <1>1
   <2>2. Protected(fr, st, i) BY <1>1, <1>5 DEF Protected
   <2>3. QED BY <1>5, <2>1, <2>2 DEF FramesOK
<1>6. \A i \in 1..Len(new) : FrameLive(new[i], h) BY <1>1 DEF FramesOK
<1>7. QED BY <1>4, <1>5, <1>6 DEF FramesOK, new

\* An activation begins, in the scope of the one that makes it or in its own.
LEMMA FramesPush ==
    ASSUME NEW fr \in Seq(Frame), NEW c, NEW h, FramesOK(fr, c, "running", h),
           NEW f \in Frame, FrameLive(f, h), NEW d, d = f.scope, Live(h, d),
           \/ f.op \notin ScopeOps /\ d = c
           \/ f.op \in ScopeOps /\ f.prev = c /\ Intact(f, h)
    PROVE  FramesOK(Append(fr, f), d, "running", h)
<1> DEFINE new == Append(fr, f)
           n == Len(fr) + 1
<1>1. /\ Len(fr) \in Nat /\ Len(new) = n
      /\ \A i \in 1..Len(fr) : new[i] = fr[i] /\ i \in 1..Len(new) /\ i < n
      /\ new[n] = f /\ n \in 1..Len(new)
      /\ \A i \in 1..Len(new) : i = n \/ i \in 1..Len(fr)
   BY AppendProperties, LenProperties
<1> HIDE DEF new
<1>2. ScopeHeld(fr, c, "running") BY DEF FramesOK
<1>3. \A i \in 1..Len(new) : FrameLive(new[i], h) BY <1>1 DEF FramesOK
<1>4. ASSUME NEW i \in 1..Len(fr), NEW j \in 1..Len(fr), i < j, fr[j].op \in ScopeOps
      PROVE  \E k \in 1..Len(new) : /\ i < k /\ k <= j /\ new[k].op \in ScopeOps
                                    /\ new[k].prev = new[i].scope
   <2>1. PICK k \in 1..Len(fr) : /\ i < k /\ k <= j /\ fr[k].op \in ScopeOps
                                 /\ fr[k].prev = fr[i].scope
      BY <1>2, <1>4 DEF ScopeHeld
   <2>2. QED BY <1>1, <2>1
<1>5. ASSUME NEW i \in 1..Len(new), NEW j \in 1..Len(new), i < j, new[j].op \in ScopeOps
      PROVE  \E k \in 1..Len(new) : /\ i < k /\ k <= j /\ new[k].op \in ScopeOps
                                    /\ new[k].prev = new[i].scope
   <2>1. i \in 1..Len(fr) BY <1>1, <1>5
   <2>2. CASE j \in 1..Len(fr) BY <1>1, <1>4, <1>5, <2>1, <2>2
   <2>3. CASE j = n /\ fr[i].scope = c
      <3>1. new[j] = f /\ f.op \in ScopeOps /\ f.prev = c BY <1>1, <1>5, <2>3
      <3>2. j <= j BY <1>1, <2>3
      <3>3. QED BY <1>1, <1>5, <2>1, <2>3, <3>1, <3>2
   <2>4. CASE j = n /\ fr[i].scope # c
      <3>1. PICK m \in 1..Len(fr) : i < m /\ fr[m].op \in ScopeOps
         BY <1>2, <2>1, <2>4 DEF ScopeHeld
      <3>2. PICK k \in 1..Len(new) : /\ i < k /\ k <= m /\ new[k].op \in ScopeOps
                                     /\ new[k].prev = new[i].scope
         BY <1>4, <2>1, <3>1
      <3>3. k <= j BY <1>1, <2>4, <3>1, <3>2
      <3>4. QED BY <3>2, <3>3
   <2>5. QED BY <1>1, <2>2, <2>3, <2>4
<1>6. ASSUME NEW i \in 1..Len(new)
      PROVE  new[i].scope = d \/ \E j \in 1..Len(new) : i < j /\ new[j].op \in ScopeOps
   <2>1. CASE i = n BY <1>1, <2>1
   <2>2. CASE i \in 1..Len(fr) /\ f.op \in ScopeOps BY <1>1, <2>2
   <2>3. CASE i \in 1..Len(fr) /\ f.op \notin ScopeOps
      BY <1>1, <1>2, <2>3 DEF ScopeHeld
   <2>4. QED BY <1>1, <2>1, <2>2, <2>3
<1>7. ScopeHeld(new, d, "running") BY <1>5, <1>6 DEF ScopeHeld
<1>8. ASSUME NEW i \in 1..Len(new), new[i].op \in ScopeOps PROVE Intact(new[i], h)
   <2>1. CASE i = n BY <1>1, <1>8, <2>1
   <2>2. CASE i \in 1..Len(fr)
      <3>1. Protected(fr, "running", i) BY DEF Protected
      <3>2. QED BY <1>1, <1>8, <2>2, <3>1 DEF FramesOK
   <2>3. QED BY <1>1, <2>1, <2>2
<1>9. QED BY <1>3, <1>7, <1>8 DEF FramesOK, new

\* The innermost activation goes on as another: it ends and the other begins.
LEMMA BecomeIsPush ==
    ASSUME NEW fr, Chain(fr), fr # <<>>, NEW f \in Frame
    PROVE  /\ [fr EXCEPT ![Len(fr)] = f] = Append(SubSeq(fr, 1, Len(fr) - 1), f)
           /\ SubSeq(fr, 1, Len(fr) - 1) \in Seq(Frame)
           /\ [fr EXCEPT ![Len(fr)] = f] \in Seq(Frame)
<1> DEFINE below == SubSeq(fr, 1, Len(fr) - 1)
           new == [fr EXCEPT ![Len(fr)] = f]
<1>1. /\ Len(fr) \in Nat \ {0} /\ Len(below) = Len(fr) - 1
      /\ \A i \in 1..Len(below) : below[i] = fr[i] /\ i \in 1..Len(fr) /\ i < Len(fr)
   BY CallersAre
<1>2. below \in Seq(Frame) BY FinishKeepsChain DEF Chain
<1>3. fr \in Seq(Frame) BY DEF Chain
<1>4. /\ new \in Seq(Frame) /\ Len(new) = Len(fr)
      /\ \A j \in 1..Len(fr) : new[j] = IF j = Len(fr) THEN f ELSE fr[j]
   BY <1>1, <1>3, ExceptSeq
<1> HIDE DEF below, new
<1>5. /\ Append(below, f) \in Seq(Frame) /\ Len(Append(below, f)) = Len(below) + 1
      /\ \A j \in 1..Len(below) : Append(below, f)[j] = below[j]
      /\ Append(below, f)[Len(below) + 1] = f
   BY <1>2, AppendProperties
<1>6. Len(below) + 1 = Len(fr) BY <1>1
<1>7. ASSUME NEW j \in 1..Len(fr) PROVE new[j] = Append(below, f)[j]
   <2>1. CASE j = Len(fr) BY <1>4, <1>5, <1>6, <2>1
   <2>2. CASE j # Len(fr)
      <3>1. j \in 1..Len(below) BY <1>1, <2>2
      <3>2. QED BY <1>1, <1>4, <1>5, <2>2, <3>1
   <2>3. QED BY <2>1, <2>2
<1>8. new = Append(below, f) BY <1>4, <1>5, <1>6, <1>7, SeqEqual
<1>9. QED BY <1>2, <1>4, <1>8 DEF below, new

-----------------------------------------------------------------------------
(***************************************************************************)
(* The steps that handlers are made of.                                    *)
(***************************************************************************)
LEMMA NoneIsLive == \A h : Object(h, None) /\ Live(h, None)
BY AddressesDistinct DEF Object, Live, Ref

\* What is known of m_values, and of the activation that is innermost.
LEMMA LiveFacts ==
    ASSUME IInv, LInv
    PROVE  /\ HeapOK(heap) /\ HeapClosed(heap) /\ Grows(heap, heap)
           /\ FramesOK(frames, cur, status, heap) /\ Live(heap, cur)
           /\ OperandsLive(values, last, thrown, heap)
           /\ frames # <<>> => FrameLive(Top, heap)
           /\ Object(heap, thrown) /\ thrown' = thrown => Object(heap, thrown')
<1>1. HeapOK(heap) BY DEF IInv, DataOK
<1>2. Grows(heap, heap) BY DEF Grows
<1>3. ASSUME frames # <<>> PROVE FrameLive(Top, heap)
   <2>1. Len(frames) \in 1..Len(frames) BY <1>3, TopFacts, Lengths
   <2>2. QED BY <2>1 DEF LInv, FramesOK, Top
<1>4. QED BY <1>1, <1>2, <1>3 DEF LInv, FramesOK, OperandsLive

LEMMA PushLive ==
    ASSUME NEW vs \in Seq(Value), NEW l, NEW t, NEW h, OperandsLive(vs, l, t, h),
           NEW v \in Value, Object(h, v)
    PROVE  OperandsLive(Append(vs, v), l, t, h)
<1>1. /\ Len(Append(vs, v)) = Len(vs) + 1 /\ Len(vs) \in Nat
      /\ \A i \in 1..Len(vs) : Append(vs, v)[i] = vs[i]
      /\ Append(vs, v)[Len(vs) + 1] = v
   BY AppendProperties, LenProperties
<1>2. ASSUME NEW i \in 1..Len(Append(vs, v)) PROVE Object(h, Append(vs, v)[i])
   <2>1. CASE i = Len(vs) + 1 BY <1>1, <2>1
   <2>2. CASE i # Len(vs) + 1
      <3>1. i \in 1..Len(vs) BY <1>1, <2>2
      <3>2. QED BY <1>1, <3>1 DEF OperandsLive
   <2>3. QED BY <2>1, <2>2
<1>3. QED BY <1>2 DEF OperandsLive

\* The operands below the top k.
LEMMA DropLive ==
    ASSUME NEW vs \in Seq(Value), NEW l, NEW t, NEW h, OperandsLive(vs, l, t, h),
           NEW k \in Nat, k <= Len(vs)
    PROVE  /\ OperandsLive(SubSeq(vs, 1, Len(vs) - k), l, t, h)
           /\ SubSeq(vs, 1, Len(vs) - k) \in Seq(Value)
<1> DEFINE m == Len(vs) - k
           new == SubSeq(vs, 1, m)
<1>1. Len(vs) \in Nat BY LenProperties
<1>2. m \in Nat /\ m \in Int /\ 1 \in Int /\ 1..m \subseteq 1..Len(vs) BY <1>1
<1> HIDE DEF m
<1>3. \A i \in 1..m : vs[i] \in Value BY <1>2, ElementOfSeq
<1>4. /\ new \in Seq(Value) /\ Len(new) = IF 1 <= m THEN m - 1 + 1 ELSE 0
      /\ \A i \in 1..(m - 1 + 1) : new[i] = vs[1 + i - 1]
   BY <1>2, <1>3, SubSeqProperties
<1> HIDE DEF new
<1>5. Len(new) = m /\ \A i \in 1..m : new[i] = vs[i] BY <1>2, <1>4
<1>6. OperandsLive(new, l, t, h) BY <1>2, <1>5 DEF OperandsLive
<1>7. QED BY <1>4, <1>6 DEF m, new

LEMMA LastLive ==
    ASSUME NEW vs, NEW l, NEW t, NEW h, OperandsLive(vs, l, t, h), NEW m, Object(h, m)
    PROVE  OperandsLive(vs, m, t, h)
BY DEF OperandsLive

\* What a handler pops was in use, and so is what it leaves.
LEMMA PopLive ==
    ASSUME IInv, LInv, NEW op \in Awaiting, At(op)
    PROVE  /\ Object(heap, Operand) /\ Operand \in Value
           /\ OperandsLive(Rest, Operand, thrown, heap) /\ Rest \in Seq(Value)
           /\ OperandsLive(values, Operand, thrown, heap) /\ values \in Seq(Value)
<1>1. /\ frames # <<>> /\ status = "running" /\ Top.op = op
      /\ Operand \in Value /\ Rest \in Seq(Value) /\ Len(Rest) = Top.base + Pending(op)
      /\ Len(values) = Top.base + Pending(op) + 1 /\ Top.base \in Nat
   BY AtFacts
<1>2. Len(values) \in Nat \ {0} BY <1>1 DEF Pending
<1>3. Len(values) \in 1..Len(values) /\ 1 <= Len(values) /\ 1 \in Nat BY <1>2
<1>4. values \in Seq(Value) BY DEF IInv, DataOK
<1>5. OperandsLive(values, last, thrown, heap) BY DEF LInv
<1>6. Object(heap, Operand) BY <1>3, <1>5 DEF OperandsLive, Operand
<1>7. OperandsLive(Rest, last, thrown, heap) BY <1>3, <1>4, <1>5, DropLive DEF Rest
<1>8. QED BY <1>1, <1>4, <1>5, <1>6, <1>7, LastLive

\* The innermost activation ends.
LEMMA EndMove ==
    ASSUME IInv, LInv, IInv', frames # <<>>, Finish,
           \/ status' = "running" /\ cur' = Top.at
                 /\ (status = "running" \/ Top.op \in Catchers)
           \/ status' # "running" /\ Live(heap, cur'),
           NEW new, HeapOK(new), HeapClosed(new), Grows(heap, new), Retain(new),
           OperandsLive(values', last', thrown', new)
    PROVE  LInv'
<1>1. Chain(frames) /\ FramesOK(frames, cur, status, heap) BY DEF IInv, StackOK, LInv
<1>2. Chain(frames') BY DEF IInv, StackOK
<1>3. FramesOK(frames', cur', status', heap)
   BY <1>1, FramesFinish, FramesUnwind DEF Finish, Callers, Top
<1>4. FramesOK(frames', cur', status', new) BY <1>2, <1>3, FramesGrow
<1>5. QED BY <1>4, RetainStep

\* It had no scope of its own.
LEMMA EndInScope ==
    ASSUME IInv, LInv, IInv', frames # <<>>, status = "running", Top.op \notin ScopeOps,
           Finish, UNCHANGED <<cur, control>>,
           NEW new, HeapOK(new), HeapClosed(new), Grows(heap, new), Retain(new),
           OperandsLive(values', last', thrown, new)
    PROVE  LInv'
<1>1. cur' = Top.at BY TopFacts DEF Innermost, FrameOK
<1>2. status' = "running" /\ thrown' = thrown BY DEF control
<1>3. OperandsLive(values', last', thrown', new) BY <1>2
<1>4. QED BY <1>1, <1>2, <1>3, EndMove

LEMMA RaiseMove ==
    ASSUME IInv', NEW kind, NEW n, Raise(kind, n),
           NEW new, HeapOK(new), HeapClosed(new), Retain(new), Live(new, cur'),
           OperandsLive(values', last', thrown, new)
    PROVE  LInv'
<1>1. frames' = <<>> /\ thrown' = thrown BY DEF Raise
<1>2. \A i \in 1..Len(<<>>) : FALSE BY EmptySeq
<1>3. FramesOK(frames', cur', status', new)
   BY <1>1, <1>2 DEF FramesOK, ScopeHeld
<1>4. OperandsLive(values', last', thrown', new) BY <1>1
<1>5. QED BY <1>3, <1>4, RetainStep

LEMMA CrashMove ==
    ASSUME IInv, LInv, IInv', status = "running", Crash, Retain(heap),
           OperandsLive(values', last', thrown, heap)
    PROVE  LInv'
<1>1. frames' = frames /\ cur' = cur /\ status' = "crashed" /\ thrown' = thrown BY DEF Crash
<1>2. FramesOK(frames, cur, "running", heap) BY DEF LInv
<1>3. FramesOK(frames, cur, "crashed", heap)
   BY <1>2 DEF FramesOK, ScopeHeld, Protected
<1>4. OperandsLive(values', last', thrown', heap) BY <1>1
<1>5. QED BY <1>1, <1>3, <1>4, LiveFacts, RetainStep

\* The innermost activation goes on as another that has no scope either.
LEMMA GoOn ==
    ASSUME IInv, LInv, frames # <<>>, status = "running", Top.op \notin ScopeOps,
           NEW f \in Frame, f.op \notin ScopeOps, f.scope = Top.scope, FrameLive(f, heap)
    PROVE  LET new == [frames EXCEPT ![Len(frames)] = f]
           IN  FramesOK(new, cur, "running", heap) /\ new \in Seq(Frame)
<1> DEFINE below == SubSeq(frames, 1, Len(frames) - 1)
<1>1. /\ Chain(frames) /\ FramesOK(frames, cur, "running", heap)
      /\ Live(heap, cur)
   BY DEF IInv, StackOK, LInv, FramesOK
<1>2. Top.at = cur /\ Top.scope = cur BY TopFacts DEF Innermost, FrameOK
<1>3. FramesOK(below, cur, "running", heap) BY <1>1, <1>2, FramesFinish DEF Top
<1>4. below \in Seq(Frame) /\ [frames EXCEPT ![Len(frames)] = f] \in Seq(Frame)
      /\ [frames EXCEPT ![Len(frames)] = f] = Append(below, f)
   BY <1>1, BecomeIsPush
<1> HIDE DEF below
<1>5. FramesOK(Append(below, f), cur, "running", heap)
   BY <1>1, <1>2, <1>3, <1>4, FramesPush
<1>6. QED BY <1>4, <1>5

LEMMA BecomeMove ==
    ASSUME IInv, LInv, IInv', frames # <<>>, status = "running", Top.op \notin ScopeOps,
           NEW f \in Frame, f.op \notin ScopeOps, f.scope = Top.scope, FrameLive(f, heap),
           Become(f), UNCHANGED <<cur, control>>, Retain(heap),
           OperandsLive(values', last', thrown, heap)
    PROVE  LInv'
<1>1. status' = "running" /\ cur' = cur /\ thrown' = thrown BY DEF control
<1>2. FramesOK(frames', cur', status', heap) BY <1>1, GoOn DEF Become
<1>3. OperandsLive(values', last', thrown', heap) BY <1>1
<1>4. QED BY <1>2, <1>3, LiveFacts, RetainStep

\* An activation gains a child.
LEMMA ChildMove ==
    ASSUME IInv, LInv, IInv', NEW fr \in Seq(Frame), FramesOK(fr, cur, "running", heap),
           status = "running", NEW child \in Childless, frames' = Append(fr, Activation(child)),
           UNCHANGED <<cur, control>>, Retain(heap),
           OperandsLive(values', last', thrown, heap)
    PROVE  LInv'
<1> DEFINE g == Activation(child)
<1>1. status' = "running" /\ cur' = cur /\ thrown' = thrown BY DEF control
<1>2. cur \in Ref /\ Len(values') \in Nat BY LenProperties DEF IInv, DataOK
<1>3. /\ g \in Frame /\ g.op = child /\ g.prev = None /\ g.locals = <<>> /\ g.scope = cur
   BY <1>2, EmptySeq DEF Activation, Frame, Ops
<1> HIDE DEF g
<1>4. g.op \notin ScopeOps BY <1>3 DEF Childless, ScopeOps, Catchers
<1>5. DOMAIN g.locals = {} BY <1>3, EmptySeq
<1>6. FrameLive(g, heap) BY <1>3, <1>5, NoneIsLive DEF FrameLive
<1>7. Live(heap, cur) BY DEF LInv, FramesOK
<1>8. FramesOK(Append(fr, g), cur, "running", heap)
   BY <1>3, <1>4, <1>6, <1>7, FramesPush
<1>9. FramesOK(frames', cur', status', heap) BY <1>1, <1>8 DEF g
<1>10. OperandsLive(values', last', thrown', heap) BY <1>1
<1>11. QED BY <1>9, <1>10, LiveFacts, RetainStep

LEMMA VisitMove ==
    ASSUME IInv, LInv, IInv', frames # <<>>, status = "running", Top.op \notin ScopeOps,
           NEW f \in Frame, f.op \notin ScopeOps, f.scope = Top.scope, FrameLive(f, heap),
           NEW child \in Childless, Visit(f, child), UNCHANGED <<cur, control>>, Retain(heap),
           OperandsLive(values', last', thrown, heap)
    PROVE  LInv'
<1> DEFINE fr == [frames EXCEPT ![Len(frames)] = f]
<1>1. FramesOK(fr, cur, "running", heap) /\ fr \in Seq(Frame) BY GoOn
<1>2. frames' = Append(fr, Activation(child)) BY DEF Visit
<1> HIDE DEF fr
<1>3. QED BY <1>1, <1>2, ChildMove

\* The same activation with another child to visit.
LEMMA SameLocals ==
    ASSUME NEW f \in Frame, NEW h, FrameLive(f, h), NEW op \in Ops
    PROVE  LET g == [f EXCEPT !.op = op]
           IN  g \in Frame /\ g.op = op /\ g.scope = f.scope /\ FrameLive(g, h)
BY DEF Frame, FrameLive

LEMMA EvaluateMove ==
    ASSUME IInv, LInv, IInv', frames # <<>>, status = "running", Top.op \notin ScopeOps,
           NEW op \in Awaiting, Evaluate(op), UNCHANGED <<cur, control>>, Retain(heap),
           OperandsLive(values', last', thrown, heap)
    PROVE  LInv'
<1> DEFINE f == [Top EXCEPT !.op = op]
<1>1. Top \in Frame /\ FrameLive(Top, heap) /\ op \in Ops
   BY TopFacts, LiveFacts DEF FrameOK, Ops
<1>2. f \in Frame /\ f.op = op /\ f.scope = Top.scope /\ FrameLive(f, heap)
   BY <1>1, SameLocals
<1>3. Visit(f, "Expr") /\ "Expr" \in Childless BY DEF Evaluate, Childless
<1>4. op \notin ScopeOps BY DEF Awaiting, ScopeOps, Catchers
<1> HIDE DEF f
<1>5. QED BY <1>2, <1>3, <1>4, VisitMove

\* The innermost activation enters a scope of its own.
LEMMA EnterMove ==
    ASSUME IInv, LInv, frames # <<>>, status = "running", Top.op \notin ScopeOps,
           NEW f \in Frame, f.op \in ScopeOps, f.prev = cur,
           NEW new, Grows(heap, new), FrameLive(f, new), Live(new, f.scope), Intact(f, new)
    PROVE  LET entered == [frames EXCEPT ![Len(frames)] = f]
           IN  FramesOK(entered, f.scope, "running", new) /\ entered \in Seq(Frame)
<1> DEFINE below == SubSeq(frames, 1, Len(frames) - 1)
<1>1. Chain(frames) /\ FramesOK(frames, cur, "running", heap)
   BY DEF IInv, StackOK, LInv
<1>2. Top.at = cur BY TopFacts DEF Innermost, FrameOK
<1>3. FramesOK(below, cur, "running", heap) BY <1>1, <1>2, FramesFinish DEF Top
<1>4. Chain(below) BY <1>1, FinishKeepsChain
<1>5. below \in Seq(Frame) /\ [frames EXCEPT ![Len(frames)] = f] \in Seq(Frame)
      /\ [frames EXCEPT ![Len(frames)] = f] = Append(below, f)
   BY <1>1, BecomeIsPush
<1> HIDE DEF below
<1>6. FramesOK(below, cur, "running", new) BY <1>3, <1>4, FramesGrow
<1>7. FramesOK(Append(below, f), f.scope, "running", new)
   BY <1>5, <1>6, FramesPush
<1>8. QED BY <1>5, <1>7

-----------------------------------------------------------------------------
(***************************************************************************)
(* Expressions.                                                            *)
(***************************************************************************)
LEMMA AwaitingOps ==
    \A op \in Awaiting : op \notin ScopeOps /\ op # "Program" /\ op \notin Catchers
BY DEF Awaiting, ScopeOps, Catchers

LEMMA BeginExprLive ==
    ASSUME IInv, LInv, IInv', NEW kind, NEW op \in Awaiting, BeginExpr(kind, op)
    PROVE  LInv'
<1>1. /\ frames # <<>> /\ status = "running" /\ Top.op = "Expr"
      /\ UNCHANGED <<values, last, cur, control>> /\ Evaluate(op) /\ Retain(heap)
   BY DEF BeginExpr, At
<1>2. Top.op \notin ScopeOps BY <1>1 DEF ScopeOps, Catchers
<1>3. OperandsLive(values', last', thrown, heap) BY <1>1, LiveFacts
<1>4. QED BY <1>1, <1>2, <1>3, EvaluateMove

\* An activation ends that has taken its operand off, or leaves it.
LEMMA OperandEnds ==
    ASSUME IInv, LInv, IInv', NEW op \in Awaiting, At(op), last' = Operand,
           values' = Rest \/ values' = values, Finish, UNCHANGED <<cur, control>>,
           NEW new, HeapOK(new), HeapClosed(new), Grows(heap, new), Retain(new)
    PROVE  LInv'
<1>1. frames # <<>> /\ status = "running" /\ Top.op \notin ScopeOps
   BY AwaitingOps DEF At
<1>2. OperandsLive(values', last', thrown, heap) BY PopLive
<1>3. OperandsLive(values', last', thrown, new) BY <1>2, OperandsGrow
<1>4. QED BY <1>1, <1>3, EndInScope

LEMMA OperandRaises ==
    ASSUME IInv, LInv, IInv', NEW op \in Awaiting, At(op), PopValue, UNCHANGED cur,
           NEW kind, NEW n, Raise(kind, n), Retain(heap)
    PROVE  LInv'
<1>1. OperandsLive(values', last', thrown, heap) BY PopLive DEF PopValue
<1>2. Live(heap, cur') BY LiveFacts
<1>3. QED BY <1>1, <1>2, LiveFacts, RaiseMove

LEMMA OperandCrashes ==
    ASSUME IInv, LInv, IInv', NEW op \in Awaiting, At(op), PopValue, Crash, Retain(heap)
    PROVE  LInv'
<1>1. OperandsLive(values', last', thrown, heap) /\ status = "running"
   BY PopLive DEF PopValue, At
<1>2. QED BY <1>1, CrashMove

LEMMA LiteralLive == ASSUME IInv, LInv, IInv', Literal PROVE LInv'
<1>1. /\ frames # <<>> /\ status = "running" /\ Top.op = "Expr"
      /\ values' = Append(values, Plain) /\ Finish
      /\ UNCHANGED <<last, cur, control>> /\ Retain(heap)
   BY DEF Literal, At
<1>2. Top.op \notin ScopeOps BY <1>1 DEF ScopeOps, Catchers
<1>3. Plain \in Value /\ Object(heap, Plain) /\ values \in Seq(Value)
   BY AddressesDistinct DEF Value, Object, Ref, IInv, DataOK
<1>4. OperandsLive(values', last', thrown, heap) BY <1>1, <1>3, LiveFacts, PushLive
<1>5. QED BY <1>1, <1>2, <1>4, LiveFacts, EndInScope

\* The value a lookup ends at is in use.
LEMMA FoundIsLive ==
    ASSUME IInv, LInv, NEW n \in Names, NEW t, NEW s \in FindSymbol(t, n)
    PROVE  /\ s \in Ref /\ heap[s].tag # "free"
           /\ heap[s].symbols[n] \in Value /\ Object(heap, heap[s].symbols[n])
<1>1. HeapOK(heap) /\ HeapClosed(heap) BY LiveFacts
<1>2. s \in Ref /\ heap[s].symbols[n] \in Value BY <1>1, FoundSymbol
<1>3. heap[s].symbols[n] # None BY <1>2, AddressesDistinct DEF Value
<1>4. heap[s].tag # "free" BY <1>1, <1>2, <1>3 DEF HeapClosed, NoSymbols
<1>5. QED BY <1>1, <1>2, <1>4, HeldIsLive

LEMMA IdentifierLive == ASSUME IInv, LInv, IInv', Identifier PROVE LInv'
<1>1. /\ frames # <<>> /\ status = "running" /\ Top.op = "Expr"
      /\ UNCHANGED last /\ Retain(heap)
   BY DEF Identifier, At
<1>2. Top.op \notin ScopeOps BY <1>1 DEF ScopeOps, Catchers
<1>3. PICK n \in Names :
         \/ /\ \E s \in FindSymbol(cur, n) :
                  values' = Append(values, heap[s].symbols[n])
            /\ Finish
            /\ UNCHANGED <<cur, control>>
         \/ NotFound(n) /\ UNCHANGED values
   BY DEF Identifier
<1>4. ASSUME NEW s \in FindSymbol(cur, n), values' = Append(values, heap[s].symbols[n]),
             Finish, UNCHANGED <<cur, control>>
      PROVE  LInv'
   <2>1. heap[s].symbols[n] \in Value /\ Object(heap, heap[s].symbols[n]) BY FoundIsLive
   <2>2. values \in Seq(Value) BY DEF IInv, DataOK
   <2>3. OperandsLive(values', last', thrown, heap)
      BY <1>1, <1>4, <2>1, <2>2, LiveFacts, PushLive
   <2>4. QED BY <1>1, <1>2, <1>4, <2>3, LiveFacts, EndInScope
<1>5. CASE NotFound(n) /\ UNCHANGED values
   <2>1. Live(heap, cur') /\ OperandsLive(values', last', thrown, heap)
      BY <1>1, <1>5, LiveFacts DEF NotFound
   <2>2. QED BY <1>1, <1>5, <2>1, LiveFacts, RaiseMove DEF NotFound
<1>6. QED BY <1>3, <1>4, <1>5

LEMMA BinaryOpLive == ASSUME IInv, LInv, IInv', BinaryOp PROVE LInv'
<1>1. CASE BeginExpr("BinaryOp", "BinRhs") BY <1>1, BeginExprLive DEF Awaiting
<1>2. CASE /\ At("BinRhs")
           /\ UNCHANGED <<values, last, cur, control>>
           /\ Evaluate("BinLhs")
           /\ Retain(heap)
   <2>1. frames # <<>> /\ status = "running" /\ Top.op = "BinRhs" BY <1>2 DEF At
   <2>2. OperandsLive(values', last', thrown, heap) BY <1>2, LiveFacts
   <2>3. QED BY <1>2, <2>1, <2>2, EvaluateMove DEF Awaiting, ScopeOps, Catchers
<1>3. CASE /\ At("BinLhs")
           /\ LET rhs == values[Len(values) - 1]
                  below == SubSeq(values, 1, Len(values) - 2)
              IN  /\ last' = rhs
                  /\ \/ /\ Operand = Plain
                        /\ values' = Append(below, Plain)
                        /\ Finish
                        /\ UNCHANGED control
                     \/ values' = below /\ Raise("other", None)
                     \/ Operand = Plain /\ values' = below /\ Crash
           /\ UNCHANGED cur
           /\ Retain(heap)
   <2> DEFINE below == SubSeq(values, 1, Len(values) - 2)
   <2>1. /\ frames # <<>> /\ status = "running" /\ Top.op = "BinLhs"
         /\ Len(values) = Top.base + 2 /\ Top.base \in Nat /\ Len(values) \in Nat
      BY <1>3, AtFacts DEF Pending, Awaiting
   <2>2. Len(values) - 1 \in 1..Len(values) /\ 2 <= Len(values) /\ 2 \in Nat BY <2>1
   <2>3. values \in Seq(Value) /\ OperandsLive(values, last, thrown, heap)
      BY LiveFacts DEF IInv, DataOK
   <2>4. Object(heap, last') BY <1>3, <2>2, <2>3 DEF OperandsLive
   <2>5. OperandsLive(below, last, thrown, heap) /\ below \in Seq(Value)
      BY <2>2, <2>3, DropLive
   <2> HIDE DEF below
   <2>6. OperandsLive(below, last', thrown, heap) BY <2>4, <2>5, LastLive
   <2>7. CASE values' = Append(below, Plain) /\ Finish /\ UNCHANGED control
      <3>1. Plain \in Value /\ Object(heap, Plain)
         BY AddressesDistinct DEF Value, Object, Ref
      <3>2. OperandsLive(values', last', thrown, heap)
         BY <2>5, <2>6, <2>7, <3>1, PushLive
      <3>3. QED BY <1>3, <2>1, <2>7, <3>2, LiveFacts, EndInScope DEF ScopeOps, Catchers
   <2>8. CASE values' = below /\ Raise("other", None)
      <3>1. Live(heap, cur') BY <1>3, LiveFacts
      <3>2. QED BY <1>3, <2>6, <2>8, <3>1, LiveFacts, RaiseMove
   <2>9. CASE values' = below /\ Crash BY <1>3, <2>1, <2>6, <2>9, CrashMove
   <2>10. QED BY <1>3, <2>7, <2>8, <2>9 DEF below
<1>4. QED BY <1>1, <1>2, <1>3 DEF BinaryOp

LEMMA UnaryLive == ASSUME IInv, LInv, IInv', Unary PROVE LInv'
<1>1. CASE BeginExpr("Unary", "Unary") BY <1>1, BeginExprLive DEF Awaiting
<1>2. CASE /\ At("Unary") /\ last' = Operand
           /\ UNCHANGED <<values, control>> /\ Finish /\ UNCHANGED cur /\ Retain(heap)
   BY <1>2, LiveFacts, OperandEnds DEF Awaiting
<1>3. CASE /\ At("Unary") /\ last' = Operand
           /\ values' = Rest /\ Raise("other", None) /\ UNCHANGED cur /\ Retain(heap)
   BY <1>3, OperandRaises DEF Awaiting, PopValue
<1>4. QED BY <1>1, <1>2, <1>3 DEF Unary

LEMMA LogicOpLive == ASSUME IInv, LInv, IInv', LogicOp PROVE LInv'
<1>1. CASE BeginExpr("LogicOp", "LogicLhs") BY <1>1, BeginExprLive DEF Awaiting
<1>2. ASSUME NEW op \in {"LogicLhs", "LogicRhs"}, At(op), last' = Operand,
             UNCHANGED <<values, control>>, Finish, UNCHANGED cur, Retain(heap)
      PROVE  LInv'
   BY <1>2, LiveFacts, OperandEnds DEF Awaiting
<1>3. ASSUME NEW op \in {"LogicLhs", "LogicRhs"}, At(op), last' = Operand,
             values' = Rest, Raise("other", None), UNCHANGED cur, Retain(heap)
      PROVE  LInv'
   BY <1>3, OperandRaises DEF Awaiting, PopValue
<1>4. ASSUME At("LogicLhs"), last' = Operand, values' = Rest, UNCHANGED control,
             Evaluate("LogicRhs"), UNCHANGED cur, Retain(heap)
      PROVE  LInv'
   <2>1. frames # <<>> /\ status = "running" /\ Top.op = "LogicLhs" BY <1>4 DEF At
   <2>2. OperandsLive(values', last', thrown, heap) BY <1>4, PopLive DEF Awaiting
   <2>3. QED BY <1>4, <2>1, <2>2, EvaluateMove DEF Awaiting, ScopeOps, Catchers
<1>5. QED BY <1>1, <1>2, <1>3, <1>4 DEF LogicOp

LEMMA AssignmentLive == ASSUME IInv, LInv, IInv', Assignment PROVE LInv'
<1>1. CASE BeginExpr("Assignment", "Assign") BY <1>1, BeginExprLive DEF Awaiting
<1>2. ASSUME At("Assign"), last' = Operand, NEW n \in OwnNames,
             \/ \E s \in FindSymbol(cur, n) :
                   /\ UNCHANGED <<values, cur, control>>
                   /\ Finish
                   /\ Retain(Declare(heap, s, n, Operand))
             \/ NotFound(n) /\ values' = Rest /\ Retain(heap)
      PROVE  LInv'
   <2>1. n \in Names BY ScriptsWellFormed
   <2>2. CASE NotFound(n) /\ values' = Rest /\ Retain(heap)
      BY <1>2, <2>2, OperandRaises DEF NotFound, PopValue, Awaiting
   <2>3. ASSUME NEW s \in FindSymbol(cur, n), UNCHANGED <<values, cur, control>>,
                Finish, Retain(Declare(heap, s, n, Operand))
         PROVE  LInv'
      <3> DEFINE new == Declare(heap, s, n, Operand)
      <3>1. Object(heap, Operand) /\ Operand \in Value BY <1>2, PopLive DEF Awaiting
      <3>2. HeapOK(new) /\ HeapClosed(new) /\ Grows(heap, new)
         BY <2>1, <3>1, FoundIsLive, LiveFacts, DeclareHeap
      <3> HIDE DEF new
      <3>3. Retain(new) BY <2>3 DEF new
      <3>4. QED BY <1>2, <2>3, <3>2, <3>3, OperandEnds DEF Awaiting
   <2>4. QED BY <1>2, <2>2, <2>3
<1>3. QED BY <1>1, <1>2 DEF Assignment

\* A copy of a method that is bound to an instance holds the instance only.
LEMMA BoundFacts ==
    ASSUME NEW instance \in Addr, NEW params \in Seq(Names) \cup {None}
    PROVE  LET c == Bound(instance, params)
           IN  /\ c \in Cell /\ c.tag = "function" /\ c.parent = Globals
               /\ c.bound = instance /\ c.link = None /\ c.symbols[This] = instance
               /\ \A n \in Names : c.symbols[n] = IF n = This THEN instance ELSE None
               /\ \A v \in Ref : Holds(c, v) => v = instance
<1> DEFINE c == Bound(instance, params)
<1>1. c \in Cell /\ c.tag = "function" BY NewCells
<1>2. /\ c.parent = Globals /\ c.bound = instance /\ c.link = None
      /\ c.symbols = [NoSymbols EXCEPT ![This] = instance]
   BY DEF Bound, FreeCell
<1>3. \A n \in Names : c.symbols[n] = IF n = This THEN instance ELSE None
   BY <1>2 DEF NoSymbols
<1>4. None \notin Ref BY AddressesDistinct DEF Ref
<1>5. \A v \in Ref : Holds(c, v) => v = instance BY <1>2, <1>3, <1>4 DEF Holds
<1>6. QED BY <1>1, <1>2, <1>3, <1>5, ScriptsWellFormed

LEMMA BoundFits ==
    ASSUME NEW instance \in Addr, NEW params \in Seq(Names) \cup {None},
           NEW h, h[instance].tag = "instance"
    PROVE  Fits(Bound(instance, params), h)
<1> DEFINE c == Bound(instance, params)
<1>1. /\ c \in Cell /\ c.tag = "function" /\ c.bound = instance /\ c.link = None
      /\ \A n \in Names : c.symbols[n] = IF n = This THEN instance ELSE None
      /\ \A v \in Ref : Holds(c, v) => v = instance
   BY BoundFacts
<1> HIDE DEF c
<1>2. None \notin Ref BY AddressesDistinct DEF Ref
<1>3. Kinds(c, h) BY <1>1, <1>2 DEF Kinds, Object
<1>4. QED BY <1>1, <1>3 DEF Fits, Live, c

LEMMA GiveLive ==
    ASSUME IInv, LInv, IInv', At("Get"), last' = Operand, UNCHANGED <<cur, control>>,
           NEW v \in Value, values' = Append(Rest, v), Finish,
           NEW new, HeapOK(new), HeapClosed(new), Grows(heap, new), Retain(new), Object(new, v)
    PROVE  LInv'
<1>1. frames # <<>> /\ status = "running" /\ Top.op = "Get" BY DEF At
<1>2. OperandsLive(Rest, Operand, thrown, heap) /\ Rest \in Seq(Value)
   BY PopLive DEF Awaiting
<1>3. OperandsLive(Rest, last', thrown, new) BY <1>2, OperandsGrow
<1>4. OperandsLive(values', last', thrown, new) BY <1>2, <1>3, PushLive
<1>5. Top.op \notin ScopeOps BY <1>1 DEF ScopeOps, Catchers
<1>6. QED BY <1>1, <1>4, <1>5, EndInScope

LEMMA FreeIsFree ==
    ASSUME NEW a \in Free PROVE a \in Addr /\ a \in Ref /\ a \in Value /\ heap[a].tag = "free"
BY DEF Free, Ref, Value

LEMMA GiveBoundLive ==
    ASSUME IInv, LInv, IInv', At("Get"), last' = Operand, UNCHANGED <<cur, control>>,
           Is(Operand, "instance"),
           NEW params \in Seq(Names) \cup {None}, Free # {},
           values' = Append(Rest, Fresh({})), Finish,
           Retain([heap EXCEPT ![Fresh({})] = Bound(Operand, params)])
    PROVE  LInv'
<1> DEFINE copy == Fresh({})
           c == Bound(Operand, params)
           new == Put(heap, copy, c)
<1>1. copy \in Addr /\ copy \in Value /\ heap[copy].tag = "free"
   BY FreshFacts, FreeIsFree
<1> HIDE DEF copy
<1>2. Operand \in Addr /\ heap[Operand].tag = "instance" BY DEF Is
<1>3. Fits(c, heap) /\ c.tag = "function" BY <1>2, BoundFits, BoundFacts
<1> HIDE DEF c
<1>4. HeapOK(new) /\ HeapClosed(new) /\ Grows(heap, new) /\ new[copy] = c
   <2>1. HeapOK(heap) /\ HeapClosed(heap) BY LiveFacts
   <2>2. Fits(c, heap) BY <1>3
   <2>3. QED BY <1>1, <2>1, <2>2, AllocHeap
<1> HIDE DEF new
<1>5. Object(new, copy) BY <1>3, <1>4 DEF Object
<1>6. Retain(new) BY DEF new, copy, c, Put
<1>7. values' = Append(Rest, copy) BY DEF copy
<1>8. QED BY <1>1, <1>4, <1>5, <1>6, <1>7, GiveLive

LEMMA GetExpressionLive == ASSUME IInv, LInv, IInv', GetExpression PROVE LInv'
<1>1. CASE BeginExpr("Get", "Get") BY <1>1, BeginExprLive DEF Awaiting
<1>2. CASE At("Get") /\ ~Is(Operand, "instance") /\ PopValue /\ Crash /\ Retain(heap)
   BY <1>2, OperandCrashes DEF Awaiting
<1>3. ASSUME At("Get"), Is(Operand, "instance"), last' = Operand, UNCHANGED cur,
             NEW n \in Names,
             LET field == heap[Operand].symbols[n]
                 method == heap[heap[Operand].link].methods[n]
                 member == IF field # None THEN field ELSE method
                 copy == Fresh({})
                 Give(v) == values' = Append(Rest, v) /\ Finish /\ UNCHANGED control
                 GiveBound(params) == /\ Free # {}
                                      /\ Give(copy)
                                      /\ Retain([heap EXCEPT ![copy] = Bound(Operand, params)])
             IN  \/ field # None /\ Is(field, "function") /\ GiveBound(heap[field].params)
                 \/ field = Builtin /\ GiveBound(None)
                 \/ /\ field # None /\ field # Builtin /\ ~Is(field, "function")
                    /\ Give(field)
                    /\ Retain(heap)
                 \/ field = None /\ method # None /\ GiveBound(method)
                 \/ /\ member = None
                    /\ values' = Rest
                    /\ Raise("member", n)
                    /\ Retain(heap)
      PROVE  LInv'
   <2> DEFINE field == heap[Operand].symbols[n]
   <2> DEFINE method == heap[heap[Operand].link].methods[n]
   <2> DEFINE Give(v) == values' = Append(Rest, v) /\ Finish /\ UNCHANGED control
   <2> DEFINE GiveBound(params) ==
                 /\ Free # {}
                 /\ Give(Fresh({}))
                 /\ Retain([heap EXCEPT ![Fresh({})] = Bound(Operand, params)])
   <2>1. HeapOK(heap) BY DEF IInv, DataOK
   <2>2. Operand \in Addr /\ Operand \in Ref /\ heap[Operand].tag = "instance"
      BY <1>3 DEF Is, Ref
   <2>3. heap[Operand] \in Cell /\ heap[Operand].link \in Ref BY <2>1, <2>2, CellFacts
   <2>4. field \in Value \cup {None} /\ Object(heap, field)
      BY <2>2, <2>3, LiveFacts, HeldIsLive DEF Cell
   <2>5. heap[heap[Operand].link] \in Cell BY <2>1, <2>3, CellFacts
   <2>6. method \in Signatures \cup {None} BY <2>5 DEF Cell
   <2>7. method \in Seq(Names) \cup {None} BY <2>6, ScriptsWellFormed
   <2>8. CASE Is(field, "function") /\ GiveBound(heap[field].params)
      <3>1. field \in Ref BY <2>8 DEF Is, Ref
      <3>2. heap[field].params \in Seq(Names) \cup {None} BY <2>1, <3>1, CellFacts DEF Cell
      <3>3. QED BY <1>3, <2>2, <2>8, <3>2, GiveBoundLive
   <2>9. CASE GiveBound(None)
      BY <1>3, <2>2, <2>9, GiveBoundLive
   <2>10. CASE field # None /\ Give(field) /\ Retain(heap)
      BY <1>3, <2>4, <2>10, LiveFacts, GiveLive
   <2>11. CASE GiveBound(method)
      BY <1>3, <2>2, <2>7, <2>11, GiveBoundLive
   <2>12. CASE values' = Rest /\ Raise("member", n) /\ Retain(heap)
      BY <1>3, <2>12, OperandRaises DEF Awaiting, PopValue
   <2>13. QED BY <1>3, <2>8, <2>9, <2>10, <2>11, <2>12
<1>4. QED BY <1>1, <1>2, <1>3, Zenon DEF GetExpression

LEMMA SetExpressionLive == ASSUME IInv, LInv, IInv', SetExpression PROVE LInv'
<1>1. CASE BeginExpr("Set", "SetLhs") BY <1>1, BeginExprLive DEF Awaiting
<1>2. CASE /\ At("SetLhs")
           /\ PopValue
           /\ UNCHANGED <<cur, control>>
           /\ Visit([Top EXCEPT !.op = "SetRhs",
                                !.locals = <<IF Is(Operand, "instance") THEN Operand ELSE None>>],
                    "Expr")
           /\ Retain(heap)
   <2> DEFINE v == IF Is(Operand, "instance") THEN Operand ELSE None
   <2> DEFINE f == [Top EXCEPT !.op = "SetRhs", !.locals = <<v>>]
   <2>1. /\ frames # <<>> /\ status = "running" /\ Top.op = "SetLhs" /\ Top \in Frame
         /\ Operand \in Value /\ FrameLive(Top, heap)
      BY <1>2, AtFacts, LiveFacts DEF Awaiting, FrameOK
   <2>2. v \in Value \cup {None} /\ Object(heap, v)
      BY <1>2, <2>1, PopLive, NoneIsLive DEF Awaiting
   <2> HIDE DEF v
   <2>3. <<v>> \in Seq(Value \cup {None}) /\ DOMAIN <<v>> = {1} /\ <<v>>[1] = v BY <2>2
   <2>4. /\ f \in Frame /\ f.op = "SetRhs" /\ f.locals = <<v>> /\ f.prev = Top.prev
         /\ f.scope = Top.scope
      BY <2>1, <2>3 DEF Frame, Ops, Awaiting
   <2>5. Visit(f, "Expr") BY <1>2 DEF v
   <2> HIDE DEF f
   <2>6. FrameLive(f, heap) BY <2>1, <2>2, <2>3, <2>4 DEF FrameLive
   <2>7. OperandsLive(values', last', thrown, heap) BY <1>2, PopLive DEF PopValue, Awaiting
   <2>8. Top.op \notin ScopeOps /\ f.op \notin ScopeOps /\ "Expr" \in Childless
      BY <2>1, <2>4 DEF ScopeOps, Catchers, Childless
   <2>9. QED BY <1>2, <2>1, <2>4, <2>5, <2>6, <2>7, <2>8, VisitMove
<1>3. CASE /\ At("SetRhs") /\ Top.locals[1] \in Addr
           /\ last' = Operand
           /\ UNCHANGED <<values, cur, control>>
           /\ Finish
           /\ \E n \in OwnNames : Retain(Declare(heap, Top.locals[1], n, Operand))
   <2>1. PICK n \in OwnNames : Retain(Declare(heap, Top.locals[1], n, Operand)) BY <1>3
   <2> DEFINE t == Top.locals[1]
              new == Declare(heap, t, n, Operand)
   <2>2. n \in Names BY ScriptsWellFormed
   <2>3. Object(heap, Operand) /\ Operand \in Value BY <1>3, PopLive DEF Awaiting
   <2>4. t \in Ref /\ heap[t].tag # "free"
      <3>1. frames # <<>> /\ Top.op = "SetRhs" /\ FrameOK(Top) BY <1>3, AtFacts
      <3>2. Top.locals \in Seq(Value \cup {None}) /\ Top.locals # <<>>
         BY <3>1 DEF FrameOK, Frame
      <3>3. 1 \in DOMAIN Top.locals BY <3>2, EmptySeq, LenProperties
      <3>4. QED BY <1>3, <3>1, <3>3, LiveFacts DEF FrameLive, Object, Ref
   <2> HIDE DEF t
   <2>5. HeapOK(new) /\ HeapClosed(new) /\ Grows(heap, new)
      BY <2>2, <2>3, <2>4, LiveFacts, DeclareHeap
   <2> HIDE DEF new
   <2>6. Retain(new) BY <2>1 DEF new, t
   <2>7. QED BY <1>3, <2>5, <2>6, OperandEnds DEF Awaiting
<1>4. CASE At("SetRhs") /\ PopValue /\ Crash /\ Retain(heap)
   BY <1>4, OperandCrashes DEF Awaiting
<1>5. QED BY <1>1, <1>2, <1>3, <1>4 DEF SetExpression

-----------------------------------------------------------------------------
(***************************************************************************)
(* Calls.                                                                  *)
(***************************************************************************)
LEMMA TableFits ==
    ASSUME NEW parent \in Ref \cup {None}, NEW symbols \in [Names -> Value \cup {None}],
           NEW h, \A n \in Names : Object(h, symbols[n])
    PROVE  LET c == Table(parent, symbols)
           IN  Fits(c, h) /\ c.tag = "table" /\ c.parent = parent
<1> DEFINE c == Table(parent, symbols)
<1>1. c \in Cell /\ c.tag = "table" BY NewCells
<1>2. c.parent = parent /\ c.link = None /\ c.bound = None /\ c.symbols = symbols
   BY DEF Table, FreeCell
<1> HIDE DEF c
<1>3. None \notin Ref BY AddressesDistinct DEF Ref
<1>4. \A v \in Ref : Holds(c, v) => Live(h, v)
   BY <1>2, <1>3, ObjectIsLive DEF Holds, Live
<1>5. Kinds(c, h) BY <1>1, <1>2, <1>3 DEF Kinds
<1>6. QED BY <1>1, <1>2, <1>4, <1>5 DEF Fits, c

LEMMA NoSymbolsLive ==
    NoSymbols \in [Names -> Value \cup {None}] /\ \A h : \A n \in Names : Object(h, NoSymbols[n])
BY NoneIsLive DEF NoSymbols

LEMMA InstanceFits ==
    ASSUME NEW class \in Ref, NEW h, h[class].tag = "class"
    PROVE  Fits(Instance(class), h)
<1> DEFINE c == Instance(class)
<1>1. c \in Cell /\ c.tag = "instance" /\ c.link = class BY NewCells
<1>2. c.bound = None /\ c.symbols = NoSymbols BY DEF Instance, FreeCell
<1> HIDE DEF c
<1>3. None \notin Ref BY AddressesDistinct DEF Ref
<1>4. \A n \in Names : c.symbols[n] = None BY <1>2 DEF NoSymbols
<1>5. \A v \in Ref : Holds(c, v) => Live(h, v) BY <1>1, <1>2, <1>3, <1>4 DEF Holds, Live
<1>6. Kinds(c, h) BY <1>1, <1>2, <1>3, <1>4 DEF Kinds, Object
<1>7. QED BY <1>1, <1>5, <1>6 DEF Fits, c

LEMMA ParametersLive ==
    ASSUME NEW params \in Seq(Names), NEW args \in Seq(Value \cup {None}),
           NEW k \in Nat, k <= Len(params), Len(params) = Len(args),
           NEW h, \A j \in 1..Len(args) : Object(h, args[j])
    PROVE  \A n \in Names : Object(h, Parameters(params, args, k)[n])
<1>1. ASSUME NEW n \in Names
      PROVE  LET named == {i \in 1..k : params[i] = n}
             IN  Object(h, IF named = {} THEN None
                         ELSE args[CHOOSE i \in named : \A j \in named : j <= i])
   <2> DEFINE named == {i \in 1..k : params[i] = n}
   <2> DEFINE m == CHOOSE i \in named : \A j \in named : j <= i
   <2>1. CASE named = {} BY <2>1, NoneIsLive
   <2>2. CASE named # {}
      <3>1. named \subseteq 1..k OBVIOUS
      <3> HIDE DEF named
      <3>2. m \in named BY <2>2, <3>1, GreatestIndex
      <3> HIDE DEF m
      <3>3. m \in 1..k /\ Len(args) \in Nat BY <3>1, <3>2, LenProperties
      <3>4. m \in 1..Len(args) BY <3>3
      <3>5. QED BY <2>2, <3>4 DEF m, named
   <2>3. QED BY <2>1, <2>2
<1>2. QED BY <1>1, Zenon DEF Parameters

\* The callee and its arguments are held by the locals of the call.
LEMMA ArgsLive ==
    ASSUME IInv, LInv, At("Args")
    PROVE  /\ Object(heap, Callee) /\ \A j \in 1..Len(Args) : Object(heap, Args[j])
           /\ FrameLive(Top, heap) /\ Top \in Frame
<1>1. /\ frames # <<>> /\ FrameOK(Top) /\ Top.locals # <<>> /\ Top \in Frame
      /\ Top.locals \in Seq(Value \cup {None})
   BY CalleeFacts DEF FrameOK, Frame
<1>2. FrameLive(Top, heap) BY <1>1, LiveFacts
<1>3. /\ Len(Top.locals) \in Nat \ {0} /\ DOMAIN Top.locals = 1..Len(Top.locals)
   BY <1>1, EmptySeq, LenProperties
<1>4. 1 \in DOMAIN Top.locals BY <1>3
<1> DEFINE n == Len(Top.locals)
<1>5. n \in Int /\ 2 \in Int /\ \A i \in 2..n : i \in 1..n BY <1>3
<1>6. \A i \in 2..n : Top.locals[i] \in Value \cup {None} BY <1>1, <1>5, ElementOfSeq
<1>7. /\ Len(Args) = IF 2 <= n THEN n - 2 + 1 ELSE 0
      /\ \A i \in 1..(n - 2 + 1) : Args[i] = Top.locals[2 + i - 1]
   BY <1>5, <1>6, SubSeqProperties DEF Args
<1>8. ASSUME NEW j \in 1..Len(Args) PROVE Object(heap, Args[j])
   <2>1. j \in 1..(n - 2 + 1) /\ 2 + j - 1 \in 1..n BY <1>3, <1>7
   <2>2. QED BY <1>2, <1>3, <1>7, <2>1 DEF FrameLive
<1>9. QED BY <1>1, <1>2, <1>4, <1>8 DEF FrameLive, Callee

\* The activation in which the body runs.
LEMMA BodyLive ==
    ASSUME IInv, LInv, At("Args"), NEW table \in Ref, NEW new, Grows(heap, new)
    PROVE  LET f == [Top EXCEPT !.op = "Body", !.prev = cur, !.scope = table]
           IN  /\ f \in Frame /\ f.op = "Body" /\ f.op \in ScopeOps /\ f.prev = cur
               /\ f.scope = table /\ f.locals[1] = Callee /\ FrameLive(f, new)
<1> DEFINE f == [Top EXCEPT !.op = "Body", !.prev = cur, !.scope = table]
<1>1. Top \in Frame /\ cur \in Ref BY CalleeFacts
<1>2. /\ f \in Frame /\ f.op = "Body" /\ f.prev = cur /\ f.locals = Top.locals
      /\ f.scope = table
   BY <1>1 DEF Frame, Ops, Holders
<1> HIDE DEF f
<1>3. FrameLive(f, heap) BY <1>2, ArgsLive, LiveFacts DEF FrameLive
<1>4. FrameLive(f, new) BY <1>3, FrameGrows
<1>5. f.locals[1] = Callee /\ f.op \in ScopeOps BY <1>2 DEF Callee, ScopeOps, Catchers
<1>6. QED BY <1>2, <1>4, <1>5 DEF f

\* An error ends the script in the middle of a call.
LEMMA RaiseInCallLive ==
    ASSUME IInv, LInv, IInv', At("Args"), UNCHANGED <<values, last>>,
           NEW kind, NEW n, Raise(kind, n), NEW new, HeapOK(new), HeapClosed(new),
           Grows(heap, new), Retain(new), Live(new, cur')
    PROVE  LInv'
<1>1. OperandsLive(values', last', thrown, new) BY LiveFacts, OperandsGrow
<1>2. QED BY <1>1, RaiseMove

LEMMA CallFunctionLive ==
    ASSUME IInv, LInv, IInv', At("Args"), UNCHANGED <<values, last>>, Is(Callee, "function"),
           NEW params \in Seq(Names), Len(params) = Len(Args), CallFunction(params)
    PROVE  LInv'
<1> DEFINE table == Fresh({})
           c(k) == Table(Home(Callee), Parameters(params, Args, k))
           Entered(k) == Put(heap, table, c(k))
           f == [Top EXCEPT !.op = "Body", !.prev = cur, !.scope = table]
<1>1. table \in Addr /\ table \in Ref /\ heap[table].tag = "free" /\ cur' = table
   BY FreshFacts, FreeIsFree DEF CallFunction
<1>2. /\ frames # <<>> /\ status = "running" /\ Top.op = "Args"
      /\ Args \in Seq(Value \cup {None}) /\ Len(params) \in Nat
      /\ Top.op \notin ScopeOps
   BY CalleeFacts, LenProperties DEF ScopeOps, Catchers
<1>3. HeapOK(heap) /\ HeapClosed(heap) BY LiveFacts
<1>4. Callee \in Addr /\ Callee \in Ref /\ heap[Callee].tag = "function" BY DEF Is, Ref
<1>5. Home(Callee) \in Ref
   <2>1. heap[Callee].link \in Ref \cup {None} BY <1>3, <1>4, CellFacts DEF Cell
   <2>2. QED BY <1>4, <2>1 DEF Home, Ref
<1>6. ASSUME NEW k \in Nat, k <= Len(params)
      PROVE  /\ HeapOK(Entered(k)) /\ HeapClosed(Entered(k)) /\ Grows(heap, Entered(k))
             /\ Entered(k)[table].tag = "table" /\ Entered(k)[table].parent = Home(Callee)
             /\ Live(Entered(k), table)
   <2>1. Parameters(params, Args, k) \in [Names -> Value \cup {None}]
      BY <1>2, <1>6, ParametersType
   <2>2. \A n \in Names : Object(heap, Parameters(params, Args, k)[n])
      BY <1>2, <1>6, ArgsLive, ParametersLive
   <2>3. Fits(c(k), heap) /\ c(k).tag = "table" /\ c(k).parent = Home(Callee)
      BY <1>5, <2>1, <2>2, TableFits
   <2> HIDE DEF c, table
   <2>4. /\ HeapOK(Entered(k)) /\ HeapClosed(Entered(k)) /\ Grows(heap, Entered(k))
         /\ Entered(k)[table] = c(k)
      BY <1>1, <1>3, <2>3, AllocHeap
   <2> HIDE DEF Entered
   <2>5. QED BY <2>3, <2>4 DEF Live
<1>7. CASE Become(f) /\ UNCHANGED control /\ Retain(Entered(Len(params)))
   <2> DEFINE new == Entered(Len(params))
   <2>1. Len(params) <= Len(params) BY <1>2
   <2>2. /\ HeapOK(new) /\ HeapClosed(new) /\ Grows(heap, new)
         /\ new[table].tag = "table" /\ new[table].parent = Home(Callee)
         /\ Live(new, table)
      BY <1>2, <1>6, <2>1
   <2>3. Retain(new) BY <1>7
   <2> HIDE DEF Entered, new
   <2>4. /\ f \in Frame /\ f.op = "Body" /\ f.op \in ScopeOps /\ f.prev = cur
         /\ f.scope = table /\ f.locals[1] = Callee /\ FrameLive(f, new)
      BY <1>1, <2>2, BodyLive
   <2> HIDE DEF f, table
   <2>5. Intact(f, new)
      <3>1. heap[Callee].tag # "free" BY <1>4
      <3>2. /\ new[Callee].tag = "function" /\ new[Callee].bound = heap[Callee].bound
            /\ new[Callee].link = heap[Callee].link
         BY <1>4, <2>2, <3>1 DEF Grows
      <3>3. Parent(f, new) = Home(Callee) BY <2>4, <3>2 DEF Parent, Home
      <3>4. QED BY <1>4, <1>5, <2>2, <2>4, <3>3 DEF Intact
   <2>6. FramesOK(frames', f.scope, "running", new)
      BY <1>2, <1>7, <2>2, <2>4, <2>5, EnterMove DEF Become
   <2>7. cur' = f.scope /\ status' = "running" /\ thrown' = thrown
      BY <1>1, <1>2, <1>7, <2>4 DEF control
   <2>8. OperandsLive(values', last', thrown', new) BY <2>2, <2>7, LiveFacts, OperandsGrow
   <2>9. QED BY <2>2, <2>3, <2>6, <2>7, <2>8, RetainStep
<1>8. ASSUME NEW k \in 0..(Len(params) - 1), Retain(Entered(k)),
             Refuse(UnknownTypes(Home(Callee), Parameters(params, Args, k)))
      PROVE  LInv'
   <2>1. k \in Nat /\ k <= Len(params) BY <1>2
   <2>2. HeapOK(Entered(k)) /\ HeapClosed(Entered(k)) /\ Grows(heap, Entered(k))
         /\ Live(Entered(k), cur')
      BY <1>1, <1>6, <2>1
   <2> HIDE DEF Entered, table
   <2>3. PICK kind, n : Raise(kind, n) BY <1>8, RefuseRaises
   <2>4. QED BY <1>8, <2>2, <2>3, RaiseInCallLive
<1>9. QED BY <1>7, <1>8, Zenon DEF CallFunction, Put

\* Four addresses of which none is in use.
LEMMA FreshFour ==
    ASSUME Cardinality(Free) >= 4, IsFiniteSet(Free),
           NEW a, a = Fresh({}), NEW b, b = Fresh({a}), NEW c, c = Fresh({a, b}),
           NEW d, d = Fresh({a, b, c})
    PROVE  /\ a \in Free /\ b \in Free /\ c \in Free /\ d \in Free
           /\ a # b /\ a # c /\ a # d /\ b # c /\ b # d /\ c # d
<1>1. Free # {} /\ Free \ {a} # {} /\ Free \ {a, b} # {} /\ Free \ {a, b, c} # {}
   BY FourAreFree
<1>2. a \in Free BY <1>1, FreshFacts
<1>3. b \in Free \ {a} BY <1>1, FreshFacts
<1>4. c \in Free \ {a, b} BY <1>1, FreshFacts
<1>5. d \in Free \ {a, b, c} BY <1>1, FreshFacts
<1>6. QED BY <1>2, <1>3, <1>4, <1>5

\* The objects of a constructor's call: a table for the call, the instance, the
\* constructor bound to it, and a table for the constructor.
ClassHeap(outer, instance, constructor, inner, params, symbols) ==
    Put(Put(Put(Put(heap, outer, Table(heap[Callee].link, NoSymbols)),
                instance, Instance(Callee)),
            constructor, Bound(instance, params)),
        inner, Table(constructor, symbols))

LEMMA ClassHeapFacts ==
    ASSUME IInv, LInv, Is(Callee, "class"), Object(heap, Callee),
           NEW outer \in Free, NEW instance \in Free, NEW constructor \in Free,
           NEW inner \in Free, outer # instance, outer # constructor, outer # inner,
           instance # constructor, instance # inner, constructor # inner,
           NEW params \in Seq(Names),
           NEW symbols \in [Names -> Value \cup {None}],
           \A n \in Names : Object(heap, symbols[n])
    PROVE  LET new == ClassHeap(outer, instance, constructor, inner, params, symbols)
           IN  /\ HeapOK(new) /\ HeapClosed(new) /\ Grows(heap, new)
               /\ new[outer].tag = "table" /\ new[outer].parent = heap[Callee].link
               /\ new[instance].tag = "instance"
               /\ new[constructor].tag = "function" /\ new[constructor].parent = Globals
               /\ new[constructor].symbols[This] = instance
               /\ new[constructor].bound = instance
               /\ new[inner].tag = "table" /\ new[inner].parent = constructor
<1> DEFINE c1 == Table(heap[Callee].link, NoSymbols)
           c2 == Instance(Callee)
           c3 == Bound(instance, params)
           c4 == Table(constructor, symbols)
           h1 == Put(heap, outer, c1)
           h2 == Put(h1, instance, c2)
           h3 == Put(h2, constructor, c3)
           h4 == Put(h3, inner, c4)
<1>1. HeapOK(heap) /\ HeapClosed(heap) BY LiveFacts
<1>2. /\ outer \in Addr /\ instance \in Addr /\ constructor \in Addr /\ inner \in Addr
      /\ outer \in Ref /\ instance \in Ref /\ constructor \in Ref /\ inner \in Ref
      /\ heap[outer].tag = "free" /\ heap[instance].tag = "free"
      /\ heap[constructor].tag = "free" /\ heap[inner].tag = "free"
   BY FreeIsFree
<1>3. Callee \in Ref BY DEF Is, Ref
<1>4. heap[Callee].link \in Ref \cup {None} BY <1>1, <1>3, CellFacts DEF Cell
<1>5. Fits(c1, heap) /\ c1.tag = "table" /\ c1.parent = heap[Callee].link
   BY <1>4, NoSymbolsLive, TableFits
<1> HIDE DEF c1
<1>6. /\ HeapOK(h1) /\ HeapClosed(h1) /\ Grows(heap, h1)
      /\ h1[outer] = c1 /\ \A b \in Ref : b # outer => h1[b] = heap[b]
   BY <1>1, <1>2, <1>5, AllocHeap
<1> HIDE DEF h1
<1>7. Fits(c2, h1) /\ c2.tag = "instance"
   <2>1. h1[Callee].tag = "class" BY <1>3, <1>6 DEF Is, Grows
   <2>2. QED BY <1>3, <2>1, InstanceFits, NewCells
<1>8. h1[instance].tag = "free" BY <1>2, <1>6
<1> HIDE DEF c2
<1>9. /\ HeapOK(h2) /\ HeapClosed(h2) /\ Grows(h1, h2)
      /\ h2[instance] = c2 /\ \A b \in Ref : b # instance => h2[b] = h1[b]
   BY <1>2, <1>6, <1>7, <1>8, AllocHeap
<1> HIDE DEF h2
<1>10. h2[instance].tag = "instance" BY <1>7, <1>9
<1>11. Fits(c3, h2) BY <1>10, <1>2, BoundFits
<1>12. /\ c3.tag = "function" /\ c3.parent = Globals /\ c3.symbols[This] = instance
       /\ c3.bound = instance
   BY <1>2, BoundFacts
<1>13. h2[constructor].tag = "free" BY <1>2, <1>6, <1>9
<1> HIDE DEF c3
<1>14. /\ HeapOK(h3) /\ HeapClosed(h3) /\ Grows(h2, h3)
       /\ h3[constructor] = c3 /\ \A b \in Ref : b # constructor => h3[b] = h2[b]
   BY <1>2, <1>9, <1>11, <1>13, AllocHeap
<1> HIDE DEF h3
<1>15. Grows(heap, h3) BY <1>6, <1>9, <1>14, GrowsTwice
<1>16. \A n \in Names : Object(h3, symbols[n]) BY <1>15, GrowsObject
<1>17. Fits(c4, h3) /\ c4.tag = "table" /\ c4.parent = constructor
   BY <1>2, <1>16, TableFits
<1>18. h3[inner].tag = "free" BY <1>2, <1>6, <1>9, <1>14
<1> HIDE DEF c4
<1>19. /\ HeapOK(h4) /\ HeapClosed(h4) /\ Grows(h3, h4)
       /\ h4[inner] = c4 /\ \A b \in Ref : b # inner => h4[b] = h3[b]
   BY <1>2, <1>14, <1>17, <1>18, AllocHeap
<1>20. h4 = ClassHeap(outer, instance, constructor, inner, params, symbols)
   BY DEF ClassHeap, h1, h2, h3, c1, c2, c3, c4
<1> HIDE DEF h4
<1>21. Grows(heap, h4) BY <1>15, <1>19, GrowsTwice
<1>22. h4[outer] = c1 /\ h4[instance] = c2 /\ h4[constructor] = c3 /\ h4[inner] = c4
   BY <1>2, <1>6, <1>9, <1>14, <1>19
<1>23. QED BY <1>5, <1>7, <1>12, <1>17, <1>19, <1>20, <1>21, <1>22

LEMMA CallClassLive ==
    ASSUME IInv, LInv, IInv', At("Args"), UNCHANGED <<values, last>>, Is(Callee, "class"),
           heap[Callee].link \in Ref,
           NEW params \in Seq(Names), Len(params) = Len(Args), CallClass(params)
    PROVE  LInv'
<1> DEFINE outer == Fresh({})
           instance == Fresh({outer})
           constructor == Fresh({outer, instance})
           inner == Fresh({outer, instance, constructor})
           Entered(k) == ClassHeap(outer, instance, constructor, inner, params,
                                   Parameters(params, Args, k))
           f == [Top EXCEPT !.op = "Body", !.prev = cur, !.scope = outer]
           g == [op |-> "Ctor", prev |-> outer, locals |-> <<instance, constructor>>,
                 at |-> outer, base |-> Len(values), scope |-> inner]
<1>1. /\ frames # <<>> /\ status = "running" /\ Top.op = "Args"
      /\ Args \in Seq(Value \cup {None}) /\ IsFiniteSet(Free) /\ Len(params) \in Nat
      /\ Top.op \notin ScopeOps /\ Len(values) \in Nat
   BY CalleeFacts, AtFacts, LenProperties DEF ScopeOps, Catchers
<1>2. Cardinality(Free) >= 4 /\ cur' = inner BY DEF CallClass
<1>3. /\ outer \in Free /\ instance \in Free /\ constructor \in Free /\ inner \in Free
      /\ outer # instance /\ outer # constructor /\ outer # inner
      /\ instance # constructor /\ instance # inner /\ constructor # inner
   BY <1>1, <1>2, FreshFour
<1>4. \/ /\ frames' = Append([frames EXCEPT ![Len(frames)] = f], g)
         /\ UNCHANGED control
         /\ Retain(Entered(Len(params)))
      \/ \E k \in 0..(Len(params) - 1) :
            /\ Refuse(UnknownTypes(Globals, Parameters(params, Args, k)) \ {This})
            /\ Retain(Entered(k))
   BY Zenon DEF CallClass, ClassHeap, Put
<1> HIDE DEF outer, instance, constructor, inner
<1>5. /\ outer \in Ref /\ instance \in Ref /\ constructor \in Ref /\ inner \in Ref
      /\ instance \in Value /\ constructor \in Value
   BY <1>3, FreeIsFree
<1>6. ASSUME NEW k \in Nat, k <= Len(params)
      PROVE  LET new == Entered(k)
             IN  /\ HeapOK(new) /\ HeapClosed(new) /\ Grows(heap, new)
                 /\ new[outer].tag = "table" /\ new[outer].parent = heap[Callee].link
                 /\ new[instance].tag = "instance"
                 /\ new[constructor].tag = "function" /\ new[constructor].parent = Globals
                 /\ new[constructor].symbols[This] = instance
                 /\ new[constructor].bound = instance
                 /\ new[inner].tag = "table" /\ new[inner].parent = constructor
   <2>1. Parameters(params, Args, k) \in [Names -> Value \cup {None}]
      BY <1>1, <1>6, ParametersType
   <2>2. \A n \in Names : Object(heap, Parameters(params, Args, k)[n])
      BY <1>1, <1>6, ArgsLive, ParametersLive
   <2>3. QED BY <1>3, <2>1, <2>2, ArgsLive, ClassHeapFacts
<1> HIDE DEF Entered
<1>7. CASE /\ frames' = Append([frames EXCEPT ![Len(frames)] = f], g)
           /\ UNCHANGED control
           /\ Retain(Entered(Len(params)))
   <2> DEFINE new == Entered(Len(params))
              mid == [frames EXCEPT ![Len(frames)] = f]
   <2>1. Len(params) <= Len(params) BY <1>1
   <2>2. /\ HeapOK(new) /\ HeapClosed(new) /\ Grows(heap, new)
         /\ new[outer].tag = "table" /\ new[outer].parent = heap[Callee].link
         /\ new[instance].tag = "instance"
         /\ new[constructor].tag = "function" /\ new[constructor].parent = Globals
         /\ new[constructor].symbols[This] = instance
         /\ new[constructor].bound = instance
         /\ new[inner].tag = "table" /\ new[inner].parent = constructor
      BY <1>1, <1>6, <2>1
   <2>3. Retain(new) BY <1>7
   <2> HIDE DEF new
   <2>4. /\ Live(new, outer) /\ Object(new, instance) /\ Object(new, constructor)
         /\ Live(new, inner)
      BY <2>2 DEF Live, Object
   <2>5. /\ f \in Frame /\ f.op = "Body" /\ f.op \in ScopeOps /\ f.prev = cur
         /\ f.scope = outer /\ f.locals[1] = Callee /\ FrameLive(f, new)
      BY <1>5, <2>2, BodyLive
   <2> HIDE DEF f
   <2>6. Intact(f, new)
      <3>1. heap[Callee].tag = "class" /\ Callee \in Ref /\ Callee \in Addr BY DEF Is, Ref
      <3>2. new[Callee].tag = "class" /\ new[Callee].link = heap[Callee].link
         BY <2>2, <3>1 DEF Grows
      <3>3. Parent(f, new) = heap[Callee].link BY <2>5, <3>2 DEF Parent
      <3>4. QED BY <2>2, <2>5, <3>1, <3>3 DEF Intact
   <2>7. FramesOK(mid, outer, "running", new) /\ mid \in Seq(Frame)
      BY <1>1, <2>2, <2>4, <2>5, <2>6, EnterMove
   <2> HIDE DEF mid
   <2>8. /\ <<instance, constructor>> \in Seq(Value \cup {None})
         /\ DOMAIN <<instance, constructor>> = {1, 2}
         /\ <<instance, constructor>>[1] = instance /\ <<instance, constructor>>[2] = constructor
      BY <1>5
   <2>9. /\ g \in Frame /\ g.op = "Ctor" /\ g.prev = outer /\ g.scope = inner
         /\ g.locals = <<instance, constructor>>
      BY <1>1, <1>5, <2>8 DEF Frame, Ops, Holders
   <2> HIDE DEF g
   <2>10. FrameLive(g, new) BY <2>4, <2>8, <2>9 DEF FrameLive
   <2>11. Intact(g, new)
      <3>1. Parent(g, new) = constructor BY <2>8, <2>9 DEF Parent
      <3>2. instance # None BY <1>5, AddressesDistinct DEF Ref
      <3>3. QED BY <1>5, <2>2, <2>8, <2>9, <3>1, <3>2 DEF Intact
   <2>12. FramesOK(Append(mid, g), inner, "running", new)
      BY <2>4, <2>7, <2>9, <2>10, <2>11, FramesPush DEF ScopeOps
   <2>13. frames' = Append(mid, g) /\ cur' = inner /\ status' = "running" /\ thrown' = thrown
      BY <1>1, <1>2, <1>7 DEF control, mid
   <2>14. OperandsLive(values', last', thrown', new) BY <2>2, <2>13, LiveFacts, OperandsGrow
   <2>15. QED BY <2>2, <2>3, <2>12, <2>13, <2>14, RetainStep
<1>8. ASSUME NEW k \in 0..(Len(params) - 1), Retain(Entered(k)),
             Refuse(UnknownTypes(Globals, Parameters(params, Args, k)) \ {This})
      PROVE  LInv'
   <2>1. k \in Nat /\ k <= Len(params) BY <1>1
   <2>2. /\ HeapOK(Entered(k)) /\ HeapClosed(Entered(k)) /\ Grows(heap, Entered(k))
         /\ Live(Entered(k), cur')
      BY <1>2, <1>6, <2>1 DEF Live
   <2>3. UnknownTypes(Globals, Parameters(params, Args, k)) \ {This}
            \in SUBSET UnknownTypes(Globals, Parameters(params, Args, k))
      OBVIOUS
   <2>4. PICK kind, n : Raise(kind, n) BY <1>8, <2>3, RefuseRaises
   <2>5. QED BY <1>8, <2>2, <2>4, RaiseInCallLive
<1>9. QED BY <1>4, <1>7, <1>8

LEMMA DispatchLive == ASSUME IInv, LInv, IInv', At("Args"), Dispatch PROVE LInv'
<1>1. /\ frames # <<>> /\ status = "running" /\ Top.op = "Args" /\ Top.op \notin ScopeOps
   BY CalleeFacts DEF ScopeOps, Catchers
<1>2. HeapOK(heap) /\ HeapClosed(heap) /\ Grows(heap, heap) /\ Live(heap, cur)
      /\ OperandsLive(values, last, thrown, heap)
   BY LiveFacts
<1>3. ASSUME UNCHANGED <<values, last, cur>>, NEW kind, NEW n, Raise(kind, n), Retain(heap)
      PROVE  LInv'
   <2>1. Live(heap, cur') BY <1>2, <1>3
   <2>2. QED BY <1>2, <1>3, <2>1, RaiseInCallLive
<1>4. ASSUME UNCHANGED <<values, last>>, Crash, Retain(heap) PROVE LInv'
   <2>1. OperandsLive(values', last', thrown, heap) BY <1>2, <1>4
   <2>2. QED BY <1>1, <1>4, <2>1, CrashMove
<1>5. CASE /\ \/ values' = Append(values, Plain) /\ Finish /\ UNCHANGED control
              \/ UNCHANGED values /\ Raise("other", None)
           /\ UNCHANGED <<last, cur>>
           /\ Retain(heap)
   <2>1. CASE UNCHANGED values /\ Raise("other", None) BY <1>3, <1>5, <2>1
   <2>2. CASE values' = Append(values, Plain) /\ Finish /\ UNCHANGED control
      <3>1. Plain \in Value /\ Object(heap, Plain) /\ values \in Seq(Value)
         BY AddressesDistinct DEF Value, Object, Ref, IInv, DataOK
      <3>2. OperandsLive(values', last', thrown, heap) BY <1>2, <1>5, <2>2, <3>1, PushLive
      <3>3. QED BY <1>1, <1>2, <1>5, <2>2, <3>2, EndInScope
   <2>3. QED BY <1>5, <2>1, <2>2
<1>6. CASE /\ Is(Callee, "function")
           /\ UNCHANGED <<values, last>>
           /\ LET params == heap[Callee].params
              IN  \/ params # None /\ Len(params) = Len(Args) /\ CallFunction(params)
                  \/ /\ params # None => Len(params) # Len(Args)
                     /\ Raise("other", None)
                     /\ UNCHANGED cur
                     /\ Retain(heap)
                  \/ params = None /\ Crash /\ Retain(heap)
   <2>1. Callee \in Ref BY <1>6 DEF Is, Ref
   <2>2. heap[Callee].params \in Seq(Names) \cup {None} BY <1>2, <2>1, CellFacts DEF Cell
   <2>3. CASE /\ heap[Callee].params # None /\ Len(heap[Callee].params) = Len(Args)
              /\ CallFunction(heap[Callee].params)
      BY <1>6, <2>2, <2>3, CallFunctionLive
   <2>4. CASE Raise("other", None) /\ UNCHANGED cur /\ Retain(heap) BY <1>3, <1>6, <2>4
   <2>5. CASE Crash /\ Retain(heap) BY <1>4, <1>6, <2>5
   <2>6. QED BY <1>6, <2>3, <2>4, <2>5
<1>7. CASE /\ Is(Callee, "class")
           /\ UNCHANGED <<values, last>>
           /\ LET class == heap[Callee]
                  params == class.methods[class.name]
              IN  \/ params # None /\ Len(params) = Len(Args) /\ CallClass(params)
                  \/ /\ params # None /\ Len(params) # Len(Args)
                     /\ Raise("other", None)
                     /\ UNCHANGED cur
                     /\ Retain(heap)
                  \/ /\ params = None
                     /\ Raise("constructor", class.name)
                     /\ UNCHANGED cur
                     /\ Retain(heap)
   <2> DEFINE params == heap[Callee].methods[heap[Callee].name]
   <2>1. Callee \in Ref /\ heap[Callee].tag = "class" BY <1>7 DEF Is, Ref
   <2>2. heap[Callee] \in Cell /\ heap[Callee].name \in Names BY <1>2, <2>1, CellFacts
   <2>3. params \in Signatures \cup {None} BY <2>2 DEF Cell
   <2>4. params \in Seq(Names) \cup {None} BY <2>3, ScriptsWellFormed
   <2>5. CASE params # None /\ Len(params) = Len(Args) /\ CallClass(params)
      <3>1. heap[Callee].methods # NoSymbols BY <2>2, <2>5 DEF NoSymbols
      <3>2. heap[Callee].link \in Ref BY <1>2, <2>1, <3>1 DEF HeapClosed
      <3>3. QED BY <1>7, <2>4, <2>5, <3>2, CallClassLive
   <2>6. CASE Raise("other", None) /\ UNCHANGED cur /\ Retain(heap) BY <1>3, <1>7, <2>6
   <2>7. CASE Raise("constructor", heap[Callee].name) /\ UNCHANGED cur /\ Retain(heap)
      BY <1>3, <1>7, <2>7
   <2>8. QED BY <1>7, <2>5, <2>6, <2>7
<1>8. CASE UNCHANGED <<values, last>> /\ Crash /\ Retain(heap) BY <1>4, <1>8
<1>9. QED BY <1>5, <1>6, <1>7, <1>8 DEF Dispatch

\* A call is over: the locals and the operands it leaves are in use.
LEMMA ReturnLive ==
    ASSUME IInv, LInv, IInv', frames # <<>>, status \in {"running", "returning"},
           Top.op \in Catchers, NEW v \in Value, Object(heap, v), Return(v)
    PROVE  LInv'
<1>1. Top.prev = Top.at BY TopFacts DEF FrameOK, ScopeOps
<1>2. /\ Finish /\ status' = "running" /\ cur' = Top.at /\ thrown' = None /\ last' = last
      /\ values' = Append(values, v) /\ Retain(heap)
   BY <1>1 DEF Return
<1>3. values \in Seq(Value) BY DEF IInv, DataOK
<1>4. OperandsLive(values, last, None, heap) BY LiveFacts, NoneIsLive DEF OperandsLive
<1>5. OperandsLive(values', last', thrown', heap) BY <1>2, <1>3, <1>4, PushLive
<1>6. QED BY <1>2, <1>5, LiveFacts, EndMove

\* The first of an activation's locals.
LEMMA FirstLocal ==
    ASSUME IInv, LInv, frames # <<>>, Top.op \in Catchers \cup {"Ctor", "Args", "Arg"}
    PROVE  /\ Top.locals[1] \in Value /\ Object(heap, Top.locals[1])
           /\ Top \in Frame /\ FrameLive(Top, heap)
<1>1. /\ FrameOK(Top) /\ FrameLive(Top, heap) BY TopFacts, LiveFacts
<1>2. 1 \in DOMAIN Top.locals /\ Top.locals[1] \in Value BY <1>1, LocalsOf
<1>3. QED BY <1>1, <1>2 DEF FrameLive, FrameOK

LEMMA CallLive == ASSUME IInv, LInv, IInv', Call PROVE LInv'
<1>1. CASE BeginExpr("Call", "Callee") BY <1>1, BeginExprLive DEF Awaiting
<1>2. ASSUME NEW op \in {"Callee", "Arg"}, At(op), PopValue,
             NEW locals \in Seq(Value \cup {None}),
             \A j \in DOMAIN locals : Object(heap, locals[j]),
             Become([Top EXCEPT !.op = "Args", !.locals = locals]),
             UNCHANGED <<cur, control>>, Retain(heap)
      PROVE  LInv'
   <2> DEFINE f == [Top EXCEPT !.op = "Args", !.locals = locals]
   <2>1. /\ frames # <<>> /\ status = "running" /\ Top.op = op /\ Top \in Frame
         /\ FrameLive(Top, heap)
      BY <1>2, AtFacts, LiveFacts DEF FrameOK
   <2>2. /\ f \in Frame /\ f.op = "Args" /\ f.locals = locals /\ f.prev = Top.prev
         /\ f.scope = Top.scope
      BY <1>2, <2>1 DEF Frame, Ops, Childless
   <2>3. Become(f) BY <1>2
   <2> HIDE DEF f
   <2>4. FrameLive(f, heap) BY <1>2, <2>1, <2>2 DEF FrameLive
   <2>5. OperandsLive(values', last', thrown, heap) BY <1>2, PopLive DEF PopValue, Awaiting
   <2>6. Top.op \notin ScopeOps /\ f.op \notin ScopeOps
      BY <2>1, <2>2 DEF ScopeOps, Catchers
   <2>7. QED BY <1>2, <2>1, <2>2, <2>3, <2>4, <2>5, <2>6, BecomeMove
<1>3. CASE /\ At("Callee")
           /\ PopValue
           /\ Become([Top EXCEPT !.op = "Args", !.locals = <<Operand>>])
           /\ UNCHANGED <<cur, control>>
           /\ Retain(heap)
   <2>1. Operand \in Value /\ Object(heap, Operand) BY <1>3, PopLive DEF Awaiting
   <2>2. <<Operand>> \in Seq(Value \cup {None})
         /\ \A j \in DOMAIN <<Operand>> : Object(heap, <<Operand>>[j])
      BY <2>1
   <2>3. QED BY <1>2, <1>3, <2>2
<1>4. CASE /\ At("Args")
           /\ UNCHANGED <<values, last, cur, control>>
           /\ Evaluate("Arg")
           /\ Retain(heap)
   <2>1. /\ frames # <<>> /\ status = "running" /\ Top.op \notin ScopeOps
      BY <1>4, CalleeFacts DEF ScopeOps, Catchers
   <2>2. OperandsLive(values', last', thrown, heap) BY <1>4, LiveFacts
   <2>3. QED BY <1>4, <2>1, <2>2, EvaluateMove DEF Awaiting
<1>5. CASE /\ At("Arg")
           /\ PopValue
           /\ Become([Top EXCEPT !.op = "Args", !.locals = Append(@, Operand)])
           /\ UNCHANGED <<cur, control>>
           /\ Retain(heap)
   <2> DEFINE locals == Append(Top.locals, Operand)
   <2>1. Operand \in Value /\ Object(heap, Operand) BY <1>5, PopLive DEF Awaiting
   <2>2. Top \in Frame /\ FrameLive(Top, heap) BY <1>5, FirstLocal DEF At
   <2>3. Top.locals \in Seq(Value \cup {None}) BY <2>2 DEF Frame
   <2>4. /\ locals \in Seq(Value \cup {None}) /\ Len(locals) = Len(Top.locals) + 1
         /\ \A j \in 1..Len(Top.locals) : locals[j] = Top.locals[j]
         /\ locals[Len(Top.locals) + 1] = Operand
         /\ DOMAIN locals = 1..Len(locals) /\ DOMAIN Top.locals = 1..Len(Top.locals)
         /\ Len(Top.locals) \in Nat
      BY <2>1, <2>3, AppendProperties, LenProperties
   <2>5. Become([Top EXCEPT !.op = "Args", !.locals = locals])
      BY <1>5, <2>2 DEF Frame
   <2> HIDE DEF locals
   <2>6. ASSUME NEW j \in DOMAIN locals PROVE Object(heap, locals[j])
      <3>1. j \in 1..Len(Top.locals) \/ j = Len(Top.locals) + 1 BY <2>4
      <3>2. QED BY <2>1, <2>2, <2>4, <3>1 DEF FrameLive
   <2>7. QED BY <1>2, <1>5, <2>4, <2>5, <2>6
<1>6. CASE At("Args") /\ Dispatch BY <1>6, DispatchLive
<1>7. CASE At("Body") /\ Return(Plain)
   <2>1. Plain \in Value /\ Object(heap, Plain)
      BY AddressesDistinct DEF Value, Object, Ref
   <2>2. QED BY <1>7, <2>1, ReturnLive DEF At, Catchers
<1>8. QED BY <1>1, <1>3, <1>4, <1>5, <1>6, <1>7 DEF Call

LEMMA EndConstructorLive == ASSUME IInv, LInv, IInv', EndConstructor PROVE LInv'
<1>1. /\ frames # <<>> /\ status = "running" /\ Top.op = "Ctor" /\ cur' = Top.prev
      /\ Finish /\ thrown' = Top.locals[1] /\ status' = "returning" /\ Retain(heap)
      /\ values' = values /\ last' = last
   BY DEF EndConstructor, At, Throw
<1>2. Object(heap, Top.locals[1]) /\ Live(heap, Top.prev)
   BY <1>1, FirstLocal DEF FrameLive
<1>3. OperandsLive(values', last', thrown', heap) BY <1>1, <1>2, LiveFacts DEF OperandsLive
<1>4. QED BY <1>1, <1>2, <1>3, LiveFacts, EndMove

LEMMA AnonymousMethodLive == ASSUME IInv, LInv, IInv', AnonymousMethod PROVE LInv'
<1>1. CASE BeginExpr("AnonymousMethod", "AnonInst") BY <1>1, BeginExprLive DEF Awaiting
<1>2. ASSUME At("AnonInst"), Is(Operand, "instance"), Cardinality(Free) >= 2, PopValue,
             NEW method, method = Fresh({}), NEW table, table = Fresh({method}),
             cur' = table,
             Become([Top EXCEPT !.op = "AnonBody", !.prev = cur, !.scope = table,
                                !.locals = <<Operand, method>>]),
             UNCHANGED control,
             Retain([heap EXCEPT ![method] = Bound(Operand, <<>>),
                                 ![table] = Table(method, NoSymbols)])
      PROVE  LInv'
   <2> DEFINE f == [Top EXCEPT !.op = "AnonBody", !.prev = cur, !.scope = table,
                               !.locals = <<Operand, method>>]
              c1 == Bound(Operand, <<>>)
              c2 == Table(method, NoSymbols)
              h1 == Put(heap, method, c1)
              new == Put(h1, table, c2)
   <2>1. /\ frames # <<>> /\ status = "running" /\ Top.op = "AnonInst" /\ Top \in Frame
         /\ Top.op \notin ScopeOps /\ cur \in Ref
      BY <1>2, AtFacts DEF FrameOK, ScopeOps, Catchers, IInv, DataOK
   <2>2. IsFiniteSet(Free) BY AddressesDistinct, FS_Subset DEF Free
   <2>3. Free # {} /\ Free \ {method} # {} BY <1>2, <2>2, TwoAreFree
   <2>4. method \in Free /\ table \in Free /\ table # method BY <1>2, <2>3, FreshFacts
   <2>5. /\ method \in Addr /\ method \in Ref /\ method \in Value /\ table \in Addr
         /\ table \in Ref /\ heap[method].tag = "free" /\ heap[table].tag = "free"
      BY <2>4, FreeIsFree
   <2>6. Operand \in Addr /\ Operand \in Value /\ Object(heap, Operand)
         /\ heap[Operand].tag = "instance" /\ OperandsLive(values', last', thrown, heap)
      BY <1>2, PopLive DEF PopValue, Awaiting, Is
   <2>7. HeapOK(heap) /\ HeapClosed(heap) BY LiveFacts
   <2>8. <<>> \in Seq(Names) BY EmptySeq
   <2>9. /\ Fits(c1, heap) /\ c1.tag = "function" /\ c1.parent = Globals
         /\ c1.symbols[This] = Operand /\ c1.bound = Operand
      <3>1. <<>> \in Seq(Names) \cup {None} BY <2>8
      <3>2. Fits(c1, heap) BY <2>6, <3>1, BoundFits
      <3>3. /\ c1.tag = "function" /\ c1.parent = Globals /\ c1.symbols[This] = Operand
            /\ c1.bound = Operand
         BY <2>6, <3>1, BoundFacts
      <3>4. QED BY <3>2, <3>3
   <2> HIDE DEF c1
   <2>10. /\ HeapOK(h1) /\ HeapClosed(h1) /\ Grows(heap, h1)
          /\ h1[method] = c1 /\ \A b \in Ref : b # method => h1[b] = heap[b]
      BY <2>5, <2>7, <2>9, AllocHeap
   <2> HIDE DEF h1
   <2>11. Fits(c2, h1) /\ c2.tag = "table" /\ c2.parent = method
      BY <2>5, NoSymbolsLive, TableFits
   <2>12. h1[table].tag = "free" BY <2>4, <2>5, <2>10
   <2> HIDE DEF c2
   <2>13. /\ HeapOK(new) /\ HeapClosed(new) /\ Grows(h1, new)
          /\ new[table] = c2 /\ \A b \in Ref : b # table => new[b] = h1[b]
      BY <2>5, <2>10, <2>11, <2>12, AllocHeap
   <2>14. Retain(new) BY <1>2, Zenon DEF new, h1, c1, c2, Put
   <2> HIDE DEF new
   <2>15. Grows(heap, new) BY <2>10, <2>13, GrowsTwice
   <2>16. new[method] = c1 BY <2>4, <2>5, <2>10, <2>13
   <2>17. Object(new, method) /\ Live(new, table) /\ Object(new, Operand) /\ Live(new, cur)
      BY <2>6, <2>9, <2>11, <2>13, <2>15, <2>16, LiveFacts, GrowsLive, GrowsObject
      DEF Object, Live
   <2>18. /\ <<Operand, method>> \in Seq(Value \cup {None})
          /\ DOMAIN <<Operand, method>> = {1, 2}
          /\ <<Operand, method>>[1] = Operand /\ <<Operand, method>>[2] = method
      BY <2>5, <2>6
   <2>19. /\ f \in Frame /\ f.op = "AnonBody" /\ f.prev = cur
          /\ f.locals = <<Operand, method>> /\ f.scope = table
      BY <2>1, <2>5, <2>18 DEF Frame, Ops, Holders
   <2>20. Become(f) BY <1>2
   <2> HIDE DEF f
   <2>21. FrameLive(f, new) BY <2>17, <2>18, <2>19 DEF FrameLive
   <2>22. Intact(f, new)
      <3>1. Parent(f, new) = method BY <2>18, <2>19 DEF Parent
      <3>2. Operand # None BY <2>6, AddressesDistinct
      <3>3. QED BY <2>5, <2>9, <2>11, <2>13, <2>16, <2>18, <2>19, <3>1, <3>2 DEF Intact
   <2>23. f.op \in ScopeOps BY <2>19 DEF ScopeOps, Catchers
   <2>24. FramesOK(frames', table, "running", new)
      BY <2>1, <2>15, <2>17, <2>19, <2>20, <2>21, <2>22, <2>23, EnterMove DEF Become
   <2>25. cur' = table /\ status' = "running" /\ thrown' = thrown
      BY <1>2, <2>1 DEF control
   <2>26. OperandsLive(values', last', thrown', new) BY <2>6, <2>15, <2>25, OperandsGrow
   <2>27. QED BY <2>13, <2>14, <2>24, <2>25, <2>26, RetainStep
<1>3. CASE At("AnonInst") /\ PopValue /\ Crash /\ Retain(heap)
   BY <1>3, OperandCrashes DEF Awaiting
<1>4. CASE At("AnonBody") /\ Return(Top.locals[1])
   <2>1. /\ frames # <<>> /\ status = "running" /\ Top.op = "AnonBody" BY <1>4 DEF At
   <2>2. Top.locals[1] \in Value /\ Object(heap, Top.locals[1])
      BY <2>1, FirstLocal DEF Catchers
   <2>3. QED BY <1>4, <2>1, <2>2, ReturnLive DEF Catchers
<1>5. QED BY <1>1, <1>2, <1>3, <1>4 DEF AnonymousMethod

-----------------------------------------------------------------------------
(***************************************************************************)
(* A value in flight, and failures.                                        *)
(***************************************************************************)
LEMMA CatchLive == ASSUME IInv, LInv, IInv', Catch PROVE LInv'
<1>1. frames # <<>> /\ thrown \in Value
   BY EmptySeq DEF IInv, StackOK, ControlOK, Catch
<1>2. Object(heap, thrown) BY LiveFacts DEF OperandsLive
<1>3. QED BY <1>1, <1>2, ReturnLive DEF Catch

\* The innermost activation ends although m_symbolTable is not restored.
LEMMA LeaveLive ==
    ASSUME IInv, LInv, IInv', frames # <<>>, Finish, status' # "running",
           UNCHANGED <<values, last, cur>>, thrown' \in {thrown, None, Plain}, Retain(heap)
    PROVE  LInv'
<1>1. Plain \notin Ref BY AddressesDistinct DEF Ref
<1>2. Object(heap, thrown') /\ Live(heap, cur') BY <1>1, LiveFacts, NoneIsLive DEF OperandsLive, Object
<1>3. OperandsLive(values', last', thrown', heap) BY <1>2, LiveFacts DEF OperandsLive
<1>4. QED BY <1>2, <1>3, LiveFacts, EndMove

LEMMA UnwindLive == ASSUME IInv, LInv, IInv', Unwind PROVE LInv'
<1>1. frames # <<>> BY EmptySeq DEF IInv, StackOK, Unwind
<1>2. status' # "running" /\ thrown' = thrown BY DEF Unwind, control
<1>3. QED BY <1>1, <1>2, LeaveLive DEF Unwind

LEMMA EscapeLive == ASSUME IInv, LInv, IInv', Escape PROVE LInv'
<1>1. frames # <<>> BY EmptySeq DEF IInv, StackOK, Escape
<1>2. QED BY <1>1, LeaveLive DEF Escape

LEMMA EndProgramLive == ASSUME IInv, LInv, IInv', EndProgram PROVE LInv'
BY LeaveLive DEF EndProgram, At

LEMMA BadAllocLive == ASSUME IInv, LInv, IInv', BadAlloc PROVE LInv'
<1>1. CASE At("Args") /\ UNCHANGED <<values, last>>
   <2>1. Live(heap, cur') BY LiveFacts DEF BadAlloc
   <2>2. QED BY <1>1, <2>1, LiveFacts, RaiseInCallLive DEF BadAlloc
<1>2. ASSUME NEW op \in {"Get", "AnonInst"}, At(op), PopValue PROVE LInv'
   BY <1>2, OperandRaises DEF BadAlloc, Awaiting
<1>3. QED BY <1>1, <1>2 DEF BadAlloc

LEMMA InterpretLive == ASSUME IInv, LInv, IInv', Interpret PROVE LInv'
<1> DEFINE g == Activation("Program")
<1>1. /\ cur \in Ref /\ Len(values') \in Nat /\ cur' = cur /\ status' = "running"
      /\ frames' = <<g>> /\ UNCHANGED <<values, last, thrown>> /\ Retain(heap)
   BY LenProperties DEF IInv, DataOK, Interpret
<1>2. /\ g.op = "Program" /\ g.prev = None /\ g.locals = <<>> /\ g.scope = cur /\ g \in Frame
   BY <1>1, EmptySeq DEF Activation, Frame, Ops, Holders
<1> HIDE DEF g
<1>3. DOMAIN g.locals = {} /\ <<>> \in Seq(Frame) /\ Append(<<>>, g) = <<g>>
   BY <1>2, EmptySeq
<1>4. FrameLive(g, heap) BY <1>2, <1>3, NoneIsLive DEF FrameLive
<1>5. Live(heap, cur) BY LiveFacts
<1>6. \A i \in 1..Len(<<>>) : FALSE BY EmptySeq
<1>7. FramesOK(<<>>, cur, "running", heap) BY <1>5, <1>6 DEF FramesOK, ScopeHeld
<1>8. g.op \notin ScopeOps BY <1>2 DEF ScopeOps, Catchers
<1>9. FramesOK(Append(<<>>, g), cur, "running", heap)
   BY <1>2, <1>3, <1>4, <1>5, <1>7, <1>8, FramesPush
<1>10. OperandsLive(values', last', thrown', heap) BY <1>1, LiveFacts
<1>11. FramesOK(frames', cur', status', heap) BY <1>1, <1>3, <1>9
<1>12. QED BY <1>1, <1>10, <1>11, LiveFacts, RetainStep

-----------------------------------------------------------------------------
(***************************************************************************)
(* Statements.                                                             *)
(***************************************************************************)
LEMMA BeginStatementLive ==
    ASSUME IInv, LInv, IInv', NEW kind, NEW op \in Awaiting, BeginStatement(kind, op)
    PROVE  LInv'
<1>1. /\ AtStatement /\ UNCHANGED <<values, last, cur, control>> /\ Evaluate(op) /\ Retain(heap)
   BY DEF BeginStatement
<1>2. OperandsLive(values', last', thrown, heap) BY <1>1, LiveFacts
<1>3. QED BY <1>1, <1>2, StatementFacts, EvaluateMove

LEMMA ExpressionStatementLive == ASSUME IInv, LInv, IInv', ExpressionStatement PROVE LInv'
<1>1. CASE BeginStatement("ExpressionStatement", "ExprStmt")
   BY <1>1, BeginStatementLive DEF Awaiting
<1>2. CASE At("ExprStmt") /\ PopValue /\ Finish /\ UNCHANGED <<cur, control>> /\ Retain(heap)
   BY <1>2, LiveFacts, OperandEnds DEF PopValue, Awaiting
<1>3. QED BY <1>1, <1>2 DEF ExpressionStatement

LEMMA IfStatementLive == ASSUME IInv, LInv, IInv', IfStatement PROVE LInv'
<1>1. CASE BeginStatement("If", "If") BY <1>1, BeginStatementLive DEF Awaiting
<1>2. CASE At("If") /\ PopValue /\ Raise("other", None) /\ UNCHANGED cur /\ Retain(heap)
   BY <1>2, OperandRaises DEF Awaiting
<1>3. CASE At("If") /\ PopValue /\ Finish /\ UNCHANGED control /\ UNCHANGED cur /\ Retain(heap)
   BY <1>3, LiveFacts, OperandEnds DEF PopValue, Awaiting
<1>4. CASE At("If") /\ PopValue /\ Become([Top EXCEPT !.op = "Statement"])
           /\ UNCHANGED control /\ UNCHANGED cur /\ Retain(heap)
   <2> DEFINE f == [Top EXCEPT !.op = "Statement"]
   <2>1. /\ frames # <<>> /\ status = "running" /\ Top.op = "If" /\ Top \in Frame
         /\ FrameLive(Top, heap) /\ Top.op \notin ScopeOps
      BY <1>4, AtFacts, LiveFacts, AwaitingOps DEF Awaiting, FrameOK
   <2>2. f \in Frame /\ f.op = "Statement" /\ f.scope = Top.scope /\ FrameLive(f, heap)
      BY <2>1, SameLocals DEF Ops, Childless
   <2>3. Become(f) BY <1>4
   <2> HIDE DEF f
   <2>4. OperandsLive(values', last', thrown, heap) BY <1>4, PopLive DEF PopValue, Awaiting
   <2>5. f.op \notin ScopeOps BY <2>2 DEF ScopeOps, Catchers
   <2>6. QED BY <1>4, <2>1, <2>2, <2>3, <2>4, <2>5, BecomeMove
<1>5. QED BY <1>1, <1>2, <1>3, <1>4 DEF IfStatement

LEMMA LoopLive == ASSUME IInv, LInv, IInv', Loop PROVE LInv'
<1>1. CASE BeginStatement("Loop", "LoopCond") BY <1>1, BeginStatementLive DEF Awaiting
<1>2. CASE At("LoopCond") /\ PopValue /\ Raise("other", None) /\ UNCHANGED cur /\ Retain(heap)
   BY <1>2, OperandRaises DEF Awaiting
<1>3. CASE At("LoopCond") /\ PopValue /\ Finish /\ UNCHANGED control /\ UNCHANGED cur
           /\ Retain(heap)
   BY <1>3, LiveFacts, OperandEnds DEF PopValue, Awaiting
<1>4. CASE At("LoopCond") /\ PopValue /\ Visit([Top EXCEPT !.op = "LoopBody"], "Statement")
           /\ UNCHANGED control /\ UNCHANGED cur /\ Retain(heap)
   <2> DEFINE f == [Top EXCEPT !.op = "LoopBody"]
   <2>1. /\ frames # <<>> /\ status = "running" /\ Top.op = "LoopCond" /\ Top \in Frame
         /\ FrameLive(Top, heap) /\ Top.op \notin ScopeOps
      BY <1>4, AtFacts, LiveFacts, AwaitingOps DEF Awaiting, FrameOK
   <2>2. f \in Frame /\ f.op = "LoopBody" /\ f.scope = Top.scope /\ FrameLive(f, heap)
      BY <2>1, SameLocals DEF Ops, Holders
   <2>3. Visit(f, "Statement") BY <1>4
   <2> HIDE DEF f
   <2>4. OperandsLive(values', last', thrown, heap) BY <1>4, PopLive DEF PopValue, Awaiting
   <2>5. f.op \notin ScopeOps /\ "Statement" \in Childless
      BY <2>2 DEF ScopeOps, Catchers, Childless
   <2>6. QED BY <1>4, <2>1, <2>2, <2>3, <2>4, <2>5, VisitMove
<1>5. CASE At("LoopBody") /\ UNCHANGED <<values, last, cur, control>>
           /\ Evaluate("LoopCond") /\ Retain(heap)
   <2>1. frames # <<>> /\ status = "running" /\ Top.op \notin ScopeOps
      BY <1>5 DEF At, ScopeOps, Catchers
   <2>2. OperandsLive(values', last', thrown, heap) BY <1>5, LiveFacts
   <2>3. QED BY <1>5, <2>1, <2>2, EvaluateMove DEF Awaiting
<1>6. QED BY <1>1, <1>2, <1>3, <1>4, <1>5 DEF Loop

LEMMA VarDeclLive == ASSUME IInv, LInv, IInv', VarDecl PROVE LInv'
<1>1. CASE BeginStatement("VarDecl", "VarDecl") BY <1>1, BeginStatementLive DEF Awaiting
<1>2. HeapOK(heap) /\ HeapClosed(heap) /\ cur \in Ref /\ heap[cur].tag # "free"
   BY LiveFacts DEF IInv, DataOK, Live
<1>3. ASSUME NEW n \in OwnNames, NEW v \in Value, Object(heap, v)
      PROVE  LET new == Declare(heap, cur, n, v)
             IN  HeapOK(new) /\ HeapClosed(new) /\ Grows(heap, new)
   BY <1>2, <1>3, ScriptsWellFormed, DeclareHeap
<1>4. CASE /\ At("Declaration") /\ Finish /\ UNCHANGED <<values, last, cur, control>>
           /\ \E n \in OwnNames : Retain(Declare(heap, cur, n, Plain))
   <2>1. PICK n \in OwnNames : Retain(Declare(heap, cur, n, Plain)) BY <1>4
   <2> DEFINE new == Declare(heap, cur, n, Plain)
   <2>2. Plain \in Value /\ Object(heap, Plain) BY AddressesDistinct DEF Value, Object, Ref
   <2>3. HeapOK(new) /\ HeapClosed(new) /\ Grows(heap, new) BY <1>3, <2>2
   <2> HIDE DEF new
   <2>4. OperandsLive(values', last', thrown, new) BY <1>4, <2>3, LiveFacts, OperandsGrow
   <2>5. frames # <<>> /\ status = "running" /\ Top.op \notin ScopeOps
      BY <1>4 DEF At, ScopeOps, Catchers
   <2>6. Retain(new) BY <2>1 DEF new
   <2>7. QED BY <1>4, <2>3, <2>4, <2>5, <2>6, EndInScope
<1>5. CASE /\ At("VarDecl") /\ PopValue /\ Finish /\ UNCHANGED <<cur, control>>
           /\ \E n \in OwnNames : Retain(Declare(heap, cur, n, Operand))
   <2>1. PICK n \in OwnNames : Retain(Declare(heap, cur, n, Operand)) BY <1>5
   <2> DEFINE new == Declare(heap, cur, n, Operand)
   <2>2. Operand \in Value /\ Object(heap, Operand) BY <1>5, PopLive DEF Awaiting
   <2>3. HeapOK(new) /\ HeapClosed(new) /\ Grows(heap, new) BY <1>3, <2>2
   <2> HIDE DEF new
   <2>4. Retain(new) BY <2>1 DEF new
   <2>5. QED BY <1>5, <2>3, <2>4, OperandEnds DEF PopValue, Awaiting
<1>6. QED BY <1>1, <1>4, <1>5 DEF VarDecl

LEMMA StatementBlockLive == ASSUME IInv, LInv, IInv', StatementBlock PROVE LInv'
<1>1. ASSUME AtStatement, Free # {}, NEW table, table = Fresh({}), cur' = table,
             Become([Top EXCEPT !.op = "Block", !.prev = cur, !.scope = table]),
             UNCHANGED <<values, last, control>>,
             Retain([heap EXCEPT ![table] = Table(cur, NoSymbols)])
      PROVE  LInv'
   <2> DEFINE f == [Top EXCEPT !.op = "Block", !.prev = cur, !.scope = table]
              c == Table(cur, NoSymbols)
              new == Put(heap, table, c)
   <2>1. /\ frames # <<>> /\ status = "running" /\ Top \in Frame /\ cur \in Ref
         /\ Top.op \notin ScopeOps /\ FrameLive(Top, heap)
      BY <1>1, StatementFacts, LiveFacts
   <2>2. table \in Addr /\ table \in Ref /\ heap[table].tag = "free"
      BY <1>1, FreshFacts, FreeIsFree
   <2>3. Fits(c, heap) /\ c.tag = "table" /\ c.parent = cur
      BY <2>1, NoSymbolsLive, TableFits
   <2> HIDE DEF c
   <2>4. HeapOK(new) /\ HeapClosed(new) /\ Grows(heap, new) /\ new[table] = c
      BY <2>2, <2>3, LiveFacts, AllocHeap
   <2>5. Retain(new) BY <1>1 DEF new, c, Put
   <2> HIDE DEF new
   <2>6. /\ f \in Frame /\ f.op = "Block" /\ f.prev = cur /\ f.scope = table
         /\ f.locals = Top.locals
      BY <2>1, <2>2 DEF Frame, Ops, Holders
   <2>7. Become(f) BY <1>1
   <2> HIDE DEF f
   <2>8. FrameLive(f, heap) BY <2>1, <2>6, LiveFacts DEF FrameLive
   <2>9. FrameLive(f, new) /\ Live(new, table) BY <2>3, <2>4, <2>8, FrameGrows DEF Live
   <2>10. Intact(f, new) BY <2>1, <2>3, <2>4, <2>6 DEF Intact, Parent
   <2>11. f.op \in ScopeOps BY <2>6 DEF ScopeOps
   <2>12. FramesOK(frames', table, "running", new)
      BY <2>1, <2>4, <2>6, <2>7, <2>9, <2>10, <2>11, EnterMove DEF Become
   <2>13. cur' = table /\ status' = "running" /\ thrown' = thrown
      BY <1>1, <2>1 DEF control
   <2>14. OperandsLive(values', last', thrown', new)
      BY <1>1, <2>4, <2>13, LiveFacts, OperandsGrow
   <2>15. QED BY <2>4, <2>5, <2>12, <2>13, <2>14, RetainStep
<1>2. CASE At("Block") /\ cur' = Top.prev /\ Finish /\ UNCHANGED <<values, last, control>>
           /\ Retain(heap)
   <2>1. frames # <<>> /\ status = "running" /\ Top.op = "Block" /\ FrameOK(Top)
      BY <1>2, TopFacts DEF At
   <2>2. cur' = Top.at /\ status' = "running" /\ thrown' = thrown
      BY <1>2, <2>1 DEF FrameOK, ScopeOps, control
   <2>3. OperandsLive(values', last', thrown', heap) BY <1>2, <2>2, LiveFacts
   <2>4. QED BY <1>2, <2>1, <2>2, <2>3, LiveFacts, EndMove
<1>3. QED BY <1>1, <1>2 DEF StatementBlock

LEMMA ReturnStatementLive == ASSUME IInv, LInv, IInv', ReturnStatement PROVE LInv'
<1>1. CASE BeginStatement("Return", "Return") BY <1>1, BeginStatementLive DEF Awaiting
<1>2. CASE AtStatement /\ Throw(Plain) /\ UNCHANGED <<values, last, cur>> /\ Retain(heap)
   BY <1>2, StatementFacts, LeaveLive DEF Throw
<1>3. CASE At("Return") /\ PopValue /\ Throw(Operand) /\ UNCHANGED cur /\ Retain(heap)
   <2>1. frames # <<>> /\ Finish /\ status' # "running" /\ thrown' = Operand
         /\ last' = Operand /\ values' = Rest
      BY <1>3 DEF At, Throw, PopValue
   <2>2. Object(heap, Operand) /\ OperandsLive(Rest, Operand, thrown, heap)
      BY <1>3, PopLive DEF Awaiting
   <2>3. OperandsLive(values', last', thrown', heap) BY <2>1, <2>2 DEF OperandsLive
   <2>4. Live(heap, cur') BY <1>3, LiveFacts
   <2>5. QED BY <1>3, <2>1, <2>3, <2>4, LiveFacts, EndMove
<1>4. QED BY <1>1, <1>2, <1>3 DEF ReturnStatement

\* A function or a class is made and declared in the innermost scope.
LEMMA DeclarationLive ==
    ASSUME IInv, LInv, IInv', At("Declaration"), Finish,
           UNCHANGED <<values, last, cur, control>>,
           Free # {}, NEW n \in OwnNames,
           NEW c, Fits(c, heap), c.tag \in {"function", "class"},
           Retain(Declare([heap EXCEPT ![Fresh({})] = c], cur, n, Fresh({})))
    PROVE  LInv'
<1> DEFINE f == Fresh({})
           h1 == Put(heap, f, c)
           new == Declare(h1, cur, n, f)
<1>1. f \in Addr /\ f \in Ref /\ f \in Value /\ heap[f].tag = "free"
   BY FreshFacts, FreeIsFree
<1>2. Retain(new) BY DEF Put
<1> HIDE DEF f
<1>3. HeapOK(h1) /\ HeapClosed(h1) /\ Grows(heap, h1) /\ h1[f] = c
   BY <1>1, LiveFacts, AllocHeap
<1> HIDE DEF h1
<1>4. Object(h1, f) BY <1>3 DEF Object, Fits
<1>5. cur \in Ref /\ Live(h1, cur) BY <1>3, LiveFacts, GrowsLive DEF IInv, DataOK
<1>6. h1[cur].tag # "free" BY <1>5 DEF Live
<1>7. HeapOK(new) /\ HeapClosed(new) /\ Grows(h1, new)
   BY <1>1, <1>3, <1>4, <1>5, <1>6, DeclareHeap
<1> HIDE DEF new
<1>8. Grows(heap, new) BY <1>3, <1>7, GrowsTwice
<1>9. OperandsLive(values', last', thrown, new) BY <1>8, LiveFacts, OperandsGrow
<1>10. frames # <<>> /\ status = "running" /\ Top.op \notin ScopeOps
   BY DEF At, ScopeOps, Catchers
<1>11. QED BY <1>2, <1>7, <1>8, <1>9, <1>10, EndInScope

LEMMA FunctionDeclarationLive == ASSUME IInv, LInv, IInv', FunctionDeclaration PROVE LInv'
<1>1. PICK n \in OwnNames, params \in Signatures :
         Retain(Declare([heap EXCEPT ![Fresh({})] = Function(cur, params)], cur, n, Fresh({})))
   BY DEF FunctionDeclaration
<1> DEFINE c == Function(cur, params)
<1>2. params \in Seq(Names) /\ cur \in Ref /\ n \in Names
   BY ScriptsWellFormed DEF IInv, DataOK
<1>3. c \in Cell /\ c.tag = "function" BY <1>2, NewCells
<1>4. c.link = cur /\ c.bound = None /\ c.symbols = NoSymbols BY DEF Function, FreeCell
<1>5. Retain(Declare([heap EXCEPT ![Fresh({})] = c], cur, n, Fresh({}))) BY <1>1
<1> HIDE DEF c
<1>6. Live(heap, cur) BY LiveFacts
<1>7. None \notin Ref BY AddressesDistinct DEF Ref
<1>8. \A v \in Ref : Holds(c, v) => Live(heap, v)
   BY <1>4, <1>6, <1>7 DEF Holds, NoSymbols
<1>9. \A m \in Names : c.symbols[m] = None BY <1>4 DEF NoSymbols
<1>10. Kinds(c, heap) BY <1>3, <1>4, <1>7, <1>9 DEF Kinds, Object
<1>11. Fits(c, heap) BY <1>3, <1>8, <1>10 DEF Fits
<1>12. QED BY <1>3, <1>5, <1>11, DeclarationLive DEF FunctionDeclaration

LEMMA ClassDeclarationLive == ASSUME IInv, LInv, IInv', ClassDeclaration PROVE LInv'
<1>1. PICK n \in OwnNames, methods \in ClassBodies :
         LET closure == IF methods = NoSymbols THEN None ELSE cur
         IN  Retain(Declare([heap EXCEPT ![Fresh({})] = Class(n, closure, methods)],
                            cur, n, Fresh({})))
   BY DEF ClassDeclaration
<1> DEFINE closure == IF methods = NoSymbols THEN None ELSE cur
           c == Class(n, closure, methods)
<1>2. /\ n \in Names /\ methods \in [Names -> Signatures \cup {None}]
      /\ closure \in Ref \cup {None} /\ cur \in Ref
      /\ methods # NoSymbols => closure \in Ref
   BY ScriptsWellFormed DEF IInv, DataOK
<1>3. Retain(Declare([heap EXCEPT ![Fresh({})] = c], cur, n, Fresh({}))) BY <1>1
<1>4. Live(heap, closure) BY LiveFacts, NoneIsLive
<1> HIDE DEF closure
<1>5. c \in Cell /\ c.tag = "class" /\ c.name = n BY <1>2, NewCells
<1>6. c.link = closure /\ c.bound = None /\ c.symbols = NoSymbols /\ c.methods = methods
   BY DEF Class, FreeCell
<1> HIDE DEF c
<1>7. None \notin Ref BY AddressesDistinct DEF Ref
<1>8. \A v \in Ref : Holds(c, v) => Live(heap, v)
   BY <1>4, <1>6, <1>7 DEF Holds, NoSymbols
<1>9. \A m \in Names : c.symbols[m] = None BY <1>6 DEF NoSymbols
<1>10. Kinds(c, heap) BY <1>5, <1>6, <1>7, <1>9 DEF Kinds, Object
<1>11. Fits(c, heap) BY <1>2, <1>5, <1>6, <1>8, <1>10 DEF Fits
<1>12. QED BY <1>3, <1>5, <1>11, DeclarationLive DEF ClassDeclaration

LEMMA NextStatementLive == ASSUME IInv, LInv, IInv', NextStatement PROVE LInv'
<1>1. /\ frames # <<>> /\ status = "running" /\ UNCHANGED <<values, last, cur, control>>
      /\ Visit(Top, "Declaration") /\ Retain(heap)
   BY DEF NextStatement
<1>2. frames \in Seq(Frame) /\ FramesOK(frames, cur, "running", heap)
   BY <1>1, LiveFacts DEF IInv, StackOK, Chain
<1>3. [frames EXCEPT ![Len(frames)] = Top] = frames BY <1>2, LenProperties DEF Top
<1>4. frames' = Append(frames, Activation("Declaration")) BY <1>1, <1>3 DEF Visit
<1>5. OperandsLive(values', last', thrown, heap) BY <1>1, LiveFacts
<1>6. "Declaration" \in Childless BY DEF Childless
<1>7. QED BY <1>1, <1>2, <1>4, <1>5, <1>6, ChildMove

-----------------------------------------------------------------------------
(***************************************************************************)
(* The invariant is inductive, and implies what is claimed of every state. *)
(***************************************************************************)
LEMMA InitImpliesLInv == Init => LInv
<1> SUFFICES ASSUME Init PROVE LInv
   OBVIOUS
<1> DEFINE symbols == [n \in Names |-> IF n \in Builtins THEN Builtin ELSE None]
           g == Table(None, symbols)
<1>1. heap = [a \in Ref |-> IF a = Globals THEN g ELSE FreeCell] BY DEF Init
<1>2. \A n \in Names : symbols[n] \in {Builtin, None} OBVIOUS
<1>3. g.tag = "table" /\ g.link = None /\ g.bound = None /\ g.symbols = symbols
   BY DEF Table, FreeCell
<1>4. Builtin \notin Ref /\ None \notin Ref /\ Globals \in Ref BY AddressesDistinct DEF Ref
<1> HIDE DEF symbols
<1>5. \A v \in Ref : ~ Holds(g, v) BY <1>2, <1>3, <1>4 DEF Holds
<1>6. \A v \in Ref : ~ Holds(FreeCell, v) BY <1>4 DEF Holds, FreeCell, NoSymbols
<1> HIDE DEF g
<1>7. FreeCell.symbols = NoSymbols /\ FreeCell.tag = "free" BY DEF FreeCell
<1>8. HeapClosed(heap)
   <2>1. Kinds(g, heap) BY <1>2, <1>3, <1>4 DEF Kinds, Object
   <2>2. QED BY <1>1, <1>3, <1>4, <1>5, <1>6, <1>7, <2>1 DEF HeapClosed
<1>9. Live(heap, Globals) BY <1>1, <1>3, <1>4 DEF Live
<1>10. \A i \in 1..Len(<<>>) : FALSE BY EmptySeq
<1>11. FramesOK(frames, cur, status, heap) BY <1>9, <1>10 DEF Init, FramesOK, ScopeHeld
<1>12. OperandsLive(values, last, thrown, heap)
   BY <1>10, NoneIsLive DEF Init, OperandsLive
<1>13. NothingUnheld BY <1>1, <1>7 DEF NothingUnheld, Roots
<1>14. QED BY <1>8, <1>11, <1>12, <1>13 DEF LInv

LEMMA NextKeepsLInv == IInv /\ LInv /\ [Next]_vars => LInv'
<1> SUFFICES ASSUME IInv, LInv, [Next]_vars PROVE LInv'
   OBVIOUS
<1>1. IInv' BY NextKeepsIInv
<1>2. CASE UNCHANGED vars
   <2>1. HeapClosed(heap') /\ FramesOK(frames', cur', status', heap')
         /\ OperandsLive(values', last', thrown', heap')
      BY <1>2 DEF LInv, vars
   <2>2. heap' = heap /\ Roots' = Roots BY <1>2 DEF vars, Roots
   <2>3. NothingUnheld' BY <2>2 DEF LInv, NothingUnheld
   <2>4. QED BY <2>1, <2>3 DEF LInv
<1>3. CASE Interpret BY <1>1, <1>3, InterpretLive
<1>4. CASE Step
   BY <1>1, <1>4, LiteralLive, IdentifierLive, BinaryOpLive, UnaryLive, LogicOpLive,
      AssignmentLive, GetExpressionLive, SetExpressionLive, CallLive,
      AnonymousMethodLive, ExpressionStatementLive, IfStatementLive, LoopLive,
      VarDeclLive, StatementBlockLive, ReturnStatementLive,
      FunctionDeclarationLive, ClassDeclarationLive, NextStatementLive,
      EndConstructorLive, CatchLive, UnwindLive, EscapeLive, BadAllocLive,
      EndProgramLive
   DEF Step
<1>5. CASE Quit BY <1>2, <1>5 DEF Quit
<1>6. QED BY <1>2, <1>3, <1>4, <1>5 DEF Next

LEMMA LifetimesHold == Spec => [](IInv /\ LInv)
<1>1. QED BY InitImpliesIInv, InitImpliesLInv, NextKeepsIInv, NextKeepsLInv, PTL DEF Spec

\* While a block, a call, a constructor or an anonymous method runs, its table
\* and the table above it are there, and the one is the parent of the other:
\* names are scoped statically although tables refer to their parents weakly.
THEOREM ScopesAreIntact == Spec => []ScopesIntact
<1>1. IInv /\ LInv => ScopesIntact
   <2> SUFFICES ASSUME IInv, LInv, status = "running",
                       NEW i \in DOMAIN frames,
                       frames[i].op \in Catchers \cup {"Block", "Ctor"}
                PROVE  /\ heap[frames[i].scope].tag = "table"
                       /\ heap[frames[i].scope].parent = ParentOf(frames[i])
                       /\ ParentOf(frames[i]) # None
      BY DEF ScopesIntact
   <2> DEFINE f == frames[i]
   <2>1. i \in 1..Len(frames) /\ FrameOK(f) /\ f.op \in ScopeOps
      BY LenProperties DEF IInv, StackOK, Chain, ScopeOps
   <2>2. Intact(f, heap) BY <2>1 DEF LInv, FramesOK, Protected
   <2>3. ParentOf(f) = Parent(f, heap)
      BY <2>1 DEF ParentOf, Parent, Home, FrameOK
   <2>4. None \notin Ref BY AddressesDistinct DEF Ref
   <2>5. QED BY <2>2, <2>3, <2>4 DEF Intact
<1>2. QED BY <1>1, LifetimesHold, PTL

-----------------------------------------------------------------------------
(***************************************************************************)
(* What is not destroyed.                                                  *)
(***************************************************************************)

\* Objects of which each is held by another of them, that no root, nested
\* declaration or assigned object is one of, are none: what could hold a table
\* is a declaration, a function a table, an instance a function and a class an
\* instance.
LEMMA NothingHoldsItself ==
    ASSUME IInv, LInv,
           NEW X \in SUBSET {a \in Addr : heap[a].tag # "free"},
           \A a \in X : a \notin DeclaredInScope /\ a \notin AssignedTo,
           \A a \in X : \E b \in X : Holds(heap[b], a)
    PROVE  X = {}
<1>1. \A a \in X : /\ a \in Addr /\ a \in Ref
                   /\ heap[a].tag \in {"table", "function", "class", "instance"}
                   /\ heap[a].tag = "instance" => heap[a].link \in Ref
   BY DEF Ref, IInv, DataOK, HeapOK, Cell
<1>2. \A a \in X : Kinds(heap[a], heap) BY <1>1 DEF LInv, HeapClosed
<1>3. ASSUME NEW a \in X, NEW b \in X, Holds(heap[b], a)
      PROVE  \/ heap[a].tag = "class" /\ heap[b].tag = "instance"
             \/ heap[a].tag = "instance" /\ heap[b].tag = "function"
             \/ heap[a].tag \in {"function", "class", "instance"} /\ heap[b].tag = "table"
   <2>1. CASE a = heap[b].link
      <3>1. heap[b].bound = None \/ heap[b].bound \in Ref
         BY <1>1 DEF IInv, DataOK, HeapOK, Cell
      <3>2. ~ (heap[b].tag \in {"function", "class"} /\ heap[b].bound = None)
         BY <1>1, <2>1 DEF DeclaredInScope
      <3>3. heap[b].tag = "instance" BY <1>1, <1>2, <2>1, <3>1, <3>2 DEF Kinds
      <3>4. QED BY <1>2, <2>1, <3>3 DEF Kinds
   <2>2. CASE a = heap[b].bound BY <1>1, <1>2, <2>2 DEF Kinds
   <2>3. ASSUME NEW n \in Names, a = heap[b].symbols[n], a # heap[b].bound
         PROVE  heap[a].tag \in {"function", "class", "instance"} /\ heap[b].tag = "table"
      <3>1. heap[a].tag \in {"function", "class", "instance"}
         BY <1>1, <1>2, <2>3 DEF Kinds, Object
      <3>2. a # None BY <1>1, AddressesDistinct
      <3>3. ASSUME heap[b].tag # "table" PROVE FALSE
         <4>1. n \in OwnNames BY <1>2, <2>3, <3>2, <3>3 DEF Kinds
         <4>2. b \in AssignedTo BY <1>1, <2>3, <3>3, <4>1 DEF AssignedTo
         <4>3. QED BY <4>2
      <3>4. QED BY <3>1, <3>3
   <2>4. QED BY <1>3, <2>1, <2>2, <2>3, Zenon DEF Holds
<1>4. \A a \in X : heap[a].tag # "table" BY <1>3
<1>5. \A a \in X : heap[a].tag # "function" BY <1>3, <1>4
<1>6. \A a \in X : heap[a].tag # "instance" BY <1>3, <1>4, <1>5
<1>7. \A a \in X : heap[a].tag # "class" BY <1>3, <1>4, <1>5, <1>6
<1>8. QED BY <1>1, <1>4, <1>5, <1>6, <1>7

\* No call, block, constructor, bound method or anonymous method leaves an
\* object behind: shared_ptr destroys everything that nothing reaches, except
\* what holds itself by way of a function or class declared in a block or call,
\* or of an object that the script assigned to a field.
THEOREM NothingElseIsLeaked == Spec => []OnlyKnotsLeak
<1>1. IInv /\ LInv => OnlyKnotsLeak
   <2> DEFINE useless == {a \in Addr : heap[a].tag # "free"}
                            \ (Roots \cup DeclaredInScope \cup AssignedTo)
   <2> SUFFICES ASSUME IInv, LInv, NEW X \in (SUBSET useless) \ {{}},
                       \A b \in Ref \ X : \A a \in X : ~ Holds(heap[b], a)
                PROVE  FALSE
      BY DEF OnlyKnotsLeak
   <2>1. \A a \in X : \E b \in X : Holds(heap[b], a)
      <3> SUFFICES ASSUME NEW a \in X PROVE \E b \in X : Holds(heap[b], a)
         OBVIOUS
      <3>1. a \in Ref \ Roots /\ heap[a].tag # "free" BY DEF Ref
      <3>2. PICK b \in Ref : Holds(heap[b], a) BY <3>1 DEF LInv, NothingUnheld
      <3>3. QED BY <3>2
   <2>2. X = {} BY <2>1, NothingHoldsItself
   <2>3. QED BY <2>2
<1>2. QED BY <1>1, LifetimesHold, PTL
=============================================================================
