----------------------- MODULE ExternalSymbols_proofs -----------------------
(***************************************************************************)
(* Proofs about ExternalSymbols, for any set of tables and names and any   *)
(* bound on the depth of the stack.                                        *)
(***************************************************************************)
EXTENDS ExternalSymbols, SequenceTheorems, TLAPS

\* The stack without its top, and what PopExternalSymbols keeps alive.
Rest == SubSeq(stack, 1, Len(stack) - 1)
Kept == {Globals} \cup held \cup {Rest[i] : i \in 1..Len(Rest)}

\* The inductive invariant, for every embedder.
IInv == TypeOK /\ (Idle => at = Globals) /\ PoppedIsInvisible

-----------------------------------------------------------------------------
\* The levels of the stack after a push.
LEMMA PushedLevels ==
    ASSUME TypeOK, NEW t \in Tables, stack' = Append(stack, t)
    PROVE  /\ Len(stack) \in Nat /\ Len(stack') = Len(stack) + 1
           /\ \A i \in 0..Len(stack) : Level(i)' = Level(i)
           /\ \A k \in Nat : k = Len(stack) + 1 => Level(k)' = t
           /\ Below(stack) = Level(Len(stack))
           /\ Stacked \subseteq Stacked'
           /\ stack' \in Seq(Tables)
<1>1. Len(stack) \in Nat /\ Len(stack') = Len(stack) + 1 /\ stack' \in Seq(Tables)
  BY DEF TypeOK
<1>2. \A i \in 1..Len(stack) : stack'[i] = stack[i]
  BY DEF TypeOK
<1>3. stack'[Len(stack) + 1] = t
  BY DEF TypeOK
<1>4. \A i \in 0..Len(stack) : Level(i)' = Level(i)
  BY <1>1, <1>2 DEF Level, Scopes!Level
<1>5. \A k \in Nat : k = Len(stack) + 1 => Level(k)' = t
  BY <1>1, <1>3 DEF Level, Scopes!Level
<1>6. Below(stack) = Level(Len(stack))
  BY <1>1 DEF Below, Level, Scopes!Level, TypeOK
<1>7. Stacked \subseteq Stacked'
  BY <1>1, <1>2 DEF Stacked
<1> QED BY <1>1, <1>4, <1>5, <1>6, <1>7

\* The levels of the stack after a pop.
LEMMA PoppedLevels ==
    ASSUME TypeOK, stack # <<>>, stack' = Rest
    PROVE  /\ Len(stack) \in Nat \ {0} /\ Len(stack') = Len(stack) - 1
           /\ \A i \in 0..(Len(stack) - 1) : Level(i)' = Level(i)
           /\ Below(Rest) = Level(Len(stack) - 1)
           /\ stack' \in Seq(Tables)
<1>1. /\ Len(stack) \in Nat \ {0} /\ Len(stack') = Len(stack) - 1
      /\ stack' \in Seq(Tables)
  <2>1. Len(stack) \in Nat \ {0} BY EmptySeq DEF TypeOK
  <2>2. \A i \in 1..(Len(stack) - 1) : stack[i] \in Tables
    BY <2>1 DEF TypeOK
  <2>3. Len(stack) - 1 \in Int BY <2>1
  <2>4. /\ Rest \in Seq(Tables)
        /\ Len(Rest) = IF 1 <= Len(stack) - 1 THEN (Len(stack) - 1) - 1 + 1 ELSE 0
    BY ONLY <2>2, <2>3, SubSeqProperties DEF Rest
  <2>5. Len(Rest) = Len(stack) - 1
    <3>1. \A n \in Nat \ {0} : (IF 1 <= n - 1 THEN (n - 1) - 1 + 1 ELSE 0) = n - 1
      OBVIOUS
    <3> QED BY <2>1, <2>4, <3>1
  <2> QED BY <2>1, <2>4, <2>5
<1>2. \A i \in 1..(Len(stack) - 1) : stack'[i] = stack[i]
  BY <1>1, SubSeqProperties DEF TypeOK, Rest
<1>3. \A i \in 0..(Len(stack) - 1) : Level(i)' = Level(i)
  BY <1>1, <1>2 DEF Level, Scopes!Level
<1>4. Below(Rest) = Level(Len(stack) - 1)
  <2>1. CASE Len(stack) = 1
    <3>1. Rest = <<>> BY <1>1, <2>1 DEF TypeOK, Rest
    <3> QED BY <2>1, <3>1 DEF Below, Level, Scopes!Level
  <2>2. CASE Len(stack) # 1
    <3>1. Len(stack) - 1 \in 1..(Len(stack) - 1) /\ Len(stack) - 1 # 0
      BY <1>1, <2>2
    <3>2. Rest # <<>> /\ Rest[Len(Rest)] = stack[Len(stack) - 1]
      BY <1>1, <1>2, <3>1
    <3> QED BY <1>1, <3>1, <3>2 DEF Below, Level, Scopes!Level
  <2> QED BY <2>1, <2>2
<1> QED BY <1>1, <1>3, <1>4

\* A level of the stack is a table that is alive.
LEMMA LevelsAlive ==
    ASSUME TypeOK, NEW i \in 0..Len(stack)
    PROVE  Level(i) \in Alive /\ Level(i) \in Ref
BY DEF TypeOK, Level, Scopes!Level, Alive, Stacked, Ref

\* Past the top there is nothing.
LEMMA AboveTheTop == ASSUME TypeOK PROVE Level(Len(stack) + 1) = None
<1>1. Len(stack) \in Nat BY DEF TypeOK
<1> QED BY <1>1 DEF Level, Scopes!Level

LEMMA InitImpliesIInv == Init => IInv
BY TablesDistinct DEF Init, IInv, TypeOK, Idle, PoppedIsInvisible, Ref, Alive

-----------------------------------------------------------------------------
\* One lemma for each action of Next.

LEMMA CreateKeepsIInv == IInv /\ Create => IInv'
<1> SUFFICES ASSUME IInv, Create PROVE IInv'
  OBVIOUS
<1>1. PICK t \in Tables : /\ t \notin Alive /\ held' = held \cup {t}
                          /\ parent' = [parent EXCEPT ![t] = None]
                          /\ symbols' = [symbols EXCEPT ![t] = {}]
  BY DEF Create
<1>2. UNCHANGED <<stack, seek, at, answer>>
  BY DEF Create
<1>3. Alive \subseteq Alive'
  BY <1>1, <1>2 DEF Alive, Stacked
<1>4. TypeOK'
  BY <1>1, <1>2, <1>3 DEF IInv, TypeOK, Ref
<1>5. \A i \in 0..(Len(stack) + 1) : Level(i)' = Level(i)
  BY <1>2 DEF Level, Scopes!Level
<1>6. \A u \in Ref : parent'[u] # None => parent'[u] = parent[u]
  BY <1>1 DEF IInv, TypeOK
<1>7. PoppedIsInvisible'
  BY <1>2, <1>6 DEF IInv, PoppedIsInvisible, Level, Scopes!Level
<1> QED BY <1>2, <1>4, <1>7 DEF IInv, Idle

LEMMA ReleaseKeepsIInv == IInv /\ Release => IInv'
<1> SUFFICES ASSUME IInv, Release PROVE IInv'
  OBVIOUS
<1>1. PICK t \in held : held' = held \ {t}
  BY DEF Release
<1>2. /\ parent' = Expire(parent, {Globals} \cup held' \cup Stacked)
      /\ UNCHANGED <<stack, symbols, seek, at, answer>> /\ seek = None
  BY DEF Release, Idle
<1>3. \A u \in Ref : parent'[u] \in {parent[u], None}
  BY <1>2 DEF Expire
<1>4. TypeOK'
  <2>1. parent' \in [Ref -> Tables \cup {None}]
    BY <1>2, <1>3 DEF IInv, TypeOK, Expire
  <2>2. at' \in Alive'
    BY <1>2 DEF IInv, Idle, Alive
  <2> QED BY <1>1, <1>2, <2>1, <2>2 DEF IInv, TypeOK, Ref
<1>5. PoppedIsInvisible'
  BY <1>2, <1>3 DEF IInv, PoppedIsInvisible, Level, Scopes!Level
<1> QED BY <1>2, <1>4, <1>5 DEF IInv, Idle

LEMMA DeclareKeepsIInv == IInv /\ Declare => IInv'
<1> SUFFICES ASSUME IInv, Declare PROVE IInv'
  OBVIOUS
<1>1. PICK t \in held \cup {Globals}, n \in Names :
          symbols' = [symbols EXCEPT ![t] = @ \cup {n}]
  BY DEF Declare
<1>2. UNCHANGED <<stack, held, parent, seek, at, answer>>
  BY DEF Declare
<1>3. TypeOK'
  BY <1>1, <1>2 DEF IInv, TypeOK, Ref, Alive, Stacked
<1>4. PoppedIsInvisible'
  BY <1>2 DEF IInv, PoppedIsInvisible, Level, Scopes!Level
<1> QED BY <1>2, <1>3, <1>4 DEF IInv, Idle

\* The new link, from the old top to the new one, is between neighbours.
LEMMA PushKeepsIInv == IInv /\ PushExternalSymbols => IInv'
<1> SUFFICES ASSUME IInv, PushExternalSymbols PROVE IInv'
  OBVIOUS
<1>1. PICK t \in held : /\ parent' = [parent EXCEPT ![Below(stack)] = t]
                        /\ stack' = Append(stack, t)
  BY DEF PushExternalSymbols
<1>2. UNCHANGED <<held, symbols, seek, at, answer>>
  BY DEF PushExternalSymbols
<1>3. t \in Tables
  BY DEF IInv, TypeOK
<1>4. /\ Len(stack) \in Nat /\ Len(stack') = Len(stack) + 1
      /\ \A i \in 0..Len(stack) : Level(i)' = Level(i)
      /\ \A k \in Nat : k = Len(stack) + 1 => Level(k)' = t
      /\ Below(stack) = Level(Len(stack))
      /\ Stacked \subseteq Stacked'
      /\ stack' \in Seq(Tables)
  BY <1>1, <1>3, PushedLevels DEF IInv
<1>5. TypeOK'
  <2>1. at' \in Alive'
    BY <1>2, <1>4 DEF IInv, TypeOK, Alive
  <2> QED BY <1>1, <1>2, <1>3, <1>4, <2>1 DEF IInv, TypeOK, Ref
<1>6. PoppedIsInvisible'
  <2> SUFFICES ASSUME NEW u \in Ref, parent'[u] # None
               PROVE  \E i \in 0..Len(stack') :
                          u = Level(i)' /\ parent'[u] = Level(i + 1)'
    BY DEF PoppedIsInvisible
  <2>1. CASE u = Below(stack)
    <3>1. parent'[u] = t BY <1>1, <2>1 DEF IInv, TypeOK
    <3>2. PICK i \in Nat : i = Len(stack)
      BY <1>4
    <3>3. t = Level(i + 1)' /\ u = Level(i)'
      BY <1>4, <2>1, <3>2
    <3> QED BY <1>4, <3>1, <3>2, <3>3
  <2>2. CASE u # Below(stack)
    <3>1. parent'[u] = parent[u] BY <1>1, <2>2 DEF IInv, TypeOK
    <3>2. PICK i \in 0..Len(stack) : u = Level(i) /\ parent[u] = Level(i + 1)
      BY <3>1 DEF IInv, PoppedIsInvisible
    <3>3. i # Len(stack) BY <1>4, <2>2, <3>2
    <3>4. i \in 0..Len(stack') /\ i + 1 \in 0..Len(stack)
      BY <1>4, <3>3
    <3> QED BY <1>4, <3>1, <3>2, <3>4
  <2> QED BY <2>1, <2>2
<1> QED BY <1>2, <1>5, <1>6 DEF IInv, Idle

\* The only link to the level that disappears is the one that is cut.
LEMMA PopKeepsIInv == IInv /\ PopExternalSymbols => IInv'
<1> SUFFICES ASSUME IInv, PopExternalSymbols PROVE IInv'
  OBVIOUS
<1>1. /\ stack # <<>> /\ stack' = Rest /\ seek = None
      /\ parent' = Expire([parent EXCEPT ![Below(Rest)] = None], Kept)
  BY DEF PopExternalSymbols, Rest, Kept, Idle
<1>2. UNCHANGED <<held, symbols, seek, at, answer>>
  BY DEF PopExternalSymbols
<1>3. /\ Len(stack) \in Nat \ {0} /\ Len(stack') = Len(stack) - 1
      /\ \A i \in 0..(Len(stack) - 1) : Level(i)' = Level(i)
      /\ Below(Rest) = Level(Len(stack) - 1)
      /\ stack' \in Seq(Tables)
  BY <1>1, PoppedLevels DEF IInv
<1>4. \A u \in Ref : /\ parent'[u] \in {parent[u], None}
                     /\ u = Below(Rest) => parent'[u] = None
  BY <1>1 DEF Expire, IInv, TypeOK
<1>5. TypeOK'
  <2>1. parent' \in [Ref -> Tables \cup {None}]
    BY <1>1, <1>4 DEF IInv, TypeOK, Expire
  <2>2. at' \in Alive'
    BY <1>1, <1>2 DEF IInv, Idle, Alive
  <2> QED BY <1>2, <1>3, <2>1, <2>2 DEF IInv, TypeOK
<1>6. PoppedIsInvisible'
  <2> SUFFICES ASSUME NEW u \in Ref, parent'[u] # None
               PROVE  \E i \in 0..Len(stack') :
                          u = Level(i)' /\ parent'[u] = Level(i + 1)'
    BY DEF PoppedIsInvisible
  <2>1. parent'[u] = parent[u] /\ u # Below(Rest)
    BY <1>4
  <2>2. PICK i \in 0..Len(stack) : u = Level(i) /\ parent[u] = Level(i + 1)
    BY <2>1 DEF IInv, PoppedIsInvisible
  <2>3. i # Len(stack) - 1 BY <1>3, <2>1, <2>2
  <2>4. i # Len(stack) BY <2>1, <2>2, AboveTheTop DEF IInv
  <2>5. /\ i \in 0..Len(stack')
        /\ i \in 0..(Len(stack) - 1) /\ i + 1 \in 0..(Len(stack) - 1)
    BY <1>3, <2>3, <2>4
  <2> QED BY <1>3, <2>1, <2>2, <2>5
<1> QED BY <1>1, <1>2, <1>5, <1>6 DEF IInv, Idle

\* A lookup goes from a level to the next, and every level is alive.
LEMMA LookupKeepsIInv == IInv /\ (Get \/ FindSymbol) => IInv'
<1> SUFFICES ASSUME IInv, Get \/ FindSymbol PROVE IInv'
  OBVIOUS
<1>1. UNCHANGED <<stack, held, parent, symbols>>
  BY DEF Get, FindSymbol
<1>2. PoppedIsInvisible'
  BY <1>1 DEF IInv, PoppedIsInvisible, Level, Scopes!Level
<1>3. Alive' = Alive /\ Globals \in Alive
  BY <1>1 DEF Alive, Stacked
<1>4. ASSUME parent[at] # None PROVE parent[at] \in Alive
  <2>1. at \in Ref BY DEF IInv, TypeOK, Alive, Ref, Stacked
  <2>2. PICK i \in 0..Len(stack) : parent[at] = Level(i + 1)
    BY <1>4, <2>1 DEF IInv, PoppedIsInvisible
  <2>3. i # Len(stack) BY <1>4, <2>2, AboveTheTop DEF IInv
  <2>4. i + 1 \in 0..Len(stack) BY <2>3 DEF IInv, TypeOK
  <2> QED BY <2>2, <2>4, LevelsAlive DEF IInv
<1>5. CASE Get
  BY <1>1, <1>2, <1>3, <1>5, TablesDistinct DEF Get, IInv, TypeOK, Idle
<1>6. CASE FindSymbol
  <2>1. at \in Ref /\ Globals \in Ref
    BY DEF IInv, TypeOK, Alive, Ref, Stacked
  <2>2. (at' \in Alive /\ (seek' = None => at' = Globals))
    BY <1>3, <1>4, <1>6 DEF FindSymbol, Found, Idle
  <2>3. /\ seek' \in Names \cup {None}
        /\ answer' \in [name : Names \cup {None}, table : Ref \cup {None}]
    BY <1>6, <2>1 DEF FindSymbol, Found, IInv, TypeOK
  <2> QED BY <1>1, <1>2, <1>3, <2>2, <2>3 DEF IInv, TypeOK, Idle
<1> QED BY <1>5, <1>6

LEMMA NextKeepsIInv == IInv /\ [Next]_vars => IInv'
<1> SUFFICES ASSUME IInv, [Next]_vars PROVE IInv'
  OBVIOUS
<1>1. CASE UNCHANGED vars
  BY <1>1 DEF vars, IInv, TypeOK, Idle, Alive, Stacked, PoppedIsInvisible,
              Level, Scopes!Level
<1>2. CASE Next
  BY <1>2, CreateKeepsIInv, ReleaseKeepsIInv, DeclareKeepsIInv, PushKeepsIInv,
     PopKeepsIInv, LookupKeepsIInv DEF Next
<1> QED BY <1>1, <1>2

LEMMA InvariantHolds == Spec => []IInv
BY InitImpliesIInv, NextKeepsIInv, PTL DEF Spec

-----------------------------------------------------------------------------
(***************************************************************************)
(* Every state has the declared types, and findSymbol never runs on a null *)
(* parent or on a table that was destroyed, whatever the embedder pushes.  *)
(***************************************************************************)
THEOREM LookupsStayAlive == Spec => []TypeOK
<1>1. IInv => TypeOK BY DEF IInv
<1> QED BY <1>1, InvariantHolds, PTL

(***************************************************************************)
(* No link of SetParent outlives the pop of the table it leads to, even    *)
(* when tables are pushed more than once.                                  *)
(***************************************************************************)
THEOREM PoppedStaysInvisible == Spec => []PoppedIsInvisible
<1>1. IInv => PoppedIsInvisible BY DEF IInv
<1> QED BY <1>1, InvariantHolds, PTL

-----------------------------------------------------------------------------
\* When no table is pushed twice: the links are the stack, and a lookup has
\* passed only tables that do not declare its name.
Distinct == \A i, j \in 0..Len(stack) : Level(i) = Level(j) => i = j
Linked == \A i \in 0..Len(stack) : parent[Level(i)] = Level(i + 1)
Sought == ~ Idle => \E i \in 0..Len(stack) :
              at = Level(i) /\ \A j \in 0..(i - 1) : seek \notin symbols[Level(j)]

ChainInv == ~ Repeats /\ IInv /\ Distinct /\ Linked /\ Sought

LEMMA InitImpliesChainInv == ~ Repeats /\ Init => ChainInv
<1> SUFFICES ASSUME ~ Repeats, Init PROVE ChainInv
  OBVIOUS
<1>1. IInv BY InitImpliesIInv
<1>2. Len(stack) = 0 BY DEF Init
<1>3. Distinct BY <1>2 DEF Distinct
<1>4. Linked BY <1>2 DEF Linked, Init, Level, Scopes!Level, Ref
<1>5. Sought BY DEF Sought, Init, Idle
<1> QED BY <1>1, <1>3, <1>4, <1>5 DEF ChainInv

LEMMA CreateKeepsChain == ChainInv /\ Create => (Distinct /\ Linked /\ Sought)'
<1> SUFFICES ASSUME ChainInv, Create PROVE (Distinct /\ Linked /\ Sought)'
  OBVIOUS
<1>1. PICK t \in Tables : t \notin Alive /\ parent' = [parent EXCEPT ![t] = None]
  BY DEF Create
<1>2. UNCHANGED <<stack, seek>> /\ seek = None
  BY DEF Create, Idle
<1>3. Distinct' /\ Sought'
  BY <1>2 DEF ChainInv, Distinct, Sought, Idle, Level, Scopes!Level
<1>4. ASSUME NEW i \in 0..Len(stack) PROVE parent'[Level(i)] = parent[Level(i)]
  BY <1>1, LevelsAlive DEF ChainInv, IInv, TypeOK
<1>5. Linked'
  BY <1>2, <1>4 DEF ChainInv, Linked, Level, Scopes!Level
<1> QED BY <1>3, <1>5

\* Releasing a table expires no link of the chain: the stack holds its tables.
LEMMA ReleaseKeepsChain == ChainInv /\ Release => (Distinct /\ Linked /\ Sought)'
<1> SUFFICES ASSUME ChainInv, Release PROVE (Distinct /\ Linked /\ Sought)'
  OBVIOUS
<1>1. /\ parent' = Expire(parent, {Globals} \cup held' \cup Stacked)
      /\ UNCHANGED <<stack, seek>> /\ seek = None
  BY DEF Release, Idle
<1>2. Distinct' /\ Sought'
  BY <1>1 DEF ChainInv, Distinct, Sought, Idle, Level, Scopes!Level
<1>3. ASSUME NEW i \in 0..Len(stack) PROVE parent'[Level(i)] = parent[Level(i)]
  <2>1. Level(i) \in Ref BY LevelsAlive DEF ChainInv, IInv
  <2>2. Len(stack) \in Nat /\ parent[Level(i)] = Level(i + 1)
    BY DEF ChainInv, Linked, IInv, TypeOK
  <2>3. CASE i = Len(stack)
    <3>1. parent[Level(i)] = None
      BY <2>2, <2>3, AboveTheTop DEF ChainInv, IInv
    <3> QED BY <1>1, <2>1, <3>1 DEF Expire
  <2>4. CASE i # Len(stack)
    <3>1. Level(i + 1) \in Stacked
      BY <2>2, <2>4 DEF Level, Scopes!Level, Stacked
    <3> QED BY <1>1, <2>1, <2>2, <3>1 DEF Expire
  <2> QED BY <2>3, <2>4
<1>4. Linked'
  BY <1>1, <1>3 DEF ChainInv, Linked, Level, Scopes!Level
<1> QED BY <1>2, <1>4

LEMMA PushKeepsChain ==
    ChainInv /\ PushExternalSymbols => (Distinct /\ Linked /\ Sought)'
<1> SUFFICES ASSUME ChainInv, PushExternalSymbols
             PROVE  (Distinct /\ Linked /\ Sought)'
  OBVIOUS
<1>1. PICK t \in held : /\ parent' = [parent EXCEPT ![Below(stack)] = t]
                        /\ stack' = Append(stack, t)
                        /\ t \notin Stacked
  BY DEF PushExternalSymbols, ChainInv
<1>2. UNCHANGED seek /\ seek = None /\ t \in Tables
  BY DEF PushExternalSymbols, Idle, ChainInv, IInv, TypeOK
<1>3. Sought'
  BY <1>2 DEF Sought, Idle
<1>4. /\ Len(stack) \in Nat /\ Len(stack') = Len(stack) + 1
      /\ \A i \in 0..Len(stack) : Level(i)' = Level(i)
      /\ \A k \in Nat : k = Len(stack) + 1 => Level(k)' = t
      /\ Below(stack) = Level(Len(stack))
  BY <1>1, <1>2, PushedLevels DEF ChainInv, IInv
<1>5. \A i \in 0..Len(stack) : Level(i) # t /\ Level(i) \in Ref
  BY <1>1, <1>2, TablesDistinct, LevelsAlive
     DEF Stacked, Level, Scopes!Level, ChainInv, IInv
<1>6. Distinct'
  <2> SUFFICES ASSUME NEW i \in 0..Len(stack'), NEW j \in 0..Len(stack'),
                      Level(i)' = Level(j)'
               PROVE  i = j
    BY DEF Distinct
  <2>1. CASE i \in 0..Len(stack) /\ j \in 0..Len(stack)
    BY <1>4, <2>1 DEF ChainInv, Distinct
  <2>2. CASE i = Len(stack) + 1 \/ j = Len(stack) + 1
    BY <1>4, <1>5, <2>2
  <2> QED BY <1>4, <2>1, <2>2
<1>7. Linked'
  <2> SUFFICES ASSUME NEW i \in 0..Len(stack')
               PROVE  parent'[Level(i)'] = Level(i + 1)'
    BY DEF Linked
  <2>1. CASE i \in 0..Len(stack) /\ i # Len(stack)
    <3>1. Level(i) # Below(stack)
      BY <1>4, <2>1 DEF ChainInv, Distinct
    <3>2. parent'[Level(i)] = Level(i + 1)
      BY <1>1, <1>5, <2>1, <3>1 DEF ChainInv, Linked, IInv, TypeOK
    <3>3. i + 1 \in 0..Len(stack) BY <1>4, <2>1
    <3> QED BY <1>4, <2>1, <3>2, <3>3
  <2>2. CASE i = Len(stack)
    <3>1. parent'[Level(i)] = t
      BY <1>1, <1>4, <1>5, <2>2 DEF ChainInv, IInv, TypeOK
    <3> QED BY <1>4, <2>2, <3>1
  <2>3. CASE i = Len(stack) + 1
    <3>1. t \in Ref /\ t # Below(stack)
      BY <1>2, <1>4, <1>5 DEF Ref
    <3>2. parent[t] = None
      BY <1>5, <3>1 DEF ChainInv, IInv, PoppedIsInvisible
    <3>3. parent'[t] = None
      BY <1>1, <3>1, <3>2 DEF ChainInv, IInv, TypeOK
    <3>4. Level(i + 1)' = None
      BY <1>4, <2>3 DEF Level, Scopes!Level
    <3> QED BY <1>4, <2>3, <3>3, <3>4
  <2> QED BY <1>4, <2>1, <2>2, <2>3
<1> QED BY <1>3, <1>6, <1>7

LEMMA PopKeepsChain ==
    ChainInv /\ PopExternalSymbols => (Distinct /\ Linked /\ Sought)'
<1> SUFFICES ASSUME ChainInv, PopExternalSymbols
             PROVE  (Distinct /\ Linked /\ Sought)'
  OBVIOUS
<1>1. /\ stack # <<>> /\ stack' = Rest /\ seek = None /\ UNCHANGED seek
      /\ parent' = Expire([parent EXCEPT ![Below(Rest)] = None], Kept)
  BY DEF PopExternalSymbols, Rest, Kept, Idle
<1>2. Sought'
  BY <1>1 DEF Sought, Idle
<1>3. /\ Len(stack) \in Nat \ {0} /\ Len(stack') = Len(stack) - 1
      /\ \A i \in 0..(Len(stack) - 1) : Level(i)' = Level(i)
      /\ Below(Rest) = Level(Len(stack) - 1)
      /\ stack' \in Seq(Tables)
  BY <1>1, PoppedLevels DEF ChainInv, IInv
<1>4. Distinct'
  BY <1>3 DEF ChainInv, Distinct
<1>5. Linked'
  <2> SUFFICES ASSUME NEW i \in 0..Len(stack')
               PROVE  parent'[Level(i)'] = Level(i + 1)'
    BY DEF Linked
  <2>1. Level(i)' = Level(i) /\ Level(i) \in Ref
    BY <1>3, LevelsAlive DEF ChainInv, IInv
  <2>2. CASE i = Len(stack) - 1
    <3>1. parent'[Level(i)] = None
      BY <1>1, <1>3, <2>1, <2>2 DEF Expire, ChainInv, IInv, TypeOK
    <3>2. Level(i + 1)' = None
      BY <1>3, <2>2 DEF Level, Scopes!Level
    <3> QED BY <2>1, <3>1, <3>2
  <2>3. CASE i # Len(stack) - 1
    <3>1. i \in 0..Len(stack) /\ i + 1 \in 1..Len(stack') /\ i + 1 \in 0..(Len(stack) - 1)
      BY <1>3, <2>3
    <3>2. Level(i) # Below(Rest)
      BY <1>3, <2>3, <3>1 DEF ChainInv, Distinct
    <3>3. parent[Level(i)] = Level(i + 1)
      BY <3>1 DEF ChainInv, Linked
    <3>4. Level(i + 1) = Level(i + 1)' /\ Level(i + 1)' = stack'[i + 1]
      BY <1>3, <3>1 DEF Level, Scopes!Level
    <3>5. stack'[i + 1] \in Kept
      BY <1>1, <3>1 DEF Kept
    <3>6. parent'[Level(i)] = parent[Level(i)]
      BY <1>1, <2>1, <3>2, <3>3, <3>4, <3>5 DEF Expire, ChainInv, IInv, TypeOK
    <3> QED BY <2>1, <3>3, <3>4, <3>6
  <2> QED BY <2>2, <2>3
<1> QED BY <1>2, <1>4, <1>5

\* A lookup moves to the next level only after the name was missing in this one.
LEMMA LookupKeepsChain ==
    ChainInv /\ (Declare \/ Get \/ FindSymbol) => (Distinct /\ Linked /\ Sought)'
<1> SUFFICES ASSUME ChainInv, Declare \/ Get \/ FindSymbol
             PROVE  (Distinct /\ Linked /\ Sought)'
  OBVIOUS
<1>1. UNCHANGED <<stack, parent>>
  BY DEF Declare, Get, FindSymbol
<1>2. Distinct' /\ Linked'
  BY <1>1 DEF ChainInv, Distinct, Linked, Level, Scopes!Level
<1>3. Len(stack) \in Nat
  BY DEF ChainInv, IInv, TypeOK
<1>4. CASE Declare
  BY <1>2, <1>4 DEF Declare, Sought, Idle
<1>5. CASE Get
  <2>1. at' = Globals BY <1>5 DEF Get
  <2>2. at' = Level(0)' BY <2>1 DEF Level, Scopes!Level
  <2>3. 0 \in 0..Len(stack') BY <1>1, <1>3
  <2> QED BY <1>2, <2>2, <2>3 DEF Sought
<1>6. CASE FindSymbol
  <2>1. CASE seek' = None
    BY <1>2, <2>1 DEF Sought, Idle
  <2>2. CASE seek' # None
    <3>1. /\ ~ Idle /\ seek \notin symbols[at] /\ parent[at] # None
          /\ at' = parent[at] /\ UNCHANGED <<seek, symbols>>
      BY <1>6, <2>2 DEF FindSymbol, Found
    <3>2. PICK i \in 0..Len(stack) :
              at = Level(i) /\ \A j \in 0..(i - 1) : seek \notin symbols[Level(j)]
      BY <3>1 DEF ChainInv, Sought
    <3>3. at' = Level(i + 1)
      BY <3>1, <3>2 DEF ChainInv, Linked
    <3>4. i # Len(stack)
      BY <3>1, <3>3, AboveTheTop DEF ChainInv, IInv
    <3>5. i + 1 \in 0..Len(stack')
      BY <1>1, <1>3, <3>4
    <3>6. \A j \in 0..i : seek \notin symbols[Level(j)]
      BY <3>1, <3>2
    <3>7. \A j \in 0..((i + 1) - 1) : seek' \notin symbols'[Level(j)']
      BY <1>1, <3>1, <3>6 DEF Level, Scopes!Level
    <3>8. at' = Level(i + 1)'
      BY <1>1, <3>3 DEF Level, Scopes!Level
    <3>9. Sought'
      BY <3>5, <3>7, <3>8 DEF Sought
    <3> QED BY <1>2, <3>9
  <2> QED BY <2>1, <2>2
<1> QED BY <1>4, <1>5, <1>6

LEMMA NextKeepsChainInv == ChainInv /\ [Next]_vars => ChainInv'
<1> SUFFICES ASSUME ChainInv, [Next]_vars PROVE ChainInv'
  OBVIOUS
<1>1. IInv' /\ (~ Repeats)'
  BY NextKeepsIInv DEF ChainInv
<1>2. CASE UNCHANGED vars
  BY <1>1, <1>2 DEF vars, ChainInv, Distinct, Linked, Sought, Idle,
                    Level, Scopes!Level
<1>3. CASE Next
  BY <1>1, <1>3, CreateKeepsChain, ReleaseKeepsChain, PushKeepsChain,
     PopKeepsChain, LookupKeepsChain DEF Next, ChainInv
<1> QED BY <1>2, <1>3

-----------------------------------------------------------------------------
\* Each step is a step of ScopeStack or leaves its variables alone.
LEMMA LookupImplements ==
    ChainInv /\ FindSymbol => Scopes!Find \/ UNCHANGED <<stack, symbols, answer>>
<1> SUFFICES ASSUME ChainInv, FindSymbol
             PROVE  Scopes!Find \/ UNCHANGED <<stack, symbols, answer>>
  OBVIOUS
<1>1. /\ seek \in Names /\ UNCHANGED <<stack, symbols>> /\ Len(stack) \in Nat
  BY DEF FindSymbol, Idle, ChainInv, IInv, TypeOK
<1>2. PICK i \in 0..Len(stack) :
          at = Level(i) /\ \A j \in 0..(i - 1) : seek \notin symbols[Level(j)]
  BY DEF FindSymbol, ChainInv, Sought
<1>3. CASE seek \in symbols[at]
  <2>1. answer' = Scopes!Answer(seek, Level(i))
    BY <1>2, <1>3 DEF FindSymbol, Found, Scopes!Answer
  <2>2. Scopes!Declares(i, seek) /\ \A j \in 0..(i - 1) : ~ Scopes!Declares(j, seek)
    BY <1>2, <1>3 DEF Scopes!Declares, Level
  <2> QED BY <1>1, <2>1, <2>2 DEF Scopes!Find, Level
<1>4. CASE seek \notin symbols[at] /\ parent[at] # None
  BY <1>4 DEF FindSymbol
<1>5. CASE seek \notin symbols[at] /\ parent[at] = None
  <2>1. answer' = Scopes!Answer(seek, None)
    BY <1>5 DEF FindSymbol, Found, Scopes!Answer
  <2>2. Level(i + 1) = None
    BY <1>2, <1>5 DEF ChainInv, Linked
  <2>3. i = Len(stack)
    <3> SUFFICES ASSUME i # Len(stack) PROVE FALSE
      OBVIOUS
    <3>1. i + 1 \in 1..Len(stack) BY <1>1
    <3>2. Level(i + 1) \in Tables
      BY <3>1 DEF Level, Scopes!Level, ChainInv, IInv, TypeOK
    <3> QED BY <2>2, <3>2, TablesDistinct
  <2>4. \A j \in 0..Len(stack) : ~ Scopes!Declares(j, seek)
    BY <1>1, <1>2, <1>5, <2>3 DEF Scopes!Declares, Level
  <2> QED BY <1>1, <2>1, <2>4 DEF Scopes!Find
<1> QED BY <1>3, <1>4, <1>5

LEMMA StepImplements == ChainInv /\ [Next]_vars => [Scopes!Next]_(Scopes!vars)
<1> SUFFICES ASSUME ChainInv, [Next]_vars PROVE [Scopes!Next]_(Scopes!vars)
  OBVIOUS
<1> USE DEF Scopes!vars, Scopes!Next
<1>1. CASE UNCHANGED vars
  BY <1>1 DEF vars
<1>2. CASE Create
  <2>1. PICK t \in Tables : t \notin Alive /\ symbols' = [symbols EXCEPT ![t] = {}]
    BY <1>2 DEF Create
  <2>2. \A i \in 1..Len(stack) : stack[i] # t
    BY <2>1 DEF Alive, Stacked
  <2> QED BY <1>2, <2>1, <2>2 DEF Create, Scopes!Create
<1>3. CASE Release
  BY <1>3 DEF Release
<1>4. CASE Declare
  BY <1>4 DEF Declare, Scopes!Declare, ChainInv, IInv, TypeOK
<1>5. CASE PushExternalSymbols
  BY <1>5 DEF PushExternalSymbols, Scopes!Push, ChainInv, IInv, TypeOK
<1>6. CASE PopExternalSymbols
  BY <1>6 DEF PopExternalSymbols, Scopes!Pop
<1>7. CASE Get
  BY <1>7 DEF Get
<1>8. CASE FindSymbol
  BY <1>8, LookupImplements
<1> QED BY <1>1, <1>2, <1>3, <1>4, <1>5, <1>6, <1>7, <1>8 DEF Next

(***************************************************************************)
(* For an embedder that pushes no table twice, the chain of weak links     *)
(* that PushExternalSymbols and PopExternalSymbols maintain and findSymbol *)
(* follows implements ScopeStack: every lookup is answered by the first    *)
(* table of the stack that declares the name.                              *)
(***************************************************************************)
THEOREM ChainImplementsStack == ~ Repeats /\ Spec => ImplementsScopeStack
<1>1. ~ Repeats /\ Init => ChainInv /\ Scopes!Init
  BY InitImpliesChainInv DEF Init, Scopes!Init, Scopes!Answer, Ref
<1>2. ChainInv /\ [Next]_vars => ChainInv'
  BY NextKeepsChainInv
<1>3. ChainInv /\ [Next]_vars => [Scopes!Next]_(Scopes!vars)
  BY StepImplements
<1> QED BY <1>1, <1>2, <1>3, PTL DEF Spec, ImplementsScopeStack, Scopes!Spec

-----------------------------------------------------------------------------
\* One activation of findSymbol hands over to the table of the next level.
LEMMA StepClimbs == ChainInv /\ [Next]_vars => [LookupClimbs]_vars
<1> SUFFICES ASSUME ChainInv, Next, ~ Idle, seek' # None
             PROVE  LookupClimbs
  BY DEF LookupClimbs
<1>1. FindSymbol
  BY DEF Next, Create, Release, Declare, PushExternalSymbols,
         PopExternalSymbols, Get
<1>2. parent[at] # None /\ at' = parent[at] /\ UNCHANGED stack
  BY <1>1 DEF FindSymbol, Found
<1>3. Len(stack) \in Nat
  BY DEF ChainInv, IInv, TypeOK
<1>4. PICK i \in 0..Len(stack) : at = Level(i)
  BY DEF ChainInv, Sought
<1>5. at' = Level(i + 1)
  BY <1>2, <1>4 DEF ChainInv, Linked
<1>6. i # Len(stack)
  BY <1>2, <1>5, AboveTheTop DEF ChainInv, IInv
<1>7. i + 1 \in 0..Len(stack)
  BY <1>3, <1>6
<1>8. ASSUME NEW k \in 0..Len(stack), at = Level(k) PROVE k < i + 1
  <2>1. k = i BY <1>4, <1>8 DEF ChainInv, Distinct
  <2> QED BY <1>3, <2>1
<1> QED BY <1>2, <1>5, <1>7, <1>8 DEF LookupClimbs

(***************************************************************************)
(* For an embedder that pushes no table twice, findSymbol never comes back *)
(* to a table and never runs beside the stack: the recursion is at most    *)
(* one activation deep for every table of the stack and the globals.       *)
(***************************************************************************)
THEOREM LookupsOnlyClimb == ~ Repeats /\ Spec => LookupsClimb
<1>1. ~ Repeats /\ Init => ChainInv
  BY InitImpliesChainInv
<1>2. ChainInv /\ [Next]_vars => ChainInv'
  BY NextKeepsChainInv
<1>3. ChainInv /\ [Next]_vars => [LookupClimbs]_vars
  BY StepClimbs
<1> QED BY <1>1, <1>2, <1>3, PTL DEF Spec, LookupsClimb
=============================================================================
