-------------------------- MODULE ExternalSymbols --------------------------
(***************************************************************************)
(* The symbol tables an embedder puts behind the globals of an Interpreter *)
(* (PushExternalSymbols, PopExternalSymbols), and the lookup that follows  *)
(* SymbolTable::m_parentScope from the globals through them.               *)
(*                                                                         *)
(* A table is destroyed when neither the embedder nor the stack of the     *)
(* interpreter holds a shared_ptr to it; links to it are weak and expire,  *)
(* which is written None.  The embedder creates its tables with the        *)
(* constructor that takes no parent and does not call SetParent itself.    *)
(***************************************************************************)
EXTENDS Naturals, Sequences

CONSTANTS
    Tables,    \* the embedder's tables
    Globals,   \* interpreter_visitor::m_globals
    None,      \* null pointer, expired weak_ptr, no name
    Names,     \* symbol names
    Repeats,   \* whether a table that is on the stack may be pushed again
    MaxDepth   \* bound on the depth of the stack

ASSUME TablesDistinct ==
    /\ Globals \notin Tables
    /\ None \notin Tables \cup {Globals}
    /\ None \notin Names
ASSUME EmbedderAssumption == Repeats \in BOOLEAN /\ MaxDepth \in Nat

VARIABLES
    stack,     \* m_externalSymbols, top last
    held,      \* tables the embedder has a shared_ptr to
    parent,    \* m_parentScope of every table
    symbols,   \* the names every table declares
    seek,      \* the name findSymbol is looking for, None between lookups
    at,        \* the table findSymbol runs on
    answer     \* the last lookup: its name, and the table it was found in

vars == <<stack, held, parent, symbols, seek, at, answer>>

Ref == Tables \cup {Globals}
Stacked == {stack[i] : i \in 1..Len(stack)}
Alive == {Globals} \cup held \cup Stacked

Scopes == INSTANCE ScopeStack
Level(i) == Scopes!Level(i)

\* Mutant of Below: the first table keeps its place behind the globals.
BelowFirst(s) == IF s = <<>> THEN Globals ELSE s[1]

\* The table a push or a pop links or unlinks.
Below(s) == IF s = <<>> THEN Globals ELSE s[Len(s)]

-----------------------------------------------------------------------------
Init ==
    /\ stack = <<>> /\ held = {}
    /\ parent = [t \in Ref |-> None]
    /\ symbols = [t \in Ref |-> {}]
    /\ seek = None /\ at = Globals
    /\ answer = [name |-> None, table |-> None]

Idle == seek = None
Expire(links, alive) ==
    [t \in Ref |-> IF links[t] \in alive THEN links[t] ELSE None]

\* std::make_shared<SymbolTable>(name)
Create == \E t \in Tables :
    /\ Idle
    /\ t \notin Alive
    /\ held' = held \cup {t}
    /\ parent' = [parent EXCEPT ![t] = None]
    /\ symbols' = [symbols EXCEPT ![t] = {}]
    /\ UNCHANGED <<stack, seek, at, answer>>

Release == \E t \in held :
    /\ Idle
    /\ held' = held \ {t}
    /\ parent' = Expire(parent, {Globals} \cup held' \cup Stacked)
    /\ UNCHANGED <<stack, symbols, seek, at, answer>>

Declare == \E t \in held \cup {Globals}, n \in Names :
    /\ Idle
    /\ n \notin symbols[t]
    /\ symbols' = [symbols EXCEPT ![t] = @ \cup {n}]
    /\ UNCHANGED <<stack, held, parent, seek, at, answer>>

\* Mutant of PushExternalSymbols: the table is pushed before the top is linked.
PushThenLink == \E t \in held :
    /\ Idle
    /\ Len(stack) < MaxDepth
    /\ Repeats \/ t \notin Stacked
    /\ stack' = Append(stack, t)
    /\ parent' = [parent EXCEPT ![IF stack = <<>> THEN Globals ELSE t] = t]
    /\ UNCHANGED <<held, symbols, seek, at, answer>>

PushExternalSymbols == \E t \in held :
    /\ Idle
    /\ Len(stack) < MaxDepth
    /\ Repeats \/ t \notin Stacked
    /\ parent' = [parent EXCEPT ![Below(stack)] = t]
    /\ stack' = Append(stack, t)
    /\ UNCHANGED <<held, symbols, seek, at, answer>>

\* Mutant of PopExternalSymbols: the popped table is unlinked, not the one
\* below it.
PopOfTop ==
    /\ Idle
    /\ stack # <<>>
    /\ LET rest == SubSeq(stack, 1, Len(stack) - 1)
           alive == {Globals} \cup held \cup {rest[i] : i \in 1..Len(rest)}
       IN  /\ stack' = rest
           /\ parent' = Expire([parent EXCEPT ![Below(stack)] = None], alive)
    /\ UNCHANGED <<held, symbols, seek, at, answer>>

\* On an empty stack PopExternalSymbols returns at once.
PopExternalSymbols ==
    /\ Idle
    /\ stack # <<>>
    /\ LET rest == SubSeq(stack, 1, Len(stack) - 1)
           alive == {Globals} \cup held \cup {rest[i] : i \in 1..Len(rest)}
       IN  /\ stack' = rest
           /\ parent' = Expire([parent EXCEPT ![Below(rest)] = None], alive)
    /\ UNCHANGED <<held, symbols, seek, at, answer>>

\* A script names a symbol that its own scopes do not declare.
Get == \E n \in Names :
    /\ Idle
    /\ seek' = n /\ at' = Globals
    /\ UNCHANGED <<stack, held, parent, symbols, answer>>

Found(t) ==
    /\ seek' = None /\ at' = Globals
    /\ answer' = [name |-> seek, table |-> t]

\* Mutant of FindSymbol: the parent is not tested for expiry.
FindUnchecked ==
    /\ ~ Idle
    /\ \/ seek \in symbols[at] /\ Found(at)
       \/ seek \notin symbols[at] /\ at' = parent[at] /\ UNCHANGED <<seek, answer>>
    /\ UNCHANGED <<stack, held, parent, symbols>>

\* One activation of findSymbol; Found(None) is the SymbolNotFoundException.
FindSymbol ==
    /\ ~ Idle
    /\ \/ seek \in symbols[at] /\ Found(at)
       \/ /\ seek \notin symbols[at] /\ parent[at] # None
          /\ at' = parent[at]
          /\ UNCHANGED <<seek, answer>>
       \/ seek \notin symbols[at] /\ parent[at] = None /\ Found(None)
    /\ UNCHANGED <<stack, held, parent, symbols>>

Next ==
    \/ Create \/ Release \/ Declare
    \/ PushExternalSymbols \/ PopExternalSymbols
    \/ Get \/ FindSymbol

Spec == Init /\ [][Next]_vars

\* findSymbol is one call: once entered it runs until it returns.
FairSpec == Spec /\ WF_vars(FindSymbol)

-----------------------------------------------------------------------------
(***************************************************************************)
(* Types.  A lookup only ever runs on a table that exists: findSymbol is   *)
(* never called through a null or an expired parent.                       *)
(***************************************************************************)
TypeOK ==
    /\ stack \in Seq(Tables) /\ held \subseteq Tables
    /\ parent \in [Ref -> Tables \cup {None}]
    /\ symbols \in [Ref -> SUBSET Names]
    /\ seek \in Names \cup {None} /\ at \in Alive
    /\ answer \in [name : Names \cup {None}, table : Ref \cup {None}]

(***************************************************************************)
(* A table that was popped cannot be seen any more: every link is between  *)
(* two neighbours of the stack, whatever is pushed, popped, released or    *)
(* pushed again, so no link is left over by a pop in an odd order.         *)
(***************************************************************************)
PoppedIsInvisible ==
    \A t \in Ref : parent[t] # None =>
        \E i \in 0..Len(stack) : t = Level(i) /\ parent[t] = Level(i + 1)

(***************************************************************************)
(* When no table is pushed twice, the chain of weak links is the stack of  *)
(* ScopeStack: every lookup of findSymbol ends in the first table that     *)
(* declares the name, or in none when no table does.                       *)
(***************************************************************************)
ImplementsScopeStack == Scopes!Spec

(***************************************************************************)
(* When no table is pushed twice, a lookup that goes on to a parent goes   *)
(* up: the next activation of findSymbol runs on a table of the stack that *)
(* lies above the one it comes from, so there are never more of them than  *)
(* tables, whatever was popped and pushed again in another order before.   *)
(***************************************************************************)
LookupClimbs ==
    ~ Idle /\ seek' # None =>
        /\ UNCHANGED stack
        /\ \E j \in 0..Len(stack) :
              /\ at' = Level(j)
              /\ \A i \in 0..Len(stack) : at = Level(i) => i < j
LookupsClimb == [][LookupClimbs]_vars

(***************************************************************************)
(* When no table is pushed twice, every lookup returns or throws: the      *)
(* recursion of findSymbol is not infinite.                                *)
(***************************************************************************)
LookupEnds == ~ Idle ~> Idle
=============================================================================
