----------------------------- MODULE ScopeStack -----------------------------
(***************************************************************************)
(* What Interpreter::PushExternalSymbols and PopExternalSymbols promise to *)
(* an embedder: the symbol tables form a stack behind the globals of the   *)
(* scripts, and a name stands for its declaration in the first table, from *)
(* the globals outwards, that has one.                                     *)
(***************************************************************************)
EXTENDS Naturals, Sequences

CONSTANTS Tables, Globals, None, Names

VARIABLES stack, symbols, answer
vars == <<stack, symbols, answer>>

\* The tables a lookup goes through: the globals, then the stack from its
\* bottom to its top.
Level(i) == IF i = 0 THEN Globals
            ELSE IF i \in 1..Len(stack) THEN stack[i] ELSE None

Declares(i, n) == n \in symbols[Level(i)]

Answer(n, table) == [name |-> n, table |-> table]

Init ==
    /\ stack = <<>>
    /\ symbols = [t \in Tables \cup {Globals} |-> {}]
    /\ answer = Answer(None, None)

Push == \E t \in Tables :
    /\ stack' = Append(stack, t)
    /\ UNCHANGED <<symbols, answer>>

Pop ==
    /\ stack # <<>>
    /\ stack' = SubSeq(stack, 1, Len(stack) - 1)
    /\ UNCHANGED <<symbols, answer>>

\* A table that is not on the stack may be replaced by a new, empty one.
Create == \E t \in Tables :
    /\ \A i \in 1..Len(stack) : stack[i] # t
    /\ symbols' = [symbols EXCEPT ![t] = {}]
    /\ UNCHANGED <<stack, answer>>

Declare == \E t \in Tables \cup {Globals}, n \in Names :
    /\ symbols' = [symbols EXCEPT ![t] = @ \cup {n}]
    /\ UNCHANGED <<stack, answer>>

Find == \E n \in Names :
    /\ \/ \E i \in 0..Len(stack) :
            /\ Declares(i, n)
            /\ \A j \in 0..(i - 1) : ~ Declares(j, n)
            /\ answer' = Answer(n, Level(i))
       \/ /\ \A i \in 0..Len(stack) : ~ Declares(i, n)
          /\ answer' = Answer(n, None)
    /\ UNCHANGED <<stack, symbols>>

Next == Push \/ Pop \/ Create \/ Declare \/ Find

Spec == Init /\ [][Next]_vars
=============================================================================
