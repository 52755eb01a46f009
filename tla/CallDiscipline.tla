--------------------------- MODULE CallDiscipline ---------------------------
(***************************************************************************)
(* What a script may rely on when it calls something: the scope and the    *)
(* half-evaluated operands of the caller are set aside for the duration of *)
(* the call, the callee works on top of them, and when the call is over    *)
(* they are back, with the one value the call produced on top.  Nothing is *)
(* said of how scopes and operands are represented.                        *)
(***************************************************************************)
EXTENDS Naturals, Sequences, SequencesExt

CONSTANTS Scopes,     \* the scopes in which a script can execute
          Values,     \* what an operand can be
          Outermost   \* the scope in which the first script starts

VARIABLES calls,      \* what each call in progress has set aside, by how deep it is
          operands,   \* operands evaluated and not yet consumed
          scope       \* the scope in which names are looked up

callVars == <<calls, operands, scope>>

Depths == DOMAIN calls
Innermost(d) == d \in Depths /\ \A e \in Depths : e <= d

Init == /\ calls = [d \in {} |-> <<>>]
        /\ operands = <<>>
        /\ scope = Outermost

(***************************************************************************)
(* The operands that the calls in progress found are out of reach.         *)
(***************************************************************************)
Untouched == \A d \in Depths : IsPrefix(calls[d].operands, operands')

\* A call begins: it takes the operands it is made of, if they are still there,
\* and sets the caller's scope and other operands aside.
Enter == /\ IsPrefix(operands', operands)
         /\ Untouched
         /\ \E d \in DOMAIN calls' :
               /\ \A e \in Depths : e < d
               /\ calls' = [e \in Depths \cup {d} |->
                               IF e = d THEN [scope |-> scope, operands |-> operands']
                               ELSE calls[e]]

\* Anything that is neither a call nor a return.
Work == /\ UNCHANGED calls
        /\ Untouched

\* The innermost call is over: the caller resumes where it was, one value on.
Leave == \E d \in Depths :
            /\ Innermost(d)
            /\ calls' = [e \in Depths \ {d} |-> calls[e]]
            /\ scope' = calls[d].scope
            /\ \E v \in Values : operands' = Append(calls[d].operands, v)

\* An error ends the whole script, with some of the operands it found and in
\* any scope.
Abort == /\ DOMAIN calls' = {}
         /\ IsPrefix(operands', operands)

Next == Enter \/ Work \/ Leave \/ Abort

Spec == Init /\ [][Next]_callVars
=============================================================================
