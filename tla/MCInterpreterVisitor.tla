------------------------ MODULE MCInterpreterVisitor ------------------------
(***************************************************************************)
(* Instances of InterpreterVisitor for TLC.  Scripts declare one name,     *)
(* foo; bar is the name of a method.                                       *)
(***************************************************************************)
EXTENDS InterpreterVisitor

CONSTANTS foo, bar

MCNames == {foo, This} \cup Builtins
MCNamesOfObjects == {foo, bar, This} \cup Builtins

NoParameters == {<<>>}
OneParameter == {<<>>, <<foo>>}

\* The class declared as foo has no methods, a constructor, a method bar, or both.
MCClassBodies == {[n \in Names |-> IF n \in methods THEN params ELSE None] :
                      methods \in SUBSET {foo, bar}, params \in Signatures}

\* The class has a constructor and a method.
MCClassOfObjects == {[n \in Names |-> IF n \in {foo, bar} THEN <<>> ELSE None]}
=============================================================================
