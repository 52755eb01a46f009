---------------------------- MODULE MCTypedCalls ----------------------------
(* TypedCalls on few classes of values, names and signatures.              *)
EXTENDS TypedCalls

CONSTANTS Function, A, x

Untyped(n) == [name |-> n, type |-> None]
Of(n, type) == [name |-> n, type |-> type]

\* Types that the globals name, a class, a name that may stand for anything,
\* and a first parameter that hides the type of the second.
MCSignatures == {<<>>, <<Of(x, Integer)>>, <<Of(x, A)>>, <<Of(A, x)>>,
                 <<Untyped(x), Of(A, x)>>, <<Of(Integer, A), Of(x, Integer)>>}
MCHostTypes == {<<Integer, Any>>, <<Any, Null>>}
=============================================================================
