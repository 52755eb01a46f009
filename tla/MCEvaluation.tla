---------------------------- MODULE MCEvaluation ----------------------------
(* Evaluation on numbers at and beyond their limits, and what they meet.   *)
EXTENDS Evaluation, NumberLiterals

\* A four-bit int, a float of two significant bits and one fractional bit.
MCFloats == {0, 1, 2, 3, 4, 6, 8, 12, 16, 24} \cup {-f : f \in {1, 2, 3, 4, 6, 8, 12, 16, 24}}

MCLeaves ==
    {IntegerLiteral(tag) : tag \in {<<"0">>, <<"5">>, <<"7">>}}
        \cup {FloatLiteral(tag) : tag \in {<<"0", ".", "5">>, <<"5", ".", "0">>, <<"nan">>, <<"inf">>}}
        \cup {MakeString(<< <<"text", 0>> >>), MakeBoolean(TRUE), TheNull}
        \cup {Make(type, 1) : type \in {"Function", "TypeInfo"}}
=============================================================================
