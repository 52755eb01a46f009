--------------------------- MODULE NumberLiterals ---------------------------
(***************************************************************************)
(* The number a literal stands for.  A literal is the sequence of chunks   *)
(* that Grammar puts into the tag of its node.                             *)
(***************************************************************************)
EXTENDS Values, SequencesExt, TLC

DigitValue(c) == CHOOSE d \in 0 .. 9 : ToString(d) = c
Decimal(digits) == FoldLeft(LAMBDA n, c : 10 * n + DigitValue(c), 0, digits)
IntegerLiteral(tag) == MakeInteger(Decimal(tag))
FloatLiteral(tag) ==
    LET digits == SelectSeq(tag, LAMBDA c : c # ".")
        places == Len(tag) - SelectInSeq(tag, LAMBDA c : c = ".")
    IN  MakeFloat(CASE tag = <<"nan">> -> NaN
                    [] tag = <<"inf">> -> Top
                    [] tag # <<"nan">> /\ tag # <<"inf">> /\ digits # tag ->
                           Round(Decimal(digits) * Unit, 10 ^ places)
                    [] OTHER -> Round(Decimal(tag) * Unit, 1))
============================================================================
