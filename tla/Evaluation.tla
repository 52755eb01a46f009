----------------------------- MODULE Evaluation -----------------------------
(***************************************************************************)
(* What the handlers of interpreter_visitor.cpp make of the values of      *)
(* operands, whatever the expression they are in.  The state machine       *)
(* builds expressions from their parts, as ProgramTexts builds trees, and  *)
(* keeps of each the value it has: no operator can tell two expressions    *)
(* with the same value apart.  An expression that throws, stops the        *)
(* process or does not end has that failure for its value.                 *)
(***************************************************************************)
EXTENDS Values

CONSTANTS
    Leaves,   \* the values of literals and of names
    MaxOpen,  \* bound: expressions that are no operand yet
    MaxText   \* bound: parts of a string

ASSUME LeavesAssumption == \A v \in Leaves : HasItsType(v)
ASSUME BoundsAssumption == MaxOpen \in Nat /\ MaxText \in Nat

VARIABLE values  \* of the expressions that are no operand yet

----------------------------------------------------------------------------
(* The right operand is evaluated first; what stops it stops all. *)
Strict(lhs, rhs, v) ==
    IF rhs \in Failures THEN rhs ELSE IF lhs \in Failures THEN lhs ELSE v

(* and, or: the left operand may decide alone. *)
Truth(v) == IF v \in Failures THEN v ELSE IsTrue(v)
Logic(op, lhs, rhs) ==
    CASE Truth(lhs) \in Failures -> Truth(lhs)
      [] Truth(lhs) = MakeBoolean(op = "or") -> MakeBoolean(op = "or")
      [] OTHER -> Truth(rhs)

Sign(sign, v) == CASE v \in Failures -> v
                   [] v \notin Failures /\ sign = "!" -> Negate(v)
                   [] v \notin Failures /\ sign = "-" -> Negative(v)

----------------------------------------------------------------------------
Init == values = <<>>

(* The last k expressions become the operands of one. *)
Combine(k, v) ==
    /\ Len(v.s) <= MaxText
    /\ values' = Append(SubSeq(values, 1, Len(values) - k), v)

Leaf == /\ Len(values) < MaxOpen
        /\ \E v \in Leaves : values' = Append(values, v)

Lhs == values[Len(values) - 1]
Rhs == values[Len(values)]
ArithmeticOp == /\ Len(values) >= 2
                /\ \E op \in ArithmeticOps :
                       Combine(2, Strict(Lhs, Rhs, Arithmetic(op, Lhs, Rhs)))
ComparisonOp == /\ Len(values) >= 2
                /\ \E op \in ComparisonOps :
                       Combine(2, Strict(Lhs, Rhs, Comparison(op, Lhs, Rhs)))
LogicOp == /\ Len(values) >= 2
           /\ \E op \in {"and", "or"} : Combine(2, Logic(op, Lhs, Rhs))
Unary == /\ Len(values) >= 1
         /\ \E sign \in {"!", "-"} : Combine(1, Sign(sign, Rhs))

Next == Leaf \/ ArithmeticOp \/ ComparisonOp \/ LogicOp \/ Unary
Spec == Init /\ [][Next]_values

----------------------------------------------------------------------------
(* Whatever an expression computes is a value of its type: an Integer an   *)
(* int, a Float a float; int arithmetic wraps, float arithmetic rounds.    *)
ResultsHaveTheirType == \A i \in 1 .. Len(values) : IsResult(values[i])

(* No three results are in a cycle of < and <=, however Integers and       *)
(* Floats are mixed, although == between the two is not transitive.        *)
OrderHasNoCycle ==
    \A i, j, k \in 1 .. Len(values) :
        {values[i], values[j], values[k]} \cap Failures = {} =>
            NoCycle(values[i], values[j], values[k])

(* a or b is !(!a and !b), whatever the operands are and whether or not    *)
(* the right one fails: both operators decide on the left one alone in the *)
(* same cases, and the ! and the bool that each type defines agree.        *)
LogicIsDual ==
    \A i, j \in 1 .. Len(values) :
        LET a == values[i]
            b == values[j]
        IN  Logic("or", a, b) =
                Sign("!", Logic("and", Sign("!", a), Sign("!", b)))
============================================================================
