-------------------------- MODULE Evaluation_proofs --------------------------
(***************************************************************************)
(* Theorems about the values of expressions of any size, for every width   *)
(* of int, every set of floats and all values of literals and names.  They *)
(* lift the laws of single operators that Values_proofs proves.            *)
(***************************************************************************)
EXTENDS Evaluation, Values_proofs, SequenceTheorems

Parts(s) == {s[i] : i \in 1 .. Len(s)}

(* The inductive invariant. *)
IInv == values \in Seq(Parts(values)) /\ ResultsHaveTheirType

----------------------------------------------------------------------------
LEMMA OperandsAre ==
    ASSUME IInv
    PROVE  /\ Len(values) \in Nat
           /\ Len(values) >= 1 => IsResult(Rhs)
           /\ Len(values) >= 2 => IsResult(Lhs)
<1>1. Len(values) \in Nat
  BY LenProperties DEF IInv
<1>2. QED
  BY <1>1 DEF IInv, ResultsHaveTheirType, Rhs, Lhs

LEMMA SeqOfParts ==
    ASSUME NEW S, NEW s \in Seq(S)
    PROVE  s \in Seq(Parts(s))
<1>1. Len(s) \in Nat /\ s \in [1 .. Len(s) -> S]
  BY LenProperties
<1>2. s \in [1 .. Len(s) -> Parts(s)]
  BY <1>1 DEF Parts
<1>3. QED
  BY <1>1, <1>2, SeqDef

(* The values that stay and a new one are values of their types. *)
LEMMA CombineKeepsIInv ==
    ASSUME IInv, NEW k \in 0 .. Len(values), NEW v, IsResult(v),
           values' = Append(SubSeq(values, 1, Len(values) - k), v)
    PROVE  IInv'
<1> DEFINE S == Parts(values) \cup {v}
           g == SubSeq(values, 1, Len(values) - k)
<1>1. values \in Seq(S) /\ v \in S
  <2>1. values \in Seq(Parts(values))
    BY DEF IInv
  <2>2. QED
    BY <2>1
<1>2. \A x \in S : IsResult(x)
  BY DEF IInv, ResultsHaveTheirType, Parts
<1> HIDE DEF S
<1>3. Len(values) \in Nat /\ Len(values) - k \in 0 .. Len(values)
  BY <1>1
<1>4. g \in Seq(S)
  BY <1>1, <1>3
<1> HIDE DEF g
<1>5. values' \in Seq(S)
  BY <1>1, <1>4 DEF g
<1>6. ResultsHaveTheirType'
  <2>1. \A i \in 1 .. Len(values') : values'[i] \in S
    BY <1>5, ElementOfSeq
  <2>2. QED
    BY <1>2, <2>1 DEF ResultsHaveTheirType
<1>7. values' \in Seq(Parts(values'))
  BY <1>5, SeqOfParts
<1>8. QED
  BY <1>6, <1>7 DEF IInv

----------------------------------------------------------------------------
LEMMA StrictIsResult ==
    ASSUME NEW a, NEW b, NEW v, IsResult(a), IsResult(b),
           HasItsType(a) /\ HasItsType(b) => IsResult(v)
    PROVE  IsResult(Strict(a, b, v))
BY DEF IsResult, Strict

LEMMA TruthIsResult ==
    ASSUME NEW v, IsResult(v)
    PROVE  IsResult(Truth(v))
BY SignIsResult DEF IsResult, Truth

LEMMA LogicIsResult ==
    ASSUME NEW op, NEW a, NEW b, IsResult(a), IsResult(b)
    PROVE  IsResult(Logic(op, a, b))
<1>1. IsResult(Truth(a)) /\ IsResult(Truth(b)) /\ IsResult(MakeBoolean(op = "or"))
  BY TruthIsResult, MadeValues DEF IsResult
<1>2. Logic(op, a, b) \in {Truth(a), MakeBoolean(op = "or"), Truth(b)}
  BY DEF Logic
<1>3. QED
  BY <1>1, <1>2

LEMMA SignedIsResult ==
    ASSUME NEW sign \in {"!", "-"}, NEW v, IsResult(v)
    PROVE  IsResult(Sign(sign, v))
<1>1. CASE v \in Failures
  BY <1>1 DEF Sign, IsResult
<1>2. CASE v \notin Failures /\ sign = "!"
  <2>1. Sign(sign, v) = Negate(v)
    BY <1>2 DEF Sign
  <2>2. QED
    BY <1>2, <2>1, SignIsResult DEF IsResult
<1>3. CASE v \notin Failures /\ sign = "-"
  <2>1. Sign(sign, v) = Negative(v)
    BY <1>3 DEF Sign
  <2>2. QED
    BY <1>3, <2>1, SignIsResult DEF IsResult
<1>4. QED
  BY <1>1, <1>2, <1>3

----------------------------------------------------------------------------
LEMMA InitImpliesIInv == Init => IInv
BY DEF Init, IInv, Parts, ResultsHaveTheirType

LEMMA NextKeepsIInv == IInv /\ [Next]_values => IInv'
<1> SUFFICES ASSUME IInv, [Next]_values PROVE IInv'
  OBVIOUS
<1>1. Len(values) \in Nat
  BY OperandsAre
<1>2. CASE Leaf
  <2>1. PICK v \in Leaves : values' = Append(values, v)
    BY <1>2 DEF Leaf
  <2>2. IsResult(v)
    BY LeavesAssumption DEF IsResult
  <2>3. values' = Append(SubSeq(values, 1, Len(values) - 0), v)
    BY <2>1 DEF IInv
  <2>4. QED
    BY <1>1, <2>2, <2>3, CombineKeepsIInv
<1>3. CASE ArithmeticOp
  <2>1. PICK op \in ArithmeticOps :
            Combine(2, Strict(Lhs, Rhs, Arithmetic(op, Lhs, Rhs)))
    BY <1>3 DEF ArithmeticOp
  <2>2. 2 \in 0 .. Len(values) /\ IsResult(Lhs) /\ IsResult(Rhs)
    BY <1>1, <1>3, OperandsAre DEF ArithmeticOp
  <2>3. IsResult(Strict(Lhs, Rhs, Arithmetic(op, Lhs, Rhs)))
    BY <2>2, ArithmeticIsResult, StrictIsResult
  <2>4. QED
    BY <2>1, <2>2, <2>3, CombineKeepsIInv DEF Combine
<1>4. CASE ComparisonOp
  <2>1. PICK op \in ComparisonOps :
            Combine(2, Strict(Lhs, Rhs, Comparison(op, Lhs, Rhs)))
    BY <1>4 DEF ComparisonOp
  <2>2. 2 \in 0 .. Len(values) /\ IsResult(Lhs) /\ IsResult(Rhs)
    BY <1>1, <1>4, OperandsAre DEF ComparisonOp
  <2>3. IsResult(Strict(Lhs, Rhs, Comparison(op, Lhs, Rhs)))
    BY <2>2, OperatorsYieldTheirTypes, StrictIsResult
  <2>4. QED
    BY <2>1, <2>2, <2>3, CombineKeepsIInv DEF Combine
<1>5. CASE LogicOp
  <2>1. PICK op \in {"and", "or"} : Combine(2, Logic(op, Lhs, Rhs))
    BY <1>5 DEF LogicOp
  <2>2. 2 \in 0 .. Len(values) /\ IsResult(Lhs) /\ IsResult(Rhs)
    BY <1>1, <1>5, OperandsAre DEF LogicOp
  <2>3. IsResult(Logic(op, Lhs, Rhs))
    BY <2>2, LogicIsResult
  <2>4. QED
    BY <2>1, <2>2, <2>3, CombineKeepsIInv DEF Combine
<1>6. CASE Unary
  <2>1. PICK sign \in {"!", "-"} : Combine(1, Sign(sign, Rhs))
    BY <1>6 DEF Unary
  <2>2. 1 \in 0 .. Len(values) /\ IsResult(Rhs)
    BY <1>1, <1>6, OperandsAre DEF Unary
  <2>3. IsResult(Sign(sign, Rhs))
    BY <2>2, SignedIsResult
  <2>4. QED
    BY <2>1, <2>2, <2>3, CombineKeepsIInv DEF Combine
<1>7. CASE UNCHANGED values
  BY <1>7 DEF IInv, ResultsHaveTheirType, Parts
<1>8. QED
  BY <1>2, <1>3, <1>4, <1>5, <1>6, <1>7 DEF Next

LEMMA InvariantHolds == Spec => []IInv
BY InitImpliesIInv, NextKeepsIInv, PTL DEF Spec

----------------------------------------------------------------------------
(***************************************************************************)
(* Whatever expression a script writes, its value is one of its type or it *)
(* has none: no Integer leaves int and no Float the floats, through any    *)
(* sequence of operators and conversions of bin_ops and unary_ops.         *)
(***************************************************************************)
THEOREM ExpressionsHaveTheirType == Spec => []ResultsHaveTheirType
<1>1. IInv => ResultsHaveTheirType
  BY DEF IInv
<1>2. QED
  BY <1>1, InvariantHolds, PTL

(***************************************************************************)
(* No three expressions are in a cycle of < and <=, although an Integer is *)
(* rounded when it meets a Float and not when it meets an Integer.         *)
(***************************************************************************)
THEOREM ExpressionsAreOrdered == Spec => []OrderHasNoCycle
<1>1. IInv => OrderHasNoCycle
  <2> SUFFICES ASSUME IInv, NEW i \in 1 .. Len(values), NEW j \in 1 .. Len(values),
                      NEW k \in 1 .. Len(values),
                      {values[i], values[j], values[k]} \cap Failures = {}
               PROVE  NoCycle(values[i], values[j], values[k])
    BY DEF OrderHasNoCycle
  <2>1. HasItsType(values[i]) /\ HasItsType(values[j]) /\ HasItsType(values[k])
    BY DEF IInv, ResultsHaveTheirType, IsResult
  <2>2. QED
    BY <2>1, MixedOrderHasNoCycle
<1>2. QED
  BY <1>1, InvariantHolds, PTL

----------------------------------------------------------------------------
(* bool and ! of one value agree, and ! of a Boolean is the other one. *)
LEMMA TruthAndNegation ==
    ASSUME NEW v, v \notin Failures
    PROVE  \/ Truth(v) = Undefined /\ Sign("!", v) = Undefined
           \/ \E x \in BOOLEAN : /\ Truth(v) = MakeBoolean(x)
                                /\ Sign("!", v) = MakeBoolean(~x)
<1>1. Truth(v) = IsTrue(v) /\ Sign("!", v) = Negate(v)
  BY DEF Truth, Sign
<1>2. CASE v.type \in NoTruth
  BY <1>1, <1>2 DEF IsTrue, Negate, NoTruth
<1>3. CASE v.type \notin NoTruth /\ v.type = "String"
  <2>1. IsTrue(v) = MakeBoolean(v.s # <<>>) /\ Negate(v) = MakeBoolean(~(v.s # <<>>))
    BY <1>3 DEF IsTrue, Negate
  <2>2. QED
    BY <1>1, <2>1
<1>4. CASE v.type \notin NoTruth /\ v.type # "String"
  <2>1. IsTrue(v) = MakeBoolean(v.n # 0) /\ Negate(v) = MakeBoolean(~(v.n # 0))
    BY <1>4 DEF IsTrue, Negate
  <2>2. QED
    BY <1>1, <2>1
<1>5. QED
  BY <1>2, <1>3, <1>4

LEMMA Booleans ==
    /\ MakeBoolean(TRUE) # MakeBoolean(FALSE)
    /\ \A x \in BOOLEAN : /\ MakeBoolean(x) \notin Failures
                          /\ Truth(MakeBoolean(x)) = MakeBoolean(x)
                          /\ Sign("!", MakeBoolean(x)) = MakeBoolean(~x)
<1>1. MakeBoolean(TRUE) # MakeBoolean(FALSE)
  BY DEF MakeBoolean, Make
<1>2. ASSUME NEW x \in BOOLEAN PROVE MakeBoolean(x) \notin Failures
  BY DEF MakeBoolean, Make, Failures, Undefined, Crash, Endless
<1>3. ASSUME NEW x \in BOOLEAN
      PROVE  IsTrue(MakeBoolean(x)) = MakeBoolean(x) /\ Negate(MakeBoolean(x)) = MakeBoolean(~x)
  <2>1. /\ MakeBoolean(x).type = "Boolean"
        /\ MakeBoolean(x).n = IF x THEN 1 ELSE 0
    BY DEF MakeBoolean, Make
  <2>2. /\ IsTrue(MakeBoolean(x)) = MakeBoolean(MakeBoolean(x).n # 0)
        /\ Negate(MakeBoolean(x)) = MakeBoolean(MakeBoolean(x).n = 0)
    BY <2>1 DEF IsTrue, Negate, NoTruth
  <2>3. QED
    BY <2>1, <2>2
<1>4. QED
  BY <1>1, <1>2, <1>3 DEF Truth, Sign

LEMMA FailuresStay ==
    \A v \in Failures : Truth(v) = v /\ Sign("!", v) = v
BY DEF Truth, Sign

(* or is the dual of and for any two operands. *)
LEMMA OrIsDual ==
    ASSUME NEW a, NEW b
    PROVE  Logic("or", a, b) = Sign("!", Logic("and", Sign("!", a), Sign("!", b)))
<1>1. Undefined \in Failures
  BY DEF Failures
<1>2. CASE Truth(a) \in Failures
  <2>1. Truth(a) = Truth(Sign("!", a)) /\ Truth(Sign("!", a)) \in Failures
    BY <1>1, <1>2, FailuresStay, TruthAndNegation, Booleans
  <2>2. Logic("or", a, b) = Truth(a) /\ Logic("and", Sign("!", a), Sign("!", b)) = Truth(a)
    BY <1>2, <2>1 DEF Logic
  <2>3. QED
    BY <1>2, <2>2, FailuresStay
<1>3. CASE Truth(a) \notin Failures
  <2>1. a \notin Failures
    BY <1>3, FailuresStay
  <2>2. PICK x \in BOOLEAN : Truth(a) = MakeBoolean(x) /\ Sign("!", a) = MakeBoolean(~x)
    BY <1>1, <1>3, <2>1, TruthAndNegation
  <2>3. Truth(Sign("!", a)) = MakeBoolean(~x) /\ MakeBoolean(~x) \notin Failures
    BY <2>2, Booleans
  <2>4. CASE x = TRUE
    <3>1. Logic("or", a, b) = MakeBoolean(TRUE)
      BY <1>3, <2>2, <2>4 DEF Logic
    <3>2. Logic("and", Sign("!", a), Sign("!", b)) = MakeBoolean(FALSE)
      BY <2>3, <2>4 DEF Logic
    <3>3. QED
      BY <3>1, <3>2, Booleans
  <2>5. CASE x = FALSE
    <3>1. Logic("or", a, b) = Truth(b)
      BY <1>3, <2>2, <2>5, Booleans DEF Logic
    <3>2. Logic("and", Sign("!", a), Sign("!", b)) = Truth(Sign("!", b))
      BY <2>3, <2>5, Booleans DEF Logic
    <3>3. Truth(b) = Sign("!", Truth(Sign("!", b)))
      <4>1. CASE b \in Failures
        BY <4>1, FailuresStay
      <4>2. CASE b \notin Failures
        BY <1>1, <4>2, TruthAndNegation, Booleans, FailuresStay
      <4>3. QED
        BY <4>1, <4>2
    <3>4. QED
      BY <3>1, <3>2, <3>3
  <2>6. QED
    BY <2>4, <2>5
<1>4. QED
  BY <1>2, <1>3

(***************************************************************************)
(* or and and are duals in every expression: the handler of LogicOp takes  *)
(* the left operand alone in the same cases, and the operator ! and the    *)
(* conversion to bool that each class of value defines never disagree.     *)
(***************************************************************************)
THEOREM LogicIsAlwaysDual == Spec => []LogicIsDual
<1>1. LogicIsDual
  BY OrIsDual DEF LogicIsDual
<1>2. QED
  BY <1>1, PTL
=============================================================================
