------------------------------- MODULE Values -------------------------------
(***************************************************************************)
(* The values of scripts and their operators: source/value/*_value.{h,cpp} *)
(* and the double dispatch of interpreter_visitor.cpp, which picks the     *)
(* overload for the types of both operands.  The overload templates that   *)
(* throw UndefinedBinaryOperatorException are the result Undefined.        *)
(*                                                                         *)
(* An Integer is a C++ int, MinInt .. MaxInt, that wraps round (signed     *)
(* overflow, as the generated code does it).  A Float is a C++ float: a    *)
(* member of Floats, counted in units of 1/Unit, where Top stands for      *)
(* infinity and NaN is apart.  The sign of zero is left out.               *)
(***************************************************************************)
EXTENDS Integers, Sequences

CONSTANTS MaxInt,   \* of int
          Unit,     \* units in 1.0
          Top,      \* infinity, in units
          Floats    \* the floats but NaN, in units

MinInt == -MaxInt - 1
Distance(x, y) == IF x < y THEN y - x ELSE x - y

(* f is as near to num/den as any float is. *)
Nearest(f, num, den) == \A g \in Floats : Distance(f * den, num) <= Distance(g * den, num)

ASSUME FloatsAssumption ==
    /\ MaxInt \in Nat /\ Unit \in Nat \ {0} /\ Top \in Nat \ {0}
    /\ Floats \subseteq -Top .. Top
    /\ {0, Unit, Top} \subseteq Floats
    /\ \A f \in Floats : -f \in Floats

----------------------------------------------------------------------------
NaN == Top + 1
Types == {"Boolean", "Integer", "Float", "String", "Null", "Function",
          "TypeInfo", "Class", "Instance"}

(* Strings are the parts they were put together from, other values the     *)
(* number that tells them from others of their type.                       *)
Make(type, n) == [type |-> type, n |-> n, s |-> <<>>]
MakeString(s) == [type |-> "String", n |-> 0, s |-> s]
MakeBoolean(b) == Make("Boolean", IF b THEN 1 ELSE 0)
MakeInteger(i) == Make("Integer", i)
MakeFloat(f) == Make("Float", f)
TheNull == Make("Null", 0)

(* What is no value: an exception, the process stopped, no end. *)
Undefined == Make("undefined", 0)
Crash == Make("crash", 0)
Endless == Make("endless", 0)
Failures == {Undefined, Crash, Endless}

IsInteger(v) == v.type = "Integer"
IsNumber(v) == v.type \in {"Integer", "Float"}
Text(v) == IF v.type = "String" THEN v.s ELSE << <<v.type, v.n>> >>

----------------------------------------------------------------------------
(* int: two's complement, division toward zero. *)
Unwrapped(i) == i   \* mutant of Wrap
Wrap(i) == ((i - MinInt) % (2 * (MaxInt + 1))) + MinInt
Quotient(a, b) == LET q == Distance(a, 0) \div Distance(b, 0)
                  IN  IF (a < 0) = (b < 0) THEN q ELSE -q

IntegerOp(op, a, b) ==
    CASE op = "+" -> MakeInteger(Wrap(a + b))
      [] op = "-" -> MakeInteger(Wrap(a - b))
      [] op = "*" -> MakeInteger(Wrap(a * b))
      [] op = "/" /\ (b = 0 \/ (a = MinInt /\ b = -1)) -> Crash
      [] op = "/" /\ ~(b = 0 \/ (a = MinInt /\ b = -1)) -> MakeInteger(Quotient(a, b))

(* float: the exact result rounded to the nearest float, den > 0. *)
Round(num, den) == IF num > Top * den THEN Top
                   ELSE IF num < -Top * den THEN -Top
                   ELSE CHOOSE f \in Floats : Nearest(f, num, den)
Infinite(f) == f \in {Top, -Top}
Signed(a, b, f) == IF (a < 0) = (b < 0) THEN f ELSE -f
Minus(f) == IF f = NaN THEN NaN ELSE -f

Plus(a, b) == CASE NaN \in {a, b} \/ (Infinite(a) /\ b = -a) -> NaN
                [] NaN \notin {a, b} /\ Infinite(a) /\ b # -a -> a
                [] NaN \notin {a, b} /\ ~Infinite(a) /\ Infinite(b) -> b
                [] OTHER -> Round(a + b, 1)
Times(a, b) == CASE NaN \in {a, b} \/ (0 \in {a, b} /\ {Top, -Top} \cap {a, b} # {}) -> NaN
                 [] {0, NaN} \cap {a, b} = {} /\ {Top, -Top} \cap {a, b} # {} -> Signed(a, b, Top)
                 [] OTHER -> Round(a * b, Unit)
Over(a, b) == CASE NaN \in {a, b} \/ (Infinite(a) /\ Infinite(b)) \/ (a = 0 /\ b = 0) -> NaN
                [] NaN \notin {a, b} /\ Infinite(a) /\ ~Infinite(b) -> Signed(a, b, Top)
                [] NaN \notin {a, b} /\ ~Infinite(a) /\ b = 0 /\ a # 0 -> Signed(a, b, Top)
                [] NaN \notin {a, b} /\ ~Infinite(a) /\ Infinite(b) -> 0
                [] OTHER -> Round(Signed(1, b, a) * Unit, Distance(b, 0))

(* A number as a float: an Integer is converted when the other is a Float. *)
AsFloat(v) == IF IsInteger(v) THEN Round(v.n * Unit, 1) ELSE v.n

FloatOp(op, a, b) == MakeFloat(CASE op = "+" -> Plus(a, b)
                             [] op = "-" -> Plus(a, Minus(b))
                             [] op = "*" -> Times(a, b)
                             [] op = "/" -> Over(a, b))

(* String * Integer counts to the Integer as an unsigned number: a         *)
(* negative one stands for more copies than there is memory.               *)
Repeat(s, n) == IF n < 0 /\ s # <<>> THEN Endless
                ELSE MakeString([i \in 1 .. n * Len(s) |-> s[((i - 1) % Len(s)) + 1]])

ArithmeticOps == {"+", "-", "*", "/"}
ComparisonOps == {"==", "!=", "<", ">", "<=", ">="}

(* The right operands for which each class has an operator that does not   *)
(* throw; binary_op_dispatcher picks it for the types of both operands.    *)
Equality == {"==", "!="}
BooleanAccepts(op) == IF op \in Equality THEN {"Boolean"} ELSE {}
IntegerAccepts(op) == {"Integer", "Float"}
FloatAccepts(op) == {"Integer", "Float"}
StringAccepts(op) == IF op = "+" THEN Types
                     ELSE IF op = "*" THEN {"Integer"}
                     ELSE IF op \in Equality THEN {"String"} ELSE {}
NullAccepts(op) == {}
FunctionAccepts(op) == {}
TypeInfoAccepts(op) == IF op \in Equality THEN {"TypeInfo"} ELSE {}
ClassAccepts(op) == {}
InstanceAccepts(op) == {}
Accepts(lhs, op, rhs) ==
    \/ lhs = "Boolean" /\ rhs \in BooleanAccepts(op)
    \/ lhs = "Integer" /\ rhs \in IntegerAccepts(op)
    \/ lhs = "Float" /\ rhs \in FloatAccepts(op)
    \/ lhs = "String" /\ rhs \in StringAccepts(op)
    \/ lhs = "Null" /\ rhs \in NullAccepts(op)
    \/ lhs = "Function" /\ rhs \in FunctionAccepts(op)
    \/ lhs = "TypeInfo" /\ rhs \in TypeInfoAccepts(op)
    \/ lhs = "Class" /\ rhs \in ClassAccepts(op)
    \/ lhs = "Instance" /\ rhs \in InstanceAccepts(op)

Arithmetic(op, a, b) ==
    CASE ~Accepts(a.type, op, b.type) -> Undefined
      [] a.type = "String" /\ op = "+" -> MakeString(a.s \o Text(b))
      [] a.type = "String" /\ op = "*" /\ IsInteger(b) -> Repeat(a.s, b.n)
      [] IsInteger(a) /\ IsInteger(b) -> IntegerOp(op, a.n, b.n)
      [] IsNumber(a) /\ IsNumber(b) /\ ~(IsInteger(a) /\ IsInteger(b)) ->
             FloatOp(op, AsFloat(a), AsFloat(b))

(* Mutant of Less: Float < Integer with its operands exchanged. *)
LessExchanged(a, b) == IF IsInteger(a) /\ IsInteger(b) THEN a.n < b.n
                       ELSE /\ NaN \notin {AsFloat(a), AsFloat(b)}
                            /\ IF IsInteger(b) THEN AsFloat(b) < AsFloat(a)
                               ELSE AsFloat(a) < AsFloat(b)

(* Both Integers are compared as they are, other numbers as floats. *)
Less(a, b) == IF IsInteger(a) /\ IsInteger(b) THEN a.n < b.n
              ELSE /\ NaN \notin {AsFloat(a), AsFloat(b)}
                   /\ AsFloat(a) < AsFloat(b)
Equal(a, b) == IF IsNumber(a) /\ IsNumber(b) /\ ~(IsInteger(a) /\ IsInteger(b))
               THEN AsFloat(a) # NaN /\ AsFloat(a) = AsFloat(b)
               ELSE a = b

Comparison(op, a, b) ==
    IF ~Accepts(a.type, op, b.type) THEN Undefined
    ELSE MakeBoolean(CASE op = "==" -> Equal(a, b)
                   [] op = "!=" -> ~Equal(a, b)
                   [] op = "<" -> Less(a, b)
                   [] op = ">" -> Less(b, a)
                   [] op = "<=" -> Less(a, b) \/ Equal(a, b)
                   [] op = ">=" -> Less(b, a) \/ Equal(a, b))

(* operator bool, and operator ! that some types define on their own. *)
NoTruth == {"Function", "TypeInfo", "Class", "Instance"}
IsTrue(v) == CASE v.type \in NoTruth -> Undefined
               [] v.type = "String" -> MakeBoolean(v.s # <<>>)
               [] OTHER -> MakeBoolean(v.n # 0)
(* Mutant of Negate: a String has the ! of the numbers. *)
NegateAsNumber(v) == IF v.type \in NoTruth THEN Undefined ELSE MakeBoolean(v.n = 0)
Negate(v) == CASE v.type \in NoTruth -> Undefined
               [] v.type = "String" -> MakeBoolean(v.s = <<>>)
               [] OTHER -> MakeBoolean(v.n = 0)
Negative(v) == CASE IsInteger(v) -> MakeInteger(Wrap(-v.n))
                 [] v.type = "Float" -> MakeFloat(Minus(v.n))
                 [] OTHER -> Undefined

----------------------------------------------------------------------------
HasItsType(v) ==
    /\ v.type \in Types
    /\ IsInteger(v) => v.n \in MinInt .. MaxInt
    /\ v.type = "Float" => v.n \in Floats \cup {NaN}
    /\ v.type = "Boolean" => v.n \in {0, 1}

(* What an expression comes to. *)
IsResult(v) == v \in Failures \/ HasItsType(v)

Holds(op, a, b) == Comparison(op, a, b) = MakeBoolean(TRUE)
NoCycle(a, b, c) == ~(Holds("<", a, b) /\ Holds("<", b, c) /\ Holds("<=", c, a))
============================================================================
