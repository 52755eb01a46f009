---------------------------- MODULE Values_proofs ----------------------------
(***************************************************************************)
(* Theorems about the operators of Values, for every width of int and      *)
(* every set of floats.                                                    *)
(***************************************************************************)
EXTENDS Values, WellFoundedInduction, TLAPS

(* No float lies beyond the infinities, which are floats.                  *)
LEMMA FloatRange ==
    /\ Top \in Int /\ Top > 0 /\ Unit \in Int /\ Unit > 0
    /\ Top \in Floats /\ -Top \in Floats
    /\ \A f \in Floats : f \in Int /\ -Top <= f /\ f <= Top
BY FloatsAssumption

(* A set of natural numbers has a least one. *)
LEMMA LeastNumber ==
    ASSUME NEW T \in SUBSET Nat, T # {}
    PROVE  \E x \in T : \A y \in T : x <= y
<1> DEFINE R == OpToRel(<, Nat)
<1>1. IsWellFoundedOn(R, Nat)
  BY NatLessThanWellFounded
<1>2. \A x, y \in Nat : x < y => <<x, y>> \in R
  BY DEF OpToRel
<1> HIDE DEF R
<1>3. PICK x \in T : \A y \in T : ~(<<y, x>> \in R)
  BY <1>1, WFMin
<1>4. \A y \in T : x \in Nat /\ y \in Nat /\ ~(y < x)
  BY <1>2, <1>3
<1>5. QED
  BY <1>4

(* Some float is as near to a fraction as any: distances are natural       *)
(* numbers.                                                                *)
LEMMA NearestExists ==
    ASSUME NEW num \in Int, NEW den \in Int
    PROVE  \E f \in Floats : Nearest(f, num, den)
<1> DEFINE T == {Distance(f * den, num) : f \in Floats}
<1>1. \A f \in Floats : Distance(f * den, num) \in Nat
  <2> TAKE f \in Floats
  <2>1. f * den \in Int
    BY FloatRange
  <2>2. QED
    BY <2>1 DEF Distance
<1>2. T \in SUBSET Nat /\ T # {}
  BY <1>1, FloatRange
<1>3. PICK x \in T : \A y \in T : x <= y
  <2> HIDE DEF T
  <2>1. QED
    BY <1>2, LeastNumber
<1>4. QED
  BY <1>3 DEF Nearest

(* A fraction within the infinities is rounded to a float that is as near  *)
(* to it as any.                                                           *)
LEMMA RoundIsNearest ==
    ASSUME NEW x \in Int, -Top <= x, x <= Top
    PROVE  Round(x, 1) \in Floats /\ Nearest(Round(x, 1), x, 1)
<1>1. Round(x, 1) = CHOOSE g \in Floats : Nearest(g, x, 1)
  BY FloatRange DEF Round
<1>2. \E f \in Floats : Nearest(f, x, 1)
  BY NearestExists
<1>3. QED
  BY <1>1, <1>2

LEMMA FractionIsFloat ==
    ASSUME NEW num \in Int, NEW den \in Int
    PROVE  Round(num, den) \in Floats
<1>1. (CHOOSE f \in Floats : Nearest(f, num, den)) \in Floats
  BY NearestExists
<1>2. QED
  BY <1>1, FloatRange DEF Round

LEMMA RoundIsFloat ==
    ASSUME NEW x \in Int
    PROVE  Round(x, 1) \in Floats
BY FractionIsFloat

(* Four integers alone: f nearer to x, and g nearer to the larger y.      *)
LEMMA NearerOrdered ==
    ASSUME NEW f \in Int, NEW g \in Int, NEW x \in Int, NEW y \in Int, x < y,
           Distance(f, x) <= Distance(g, x), Distance(g, y) <= Distance(f, y)
    PROVE  f <= g
BY DEF Distance

(* Rounding never puts two numbers in the opposite order: were the smaller *)
(* rounded to the larger float, each would be nearer to the other's float. *)
LEMMA RoundIsMonotone ==
    ASSUME NEW x \in Int, NEW y \in Int, x <= y
    PROVE  Round(x, 1) <= Round(y, 1)
<1> DEFINE f == Round(x, 1)
           g == Round(y, 1)
<1>1. f \in Floats /\ g \in Floats
  BY RoundIsFloat
<1>2. /\ f \in Int /\ g \in Int /\ Top \in Int
      /\ -Top <= f /\ f <= Top /\ -Top <= g /\ g <= Top
  BY <1>1, FloatRange
<1>3. CASE x = y
  BY <1>2, <1>3
<1>4. CASE x < -Top
  <2>1. f = -Top
    BY <1>4, FloatRange DEF Round
  <2>2. QED
    BY <2>1, <1>2
<1>5. CASE y > Top
  <2>1. g = Top
    BY <1>5, FloatRange DEF Round
  <2>2. QED
    BY <2>1, <1>2
<1>6. CASE -Top <= x /\ x < y /\ y <= Top
  <2>1. -Top <= y /\ x <= Top
    BY <1>6, <1>2
  <2>2. Nearest(f, x, 1) /\ Nearest(g, y, 1)
    BY <1>6, <2>1, RoundIsNearest
  <2>3. /\ Distance(f * 1, x) <= Distance(g * 1, x)
        /\ Distance(g * 1, y) <= Distance(f * 1, y)
    BY <2>2, <1>1 DEF Nearest
  <2>4. f * 1 = f /\ g * 1 = g
    BY <1>2
  <2>5. Distance(f, x) <= Distance(g, x) /\ Distance(g, y) <= Distance(f, y)
    BY <2>3, <2>4
  <2>6. QED
    BY <2>5, <1>2, <1>6, NearerOrdered
<1>7. QED
  BY <1>2, <1>3, <1>4, <1>5, <1>6

----------------------------------------------------------------------------
(* What < and <= compare: the Integers themselves, else floats.            *)
LEMMA NumberRange ==
    ASSUME NEW v, HasItsType(v), IsNumber(v)
    PROVE  /\ AsFloat(v) \in Floats \cup {NaN} /\ AsFloat(v) \in Int
           /\ IsInteger(v) => v.n \in Int /\ AsFloat(v) # NaN
<1>1. MinInt \in Int /\ MaxInt \in Int /\ NaN \in Int /\ NaN \notin Floats
  BY FloatsAssumption, FloatRange DEF MinInt, NaN
<1>2. CASE IsInteger(v)
  <2>1. v.n \in Int
    BY <1>1, <1>2 DEF HasItsType
  <2>2. v.n * Unit \in Int
    BY <2>1, FloatRange
  <2>3. AsFloat(v) \in Floats
    BY <1>2, <2>2, RoundIsFloat DEF AsFloat
  <2>4. QED
    BY <2>1, <2>3, <1>1, FloatRange
<1>3. CASE v.type = "Float"
  <2>1. ~IsInteger(v)
    BY <1>3 DEF IsInteger
  <2>2. AsFloat(v) = v.n
    BY <2>1 DEF AsFloat
  <2>3. QED
    BY <1>1, <1>3, <2>1, <2>2, FloatRange DEF HasItsType
<1>4. QED
  BY <1>2, <1>3 DEF IsNumber, IsInteger

(* A comparison of two Integers implies the one of the floats they would   *)
(* be converted to.                                                        *)
LEMMA ConversionKeepsOrder ==
    ASSUME NEW a, NEW b, HasItsType(a), HasItsType(b), IsInteger(a), IsInteger(b), a.n <= b.n
    PROVE  AsFloat(a) <= AsFloat(b)
<1>1. a.n \in Int /\ b.n \in Int
  BY FloatsAssumption DEF HasItsType, MinInt
<1>2. a.n * Unit \in Int /\ b.n * Unit \in Int /\ a.n * Unit <= b.n * Unit
  <2>1. \A k \in Nat, m, n \in Int : m <= n => m * k <= n * k
    OBVIOUS
  <2>2. QED
    BY <1>1, <2>1, FloatsAssumption
<1>3. QED
  BY <1>2, RoundIsMonotone DEF AsFloat

LEMMA HoldsMeans ==
    ASSUME NEW a, NEW b, HasItsType(a), HasItsType(b)
    PROVE  /\ Holds("<", a, b) => IsNumber(a) /\ IsNumber(b) /\ Less(a, b)
           /\ Holds("<=", a, b) => IsNumber(a) /\ IsNumber(b) /\ (Less(a, b) \/ Equal(a, b))
<1>1. MakeBoolean(TRUE) # Undefined /\ MakeBoolean(TRUE) # MakeBoolean(FALSE)
  BY DEF MakeBoolean, Undefined, Make
<1>2. ASSUME Holds("<", a, b) PROVE IsNumber(a) /\ IsNumber(b) /\ Less(a, b)
  <2>1. Accepts(a.type, "<", b.type)
    BY <1>1, <1>2 DEF Holds, Comparison
  <2>2. Comparison("<", a, b) = MakeBoolean(Less(a, b))
    BY <2>1 DEF Comparison
  <2>3. Less(a, b)
    BY <1>1, <1>2, <2>2 DEF Holds, MakeBoolean, Make
  <2>4. QED
    BY <2>1, <2>3 DEF Accepts, BooleanAccepts, IntegerAccepts, FloatAccepts, StringAccepts,
           NullAccepts, FunctionAccepts, TypeInfoAccepts, ClassAccepts, InstanceAccepts,
           Equality, IsNumber
<1>3. ASSUME Holds("<=", a, b) PROVE IsNumber(a) /\ IsNumber(b) /\ (Less(a, b) \/ Equal(a, b))
  <2>1. Accepts(a.type, "<=", b.type)
    BY <1>1, <1>3 DEF Holds, Comparison
  <2>2. Comparison("<=", a, b) = MakeBoolean(Less(a, b) \/ Equal(a, b))
    BY <2>1 DEF Comparison
  <2>3. Less(a, b) \/ Equal(a, b)
    BY <1>1, <1>3, <2>2 DEF Holds, MakeBoolean, Make
  <2>4. QED
    BY <2>1, <2>3 DEF Accepts, BooleanAccepts, IntegerAccepts, FloatAccepts, StringAccepts,
           NullAccepts, FunctionAccepts, TypeInfoAccepts, ClassAccepts, InstanceAccepts,
           Equality, IsNumber
<1>4. QED
  BY <1>2, <1>3

(* What Less and Equal say of the two numbers as floats.                   *)
LEMMA LessAsFloats ==
    ASSUME NEW a, NEW b, HasItsType(a), HasItsType(b), IsNumber(a), IsNumber(b)
    PROVE  /\ Less(a, b) => AsFloat(a) <= AsFloat(b)
           /\ Less(a, b) /\ ~(IsInteger(a) /\ IsInteger(b)) => AsFloat(a) < AsFloat(b)
           /\ Equal(a, b) => AsFloat(a) <= AsFloat(b)
<1>1. /\ AsFloat(a) \in Int /\ AsFloat(b) \in Int
      /\ IsInteger(a) => a.n \in Int
      /\ IsInteger(b) => b.n \in Int
  BY NumberRange
<1>2. CASE IsInteger(a) /\ IsInteger(b)
  <2>1. (Less(a, b) \/ Equal(a, b)) => a.n <= b.n
    BY <1>1, <1>2 DEF Less, Equal
  <2>2. QED
    BY <1>2, <2>1, ConversionKeepsOrder
<1>3. CASE ~(IsInteger(a) /\ IsInteger(b))
  <2>1. Less(a, b) => AsFloat(a) < AsFloat(b)
    BY <1>3 DEF Less
  <2>2. Equal(a, b) => AsFloat(a) = AsFloat(b)
    BY <1>3 DEF Equal
  <2>3. QED
    BY <1>1, <2>1, <2>2
<1>4. QED
  BY <1>2, <1>3

(* No three values are in a cycle of < and <=: Integers are compared       *)
(* exactly and with Floats only after rounding, but rounding keeps their   *)
(* order, so a cycle would be one of the floats or one of the Integers.    *)
(* This is what OrderHasNoCycle of Evaluation says of the results of       *)
(* expressions.                                                            *)
THEOREM MixedOrderHasNoCycle ==
    ASSUME NEW a, NEW b, NEW c, HasItsType(a), HasItsType(b), HasItsType(c)
    PROVE  NoCycle(a, b, c)
<1> SUFFICES ASSUME Holds("<", a, b), Holds("<", b, c), Holds("<=", c, a)
             PROVE  FALSE
  BY DEF NoCycle
<1>1. /\ IsNumber(a) /\ IsNumber(b) /\ IsNumber(c)
      /\ Less(a, b) /\ Less(b, c) /\ (Less(c, a) \/ Equal(c, a))
  BY HoldsMeans
<1>2. /\ AsFloat(a) \in Int /\ AsFloat(b) \in Int /\ AsFloat(c) \in Int
      /\ AsFloat(a) <= AsFloat(b) /\ AsFloat(b) <= AsFloat(c) /\ AsFloat(c) <= AsFloat(a)
  BY <1>1, NumberRange, LessAsFloats
<1>3. IsInteger(a) /\ IsInteger(b) /\ IsInteger(c)
  BY <1>1, <1>2, LessAsFloats
<1>4. a.n \in Int /\ b.n \in Int /\ c.n \in Int
  BY <1>1, <1>3, NumberRange
<1>5. a.n < b.n /\ b.n < c.n /\ c.n <= a.n
  BY <1>1, <1>3, <1>4 DEF Less, Equal
<1>6. QED
  BY <1>4, <1>5

----------------------------------------------------------------------------
(* Wrapping gives an int, and changes none.                                *)
LEMMA WrapIsInt ==
    ASSUME NEW i \in Int
    PROVE  Wrap(i) \in MinInt .. MaxInt
<1>1. MaxInt \in Nat
  BY FloatsAssumption
<1> DEFINE m == 2 * (MaxInt + 1)
           d == i - MinInt
<1>2. m \in Nat \ {0} /\ d \in Int
  BY <1>1 DEF MinInt
<1>3. d % m \in 0 .. m - 1
  <2> HIDE DEF d, m
  <2>1. QED
    BY <1>2
<1>4. QED
  BY <1>1, <1>3 DEF Wrap, MinInt

LEMMA IntRange ==
    /\ MaxInt \in Nat /\ MinInt \in Int /\ MinInt = -MaxInt - 1
    /\ MinInt .. MaxInt \subseteq Int
BY FloatsAssumption DEF MinInt

(* Division of natural numbers makes none larger, and by 2 or more smaller. *)
LEMMA QuotientBounds ==
    ASSUME NEW m \in Nat, NEW k \in Nat \ {0}
    PROVE  /\ m \div k \in Nat /\ m \div k <= m
           /\ k # 1 /\ m # 0 => m \div k < m
<1> DEFINE q == m \div k
           r == m % k
<1>1. q \in Nat /\ r \in Nat /\ m = k * q + r
  OBVIOUS
<1> HIDE DEF q, r
<1>2. q <= k * q
  BY <1>1
<1>3. k # 1 /\ q # 0 => q < k * q
  <2>1. ASSUME k # 1, q # 0 PROVE q < k * q
    <3>1. k - 2 \in Nat /\ (k - 2) * q \in Nat /\ k * q = (k - 2) * q + q + q
      BY <1>1, <2>1
    <3>2. QED
      BY <1>1, <2>1, <3>1
  <2>2. QED
    BY <2>1
<1>4. k * q \in Nat
  BY <1>1
<1>5. q <= m /\ (k # 1 /\ m # 0 => q < m)
  BY <1>1, <1>2, <1>3, <1>4
<1>6. QED
  BY <1>1, <1>5 DEF q

(* Division fits an int but for the one quotient that stops the process.   *)
LEMMA QuotientIsInt ==
    ASSUME NEW a \in MinInt .. MaxInt, NEW b \in MinInt .. MaxInt,
           b # 0, ~(a = MinInt /\ b = -1)
    PROVE  Quotient(a, b) \in MinInt .. MaxInt
<1> DEFINE m == Distance(a, 0)
           k == Distance(b, 0)
           q == m \div k
<1>1. /\ a \in Int /\ b \in Int
      /\ m \in Nat /\ k \in Nat \ {0} /\ m <= MaxInt + 1
      /\ m = MaxInt + 1 => a = MinInt
      /\ k = 1 => b = 1 \/ b = -1
  BY IntRange DEF Distance
<1>2. Quotient(a, b) = IF (a < 0) = (b < 0) THEN q ELSE -q
  BY DEF Quotient
<1> HIDE DEF m, k
<1>3. q \in Nat /\ q <= m /\ (k # 1 /\ m # 0 => q < m)
  BY <1>1, QuotientBounds
<1> HIDE DEF q
<1>4. CASE q <= MaxInt
  BY <1>2, <1>3, <1>4, IntRange
<1>5. CASE q > MaxInt
  <2>1. m = MaxInt + 1 /\ q = m /\ k = 1
    BY <1>1, <1>3, <1>5, IntRange
  <2>2. a = MinInt /\ b = 1
    BY <1>1, <2>1
  <2>3. (a < 0) # (b < 0)
    BY <2>2, IntRange
  <2>4. Quotient(a, b) = -q
    BY <1>2, <2>3
  <2>5. QED
    BY <2>1, <2>4, IntRange
<1>6. QED
  BY <1>3, <1>4, <1>5, IntRange


LEMMA MadeValues ==
    /\ \A i \in MinInt .. MaxInt : HasItsType(MakeInteger(i))
    /\ \A f \in Floats \cup {NaN} : HasItsType(MakeFloat(f))
    /\ \A s : HasItsType(MakeString(s))
    /\ \A x : HasItsType(MakeBoolean(x))
<1>1. \A i \in MinInt .. MaxInt : HasItsType(MakeInteger(i))
  BY DEF HasItsType, MakeInteger, Make, Types, IsInteger
<1>2. \A f \in Floats \cup {NaN} : HasItsType(MakeFloat(f))
  BY DEF HasItsType, MakeFloat, Make, Types, IsInteger
<1>3. \A s : HasItsType(MakeString(s))
  BY DEF HasItsType, MakeString, Types, IsInteger
<1>4. \A x : HasItsType(MakeBoolean(x))
  BY DEF HasItsType, MakeBoolean, Make, Types, IsInteger
<1>5. QED
  BY <1>1, <1>2, <1>3, <1>4

LEMMA IntegerOpIsResult ==
    ASSUME NEW op \in ArithmeticOps, NEW a \in MinInt .. MaxInt, NEW b \in MinInt .. MaxInt
    PROVE  IsResult(IntegerOp(op, a, b))
<1>1. a \in Int /\ b \in Int /\ a + b \in Int /\ a - b \in Int /\ a * b \in Int
  BY IntRange
<1>2. CASE op = "+"
  <2>1. IntegerOp(op, a, b) = MakeInteger(Wrap(a + b))
    BY <1>2 DEF IntegerOp
  <2>2. QED
    BY <1>1, <2>1, WrapIsInt, MadeValues DEF IsResult
<1>3. CASE op = "-"
  <2>1. IntegerOp(op, a, b) = MakeInteger(Wrap(a - b))
    BY <1>3 DEF IntegerOp
  <2>2. QED
    BY <1>1, <2>1, WrapIsInt, MadeValues DEF IsResult
<1>4. CASE op = "*"
  <2>1. IntegerOp(op, a, b) = MakeInteger(Wrap(a * b))
    BY <1>4 DEF IntegerOp
  <2>2. QED
    BY <1>1, <2>1, WrapIsInt, MadeValues DEF IsResult
<1>5. CASE op = "/" /\ (b = 0 \/ (a = MinInt /\ b = -1))
  <2>1. IntegerOp(op, a, b) = Crash
    BY <1>5 DEF IntegerOp
  <2>2. QED
    BY <2>1 DEF IsResult, Failures
<1>6. CASE op = "/" /\ ~(b = 0 \/ (a = MinInt /\ b = -1))
  <2>1. IntegerOp(op, a, b) = MakeInteger(Quotient(a, b))
    BY <1>6 DEF IntegerOp
  <2>2. Quotient(a, b) \in MinInt .. MaxInt
    BY <1>6, QuotientIsInt
  <2>3. QED
    BY <2>1, <2>2, MadeValues DEF IsResult
<1>7. QED
  BY <1>2, <1>3, <1>4, <1>5, <1>6 DEF ArithmeticOps

Number == Floats \cup {NaN}

LEMMA NumberFacts ==
    /\ Number \subseteq Int /\ NaN \notin Floats /\ NaN \in Number
    /\ \A f \in Floats : -f \in Floats /\ f \in Number
    /\ 0 \in Number /\ Top \in Number /\ -Top \in Number
<1>1. NaN \in Int /\ NaN \notin Floats
  BY FloatRange DEF NaN
<1>2. QED
  BY <1>1, FloatsAssumption, FloatRange DEF Number

LEMMA PlusIsFloat ==
    ASSUME NEW a \in Number, NEW b \in Number
    PROVE  Plus(a, b) \in Number
<1>1. Round(a + b, 1) \in Number
  BY RoundIsFloat, NumberFacts DEF Number
<1>2. Plus(a, b) \in {NaN, a, b, Round(a + b, 1)}
  BY DEF Plus
<1>3. QED
  BY <1>1, <1>2, NumberFacts

LEMMA MinusIsFloat ==
    ASSUME NEW f \in Number
    PROVE  Minus(f) \in Number
BY NumberFacts DEF Minus, Number

LEMMA TimesIsFloat ==
    ASSUME NEW a \in Number, NEW b \in Number
    PROVE  Times(a, b) \in Number
<1>1. Round(a * b, Unit) \in Number
  <2>1. a * b \in Int
    BY NumberFacts
  <2>2. QED
    BY <2>1, FractionIsFloat, FloatRange DEF Number
<1>2. Signed(a, b, Top) \in {Top, -Top}
  BY DEF Signed
<1>3. Times(a, b) \in {NaN, Signed(a, b, Top), Round(a * b, Unit)}
  BY DEF Times
<1>4. QED
  BY <1>1, <1>2, <1>3, NumberFacts

LEMMA OverIsFloat ==
    ASSUME NEW a \in Number, NEW b \in Number
    PROVE  Over(a, b) \in Number
<1> DEFINE r == Round(Signed(1, b, a) * Unit, Distance(b, 0))
<1>1. r \in Number
  <2>1. a \in Int /\ b \in Int
    BY NumberFacts
  <2>2. Signed(1, b, a) \in Int /\ Distance(b, 0) \in Int
    BY <2>1 DEF Signed, Distance
  <2>3. Signed(1, b, a) * Unit \in Int
    BY <2>2, FloatRange
  <2>4. QED
    BY <2>2, <2>3, FractionIsFloat DEF Number
<1>2. Signed(a, b, Top) \in {Top, -Top}
  BY DEF Signed
<1> HIDE DEF r
<1>3. Over(a, b) \in {NaN, Signed(a, b, Top), 0, r}
  BY DEF Over, r
<1>4. QED
  BY <1>1, <1>2, <1>3, NumberFacts

LEMMA FloatOpIsResult ==
    ASSUME NEW op \in ArithmeticOps, NEW a \in Number, NEW b \in Number
    PROVE  HasItsType(FloatOp(op, a, b))
<1>1. /\ Plus(a, b) \in Number /\ Plus(a, Minus(b)) \in Number
      /\ Times(a, b) \in Number /\ Over(a, b) \in Number
  BY PlusIsFloat, MinusIsFloat, TimesIsFloat, OverIsFloat
<1>2. \E f \in {Plus(a, b), Plus(a, Minus(b)), Times(a, b), Over(a, b)} :
         FloatOp(op, a, b) = MakeFloat(f)
  BY DEF FloatOp, ArithmeticOps
<1>3. QED
  BY <1>1, <1>2, MadeValues DEF Number

(* Whatever the operands, an arithmetic operator yields a value of its     *)
(* type or fails: int arithmetic wraps into an int, and float arithmetic   *)
(* rounds to a float.                                                      *)
LEMMA ArithmeticIsResult ==
    ASSUME NEW op \in ArithmeticOps, NEW a, NEW b, HasItsType(a), HasItsType(b)
    PROVE  IsResult(Arithmetic(op, a, b))
<1>1. /\ a.type = "String" /\ op = "+" => Accepts(a.type, op, b.type)
      /\ a.type = "String" /\ op = "*" /\ IsInteger(b) => Accepts(a.type, op, b.type)
      /\ IsNumber(a) /\ IsNumber(b) => Accepts(a.type, op, b.type)
  BY DEF Accepts, IntegerAccepts, FloatAccepts, StringAccepts, Equality, IsInteger,
         IsNumber, HasItsType
<1>2. CASE ~Accepts(a.type, op, b.type)
  <2>1. /\ ~(a.type = "String" /\ op = "+")
        /\ ~(a.type = "String" /\ op = "*" /\ IsInteger(b))
        /\ ~(IsInteger(a) /\ IsInteger(b))
        /\ ~(IsNumber(a) /\ IsNumber(b))
    BY <1>1, <1>2 DEF IsInteger, IsNumber
  <2>2. Arithmetic(op, a, b) = Undefined
    BY <1>2, <2>1 DEF Arithmetic
  <2>3. QED
    BY <2>2 DEF IsResult, Failures
<1>3. CASE Accepts(a.type, op, b.type) /\ a.type = "String"
  <2>1. op \in {"+", "*"} /\ (op = "*" => IsInteger(b))
    BY <1>3 DEF Accepts, StringAccepts, Equality, IsInteger, ArithmeticOps
  <2>2. CASE op = "+"
    <3>1. Arithmetic(op, a, b) = MakeString(a.s \o Text(b))
      BY <1>3, <2>2 DEF Arithmetic, IsInteger, IsNumber
    <3>2. QED
      BY <3>1, MadeValues DEF IsResult
  <2>3. CASE op = "*"
    <3>1. Arithmetic(op, a, b) = Repeat(a.s, b.n)
      BY <1>3, <2>1, <2>3 DEF Arithmetic, IsInteger, IsNumber
    <3>2. CASE b.n < 0 /\ a.s # <<>>
      BY <3>1, <3>2 DEF Repeat, IsResult, Failures
    <3>3. CASE ~(b.n < 0 /\ a.s # <<>>)
      <4>1. \E s : Arithmetic(op, a, b) = MakeString(s)
        BY <3>1, <3>3 DEF Repeat
      <4>2. QED
        BY <4>1, MadeValues DEF IsResult
    <3>4. QED
      BY <3>2, <3>3
  <2>4. QED
    BY <2>1, <2>2, <2>3
<1>4. CASE Accepts(a.type, op, b.type) /\ a.type # "String"
  <2>1. IsNumber(a) /\ IsNumber(b)
    BY <1>4 DEF Accepts, BooleanAccepts, IntegerAccepts, FloatAccepts,
           NullAccepts, FunctionAccepts, TypeInfoAccepts, ClassAccepts, InstanceAccepts,
           Equality, IsNumber, ArithmeticOps
  <2>2. CASE IsInteger(a) /\ IsInteger(b)
    <3>1. Arithmetic(op, a, b) = IntegerOp(op, a.n, b.n)
      BY <1>4, <2>2 DEF Arithmetic
    <3>2. QED
      BY <2>2, <3>1, IntegerOpIsResult DEF HasItsType
  <2>3. CASE ~(IsInteger(a) /\ IsInteger(b))
    <3>1. Arithmetic(op, a, b) = FloatOp(op, AsFloat(a), AsFloat(b))
      BY <1>4, <2>1, <2>3 DEF Arithmetic
    <3>2. AsFloat(a) \in Number /\ AsFloat(b) \in Number
      BY <2>1, NumberRange DEF Number
    <3>3. QED
      BY <3>1, <3>2, FloatOpIsResult DEF IsResult
  <2>4. QED
    BY <2>2, <2>3
<1>5. QED
  BY <1>2, <1>3, <1>4

LEMMA SignIsResult ==
    ASSUME NEW v, HasItsType(v)
    PROVE  /\ IsResult(IsTrue(v)) /\ IsResult(Negate(v))
           /\ IsResult(Negative(v))
<1>1. IsTrue(v) = Undefined \/ \E x : IsTrue(v) = MakeBoolean(x)
  BY DEF IsTrue, NoTruth
<1>2. Negate(v) = Undefined \/ \E x : Negate(v) = MakeBoolean(x)
  BY DEF Negate, NoTruth
<1>3. CASE IsInteger(v)
  <2>1. v.n \in Int /\ -v.n \in Int
    BY <1>3, IntRange DEF HasItsType
  <2>2. Negative(v) = MakeInteger(Wrap(-v.n))
    BY <1>3 DEF Negative, IsInteger
  <2>3. HasItsType(Negative(v))
    BY <2>1, <2>2, WrapIsInt, MadeValues
  <2>4. QED
    BY <1>1, <1>2, <2>3, MadeValues DEF IsResult, Failures
<1>4. CASE v.type = "Float"
  <2>1. Negative(v) = MakeFloat(Minus(v.n))
    BY <1>4 DEF Negative, IsInteger
  <2>2. HasItsType(Negative(v))
    BY <1>4, <2>1, MinusIsFloat, MadeValues DEF HasItsType, Number
  <2>3. QED
    BY <1>1, <1>2, <2>2, MadeValues DEF IsResult, Failures
<1>5. CASE ~IsInteger(v) /\ v.type # "Float"
  <2>1. Negative(v) = Undefined
    BY <1>5 DEF Negative
  <2>2. QED
    BY <1>1, <1>2, <2>1, MadeValues DEF IsResult, Failures
<1>6. QED
  BY <1>3, <1>4, <1>5

(* Every operator yields a value of its type, or none at all: the result   *)
(* of Integers is an int (the one quotient that is none stops the          *)
(* process), and that of a Float a float, however the operands are mixed   *)
(* and converted.  ResultsHaveTheirType of Evaluation says so of whole     *)
(* expressions.                                                            *)
THEOREM OperatorsYieldTheirTypes ==
    ASSUME NEW a, NEW b, HasItsType(a), HasItsType(b)
    PROVE  /\ \A op \in ArithmeticOps : IsResult(Arithmetic(op, a, b))
           /\ \A op \in ComparisonOps : IsResult(Comparison(op, a, b))
           /\ IsResult(IsTrue(a)) /\ IsResult(Negate(a)) /\ IsResult(Negative(a))
<1>1. ASSUME NEW op \in ComparisonOps PROVE IsResult(Comparison(op, a, b))
  <2>1. Comparison(op, a, b) = Undefined \/ \E x : Comparison(op, a, b) = MakeBoolean(x)
    BY DEF Comparison
  <2>2. QED
    BY <2>1, MadeValues DEF IsResult, Failures
<1>2. QED
  BY <1>1, ArithmeticIsResult, SignIsResult
=============================================================================
