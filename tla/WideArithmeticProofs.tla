------------------------- MODULE WideArithmeticProofs -----------------------
(***************************************************************************)
(* Proofs about WideArithmetic, for integers of any width, bodies of any   *)
(* length and any literals.                                                *)
(***************************************************************************)
EXTENDS WideArithmetic, SequenceTheorems, TLAPS

\* Widths.

\* 2^127.
Wide == Half * N

\* The widths are doubles of each other.
LEMMA Widths ==
  /\ Half \in Nat \ {0}
  /\ N \in Nat /\ N = 2 * Half
  /\ Wide \in Nat /\ Wide >= N
  /\ W \in Nat /\ W = 2 * Wide
<1>1. Half \in Nat \ {0}
  BY WidthAssumption
<1>2. N \in Nat /\ N = 2 * Half /\ N >= 2
  BY <1>1 DEF N
<1>3. Wide \in Nat /\ Wide >= N
  BY <1>1, <1>2 DEF Wide
<1>4. W = 2 * Wide
  BY <1>1, <1>2 DEF W, Wide, N
<1> QED
  BY <1>1, <1>2, <1>3, <1>4

\* The ranges of the types, without products.
LEMMA Ranges ==
  /\ RangeOf("u64") = 0 .. N - 1
  /\ RangeOf("i64") = -Half .. Half - 1
  /\ RangeOf("u128") = 0 .. W - 1
  /\ RangeOf("i128") = -Wide .. Wide - 1
  /\ RangeOf("bool") = 0 .. 1
  /\ RangeOf("unit") = {}
BY DEF RangeOf, Wide

TypeNames == {"u64", "i64", "u128", "i128", "bool", "unit"}

\* Every value of every type is an integer of at most 128 bits; those of the
\* narrow types fit 64.
LEMMA RangeBounds ==
  ASSUME NEW ty \in TypeNames
  PROVE  /\ RangeOf(ty) \subseteq -Wide .. W - 1
         /\ RangeOf(ty) \subseteq Int
         /\ ty \in {"u64", "i64", "bool"} => RangeOf(ty) \subseteq Within64
<1> USE Widths, Ranges DEF TypeNames, Within64
<1>1. CASE ty = "u64"
  BY <1>1
<1>2. CASE ty = "i64"
  BY <1>2
<1>3. CASE ty = "u128"
  BY <1>3
<1>4. CASE ty = "i128"
  BY <1>4
<1>5. CASE ty = "bool"
  BY <1>5
<1>6. CASE ty = "unit"
  BY <1>6
<1> QED
  BY <1>1, <1>2, <1>3, <1>4, <1>5, <1>6

\* What is known of & and |.
LEMMA Bits ==
  ASSUME NEW a \in -Wide .. W - 1, NEW b \in -Wide .. W - 1
  PROVE  /\ BitAnd(a, b) \in Int /\ BitOr(a, b) \in Int
         /\ a >= 0 => BitAnd(a, b) \in 0 .. a
         /\ b >= 0 => BitAnd(a, b) \in 0 .. b
         /\ \A ty \in {"u64", "i64", "u128", "i128"} :
              {a, b} \subseteq RangeOf(ty) =>
                {BitAnd(a, b), BitOr(a, b)} \subseteq RangeOf(ty)
         /\ {a, b} \subseteq Within64 => {BitAnd(a, b), BitOr(a, b)} \subseteq Within64
BY WidthAssumption DEF Wide

\* A cast to one of the types that casts are made to yields a value of it, and
\* leaves what fits the type alone.
LEMMA Wraps ==
  ASSUME NEW v \in Int, NEW ty \in {"u64", "u128", "i128"}
  PROVE  /\ Wrap(v, ty) \in RangeOf(ty)
         /\ v \in RangeOf(ty) /\ ty # "u64" => Wrap(v, ty) = v
<1>1. CASE ty = "u64"
  <2>1. N > 0 /\ N \in Int
    BY Widths
  <2>2. v % N \in 0 .. N - 1
    BY <2>1
  <2> QED
    BY <1>1, <2>2, Ranges DEF Wrap
<1>2. CASE ty = "u128"
  <2>1. W > 0 /\ W \in Int
    BY Widths
  <2>2. v % W \in 0 .. W - 1 /\ (v \in 0 .. W - 1 => v % W = v)
    BY <2>1
  <2> QED
    BY <1>2, <2>2, Ranges DEF Wrap
<1>3. CASE ty = "i128"
  <2>1. W > 0 /\ W \in Int /\ W \div 2 = Wide /\ Wide \in Nat /\ W = 2 * Wide
    BY Widths
  <2>2. v % W \in 0 .. W - 1
    BY <2>1
  <2>3. v \in 0 .. Wide - 1 => v % W = v
    BY <2>1
  <2>4. v \in -Wide .. -1 => v % W = v + W
    BY <2>1
  <2>5. Wrap(v, ty) = IF v % W >= Wide THEN (v % W) - W ELSE v % W
    BY <1>3, <2>1 DEF Wrap
  <2> QED
    BY <1>3, <2>1, <2>2, <2>3, <2>4, <2>5, Ranges
<1> QED
  BY <1>1, <1>2, <1>3

-----------------------------------------------------------------------------
\* u128_where_u64_suffices: one expression.

Integers128 == {"u64", "i64", "u128", "i128"}

\* An expression takes values of its type only, and its verdict is right.
Sound(x) ==
  /\ x.ty \in TypeNames
  /\ x.holds \subseteq RangeOf(x.ty)
  /\ x.within \in BOOLEAN
  /\ x.within /\ x.leans = {} => x.holds \subseteq Within64

\* What rustc accepts with the operands a and b.
WellTyped(e, a, b) ==
  \/ e.kind = "Path"
  \/ e.kind = "Lit" /\ e.val \in Literals \cap RangeOf(e.ty)
  \/ e.kind = "Cast" /\ e.ty \in {"u64", "u128", "i128"}
  \/ e.kind = "MethodCall" /\ e.op \in {"len", "other"}
  \/ /\ e.kind = "MethodCall" /\ e.op \in {"min", "max"}
     /\ a.ty = e.ty /\ b.ty = e.ty
  \/ e.kind = "Binary" /\ e.op \in {"And", "Or"} /\ e.ty = "bool"
  \/ /\ e.kind = "Binary" /\ e.op \in Arithmetic \cup Bitwise64
     /\ e.ty \in Integers128 /\ a.ty = e.ty /\ b.ty = e.ty
  \/ e.kind = "AssignOp" /\ e.ty = "unit"

\* The results of the operators & and |.
LEMMA BitValues ==
  ASSUME NEW ty \in Integers128, NEW V \in SUBSET RangeOf(ty),
         NEW R \in SUBSET RangeOf(ty), NEW op \in Bitwise64
  PROVE  /\ BinaryValues(op, ty, V, R) \subseteq RangeOf(ty)
         /\ V \cup R \subseteq Within64 => BinaryValues(op, ty, V, R) \subseteq Within64
<1>1. \A v \in V, r \in R : v \in -Wide .. W - 1 /\ r \in -Wide .. W - 1
  BY RangeBounds DEF Integers128, TypeNames
<1>2. \A v \in V, r \in R :
        /\ {BitAnd(v, r), BitOr(v, r)} \subseteq RangeOf(ty)
        /\ V \cup R \subseteq Within64 => {BitAnd(v, r), BitOr(v, r)} \subseteq Within64
  BY <1>1, Bits DEF Integers128
<1>3. CASE op = "BitAnd"
  <2>1. BinaryValues(op, ty, V, R) = {BitAnd(v, r) : v \in V, r \in R}
    BY <1>3 DEF BinaryValues, Arithmetic
  <2> QED
    BY <1>2, <2>1
<1>4. CASE op = "BitOr"
  <2>1. BinaryValues(op, ty, V, R) = {BitOr(v, r) : v \in V, r \in R}
    BY <1>4 DEF BinaryValues, Arithmetic
  <2> QED
    BY <1>2, <2>1
<1> QED
  BY <1>3, <1>4 DEF Bitwise64

\* The results of the other operators.
LEMMA ArithmeticValues ==
  ASSUME NEW ty, NEW V, NEW R, NEW op \in Arithmetic
  PROVE  BinaryValues(op, ty, V, R) \subseteq RangeOf(ty)
<1>1. op \notin {"BitAnd", "BitOr", "And", "Or"}
  BY DEF Arithmetic
<1>2. CASE op = "Shl" \/ (op \in Arithmetic /\ ty \in {"i64", "i128"})
  <2>1. BinaryValues(op, ty, V, R) = RangeOf(ty)
    BY <1>1, <1>2 DEF BinaryValues
  <2> QED
    BY <2>1
<1>3. CASE ~ (op = "Shl" \/ (op \in Arithmetic /\ ty \in {"i64", "i128"}))
  <2>1. BinaryValues(op, ty, V, R) = RangeOf(ty) \cap Results(op, V, R)
    BY <1>1, <1>3 DEF BinaryValues
  <2> QED
    BY <2>1
<1> QED
  BY <1>2, <1>3

\* An expression takes values of its type only.
LEMMA ValuesHaveType ==
  ASSUME NEW e, NEW a, NEW b, e.ty \in TypeNames,
         Sound(a), Sound(b), WellTyped(e, a, b)
  PROVE  ValuesOf(e, a, b) \subseteq RangeOf(e.ty)
<1>1. CASE e.kind = "Path"
  BY <1>1 DEF ValuesOf
<1>2. CASE e.kind = "Lit"
  BY <1>2 DEF ValuesOf, WellTyped
<1>3. CASE e.kind = "Cast"
  <2>1. ValuesOf(e, a, b) = {Wrap(v, e.ty) : v \in a.holds}
    BY <1>3 DEF ValuesOf
  <2>2. a.holds \subseteq Int /\ e.ty \in {"u64", "u128", "i128"}
    BY <1>3, RangeBounds DEF Sound, WellTyped
  <2> QED
    BY <2>1, <2>2, Wraps
<1>4. CASE e.kind = "MethodCall" /\ e.op \notin {"min", "max"}
  BY <1>4 DEF ValuesOf
<1>5. CASE e.kind = "MethodCall" /\ e.op \in {"min", "max"}
  <2>1. a.holds \subseteq RangeOf(e.ty) /\ b.holds \subseteq RangeOf(e.ty)
    BY <1>5 DEF WellTyped, Sound
  <2>2. \/ ValuesOf(e, a, b) = {Smaller(v, r) : v \in a.holds, r \in b.holds}
        \/ ValuesOf(e, a, b) = {Larger(v, r) : v \in a.holds, r \in b.holds}
    BY <1>5 DEF ValuesOf
  <2> QED
    BY <2>1, <2>2 DEF Smaller, Larger
<1>6. CASE e.kind = "Binary" /\ e.op \in {"And", "Or"}
  <2>1. ValuesOf(e, a, b) = {0, 1} /\ e.ty = "bool"
    BY <1>6 DEF ValuesOf, BinaryValues, WellTyped, Arithmetic, Bitwise64
  <2> QED
    BY <2>1, Ranges
<1>7. CASE e.kind = "Binary" /\ e.op \in Arithmetic \cup Bitwise64
  <2>1. ValuesOf(e, a, b) = BinaryValues(e.op, e.ty, a.holds, b.holds)
    BY <1>7 DEF ValuesOf
  <2>2. e.ty \in Integers128 /\ a.ty = e.ty /\ b.ty = e.ty
    BY <1>7 DEF WellTyped, Arithmetic, Bitwise64
  <2>3. a.holds \in SUBSET RangeOf(e.ty) /\ b.holds \in SUBSET RangeOf(e.ty)
    BY <2>2 DEF Sound
  <2> QED
    BY <1>7, <2>1, <2>2, <2>3, BitValues, ArithmeticValues
<1>8. CASE e.kind = "AssignOp"
  BY <1>8 DEF ValuesOf
<1> QED
  BY <1>1, <1>2, <1>3, <1>4, <1>5, <1>6, <1>7, <1>8 DEF WellTyped

\* What an operand is known to hold when its verdict rests on no other rule.
LEMMA OperandFits ==
  ASSUME NEW x, Sound(x), NarrowInt(x.ty) \/ (x.within /\ x.leans = {})
  PROVE  x.holds \subseteq Within64
BY RangeBounds DEF Sound, NarrowInt

\* A cast that is accepted without a named rule yields a value that fits.
LEMMA CastFits ==
  ASSUME NEW e, NEW a, NEW b, Sound(a), WellTyped(e, a, b),
         e.kind = "Cast", ~ NarrowInt(e.ty),
         is_provably_within_64_bits(e, a, b), Leans(e, a, b) = {}
  PROVE  ValuesOf(e, a, b) \subseteq Within64
<1>1. e.ty \in {"u128", "i128"}
  BY DEF WellTyped, NarrowInt
<1>2. a.leans = {} /\ (e.ty = "u128" => ~ Negative(a))
  BY DEF Leans
<1>3. NarrowInt(a.ty) \/ a.within
  BY DEF is_provably_within_64_bits
<1>4. a.holds \subseteq Within64
  BY <1>2, <1>3, OperandFits
<1>5. \A v \in a.holds : v \in RangeOf(e.ty)
  BY <1>1, <1>2, <1>4, Ranges, Widths DEF Within64, Negative
<1>6. \A v \in a.holds : v \in Int /\ Wrap(v, e.ty) = v
  BY <1>1, <1>4, <1>5, Wraps, Widths DEF Within64
<1>7. ValuesOf(e, a, b) = {Wrap(v, e.ty) : v \in a.holds}
  BY DEF ValuesOf
<1> QED
  BY <1>4, <1>6, <1>7

\* So does a min or a max.
LEMMA MethodFits ==
  ASSUME NEW e, NEW a, NEW b, Sound(a), Sound(b), WellTyped(e, a, b),
         e.kind = "MethodCall", ~ NarrowInt(e.ty), Leans(e, a, b) = {}
  PROVE  ValuesOf(e, a, b) \subseteq Within64
<1>1. e.op \in {"min", "max"} /\ a.within /\ b.within /\ a.leans = {} /\ b.leans = {}
  BY DEF WellTyped, Leans, Bitwise64
<1>2. a.holds \subseteq Within64 /\ b.holds \subseteq Within64
  BY <1>1, OperandFits
<1>3. \/ ValuesOf(e, a, b) = {Smaller(v, r) : v \in a.holds, r \in b.holds}
      \/ ValuesOf(e, a, b) = {Larger(v, r) : v \in a.holds, r \in b.holds}
  BY <1>1 DEF ValuesOf
<1> QED
  BY <1>2, <1>3 DEF Smaller, Larger

\* So does a bitwise operation with one operand that fits.
LEMMA BitwiseFits ==
  ASSUME NEW e, NEW a, NEW b, Sound(a), Sound(b), WellTyped(e, a, b),
         e.kind = "Binary", e.op \in Bitwise64, ~ NarrowInt(e.ty),
         a.within \/ b.within, Leans(e, a, b) = {}
  PROVE  ValuesOf(e, a, b) \subseteq Within64
<1>1. /\ e.ty \in Integers128 /\ a.ty = e.ty /\ b.ty = e.ty
      /\ ValuesOf(e, a, b) = BinaryValues(e.op, e.ty, a.holds, b.holds)
  BY DEF WellTyped, ValuesOf, Arithmetic, Bitwise64
<1>2. a.holds \in SUBSET RangeOf(e.ty) /\ b.holds \in SUBSET RangeOf(e.ty)
  BY <1>1 DEF Sound
<1>3. CASE a.within /\ b.within
  <2>1. a.leans = {} /\ b.leans = {}
    BY <1>3 DEF Leans, Bitwise64
  <2>2. a.holds \cup b.holds \subseteq Within64
    BY <1>3, <2>1, OperandFits
  <2> QED
    BY <1>1, <1>2, <2>2, BitValues
<1>4. CASE ~ (a.within /\ b.within)
  <2> DEFINE w == IF a.within THEN a ELSE b
  <2>1. e.op = "BitAnd" /\ w.leans = {} /\ ~ Negative(w)
    BY <1>4 DEF Leans, Bitwise64
  <2>2. w.holds \subseteq Within64
    BY <2>1, OperandFits
  <2>3. \A v \in w.holds : v \in 0 .. N - 1
    BY <2>1, <2>2, Widths DEF Negative, Within64
  <2>4. \A v \in a.holds, r \in b.holds :
          v \in -Wide .. W - 1 /\ r \in -Wide .. W - 1
    BY <1>1, <1>2, RangeBounds DEF Integers128, TypeNames
  <2>5. \A v \in a.holds, r \in b.holds : BitAnd(v, r) \in 0 .. N - 1
    <3>1. CASE a.within
      BY <2>3, <2>4, <3>1, Bits, Widths
    <3>2. CASE ~ a.within
      BY <2>3, <2>4, <3>2, Bits, Widths
    <3> QED
      BY <3>1, <3>2
  <2>6. ValuesOf(e, a, b) = {BitAnd(v, r) : v \in a.holds, r \in b.holds}
    BY <1>1, <2>1 DEF BinaryValues, Arithmetic
  <2> QED
    BY <2>5, <2>6, Widths DEF Within64
<1> QED
  BY <1>3, <1>4

\* is_provably_within_64_bits is right of an expression when it is right of
\* its operands.
LEMMA VerdictIsRight ==
  ASSUME NEW e, NEW a, NEW b, e.ty \in TypeNames,
         Sound(a), Sound(b), WellTyped(e, a, b),
         is_provably_within_64_bits(e, a, b), Leans(e, a, b) = {}
  PROVE  ValuesOf(e, a, b) \subseteq Within64
<1>1. CASE NarrowInt(e.ty)
  <2>1. RangeOf(e.ty) \subseteq Within64
    BY <1>1, RangeBounds DEF NarrowInt
  <2> QED
    BY <2>1, ValuesHaveType
<1>2. CASE e.kind = "Lit" /\ ~ NarrowInt(e.ty)
  <2>1. ValuesOf(e, a, b) = {e.val}
    BY <1>2 DEF ValuesOf
  <2>2. e.val \in Nat /\ e.val <= N - 1
    BY <1>2, WidthAssumption DEF WellTyped, is_provably_within_64_bits
  <2> QED
    BY <2>1, <2>2, Widths DEF Within64
<1>3. CASE e.kind = "Cast" /\ ~ NarrowInt(e.ty)
  BY <1>3, CastFits
<1>4. CASE e.kind = "MethodCall" /\ ~ NarrowInt(e.ty)
  BY <1>4, MethodFits
<1>5. CASE e.kind = "Binary" /\ e.op \in Bitwise64 /\ ~ NarrowInt(e.ty)
  <2>1. a.within \/ b.within
    BY <1>5 DEF is_provably_within_64_bits
  <2> QED
    BY <1>5, <2>1, BitwiseFits
<1>6. CASE e.kind = "Binary" /\ e.op \in {"And", "Or"}
  <2>1. e.ty = "bool"
    BY <1>6 DEF WellTyped, Arithmetic, Bitwise64
  <2> QED
    BY <2>1, ValuesHaveType, RangeBounds
<1> QED
  BY <1>1, <1>2, <1>3, <1>4, <1>5, <1>6 DEF is_provably_within_64_bits

-----------------------------------------------------------------------------
\* u128_where_u64_suffices: what is reported.

\* Division and remainder of natural numbers stay below what is divided.
LEMMA Quotients ==
  ASSUME NEW v \in Nat, NEW r \in Nat \ {0}
  PROVE  v \div r \in 0 .. v /\ v % r \in 0 .. v
<1>1. v = r * (v \div r) + (v % r) /\ v \div r \in Int /\ v % r \in 0 .. r - 1
  OBVIOUS
<1>2. v \div r >= 0
  OBVIOUS
<1>3. r * (v \div r) >= v \div r
  <2> DEFINE q == v \div r
  <2>1. q \in Nat
    BY <1>1, <1>2
  <2> HIDE DEF q
  <2>2. r * q >= q
    BY <2>1
  <2> QED
    BY <2>2 DEF q
<1> DEFINE p == r * (v \div r)
<1>4. p \in Int /\ v = p + (v % r) /\ p >= v \div r
  BY <1>1, <1>3
<1> HIDE DEF p
<1> QED
  BY <1>1, <1>2, <1>4

\* What the reported operations make of operands that fit a u64 and of a
\* result that is not below zero.
LEMMA ReportedResults ==
  ASSUME NEW V \in SUBSET (0 .. N - 1), NEW R \in SUBSET (0 .. N - 1),
         NEW op \in {"Sub", "Div", "Rem", "Shr"}
  PROVE  RangeOf("u128") \cap Results(op, V, R) \subseteq 0 .. N - 1
<1> USE Widths, Ranges
<1>1. CASE op = "Sub"
  <2>1. Results(op, V, R) = {v - r : v \in V, r \in R}
    BY <1>1 DEF Results
  <2>2. \A v \in V, r \in R : v - r <= N - 1
    OBVIOUS
  <2> QED
    BY <2>1, <2>2
<1>2. CASE op = "Div"
  <2>1. Results(op, V, R) = {v \div r : v \in V, r \in R \ {0}}
    BY <1>2 DEF Results
  <2>2. \A v \in V, r \in R \ {0} : v \div r \in 0 .. v
    BY Quotients
  <2> QED
    BY <2>1, <2>2
<1>3. CASE op = "Rem"
  <2>1. Results(op, V, R) = {v % r : v \in V, r \in R \ {0}}
    BY <1>3 DEF Results
  <2>2. \A v \in V, r \in R \ {0} : v % r \in 0 .. v
    BY Quotients
  <2> QED
    BY <2>1, <2>2
<1>4. CASE op = "Shr"
  <2>1. Results(op, V, R) = UNION {0 .. v : v \in V}
    BY <1>4 DEF Results
  <2>2. \A v \in V : 0 .. v \subseteq 0 .. N - 1
    OBVIOUS
  <2> QED
    BY <2>1, <2>2, Zenon
<1> QED
  BY <1>1, <1>2, <1>3, <1>4

\* The report on an expression is right when the verdicts on its operands rest
\* on no other rule.
LEMMA ReportIsRight ==
  ASSUME NEW e, NEW a, NEW b, Sound(a), Sound(b), WellTyped(e, a, b),
         check_u128_arithmetic(e, a, b), e.ty = "u128",
         e.op \in {"Sub", "Div", "Rem", "Shr"}, a.leans = {}, b.leans = {}
  PROVE  /\ a.holds \subseteq 0 .. N - 1 /\ b.holds \subseteq 0 .. N - 1
         /\ ValuesOf(e, a, b) \subseteq 0 .. N - 1
<1>1. e.kind = "Binary" /\ a.within /\ b.within /\ a.ty = "u128" /\ b.ty = "u128"
  BY DEF check_u128_arithmetic, WellTyped
<1>2. /\ a.holds \subseteq Within64 /\ b.holds \subseteq Within64
      /\ a.holds \subseteq RangeOf("u128") /\ b.holds \subseteq RangeOf("u128")
  BY <1>1, OperandFits DEF Sound
<1>3. a.holds \subseteq 0 .. N - 1 /\ b.holds \subseteq 0 .. N - 1
  BY <1>2, Ranges, Widths DEF Within64
<1>4. ValuesOf(e, a, b) = BinaryValues(e.op, "u128", a.holds, b.holds)
  BY <1>1 DEF ValuesOf
<1>5. BinaryValues(e.op, "u128", a.holds, b.holds)
        = RangeOf("u128") \cap Results(e.op, a.holds, b.holds)
  BY DEF BinaryValues
<1> QED
  BY <1>3, <1>4, <1>5, ReportedResults

-----------------------------------------------------------------------------
\* u128_where_u64_suffices: the expressions that are visited.

Kinds == {"Path", "Lit", "Cast", "MethodCall", "Binary", "AssignOp"}

Operators ==
  Arithmetic \cup Bitwise64 \cup {"And", "Or", "len", "min", "max", "other", ""}

Rules == {"sign", "len", "receiver", "min", "max", "BitOr"}

\* An expression over the body that rustc accepts.
Accepted(e) ==
  /\ e.kind \in Kinds /\ e.ty \in TypeNames /\ e.op \in Operators /\ e.val \in Nat
  /\ e.of \in (0 .. Len(body)) \X (0 .. Len(body))
  /\ e.kind \in {"Binary", "AssignOp"} => 0 \notin {e.of[1], e.of[2]}
  /\ WellTyped(e, Operand(body, e.of[1]), Operand(body, e.of[2]))

\* An expression without operands names none that is not there.
LEMMA NoOperands ==
  ASSUME NEW n \in Nat, NEW p, p = <<0, 0>>
  PROVE  p \in (0 .. n) \X (0 .. n)
OBVIOUS

\* Each kind of expression the checker meets is one its typing accepts:
LEMMA PathAccepted ==
  ASSUME Len(body) \in Nat, NEW ty \in {"u64", "i64", "u128", "i128", "bool"}
  PROVE  Accepted(Path(ty))
<1> DEFINE e == Path(ty)
<1>1. e.kind = "Path" /\ e.ty = ty /\ e.op = "" /\ e.val \in Nat /\ e.of = <<0, 0>>
  BY DEF Path, Shape
<1> HIDE DEF e
<1>2. e.kind \in Kinds /\ e.ty \in TypeNames /\ e.op \in Operators
  BY <1>1 DEF Kinds, TypeNames, Operators
<1>3. e.of \in (0 .. Len(body)) \X (0 .. Len(body))
  BY <1>1, NoOperands
<1>4. WellTyped(e, Operand(body, e.of[1]), Operand(body, e.of[2]))
  BY <1>1 DEF WellTyped
<1>5. Accepted(e)
  BY <1>1, <1>2, <1>3, <1>4 DEF Accepted
<1> QED
  BY <1>5 DEF e

\* a literal of its type,
LEMMA LitAccepted ==
  ASSUME Len(body) \in Nat, NEW ty \in {"i64", "u128", "i128"}, NEW v \in Literals,
         v \in RangeOf(ty)
  PROVE  Accepted(Lit(ty, v))
<1> DEFINE e == Lit(ty, v)
<1>1. e.kind = "Lit" /\ e.ty = ty /\ e.op = "" /\ e.val = v /\ e.of = <<0, 0>>
  BY DEF Lit, Shape
<1> HIDE DEF e
<1>2. e.kind \in Kinds /\ e.ty \in TypeNames /\ e.op \in Operators /\ e.val \in Nat
  BY <1>1, WidthAssumption DEF Kinds, TypeNames, Operators
<1>3. e.of \in (0 .. Len(body)) \X (0 .. Len(body))
  BY <1>1, NoOperands
<1>4. WellTyped(e, Operand(body, e.of[1]), Operand(body, e.of[2]))
  BY <1>1 DEF WellTyped
<1>5. Accepted(e)
  BY <1>1, <1>2, <1>3, <1>4 DEF Accepted
<1> QED
  BY <1>5 DEF e

\* a call of len(),
LEMMA CallLenAccepted ==
  ASSUME Len(body) \in Nat, NEW ty \in {"u64", "u128"}
  PROVE  Accepted(CallLen(ty))
<1> DEFINE e == CallLen(ty)
<1>1. e.kind = "MethodCall" /\ e.ty = ty /\ e.op = "len" /\ e.val \in Nat /\ e.of = <<0, 0>>
  BY DEF CallLen, Shape
<1> HIDE DEF e
<1>2. e.kind \in Kinds /\ e.ty \in TypeNames /\ e.op \in Operators
  BY <1>1 DEF Kinds, TypeNames, Operators
<1>3. e.of \in (0 .. Len(body)) \X (0 .. Len(body))
  BY <1>1, NoOperands
<1>4. WellTyped(e, Operand(body, e.of[1]), Operand(body, e.of[2]))
  BY <1>1 DEF WellTyped
<1>5. Accepted(e)
  BY <1>1, <1>2, <1>3, <1>4 DEF Accepted
<1> QED
  BY <1>5 DEF e

\* and so everything without operands;
LEMMA LeavesAccepted ==
  ASSUME Len(body) \in Nat, NEW e \in Leaves, e.val \in RangeOf(e.ty)
  PROVE  Accepted(e)
<1>1. \/ \E ty \in {"u64", "i64", "u128", "i128", "bool"} : e = Path(ty)
      \/ \E ty \in {"i64", "u128", "i128"}, v \in Literals : e = Lit(ty, v)
      \/ \E ty \in {"u64", "u128"} : e = CallLen(ty)
  BY DEF Leaves
<1>2. ASSUME NEW ty, NEW v, e = Lit(ty, v)
      PROVE  v \in RangeOf(ty)
  BY <1>2 DEF Lit, Shape
<1> QED
  BY <1>1, <1>2, PathAccepted, LitAccepted, CallLenAccepted

\* The indices of a new expression's operands.
LEMMA PairsOfTop ==
  ASSUME NEW n \in Nat \ {0}, NEW M \in SUBSET (1 .. n), n \in M,
         NEW p, p \in {<<n, i>> : i \in M} \cup {<<i, n>> : i \in M}
  PROVE  p \in (0 .. n) \X (0 .. n) /\ p[1] \in M /\ p[2] \in M
<1>1. \E i \in M : p = <<n, i>> \/ p = <<i, n>>
  OBVIOUS
<1> QED
  BY <1>1

\* an operation on two operands of its type,
LEMMA BinaryAccepted ==
  ASSUME NEW ty \in TypeNames, NEW op \in Operators,
         NEW p \in (0 .. Len(body)) \X (0 .. Len(body)), p[1] # 0, p[2] # 0,
         body[p[1]].ty = ty, body[p[2]].ty = ty,
         \/ ty = "bool" /\ op \in {"And", "Or"}
         \/ ty \in Integers128 /\ op \in Arithmetic \cup Bitwise64
  PROVE  Accepted(Binary(op, ty, p))
<1> DEFINE e == Binary(op, ty, p)
<1>1. e.kind = "Binary" /\ e.ty = ty /\ e.op = op /\ e.val \in Nat /\ e.of = p
  BY DEF Binary, Shape
<1> HIDE DEF e
<1>2. e.kind \in Kinds
  BY <1>1 DEF Kinds
<1>3. Operand(body, p[1]) = body[p[1]] /\ Operand(body, p[2]) = body[p[2]]
  BY DEF Operand
<1>4. WellTyped(e, Operand(body, e.of[1]), Operand(body, e.of[2]))
  BY <1>1, <1>3 DEF WellTyped
<1>5. Accepted(e)
  BY <1>1, <1>2, <1>4 DEF Accepted
<1> QED
  BY <1>5 DEF e

\* a method,
LEMMA MethodAccepted ==
  ASSUME NEW ty \in TypeNames, NEW op \in {"min", "max", "other"},
         NEW p \in (0 .. Len(body)) \X (0 .. Len(body)),
         op # "other" => /\ p[1] # 0 /\ p[2] # 0
                         /\ body[p[1]].ty = ty /\ body[p[2]].ty = ty
  PROVE  Accepted(MethodCall(op, ty, p))
<1> DEFINE e == MethodCall(op, ty, p)
<1>1. e.kind = "MethodCall" /\ e.ty = ty /\ e.op = op /\ e.val \in Nat /\ e.of = p
  BY DEF MethodCall, Shape
<1> HIDE DEF e
<1>2. e.kind \in Kinds /\ e.op \in Operators
  BY <1>1 DEF Kinds, Operators
<1>3. WellTyped(e, Operand(body, e.of[1]), Operand(body, e.of[2]))
  BY <1>1 DEF WellTyped, Operand
<1>4. Accepted(e)
  BY <1>1, <1>2, <1>3 DEF Accepted
<1> QED
  BY <1>4 DEF e

\* an assignment,
LEMMA AddAssignAccepted ==
  ASSUME NEW p \in (0 .. Len(body)) \X (0 .. Len(body)), p[1] # 0, p[2] # 0
  PROVE  Accepted(AddAssign(p))
<1> DEFINE e == AddAssign(p)
<1>1. e.kind = "AssignOp" /\ e.ty = "unit" /\ e.op = "Add" /\ e.val \in Nat /\ e.of = p
  BY DEF AddAssign, Shape
<1> HIDE DEF e
<1>2. e.kind \in Kinds /\ e.ty \in TypeNames /\ e.op \in Operators
  BY <1>1 DEF Kinds, TypeNames, Operators, Arithmetic
<1>3. WellTyped(e, Operand(body, e.of[1]), Operand(body, e.of[2]))
  BY <1>1 DEF WellTyped
<1>4. Accepted(e)
  BY <1>1, <1>2, <1>3 DEF Accepted
<1> QED
  BY <1>4 DEF e

\* a cast,
LEMMA CastAccepted ==
  ASSUME Len(body) \in Nat, NEW ty \in {"u64", "u128", "i128"}, NEW i \in 0 .. Len(body)
  PROVE  Accepted(Cast(ty, i))
<1> DEFINE e == Cast(ty, i)
<1>1. e.kind = "Cast" /\ e.ty = ty /\ e.op = "" /\ e.val \in Nat /\ e.of = <<i, 0>>
  BY DEF Cast, Shape
<1> HIDE DEF e
<1>2. e.kind \in Kinds /\ e.ty \in TypeNames /\ e.op \in Operators
  BY <1>1 DEF Kinds, TypeNames, Operators
<1>3. <<i, 0>> \in (0 .. Len(body)) \X (0 .. Len(body))
  OBVIOUS
<1>4. WellTyped(e, Operand(body, e.of[1]), Operand(body, e.of[2]))
  BY <1>1 DEF WellTyped
<1>5. Accepted(e)
  BY <1>1, <1>2, <1>3, <1>4 DEF Accepted
<1> QED
  BY <1>5 DEF e

\* and so everything a body can grow by.
LEMMA GrownAccepted ==
  ASSUME body \in Seq(Expressions), body # <<>>, NEW e \in Grown(body)
  PROVE  Accepted(e)
<1> DEFINE n == Len(body)
           top == body[n].ty
           M == {i \in 1 .. n : body[i].ty = top}
           Pairs == {<<n, i>> : i \in M} \cup {<<i, n>> : i \in M}
<1>1. n \in Nat \ {0} /\ n \in M /\ M \in SUBSET (1 .. n)
  OBVIOUS
<1>2. top \in TypeNames
  <2>1. body[n] \in Expressions
    BY <1>1
  <2> QED
    BY <2>1 DEF Expressions, TypeNames
<1>3. \A p \in Pairs : /\ p \in (0 .. n) \X (0 .. n) /\ p[1] # 0 /\ p[2] # 0
                       /\ body[p[1]].ty = top /\ body[p[2]].ty = top
  <2>1. \A p \in Pairs : p \in (0 .. n) \X (0 .. n) /\ p[1] \in M /\ p[2] \in M
    BY <1>1, PairsOfTop
  <2> QED
    BY <2>1
<1>4. \/ \E ty \in {"u64", "u128", "i128"} : e = Cast(ty, n)
      \/ /\ top = "bool"
         /\ \E op \in {"And", "Or"}, p \in Pairs : e = Binary(op, top, p)
      \/ /\ top \notin {"bool", "unit"}
         /\ \/ \E op \in Arithmetic \cup Bitwise64, p \in Pairs : e = Binary(op, top, p)
            \/ \E p \in Pairs : e = AddAssign(p)
            \/ \E op \in {"min", "max"}, p \in Pairs : e = MethodCall(op, top, p)
            \/ e = MethodCall("other", top, <<n, 0>>)
  <2> DEFINE Casts == {Cast(ty, n) : ty \in {"u64", "u128", "i128"}}
             Logic == {Binary(op, top, p) : op \in {"And", "Or"}, p \in Pairs}
             Numbers == {Binary(op, top, p) : op \in Arithmetic \cup Bitwise64, p \in Pairs}
             Assigns == {AddAssign(p) : p \in {q \in Pairs : body[q[1]].kind = "Path"}}
             Methods == {MethodCall(op, top, p) : op \in {"min", "max"}, p \in Pairs}
  <2>1. Grown(body) =
          CASE top = "unit" -> {}
            [] top = "bool" -> Casts \cup Logic
            [] OTHER -> Casts \cup (Numbers \cup Assigns \cup Methods
                                    \cup {MethodCall("other", top, <<n, 0>>)})
    BY DEF Grown
  <2> HIDE DEF Casts, Logic, Numbers, Assigns, Methods, n, M, Pairs, top
  <2>2. \/ e \in Casts
        \/ top = "bool" /\ e \in Logic
        \/ /\ top \notin {"bool", "unit"}
           /\ \/ e \in Numbers \/ e \in Assigns \/ e \in Methods
              \/ e = MethodCall("other", top, <<n, 0>>)
    BY <2>1
  <2>3. e \in Casts => \E ty \in {"u64", "u128", "i128"} : e = Cast(ty, n)
    BY DEF Casts
  <2>4. e \in Logic => \E op \in {"And", "Or"}, p \in Pairs : e = Binary(op, top, p)
    BY DEF Logic
  <2>5. e \in Numbers =>
          \E op \in Arithmetic \cup Bitwise64, p \in Pairs : e = Binary(op, top, p)
    BY DEF Numbers
  <2>6. e \in Assigns => \E p \in Pairs : e = AddAssign(p)
    BY DEF Assigns
  <2>7. e \in Methods => \E op \in {"min", "max"}, p \in Pairs : e = MethodCall(op, top, p)
    BY DEF Methods
  <2> QED
    BY <2>2, <2>3, <2>4, <2>5, <2>6, <2>7
<1> HIDE DEF top, M, Pairs
<1>5. ASSUME NEW op \in {"And", "Or"}, NEW p \in Pairs, top = "bool"
      PROVE  Accepted(Binary(op, top, p))
  BY <1>2, <1>3, <1>5, BinaryAccepted DEF Operators
<1>6. ASSUME NEW op \in Arithmetic \cup Bitwise64, NEW p \in Pairs, top \notin {"bool", "unit"}
      PROVE  Accepted(Binary(op, top, p))
  <2>1. top \in Integers128 /\ op \in Operators
    BY <1>2, <1>6 DEF TypeNames, Integers128, Operators
  <2> QED
    BY <1>2, <1>3, <2>1, BinaryAccepted
<1>7. ASSUME NEW p \in Pairs
      PROVE  Accepted(AddAssign(p))
  BY <1>3, AddAssignAccepted
<1>8. ASSUME NEW op \in {"min", "max"}, NEW p \in Pairs
      PROVE  Accepted(MethodCall(op, top, p))
  BY <1>2, <1>3, MethodAccepted
<1>9. Accepted(MethodCall("other", top, <<n, 0>>))
  <2>1. <<n, 0>> \in (0 .. n) \X (0 .. n)
    BY <1>1
  <2> QED
    BY <1>2, <2>1, MethodAccepted
<1>10. \A ty \in {"u64", "u128", "i128"} : Accepted(Cast(ty, n))
  BY <1>1, CastAccepted
<1> QED
  BY <1>4, <1>5, <1>6, <1>7, <1>8, <1>9, <1>10

-----------------------------------------------------------------------------
\* u128_where_u64_suffices: the visit of one expression.

\* A verdict leans on named rules only.
LEMMA RulesOfVerdict ==
  ASSUME NEW e, NEW a, NEW b, a.leans \in SUBSET Rules, b.leans \in SUBSET Rules
  PROVE  Leans(e, a, b) \in SUBSET Rules
<1>1. CASE NarrowInt(e.ty) \/ e.kind \notin {"Cast", "MethodCall", "Binary"}
  BY <1>1 DEF Leans
<1>2. CASE ~ NarrowInt(e.ty) /\ e.kind = "Cast"
  BY <1>2 DEF Leans, Rules
<1>3. CASE ~ NarrowInt(e.ty) /\ e.kind \in {"MethodCall", "Binary"}
  BY <1>3 DEF Leans, Rules, Bitwise64
<1> QED
  BY <1>1, <1>2, <1>3

\* An operand was judged soundly before the expression it is in.
LEMMA OperandSound ==
  ASSUME WideInv, NEW i \in 0 .. Len(body)
  PROVE  Sound(Operand(body, i)) /\ Operand(body, i).leans \in SUBSET Rules
<1>1. CASE i = 0
  BY <1>1 DEF Operand, NoOperand, Sound, TypeNames
<1>2. CASE i # 0
  <2>1. i \in DOMAIN body /\ Operand(body, i) = body[i] /\ body[i] \in Expressions
    BY <1>2 DEF Operand, WideInv, WideTypeOK
  <2>2. /\ body[i].ty \in TypeNames /\ body[i].within \in BOOLEAN
        /\ body[i].leans \in SUBSET Rules
    BY <2>1 DEF Expressions, TypeNames, Rules
  <2>3. body[i].holds \subseteq RangeOf(body[i].ty)
    BY <2>1 DEF WideInv, WideTypeOK
  <2>4. body[i].within /\ body[i].leans = {} => body[i].holds \subseteq Within64
    BY <2>1 DEF WideInv, ProvenValuesFit
  <2> QED
    BY <2>1, <2>2, <2>3, <2>4 DEF Sound
<1> QED
  BY <1>1, <1>2

\* The expression that a visit adds to the body.
Judged(e, a, b) ==
  [kind |-> e.kind, ty |-> e.ty, op |-> e.op, val |-> e.val,
   of |-> e.of, holds |-> ValuesOf(e, a, b),
   within |-> is_provably_within_64_bits(e, a, b),
   leans |-> Leans(e, a, b)]

\* What a judged expression says of itself.
LEMMA JudgedFields ==
  ASSUME NEW e, NEW a, NEW b
  PROVE  /\ Judged(e, a, b).ty = e.ty /\ Judged(e, a, b).op = e.op
         /\ Judged(e, a, b).of = e.of
         /\ Judged(e, a, b).holds = ValuesOf(e, a, b)
         /\ Judged(e, a, b).within = is_provably_within_64_bits(e, a, b)
         /\ Judged(e, a, b).leans = Leans(e, a, b)
BY DEF Judged

\* Judging keeps the types, and the values within them.
LEMMA JudgedTyped ==
  ASSUME WideInv, NEW e, Accepted(e), NEW a, NEW b,
         a = Operand(body, e.of[1]), b = Operand(body, e.of[2])
  PROVE  /\ Judged(e, a, b) \in Expressions
         /\ ValuesOf(e, a, b) \subseteq RangeOf(e.ty)
         /\ Sound(a) /\ Sound(b)
<1>1. e.of[1] \in 0 .. Len(body) /\ e.of[2] \in 0 .. Len(body)
  BY DEF Accepted
<1>2. /\ Sound(a) /\ Sound(b)
      /\ a.leans \in SUBSET Rules /\ b.leans \in SUBSET Rules
  BY <1>1, OperandSound
<1>3. ValuesOf(e, a, b) \subseteq RangeOf(e.ty)
  BY <1>2, ValuesHaveType DEF Accepted
<1>4. ValuesOf(e, a, b) \in SUBSET Int
  BY <1>3, RangeBounds DEF Accepted
<1>5. Leans(e, a, b) \in SUBSET Rules
  BY <1>2, RulesOfVerdict
<1>6. is_provably_within_64_bits(e, a, b) \in BOOLEAN
  BY DEF is_provably_within_64_bits
<1>7. e.of \in Nat \X Nat
  <2>1. 0 .. Len(body) \subseteq Nat
    BY DEF WideInv, WideTypeOK
  <2> QED
    BY <2>1 DEF Accepted
<1>8. Judged(e, a, b) \in Expressions
  BY <1>4, <1>5, <1>6, <1>7
     DEF Accepted, Judged, Expressions, Kinds, TypeNames, Operators, Rules
<1> QED
  BY <1>2, <1>3, <1>8

\* Judging an expression whose operands were judged soundly is sound.
LEMMA VisitKeeps ==
  ASSUME WideInv, NEW e, Accepted(e), check_expr(e)
  PROVE  WideInv'
<1> DEFINE a == Operand(body, e.of[1])
           b == Operand(body, e.of[2])
           x == Judged(e, a, b)
           n == Len(body)
<1>1. /\ x \in Expressions /\ ValuesOf(e, a, b) \subseteq RangeOf(e.ty)
      /\ Sound(a) /\ Sound(b)
  BY JudgedTyped
<1>2. body' = Append(body, x)
  BY DEF check_expr, Judged
<1>3. flagged' = IF check_u128_arithmetic(e, a, b) THEN flagged \cup {n + 1} ELSE flagged
  BY DEF check_expr
<1>4. WellTyped(e, a, b) /\ e.ty \in TypeNames
  BY DEF Accepted
<1>5. /\ x.ty = e.ty /\ x.op = e.op /\ x.of = e.of /\ x.holds = ValuesOf(e, a, b)
      /\ x.within = is_provably_within_64_bits(e, a, b) /\ x.leans = Leans(e, a, b)
  BY JudgedFields
<1>6. body \in Seq(Expressions) /\ n \in Nat /\ DOMAIN body = 1 .. n
  BY DEF WideInv, WideTypeOK
<1>7. a = Operand(body, e.of[1]) /\ b = Operand(body, e.of[2])
  OBVIOUS
<1> HIDE DEF a, b, x
<1>8. /\ body' \in Seq(Expressions) /\ Len(body') = n + 1 /\ DOMAIN body' = 1 .. n + 1
      /\ body'[n + 1] = x /\ \A i \in 1 .. n : body'[i] = body[i]
  <2>1. body' \in Seq(Expressions)
    BY <1>1, <1>2, <1>6, AppendProperties
  <2>2. Len(body') = n + 1
    BY <1>1, <1>2, <1>6, AppendProperties
  <2>3. body'[n + 1] = x
    BY <1>1, <1>2, <1>6, AppendProperties
  <2>4. \A i \in 1 .. n : body'[i] = body[i]
    BY <1>1, <1>2, <1>6, AppendProperties
  <2> QED
    BY <2>1, <2>2, <2>3, <2>4, LenProperties
<1>9. e.of \in (0 .. n) \X (0 .. n)
  BY DEF Accepted
<1>10. check_u128_arithmetic(e, a, b) => e.of[1] # 0 /\ e.of[2] # 0
  BY DEF Accepted, check_u128_arithmetic
<1>11. WideTypeOK'
  <2>1. \A k \in 1 .. n + 1 : /\ body'[k].holds \subseteq RangeOf(body'[k].ty)
                              /\ body'[k].of \in (0 .. k - 1) \X (0 .. k - 1)
    <3> TAKE k \in 1 .. n + 1
    <3>1. CASE k = n + 1
      <4>1. k - 1 = n /\ body'[k] = x
        BY <1>6, <1>8, <3>1
      <4> QED
        BY <1>1, <1>5, <1>9, <4>1
    <3>2. CASE k # n + 1
      <4>1. k \in 1 .. n
        BY <1>6, <3>2
      <4> QED
        BY <1>6, <1>8, <4>1 DEF WideInv, WideTypeOK
    <3> QED
      BY <3>1, <3>2
  <2>2. flagged' \subseteq 1 .. n + 1
    BY <1>3, <1>6 DEF WideInv, WideTypeOK
  <2>3. \A k \in flagged' : 0 \notin {body'[k].of[1], body'[k].of[2]}
    <3> TAKE k \in flagged'
    <3>1. CASE k \in flagged
      <4>1. k \in 1 .. n /\ 0 \notin {body[k].of[1], body[k].of[2]}
        BY <1>6, <3>1 DEF WideInv, WideTypeOK
      <4> QED
        BY <1>8, <4>1
    <3>2. CASE k \notin flagged
      BY <1>3, <1>5, <1>8, <1>10, <3>2
    <3> QED
      BY <3>1, <3>2
  <2> QED
    BY <1>8, <2>1, <2>2, <2>3 DEF WideTypeOK
<1>12. ProvenValuesFit'
  <2>1. x.within /\ x.leans = {} => x.holds \subseteq Within64
    BY <1>1, <1>4, <1>5, VerdictIsRight
  <2> QED
    BY <1>6, <1>8, <2>1 DEF ProvenValuesFit, WideInv
<1>13. ReportedFitsU64'
  <2> SUFFICES ASSUME NEW k \in flagged',
                      body'[k].ty = "u128",
                      body'[k].op \in {"Sub", "Div", "Rem", "Shr"},
                      body'[body'[k].of[1]].leans = {},
                      body'[body'[k].of[2]].leans = {}
               PROVE  /\ body'[k].holds \subseteq 0 .. N - 1
                      /\ body'[body'[k].of[1]].holds \subseteq 0 .. N - 1
                      /\ body'[body'[k].of[2]].holds \subseteq 0 .. N - 1
    BY DEF ReportedFitsU64
  <2>1. CASE k \in flagged
    <3>1. k \in 1 .. n /\ body'[k] = body[k]
      BY <1>6, <1>8, <2>1 DEF WideInv, WideTypeOK
    <3>2. body[k].of \in (0 .. k - 1) \X (0 .. k - 1) /\ 0 \notin {body[k].of[1], body[k].of[2]}
      BY <1>6, <2>1, <3>1 DEF WideInv, WideTypeOK
    <3>3. body[k].of[1] \in 1 .. n /\ body[k].of[2] \in 1 .. n
      BY <1>6, <3>1, <3>2
    <3>4. /\ body'[body'[k].of[1]] = body[body[k].of[1]]
          /\ body'[body'[k].of[2]] = body[body[k].of[2]]
      BY <1>8, <3>1, <3>3
    <3>5. ReportedFitsU64
      BY DEF WideInv
    <3> QED
      BY <2>1, <3>1, <3>4, <3>5 DEF ReportedFitsU64
  <2>2. CASE k \notin flagged
    <3>1. k = n + 1 /\ body'[k] = x /\ check_u128_arithmetic(e, a, b)
      BY <1>3, <1>8, <2>2
    <3>2. e.of[1] \in 1 .. n /\ e.of[2] \in 1 .. n
      BY <1>6, <1>9, <1>10, <3>1
    <3>3. a = body[e.of[1]] /\ b = body[e.of[2]]
      BY <1>6, <1>7, <3>2 DEF Operand
    <3>4. body'[body'[k].of[1]] = a /\ body'[body'[k].of[2]] = b
      BY <1>5, <1>8, <3>1, <3>2, <3>3
    <3> QED
      BY <1>1, <1>4, <1>5, <3>1, <3>4, ReportIsRight
  <2> QED
    BY <2>1, <2>2
<1> QED
  BY <1>11, <1>12, <1>13 DEF WideInv

\* A body with nothing in it is judged soundly.
LEMMA WideInvInit == WideInit => WideInv
BY DEF WideInit, WideInv, WideTypeOK, ProvenValuesFit, ReportedFitsU64

\* Every visit keeps the invariant.
LEMMA WideInvNext ==
  ASSUME WideInv, [Visit]_wideVars
  PROVE  WideInv'
<1>1. CASE Visit
  <2>1. body \in Seq(Expressions) /\ Len(body) \in Nat
    BY DEF WideInv, WideTypeOK
  <2>2. CASE \E e \in Leaves : e.val \in RangeOf(e.ty) /\ check_expr(e)
    BY <2>1, <2>2, LeavesAccepted, VisitKeeps
  <2>3. CASE body # <<>> /\ \E e \in Grown(body) : check_expr(e)
    BY <2>1, <2>3, GrownAccepted, VisitKeeps
  <2> QED
    BY <1>1, <2>2, <2>3 DEF Visit
<1>2. CASE UNCHANGED wideVars
  <2>1. body' = body /\ flagged' = flagged
    BY <1>2 DEF wideVars
  <2>2. WideTypeOK'
    BY <2>1 DEF WideInv, WideTypeOK
  <2>3. ProvenValuesFit'
    BY <2>1 DEF WideInv, ProvenValuesFit
  <2>4. ReportedFitsU64'
    BY <2>1 DEF WideInv, ReportedFitsU64
  <2> QED
    BY <2>2, <2>3, <2>4 DEF WideInv
<1> QED
  BY <1>1, <1>2

\* The inductive invariant of the visitor of 128-bit arithmetic.
THEOREM WideInductive == WideSpec => []WideInv
<1> QED
  BY WideInvInit, WideInvNext, PTL DEF WideSpec

\* What is_provably_within_64_bits accepts takes no value beyond 64 bits, in
\* bodies of every length, unless the verdict rests on a rule that Leans names.
THEOREM ProvenFit == WideSpec => []ProvenValuesFit
<1>1. WideInv => ProvenValuesFit
  BY DEF WideInv
<1> QED
  BY <1>1, WideInductive, PTL

\* What the lint reports of unsigned differences, quotients, remainders and
\* shifts to the right can be computed in u64, in bodies of every length.
THEOREM ReportedFit == WideSpec => []ReportedFitsU64
<1>1. WideInv => ReportedFitsU64
  BY DEF WideInv
<1> QED
  BY <1>1, WideInductive, PTL
=============================================================================
