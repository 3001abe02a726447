--------------------------- MODULE WideArithmetic ---------------------------
(***************************************************************************)
(* The lint u128_where_u64_suffices (soroban_cost_lints/src/lib.rs         *)
(* 398-513): which operations on 128-bit integers it reports, and whether  *)
(* the values it calls "provably within 64 bits" are.                      *)
(*                                                                         *)
(* A body is a sequence of expressions in which operands precede what they *)
(* are operands of.  Each expression carries the verdict of                *)
(* is_provably_within_64_bits, which the code computes by recursion on the *)
(* operands, and the values it can take at run time.                       *)
(***************************************************************************)
EXTENDS Integers, Sequences

CONSTANTS
  Half,          \* 2^63
  Literals,      \* the literals that occur
  MaxNodes,      \* bound: expressions in a body
  BitAnd(_, _),  \* & and | of integers in two's complement
  BitOr(_, _)

N == 2 * Half    \* 2^64
W == N * N       \* 2^128

RangeOf(ty) ==
  CASE ty = "u64"  -> 0 .. N - 1
    [] ty = "i64"  -> -Half .. Half - 1
    [] ty = "u128" -> 0 .. W - 1
    [] ty = "i128" -> -(Half * N) .. Half * N - 1
    [] ty = "bool" -> 0 .. 1
    [] ty = "unit" -> {}

\* What fits 64 bits, as a u64 or as an i64.
Within64 == -Half .. N - 1

\* What the proofs need of the bit operations; TLC evaluates it.
ASSUME WidthAssumption ==
  /\ Half \in Nat \ {0}
  /\ Literals \subseteq Nat
  /\ \A a, b \in -(Half * N) .. W - 1 :
       /\ BitAnd(a, b) \in Int /\ BitOr(a, b) \in Int
       /\ a >= 0 => BitAnd(a, b) \in 0 .. a
       /\ b >= 0 => BitAnd(a, b) \in 0 .. b
       /\ \A R \in {Within64} \cup {RangeOf(ty) : ty \in {"u64", "i64", "u128", "i128"}} :
            {a, b} \subseteq R => {BitAnd(a, b), BitOr(a, b)} \subseteq R

VARIABLES
  body,     \* the expressions visited so far
  flagged   \* the indices of those reported

wideVars == <<body, flagged>>

-----------------------------------------------------------------------------
\* The lint.

is_u128_or_i128(ty) == ty \in {"i128", "u128"}

Arithmetic == {"Add", "Sub", "Mul", "Div", "Rem", "Shl", "Shr"}

Bitwise64 == {"BitAnd", "BitOr"}

\* Every integer type but the two 128-bit ones.
NarrowInt(ty) == ty \in {"i64", "u64"}

\* Variant for mutation: arithmetic on what is within is within.
is_provably_within_64_bits_arithmetic(e, a, b) ==
  \/ NarrowInt(e.ty)
  \/ e.kind = "Lit" /\ e.ty # "bool" /\ e.val <= N - 1
  \/ e.kind = "Cast" /\ (NarrowInt(a.ty) \/ a.within)
  \/ e.kind = "MethodCall" /\ (e.op \in {"len", "min", "max"} \/ a.within)
  \/ /\ e.kind = "Binary"
     /\ \/ e.op \in {"And", "Or"} \cup Bitwise64 /\ (a.within \/ b.within)
        \/ e.op \in Arithmetic /\ a.within /\ b.within

\* Of an expression with the operands a and b.
is_provably_within_64_bits(e, a, b) ==
  \/ NarrowInt(e.ty)
  \/ e.kind = "Lit" /\ e.ty # "bool" /\ e.val <= N - 1
  \/ e.kind = "Cast" /\ (NarrowInt(a.ty) \/ a.within)
  \/ e.kind = "MethodCall" /\ (e.op \in {"len", "min", "max"} \/ a.within)
  \/ /\ e.kind = "Binary"
     /\ e.op \in {"And", "Or"} \cup Bitwise64
     /\ a.within \/ b.within

\* Variant for mutation: one operand is enough.
check_u128_arithmetic_either(e, a, b) ==
  /\ is_u128_or_i128(e.ty)
  /\ e.kind \in {"Binary", "AssignOp"}
  /\ e.op \in Arithmetic
  /\ a.within \/ b.within

\* The type of an assignment is (), so no x += y is ever reported.
check_u128_arithmetic(e, a, b) ==
  /\ is_u128_or_i128(e.ty)
  /\ e.kind \in {"Binary", "AssignOp"}
  /\ e.op \in Arithmetic
  /\ a.within /\ b.within

-----------------------------------------------------------------------------
\* The values of an expression: those of its operands combined in every way.
\* Overflow ends the program (contracts are built with overflow checks), so
\* it yields no value.

Wrap(v, ty) ==
  LET size == IF ty \in {"u64", "i64"} THEN N ELSE W
      low  == v % size
  IN IF ty \in {"i64", "i128"} /\ low >= size \div 2 THEN low - size ELSE low

Larger(v, w) == IF v < w THEN w ELSE v

Smaller(v, w) == IF v < w THEN v ELSE w

\* The exact results of an operation; a shift may come out at anything below.
Results(op, V, R) ==
  CASE op = "Add" -> {v + r : v \in V, r \in R}
    [] op = "Sub" -> {v - r : v \in V, r \in R}
    [] op = "Mul" -> {v * r : v \in V, r \in R}
    [] op = "Div" -> {v \div r : v \in V, r \in R \ {0}}
    [] op = "Rem" -> {v % r : v \in V, r \in R \ {0}}
    [] op = "Shr" -> UNION {0 .. v : v \in V}

\* Signed arithmetic, shifts to the left and methods the lint does not know
\* may yield anything of the type.
BinaryValues(op, ty, V, R) ==
  CASE op = "BitAnd" -> {BitAnd(v, r) : v \in V, r \in R}
    [] op = "BitOr"  -> {BitOr(v, r) : v \in V, r \in R}
    [] op \in {"And", "Or"} -> {0, 1}
    [] op = "Shl" \/ (op \in Arithmetic /\ ty \in {"i64", "i128"}) -> RangeOf(ty)
    [] OTHER -> RangeOf(ty) \cap Results(op, V, R)

ValuesOf(e, a, b) ==
  CASE e.kind = "Lit"  -> {e.val}
    [] e.kind = "Path" -> RangeOf(e.ty)
    [] e.kind = "Cast" -> {Wrap(v, e.ty) : v \in a.holds}
    [] e.kind = "MethodCall" /\ e.op = "min" ->
         {Smaller(v, r) : v \in a.holds, r \in b.holds}
    [] e.kind = "MethodCall" /\ e.op = "max" ->
         {Larger(v, r) : v \in a.holds, r \in b.holds}
    [] e.kind = "MethodCall" /\ e.op \notin {"min", "max"} -> RangeOf(e.ty)
    [] e.kind = "Binary"   -> BinaryValues(e.op, e.ty, a.holds, b.holds)
    [] e.kind = "AssignOp" -> {}

Negative(e) == \E v \in e.holds : v < 0

\* The rules a verdict rests on that are not sound by themselves: a len() of
\* a 128-bit type, min, max and | with only one operand within the bound, a
\* method judged by its receiver, and a negative operand, which a cast to
\* u128 or a mask turns into a large value.
Leans(e, a, b) ==
  LET both == a.within /\ b.within
      w    == IF a.within THEN a ELSE b
  IN IF NarrowInt(e.ty) \/ e.kind \notin {"Cast", "MethodCall", "Binary"} THEN {}
     ELSE IF e.kind = "Cast"
     THEN a.leans \cup (IF e.ty = "u128" /\ Negative(a) THEN {"sign"} ELSE {})
     ELSE CASE e.op = "len"   -> {"len"}
            [] e.op = "other" -> {"receiver"}
            [] e.op \in {"min", "max"} \cup Bitwise64 /\ both -> a.leans \cup b.leans
            [] e.op \in {"min", "max", "BitOr"} /\ ~ both -> {e.op}
            [] e.op = "BitAnd" /\ ~ both ->
                 w.leans \cup (IF Negative(w) THEN {"sign"} ELSE {})
            [] OTHER -> {}

-----------------------------------------------------------------------------
\* Expressions before their verdicts.  Operands are indices; 0 is none.

Shape(kind, ty, op, val, of) ==
  [kind |-> kind, ty |-> ty, op |-> op, val |-> val, of |-> of]

Path(ty) == Shape("Path", ty, "", 0, <<0, 0>>)

Lit(ty, v) == Shape("Lit", ty, "", v, <<0, 0>>)

CallLen(ty) == Shape("MethodCall", ty, "len", 0, <<0, 0>>)

Cast(ty, i) == Shape("Cast", ty, "", 0, <<i, 0>>)

Binary(op, ty, p) == Shape("Binary", ty, op, 0, p)

AddAssign(p) == Shape("AssignOp", "unit", "Add", 0, p)

MethodCall(op, ty, p) == Shape("MethodCall", ty, op, 0, p)

Leaves ==
  {Path(ty) : ty \in {"u64", "i64", "u128", "i128", "bool"}}
  \cup {Lit(ty, v) : ty \in {"i64", "u128", "i128"}, v \in Literals}
  \cup {CallLen(ty) : ty \in {"u64", "u128"}}

\* What rustc accepts as a successor of the body b, with its last expression
\* as an operand.  Shifts by an amount of another type are left out.
Grown(b) ==
  LET n   == Len(b)
      top == b[n].ty
      Mates == {i \in 1 .. n : b[i].ty = top}
      Pairs == {<<n, i>> : i \in Mates} \cup {<<i, n>> : i \in Mates}
      Casts == {Cast(ty, n) : ty \in {"u64", "u128", "i128"}}
      Numeric == {Binary(op, top, p) : op \in Arithmetic \cup Bitwise64, p \in Pairs}
                 \cup {AddAssign(p) : p \in {q \in Pairs : b[q[1]].kind = "Path"}}
                 \cup {MethodCall(op, top, p) : op \in {"min", "max"}, p \in Pairs}
                 \cup {MethodCall("other", top, <<n, 0>>)}
  IN CASE top = "unit" -> {}
       [] top = "bool" -> Casts \cup {Binary(op, top, p) : op \in {"And", "Or"}, p \in Pairs}
       [] OTHER        -> Casts \cup Numeric

NoOperand == [ty |-> "unit", holds |-> {}, within |-> FALSE, leans |-> {}]

Operand(b, i) == IF i = 0 THEN NoOperand ELSE b[i]

\* Variant for mutation: the span of the expression around it is reported.
check_expr_outer(e) ==
  LET a == Operand(body, e.of[1])
      b == Operand(body, e.of[2])
  IN /\ body' = Append(body,
            [kind |-> e.kind, ty |-> e.ty, op |-> e.op, val |-> e.val,
             of |-> e.of, holds |-> ValuesOf(e, a, b),
             within |-> is_provably_within_64_bits(e, a, b),
             leans |-> Leans(e, a, b)])
     /\ flagged' = IF check_u128_arithmetic(e, a, b)
                   THEN flagged \cup {Len(body) + 2} ELSE flagged

\* check_expr on the expression e, whose operands are in the body.
check_expr(e) ==
  LET a == Operand(body, e.of[1])
      b == Operand(body, e.of[2])
  IN /\ body' = Append(body,
            [kind |-> e.kind, ty |-> e.ty, op |-> e.op, val |-> e.val,
             of |-> e.of, holds |-> ValuesOf(e, a, b),
             within |-> is_provably_within_64_bits(e, a, b),
             leans |-> Leans(e, a, b)])
     /\ flagged' = IF check_u128_arithmetic(e, a, b)
                   THEN flagged \cup {Len(body) + 1} ELSE flagged

WideInit == body = <<>> /\ flagged = {}

Visit ==
  /\ Len(body) < MaxNodes
  /\ \/ \E e \in Leaves : e.val \in RangeOf(e.ty) /\ check_expr(e)
     \/ body # <<>> /\ \E e \in Grown(body) : check_expr(e)

WideSpec == WideInit /\ [][Visit]_wideVars

-----------------------------------------------------------------------------
Expressions ==
  [kind   : {"Path", "Lit", "Cast", "MethodCall", "Binary", "AssignOp"},
   ty     : {"u64", "i64", "u128", "i128", "bool", "unit"},
   op     : Arithmetic \cup Bitwise64 \cup {"And", "Or", "len", "min", "max", "other", ""},
   val    : Nat,
   of     : Nat \X Nat,
   holds  : SUBSET Int,
   within : BOOLEAN,
   leans  : SUBSET {"sign", "len", "receiver", "min", "max", "BitOr"}]

\* Each expression has a type of its own, takes values of that type only and
\* stands behind its operands; what is reported is a 128-bit operation on two
\* expressions of the body.
WideTypeOK ==
  /\ body \in Seq(Expressions)
  /\ \A n \in DOMAIN body :
       /\ body[n].holds \subseteq RangeOf(body[n].ty)
       /\ body[n].of \in (0 .. n - 1) \X (0 .. n - 1)
  /\ flagged \subseteq DOMAIN body
  /\ \A n \in flagged : 0 \notin {body[n].of[1], body[n].of[2]}

\* is_provably_within_64_bits is right: an expression it accepts takes no
\* value beyond 64 bits at run time, unless its verdict rests on one of the
\* rules that Leans names.  (docs/false_positives.md 128 promises it of all that
\* the lint flags; those rules do not keep the promise.)
ProvenValuesFit ==
  \A n \in DOMAIN body :
    body[n].within /\ body[n].leans = {} => body[n].holds \subseteq Within64

\* "64 bits would suffice": what the lint reports of an unsigned difference,
\* quotient, remainder or shift to the right can be computed in u64, because
\* the operands and the result fit.  A sum, a product or a shift to the left
\* of 64-bit operands may need more, and is reported all the same.
ReportedFitsU64 ==
  \A n \in flagged :
    /\ body[n].ty = "u128"
    /\ body[n].op \in {"Sub", "Div", "Rem", "Shr"}
    /\ \A i \in {body[n].of[1], body[n].of[2]} : body[i].leans = {}
    => \A e \in {body[n], body[body[n].of[1]], body[body[n].of[2]]} :
         e.holds \subseteq 0 .. N - 1

WideInv == WideTypeOK /\ ProvenValuesFit /\ ReportedFitsU64
=============================================================================
