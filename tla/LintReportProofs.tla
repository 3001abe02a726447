-------------------------- MODULE LintReportProofs --------------------------
(***************************************************************************)
(* Proofs about the report of a run: for outputs of the child of any       *)
(* length, any lints, any texts and positions, every order in which the    *)
(* two HashMaps of the summary may be iterated, and a reader of standard   *)
(* output that may go away at any line.                                    *)
(***************************************************************************)
EXTENDS LintReport, FiniteSetTheorems, SequenceTheorems, TLAPS

\* A set of numbers that is not empty has a least element.
LEMMA LeastNat ==
  ASSUME NEW T, T \subseteq Nat, T # {}
  PROVE  \E x \in T : \A y \in T : x <= y
<1>1. \E x \in T : \A y \in T : ~ (<<y, x>> \in OpToRel(<, Nat))
  BY WFMin, NatLessThanWellFounded
<1>2. \A x, y \in Nat : ~ (<<y, x>> \in OpToRel(<, Nat)) => x <= y
  BY DEF OpToRel
<1> QED
  BY <1>1, <1>2

-----------------------------------------------------------------------------
\* parse_dylint_output.

\* Every output can be parsed up to any of its lines.
LEMMA ParsedPrefix ==
  ASSUME NEW ls, NEW n \in Nat
  PROVE  \E f : f = [m \in 0 .. n |->
                       IF m = 0 THEN <<>>
                       ELSE IF IsFinding(ls[m])
                            THEN Append(f[m - 1], FindingOf(ls[m]))
                            ELSE f[m - 1]]
<1> DEFINE Step(f, m) == IF m = 0 THEN <<>>
                         ELSE IF IsFinding(ls[m])
                              THEN Append(f[m - 1], FindingOf(ls[m]))
                              ELSE f[m - 1]
<1> DEFINE Parsed(b, f) == f = [m \in 0 .. b |-> Step(f, m)]
<1> DEFINE bad == {b \in Nat : ~ \E f : Parsed(b, f)}
<1>1. SUFFICES ASSUME bad # {} PROVE FALSE
  OBVIOUS
<1>2. PICK b \in bad : \A k \in bad : b <= k
  BY <1>1, LeastNat
<1>3. b \in Nat /\ b # 0
  <2> DEFINE zero == [m \in 0 .. 0 |-> <<>>]
  <2>1. Parsed(0, zero)
    OBVIOUS
  <2>2. 0 \notin bad
    BY <2>1
  <2> QED
    BY <1>2, <2>2
<1>4. PICK f : Parsed(b - 1, f)
  <2>1. b - 1 \in Nat /\ ~ b <= b - 1
    BY <1>3
  <2>2. b - 1 \notin bad
    BY <1>2, <2>1
  <2> QED
    BY <2>1, <2>2
<1> DEFINE g == [m \in 0 .. b |-> IF m < b THEN f[m] ELSE Step(f, b)]
<1>5. \A m \in 0 .. b - 1 : f[m] = Step(f, m)
  BY <1>4
<1>6. \A m \in 0 .. b : g[m] = Step(g, m)
  <2> SUFFICES ASSUME NEW m \in 0 .. b PROVE g[m] = Step(g, m)
    OBVIOUS
  <2>1. m # 0 => g[m - 1] = f[m - 1]
    BY <1>3
  <2>2. Step(g, m) = Step(f, m)
    BY <2>1
  <2>3. CASE m = b
    BY <2>2, <2>3, <1>3
  <2>4. CASE m < b
    BY <2>2, <2>4, <1>3, <1>5
  <2> QED
    BY <2>3, <2>4, <1>3
<1>7. Parsed(b, g)
  BY <1>6
<1>8. b \notin bad
  BY <1>7
<1> QED
  BY <1>2, <1>8

\* The findings that the lines of an output give.
Found(ls) == {FindingOf(ls[j]) : j \in {i \in DOMAIN ls : IsFinding(ls[i])}}

\* The findings of an output are those of its lines: none is invented, none of
\* them is lost, and there is at most one for each line.
LEMMA ParsedLines ==
  ASSUME NEW ls, ls \in Seq(Range(ls))
  PROVE  LET fs == parse_dylint_output(ls)
         IN /\ fs \in Seq(Found(ls))
            /\ Len(fs) <= Len(ls)
            /\ \A j \in DOMAIN ls : IsFinding(ls[j]) =>
                 \E i \in DOMAIN fs : fs[i] = FindingOf(ls[j])
<1> DEFINE Parsed(f) == f = [m \in 0 .. Len(ls) |->
                               IF m = 0 THEN <<>>
                               ELSE IF IsFinding(ls[m])
                                    THEN Append(f[m - 1], FindingOf(ls[m]))
                                    ELSE f[m - 1]]
<1> DEFINE p == CHOOSE f : Parsed(f)
<1>1. Len(ls) \in Nat /\ DOMAIN ls = 1 .. Len(ls)
  OBVIOUS
<1>2. \E f : Parsed(f)
  BY <1>1, ParsedPrefix, ZenonT(60)
<1>3. Parsed(p)
  BY <1>2
<1>4. parse_dylint_output(ls) = p[Len(ls)]
  BY DEF parse_dylint_output
<1> HIDE DEF p
<1>5. p[0] = <<>>
  BY <1>1, <1>3
<1>6. \A m \in 1 .. Len(ls) :
        p[m] = IF IsFinding(ls[m]) THEN Append(p[m - 1], FindingOf(ls[m]))
               ELSE p[m - 1]
  <2> SUFFICES ASSUME NEW m \in 1 .. Len(ls)
               PROVE  p[m] = IF IsFinding(ls[m])
                             THEN Append(p[m - 1], FindingOf(ls[m]))
                             ELSE p[m - 1]
    OBVIOUS
  <2>1. m \in 0 .. Len(ls) /\ m # 0
    BY <1>1
  <2> QED
    BY <1>3, <2>1, Zenon
<1> DEFINE Good(m) == /\ p[m] \in Seq(Found(ls))
                      /\ Len(p[m]) <= m
                      /\ \A j \in 1 .. m : IsFinding(ls[j]) =>
                           \E i \in DOMAIN p[m] : p[m][i] = FindingOf(ls[j])
<1> DEFINE bad == {m \in 0 .. Len(ls) : ~ Good(m)}
<1>7. bad = {}
  <2> SUFFICES ASSUME bad # {} PROVE FALSE
    OBVIOUS
  <2>1. PICK n \in bad : \A k \in bad : n <= k
    <3>1. bad \subseteq Nat
      BY <1>1
    <3> QED
      BY <3>1, LeastNat
  <2>2. Good(0)
    BY <1>5
  <2>3. n \in 1 .. Len(ls) /\ n - 1 \in 0 .. Len(ls) /\ n - 1 < n
    BY <1>1, <2>1, <2>2
  <2>4. Good(n - 1)
    BY <2>1, <2>3
  <2>5. CASE ~ IsFinding(ls[n])
    <3>1. p[n] = p[n - 1]
      BY <1>6, <2>3, <2>5
    <3>2. Good(n)
      BY <2>3, <2>4, <2>5, <3>1
    <3> QED
      BY <2>1, <3>2
  <2>6. CASE IsFinding(ls[n])
    <3> DEFINE f == FindingOf(ls[n])
    <3>1. p[n] = Append(p[n - 1], f)
      BY <1>6, <2>3, <2>6
    <3>2. f \in Found(ls)
      BY <1>1, <2>3, <2>6 DEF Found
    <3> HIDE DEF f
    <3>3. p[n - 1] \in Seq(Found(ls)) /\ Len(p[n - 1]) <= n - 1
      BY <2>4
    <3>4. /\ p[n] \in Seq(Found(ls))
          /\ Len(p[n]) = Len(p[n - 1]) + 1
          /\ \A i \in 1 .. Len(p[n - 1]) : p[n][i] = p[n - 1][i]
          /\ p[n][Len(p[n - 1]) + 1] = f
      BY <3>1, <3>2, <3>3, AppendProperties
    <3>5. Len(p[n - 1]) \in Nat /\ Len(p[n]) <= n
      BY <2>3, <3>3, <3>4, LenProperties
    <3>6. DOMAIN p[n - 1] = 1 .. Len(p[n - 1]) /\ DOMAIN p[n] = 1 .. Len(p[n - 1]) + 1
      BY <3>3, <3>4, LenProperties
    <3>7. \A j \in 1 .. n : IsFinding(ls[j]) =>
            \E i \in DOMAIN p[n] : p[n][i] = FindingOf(ls[j])
      <4> SUFFICES ASSUME NEW j \in 1 .. n, IsFinding(ls[j])
                   PROVE  \E i \in DOMAIN p[n] : p[n][i] = FindingOf(ls[j])
        OBVIOUS
      <4>1. CASE j = n
        <5>1. Len(p[n - 1]) + 1 \in DOMAIN p[n]
          BY <3>5, <3>6
        <5> QED
          BY <4>1, <5>1, <3>4 DEF f
      <4>2. CASE j \in 1 .. n - 1
        <5>1. PICK i \in DOMAIN p[n - 1] : p[n - 1][i] = FindingOf(ls[j])
          BY <2>4, <4>2
        <5>2. i \in DOMAIN p[n] /\ p[n][i] = p[n - 1][i]
          BY <3>4, <3>5, <3>6, SMTT(60)
        <5> QED
          BY <5>1, <5>2
      <4> QED
        BY <4>1, <4>2, <2>3
    <3>8. Good(n)
      BY <3>4, <3>5, <3>7
    <3> QED
      BY <2>1, <3>8
  <2> QED
    BY <2>5, <2>6
<1>8. Good(Len(ls))
  BY <1>1, <1>7
<1> QED
  BY <1>1, <1>4, <1>8

Sequence(s) == s \in Seq(Range(s))

Mistyped(f) ==
  ~ (/\ f.name \in Nat /\ f.level \in Levels /\ f.span.line \in Nat
     /\ Sequence(f.message) /\ Sequence(f.span.file))

\* The findings of an output that the child may print have names, levels and
\* positions; one of level error stays one.
LEMMA FoundIsTyped ==
  ASSUME NEW ls \in Inputs
  PROVE  /\ \A f \in Found(ls) : ~ Mistyped(f)
         /\ \A j \in DOMAIN ls :
              IsFinding(ls[j]) /\ ls[j].message.level = "error" =>
                FindingOf(ls[j]).level = "error"
<1>1. SUFFICES ASSUME NEW j \in DOMAIN ls, IsFinding(ls[j])
      PROVE  /\ ~ Mistyped(FindingOf(ls[j]))
             /\ ls[j].message.level = "error" => FindingOf(ls[j]).level = "error"
  BY DEF Found
<1> DEFINE m == ls[j].message
<1>2. /\ m.code \in Nat
      /\ m.level \in Levels \cup {Missing}
      /\ m.text # Missing => Sequence(m.text)
      /\ m.span # Missing =>
           /\ m.span.line \in Nat \cup {Missing}
           /\ m.span.file # Missing => Sequence(m.span.file)
  BY <1>1, ReportAssumption DEF Sequence
<1>3. Missing \notin Levels /\ "warning" \in Levels /\ "error" \in Levels
  <2>1. LevelOrder[8] = "warning" /\ 8 \in DOMAIN LevelOrder
    BY DEF LevelOrder
  <2>2. LevelOrder[2] = "error" /\ 2 \in DOMAIN LevelOrder
    BY DEF LevelOrder
  <2> QED
    BY <2>1, <2>2, ReportAssumption DEF Levels, Range
<1> DEFINE f == FindingOf(ls[j])
<1>4. /\ f.name = m.code /\ f.level = Default(m.level, "warning")
      /\ f.span = SpanOf(m.span) /\ f.message = Default(m.text, <<>>)
  BY DEF FindingOf
<1>5. f.level \in Levels /\ (m.level = "error" => f.level = "error")
  BY <1>2, <1>3, <1>4 DEF Default
<1>6. f.span.line \in Nat
  <2>1. CASE m.span = Missing
    BY <1>4, <2>1 DEF SpanOf, NoSpan
  <2>2. CASE m.span # Missing
    <3>1. "line" \in DOMAIN NoSpan /\ NoSpan.line = 0
      BY DEF NoSpan
    <3>2. f.span.line = Default(m.span.line, 0)
      BY <1>4, <2>2, <3>1 DEF SpanOf
    <3> QED
      BY <1>2, <2>2, <3>2 DEF Default
  <2> QED
    BY <2>1, <2>2
<1>7. Sequence(<<>>)
  BY DEF Sequence
<1>8. Sequence(f.message)
  BY <1>2, <1>4, <1>7 DEF Default
<1>9. Sequence(f.span.file)
  <2>1. CASE m.span = Missing
    BY <1>4, <1>7, <2>1 DEF SpanOf, NoSpan
  <2>2. CASE m.span # Missing
    <3>1. "file" \in DOMAIN NoSpan /\ NoSpan.file = <<>>
      BY DEF NoSpan
    <3>2. f.span.file = Default(m.span.file, <<>>)
      BY <1>4, <2>2, <3>1 DEF SpanOf
    <3> QED
      BY <1>2, <1>7, <2>2, <3>2 DEF Default
  <2> QED
    BY <2>1, <2>2
<1> HIDE DEF f
<1>10. ~ Mistyped(f)
  BY <1>2, <1>4, <1>5, <1>6, <1>8, <1>9 DEF Mistyped
<1> QED
  BY <1>5, <1>10 DEF f

-----------------------------------------------------------------------------
\* The summary.

\* A strict total order on the elements of S.
TotalOn(before, S) ==
  /\ before \subseteq S \X S
  /\ \A x \in S : <<x, x>> \notin before
  /\ \A x, y \in S : x = y \/ <<x, y>> \in before \/ <<y, x>> \in before
  /\ \A x, y, z \in S : <<x, y>> \in before /\ <<y, z>> \in before => <<x, z>> \in before

\* Elements that come before x, and the place this gives x among all.
Below(before, S, x) == {y \in S : <<y, x>> \in before}

Place(before, S, x) == 1 + Cardinality(Below(before, S, x))

\* Every place is that of exactly one element.
LEMMA PlacesAreTaken ==
  ASSUME NEW S, IsFiniteSet(S), NEW before, TotalOn(before, S)
  PROVE  /\ Cardinality(S) \in Nat
         /\ \A x \in S : Place(before, S, x) \in 1 .. Cardinality(S)
         /\ \A x, y \in S : Place(before, S, x) = Place(before, S, y) => x = y
         /\ \A i \in 1 .. Cardinality(S) : \E x \in S : Place(before, S, x) = i
<1> DEFINE n == Cardinality(S)
<1>1. n \in Nat
  BY FS_CardinalityType
<1>2. \A x \in S : IsFiniteSet(Below(before, S, x)) /\ Cardinality(Below(before, S, x)) \in Nat
  <2> SUFFICES ASSUME NEW x \in S
               PROVE  IsFiniteSet(Below(before, S, x)) /\ Cardinality(Below(before, S, x)) \in Nat
    OBVIOUS
  <2>1. Below(before, S, x) \in SUBSET S
    BY DEF Below
  <2>2. IsFiniteSet(Below(before, S, x))
    BY <2>1, FS_Subset
  <2> QED
    BY <2>2, FS_CardinalityType
<1>3. \A x \in S : Place(before, S, x) \in 1 .. n
  <2> SUFFICES ASSUME NEW x \in S PROVE Place(before, S, x) \in 1 .. n
    OBVIOUS
  <2> DEFINE B == Below(before, S, x)
  <2>1. B \in SUBSET S /\ x \notin B
    BY DEF Below, TotalOn
  <2>2. Cardinality(B) <= n /\ (Cardinality(B) = n => S = B)
    BY <2>1, FS_Subset
  <2>3. Cardinality(B) \in Nat /\ Cardinality(B) < n
    BY <1>1, <1>2, <2>1, <2>2
  <2> HIDE DEF B
  <2>4. 1 + Cardinality(B) \in 1 .. n
    BY <1>1, <2>3
  <2> QED
    BY <2>4 DEF Place, B
<1>4. \A x, y \in S : <<x, y>> \in before =>
        Cardinality(Below(before, S, x)) < Cardinality(Below(before, S, y))
  <2> SUFFICES ASSUME NEW x \in S, NEW y \in S, <<x, y>> \in before
               PROVE  Cardinality(Below(before, S, x)) < Cardinality(Below(before, S, y))
    OBVIOUS
  <2> DEFINE A == Below(before, S, x)
             B == Below(before, S, y)
  <2>1. A \in SUBSET B /\ x \in B /\ x \notin A
    BY DEF Below, TotalOn
  <2>2. IsFiniteSet(B) /\ Cardinality(A) \in Nat /\ Cardinality(B) \in Nat
    BY <1>2
  <2> HIDE DEF A, B
  <2>3. Cardinality(A) <= Cardinality(B) /\ (Cardinality(B) = Cardinality(A) => B = A)
    BY <2>1, <2>2, FS_Subset
  <2>4. Cardinality(A) < Cardinality(B)
    BY <2>1, <2>2, <2>3
  <2> QED
    BY <2>4 DEF A, B
<1>5. \A x, y \in S : Place(before, S, x) = Place(before, S, y) => x = y
  <2> SUFFICES ASSUME NEW x \in S, NEW y \in S, x # y
               PROVE  Place(before, S, x) # Place(before, S, y)
    OBVIOUS
  <2> DEFINE a == Cardinality(Below(before, S, x))
             b == Cardinality(Below(before, S, y))
  <2>1. a \in Nat /\ b \in Nat
    BY <1>2
  <2>2. a < b \/ b < a
    BY <1>4 DEF TotalOn
  <2> HIDE DEF a, b
  <2>3. 1 + a # 1 + b
    BY <2>1, <2>2
  <2> QED
    BY <2>3 DEF Place, a, b
<1> DEFINE f == [x \in S |-> Place(before, S, x)]
<1>6. f \in Injection(S, 1 .. n)
  BY <1>3, <1>5 DEF Injection, IsInjective
<1>7. IsFiniteSet(1 .. n) /\ Cardinality(1 .. n) = n
  BY <1>1, FS_Interval
<1>8. f \in Surjection(S, 1 .. n)
  BY <1>6, <1>7, FS_Injection
<1>9. \A i \in 1 .. n : \E x \in S : Place(before, S, x) = i
  BY <1>8 DEF Surjection
<1> QED
  BY <1>1, <1>3, <1>5, <1>9

\* The order in which a HashMap is iterated does not show in what a stable sort
\* makes of it, if no two different entries compare equal.
LEMMA HashOrderIsHidden ==
  ASSUME NEW S, IsFiniteSet(S), NEW before, TotalOn(before, S),
         NEW hash \in SetToSeqs(S)
  PROVE  StableSort(hash, before) = Sorted(S, before)
<1> DEFINE n == Cardinality(S)
<1>1. n \in Nat
  BY PlacesAreTaken
<1>2. hash \in [1 .. n -> S] /\ \A i, j \in 1 .. n : i # j => hash[i] # hash[j]
  BY DEF SetToSeqs
<1>3. IsFiniteSet(1 .. n) /\ Cardinality(1 .. n) = n
  BY <1>1, FS_Interval
<1>4. \A x \in S : \E i \in 1 .. n : hash[i] = x
  <2>1. hash \in Injection(1 .. n, S)
    BY <1>2 DEF Injection, IsInjective
  <2>2. hash \in Surjection(1 .. n, S)
    BY <1>3, <2>1, FS_Injection
  <2> QED
    BY <2>2 DEF Surjection
<1> DEFINE Before(i) == {j \in DOMAIN hash :
                          \/ <<hash[j], hash[i]>> \in before
                          \/ <<hash[i], hash[j]>> \notin before /\ j < i}
<1>5. \A i \in 1 .. n : 1 + Cardinality(Before(i)) = Place(before, S, hash[i])
  <2> SUFFICES ASSUME NEW i \in 1 .. n
               PROVE  1 + Cardinality(Before(i)) = Place(before, S, hash[i])
    OBVIOUS
  <2> DEFINE A == {j \in 1 .. n : <<hash[j], hash[i]>> \in before}
             B == Below(before, S, hash[i])
             f == [j \in A |-> hash[j]]
  <2>1. Before(i) = A
    <3>1. ASSUME NEW j \in 1 .. n, <<hash[i], hash[j]>> \notin before, j < i
          PROVE  <<hash[j], hash[i]>> \in before
      <4>1. hash[j] # hash[i] /\ hash[j] \in S /\ hash[i] \in S
        BY <1>1, <1>2, <3>1
      <4> QED
        BY <3>1, <4>1 DEF TotalOn
    <3> QED
      BY <1>2, <3>1
  <2>2. f \in Surjection(A, B)
    <3>1. f \in [A -> B]
      BY <1>2 DEF Below
    <3>2. \A y \in B : \E j \in A : f[j] = y
      BY <1>2, <1>4 DEF Below
    <3> QED
      BY <3>1, <3>2 DEF Surjection
  <2>3. f \in Injection(A, B)
    <3>1. f \in [A -> B]
      BY <1>2 DEF Below
    <3>2. \A j, k \in A : f[j] = f[k] => j = k
      BY <1>2
    <3> QED
      BY <3>1, <3>2 DEF Injection, IsInjective
  <2>4. IsFiniteSet(A)
    <3>1. A \in SUBSET (1 .. n)
      OBVIOUS
    <3> QED
      BY <1>3, <3>1, FS_Subset
  <2> HIDE DEF A, B, f
  <2>5. Cardinality(B) = Cardinality(A)
    BY <2>2, <2>3, <2>4, FS_Surjection
  <2> QED
    BY <2>1, <2>5 DEF Place, B
<1> HIDE DEF Before
<1>6. StableSort(hash, before) =
        [p \in 1 .. n |-> hash[CHOOSE i \in 1 .. n : 1 + Cardinality(Before(i)) = p]]
  BY <1>2 DEF StableSort, Before
<1>7. Sorted(S, before) = [p \in 1 .. n |-> CHOOSE x \in S : Place(before, S, x) = p]
  BY DEF Sorted, Place, Below
<1>8. ASSUME NEW p \in 1 .. n
      PROVE  hash[CHOOSE i \in 1 .. n : 1 + Cardinality(Before(i)) = p]
               = CHOOSE x \in S : Place(before, S, x) = p
  <2> DEFINE i == CHOOSE k \in 1 .. n : 1 + Cardinality(Before(k)) = p
             x == CHOOSE y \in S : Place(before, S, y) = p
  <2>1. \E y \in S : Place(before, S, y) = p
    BY PlacesAreTaken
  <2>2. x \in S /\ Place(before, S, x) = p
    BY <2>1
  <2>3. \E k \in 1 .. n : 1 + Cardinality(Before(k)) = p
    BY <1>4, <1>5, <2>1
  <2>4. i \in 1 .. n /\ 1 + Cardinality(Before(i)) = p
    BY <2>3
  <2> HIDE DEF i, x
  <2>5. hash[i] \in S /\ Place(before, S, hash[i]) = p
    BY <1>2, <1>5, <2>4
  <2>6. hash[i] = x
    BY <2>2, <2>5, PlacesAreTaken
  <2> QED
    BY <2>6 DEF i, x
<1> QED
  BY <1>6, <1>7, <1>8

\* A count is a number.
LEMMA CountIsNat ==
  ASSUME NEW X, NEW fs \in Seq(X), NEW field, NEW v
  PROVE  Count(fs, field, v) \in Nat
<1> DEFINE T == {i \in DOMAIN fs : fs[i][field] = v}
<1>1. DOMAIN fs = 1 .. Len(fs) /\ Len(fs) \in Nat
  OBVIOUS
<1>2. IsFiniteSet(1 .. Len(fs))
  BY <1>1, FS_Interval
<1>3. T \in SUBSET (1 .. Len(fs))
  BY <1>1
<1> HIDE DEF T
<1>4. Cardinality(T) \in Nat
  BY <1>2, <1>3, FS_Subset, FS_CardinalityType
<1> QED
  BY <1>4 DEF Count, T

\* A sequence has finitely many values of a field.
LEMMA ValuesAreFinite ==
  ASSUME NEW X, NEW fs \in Seq(X), NEW field
  PROVE  IsFiniteSet(Values(fs, field))
<1> DEFINE g == [i \in DOMAIN fs |-> fs[i][field]]
<1>1. DOMAIN fs = 1 .. Len(fs) /\ Len(fs) \in Nat
  OBVIOUS
<1>2. IsFiniteSet(DOMAIN fs)
  BY <1>1, FS_Interval
<1>3. g \in Surjection(DOMAIN fs, Values(fs, field))
  BY DEF Values, Surjection
<1> QED
  BY <1>2, <1>3, FS_Surjection

\* The comparison of sorted_lints is total: it breaks its ties by name.
LEMMA CountsAreTotal ==
  ASSUME NEW X, NEW fs \in Seq(X), \A i \in DOMAIN fs : ~ Mistyped(fs[i])
  PROVE  ByCount(fs) = Frequency(fs) /\ TotalOn(Frequency(fs), Values(fs, "name"))
<1> DEFINE S == Values(fs, "name")
           n(x) == Count(fs, "name", x)
<1>1. \A x \in S : x \in Nat /\ n(x) \in Nat
  BY CountIsNat DEF Values, Mistyped
<1>2. \A x, y \in S : <<x, y>> \in Frequency(fs) <=> n(x) > n(y) \/ (n(x) = n(y) /\ x < y)
  BY DEF Frequency, MoreFrequent
<1>3. ByCount(fs) = Frequency(fs)
  BY DEF ByCount, Frequency, LintBefore, MoreFrequent
<1>4. Frequency(fs) \subseteq S \X S
  BY DEF Frequency
<1> HIDE DEF S, n
<1>5. TotalOn(Frequency(fs), S)
  BY <1>1, <1>2, <1>4 DEF TotalOn
<1> QED
  BY <1>3, <1>5 DEF S

\* The comparison of sorted_severities is total on the levels there are.
LEMMA SeveritiesAreTotal ==
  ASSUME NEW X, NEW fs \in Seq(X), \A i \in DOMAIN fs : ~ Mistyped(fs[i])
  PROVE  TotalOn(BySeverity(fs), Values(fs, "level"))
<1> DEFINE S == Values(fs, "level")
<1>1. DOMAIN LevelOrder = 1 .. 8
  BY DEF LevelOrder
<1>2. \A x \in S : LevelRank(x) \in 1 .. 8 /\ LevelOrder[LevelRank(x)] = x
  <2> SUFFICES ASSUME NEW x \in S
               PROVE  LevelRank(x) \in 1 .. 8 /\ LevelOrder[LevelRank(x)] = x
    OBVIOUS
  <2>1. x \in Levels
    BY DEF Values, Mistyped
  <2>2. \E i \in DOMAIN LevelOrder : LevelOrder[i] = x
    BY <2>1 DEF Levels, Range
  <2> QED
    BY <1>1, <2>2 DEF LevelRank
<1>3. \A x, y \in S : <<x, y>> \in BySeverity(fs) <=> LevelRank(x) > LevelRank(y)
  BY DEF BySeverity, LevelBefore
<1>4. BySeverity(fs) \subseteq S \X S
  BY DEF BySeverity
<1> HIDE DEF S
<1>5. \A x, y \in S : x = y \/ LevelRank(x) # LevelRank(y)
  BY <1>2
<1>6. TotalOn(BySeverity(fs), S)
  BY <1>2, <1>3, <1>4, <1>5 DEF TotalOn
<1> QED
  BY <1>6 DEF S

\* The part of the report after its findings.
Closing(fmt, fs) ==
  IF fmt # "text" THEN <<>>
  ELSE Summary(fs, Sorted(Values(fs, "name"), Frequency(fs)),
               Sorted(Values(fs, "level"), BySeverity(fs)))

\* print_findings_summary prints one summary, whatever its HashMaps do.
LEMMA SummaryIsFixed ==
  ASSUME NEW X, NEW fs \in Seq(X), \A i \in DOMAIN fs : ~ Mistyped(fs[i]),
         NEW fmt, NEW q \in print_findings_summary(fmt, fs)
  PROVE  q = Closing(fmt, fs)
<1>1. CASE fmt # "text"
  BY <1>1 DEF print_findings_summary, Closing
<1>2. CASE fmt = "text"
  <2>1. PICK names \in SortedEntries(Values(fs, "name"), ByCount(fs)),
             levels \in SortedEntries(Values(fs, "level"), BySeverity(fs)) :
             q = Summary(fs, names, levels)
    BY <1>2 DEF print_findings_summary
  <2>2. names = Sorted(Values(fs, "name"), Frequency(fs))
    <3>1. PICK hash \in SetToSeqs(Values(fs, "name")) : names = StableSort(hash, ByCount(fs))
      BY DEF SortedEntries
    <3> QED
      BY <3>1, CountsAreTotal, ValuesAreFinite, HashOrderIsHidden
  <2>3. levels = Sorted(Values(fs, "level"), BySeverity(fs))
    <3>1. PICK hash \in SetToSeqs(Values(fs, "level")) : levels = StableSort(hash, BySeverity(fs))
      BY DEF SortedEntries
    <3> QED
      BY <3>1, SeveritiesAreTotal, ValuesAreFinite, HashOrderIsHidden
  <2> QED
    BY <1>2, <2>1, <2>2, <2>3 DEF Closing
<1> QED
  BY <1>1, <1>2

-----------------------------------------------------------------------------
\* The report as a sequence of lines.

\* A function on the first n numbers is a sequence.
LEMMA FunctionIsSequence ==
  ASSUME NEW n \in Nat, NEW s, s = [i \in 1 .. n |-> s[i]]
  PROVE  Sequence(s) /\ Len(s) = n /\ DOMAIN s = 1 .. n
<1>1. s \in [1 .. n -> Range(s)]
  BY DEF Range
<1> QED
  BY <1>1 DEF Sequence

\* What is a sequence over some set is one over its own elements.
LEMMA SeqIsSequence ==
  ASSUME NEW X, NEW s \in Seq(X)
  PROVE  Sequence(s)
<1>1. Len(s) \in Nat /\ s = [i \in 1 .. Len(s) |-> s[i]]
  OBVIOUS
<1> QED
  BY <1>1, FunctionIsSequence

\* A sequence is the function of its elements.
LEMMA SequenceIsFunction ==
  ASSUME NEW s, Sequence(s)
  PROVE  /\ Len(s) \in Nat /\ DOMAIN s = 1 .. Len(s)
         /\ s = [i \in 1 .. Len(s) |-> s[i]]
BY DEF Sequence

\* What is in a sequence made of two.
LEMMA JoinedLines ==
  ASSUME NEW s, NEW t, Sequence(s), Sequence(t), NEW u, u = s \o t
  PROVE  /\ Sequence(u)
         /\ Len(u) = Len(s) + Len(t)
         /\ \A i \in 1 .. Len(s) : u[i] = s[i]
         /\ \A i \in 1 .. Len(t) : u[Len(s) + i] = t[i]
<1> DEFINE X == Range(s) \cup Range(t)
<1>1. s \in Seq(X) /\ t \in Seq(X)
  BY DEF Sequence
<1> HIDE DEF X
<1>2. /\ s \o t \in Seq(X)
      /\ Len(s \o t) = Len(s) + Len(t)
      /\ \A i \in 1 .. Len(s) + Len(t) :
           (s \o t)[i] = IF i <= Len(s) THEN s[i] ELSE t[i - Len(s)]
  BY <1>1, ConcatProperties
<1>3. Len(s) \in Nat /\ Len(t) \in Nat
  BY <1>1
<1>4. \A i \in 1 .. Len(t) : Len(s) + i \in 1 .. Len(s) + Len(t)
        /\ ~ (Len(s) + i <= Len(s)) /\ (Len(s) + i) - Len(s) = i
  BY <1>3
<1>6. Sequence(s \o t)
  BY <1>2, SeqIsSequence
<1> QED
  BY <1>2, <1>3, <1>4, <1>6

\* Two sequences after each other are a sequence.
LEMMA Joined ==
  ASSUME NEW s, NEW t, Sequence(s), Sequence(t)
  PROVE  Sequence(s \o t) /\ Len(s \o t) = Len(s) + Len(t)
BY JoinedLines

\* Two sequences with the same elements are the same.
LEMMA SameElements ==
  ASSUME NEW s, NEW t, Sequence(s), Sequence(t), Len(s) = Len(t),
         \A i \in 1 .. Len(s) : s[i] = t[i]
  PROVE  s = t
BY SequenceIsFunction

\* A single line is a sequence.
LEMMA OneLine ==
  ASSUME NEW x
  PROVE  Sequence(<<x>>) /\ Len(<<x>>) = 1 /\ <<x>>[1] = x
BY DEF Sequence, Range

\* The rows of a table of counts are a sequence of lines.
LEMMA RowsAreLines ==
  ASSUME NEW fs, NEW field, NEW S, IsFiniteSet(S), NEW before
  PROVE  Sequence(Rows(fs, field, Sorted(S, before)))
<1> DEFINE keys == Sorted(S, before)
           rows == Rows(fs, field, keys)
<1>1. Cardinality(S) \in Nat
  BY FS_CardinalityType
<1>2. DOMAIN keys = 1 .. Cardinality(S)
  BY DEF Sorted
<1> HIDE DEF keys
<1>3. rows = [i \in 1 .. Cardinality(S) |-> rows[i]]
  BY <1>2 DEF Rows
<1> HIDE DEF rows
<1>4. Sequence(rows)
  BY <1>1, <1>3, FunctionIsSequence
<1> QED
  BY <1>4 DEF rows, keys

\* So are the lines after the findings.
LEMMA ClosingIsSequence ==
  ASSUME NEW X, NEW fs \in Seq(X), NEW fmt
  PROVE  Sequence(Closing(fmt, fs))
<1>1. CASE fmt # "text"
  BY <1>1, FunctionIsSequence DEF Closing, Sequence
<1>2. CASE fmt = "text"
  <2> DEFINE names == Sorted(Values(fs, "name"), Frequency(fs))
             levels == Sorted(Values(fs, "level"), BySeverity(fs))
             byName == Rows(fs, "name", names)
             byLevel == Rows(fs, "level", levels)
  <2>1. Sequence(byName) /\ Sequence(byLevel)
    BY RowsAreLines, ValuesAreFinite
  <2>2. \A what, count : Sequence(Header(what, count))
    BY OneLine DEF Header
  <2> DEFINE a == Header("total", Len(fs))
             b == Header("by name", 0)
             c == Header("by severity", 0)
  <2> HIDE DEF a, b, c, byName, byLevel
  <2>3. Sequence(a) /\ Sequence(b) /\ Sequence(c)
    BY <2>2 DEF a, b, c
  <2>4. Sequence(a \o b)
    BY <2>3, Joined
  <2>5. Sequence((a \o b) \o byName)
    BY <2>1, <2>4, Joined
  <2>6. Sequence(((a \o b) \o byName) \o c)
    BY <2>3, <2>5, Joined
  <2>7. Sequence((((a \o b) \o byName) \o c) \o byLevel)
    BY <2>1, <2>6, Joined
  <2> DEFINE rest == IF fs = <<>> THEN Header("clean", 0)
                     ELSE (((a \o b) \o byName) \o c) \o byLevel
  <2>8. Sequence(rest)
    BY <2>2, <2>7
  <2> HIDE DEF rest
  <2>9. Sequence(Header("blank", 0) \o rest)
    BY <2>2, <2>8, Joined
  <2>10. Closing(fmt, fs) = Header("blank", 0) \o rest
    BY <1>2 DEF Closing, Summary, rest, a, b, c, byName, byLevel
  <2> QED
    BY <2>9, <2>10
<1> QED
  BY <1>1, <1>2

\* handle_finding writes one line for a finding, and none for sarif.
LEMMA OneLineEach ==
  ASSUME NEW fmt \in Formats, NEW f
  PROVE  /\ fmt = "sarif" => Rendered(fmt, f) = <<>>
         /\ fmt # "sarif" => Rendered(fmt, f) = <<Rendered(fmt, f)[1]>>
BY DEF Formats, Rendered

\* The lines for the findings: one each, or none for sarif.
LEMMA BodyLines ==
  ASSUME NEW fmt \in Formats, NEW X, NEW fs \in Seq(X)
  PROVE  /\ Sequence(Body(fmt, fs))
         /\ fmt = "sarif" => Body(fmt, fs) = <<>>
         /\ fmt # "sarif" => /\ Len(Body(fmt, fs)) = Len(fs)
                             /\ \A i \in 1 .. Len(fs) :
                                  Body(fmt, fs)[i] = Rendered(fmt, fs[i])[1]
<1> DEFINE b == Body(fmt, fs)
<1>1. Len(fs) \in Nat /\ DOMAIN fs = 1 .. Len(fs)
  OBVIOUS
<1>2. CASE fmt = "sarif"
  BY <1>2, FunctionIsSequence DEF Body, Sequence
<1>3. CASE fmt # "sarif"
  <2>1. b = [i \in 1 .. Len(fs) |-> Rendered(fmt, fs[i])[1]]
    BY <1>1, <1>3 DEF Body
  <2>2. b = [i \in 1 .. Len(fs) |-> b[i]]
    BY <2>1
  <2>3. \A i \in 1 .. Len(fs) : b[i] = Rendered(fmt, fs[i])[1]
    BY <2>1
  <2> HIDE DEF b
  <2>4. Sequence(b) /\ Len(b) = Len(fs)
    BY <1>1, <2>2, FunctionIsSequence
  <2> QED
    BY <1>3, <2>3, <2>4 DEF b
<1> QED
  BY <1>2, <1>3

\* A turn of the loop of run() adds the line of its finding.
LEMMA BodyGrows ==
  ASSUME NEW fmt \in Formats, NEW X, NEW fs \in Seq(X), NEW f \in X
  PROVE  Body(fmt, Append(fs, f)) = Body(fmt, fs) \o Rendered(fmt, f)
<1> DEFINE gs == Append(fs, f)
           a == Body(fmt, fs)
           b == Body(fmt, gs)
           r == Rendered(fmt, f)
<1>1. /\ gs \in Seq(X) /\ Len(gs) = Len(fs) + 1 /\ Len(fs) \in Nat
      /\ \A i \in 1 .. Len(fs) : gs[i] = fs[i]
      /\ gs[Len(fs) + 1] = f
  BY AppendProperties
<1> HIDE DEF gs
<1>2. CASE fmt = "sarif"
  <2>1. a = <<>> /\ b = <<>> /\ r = <<>>
    BY <1>1, <1>2, BodyLines, OneLineEach
  <2> QED
    BY <2>1 DEF gs
<1>3. CASE fmt # "sarif"
  <2>1. /\ Sequence(a) /\ Sequence(b)
        /\ Len(a) = Len(fs) /\ Len(b) = Len(fs) + 1
        /\ \A i \in 1 .. Len(fs) : a[i] = Rendered(fmt, fs[i])[1]
        /\ \A i \in 1 .. Len(fs) + 1 : b[i] = Rendered(fmt, gs[i])[1]
    BY <1>1, <1>3, BodyLines
  <2>2. r = <<r[1]>>
    BY <1>3, OneLineEach
  <2>3. Sequence(r) /\ Len(r) = 1
    BY <2>2, OneLine
  <2>4. r[1] = Rendered(fmt, gs[Len(fs) + 1])[1]
    BY <1>1
  <2> HIDE DEF a, b, r
  <2> DEFINE u == a \o r
  <2>shape. Sequence(a) /\ Sequence(r)
    BY <2>1, <2>3
  <2>5. Sequence(u) /\ Len(u) = Len(fs) + 1
    <3>1. Sequence(u) /\ Len(u) = Len(a) + Len(r)
      BY <2>shape, Joined
    <3> QED
      BY <3>1, <2>1, <2>3
  <2>6. \A i \in 1 .. Len(fs) + 1 : u[i] = b[i]
    <3>0. u = a \o r
      OBVIOUS
    <3> HIDE DEF u
    <3>1. \A i \in 1 .. Len(a) : u[i] = a[i]
      BY <2>shape, <3>0, JoinedLines
    <3>2. \A i \in 1 .. Len(r) : u[Len(a) + i] = r[i]
      BY <2>shape, <3>0, JoinedLines
    <3>3. 1 \in 1 .. Len(r) /\ Len(fs) \in Nat
      BY <1>1, <2>3
    <3>4. u[Len(fs) + 1] = b[Len(fs) + 1]
      <4>1. b[Len(fs) + 1] = Rendered(fmt, gs[Len(fs) + 1])[1]
        BY <2>1, <3>3
      <4> QED
        BY <4>1, <2>1, <2>4, <3>2, <3>3
    <3>5. ASSUME NEW i \in 1 .. Len(fs) PROVE u[i] = b[i]
      <4>1. a[i] = Rendered(fmt, fs[i])[1]
        BY <2>1
      <4>2. b[i] = Rendered(fmt, gs[i])[1]
        BY <2>1, <3>3
      <4> QED
        BY <4>1, <4>2, <1>1, <2>1, <3>1
    <3> QED
      BY <3>3, <3>4, <3>5
  <2>7. u = b
    <3> HIDE DEF u
    <3> QED
      BY <2>1, <2>5, <2>6, SameElements
  <2> QED
    BY <2>7 DEF a, b, r, gs
<1> QED
  BY <1>2, <1>3

\* The report is the lines for the findings and those after them.
LEMMA ReportLines ==
  ASSUME NEW fmt \in Formats, NEW X, NEW fs \in Seq(X)
  PROVE  /\ Sequence(Report(fmt, fs))
         /\ Report(fmt, fs) = Body(fmt, fs) \o Closing(fmt, fs)
         /\ Len(Report(fmt, fs)) = Len(Body(fmt, fs)) + Len(Closing(fmt, fs))
<1>1. Report(fmt, fs) = Body(fmt, fs) \o Closing(fmt, fs)
  BY DEF Report, Closing
<1> QED
  BY <1>1, BodyLines, ClosingIsSequence, Joined

\* Annotations are all that a report for GitHub has.
LEMMA GithubLines ==
  ASSUME NEW X, NEW fs \in Seq(X)
  PROVE  Len(Report("github", fs)) = Len(fs)
<1>1. "github" \in Formats
  BY DEF Formats
<1>2. Len(Report("github", fs)) = Len(Body("github", fs)) + Len(Closing("github", fs))
  BY <1>1, ReportLines
<1>3. Len(Body("github", fs)) = Len(fs) /\ Len(fs) \in Nat
  BY <1>1, BodyLines
<1>4. Len(Closing("github", fs)) = 0
  BY DEF Closing
<1> QED
  BY <1>2, <1>3, <1>4

-----------------------------------------------------------------------------
\* What has been written of the report.

\* The first lines of a report are a prefix of it.
LEMMA StartIsPrefix ==
  ASSUME NEW s, Sequence(s), NEW n \in 0 .. Len(s)
  PROVE  IsPrefix(SubSeq(s, 1, n), s) /\ Len(SubSeq(s, 1, n)) = n
<1> DEFINE u == SubSeq(s, 1, n)
<1>1. Len(s) \in Nat /\ n \in Nat /\ s \in Seq(Range(s))
  BY SequenceIsFunction DEF Sequence
<1>2. Len(u) = n
  BY <1>1
<1>3. SubSeq(u, 1, n) = u
  BY <1>1
<1> QED
  BY <1>1, <1>2, <1>3 DEF IsPrefix

\* A sequence made of two falls apart into them.
LEMMA FallsApart ==
  ASSUME NEW s, NEW t, Sequence(s), Sequence(t), NEW u, u = s \o t
  PROVE  /\ Len(s) \in 0 .. Len(u)
         /\ s = SubSeq(u, 1, Len(s))
         /\ t = SubSeq(u, Len(s) + 1, Len(u))
<1> DEFINE X == Range(s) \cup Range(t)
<1>1. s \in Seq(X) /\ t \in Seq(X)
  BY DEF Sequence
<1> HIDE DEF X
<1>2. Len(s) \in Nat /\ Len(t) \in Nat /\ Len(u) = Len(s) + Len(t)
  BY <1>1
<1>3. s = SubSeq(u, 1, Len(s))
  BY <1>1, <1>2
<1>4. t = SubSeq(u, Len(s) + 1, Len(u))
  BY <1>1, <1>2
<1> QED
  BY <1>2, <1>3, <1>4

\* The next line goes from what is to be written to what is written.
LEMMA NextLine ==
  ASSUME NEW s, Sequence(s), NEW n \in 0 .. Len(s),
         NEW q, q = SubSeq(s, n + 1, Len(s)), q # <<>>
  PROVE  /\ n + 1 \in 0 .. Len(s)
         /\ Append(SubSeq(s, 1, n), Head(q)) = SubSeq(s, 1, n + 1)
         /\ Tail(q) = SubSeq(s, (n + 1) + 1, Len(s))
<1>1. Len(s) \in Nat /\ n \in Nat /\ s \in Seq(Range(s))
  BY SequenceIsFunction DEF Sequence
<1>2. n < Len(s)
  <2>1. n + 1 > Len(s) => SubSeq(s, n + 1, Len(s)) = <<>>
    BY <1>1
  <2> QED
    BY <1>1, <2>1
<1>3. n + 1 \in 0 .. Len(s) /\ n + 1 \in 1 .. Len(s)
  BY <1>1, <1>2
<1>4. q \in Seq(Range(s)) /\ Len(q) = Len(s) - n
      /\ \A i \in 1 .. Len(s) - n : q[i] = s[n + i]
  BY <1>1, <1>2
<1>5. Head(q) = s[n + 1]
  BY <1>1, <1>2, <1>4
<1>6. Append(SubSeq(s, 1, n), s[n + 1]) = SubSeq(s, 1, n + 1)
  BY <1>1, <1>2
<1>7. Tail(q) = SubSeq(s, (n + 1) + 1, Len(s))
  BY <1>1, <1>2
<1> QED
  BY <1>3, <1>5, <1>6, <1>7

\* A sequence of which nothing is left is whole.
LEMMA NothingLeft ==
  ASSUME NEW s, Sequence(s), NEW n \in 0 .. Len(s), SubSeq(s, n + 1, Len(s)) = <<>>
  PROVE  SubSeq(s, 1, n) = s
<1>1. Len(s) \in Nat /\ n \in Nat /\ s \in Seq(Range(s))
  BY SequenceIsFunction DEF Sequence
<1>2. n = Len(s)
  <2>1. n < Len(s) => Len(SubSeq(s, n + 1, Len(s))) = Len(s) - n
    BY <1>1
  <2> QED
    BY <1>1, <2>1
<1> QED
  BY <1>1, <1>2

\* The lines of the first findings are the first lines of the report.
LEMMA BodyLeads ==
  ASSUME NEW fmt \in Formats, NEW X, NEW fs \in Seq(X), NEW gs \in Seq(X),
         IsPrefix(gs, fs)
  PROVE  LET n == Len(Body(fmt, gs))
         IN n \in 0 .. Len(Report(fmt, fs)) /\ Body(fmt, gs) = SubSeq(Report(fmt, fs), 1, n)
<1> DEFINE a == Body(fmt, gs)
           b == Body(fmt, fs)
           c == Closing(fmt, fs)
           r == Report(fmt, fs)
<1>1. r = b \o c
  BY ReportLines
<1>2. Sequence(a) /\ Sequence(b)
  BY BodyLines
<1>3. Sequence(c)
  BY ClosingIsSequence
<1>4. Sequence(r)
  BY ReportLines
<1>5. a = SubSeq(b, 1, Len(a)) /\ Len(a) \in 0 .. Len(b)
  <2>1. CASE fmt = "sarif"
    <3>1. a = <<>> /\ b = <<>>
      BY <2>1, BodyLines
    <3> QED
      BY <3>1
  <2>2. CASE fmt # "sarif"
    <3>1. Len(a) = Len(gs) /\ \A i \in 1 .. Len(gs) : a[i] = Rendered(fmt, gs[i])[1]
      BY <2>2, BodyLines
    <3>2. Len(b) = Len(fs) /\ \A i \in 1 .. Len(fs) : b[i] = Rendered(fmt, fs[i])[1]
      BY <2>2, BodyLines
    <3>3. Len(gs) \in Nat /\ Len(fs) \in Nat /\ Len(gs) <= Len(fs)
      BY DEF IsPrefix
    <3>4. \A i \in 1 .. Len(gs) : gs[i] = fs[i]
      <4>1. gs = SubSeq(fs, 1, Len(gs))
        BY <3>3 DEF IsPrefix
      <4>2. \A i \in 1 .. Len(gs) : SubSeq(fs, 1, Len(gs))[i] = fs[i]
        BY <3>3
      <4> QED
        BY <4>1, <4>2
    <3> HIDE DEF a, b
    <3>5. \A i \in 1 .. Len(a) : a[i] = b[i]
      BY <3>1, <3>2, <3>3, <3>4
    <3> DEFINE p == SubSeq(b, 1, Len(a))
    <3>6. Sequence(p) /\ Len(p) = Len(a) /\ \A i \in 1 .. Len(a) : p[i] = b[i]
      <4>1. b \in Seq(Range(b)) /\ Len(a) \in Nat /\ Len(a) <= Len(b) /\ Len(b) \in Nat
        BY <1>2, <3>1, <3>2, <3>3 DEF Sequence
      <4>2. p \in Seq(Range(b)) /\ Len(p) = Len(a) /\ \A i \in 1 .. Len(a) : p[i] = b[i]
        BY <4>1
      <4> QED
        BY <4>2, SeqIsSequence
    <3> HIDE DEF p
    <3>7. a = p
      BY <1>2, <3>5, <3>6, SameElements
    <3> QED
      BY <3>1, <3>2, <3>3, <3>7 DEF p
  <2> QED
    BY <2>1, <2>2
<1> HIDE DEF a, b, c, r
<1>6. Len(b) \in 0 .. Len(r) /\ b = SubSeq(r, 1, Len(b))
  BY <1>1, <1>2, <1>3, FallsApart
<1>7. Len(a) \in 0 .. Len(r) /\ a = SubSeq(r, 1, Len(a))
  <2>1. r \in Seq(Range(r)) /\ Len(r) \in Nat
    BY <1>4 DEF Sequence
  <2>2. Len(a) \in Nat /\ Len(b) \in Nat /\ Len(a) <= Len(b) /\ Len(b) <= Len(r)
    BY <1>5, <1>6, <2>1
  <2>3. SubSeq(SubSeq(r, 1, Len(b)), 1, Len(a)) = SubSeq(r, 1, Len(a))
    BY <2>1, <2>2
  <2> QED
    BY <1>5, <1>6, <2>2, <2>3
<1> QED
  BY <1>7 DEF a, r

-----------------------------------------------------------------------------
\* The steps.

\* The initial states satisfy the inductive invariant.
LEMMA ReportInit == Init => ReportInv
<1> SUFFICES ASSUME Init PROVE ReportInv
  OBVIOUS
<1> USE DEF Init
<1>1. Len(lines) \in Nat
  BY ReportAssumption
<1>2. status # 0 /\ status \notin {0, 1, 101}
  BY ReportAssumption
<1>3. {findings, acc} \subseteq Seq(Range(findings)) /\ IsPrefix(acc, findings)
  BY DEF IsPrefix
<1>4. TypeOK
  BY <1>1, <1>3 DEF TypeOK
<1>5. FindingsAreParsed /\ ErrorsNeverPass
  BY <1>2 DEF FindingsAreParsed, ErrorsNeverPass
<1>6. ReportSoFar /\ ReportFollowsFindings
  BY <1>2 DEF ReportSoFar, ReportFollowsFindings
<1> QED
  BY <1>4, <1>5, <1>6 DEF ReportInv

\* Parsing what the child printed keeps the invariant.
LEMMA CollectStep == ReportInv /\ Collect => ReportInv'
<1> SUFFICES ASSUME ReportInv, Collect PROVE ReportInv'
  OBVIOUS
<1> USE DEF ReportInv
<1>1. /\ pc = "collect" /\ ~ listing /\ pc' = "findings" /\ status = Missing
      /\ findings' = parse_dylint_output(lines)
      /\ UNCHANGED <<format, listing, lines, acc, queue, out, reader, status>>
      /\ findings = <<>> /\ acc = <<>> /\ out = <<>>
  <2>1. findings = <<>>
    BY DEF Collect, FindingsAreParsed
  <2>2. acc = <<>>
    BY <2>1 DEF TypeOK, IsPrefix
  <2> QED
    BY <2>1, <2>2 DEF Collect, TypeOK, FindingsAreParsed
<1>2. status \notin {0, 1, 101} /\ lines \in Inputs /\ format \in Formats
  BY <1>1, ReportAssumption DEF TypeOK
<1>3. /\ findings' \in Seq(Found(lines)) /\ Len(findings') <= Len(lines)
      /\ \A f \in Found(lines) : ~ Mistyped(f)
  BY <1>1, <1>2, ReportAssumption, ParsedLines, FoundIsTyped
<1>4. Sequence(findings')
  BY <1>3, SeqIsSequence
<1>5. \A i \in DOMAIN findings' : ~ Mistyped(findings'[i])
  BY <1>3
<1>6. IsPrefix(acc', findings') /\ acc' \in Seq(Range(findings'))
  BY <1>1, <1>3 DEF IsPrefix
<1>7. TypeOK'
  BY <1>1, <1>2, <1>3, <1>4, <1>5, <1>6 DEF TypeOK, Mistyped, Sequence
<1>8. FindingsAreParsed' /\ ErrorsNeverPass'
  BY <1>1, <1>2 DEF FindingsAreParsed, ErrorsNeverPass
<1>9. out' = Body(format', acc')
  <2>1. Sequence(Body(format, <<>>)) /\ Len(Body(format, <<>>)) = 0
    <3>1. <<>> \in Seq({}) /\ Len(<<>>) = 0
      OBVIOUS
    <3>2. format = "sarif" => Body(format, <<>>) = <<>>
      BY <1>2, <3>1, BodyLines
    <3>3. format # "sarif" => Len(Body(format, <<>>)) = Len(<<>>)
      BY <1>2, <3>1, BodyLines
    <3> QED
      BY <1>2, <3>1, <3>2, <3>3, BodyLines
  <2> QED
    BY <1>1, <2>1 DEF Sequence
<1>10. ReportSoFar'
  BY <1>1, <1>2, <1>9 DEF ReportSoFar
<1>11. ReportFollowsFindings'
  <2>1. Sequence(Report(format', findings'))
    BY <1>1, <1>2, <1>3, ReportLines
  <2>2. IsPrefix(<<>>, Report(format', findings'))
    BY <2>1 DEF IsPrefix, Sequence
  <2> QED
    BY <1>1, <1>2, <2>2 DEF ReportFollowsFindings
<1> QED
  BY <1>7, <1>8, <1>10, <1>11

\* So does a child that failed: nothing was printed.
LEMMA CollectFailsStep == ReportInv /\ CollectFails => ReportInv'
<1> SUFFICES ASSUME ReportInv, CollectFails PROVE ReportInv'
  OBVIOUS
<1> USE DEF ReportInv
<1>1. /\ pc = "collect" /\ ~ listing /\ pc' = "exited" /\ status' = 1
      /\ UNCHANGED <<format, listing, lines, reader, findings, acc, queue, out>>
      /\ findings = <<>> /\ out = <<>> /\ format \in Formats
  BY DEF CollectFails, Exit, FindingsAreParsed, TypeOK
<1>2. TypeOK'
  BY <1>1, ReportAssumption DEF TypeOK
<1>3. FindingsAreParsed' /\ ErrorsNeverPass' /\ ReportSoFar'
  BY <1>1 DEF FindingsAreParsed, ErrorsNeverPass, ReportSoFar
<1>4. ReportFollowsFindings'
  <2>1. findings \in Seq({})
    BY <1>1
  <2>2. Sequence(Report(format, findings))
    BY <1>1, <2>1, ReportLines
  <2>3. IsPrefix(<<>>, Report(format, findings))
    BY <2>2 DEF IsPrefix, Sequence
  <2> QED
    BY <1>1, <2>3 DEF ReportFollowsFindings
<1> QED
  BY <1>2, <1>3, <1>4

\* So does --list-lints, which finds nothing.
LEMMA ListLintsStep == ReportInv /\ ListLints => ReportInv'
<1> SUFFICES ASSUME ReportInv, ListLints PROVE ReportInv'
  OBVIOUS
<1> USE DEF ReportInv
<1>1. /\ listing /\ pc = "collect" /\ pc' = "flush"
      /\ UNCHANGED <<format, listing, lines, findings, acc, out, reader, status>>
  BY DEF ListLints
<1>2. TypeOK'
  BY <1>1 DEF TypeOK
<1>3. FindingsAreParsed'
  BY <1>1 DEF FindingsAreParsed
<1>4. ErrorsNeverPass' /\ ReportSoFar' /\ ReportFollowsFindings'
  BY <1>1 DEF ErrorsNeverPass, ReportSoFar, ReportFollowsFindings
<1> QED
  BY <1>2, <1>3, <1>4

\* A finding is written, or the reader is gone.
LEMMA HandleFindingStep == ReportInv /\ HandleFinding => ReportInv'
<1> SUFFICES ASSUME ReportInv, HandleFinding PROVE ReportInv'
  OBVIOUS
<1> USE DEF ReportInv
<1> DEFINE X == Range(findings)
           f == findings[Len(acc) + 1]
           r == Report(format, findings)
<1>1. /\ pc = "findings" /\ Len(acc) < Len(findings) /\ acc' = Append(acc, f)
      /\ UNCHANGED <<format, listing, lines, reader, findings, queue>>
  BY DEF HandleFinding, Exit
<1>2. /\ findings \in Seq(X) /\ acc \in Seq(X) /\ IsPrefix(acc, findings)
      /\ format \in Formats /\ status = Missing
  BY <1>1 DEF TypeOK
<1>3. f \in X
  <2>1. Len(acc) + 1 \in DOMAIN findings
    BY <1>1, <1>2
  <2> QED
    BY <2>1 DEF Range
<1>4. acc' \in Seq(X) /\ IsPrefix(acc', findings)
  <2> HIDE DEF X
  <2>1. Append(acc, f) \in Seq(X) /\ Len(Append(acc, f)) = Len(acc) + 1
    BY <1>2, <1>3, AppendProperties
  <2>2. Len(acc) \in Nat /\ Len(findings) \in Nat /\ Len(acc) + 1 <= Len(findings)
    BY <1>1, <1>2
  <2>3. acc = SubSeq(findings, 1, Len(acc))
    <3>1. SubSeq(acc, 1, Len(acc)) = acc
      BY <1>2
    <3> QED
      BY <1>2, <3>1 DEF IsPrefix
  <2>4. Append(SubSeq(findings, 1, Len(acc)), f) = SubSeq(findings, 1, Len(acc) + 1)
    BY <1>2, <2>2
  <2>5. acc' = SubSeq(findings, 1, Len(acc'))
    BY <1>1, <2>1, <2>3, <2>4
  <2>6. SubSeq(acc', 1, Len(acc')) = acc'
    BY <1>1, <2>1
  <2> QED
    BY <1>1, <2>1, <2>2, <2>5, <2>6 DEF IsPrefix
<1>5. status \notin {0, 1, 101}
  BY <1>2, ReportAssumption
<1>6. ~ listing => out = Body(format, acc)
  BY <1>1 DEF ReportSoFar
<1>7. CASE UNCHANGED <<pc, status>> /\ out' = out \o Rendered(format, f)
  <2>1. TypeOK'
    <3>1. Sequence(Rendered(format, f))
      <4>1. Sequence(<<>>) /\ \A y : Sequence(<<y>>)
        BY OneLine DEF Sequence
      <4> QED
        BY <1>2, <4>1, OneLineEach
    <3>2. Sequence(out)
      BY FunctionIsSequence DEF TypeOK
    <3>3. Sequence(out')
      BY <1>7, <3>1, <3>2, Joined
    <3>4. Len(out') \in Nat /\ out' = [i \in 1 .. Len(out') |-> out'[i]]
      BY <3>3, SequenceIsFunction
    <3> QED
      BY <1>1, <1>2, <1>4, <1>7, <3>4 DEF TypeOK
  <2>2. FindingsAreParsed' /\ ErrorsNeverPass'
    BY <1>1, <1>2, <1>5, <1>7 DEF FindingsAreParsed, ErrorsNeverPass
  <2>3. ~ listing => out' = Body(format, acc')
    BY <1>1, <1>2, <1>3, <1>6, <1>7, BodyGrows
  <2>4. ReportSoFar'
    <3>1. ~ listing /\ format = "github" => Len(out') <= Len(acc')
      <4>1. format = "github" => Len(Body(format, acc')) = Len(acc')
        BY <1>2, <1>4, BodyLines
      <4>2. Len(acc') \in Nat
        BY <1>4
      <4> QED
        BY <2>3, <4>1, <4>2
    <3> QED
      BY <1>1, <1>5, <1>7, <2>3, <3>1 DEF ReportSoFar
  <2>5. ~ listing => IsPrefix(out', r)
    <3> DEFINE n == Len(Body(format, acc'))
    <3>1. n \in 0 .. Len(r) /\ Body(format, acc') = SubSeq(r, 1, n)
      BY <1>2, <1>4, BodyLeads
    <3>2. Sequence(r)
      BY <1>2, ReportLines
    <3> HIDE DEF n, r
    <3>3. IsPrefix(SubSeq(r, 1, n), r)
      BY <3>1, <3>2, StartIsPrefix
    <3> QED
      BY <2>3, <3>1, <3>3
  <2>6. ReportFollowsFindings'
    BY <1>1, <1>5, <1>7, <2>5 DEF ReportFollowsFindings
  <2> QED
    BY <2>1, <2>2, <2>4, <2>6
<1>8. CASE pc' = "exited" /\ status' = 1 /\ UNCHANGED out
  <2>1. TypeOK'
    BY <1>1, <1>2, <1>4, <1>8, ReportAssumption DEF TypeOK
  <2>2. FindingsAreParsed' /\ ErrorsNeverPass'
    BY <1>1, <1>8 DEF FindingsAreParsed, ErrorsNeverPass
  <2>3. ReportSoFar'
    <3>1. ~ listing /\ format = "github" => Len(out) <= Len(acc')
      <4>1. format = "github" => Len(Body(format, acc)) = Len(acc)
        BY <1>2, BodyLines
      <4>2. Len(acc) \in Nat /\ Len(acc') = Len(acc) + 1
        BY <1>1, <1>2, <1>3
      <4> QED
        BY <1>6, <4>1, <4>2
    <3> QED
      BY <1>1, <1>8, <3>1 DEF ReportSoFar
  <2>4. ReportFollowsFindings'
    BY <1>1, <1>8 DEF ReportFollowsFindings
  <2> QED
    BY <2>1, <2>2, <2>3, <2>4
<1> QED
  BY <1>7, <1>8 DEF HandleFinding, Exit

\* The summary is what is left of the report after the findings.
LEMMA SummariseStep == ReportInv /\ Summarise => ReportInv'
<1> SUFFICES ASSUME ReportInv, Summarise PROVE ReportInv'
  OBVIOUS
<1> USE DEF ReportInv
<1> DEFINE X == Range(findings)
           r == Report(format, findings)
<1>1. /\ pc = "findings" /\ Len(acc) = Len(findings) /\ pc' = "flush"
      /\ queue' \in print_findings_summary(format, acc)
      /\ UNCHANGED <<format, listing, lines, findings, acc, out, reader, status>>
  BY DEF Summarise
<1>2. /\ findings \in Seq(X) /\ acc \in Seq(X) /\ IsPrefix(acc, findings)
      /\ format \in Formats /\ status = Missing
      /\ \A i \in DOMAIN findings : ~ Mistyped(findings[i])
  BY <1>1 DEF TypeOK, Mistyped, Sequence
<1>3. status \notin {0, 1, 101}
  BY <1>2, ReportAssumption
<1>4. acc = findings
  <2> HIDE DEF X
  <2>1. SubSeq(acc, 1, Len(acc)) = acc /\ SubSeq(findings, 1, Len(findings)) = findings
    BY <1>2
  <2> QED
    BY <1>1, <1>2, <2>1 DEF IsPrefix
<1>5. queue' = Closing(format, findings)
  BY <1>1, <1>2, <1>4, SummaryIsFixed
<1>6. TypeOK' /\ FindingsAreParsed' /\ ErrorsNeverPass' /\ ReportFollowsFindings'
  BY <1>1, <1>2, <1>3 DEF TypeOK, FindingsAreParsed, ErrorsNeverPass, ReportFollowsFindings
<1>7. ~ listing => \E n \in 0 .. Len(r) : out = SubSeq(r, 1, n)
                                         /\ queue' = SubSeq(r, n + 1, Len(r))
  <2> SUFFICES ASSUME ~ listing
               PROVE  \E n \in 0 .. Len(r) : out = SubSeq(r, 1, n)
                                            /\ queue' = SubSeq(r, n + 1, Len(r))
    OBVIOUS
  <2> DEFINE b == Body(format, findings)
             c == Closing(format, findings)
  <2>1. out = b
    BY <1>1, <1>4 DEF ReportSoFar
  <2>2. Sequence(b) /\ Sequence(c) /\ r = b \o c
    BY <1>2, BodyLines, ClosingIsSequence, ReportLines
  <2> HIDE DEF b, c, r
  <2>3. Len(b) \in 0 .. Len(r) /\ b = SubSeq(r, 1, Len(b)) /\ c = SubSeq(r, Len(b) + 1, Len(r))
    BY <2>2, FallsApart
  <2> QED
    BY <1>5, <2>1, <2>3 DEF c
<1>8. ReportSoFar'
  BY <1>1, <1>3, <1>4, <1>7 DEF ReportSoFar
<1> QED
  BY <1>6, <1>8

\* A line moves from what is to be written to what is written.
LEMMA WriteLineStep == ReportInv /\ WriteLine => ReportInv'
<1> SUFFICES ASSUME ReportInv, WriteLine PROVE ReportInv'
  OBVIOUS
<1> USE DEF ReportInv
<1> DEFINE r == Report(format, findings)
<1>1. /\ pc = "flush" /\ queue # <<>> /\ out' = Append(out, Head(queue))
      /\ queue' = Tail(queue)
      /\ UNCHANGED <<format, listing, lines, findings, acc, pc, reader, status>>
  BY DEF WriteLine
<1>2. /\ findings \in Seq(Range(findings)) /\ format \in Formats /\ status = Missing
  BY <1>1 DEF TypeOK
<1>3. status \notin {0, 1, 101}
  BY <1>2, ReportAssumption
<1>4. TypeOK' /\ FindingsAreParsed' /\ ErrorsNeverPass'
  <2>1. out \in Seq(Range(out))
    BY FunctionIsSequence DEF TypeOK, Sequence
  <2>2. out' \in Seq(Range(out) \cup {Head(queue)})
    BY <1>1, <2>1
  <2>3. Len(out') \in Nat /\ out' = [i \in 1 .. Len(out') |-> out'[i]]
    BY <2>2
  <2> QED
    BY <1>1, <1>2, <1>3, <2>3 DEF TypeOK, FindingsAreParsed, ErrorsNeverPass
<1>5. ASSUME ~ listing
      PROVE  /\ IsPrefix(out', r)
             /\ format = "github" => Len(out') <= Len(acc)
             /\ \E n \in 0 .. Len(r) : /\ out' = SubSeq(r, 1, n)
                                      /\ queue' = SubSeq(r, n + 1, Len(r))
  <2>1. Sequence(r)
    BY <1>2, ReportLines
  <2>2. PICK n \in 0 .. Len(r) : out = SubSeq(r, 1, n) /\ queue = SubSeq(r, n + 1, Len(r))
    BY <1>1, <1>5 DEF ReportSoFar
  <2> HIDE DEF r
  <2>3. /\ n + 1 \in 0 .. Len(r)
        /\ out' = SubSeq(r, 1, n + 1)
        /\ queue' = SubSeq(r, (n + 1) + 1, Len(r))
    BY <1>1, <2>1, <2>2, NextLine
  <2>4. IsPrefix(out', r) /\ Len(out') = n + 1
    BY <2>1, <2>3, StartIsPrefix
  <2>5. format = "github" => Len(r) = Len(acc)
    <3>1. acc = findings
      BY <1>1, <1>5 DEF ReportSoFar
    <3> QED
      BY <1>2, <3>1, GithubLines DEF r
  <2>6. Len(r) \in Nat
    BY <2>1, SequenceIsFunction
  <2> QED
    BY <2>3, <2>4, <2>5, <2>6
<1>6. ReportSoFar'
  BY <1>1, <1>3, <1>5 DEF ReportSoFar
<1>7. ReportFollowsFindings'
  BY <1>1, <1>3, <1>5 DEF ReportFollowsFindings
<1> QED
  BY <1>4, <1>6, <1>7

\* A write nobody reads ends the run: what was written stays a prefix.
LEMMA WriteLineFailsStep == ReportInv /\ WriteLineFails => ReportInv'
<1> SUFFICES ASSUME ReportInv, WriteLineFails PROVE ReportInv'
  OBVIOUS
<1> USE DEF ReportInv
<1>1. /\ pc = "flush" /\ pc' = "exited" /\ status' \in {1, 101}
      /\ UNCHANGED <<format, listing, lines, reader, findings, acc, queue, out>>
  BY DEF WriteLineFails, Exit
<1>2. status' # 0 /\ status' # Missing
  BY <1>1, ReportAssumption
<1>3. TypeOK' /\ FindingsAreParsed' /\ ErrorsNeverPass'
  BY <1>1, <1>2 DEF TypeOK, FindingsAreParsed, ErrorsNeverPass
<1>4. ReportSoFar' /\ ReportFollowsFindings'
  BY <1>1, <1>2 DEF ReportSoFar, ReportFollowsFindings
<1> QED
  BY <1>3, <1>4

\* Nothing is left to be written: all of the report was.
LEMMA WrittenStep == ReportInv /\ Written => ReportInv'
<1> SUFFICES ASSUME ReportInv, Written PROVE ReportInv'
  OBVIOUS
<1> USE DEF ReportInv
<1> DEFINE r == Report(format, findings)
<1>1. /\ pc = "flush" /\ queue = <<>> /\ pc' = "verdict"
      /\ UNCHANGED <<format, listing, lines, findings, acc, queue, out, reader, status>>
  BY DEF Written
<1>2. /\ findings \in Seq(Range(findings)) /\ format \in Formats /\ status = Missing
  BY <1>1 DEF TypeOK
<1>3. status \notin {0, 1, 101}
  BY <1>2, ReportAssumption
<1>4. TypeOK' /\ FindingsAreParsed' /\ ErrorsNeverPass'
  BY <1>1, <1>2, <1>3 DEF TypeOK, FindingsAreParsed, ErrorsNeverPass
<1>5. ~ listing => out = r
  <2> SUFFICES ASSUME ~ listing PROVE out = r
    OBVIOUS
  <2>1. Sequence(r)
    BY <1>2, ReportLines
  <2>2. PICK n \in 0 .. Len(r) : out = SubSeq(r, 1, n) /\ queue = SubSeq(r, n + 1, Len(r))
    BY <1>1 DEF ReportSoFar
  <2> HIDE DEF r
  <2> QED
    BY <1>1, <2>1, <2>2, NothingLeft
<1>6. ReportSoFar'
  BY <1>1, <1>3 DEF ReportSoFar
<1>7. ReportFollowsFindings'
  BY <1>1, <1>3, <1>5 DEF ReportFollowsFindings
<1> QED
  BY <1>4, <1>6, <1>7

\* A run that passes has no finding of error level.
LEMMA VerdictStep == ReportInv /\ Verdict => ReportInv'
<1> SUFFICES ASSUME ReportInv, Verdict PROVE ReportInv'
  OBVIOUS
<1> USE DEF ReportInv
<1>1. /\ pc = "verdict" /\ pc' = "exited"
      /\ status' = IF HasErrors(findings) THEN 1 ELSE 0
      /\ UNCHANGED <<format, listing, lines, reader, findings, acc, queue, out>>
  BY DEF Verdict, Exit
<1>2. status' \in {0, 1} /\ status' # Missing /\ (status' = 0 => ~ HasErrors(findings))
  BY <1>1, ReportAssumption
<1>3. TypeOK'
  BY <1>1, <1>2 DEF TypeOK
<1>4. FindingsAreParsed'
  BY <1>1, <1>2 DEF FindingsAreParsed
<1>5. ReportSoFar'
  BY <1>1, <1>2 DEF ReportSoFar
<1>6. ReportFollowsFindings'
  BY <1>1, <1>2 DEF ReportFollowsFindings
<1>7. ErrorsNeverPass'
  <2> SUFFICES ASSUME ~ listing, status' = 0, NEW j \in DOMAIN lines,
                      IsFinding(lines[j]), lines[j].message.level = "error"
               PROVE  FALSE
    BY <1>1 DEF ErrorsNeverPass
  <2>1. findings = parse_dylint_output(lines) /\ lines \in Inputs
    BY <1>1 DEF FindingsAreParsed, TypeOK
  <2>2. \E i \in DOMAIN findings : findings[i] = FindingOf(lines[j])
    BY <2>1, ReportAssumption, ParsedLines
  <2>3. FindingOf(lines[j]).level = "error"
    BY <2>1, FoundIsTyped
  <2>4. HasErrors(findings)
    BY <2>2, <2>3 DEF HasErrors
  <2> QED
    BY <1>2, <2>4
<1> QED
  BY <1>3, <1>4, <1>5, <1>6, <1>7

\* The invariant is about the state of the run only.
LEMMA ReportUnchanged ==
  ReportInv /\ UNCHANGED <<format, listing, lines, findings, acc, queue, pc, out, status>>
    /\ reader' \in BOOLEAN => ReportInv'
<1> SUFFICES ASSUME ReportInv, reader' \in BOOLEAN,
                    UNCHANGED <<format, listing, lines, findings, acc, queue, pc, out, status>>
             PROVE  ReportInv'
  OBVIOUS
<1>1. TypeOK'
  BY DEF ReportInv, TypeOK
<1>2. FindingsAreParsed' /\ ErrorsNeverPass'
  BY DEF ReportInv, FindingsAreParsed, ErrorsNeverPass
<1>3. ReportSoFar'
  BY DEF ReportInv, ReportSoFar
<1>4. ReportFollowsFindings'
  BY DEF ReportInv, ReportFollowsFindings
<1> QED
  BY <1>1, <1>2, <1>3, <1>4 DEF ReportInv

\* ReportInv is an invariant, whatever the HashMaps and the reader do.
THEOREM ReportInductive == Spec => []ReportInv
<1>1. ReportInv /\ [Next]_vars => ReportInv'
  <2> SUFFICES ASSUME ReportInv, [Next]_vars PROVE ReportInv'
    OBVIOUS
  <2>1. CASE Program
    BY <2>1, CollectStep, CollectFailsStep, ListLintsStep, HandleFindingStep, SummariseStep,
       WriteLineStep, WriteLineFailsStep, WrittenStep, VerdictStep DEF Program
  <2>2. CASE ReaderCloses
    BY <2>2, ReportUnchanged DEF ReaderCloses
  <2>3. CASE UNCHANGED vars
    <3>1. reader' \in BOOLEAN
      BY <2>3 DEF ReportInv, TypeOK, vars
    <3> QED
      BY <2>3, <3>1, ReportUnchanged DEF vars
  <2> QED
    BY <2>1, <2>2, <2>3 DEF Next, Exited
<1> QED
  BY <1>1, ReportInit, PTL DEF Spec

\* A reader gets the report of the findings up to where it stopped reading, and
\* a run that exits with 0 printed all of it.
THEOREM ReportFollows == Spec => []ReportFollowsFindings
<1>1. ReportInv => ReportFollowsFindings
  BY DEF ReportInv
<1> QED
  BY <1>1, ReportInductive, PTL

\* No run passes on an output with an error that has a code.
THEOREM NoErrorPasses == Spec => []ErrorsNeverPass
<1>1. ReportInv => ErrorsNeverPass
  BY DEF ReportInv
<1> QED
  BY <1>1, ReportInductive, PTL

\* Each of the four lists of levels, taken by itself: what the annotation, the
\* diagnostic and the SARIF result make of a finding, and when a run fails.
LEMMA SeveritiesMatch ==
  ASSUME NEW f
  PROVE  /\ format_github_annotation(f).severity = "error" <=> f.level \in {"error", "deny"}
         /\ format_diagnostic(f).severity = "error" <=> f.level \in {"error", "deny"}
         /\ SarifLevel(f.level) = format_diagnostic(f).severity
         /\ HasErrors(<<f>>) <=> f.level \in {"error", "deny"}
<1>1. DiagnosticSeverity(f.level) = "error" <=> f.level \in {"error", "deny"}
  BY DEF DiagnosticSeverity
<1>2. SarifLevel(f.level) = DiagnosticSeverity(f.level)
  BY DEF DiagnosticSeverity, SarifLevel
<1>3. format_diagnostic(f).severity = DiagnosticSeverity(f.level)
  BY DEF format_diagnostic
<1>4. format_github_annotation(f).severity = AnnotationSeverity(f.level)
  BY DEF format_github_annotation
<1>5. AnnotationSeverity(f.level) = "error" <=> f.level \in {"error", "deny"}
  BY DEF AnnotationSeverity
<1>6. HasErrors(<<f>>) <=> f.level \in {"error", "deny"}
  BY DEF HasErrors
<1> QED
  BY <1>1, <1>2, <1>3, <1>4, <1>5, <1>6

\* The renderings and the exit code agree on what an error is, although each
\* goes by a list of its own.
THEOREM RenderingsAgreed == Spec => []RenderingsAgree
<1>1. ReportInv => RenderingsAgree
  <2> SUFFICES ASSUME ReportInv, NEW i \in DOMAIN acc
               PROVE  LET results == generate_sarif_report(acc).results
                          annotation == format_github_annotation(acc[i])
                          diagnostic == format_diagnostic(acc[i])
                      IN /\ results[i].level = diagnostic.severity
                         /\ annotation.severity = "error" <=> results[i].level = "error"
                         /\ HasErrors(<<acc[i]>>) <=> diagnostic.severity = "error"
                         /\ annotation.line = IF results[i].region = <<>> THEN 0
                                              ELSE results[i].region[1].startLine
    BY DEF RenderingsAgree
  <2> DEFINE f == acc[i]
             result == generate_sarif_report(acc).results[i]
  <2>1. f.span.line \in Nat
    <3>1. acc \in Seq(Range(findings))
      BY DEF ReportInv, TypeOK
    <3>2. PICK k \in DOMAIN findings : f = findings[k]
      BY <3>1 DEF Range
    <3>3. findings[k].span.line \in Nat
      BY <3>2 DEF ReportInv, TypeOK
    <3> QED
      BY <3>2, <3>3
  <2>2. result = SarifResult(f)
    BY DEF generate_sarif_report, SarifReport
  <2> HIDE DEF f, result
  <2>3. result.level = SarifLevel(f.level) /\ result.region = SarifRegion(f.span)
    BY <2>2 DEF SarifResult
  <2>4. format_github_annotation(f).line = f.span.line
    BY DEF format_github_annotation
  <2>5. f.span.line = IF result.region = <<>> THEN 0 ELSE result.region[1].startLine
    <3>1. CASE f.span.line > 0
      <4> DEFINE region == [startLine |-> f.span.line, startColumn |-> Positive(f.span.col),
                            endLine |-> Positive(f.span.lineEnd),
                            endColumn |-> Positive(f.span.colEnd)]
      <4>1. result.region = <<region>>
        BY <2>3, <3>1 DEF SarifRegion
      <4>2. region.startLine = f.span.line
        OBVIOUS
      <4> HIDE DEF region
      <4>3. <<region>> # <<>> /\ <<region>>[1] = region
        OBVIOUS
      <4> QED
        BY <4>1, <4>2, <4>3
    <3>2. CASE ~ f.span.line > 0
      BY <2>1, <2>3, <3>2 DEF SarifRegion
    <3> QED
      BY <3>1, <3>2
  <2> QED
    BY <2>3, <2>4, <2>5, SeveritiesMatch DEF f, result
<1> QED
  BY <1>1, ReportInductive, PTL

\* The exit code says what the printed lines say.
THEOREM ExitAgreed == Spec => ExitAgreesWithOutput
<1> DEFINE Agrees == pc = "verdict" /\ pc' # pc /\ ~ listing /\ format \in {"text", "github"} =>
                       (status' = 1 <=> \E i \in DOMAIN acc : out[i].severity = "error")
<1>1. ReportInv /\ [Next]_vars => [Agrees]_vars
  <2> SUFFICES ASSUME ReportInv, Next, pc = "verdict", pc' # pc, ~ listing,
                      format \in {"text", "github"}
               PROVE  status' = 1 <=> \E i \in DOMAIN acc : out[i].severity = "error"
    OBVIOUS
  <2>1. Verdict
    BY DEF Next, Program, Collect, CollectFails, ListLints, HandleFinding, Summarise,
           WriteLine, WriteLineFails, Written, ReaderCloses, Exited
  <2>2. status' = 1 <=> HasErrors(findings)
    BY <2>1 DEF Verdict, Exit
  <2>3. /\ acc = findings /\ out = Report(format, findings)
        /\ findings \in Seq(Range(findings)) /\ format \in Formats /\ format # "sarif"
    BY DEF ReportInv, TypeOK, ReportSoFar, ReportFollowsFindings
  <2>4. \A i \in DOMAIN findings : out[i].severity = "error" <=> findings[i].level \in {"error", "deny"}
    <3> SUFFICES ASSUME NEW i \in DOMAIN findings
                 PROVE  out[i].severity = "error" <=> findings[i].level \in {"error", "deny"}
      OBVIOUS
    <3> DEFINE b == Body(format, findings)
               c == Closing(format, findings)
               x == Rendered(format, findings[i])[1]
    <3>1. Sequence(b) /\ Sequence(c) /\ out = b \o c
      BY <2>3, BodyLines, ClosingIsSequence, ReportLines
    <3>2. Len(b) = Len(findings) /\ \A k \in 1 .. Len(findings) : b[k] = Rendered(format, findings[k])[1]
      BY <2>3, BodyLines
    <3>3. i \in 1 .. Len(b)
      BY <2>3, <3>2
    <3>4. b[i] = x
      BY <2>3, <3>2
    <3> HIDE DEF b, c
    <3>5. out[i] = b[i]
      BY <3>1, <3>3, JoinedLines
    <3>6. x = format_github_annotation(findings[i]) \/ x = format_diagnostic(findings[i])
      BY DEF Rendered
    <3> HIDE DEF x
    <3>7. /\ format_github_annotation(findings[i]).severity = "error"
             <=> findings[i].level \in {"error", "deny"}
          /\ format_diagnostic(findings[i]).severity = "error"
             <=> findings[i].level \in {"error", "deny"}
      BY SeveritiesMatch, Zenon
    <3> QED
      BY <3>4, <3>5, <3>6, <3>7
  <2> QED
    BY <2>2, <2>3, <2>4 DEF HasErrors
<1> QED
  BY <1>1, ReportInductive, PTL DEF Spec, ExitAgreesWithOutput

-----------------------------------------------------------------------------
\* Replacing the occurrences of a character.

Image(x, c, with) == IF x = c THEN with ELSE <<x>>

\* f is what the search makes of the first n characters.
Searched(f, n, s, c, with) ==
  f = [m \in 0 .. n |-> IF m = 0 THEN <<>> ELSE f[m - 1] \o Image(s[m], c, with)]

\* Every text can be searched up to any of its characters.
LEMMA ReplacedPrefix ==
  ASSUME NEW s, NEW c, NEW with, NEW n \in Nat
  PROVE  \E f : Searched(f, n, s, c, with)
<1> DEFINE Step(f, m) == IF m = 0 THEN <<>> ELSE f[m - 1] \o Image(s[m], c, with)
           Done(b, f) == f = [m \in 0 .. b |-> Step(f, m)]
           bad == {b \in Nat : ~ \E f : Done(b, f)}
<1>1. SUFFICES ASSUME bad # {} PROVE FALSE
  BY DEF Searched
<1>2. PICK b \in bad : \A k \in bad : b <= k
  BY <1>1, LeastNat
<1>3. b \in Nat /\ b # 0
  <2> DEFINE zero == [m \in 0 .. 0 |-> <<>>]
  <2>1. Done(0, zero)
    OBVIOUS
  <2>2. 0 \notin bad
    BY <2>1
  <2> QED
    BY <1>2, <2>2
<1>4. PICK f : Done(b - 1, f)
  <2>1. b - 1 \in Nat /\ ~ b <= b - 1
    BY <1>3
  <2>2. b - 1 \notin bad
    BY <1>2, <2>1
  <2> QED
    BY <2>1, <2>2
<1> DEFINE g == [m \in 0 .. b |-> IF m < b THEN f[m] ELSE Step(f, b)]
<1>5. \A m \in 0 .. b - 1 : f[m] = Step(f, m)
  BY <1>4
<1>6. \A m \in 0 .. b : g[m] = Step(g, m)
  <2> SUFFICES ASSUME NEW m \in 0 .. b PROVE g[m] = Step(g, m)
    OBVIOUS
  <2>1. m # 0 => g[m - 1] = f[m - 1]
    BY <1>3
  <2>2. Step(g, m) = Step(f, m)
    BY <2>1
  <2>3. g[m] = IF m < b THEN f[m] ELSE Step(f, b)
    OBVIOUS
  <2>4. m = b \/ (m < b /\ m \in 0 .. b - 1)
    BY <1>3
  <2>5. ~ b < b
    BY <1>3
  <2> HIDE DEF Step, g
  <2> QED
    BY <1>5, <2>2, <2>3, <2>4, <2>5
<1>7. Done(b, g)
  BY <1>6
<1>8. b \notin bad
  BY <1>7
<1> QED
  BY <1>2, <1>8

\* f is what Replace has made of a text after each of its characters.
Replacing(f, Y, s, c, with) ==
  /\ Replace(s, c, with) = f[Len(s)]
  /\ f[0] = <<>>
  /\ \A m \in 1 .. Len(s) : f[m] = f[m - 1] \o Image(s[m], c, with)
  /\ \A m \in 0 .. Len(s) : f[m] \in Seq(Y)

\* Replace goes through a text character by character.
LEMMA ReplaceSteps ==
  ASSUME NEW Y, NEW s \in Seq(Y), NEW c, NEW with \in Seq(Y)
  PROVE  \E f : Replacing(f, Y, s, c, with)
<1> DEFINE Done(f) == Searched(f, Len(s), s, c, with)
           p == CHOOSE f : Done(f)
<1>1. Len(s) \in Nat /\ \A m \in 1 .. Len(s) : s[m] \in Y
  OBVIOUS
<1>2. \E f : Done(f)
  BY <1>1, ReplacedPrefix
<1>3. Done(p)
  BY <1>2
<1>4. Replace(s, c, with) = p[Len(s)]
  BY DEF Replace, Image, Searched
<1> HIDE DEF p
<1>5. p[0] = <<>>
  BY <1>1, <1>3 DEF Searched
<1>6. \A m \in 1 .. Len(s) : p[m] = p[m - 1] \o Image(s[m], c, with)
  <2> SUFFICES ASSUME NEW m \in 1 .. Len(s)
               PROVE  p[m] = p[m - 1] \o Image(s[m], c, with)
    OBVIOUS
  <2>1. m \in 0 .. Len(s) /\ m # 0
    BY <1>1
  <2> QED
    BY <1>3, <2>1, Zenon DEF Searched
<1> HIDE DEF Done
<1> DEFINE bad == {m \in 0 .. Len(s) : p[m] \notin Seq(Y)}
<1>7. bad = {}
  <2> SUFFICES ASSUME bad # {} PROVE FALSE
    OBVIOUS
  <2>1. PICK n \in bad : \A k \in bad : n <= k
    <3>1. bad \subseteq Nat
      BY <1>1
    <3> QED
      BY <3>1, LeastNat
  <2>2. n \in 1 .. Len(s) /\ n - 1 \in 0 .. Len(s) /\ n - 1 < n
    <3>1. p[0] \in Seq(Y)
      BY <1>5
    <3>2. n # 0 /\ n \in 0 .. Len(s)
      BY <2>1, <3>1
    <3> QED
      BY <1>1, <3>2
  <2>3. p[n - 1] \in Seq(Y)
    BY <2>1, <2>2
  <2>4. Image(s[n], c, with) \in Seq(Y)
    BY <1>1, <2>2 DEF Image
  <2>5. p[n] \in Seq(Y)
    BY <1>6, <2>2, <2>3, <2>4, ConcatProperties, ZenonT(60)
  <2> QED
    BY <2>1, <2>5
<1>8. \A m \in 0 .. Len(s) : p[m] \in Seq(Y)
  BY <1>7
<1> QED
  BY <1>4, <1>5, <1>6, <1>8 DEF Replacing

\* What a character more adds.
LEMMA ReplaceAppend ==
  ASSUME NEW Y, NEW s \in Seq(Y), NEW x \in Y, NEW c, NEW with \in Seq(Y)
  PROVE  /\ Replace(s, c, with) \in Seq(Y)
         /\ Replace(<<>>, c, with) = <<>>
         /\ Replace(Append(s, x), c, with) = Replace(s, c, with) \o Image(x, c, with)
<1> DEFINE t == Append(s, x)
<1>1. /\ t \in Seq(Y) /\ Len(t) = Len(s) + 1 /\ Len(s) \in Nat
      /\ \A i \in 1 .. Len(s) : t[i] = s[i]
      /\ t[Len(s) + 1] = x
  BY AppendProperties
<1> HIDE DEF t
<1>2. PICK f : Replacing(f, Y, s, c, with)
  BY ReplaceSteps
<1>3. PICK g : Replacing(g, Y, t, c, with)
  BY <1>1, ReplaceSteps
<1> USE DEF Replacing
<1> DEFINE bad == {m \in 0 .. Len(s) : f[m] # g[m]}
<1>4. bad = {}
  <2> SUFFICES ASSUME bad # {} PROVE FALSE
    OBVIOUS
  <2>1. PICK n \in bad : \A k \in bad : n <= k
    <3>1. bad \subseteq Nat
      BY <1>1
    <3> QED
      BY <3>1, LeastNat
  <2>2. n \in 1 .. Len(s) /\ n \in 1 .. Len(t) /\ n - 1 \in 0 .. Len(s) /\ n - 1 < n
    BY <1>1, <1>2, <1>3, <2>1
  <2>3. f[n - 1] = g[n - 1]
    BY <2>1, <2>2
  <2>4. f[n] = g[n]
    BY <1>1, <1>2, <1>3, <2>2, <2>3
  <2> QED
    BY <2>1, <2>4
<1>5. f[Len(s)] = g[Len(s)]
  BY <1>1, <1>4
<1>6. Replace(t, c, with) = Replace(s, c, with) \o Image(x, c, with)
  <2>1. Len(t) \in 1 .. Len(t) /\ Len(t) - 1 = Len(s)
    BY <1>1
  <2>2. g[Len(t)] = g[Len(s)] \o Image(t[Len(t)], c, with)
    BY <1>3, <2>1
  <2> QED
    BY <1>1, <1>2, <1>3, <1>5, <2>2
<1>7. Replace(<<>>, c, with) = <<>>
  <2>1. <<>> \in Seq(Y) /\ Len(<<>>) = 0
    OBVIOUS
  <2> HIDE DEF Replacing
  <2>2. PICK h : Replacing(h, Y, <<>>, c, with)
    BY <2>1, ReplaceSteps
  <2>3. Replace(<<>>, c, with) = h[Len(<<>>)] /\ h[0] = <<>>
    BY <2>2 DEF Replacing
  <2> QED
    BY <2>1, <2>3
<1>8. Replace(s, c, with) \in Seq(Y)
  BY <1>1, <1>2
<1> QED
  BY <1>6, <1>7, <1>8 DEF t

-----------------------------------------------------------------------------
\* Decoding an escaped text.

\* What is decoded of the character at i and the rest that f has decoded.
Decoded(f, s, i) ==
  IF EscapesAt(s, i) = {} THEN <<s[i]>> \o f[i + 1]
  ELSE <<Escaped[CHOOSE e \in EscapesAt(s, i) : TRUE]>> \o f[i + 3]

\* f is what is decoded from each place after the first b.
DecodedFrom(f, b, s) ==
  f = [i \in b .. Len(s) + 1 |-> IF i > Len(s) THEN <<>> ELSE Decoded(f, s, i)]

\* f is what is decoded from each place.
Decoding(f, s) ==
  /\ Unescaped(s) = f[1]
  /\ f[Len(s) + 1] = <<>>
  /\ \A i \in 1 .. Len(s) : f[i] = Decoded(f, s, i)

\* Every text can be decoded from any of its places.
LEMMA DecodedSuffix ==
  ASSUME NEW s, Len(s) \in Nat, NEW n \in 0 .. Len(s)
  PROVE  \E f : DecodedFrom(f, (Len(s) + 1) - n, s)
<1> DEFINE L == Len(s)
           bad == {k \in 0 .. L : ~ \E f : DecodedFrom(f, (L + 1) - k, s)}
<1>1. SUFFICES ASSUME bad # {} PROVE FALSE
  OBVIOUS
<1> HIDE DEF L
<1>2. L \in Nat
  BY DEF L
<1>3. PICK b \in bad : \A k \in bad : b <= k
  <2>1. bad \subseteq Nat
    BY <1>2
  <2> QED
    BY <1>1, <2>1, LeastNat
<1>4. b \in 0 .. L /\ b # 0
  <2> DEFINE end == [i \in (L + 1) - 0 .. L + 1 |-> <<>>]
  <2>1. \A i \in (L + 1) - 0 .. L + 1 : i > L
    BY <1>2
  <2>2. DecodedFrom(end, (L + 1) - 0, s)
    BY <2>1 DEF DecodedFrom, L
  <2>3. 0 \notin bad
    BY <2>2
  <2> QED
    BY <1>3, <2>3
<1>5. PICK f : DecodedFrom(f, (L + 1) - (b - 1), s)
  <2>1. b - 1 \in 0 .. L /\ ~ b <= b - 1
    BY <1>2, <1>4
  <2>2. b - 1 \notin bad
    BY <1>3, <2>1
  <2> QED
    BY <2>1, <2>2
<1> DEFINE i0 == (L + 1) - b
           g == [i \in i0 .. L + 1 |-> IF i = i0 THEN Decoded(f, s, i0) ELSE f[i]]
<1>6. i0 \in 1 .. L /\ (L + 1) - (b - 1) = i0 + 1
  BY <1>2, <1>4
<1> HIDE DEF i0
<1>7. \A i \in i0 + 1 .. L + 1 : f[i] = IF i > L THEN <<>> ELSE Decoded(f, s, i)
  BY <1>5, <1>6, Zenon DEF DecodedFrom, L
<1>8. \A i \in i0 .. L : Decoded(g, s, i) = Decoded(f, s, i)
  <2> SUFFICES ASSUME NEW i \in i0 .. L PROVE Decoded(g, s, i) = Decoded(f, s, i)
    OBVIOUS
  <2>1. i + 1 \in i0 .. L + 1 /\ i + 1 # i0
    BY <1>2, <1>6
  <2>2. g[i + 1] = f[i + 1]
    BY <2>1
  <2>3. EscapesAt(s, i) # {} => g[i + 3] = f[i + 3]
    <3>1. EscapesAt(s, i) # {} => i + 2 <= L
      BY DEF EscapesAt, L
    <3>2. i + 2 <= L => i + 3 \in i0 .. L + 1 /\ i + 3 # i0
      BY <1>2, <1>6
    <3> QED
      BY <3>1, <3>2
  <2> HIDE DEF g
  <2> QED
    BY <2>2, <2>3 DEF Decoded
<1>9. \A i \in i0 .. L + 1 : g[i] = IF i > L THEN <<>> ELSE Decoded(g, s, i)
  <2> SUFFICES ASSUME NEW i \in i0 .. L + 1
               PROVE  g[i] = IF i > L THEN <<>> ELSE Decoded(g, s, i)
    OBVIOUS
  <2>1. CASE i = i0
    <3>1. ~ i > L /\ i \in i0 .. L
      BY <1>2, <1>6, <2>1
    <3>2. g[i] = Decoded(f, s, i)
      BY <2>1
    <3>3. Decoded(g, s, i) = Decoded(f, s, i)
      BY <1>8, <3>1
    <3> HIDE DEF g
    <3> QED
      BY <3>1, <3>2, <3>3
  <2>2. CASE i # i0
    <3>1. i \in i0 + 1 .. L + 1
      BY <1>2, <1>6, <2>2
    <3>2. g[i] = f[i]
      BY <2>2
    <3>3. f[i] = IF i > L THEN <<>> ELSE Decoded(f, s, i)
      BY <1>7, <3>1
    <3>4. ~ i > L => Decoded(g, s, i) = Decoded(f, s, i)
      <4>1. ~ i > L => i \in i0 .. L
        BY <1>2, <1>6
      <4> QED
        BY <1>8, <4>1
    <3> HIDE DEF g
    <3> QED
      BY <3>2, <3>3, <3>4
  <2> QED
    BY <2>1, <2>2
<1>10. DecodedFrom(g, i0, s)
  <2>1. g = [i \in i0 .. L + 1 |-> g[i]]
    OBVIOUS
  <2> HIDE DEF g
  <2>2. g = [i \in i0 .. L + 1 |-> IF i > L THEN <<>> ELSE Decoded(g, s, i)]
    BY <1>9, <2>1
  <2> QED
    BY <2>2 DEF DecodedFrom, L
<1>11. b \notin bad
  BY <1>10 DEF i0
<1> QED
  BY <1>3, <1>11

\* Unescaped goes through a text from its end.
LEMMA DecodingExists ==
  ASSUME NEW s, Len(s) \in Nat
  PROVE  \E f : Decoding(f, s)
<1> DEFINE Done(f) == DecodedFrom(f, 1, s)
           p == CHOOSE f : Done(f)
<1>1. Len(s) \in 0 .. Len(s) /\ (Len(s) + 1) - Len(s) = 1
  OBVIOUS
<1>2. \E f : Done(f)
  BY <1>1, DecodedSuffix
<1>3. DecodedFrom(p, 1, s)
  BY <1>2
<1>4. Unescaped(s) = p[1]
  BY DEF Unescaped, DecodedFrom, Decoded
<1> HIDE DEF p, Done
<1>5. \A i \in 1 .. Len(s) + 1 : p[i] = IF i > Len(s) THEN <<>> ELSE Decoded(p, s, i)
  BY <1>3, Zenon DEF DecodedFrom
<1>6. p[Len(s) + 1] = <<>>
  BY <1>5
<1>7. \A i \in 1 .. Len(s) : p[i] = Decoded(p, s, i)
  <2> SUFFICES ASSUME NEW i \in 1 .. Len(s) PROVE p[i] = Decoded(p, s, i)
    OBVIOUS
  <2>1. i \in 1 .. Len(s) + 1 /\ ~ i > Len(s)
    OBVIOUS
  <2> QED
    BY <1>5, <2>1
<1>8. Decoding(p, s)
  BY <1>4, <1>6, <1>7 DEF Decoding
<1> QED
  BY <1>8

-----------------------------------------------------------------------------
\* Decoding what was escaped character by character.

\* What stands for a character: itself, or its escape.
Token(tok, x) ==
  \/ x # "%" /\ tok = <<x>>
  \/ \E e \in DOMAIN Escapes : tok = Escapes[e] /\ x = Escaped[e]

\* No escape is cut off at the end.
Whole(s) == \A i \in 1 .. Len(s) : s[i] = "%" => i + 2 <= Len(s)

\* The characters escapes are made of, and those they stand for.
Marks == {"%", "CR", "LF", ":", ",", "0", "2", "3", "5", "A", "C", "D"}

\* An escape is a percent sign and two other characters, and its own.
LEMMA EscapeForms ==
  ASSUME NEW e \in DOMAIN Escapes
  PROVE  /\ Escapes[e] \in Seq(Marks) /\ Len(Escapes[e]) = 3
         /\ Escapes[e][1] = "%" /\ Escapes[e][2] # "%" /\ Escapes[e][3] # "%"
         /\ Escapes[e] = <<Escapes[e][1], Escapes[e][2], Escapes[e][3]>>
         /\ Escaped[e] \in Marks
         /\ \A d \in DOMAIN Escapes : Escapes[d] = Escapes[e] => d = e
<1>1. DOMAIN Escapes = 1 .. 5
  BY DEF Escapes
<1>2. e = 1 \/ e = 2 \/ e = 3 \/ e = 4 \/ e = 5
  BY <1>1
<1>3. Escapes[e] \in Seq(Marks) /\ Len(Escapes[e]) = 3
  <2>1. \A p, q, r \in Marks : <<p, q, r>> \in Seq(Marks) /\ Len(<<p, q, r>>) = 3
    OBVIOUS
  <2>2. {"%", "0", "2", "3", "5", "A", "C", "D"} \subseteq Marks
    BY DEF Marks
  <2>3. /\ Escapes[1] = <<"%", "2", "5">> /\ Escapes[2] = <<"%", "0", "D">>
        /\ Escapes[3] = <<"%", "0", "A">> /\ Escapes[4] = <<"%", "3", "A">>
        /\ Escapes[5] = <<"%", "2", "C">>
    BY DEF Escapes
  <2> DEFINE Fits(s) == s \in Seq(Marks) /\ Len(s) = 3
  <2>4. Fits(<<"%", "2", "5">>) /\ Fits(<<"%", "0", "D">>)
    BY <2>1, <2>2
  <2>5. Fits(<<"%", "0", "A">>) /\ Fits(<<"%", "3", "A">>) /\ Fits(<<"%", "2", "C">>)
    BY <2>1, <2>2
  <2> HIDE DEF Fits
  <2>6. /\ Fits(Escapes[1]) /\ Fits(Escapes[2]) /\ Fits(Escapes[3])
        /\ Fits(Escapes[4]) /\ Fits(Escapes[5])
    BY <2>3, <2>4, <2>5
  <2>7. Fits(Escapes[e])
    BY <1>2, <2>6
  <2> QED
    BY <2>7 DEF Fits
<1>4. /\ Escapes[e][1] = "%" /\ Escapes[e][2] # "%" /\ Escapes[e][3] # "%"
      /\ Escapes[e] = <<Escapes[e][1], Escapes[e][2], Escapes[e][3]>>
  BY <1>2 DEF Escapes
<1>5. Escaped[e] \in Marks
  <2>1. /\ Escaped[1] = "%" /\ Escaped[2] = "CR" /\ Escaped[3] = "LF"
        /\ Escaped[4] = ":" /\ Escaped[5] = ","
    BY DEF Escaped
  <2> QED
    BY <1>2, <2>1 DEF Marks
<1>6. \A d \in DOMAIN Escapes : Escapes[d] = Escapes[e] => d = e
  <2> SUFFICES ASSUME NEW d \in DOMAIN Escapes, Escapes[d] = Escapes[e] PROVE d = e
    OBVIOUS
  <2>1. d = 1 \/ d = 2 \/ d = 3 \/ d = 4 \/ d = 5
    BY <1>1
  <2>2. Escapes[d][2] = Escapes[e][2] /\ Escapes[d][3] = Escapes[e][3]
    OBVIOUS
  <2> QED
    BY <1>2, <2>1, <2>2 DEF Escapes
<1> QED
  BY <1>3, <1>4, <1>5, <1>6

\* A token after a text: what a place of the text starts stays the same, and
\* the token is decoded to its character.
LEMMA TokenAtEnd ==
  ASSUME NEW Y, Marks \subseteq Y, NEW a \in Seq(Y), Whole(a),
         NEW x \in Y, NEW tok, Token(tok, x)
  PROVE  /\ a \o tok \in Seq(Y) /\ Whole(a \o tok)
         /\ Len(a \o tok) \in Nat /\ Len(a \o tok) >= Len(a) + 1
         /\ \A i \in 1 .. Len(a) :
              /\ (a \o tok)[i] = a[i]
              /\ EscapesAt(a \o tok, i) = EscapesAt(a, i)
         /\ \A f : Decoding(f, a \o tok) => f[Len(a) + 1] = <<x>>
<1> DEFINE u == a \o tok
           L == Len(a)
<1>1. tok \in Seq(Y) /\ Len(tok) \in {1, 3}
  <2>1. CASE x # "%" /\ tok = <<x>>
    BY <2>1
  <2>2. ASSUME NEW e \in DOMAIN Escapes, tok = Escapes[e] PROVE tok \in Seq(Y) /\ Len(tok) \in {1, 3}
    BY <2>2, EscapeForms
  <2> QED
    BY <2>1, <2>2 DEF Token
<1>2. /\ u \in Seq(Y) /\ Len(u) = L + Len(tok) /\ L \in Nat
      /\ \A i \in 1 .. L : u[i] = a[i]
      /\ \A k \in 1 .. Len(tok) : u[L + k] = tok[k]
  <2>1. u \in Seq(Y) /\ Len(u) = L + Len(tok) /\ L \in Nat
    BY <1>1, ConcatProperties
  <2>2. \A i \in 1 .. L : u[i] = a[i]
    BY <1>1, ConcatProperties
  <2>3. \A k \in 1 .. Len(tok) : u[L + k] = tok[k]
    <3> SUFFICES ASSUME NEW k \in 1 .. Len(tok) PROVE u[L + k] = tok[k]
      OBVIOUS
    <3>1. L + k \in 1 .. L + Len(tok) /\ ~ L + k <= L /\ (L + k) - L = k
      BY <1>1, <2>1
    <3> QED
      BY <1>1, <2>1, <3>1, ConcatProperties
  <2> QED
    BY <2>1, <2>2, <2>3
<1> HIDE DEF u, L
<1>3. \A i \in 1 .. L : a[i] = "%" => i + 2 <= L
  BY DEF Whole, L
<1>4. \A i \in 1 .. L : EscapesAt(u, i) = EscapesAt(a, i)
  <2> SUFFICES ASSUME NEW i \in 1 .. L PROVE EscapesAt(u, i) = EscapesAt(a, i)
    OBVIOUS
  <2>1. CASE a[i] = "%"
    <3>1. i + 2 <= L /\ i + 2 <= Len(u) /\ i + 1 \in 1 .. L /\ i + 2 \in 1 .. L
      BY <1>1, <1>2, <1>3, <2>1
    <3>2. u[i] = a[i] /\ u[i + 1] = a[i + 1] /\ u[i + 2] = a[i + 2]
      BY <1>2, <3>1
    <3> QED
      BY <3>1, <3>2 DEF EscapesAt, L
  <2>2. CASE a[i] # "%"
    <3>1. ASSUME NEW s, s[i] = a[i] PROVE EscapesAt(s, i) = {}
      <4>1. \A e \in DOMAIN Escapes : <<s[i], s[i + 1], s[i + 2]>> # Escapes[e]
        <5> SUFFICES ASSUME NEW e \in DOMAIN Escapes,
                            <<s[i], s[i + 1], s[i + 2]>> = Escapes[e]
                     PROVE  FALSE
          OBVIOUS
        <5>1. Escapes[e][1] = "%"
          BY EscapeForms
        <5>2. <<s[i], s[i + 1], s[i + 2]>>[1] = s[i]
          OBVIOUS
        <5> QED
          BY <2>2, <3>1, <5>1, <5>2
      <4> QED
        BY <4>1 DEF EscapesAt
    <3>2. u[i] = a[i]
      BY <1>2
    <3> QED
      BY <3>1, <3>2
  <2> QED
    BY <2>1, <2>2
<1>5. /\ Whole(u)
      /\ \A f : Decoding(f, u) => f[L + 1] = <<x>>
  <2>1. CASE x # "%" /\ tok = <<x>>
    <3>1. Len(tok) = 1 /\ tok[1] = x
      BY <2>1
    <3>2. Len(u) = L + 1 /\ u[L + 1] = x
      BY <1>2, <3>1
    <3>3. Whole(u)
      <4> SUFFICES ASSUME NEW i \in 1 .. Len(u), u[i] = "%" PROVE i + 2 <= Len(u)
        BY DEF Whole
      <4>1. i # L + 1
        BY <2>1, <3>2
      <4>2. i \in 1 .. L /\ a[i] = "%"
        BY <1>2, <3>2, <4>1
      <4>3. i + 2 <= L
        BY <1>3, <4>2
      <4> QED
        BY <1>2, <3>2, <4>3
    <3>4. EscapesAt(u, L + 1) = {}
      <4>1. ~ (L + 1) + 2 <= Len(u)
        BY <1>2, <3>2
      <4> QED
        BY <4>1 DEF EscapesAt
    <3>5. ASSUME NEW f, Decoding(f, u) PROVE f[L + 1] = <<x>>
      <4>1. L + 1 \in 1 .. Len(u) /\ (L + 1) + 1 = Len(u) + 1
        BY <1>2, <3>2
      <4>2. f[L + 1] = <<x>> \o f[(L + 1) + 1]
        BY <3>2, <3>4, <3>5, <4>1 DEF Decoding, Decoded
      <4>3. f[(L + 1) + 1] = <<>>
        BY <3>5, <4>1 DEF Decoding
      <4>4. <<x>> \o <<>> = <<x>>
        OBVIOUS
      <4> QED
        BY <4>2, <4>3, <4>4
    <3> QED
      BY <3>3, <3>5
  <2>2. ASSUME NEW e \in DOMAIN Escapes, tok = Escapes[e], x = Escaped[e]
        PROVE  Whole(u) /\ \A f : Decoding(f, u) => f[L + 1] = <<x>>
    <3>1. /\ Len(tok) = 3 /\ tok[1] = "%" /\ tok[2] # "%" /\ tok[3] # "%"
          /\ tok = <<tok[1], tok[2], tok[3]>>
      BY <2>2, EscapeForms
    <3>2. Len(u) = L + 3 /\ u[L + 1] = tok[1] /\ u[L + 2] = tok[2] /\ u[L + 3] = tok[3]
      BY <1>2, <3>1
    <3>3. Whole(u)
      <4> SUFFICES ASSUME NEW i \in 1 .. Len(u), u[i] = "%" PROVE i + 2 <= Len(u)
        BY DEF Whole
      <4>1. i # L + 2 /\ i # L + 3
        BY <3>1, <3>2
      <4>2. CASE i = L + 1
        BY <1>2, <3>2, <4>2
      <4>3. CASE i \in 1 .. L
        <5>1. a[i] = "%"
          BY <1>2, <4>3
        <5>2. i + 2 <= L
          BY <1>3, <4>3, <5>1
        <5> QED
          BY <1>2, <3>2, <5>2
      <4> QED
        BY <1>2, <3>2, <4>1, <4>2, <4>3
    <3>4. EscapesAt(u, L + 1) = {e}
      <4>1. (L + 1) + 2 <= Len(u) /\ (L + 1) + 1 = L + 2 /\ (L + 1) + 2 = L + 3
        BY <1>2, <3>2
      <4>2. <<u[L + 1], u[(L + 1) + 1], u[(L + 1) + 2]>> = Escapes[e]
        BY <2>2, <3>1, <3>2, <4>1
      <4>3. \A d \in DOMAIN Escapes : Escapes[d] = Escapes[e] => d = e
        BY EscapeForms
      <4> QED
        BY <2>2, <4>1, <4>2, <4>3 DEF EscapesAt
    <3>5. ASSUME NEW f, Decoding(f, u) PROVE f[L + 1] = <<x>>
      <4>1. L + 1 \in 1 .. Len(u) /\ (L + 1) + 3 = Len(u) + 1
        BY <1>2, <3>2
      <4>2. (CHOOSE d \in EscapesAt(u, L + 1) : TRUE) = e
        BY <3>4
      <4>3. f[L + 1] = <<x>> \o f[(L + 1) + 3]
        BY <2>2, <3>4, <3>5, <4>1, <4>2 DEF Decoding, Decoded
      <4>4. f[(L + 1) + 3] = <<>>
        BY <3>5, <4>1 DEF Decoding
      <4>5. <<x>> \o <<>> = <<x>>
        OBVIOUS
      <4> QED
        BY <4>3, <4>4, <4>5
    <3> QED
      BY <3>3, <3>5
  <2> QED
    BY <2>1, <2>2 DEF Token
<1>6. Len(u) \in Nat /\ Len(u) >= L + 1
  <2>1. Len(tok) = 1 \/ Len(tok) = 3
    BY <1>1
  <2>2. Len(u) = L + Len(tok) /\ L \in Nat
    BY <1>2
  <2>3. \A n \in Nat : n + 1 \in Nat /\ n + 3 \in Nat /\ n + 1 >= n + 1 /\ n + 3 >= n + 1
    OBVIOUS
  <2>4. L + 1 = Len(u) \/ L + 3 = Len(u)
    BY <2>1, <2>2
  <2> QED
    BY <2>2, <2>3, <2>4
<1> QED
  BY <1>2, <1>4, <1>5, <1>6 DEF u, L

\* A token more is decoded to a character more.
LEMMA DecodeToken ==
  ASSUME NEW Y, Marks \subseteq Y, NEW a \in Seq(Y), Whole(a),
         NEW x \in Y, NEW tok, Token(tok, x)
  PROVE  Unescaped(a) \in Seq(Y) /\ Unescaped(a \o tok) = Append(Unescaped(a), x)
<1> DEFINE u == a \o tok
           L == Len(a)
<1>1. /\ Len(u) \in Nat /\ Len(u) >= L + 1 /\ L \in Nat
      /\ \A i \in 1 .. L : u[i] = a[i] /\ EscapesAt(u, i) = EscapesAt(a, i)
      /\ \A f : Decoding(f, u) => f[L + 1] = <<x>>
  BY TokenAtEnd
<1>2. \A i \in 1 .. L : a[i] \in Y
  OBVIOUS
<1> HIDE DEF u
<1>3. PICK f : Decoding(f, a)
  BY <1>1, DecodingExists
<1>4. PICK g : Decoding(g, u)
  BY <1>1, DecodingExists
<1> DEFINE Good(i) == f[i] \in Seq(Y) /\ g[i] = Append(f[i], x)
           bad == {k \in 0 .. L : ~ Good((L + 1) - k)}
<1> HIDE DEF L
<1>5. Good(L + 1)
  <2>1. f[L + 1] = <<>> /\ g[L + 1] = <<x>>
    BY <1>1, <1>3, <1>4 DEF Decoding, L
  <2> QED
    BY <2>1
<1>6. ASSUME NEW i \in 1 .. L, \A j \in i + 1 .. L + 1 : Good(j) PROVE Good(i)
  <2>1. /\ f[i] = Decoded(f, a, i) /\ g[i] = Decoded(g, u, i)
        /\ u[i] = a[i] /\ EscapesAt(u, i) = EscapesAt(a, i) /\ a[i] \in Y
    <3>1. i \in 1 .. Len(u)
      BY <1>1
    <3> QED
      BY <1>1, <1>2, <1>3, <1>4, <3>1 DEF Decoding, L
  <2>2. \A y \in Y, t \in Seq(Y) : /\ <<y>> \o t \in Seq(Y)
                                   /\ <<y>> \o Append(t, x) = Append(<<y>> \o t, x)
    OBVIOUS
  <2>3. CASE EscapesAt(a, i) = {}
    <3>1. f[i] = <<a[i]>> \o f[i + 1] /\ g[i] = <<a[i]>> \o g[i + 1]
      BY <2>1, <2>3 DEF Decoded
    <3>2. Good(i + 1)
      <4>1. i + 1 \in i + 1 .. L + 1
        BY <1>1
      <4> QED
        BY <1>6, <4>1
    <3> QED
      BY <2>1, <2>2, <3>1, <3>2
  <2>4. CASE EscapesAt(a, i) # {}
    <3> DEFINE y == Escaped[CHOOSE e \in EscapesAt(a, i) : TRUE]
    <3>1. y \in Y
      <4>1. (CHOOSE e \in EscapesAt(a, i) : TRUE) \in DOMAIN Escapes
        BY <2>4 DEF EscapesAt
      <4> QED
        BY <4>1, EscapeForms
    <3>2. f[i] = <<y>> \o f[i + 3] /\ g[i] = <<y>> \o g[i + 3]
      BY <2>1, <2>4 DEF Decoded
    <3>3. Good(i + 3)
      <4>1. i + 2 <= L
        BY <2>4 DEF EscapesAt, L
      <4>2. i + 3 \in i + 1 .. L + 1
        BY <1>1, <4>1
      <4> QED
        BY <1>6, <4>2
    <3> HIDE DEF y
    <3> QED
      BY <2>2, <3>1, <3>2, <3>3
  <2> QED
    BY <2>3, <2>4
<1> HIDE DEF Good
<1>7. bad = {}
  <2> SUFFICES ASSUME bad # {} PROVE FALSE
    OBVIOUS
  <2>1. PICK k \in bad : \A j \in bad : k <= j
    <3>1. bad \subseteq Nat
      BY <1>1
    <3> QED
      BY <3>1, LeastNat
  <2> DEFINE i == (L + 1) - k
  <2>2. k \in 1 .. L /\ i \in 1 .. L
    <3>1. (L + 1) - 0 = L + 1
      BY <1>1
    <3>2. k # 0 /\ k \in 0 .. L
      BY <1>5, <2>1, <3>1
    <3> QED
      BY <1>1, <3>2
  <2>3. \A j \in i + 1 .. L + 1 : Good(j)
    <3> SUFFICES ASSUME NEW j \in i + 1 .. L + 1 PROVE Good(j)
      OBVIOUS
    <3>1. (L + 1) - j \in 0 .. L /\ ~ k <= (L + 1) - j /\ (L + 1) - ((L + 1) - j) = j
      BY <1>1, <2>2
    <3>2. (L + 1) - j \notin bad
      BY <2>1, <3>1
    <3> QED
      BY <3>1, <3>2
  <2>4. Good(i)
    BY <1>6, <2>2, <2>3
  <2> QED
    BY <2>1, <2>4
<1>8. Good(1)
  <2>1. L \in 0 .. L /\ (L + 1) - L = 1
    BY <1>1
  <2> QED
    BY <1>7, <2>1
<1> QED
  BY <1>3, <1>4, <1>8 DEF Decoding, Good, u

\* None of these characters is in the text.
Free(s, chars) == \A i \in 1 .. Len(s) : s[i] \notin chars

\* What was built of one token for each character of t is decoded to t.
LEMMA TokensDecode ==
  ASSUME NEW Y, Marks \subseteq Y, NEW t \in Seq(Y), NEW chars, NEW g,
         g[0] = <<>>,
         \A m \in 1 .. Len(t) : \E tok :
           Token(tok, t[m]) /\ Free(tok, chars) /\ g[m] = g[m - 1] \o tok
  PROVE  Unescaped(g[Len(t)]) = t /\ g[Len(t)] \in Seq(Y) /\ Free(g[Len(t)], chars)
<1> DEFINE Good(m) == /\ g[m] \in Seq(Y) /\ Whole(g[m]) /\ Free(g[m], chars)
                      /\ Unescaped(g[m]) = SubSeq(t, 1, m)
           bad == {m \in 0 .. Len(t) : ~ Good(m)}
<1>1. Len(t) \in Nat /\ \A m \in 1 .. Len(t) : t[m] \in Y
  OBVIOUS
<1>2. Good(0)
  <2>1. <<>> \in Seq(Y) /\ Len(<<>>) = 0 /\ SubSeq(t, 1, 0) = <<>>
    OBVIOUS
  <2>2. Whole(<<>>) /\ Free(<<>>, chars)
    BY <2>1 DEF Whole, Free
  <2>3. PICK f : Decoding(f, <<>>)
    BY <2>1, DecodingExists
  <2>4. Unescaped(<<>>) = f[1] /\ f[Len(<<>>) + 1] = <<>>
    BY <2>3 DEF Decoding
  <2>5. Unescaped(<<>>) = <<>>
    BY <2>1, <2>4
  <2> QED
    BY <2>1, <2>2, <2>5
<1>3. ASSUME NEW m \in 1 .. Len(t), Good(m - 1) PROVE Good(m)
  <2> DEFINE a == g[m - 1]
             x == t[m]
  <2>1. PICK tok : Token(tok, x) /\ Free(tok, chars) /\ g[m] = a \o tok
    OBVIOUS
  <2>2. a \in Seq(Y) /\ Whole(a) /\ Free(a, chars) /\ Unescaped(a) = SubSeq(t, 1, m - 1) /\ x \in Y
    BY <1>1, <1>3
  <2>3. SubSeq(t, 1, m) = Append(SubSeq(t, 1, m - 1), x)
    BY <1>1
  <2> HIDE DEF a, x
  <2>4. a \o tok \in Seq(Y) /\ Whole(a \o tok)
    BY <2>1, <2>2, TokenAtEnd
  <2>5. Unescaped(a \o tok) = Append(Unescaped(a), x)
    <3>1. a \in Seq(Y) /\ Whole(a) /\ x \in Y /\ Token(tok, x)
      BY <2>1, <2>2
    <3> QED
      BY ONLY Marks \subseteq Y, <3>1, DecodeToken
  <2>6. Free(a \o tok, chars)
    <3>1. tok \in Seq(Y)
      <4>1. CASE x # "%" /\ tok = <<x>>
        BY <2>2, <4>1
      <4>2. ASSUME NEW e \in DOMAIN Escapes, tok = Escapes[e] PROVE tok \in Seq(Y)
        BY <4>2, EscapeForms
      <4> QED
        BY <2>1, <4>1, <4>2 DEF Token
    <3> SUFFICES ASSUME NEW i \in 1 .. Len(a \o tok) PROVE (a \o tok)[i] \notin chars
      BY DEF Free
    <3>2. /\ Len(a \o tok) = Len(a) + Len(tok) /\ Len(a) \in Nat /\ Len(tok) \in Nat
          /\ (a \o tok)[i] = IF i <= Len(a) THEN a[i] ELSE tok[i - Len(a)]
      BY <2>2, <3>1, ConcatProperties
    <3>3. CASE i <= Len(a)
      BY <2>2, <3>2, <3>3 DEF Free
    <3>4. CASE ~ i <= Len(a)
      <4>1. i - Len(a) \in 1 .. Len(tok)
        BY <3>2, <3>4
      <4> QED
        BY <2>1, <3>2, <3>4, <4>1 DEF Free
    <3> QED
      BY <3>3, <3>4
  <2> QED
    BY <2>1, <2>2, <2>3, <2>4, <2>5, <2>6
<1> HIDE DEF Good
<1>4. bad = {}
  <2> SUFFICES ASSUME bad # {} PROVE FALSE
    OBVIOUS
  <2>1. PICK m \in bad : \A j \in bad : m <= j
    <3>1. bad \subseteq Nat
      BY <1>1
    <3> QED
      BY <3>1, LeastNat
  <2>2. m \in 1 .. Len(t) /\ m - 1 \in 0 .. Len(t) /\ ~ m <= m - 1
    <3>1. m # 0 /\ m \in 0 .. Len(t)
      BY <1>2, <2>1
    <3> QED
      BY <1>1, <3>1
  <2>3. m - 1 \notin bad
    BY <2>1, <2>2
  <2> QED
    BY <1>3, <2>1, <2>2, <2>3
<1>5. Good(Len(t))
  BY <1>1, <1>4
<1>6. SubSeq(t, 1, Len(t)) = t
  OBVIOUS
<1> QED
  BY <1>5, <1>6 DEF Good

-----------------------------------------------------------------------------
\* Escaping character by character.

\* One pass over a character more, or over an escape that needs no other.
Passed(Y, s, c, with) ==
  /\ Replace(s, c, with) \in Seq(Y) /\ Replace(<<>>, c, with) = <<>>
  /\ \A x \in Y : Replace(s \o <<x>>, c, with) =
                    Replace(s, c, with) \o Image(x, c, with)
  /\ \A p, q, r \in Y \ {c} : Replace(s \o <<p, q, r>>, c, with) =
                                Replace(s, c, with) \o <<p, q, r>>

\* A pass changes what it looks for and nothing else.
LEMMA OnePass ==
  ASSUME NEW Y, NEW s \in Seq(Y), NEW c, NEW with \in Seq(Y)
  PROVE  Passed(Y, s, c, with)
<1>1. Replace(s, c, with) \in Seq(Y) /\ Replace(<<>>, c, with) = <<>>
  <2>1. CASE Y = {}
    <3>1. <<>> \in Seq(Y \cup {0}) /\ with \in Seq(Y \cup {0}) /\ 0 \in Y \cup {0}
      OBVIOUS
    <3>2. Replace(<<>>, c, with) = <<>>
      BY <3>1, ReplaceAppend
    <3>3. s = <<>>
      <4>1. Len(s) = 0
        <5>1. \A i \in 1 .. Len(s) : s[i] \in Y
          OBVIOUS
        <5> QED
          BY <2>1, <5>1
      <4> QED
        BY <4>1
    <3> QED
      BY <3>2, <3>3
  <2>2. ASSUME NEW x \in Y PROVE Replace(s, c, with) \in Seq(Y) /\ Replace(<<>>, c, with) = <<>>
    BY ReplaceAppend
  <2> QED
    BY <2>1, <2>2
<1>2. ASSUME NEW t \in Seq(Y), NEW x \in Y
      PROVE  /\ Replace(t, c, with) \in Seq(Y)
             /\ Replace(Append(t, x), c, with) = Replace(t, c, with) \o Image(x, c, with)
  BY ReplaceAppend, SMTT(60)
<1>3. ASSUME NEW t \in Seq(Y), NEW x \in Y
      PROVE  t \o <<x>> = Append(t, x) /\ Append(t, x) \in Seq(Y)
  OBVIOUS
<1>4. \A x \in Y : Replace(s \o <<x>>, c, with) = Replace(s, c, with) \o Image(x, c, with)
  BY <1>2, <1>3
<1>5. ASSUME NEW p \in Y \ {c}, NEW q \in Y \ {c}, NEW r \in Y \ {c}
      PROVE  Replace(s \o <<p, q, r>>, c, with) = Replace(s, c, with) \o <<p, q, r>>
  <2> DEFINE s1 == Append(s, p)
             s2 == Append(s1, q)
             s3 == Append(s2, r)
             w == Replace(s, c, with)
  <2>1. s \o <<p, q, r>> = s3
    OBVIOUS
  <2>2. w \o <<p, q, r>> = Append(Append(Append(w, p), q), r)
    BY <1>1
  <2>3. s1 \in Seq(Y) /\ s2 \in Seq(Y)
    OBVIOUS
  <2>4. Replace(s1, c, with) = Append(w, p) /\ Append(w, p) \in Seq(Y)
    BY <1>1, <1>2, <1>3 DEF Image
  <2> HIDE DEF s1, w
  <2>5. Replace(s2, c, with) = Append(Append(w, p), q) /\ Append(Append(w, p), q) \in Seq(Y)
    BY <1>2, <1>3, <2>3, <2>4 DEF Image
  <2> HIDE DEF s2
  <2>6. Replace(s3, c, with) = Append(Append(Append(w, p), q), r)
    BY <1>2, <1>3, <2>3, <2>5, ZenonT(60) DEF Image
  <2> QED
    BY <2>1, <2>2, <2>6 DEF w
<1> QED
  BY <1>1, <1>4, <1>5 DEF Passed

\* What the escapes make of a character.
MessageCode(x) ==
  CASE x = "%" -> <<"%", "2", "5">>
    [] x = "CR" -> <<"%", "0", "D">>
    [] x = "LF" -> <<"%", "0", "A">>
    [] OTHER -> <<x>>

PropertyCode(x) ==
  CASE x = ":" -> <<"%", "3", "A">>
    [] x = "," -> <<"%", "2", "C">>
    [] OTHER -> MessageCode(x)

\* A text of three characters is free of all others.
LEMMA ThreeFree ==
  ASSUME NEW p, NEW q, NEW r, NEW chars, p \notin chars, q \notin chars, r \notin chars
  PROVE  Free(<<p, q, r>>, chars)
<1>1. Len(<<p, q, r>>) = 3
  OBVIOUS
<1>2. \A i \in 1 .. 3 : i = 1 \/ i = 2 \/ i = 3
  OBVIOUS
<1>3. <<p, q, r>>[1] = p /\ <<p, q, r>>[2] = q /\ <<p, q, r>>[3] = r
  OBVIOUS
<1> QED
  BY <1>1, <1>2, <1>3 DEF Free

\* What stands for a character is decoded to it, and is safe where it stands.
LEMMA CodesAreTokens ==
  ASSUME NEW x
  PROVE  /\ Token(MessageCode(x), x) /\ Free(MessageCode(x), {"CR", "LF"})
         /\ Token(PropertyCode(x), x) /\ Free(PropertyCode(x), {"CR", "LF", ":", ","})
<1>1. /\ 1 \in DOMAIN Escapes /\ Escapes[1] = <<"%", "2", "5">> /\ Escaped[1] = "%"
      /\ 2 \in DOMAIN Escapes /\ Escapes[2] = <<"%", "0", "D">> /\ Escaped[2] = "CR"
      /\ 3 \in DOMAIN Escapes /\ Escapes[3] = <<"%", "0", "A">> /\ Escaped[3] = "LF"
      /\ 4 \in DOMAIN Escapes /\ Escapes[4] = <<"%", "3", "A">> /\ Escaped[4] = ":"
      /\ 5 \in DOMAIN Escapes /\ Escapes[5] = <<"%", "2", "C">> /\ Escaped[5] = ","
  BY DEF Escapes, Escaped
<1>2. \A p, q, r \in Marks \ {"CR", "LF", ":", ","} :
        Free(<<p, q, r>>, {"CR", "LF"}) /\ Free(<<p, q, r>>, {"CR", "LF", ":", ","})
  <2> SUFFICES ASSUME NEW p \in Marks \ {"CR", "LF", ":", ","},
                      NEW q \in Marks \ {"CR", "LF", ":", ","},
                      NEW r \in Marks \ {"CR", "LF", ":", ","}
               PROVE  Free(<<p, q, r>>, {"CR", "LF", ":", ","})
    BY DEF Free
  <2> QED
    BY ThreeFree
<1>3. {"%", "0", "2", "3", "5", "A", "C", "D"} \subseteq Marks \ {"CR", "LF", ":", ","}
  BY DEF Marks
<1>4. CASE x = "%"
  <2>1. MessageCode(x) = <<"%", "2", "5">> /\ PropertyCode(x) = <<"%", "2", "5">>
    BY <1>4 DEF MessageCode, PropertyCode
  <2> QED
    BY <1>1, <1>2, <1>3, <1>4, <2>1 DEF Token
<1>5. CASE x = "CR"
  <2>1. MessageCode(x) = <<"%", "0", "D">> /\ PropertyCode(x) = <<"%", "0", "D">>
    BY <1>5 DEF MessageCode, PropertyCode
  <2> QED
    BY <1>1, <1>2, <1>3, <1>5, <2>1 DEF Token
<1>6. CASE x = "LF"
  <2>1. MessageCode(x) = <<"%", "0", "A">> /\ PropertyCode(x) = <<"%", "0", "A">>
    BY <1>6 DEF MessageCode, PropertyCode
  <2> QED
    BY <1>1, <1>2, <1>3, <1>6, <2>1 DEF Token
<1>7. CASE x \notin {"%", "CR", "LF"}
  <2>1. MessageCode(x) = <<x>>
    BY <1>7 DEF MessageCode
  <2>2. Token(<<x>>, x) /\ Free(<<x>>, {"CR", "LF"})
    BY <1>7 DEF Token, Free
  <2>3. CASE x = ":"
    <3>1. PropertyCode(x) = <<"%", "3", "A">>
      BY <2>3 DEF PropertyCode
    <3> QED
      BY <1>1, <1>2, <1>3, <2>1, <2>2, <2>3, <3>1 DEF Token
  <2>4. CASE x = ","
    <3>1. PropertyCode(x) = <<"%", "2", "C">>
      BY <2>4 DEF PropertyCode
    <3> QED
      BY <1>1, <1>2, <1>3, <2>1, <2>2, <2>4, <3>1 DEF Token
  <2>5. CASE x \notin {":", ","}
    <3>1. PropertyCode(x) = <<x>>
      BY <2>1, <2>5 DEF PropertyCode
    <3>2. Free(<<x>>, {"CR", "LF", ":", ","})
      <4>1. \A i \in 1 .. Len(<<x>>) : <<x>>[i] = x
        OBVIOUS
      <4> QED
        BY <1>7, <2>5, <4>1 DEF Free
    <3> QED
      BY <2>1, <2>2, <3>1, <3>2
  <2> QED
    BY <2>3, <2>4, <2>5
<1> QED
  BY <1>4, <1>5, <1>6, <1>7

\* The percent sign goes first, so that no escape is escaped again.
LEMMA MessageEscaped ==
  ASSUME NEW Y, Marks \subseteq Y, NEW s \in Seq(Y), NEW x \in Y
  PROVE  /\ escape_github_message(s) \in Seq(Y) /\ escape_github_message(<<>>) = <<>>
         /\ escape_github_message(s \o <<x>>) = escape_github_message(s) \o MessageCode(x)
<1> DEFINE percent == <<"%", "2", "5">>
           cr == <<"%", "0", "D">>
           lf == <<"%", "0", "A">>
           s1 == Replace(s, "%", percent)
           s2 == Replace(s1, "CR", cr)
           t1 == Replace(s \o <<x>>, "%", percent)
           t2 == Replace(t1, "CR", cr)
<1>1. /\ {"%", "0", "2", "3", "5", "A", "C", "D"} \subseteq Y
      /\ percent \in Seq(Y) /\ cr \in Seq(Y) /\ lf \in Seq(Y)
  <2>1. {"%", "0", "2", "3", "5", "A", "C", "D"} \subseteq Y
    BY DEF Marks
  <2> QED
    BY <2>1
<1> HIDE DEF percent, cr, lf
<1>2. /\ s1 \in Seq(Y) /\ Replace(<<>>, "%", percent) = <<>>
      /\ t1 = s1 \o Image(x, "%", percent)
  <2>1. Passed(Y, s, "%", percent)
    BY <1>1, OnePass
  <2> QED
    BY <2>1 DEF Passed
<1> HIDE DEF s1, t1
<1>3. /\ s2 \in Seq(Y) /\ Replace(<<>>, "CR", cr) = <<>>
      /\ Replace(s1 \o <<x>>, "CR", cr) = s2 \o Image(x, "CR", cr)
      /\ Replace(s1 \o percent, "CR", cr) = s2 \o percent
  <2>1. "%" \in Y \ {"CR"} /\ "2" \in Y \ {"CR"} /\ "5" \in Y \ {"CR"}
    BY <1>1
  <2>2. Passed(Y, s1, "CR", cr)
    BY <1>1, <1>2, OnePass
  <2> QED
    BY <2>1, <2>2 DEF Passed, percent
<1> HIDE DEF s2
<1>4. /\ Replace(s2, "LF", lf) \in Seq(Y) /\ Replace(<<>>, "LF", lf) = <<>>
      /\ Replace(s2 \o <<x>>, "LF", lf) = Replace(s2, "LF", lf) \o Image(x, "LF", lf)
      /\ Replace(s2 \o percent, "LF", lf) = Replace(s2, "LF", lf) \o percent
      /\ Replace(s2 \o cr, "LF", lf) = Replace(s2, "LF", lf) \o cr
  <2>1. /\ "%" \in Y \ {"LF"} /\ "2" \in Y \ {"LF"} /\ "5" \in Y \ {"LF"}
        /\ "0" \in Y \ {"LF"} /\ "D" \in Y \ {"LF"}
    BY <1>1
  <2>2. Passed(Y, s2, "LF", lf)
    BY <1>1, <1>3, OnePass
  <2> QED
    BY <2>1, <2>2 DEF Passed, percent, cr
<1>5. /\ escape_github_message(s) = Replace(s2, "LF", lf)
      /\ escape_github_message(s \o <<x>>) = Replace(t2, "LF", lf)
      /\ escape_github_message(<<>>) =
           Replace(Replace(Replace(<<>>, "%", percent), "CR", cr), "LF", lf)
  BY DEF escape_github_message, s1, s2, t1, percent, cr, lf
<1>6. Replace(t2, "LF", lf) = Replace(s2, "LF", lf) \o MessageCode(x)
  <2>1. MessageCode(x) = IF x = "%" THEN percent ELSE IF x = "CR" THEN cr
                         ELSE IF x = "LF" THEN lf ELSE <<x>>
    BY DEF MessageCode, percent, cr, lf
  <2>2. CASE x = "%"
    BY <1>2, <1>3, <1>4, <2>1, <2>2 DEF Image
  <2>3. CASE x # "%"
    BY <1>2, <1>3, <1>4, <2>1, <2>3 DEF Image
  <2> QED
    BY <2>2, <2>3
<1> QED
  BY <1>2, <1>3, <1>4, <1>5, <1>6

\* The two further passes leave the escapes of the first three alone.
LEMMA PropertyEscaped ==
  ASSUME NEW Y, Marks \subseteq Y, NEW s \in Seq(Y), NEW x \in Y
  PROVE  /\ escape_github_property(s) \in Seq(Y) /\ escape_github_property(<<>>) = <<>>
         /\ escape_github_property(s \o <<x>>) = escape_github_property(s) \o PropertyCode(x)
<1> DEFINE colon == <<"%", "3", "A">>
           comma == <<"%", "2", "C">>
           m == escape_github_message(s)
           m1 == Replace(m, ":", colon)
           n == escape_github_message(s \o <<x>>)
           n1 == Replace(n, ":", colon)
<1>1. /\ {"%", "0", "2", "3", "5", "A", "C", "D"} \subseteq Y
      /\ colon \in Seq(Y) /\ comma \in Seq(Y)
  <2>1. {"%", "0", "2", "3", "5", "A", "C", "D"} \subseteq Y
    BY DEF Marks
  <2> QED
    BY <2>1
<1>2. /\ m \in Seq(Y) /\ n = m \o MessageCode(x) /\ escape_github_message(<<>>) = <<>>
  BY MessageEscaped
<1>3. /\ escape_github_property(s) = Replace(m1, ",", comma)
      /\ escape_github_property(s \o <<x>>) = Replace(n1, ",", comma)
      /\ escape_github_property(<<>>) =
           Replace(Replace(escape_github_message(<<>>), ":", colon), ",", comma)
  BY DEF escape_github_property, m1, n1, m, n, colon, comma
<1> HIDE DEF m, n, colon, comma
<1>4. /\ m1 \in Seq(Y) /\ Replace(<<>>, ":", colon) = <<>>
      /\ Replace(m \o <<x>>, ":", colon) = m1 \o Image(x, ":", colon)
      /\ \A p, q, r \in Y \ {":"} : Replace(m \o <<p, q, r>>, ":", colon) = m1 \o <<p, q, r>>
  <2>1. Passed(Y, m, ":", colon)
    BY <1>1, <1>2, OnePass
  <2> QED
    BY <2>1 DEF Passed
<1> HIDE DEF m1
<1>5. /\ Replace(m1, ",", comma) \in Seq(Y) /\ Replace(<<>>, ",", comma) = <<>>
      /\ Replace(m1 \o <<x>>, ",", comma) = Replace(m1, ",", comma) \o Image(x, ",", comma)
      /\ \A p, q, r \in Y \ {","} :
           Replace(m1 \o <<p, q, r>>, ",", comma) = Replace(m1, ",", comma) \o <<p, q, r>>
  <2>1. Passed(Y, m1, ",", comma)
    BY <1>1, <1>4, OnePass
  <2> QED
    BY <2>1 DEF Passed
<1>6. \A p \in {"%", "0", "2", "3", "5", "A", "C", "D"} : p \in Y \ {":"} /\ p \in Y \ {","}
  BY <1>1
<1>7. Replace(n1, ",", comma) = Replace(m1, ",", comma) \o PropertyCode(x)
  <2>1. CASE x \in {"%", "CR", "LF"}
    <3>1. PropertyCode(x) = MessageCode(x)
      BY <2>1 DEF PropertyCode
    <3>2. PICK p \in {"%", "0", "2", "3", "5", "A", "C", "D"},
               q \in {"%", "0", "2", "3", "5", "A", "C", "D"},
               r \in {"%", "0", "2", "3", "5", "A", "C", "D"} : MessageCode(x) = <<p, q, r>>
      BY <2>1 DEF MessageCode
    <3>3. /\ p \in Y \ {":"} /\ q \in Y \ {":"} /\ r \in Y \ {":"}
          /\ p \in Y \ {","} /\ q \in Y \ {","} /\ r \in Y \ {","}
      BY <1>6
    <3>4. n = m \o <<p, q, r>>
      BY <1>2, <3>2
    <3>5. Replace(m \o <<p, q, r>>, ":", colon) = m1 \o <<p, q, r>>
      BY <1>4, <3>3
    <3>6. Replace(m1 \o <<p, q, r>>, ",", comma) = Replace(m1, ",", comma) \o <<p, q, r>>
      BY <1>5, <3>3
    <3> QED
      BY <3>1, <3>2, <3>4, <3>5, <3>6
  <2>2. CASE x \notin {"%", "CR", "LF"}
    <3>1. MessageCode(x) = <<x>>
      BY <2>2 DEF MessageCode
    <3>2. PropertyCode(x) = IF x = ":" THEN colon ELSE IF x = "," THEN comma ELSE <<x>>
      BY <3>1 DEF PropertyCode, colon, comma
    <3>3. Replace(m1 \o colon, ",", comma) = Replace(m1, ",", comma) \o colon
      BY <1>5, <1>6 DEF colon
    <3>4. CASE x = ":"
      BY <1>2, <1>4, <3>1, <3>2, <3>3, <3>4 DEF Image
    <3>5. CASE x # ":"
      BY <1>2, <1>4, <1>5, <3>1, <3>2, <3>5 DEF Image
    <3> QED
      BY <3>4, <3>5
  <2> QED
    BY <2>1, <2>2
<1> QED
  BY <1>2, <1>3, <1>4, <1>5, <1>7

\* A text free of some characters has none of them.
LEMMA FreeRange ==
  ASSUME NEW Y, NEW u \in Seq(Y), NEW chars, Free(u, chars)
  PROVE  Range(u) \cap chars = {}
<1>1. \A y \in Range(u) : \E i \in 1 .. Len(u) : y = u[i]
  BY DEF Range
<1> QED
  BY <1>1 DEF Free

\* A text escaped for a message is the text, in other characters.
LEMMA MessageLossless ==
  ASSUME NEW t, Sequence(t)
  PROVE  /\ Unescaped(escape_github_message(t)) = t
         /\ Range(escape_github_message(t)) \cap {"CR", "LF"} = {}
<1> DEFINE Y == Range(t) \cup Marks
           g == [m \in 0 .. Len(t) |-> escape_github_message(SubSeq(t, 1, m))]
           chars == {"CR", "LF"}
<1>1. t \in Seq(Y) /\ Len(t) \in Nat
  BY DEF Sequence
<1>2. Marks \subseteq Y
  OBVIOUS
<1> HIDE DEF Y
<1>3. ASSUME NEW m \in 1 .. Len(t)
      PROVE  \E tok : Token(tok, t[m]) /\ Free(tok, chars) /\ g[m] = g[m - 1] \o tok
  <2> DEFINE s == SubSeq(t, 1, m - 1)
             x == t[m]
  <2>1. s \in Seq(Y) /\ x \in Y /\ SubSeq(t, 1, m) = s \o <<x>>
    BY <1>1
  <2>2. m \in 0 .. Len(t) /\ m - 1 \in 0 .. Len(t)
    BY <1>1
  <2>3. g[m] = escape_github_message(SubSeq(t, 1, m)) /\ g[m - 1] = escape_github_message(s)
    BY <2>2
  <2> HIDE DEF s, x, g
  <2>4. escape_github_message(s \o <<x>>) = escape_github_message(s) \o MessageCode(x)
    BY <1>2, <2>1, MessageEscaped
  <2>5. Token(MessageCode(x), x) /\ Free(MessageCode(x), chars)
    BY CodesAreTokens
  <2>6. g[m] = g[m - 1] \o MessageCode(x)
    BY <2>1, <2>3, <2>4
  <2> QED
    BY <2>5, <2>6 DEF x
<1>4. g[0] = <<>>
  <2>1. 0 \in 0 .. Len(t) /\ SubSeq(t, 1, 0) = <<>>
    BY <1>1
  <2>2. g[0] = escape_github_message(<<>>)
    BY <2>1
  <2>3. "%" \in Marks
    BY DEF Marks
  <2>4. "%" \in Y /\ <<>> \in Seq(Y)
    BY <1>2, <2>3
  <2> QED
    BY <1>2, <2>2, <2>4, MessageEscaped
<1>5. g[Len(t)] = escape_github_message(t)
  <2>1. Len(t) \in 0 .. Len(t) /\ SubSeq(t, 1, Len(t)) = t
    BY <1>1
  <2> QED
    BY <2>1
<1> HIDE DEF g
<1>6. /\ Unescaped(g[Len(t)]) = t /\ g[Len(t)] \in Seq(Y) /\ Free(g[Len(t)], chars)
  BY <1>1, <1>2, <1>3, <1>4, TokensDecode
<1> QED
  BY <1>5, <1>6, FreeRange

\* A file name escaped for a property is the file name, in other characters.
LEMMA PropertyLossless ==
  ASSUME NEW t, Sequence(t)
  PROVE  /\ Unescaped(escape_github_property(t)) = t
         /\ Range(escape_github_property(t)) \cap {"CR", "LF", ":", ","} = {}
<1> DEFINE Y == Range(t) \cup Marks
           g == [m \in 0 .. Len(t) |-> escape_github_property(SubSeq(t, 1, m))]
           chars == {"CR", "LF", ":", ","}
<1>1. t \in Seq(Y) /\ Len(t) \in Nat
  BY DEF Sequence
<1>2. Marks \subseteq Y
  OBVIOUS
<1> HIDE DEF Y
<1>3. ASSUME NEW m \in 1 .. Len(t)
      PROVE  \E tok : Token(tok, t[m]) /\ Free(tok, chars) /\ g[m] = g[m - 1] \o tok
  <2> DEFINE s == SubSeq(t, 1, m - 1)
             x == t[m]
  <2>1. s \in Seq(Y) /\ x \in Y /\ SubSeq(t, 1, m) = s \o <<x>>
    BY <1>1
  <2>2. m \in 0 .. Len(t) /\ m - 1 \in 0 .. Len(t)
    BY <1>1
  <2>3. g[m] = escape_github_property(SubSeq(t, 1, m)) /\ g[m - 1] = escape_github_property(s)
    BY <2>2
  <2> HIDE DEF s, x, g
  <2>4. escape_github_property(s \o <<x>>) = escape_github_property(s) \o PropertyCode(x)
    BY <1>2, <2>1, PropertyEscaped
  <2>5. Token(PropertyCode(x), x) /\ Free(PropertyCode(x), chars)
    BY CodesAreTokens
  <2>6. g[m] = g[m - 1] \o PropertyCode(x)
    BY <2>1, <2>3, <2>4
  <2> QED
    BY <2>5, <2>6 DEF x
<1>4. g[0] = <<>>
  <2>1. 0 \in 0 .. Len(t) /\ SubSeq(t, 1, 0) = <<>>
    BY <1>1
  <2>2. g[0] = escape_github_property(<<>>)
    BY <2>1
  <2>3. "%" \in Marks
    BY DEF Marks
  <2>4. "%" \in Y /\ <<>> \in Seq(Y)
    BY <1>2, <2>3
  <2> QED
    BY <1>2, <2>2, <2>4, PropertyEscaped
<1>5. g[Len(t)] = escape_github_property(t)
  <2>1. Len(t) \in 0 .. Len(t) /\ SubSeq(t, 1, Len(t)) = t
    BY <1>1
  <2> QED
    BY <2>1
<1> HIDE DEF g
<1>6. /\ Unescaped(g[Len(t)]) = t /\ g[Len(t)] \in Seq(Y) /\ Free(g[Len(t)], chars)
  BY <1>1, <1>2, <1>3, <1>4, TokensDecode
<1> QED
  BY <1>5, <1>6, FreeRange

\* A file stays a text when it is made relative.
LEMMA RelativeIsText ==
  ASSUME NEW file, Sequence(file), Cwd \in Seq(Range(Cwd))
  PROVE  Sequence(RelativeFile(file))
<1> DEFINE Y == Range(file) \cup {"/"}
           rest == IF IsPrefix(Cwd, file) THEN SubSeq(file, Len(Cwd) + 1, Len(file)) ELSE file
<1>1. file \in Seq(Y) /\ Len(Cwd) \in Nat /\ <<"/">> \in Seq(Y)
  BY DEF Sequence
<1> HIDE DEF Y
<1>2. rest \in Seq(Y)
  <2>1. SubSeq(file, Len(Cwd) + 1, Len(file)) \in Seq(Y)
    BY <1>1
  <2> QED
    BY <1>1, <2>1
<1>3. RelativeFile(file) = Replace(rest, "BS", <<"/">>)
  BY DEF RelativeFile
<1> HIDE DEF rest
<1>4. Passed(Y, rest, "BS", <<"/">>)
  BY <1>1, <1>2, OnePass
<1> QED
  BY <1>3, <1>4, SeqIsSequence DEF Passed

\* What both sequences have.
LEMMA PrefixElement ==
  ASSUME NEW X, NEW s \in Seq(X), NEW Z, NEW t \in Seq(Z), IsPrefix(s, t), NEW i \in 1 .. Len(s)
  PROVE  s[i] = t[i]
<1>1. i \in 1 .. Len(t) /\ Len(s) \in Nat
  BY DEF IsPrefix
<1>2. SubSeq(s, 1, Len(s))[i] = s[i] /\ SubSeq(t, 1, Len(s))[i] = t[i]
  BY <1>1 DEF IsPrefix
<1> QED
  BY <1>2 DEF IsPrefix

\* Annotations are single lines that say what their findings say.
THEOREM AnnotationsLossless == Spec => []AnnotationsAreLossless
<1>1. ReportInv => AnnotationsAreLossless
  <2> SUFFICES ASSUME ReportInv, format = "github", ~ listing, NEW i \in DOMAIN out
               PROVE  /\ Range(out[i].message) \cap {"CR", "LF"} = {}
                      /\ Range(out[i].file) \cap {"CR", "LF", ":", ","} = {}
                      /\ Unescaped(out[i].message) = acc[i].message
                      /\ Unescaped(out[i].file) = RelativeFile(acc[i].span.file)
    BY DEF AnnotationsAreLossless
  <2> DEFINE report == Report("github", findings)
             f == findings[i]
  <2>1. /\ findings \in Seq(Range(findings)) /\ acc \in Seq(Range(findings))
        /\ out \in Seq(Range(out)) /\ IsPrefix(acc, findings) /\ "github" \in Formats
    BY FunctionIsSequence DEF ReportInv, TypeOK, Formats, Sequence
  <2>2. IsPrefix(out, report) /\ Len(out) <= Len(acc)
    <3>1. pc # "collect"
      BY DEF ReportInv, FindingsAreParsed
    <3> QED
      BY <3>1 DEF ReportInv, ReportFollowsFindings, ReportSoFar
  <2>3. i \in 1 .. Len(out) /\ i \in 1 .. Len(acc) /\ i \in 1 .. Len(findings)
    BY <2>1, <2>2 DEF IsPrefix
  <2>4. acc[i] = f
    BY <2>1, <2>3, PrefixElement
  <2>5. Sequence(f.message) /\ Sequence(f.span.file)
    BY <2>1, <2>3 DEF ReportInv, TypeOK, Sequence
  <2>6. out[i] = format_github_annotation(f)
    <3>1. report = Body("github", findings)
      BY DEF Report, Body
    <3>2. Sequence(report) /\ report[i] = Rendered("github", f)[1]
      BY <2>1, <2>3, <3>1, BodyLines
    <3>3. Rendered("github", f)[1] = format_github_annotation(f)
      BY DEF Rendered
    <3>4. out[i] = report[i]
      BY <2>1, <2>2, <2>3, <3>2, PrefixElement DEF Sequence
    <3> QED
      BY <3>2, <3>3, <3>4
  <2> HIDE DEF f
  <2>7. Sequence(RelativeFile(f.span.file))
    BY <2>5, RelativeIsText, ReportAssumption
  <2>8. /\ out[i].message = escape_github_message(f.message)
        /\ out[i].file = escape_github_property(RelativeFile(f.span.file))
    BY <2>6 DEF format_github_annotation
  <2> QED
    BY <2>4, <2>5, <2>7, <2>8, MessageLossless, PropertyLossless
<1> QED
  BY <1>1, ReportInductive, PTL
=============================================================================
