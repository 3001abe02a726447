------------------------- MODULE MeasurementProofs --------------------------
(***************************************************************************)
(* Proofs about the performance gate, for any contracts, speeds, numbers   *)
(* of samples and thresholds: it catches every slowdown unless most of the *)
(* samples were short, and forgives every noise unless half of them were   *)
(* slow, or the other way round when the record was made.  About the cost  *)
(* benchmarks, for any prices and numbers of turns.  In the end, the three *)
(* harnesses in one workspace, where the two gates share the corpus.       *)
(***************************************************************************)
EXTENDS MCMeasurements, CorpusGateProofs

\* What the assumption on the constants says, fact by fact.
LEMMA PerfFacts ==
  /\ Len(Contracts) \in Nat
  /\ \A i \in 1 .. Len(Contracts) : Contracts[i] \in Names
  /\ Speeds \subseteq Nat \ {0}
  /\ Slowed \in Nat \ {0}
  /\ Shorts \subseteq Nat \ {0}
  /\ Iterations \subseteq Nat \ {0}
  /\ Thresholds \subseteq Nat
<1>1. Contracts \in Seq(Names)
  BY ContractsAssumption DEF Names
<1>2. Len(Contracts) \in Nat /\ \A i \in 1 .. Len(Contracts) : Contracts[i] \in Names
  BY <1>1
<1> QED
  BY <1>2, PerfAssumption

-----------------------------------------------------------------------------
\* Totals.

\* Every prefix of the contracts has its running totals.
LEMMA TotalsOfPrefix ==
  ASSUME NEW ms, NEW n \in Nat
  PROVE  \E f : f = [m \in 0 .. n |->
                       IF m = 0 THEN 0 ELSE f[m - 1] + ms[Contracts[m]]]
<1> DEFINE Sums(b, f) ==
             f = [m \in 0 .. b |-> IF m = 0 THEN 0 ELSE f[m - 1] + ms[Contracts[m]]]
<1> DEFINE bad == {b \in Nat : ~ \E f : Sums(b, f)}
<1>1. SUFFICES ASSUME bad # {} PROVE FALSE
  OBVIOUS
<1> DEFINE b == Min(bad)
<1>2. b \in bad /\ \A k \in bad : b <= k
  BY <1>1, LeastNat
<1> HIDE DEF b
<1>3. b \in Nat /\ b # 0
  <2> DEFINE zero == [m \in 0 .. 0 |-> 0]
  <2>1. Sums(0, zero)
    OBVIOUS
  <2>2. 0 \notin bad
    BY <2>1
  <2> QED
    BY <1>2, <2>2
<1>4. PICK f : Sums(b - 1, f)
  <2>1. b - 1 \in Nat /\ ~ b <= b - 1
    BY <1>3
  <2>2. b - 1 \notin bad
    BY <1>2, <2>1
  <2> QED
    BY <2>1, <2>2
<1> DEFINE g == [m \in 0 .. b |->
                   IF m < b THEN f[m] ELSE f[b - 1] + ms[Contracts[b]]]
<1>5. \A m \in 0 .. b - 1 :
        f[m] = IF m = 0 THEN 0 ELSE f[m - 1] + ms[Contracts[m]]
  BY <1>3, <1>4
<1>6. \A m \in 0 .. b :
        g[m] = IF m = 0 THEN 0 ELSE g[m - 1] + ms[Contracts[m]]
  <2> SUFFICES ASSUME NEW m \in 0 .. b
               PROVE  g[m] = IF m = 0 THEN 0 ELSE g[m - 1] + ms[Contracts[m]]
    OBVIOUS
  <2>1. CASE m = b
    BY <2>1, <1>3
  <2>2. CASE m < b
    BY <2>2, <1>3, <1>5
  <2> QED
    BY <2>1, <2>2, <1>3
<1>7. Sums(b, g)
  BY <1>6
<1> QED
  BY <1>2, <1>7

\* The running totals are what their definition says.
LEMMA TotalSteps ==
  ASSUME NEW ms
  PROVE  /\ Totals(ms)[0] = 0
         /\ \A n \in 1 .. Len(Contracts) :
              Totals(ms)[n] = Totals(ms)[n - 1] + ms[Contracts[n]]
<1> DEFINE Sums(f) == f = [n \in 0 .. Len(Contracts) |->
                            IF n = 0 THEN 0 ELSE f[n - 1] + ms[Contracts[n]]]
<1>1. \E f : Sums(f)
  BY PerfFacts, TotalsOfPrefix
<1>2. Sums(CHOOSE f : Sums(f))
  BY <1>1
<1>3. Totals(ms) = CHOOSE f : Sums(f)
  BY DEF Totals
<1>4. Sums(Totals(ms))
  BY <1>2, <1>3
<1> QED
  BY <1>4, PerfFacts

\* Totals of times that are numbers are numbers.
LEMMA TotalIsNat ==
  ASSUME NEW ms \in [Names -> Nat]
  PROVE  /\ \A n \in 0 .. Len(Contracts) : Totals(ms)[n] \in Nat
         /\ Total(ms) \in Nat
<1> DEFINE bad == {n \in 0 .. Len(Contracts) : Totals(ms)[n] \notin Nat}
<1>1. bad = {}
  <2> SUFFICES ASSUME bad # {} PROVE FALSE
    OBVIOUS
  <2> DEFINE n == Min(bad)
  <2>1. n \in bad /\ \A k \in bad : n <= k
    BY LeastNat, SMTT(60)
  <2> HIDE DEF n
  <2>2. n \in 1 .. Len(Contracts)
    BY <2>1, TotalSteps
  <2>3. Totals(ms)[n - 1] \in Nat
    BY <2>1, <2>2, PerfFacts
  <2>4. Totals(ms)[n] = Totals(ms)[n - 1] + ms[Contracts[n]]
    BY <2>2, TotalSteps
  <2> QED
    BY <2>1, <2>2, <2>3, <2>4, PerfFacts
<1> QED
  BY <1>1, PerfFacts DEF Total

\* If every part of one total is at most b percent of a part of another, so
\* is the total.
LEMMA TotalsScale ==
  ASSUME NEW f \in [Names -> Nat], NEW g \in [Names -> Nat], NEW b \in Nat,
         \A c \in Names : f[c] * 100 <= b * g[c]
  PROVE  Total(f) * 100 <= b * Total(g)
<1> DEFINE bad == {n \in 0 .. Len(Contracts) :
                     ~ Totals(f)[n] * 100 <= b * Totals(g)[n]}
<1>1. bad = {}
  <2> SUFFICES ASSUME bad # {} PROVE FALSE
    OBVIOUS
  <2> DEFINE n == Min(bad)
  <2>1. n \in bad /\ \A k \in bad : n <= k
    <3>1. bad \subseteq Nat
      BY PerfFacts
    <3> HIDE DEF bad
    <3> QED
      BY <3>1, LeastNat
  <2> HIDE DEF n
  <2>2. n # 0
    BY <2>1, TotalSteps
  <2>3. n \in 1 .. Len(Contracts) /\ n - 1 \in 0 .. Len(Contracts)
    BY <2>1, <2>2, PerfFacts
  <2> DEFINE F == Totals(f)[n - 1]
             G == Totals(g)[n - 1]
             x == f[Contracts[n]]
             y == g[Contracts[n]]
  <2>4. F * 100 <= b * G
    BY <2>1, <2>3, PerfFacts
  <2>5. x * 100 <= b * y
    BY <2>3, PerfFacts
  <2>6. F \in Nat /\ G \in Nat /\ x \in Nat /\ y \in Nat
    BY <2>3, TotalIsNat, PerfFacts
  <2>7. Totals(f)[n] = F + x /\ Totals(g)[n] = G + y
    BY <2>3, TotalSteps
  <2>8. ~ (F + x) * 100 <= b * (G + y)
    BY <2>1, <2>7
  <2> HIDE DEF F, G, x, y
  <2>9. b * (G + y) = b * G + b * y /\ (F + x) * 100 = F * 100 + x * 100
    BY <2>6
  <2>10. b * G \in Int /\ b * y \in Int
    BY <2>6
  <2> QED
    BY <2>4, <2>5, <2>6, <2>8, <2>9, <2>10
<1> QED
  BY <1>1, PerfFacts DEF Total

-----------------------------------------------------------------------------
\* Medians.

\* The median of n samples stands at a place among them, after the first k
\* unless these are more than half, and before the last k unless these are half.
LEMMA MiddleOf ==
  ASSUME NEW n \in Nat \ {0}
  PROVE  /\ 1 + CeilDiv((n - 1) * 50, 100) \in 1 .. n
         /\ \A k \in 0 .. n :
              /\ 2 * k <= n => 1 + CeilDiv((n - 1) * 50, 100) > k
              /\ 2 * k < n => 1 + CeilDiv((n - 1) * 50, 100) <= n - k
BY DEF CeilDiv

\* Short samples make a median less only if they are more than half, slow ones
\* make it more only if they are half.
LEMMA MedianIsBounded ==
  ASSUME NEW ms \in Nat \ {0}, NEW brief \in Shorts,
         NEW shorts \in 0 .. iterations, NEW slows \in 0 .. iterations,
         iterations \in Nat \ {0}, shorts > 0 => brief < ms
  PROVE  LET median == percentile(Samples(ms, brief, shorts, slows), 50)
         IN /\ median \in Nat \ {0}
            /\ 2 * shorts <= iterations => median >= ms
            /\ 2 * slows < iterations => median <= ms
<1> DEFINE middle == 1 + CeilDiv((iterations - 1) * 50, 100)
           s == Samples(ms, brief, shorts, slows)
           slow == Slowed * ms
<1>1. slow \in Nat /\ slow >= ms
  BY PerfFacts
<1>2. brief \in Nat \ {0}
  BY PerfFacts
<1>3. s \in [1 .. iterations -> Nat]
  BY <1>1, <1>2 DEF Samples
<1>4. Len(s) = iterations
  BY <1>3
<1>5. percentile(s, 50) = s[middle]
  BY <1>4 DEF percentile
<1>6. /\ middle \in 1 .. iterations
      /\ 2 * shorts <= iterations => middle > shorts
      /\ 2 * slows < iterations => middle <= iterations - slows
  BY MiddleOf
<1>7. s[middle] = IF middle <= shorts THEN brief
                  ELSE IF middle <= iterations - slows THEN ms ELSE slow
  BY <1>6 DEF Samples
<1> HIDE DEF s, middle, slow
<1> QED
  BY <1>1, <1>2, <1>5, <1>6, <1>7 DEF s

-----------------------------------------------------------------------------
\* The inductive invariant but for the two promises, which it implies.

PerfBasis == PerfGateTypeOK /\ MediansAreBounded /\ VerdictStands

\* Thresholds are numbers.
LEMMA ThresholdTypes ==
  ASSUME PerfGateTypeOK
  PROVE  /\ threshold_percent \in Nat
         /\ recorded \notin {Missing, Torn} => effective_threshold \in Nat
<1>1. threshold_percent \in Nat
  BY PerfFacts DEF PerfGateTypeOK, threshold_percent, DEFAULT_THRESHOLD_PERCENT
<1> QED
  BY <1>1 DEF PerfGateTypeOK, effective_threshold, Baselines

\* The types of what is compared.
LEMMA ComparedTypes ==
  ASSUME PerfGateTypeOK
  PROVE  /\ medians \in [Names -> Nat] /\ timed \in [Names -> Nat]
         /\ was \in [Names -> Nat] /\ limit \in Nat
         /\ recorded \notin {Missing, Torn} => recorded.contracts \in [Names -> Nat]
BY DEF PerfGateTypeOK, Baselines

\* A slowdown shows when the median is no less than the truth, and the record
\* no more than it was.
LEMMA SlowdownsFound ==
  ASSUME PerfBasis
  PROVE  SlowdownsAreCaught
<1> SUFFICES ASSUME outcome = "ok", ~ short, ~ busyRecord, NEW c \in Names, Slower(c)
             PROVE  FALSE
  BY DEF SlowdownsAreCaught
<1> DEFINE now == medians[c]
           then == recorded.contracts[c]
           true == timed[c]
           trueThen == was[c]
<1>1. recorded \notin {Missing, Torn} /\ ~ Regressed(limit)
  BY DEF PerfBasis, VerdictStands
<1>2. now \in Nat /\ then \in Nat /\ true \in Nat /\ trueThen \in Nat /\ limit \in Nat
  BY <1>1, ComparedTypes DEF PerfBasis
<1>3. now >= true /\ then <= trueThen /\ (then = 0 <=> trueThen = 0)
  BY <1>1 DEF PerfBasis, MediansAreBounded, Bounded
<1>4. trueThen > 0 /\ (true - trueThen) * 100 > limit * trueThen
  BY DEF Slower, Exceeds
<1>5. ~ (now > 0 /\ then > 0 /\ (now - then) * 100 > limit * then)
  BY <1>1 DEF Regressed, Exceeds
<1> HIDE DEF now, then, true, trueThen
<1>6. limit * then <= limit * trueThen /\ limit * then \in Nat /\ limit * trueThen \in Nat
  BY <1>2, <1>3
<1>7. now > 0 /\ then > 0
  BY <1>2, <1>3, <1>4, <1>6
<1>8. (now - then) * 100 >= (true - trueThen) * 100
  BY <1>2, <1>3
<1> QED
  BY <1>2, <1>4, <1>5, <1>6, <1>7, <1>8

\* A regression that shows in medians no more than the truth, against a record
\* no less than it was, has a slower contract behind it.
LEMMA NoiseFound ==
  ASSUME PerfBasis
  PROVE  NoiseIsForgiven
<1> SUFFICES ASSUME outcome = "regressed", ~ busy, ~ shortRecord,
                    \A c \in Names : timed[c] > 0 => was[c] # 0 /\ ~ Slower(c)
             PROVE  FALSE
  BY DEF NoiseIsForgiven
<1> DEFINE ms == recorded.contracts
<1>1. /\ recorded \notin {Missing, Torn}
      /\ recorded.total = Total(ms) /\ Regressed(limit)
  BY DEF PerfBasis, MediansAreBounded, VerdictStands
<1>2. /\ medians \in [Names -> Nat] /\ timed \in [Names -> Nat]
      /\ was \in [Names -> Nat] /\ ms \in [Names -> Nat] /\ limit \in Nat
  BY <1>1, ComparedTypes DEF PerfBasis
<1>3. \A c \in Names : /\ medians[c] <= timed[c] /\ ms[c] >= was[c]
                       /\ medians[c] = 0 <=> timed[c] = 0
  BY <1>1 DEF PerfBasis, MediansAreBounded, Bounded
<1>4. ASSUME NEW c \in Names
      PROVE  medians[c] * 100 <= (100 + limit) * ms[c]
  <2> DEFINE now == medians[c]
             then == ms[c]
             true == timed[c]
             trueThen == was[c]
  <2>1. now \in Nat /\ then \in Nat /\ true \in Nat /\ trueThen \in Nat
    BY <1>2
  <2>2. now <= true /\ trueThen <= then
    BY <1>3
  <2>3. true = 0 \/ ~ (true - trueThen) * 100 > limit * trueThen
    BY <2>1 DEF Slower, Exceeds
  <2> HIDE DEF now, then, true, trueThen
  <2>4. /\ limit * trueThen <= limit * then
        /\ limit * trueThen \in Nat /\ limit * then \in Nat
    BY <1>2, <2>1, <2>2
  <2>5. (100 + limit) * then = 100 * then + limit * then
    BY <1>2, <2>1
  <2>6. now * 100 <= (100 + limit) * then
    BY <1>2, <2>1, <2>2, <2>3, <2>4, <2>5
  <2> QED
    BY <2>6 DEF now, then
<1>5. Total(medians) * 100 <= (100 + limit) * Total(ms)
  BY <1>2, <1>4, TotalsScale
<1>6. Total(medians) \in Nat /\ Total(ms) \in Nat
  BY <1>2, TotalIsNat
<1>7. ASSUME NEW now \in Nat, NEW then \in Nat, now * 100 <= (100 + limit) * then
      PROVE  ~ Exceeds(now, then, limit)
  <2>1. (100 + limit) * then = 100 * then + limit * then /\ limit * then \in Nat
    BY <1>2, <1>7
  <2> QED
    BY <1>7, <2>1 DEF Exceeds
<1>8. ~ Exceeds(Total(medians), Total(ms), limit)
  BY <1>5, <1>6, <1>7
<1>9. \A c \in Names : ~ Exceeds(medians[c], ms[c], limit)
  BY <1>2, <1>4, <1>7
<1> QED
  BY <1>1, <1>8, <1>9 DEF Regressed

-----------------------------------------------------------------------------
\* One step of the gate.

\* Before the first benchmark nothing was measured.
LEMMA PerfBasisInit ==
  ASSUME CorpusInit, PerfGateInit
  PROVE  PerfBasis
<1>1. Nothing \in [Names -> Nat]
  BY DEF Nothing
<1>2. \A f \in {medians, timed, was} : f \in [Names -> Nat]
  BY <1>1 DEF PerfGateInit
<1>3. {busy, busyRecord, short, shortRecord} \subseteq BOOLEAN
  BY DEF PerfGateInit
<1>4. PerfGateTypeOK
  BY <1>2, <1>3 DEF CorpusInit, PerfGateInit, PerfGateTypeOK
<1>5. MediansAreBounded /\ VerdictStands
  BY DEF PerfGateInit, MediansAreBounded, Bounded, Nothing, VerdictStands
<1> QED
  BY <1>4, <1>5 DEF PerfBasis

\* What the verdict rests on.
verdictVars == <<recorded, medians, timed, was, busy, busyRecord, short,
                 shortRecord, outcome, limit, step>>

\* Edits, and a bench that has nothing to judge, leave it alone.
LEMMA VerdictKept ==
  ASSUME MediansAreBounded, VerdictStands, UNCHANGED verdictVars
  PROVE  MediansAreBounded' /\ VerdictStands'
<1>1. MediansAreBounded'
  BY DEF MediansAreBounded, verdictVars
<1>2. VerdictStands'
  BY DEF VerdictStands, verdictVars, Regressed
<1> QED
  BY <1>1, <1>2

\* An edit of the corpus or of the linter changes no sample and no record.
LEMMA EditsKeep ==
  ASSUME PerfBasis,
         \/ ChangeCorpus /\ UNCHANGED perfVars
         \/ EditLinter
         \/ UNCHANGED <<corpusVars, perfVars>>
  PROVE  PerfBasis'
<1>1. PerfGateTypeOK'
  <2>1. CASE ChangeCorpus /\ UNCHANGED perfVars
    BY <2>1 DEF ChangeCorpus, perfVars, SymDiff, PerfBasis, PerfGateTypeOK
  <2>2. CASE EditLinter
    BY <2>2 DEF EditLinter, PerfBasis, PerfGateTypeOK
  <2>3. CASE UNCHANGED <<corpusVars, perfVars>>
    BY <2>3 DEF corpusVars, perfVars, PerfBasis, PerfGateTypeOK
  <2> QED
    BY <2>1, <2>2, <2>3
<1>2. UNCHANGED verdictVars
  BY DEF EditLinter, perfVars, verdictVars
<1> QED
  BY <1>1, <1>2, VerdictKept DEF PerfBasis

\* A benchmark starts with no sample.
LEMMA StartBenchKeeps ==
  ASSUME PerfBasis, StartBench
  PROVE  PerfBasis'
<1>1. PerfGateTypeOK'
  <2>1. Nothing \in [Names -> Nat]
    BY DEF Nothing
  <2>2. \A f \in {medians', timed', was'} : f \in [Names -> Nat]
    BY <2>1 DEF StartBench, PerfBasis, PerfGateTypeOK
  <2>3. queue' \subseteq Names /\ (step' = "timing" => queue' # {})
        /\ step' \in {"timing", "idle"} /\ outcome' \in {"none", "panicked"}
    BY DEF StartBench, PerfBasis, PerfGateTypeOK
  <2>4. /\ iterations' \in Nat \ {0}
        /\ {busy', busyRecord', short', shortRecord'} \subseteq BOOLEAN
    BY PerfFacts DEF StartBench, PerfBasis, PerfGateTypeOK
  <2>5. UNCHANGED <<corpus, speed, recorded, limit>>
        /\ wanted' \in Thresholds \cup {Unset, Garbage}
    BY DEF StartBench, corpusVars
  <2> QED
    BY <2>2, <2>3, <2>4, <2>5 DEF PerfBasis, PerfGateTypeOK
<1>2. MediansAreBounded'
  BY DEF StartBench, PerfBasis, MediansAreBounded, Bounded, Nothing
<1>3. VerdictStands'
  BY DEF StartBench, PerfBasis, VerdictStands
<1> QED
  BY <1>1, <1>2, <1>3 DEF PerfBasis

\* The new median is bounded, and the flags of a run are never taken back.
LEMMA TimeKeeps ==
  ASSUME PerfBasis, Time
  PROVE  PerfBasis'
<1> DEFINE c == First(queue)
<1>1. PICK shorts \in 0 .. iterations, slows \in 0 .. iterations, brief \in Shorts :
        /\ shorts > 0 => brief < speed[c]
        /\ medians' = [medians EXCEPT ![c] =
                         percentile(Samples(speed[c], brief, shorts, slows), 50)]
        /\ busy' = (busy \/ 2 * slows >= iterations)
        /\ short' = (short \/ 2 * shorts > iterations)
  BY DEF Time
<1>2. c \in queue /\ c \in Names
  BY FirstIsListed DEF Time, PerfBasis, PerfGateTypeOK
<1>3. speed[c] \in Nat \ {0} /\ iterations \in Nat \ {0}
  BY <1>2, PerfFacts DEF PerfBasis, PerfGateTypeOK
<1> DEFINE median == percentile(Samples(speed[c], brief, shorts, slows), 50)
<1>4. /\ median \in Nat \ {0}
      /\ 2 * shorts <= iterations => median >= speed[c]
      /\ 2 * slows < iterations => median <= speed[c]
  BY <1>1, <1>3, MedianIsBounded
<1>5. timed' = [timed EXCEPT ![c] = speed[c]] /\ queue' = queue \ {c}
  BY DEF Time
<1>6. medians' = [medians EXCEPT ![c] = median]
  BY <1>1
<1> HIDE DEF c, median
<1>7. medians' \in [Names -> Nat] /\ timed' \in [Names -> Nat]
  BY <1>2, <1>3, <1>4, <1>5, <1>6 DEF PerfBasis, PerfGateTypeOK
<1>8. {busy', busyRecord', short', shortRecord'} \subseteq BOOLEAN
  <2>1. busy' \in BOOLEAN /\ short' \in BOOLEAN
    BY <1>1, Zenon
  <2> QED
    BY <2>1 DEF Time, PerfBasis, PerfGateTypeOK
<1>9. queue' \subseteq Names /\ (step' = "timing" => queue' # {})
      /\ step' \in {"timing", "comparing", "writing"}
  BY <1>2, <1>5 DEF Time, PerfBasis, PerfGateTypeOK, c
<1>10. PerfGateTypeOK'
  BY <1>7, <1>8, <1>9 DEF Time, corpusVars, PerfBasis, PerfGateTypeOK
<1>11. /\ ~ busy' => ~ busy /\ 2 * slows < iterations
       /\ ~ short' => ~ short /\ 2 * shorts <= iterations
  <2>1. /\ ~ busy' => ~ busy /\ ~ (2 * slows >= iterations)
        /\ ~ short' => ~ short /\ ~ (2 * shorts > iterations)
    BY <1>1, Zenon
  <2> QED
    BY <2>1, <1>3
<1>12. ASSUME NEW d \in Names
       PROVE  Bounded(medians'[d], timed'[d], short', busy')
  <2>1. CASE d = c
    <3>1. medians'[d] = median /\ timed'[d] = speed[c]
      BY <2>1, <1>2, <1>5, <1>6 DEF PerfBasis, PerfGateTypeOK
    <3> QED
      BY <3>1, <1>3, <1>4, <1>11 DEF Bounded
  <2>2. CASE d # c
    <3>1. medians'[d] = medians[d] /\ timed'[d] = timed[d]
      BY <2>2, <1>5, <1>6 DEF PerfBasis, PerfGateTypeOK
    <3>2. Bounded(medians[d], timed[d], short, busy)
      BY DEF PerfBasis, MediansAreBounded
    <3> QED
      BY <3>1, <3>2, <1>11 DEF Bounded
  <2> QED
    BY <2>1, <2>2
<1>13. UNCHANGED <<recorded, was, shortRecord, busyRecord>>
  BY DEF Time
<1>14. MediansAreBounded'
  BY <1>12, <1>13 DEF PerfBasis, MediansAreBounded
<1>15. VerdictStands'
  BY DEF Time, PerfBasis, VerdictStands
<1> QED
  BY <1>10, <1>14, <1>15 DEF PerfBasis

\* A benchmark that fails leaves the record whole, or torn.
LEMMA AbortKeeps ==
  ASSUME PerfBasis, Abort
  PROVE  PerfBasis'
<1>1. PerfGateTypeOK'
  BY DEF Abort, corpusVars, PerfBasis, PerfGateTypeOK
<1>2. MediansAreBounded'
  BY DEF Abort, PerfBasis, MediansAreBounded
<1>3. VerdictStands'
  BY DEF Abort, PerfBasis, VerdictStands
<1> QED
  BY <1>1, <1>2, <1>3 DEF PerfBasis

\* A record is made of the medians, and of their sum.
LEMMA RecordKeeps ==
  ASSUME PerfBasis, Record
  PROVE  PerfBasis'
<1>1. threshold_percent \in Nat /\ medians \in [Names -> Nat]
  BY ThresholdTypes DEF PerfBasis, PerfGateTypeOK
<1>2. Total(medians) \in Nat
  BY <1>1, TotalIsNat
<1>3. recorded' \in Baselines
  BY <1>1, <1>2 DEF Record, Baselines
<1>4. PerfGateTypeOK'
  BY <1>3 DEF Record, corpusVars, PerfBasis, PerfGateTypeOK
<1>5. MediansAreBounded'
  BY DEF Record, PerfBasis, MediansAreBounded
<1>6. VerdictStands'
  BY DEF Record, PerfBasis, VerdictStands
<1> QED
  BY <1>4, <1>5, <1>6 DEF PerfBasis

\* The verdict is the one of the limit that it is given with.
LEMMA JudgeKeeps ==
  ASSUME PerfBasis, Judge
  PROVE  PerfBasis'
<1>1. PerfGateTypeOK'
  BY ThresholdTypes DEF Judge, corpusVars, PerfBasis, PerfGateTypeOK
<1>2. MediansAreBounded'
  BY DEF Judge, PerfBasis, MediansAreBounded
<1>3. VerdictStands'
  BY DEF Judge, PerfBasis, VerdictStands, Regressed
<1> QED
  BY <1>1, <1>2, <1>3 DEF PerfBasis

-----------------------------------------------------------------------------
\* The theorems.

\* The whole inductive invariant of the gate, for runs of any length.
THEOREM PerfInductive == PerfGateSpec => []PerfInv
<1>1. CorpusInit /\ PerfGateInit => PerfBasis
  BY PerfBasisInit
<1>2. PerfBasis /\ [PerfGateNext]_<<corpusVars, perfVars>> => PerfBasis'
  BY EditsKeep, StartBenchKeeps, TimeKeeps, AbortKeeps, RecordKeeps, JudgeKeeps
     DEF PerfGateNext
<1>3. PerfBasis => PerfInv
  BY SlowdownsFound, NoiseFound DEF PerfBasis, PerfInv
<1> QED
  BY <1>1, <1>2, <1>3, PTL DEF PerfGateSpec

\* A contract that got slower than the threshold allows is never waved
\* through, unless most samples were short now or slow in the record: for any
\* speeds, thresholds, numbers of samples and short times.
THEOREM SlowdownsCaught == PerfGateSpec => []SlowdownsAreCaught
<1>1. PerfInv => SlowdownsAreCaught
  BY DEF PerfInv
<1> QED
  BY <1>1, PerfInductive, PTL

\* Nothing else than slow samples now, or short ones in the record, fails the
\* gate without a slower contract, for any of them and any number of contracts:
\* the total cannot exceed when no part does.
THEOREM NoiseForgiven == PerfGateSpec => []NoiseIsForgiven
<1>1. PerfInv => NoiseIsForgiven
  BY DEF PerfInv
<1> QED
  BY <1>1, PerfInductive, PTL

-----------------------------------------------------------------------------
\* The programs of the cost benchmarks.

\* The calls that they make: the only persistent entry is number 1.
Plain == {c \in Calls : c.on = "persistent" => c.key = 1}

\* The calls of the benchmarks are calls the host prices:
LEMMA PlainCalls ==
  ASSUME NEW kind \in Kinds, NEW key \in Nat,
         NEW on \in {"value", "ledger", "instance", "buffer"}
  PROVE  Call(kind, on, key) \in Plain
BY DEF Plain, Calls, Call, Places

\* also those on persistent storage.
LEMMA PersistentCall ==
  ASSUME NEW kind \in Kinds
  PROVE  Call(kind, "persistent", 1) \in Plain
BY DEF Plain, Calls, Call, Places

\* A loop around one call is that call, over and over.
LEMMA RepeatOne ==
  ASSUME NEW n \in Nat, NEW c
  PROVE  Repeat(n, <<c>>) = [i \in 1 .. n |-> c]
<1>1. Len(<<c>>) = 1 /\ n * 1 = n
  OBVIOUS
<1>2. \A i \in 1 .. n : 1 + ((i - 1) % 1) = 1
  OBVIOUS
<1> QED
  BY <1>1, <1>2 DEF Repeat

\* A loop around two calls is the two, in turn.
LEMMA RepeatTwo ==
  ASSUME NEW n \in Nat, NEW c, NEW d
  PROVE  Repeat(n, <<c, d>>) = [i \in 1 .. n * 2 |-> IF i % 2 = 1 THEN c ELSE d]
<1>1. Len(<<c, d>>) = 2
  OBVIOUS
<1>2. \A i \in 1 .. n * 2 : 1 + ((i - 1) % 2) = IF i % 2 = 1 THEN 1 ELSE 2
  OBVIOUS
<1> QED
  BY <1>1, <1>2 DEF Repeat

\* The appending loop, with the buffer that it starts from.
LEMMA Appending ==
  ASSUME NEW first, NEW c, NEW d, NEW n \in Nat
  PROVE  LET all == <<first>> \o Repeat(n, <<c, d>>)
         IN /\ Len(all) = 1 + n * 2
            /\ all[1] = first
            /\ \A i \in 2 .. 1 + n * 2 : all[i] = IF i % 2 = 0 THEN c ELSE d
            /\ all \in Seq({first, c, d})
<1> DEFINE S == {first, c, d}
           turns == Repeat(n, <<c, d>>)
<1>1. turns = [i \in 1 .. n * 2 |-> IF i % 2 = 1 THEN c ELSE d]
  BY RepeatTwo
<1>2. n * 2 \in Nat
  OBVIOUS
<1>3. turns \in Seq(S) /\ Len(turns) = n * 2
  BY <1>1, <1>2
<1> HIDE DEF turns
<1>4. <<first>> \in Seq(S) /\ Len(<<first>>) = 1
  OBVIOUS
<1>5. /\ <<first>> \o turns \in Seq(S)
      /\ Len(<<first>> \o turns) = 1 + n * 2
      /\ (<<first>> \o turns)[1] = first
      /\ \A i \in 2 .. 1 + n * 2 : (<<first>> \o turns)[i] = turns[i - 1]
  BY <1>2, <1>3, <1>4
<1>6. \A i \in 2 .. 1 + n * 2 : turns[i - 1] = IF i % 2 = 0 THEN c ELSE d
  <2> TAKE i \in 2 .. 1 + n * 2
  <2>1. i - 1 \in 1 .. n * 2 /\ ((i - 1) % 2 = 1 <=> i % 2 = 0)
    OBVIOUS
  <2> QED
    BY <1>1, <2>1
<1> QED
  BY <1>5, <1>6 DEF turns

\* The programs, call by call.

\* No loop of the benchmarks is empty.
LEMMA LoopCounts ==
  /\ ITER_COUNT \in Nat \ {0}
  /\ STORAGE_ITER_COUNT \in Nat \ {0}
  /\ STORAGE_ITER_COUNT - 1 \in Nat
BY BenchAssumption

\* The benchmarks, one by one, as the calls they make.  Symbol::new in a loop:
LEMMA SymbolNew ==
  LET b == bench_symbol_new_vs_short
  IN /\ b.setup = <<>> /\ b.good = <<>>
     /\ b.bad = [i \in 1 .. ITER_COUNT |-> Call("object", "value", 0)]
BY RepeatOne, LoopCounts DEF bench_symbol_new_vs_short, Program

\* a host function inside or outside of a loop;
LEMMA HostFn ==
  LET b == bench_host_fn_inside_vs_outside_loop
  IN /\ b.setup = <<>> /\ b.good = <<Call("ledger", "ledger", 0)>>
     /\ b.bad = [i \in 1 .. ITER_COUNT |-> Call("ledger", "ledger", 0)]
BY RepeatOne, LoopCounts DEF bench_host_fn_inside_vs_outside_loop, Program

\* bytes appended one by one or at once;
LEMMA BytesAppend ==
  LET b == bench_bytes_append_in_loop_vs_batch
  IN /\ b.setup = <<>> /\ b.good = <<Call("object", "value", ITER_COUNT)>>
     /\ Len(b.bad) = 1 + ITER_COUNT * 2
     /\ b.bad[1] = Call("object", "value", 0)
     /\ \A i \in 2 .. 1 + ITER_COUNT * 2 :
          b.bad[i] = IF i % 2 = 0 THEN Call("object", "value", 1)
                     ELSE Call("set", "buffer", 0)
     /\ b.bad \in Seq({Call("object", "value", 0), Call("object", "value", 1),
                       Call("set", "buffer", 0)})
<1> DEFINE first == Call("object", "value", 0)
           c == Call("object", "value", 1)
           d == Call("set", "buffer", 0)
           b == bench_bytes_append_in_loop_vs_batch
<1>1. /\ b.setup = <<>> /\ b.good = <<Call("object", "value", ITER_COUNT)>>
      /\ b.bad = <<first>> \o Repeat(ITER_COUNT, <<c, d>>)
  BY DEF bench_bytes_append_in_loop_vs_batch, Program
<1> HIDE DEF first, c, d, b
<1>2. /\ Len(b.bad) = 1 + ITER_COUNT * 2
      /\ b.bad[1] = first
      /\ \A i \in 2 .. 1 + ITER_COUNT * 2 : b.bad[i] = IF i % 2 = 0 THEN c ELSE d
      /\ b.bad \in Seq({first, c, d})
  <2> DEFINE all == <<first>> \o Repeat(ITER_COUNT, <<c, d>>)
  <2>1. ITER_COUNT \in Nat
    BY LoopCounts
  <2>2. /\ Len(all) = 1 + ITER_COUNT * 2
        /\ all[1] = first
        /\ \A i \in 2 .. 1 + ITER_COUNT * 2 : all[i] = IF i % 2 = 0 THEN c ELSE d
        /\ all \in Seq({first, c, d})
    BY <2>1, Appending
  <2>3. b.bad = all
    BY <1>1
  <2> HIDE DEF all
  <2> QED
    BY <2>2, <2>3
<1> QED
  BY <1>1, <1>2 DEF first, c, d, b

\* writes in a loop or one of them;
LEMMA StorageInLoop ==
  LET b == bench_storage_in_loop_vs_batch
  IN /\ b.setup = <<>> /\ b.good = <<Call("set", "instance", 0)>>
     /\ b.bad = [i \in 1 .. STORAGE_ITER_COUNT |-> Call("set", "instance", i - 1)]
BY DEF bench_storage_in_loop_vs_batch, Program, Instance

\* a write without a read before it;
LEMMA BlindWrite ==
  LET b == bench_blind_storage_write
  IN /\ b.setup = <<>> /\ b.bad = <<Call("set", "instance", 0)>>
     /\ b.good = <<Call("get", "instance", 0), Call("set", "instance", 0)>>
BY DEF bench_blind_storage_write, Program, Instance

\* a read for the sake of has();
LEMMA DiscardedRead ==
  LET b == bench_discarded_storage_read
  IN /\ b.setup = <<Call("set", "instance", 0)>>
     /\ b.bad = <<Call("get", "instance", 0)>>
     /\ b.good = <<Call("has", "instance", 0)>>
BY DEF bench_discarded_storage_read, Program, Instance

\* a read that was read before;
LEMMA RedundantRead ==
  LET b == bench_redundant_storage_read
  IN /\ b.setup = <<Call("set", "instance", 0)>>
     /\ b.bad = [i \in 1 .. 2 |-> Call("get", "instance", 0)]
     /\ b.good = <<Call("get", "instance", 0)>>
BY RepeatOne DEF bench_redundant_storage_read, Program, Instance

\* instance storage that grows, or persistent storage;
LEMMA UnboundedData ==
  LET b == bench_instance_storage_unbounded_data
  IN /\ b.setup = <<>>
     /\ b.bad = <<Call("get", "instance", 0), Call("object", "value", 0),
                  Call("object", "value", 1), Call("set", "instance", 0)>>
     /\ b.good = <<Call("set", "persistent", 1)>>
BY DEF bench_instance_storage_unbounded_data, Program, Instance

\* a read in a loop or before it;
LEMMA InvariantAccess ==
  LET b == bench_loop_invariant_storage_access
  IN /\ b.setup = <<Call("set", "instance", 0)>>
     /\ b.bad = [i \in 1 .. STORAGE_ITER_COUNT |-> Call("get", "instance", 0)]
     /\ b.good = <<Call("get", "instance", 0)>>
BY RepeatOne, LoopCounts
   DEF bench_loop_invariant_storage_access, Program, Instance

\* and the two that make no call at all.
LEMMA NoCalls ==
  \A b \in {bench_env_clone_vs_reuse, bench_storage_key_construction_in_loop} :
    b.setup = <<>> /\ b.bad = <<>> /\ b.good = <<>>
BY DEF bench_env_clone_vs_reuse, bench_storage_key_construction_in_loop, Program

WellFormed(b) ==
  b.setup \in Seq(Plain) /\ b.bad \in Seq(Plain) /\ b.good \in Seq(Plain)

\* Short sequences of calls, and the same call repeated, are sequences of calls.
LEMMA PlainSeqs ==
  /\ <<>> \in Seq(Plain)
  /\ \A c \in Plain : <<c>> \in Seq(Plain)
  /\ \A c, d \in Plain : <<c, d>> \in Seq(Plain)
  /\ \A n \in Nat, c \in Plain : [i \in 1 .. n |-> c] \in Seq(Plain)
OBVIOUS

\* The calls of every region are well formed.
LEMMA BenchmarksArePlain ==
  ASSUME NEW b \in Benchmarks
  PROVE  WellFormed(b)
<1>1. /\ Call("object", "value", 0) \in Plain
      /\ Call("object", "value", 1) \in Plain
      /\ Call("object", "value", ITER_COUNT) \in Plain
      /\ Call("ledger", "ledger", 0) \in Plain
      /\ Call("set", "buffer", 0) \in Plain
      /\ Call("set", "instance", 0) \in Plain
      /\ Call("get", "instance", 0) \in Plain
      /\ Call("has", "instance", 0) \in Plain
      /\ Call("set", "persistent", 1) \in Plain
  BY LoopCounts, PlainCalls, PersistentCall DEF Kinds
<1>2. \A i \in 1 .. STORAGE_ITER_COUNT : Call("set", "instance", i - 1) \in Plain
  <2> TAKE i \in 1 .. STORAGE_ITER_COUNT
  <2>1. i - 1 \in Nat
    BY LoopCounts
  <2> QED
    BY <2>1, PlainCalls DEF Kinds
<1>3. ITER_COUNT \in Nat /\ STORAGE_ITER_COUNT \in Nat
  BY LoopCounts
<1>4. WellFormed(bench_symbol_new_vs_short)
  BY <1>1, <1>3, SymbolNew, PlainSeqs DEF WellFormed
<1>5. WellFormed(bench_host_fn_inside_vs_outside_loop)
  BY <1>1, <1>3, HostFn, PlainSeqs DEF WellFormed
<1>6. WellFormed(bench_bytes_append_in_loop_vs_batch)
  <2> DEFINE used == {Call("object", "value", 0), Call("object", "value", 1),
                      Call("set", "buffer", 0)}
  <2>1. used \subseteq Plain
    BY <1>1
  <2> HIDE DEF used
  <2>2. \A s \in Seq(used) : s \in Seq(Plain)
    BY <2>1
  <2>3. bench_bytes_append_in_loop_vs_batch.bad \in Seq(used)
    BY BytesAppend DEF used
  <2> QED
    BY <1>1, <2>2, <2>3, BytesAppend, PlainSeqs DEF WellFormed
<1>7. WellFormed(bench_storage_in_loop_vs_batch)
  <2> DEFINE writes == [i \in 1 .. STORAGE_ITER_COUNT |-> Call("set", "instance", i - 1)]
  <2>1. writes \in Seq(Plain)
    BY <1>2, <1>3
  <2> HIDE DEF writes
  <2>2. bench_storage_in_loop_vs_batch.bad = writes
    BY StorageInLoop DEF writes
  <2> QED
    BY <1>1, <2>1, <2>2, StorageInLoop, PlainSeqs DEF WellFormed
<1>8. WellFormed(bench_blind_storage_write)
  BY <1>1, BlindWrite, PlainSeqs DEF WellFormed
<1>9. WellFormed(bench_discarded_storage_read)
  BY <1>1, DiscardedRead, PlainSeqs DEF WellFormed
<1>10. WellFormed(bench_redundant_storage_read)
  BY <1>1, RedundantRead, PlainSeqs DEF WellFormed
<1>11. WellFormed(bench_instance_storage_unbounded_data)
  BY <1>1, UnboundedData, PlainSeqs DEF WellFormed
<1>12. WellFormed(bench_loop_invariant_storage_access)
  BY <1>1, <1>3, InvariantAccess, PlainSeqs DEF WellFormed
<1>13. /\ WellFormed(bench_env_clone_vs_reuse)
       /\ WellFormed(bench_storage_key_construction_in_loop)
  BY NoCalls, PlainSeqs DEF WellFormed
<1> QED
  BY <1>4, <1>5, <1>6, <1>7, <1>8, <1>9, <1>10, <1>11, <1>12, <1>13
     DEF Benchmarks

-----------------------------------------------------------------------------
\* The host.

\* What a call leaves on the host.
LEMMA AfterFields ==
  ASSUME NEW e \in Hosts, NEW call \in Calls
  PROVE  /\ After(e, call).instance =
              IF call.kind = "set" /\ call.on = "instance"
              THEN e.instance \cup {call.key} ELSE e.instance
         /\ After(e, call).persistent =
              IF call.kind = "set" /\ call.on = "persistent"
              THEN e.persistent \cup {call.key} ELSE e.persistent
         /\ After(e, call).buffer =
              IF call.kind = "set" /\ call.on = "buffer"
              THEN e.buffer + 1 ELSE e.buffer
         /\ After(e, call).used = e.used \cup {call.on}
         /\ After(e, call) \in
              [instance : SUBSET Nat, persistent : SUBSET Nat, buffer : Nat,
               used : SUBSET Places]
<1> DEFINE f == [e EXCEPT !.used = @ \cup {call.on}]
<1>1. /\ f.instance = e.instance /\ f.persistent = e.persistent
      /\ f.buffer = e.buffer /\ f.used = e.used \cup {call.on}
      /\ f \in [instance : SUBSET Nat, persistent : SUBSET Nat, buffer : Nat,
                used : SUBSET Places]
  BY DEF Hosts, Calls
<1>2. call.key \in Nat
  BY DEF Calls
<1>3. After(e, call) =
        CASE call.kind = "set" /\ call.on = "buffer" -> [f EXCEPT !.buffer = @ + 1]
          [] call.kind = "set" /\ call.on = "instance" ->
               [f EXCEPT !.instance = @ \cup {call.key}]
          [] call.kind = "set" /\ call.on = "persistent" ->
               [f EXCEPT !.persistent = @ \cup {call.key}]
          [] OTHER -> f
  BY DEF After
<1> HIDE DEF f
<1>4. CASE call.kind = "set" /\ call.on = "buffer"
  <2>1. After(e, call) = [f EXCEPT !.buffer = @ + 1]
    BY <1>3, <1>4
  <2> QED
    BY <1>1, <1>4, <2>1
<1>5. CASE call.kind = "set" /\ call.on = "instance"
  <2>1. After(e, call) = [f EXCEPT !.instance = @ \cup {call.key}]
    BY <1>3, <1>5
  <2> QED
    BY <1>1, <1>2, <1>5, <2>1
<1>6. CASE call.kind = "set" /\ call.on = "persistent"
  <2>1. After(e, call) = [f EXCEPT !.persistent = @ \cup {call.key}]
    BY <1>3, <1>6
  <2> QED
    BY <1>1, <1>2, <1>6, <2>1
<1>7. CASE ~ (call.kind = "set" /\ call.on \in {"buffer", "instance", "persistent"})
  <2>1. After(e, call) = f
    BY <1>3, <1>7
  <2> QED
    BY <1>1, <1>7, <2>1
<1> QED
  BY <1>4, <1>5, <1>6, <1>7

\* A call leaves at least as much on the host as it meets.
LEMMA AfterTypes ==
  ASSUME NEW e \in Hosts, NEW call \in Calls
  PROVE  After(e, call) \in Hosts /\ Poorer(e, After(e, call))
<1> DEFINE f == After(e, call)
<1>1. e.buffer \in Nat /\ IsFiniteSet(e.instance) /\ IsFiniteSet(e.persistent)
  BY DEF Hosts
<1>2. IsFiniteSet(e.instance \cup {call.key}) /\ IsFiniteSet(e.persistent \cup {call.key})
  BY <1>1, FS_AddElement
<1>3. IsFiniteSet(f.instance) /\ IsFiniteSet(f.persistent)
  BY <1>1, <1>2, AfterFields
<1>4. f \in Hosts
  BY <1>3, AfterFields DEF Hosts
<1>5. Poorer(e, f)
  <2>1. e.instance \subseteq f.instance /\ e.persistent \subseteq f.persistent
    BY AfterFields
  <2>2. f.buffer \in {e.buffer, e.buffer + 1}
    BY AfterFields
  <2> HIDE DEF f
  <2>3. e.buffer <= f.buffer
    BY <1>1, <2>2
  <2> QED
    BY <2>1, <2>3 DEF Poorer
<1> QED
  BY <1>4, <1>5

\* A call adds the same to any host.
LEMMA AfterMonotone ==
  ASSUME NEW e \in Hosts, NEW f \in Hosts, NEW call \in Calls, Poorer(e, f)
  PROVE  Poorer(After(e, call), After(f, call))
<1>1. e.buffer \in Nat /\ f.buffer \in Nat
  BY DEF Hosts
<1> DEFINE g == After(e, call)
           h == After(f, call)
<1>2. g.instance \subseteq h.instance
  <2>1. \/ g.instance = e.instance /\ h.instance = f.instance
        \/ g.instance = e.instance \cup {call.key} /\ h.instance = f.instance \cup {call.key}
    BY AfterFields
  <2>2. e.instance \subseteq f.instance
    BY DEF Poorer
  <2> HIDE DEF g, h
  <2> QED
    BY <2>1, <2>2
<1>3. g.persistent \subseteq h.persistent
  <2>1. \/ g.persistent = e.persistent /\ h.persistent = f.persistent
        \/ g.persistent = e.persistent \cup {call.key} /\ h.persistent = f.persistent \cup {call.key}
    BY AfterFields
  <2>2. e.persistent \subseteq f.persistent
    BY DEF Poorer
  <2> HIDE DEF g, h
  <2> QED
    BY <2>1, <2>2
<1>4. g.buffer <= h.buffer
  <2>1. \/ g.buffer = e.buffer /\ h.buffer = f.buffer
        \/ g.buffer = e.buffer + 1 /\ h.buffer = f.buffer + 1
    BY AfterFields
  <2>2. e.buffer <= f.buffer
    BY DEF Poorer
  <2> HIDE DEF g, h
  <2> QED
    BY <1>1, <2>1, <2>2
<1> QED
  BY <1>2, <1>3, <1>4 DEF Poorer

\* A call meets no more on a host that stores less.
LEMMA SizeMonotone ==
  ASSUME NEW e \in Hosts, NEW f \in Hosts, NEW call \in Calls, Poorer(e, f)
  PROVE  /\ Size(e, call) \in Nat /\ Size(f, call) \in Nat
         /\ Size(e, call) <= Size(f, call)
<1>1. /\ Cardinality(e.instance) \in Nat /\ Cardinality(f.instance) \in Nat
      /\ Cardinality(e.persistent) \in Nat /\ Cardinality(f.persistent) \in Nat
      /\ e.buffer \in Nat /\ f.buffer \in Nat /\ call.key \in Nat
  BY FS_CardinalityType DEF Hosts, Calls
<1>2. /\ Cardinality(e.instance) <= Cardinality(f.instance)
      /\ Cardinality(e.persistent) <= Cardinality(f.persistent)
      /\ e.buffer <= f.buffer
  BY FS_Subset DEF Hosts, Poorer
<1> QED
  BY <1>1, <1>2 DEF Size, Calls, Places

\* Prices are numbers.
LEMMA TariffTypes ==
  ASSUME tariff \in Charges, NEW call \in Calls
  PROVE  /\ tariff.base[call.kind][call.on] \in Nat
         /\ tariff.growth[call.kind][call.on] \in Nat
         /\ tariff.first[call.on] \in Nat
BY DEF Charges, Calls, Prices

\* Products of numbers keep their order.
LEMMA Scaled ==
  ASSUME NEW a \in Nat, NEW b \in Nat, NEW s \in Nat, a <= b
  PROVE  s * a \in Nat /\ s * b \in Nat /\ s * a <= s * b
<1>1. b - a \in Nat
  OBVIOUS
<1>2. s * (b - a) \in Nat /\ s * (b - a) = s * b - s * a
  BY <1>1
<1>3. s * a \in Nat /\ s * b \in Nat
  OBVIOUS
<1> QED
  BY <1>2, <1>3

\* A call costs no more on a host that stores less, first uses aside.
LEMMA UsualMonotone ==
  ASSUME tariff \in Charges,
         NEW e \in Hosts, NEW f \in Hosts, NEW call \in Calls, Poorer(e, f)
  PROVE  /\ Usual(e, call) \in Nat /\ Usual(f, call) \in Nat
         /\ Usual(e, call) <= Usual(f, call)
<1> DEFINE a == Size(e, call)
           b == Size(f, call)
           s == tariff.growth[call.kind][call.on]
           p == tariff.base[call.kind][call.on]
<1>1. a \in Nat /\ b \in Nat /\ a <= b
  BY SizeMonotone
<1>2. s \in Nat /\ p \in Nat
  BY TariffTypes
<1>3. Usual(e, call) = p + s * a /\ Usual(f, call) = p + s * b
  BY DEF Usual
<1> HIDE DEF a, b, s, p
<1>4. s * a \in Nat /\ s * b \in Nat /\ s * a <= s * b
  BY <1>1, <1>2, Scaled
<1> QED
  BY <1>2, <1>3, <1>4

\* A host stores as much as itself.
LEMMA SameHost ==
  ASSUME NEW e \in Hosts
  PROVE  Poorer(e, e)
BY DEF Poorer, Hosts

\* What a call costs is a number.
LEMMA PriceTypes ==
  ASSUME tariff \in Charges, NEW e \in Hosts, NEW call \in Calls
  PROVE  /\ Price(e, call) \in Nat
         /\ Usual(e, call) \in Nat /\ Usual(After(e, call), call) \in Nat
         /\ Opening(e, call.on) \in Nat
         /\ Price(e, call) = Usual(After(e, call), call) + Opening(e, call.on)
<1>1. Opening(e, call.on) \in Nat
  BY TariffTypes DEF Opening
<1>2. Usual(e, call) \in Nat /\ Usual(After(e, call), call) \in Nat
  BY AfterTypes, SameHost, UsualMonotone
<1> HIDE DEF Opening
<1> QED
  BY <1>1, <1>2 DEF Price

\* A host that stores less charges no more, but for opening a place that the
\* other one has opened.
LEMMA PriceMonotone ==
  ASSUME tariff \in Charges,
         NEW e \in Hosts, NEW f \in Hosts, NEW call \in Calls, Poorer(e, f)
  PROVE  \/ Price(e, call) <= Price(f, call)
         \/ /\ call.on \in f.used \ e.used
            /\ Price(e, call) <= Price(f, call) + tariff.first[call.on]
<1> DEFINE a == Usual(After(e, call), call)
           b == Usual(After(f, call), call)
           x == Opening(e, call.on)
           y == Opening(f, call.on)
           z == tariff.first[call.on]
<1>1. a \in Nat /\ b \in Nat /\ a <= b
  BY AfterTypes, AfterMonotone, UsualMonotone
<1>2. z \in Nat /\ x \in {0, z} /\ y \in {0, z}
  BY TariffTypes DEF Opening
<1>3. x = y \/ y = z \/ call.on \in f.used \ e.used \/ x = 0
  BY DEF Opening
<1>4. Price(e, call) = a + x /\ Price(f, call) = b + y
  BY DEF Price
<1> HIDE DEF a, b, x, y, z
<1>5. a + x <= b + y \/ (call.on \in f.used \ e.used /\ a + x <= b + y + z)
  BY <1>1, <1>2, <1>3
<1> QED
  BY <1>4, <1>5 DEF z

-----------------------------------------------------------------------------
\* One step of a benchmark.

\* The next call of a region.
LEMMA NextCall ==
  ASSUME CostBenchTypeOK, HostCall
  PROVE  /\ region \in {"setup", "bad", "good"}
         /\ bench[region][done + 1] \in Calls
         /\ bench[region][done + 1] \in Plain
         /\ done \in Nat /\ done + 1 \in 1 .. Len(bench[region])
         /\ Len(bench[region]) \in Nat
<1>1. region \in {"setup", "bad", "good"} /\ bench \in Benchmarks
  BY DEF CostBenchTypeOK, HostCall
<1>2. bench[region] \in Seq(Plain)
  BY <1>1, BenchmarksArePlain DEF WellFormed
<1>3. Len(bench[region]) \in Nat /\ done \in Nat /\ done < Len(bench[region])
  BY <1>1, <1>2 DEF CostBenchTypeOK, HostCall
<1>4. bench[region][done + 1] \in Plain
  BY <1>2, <1>3
<1> QED
  BY <1>1, <1>3, <1>4 DEF Plain

\* The regions of a benchmark are sequences of calls.
LEMMA RegionCalls ==
  ASSUME CostBenchTypeOK
  PROVE  /\ bench.setup \in Seq(Plain) /\ bench.bad \in Seq(Plain)
         /\ bench.good \in Seq(Plain)
         /\ Len(bench.setup) \in Nat /\ Len(bench.bad) \in Nat
         /\ Len(bench.good) \in Nat
<1>1. /\ bench.setup \in Seq(Plain) /\ bench.bad \in Seq(Plain)
      /\ bench.good \in Seq(Plain)
  BY BenchmarksArePlain DEF WellFormed, CostBenchTypeOK
<1> QED
  BY <1>1

\* A step of a benchmark keeps the types.
LEMMA BenchTypes ==
  ASSUME CostBenchTypeOK, CostBenchNext
  PROVE  CostBenchTypeOK'
<1>1. CASE HostCall
  <2> DEFINE call == bench[region][done + 1]
  <2>1. /\ region \in {"setup", "bad", "good"} /\ call \in Calls
        /\ done + 1 \in 0 .. Len(bench[region])
    BY <1>1, NextCall
  <2>2. env \in Hosts /\ ghost \in Hosts /\ clean \in Hosts /\ tariff \in Charges
    BY DEF CostBenchTypeOK
  <2>3. After(env, call) \in Hosts /\ After(ghost, call) \in Hosts
    BY <2>1, <2>2, AfterTypes
  <2>4. Price(env, call) \in Nat /\ Price(ghost, call) \in Nat
    BY <2>1, <2>2, PriceTypes
  <2>5. /\ env' = After(env, call) /\ ghost' = After(ghost, call)
        /\ cpu' = cpu + Price(env, call)
        /\ proper' = IF region = "setup" THEN proper
                     ELSE [proper EXCEPT ![region] = @ + Price(ghost, call)]
    BY <1>1 DEF HostCall
  <2> HIDE DEF call
  <2>6. proper' \in [{"bad", "good"} -> Nat]
    BY <2>1, <2>4, <2>5 DEF CostBenchTypeOK
  <2>7. cpu' \in Nat /\ before' \in 0 .. cpu'
    BY <1>1, <2>4, <2>5 DEF CostBenchTypeOK, HostCall
  <2>8. {env', clean', ghost'} \subseteq Hosts
    BY <1>1, <2>2, <2>3, <2>5 DEF HostCall
  <2>9. done' \in 0 .. Len(bench[region])
    BY <1>1, <2>1 DEF HostCall
  <2> QED
    BY <1>1, <2>6, <2>7, <2>8, <2>9 DEF CostBenchTypeOK, HostCall
<1>2. CASE NextRegion
  <2>1. region \in {"setup", "bad", "good"}
    BY <1>2 DEF CostBenchTypeOK, NextRegion
  <2>2. region' \in {"bad", "good", "done"}
    BY <1>2, <2>1 DEF NextRegion, Following
  <2>3. bench' = bench /\ done' = 0
    BY <1>2 DEF NextRegion
  <2>4. region' # "done" => done' \in 0 .. Len(bench'[region'])
    BY <2>2, <2>3, RegionCalls
  <2>5. printed' \in [{"bad", "good"} -> Nat]
    BY <1>2, <2>1 DEF CostBenchTypeOK, NextRegion
  <2>6. {env', clean', ghost'} \subseteq Hosts
    BY <1>2 DEF CostBenchTypeOK, NextRegion
  <2>7. cpu' \in Nat /\ before' \in 0 .. cpu'
    BY <1>2 DEF CostBenchTypeOK, NextRegion
  <2> QED
    BY <1>2, <2>2, <2>4, <2>5, <2>6, <2>7 DEF CostBenchTypeOK, NextRegion
<1> QED
  BY <1>1, <1>2 DEF CostBenchNext

\* The good region of every benchmark but one makes at most one call.
LEMMA GoodIsShort ==
  ASSUME bench \in Benchmarks, bench # bench_blind_storage_write
  PROVE  Len(bench.good) \in {0, 1}
<1>1. CASE bench \in {bench_symbol_new_vs_short, bench_env_clone_vs_reuse,
                     bench_storage_key_construction_in_loop}
  BY <1>1, SymbolNew, NoCalls
<1>2. bench_host_fn_inside_vs_outside_loop.good = <<Call("ledger", "ledger", 0)>>
  BY HostFn
<1>3. bench_bytes_append_in_loop_vs_batch.good
        = <<Call("object", "value", ITER_COUNT)>>
  BY BytesAppend
<1>4. bench_storage_in_loop_vs_batch.good = <<Call("set", "instance", 0)>>
  BY StorageInLoop
<1>5. bench_discarded_storage_read.good = <<Call("has", "instance", 0)>>
  BY DiscardedRead
<1>6. bench_redundant_storage_read.good = <<Call("get", "instance", 0)>>
  BY RedundantRead
<1>7. bench_instance_storage_unbounded_data.good = <<Call("set", "persistent", 1)>>
  BY UnboundedData
<1>8. bench_loop_invariant_storage_access.good = <<Call("get", "instance", 0)>>
  BY InvariantAccess
<1>9. \A c : Len(<<c>>) = 1
  OBVIOUS
<1> QED
  BY <1>1, <1>2, <1>3, <1>4, <1>5, <1>6, <1>7, <1>8, <1>9 DEF Benchmarks

\* It works on one place.
LEMMA GoodIsOnePlace ==
  ASSUME bench \in Benchmarks, NEW i \in 1 .. Len(bench.good)
  PROVE  bench.good[i].on = bench.good[1].on
<1>1. CASE bench = bench_blind_storage_write
  <2>1. bench.good = <<Call("get", "instance", 0), Call("set", "instance", 0)>>
    BY <1>1, BlindWrite
  <2>2. i \in {1, 2}
    BY <2>1
  <2> QED
    BY <2>1, <2>2 DEF Call
<1>2. CASE bench # bench_blind_storage_write
  <2>1. Len(bench.good) \in {0, 1}
    BY <1>2, GoodIsShort
  <2> DEFINE n == Len(bench.good)
  <2> HIDE DEF n
  <2>2. i \in 1 .. n /\ n \in {0, 1}
    BY <2>1 DEF n
  <2>3. i = 1
    BY <2>2
  <2> QED
    BY <2>3
<1> QED
  BY <1>1, <1>2

\* The places of one more call.
LEMMA MadeOneMore ==
  ASSUME NEW f, NEW n \in Nat
  PROVE  {f[i].on : i \in 1 .. n + 1} = {f[i].on : i \in 1 .. n} \cup {f[n + 1].on}
<1>1. 1 .. n + 1 = (1 .. n) \cup {n + 1}
  OBVIOUS
<1> QED
  BY <1>1

\* A place is in use when a call was made there, and only then.
LEMMA UseKept ==
  ASSUME CostBenchTypeOK, PlacesInUse, region \in {"setup", "bad"} => env = ghost,
         CostBenchNext
  PROVE  PlacesInUse'
<1> DEFINE Made(r, n) == {bench[r][i].on : i \in 1 .. n}
<1>1. /\ region = "setup" => env.used = Made("setup", done)
      /\ region # "setup" => clean.used = Touched("setup")
      /\ region = "bad" => env.used = Touched("setup") \cup Made("bad", done)
      /\ region = "good" =>
           /\ env.used = Touched("setup") \cup Touched("bad") \cup Made("good", done)
           /\ ghost.used = Touched("setup") \cup Made("good", done)
  BY DEF PlacesInUse
<1>2. CASE HostCall
  <2> DEFINE call == bench[region][done + 1]
  <2>1. /\ call \in Calls /\ done \in Nat /\ env \in Hosts /\ ghost \in Hosts
        /\ region \in {"setup", "bad", "good"}
    BY <1>2, NextCall DEF CostBenchTypeOK
  <2>2. /\ env' = After(env, call) /\ ghost' = After(ghost, call)
        /\ done' = done + 1 /\ UNCHANGED <<bench, region, clean>>
    BY <1>2 DEF HostCall
  <2>3. env'.used = env.used \cup {call.on} /\ ghost'.used = ghost.used \cup {call.on}
    BY <2>1, <2>2, AfterFields
  <2>4. Made(region, done + 1) = Made(region, done) \cup {call.on}
    BY <2>1, MadeOneMore
  <2>5. bench' = bench /\ done' = done + 1
    BY <2>2
  <2> HIDE DEF Made, call
  <2>6. /\ region = "setup" => env'.used = Made("setup", done + 1)
        /\ region # "setup" => clean.used = Touched("setup")
        /\ region = "bad" => env'.used = Touched("setup") \cup Made("bad", done + 1)
        /\ region = "good" =>
             /\ env'.used = Touched("setup") \cup Touched("bad") \cup Made("good", done + 1)
             /\ ghost'.used = Touched("setup") \cup Made("good", done + 1)
    BY <1>1, <2>3, <2>4
  <2> QED
    BY <2>2, <2>6 DEF PlacesInUse, Made, Touched
<1>3. CASE NextRegion
  <2>1. /\ done = Len(bench[region]) /\ done' = 0
        /\ region' = Following(region) /\ region \in {"setup", "bad", "good"}
        /\ clean' = IF region = "setup" THEN env ELSE clean
        /\ ghost' = IF region = "setup" THEN env ELSE clean
        /\ UNCHANGED <<bench, env>>
    BY <1>3 DEF NextRegion, CostBenchTypeOK
  <2>2. Made(region, done) = Touched(region)
    BY <2>1 DEF Touched
  <2>3. \A r : Made(r, 0) = {} /\ Touched(r)' = Touched(r)
    BY <2>1 DEF Touched
  <2> HIDE DEF Made
  <2>4. /\ region' = "bad" => /\ clean'.used = Touched("setup")
                              /\ env'.used = Touched("setup") \cup Made("bad", 0)
        /\ region' = "good" =>
             /\ clean'.used = Touched("setup")
             /\ env'.used = Touched("setup") \cup Touched("bad") \cup Made("good", 0)
             /\ ghost'.used = Touched("setup") \cup Made("good", 0)
        /\ region' = "done" => clean'.used = Touched("setup")
        /\ region' \in {"bad", "good", "done"}
    <3>1. CASE region = "setup"
      BY <1>1, <2>1, <2>2, <2>3, <3>1 DEF Following
    <3>2. CASE region = "bad"
      BY <1>1, <2>1, <2>2, <2>3, <3>2 DEF Following
    <3>3. CASE region = "good"
      BY <1>1, <2>1, <2>2, <2>3, <3>3 DEF Following
    <3> QED
      BY <2>1, <3>1, <3>2, <3>3
  <2> QED
    BY <2>1, <2>4 DEF PlacesInUse, Made, Touched
<1> QED
  BY <1>2, <1>3 DEF CostBenchNext

\* A call of the good region is spared a first use only if it is the first one,
\* and then by the allowance.
LEMMA SparedOnce ==
  ASSUME CostBenchTypeOK, PlacesInUse, HostCall, region = "good",
         Poorer(ghost, env)
  PROVE  LET call == bench.good[done + 1]
         IN Price(ghost, call) <= Price(env, call) + IF done = 0 THEN Allowance ELSE 0
<1> DEFINE call == bench.good[done + 1]
           place == bench.good[1].on
<1>1. /\ call \in Calls /\ done \in Nat /\ done + 1 \in 1 .. Len(bench.good)
      /\ env \in Hosts /\ ghost \in Hosts /\ tariff \in Charges /\ bench \in Benchmarks
  BY NextCall DEF CostBenchTypeOK
<1>2. call.on = place
  BY <1>1, GoodIsOnePlace
<1>3. Price(env, call) \in Nat /\ Price(ghost, call) \in Nat /\ tariff.first[call.on] \in Nat
  BY <1>1, PriceTypes, TariffTypes
<1>4. Allowance \in Nat
  BY <1>2, <1>3 DEF Allowance
<1>5. CASE call.on \in env.used \ ghost.used
  <2>1. done = 0
    <3> SUFFICES ASSUME done # 0 PROVE FALSE
      OBVIOUS
    <3>1. 1 \in 1 .. done
      BY <1>1
    <3>2. place \in ghost.used
      BY <3>1 DEF PlacesInUse
    <3> QED
      BY <1>2, <1>5, <3>2
  <2>2. call.on \in Touched("bad") /\ call.on \notin Touched("setup")
    BY <1>5, <2>1 DEF PlacesInUse
  <2>3. place \in Touched("good") /\ bench.good # <<>>
    <3>1. 1 \in 1 .. Len(bench.good)
      BY <1>1
    <3> QED
      BY <3>1 DEF Touched
  <2>4. Allowance = tariff.first[call.on]
    BY <1>2, <2>2, <2>3 DEF Allowance, Shared
  <2> HIDE DEF call
  <2>5. Price(ghost, call) <= Price(env, call) + tariff.first[call.on]
    BY <1>1, <1>3, PriceMonotone
  <2> QED
    BY <2>1, <2>4, <2>5 DEF call
<1>6. CASE call.on \notin env.used \ ghost.used
  <2>1. Price(ghost, call) <= Price(env, call)
    BY <1>1, <1>6, PriceMonotone
  <2> QED
    BY <1>3, <1>4, <2>1
<1> QED
  BY <1>5, <1>6

\* The bad region is charged its own price, the good one at least that, but for
\* the allowance.
LEMMA ApartKept ==
  ASSUME CostBenchTypeOK, PlacesInUse, RegionsAreApart, CostBenchNext
  PROVE  RegionsAreApart'
<1> USE DEF RegionsAreApart
<1>0. /\ cpu \in Nat /\ before \in Nat /\ Allowance \in Nat
      /\ proper \in [{"bad", "good"} -> Nat] /\ printed \in [{"bad", "good"} -> Nat]
  <2>1. Allowance \in Nat
    <3> SUFFICES ASSUME bench.good # <<>>
                 PROVE  tariff.first[bench.good[1].on] \in Nat
      BY DEF Allowance
    <3>1. bench.good[1] \in Calls
      BY RegionCalls DEF Plain
    <3> QED
      BY <3>1, TariffTypes DEF CostBenchTypeOK
  <2> QED
    BY <2>1 DEF CostBenchTypeOK
<1>1. CASE HostCall
  <2> DEFINE call == bench[region][done + 1]
             paid == Price(env, call)
             due == Price(ghost, call)
  <2>1. region \in {"setup", "bad", "good"} /\ call \in Calls /\ done \in Nat
    BY <1>1, NextCall
  <2>2. env \in Hosts /\ ghost \in Hosts /\ clean \in Hosts /\ tariff \in Charges
    BY DEF CostBenchTypeOK
  <2>3. /\ env' = After(env, call) /\ ghost' = After(ghost, call)
        /\ cpu' = cpu + paid /\ done' = done + 1
        /\ proper' = IF region = "setup" THEN proper
                     ELSE [proper EXCEPT ![region] = @ + due]
        /\ UNCHANGED <<region, before, printed, clean>>
    BY <1>1 DEF HostCall
  <2>4. paid \in Nat /\ due \in Nat
    BY <2>1, <2>2, PriceTypes
  <2>5. env = ghost => paid = due /\ env' = ghost'
    BY <2>3
  <2>6. region = "bad" => Poorer(clean', env')
    <3> SUFFICES ASSUME region = "bad" PROVE Poorer(clean, After(env, call))
      BY <2>3
    <3>1. Poorer(clean, env) /\ Poorer(env, After(env, call))
          /\ After(env, call) \in Hosts
      BY <2>1, <2>2, AfterTypes
    <3>2. clean.buffer \in Nat /\ env.buffer \in Nat /\ After(env, call).buffer \in Nat
      BY <2>2, <3>1 DEF Hosts
    <3> HIDE DEF call
    <3>3. clean.buffer <= After(env, call).buffer
      BY <3>1, <3>2 DEF Poorer
    <3> QED
      BY <3>1, <3>3 DEF Poorer
  <2>7. region = "good" =>
          due <= paid + (IF done = 0 THEN Allowance ELSE 0) /\ Poorer(ghost', env')
    BY <1>1, <2>1, <2>2, <2>3, AfterMonotone, SparedOnce
  <2>8. Allowance' = Allowance
    BY <1>1 DEF HostCall, Allowance, Shared, Touched
  <2> HIDE DEF call, paid, due
  <2>9. CASE region = "setup"
    BY <2>3, <2>5, <2>9
  <2>10. CASE region = "bad"
    BY <1>0, <2>3, <2>4, <2>5, <2>6, <2>10
  <2>11. CASE region = "good"
    <3>1. proper'.good = proper.good + due /\ printed.bad = proper.bad
          /\ proper'.bad = proper.bad /\ printed' = printed
      BY <1>0, <2>3, <2>11
    <3>2. proper.good + due <= cpu + paid - before + Allowance
      <4>1. proper.good \in Nat /\ proper.good <= cpu - before + Allowance
            /\ (done = 0 => proper.good = 0)
        BY <1>0, <2>11
      <4>2. done = 0 => before <= cpu
        BY DEF CostBenchTypeOK
      <4> QED
        BY <1>0, <2>4, <2>7, <2>11, <4>1, <4>2
    <3>3. done' # 0
      BY <2>1, <2>3
    <3>4. proper'.good <= cpu' - before' + Allowance'
      <4>1. cpu' = cpu + paid /\ before' = before
        BY <2>3
      <4> QED
        BY <1>0, <2>4, <2>8, <3>1, <3>2, <4>1
    <3>5. Poorer(ghost', env')
      BY <2>7, <2>11
    <3>6. region' = "good" /\ printed'.bad = proper'.bad
      BY <2>3, <2>11, <3>1
    <3> QED
      BY <3>3, <3>4, <3>5, <3>6
  <2> QED
    BY <2>1, <2>9, <2>10, <2>11
<1>2. CASE NextRegion
  <2>0. Allowance' = Allowance
    BY <1>2 DEF NextRegion, Allowance, Shared, Touched
  <2>1. CASE region = "setup"
    <3>1. env \in Hosts
      BY DEF CostBenchTypeOK
    <3> QED
      BY <1>0, <1>2, <2>1, <3>1, SameHost DEF NextRegion, Following
  <2>2. CASE region = "bad"
    BY <1>0, <1>2, <2>0, <2>2 DEF NextRegion, Following
  <2>3. CASE region = "good"
    BY <1>0, <1>2, <2>0, <2>3 DEF NextRegion, Following
  <2> QED
    BY <1>2, <2>1, <2>2, <2>3 DEF CostBenchTypeOK, NextRegion
<1> QED
  BY <1>1, <1>2 DEF CostBenchNext

\* What is printed overstates a first use and no more.
LEMMA NeverOverstated ==
  ASSUME CostBenchTypeOK, RegionsAreApart
  PROVE  SavingsNeverOverstated
<1> SUFFICES ASSUME region = "done"
             PROVE  \E extra \in {0} \cup {tariff.first[place] : place \in Shared} :
                      printed.bad - printed.good <= proper.bad - proper.good + extra
  BY DEF SavingsNeverOverstated
<1>1. Allowance \in {0} \cup {tariff.first[place] : place \in Shared}
  BY DEF Allowance
<1>2. Allowance \in Nat
  <2> SUFFICES ASSUME bench.good # <<>>
               PROVE  tariff.first[bench.good[1].on] \in Nat
    BY DEF Allowance
  <2>1. bench.good[1] \in Calls
    BY RegionCalls DEF Plain
  <2> QED
    BY <2>1, TariffTypes DEF CostBenchTypeOK
<1>3. /\ printed.bad \in Nat /\ printed.good \in Nat
      /\ proper.bad \in Nat /\ proper.good \in Nat
  BY DEF CostBenchTypeOK
<1>4. printed.bad = proper.bad /\ proper.good <= printed.good + Allowance
  BY DEF RegionsAreApart
<1> DEFINE a == Allowance
<1> HIDE DEF a
<1>5. printed.bad - printed.good <= proper.bad - proper.good + a
  BY <1>2, <1>3, <1>4 DEF a
<1> QED
  BY <1>1, <1>5 DEF a

-----------------------------------------------------------------------------
\* Following a lint pays.

\* What was written stays.
LEMMA WritesKept ==
  ASSUME CostBenchTypeOK, WritesStay, CostBenchNext
  PROVE  WritesStay'
<1>1. CASE HostCall
  <2> DEFINE call == bench[region][done + 1]
  <2>1. /\ call \in Plain /\ call \in Calls /\ done \in Nat
        /\ env \in Hosts
    BY <1>1, NextCall DEF CostBenchTypeOK
  <2>2. /\ env' = After(env, call) /\ done' = done + 1
        /\ UNCHANGED <<bench, region>>
    BY <1>1 DEF HostCall
  <2>3. region = "bad" => bench.bad[done + 1] = call
    OBVIOUS
  <2> HIDE DEF call
  <2>4. env'.persistent \subseteq {1}
    BY <2>1, <2>2, AfterFields DEF WritesStay, Plain
  <2>5. env.instance \subseteq env'.instance
        /\ (call.kind = "set" /\ call.on = "instance" => call.key \in env'.instance)
    BY <2>1, <2>2, AfterFields
  <2>6. region = "bad" =>
          \A i \in 1 .. done + 1 :
            bench.bad[i].kind = "set" /\ bench.bad[i].on = "instance" =>
              bench.bad[i].key \in env'.instance
    <3> SUFFICES ASSUME region = "bad", NEW i \in 1 .. done + 1,
                        bench.bad[i].kind = "set", bench.bad[i].on = "instance"
                 PROVE  bench.bad[i].key \in env'.instance
      OBVIOUS
    <3>1. CASE i \in 1 .. done
      BY <2>5, <3>1 DEF WritesStay
    <3>2. CASE i = done + 1
      BY <2>3, <2>5, <3>2
    <3> QED
      BY <2>1, <3>1, <3>2
  <2> QED
    BY <2>2, <2>4, <2>6 DEF WritesStay
<1>2. CASE NextRegion
  <2>1. region' # "bad" \/ done' = 0
    BY <1>2 DEF NextRegion
  <2> QED
    BY <1>2, <2>1 DEF NextRegion, WritesStay
<1> QED
  BY <1>1, <1>2 DEF CostBenchNext

\* Before its first call, the bad region finds in use what the setup has used.
LEMMA NothingOpened ==
  ASSUME PlacesInUse, region = "bad", done = 0
  PROVE  env.used = clean.used
<1>1. {bench["bad"][i].on : i \in 1 .. done} = {}
  OBVIOUS
<1> QED
  BY <1>1 DEF PlacesInUse

\* What the turns of the appending loop have cost, after one more call.
LEMMA AppendingCosts ==
  ASSUME CostBenchTypeOK, PlacesInUse, RegionsAreApart, BadRegionCosts, HostCall,
         region = "bad", bench = bench_bytes_append_in_loop_vs_batch
  PROVE  Usual(env', Call("object", "value", (done + 1) \div 2))
           + Opening(clean, "value") <= cpu + Price(env, bench.bad[done + 1]) - before
<1> DEFINE call == bench.bad[done + 1]
           t == tariff.base["object"]["value"]
           s == tariff.growth["object"]["value"]
           x == Opening(clean, "value")
<1>1. /\ done \in Nat /\ done + 1 \in 1 .. 1 + ITER_COUNT * 2
      /\ call \in Calls /\ env \in Hosts /\ cpu \in Nat /\ before \in 0 .. cpu
      /\ tariff \in Charges /\ clean \in Hosts
  BY NextCall, BytesAppend DEF CostBenchTypeOK
<1>2. Price(env, call) \in Nat /\ bench.bad[1].on = "value"
  BY <1>1, PriceTypes, BytesAppend DEF Call
<1>3. t \in Nat /\ s \in Nat /\ x \in Nat
  <2>1. Call("object", "value", 0) \in Calls
    BY DEF Calls, Call, Kinds, Places
  <2>2. /\ Call("object", "value", 0).on = "value"
        /\ Call("object", "value", 0).kind = "object"
    BY DEF Call
  <2> QED
    BY <1>1, <2>1, <2>2, TariffTypes, PriceTypes
<1>4. \A e, k : Usual(e, Call("object", "value", k)) = t + s * k
  BY DEF Usual, Size, Call
<1>5. CASE done = 0
  <2>1. call = Call("object", "value", 0)
    BY <1>5, BytesAppend
  <2>2. Price(env, call) = (t + s * 0) + x
    <3>1. env.used = clean.used
      BY <1>5, NothingOpened
    <3>2. Opening(env, "value") = x
      BY <3>1 DEF Opening
    <3>3. call.on = "value"
      BY <2>1 DEF Call
    <3> HIDE DEF t, s, x
    <3> QED
      BY <1>4, <2>1, <3>2, <3>3 DEF Price
  <2>3. (done + 1) \div 2 = 0
    BY <1>5
  <2> HIDE DEF t, s, x, call
  <2> QED
    BY <1>1, <1>3, <1>4, <2>2, <2>3 DEF x, call
<1>6. CASE done > 0
  <2> DEFINE k == done \div 2
  <2>1. k \in Nat
    BY <1>1
  <2>2. (t + s * k) + x <= cpu - before
    <3> HIDE DEF t, s
    <3> QED
      BY <1>2, <1>4, <1>6 DEF BadRegionCosts
  <2>3. CASE (done + 1) % 2 = 0
    <3>1. call = Call("object", "value", 1)
      BY <1>1, <1>6, <2>3, BytesAppend
    <3>2. Price(env, call) >= t + s * 1
      <4>1. Usual(After(env, call), call) = t + s * 1
        BY <3>1, <1>4
      <4>2. Opening(env, call.on) \in Nat
        BY <1>1, PriceTypes
      <4> HIDE DEF t, s, call
      <4>3. t + s * 1 \in Nat
        BY <1>3
      <4> QED
        BY <4>1, <4>2, <4>3 DEF Price
    <3>3. (done + 1) \div 2 = k + 1
      BY <1>1, <2>3
    <3> HIDE DEF k, t, s, x, call
    <3>4. s * (k + 1) = s * k + s /\ s * 1 = s /\ s * k \in Nat
      BY <1>3, <2>1
    <3>5. (t + s * (k + 1)) + x <= cpu + Price(env, call) - before
      BY <1>1, <1>2, <1>3, <2>2, <3>2, <3>4
    <3> QED
      BY <1>4, <3>3, <3>5 DEF x, call
  <2>4. CASE (done + 1) % 2 # 0
    <3>1. (done + 1) \div 2 = k
      BY <1>1, <2>4
    <3> HIDE DEF k, t, s, x, call
    <3>2. s * k \in Nat
      BY <1>3, <2>1
    <3>3. (t + s * k) + x <= cpu + Price(env, call) - before
      BY <1>1, <1>2, <1>3, <2>2, <3>2
    <3> QED
      BY <1>4, <3>1, <3>3 DEF x, call
  <2> QED
    BY <2>3, <2>4
<1> QED
  BY <1>1, <1>5, <1>6

\* The bad region keeps having cost at least its last call, and opening the
\* place of its first.
LEMMA BadCostsKept ==
  ASSUME CostBenchTypeOK, PlacesInUse, RegionsAreApart, BadRegionCosts, CostBenchNext
  PROVE  BadRegionCosts'
<1>1. CASE HostCall
  <2> SUFFICES ASSUME region = "bad" PROVE BadRegionCosts'
    BY <1>1 DEF HostCall, BadRegionCosts
  <2> DEFINE call == bench.bad[done + 1]
             opening == Opening(clean, bench.bad[1].on)
             usual == Usual(After(env, call), call)
  <2>1. /\ call \in Calls /\ env \in Hosts /\ clean \in Hosts /\ tariff \in Charges
        /\ cpu \in Nat /\ before \in 0 .. cpu /\ done \in Nat
        /\ bench.bad[1] \in Calls
    <3>1. done + 1 \in 1 .. Len(bench.bad) /\ bench.bad \in Seq(Plain) /\ done \in Nat
      BY <1>1, NextCall, RegionCalls
    <3>2. 1 \in 1 .. Len(bench.bad)
      BY <3>1
    <3> QED
      BY <1>1, <3>1, <3>2, NextCall DEF CostBenchTypeOK, Plain
  <2>2. /\ env' = After(env, call) /\ cpu' = cpu + Price(env, call)
        /\ done' = done + 1 /\ UNCHANGED <<bench, region, before, clean, tariff>>
    BY <1>1 DEF HostCall
  <2>3. /\ usual \in Nat /\ opening \in Nat /\ Opening(env, call.on) \in Nat
        /\ Price(env, call) = usual + Opening(env, call.on)
    BY <2>1, PriceTypes
  <2>4. usual + opening <= cpu + Price(env, call) - before
    <3>1. CASE done = 0
      <4>1. env.used = clean.used
        BY <3>1, NothingOpened
      <4>2. Opening(env, call.on) = opening
        BY <3>1, <4>1 DEF Opening
      <4> HIDE DEF call, usual, opening
      <4> QED
        BY <2>1, <2>3, <4>2
    <3>2. CASE done > 0
      <4> DEFINE last == Usual(env, bench.bad[done])
      <4>1. last + opening <= cpu - before
        BY <3>2 DEF BadRegionCosts
      <4>2. last \in Nat
        <5>1. done \in 1 .. Len(bench.bad) /\ bench.bad \in Seq(Plain)
          BY <1>1, <2>1, <3>2, NextCall, RegionCalls
        <5>2. bench.bad[done] \in Calls
          BY <5>1 DEF Plain
        <5> QED
          BY <2>1, <5>2, PriceTypes
      <4> HIDE DEF call, usual, opening, last
      <4> QED
        BY <2>1, <2>3, <4>1, <4>2
    <3> QED
      BY <2>1, <3>1, <3>2
  <2>5. bench = bench_bytes_append_in_loop_vs_batch =>
          /\ bench.bad[1].on = "value"
          /\ Usual(env', Call("object", "value", (done + 1) \div 2))
               + Opening(clean, "value") <= cpu + Price(env, call) - before
    <3>1. bench = bench_bytes_append_in_loop_vs_batch => bench.bad[1].on = "value"
      BY BytesAppend DEF Call
    <3> QED
      BY <1>1, <3>1, AppendingCosts
  <2>6. /\ Opening(clean, bench.bad[1].on)' = opening
        /\ Usual(env, bench.bad[done])' = usual
        /\ Usual(env, Call("object", "value", done \div 2))'
             = Usual(env', Call("object", "value", (done + 1) \div 2))
    BY <2>2 DEF Opening, Usual, Size, Call
  <2>7. cpu' - before' = cpu + Price(env, call) - before
    BY <2>1, <2>2, <2>3
  <2> HIDE DEF call, usual
  <2>8. bench' = bench /\ region' = "bad"
    BY <2>2
  <2> QED
    BY <2>4, <2>5, <2>6, <2>7, <2>8 DEF BadRegionCosts
<1>2. CASE NextRegion
  BY <1>2 DEF NextRegion, BadRegionCosts
<1> QED
  BY <1>1, <1>2 DEF CostBenchNext

\* The places that a benchmark works on, where it compares like with like: the
\* good region has no call, or one on the place of the first call of the bad one.
LEMMA SamePlace ==
  ASSUME bench \in Benchmarks, bench \notin Incomparable, Len(bench.good) # 0
  PROVE  /\ Len(bench.good) = 1 /\ Len(bench.bad) > 0
         /\ bench.good[1].on = bench.bad[1].on
<1>1. ITER_COUNT \in Nat \ {0} /\ STORAGE_ITER_COUNT \in Nat \ {0}
  BY LoopCounts
<1>2. Len(bench.good) = 1
  BY GoodIsShort DEF Incomparable
<1>3. CASE bench = bench_host_fn_inside_vs_outside_loop
  BY <1>1, <1>2, <1>3, HostFn DEF Call
<1>4. CASE bench = bench_bytes_append_in_loop_vs_batch
  <2>1. Len(bench.bad) > 0
    BY <1>1, <1>4, BytesAppend
  <2> QED
    BY <1>2, <1>4, <2>1, BytesAppend DEF Call
<1>5. CASE bench = bench_storage_in_loop_vs_batch
  BY <1>1, <1>2, <1>5, StorageInLoop DEF Call
<1>6. CASE bench = bench_discarded_storage_read
  BY <1>2, <1>6, DiscardedRead DEF Call
<1>7. CASE bench = bench_redundant_storage_read
  BY <1>2, <1>7, RedundantRead DEF Call
<1>8. CASE bench = bench_loop_invariant_storage_access
  BY <1>1, <1>2, <1>8, InvariantAccess DEF Call
<1>9. bench \notin {bench_symbol_new_vs_short, bench_env_clone_vs_reuse,
                    bench_storage_key_construction_in_loop}
  BY SymbolNew, NoCalls
<1> QED
  BY <1>3, <1>4, <1>5, <1>6, <1>7, <1>8, <1>9 DEF Benchmarks, Incomparable

\* A call that writes nothing leaves the sizes on the host as they are.
LEMMA ReadsChangeNothing ==
  ASSUME CostBenchTypeOK, NEW call \in Calls, call.kind # "set"
  PROVE  Usual(After(env, call), call) = Usual(env, call)
<1> DEFINE f == After(env, call)
<1>1. /\ f.instance = env.instance /\ f.persistent = env.persistent
      /\ f.buffer = env.buffer
  BY AfterFields DEF CostBenchTypeOK
<1> HIDE DEF f
<1>2. Size(f, call) = Size(env, call)
  BY <1>1 DEF Size
<1> QED
  BY <1>2 DEF Usual, f

\* At the end of the bad region, the call of the good one would usually cost no
\* more than the last of the bad one, or all of its chunks.
LEMMA LikeForLike ==
  ASSUME CostBenchTypeOK, BadRegionCosts, WritesStay,
         region = "bad", done = Len(bench.bad), bench \notin Incomparable,
         Len(bench.good) # 0
  PROVE  Usual(After(env, bench.good[1]), bench.good[1])
           + Opening(clean, bench.bad[1].on) <= cpu - before
<1> DEFINE call == bench.good[1]
           last == bench.bad[Len(bench.bad)]
           x == Opening(clean, bench.bad[1].on)
<1>0. /\ env \in Hosts /\ clean \in Hosts /\ tariff \in Charges
      /\ cpu \in Nat /\ before \in 0 .. cpu
      /\ ITER_COUNT \in Nat \ {0} /\ STORAGE_ITER_COUNT \in Nat \ {0}
      /\ bench \in Benchmarks /\ Len(bench.bad) > 0 /\ Len(bench.good) = 1
  BY LoopCounts, SamePlace DEF CostBenchTypeOK
<1>1. call \in Calls /\ last \in Calls /\ bench.bad[1] \in Calls
  <2>1. /\ bench.good \in Seq(Plain) /\ bench.bad \in Seq(Plain)
        /\ Len(bench.bad) \in Nat
    BY RegionCalls
  <2>2. 1 \in 1 .. Len(bench.bad) /\ Len(bench.bad) \in 1 .. Len(bench.bad)
    BY <1>0, <2>1
  <2> QED
    BY <1>0, <2>1, <2>2 DEF Plain
<1>2. Usual(env, last) + x <= cpu - before
  BY <1>0 DEF BadRegionCosts
<1>3. Usual(env, last) \in Nat /\ Usual(After(env, call), call) \in Nat /\ x \in Nat
  BY <1>0, <1>1, PriceTypes
<1>4. SUFFICES Usual(After(env, call), call) <= Usual(env, last)
               \/ Usual(After(env, call), call) + x <= cpu - before
  <2> HIDE DEF call, last, x
  <2> QED
    BY <1>0, <1>2, <1>3 DEF call, x
<1>5. CASE call = last /\ last.kind # "set"
  <2>1. Usual(After(env, call), call) = Usual(env, call)
    BY <1>1, <1>5, ReadsChangeNothing
  <2> QED
    BY <1>3, <1>5, <2>1
<1>6. CASE bench = bench_host_fn_inside_vs_outside_loop
  <2>1. call = last /\ last.kind # "set"
    BY <1>0, <1>6, HostFn DEF Call
  <2> QED
    BY <1>5, <2>1
<1>7. CASE bench = bench_redundant_storage_read
  <2>1. Len(bench.bad) = 2
    BY <1>7, RedundantRead
  <2>2. call = last /\ last.kind # "set"
    BY <1>7, <2>1, RedundantRead DEF Call
  <2> QED
    BY <1>5, <2>2
<1>8. CASE bench = bench_loop_invariant_storage_access
  <2>1. call = last /\ last.kind # "set"
    BY <1>0, <1>8, InvariantAccess DEF Call
  <2> QED
    BY <1>5, <2>1
<1>9. CASE bench = bench_discarded_storage_read
  <2> DEFINE inst == Cardinality(env.instance)
             h == tariff.growth["has"]["instance"]
             g == tariff.growth["get"]["instance"]
             bh == tariff.base["has"]["instance"]
             bg == tariff.base["get"]["instance"]
  <2>1. last = Call("get", "instance", 0) /\ call = Call("has", "instance", 0)
    BY <1>9, DiscardedRead
  <2>2. Usual(After(env, call), call) = Usual(env, call)
    BY <1>1, <2>1, ReadsChangeNothing DEF Call
  <2>3. Usual(env, call) = bh + h * inst /\ Usual(env, last) = bg + g * inst
    BY <2>1 DEF Usual, Size, Call
  <2>4. inst \in Nat /\ h \in Nat /\ g \in Nat /\ bh \in Nat /\ bg \in Nat
    <3>1. inst \in Nat
      BY <1>0, FS_CardinalityType DEF Hosts
    <3>2. Call("get", "instance", 0) \in Calls /\ Call("has", "instance", 0) \in Calls
      BY DEF Calls, Call, Kinds, Places
    <3>3. /\ Call("get", "instance", 0).kind = "get" /\ Call("get", "instance", 0).on = "instance"
          /\ Call("has", "instance", 0).kind = "has" /\ Call("has", "instance", 0).on = "instance"
      BY DEF Call
    <3> QED
      BY <1>0, <3>1, <3>2, <3>3, TariffTypes
  <2>5. bh <= bg /\ h <= g
    BY <1>0 DEF Charges
  <2> HIDE DEF inst, h, g, bh, bg, call, last
  <2>6. inst * h <= inst * g /\ inst * h \in Nat /\ inst * g \in Nat
    BY <2>4, <2>5, Scaled
  <2>7. h * inst = inst * h /\ g * inst = inst * g
    BY <2>4
  <2> QED
    BY <2>2, <2>3, <2>4, <2>5, <2>6, <2>7
<1>10. CASE bench = bench_storage_in_loop_vs_batch
  <2>1. /\ Len(bench.bad) = STORAGE_ITER_COUNT
        /\ last = Call("set", "instance", STORAGE_ITER_COUNT - 1)
        /\ bench.bad[1] = Call("set", "instance", 0)
        /\ call = Call("set", "instance", 0)
    BY <1>0, <1>10, StorageInLoop
  <2>2. call.kind = "set" /\ call.on = "instance" /\ call.key = 0
        /\ last.kind = "set" /\ last.on = "instance"
    BY <2>1 DEF Call
  <2>3. 0 \in env.instance
    BY <1>0, <2>1 DEF WritesStay, Call
  <2>4. After(env, call).instance = env.instance
    <3> HIDE DEF call
    <3>1. After(env, call).instance = env.instance \cup {0}
      BY <1>0, <1>1, <2>2, AfterFields
    <3> QED
      BY <2>3, <3>1
  <2> HIDE DEF call, last
  <2>5. Usual(After(env, call), call) = Usual(env, last)
    BY <2>2, <2>4 DEF Usual, Size
  <2> QED
    BY <1>3, <2>5
<1>11. CASE bench = bench_bytes_append_in_loop_vs_batch
  <2>1. done = 1 + ITER_COUNT * 2 /\ call = Call("object", "value", ITER_COUNT)
    BY <1>11, BytesAppend
  <2>2. done > 0 /\ done \div 2 = ITER_COUNT
    BY <1>0, <2>1
  <2>3. Usual(env, call) + x <= cpu - before
    BY <1>11, <2>1, <2>2 DEF BadRegionCosts
  <2>4. Usual(After(env, call), call) = Usual(env, call)
    BY <1>1, <2>1, ReadsChangeNothing DEF Call
  <2> QED
    BY <2>3, <2>4
<1>12. bench \notin {bench_symbol_new_vs_short, bench_env_clone_vs_reuse,
                     bench_storage_key_construction_in_loop}
  BY SymbolNew, NoCalls
<1> QED
  BY <1>0, <1>6, <1>7, <1>8, <1>9, <1>10, <1>11, <1>12
     DEF Benchmarks, Incomparable

\* So it costs no more than the whole bad region, here and on a host of its own.
LEMMA Turn ==
  ASSUME CostBenchTypeOK, PlacesInUse, RegionsAreApart, BadRegionCosts, WritesStay,
         region = "bad", done = Len(bench.bad), bench \notin Incomparable,
         Len(bench.good) # 0
  PROVE  /\ Price(env, bench.good[1]) <= cpu - before
         /\ Price(clean, bench.good[1]) <= cpu - before
<1> DEFINE call == bench.good[1]
           here == Usual(After(env, call), call)
           there == Usual(After(clean, call), call)
           x == Opening(clean, call.on)
<1>1. /\ env \in Hosts /\ clean \in Hosts /\ tariff \in Charges
      /\ cpu \in Nat /\ before \in Nat /\ bench \in Benchmarks
  BY DEF CostBenchTypeOK
<1>2. Len(bench.good) = 1 /\ Len(bench.bad) > 0 /\ call.on = bench.bad[1].on
  BY <1>1, SamePlace
<1>3. call \in Calls
  BY <1>2, RegionCalls DEF Plain
<1>4. here + x <= cpu - before
  BY <1>2, LikeForLike
<1>5. there \in Nat /\ here \in Nat /\ there <= here
  BY <1>1, <1>3, AfterTypes, AfterMonotone, UsualMonotone DEF RegionsAreApart
<1>6. x \in Nat /\ Price(clean, call) = there + x
  BY <1>1, <1>3, PriceTypes
<1>7. Price(env, call) = here
  <2>1. 1 \in 1 .. done
    BY <1>2, RegionCalls
  <2>2. call.on \in env.used
    BY <1>2, <2>1 DEF PlacesInUse
  <2>3. Opening(env, call.on) = 0
    BY <2>2 DEF Opening
  <2> HIDE DEF call, here
  <2>4. Price(env, call) = here + 0
    BY <2>3 DEF Price, here
  <2> QED
    BY <1>5, <2>4
<1> HIDE DEF call, here, there, x
<1> QED
  BY <1>1, <1>4, <1>5, <1>6, <1>7 DEF call

\* What the good region has cost, and will, stays below what was printed.
LEMMA GoodFitsKept ==
  ASSUME CostBenchTypeOK, PlacesInUse, RegionsAreApart, BadRegionCosts, WritesStay,
         GoodRegionFits, FollowingTheLintPays, CostBenchNext
  PROVE  GoodRegionFits' /\ FollowingTheLintPays'
<1>0. /\ cpu \in Nat /\ before \in 0 .. cpu /\ bench \in Benchmarks
      /\ printed \in [{"bad", "good"} -> Nat] /\ proper \in [{"bad", "good"} -> Nat]
      /\ bench_blind_storage_write \in Incomparable
  BY DEF CostBenchTypeOK, Incomparable
<1>1. CASE HostCall
  <2>1. FollowingTheLintPays'
    BY <1>1 DEF HostCall, FollowingTheLintPays
  <2>2. GoodRegionFits'
    <3> SUFFICES ASSUME region = "good", bench \notin Incomparable
                 PROVE  /\ done + 1 = Len(bench.good)
                        /\ cpu' - before <= printed.bad /\ proper'.good <= printed.bad
      BY <1>1 DEF HostCall, GoodRegionFits, Incomparable
    <3> DEFINE paid == Price(env, bench.good[done + 1])
               due == Price(ghost, bench.good[done + 1])
               n == Len(bench.good)
    <3>1. /\ done \in Nat /\ done < n /\ n \in {0, 1}
          /\ bench.good[done + 1] \in Calls
      BY <1>0, <1>1, NextCall, GoodIsShort DEF HostCall
    <3>2. paid \in Nat /\ due \in Nat
      BY <3>1, PriceTypes DEF CostBenchTypeOK
    <3>3. cpu' = cpu + paid /\ proper'.good = proper.good + due
      BY <1>0, <1>1 DEF HostCall
    <3>4. cpu - before + paid <= printed.bad /\ proper.good + due <= printed.bad
      <4>1. done # n
        BY <1>1 DEF HostCall
      <4> QED
        BY <4>1 DEF GoodRegionFits
    <3> HIDE DEF n, paid, due
    <3>5. done + 1 = n
      BY <3>1
    <3>6. cpu' - before <= printed.bad
      BY <1>0, <3>2, <3>3, <3>4
    <3> QED
      BY <3>3, <3>4, <3>5, <3>6 DEF n
  <2> QED
    BY <2>1, <2>2
<1>2. CASE NextRegion
  <2>1. CASE region = "setup"
    BY <1>2, <2>1 DEF NextRegion, Following, GoodRegionFits, FollowingTheLintPays
  <2>2. CASE region = "bad"
    <3>1. region' = "good" /\ done' = 0 /\ before' = cpu /\ cpu' = cpu
          /\ printed'.bad = cpu - before /\ ghost' = clean
          /\ proper' = proper /\ proper.good = 0
          /\ UNCHANGED <<bench, env, tariff>>
      BY <1>0, <1>2, <2>2 DEF NextRegion, Following, RegionsAreApart
    <3>2. done = Len(bench.bad)
      BY <1>2, <2>2 DEF NextRegion
    <3>3. bench \notin Incomparable /\ Len(bench.good) # 0 =>
            /\ Price(env, bench.good[1]) <= cpu - before
            /\ Price(clean, bench.good[1]) <= cpu - before
            /\ Price(env, bench.good[1]) \in Nat /\ Price(clean, bench.good[1]) \in Nat
      <4> SUFFICES ASSUME bench \notin Incomparable, Len(bench.good) # 0
                   PROVE  /\ Price(env, bench.good[1]) <= cpu - before
                          /\ Price(clean, bench.good[1]) <= cpu - before
                          /\ Price(env, bench.good[1]) \in Nat
                          /\ Price(clean, bench.good[1]) \in Nat
        OBVIOUS
      <4>1. Len(bench.good) = 1
        BY <1>0, SamePlace
      <4>2. bench.good[1] \in Calls
        BY <4>1, RegionCalls DEF Plain
      <4> QED
        BY <2>2, <3>2, <4>2, Turn, PriceTypes DEF CostBenchTypeOK
    <3>4. /\ Price(env, bench.good[1])' = Price(env, bench.good[1])
          /\ Price(ghost, bench.good[1])' = Price(clean, bench.good[1])
      BY <3>1 DEF Price, Usual, Opening, Size, After
    <3>5. GoodRegionFits'
      BY <1>0, <3>1, <3>3, <3>4 DEF GoodRegionFits
    <3> QED
      BY <3>1, <3>5 DEF FollowingTheLintPays
  <2>3. CASE region = "good"
    <3>1. region' = "done" /\ printed'.bad = printed.bad /\ proper' = proper
          /\ printed'.good = cpu - before /\ bench' = bench
      BY <1>0, <1>2, <2>3 DEF NextRegion, Following
    <3>2. done = Len(bench.good) /\ printed.bad = proper.bad
      BY <1>2, <2>3 DEF NextRegion, RegionsAreApart
    <3> QED
      BY <2>3, <3>1, <3>2 DEF GoodRegionFits, FollowingTheLintPays
  <2> QED
    BY <1>2, <2>1, <2>2, <2>3 DEF CostBenchTypeOK, NextRegion
<1> QED
  BY <1>1, <1>2 DEF CostBenchNext

-----------------------------------------------------------------------------
\* The theorems about the cost benchmarks.

\* Before a region is measured it has cost nothing.
LEMMA BenchInvInit ==
  ASSUME CostBenchInit
  PROVE  BenchInv
<1>1. EmptyEnv \in Hosts
  BY FS_EmptySet DEF EmptyEnv, Hosts
<1>2. Len(bench.setup) \in Nat
  BY BenchmarksArePlain DEF CostBenchInit, WellFormed
<1>3. CostBenchTypeOK
  BY <1>1, <1>2, BenchAssumption DEF CostBenchInit, CostBenchTypeOK
<1>4. RegionsAreApart /\ BadRegionCosts /\ WritesStay /\ GoodRegionFits
  BY DEF CostBenchInit, RegionsAreApart, BadRegionCosts, WritesStay,
         GoodRegionFits, EmptyEnv
<1>5. PlacesInUse
  <2>1. {bench["setup"][i].on : i \in 1 .. 0} = {}
    OBVIOUS
  <2> QED
    BY <2>1 DEF CostBenchInit, PlacesInUse, EmptyEnv
<1>6. FollowingTheLintPays
  BY DEF CostBenchInit, FollowingTheLintPays
<1> QED
  BY <1>3, <1>4, <1>5, <1>6, NeverOverstated DEF BenchInv

\* Every step of a benchmark keeps the invariant.
LEMMA BenchInvNext ==
  ASSUME BenchInv, [CostBenchNext]_benchVars
  PROVE  BenchInv'
<1>1. CASE CostBenchNext
  <2>1. CostBenchTypeOK' /\ RegionsAreApart' /\ BadRegionCosts' /\ WritesStay'
        /\ GoodRegionFits' /\ FollowingTheLintPays'
    BY <1>1, BenchTypes, ApartKept, BadCostsKept, WritesKept, GoodFitsKept
       DEF BenchInv
  <2>2. PlacesInUse'
    BY <1>1, UseKept DEF BenchInv, RegionsAreApart
  <2>3. SavingsNeverOverstated'
    BY <2>1, NeverOverstated, PTL
  <2> QED
    BY <2>1, <2>2, <2>3 DEF BenchInv
<1>2. CASE UNCHANGED benchVars
  <2>1. CostBenchTypeOK' /\ PlacesInUse' /\ WritesStay'
    <3>1. CostBenchTypeOK'
      BY <1>2 DEF benchVars, BenchInv, CostBenchTypeOK
    <3>2. PlacesInUse'
      BY <1>2 DEF benchVars, BenchInv, PlacesInUse, Touched
    <3>3. WritesStay'
      BY <1>2 DEF benchVars, BenchInv, WritesStay
    <3> QED
      BY <3>1, <3>2, <3>3
  <2>2. RegionsAreApart'
    BY <1>2 DEF benchVars, BenchInv, RegionsAreApart, Allowance, Shared, Touched
  <2>3. BadRegionCosts'
    BY <1>2 DEF benchVars, BenchInv, BadRegionCosts, Usual, Opening, Size
  <2>4. GoodRegionFits'
    <3> DEFINE call == bench.good[done + 1]
    <3>1. Price(env, call)' = Price(env, call) /\ Price(ghost, call)' = Price(ghost, call)
      BY <1>2 DEF benchVars, Price, Usual, Opening, Size, After
    <3> QED
      BY <1>2, <3>1 DEF benchVars, BenchInv, GoodRegionFits
  <2>5. FollowingTheLintPays'
    BY <1>2 DEF benchVars, BenchInv, FollowingTheLintPays
  <2>6. SavingsNeverOverstated'
    BY <2>1, <2>2, NeverOverstated, PTL
  <2> QED
    BY <2>1, <2>2, <2>3, <2>4, <2>5, <2>6 DEF BenchInv
<1> QED
  BY <1>1, <1>2

\* The whole inductive invariant of a benchmark, for any prices and any number
\* of turns.
THEOREM BenchInductive == CostBenchSpec => []BenchInv
<1> QED
  BY BenchInvInit, BenchInvNext, PTL DEF CostBenchSpec

\* What sharing one Env prints is never more than following the lint saves, but
\* for opening one place, at any prices and for any number of turns.
THEOREM NeverFlattered == CostBenchSpec => []SavingsNeverOverstated
<1>1. BenchInv => SavingsNeverOverstated
  BY DEF BenchInv
<1> QED
  BY <1>1, BenchInductive, PTL

\* Following a lint is never dearer than what it reports where the benchmarks
\* compare calls on the same place: at any prices at which a test costs no more
\* than a read, and for any number of turns.
THEOREM FollowingPays == CostBenchSpec => []FollowingTheLintPays
<1>1. BenchInv => FollowingTheLintPays
  BY DEF BenchInv
<1> QED
  BY <1>1, BenchInductive, PTL

-----------------------------------------------------------------------------
\* The three harnesses side by side.

\* They start in their initial states.
LEMMA AtRest ==
  /\ GateAtRest => CorpusGateInit
  /\ PerfAtRest => PerfGateInit
  /\ BenchAtRest => CostBenchInit
<1>1. GateAtRest => CorpusGateInit
  BY DEF GateAtRest, CorpusGateInit
<1>2. PerfAtRest => PerfGateInit
  <2>1. (CHOOSE ms \in Speeds : TRUE) \in Speeds
    BY PerfAssumption
  <2>2. [c \in Names |-> CHOOSE ms \in Speeds : TRUE] \in [Names -> Speeds]
    BY <2>1
  <2> QED
    BY <2>2 DEF PerfAtRest, PerfGateInit
<1>3. BenchAtRest => CostBenchInit
  <2>1. (CHOOSE t \in Tariffs : TRUE) \in Tariffs
    BY BenchAssumption
  <2> QED
    BY <2>1 DEF BenchAtRest, CostBenchInit, Benchmarks
<1> QED
  BY <1>1, <1>2, <1>3

\* Work with one harness leaves the promises of another alone, although it may
\* add contracts to the corpus, or take them out.
LEMMA CorpusMayChange ==
  ASSUME corpus' \subseteq Names
  PROVE  /\ GateInv /\ UNCHANGED gateVars => GateInv'
         /\ PerfInv /\ UNCHANGED perfVars => PerfInv'
<1>1. ASSUME GateInv, UNCHANGED gateVars PROVE GateInv'
  <2>1. CorpusGateTypeOK' /\ VerdictIsLast'
    BY <1>1 DEF GateInv, CorpusGateTypeOK, VerdictIsLast, gateVars
  <2>2. GateBasis' /\ Promises'
    BY <1>1, <2>1, UntouchedBasis, PromisesStand
       DEF gateVars, GateInv, GateBasis, Promises
  <2> QED
    BY <2>2 DEF GateInv, GateBasis, Promises
<1>2. ASSUME PerfInv, UNCHANGED perfVars PROVE PerfInv'
  <2>1. PerfGateTypeOK'
    BY <1>2 DEF PerfInv, PerfGateTypeOK, perfVars
  <2>2. MediansAreBounded' /\ VerdictStands'
    BY <1>2, VerdictKept DEF PerfInv, perfVars, verdictVars
  <2>3. PerfBasis'
    BY <2>1, <2>2 DEF PerfBasis
  <2>4. SlowdownsAreCaught' /\ NoiseIsForgiven'
    BY <2>3, SlowdownsFound, NoiseFound, PTL
  <2> QED
    BY <2>1, <2>2, <2>4 DEF PerfInv
<1> QED
  BY <1>1, <1>2

\* Every step of the performance gate keeps its invariant.
LEMMA PerfInvNext ==
  ASSUME PerfInv, [PerfGateNext]_<<corpusVars, perfVars>>
  PROVE  PerfInv'
<1>1. PerfBasis'
  BY EditsKeep, StartBenchKeeps, TimeKeeps, AbortKeeps, RecordKeeps, JudgeKeeps
     DEF PerfGateNext, PerfInv, PerfBasis
<1>2. SlowdownsAreCaught' /\ NoiseIsForgiven'
  BY <1>1, SlowdownsFound, NoiseFound, PTL
<1> QED
  BY <1>1, <1>2 DEF PerfInv, PerfBasis

\* A step of one tool keeps the invariants of the others.
LEMMA InvNext ==
  ASSUME Inv, [Next]_vars
  PROVE  Inv'
<1>1. GateInv /\ PerfInv /\ BenchInv
  BY DEF Inv
<1>2. CASE CorpusGateNext /\ UNCHANGED <<perfVars, benchVars, command>>
  <2>1. GateInv'
    BY <1>1, <1>2, GateInvNext
  <2>2. corpus' \subseteq Names
    BY <2>1 DEF GateInv, CorpusGateTypeOK
  <2>3. PerfInv'
    BY <1>1, <1>2, <2>2, CorpusMayChange
  <2>4. BenchInv'
    BY <1>1, <1>2, BenchInvNext
  <2> QED
    BY <2>1, <2>3, <2>4 DEF Inv
<1>3. CASE PerfGateNext /\ UNCHANGED <<gateVars, benchVars, command>>
  <2>1. PerfInv'
    BY <1>1, <1>3, PerfInvNext
  <2>2. corpus' \subseteq Names
    BY <2>1 DEF PerfInv, PerfGateTypeOK
  <2>3. GateInv'
    BY <1>1, <1>3, <2>2, CorpusMayChange
  <2>4. BenchInv'
    BY <1>1, <1>3, BenchInvNext
  <2> QED
    BY <2>1, <2>3, <2>4 DEF Inv
<1>4. CASE CostBenchNext /\ UNCHANGED <<corpusVars, gateVars, perfVars, command>>
  <2>1. BenchInv'
    BY <1>1, <1>4, BenchInvNext
  <2>2. GateInv' /\ PerfInv'
    BY <1>1, <1>4, GateInvNext, PerfInvNext
  <2> QED
    BY <2>1, <2>2 DEF Inv
<1>5. CASE UNCHANGED vars
  <2>1. /\ UNCHANGED <<corpusVars, gateVars>> /\ UNCHANGED <<corpusVars, perfVars>>
        /\ UNCHANGED benchVars
    BY <1>5 DEF vars
  <2> QED
    BY <1>1, <2>1, GateInvNext, PerfInvNext, BenchInvNext DEF Inv
<1> QED
  BY <1>2, <1>3, <1>4, <1>5 DEF Next

\* Whatever a developer does with the three harnesses in one workspace, the
\* inductive invariants of all of them hold.
THEOREM WorkspaceInductive == Spec => []Inv
<1>1. Init => Inv
  BY AtRest, GateInvInit, BenchInvInit, PerfBasisInit, SlowdownsFound, NoiseFound
     DEF Init, Inv, PerfInv, PerfBasis
<1> QED
  BY <1>1, InvNext, PTL DEF Spec
=============================================================================
