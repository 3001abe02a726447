------------------------------ MODULE PerfGate ------------------------------
(***************************************************************************)
(* The performance gate, cargo-cost-lint/benches/linter_performance.rs: it *)
(* times the linter on every contract of the corpus, takes the median of a *)
(* few samples, and either records it or compares it with the record.      *)
(*                                                                         *)
(* A contract has a speed, which changes of the linter alter: what a lint  *)
(* of all of it takes on an idle machine.  A sample is that speed, or      *)
(* Slowed times as much when the machine was busy, or less when the linter *)
(* did not lint all of it.  That happens when its child fails half-way,    *)
(* since the linter then ends with 0 (LintRun, ChildFails) and the status  *)
(* is all that is looked at; and when cargo finds the contract checked,    *)
(* since its target directory is kept from one sample to the next.         *)
(***************************************************************************)
EXTENDS Corpus

CONSTANTS
  Speeds,      \* milliseconds a lint may take on an idle machine
  Slowed,      \* how many times longer it takes on a busy one
  Shorts,      \* milliseconds after which one may be over that does not do all
  Iterations,  \* values of LINTER_BENCH_ITERATIONS
  Thresholds,  \* values of BENCHMARK_THRESHOLD, in percent
  Unset, Garbage,  \* BENCHMARK_THRESHOLD is not set, or is no number
  MaxBenches   \* bound: runs of the benchmark

DEFAULT_THRESHOLD_PERCENT == 25

\* What the proofs need of the constants; TLC evaluates it.
ASSUME PerfAssumption ==
  /\ Speeds # {} /\ Speeds \subseteq Nat \ {0} /\ Slowed \in Nat \ {0}
  /\ Shorts # {} /\ Shorts \subseteq Nat \ {0}
  /\ Iterations \subseteq Nat \ {0} /\ Thresholds \subseteq Nat

VARIABLES
  speed,      \* milliseconds a lint of each contract takes now
  recorded,   \* benchmark_baseline.json
  iterations, \* of this run
  wanted,     \* BENCHMARK_THRESHOLD of this run
  blessing,   \* BLESS_BENCH, BLESS_BENCHMARK or BLESS is set
  queue,      \* the contracts still to be timed
  medians,    \* current_results: 0 for a contract not timed
  step,       \* "idle", "timing", "comparing", "writing"
  outcome,    \* how the last run ended
  limit,      \* history: effective_threshold of the last comparison
  benches,    \* runs so far
  timed,      \* history: the speed of each contract when it was timed
  was,        \* history: the same when the record was made, 0 if it was not
  busy,       \* history: half or more samples of some contract were slow
  busyRecord, \* history: the same when the record was made
  short,      \* history: more than half of those of some contract were short
  shortRecord \* history: the same when the record was made

perfVars == <<speed, recorded, iterations, wanted, blessing, queue, medians,
              step, outcome, limit, benches, timed, was, busy, busyRecord, short,
              shortRecord>>

-----------------------------------------------------------------------------
CeilDiv(a, b) == (a + b - 1) \div b

\* Variant for mutation: one too far.
percentile_late(samples, p) == samples[1 + CeilDiv(Len(samples) * p, 100)]

percentile(samples, p) == samples[1 + CeilDiv((Len(samples) - 1) * p, 100)]

\* The sorted samples when some of them were short, and some slow.
Samples(ms, brief, shorts, slows) ==
  [i \in 1 .. iterations |-> IF i <= shorts THEN brief
                             ELSE IF i <= iterations - slows THEN ms
                             ELSE Slowed * ms]

threshold_percent ==
  IF wanted \in {Unset, Garbage} THEN DEFAULT_THRESHOLD_PERCENT ELSE wanted

\* A BENCHMARK_THRESHOLD that is no number replaces the recorded threshold too.
effective_threshold ==
  IF wanted = Unset THEN recorded.threshold ELSE threshold_percent

\* total_median_ms, after each contract.
Totals(ms) ==
  LET sum[n \in 0 .. Len(Contracts)] ==
        IF n = 0 THEN 0 ELSE sum[n - 1] + ms[Contracts[n]]
  IN sum

Total(ms) == Totals(ms)[Len(Contracts)]

\* More than t percent; nothing is more than a baseline of 0.
Exceeds(now, then, t) == then > 0 /\ (now - then) * 100 > t * then

\* Variant for mutation: only the total decides.
Regressed_totalOnly(t) == Exceeds(Total(medians), recorded.total, t)

Regressed(t) ==
  \/ \E c \in Names : medians[c] > 0 /\ Exceeds(medians[c], recorded.contracts[c], t)
  \/ Exceeds(Total(medians), recorded.total, t)

-----------------------------------------------------------------------------
Nothing == [c \in Names |-> 0]

PerfGateInit ==
  /\ speed \in [Names -> Speeds]
  /\ recorded = Missing
  /\ iterations = 1 /\ wanted = Unset /\ blessing = FALSE
  /\ queue = {} /\ medians = Nothing /\ step = "idle"
  /\ outcome = "none" /\ limit = 0 /\ benches = 0
  /\ timed = Nothing /\ was = Nothing /\ busy = FALSE /\ busyRecord = FALSE
  /\ short = FALSE /\ shortRecord = FALSE

\* A change of the linter or of a contract changes how long a lint takes.
EditLinter ==
  /\ EditAllowed
  /\ \E c \in Names, ms \in Speeds : speed' = [speed EXCEPT ![c] = ms]
  /\ UNCHANGED <<corpus, recorded, iterations, wanted, blessing, queue, medians,
                 step, outcome, limit, benches, timed, was, busy, busyRecord,
                 short, shortRecord>>

\* corpus_contracts asserts that there is a contract.
StartBench ==
  /\ step = "idle"
  /\ benches < MaxBenches
  /\ benches' = benches + 1
  /\ iterations' \in Iterations
  /\ wanted' \in Thresholds \cup {Unset, Garbage}
  /\ blessing' \in BOOLEAN
  /\ queue' = corpus
  /\ medians' = Nothing /\ timed' = Nothing /\ busy' = FALSE /\ short' = FALSE
  /\ IF corpus = {} THEN step' = "idle" /\ outcome' = "panicked"
                    ELSE step' = "timing" /\ outcome' = "none"
  /\ UNCHANGED <<corpusVars, speed, recorded, limit, was, busyRecord, shortRecord>>

\* The samples of one contract, and their median.
Time ==
  /\ step = "timing"
  /\ LET c == First(queue)
     IN /\ \E shorts, slows \in 0 .. iterations, brief \in Shorts :
             /\ shorts + slows <= iterations
             /\ shorts > 0 => brief < speed[c]
             /\ medians' = [medians EXCEPT ![c] =
                              percentile(Samples(speed[c], brief, shorts, slows), 50)]
             /\ busy' = (busy \/ 2 * slows >= iterations)
             /\ short' = (short \/ 2 * shorts > iterations)
        /\ timed' = [timed EXCEPT ![c] = speed[c]]
        /\ queue' = queue \ {c}
        /\ step' = IF queue # {c} THEN "timing"
                   ELSE IF blessing THEN "writing" ELSE "comparing"
  /\ UNCHANGED <<corpusVars, speed, recorded, iterations, wanted, blessing,
                 outcome, limit, benches, was, busyRecord, shortRecord>>

\* A linter that fails, a write that fails (which leaves the file empty or cut
\* off), or a record that does not parse.
Abort ==
  /\ \/ step = "timing" /\ UNCHANGED recorded
     \/ step = "writing" /\ recorded' \in {recorded, Torn}
     \/ step = "comparing" /\ recorded = Torn /\ UNCHANGED recorded
  /\ step' = "idle"
  /\ outcome' = "panicked"
  /\ UNCHANGED <<corpusVars, speed, iterations, wanted, blessing, queue, medians,
                 limit, benches, timed, was, busy, busyRecord, short, shortRecord>>

Record ==
  /\ step = "writing"
  /\ recorded' = [threshold |-> threshold_percent, contracts |-> medians,
                  total |-> Total(medians)]
  /\ was' = timed
  /\ busyRecord' = busy /\ shortRecord' = short
  /\ step' = "idle"
  /\ outcome' = "blessed"
  /\ UNCHANGED <<corpusVars, speed, iterations, wanted, blessing, queue, medians,
                 limit, benches, timed, busy, short>>

\* Without a record the gate succeeds with a warning.
Judge ==
  /\ step = "comparing"
  /\ recorded # Torn
  /\ step' = "idle"
  /\ IF recorded = Missing
     THEN outcome' = "unjudged" /\ UNCHANGED limit
     ELSE /\ outcome' = IF Regressed(effective_threshold) THEN "regressed" ELSE "ok"
          /\ limit' = effective_threshold
  /\ UNCHANGED <<corpusVars, speed, recorded, iterations, wanted, blessing, queue,
                 medians, benches, timed, was, busy, busyRecord, short, shortRecord>>

PerfGateNext ==
  \/ ChangeCorpus /\ UNCHANGED perfVars
  \/ EditLinter \/ StartBench \/ Time \/ Abort \/ Record \/ Judge

PerfGateSpec ==
  CorpusInit /\ PerfGateInit /\ [][PerfGateNext]_<<corpusVars, perfVars>>

-----------------------------------------------------------------------------
Baselines == [threshold : Nat, contracts : [Names -> Nat], total : Nat]

PerfGateTypeOK ==
  /\ corpus \subseteq Names
  /\ speed \in [Names -> Speeds]
  /\ \A f \in {medians, timed, was} : f \in [Names -> Nat]
  /\ recorded \in {Missing, Torn} \cup Baselines
  /\ iterations \in Nat \ {0}
  /\ wanted \in Thresholds \cup {Unset, Garbage}
  /\ queue \subseteq Names /\ (step = "timing" => queue # {})
  /\ step \in {"idle", "timing", "comparing", "writing"}
  /\ outcome \in {"none", "ok", "regressed", "unjudged", "blessed", "panicked"}
  /\ limit \in Nat
  /\ {busy, busyRecord, short, shortRecord} \subseteq BOOLEAN

Slower(c) == Exceeds(timed[c], was[c], limit)

\* A contract that truly got slower than the threshold allows is never waved
\* through, unless most samples of some contract were short now, or slow when
\* the record was made.  A machine that is busy now hides nothing, and neither
\* does a record of short samples, one from another set of contracts, or one
\* that is older than many edits (linter_performance.rs 180-330).  (README.md 331
\* has it that every slowdown fails the build, but a child that dies early leaves
\* a short sample, of which nothing but the driver's exit code is looked at.)
SlowdownsAreCaught ==
  outcome = "ok" /\ ~short /\ ~busyRecord => \A c \in Names : ~Slower(c)

\* When the gate fails, some contract got slower or is not recorded, unless
\* half of the samples of some contract were slow now, or most were short when
\* the record was made.  Short samples now, and a machine that was busy then,
\* never fail it.
NoiseIsForgiven ==
  outcome = "regressed" /\ ~busy /\ ~shortRecord =>
    \E c \in Names : timed[c] > 0 /\ (was[c] = 0 \/ Slower(c))

\* A median is no less than the truth unless most samples were short, and no
\* more unless half of them were slow; what was timed has one.
Bounded(median, true, tooShort, tooBusy) ==
  /\ median = 0 <=> true = 0
  /\ ~tooShort => median >= true
  /\ ~tooBusy => median <= true

\* So are the medians of this run and those of the record, and totals are sums
\* of what stands beside them.
MediansAreBounded ==
  /\ \A c \in Names : Bounded(medians[c], timed[c], short, busy)
  /\ recorded \notin {Missing, Torn} =>
       /\ \A c \in Names :
            Bounded(recorded.contracts[c], was[c], shortRecord, busyRecord)
       /\ recorded.total = Total(recorded.contracts)

\* A verdict is the one that the medians, the record and the limit call for.
VerdictStands ==
  /\ step # "idle" => outcome = "none"
  /\ outcome \in {"ok", "regressed"} =>
       /\ recorded \notin {Missing, Torn}
       /\ outcome = "regressed" <=> Regressed(limit)

\* The inductive invariant.
PerfInv ==
  /\ PerfGateTypeOK /\ MediansAreBounded /\ VerdictStands
  /\ SlowdownsAreCaught /\ NoiseIsForgiven
=============================================================================
