-------------------------- MODULE CorpusGateProofs --------------------------
(***************************************************************************)
(* Proofs about CorpusGate for every corpus, every set of findings and any *)
(* number of runs, edits and deletions: no more is assumed than that a     *)
(* contract has finitely many findings, that the markers are distinct, and *)
(* that the workflow calls no lint right that the test does not.           *)
(*                                                                         *)
(* GateInv is inductive.  Types, PrintedIsTrue, BaselineIsFair and         *)
(* VerdictIsLast are kept by themselves; the three promises about a        *)
(* verdict hold when it is given, by the first three, and stay because     *)
(* whatever changes their terms withdraws the verdict.                     *)
(***************************************************************************)
EXTENDS CorpusGate, CorpusProofs, FiniteSetTheorems

FindingCount == Cardinality(Findings)

-----------------------------------------------------------------------------
\* Counting false positives.

\* Leaving findings out of a count, or counting with a longer list of lints
\* that are always right, makes it no larger.
LEMMA CountMonotone ==
  ASSUME NEW S \in SUBSET Findings, NEW T \in SUBSET S
  PROVE  /\ Cardinality(T) \in 0 .. FindingCount
         /\ Cardinality(T) <= Cardinality(S)
<1>1. IsFiniteSet(S) /\ Cardinality(S) <= FindingCount
  BY FS_Subset, GateAssumption DEF FindingCount
<1>2. IsFiniteSet(T) /\ Cardinality(T) <= Cardinality(S)
  BY <1>1, FS_Subset
<1>3. Cardinality(T) \in Nat /\ Cardinality(S) \in Nat /\ FindingCount \in Nat
  BY <1>1, <1>2, GateAssumption, FS_CardinalityType DEF FindingCount
<1> QED
  BY <1>1, <1>2, <1>3

\* The counts of a set of findings are among the numbers a baseline may hold.
LEMMA CountTypes ==
  ASSUME NEW fs \in SUBSET Findings
  PROVE  /\ FpCount(fs) \in 0 .. FindingCount
         /\ DogfoodFps(fs) \in 0 .. FindingCount
         /\ FpCount(fs) <= DogfoodFps(fs)
         /\ \A gs \in SUBSET fs : FpCount(gs) <= FpCount(fs)
<1>1. fs \ ALWAYS_TP \subseteq fs \ DOGFOOD_ALWAYS_TP
  BY GateAssumption
<1>2. \A gs \in SUBSET fs : gs \ ALWAYS_TP \subseteq fs \ ALWAYS_TP
  OBVIOUS
<1>3. fs \ ALWAYS_TP \in SUBSET Findings /\ fs \ DOGFOOD_ALWAYS_TP \in SUBSET Findings
  OBVIOUS
<1> QED
  BY <1>1, <1>2, <1>3, CountMonotone DEF FpCount, DogfoodFps, FalsePositives

\* A contract that was linted has findings, which are counted the same way in
\* the history and in the program when nothing is missing.
LEMMA CollectedIsTrue ==
  ASSUME CorpusGateTypeOK, PrintedIsTrue, NEW c \in Collected
  PROVE  /\ c \in Names
         /\ found[c] \in SUBSET Findings /\ seen[c] \in SUBSET Findings
         /\ FpCount(found[c]) <= TrueFps(c)
         /\ found[c] = seen[c] => FpCount(found[c]) = TrueFps(c)
         /\ TrueFps(c) \in 0 .. FindingCount
<1>1. c \in Names /\ found[c] # None /\ seen[c] # None /\ found[c] \subseteq seen[c]
  BY DEF Collected, PrintedIsTrue
<1>2. found[c] \in SUBSET Findings /\ seen[c] \in SUBSET Findings
  BY <1>1 DEF CorpusGateTypeOK
<1>3. TrueFps(c) = FpCount(seen[c])
  BY DEF TrueFps, FpCount, FalsePositives
<1> QED
  BY <1>1, <1>2, <1>3, CountTypes

-----------------------------------------------------------------------------
\* The baseline.

\* Without a file, and for a contract that is not in it, nothing is allowed.
LEMMA BaselineTypes ==
  ASSUME CorpusGateTypeOK, ~ CutOff, NEW c \in Names
  PROVE  BaselineFps(c) \in 0 .. FindingCount
<1>1. FindingCount \in Nat
  BY GateAssumption, FS_CardinalityType DEF FindingCount
<1> QED
  BY <1>1 DEF CorpusGateTypeOK, BaselineFps, FindingCount, CutOff

-----------------------------------------------------------------------------
\* GateInv holds before the first run.

\* Before the first run nothing was printed and nothing recorded.
LEMMA GateInvInit ==
  CorpusInit /\ CorpusGateInit => GateInv
<1> SUFFICES ASSUME CorpusInit, CorpusGateInit
             PROVE  GateInv
  OBVIOUS
<1>1. FindingCount \in Nat
  BY GateAssumption, FS_CardinalityType DEF FindingCount
<1>2. CorpusGateTypeOK
  <2>1. 0 \in 0 .. Cardinality(Findings)
    BY <1>1 DEF FindingCount
  <2>2. allowed \in [Names -> 0 .. Cardinality(Findings)]
    BY <2>1 DEF CorpusGateInit
  <2>3. found \in [Names -> (SUBSET Findings) \cup {None}]
    BY DEF CorpusGateInit
  <2> QED
    BY <2>2, <2>3 DEF CorpusInit, CorpusGateInit, CorpusGateTypeOK
<1>3. PrintedIsTrue /\ VerdictIsLast
  BY DEF CorpusGateInit, PrintedIsTrue, VerdictIsLast
<1>4. BaselineIsFair
  BY DEF CorpusGateInit, BaselineIsFair, BaselineFps, CutOff
<1> QED
  BY <1>2, <1>3, <1>4
  DEF GateInv, CorpusGateInit, RatchetHolds, AlarmsAreReal, DogfoodIsNoLaxer

-----------------------------------------------------------------------------
\* Every step keeps the types, the truth of what is printed, the fairness of
\* the baseline and the place of the verdict.

GateBasis == CorpusGateTypeOK /\ PrintedIsTrue /\ BaselineIsFair /\ VerdictIsLast

\* Steps that touch neither the findings nor the baseline.
LEMMA UntouchedBasis ==
  ASSUME GateBasis, UNCHANGED <<baseline, found, seen, allowed, gaps>>,
         CorpusGateTypeOK', VerdictIsLast'
  PROVE  GateBasis'
BY DEF GateBasis, PrintedIsTrue, BaselineIsFair, BaselineFps, CutOff

\* A contract that joins or leaves the corpus changes nothing printed or recorded.
LEMMA ChangeCorpusBasis ==
  ASSUME GateBasis, ChangeCorpus, UNCHANGED gateVars
  PROVE  GateBasis'
<1>1. corpus' \subseteq Names
  BY DEF ChangeCorpus, GateBasis, CorpusGateTypeOK, SymDiff
<1>2. CorpusGateTypeOK'
  BY <1>1 DEF GateBasis, CorpusGateTypeOK, gateVars
<1> QED
  BY <1>2, UntouchedBasis DEF GateBasis, VerdictIsLast, gateVars

\* Nor does an edit of a contract: what a run saw of it is remembered.
LEMMA EditContractBasis ==
  ASSUME GateBasis, EditContract
  PROVE  GateBasis'
<1>1. truth' \in [Names -> SUBSET Findings]
  BY DEF EditContract, GateBasis, CorpusGateTypeOK
<1>2. corpus' = corpus
  BY DEF EditContract, EditAllowed
<1>3. CorpusGateTypeOK'
  BY <1>1, <1>2 DEF GateBasis, CorpusGateTypeOK, EditContract
<1> QED
  BY <1>3, UntouchedBasis DEF GateBasis, VerdictIsLast, EditContract

\* A baseline that is deleted takes what it allowed with it.
LEMMA DeleteBaselineBasis ==
  ASSUME GateBasis, DeleteBaseline
  PROVE  GateBasis'
<1>1. 0 \in 0 .. Cardinality(Findings)
  BY GateAssumption, FS_CardinalityType
<1>2. allowed' \in [Names -> 0 .. Cardinality(Findings)]
  BY <1>1 DEF DeleteBaseline
<1>3. corpus' = corpus
  BY DEF DeleteBaseline, EditAllowed
<1>4. CorpusGateTypeOK'
  BY <1>2, <1>3 DEF GateBasis, CorpusGateTypeOK, DeleteBaseline
<1>5. PrintedIsTrue'
  BY DEF GateBasis, PrintedIsTrue, DeleteBaseline
<1>6. BaselineIsFair'
  BY DEF BaselineIsFair, BaselineFps, CutOff, DeleteBaseline
<1> QED
  BY <1>4, <1>5, <1>6 DEF GateBasis, VerdictIsLast, DeleteBaseline

\* A run that starts has printed nothing and has no verdict.
LEMMA StartTestBasis ==
  ASSUME GateBasis, StartTest
  PROVE  GateBasis'
<1>1. /\ found' \in [Names -> (SUBSET Findings) \cup {None}]
      /\ seen' \in [Names -> (SUBSET Findings) \cup {None}]
  BY DEF StartTest
<1>2. corpus' = corpus /\ todo' \subseteq Names
  BY DEF GateBasis, CorpusGateTypeOK, StartTest, corpusVars
<1>3. CorpusGateTypeOK'
  BY <1>1, <1>2 DEF GateBasis, CorpusGateTypeOK, StartTest
<1>4. PrintedIsTrue'
  BY DEF StartTest, PrintedIsTrue
<1>5. BaselineIsFair'
  BY DEF GateBasis, BaselineIsFair, BaselineFps, CutOff, StartTest
<1>6. VerdictIsLast'
  BY DEF StartTest, VerdictIsLast
<1> QED
  BY <1>3, <1>4, <1>5, <1>6 DEF GateBasis

\* A run prints nothing of a contract that the lints do not see in it.
LEMMA LintBasis ==
  ASSUME GateBasis, Lint
  PROVE  GateBasis'
<1> DEFINE c == First(todo)
<1>1. c \in todo /\ c \in Names
  BY FirstIsListed DEF GateBasis, CorpusGateTypeOK, VerdictIsLast, Lint
<1>2. PICK printed \in SUBSET truth[c] : found' = [found EXCEPT ![c] = printed]
  BY DEF Lint
<1>3. seen' = [seen EXCEPT ![c] = truth[c]] /\ todo' = todo \ {c}
  BY DEF Lint
<1>4. truth[c] \in SUBSET Findings /\ printed \in SUBSET Findings
  BY <1>1, <1>2 DEF GateBasis, CorpusGateTypeOK
<1>5. CorpusGateTypeOK'
  <2>1. /\ found' \in [Names -> (SUBSET Findings) \cup {None}]
        /\ seen' \in [Names -> (SUBSET Findings) \cup {None}]
    BY <1>2, <1>3, <1>4 DEF GateBasis, CorpusGateTypeOK
  <2>2. todo' \subseteq Names /\ pc' \in {"linting", "judging"}
    BY <1>3 DEF GateBasis, CorpusGateTypeOK, Lint
  <2> QED
    BY <2>1, <2>2 DEF GateBasis, CorpusGateTypeOK, Lint, corpusVars
<1>6. PrintedIsTrue'
  <2> SUFFICES ASSUME NEW d \in Names
               PROVE  /\ found'[d] = None <=> seen'[d] = None
                      /\ found'[d] # None => found'[d] \subseteq seen'[d]
    BY DEF PrintedIsTrue
  <2>1. CASE d = c
    <3>1. found'[d] = printed /\ seen'[d] = truth[c]
      BY <2>1, <1>1, <1>2, <1>3 DEF GateBasis, CorpusGateTypeOK
    <3>2. printed # None /\ truth[c] # None
      BY <1>4, GateAssumption
    <3> QED
      BY <3>1, <3>2
  <2>2. CASE d # c
    <3>1. found'[d] = found[d] /\ seen'[d] = seen[d]
      BY <2>2, <1>2, <1>3 DEF GateBasis, CorpusGateTypeOK
    <3> QED
      BY <3>1 DEF GateBasis, PrintedIsTrue
  <2> QED
    BY <2>1, <2>2
<1>7. BaselineIsFair'
  BY DEF GateBasis, BaselineIsFair, BaselineFps, CutOff, Lint
<1>8. VerdictIsLast'
  BY <1>1, <1>3 DEF GateBasis, VerdictIsLast, Lint
<1> QED
  BY <1>5, <1>6, <1>7, <1>8 DEF GateBasis

\* A run that panics leaves what was printed and what was allowed.
LEMMA PanicBasis ==
  ASSUME GateBasis, Panic
  PROVE  GateBasis'
<1>1. CorpusGateTypeOK'
  BY DEF GateBasis, CorpusGateTypeOK, Panic, corpusVars
<1>2. CASE UNCHANGED baseline
  BY <1>1, <1>2, UntouchedBasis DEF Panic, VerdictIsLast
<1>3. CASE baseline' \in {Empty, Torn}
  <2>1. PrintedIsTrue'
    BY DEF GateBasis, PrintedIsTrue, Panic
  <2>2. BaselineIsFair' /\ VerdictIsLast'
    BY <1>3 DEF BaselineIsFair, CutOff, VerdictIsLast, Panic
  <2> QED
    BY <1>1, <2>1, <2>2 DEF GateBasis
<1> QED
  BY <1>2, <1>3 DEF Panic

\* A truncated baseline is no whole one, and promises nothing.
LEMMA OpenBaselineBasis ==
  ASSUME GateBasis, OpenBaseline
  PROVE  GateBasis'
<1>1. CorpusGateTypeOK'
  BY DEF GateBasis, CorpusGateTypeOK, OpenBaseline, corpusVars
<1>2. PrintedIsTrue'
  BY DEF GateBasis, PrintedIsTrue, OpenBaseline
<1> QED
  BY <1>1, <1>2 DEF GateBasis, BaselineIsFair, CutOff, VerdictIsLast, OpenBaseline

\* The new baseline counts what was printed, the history what was there.
LEMMA SaveBaselineBasis ==
  ASSUME GateBasis, SaveBaseline
  PROVE  GateBasis'
<1>1. FindingCount \in Nat
  BY GateAssumption, FS_CardinalityType DEF FindingCount
<1>2. Recorded \in [Names -> 0 .. FindingCount \cup {None}]
  BY CollectedIsTrue, CountTypes DEF GateBasis, Recorded
<1>3. allowed' \in [Names -> 0 .. FindingCount]
  BY <1>1, CollectedIsTrue DEF GateBasis, SaveBaseline
<1>4. CorpusGateTypeOK'
  BY <1>2, <1>3 DEF GateBasis, CorpusGateTypeOK, SaveBaseline, corpusVars, FindingCount
<1>5. PrintedIsTrue'
  BY DEF GateBasis, PrintedIsTrue, SaveBaseline
<1>6. BaselineIsFair'
  <2> SUFFICES ASSUME NEW c \in Names
               PROVE  /\ BaselineFps(c)' <= allowed'[c]
                      /\ ~ gaps' => BaselineFps(c)' = allowed'[c]
    BY DEF BaselineIsFair
  <2>1. baseline' = Recorded /\ baseline' \notin {Missing, Empty, Torn}
    BY <1>2, GateAssumption DEF SaveBaseline, FindingCount
  <2>2. CASE c \in Collected
    <3>1. FpCount(found[c]) \in 0 .. FindingCount /\ FpCount(found[c]) # None
      BY <2>2, CollectedIsTrue, CountTypes, GateAssumption DEF GateBasis, FindingCount
    <3>2. BaselineFps(c)' = FpCount(found[c]) /\ allowed'[c] = TrueFps(c)
      BY <2>1, <2>2, <3>1 DEF BaselineFps, Recorded, SaveBaseline
    <3>3. ~ gaps' => found[c] = seen[c]
      BY <2>2 DEF SaveBaseline
    <3> QED
      BY <2>2, <3>2, <3>3, CollectedIsTrue DEF GateBasis
  <2>3. CASE c \notin Collected
    <3>1. BaselineFps(c)' = 0 /\ allowed'[c] = 0
      BY <2>1, <2>3 DEF BaselineFps, Recorded, SaveBaseline
    <3> QED
      BY <3>1
  <2> QED
    BY <2>2, <2>3
<1> QED
  BY <1>4, <1>5, <1>6 DEF GateBasis, VerdictIsLast, SaveBaseline

\* The comparison changes neither the baseline nor what was printed.
LEMMA CompareBasis ==
  ASSUME GateBasis, Compare
  PROVE  GateBasis'
<1>1. CorpusGateTypeOK'
  BY DEF GateBasis, CorpusGateTypeOK, Compare, corpusVars
<1> QED
  BY <1>1, UntouchedBasis DEF Compare, VerdictIsLast

\* The dogfood test prints of its contract what the lints see, at most.
LEMMA DogfoodBasis ==
  ASSUME GateBasis, NEW c \in Names, Dogfood(c)
  PROVE  GateBasis'
<1>1. PICK printed \in SUBSET truth[c] :
        /\ found' = [d \in Names |-> IF d = c THEN printed ELSE None]
        /\ verdict' \in {"broken", Assertion(c, printed)}
  BY DEF Dogfood
<1>2. seen' = [d \in Names |-> IF d = c THEN truth[c] ELSE None]
  BY DEF Dogfood
<1>3. truth[c] \in SUBSET Findings /\ printed \in SUBSET Findings
  BY <1>1 DEF GateBasis, CorpusGateTypeOK
<1>4. CorpusGateTypeOK'
  <2>1. /\ found' \in [Names -> (SUBSET Findings) \cup {None}]
        /\ seen' \in [Names -> (SUBSET Findings) \cup {None}]
    BY <1>1, <1>2, <1>3
  <2>2. Assertion(c, printed) \in {"broken", "nothing", "new", "increased", "consistent"}
    BY DEF Assertion
  <2> QED
    BY <1>1, <2>1, <2>2 DEF GateBasis, CorpusGateTypeOK, Dogfood, corpusVars
<1>5. PrintedIsTrue'
  BY <1>1, <1>2, <1>3, GateAssumption DEF PrintedIsTrue
<1>6. BaselineIsFair'
  BY DEF GateBasis, BaselineIsFair, BaselineFps, CutOff, Dogfood
<1> QED
  BY <1>4, <1>5, <1>6 DEF GateBasis, VerdictIsLast, Dogfood

-----------------------------------------------------------------------------
\* The promises of a verdict.

Promises == RatchetHolds /\ AlarmsAreReal /\ DogfoodIsNoLaxer

\* A verdict that promises nothing.
LEMMA NoPromise ==
  ASSUME verdict' \notin {"passed", "failed", "consistent"}
  PROVE  Promises'
BY DEF Promises, RatchetHolds, AlarmsAreReal, DogfoodIsNoLaxer

\* A verdict stands while its terms do.
LEMMA PromisesStand ==
  ASSUME Promises, UNCHANGED <<verdict, found, seen, baseline, allowed, gaps>>
  PROVE  Promises'
BY DEF Promises, RatchetHolds, AlarmsAreReal, DogfoodIsNoLaxer, WithinRecord,
       Collected, TrueFps

\* The test compares what was printed with the baseline.  Less may have been
\* printed than there is, so a failure is one on the truth as well; a contract
\* of which all was printed is judged on the truth.
LEMMA ComparePromises ==
  ASSUME GateBasis, Compare
  PROVE  Promises'
<1>1. UNCHANGED <<found, seen, allowed, gaps, baseline>> /\ ~ CutOff
  BY DEF Compare
<1>2. verdict' = IF \E c \in Collected : FpCount(found[c]) > BaselineFps(c)
                 THEN "failed" ELSE "passed"
  BY DEF Compare
<1>3. \A c \in Collected :
        /\ BaselineFps(c) \in 0 .. FindingCount /\ allowed[c] \in 0 .. FindingCount
        /\ BaselineFps(c) <= allowed[c]
        /\ ~ gaps => BaselineFps(c) = allowed[c]
        /\ FpCount(found[c]) \in 0 .. FindingCount /\ TrueFps(c) \in 0 .. FindingCount
        /\ FpCount(found[c]) <= TrueFps(c)
        /\ found[c] = seen[c] => FpCount(found[c]) = TrueFps(c)
  BY <1>1, CollectedIsTrue, CountTypes, BaselineTypes
  DEF GateBasis, BaselineIsFair, CorpusGateTypeOK, FindingCount
<1>4. CASE \E c \in Collected : FpCount(found[c]) > BaselineFps(c)
  <2>1. PICK c \in Collected : FpCount(found[c]) > BaselineFps(c)
    BY <1>4
  <2>2. ~ gaps => TrueFps(c) > allowed[c]
    BY <1>3, <2>1
  <2>3. verdict' = "failed"
    BY <1>2, <1>4
  <2> QED
    BY <1>1, <2>2, <2>3
    DEF Promises, RatchetHolds, AlarmsAreReal, DogfoodIsNoLaxer, WithinRecord,
       Collected, TrueFps
<1>5. CASE \A c \in Collected : ~ (FpCount(found[c]) > BaselineFps(c))
  <2>1. \A c \in Collected : found[c] = seen[c] => TrueFps(c) <= allowed[c]
    BY <1>3, <1>5
  <2>2. verdict' = "passed"
    BY <1>2, <1>5
  <2> QED
    BY <1>1, <2>1, <2>2
    DEF Promises, RatchetHolds, AlarmsAreReal, DogfoodIsNoLaxer, WithinRecord,
       Collected, TrueFps
<1> QED
  BY <1>4, <1>5

\* The job counts at least what the test counts, so what it lets pass is within
\* the baseline.
LEMMA DogfoodPromises ==
  ASSUME GateBasis, NEW c \in Names, Dogfood(c)
  PROVE  Promises'
<1>1. PICK printed \in SUBSET truth[c] :
        /\ found' = [d \in Names |-> IF d = c THEN printed ELSE None]
        /\ verdict' \in {"broken", Assertion(c, printed)}
  BY DEF Dogfood
<1>2. seen' = [d \in Names |-> IF d = c THEN truth[c] ELSE None] /\ allowed' = allowed
  BY DEF Dogfood
<1>3. printed \in SUBSET Findings /\ printed # None
  BY <1>1, GateAssumption DEF GateBasis, CorpusGateTypeOK
<1>4. CASE verdict' = "consistent" /\ baseline # Empty
  <2>1. /\ baseline \notin {Missing, Empty, Torn} /\ baseline[c] # None
        /\ ~ (DogfoodFps(printed) > baseline[c])
    BY <1>1, <1>4 DEF Assertion
  <2>2. BaselineFps(c) = baseline[c] /\ BaselineFps(c) \in 0 .. FindingCount
    BY <2>1, BaselineTypes DEF BaselineFps, GateBasis, CutOff
  <2>3. BaselineFps(c) <= allowed[c] /\ allowed[c] \in 0 .. FindingCount
    BY <2>1 DEF GateBasis, BaselineIsFair, CutOff, CorpusGateTypeOK, FindingCount
  <2>4. FpCount(printed) <= allowed[c]
    BY <2>1, <2>2, <2>3, <1>3, CountTypes
  <2>5. ASSUME NEW d \in Collected', found'[d] = seen'[d]
        PROVE  TrueFps(d)' <= allowed'[d]
    <3>1. d = c /\ seen'[d] = printed
      BY <1>1, <2>5, <1>2 DEF Collected
    <3> QED
      BY <3>1, <2>4, <1>2 DEF TrueFps, FpCount, FalsePositives
  <2> QED
    BY <1>4, <2>5 DEF Promises, RatchetHolds, AlarmsAreReal, DogfoodIsNoLaxer, WithinRecord
<1>5. CASE verdict' = "consistent" /\ baseline = Empty
  <2>1. baseline' = Empty
    BY <1>5 DEF Dogfood
  <2> QED
    BY <1>5, <2>1 DEF Promises, RatchetHolds, AlarmsAreReal, DogfoodIsNoLaxer
<1>6. CASE verdict' # "consistent"
  <2>1. verdict' \notin {"passed", "failed", "consistent"}
    BY <1>1, <1>6 DEF Assertion
  <2> QED
    BY <2>1, NoPromise
<1> QED
  BY <1>4, <1>5, <1>6

\* Every step of the gate and of its corpus keeps the invariant.
LEMMA GateInvNext ==
  ASSUME GateInv, [CorpusGateNext]_<<corpusVars, gateVars>>
  PROVE  GateInv'
<1>1. GateBasis /\ Promises
  BY DEF GateInv, GateBasis, Promises
<1>2. CASE ChangeCorpus /\ UNCHANGED gateVars
  BY <1>1, <1>2, ChangeCorpusBasis, PromisesStand DEF gateVars, GateInv, GateBasis, Promises
<1>3. CASE EditContract
  BY <1>1, <1>3, EditContractBasis, PromisesStand DEF EditContract, GateInv, GateBasis, Promises
<1>4. CASE DeleteBaseline
  BY <1>1, <1>4, DeleteBaselineBasis, NoPromise DEF DeleteBaseline, GateInv, GateBasis, Promises
<1>5. CASE \E c \in Names : Dogfood(c)
  BY <1>1, <1>5, DogfoodBasis, DogfoodPromises DEF GateInv, GateBasis, Promises
<1>6. CASE StartTest
  BY <1>1, <1>6, StartTestBasis, NoPromise DEF StartTest, GateInv, GateBasis, Promises
<1>7. CASE Lint
  <2>1. verdict' = "none"
    BY <1>1, <1>7 DEF Lint, GateBasis, VerdictIsLast
  <2> QED
    BY <2>1, <1>1, <1>7, LintBasis, NoPromise DEF GateInv, GateBasis, Promises
<1>8. CASE Panic
  BY <1>1, <1>8, PanicBasis, NoPromise DEF Panic, GateInv, GateBasis, Promises
<1>9. CASE OpenBaseline
  <2>1. verdict' = "none"
    BY <1>1, <1>9 DEF OpenBaseline, GateBasis, VerdictIsLast
  <2> QED
    BY <2>1, <1>1, <1>9, OpenBaselineBasis, NoPromise DEF GateInv, GateBasis, Promises
<1>10. CASE SaveBaseline
  BY <1>1, <1>10, SaveBaselineBasis, NoPromise DEF SaveBaseline, GateInv, GateBasis, Promises
<1>11. CASE Compare
  BY <1>1, <1>11, CompareBasis, ComparePromises DEF GateInv, GateBasis, Promises
<1>12. CASE UNCHANGED <<corpusVars, gateVars>>
  <2>1. CorpusGateTypeOK' /\ VerdictIsLast'
    BY <1>1, <1>12 DEF GateBasis, CorpusGateTypeOK, VerdictIsLast, corpusVars, gateVars
  <2>2. GateBasis' /\ Promises'
    BY <2>1, <1>1, <1>12, UntouchedBasis, PromisesStand DEF gateVars
  <2> QED
    BY <2>2 DEF GateInv, GateBasis, Promises
<1> QED
  BY <1>2, <1>3, <1>4, <1>5, <1>6, <1>7, <1>8, <1>9, <1>10, <1>11, <1>12 DEF CorpusGateNext

-----------------------------------------------------------------------------
\* The theorems.

\* The inductive invariant of the corpus test and the workflow's job.
THEOREM GateInductive == CorpusGateSpec => []GateInv
<1> QED
  BY GateInvInit, GateInvNext, PTL DEF CorpusGateSpec

\* Every variable of the gates keeps its type.
THEOREM GateTypes == CorpusGateSpec => []CorpusGateTypeOK
<1>1. GateInv => CorpusGateTypeOK
  BY DEF GateInv
<1> QED
  BY <1>1, GateInductive, PTL

\* The ratchet cannot slip (real_world_corpus_triage): a test that passes has
\* seen no contract, of those it linted to the end, with more false positives
\* than it had when the baseline was written.
THEOREM RatchetNeverSlips == CorpusGateSpec => []RatchetHolds
<1>1. GateInv => RatchetHolds
  BY DEF GateInv
<1> QED
  BY <1>1, GateInductive, PTL

\* The test fails for no other reason than a contract that got worse, unless
\* the baseline comes from a lint that stopped early.
THEOREM NoFalseAlarms == CorpusGateSpec => []AlarmsAreReal
<1>1. GateInv => AlarmsAreReal
  BY DEF GateInv
<1> QED
  BY <1>1, GateInductive, PTL

\* What the job of dogfood-action.yml calls consistent with a baseline that
\* holds something is within the record, although it counts with a list of its
\* own and refuses fewer baselines.
THEOREM DogfoodNoLaxer == CorpusGateSpec => []DogfoodIsNoLaxer
<1>1. GateInv => DogfoodIsNoLaxer
  BY DEF GateInv
<1> QED
  BY <1>1, GateInductive, PTL
=============================================================================
