----------------------------- MODULE CorpusGate -----------------------------
(***************************************************************************)
(* The corpus test, cargo-cost-lint/tests/real_world_corpus.rs: it builds  *)
(* and lints every contract of the corpus, triages the findings into true  *)
(* and false positives, and either records them (BLESS) or fails when some *)
(* contract has more false positives than recorded.                        *)
(*                                                                         *)
(* The workflow dogfood-action.yml has a second gate on the same baseline,  *)
(* a job for each contract, with a list of its own of the lints that are   *)
(* always right.                                                           *)
(*                                                                         *)
(* The linter may stop in the middle of a contract: its exit status is not *)
(* looked at once something was printed, and it is 0 anyway when the child *)
(* of the linter failed (LintRun, ChildFails).                             *)
(***************************************************************************)
EXTENDS Corpus

CONSTANTS
  Findings,   \* the findings a contract may have
  ALWAYS_TP,  \* those of lints that are always right
  DOGFOOD_ALWAYS_TP,  \* the same in the workflow
  None,       \* a contract not linted, or not recorded
  Empty,      \* a baseline file that was truncated and not written at all
  MaxTests    \* bound: runs of the test

\* The lints the workflow calls always right are among those the test does.
ASSUME GateAssumption ==
  /\ IsFiniteSet(Findings)
  /\ DOGFOOD_ALWAYS_TP \subseteq ALWAYS_TP
  /\ \A fs \in SUBSET Findings : fs # None
  /\ None \notin 0 .. Cardinality(Findings)
  /\ Missing # Torn /\ Empty \notin {Missing, Torn}
  /\ \A b \in [Names -> 0 .. Cardinality(Findings) \cup {None}] :
       b \notin {Missing, Torn, Empty}

VARIABLES
  truth,     \* what a complete lint of each contract would find now
  baseline,  \* baseline.json: no file, one cut off, or false positives by contract
  bless,     \* BLESS is set
  todo,      \* the contracts still to be linted
  found,     \* all_findings
  pc,        \* "idle", "linting", "judging", "saving"
  verdict,   \* how the last run ended
  tests,     \* runs so far
  seen,      \* history: what each contract had when this run linted it
  allowed,   \* history: the false positives each truly had when last recorded
  gaps       \* history: the last record was made from a lint that stopped early

gateVars == <<truth, baseline, bless, todo, found, pc, verdict, tests, seen,
              allowed, gaps>>

-----------------------------------------------------------------------------
\* triage_findings.

FalsePositives(fs) == fs \ ALWAYS_TP

\* What a complete lint of the contract would have counted, for the history.
TrueFps(c) == Cardinality(seen[c] \ ALWAYS_TP)

\* Variant for mutation: everything counts.
FpCount_all(fs) == Cardinality(fs)

FpCount(fs) == Cardinality(FalsePositives(fs))

Collected == {c \in Names : found[c] # None}

\* The contracts of a new baseline.
Recorded ==
  [c \in Names |-> IF c \in Collected THEN FpCount(found[c]) ELSE None]

\* Variant for mutation: a contract that was not recorded has no limit.
BaselineFps_unlimited(c) == IF baseline = Missing \/ baseline[c] = None
                            THEN Cardinality(Findings) ELSE baseline[c]

\* baseline_entry.map(...).unwrap_or(0); without a file there are no entries.
BaselineFps(c) ==
  IF baseline = Missing \/ baseline[c] = None THEN 0 ELSE baseline[c]

\* What load_baseline cannot parse.
CutOff == baseline \in {Empty, Torn}

-----------------------------------------------------------------------------
CorpusGateInit ==
  /\ truth \in [Names -> SUBSET Findings]
  /\ baseline = Missing
  /\ bless = FALSE /\ todo = {} /\ found = [c \in Names |-> None]
  /\ pc = "idle" /\ verdict = "none" /\ tests = 0
  /\ seen = [c \in Names |-> None]
  /\ allowed = [c \in Names |-> 0]
  /\ gaps = FALSE

\* A change of a lint or of a contract changes what is found.
EditContract ==
  /\ EditAllowed
  /\ \E c \in Names, fs \in SUBSET Findings : truth' = [truth EXCEPT ![c] = fs]
  /\ UNCHANGED <<corpus, baseline, bless, todo, found, pc, verdict, tests, seen,
                 allowed, gaps>>

\* Somebody deletes the file; nothing is allowed any more.
DeleteBaseline ==
  /\ EditAllowed
  /\ pc = "idle"
  /\ baseline' = Missing
  /\ allowed' = [c \in Names |-> 0]
  /\ gaps' = FALSE
  /\ verdict' = "none"
  /\ UNCHANGED <<corpus, truth, bless, todo, found, pc, tests, seen>>

StartTest ==
  /\ pc = "idle"
  /\ tests < MaxTests
  /\ tests' = tests + 1
  /\ bless' \in BOOLEAN
  /\ todo' = corpus
  /\ found' = [c \in Names |-> None]
  /\ seen' = [c \in Names |-> None]
  /\ pc' = IF corpus = {} THEN "judging" ELSE "linting"
  /\ verdict' = "none"
  /\ UNCHANGED <<corpusVars, truth, baseline, allowed, gaps>>

\* collect_and_report: all of a contract's findings, or those printed before
\* the linter stopped.
Lint ==
  /\ pc = "linting"
  /\ LET c == First(todo)
     IN /\ \E printed \in SUBSET truth[c] : found' = [found EXCEPT ![c] = printed]
        /\ seen' = [seen EXCEPT ![c] = truth[c]]
        /\ todo' = todo \ {c}
        /\ pc' = IF todo = {c} THEN "judging" ELSE "linting"
  /\ UNCHANGED <<corpusVars, truth, baseline, bless, verdict, tests, allowed, gaps>>

\* An expect or an assert: a build that fails, a linter that fails without
\* printing anything, a line that is cut off, a write that fails at its start
\* or half-way, a baseline that does not parse.  The last is certain: BLESS
\* reads the old baseline as well.
Panic ==
  /\ \/ pc = "linting" /\ UNCHANGED baseline
     \/ pc = "saving" /\ baseline' \in {Empty, Torn}
     \/ pc = "judging" /\ CutOff /\ UNCHANGED baseline
  /\ pc' = "idle"
  /\ verdict' = "panicked"
  /\ UNCHANGED <<corpusVars, truth, bless, todo, found, tests, seen, allowed, gaps>>

\* save_baseline: fs::write opens and truncates, then writes.
OpenBaseline ==
  /\ pc = "judging" /\ bless /\ ~CutOff
  /\ baseline' = Empty
  /\ pc' = "saving"
  /\ UNCHANGED <<corpusVars, truth, bless, todo, found, verdict, tests, seen,
                 allowed, gaps>>

SaveBaseline ==
  /\ pc = "saving"
  /\ baseline' = Recorded
  /\ allowed' = [c \in Names |-> IF c \in Collected THEN TrueFps(c) ELSE 0]
  /\ gaps' = (\E c \in Collected : found[c] # seen[c])
  /\ pc' = "idle"
  /\ verdict' = "blessed"
  /\ UNCHANGED <<corpusVars, truth, bless, todo, found, tests, seen>>

\* The ratchet, one contract at a time.
Compare ==
  /\ pc = "judging" /\ ~bless /\ ~CutOff
  /\ verdict' = IF \E c \in Collected : FpCount(found[c]) > BaselineFps(c)
                THEN "failed" ELSE "passed"
  /\ pc' = "idle"
  /\ UNCHANGED <<corpusVars, truth, baseline, bless, todo, found, tests, seen,
                 allowed, gaps>>

\* Variant for mutation: the test is the wrong way round.
DogfoodFps_inverted(fs) == Cardinality(fs \cap DOGFOOD_ALWAYS_TP)

\* CURRENT_FP.
DogfoodFps(fs) == Cardinality(fs \ DOGFOOD_ALWAYS_TP)

\* What the step "Assert findings against baseline" says.  jq fails on a
\* baseline that is missing or breaks off.  Of an empty one it prints nothing
\* and succeeds, and the test against this nothing is an error that counts as
\* false.  A contract not recorded has no limit.
Assertion(c, printed) ==
  IF baseline \in {Missing, Torn} THEN "broken"
  ELSE IF printed = {} THEN "nothing"
  ELSE IF baseline = Empty THEN "consistent"
  ELSE IF baseline[c] = None THEN "new"
  ELSE IF DogfoodFps(printed) > baseline[c] THEN "increased"
  ELSE "consistent"

\* The job of the workflow for one contract, on a checkout of this tree.  The
\* action may fail before it: to install, to build, or because a lint of level
\* deny fired.  The assertion runs the linter again, and ignores its status.
Dogfood(c) ==
  /\ pc = "idle" /\ c \in corpus
  /\ \E printed \in SUBSET truth[c] :
       /\ found' = [d \in Names |-> IF d = c THEN printed ELSE None]
       /\ verdict' \in {"broken", Assertion(c, printed)}
  /\ seen' = [d \in Names |-> IF d = c THEN truth[c] ELSE None]
  /\ UNCHANGED <<corpusVars, truth, baseline, bless, todo, pc, tests, allowed, gaps>>

CorpusGateNext ==
  \/ ChangeCorpus /\ UNCHANGED gateVars
  \/ EditContract \/ DeleteBaseline
  \/ \E c \in Names : Dogfood(c)
  \/ StartTest \/ Lint \/ Panic \/ OpenBaseline \/ SaveBaseline \/ Compare

CorpusGateSpec ==
  CorpusInit /\ CorpusGateInit /\ [][CorpusGateNext]_<<corpusVars, gateVars>>

-----------------------------------------------------------------------------
CorpusGateTypeOK ==
  /\ corpus \subseteq Names
  /\ bless \in BOOLEAN /\ gaps \in BOOLEAN
  /\ truth \in [Names -> SUBSET Findings]
  /\ baseline \in {Missing, Empty, Torn} \cup [Names -> 0 .. Cardinality(Findings) \cup {None}]
  /\ found \in [Names -> (SUBSET Findings) \cup {None}]
  /\ seen \in [Names -> (SUBSET Findings) \cup {None}]
  /\ todo \subseteq Names
  /\ allowed \in [Names -> 0 .. Cardinality(Findings)]
  /\ pc \in {"idle", "linting", "judging", "saving"}
  /\ verdict \in {"none", "passed", "failed", "blessed", "panicked",
                  "broken", "nothing", "new", "increased", "consistent"}

\* A contract that was linted to the end has no more false positives than it
\* truly had when the baseline was last written, and none if it is not part
\* of it.
WithinRecord ==
  \A c \in Collected : found[c] = seen[c] => TrueFps(c) <= allowed[c]

\* The ratchet cannot slip: when the test passes, the contracts are within the
\* record, whatever stopped early, crashed or was edited while this run or the
\* one that recorded was under way (real_world_corpus_triage).
RatchetHolds == verdict = "passed" => WithinRecord

\* No false alarm: the test fails only if some contract truly has more false
\* positives than when the baseline was written, unless the baseline comes
\* from a lint that stopped early, which the test does not notice.
AlarmsAreReal ==
  verdict = "failed" /\ ~gaps =>
    \E c \in Collected : TrueFps(c) > allowed[c]

\* The second gate is no way around the first: when it finds a contract
\* consistent with a baseline that holds something, the contract is within the
\* record, although the two count with different lists and fail on different
\* baselines (dogfood-action.yml 104-128 over save_baseline).  Not so for an
\* empty one, of which it says "consistent with baseline" (130) whatever it counts.
DogfoodIsNoLaxer ==
  verdict = "consistent" /\ baseline # Empty => WithinRecord

\* "Mirror real_world_corpus.rs" (dogfood-action.yml 102): the job says "count
\* increased" only of a contract that truly has more false positives than
\* recorded by a lint that ran to the end.
IncreasesAreReal ==
  verdict = "increased" /\ ~gaps =>
    \E c \in Collected : TrueFps(c) > allowed[c]

-----------------------------------------------------------------------------
\* What the three rest on.  The linter may stop early, but prints nothing that
\* is not there.
PrintedIsTrue ==
  \A c \in Names :
    /\ found[c] = None <=> seen[c] = None
    /\ found[c] # None => found[c] \subseteq seen[c]

\* A whole baseline allows no contract more than it had when it was recorded,
\* and no less unless the linter stopped early then.
BaselineIsFair ==
  ~CutOff =>
    \A c \in Names : /\ BaselineFps(c) <= allowed[c]
                     /\ ~gaps => BaselineFps(c) = allowed[c]

\* A run that is under way has no verdict, and has work to do while it lints.
VerdictIsLast ==
  /\ pc # "idle" => verdict = "none"
  /\ pc = "linting" => todo # {}

GateInv ==
  /\ CorpusGateTypeOK /\ PrintedIsTrue /\ BaselineIsFair /\ VerdictIsLast
  /\ RatchetHolds /\ AlarmsAreReal /\ DogfoodIsNoLaxer
=============================================================================
