------------------------------- MODULE Corpus -------------------------------
(***************************************************************************)
(* The contracts under tests/corpus/contracts, which the corpus test and   *)
(* the performance gate list, and what both may find where they keep their *)
(* baselines.                                                              *)
(***************************************************************************)
EXTENDS Integers, Sequences, FiniteSetsExt, SequencesExt

CONSTANTS
  Contracts,  \* the directories there may be, in the order of their names
  Missing,    \* a baseline file that does not exist
  Torn,       \* a baseline file that was not written to its end
  MaxEdits    \* bound: changes by developers

VARIABLES
  corpus,     \* the directories that have a Cargo.toml
  edits       \* changes so far

corpusVars == <<corpus, edits>>

ASSUME ContractsAssumption == Contracts \in Seq(Range(Contracts))

Names == Range(Contracts)

\* The next of the contracts cs: corpus_contracts of linter_performance.rs and
\* real_world_corpus_triage list the directories once, and sort them.
First(cs) == Contracts[Min({i \in DOMAIN Contracts : Contracts[i] \in cs})]

CorpusInit == corpus \subseteq Names /\ edits = 0

EditAllowed == edits < MaxEdits /\ edits' = edits + 1

\* A developer adds a contract or takes one out.
ChangeCorpus ==
  /\ EditAllowed
  /\ \E c \in Names : corpus' = SymDiff(corpus, {c})
=============================================================================
