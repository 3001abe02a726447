----------------------------- MODULE MCLintRun ------------------------------
(* Small instances of LintRun for TLC. *)
EXTENDS LintRun, TLC

CONSTANTS f1, f2, v0, v1, broken

\* Findings that tell any two source states, and any two argument vectors,
\* apart; the output of a failed child is unlike all of them.
MCLintOf == [a \in Args |-> [s \in Sources |-> <<a, s>>]]

MCFindings == {MCLintOf[a][s] : a \in Args, s \in Sources} \cup {broken}

MCPartial == {broken}

Symmetry == UNION {Permutations(S) : S \in {Procs, Args, Contents}}
=============================================================================
