------------------------------ MODULE MCLinter ------------------------------
(***************************************************************************)
(* Instances of what the linter says: the pass of the 128-bit lint, and    *)
(* the report of a run.  A behaviour exercises one of the two.             *)
(***************************************************************************)
EXTENDS MCLintReport, WideArithmetic, Bitwise

VARIABLE pass  \* what is at work

linterVars == <<vars, wideVars, pass>>

\* Two's complement: the bits of v in a field wider than every value.
Field == 2 * W

Signed(bits) == IF bits >= W THEN bits - Field ELSE bits

Operands == -(W \div 2) .. W - 1

\* Tables, which TLC fills once.
AndTable == [a \in Operands |-> [b \in Operands |-> Signed((a % Field) & (b % Field))]]

OrTable == [a \in Operands |-> [b \in Operands |-> Signed((a % Field) | (b % Field))]]

MCBitAnd(a, b) == AndTable[a][b]

MCBitOr(a, b) == OrTable[a][b]

\* One, the largest u64 and the first value beyond it.
MCLiterals == {1, N - 1, N}

\* A run that has not begun.
ReportAtRest ==
  /\ format = "json" /\ listing = TRUE /\ lines = <<>>
  /\ findings = <<>> /\ acc = <<>> /\ queue = <<>> /\ out = <<>>
  /\ pc = "collect" /\ reader = TRUE /\ status = Missing

LinterInit ==
  \/ pass = "report" /\ Init /\ WideInit
  \/ pass = "SorobanCostLints" /\ WideInit /\ ReportAtRest

\* Every expression of the body has been visited.
Visited ==
  /\ pass = "SorobanCostLints"
  /\ Len(body) = MaxNodes
  /\ UNCHANGED linterVars

LinterNext ==
  \/ pass = "report" /\ Next /\ UNCHANGED <<wideVars, pass>>
  \/ pass = "SorobanCostLints" /\ Visit /\ UNCHANGED <<vars, pass>>
  \/ Visited

LinterSpec == LinterInit /\ [][LinterNext]_linterVars
=============================================================================
