----------------------------- MODULE LintConfig -----------------------------
(***************************************************************************)
(* The two readers of budget.toml: the strict one of config.rs, with the   *)
(* flags it turns into, and the lenient one of budget_config.rs.           *)
(*                                                                         *)
(* A file is a record                                                      *)
(*   readable, toml   whether it can be read, and parsed                   *)
(*   lints            the table [lints]: a function from names to levels,  *)
(*                    Missing, or Malformed if it is no table of strings   *)
(*   budget           the table lints of the table [budget], likewise      *)
(***************************************************************************)
EXTENDS Integers, Sequences, SequencesExt, FiniteSetsExt

CONSTANTS Missing, Malformed

Flag == [allow |-> "-A", warn |-> "-W", deny |-> "-D"]

\* A slice of names as a set.
build_lint_name_set(names) == ToSet(names)

-----------------------------------------------------------------------------
\* config.rs.  A HashMap is iterated in some order: a sequence of its keys.

Rejected(error) == [ok |-> FALSE, error |-> error, lints |-> Missing]
Accepted(lints) == [ok |-> TRUE, error |-> Missing, lints |-> lints]

\* An entry at fault: the lint is none, or the level is none of the three.
Refused(lints, name, known) ==
  name \notin build_lint_name_set(known) \/ lints[name] \notin DOMAIN Flag

EntryError(name, known) ==
  IF name \notin build_lint_name_set(known) THEN "unknown lint" ELSE "unknown level"

\* Variant for mutation: one entry is looked at.
from_file_validated_first(file, known, order) ==
  IF ~ file.readable THEN Rejected("read")
  ELSE IF ~ file.toml \/ file.lints = Malformed THEN Rejected("parse")
  ELSE IF file.lints = Missing \/ ~ Refused(file.lints, order[1], known)
       THEN Accepted(file.lints)
  ELSE Rejected(EntryError(order[1], known))

\* The first entry at fault, in the order of iteration, ends the validation.
from_file_validated(file, known, order) ==
  IF ~ file.readable THEN Rejected("read")
  ELSE IF ~ file.toml \/ file.lints = Malformed THEN Rejected("parse")
  ELSE IF file.lints = Missing THEN Accepted(Missing)
  ELSE LET faults == {i \in DOMAIN order : Refused(file.lints, order[i], known)}
       IN IF faults = {} THEN Accepted(file.lints)
          ELSE Rejected(EntryError(order[Min(faults)], known))

\* Settings with another level than the three are skipped.
to_lint_flags(lints, order) ==
  IF lints = Missing THEN <<>>
  ELSE LET flags[i \in 0 .. Len(order)] ==
             IF i = 0 THEN <<>>
             ELSE IF lints[order[i]] \in DOMAIN Flag
                  THEN Append(flags[i - 1], [prefix |-> Flag[lints[order[i]]],
                                             lint   |-> order[i]])
                  ELSE flags[i - 1]
       IN flags[Len(order)]

-----------------------------------------------------------------------------
\* budget_config.rs: every failure counts as no settings.

NoSettings == <<>>

parse_config_str(file) ==
  IF file.toml /\ file.budget \notin {Missing, Malformed} THEN file.budget
  ELSE NoSettings

parse_config(file) ==
  IF file.readable THEN parse_config_str(file) ELSE NoSettings
=============================================================================
