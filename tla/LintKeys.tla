------------------------------ MODULE LintKeys ------------------------------
(***************************************************************************)
(* What identifies a cached lint result: the cargo arguments of the run    *)
(* and a snapshot of every input that compute_source_hash and              *)
(* get_toolchain_version read (cargo-cost-lint/src/cache.rs).  An input is *)
(* one source file, a manifest or lock file, budget.toml, or the output of *)
(* `rustc -Vv`.  The 64-bit FNV-1a digest is taken to be injective, so a   *)
(* key is the tuple that is digested, not the digest.                      *)
(***************************************************************************)
EXTENDS Integers, FiniteSets

CONSTANTS
  Procs,      \* `cargo cost-lint` processes that share one workspace
  Clearers,   \* callers of clear_cache on the same cache directory
  Args,       \* cargo argument vectors a run may be given
  Inputs,     \* the files and the toolchain query that enter the key
  Contents,   \* what an input may hold
  Masked,     \* an input whose read failed: a skipped file, "unknown-toolchain"
  Unread,     \* an input the walk has not reached yet
  Findings,   \* the lists parse_dylint_output may return
  LintOf,     \* LintOf[a][s]: what dylint reports for arguments a on sources s
  Partial,    \* what may be parsed from the stderr of a child that failed
  Absent,     \* no file of that name in the cache directory
  Empty,      \* a file that has been created or truncated and not written
  Torn,       \* any other content that serde_json rejects
  NoFile,     \* a process without an open cache file
  Orphan,     \* a process whose open cache file has been unlinked
  NoAnswer,   \* a run that has not reported
  Error       \* a run that ended in Err

Sources == [Inputs -> Contents]

Snapshots == [Inputs -> Contents \cup {Masked}]

Keys == Args \X Snapshots

ASSUME MarksAssumption ==
  /\ {Masked, Unread} \cap Contents = {}
  /\ Masked # Unread
  /\ {Absent, Empty, Torn} \cap Findings = {}
  /\ Absent # Empty /\ Absent # Torn /\ Empty # Torn
  /\ {NoFile, Orphan} \cap Keys = {}
  /\ NoFile # Orphan
  /\ {NoAnswer, Error} \cap Findings = {}
  /\ NoAnswer # Error

ASSUME LintAssumption ==
  /\ LintOf \in [Args -> [Sources -> Findings]]
  /\ Partial \subseteq Findings
=============================================================================
