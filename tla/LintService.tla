---------------------------- MODULE LintService -----------------------------
(***************************************************************************)
(* What a user of `cargo cost-lint` is promised, with or without --cache:  *)
(* a run that nothing disturbed reports what the linter says of the        *)
(* workspace as it is at that moment.  There is no cache here, no file, no *)
(* key and no child process.  A run is excused from the promise once an    *)
(* input changed under it, an input could not be read, its child failed,   *)
(* or it was served what such a run had stored.                            *)
(***************************************************************************)
CONSTANTS Procs, Args, Inputs, Contents, Findings, LintOf, NoAnswer, Error

VARIABLES
  source,     \* the workspace
  phase,      \* phase[p]: "idle", "running" or "done"
  asked,      \* asked[p]: the arguments of p's run
  reply,      \* reply[p]: what it reported
  excused     \* excused[p]: TRUE once the promise no longer binds the run

vars == <<source, phase, asked, reply, excused>>

Init ==
  /\ source \in [Inputs -> Contents]
  /\ phase = [p \in Procs |-> "idle"]
  /\ asked \in [Procs -> Args]
  /\ reply = [p \in Procs |-> NoAnswer]
  /\ excused = [p \in Procs |-> FALSE]

Ask(p, a) ==
  /\ phase[p] # "running"
  /\ phase' = [phase EXCEPT ![p] = "running"]
  /\ asked' = [asked EXCEPT ![p] = a]
  /\ reply' = [reply EXCEPT ![p] = NoAnswer]
  /\ excused' = [excused EXCEPT ![p] = FALSE]
  /\ UNCHANGED source

\* The workspace changes; the runs under way are excused.
Change ==
  /\ source' \in [Inputs -> Contents]
  /\ excused' = [p \in Procs |-> excused[p] \/ phase[p] = "running"]
  /\ UNCHANGED <<phase, asked, reply>>

Excuse(p) ==
  /\ phase[p] = "running"
  /\ excused' = [excused EXCEPT ![p] = TRUE]
  /\ UNCHANGED <<source, phase, asked, reply>>

End(p, d) ==
  /\ phase[p] = "running"
  /\ phase' = [phase EXCEPT ![p] = "done"]
  /\ reply' = [reply EXCEPT ![p] = d]
  /\ UNCHANGED <<source, asked>>

\* The promise: the report is that of the workspace as it is now.
Tell(p) ==
  /\ End(p, LintOf[asked[p]][source])
  /\ UNCHANGED excused

TellExcused(p, d) ==
  /\ End(p, d)
  /\ excused' = [excused EXCEPT ![p] = TRUE]

GiveUp(p) ==
  /\ End(p, Error)
  /\ UNCHANGED excused

Abandon(p) ==
  /\ phase[p] = "running"
  /\ phase' = [phase EXCEPT ![p] = "idle"]
  /\ UNCHANGED <<source, asked, reply, excused>>

Next ==
  \/ \E p \in Procs : \/ \E a \in Args : Ask(p, a)
                      \/ \E d \in Findings : TellExcused(p, d)
                      \/ Excuse(p) \/ Tell(p) \/ GiveUp(p) \/ Abandon(p)
  \/ Change

Spec == Init /\ [][Next]_vars
=============================================================================
