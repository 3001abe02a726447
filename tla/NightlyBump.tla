---------------------------- MODULE NightlyBump -----------------------------
(***************************************************************************)
(* The nightly bump: .github/scripts/bump-nightly.sh edits the pin, the    *)
(* clippy_utils rev and every file that repeats the pin, in place and one  *)
(* by one; validate-toolchain-pins.sh guards against drift between them;   *)
(* .github/workflows/nightly-bump.yml runs the script weekly on a fresh    *)
(* checkout and opens a pull request.  Developers run the same script in a *)
(* working tree that outlives the run.                                     *)
(*                                                                         *)
(* A nightly is its day, a clippy_utils rev the day of its commit.  What   *)
(* the patterns of the scripts match and that names no day (2026-02-30) or *)
(* no commit is a stray; what they do not match is NoDate.                 *)
(***************************************************************************)
EXTENDS Integers, Sequences

CONSTANTS
  Jobs,             \* runs of the workflow, each on a fresh checkout
  Developers,       \* people who run the script in their own clone
  NightlyFiles,     \* the sequence of files that repeat the pin
  Rustup, Master,   \* the days that have a commit on these clippy branches
  DispatchTargets,  \* target_nightly, given to the workflow by hand
  LocalTargets,     \* targets given to the script by developers
  RevOverrides,     \* what is given as CLIPPY_REV, which nothing checks
  Offset,           \* OFFSET_DAYS
  Window,           \* how far the validator lets the rev be from the pin: 3
  LastDay,          \* bound: the last day
  MaxBumps,         \* bound: how many bumps are started
  Faults,           \* a subset of {"network", "edit", "kill"}
  Strays,           \* well-shaped dates of no day, revs of no commit
  NoDate,           \* a pin, rev or target of another shape
  NoPR              \* no pull request is open

Workers == Jobs \cup Developers

Days == 0 .. LastDay

Shaped == Days \cup Strays

Names == Shaped \cup {NoDate}

FileNames == {NightlyFiles[i] : i \in DOMAIN NightlyFiles}

\* What the scripts see of a working tree; dates[f] = {} for a file that
\* names no dated nightly or is missing.
Trees == [pin : Names, rev : Names, dates : [FileNames -> SUBSET Shaped]]

ASSUME BumpAssumption ==
  /\ Jobs \cap Developers = {}
  /\ NightlyFiles \in Seq(FileNames)
  /\ Rustup \cup Master \subseteq Days
  /\ DispatchTargets \cup LocalTargets \cup RevOverrides \subseteq Names
  /\ Offset \in Nat /\ Window \in Nat /\ LastDay \in Nat /\ MaxBumps \in Nat
  /\ Faults \subseteq {"network", "edit", "kill"}
  /\ NoDate \notin Shaped /\ Days \cap Strays = {}

VARIABLES
  today,    \* the date
  main,     \* the tree at the head of the main branch
  pr,       \* the pull request on ci/nightly-bump: title, base and tree
  tree,     \* tree[w]: w's working tree
  base,     \* base[w]: the head of main it was checked out from
  pc,       \* pc[w]: where w's run of the script is
  target,   \* target[w]: TARGET
  rev,      \* rev[w]: CLIPPY_REV
  at,       \* at[w]: the index of the loop over NIGHTLY_FILES
  status,   \* status[w]: how the script ended
  start,    \* start[w]: history, the working tree when the script began
  bumps     \* how many bumps have been started

vars == <<today, main, pr, tree, base, pc, target, rev, at, status, start, bumps>>

Editing == {"pin", "rev", "files"}

Running == {"checking"} \cup Editing

\* Exit 0; 2; 1 before the edits; 1 in the midst of them; no exit at all.
Statuses == {"none", "updated", "nothing", "refused", "failed", "killed"}

TypeOK ==
  /\ today \in Days
  /\ main \in Trees
  /\ pr \in [title : Days, base : Trees, tree : Trees] \cup {NoPR}
  /\ tree \in [Workers -> Trees]
  /\ base \in [Workers -> Trees]
  /\ pc \in [Workers -> Running \cup {"idle", "testing"}]
  /\ target \in [Workers -> Names]
  /\ rev \in [Workers -> Names]
  /\ at \in [Workers -> 1 .. Len(NightlyFiles) + 1]
  /\ status \in [Workers -> Statuses]
  /\ start \in [Workers -> Trees]
  /\ bumps \in 0 .. MaxBumps

-----------------------------------------------------------------------------
\* validate-toolchain-pins.sh.

Near(d, e) == d - e <= Window /\ e - d <= Window

\* Variant for mutation: a file passes as soon as it names the pin somewhere.
Validates_anyMatch(t, api) ==
  /\ t.pin \in Days
  /\ \A f \in FileNames : t.dates[f] = {} \/ t.pin \in t.dates[f]
  /\ api /\ t.rev \in Days /\ Near(t.rev, t.pin)

\* It fails on a file that names another nightly and only warns about one that
\* names none; it needs the API, which api says can be reached, for the day of
\* the rev, and `date` for the day of the pin.
Validates(t, api) ==
  /\ t.pin \in Days
  /\ \A f \in FileNames : t.dates[f] \subseteq {t.pin}
  /\ api /\ t.rev \in Days /\ Near(t.rev, t.pin)

\* Whether the API answers the validator.
Answers == IF "network" \in Faults THEN BOOLEAN ELSE {TRUE}

-----------------------------------------------------------------------------
\* What sed makes of a tree.

WithPin(t, d) == [t EXCEPT !.pin = d]

WithRev(t, r) == IF t.rev = NoDate THEN t ELSE [t EXCEPT !.rev = r]

Redated(dates, d) == IF dates = {} THEN {} ELSE {d}

WithFile(t, f, d) == [t EXCEPT !.dates[f] = Redated(@, d)]

\* All the edits of one run.
Bumped(t, d, r) ==
  [pin |-> d, rev |-> WithRev(t, r).rev,
   dates |-> [f \in FileNames |-> Redated(t.dates[f], d)]]

\* The last commit of a branch up to day d, of those there are today.  What
\* GitHub makes of a date that is no day is not known: any of them.
Latest(branch, d) ==
  LET known == {c \in branch : c <= today /\ (d \in Days => c <= d)}
  IN  {c \in known : d \in Days => \A e \in known : e <= c}

\* resolve-clippy-rev.js: the first branch that answers with a commit; a branch
\* that cannot be asked is passed over.
Resolved(d) ==
  IF Latest(Rustup, d) # {} /\ "network" \notin Faults THEN Latest(Rustup, d)
  ELSE Latest(Rustup, d) \cup Latest(Master, d)

-----------------------------------------------------------------------------
Init ==
  /\ today \in Days
  /\ main \in {t \in Trees : Validates(t, TRUE) /\ t.pin <= today /\ t.rev <= today}
  /\ pr = NoPR
  /\ tree = [w \in Workers |-> main]
  /\ base = [w \in Workers |-> main]
  /\ pc = [w \in Workers |-> "idle"]
  /\ target = [w \in Workers |-> NoDate]
  /\ rev = [w \in Workers |-> NoDate]
  /\ at = [w \in Workers |-> 1]
  /\ status = [w \in Workers |-> "none"]
  /\ start = [w \in Workers |-> main]
  /\ bumps = 0

\* Variant for mutation: the loop over the files counts from zero.
Begin_fromZero(w, d, t) ==
  /\ pc[w] = "idle"
  /\ bumps < MaxBumps
  /\ bumps' = bumps + 1
  /\ pc' = [pc EXCEPT ![w] = "checking"]
  /\ target' = [target EXCEPT ![w] = d]
  /\ rev' = [rev EXCEPT ![w] = NoDate]
  /\ at' = [at EXCEPT ![w] = 0]
  /\ status' = [status EXCEPT ![w] = "none"]
  /\ tree' = [tree EXCEPT ![w] = t]
  /\ start' = [start EXCEPT ![w] = t]
  /\ UNCHANGED <<today, main, pr>>

\* The script is started on tree t.
Begin(w, d, t) ==
  /\ pc[w] = "idle"
  /\ bumps < MaxBumps
  /\ bumps' = bumps + 1
  /\ pc' = [pc EXCEPT ![w] = "checking"]
  /\ target' = [target EXCEPT ![w] = d]
  /\ rev' = [rev EXCEPT ![w] = NoDate]
  /\ at' = [at EXCEPT ![w] = 1]
  /\ status' = [status EXCEPT ![w] = "none"]
  /\ tree' = [tree EXCEPT ![w] = t]
  /\ start' = [start EXCEPT ![w] = t]
  /\ UNCHANGED <<today, main, pr>>

\* The workflow checks main out and aims at today minus OFFSET_DAYS, whatever
\* the pin is, unless it was given a target.
Dispatch(j, d) ==
  /\ j \in Jobs
  /\ d \in DispatchTargets \/ d = today - Offset
  /\ Begin(j, d, main)
  /\ base' = [base EXCEPT ![j] = main]

RunLocally(v, d) ==
  /\ v \in Developers
  /\ Begin(v, d, tree[v])
  /\ UNCHANGED base

\* The script ends.
Stop(w, s) ==
  /\ pc' = [pc EXCEPT ![w] = "idle"]
  /\ status' = [status EXCEPT ![w] = s]
  /\ UNCHANGED <<today, main, pr, tree, base, target, rev, at, start, bumps>>

\* The pin does not parse or the target is malformed.
Refuse(w) ==
  /\ pc[w] = "checking"
  /\ NoDate \in {tree[w].pin, target[w]}
  /\ Stop(w, "refused")

NothingToDo(w) ==
  /\ pc[w] = "checking"
  /\ tree[w].pin = target[w] /\ target[w] # NoDate
  /\ Stop(w, "nothing")

\* Go on to an edit.
Goto(w, from, to, t) ==
  /\ pc[w] = from
  /\ pc' = [pc EXCEPT ![w] = to]
  /\ tree' = [tree EXCEPT ![w] = t]
  /\ UNCHANGED <<today, main, pr, base, target, status, start, bumps>>

ToBump(w) == NoDate \notin {tree[w].pin, target[w]} /\ tree[w].pin # target[w]

\* The revs that somebody may give as CLIPPY_REV by today.
Overrides == {r \in RevOverrides : r \in Days => r <= today}

Resolve(w) ==
  /\ ToBump(w)
  /\ \E r \in Resolved(target[w]) \cup Overrides : rev' = [rev EXCEPT ![w] = r]
  /\ Goto(w, "checking", "pin", tree[w])
  /\ UNCHANGED at

\* Neither branch answers, or neither has a commit that old, or GitHub takes
\* the date for no date.
CannotResolve(d) == "network" \in Faults \/ Resolved(d) = {} \/ d \in Strays

\* Variant for mutation: the pin is written before the rev is resolved.
ResolveFails_afterPin(w) ==
  /\ ToBump(w)
  /\ CannotResolve(target[w])
  /\ status' = [status EXCEPT ![w] = "refused"]
  /\ pc[w] = "checking"
  /\ pc' = [pc EXCEPT ![w] = "idle"]
  /\ tree' = [tree EXCEPT ![w] = WithPin(tree[w], target[w])]
  /\ UNCHANGED <<today, main, pr, base, target, rev, at, start, bumps>>

ResolveFails(w) ==
  /\ pc[w] = "checking"
  /\ ToBump(w)
  /\ CannotResolve(target[w])
  /\ Stop(w, "refused")

EditPin(w) ==
  /\ Goto(w, "pin", "rev", WithPin(tree[w], target[w]))
  /\ UNCHANGED <<rev, at>>

\* Variant for mutation: the pattern for the rev matches nothing.
EditRev_unmatched(w) ==
  /\ Goto(w, "rev", "files", tree[w])
  /\ UNCHANGED <<rev, at>>

EditRev(w) ==
  /\ Goto(w, "rev", "files", WithRev(tree[w], rev[w]))
  /\ UNCHANGED <<rev, at>>

\* Variant for mutation: the first file without a match ends the loop.
EditFile_untilMissing(w) ==
  /\ at[w] <= Len(NightlyFiles)
  /\ Goto(w, "files", "files", WithFile(tree[w], NightlyFiles[at[w]], target[w]))
  /\ at' = [at EXCEPT ![w] = IF tree[w].dates[NightlyFiles[at[w]]] = {}
                              THEN Len(NightlyFiles) + 1 ELSE @ + 1]
  /\ UNCHANGED rev

EditFile(w) ==
  /\ at[w] <= Len(NightlyFiles)
  /\ Goto(w, "files", "files", WithFile(tree[w], NightlyFiles[at[w]], target[w]))
  /\ at' = [at EXCEPT ![w] = @ + 1]
  /\ UNCHANGED rev

\* Variant for mutation: the workflow looks for changes, not at the exit code.
EditFails_unchecked(w) ==
  /\ "edit" \in Faults
  /\ pc[w] \in Editing /\ ~ (pc[w] = "files" /\ at[w] > Len(NightlyFiles))
  /\ pc' = [pc EXCEPT ![w] =
              IF w \in Jobs /\ tree[w] # base[w] THEN "testing" ELSE "idle"]
  /\ status' = [status EXCEPT ![w] = "failed"]
  /\ UNCHANGED <<today, main, pr, tree, base, target, rev, at, start, bumps>>

\* sed fails: set -e ends the script with the edits made so far in place.
EditFails(w) ==
  /\ "edit" \in Faults
  /\ pc[w] \in Editing /\ ~ (pc[w] = "files" /\ at[w] > Len(NightlyFiles))
  /\ Stop(w, "failed")

Interrupt(w) ==
  /\ "kill" \in Faults
  /\ pc[w] \in Running
  /\ Stop(w, "killed")

\* The loop has ended.  The workflow goes on to the tests if git status shows
\* a change; a job whose script ended otherwise opens no pull request.
Finish(w) ==
  /\ pc[w] = "files" /\ at[w] > Len(NightlyFiles)
  /\ pc' = [pc EXCEPT ![w] =
              IF w \in Jobs /\ tree[w] # base[w] THEN "testing" ELSE "idle"]
  /\ status' = [status EXCEPT ![w] = "updated"]
  /\ UNCHANGED <<today, main, pr, tree, base, target, rev, at, start, bumps>>

\* Rust, the cache or dylint cannot be installed, as the toolchain of a day
\* that is none: the job ends there.
SetupFails(j) ==
  /\ pc[j] = "testing"
  /\ "network" \in Faults \/ target[j] \in Strays
  /\ pc' = [pc EXCEPT ![j] = "idle"]
  /\ UNCHANGED <<today, main, pr, tree, base, target, rev, at, status, start, bumps>>

\* The tests have run, with whatever result, and create-pull-request opens the
\* one pull request or replaces what it holds.
Publish(j) ==
  /\ pc[j] = "testing" /\ target[j] \in Days
  /\ pr' = [title |-> target[j], base |-> base[j], tree |-> tree[j]]
  /\ pc' = [pc EXCEPT ![j] = "idle"]
  /\ UNCHANGED <<today, main, tree, base, target, rev, at, status, start, bumps>>

-----------------------------------------------------------------------------
\* The people and the calendar.

\* A reviewer merges the pull request: its checks, of which the validator is
\* one, have passed and it does not conflict with main.
Merge ==
  /\ pr # NoPR
  /\ main = pr.base /\ \E api \in Answers : Validates(pr.tree, api)
  /\ main' = pr.tree
  /\ pr' = NoPR
  /\ UNCHANGED <<today, tree, base, pc, target, rev, at, status, start, bumps>>

\* A developer commits a bump made by hand.
Commit(v) ==
  /\ v \in Developers /\ pc[v] = "idle"
  /\ main = base[v] /\ tree[v] # main
  /\ \E api \in Answers : Validates(tree[v], api)
  /\ main' = tree[v]
  /\ base' = [base EXCEPT ![v] = tree[v]]
  /\ UNCHANGED <<today, pr, tree, pc, target, rev, at, status, start, bumps>>

\* A developer drops the changes of the working tree and pulls main.
Pull(v) ==
  /\ v \in Developers /\ pc[v] = "idle"
  /\ tree' = [tree EXCEPT ![v] = main]
  /\ base' = [base EXCEPT ![v] = main]
  /\ status' = [status EXCEPT ![v] = "none"]
  /\ start' = [start EXCEPT ![v] = main]
  /\ UNCHANGED <<today, main, pr, pc, target, rev, at, bumps>>

NextDay ==
  /\ today < LastDay
  /\ today' = today + 1
  /\ UNCHANGED <<main, pr, tree, base, pc, target, rev, at, status, start, bumps>>

-----------------------------------------------------------------------------
Next ==
  \/ \E j \in Jobs, d \in Names : Dispatch(j, d)
  \/ \E v \in Developers, d \in LocalTargets : RunLocally(v, d)
  \/ \E w \in Workers :
       \/ Refuse(w) \/ NothingToDo(w) \/ Resolve(w) \/ ResolveFails(w)
       \/ EditPin(w) \/ EditRev(w) \/ EditFile(w) \/ Finish(w)
       \/ EditFails(w) \/ Interrupt(w)
       \/ SetupFails(w) \/ Publish(w) \/ Commit(w) \/ Pull(w)
  \/ Merge
  \/ NextDay

Spec == Init /\ [][Next]_vars

-----------------------------------------------------------------------------
\* Properties.

Dated(t) == \E f \in FileNames : t.dates[f] # {}

\* Whatever point an edit reaches, the validator never takes a half-bumped tree
\* for a consistent one: a tree that was consistent is accepted again only once
\* every edit has been made (bump-nightly.sh edits rust-toolchain first, the
\* files last; validate-toolchain-pins.sh knows nothing of a bump under way).
HalfBumpsAreCaught ==
  \A w \in Workers :
    Validates(start[w], TRUE) /\ Dated(start[w]) /\ Validates(tree[w], TRUE)
    => tree[w] \in {start[w], Bumped(start[w], target[w], rev[w])}

\* A bump that ends before its first edit leaves the tree alone, for a retry
\* (bump-nightly.sh: every exit of the checks and of the resolution).
RefusalsLeaveTheTree ==
  \A w \in Workers :
    status[w] \in {"refused", "nothing"} => tree[w] = start[w]

\* Exit 0 means every file that named a nightly names the target; what is left
\* for the validator to object to is a target that is no day, the rev, or an API
\* that does not answer (bump-nightly.sh, exit code 0).
UpdatesAreComplete ==
  \A w \in Workers :
    status[w] = "updated" =>
      /\ tree[w] = Bumped(start[w], target[w], rev[w])
      /\ \A api \in BOOLEAN :
           Validates(tree[w], api) <=>
             /\ api /\ target[w] \in Days
             /\ tree[w].rev \in Days /\ Near(tree[w].rev, target[w])

\* The pull request never holds part of a bump, another nightly than its title
\* says, or a change to anything but the head of main it was made from, however
\* many jobs ran and failed meanwhile (nightly-bump.yml).
PullRequestIsWhole ==
  pr # NoPR => pr.tree = Bumped(pr.base, pr.title, pr.tree.rev)

-----------------------------------------------------------------------------
\* The inductive invariant behind the safety properties.

\* The tree of a run that started on t, after the first n - 1 files.
Partly(t, d, r, n) ==
  [pin |-> d, rev |-> WithRev(t, r).rev,
   dates |-> [f \in FileNames |->
                IF f \in {NightlyFiles[i] : i \in 1 .. n - 1}
                THEN Redated(t.dates[f], d) ELSE t.dates[f]]]

\* Where a run that is under way has got to.
Progress ==
  \A w \in Workers :
    /\ pc[w] \in {"checking", "pin"} => tree[w] = start[w]
    /\ pc[w] \in Editing =>
         target[w] \in Shaped /\ target[w] # start[w].pin
    /\ pc[w] \in {"checking", "pin", "rev"} => at[w] = 1
    /\ pc[w] = "rev" => tree[w] = WithPin(start[w], target[w])
    /\ pc[w] = "files" => tree[w] = Partly(start[w], target[w], rev[w], at[w])
    /\ pc[w] # "idle" => status[w] = IF pc[w] = "testing" THEN "updated" ELSE "none"
    /\ pc[w] = "testing" => w \in Jobs
    /\ w \in Jobs => base[w] = start[w]

\* What a run, ended or not, can have made of the tree it started on.
Outcomes ==
  \A w \in Workers :
    \/ tree[w] = start[w]
    \/ /\ target[w] \in Shaped /\ target[w] # start[w].pin
       /\ \/ tree[w] = WithPin(start[w], target[w])
          \/ \E n \in 1 .. Len(NightlyFiles) + 1 :
               tree[w] = Partly(start[w], target[w], rev[w], n)

\* Init establishes the conjunction and every step keeps it; it implies each
\* property above that a run of the script has to keep (bump-nightly.sh).
BumpInv ==
  /\ TypeOK
  /\ Progress
  /\ Outcomes
  /\ RefusalsLeaveTheTree
  /\ UpdatesAreComplete
  /\ PullRequestIsWhole

-----------------------------------------------------------------------------
\* What the documentation says of the scripts.

\* bump-nightly.sh, exit code 2: "target already equals the current pin
\* (nothing to do)".  So the validator finds nothing to do either.
NothingToDoMeansDone ==
  \A w \in Workers : status[w] = "nothing" => Validates(tree[w], TRUE)

\* nightly-bump.yml: "Attempt to move this crate to a newer Rust nightly on a
\* schedule".  So a scheduled job never moves the pin back.
ScheduledBumpsGoForward ==
  \A j \in Jobs : status[j] = "updated" => target[j] > start[j].pin
=============================================================================
