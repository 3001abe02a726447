------------------------------ MODULE LintRun -------------------------------
(***************************************************************************)
(* Runs of `cargo cost-lint` (execute_dylint_and_collect_findings and      *)
(* invoke_dylint of cargo-cost-lint/src/main.rs) that share a workspace    *)
(* and a result cache, while its owner edits the sources, clears the       *)
(* cache, runs `cargo clean`, or interrupts a run.                         *)
(*                                                                         *)
(* main.rs calls cache::load_from_cache(dir, args) and                     *)
(* cache::save_to_cache(dir, args, findings), which the repository does    *)
(* not define.  Their signatures carry no key, so each of them has to      *)
(* compute the key of the run from the workspace as it finds it; both are  *)
(* modelled as that computation followed by load_cache_entry, respectively *)
(* save_cache_entry.                                                       *)
(*                                                                         *)
(* What they put into an entry, a key, an exit code and two texts in       *)
(* cache.rs, and read back out of it are the findings.  How they convert   *)
(* one to the other is not known either; it is assumed to lose nothing, so *)
(* an entry stands for the findings it was made of.                        *)
(***************************************************************************)
EXTENDS CacheFiles

CONSTANTS
  Faults,     \* the kinds of fault that may strike, a subset of FaultKinds
  MaxRuns,    \* bound: how many runs are started
  MaxEdits    \* bound: how many times an input is edited

FaultKinds == {"walk", "read", "spawn", "child", "io", "crash", "clean"}

ASSUME BoundsAssumption ==
  /\ Faults \subseteq FaultKinds
  /\ MaxRuns \in Nat
  /\ MaxEdits \in Nat

VARIABLES
  source,     \* source[i]: what input i holds now
  pc,         \* pc[p]: where the run of process p is
  args,       \* args[p]: its cargo arguments
  caching,    \* caching[p]: whether it was given --cache
  snap,       \* snap[p]: the inputs its current walk has read
  found,      \* found[p]: the findings invoke_dylint returned
  answer,     \* answer[p]: what it reported
  runs,       \* how many runs have been started
  edits       \* how many edits have been made

\* History variables, which no action of the program reads.
VARIABLES
  began,      \* began[p]: the sources when the run started
  doubt,      \* doubt[p]: what happened to the run that may falsify its answer
  suspect,    \* the keys whose entry was written by a run in doubt
  produced    \* produced[a]: all that children printed for arguments a

runVars == <<source, pc, args, caching, snap, found, answer, runs, edits>>
history == <<began, doubt, suspect, produced>>
vars == <<fileVars, runVars, history>>

Doubts == {"edit", "read", "child", "entry"}

Locations == {"idle", "keying", "linting", "rekeying", "saving", "opening",
              "writing", "done"}

Active == Locations \ {"idle", "done"}

NothingRead == [i \in Inputs |-> Unread]

RunTypeOK ==
  /\ source \in Sources
  /\ pc \in [Procs -> Locations]
  /\ args \in [Procs -> Args]
  /\ caching \in [Procs -> BOOLEAN]
  /\ snap \in [Procs -> [Inputs -> Contents \cup {Masked, Unread}]]
  /\ found \in [Procs -> Findings \cup {NoAnswer}]
  /\ answer \in [Procs -> Findings \cup {NoAnswer, Error}]
  /\ runs \in 0 .. MaxRuns
  /\ edits \in 0 .. MaxEdits

HistoryTypeOK ==
  /\ began \in [Procs -> Sources]
  /\ doubt \in [Procs -> SUBSET Doubts]
  /\ suspect \subseteq Keys
  /\ produced \in [Args -> SUBSET Findings]

TypeOK == FilesTypeOK /\ RunTypeOK /\ HistoryTypeOK

Init ==
  /\ FilesInit
  /\ source \in Sources
  /\ pc = [p \in Procs |-> "idle"]
  /\ args \in [Procs -> Args]
  /\ caching = [p \in Procs |-> FALSE]
  /\ snap = [p \in Procs |-> NothingRead]
  /\ found = [p \in Procs |-> NoAnswer]
  /\ answer = [p \in Procs |-> NoAnswer]
  /\ runs = 0
  /\ edits = 0
  /\ began = [p \in Procs |-> source]
  /\ doubt = [p \in Procs |-> {}]
  /\ suspect = {}
  /\ produced = [a \in Args |-> {}]

-----------------------------------------------------------------------------
\* Helpers.

Goto(p, from, to) ==
  /\ pc[p] = from
  /\ pc' = [pc EXCEPT ![p] = to]

\* Variant for mutation: the digest of the sources is memoized across runs.
Exit_memoized(p, from, to) ==
  /\ Goto(p, from, to)
  /\ caching' = [caching EXCEPT ![p] = FALSE]
  /\ found' = [found EXCEPT ![p] = NoAnswer]
  /\ UNCHANGED <<source, args, snap, runs, edits>>

\* The process ends and its locals with it.
Exit(p, from, to) ==
  /\ Goto(p, from, to)
  /\ caching' = [caching EXCEPT ![p] = FALSE]
  /\ snap' = [snap EXCEPT ![p] = NothingRead]
  /\ found' = [found EXCEPT ![p] = NoAnswer]
  /\ UNCHANGED <<source, args, runs, edits>>

\* execute_dylint_and_collect_findings returns: Ok(d), or Err when d = Error.
Return(p, from, d) ==
  /\ Exit(p, from, "done")
  /\ answer' = [answer EXCEPT ![p] = d]

WalkDone(p) == \A i \in Inputs : snap[p][i] # Unread

\* Variant for mutation: the contents of the inputs are left out of the key.
Key_withoutSources(p) == <<args[p], [i \in Inputs |-> Masked]>>

Key(p) == <<args[p], snap[p]>>

-----------------------------------------------------------------------------
\* The run.

\* Cli::parse and the removal of a leading "cost-lint" give the arguments and
\* the --cache flag; without the flag the cache is never consulted.
Start(p, a, useCache) ==
  /\ pc[p] \in {"idle", "done"}
  /\ runs < MaxRuns
  /\ runs' = runs + 1
  /\ pc' = [pc EXCEPT ![p] = IF useCache THEN "keying" ELSE "linting"]
  /\ args' = [args EXCEPT ![p] = a]
  /\ caching' = [caching EXCEPT ![p] = useCache]
  /\ answer' = [answer EXCEPT ![p] = NoAnswer]
  /\ began' = [began EXCEPT ![p] = source]
  /\ doubt' = [doubt EXCEPT ![p] = {}]
  /\ UNCHANGED <<source, snap, found, edits, suspect, produced, fileVars>>

\* Variant for mutation: only the path of a file is digested, not its content.
ReadInput_pathOnly(p, i) ==
  /\ pc[p] \in {"keying", "rekeying"}
  /\ snap[p][i] = Unread
  /\ snap' = [snap EXCEPT ![p][i] = CHOOSE c \in Contents : TRUE]
  /\ UNCHANGED <<source, pc, args, caching, found, answer, runs, edits,
                 history, fileVars>>

\* One turn of the walk of compute_source_hash, or get_toolchain_version.  The
\* walk order is the file system's; files are sorted before they are digested.
ReadInput(p, i) ==
  /\ pc[p] \in {"keying", "rekeying"}
  /\ snap[p][i] = Unread
  /\ snap' = [snap EXCEPT ![p][i] = source[i]]
  /\ UNCHANGED <<source, pc, args, caching, found, answer, runs, edits,
                 history, fileVars>>

\* fs::read or `rustc -Vv` fails: the input silently drops out of the key.
SkipInput(p, i) ==
  /\ "read" \in Faults
  /\ pc[p] \in {"keying", "rekeying"}
  /\ snap[p][i] = Unread
  /\ snap' = [snap EXCEPT ![p][i] = Masked]
  /\ doubt' = [doubt EXCEPT ![p] = @ \cup {"read"}]
  /\ UNCHANGED <<source, pc, args, caching, found, answer, runs, edits,
                 began, suspect, produced, fileVars>>

\* The walker yields an error: compute_source_hash returns Err.  There is no
\* key to load from, and load_from_cache returns an Option.
NoKeyToLoad(p) ==
  /\ "walk" \in Faults
  /\ Goto(p, "keying", "linting")
  /\ UNCHANGED <<source, args, caching, snap, found, answer, runs, edits,
                 history, fileVars>>

\* The same error after the child has finished reaches the `?` of save_to_cache.
NoKeyToSave(p) ==
  /\ "walk" \in Faults
  /\ Return(p, "rekeying", Error)
  /\ UNCHANGED <<history, fileVars>>

\* Variant for mutation: an entry that does not parse counts as a default value.
LoadHit_orDefault(p) ==
  /\ WalkDone(p)
  /\ store[Key(p)] # Absent
  /\ Return(p, "keying", IF Loads(Key(p)) THEN store[Key(p)]
                         ELSE CHOOSE d \in Findings : TRUE)
  /\ UNCHANGED <<history, fileVars>>

\* An entry under the key that parses is the answer (the assumption on top).
LoadHit(p) ==
  /\ WalkDone(p)
  /\ Loads(Key(p))
  /\ Return(p, "keying", store[Key(p)])
  /\ doubt' = [doubt EXCEPT ![p] =
                 IF Key(p) \in suspect THEN @ \cup {"entry"} ELSE @]
  /\ UNCHANGED <<began, suspect, produced, fileVars>>

\* Variant for mutation: a file that is being written is waited for.
LoadMiss_waits(p) ==
  /\ WalkDone(p)
  /\ store[Key(p)] \notin Findings \cup {Empty}
  /\ Goto(p, "keying", "linting")
  /\ UNCHANGED <<source, args, caching, snap, found, answer, runs, edits,
                 history, fileVars>>

LoadMiss(p) ==
  /\ WalkDone(p)
  /\ ~ Loads(Key(p))
  /\ Goto(p, "keying", "linting")
  /\ UNCHANGED <<source, args, caching, snap, found, answer, runs, edits,
                 history, fileVars>>

\* `cargo dylint` cannot be spawned.
SpawnFails(p) ==
  /\ "spawn" \in Faults
  /\ Return(p, "linting", Error)
  /\ UNCHANGED <<history, fileVars>>

\* The child has exited and its stderr has been parsed to d.  With --cache the
\* findings are saved before they are returned.
Collected(p, d) ==
  /\ \/ /\ caching[p]
        /\ Goto(p, "linting", "rekeying")
        /\ found' = [found EXCEPT ![p] = d]
        /\ snap' = [snap EXCEPT ![p] = NothingRead]
        /\ UNCHANGED <<source, args, caching, answer, runs, edits>>
     \/ ~ caching[p] /\ Return(p, "linting", d)
  /\ produced' = [produced EXCEPT ![args[p]] = @ \cup {d}]
  /\ UNCHANGED <<began, suspect, fileVars>>

ChildSucceeds(p) ==
  /\ Collected(p, LintOf[args[p]][source])
  /\ UNCHANGED doubt

\* The exit status of the child is not looked at: what a failed build printed
\* is taken for the findings.
ChildFails(p) ==
  /\ "child" \in Faults
  /\ \E d \in Partial : Collected(p, d)
  /\ doubt' = [doubt EXCEPT ![p] = @ \cup {"child"}]

\* Variant for mutation: the key is digested before the walk has ended.
KeyToSave_early(p) ==
  /\ Goto(p, "rekeying", "saving")
  /\ UNCHANGED <<source, args, caching, snap, found, answer, runs, edits,
                 history, fileVars>>

KeyToSave(p) ==
  /\ WalkDone(p)
  /\ Goto(p, "rekeying", "saving")
  /\ UNCHANGED <<source, args, caching, snap, found, answer, runs, edits,
                 history, fileVars>>

MakeDir(p) ==
  /\ Goto(p, "saving", "opening")
  /\ CreateDirAll
  /\ UNCHANGED <<source, args, caching, snap, found, answer, runs, edits,
                 history>>

OpenEntry(p) ==
  /\ Goto(p, "opening", "writing")
  /\ OpenTruncate(p, Key(p))
  /\ UNCHANGED <<source, args, caching, snap, found, answer, runs, edits,
                 history>>

\* A step of save_cache_entry fails before a file is open.  The directory may
\* be gone again when fs::write opens the file in it.
SaveFails(p) ==
  /\ \/ "io" \in Faults /\ Return(p, "saving", Error)
     \/ ("io" \in Faults \/ ~ dir) /\ Return(p, "opening", Error)
  /\ UNCHANGED <<history, fileVars>>

WriteEntry(p) ==
  /\ Return(p, "writing", found[p])
  /\ WriteAll(p, found[p])
  /\ suspect' = IF fd[p] = Orphan THEN suspect
                ELSE IF doubt[p] = {} THEN suspect \ {fd[p]}
                ELSE suspect \cup {fd[p]}
  /\ UNCHANGED <<began, doubt, produced>>

WriteFails(p) ==
  /\ "io" \in Faults
  /\ Return(p, "writing", Error)
  /\ CloseEarly(p)
  /\ UNCHANGED history

\* The process is killed or interrupted.
Crash(p) ==
  /\ "crash" \in Faults
  /\ pc[p] \in Active
  /\ Exit(p, pc[p], "idle")
  /\ CloseEarly(p)
  /\ UNCHANGED <<answer, history>>

-----------------------------------------------------------------------------
\* The workspace around the runs.

\* An input changes; it is recorded against every run that is under way.
Edit(i, c) ==
  /\ edits < MaxEdits
  /\ c # source[i]
  /\ source' = [source EXCEPT ![i] = c]
  /\ edits' = edits + 1
  /\ doubt' = [p \in Procs |-> IF pc[p] \in Active THEN doubt[p] \cup {"edit"}
                                                   ELSE doubt[p]]
  /\ UNCHANGED <<pc, args, caching, snap, found, answer, runs, began, suspect,
                 produced, fileVars>>

Clear(c) ==
  /\ \/ ClearBegin(c)
     \/ \E k \in Keys : ClearRemove(c, k)
     \/ ClearEnd(c)
     \/ "io" \in Faults /\ \E k \in Keys : ClearKeep(c, k)
  /\ UNCHANGED <<runVars, history>>

Clean ==
  /\ "clean" \in Faults
  /\ CargoClean
  /\ UNCHANGED <<runVars, history>>

-----------------------------------------------------------------------------
\* A step the process takes by itself once it has been started.
Step(p) ==
  \/ \E i \in Inputs : ReadInput(p, i) \/ SkipInput(p, i)
  \/ NoKeyToLoad(p) \/ NoKeyToSave(p)
  \/ LoadHit(p) \/ LoadMiss(p)
  \/ SpawnFails(p) \/ ChildSucceeds(p) \/ ChildFails(p)
  \/ KeyToSave(p) \/ MakeDir(p) \/ OpenEntry(p) \/ SaveFails(p)
  \/ WriteEntry(p) \/ WriteFails(p)

Next ==
  \/ \E p \in Procs, a \in Args, useCache \in BOOLEAN : Start(p, a, useCache)
  \/ \E p \in Procs : Step(p) \/ Crash(p)
  \/ \E i \in Inputs, c \in Contents : Edit(i, c)
  \/ \E c \in Clearers : Clear(c)
  \/ Clean

Spec == Init /\ [][Next]_vars

\* A started process is scheduled and the child it waits for exits; nobody is
\* obliged to start a run, edit, clear or interrupt anything.
FairSpec == Spec /\ \A p \in Procs : WF_vars(Step(p))

-----------------------------------------------------------------------------
\* Properties.

\* Every entry that loads is what dylint reports for exactly the arguments and
\* sources in its key, unless the run that stored it was in doubt: torn and
\* overlapping writes, crashes, clears and stale descriptors never make a
\* wrong entry (cache.rs save_cache_entry, load_cache_entry, clear_cache).
EntriesMatchKeys ==
  \A k \in Keys \ suspect :
    Loads(k) => k[2] \in Sources /\ store[k] = LintOf[k[1]][k[2]]

\* A run in no doubt, whether it hit or missed, reports what dylint says of the
\* workspace it was started on (main.rs execute_dylint_and_collect_findings).
UndisturbedRunsAreRight ==
  \A p \in Procs :
    /\ pc[p] = "done"
    /\ answer[p] \in Findings
    /\ doubt[p] = {}
    => answer[p] = LintOf[args[p]][began[p]]

\* Even a run in doubt reports, in full, what some child printed for the same
\* arguments: the cache never serves a fragment, a mixture or another
\* selection's findings (cache.rs load_cache_entry).
ReportsAreWhole ==
  \A p \in Procs :
    pc[p] = "done" /\ answer[p] \in Findings => answer[p] \in produced[args[p]]

\* When clear_cache returns after removing every file it could see, none of the
\* files that were there when it listed the directory is left, whatever was
\* written meanwhile (cache.rs clear_cache).
ClearLeavesNoOldFile ==
  \A c \in Clearers :
    sweep[c].phase = "done" /\ ~ sweep[c].kept => old[c] = {}

\* A run never waits for another: a truncated file, a crashed writer or a clear
\* under way delays nobody for ever (main.rs, cache.rs: no lock is taken).
RunsEnd == \A p \in Procs : pc[p] \in Active ~> pc[p] \notin Active

\* README, Cache Invalidation: "Modifying any of these inputs automatically
\* invalidates the cache entry and triggers a fresh lint pass."  So a run that
\* was not itself disturbed reports on the sources it was started on, whatever
\* earlier runs have stored.
EditsInvalidateEntries ==
  \A p \in Procs :
    /\ pc[p] = "done"
    /\ answer[p] \in Findings
    /\ doubt[p] \subseteq {"entry"}
    => answer[p] = LintOf[args[p]][began[p]]

-----------------------------------------------------------------------------
\* The inductive invariant behind the safety properties.

Saving == {"saving", "opening", "writing"}

\* A run's locals: what each program location may rely on.
LocalsOK ==
  \A p \in Procs :
    /\ pc[p] \notin Active => snap[p] = NothingRead
    /\ pc[p] \in Saving => WalkDone(p)
    /\ pc[p] \in Saving \cup {"rekeying"} => found[p] \in produced[args[p]]
    /\ pc[p] = "writing" <=> fd[p] # NoFile
    /\ fd[p] \in Keys => fd[p] = Key(p) /\ store[fd[p]] # Absent

\* A run in no doubt has seen one state of the workspace throughout.
SteadyRuns ==
  \A p \in Procs : pc[p] \in Active /\ doubt[p] = {} =>
    /\ source = began[p]
    /\ \A i \in Inputs : snap[p][i] \in {Unread, source[i]}
    /\ pc[p] \in Saving \cup {"rekeying"} => found[p] = LintOf[args[p]][source]

\* Every entry that loads was printed by a child for the arguments in its key.
EntriesAreProduced ==
  \A k \in Keys : Loads(k) => store[k] \in produced[k[1]]

\* A clear_cache call has before it every listed file it has not unlinked, and
\* a missing directory holds no file.
ClearsProceed ==
  /\ ~ dir => Files = {}
  /\ \A c \in Clearers :
       /\ sweep[c].phase = "done" => sweep[c].todo = {}
       /\ ~ sweep[c].kept => old[c] \subseteq sweep[c].todo

\* The conjunction that Init establishes and every step keeps: it implies each
\* safety property above (execute_dylint_and_collect_findings with cache.rs).
IInv ==
  /\ TypeOK
  /\ LocalsOK
  /\ SteadyRuns
  /\ EntriesAreProduced
  /\ EntriesMatchKeys
  /\ UndisturbedRunsAreRight
  /\ ReportsAreWhole
  /\ ClearsProceed

-----------------------------------------------------------------------------
\* Refinement: the runs implement the promise, with the cache hidden.
Phase(p) == IF pc[p] \in Active THEN "running" ELSE pc[p]

Service == INSTANCE LintService WITH
  phase   <- [p \in Procs |-> Phase(p)],
  asked   <- args,
  reply   <- answer,
  excused <- [p \in Procs |-> doubt[p] # {}]

\* Caching is transparent: hits, misses, failed saves, crashes and clears show
\* an observer nothing that runs without a cache could not show.
ImplementsService == Service!Spec
=============================================================================
