--------------------------- MODULE LintRunProofs ----------------------------
(***************************************************************************)
(* Proofs about LintRun for every value of its constants: any number of    *)
(* processes, clear_cache callers, inputs and contents, every set of       *)
(* faults, and no assumption but the named ones of LintKeys and LintRun.   *)
(*                                                                         *)
(* IInv is inductive.  Each of its conjuncts has a lemma ...Kept that says *)
(* every step keeps it; the conjuncts it leans on are its hypotheses.      *)
(*   TypeKept      types            <- LocalsKept's hypothesis             *)
(*   LocalsKept    program points   <- types                               *)
(*   SteadyKept    one workspace    <- types, locals                       *)
(*   ProducedKept  entries printed  <- types, locals                       *)
(*   MatchKept     entries right    <- types, locals, one workspace        *)
(*   RightKept     answers right    <- those, entries right                *)
(*   WholeKept     answers printed  <- types, locals, entries printed      *)
(*   ClearsKept    clears proceed   <- types, locals                       *)
(***************************************************************************)
EXTENDS LintRun, TLAPS

-----------------------------------------------------------------------------
\* Types.

\* The end of a process leaves the locals well typed.
LEMMA ExitTypes ==
  ASSUME RunTypeOK, NEW p \in Procs, NEW from, NEW to \in Locations,
         Exit(p, from, to),
         answer' \in [Procs -> Findings \cup {NoAnswer, Error}]
  PROVE  RunTypeOK'
BY DEF Exit, Goto, RunTypeOK, NothingRead

\* So does a return from execute_dylint_and_collect_findings.
LEMMA ReturnTypes ==
  ASSUME RunTypeOK, NEW p \in Procs, NEW from, NEW d \in Findings \cup {Error},
         Return(p, from, d)
  PROVE  RunTypeOK'
<1>1. answer' \in [Procs -> Findings \cup {NoAnswer, Error}]
  BY DEF Return, RunTypeOK
<1> QED
  BY <1>1, ExitTypes DEF Return, Locations

\* A finished walk yields a key of the cache.
LEMMA KeyTypes ==
  ASSUME RunTypeOK, NEW p \in Procs, WalkDone(p)
  PROVE  Key(p) \in Keys
BY DEF RunTypeOK, Key, Keys, WalkDone, Snapshots

\* Collecting the findings of a child keeps every type but that of doubt.
LEMMA CollectedTypes ==
  ASSUME RunTypeOK, HistoryTypeOK, FilesTypeOK, NEW p \in Procs,
         NEW d \in Findings, Collected(p, d)
  PROVE  /\ RunTypeOK' /\ FilesTypeOK'
         /\ began' \in [Procs -> Sources] /\ suspect' \subseteq Keys
         /\ produced' \in [Args -> SUBSET Findings]
<1>1. CASE /\ Goto(p, "linting", "rekeying")
           /\ found' = [found EXCEPT ![p] = d]
           /\ snap' = [snap EXCEPT ![p] = NothingRead]
           /\ UNCHANGED <<source, args, caching, answer, runs, edits>>
  <2>1. RunTypeOK'
    BY <1>1 DEF Goto, RunTypeOK, NothingRead, Locations
  <2> QED
    BY <1>1, <2>1 DEF Collected, HistoryTypeOK, FilesTypeOK, fileVars,
       RunTypeOK
<1>2. CASE Return(p, "linting", d)
  <2>1. RunTypeOK'
    BY <1>2, ReturnTypes
  <2> QED
    BY <1>2, <2>1 DEF Collected, HistoryTypeOK, FilesTypeOK, fileVars,
       RunTypeOK
<1> QED
  BY <1>1, <1>2 DEF Collected

\* write_all leaves contents that the type of the store allows.
LEMMA WriteAllTypes ==
  ASSUME FilesTypeOK, NEW p \in Procs, NEW v \in Findings, WriteAll(p, v)
  PROVE  FilesTypeOK'
BY DEF WriteAll, Overwritten, FilesTypeOK, FileContents

\* So does a descriptor closed before the entry was complete.
LEMMA CloseEarlyTypes ==
  ASSUME FilesTypeOK, NEW p \in Procs, CloseEarly(p)
  PROVE  FilesTypeOK'
BY DEF CloseEarly, FilesTypeOK, FileContents

\* So does unlinking, which also orphans descriptors and shortens `old`.
LEMMA UnlinkTypes ==
  ASSUME FilesTypeOK, NEW K \in SUBSET Keys, Unlink(K)
  PROVE  /\ store' \in [Keys -> FileContents]
         /\ fd' \in [Procs -> Keys \cup {NoFile, Orphan}]
         /\ old' \in [Clearers -> SUBSET Keys]
BY DEF Unlink, FilesTypeOK, FileContents

\* Every step of clear_cache keeps the types of the files.
LEMMA ClearTypes ==
  ASSUME FilesTypeOK, NEW c \in Clearers, Clear(c)
  PROVE  FilesTypeOK'
<1>1. CASE ClearBegin(c)
  BY <1>1 DEF ClearBegin, FilesTypeOK, Sweeps, Files
<1>2. ASSUME NEW k \in Keys, ClearRemove(c, k) PROVE FilesTypeOK'
  <2>1. sweep' \in [Clearers -> Sweeps]
    BY <1>2 DEF ClearRemove, Passed, FilesTypeOK, Sweeps
  <2> QED
    BY <1>2, <2>1, UnlinkTypes DEF ClearRemove, FilesTypeOK
<1>3. CASE ClearEnd(c)
  BY <1>3 DEF ClearEnd, FilesTypeOK, Sweeps
<1>4. ASSUME NEW k \in Keys, ClearKeep(c, k) PROVE FilesTypeOK'
  BY <1>4 DEF ClearKeep, Passed, FilesTypeOK, Sweeps
<1> QED
  BY <1>1, <1>2, <1>3, <1>4 DEF Clear

\* TypeOK is kept by every step.
LEMMA TypeKept ==
  ASSUME TypeOK, LocalsOK, [Next]_vars
  PROVE  TypeOK'
<1> USE DEF TypeOK
<1>1. ASSUME NEW p \in Procs, NEW a \in Args, NEW u \in BOOLEAN, Start(p, a, u)
      PROVE TypeOK'
  BY <1>1, BoundsAssumption DEF Start, FilesTypeOK, RunTypeOK, HistoryTypeOK,
     fileVars, Locations
<1>2. ASSUME NEW p \in Procs, NEW i \in Inputs, ReadInput(p, i) PROVE TypeOK'
  BY <1>2 DEF ReadInput, FilesTypeOK, RunTypeOK, HistoryTypeOK, fileVars,
     history, Sources
<1>3. ASSUME NEW p \in Procs, NEW i \in Inputs, SkipInput(p, i) PROVE TypeOK'
  BY <1>3 DEF SkipInput, FilesTypeOK, RunTypeOK, HistoryTypeOK, fileVars,
     Doubts
<1>4. ASSUME NEW p \in Procs, NoKeyToLoad(p) PROVE TypeOK'
  BY <1>4 DEF NoKeyToLoad, Goto, FilesTypeOK, RunTypeOK, HistoryTypeOK,
     fileVars, history, Locations
<1>5. ASSUME NEW p \in Procs, NoKeyToSave(p) PROVE TypeOK'
  BY <1>5, ReturnTypes DEF NoKeyToSave, FilesTypeOK, HistoryTypeOK, fileVars,
     history
<1>6. ASSUME NEW p \in Procs, LoadHit(p) PROVE TypeOK'
  <2>1. doubt' \in [Procs -> SUBSET Doubts]
    BY <1>6 DEF LoadHit, HistoryTypeOK, Doubts
  <2>2. RunTypeOK'
    BY <1>6, ReturnTypes DEF LoadHit, Loads
  <2> QED
    BY <1>6, <2>1, <2>2 DEF LoadHit, FilesTypeOK, HistoryTypeOK, fileVars
<1>7. ASSUME NEW p \in Procs, LoadMiss(p) PROVE TypeOK'
  BY <1>7 DEF LoadMiss, Goto, FilesTypeOK, RunTypeOK, HistoryTypeOK, fileVars,
     history, Locations
<1>8. ASSUME NEW p \in Procs, SpawnFails(p) PROVE TypeOK'
  BY <1>8, ReturnTypes DEF SpawnFails, FilesTypeOK, HistoryTypeOK, fileVars,
     history
<1>9. ASSUME NEW p \in Procs, ChildSucceeds(p) PROVE TypeOK'
  <2>1. LintOf[args[p]][source] \in Findings
    BY LintAssumption DEF RunTypeOK
  <2> QED
    BY <1>9, <2>1, CollectedTypes DEF ChildSucceeds, HistoryTypeOK
<1>10. ASSUME NEW p \in Procs, ChildFails(p) PROVE TypeOK'
  <2>1. PICK d \in Partial : Collected(p, d)
    BY <1>10 DEF ChildFails
  <2>2. d \in Findings
    BY LintAssumption
  <2>3. doubt' \in [Procs -> SUBSET Doubts]
    BY <1>10 DEF ChildFails, HistoryTypeOK, Doubts
  <2> QED
    BY <2>1, <2>2, <2>3, CollectedTypes DEF HistoryTypeOK
<1>11. ASSUME NEW p \in Procs, KeyToSave(p) PROVE TypeOK'
  BY <1>11 DEF KeyToSave, Goto, FilesTypeOK, RunTypeOK, HistoryTypeOK,
     fileVars, history, Locations
<1>12. ASSUME NEW p \in Procs, MakeDir(p) PROVE TypeOK'
  BY <1>12 DEF MakeDir, CreateDirAll, Goto, FilesTypeOK, RunTypeOK,
     HistoryTypeOK, history, Locations
<1>13. ASSUME NEW p \in Procs, OpenEntry(p) PROVE TypeOK'
  <2>1. Key(p) \in Keys
    BY <1>13, KeyTypes DEF OpenEntry, Goto, LocalsOK, Saving
  <2> QED
    BY <1>13, <2>1 DEF OpenEntry, OpenTruncate, Goto, FilesTypeOK, RunTypeOK,
       HistoryTypeOK,
       FileContents, history, Locations
<1>14. ASSUME NEW p \in Procs, SaveFails(p) PROVE TypeOK'
  BY <1>14, ReturnTypes DEF SaveFails, FilesTypeOK, HistoryTypeOK, fileVars,
     history
<1>15. ASSUME NEW p \in Procs, WriteEntry(p) PROVE TypeOK'
  <2>1. found[p] \in Findings
    BY <1>15 DEF WriteEntry, Return, Exit, Goto, LocalsOK, Saving, RunTypeOK,
       HistoryTypeOK
  <2>2. fd[p] \in Keys \cup {Orphan}
    BY <1>15 DEF WriteEntry, Return, Exit, Goto, LocalsOK, FilesTypeOK
  <2>3. RunTypeOK' /\ FilesTypeOK'
    BY <1>15, <2>1, ReturnTypes, WriteAllTypes DEF WriteEntry
  <2> QED
    BY <1>15, <2>2, <2>3 DEF WriteEntry, HistoryTypeOK, RunTypeOK
<1>16. ASSUME NEW p \in Procs, WriteFails(p) PROVE TypeOK'
  BY <1>16, ReturnTypes, CloseEarlyTypes DEF WriteFails, HistoryTypeOK, history
<1>17. ASSUME NEW p \in Procs, Crash(p) PROVE TypeOK'
  <2>1. RunTypeOK'
    BY <1>17, ExitTypes DEF Crash, Locations, RunTypeOK
  <2> QED
    BY <1>17, <2>1, CloseEarlyTypes DEF Crash, HistoryTypeOK, history
<1>18. ASSUME NEW i \in Inputs, NEW c \in Contents, Edit(i, c) PROVE TypeOK'
  BY <1>18, BoundsAssumption DEF Edit, FilesTypeOK, RunTypeOK, HistoryTypeOK,
     fileVars, Sources, Doubts
<1>19. ASSUME NEW c \in Clearers, Clear(c) PROVE TypeOK'
  BY <1>19, ClearTypes DEF Clear, RunTypeOK, HistoryTypeOK, runVars, history
<1>20. CASE Clean
  <2>1. Files \in SUBSET Keys
    BY DEF Files
  <2> QED
    BY <1>20, <2>1, UnlinkTypes DEF Clean, CargoClean, FilesTypeOK, RunTypeOK,
       HistoryTypeOK,
       runVars, history
<1>21. CASE UNCHANGED vars
  BY <1>21 DEF vars, FilesTypeOK, RunTypeOK, HistoryTypeOK, fileVars, runVars,
     history
<1> QED
  BY <1>1, <1>2, <1>3, <1>4, <1>5, <1>6, <1>7, <1>8, <1>9, <1>10, <1>11, <1>12,
     <1>13, <1>14,
     <1>15, <1>16, <1>17, <1>18, <1>19, <1>20, <1>21 DEF Next, Step

-----------------------------------------------------------------------------
\* The invariant is kept.

\* Collecting a child's findings keeps what the program points rely on.
LEMMA CollectedLocals ==
  ASSUME TypeOK, LocalsOK, NEW p \in Procs, NEW d \in Findings, Collected(p, d)
  PROVE  LocalsOK'
<1> USE MarksAssumption DEF TypeOK, FilesTypeOK, RunTypeOK, HistoryTypeOK,
   LocalsOK, Saving, Active, Locations,
        WalkDone, Key, fileVars
<1>1. CASE /\ Goto(p, "linting", "rekeying")
           /\ found' = [found EXCEPT ![p] = d]
           /\ snap' = [snap EXCEPT ![p] = NothingRead]
           /\ UNCHANGED <<source, args, caching, answer, runs, edits>>
  BY <1>1 DEF Collected, Goto
<1>2. CASE Return(p, "linting", d)
  BY <1>2 DEF Collected, Return, Exit, Goto
<1> QED
  BY <1>1, <1>2 DEF Collected

\* So does a return that happens while no cache file is open.
LEMMA ReturnLocals ==
  ASSUME TypeOK, LocalsOK, NEW p \in Procs, NEW from \in Locations, from #
     "writing", NEW d,
         Return(p, from, d), UNCHANGED <<fileVars, produced>>
  PROVE  LocalsOK'
<1> SUFFICES ASSUME NEW q \in Procs
             PROVE  LocalsOK!(q)'
  BY DEF LocalsOK
<1> USE MarksAssumption DEF TypeOK, FilesTypeOK, RunTypeOK, HistoryTypeOK,
   LocalsOK, Saving, Active, Locations,
        WalkDone, Key, fileVars
<1>1. CASE q = p
  BY <1>1 DEF Return, Exit, Goto
<1>2. CASE q # p
  BY <1>2 DEF Return, Exit, Goto
<1> QED
  BY <1>1, <1>2

\* LocalsOK is kept: the key of a run stands from the end of its second walk to
\* the write, its findings from the child to the return, and its descriptor
\* names a file that is there or has been orphaned.
LEMMA LocalsKept ==
  ASSUME TypeOK, LocalsOK, [Next]_vars
  PROVE  LocalsOK'
<1> USE MarksAssumption DEF TypeOK, FilesTypeOK, RunTypeOK, HistoryTypeOK,
   LocalsOK, Saving, Active, Locations, WalkDone, Key
<1>1. ASSUME NEW p \in Procs, NEW a \in Args, NEW u \in BOOLEAN, Start(p, a, u)
      PROVE  LocalsOK'
  BY <1>1 DEF Start, fileVars
<1>2. ASSUME NEW p \in Procs, NEW i \in Inputs, ReadInput(p, i) PROVE LocalsOK'
  BY <1>2 DEF ReadInput, history, fileVars
<1>3. ASSUME NEW p \in Procs, NEW i \in Inputs, SkipInput(p, i) PROVE LocalsOK'
  BY <1>3 DEF SkipInput, fileVars
<1>4. ASSUME NEW p \in Procs, NoKeyToLoad(p) PROVE LocalsOK'
  BY <1>4 DEF NoKeyToLoad, Goto, history, fileVars
<1>5. ASSUME NEW p \in Procs, NoKeyToSave(p) PROVE LocalsOK'
  BY <1>5, ReturnLocals DEF NoKeyToSave, history, Locations
<1>6. ASSUME NEW p \in Procs, LoadHit(p) PROVE LocalsOK'
  BY <1>6, ReturnLocals DEF LoadHit, Locations
<1>7. ASSUME NEW p \in Procs, LoadMiss(p) PROVE LocalsOK'
  BY <1>7 DEF LoadMiss, Goto, history, fileVars
<1>8. ASSUME NEW p \in Procs, SpawnFails(p) PROVE LocalsOK'
  BY <1>8, ReturnLocals DEF SpawnFails, history, Locations
<1>9. ASSUME NEW p \in Procs, ChildSucceeds(p) PROVE LocalsOK'
  <2>1. LintOf[args[p]][source] \in Findings
    BY LintAssumption DEF TypeOK, RunTypeOK
  <2> QED
    BY <1>9, <2>1, CollectedLocals DEF ChildSucceeds
<1>10. ASSUME NEW p \in Procs, ChildFails(p) PROVE LocalsOK'
  <2>1. PICK d \in Partial : Collected(p, d)
    BY <1>10 DEF ChildFails
  <2> QED
    BY <2>1, LintAssumption, CollectedLocals
<1>11. ASSUME NEW p \in Procs, KeyToSave(p) PROVE LocalsOK'
  BY <1>11 DEF KeyToSave, Goto, history, fileVars
<1>12. ASSUME NEW p \in Procs, MakeDir(p) PROVE LocalsOK'
  BY <1>12 DEF MakeDir, CreateDirAll, Goto, history
<1>13. ASSUME NEW p \in Procs, OpenEntry(p) PROVE LocalsOK'
  <2>1. Key(p) \in Keys
    BY <1>13, KeyTypes DEF OpenEntry, Goto, LocalsOK, Saving, TypeOK
  <2>2. \A k \in Keys : store[k] # Absent => store'[k] # Absent
    BY <1>13, <2>1, MarksAssumption DEF OpenEntry, OpenTruncate, TypeOK,
       FilesTypeOK
  <2>3. /\ store'[Key(p)] # Absent /\ fd' = [fd EXCEPT ![p] = Key(p)]
        /\ pc'[p] = "writing"
    BY <1>13, <2>1, MarksAssumption DEF OpenEntry, OpenTruncate, Goto, TypeOK,
       FilesTypeOK, RunTypeOK
  <2>4. LocalsOK!(p)'
    <3>1. fd'[p] = Key(p) /\ Key(p) # NoFile
      BY <2>1, <2>3, MarksAssumption DEF TypeOK, FilesTypeOK
    <3>2. Key(p)' = Key(p)
      BY <1>13 DEF OpenEntry, Key
    <3>3. WalkDone(p)' /\ found'[p] \in produced'[args'[p]]
      BY <1>13 DEF OpenEntry, Goto, history, LocalsOK, Saving, WalkDone
    <3> QED
      BY <2>3, <3>1, <3>2, <3>3 DEF Active, Locations
  <2>5. ASSUME NEW q \in Procs \ {p}
        PROVE  LocalsOK!(q)'
    BY <1>13, <2>2, <2>3 DEF OpenEntry, Goto, history, LocalsOK, Saving,
       Active, WalkDone, Key, TypeOK, FilesTypeOK, RunTypeOK
  <2> QED
    BY <2>4, <2>5 DEF LocalsOK
<1>14. ASSUME NEW p \in Procs, SaveFails(p) PROVE LocalsOK'
  BY <1>14, ReturnLocals DEF SaveFails, history, Locations
<1>15. ASSUME NEW p \in Procs, WriteEntry(p) PROVE LocalsOK'
  BY <1>15 DEF WriteEntry, WriteAll, Overwritten, Return, Exit, Goto
<1>16. ASSUME NEW p \in Procs, WriteFails(p) PROVE LocalsOK'
  BY <1>16 DEF WriteFails, CloseEarly, Return, Exit, Goto, history
<1>17. ASSUME NEW p \in Procs, Crash(p) PROVE LocalsOK'
  BY <1>17 DEF Crash, CloseEarly, Exit, Goto, history
<1>18. ASSUME NEW i \in Inputs, NEW c \in Contents, Edit(i, c) PROVE LocalsOK'
  BY <1>18 DEF Edit, fileVars
<1>19. ASSUME NEW c \in Clearers, Clear(c) PROVE LocalsOK'
  BY <1>19 DEF Clear, ClearBegin, ClearRemove, ClearKeep, ClearEnd, Passed,
     Unlink, runVars, history
<1>20. CASE Clean
  BY <1>20 DEF Clean, CargoClean, Unlink, Files, runVars, history
<1>21. CASE UNCHANGED vars
  BY <1>21 DEF vars, fileVars, runVars, history
<1> QED
  BY <1>1, <1>2, <1>3, <1>4, <1>5, <1>6, <1>7, <1>8, <1>9, <1>10, <1>11, <1>12,
     <1>13, <1>14, <1>15, <1>16, <1>17, <1>18, <1>19, <1>20, <1>21
     DEF Next, Step

\* SteadyRuns is kept: a run in no doubt has read only the workspace it began
\* on.
LEMMA SteadyKept ==
  ASSUME TypeOK, LocalsOK, SteadyRuns, [Next]_vars
  PROVE  SteadyRuns'
<1> USE DEF TypeOK, FilesTypeOK, RunTypeOK, HistoryTypeOK, SteadyRuns,
   LocalsOK, Saving, Active, Locations
<1>1. ASSUME NEW p \in Procs, NEW a \in Args, NEW u \in BOOLEAN, Start(p, a, u)
      PROVE  SteadyRuns'
  BY <1>1 DEF Start, fileVars, NothingRead
<1>2. ASSUME NEW p \in Procs, NEW i \in Inputs, ReadInput(p, i)
      PROVE  SteadyRuns'
  BY <1>2 DEF ReadInput, history, fileVars
<1>3. ASSUME NEW p \in Procs, NEW i \in Inputs, SkipInput(p, i)
      PROVE  SteadyRuns'
  BY <1>3, ZenonT(60) DEF SkipInput, fileVars
<1>4. ASSUME NEW p \in Procs, NoKeyToLoad(p) PROVE SteadyRuns'
  BY <1>4 DEF NoKeyToLoad, Goto, history, fileVars
<1>5. ASSUME NEW p \in Procs, NoKeyToSave(p) PROVE SteadyRuns'
  BY <1>5 DEF NoKeyToSave, Return, Exit, Goto, history, fileVars
<1>6. ASSUME NEW p \in Procs, LoadHit(p) PROVE SteadyRuns'
  BY <1>6 DEF LoadHit, Return, Exit, Goto, fileVars
<1>7. ASSUME NEW p \in Procs, LoadMiss(p) PROVE SteadyRuns'
  BY <1>7 DEF LoadMiss, Goto, history, fileVars
<1>8. ASSUME NEW p \in Procs, SpawnFails(p) PROVE SteadyRuns'
  BY <1>8 DEF SpawnFails, Return, Exit, Goto, history, fileVars
<1>9. ASSUME NEW p \in Procs, ChildSucceeds(p) PROVE SteadyRuns'
  BY <1>9, SMTT(60) DEF ChildSucceeds, Collected, Return, Exit, Goto, fileVars,
     NothingRead
<1>10. ASSUME NEW p \in Procs, ChildFails(p) PROVE SteadyRuns'
  <2>1. doubt'[p] # {} /\ \A q \in Procs \ {p} : doubt'[q] = doubt[q]
    BY <1>10 DEF ChildFails, TypeOK, HistoryTypeOK
  <2>2. source' = source /\ began' = began
    BY <1>10 DEF ChildFails, Collected, Return, Exit
  <2>3. \A q \in Procs \ {p} : /\ pc'[q] = pc[q] /\ snap'[q] = snap[q]
                               /\ found'[q] = found[q] /\ args'[q] = args[q]
    BY <1>10 DEF ChildFails, Collected, Return, Exit, Goto, TypeOK, RunTypeOK
  <2> QED
    BY <2>1, <2>2, <2>3 DEF SteadyRuns
<1>11. ASSUME NEW p \in Procs, KeyToSave(p) PROVE SteadyRuns'
  BY <1>11 DEF KeyToSave, Goto, history, fileVars
<1>12. ASSUME NEW p \in Procs, MakeDir(p) PROVE SteadyRuns'
  BY <1>12 DEF MakeDir, CreateDirAll, Goto, history
<1>13. ASSUME NEW p \in Procs, OpenEntry(p) PROVE SteadyRuns'
  BY <1>13 DEF OpenEntry, OpenTruncate, Goto, history
<1>14. ASSUME NEW p \in Procs, SaveFails(p) PROVE SteadyRuns'
  <2>1. PICK from \in Locations : Return(p, from, Error)
    BY <1>14 DEF SaveFails, Locations
  <2> QED
    BY <1>14, <2>1 DEF SaveFails, Return, Exit, Goto, history, TypeOK,
       RunTypeOK, SteadyRuns, Saving, Active
<1>15. ASSUME NEW p \in Procs, WriteEntry(p) PROVE SteadyRuns'
  BY <1>15 DEF WriteEntry, WriteAll, Overwritten, Return, Exit, Goto
<1>16. ASSUME NEW p \in Procs, WriteFails(p) PROVE SteadyRuns'
  BY <1>16 DEF WriteFails, CloseEarly, Return, Exit, Goto, history
<1>17. ASSUME NEW p \in Procs, Crash(p) PROVE SteadyRuns'
  BY <1>17 DEF Crash, CloseEarly, Exit, Goto, history
<1>18. ASSUME NEW i \in Inputs, NEW c \in Contents, Edit(i, c)
       PROVE  SteadyRuns'
  BY <1>18 DEF Edit, fileVars
<1>19. ASSUME NEW c \in Clearers, Clear(c) PROVE SteadyRuns'
  BY <1>19 DEF Clear, ClearBegin, ClearRemove, ClearKeep, ClearEnd, Passed,
     Unlink, runVars, history
<1>20. CASE Clean
  BY <1>20 DEF Clean, CargoClean, Unlink, Files, runVars, history
<1>21. CASE UNCHANGED vars
  BY <1>21 DEF vars, fileVars, runVars, history
<1> HIDE DEF SteadyRuns
<1> QED
  BY <1>1, <1>2, <1>3, <1>4, <1>5, <1>6, <1>7, <1>8, <1>9, <1>10, <1>11, <1>12,
     <1>13, <1>14, <1>15, <1>16, <1>17, <1>18, <1>19, <1>20, <1>21
     DEF Next, Step

\* The actions that touch the cache files; every other one leaves them alone.
LEMMA FileSteps ==
  ASSUME [Next]_vars
  PROVE  \/ UNCHANGED <<fileVars, suspect>>
         \/ \E p \in Procs : MakeDir(p) \/ OpenEntry(p) \/ WriteEntry(p)
                               \/ WriteFails(p) \/ Crash(p)
         \/ \E c \in Clearers : Clear(c)
         \/ Clean
BY DEF Next, Step, Start, ReadInput, SkipInput, NoKeyToLoad, NoKeyToSave,
   LoadHit, LoadMiss, SpawnFails, ChildSucceeds, ChildFails, Collected,
   KeyToSave, SaveFails, Edit, vars, history

\* A file that loads after a descriptor was closed early loaded before.
LEMMA CloseEarlyLoads ==
  ASSUME FilesTypeOK, NEW p \in Procs, CloseEarly(p), NEW k \in Keys, Loads(k)'
  PROVE  store'[k] = store[k]
BY MarksAssumption DEF CloseEarly, FilesTypeOK, Loads

\* A file that loads after some were unlinked is not one of them.
LEMMA UnlinkLoads ==
  ASSUME NEW K, Unlink(K), NEW k \in Keys, Loads(k)'
  PROVE  store'[k] = store[k]
BY MarksAssumption DEF Unlink, Loads

\* A file that loads after a step held the same entry before it, or one run has
\* just written all of its findings to it: no other step of save_cache_entry,
\* clear_cache or a crash leaves a new entry behind.
LEMMA EntrySteps ==
  ASSUME TypeOK, LocalsOK, [Next]_vars, NEW k \in Keys, Loads(k)'
  PROVE  \/ store'[k] = store[k] /\ (k \in suspect => k \in suspect')
         \/ \E p \in Procs : /\ WriteEntry(p)
                             /\ fd[p] = k
                             /\ store'[k] = found[p]
<1> USE MarksAssumption DEF TypeOK, FilesTypeOK
<1>1. CASE UNCHANGED <<fileVars, suspect>>
  BY <1>1 DEF fileVars
<1>2. ASSUME NEW p \in Procs, MakeDir(p)
      PROVE  store' = store /\ suspect' = suspect
  BY <1>2 DEF MakeDir, CreateDirAll, history
<1>3. ASSUME NEW p \in Procs, OpenEntry(p)
      PROVE  store'[k] = store[k] /\ suspect' = suspect
  BY <1>3 DEF OpenEntry, OpenTruncate, history, Loads
<1>4. ASSUME NEW p \in Procs, WriteEntry(p)
      PROVE  \/ store'[k] = store[k] /\ (k \in suspect => k \in suspect')
             \/ fd[p] = k /\ store'[k] = found[p]
  <2>1. fd[p] \in Keys \cup {Orphan}
    BY <1>4 DEF WriteEntry, Return, Exit, Goto, LocalsOK
  <2>2. CASE fd[p] = k
    BY <1>4, <2>2 DEF WriteEntry, WriteAll, Overwritten, Loads
  <2>3. CASE fd[p] # k
    BY <1>4, <2>1, <2>3 DEF WriteEntry, WriteAll
  <2> QED
    BY <2>2, <2>3
<1>5. ASSUME NEW p \in Procs, WriteFails(p) \/ Crash(p)
      PROVE  store'[k] = store[k] /\ suspect' = suspect
  BY <1>5, CloseEarlyLoads DEF WriteFails, Crash, history
<1>6. ASSUME NEW c \in Clearers, Clear(c)
      PROVE  store'[k] = store[k] /\ suspect' = suspect
  BY <1>6, UnlinkLoads
     DEF Clear, ClearBegin, ClearRemove, ClearKeep, ClearEnd, history
<1>7. CASE Clean
  BY <1>7, UnlinkLoads DEF Clean, CargoClean, history
<1> QED
  BY <1>1, <1>2, <1>3, <1>4, <1>5, <1>6, <1>7, FileSteps

\* What children have printed is never forgotten.
LEMMA ProducedGrows ==
  ASSUME TypeOK, [Next]_vars
  PROVE  \A a \in Args : produced[a] \subseteq produced'[a]
<1>1. ASSUME NEW p \in Procs, NEW d, Collected(p, d)
      PROVE  \A a \in Args : produced[a] \subseteq produced'[a]
  BY <1>1 DEF Collected, TypeOK, HistoryTypeOK
<1>2. \/ produced' = produced
      \/ \E p \in Procs : \E d : Collected(p, d)
  BY DEF Next, Step, Start, ReadInput, SkipInput, NoKeyToLoad, NoKeyToSave,
     LoadHit, LoadMiss, SpawnFails, ChildSucceeds, ChildFails, KeyToSave,
     MakeDir, OpenEntry, SaveFails, WriteEntry, WriteFails, Crash, Edit, Clear,
     Clean, vars, history
<1> QED
  BY <1>1, <1>2

\* EntriesAreProduced is kept: the entry of a run is a child's report for the
\* arguments in the run's key.
LEMMA ProducedKept ==
  ASSUME TypeOK, LocalsOK, EntriesAreProduced, [Next]_vars
  PROVE  EntriesAreProduced'
<1> SUFFICES ASSUME NEW k \in Keys, Loads(k)'
             PROVE  store'[k] \in produced'[k[1]]
  BY DEF EntriesAreProduced
<1>1. k[1] \in Args
  BY DEF Keys
<1>2. CASE store'[k] = store[k]
  BY <1>1, <1>2, ProducedGrows DEF EntriesAreProduced, Loads
<1>3. ASSUME NEW p \in Procs, WriteEntry(p), fd[p] = k, store'[k] = found[p]
      PROVE  store'[k] \in produced'[k[1]]
  <2>1. pc[p] = "writing" /\ produced' = produced
    BY <1>3 DEF WriteEntry, Return, Exit, Goto
  <2>2. k = Key(p) /\ found[p] \in produced[args[p]]
    BY <1>3, <2>1 DEF LocalsOK, Saving
  <2> QED
    BY <1>3, <2>1, <2>2 DEF Key
<1> QED
  BY <1>2, <1>3, EntrySteps

\* A run in no doubt that has walked every input holds the key of the sources.
LEMMA SteadyKey ==
  ASSUME TypeOK, SteadyRuns, NEW p \in Procs, pc[p] \in Active, doubt[p] = {},
         WalkDone(p)
  PROVE  Key(p) = <<args[p], source>> /\ source = began[p]
<1>1. \A i \in Inputs : snap[p][i] = source[i]
  BY DEF SteadyRuns, WalkDone
<1>2. snap[p] = source
  BY <1>1 DEF TypeOK, RunTypeOK, Sources
<1> QED
  BY <1>2 DEF Key, SteadyRuns

\* EntriesMatchKeys is kept: a run that stores an entry in no doubt linted the
\* sources in its key.
LEMMA MatchKept ==
  ASSUME TypeOK, LocalsOK, SteadyRuns, EntriesMatchKeys, [Next]_vars
  PROVE  EntriesMatchKeys'
<1> SUFFICES ASSUME NEW k \in Keys, k \notin suspect', Loads(k)'
             PROVE  k[2] \in Sources /\ store'[k] = LintOf[k[1]][k[2]]
  BY DEF EntriesMatchKeys
<1>1. CASE store'[k] = store[k] /\ (k \in suspect => k \in suspect')
  BY <1>1 DEF EntriesMatchKeys, Loads
<1>2. ASSUME NEW p \in Procs, WriteEntry(p), fd[p] = k, store'[k] = found[p]
      PROVE  k[2] \in Sources /\ store'[k] = LintOf[k[1]][k[2]]
  <2>1. pc[p] = "writing"
    BY <1>2 DEF WriteEntry, Return, Exit, Goto
  <2>2. doubt[p] = {}
    BY <1>2, MarksAssumption DEF WriteEntry
  <2>3. k = <<args[p], source>>
    BY <1>2, <2>1, <2>2, SteadyKey DEF LocalsOK, Saving, Active, Locations
  <2>4. found[p] = LintOf[args[p]][source]
    BY <2>1, <2>2 DEF SteadyRuns, Saving, Active, Locations
  <2> QED
    BY <1>2, <2>3, <2>4 DEF TypeOK, RunTypeOK
<1> QED
  BY <1>1, <1>2, EntrySteps

\* A run that has reported findings after a step had done so before it, or the
\* step is one of the three that report: a hit, an uncached child, a save.
LEMMA ReportSteps ==
  ASSUME TypeOK, [Next]_vars, NEW q \in Procs, pc'[q] = "done",
         answer'[q] \in Findings
  PROVE  \/ /\ pc[q] = "done" /\ answer'[q] = answer[q] /\ args'[q] = args[q]
            /\ doubt'[q] = doubt[q] /\ began'[q] = began[q]
         \/ LoadHit(q) \/ ChildSucceeds(q) \/ ChildFails(q) \/ WriteEntry(q)
<1> DEFINE Same == /\ pc[q] = "done" /\ answer'[q] = answer[q]
                   /\ args'[q] = args[q] /\ doubt'[q] = doubt[q]
                   /\ began'[q] = began[q]
<1> USE MarksAssumption DEF TypeOK, RunTypeOK, HistoryTypeOK
<1>1. ASSUME NEW p \in Procs, NEW a \in Args, NEW u \in BOOLEAN, Start(p, a, u)
      PROVE  Same
  BY <1>1 DEF Start
<1>2. ASSUME NEW p \in Procs, NEW i \in Inputs,
             ReadInput(p, i) \/ SkipInput(p, i)
      PROVE  Same
  BY <1>2 DEF ReadInput, SkipInput, history
<1>3. ASSUME NEW p \in Procs, NoKeyToLoad(p) \/ LoadMiss(p) \/ KeyToSave(p)
      PROVE  Same
  BY <1>3 DEF NoKeyToLoad, LoadMiss, KeyToSave, Goto, history
<1>4. ASSUME NEW p \in Procs, MakeDir(p) \/ OpenEntry(p)
      PROVE  Same
  BY <1>4 DEF MakeDir, OpenEntry, Goto, history
<1>5. ASSUME NEW p \in Procs, NEW from, Return(p, from, Error),
             UNCHANGED <<began, doubt>>
      PROVE  Same
  BY <1>5 DEF Return, Exit, Goto
<1>6. ASSUME NEW p \in Procs,
             NoKeyToSave(p) \/ SpawnFails(p) \/ SaveFails(p) \/ WriteFails(p)
      PROVE  Same
  BY <1>5, <1>6
     DEF NoKeyToSave, SpawnFails, SaveFails, WriteFails, history
<1>7. ASSUME NEW p \in Procs, Crash(p)
      PROVE  Same
  BY <1>7 DEF Crash, Exit, Goto, history
<1>8. ASSUME NEW p \in Procs, p # q,
             LoadHit(p) \/ ChildSucceeds(p) \/ ChildFails(p) \/ WriteEntry(p)
      PROVE  Same
  BY <1>8 DEF LoadHit, ChildSucceeds, ChildFails, Collected, WriteEntry,
     Return, Exit, Goto
<1>9. ASSUME NEW i \in Inputs, NEW c \in Contents, Edit(i, c)
      PROVE  Same
  BY <1>9 DEF Edit, Active
<1>10. ASSUME \/ \E c \in Clearers : Clear(c)
              \/ Clean
              \/ UNCHANGED vars
       PROVE  Same
  BY <1>10 DEF Clear, Clean, vars, runVars, history
<1> QED
  BY <1>1, <1>2, <1>3, <1>4, <1>6, <1>7, <1>8, <1>9, <1>10 DEF Next, Step

\* UndisturbedRunsAreRight is kept: a hit in no doubt found an entry that
\* matches its key, and a miss in no doubt linted the sources it began on.
LEMMA RightKept ==
  ASSUME TypeOK, LocalsOK, SteadyRuns, EntriesMatchKeys,
         UndisturbedRunsAreRight, [Next]_vars
  PROVE  UndisturbedRunsAreRight'
<1> SUFFICES ASSUME NEW q \in Procs, pc'[q] = "done", answer'[q] \in Findings,
                    doubt'[q] = {}
             PROVE  answer'[q] = LintOf[args'[q]][began'[q]]
  BY DEF UndisturbedRunsAreRight
<1> USE DEF TypeOK, RunTypeOK, HistoryTypeOK
<1>1. CASE /\ pc[q] = "done" /\ answer'[q] = answer[q] /\ args'[q] = args[q]
           /\ doubt'[q] = doubt[q] /\ began'[q] = began[q]
  BY <1>1 DEF UndisturbedRunsAreRight
<1>2. CASE LoadHit(q)
  <2>1. /\ pc[q] = "keying" /\ answer'[q] = store[Key(q)] /\ began' = began
        /\ args' = args
    BY <1>2 DEF LoadHit, Return, Exit, Goto
  <2>2. Key(q) \notin suspect /\ doubt[q] = {}
    BY <1>2 DEF LoadHit
  <2>3. Key(q) = <<args[q], source>> /\ source = began[q]
    BY <1>2, <2>1, <2>2, SteadyKey DEF LoadHit, Active, Locations
  <2>4. Key(q) \in Keys
    BY <1>2, KeyTypes DEF LoadHit
  <2> QED
    BY <1>2, <2>1, <2>2, <2>3, <2>4 DEF LoadHit, EntriesMatchKeys
<1>3. CASE ChildSucceeds(q)
  <2>1. pc[q] = "linting" /\ began' = began /\ args' = args /\ doubt' = doubt
    BY <1>3 DEF ChildSucceeds, Collected, Return, Exit, Goto
  <2>2. answer'[q] = LintOf[args[q]][source]
    BY <1>3 DEF ChildSucceeds, Collected, Return, Exit, Goto
  <2> QED
    BY <2>1, <2>2 DEF SteadyRuns, Active, Locations
<1>4. CASE ChildFails(q)
  BY <1>4 DEF ChildFails
<1>5. CASE WriteEntry(q)
  <2>1. /\ pc[q] = "writing" /\ answer'[q] = found[q] /\ began' = began
        /\ args' = args /\ doubt' = doubt
    BY <1>5 DEF WriteEntry, Return, Exit, Goto
  <2> QED
    BY <2>1 DEF SteadyRuns, Saving, Active, Locations
<1> QED
  BY <1>1, <1>2, <1>3, <1>4, <1>5, ReportSteps

\* ReportsAreWhole is kept: a hit serves what is stored, a miss what its child
\* printed.
LEMMA WholeKept ==
  ASSUME TypeOK, LocalsOK, EntriesAreProduced, ReportsAreWhole, [Next]_vars
  PROVE  ReportsAreWhole'
<1> SUFFICES ASSUME NEW q \in Procs, pc'[q] = "done", answer'[q] \in Findings
             PROVE  answer'[q] \in produced'[args'[q]]
  BY DEF ReportsAreWhole
<1> USE DEF TypeOK, RunTypeOK, HistoryTypeOK
<1>1. CASE pc[q] = "done" /\ answer'[q] = answer[q] /\ args'[q] = args[q]
  BY <1>1, ProducedGrows DEF ReportsAreWhole
<1>2. CASE LoadHit(q)
  <2>1. /\ answer'[q] = store[Key(q)] /\ args' = args /\ produced' = produced
        /\ Loads(Key(q))
    BY <1>2 DEF LoadHit, Return, Exit
  <2>2. Key(q) \in Keys
    BY <1>2, KeyTypes DEF LoadHit
  <2> QED
    BY <2>1, <2>2 DEF EntriesAreProduced, Key
<1>3. ASSUME NEW d, Collected(q, d)
      PROVE  answer'[q] \in produced'[args'[q]]
  BY <1>3 DEF Collected, Return, Exit, Goto
<1>4. CASE ChildSucceeds(q) \/ ChildFails(q)
  BY <1>3, <1>4 DEF ChildSucceeds, ChildFails
<1>5. CASE WriteEntry(q)
  <2>1. /\ pc[q] = "writing" /\ answer'[q] = found[q] /\ args' = args
        /\ produced' = produced
    BY <1>5 DEF WriteEntry, Return, Exit, Goto
  <2> QED
    BY <2>1 DEF LocalsOK, Saving
<1> QED
  BY <1>1, <1>2, <1>4, <1>5, ReportSteps

\* ClearsProceed is kept: a file leaves `old` by being unlinked, and leaves
\* `todo` only when it has been unlinked or could not be.
LEMMA ClearsKept ==
  ASSUME TypeOK, LocalsOK, ClearsProceed, [Next]_vars
  PROVE  ClearsProceed'
<1> USE MarksAssumption DEF TypeOK, FilesTypeOK, ClearsProceed, Files
<1>1. CASE UNCHANGED <<fileVars, suspect>>
  BY <1>1 DEF fileVars
<1>2. ASSUME NEW p \in Procs, MakeDir(p) PROVE ClearsProceed'
  BY <1>2 DEF MakeDir, CreateDirAll
<1>3. ASSUME NEW p \in Procs, OpenEntry(p) PROVE ClearsProceed'
  BY <1>3 DEF OpenEntry, OpenTruncate
<1>4. ASSUME NEW p \in Procs, WriteEntry(p) PROVE ClearsProceed'
  <2>1. fd[p] \in Keys => store[fd[p]] # Absent
    BY DEF LocalsOK
  <2> QED
    BY <1>4, <2>1 DEF WriteEntry, WriteAll
<1>5. ASSUME NEW p \in Procs, WriteFails(p) \/ Crash(p) PROVE ClearsProceed'
  <2>1. fd[p] \in Keys => store[fd[p]] # Absent
    BY DEF LocalsOK
  <2> QED
    BY <1>5, <2>1 DEF WriteFails, Crash, CloseEarly
<1>6. ASSUME NEW c \in Clearers, Clear(c) PROVE ClearsProceed'
  <2>1. CASE ClearBegin(c)
    BY <2>1 DEF ClearBegin, Sweeps
  <2>2. ASSUME NEW k \in Keys, ClearRemove(c, k) PROVE ClearsProceed'
    BY <2>2 DEF ClearRemove, Passed, Unlink, Sweeps
  <2>3. CASE ClearEnd(c)
    BY <2>3 DEF ClearEnd, Sweeps
  <2>4. ASSUME NEW k \in Keys, ClearKeep(c, k) PROVE ClearsProceed'
    BY <2>4 DEF ClearKeep, Passed, Sweeps
  <2> QED
    BY <1>6, <2>1, <2>2, <2>3, <2>4 DEF Clear
<1>7. CASE Clean
  BY <1>7 DEF Clean, CargoClean, Unlink
<1> QED
  BY <1>1, <1>2, <1>3, <1>4, <1>5, <1>6, <1>7, FileSteps

-----------------------------------------------------------------------------
\* Init establishes the invariant: an empty cache and no run under way.
LEMMA InitIInv == Init => IInv
<1> SUFFICES ASSUME Init PROVE IInv
  OBVIOUS
<1> USE MarksAssumption, BoundsAssumption DEF Init, FilesInit
<1>1. TypeOK
  <2>1. FilesTypeOK
    BY DEF FilesTypeOK, FileContents, Sweeps
  <2>2. RunTypeOK
    BY DEF RunTypeOK, Locations, NothingRead
  <2>3. HistoryTypeOK
    BY DEF HistoryTypeOK
  <2> QED
    BY <2>1, <2>2, <2>3 DEF TypeOK
<1>2. LocalsOK /\ SteadyRuns
  BY DEF LocalsOK, SteadyRuns, Saving, Active
<1>3. EntriesAreProduced /\ EntriesMatchKeys
  BY DEF EntriesAreProduced, EntriesMatchKeys, Loads
<1>4. UndisturbedRunsAreRight /\ ReportsAreWhole
  BY DEF UndisturbedRunsAreRight, ReportsAreWhole
<1>5. ClearsProceed
  BY DEF ClearsProceed, Files
<1> QED
  BY <1>1, <1>2, <1>3, <1>4, <1>5 DEF IInv

\* IInv holds of every reachable state, for any number of processes, clearers
\* and inputs and for every kind of fault.
THEOREM Inductive == Spec => []IInv
<1>1. IInv /\ [Next]_vars => IInv'
  BY TypeKept, LocalsKept, SteadyKept, ProducedKept, MatchKept, RightKept,
     WholeKept, ClearsKept DEF IInv
<1> QED
  BY <1>1, InitIInv, PTL DEF Spec

\* Type correctness: every variable keeps its type.
THEOREM TypeCorrect == Spec => []TypeOK
<1>1. IInv => TypeOK
  BY DEF IInv
<1> QED
  BY <1>1, Inductive, PTL

\* A stored entry is right for its key, however the writers of the cache, a
\* crash or a clear interleave (save_cache_entry, load_cache_entry).
THEOREM StoreIsSound == Spec => []EntriesMatchKeys
<1>1. IInv => EntriesMatchKeys
  BY DEF IInv
<1> QED
  BY <1>1, Inductive, PTL

\* A run in no doubt reports what dylint says of the workspace it began on,
\* hit or miss (execute_dylint_and_collect_findings).
THEOREM CachingIsTransparent == Spec => []UndisturbedRunsAreRight
<1>1. IInv => UndisturbedRunsAreRight
  BY DEF IInv
<1> QED
  BY <1>1, Inductive, PTL

\* No run ever reports a fragment or a mixture of entries (load_cache_entry).
THEOREM NothingTornIsServed == Spec => []ReportsAreWhole
<1>1. IInv => ReportsAreWhole
  BY DEF IInv
<1> QED
  BY <1>1, Inductive, PTL

\* A clear_cache call that could remove what it saw leaves none of the files it
\* found, whatever runs and other callers do meanwhile.
THEOREM ClearIsComplete == Spec => []ClearLeavesNoOldFile
<1>1. IInv => ClearLeavesNoOldFile
  BY DEF IInv, ClearsProceed, ClearLeavesNoOldFile
<1> QED
  BY <1>1, Inductive, PTL

-----------------------------------------------------------------------------
\* Refinement.

\* Moving between two locations of a run shows nothing to its user.
LEMMA GotoHides ==
  ASSUME TypeOK, NEW p \in Procs, NEW from \in Active, NEW to \in Active,
         Goto(p, from, to), UNCHANGED <<source, args, answer, doubt>>
  PROVE  UNCHANGED Service!vars
BY DEF Goto, TypeOK, RunTypeOK, Service!vars, Phase

\* A return is the end of the run as its user sees it.
LEMMA ReturnEnds ==
  ASSUME TypeOK, NEW p \in Procs, NEW from \in Active, NEW d,
         Return(p, from, d)
  PROVE  Service!End(p, d)
BY DEF Return, Exit, Goto, TypeOK, RunTypeOK, Service!End, Phase, Active

\* A run that ends in Err only gives up.
LEMMA ErrorGivesUp ==
  ASSUME TypeOK, NEW p \in Procs, NEW from \in Active, Return(p, from, Error),
         UNCHANGED doubt
  PROVE  Service!Next
BY ReturnEnds DEF Service!Next, Service!GiveUp

\* A run that returns findings keeps the promise if it is in no doubt.
LEMMA ReportTells ==
  ASSUME TypeOK, NEW p \in Procs, NEW from \in Active, NEW d \in Findings,
         Return(p, from, d), NEW D, doubt' = [doubt EXCEPT ![p] = D],
         doubt[p] # {} => D # {},
         D = {} => d = LintOf[args[p]][source]
  PROVE  Service!Next
<1>1. Service!End(p, d)
  BY ReturnEnds
<1>2. CASE D = {}
  <2>1. doubt' = doubt
    BY <1>2 DEF TypeOK, HistoryTypeOK
  <2>2. Service!Tell(p)
    BY <1>1, <1>2, <2>1 DEF Service!Tell
  <2> QED
    BY <2>2 DEF Service!Next
<1>3. CASE D # {}
  <2>1. Service!TellExcused(p, d)
    BY <1>1, <1>3 DEF Service!TellExcused, TypeOK, HistoryTypeOK
  <2> QED
    BY <2>1 DEF Service!Next
<1> QED
  BY <1>2, <1>3

\* A child that has exited ends an uncached run and is not seen of a cached one.
LEMMA CollectedShows ==
  ASSUME TypeOK, NEW p \in Procs, NEW d \in Findings, Collected(p, d),
         NEW D, doubt' = [doubt EXCEPT ![p] = D],
         doubt[p] # {} => D # {},
         D = {} => doubt[p] = {} /\ d = LintOf[args[p]][source]
  PROVE  [Service!Next]_(Service!vars)
<1>1. CASE Return(p, "linting", d)
  BY <1>1, ReportTells DEF Active, Locations
<1>2. CASE /\ Goto(p, "linting", "rekeying")
           /\ UNCHANGED <<source, args, answer>>
  <2>1. CASE D = {}
    <3>1. doubt' = doubt
      BY <2>1 DEF TypeOK, HistoryTypeOK
    <3> QED
      BY <1>2, <3>1, GotoHides DEF Active, Locations
  <2>2. CASE D # {}
    <3>1. Service!Excuse(p)
      BY <1>2, <2>2 DEF Goto, TypeOK, RunTypeOK, HistoryTypeOK,
         Service!Excuse, Phase, Active, Locations
    <3> QED
      BY <3>1 DEF Service!Next
  <2> QED
    BY <2>1, <2>2
<1> QED
  BY <1>1, <1>2 DEF Collected

\* Every step is a step of the promise, or is hidden from the user.
LEMMA StepRefines ==
  ASSUME IInv, [Next]_vars
  PROVE  [Service!Next]_(Service!vars)
<1> USE DEF IInv
<1>0. \A l \in Active : l \in Locations
  BY DEF Active
<1>1. ASSUME NEW p \in Procs, NEW a \in Args, NEW u \in BOOLEAN, Start(p, a, u)
      PROVE  Service!Next
  <2>1. Service!Ask(p, a)
    BY <1>1 DEF Start, TypeOK, RunTypeOK, HistoryTypeOK, Service!Ask, Phase,
       Active, Locations
  <2> QED
    BY <2>1 DEF Service!Next
<1>2. ASSUME NEW p \in Procs, NEW i \in Inputs, ReadInput(p, i)
      PROVE  UNCHANGED Service!vars
  BY <1>2 DEF ReadInput, history, Service!vars, Phase
<1>3. ASSUME NEW p \in Procs, NEW i \in Inputs, SkipInput(p, i)
      PROVE  Service!Next
  <2>1. Service!Excuse(p)
    BY <1>3 DEF SkipInput, TypeOK, HistoryTypeOK, Service!Excuse, Phase,
       Active, Locations
  <2> QED
    BY <2>1 DEF Service!Next
<1>4. ASSUME NEW p \in Procs, NoKeyToLoad(p) \/ LoadMiss(p) \/ KeyToSave(p)
      PROVE  UNCHANGED Service!vars
  BY <1>4, GotoHides
     DEF NoKeyToLoad, LoadMiss, KeyToSave, history, Active, Locations
<1>5. ASSUME NEW p \in Procs, MakeDir(p) \/ OpenEntry(p)
      PROVE  UNCHANGED Service!vars
  BY <1>5, GotoHides DEF MakeDir, OpenEntry, history, Active, Locations
<1>6. ASSUME NEW p \in Procs,
             NoKeyToSave(p) \/ SpawnFails(p) \/ SaveFails(p) \/ WriteFails(p)
      PROVE  Service!Next
  BY <1>6, ErrorGivesUp
     DEF NoKeyToSave, SpawnFails, SaveFails, WriteFails, history, Active,
         Locations
<1>7. ASSUME NEW p \in Procs, LoadHit(p)
      PROVE  Service!Next
  <2> DEFINE D == IF Key(p) \in suspect THEN doubt[p] \cup {"entry"}
                                        ELSE doubt[p]
  <2>1. pc[p] = "keying" /\ WalkDone(p) /\ store[Key(p)] \in Findings
    BY <1>7 DEF LoadHit, Return, Exit, Goto, Loads
  <2>2. Key(p) \in Keys
    BY <2>1, KeyTypes DEF TypeOK
  <2>3. D = {} => store[Key(p)] = LintOf[args[p]][source]
    <3> HAVE D = {}
    <3>1. doubt[p] = {} /\ Key(p) \notin suspect
      OBVIOUS
    <3>2. Key(p) = <<args[p], source>>
      BY <2>1, <3>1, SteadyKey DEF Active, Locations
    <3> QED
      BY <2>1, <2>2, <3>1, <3>2 DEF EntriesMatchKeys, Loads
  <2>4. doubt' = [doubt EXCEPT ![p] = D]
    BY <1>7 DEF LoadHit
  <2>5. doubt[p] # {} => D # {}
    OBVIOUS
  <2>6. Return(p, "keying", store[Key(p)])
    BY <1>7 DEF LoadHit
  <2>7. "keying" \in Active
    BY DEF Active, Locations
  <2> HIDE DEF D
  <2> QED
    BY <2>1, <2>3, <2>4, <2>5, <2>6, <2>7, ReportTells
<1>8. ASSUME NEW p \in Procs, ChildSucceeds(p)
      PROVE  [Service!Next]_(Service!vars)
  <2>1. LintOf[args[p]][source] \in Findings
    BY LintAssumption DEF TypeOK, RunTypeOK
  <2>2. doubt' = [doubt EXCEPT ![p] = doubt[p]]
    BY <1>8 DEF ChildSucceeds, TypeOK, HistoryTypeOK
  <2> QED
    BY <1>8, <2>1, <2>2, CollectedShows DEF ChildSucceeds
<1>9. ASSUME NEW p \in Procs, ChildFails(p)
      PROVE  [Service!Next]_(Service!vars)
  <2>1. PICK d \in Partial : Collected(p, d)
    BY <1>9 DEF ChildFails
  <2>2. doubt' = [doubt EXCEPT ![p] = doubt[p] \cup {"child"}]
    BY <1>9 DEF ChildFails
  <2>3. doubt[p] \cup {"child"} # {}
    OBVIOUS
  <2> QED
    BY <2>1, <2>2, <2>3, LintAssumption, CollectedShows
<1>10. ASSUME NEW p \in Procs, WriteEntry(p)
       PROVE  Service!Next
  <2>1. pc[p] = "writing" /\ Return(p, "writing", found[p]) /\ doubt' = doubt
    BY <1>10 DEF WriteEntry, Return, Exit, Goto
  <2>2. found[p] \in Findings
    BY <2>1 DEF LocalsOK, Saving, TypeOK, RunTypeOK, HistoryTypeOK
  <2>3. doubt[p] = {} => found[p] = LintOf[args[p]][source]
    BY <2>1 DEF SteadyRuns, Saving, Active, Locations
  <2>4. doubt' = [doubt EXCEPT ![p] = doubt[p]]
    BY <2>1 DEF TypeOK, HistoryTypeOK
  <2> QED
    BY <2>1, <2>2, <2>3, <2>4, ReportTells DEF Active, Locations
<1>11. ASSUME NEW p \in Procs, Crash(p)
       PROVE  Service!Next
  <2>1. Service!Abandon(p)
    BY <1>11 DEF Crash, Exit, Goto, history, TypeOK, RunTypeOK,
       Service!Abandon, Phase, Active
  <2> QED
    BY <2>1 DEF Service!Next
<1>12. ASSUME NEW i \in Inputs, NEW c \in Contents, Edit(i, c)
       PROVE  Service!Next
  <2>1. Service!Change
    BY <1>12 DEF Edit, TypeOK, RunTypeOK, HistoryTypeOK, Sources,
       Service!Change, Phase, Active, Locations
  <2> QED
    BY <2>1 DEF Service!Next
<1>13. CASE (\E c \in Clearers : Clear(c)) \/ Clean \/ UNCHANGED vars
  BY <1>13 DEF Clear, Clean, vars, runVars, history, Service!vars, Phase
<1> QED
  BY <1>1, <1>2, <1>3, <1>4, <1>5, <1>6, <1>7, <1>8, <1>9, <1>10, <1>11,
     <1>12, <1>13 DEF Next, Step

\* The runs implement the promise of LintService: to whoever asks for a lint the
\* cache, its files, its crashes and its clears are invisible.
THEOREM CacheIsInvisible == Spec => ImplementsService
<1>1. Init => Service!Init
  BY DEF Init, Service!Init, Phase, Active, Sources
<1>2. IInv /\ [Next]_vars => [Service!Next]_(Service!vars)
  BY StepRefines
<1> QED
  BY <1>1, <1>2, Inductive, PTL DEF Spec, ImplementsService, Service!Spec

=============================================================================
