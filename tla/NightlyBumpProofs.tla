------------------------- MODULE NightlyBumpProofs --------------------------
(***************************************************************************)
(* Proofs about NightlyBump for every value of its constants: any number   *)
(* of jobs and developers, any sequence of files, any branches, offsets    *)
(* and faults.                                                             *)
(*                                                                         *)
(* The first part says what the edits of bump-nightly.sh compose to, the   *)
(* second that BumpInv is inductive, the third what follows from it.       *)
(***************************************************************************)
EXTENDS NightlyBump, TLAPS

-----------------------------------------------------------------------------
\* The edits.

\* The files are those of the sequence.
LEMMA FileIndices ==
  /\ Len(NightlyFiles) \in Nat
  /\ DOMAIN NightlyFiles = 1 .. Len(NightlyFiles)
  /\ FileNames = {NightlyFiles[i] : i \in 1 .. Len(NightlyFiles)}
  /\ \A i \in 1 .. Len(NightlyFiles) : NightlyFiles[i] \in FileNames
<1>1. Len(NightlyFiles) \in Nat /\ DOMAIN NightlyFiles = 1 .. Len(NightlyFiles)
  BY BumpAssumption
<1> QED
  BY <1>1 DEF FileNames

\* A tree stays a tree under each edit.
LEMMA EditTypes ==
  ASSUME NEW t \in Trees, NEW d \in Shaped, NEW r \in Names
  PROVE  /\ WithPin(t, d) \in Trees
         /\ WithRev(t, r) \in Trees
         /\ \A f \in FileNames : WithFile(t, f, d) \in Trees
BY DEF Trees, WithPin, WithRev, WithFile, Redated, Names

\* The edits of the pin and of the rev leave a tree with no file done.
LEMMA FirstEdits ==
  ASSUME NEW t \in Trees, NEW d, NEW r
  PROVE  WithRev(WithPin(t, d), r) = Partly(t, d, r, 1)
<1>1. {NightlyFiles[i] : i \in 1 .. 1 - 1} = {}
  OBVIOUS
<1>2. [f \in FileNames |->
        IF f \in {NightlyFiles[i] : i \in 1 .. 1 - 1}
        THEN Redated(t.dates[f], d) ELSE t.dates[f]] = t.dates
  BY <1>1 DEF Trees
<1>3. WithRev(WithPin(t, d), r)
        = [pin |-> d, rev |-> WithRev(t, r).rev, dates |-> t.dates]
  BY DEF WithRev, WithPin, Trees
<1> QED
  BY <1>2, <1>3 DEF Partly

\* One turn of the loop does one more file, even when the sequence repeats it.
LEMMA NextFile ==
  ASSUME NEW t \in Trees, NEW d, NEW r, NEW n \in 1 .. Len(NightlyFiles)
  PROVE  WithFile(Partly(t, d, r, n), NightlyFiles[n], d) = Partly(t, d, r, n + 1)
<1> DEFINE Done(m) == {NightlyFiles[i] : i \in 1 .. m - 1}
           dates(m) == [f \in FileNames |-> IF f \in Done(m)
                          THEN Redated(t.dates[f], d) ELSE t.dates[f]]
<1>1. Done(n + 1) = Done(n) \cup {NightlyFiles[n]}
  <2>1. 1 .. (n + 1) - 1 = (1 .. n - 1) \cup {n}
    BY FileIndices
  <2> QED
    BY <2>1
<1>2. [dates(n) EXCEPT ![NightlyFiles[n]] = Redated(@, d)] = dates(n + 1)
  <2> SUFFICES ASSUME NEW f \in FileNames
               PROVE  [dates(n) EXCEPT ![NightlyFiles[n]] = Redated(@, d)][f]
                        = dates(n + 1)[f]
    OBVIOUS
  <2> HIDE DEF Done
  <2>1. CASE f = NightlyFiles[n]
    BY <2>1, <1>1, FileIndices DEF Redated
  <2>2. CASE f # NightlyFiles[n]
    BY <2>2, <1>1
  <2> QED
    BY <2>1, <2>2
<1>3. \A m : Partly(t, d, r, m)
               = [pin |-> d, rev |-> WithRev(t, r).rev, dates |-> dates(m)]
  BY DEF Partly
<1> HIDE DEF dates
<1> QED
  BY <1>2, <1>3 DEF WithFile

\* All the turns of the loop make the whole bump.
LEMMA AllFiles ==
  ASSUME NEW t, NEW d, NEW r
  PROVE  Partly(t, d, r, Len(NightlyFiles) + 1) = Bumped(t, d, r)
<1>1. {NightlyFiles[i] : i \in 1 .. (Len(NightlyFiles) + 1) - 1} = FileNames
  <2>1. (Len(NightlyFiles) + 1) - 1 = Len(NightlyFiles)
    BY FileIndices
  <2> QED
    BY <2>1, FileIndices
<1> QED
  BY <1>1 DEF Partly, Bumped

\* The validator objects to nothing but the day and the rev of a whole bump.
LEMMA BumpedValidates ==
  ASSUME NEW t \in Trees, NEW d \in Shaped, NEW r \in Names, NEW api \in BOOLEAN
  PROVE  LET b == Bumped(t, d, r)
         IN  Validates(b, api) <=>
               api /\ d \in Days /\ b.rev \in Days /\ Near(b.rev, d)
BY DEF Bumped, Validates, Redated, Trees

\* The validator tells half a bump of a consistent tree from a whole one.
LEMMA HalvesFail ==
  ASSUME NEW t \in Trees, NEW d \in Shaped, NEW r, d # t.pin,
         Validates(t, TRUE), Dated(t)
  PROVE  /\ ~ Validates(WithPin(t, d), TRUE)
         /\ \A n \in 1 .. Len(NightlyFiles) + 1 :
              Validates(Partly(t, d, r, n), TRUE)
              => Partly(t, d, r, n) = Bumped(t, d, r)
<1>1. PICK g \in FileNames : t.dates[g] # {}
  BY DEF Dated
<1>2. ~ Validates(WithPin(t, d), TRUE)
  BY <1>1 DEF Validates, WithPin, Trees
<1>3. ASSUME NEW n \in 1 .. Len(NightlyFiles) + 1, Validates(Partly(t, d, r, n), TRUE)
      PROVE  Partly(t, d, r, n) = Bumped(t, d, r)
  <2> DEFINE Done == {NightlyFiles[i] : i \in 1 .. n - 1}
  <2>1. ASSUME NEW f \in FileNames, f \notin Done
        PROVE  t.dates[f] = {}
    <3>1. t.dates[f] \subseteq {d}
      BY <2>1, <1>3 DEF Validates, Partly
    <3>2. t.dates[f] \subseteq {t.pin}
      BY DEF Validates
    <3> QED
      BY <3>1, <3>2
  <2>2. [f \in FileNames |-> IF f \in Done THEN Redated(t.dates[f], d)
                             ELSE t.dates[f]]
          = [f \in FileNames |-> Redated(t.dates[f], d)]
    <3> HIDE DEF Done
    <3> QED
      BY <2>1 DEF Redated
  <2> QED
    BY <2>2 DEF Partly, Bumped
<1> QED
  BY <1>2, <1>3

-----------------------------------------------------------------------------
\* The invariant is inductive.

\* What resolve-clippy-rev.js or CLIPPY_REV gives can be written as a rev.
LEMMA ResolvedNames ==
  ASSUME NEW d
  PROVE  Resolved(d) \cup Overrides \subseteq Names
<1>1. Latest(Rustup, d) \subseteq Days /\ Latest(Master, d) \subseteq Days
  BY BumpAssumption DEF Latest
<1>2. Resolved(d) \subseteq Days
  BY <1>1 DEF Resolved
<1> QED
  BY <1>2, BumpAssumption DEF Overrides, Names, Shaped

\* Stopping keeps every type.
LEMMA StopTypes ==
  ASSUME TypeOK, NEW w \in Workers, NEW s \in Statuses, Stop(w, s)
  PROVE  TypeOK'
BY DEF Stop, TypeOK

\* Going on to an edit with a tree keeps the types of what Goto sets.
LEMMA GotoTypes ==
  ASSUME TypeOK, NEW w \in Workers, NEW from, NEW to \in Running, NEW t \in Trees,
         Goto(w, from, to, t),
         rev' \in [Workers -> Names],
         at' \in [Workers -> 1 .. Len(NightlyFiles) + 1]
  PROVE  TypeOK'
BY DEF Goto, TypeOK

\* Starting the script keeps every type.
LEMMA BeginTypes ==
  ASSUME TypeOK, NEW w \in Workers, NEW d \in Names, NEW t \in Trees,
         Begin(w, d, t), base' \in [Workers -> Trees]
  PROVE  TypeOK'
<1>1. bumps' \in 0 .. MaxBumps
  BY BumpAssumption DEF Begin, TypeOK
<1>2. 1 \in 1 .. Len(NightlyFiles) + 1
  BY FileIndices
<1>3. /\ pc' \in [Workers -> Running \cup {"idle", "testing"}]
      /\ status' \in [Workers -> Statuses]
  BY DEF Begin, TypeOK, Running, Statuses
<1> QED
  BY <1>1, <1>2, <1>3 DEF Begin, TypeOK, Names

\* Every step keeps the types.
LEMMA TypeKept ==
  ASSUME TypeOK, Progress, [Next]_vars
  PROVE  TypeOK'
<1>1. ASSUME NEW j \in Jobs, NEW d \in Names, Dispatch(j, d) PROVE TypeOK'
  BY <1>1, BeginTypes DEF Dispatch, TypeOK, Workers
<1>2. ASSUME NEW v \in Developers, NEW d \in LocalTargets, RunLocally(v, d)
      PROVE  TypeOK'
  BY <1>2, BeginTypes, BumpAssumption DEF RunLocally, TypeOK, Workers
<1>3. ASSUME NEW w \in Workers,
             Refuse(w) \/ NothingToDo(w) \/ ResolveFails(w) \/ EditFails(w)
             \/ Interrupt(w)
      PROVE  TypeOK'
  BY <1>3, StopTypes DEF Refuse, NothingToDo, ResolveFails, EditFails, Interrupt,
     Statuses
<1>4. ASSUME NEW w \in Workers, Resolve(w) PROVE TypeOK'
  <2>1. PICK r \in Resolved(target[w]) \cup Overrides :
          rev' = [rev EXCEPT ![w] = r]
    BY <1>4 DEF Resolve
  <2>2. rev' \in [Workers -> Names]
    BY <2>1, ResolvedNames DEF TypeOK
  <2> QED
    BY <1>4, <2>2, GotoTypes DEF Resolve, TypeOK, Running, Editing
<1>5. ASSUME NEW w \in Workers, EditPin(w) PROVE TypeOK'
  <2>1. WithPin(tree[w], target[w]) \in Trees
    BY <1>5, EditTypes DEF EditPin, Goto, Progress, Editing, TypeOK,
       WithPin, Trees
  <2> QED
    BY <1>5, <2>1, GotoTypes DEF EditPin, TypeOK, Running, Editing
<1>6. ASSUME NEW w \in Workers, EditRev(w) PROVE TypeOK'
  <2>1. WithRev(tree[w], rev[w]) \in Trees
    BY <1>6, ZenonT(60) DEF EditRev, Goto, Progress, TypeOK, WithRev, Trees
  <2> QED
    BY <1>6, <2>1, GotoTypes DEF EditRev, TypeOK, Running, Editing
<1>7. ASSUME NEW w \in Workers, EditFile(w) PROVE TypeOK'
  <2>1. at[w] \in 1 .. Len(NightlyFiles)
    BY <1>7, FileIndices DEF EditFile, TypeOK
  <2>2. WithFile(tree[w], NightlyFiles[at[w]], target[w]) \in Trees
    <3>1. tree[w] \in Trees /\ target[w] \in Shaped /\ NightlyFiles[at[w]] \in FileNames
      BY <1>7, <2>1, FileIndices DEF EditFile, Goto, Progress, Editing, TypeOK
    <3> QED
      BY <3>1 DEF WithFile, Trees, Redated
  <2>3. at' \in [Workers -> 1 .. Len(NightlyFiles) + 1]
    BY <1>7, <2>1, FileIndices DEF EditFile, TypeOK
  <2> QED
    BY <1>7, <2>2, <2>3, GotoTypes DEF EditFile, TypeOK, Running, Editing
<1>8. ASSUME NEW w \in Workers, Finish(w) PROVE TypeOK'
  BY <1>8 DEF Finish, TypeOK, Statuses
<1>9. ASSUME NEW w \in Workers, SetupFails(w) PROVE TypeOK'
  BY <1>9 DEF SetupFails, TypeOK
<1>10. ASSUME NEW w \in Workers, Publish(w) PROVE TypeOK'
  <2>1. target[w] \in Days
    BY <1>10 DEF Publish
  <2>2. pr' \in [title : Days, base : Trees, tree : Trees]
    BY <1>10, <2>1 DEF Publish, TypeOK
  <2> QED
    BY <1>10, <2>2 DEF Publish, TypeOK
<1>11. ASSUME NEW w \in Workers, Commit(w) \/ Pull(w) PROVE TypeOK'
  <2>1. CASE Commit(w)
    BY <2>1 DEF Commit, TypeOK
  <2>2. CASE Pull(w)
    BY <2>2 DEF Pull, TypeOK, Statuses
  <2> QED
    BY <1>11, <2>1, <2>2
<1>12. CASE Merge
  BY <1>12 DEF Merge, TypeOK
<1>13. CASE NextDay
  BY <1>13, BumpAssumption DEF NextDay, TypeOK, Days
<1>14. CASE UNCHANGED vars
  BY <1>14 DEF vars, TypeOK
<1> QED
  BY <1>1, <1>2, <1>3, <1>4, <1>5, <1>6, <1>7, <1>8, <1>9, <1>10, <1>11, <1>12,
     <1>13, <1>14 DEF Next

\* Every step keeps what is known of the runs under way.
LEMMA ProgressKept ==
  ASSUME TypeOK, Progress, [Next]_vars
  PROVE  Progress'
<1> USE DEF TypeOK, Progress, Editing, Running
<1>1. ASSUME NEW j \in Jobs, NEW d \in Names, Dispatch(j, d) PROVE Progress'
  BY <1>1 DEF Dispatch, Begin, Workers
<1>2. ASSUME NEW v \in Developers, NEW d \in LocalTargets, RunLocally(v, d)
      PROVE  Progress'
  BY <1>2, BumpAssumption DEF RunLocally, Begin, Workers
<1>3. ASSUME NEW w \in Workers,
             Refuse(w) \/ NothingToDo(w) \/ ResolveFails(w) \/ EditFails(w)
             \/ Interrupt(w)
      PROVE  Progress'
  BY <1>3 DEF Refuse, NothingToDo, ResolveFails, EditFails, Interrupt, Stop
<1>4. ASSUME NEW w \in Workers, Resolve(w) PROVE Progress'
  <2>1. rev' = [rev EXCEPT ![w] = rev'[w]]
    BY <1>4 DEF Resolve
  <2>2. target[w] \in Shaped
    BY <1>4 DEF Resolve, ToBump, Names
  <2> QED
    BY <1>4, <2>1, <2>2 DEF Resolve, Goto, ToBump
<1>5. ASSUME NEW w \in Workers, EditPin(w) PROVE Progress'
  BY <1>5 DEF EditPin, Goto
<1>6. ASSUME NEW w \in Workers, EditRev(w) PROVE Progress'
  BY <1>6, FirstEdits DEF EditRev, Goto
<1>7. ASSUME NEW w \in Workers, EditFile(w) PROVE Progress'
  BY <1>7, NextFile, FileIndices DEF EditFile, Goto
<1>8. ASSUME NEW w \in Workers, Finish(w) PROVE Progress'
  BY <1>8 DEF Finish
<1>9. ASSUME NEW w \in Workers, SetupFails(w) \/ Publish(w) PROVE Progress'
  BY <1>9 DEF SetupFails, Publish
<1>10. ASSUME NEW w \in Workers, Commit(w) PROVE Progress'
  <2>1. w \notin Jobs
    BY <1>10, BumpAssumption DEF Commit
  <2>2. \A u \in Jobs : base'[u] = base[u]
    BY <1>10, <2>1 DEF Commit, Workers
  <2>3. UNCHANGED <<pc, tree, start, target, rev, at, status>>
    BY <1>10 DEF Commit
  <2> QED
    BY <2>2, <2>3
<1>11. ASSUME NEW w \in Workers, Pull(w) PROVE Progress'
  <2>1. w \notin Jobs /\ pc[w] = "idle"
    BY <1>11, BumpAssumption DEF Pull
  <2>2. \A u \in Workers : u # w =>
          /\ base'[u] = base[u] /\ tree'[u] = tree[u]
          /\ start'[u] = start[u] /\ status'[u] = status[u]
    BY <1>11 DEF Pull
  <2>3. UNCHANGED <<pc, target, rev, at>>
    BY <1>11 DEF Pull
  <2> QED
    BY <2>1, <2>2, <2>3
<1>12. CASE Merge
  BY <1>12 DEF Merge
<1>13. CASE NextDay
  BY <1>13 DEF NextDay
<1>14. CASE UNCHANGED vars
  BY <1>14 DEF vars
<1> QED
  BY <1>1, <1>2, <1>3, <1>4, <1>5, <1>6, <1>7, <1>8, <1>9, <1>10, <1>11, <1>12,
     <1>13, <1>14 DEF Next

\* A step that touches one worker's run alone disturbs no other outcome.
LEMMA OutcomesKept ==
  ASSUME TypeOK, Progress, Outcomes, [Next]_vars
  PROVE  Outcomes'
<1> USE DEF Outcomes
<1>1. ASSUME NEW j \in Jobs, NEW d \in Names, Dispatch(j, d) PROVE Outcomes'
  BY <1>1 DEF Dispatch, Begin, TypeOK, Workers
<1>2. ASSUME NEW v \in Developers, NEW d \in LocalTargets, RunLocally(v, d)
      PROVE  Outcomes'
  BY <1>2 DEF RunLocally, Begin, TypeOK, Workers
<1>3. ASSUME NEW w \in Workers, Resolve(w) PROVE Outcomes'
  <2>1. tree[w] = start[w] /\ UNCHANGED <<target, start>>
    BY <1>3 DEF Resolve, Goto, Progress
  <2>2. tree' = tree /\ \A u \in Workers : u # w => rev'[u] = rev[u]
    BY <1>3 DEF Resolve, Goto, TypeOK
  <2> QED
    BY <2>1, <2>2
<1>4. ASSUME NEW w \in Workers, EditPin(w) PROVE Outcomes'
  BY <1>4 DEF EditPin, Goto, Progress, Editing, TypeOK
<1>5. ASSUME NEW w \in Workers, EditRev(w) \/ EditFile(w) PROVE Outcomes'
  <2>0. TypeOK' /\ Progress'
    BY TypeKept, ProgressKept
  <2>1. /\ tree'[w] = Partly(start[w], target[w], rev[w], at'[w])
        /\ at'[w] \in 1 .. Len(NightlyFiles) + 1
        /\ target[w] \in Shaped /\ target[w] # start[w].pin
    <3>1. pc'[w] = "files" /\ UNCHANGED <<start, target, rev>>
      BY <1>5 DEF EditRev, EditFile, Goto, TypeOK
    <3> QED
      BY <2>0, <3>1 DEF Progress, Editing, TypeOK
  <2>2. /\ UNCHANGED <<target, start, rev>>
        /\ \A u \in Workers : u # w => tree'[u] = tree[u]
    BY <1>5 DEF EditRev, EditFile, Goto, TypeOK
  <2> QED
    BY <2>1, <2>2
<1>6. ASSUME NEW w \in Workers, Pull(w) PROVE Outcomes'
  BY <1>6 DEF Pull, TypeOK
<1>7. CASE UNCHANGED <<tree, start, target, rev>>
  BY <1>7
<1>8. ASSUME NEW w \in Workers,
             \/ Refuse(w) \/ NothingToDo(w) \/ ResolveFails(w) \/ EditFails(w)
             \/ Interrupt(w) \/ Finish(w) \/ SetupFails(w) \/ Publish(w)
             \/ Commit(w)
      PROVE  UNCHANGED <<tree, start, target, rev>>
  BY <1>8 DEF Refuse, NothingToDo, ResolveFails, EditFails, Interrupt, Stop, Finish,
     SetupFails, Publish, Commit
<1>9. ASSUME Merge \/ NextDay \/ UNCHANGED vars
      PROVE  UNCHANGED <<tree, start, target, rev>>
  BY <1>9 DEF Merge, NextDay, vars
<1> QED
  BY <1>1, <1>2, <1>3, <1>4, <1>5, <1>6, <1>7, <1>8, <1>9 DEF Next

\* A run that had ended is not touched until it is started again or its tree is
\* dropped; one that ends now ends in one of three ways.
LEMMA EndSteps ==
  ASSUME TypeOK, Progress, [Next]_vars, NEW u \in Workers,
         status'[u] \in {"refused", "nothing", "updated"}
  PROVE  \/ /\ status[u] = status'[u]
            /\ tree'[u] = tree[u] /\ start'[u] = start[u]
            /\ target'[u] = target[u] /\ rev'[u] = rev[u]
         \/ /\ status'[u] # "updated"
            /\ tree'[u] = start'[u]
         \/ /\ status'[u] = "updated" /\ start'[u] \in Trees
            /\ tree'[u] = Bumped(start'[u], target'[u], rev'[u])
            /\ target'[u] \in Shaped /\ rev'[u] \in Names
<1> DEFINE Kept == /\ status[u] = status'[u]
                   /\ tree'[u] = tree[u] /\ start'[u] = start[u]
                   /\ target'[u] = target[u] /\ rev'[u] = rev[u]
<1>1. ASSUME NEW w \in Workers, w # u,
             \/ \E d \in Names : Dispatch(w, d)
             \/ \E d \in LocalTargets : RunLocally(w, d)
             \/ Refuse(w) \/ NothingToDo(w) \/ Resolve(w) \/ ResolveFails(w)
             \/ EditPin(w) \/ EditRev(w) \/ EditFile(w) \/ Finish(w)
             \/ EditFails(w) \/ Interrupt(w) \/ SetupFails(w) \/ Publish(w)
             \/ Commit(w) \/ Pull(w)
      PROVE  Kept
  <2> USE DEF TypeOK
  <2>1. CASE \E d \in Names : Dispatch(w, d)
    BY <1>1, <2>1 DEF Dispatch, Begin
  <2>2. CASE \E d \in LocalTargets : RunLocally(w, d)
    BY <1>1, <2>2 DEF RunLocally, Begin
  <2>3. CASE Refuse(w) \/ NothingToDo(w) \/ ResolveFails(w) \/ EditFails(w)
             \/ Interrupt(w)
    BY <1>1, <2>3 DEF Refuse, NothingToDo, ResolveFails, EditFails, Interrupt, Stop
  <2>4. CASE Resolve(w) \/ EditPin(w) \/ EditRev(w) \/ EditFile(w)
    BY <1>1, <2>4 DEF Resolve, EditPin, EditRev, EditFile, Goto
  <2>5. CASE Finish(w) \/ SetupFails(w) \/ Publish(w) \/ Commit(w) \/ Pull(w)
    BY <1>1, <2>5 DEF Finish, SetupFails, Publish, Commit, Pull
  <2> QED
    BY <1>1, <2>1, <2>2, <2>3, <2>4, <2>5
<1>2. CASE \/ \E d \in Names : Dispatch(u, d)
           \/ \E d \in LocalTargets : RunLocally(u, d)
           \/ EditFails(u) \/ Interrupt(u) \/ Pull(u)
  <2>1. status'[u] \in {"none", "failed", "killed"}
    BY <1>2 DEF Dispatch, RunLocally, Begin, EditFails, Interrupt, Stop, Pull, TypeOK
  <2> QED
    BY <2>1
<1>3. CASE Resolve(u) \/ EditPin(u) \/ EditRev(u) \/ EditFile(u)
  <2>1. status'[u] = "none"
    BY <1>3 DEF Resolve, EditPin, EditRev, EditFile, Goto, Progress
  <2> QED
    BY <2>1
<1>4. CASE Refuse(u) \/ NothingToDo(u) \/ ResolveFails(u)
  BY <1>4 DEF Refuse, NothingToDo, ResolveFails, Stop, Progress, TypeOK
<1>5. CASE Finish(u)
  <2>1. /\ pc[u] = "files" /\ at[u] = Len(NightlyFiles) + 1
        /\ status'[u] = "updated"
        /\ UNCHANGED <<tree, start, target, rev>>
    BY <1>5, FileIndices DEF Finish, TypeOK
  <2> QED
    BY <2>1, AllFiles DEF Progress, Editing, TypeOK
<1>6. CASE SetupFails(u) \/ Publish(u) \/ Commit(u) \/ Merge \/ NextDay
           \/ UNCHANGED vars
  BY <1>6 DEF SetupFails, Publish, Commit, Merge, NextDay, vars
<1> QED
  BY <1>1, <1>2, <1>3, <1>4, <1>5, <1>6 DEF Next, Workers

\* Runs that end before their first edit leave their trees alone.
LEMMA RefusalsKept ==
  ASSUME TypeOK, Progress, RefusalsLeaveTheTree, [Next]_vars
  PROVE  RefusalsLeaveTheTree'
BY EndSteps DEF RefusalsLeaveTheTree

\* Runs that end with exit 0 have made the whole bump.
LEMMA UpdatesKept ==
  ASSUME TypeOK, Progress, UpdatesAreComplete, [Next]_vars
  PROVE  UpdatesAreComplete'
<1> SUFFICES ASSUME NEW u \in Workers, status'[u] = "updated"
             PROVE  /\ tree'[u] = Bumped(start'[u], target'[u], rev'[u])
                    /\ \A api \in BOOLEAN :
                         Validates(tree'[u], api) <=>
                           /\ api /\ target'[u] \in Days
                           /\ tree'[u].rev \in Days
                           /\ Near(tree'[u].rev, target'[u])
  BY DEF UpdatesAreComplete, Validates, Near
<1>1. CASE /\ start'[u] \in Trees
           /\ tree'[u] = Bumped(start'[u], target'[u], rev'[u])
           /\ target'[u] \in Shaped /\ rev'[u] \in Names
  BY <1>1, BumpedValidates
<1>2. CASE /\ status[u] = "updated" /\ tree'[u] = tree[u] /\ start'[u] = start[u]
           /\ target'[u] = target[u] /\ rev'[u] = rev[u]
  BY <1>2 DEF UpdatesAreComplete
<1> QED
  BY <1>1, <1>2, EndSteps

\* The pull request is replaced by a whole bump or by none.
LEMMA PullRequestKept ==
  ASSUME TypeOK, Progress, UpdatesAreComplete, PullRequestIsWhole, [Next]_vars
  PROVE  PullRequestIsWhole'
<1>1. ASSUME NEW w \in Workers, Publish(w) PROVE PullRequestIsWhole'
  <2>1. /\ pr' = [title |-> target[w], base |-> start[w], tree |-> tree[w]]
        /\ tree[w] = Bumped(start[w], target[w], rev[w])
    BY <1>1 DEF Publish, Progress, UpdatesAreComplete
  <2>2. Bumped(start[w], target[w], rev[w])
          = Bumped(start[w], target[w], Bumped(start[w], target[w], rev[w]).rev)
    <3>1. start[w] \in Trees
      BY DEF TypeOK
    <3>2. WithRev(start[w], WithRev(start[w], rev[w]).rev).rev
            = WithRev(start[w], rev[w]).rev
      BY <3>1 DEF WithRev, Trees
    <3> QED
      BY <3>2 DEF Bumped
  <2> QED
    BY <2>1, <2>2 DEF PullRequestIsWhole
<1>2. CASE pr' = pr \/ pr' = NoPR
  BY <1>2 DEF PullRequestIsWhole
<1>3. ASSUME NEW j \in Jobs, NEW d \in Names, Dispatch(j, d) PROVE pr' = pr
  BY <1>3 DEF Dispatch, Begin
<1>4. ASSUME NEW v \in Developers, NEW d \in LocalTargets, RunLocally(v, d)
      PROVE  pr' = pr
  BY <1>4 DEF RunLocally, Begin
<1>5. ASSUME NEW w \in Workers,
             \/ Refuse(w) \/ NothingToDo(w) \/ Resolve(w) \/ ResolveFails(w)
             \/ EditPin(w) \/ EditRev(w) \/ EditFile(w) \/ Finish(w)
             \/ EditFails(w) \/ Interrupt(w) \/ SetupFails(w) \/ Commit(w)
             \/ Pull(w)
      PROVE  pr' = pr
  BY <1>5 DEF SetupFails, Refuse, NothingToDo, ResolveFails, EditFails, Interrupt, Stop, Resolve,
     EditPin, EditRev, EditFile, Goto, Finish, Commit, Pull
<1>6. ASSUME Merge \/ NextDay \/ UNCHANGED vars PROVE pr' = pr \/ pr' = NoPR
  BY <1>6 DEF Merge, NextDay, vars
<1> QED
  BY <1>1, <1>2, <1>3, <1>4, <1>5, <1>6 DEF Next

\* Init establishes the invariant: every worker has a clone of main and no run
\* has been started.
LEMMA BumpInit ==
  ASSUME Init
  PROVE  BumpInv
<1>1. TypeOK
  BY BumpAssumption, FileIndices DEF Init, TypeOK, Statuses, Names
<1>2. Progress /\ Outcomes
  BY DEF Init, Progress, Outcomes, Editing, Workers
<1>3. RefusalsLeaveTheTree /\ UpdatesAreComplete /\ PullRequestIsWhole
  BY DEF Init, RefusalsLeaveTheTree, UpdatesAreComplete, PullRequestIsWhole
<1> QED
  BY <1>1, <1>2, <1>3 DEF BumpInv

-----------------------------------------------------------------------------
\* The theorems.

\* The invariant of the bump holds in every behaviour of bump-nightly.sh, the
\* workflow and the developers.
THEOREM BumpInductive == Spec => []BumpInv
<1>1. Init => BumpInv
  BY BumpInit
<1>2. BumpInv /\ [Next]_vars => BumpInv'
  BY TypeKept, ProgressKept, OutcomesKept, RefusalsKept, UpdatesKept,
     PullRequestKept DEF BumpInv
<1> QED
  BY <1>1, <1>2, PTL DEF Spec

\* Every variable of the bump keeps its type.
THEOREM BumpTypes == Spec => []TypeOK
<1>1. BumpInv => TypeOK
  BY DEF BumpInv
<1> QED
  BY <1>1, BumpInductive, PTL

\* Wherever the script is, was stopped or was killed, the validator accepts the
\* tree of a bump only before its first edit and after its last.
THEOREM HalfBumpsCaught == Spec => []HalfBumpsAreCaught
<1>1. BumpInv => HalfBumpsAreCaught
  <2> SUFFICES ASSUME BumpInv, NEW w \in Workers, Validates(start[w], TRUE),
                      Dated(start[w]), Validates(tree[w], TRUE), tree[w] # start[w]
               PROVE  tree[w] = Bumped(start[w], target[w], rev[w])
    BY DEF HalfBumpsAreCaught
  <2>1. start[w] \in Trees
    BY DEF BumpInv, TypeOK
  <2>2. /\ target[w] \in Shaped /\ target[w] # start[w].pin
        /\ \/ tree[w] = WithPin(start[w], target[w])
           \/ \E n \in 1 .. Len(NightlyFiles) + 1 :
                tree[w] = Partly(start[w], target[w], rev[w], n)
    BY DEF BumpInv, Outcomes
  <2> QED
    BY <2>1, <2>2, HalvesFail
<1> QED
  BY <1>1, BumpInductive, PTL

\* A run of the script that is refused, or finds nothing to do, leaves the tree as
\* it found it.
THEOREM RefusalsHarmless == Spec => []RefusalsLeaveTheTree
<1>1. BumpInv => RefusalsLeaveTheTree
  BY DEF BumpInv
<1> QED
  BY <1>1, BumpInductive, PTL

\* Exit 0 means every edit was made, and leaves the validator nothing to reject
\* but a target that is no day and the rev.
THEOREM UpdatesComplete == Spec => []UpdatesAreComplete
<1>1. BumpInv => UpdatesAreComplete
  BY DEF BumpInv
<1> QED
  BY <1>1, BumpInductive, PTL

\* The pull request of the workflow holds one whole bump of one head of main.
THEOREM PullRequestWhole == Spec => []PullRequestIsWhole
<1>1. BumpInv => PullRequestIsWhole
  BY DEF BumpInv
<1> QED
  BY <1>1, BumpInductive, PTL
=============================================================================
