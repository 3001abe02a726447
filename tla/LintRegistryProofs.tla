------------------------- MODULE LintRegistryProofs -------------------------
(***************************************************************************)
(* What the build script and generate-lint-docs promise of the files they  *)
(* write and compare, for any sources, any number of runs of the generator *)
(* and any edits.  First, whose reading a file holds: there it does not    *)
(* matter what the parsers make of a source.  Then what the two parsers    *)
(* make of one that is laid out plainly, of any number of declarations and *)
(* lines, and so what the two inventories have in common.                  *)
(***************************************************************************)
EXTENDS LintRegistry, FiniteSetTheorems, TLAPS

\* A set of numbers that is not empty has a least element.
LEMMA LeastNat ==
  ASSUME NEW T, T \subseteq Nat, T # {}
  PROVE  \E x \in T : \A y \in T : x <= y
<1>1. \E x \in T : \A y \in T : ~ (<<y, x>> \in OpToRel(<, Nat))
  BY WFMin, NatLessThanWellFounded
<1>2. \A x, y \in Nat : ~ (<<y, x>> \in OpToRel(<, Nat)) => x <= y
  BY DEF OpToRel
<1> QED
  BY <1>1, <1>2

-----------------------------------------------------------------------------
\* The files.

\* The three documents are different.
LEMMA DocumentFacts ==
  /\ Len(Documents) = 3 /\ DOMAIN Documents = 1 .. 3
  /\ \A i, j \in 1 .. 3 : Documents[i] = Documents[j] => i = j
  /\ \A i \in 1 .. 3 : Documents[i] \in ToSet(Documents)
  /\ \A f \in ToSet(Documents) : \E i \in 1 .. 3 : f = Documents[i]
<1>1. Len(Documents) = 3 /\ DOMAIN Documents = 1 .. 3
  BY DEF Documents
<1>2. ASSUME NEW i \in 1 .. 3, NEW j \in 1 .. 3, Documents[i] = Documents[j]
      PROVE  i = j
  <2>1. /\ Documents[1] = "README.md" /\ Documents[2] = "lint-registry.json"
        /\ Documents[3] = "lint_catalog.md"
    BY DEF Documents
  <2>2. (i = 1 \/ i = 2 \/ i = 3) /\ (j = 1 \/ j = 2 \/ j = 3)
    OBVIOUS
  <2> QED
    BY <1>2, <2>1, <2>2
<1> QED
  BY <1>1, <1>2 DEF ToSet

\* So are the five outputs of the build.
LEMMA OutputFacts ==
  /\ Len(Outputs) = 5 /\ DOMAIN Outputs = 1 .. 5
  /\ \A i, j \in 1 .. 5 : Outputs[i] = Outputs[j] => i = j
  /\ \A i \in 1 .. 5 : Outputs[i] \in ToSet(Outputs)
  /\ \A f \in ToSet(Outputs) : \E i \in 1 .. 5 : f = Outputs[i]
<1>1. Len(Outputs) = 5 /\ DOMAIN Outputs = 1 .. 5
  BY DEF Outputs
<1>2. ASSUME NEW i \in 1 .. 5, NEW j \in 1 .. 5, Outputs[i] = Outputs[j]
      PROVE  i = j
  <2>1. /\ Outputs[1] = "version_info" /\ Outputs[2] = "lint_names"
        /\ Outputs[3] = "lint_metadata" /\ Outputs[4] = "lint_info"
        /\ Outputs[5] = "lint_explanations"
    BY DEF Outputs
  <2>2. /\ i = 1 \/ i = 2 \/ i = 3 \/ i = 4 \/ i = 5
        /\ j = 1 \/ j = 2 \/ j = 3 \/ j = 4 \/ j = 5
    OBVIOUS
  <2> QED
    BY <1>2, <2>1, <2>2
<1> QED
  BY <1>1, <1>2 DEF ToSet

\* The build is no run of the documentation generator.
LEMMA RunFacts ==
  /\ Build \notin Gens /\ Build \in Runs /\ Gens \subseteq Runs
  /\ \A g \in Gens : g # Build /\ g # Orphan
  /\ Orphan # Build
BY RegistryAssumption DEF Runs, Build, Orphan

-----------------------------------------------------------------------------
\* Frames: what a step leaves alone keeps what it is about.

GensOK == UndisturbedRuns /\ WrittenSoFar /\ ComparedSoFar

\* A step that touches neither documents nor generators changes nothing for them.
LEMMA GensKept ==
  ASSUME GensOK, UNCHANGED <<src, docs, gpc, gsrc, stale>>,
         \A g \in Gens : at'[g] = at[g], doubt \cap Gens \subseteq doubt'
  PROVE  GensOK'
<1> USE RunFacts
<1>1. /\ src' = src /\ docs' = docs /\ gpc' = gpc /\ gsrc' = gsrc /\ stale' = stale
      /\ Writers' = Writers
  BY DEF Writers
<1>2. \A g \in Gens : g \notin doubt' => g \notin doubt
  OBVIOUS
<1>3. \A g \in Gens : Active(g)' <=> Active(g)
  BY <1>1 DEF Active
<1>4. UndisturbedRuns'
  BY <1>1, <1>2, <1>3 DEF GensOK, UndisturbedRuns
<1>5. WrittenSoFar'
  BY <1>1, <1>2 DEF GensOK, WrittenSoFar
<1>6. ComparedSoFar'
  BY <1>1, <1>2 DEF GensOK, ComparedSoFar, Stale, Normalised
<1> QED
  BY <1>4, <1>5, <1>6 DEF GensOK

\* A step that touches neither outputs nor build changes nothing for it.
LEMMA BuildKept ==
  ASSUME BuildSoFar, UNCHANGED <<src, pages, channel, out, bpc, bsrc>>,
         at'[Build] = at[Build], {Build, Orphan} \cap doubt \subseteq doubt'
  PROVE  BuildSoFar'
BY DEF BuildSoFar, ContentOf, CrossChecked

\* A build that got to its end is one that got past everything.
LEMMA WholeInTheEnd ==
  ASSUME BuildSoFar
  PROVE  BuildIsWhole
<1> SUFFICES ASSUME bpc = "ok", Build \notin doubt
             PROVE  /\ CrossChecked(src) /\ ToSet(RegisteredIn(src)) \subseteq pages
                    /\ Orphan \notin doubt => ToSet(RegisteredIn(src)) = pages
                    /\ \A file \in ToSet(Outputs) : out[file] = ContentOf(file, src)
  BY DEF BuildIsWhole
<1>1. /\ CrossChecked(src) /\ ToSet(RegisteredIn(src)) \subseteq pages
      /\ Orphan \notin doubt => ToSet(RegisteredIn(src)) = pages
  BY DEF BuildSoFar
<1>2. \A k \in 1 .. 5 : out[Outputs[k]] = ContentOf(Outputs[k], src)
  BY OutputFacts DEF BuildSoFar
<1> QED
  BY <1>1, <1>2, OutputFacts

\* A step that leaves the build alone keeps what it has read.
LEMMA NamesKept ==
  ASSUME NamesAreRead, UNCHANGED <<out, bpc, bsrc>>, at'[Build] = at[Build]
  PROVE  NamesAreRead'
BY DEF NamesAreRead, CrossChecked

\* A run in no doubt is alone with the documents.
LEMMA Alone ==
  ASSUME GensOK, NEW g \in Gens, gpc[g] \in {"truncating", "writing"},
         NEW h \in Gens \ doubt, gpc[h] \notin {"idle", "done"}
  PROVE  h = g
<1>1. Active(h) /\ g \in Writers
  BY RunFacts DEF Active, Writers
<1> QED
  BY <1>1 DEF GensOK, UndisturbedRuns

-----------------------------------------------------------------------------
\* The steps of the build script.

BuildStep ==
  \/ BuildParses \/ BuildFindsPages \/ BuildFindsOrphans \/ BuildReadsPages
  \/ BuildReadsToolchain \/ BuildWrites \/ BuildFails \/ Rebuild

\* What the script shares with the generator, it leaves alone.
LEMMA BuildFrame ==
  ASSUME TypeOK, BuildStep
  PROVE  /\ UNCHANGED <<src, pages, channel, docs, gpc, gsrc, stale, status>>
         /\ \A g \in Gens : at'[g] = at[g]
         /\ doubt' \in {doubt, doubt \cup {Orphan}, doubt \ {Build, Orphan}}
         /\ at' \in [Runs -> Nat]
<1> USE RunFacts DEF TypeOK, tree, build, gens
<1>1. CASE BuildParses
  BY <1>1 DEF BuildParses
<1>2. CASE BuildFindsPages
  BY <1>2 DEF BuildFindsPages, BuildGoto
<1>3. CASE BuildFindsOrphans
  BY <1>3 DEF BuildFindsOrphans
<1>4. CASE BuildReadsPages
  BY <1>4 DEF BuildReadsPages, BuildGoto
<1>5. CASE BuildReadsToolchain
  BY <1>5 DEF BuildReadsToolchain, BuildGoto
<1>6. CASE BuildWrites
  BY <1>6 DEF BuildWrites, BuildGoto
<1>7. CASE BuildFails
  BY <1>7 DEF BuildFails, BuildGoto
<1>8. CASE Rebuild
  BY <1>8 DEF Rebuild
<1> QED
  BY <1>1, <1>2, <1>3, <1>4, <1>5, <1>6, <1>7, <1>8 DEF BuildStep

\* A step of the build keeps the invariant.
LEMMA BuildSteps ==
  ASSUME RegistryInv, BuildStep
  PROVE  RegistryInv'
<1>1. TypeOK /\ GensOK /\ BuildSoFar /\ NamesAreRead
  BY DEF RegistryInv, GensOK
<1>2. /\ src' = src /\ pages' = pages /\ channel' = channel /\ docs' = docs
      /\ gpc' = gpc /\ gsrc' = gsrc /\ stale' = stale /\ status' = status
      /\ \A g \in Gens : at'[g] = at[g]
      /\ doubt' \in {doubt, doubt \cup {Orphan}, doubt \ {Build, Orphan}}
      /\ at' \in [Runs -> Nat]
  BY <1>1, BuildFrame
<1>3. GensOK'
  BY <1>1, <1>2, GensKept, RunFacts
<1>4. /\ bpc' \in {"idle", "parsed", "paged", "matched", "read", "writing", "ok", "failed"}
      /\ bpc' = "writing" => at'[Build] \in DOMAIN Outputs
      /\ DOMAIN out' = DOMAIN out
  <2> USE <1>1, OutputFacts, RunFacts DEF TypeOK, build
  <2>1. CASE BuildParses
    BY <2>1 DEF BuildParses
  <2>2. CASE BuildFindsPages
    BY <2>2 DEF BuildFindsPages, BuildGoto
  <2>3. CASE BuildFindsOrphans
    BY <2>3 DEF BuildFindsOrphans
  <2>4. CASE BuildReadsPages
    BY <2>4 DEF BuildReadsPages, BuildGoto
  <2>5. CASE BuildReadsToolchain
    BY <2>5 DEF BuildReadsToolchain, BuildGoto
  <2>6. CASE BuildWrites
    BY <2>6 DEF BuildWrites, BuildGoto
  <2>7. CASE BuildFails
    BY <2>7 DEF BuildFails, BuildGoto
  <2>8. CASE Rebuild
    BY <2>8 DEF Rebuild
  <2> QED
    BY <2>1, <2>2, <2>3, <2>4, <2>5, <2>6, <2>7, <2>8 DEF BuildStep
<1>5. TypeOK'
  BY <1>1, <1>2, <1>4 DEF TypeOK
<1>6. BuildSoFar'
  <2> USE <1>1, <1>2, OutputFacts, RunFacts DEF TypeOK, build, BuildSoFar
  <2>1. CASE BuildParses
    BY <2>1 DEF BuildParses
  <2>2. CASE BuildFindsPages
    BY <2>2 DEF BuildFindsPages, BuildGoto
  <2>3. CASE BuildFindsOrphans
    BY <2>3 DEF BuildFindsOrphans
  <2>4. CASE BuildReadsPages
    BY <2>4 DEF BuildReadsPages, BuildGoto
  <2>5. CASE BuildReadsToolchain
    BY <2>5 DEF BuildReadsToolchain, BuildGoto
  <2>6. CASE BuildWrites
    <3>1. /\ at[Build] \in 1 .. 5 /\ at'[Build] = at[Build] + 1
          /\ bpc = "writing" /\ bpc' = IF at[Build] = 5 THEN "ok" ELSE "writing"
          /\ out' = [out EXCEPT ![Outputs[at[Build]]] = ContentOf(Outputs[at[Build]], bsrc)]
          /\ bsrc' = bsrc /\ doubt' = doubt
      BY <2>6 DEF BuildWrites, BuildGoto
    <3> SUFFICES ASSUME Build \notin doubt
                 PROVE  \A k \in 1 .. 5 : bpc' = "ok" \/ k < at'[Build] =>
                          out'[Outputs[k]] = ContentOf(Outputs[k], src)'
      BY <3>1
    <3>2. \A k \in 1 .. 5 : ContentOf(Outputs[k], src)' = ContentOf(Outputs[k], src)
      BY DEF ContentOf
    <3>3. \A k \in 1 .. 5 : k < at[Build] => out'[Outputs[k]] = ContentOf(Outputs[k], src)
      BY <3>1
    <3>4. out'[Outputs[at[Build]]] = ContentOf(Outputs[at[Build]], src)
      BY <3>1
    <3> QED
      BY <3>1, <3>2, <3>3, <3>4
  <2>7. CASE BuildFails
    BY <2>7 DEF BuildFails, BuildGoto
  <2>8. CASE Rebuild
    BY <2>8 DEF Rebuild
  <2> QED
    BY <2>1, <2>2, <2>3, <2>4, <2>5, <2>6, <2>7, <2>8 DEF BuildStep
<1>7. BuildIsWhole'
  BY <1>6, WholeInTheEnd, PTL
<1>8. NamesAreRead'
  <2> USE <1>1, <1>2, OutputFacts, RunFacts DEF TypeOK, build, NamesAreRead
  <2> USE DEF CrossChecked
  <2>1. CASE BuildParses
    BY <2>1 DEF BuildParses
  <2>2. CASE BuildFindsPages
    BY <2>2 DEF BuildFindsPages, BuildGoto
  <2>3. CASE BuildFindsOrphans
    BY <2>3 DEF BuildFindsOrphans
  <2>4. CASE BuildReadsPages
    BY <2>4 DEF BuildReadsPages, BuildGoto
  <2>5. CASE BuildReadsToolchain
    BY <2>5 DEF BuildReadsToolchain, BuildGoto
  <2>6. CASE BuildWrites
    <3>1. /\ at[Build] \in 1 .. 5 /\ at'[Build] = at[Build] + 1
          /\ bpc = "writing" /\ bpc' = IF at[Build] = 5 THEN "ok" ELSE "writing"
          /\ out' = [out EXCEPT ![Outputs[at[Build]]] = ContentOf(Outputs[at[Build]], bsrc)]
          /\ bsrc' = bsrc
      BY <2>6 DEF BuildWrites, BuildGoto
    <3>2. Outputs[2] = "lint_names" /\ "lint_names" \in DOMAIN out
      BY DEF Outputs
    <3>3. CASE at[Build] = 1
      BY <3>1, <3>3
    <3>4. CASE at[Build] = 2
      <4>1. ContentOf("lint_names", bsrc) = RegisteredIn(bsrc)
        BY DEF ContentOf
      <4> QED
        BY <3>1, <3>2, <3>4, <4>1
    <3>5. CASE at[Build] > 2
      <4>1. Outputs[at[Build]] # "lint_names"
        BY <3>1, <3>2, <3>5
      <4> QED
        BY <3>1, <3>5, <4>1
    <3> QED
      BY <3>1, <3>3, <3>4, <3>5
  <2>7. CASE BuildFails
    BY <2>7 DEF BuildFails, BuildGoto
  <2>8. CASE Rebuild
    BY <2>8 DEF Rebuild
  <2> QED
    BY <2>1, <2>2, <2>3, <2>4, <2>5, <2>6, <2>7, <2>8 DEF BuildStep
<1> QED
  BY <1>3, <1>5, <1>6, <1>7, <1>8 DEF RegistryInv, GensOK

-----------------------------------------------------------------------------
\* The steps of generate-lint-docs.

GenStep(g) ==
  \/ GenStarts(g) \/ GenTruncates(g) \/ GenWrites(g)
  \/ GenCompares(g) \/ GenVerdict(g) \/ GenFails(g)

\* What the generator shares with the build script, it leaves alone; what it
\* writes is typed.
LEMMA GenFrame ==
  ASSUME TypeOK, NEW g \in Gens, GenStep(g)
  PROVE  /\ UNCHANGED <<src, pages, channel, out, bpc, bsrc>>
         /\ at'[Build] = at[Build] /\ doubt \subseteq doubt'
         /\ doubt' \cap {Build} = doubt \cap {Build}
         /\ \A h \in Gens \ {g} : /\ gpc'[h] = gpc[h] /\ gsrc'[h] = gsrc[h]
                                  /\ stale'[h] = stale[h] /\ at'[h] = at[h]
<1> USE RunFacts DEF TypeOK, tree, build, GenGoto
<1>1. CASE GenStarts(g)
  BY <1>1 DEF GenStarts
<1>2. CASE GenTruncates(g)
  BY <1>2 DEF GenTruncates
<1>3. CASE GenWrites(g)
  BY <1>3 DEF GenWrites
<1>4. CASE GenCompares(g)
  BY <1>4 DEF GenCompares
<1>5. CASE GenVerdict(g)
  BY <1>5 DEF GenVerdict
<1>6. CASE GenFails(g)
  BY <1>6 DEF GenFails
<1> QED
  BY <1>1, <1>2, <1>3, <1>4, <1>5, <1>6 DEF GenStep

\* A step of a generator keeps the types.
LEMMA GenTypes ==
  ASSUME TypeOK, NEW g \in Gens, GenStep(g)
  PROVE  TypeOK'
<1> USE RunFacts, DocumentFacts, RegistryAssumption DEF TypeOK, tree, build, GenGoto
<1>1. CASE GenStarts(g)
  BY <1>1 DEF GenStarts
<1>2. CASE GenTruncates(g)
  BY <1>2 DEF GenTruncates
<1>3. CASE GenWrites(g)
  BY <1>3 DEF GenWrites
<1>4. CASE GenCompares(g)
  BY <1>4 DEF GenCompares
<1>5. CASE GenVerdict(g)
  BY <1>5 DEF GenVerdict
<1>6. CASE GenFails(g)
  BY <1>6 DEF GenFails
<1> QED
  BY <1>1, <1>2, <1>3, <1>4, <1>5, <1>6 DEF GenStep

\* A new run has read lib.rs just now.  Others are in doubt from now on if it
\* writes; if others write, it is.
LEMMA StartKeeps ==
  ASSUME TypeOK, GensOK, NEW g \in Gens, GenStarts(g)
  PROVE  GensOK'
<1>1. /\ gpc[g] = "idle" /\ gsrc' = [gsrc EXCEPT ![g] = src]
      /\ at' = [at EXCEPT ![g] = 1] /\ docs' = docs /\ stale' = stale /\ src' = src
  BY DEF GenStarts, tree
<1>2. \/ /\ gpc' = [gpc EXCEPT ![g] = "truncating"]
         /\ doubt' = doubt \cup {p \in Gens : Active(p)} \cup
                       (IF Writers = {} THEN {} ELSE {g})
      \/ /\ gpc' = [gpc EXCEPT ![g] = "comparing"]
         /\ doubt' = IF Writers = {} THEN doubt ELSE doubt \cup {g}
  BY DEF GenStarts, GenGoto
<1>3. /\ gpc'[g] \in {"truncating", "comparing"} /\ gsrc'[g] = src /\ at'[g] = 1
      /\ stale[g] = {}
  BY <1>1, <1>2, RunFacts DEF TypeOK
<1>4. \A h \in Gens \ {g} : gpc'[h] = gpc[h] /\ gsrc'[h] = gsrc[h] /\ at'[h] = at[h]
  BY <1>1, <1>2, RunFacts DEF TypeOK
<1>5. doubt \subseteq doubt' /\ (g \notin doubt' => Writers = {})
  BY <1>2
<1>6. \A h \in (Gens \ doubt') \ {g} : Active(h) => gpc'[g] = "comparing"
  BY <1>2, RunFacts DEF TypeOK
<1>7. \A h \in Gens \ {g} : Active(h)' <=> Active(h)
  BY <1>4, RunFacts DEF Active
<1>8. UndisturbedRuns'
  <2> SUFFICES ASSUME NEW h \in Gens \ doubt', Active(h)'
               PROVE  gsrc'[h] = src' /\ Writers' \subseteq {h}
    BY DEF UndisturbedRuns
  <2>1. CASE h = g
    <3>1. \A p \in Gens \ {g} : gpc'[p] \notin {"truncating", "writing"}
      BY <1>4, <1>5, <2>1 DEF Writers
    <3> QED
      BY <1>1, <1>3, <2>1, <3>1 DEF Writers
  <2>2. CASE h # g
    <3>1. Active(h) /\ h \notin doubt /\ gpc'[g] = "comparing"
      BY <1>5, <1>6, <1>7, <2>2
    <3>2. gsrc[h] = src /\ Writers \subseteq {h}
      BY <3>1 DEF GensOK, UndisturbedRuns
    <3>3. Writers' = Writers
      BY <1>1, <1>4, <3>1 DEF Writers
    <3> QED
      BY <1>1, <1>4, <2>2, <3>2, <3>3
  <2> QED
    BY <2>1, <2>2
<1>9. WrittenSoFar'
  BY <1>1, <1>3, <1>4, <1>5 DEF GensOK, WrittenSoFar
<1>10. ComparedSoFar'
  BY <1>1, <1>3, <1>4, <1>5, DocumentFacts DEF GensOK, ComparedSoFar, Stale, Normalised
<1> QED
  BY <1>8, <1>9, <1>10 DEF GensOK

\* Only the run that writes, if any, is in no doubt.
LEMMA WriterSteps ==
  ASSUME TypeOK, GensOK, NEW g \in Gens, gpc[g] \in {"truncating", "writing"},
         src' = src, gsrc' = gsrc, doubt' = doubt,
         \A h \in Gens \ {g} : gpc'[h] = gpc[h]
  PROVE  /\ UndisturbedRuns'
         /\ \A h \in Gens \ doubt' : gpc'[h] \notin {"idle", "done"} => h = g
<1>1. \A h \in Gens \ doubt : gpc[h] \notin {"idle", "done"} => h = g
  BY Alone
<1>2. \A h \in Gens \ doubt' : gpc'[h] \notin {"idle", "done"} => h = g
  BY <1>1
<1>3. ASSUME NEW h \in Gens \ doubt', Active(h)'
      PROVE  gsrc'[h] = src' /\ Writers' \subseteq {h}
  <2>1. h = g
    BY <1>2, <1>3, RunFacts DEF Active
  <2>2. gsrc[g] = src /\ Writers \subseteq {g}
    BY <2>1, RunFacts DEF GensOK, UndisturbedRuns, Active
  <2>3. Writers' \subseteq {g}
    BY <2>2 DEF Writers
  <2> QED
    BY <2>1, <2>2, <2>3
<1> QED
  BY <1>2, <1>3 DEF UndisturbedRuns

\* A writer truncates the document it is at, and none it is past.
LEMMA TruncateKeeps ==
  ASSUME TypeOK, GensOK, NEW g \in Gens, GenTruncates(g)
  PROVE  GensOK'
<1>1. /\ gpc[g] = "truncating" /\ gpc' = [gpc EXCEPT ![g] = "writing"]
      /\ docs' = [docs EXCEPT ![Documents[at[g]]] = Torn]
      /\ src' = src /\ at' = at /\ gsrc' = gsrc /\ stale' = stale /\ doubt' = doubt
  BY DEF GenTruncates, GenGoto, tree
<1>2. at[g] \in 1 .. 3 /\ gpc'[g] = "writing" /\ \A h \in Gens \ {g} : gpc'[h] = gpc[h]
  BY <1>1, DocumentFacts DEF TypeOK
<1>3. /\ UndisturbedRuns'
      /\ \A h \in Gens \ doubt' : gpc'[h] \notin {"idle", "done"} => h = g
  BY <1>1, <1>2, WriterSteps
<1>4. \A k \in 1 .. at[g] - 1 : docs'[Documents[k]] = docs[Documents[k]]
  BY <1>1, <1>2, DocumentFacts
<1>5. WrittenSoFar'
  BY <1>1, <1>2, <1>3, <1>4 DEF GensOK, WrittenSoFar
<1>6. ComparedSoFar'
  BY <1>2, <1>3 DEF ComparedSoFar
<1> QED
  BY <1>3, <1>5, <1>6 DEF GensOK

\* A run in no doubt has written what it generates of the lib.rs there is.
LEMMA WrittenNow ==
  ASSUME TypeOK, GensOK, NEW g \in Gens \ doubt, GenWrites(g), NEW k \in 1 .. at[g]
  PROVE  docs'[Documents[k]] = [rows |-> Generated(Documents[k], src), crlf |-> FALSE]
<1> DEFINE file == Documents[at[g]]
<1>1. /\ gpc[g] = "writing"
      /\ docs' = [docs EXCEPT ![file] = [rows |-> Generated(file, gsrc[g]), crlf |-> FALSE]]
  BY DEF GenWrites
<1>2. at[g] \in 1 .. 3
  BY <1>1, DocumentFacts DEF TypeOK
<1>3. gsrc[g] = src
  BY <1>1, RunFacts DEF GensOK, UndisturbedRuns, Active
<1>4. file \in DOMAIN docs
  BY <1>2, DocumentFacts DEF TypeOK
<1>5. CASE k = at[g]
  BY <1>1, <1>3, <1>4, <1>5
<1>6. CASE k # at[g]
  <2>1. k \in 1 .. at[g] - 1 /\ Documents[k] # file
    BY <1>2, <1>6, DocumentFacts
  <2> QED
    BY <1>1, <2>1 DEF GensOK, WrittenSoFar
<1> QED
  BY <1>5, <1>6

\* It is past a document when that holds what it generates.
LEMMA WriteKeeps ==
  ASSUME TypeOK, GensOK, NEW g \in Gens, GenWrites(g)
  PROVE  GensOK'
<1> DEFINE file == Documents[at[g]]
           written == [rows |-> Generated(file, gsrc[g]), crlf |-> FALSE]
<1>1. /\ gpc[g] = "writing"
      /\ gpc' = [gpc EXCEPT ![g] = IF at[g] = 3 THEN "done" ELSE "truncating"]
      /\ docs' = [docs EXCEPT ![file] = written]
      /\ at' = [at EXCEPT ![g] = @ + 1]
      /\ src' = src /\ gsrc' = gsrc /\ stale' = stale /\ doubt' = doubt
  BY DocumentFacts DEF GenWrites, GenGoto, tree
<1>2. /\ at[g] \in 1 .. 3 /\ at'[g] = at[g] + 1
      /\ gpc'[g] \in {"truncating", "done"}
      /\ \A h \in Gens \ {g} : gpc'[h] = gpc[h]
  BY <1>1, DocumentFacts, RunFacts DEF TypeOK
<1>3. /\ UndisturbedRuns'
      /\ \A h \in Gens \ doubt' : gpc'[h] \notin {"idle", "done"} => h = g
  BY <1>1, <1>2, WriterSteps
<1>4. g \notin doubt => \A k \in 1 .. at[g] :
        docs'[Documents[k]] = [rows |-> Generated(Documents[k], src), crlf |-> FALSE]
  BY WrittenNow
<1>5. WrittenSoFar'
  BY <1>1, <1>2, <1>3, <1>4 DEF WrittenSoFar
<1>6. ComparedSoFar'
  BY <1>2, <1>3 DEF ComparedSoFar
<1> QED
  BY <1>3, <1>5, <1>6 DEF GensOK

\* A step of one run that writes nothing and starts nothing disturbs no other.
LEMMA OthersKept ==
  ASSUME TypeOK, GensOK, NEW g \in Gens, gpc[g] \notin {"idle", "done"},
         src' = src, docs' = docs, gsrc' = gsrc, doubt' = doubt,
         gpc'[g] \in {gpc[g], "done"},
         \A h \in Gens \ {g} : gpc'[h] = gpc[h] /\ at'[h] = at[h] /\ stale'[h] = stale[h]
  PROVE  /\ UndisturbedRuns'
         /\ \A h \in (Gens \ doubt') \ {g} :
              /\ gpc'[h] \in {"truncating", "writing"} =>
                   \A k \in 1 .. at'[h] - 1 :
                     docs'[Documents[k]] = [rows |-> Generated(Documents[k], src'), crlf |-> FALSE]
              /\ gpc'[h] = "comparing" =>
                   \A k \in DOMAIN Documents :
                     Documents[k] \in stale'[h] <=> k < at'[h] /\ Stale(Documents[k], src)'
<1>1. Writers' \subseteq Writers
  BY DEF Writers
<1>2. \A h \in Gens : Active(h)' => Active(h)
  BY RunFacts DEF Active
<1>3. UndisturbedRuns'
  BY <1>1, <1>2 DEF GensOK, UndisturbedRuns
<1> QED
  BY <1>3 DEF GensOK, WrittenSoFar, ComparedSoFar, Stale, Normalised

\* A check notes a document that is stale, and no other.
LEMMA CompareKeeps ==
  ASSUME TypeOK, GensOK, NEW g \in Gens, GenCompares(g)
  PROVE  GensOK'
<1> DEFINE file == Documents[at[g]]
<1>1. /\ gpc[g] = "comparing" /\ at[g] <= 3
      /\ stale' = [stale EXCEPT ![g] = IF Stale(file, gsrc[g]) THEN @ \cup {file} ELSE @]
      /\ at' = [at EXCEPT ![g] = @ + 1]
      /\ src' = src /\ docs' = docs /\ gsrc' = gsrc /\ doubt' = doubt /\ gpc' = gpc
  BY DocumentFacts DEF GenCompares, tree
<1>2. /\ at[g] \in 1 .. 3 /\ at'[g] = at[g] + 1
      /\ stale'[g] = IF Stale(file, gsrc[g]) THEN stale[g] \cup {file} ELSE stale[g]
      /\ \A h \in Gens \ {g} : at'[h] = at[h] /\ stale'[h] = stale[h]
  BY <1>1, DocumentFacts, RunFacts DEF TypeOK
<1>3. /\ UndisturbedRuns'
      /\ \A h \in (Gens \ doubt') \ {g} :
           /\ gpc'[h] \in {"truncating", "writing"} =>
                \A k \in 1 .. at'[h] - 1 :
                  docs'[Documents[k]] = [rows |-> Generated(Documents[k], src'), crlf |-> FALSE]
           /\ gpc'[h] = "comparing" =>
                \A k \in DOMAIN Documents :
                  Documents[k] \in stale'[h] <=> k < at'[h] /\ Stale(Documents[k], src)'
  BY <1>1, <1>2, OthersKept
<1>4. WrittenSoFar'
  BY <1>1, <1>3 DEF WrittenSoFar
<1>5. ASSUME g \notin doubt, NEW k \in 1 .. 3
      PROVE  Documents[k] \in stale'[g] <=> k < at'[g] /\ Stale(Documents[k], src)'
  <2>1. gsrc[g] = src
    BY <1>1, <1>5, RunFacts DEF GensOK, UndisturbedRuns, Active
  <2>2. Documents[k] \in stale[g] <=> k < at[g] /\ Stale(Documents[k], src)
    BY <1>1, <1>5, DocumentFacts DEF GensOK, ComparedSoFar
  <2>3. Stale(Documents[k], src)' <=> Stale(Documents[k], src)
    BY <1>1 DEF Stale, Normalised
  <2>4. CASE k = at[g]
    BY <1>2, <2>1, <2>2, <2>3, <2>4
  <2>5. CASE k # at[g]
    <3>1. Documents[k] # file /\ (k < at'[g] <=> k < at[g])
      BY <1>2, <2>5, DocumentFacts
    <3> QED
      BY <1>2, <2>2, <2>3, <3>1
  <2> QED
    BY <2>4, <2>5
<1>6. ComparedSoFar'
  BY <1>1, <1>3, <1>5, DocumentFacts DEF ComparedSoFar
<1> QED
  BY <1>3, <1>4, <1>6 DEF GensOK

\* A run that has ended is past or within no document.
LEMMA EndKeeps ==
  ASSUME TypeOK, GensOK, NEW g \in Gens, GenVerdict(g) \/ GenFails(g)
  PROVE  GensOK'
<1>1. /\ gpc[g] \notin {"idle", "done"} /\ gpc' = [gpc EXCEPT ![g] = "done"]
      /\ src' = src /\ docs' = docs /\ gsrc' = gsrc /\ doubt' = doubt
      /\ at' = at /\ stale' = stale
  BY RunFacts DEF GenVerdict, GenFails, GenGoto, Active, tree
<1>2. gpc'[g] = "done" /\ \A h \in Gens \ {g} : gpc'[h] = gpc[h]
  BY <1>1 DEF TypeOK
<1>3. /\ UndisturbedRuns'
      /\ \A h \in (Gens \ doubt') \ {g} :
           /\ gpc'[h] \in {"truncating", "writing"} =>
                \A k \in 1 .. at'[h] - 1 :
                  docs'[Documents[k]] = [rows |-> Generated(Documents[k], src'), crlf |-> FALSE]
           /\ gpc'[h] = "comparing" =>
                \A k \in DOMAIN Documents :
                  Documents[k] \in stale'[h] <=> k < at'[h] /\ Stale(Documents[k], src)'
  BY <1>1, <1>2, OthersKept
<1>4. WrittenSoFar' /\ ComparedSoFar'
  BY <1>2, <1>3 DEF WrittenSoFar, ComparedSoFar
<1> QED
  BY <1>3, <1>4 DEF GensOK

\* A step of a generator keeps the invariant.
LEMMA GenSteps ==
  ASSUME RegistryInv, NEW g \in Gens, GenStep(g)
  PROVE  RegistryInv'
<1>1. TypeOK /\ GensOK /\ BuildSoFar /\ NamesAreRead
  BY DEF RegistryInv, GensOK
<1>2. TypeOK'
  BY <1>1, GenTypes
<1>3. GensOK'
  BY <1>1, StartKeeps, TruncateKeeps, WriteKeeps, CompareKeeps, EndKeeps DEF GenStep
<1>4. BuildSoFar'
  <2>1. /\ UNCHANGED <<src, pages, channel, out, bpc, bsrc>>
        /\ at'[Build] = at[Build] /\ {Build, Orphan} \cap doubt \subseteq doubt'
    BY <1>1, GenFrame
  <2> QED
    BY <1>1, <2>1, BuildKept
<1>5. BuildIsWhole'
  BY <1>4, WholeInTheEnd, PTL
<1>6. NamesAreRead'
  BY <1>1, GenFrame, NamesKept
<1> QED
  BY <1>2, <1>3, <1>4, <1>5, <1>6 DEF RegistryInv, GensOK

-----------------------------------------------------------------------------
\* Everything else.

\* An edit is a reason for doubt to whatever is under way, and to a build that
\* is done.
LEMMA EditSteps ==
  ASSUME RegistryInv, Edit
  PROVE  RegistryInv'
<1>1. TypeOK /\ GensOK /\ BuildSoFar /\ NamesAreRead
  BY DEF RegistryInv, GensOK
<1>2. /\ channel' = channel /\ out' = out /\ bpc' = bpc /\ bsrc' = bsrc /\ at' = at
      /\ docs' = docs /\ gpc' = gpc /\ gsrc' = gsrc /\ stale' = stale /\ status' = status
      /\ doubt' = doubt \cup {p \in Runs : Active(p)}
                    \cup (IF bpc = "ok" THEN {Build} ELSE {})
  BY DEF Edit, build, gens
<1>4. TypeOK'
  BY <1>1, <1>2, RunFacts DEF TypeOK
<1>5. \A g \in Gens \ doubt' : gpc'[g] \in {"idle", "done"}
  BY <1>2, RunFacts DEF Active
<1>6. GensOK'
  BY <1>5, RunFacts DEF GensOK, UndisturbedRuns, WrittenSoFar, ComparedSoFar, Active
<1>7. BuildSoFar'
  <2>1. Build \notin doubt' => bpc' \in {"idle", "failed"}
    BY <1>2, RunFacts DEF Active
  <2> QED
    BY <2>1 DEF BuildSoFar
<1>8. BuildIsWhole'
  BY <1>7, WholeInTheEnd, PTL
<1>9. NamesAreRead'
  BY <1>1, <1>2, NamesKept
<1> QED
  BY <1>4, <1>6, <1>7, <1>8, <1>9 DEF RegistryInv, GensOK

\* So does reading a configuration, and doing nothing.
LEMMA Stutters ==
  ASSUME RegistryInv, LoadConfig \/ Rest \/ UNCHANGED vars
  PROVE  RegistryInv'
<1>1. TypeOK /\ GensOK /\ BuildSoFar /\ NamesAreRead
  BY DEF RegistryInv, GensOK
<1>2. /\ src' = src /\ pages' = pages /\ channel' = channel
      /\ out' = out /\ bpc' = bpc /\ bsrc' = bsrc /\ at' = at
      /\ docs' = docs /\ gpc' = gpc /\ gsrc' = gsrc /\ stale' = stale /\ status' = status
      /\ doubt' = doubt
  BY DEF LoadConfig, Rest, vars, tree, build, gens
<1>3. TypeOK'
  BY <1>1, <1>2 DEF TypeOK
<1>4. GensOK'
  BY <1>1, <1>2, GensKept
<1>5. BuildSoFar'
  BY <1>1, <1>2, BuildKept
<1>6. BuildIsWhole'
  BY <1>5, WholeInTheEnd, PTL
<1>7. NamesAreRead'
  BY <1>1, <1>2, NamesKept
<1> QED
  BY <1>3, <1>4, <1>5, <1>6, <1>7 DEF RegistryInv, GensOK

\* Before the first run nothing was written and nothing compared.
LEMMA RegistryInvInit == Init => RegistryInv
<1> SUFFICES ASSUME Init
             PROVE  RegistryInv
  OBVIOUS
<1> USE RunFacts, DocumentFacts, OutputFacts, RegistryAssumption
<1>1. PICK w \in Worlds : src = w.src /\ pages = w.pages /\ channel = w.channel
                          /\ docs = w.docs /\ left = w.left
  BY DEF Init
<1>2. TypeOK
  <2>1. DOMAIN docs = ToSet(Documents)
    BY <1>1
  <2> QED
    BY <2>1 DEF Init, TypeOK
<1>3. UndisturbedRuns /\ WrittenSoFar /\ ComparedSoFar
  BY DEF Init, UndisturbedRuns, WrittenSoFar, ComparedSoFar, Active
<1>4. BuildSoFar /\ BuildIsWhole /\ NamesAreRead
  BY DEF Init, BuildSoFar, BuildIsWhole, NamesAreRead
<1> QED
  BY <1>2, <1>3, <1>4 DEF RegistryInv

\* Every step keeps the invariant.
LEMMA RegistryInvNext ==
  ASSUME RegistryInv, [Next]_vars
  PROVE  RegistryInv'
<1>1. CASE BuildStep
  BY <1>1, BuildSteps
<1>2. CASE \E g \in Gens : GenStep(g)
  BY <1>2, GenSteps
<1>3. CASE Edit
  BY <1>3, EditSteps
<1>4. CASE LoadConfig \/ Rest \/ UNCHANGED vars
  BY <1>4, Stutters
<1> QED
  BY <1>1, <1>2, <1>3, <1>4 DEF Next, BuildStep, GenStep

\* The inductive invariant of the build script, the generator and the editors.
THEOREM RegistryInductive == Spec => []RegistryInv
<1> QED
  BY RegistryInvInit, RegistryInvNext, PTL DEF Spec

\* A build that ends well, with nobody editing under it, leaves five files made
\* of one lib.rs, in which both parsers see the same lints, each with a page, and
\* there is no other page if all of them could be listed.
THEOREM BuildWhole == Spec => []BuildIsWhole
<1>1. RegistryInv => BuildIsWhole
  BY DEF RegistryInv
<1> QED
  BY <1>1, RegistryInductive, PTL

\* Documents are up to date exactly when none is stale.
LEMMA NoneIsStale ==
  DocsAreUp <=> \A k \in 1 .. 3 : ~ Stale(Documents[k], src)
BY DocumentFacts DEF DocsAreUp, Stale, Normalised

\* The verdict of a check that nobody disturbs, over any number of other runs
\* and of edits before and after.
THEOREM CheckExact == Spec => CheckIsExact
<1>1. ASSUME RegistryInv, [Next]_vars, NEW g \in Gens \ doubt, GenVerdict(g)
      PROVE  status'[g] = 0 <=> DocsAreUp
  <2>1. /\ gpc[g] = "comparing" /\ at[g] > 3
        /\ status'[g] = IF stale[g] = {} THEN 0 ELSE 1
    BY <1>1, DocumentFacts DEF GenVerdict, RegistryInv, TypeOK
  <2>2. \A k \in 1 .. 3 : Documents[k] \in stale[g] <=> Stale(Documents[k], src)
    <3>1. at[g] \in Nat /\ \A k \in 1 .. 3 : k < at[g]
      BY <1>1, <2>1, RunFacts DEF RegistryInv, TypeOK
    <3>2. \A k \in 1 .. 3 :
            Documents[k] \in stale[g] <=> k < at[g] /\ Stale(Documents[k], src)
      BY <1>1, <2>1, DocumentFacts DEF RegistryInv, ComparedSoFar
    <3> QED
      BY <3>1, <3>2
  <2>3. stale[g] \subseteq ToSet(Documents)
    BY <1>1 DEF RegistryInv, TypeOK
  <2>4. stale[g] = {} <=> \A k \in 1 .. 3 : ~ Stale(Documents[k], src)
    BY <2>2, <2>3, DocumentFacts
  <2> QED
    BY <2>1, <2>4, NoneIsStale
<1>2. RegistryInv /\ [Next]_vars =>
        [\A g \in Gens \ doubt : GenVerdict(g) => (status'[g] = 0 <=> DocsAreUp)]_vars
  BY <1>1
<1> QED
  BY <1>2, RegistryInductive, PTL DEF Spec, CheckIsExact

\* lib.rs is always one of the sources the assumptions are about, and so is what
\* the build has read.
SourceKnown == src \in Sources /\ (bpc # "idle" => bsrc \in Sources)

\* The sources are always one of the possible ones.
LEMMA SourcesAreKnown == Spec => []SourceKnown
<1>1. Init => SourceKnown
  BY DEF Init, SourceKnown, Sources
<1>2. SourceKnown /\ [Next]_vars /\ RegistryInv => SourceKnown'
  <2> SUFFICES ASSUME SourceKnown, [Next]_vars, RegistryInv
               PROVE  SourceKnown'
    OBVIOUS
  <2>1. CASE Edit
    BY <2>1 DEF Edit, SourceKnown, Sources, build
  <2>2. CASE BuildStep
    <3>1. src' = src
      BY <2>2, BuildFrame DEF RegistryInv
    <3>2. CASE BuildParses
      BY <3>1, <3>2 DEF BuildParses, SourceKnown
    <3>3. CASE Rebuild
      BY <3>1, <3>3 DEF Rebuild, SourceKnown
    <3>4. CASE /\ BuildStep /\ ~ BuildParses /\ ~ Rebuild
      <4>1. bsrc' = bsrc
        BY <3>4 DEF BuildStep, BuildFindsPages, BuildFindsOrphans, BuildReadsPages,
           BuildReadsToolchain, BuildWrites, BuildFails, BuildGoto
      <4>2. bpc # "idle"
        BY <3>4, RunFacts DEF BuildStep, BuildFindsPages, BuildFindsOrphans,
           BuildReadsPages, BuildReadsToolchain, BuildWrites, BuildFails, Active
      <4> QED
        BY <3>1, <4>1, <4>2 DEF SourceKnown
    <3> QED
      BY <2>2, <3>2, <3>3, <3>4
  <2>3. CASE \E g \in Gens : GenStep(g)
    BY <2>3, GenFrame DEF SourceKnown, RegistryInv
  <2>4. CASE LoadConfig \/ Rest \/ UNCHANGED vars
    BY <2>4 DEF LoadConfig, Rest, vars, tree, build, SourceKnown
  <2> QED
    BY <2>1, <2>2, <2>3, <2>4 DEF Next, BuildStep, GenStep
<1> QED
  BY <1>1, <1>2, RegistryInductive, PTL DEF Spec

\* A writer that nobody disturbs leaves all three documents up to date.
THEOREM WriterSafe == Spec => WriterLeavesDocsUp
<1>1. ASSUME RegistryInv, SourceKnown, [Next]_vars, NEW g \in Gens \ doubt,
             gpc[g] = "writing", gpc'[g] = "done", status'[g] = 0
      PROVE  DocsAreUp'
  <2>1. TypeOK /\ GensOK
    BY <1>1 DEF RegistryInv, GensOK
  <2>2. CASE GenWrites(g)
    <3>1. at[g] = 3 /\ src' = src
      BY <1>1, <2>1, <2>2, DocumentFacts DEF GenWrites, GenGoto, tree, TypeOK
    <3>2. \A k \in 1 .. 3 :
            docs'[Documents[k]] = [rows |-> Generated(Documents[k], src), crlf |-> FALSE]
      BY <2>1, <2>2, <3>1, WrittenNow
    <3>3. \A f \in ToSet(Documents) :
            /\ docs'[f] = [rows |-> Generated(f, src), crlf |-> FALSE]
            /\ docs'[f] \notin {Missing, Torn}
      <4>1. \A f \in ToSet(Documents) :
              docs'[f] = [rows |-> Generated(f, src), crlf |-> FALSE]
        <5> TAKE f \in ToSet(Documents)
        <5>1. PICK k \in 1 .. 3 : f = Documents[k]
          BY DocumentFacts
        <5> QED
          BY <3>2, <5>1
      <4>2. \A f \in ToSet(Documents) :
              [rows |-> Generated(f, src), crlf |-> FALSE] \notin {Missing, Torn}
        BY <1>1, RegistryAssumption DEF SourceKnown
      <4> QED
        BY <4>1, <4>2
    <3>4. \A f \in ToSet(Documents) : docs'[f].rows = Generated(f, src)
      <4> TAKE f \in ToSet(Documents)
      <4> DEFINE x == [rows |-> Generated(f, src), crlf |-> FALSE]
      <4>1. docs'[f] = x
        BY <3>3
      <4>2. x.rows = Generated(f, src)
        OBVIOUS
      <4> QED
        BY <4>1, <4>2
    <3> QED
      BY <3>1, <3>3, <3>4 DEF DocsAreUp
  <2>3. CASE GenFails(g)
    BY <1>1, <2>1, <2>3 DEF GenFails, TypeOK
  <2>4. CASE BuildStep
    BY <1>1, <2>1, <2>4, BuildFrame
  <2>5. CASE \E h \in Gens \ {g} : GenStep(h)
    BY <1>1, <2>1, <2>5, GenFrame
  <2>6. CASE GenStarts(g) \/ GenTruncates(g) \/ GenCompares(g) \/ GenVerdict(g)
    BY <1>1, <2>6 DEF GenStarts, GenTruncates, GenCompares, GenVerdict
  <2>7. CASE Edit \/ LoadConfig \/ Rest \/ UNCHANGED vars
    BY <1>1, <2>7 DEF Edit, LoadConfig, Rest, vars, gens
  <2> QED
    BY <1>1, <2>2, <2>3, <2>4, <2>5, <2>6, <2>7 DEF Next, BuildStep, GenStep
<1>2. RegistryInv /\ SourceKnown /\ [Next]_vars =>
        [\A g \in Gens \ doubt :
           gpc[g] = "writing" /\ gpc'[g] = "done" /\ status'[g] = 0 => DocsAreUp']_vars
  BY <1>1
<1> QED
  BY <1>2, RegistryInductive, SourcesAreKnown, PTL DEF Spec, WriterLeavesDocsUp

-----------------------------------------------------------------------------
\* The settings of a configuration.

Flag == Config!Flag

\* The keys of a HashMap, in the order of an iteration.
LEMMA OrderOfKeys ==
  ASSUME NEW keys, IsFiniteSet(keys), NEW order \in SetToSeqs(keys)
  PROVE  /\ Len(order) \in Nat /\ Len(order) = Cardinality(keys)
         /\ DOMAIN order = 1 .. Len(order)
         /\ \A i \in 1 .. Len(order) : order[i] \in keys
         /\ \A key \in keys : \E i \in 1 .. Len(order) : order[i] = key
<1> DEFINE n == Cardinality(keys)
<1>1. n \in Nat
  BY FS_CardinalityType
<1>2. order \in [1 .. n -> keys] /\ \A i, j \in 1 .. n : i # j => order[i] # order[j]
  BY DEF SetToSeqs
<1>3. order \in Injection(1 .. n, keys)
  BY <1>2 DEF Injection, IsInjective
<1>4. Cardinality(1 .. n) = n
  BY <1>1, FS_Interval
<1>5. order \in Surjection(1 .. n, keys)
  BY <1>3, <1>4, FS_Injection
<1>6. Len(order) = n
  BY <1>1, <1>2
<1> QED
  BY <1>1, <1>2, <1>5, <1>6 DEF Surjection

\* Where every level is one of the three there is a flag for each entry, in the
\* order of iteration.
LEMMA FlagsOfAll ==
  ASSUME NEW lints, lints # Missing, NEW order, Len(order) \in Nat,
         \A i \in 1 .. Len(order) : lints[order[i]] \in DOMAIN Flag
  PROVE  Config!to_lint_flags(lints, order) =
           [i \in 1 .. Len(order) |-> [prefix |-> Flag[lints[order[i]]],
                                       lint   |-> order[i]]]
<1> DEFINE n == Len(order)
           One(i) == [prefix |-> Flag[lints[order[i]]], lint |-> order[i]]
           All(i) == [j \in 1 .. i |-> One(j)]
           Step(f, i) == IF i = 0 THEN <<>>
                         ELSE IF lints[order[i]] \in DOMAIN Flag
                              THEN Append(f[i - 1], One(i))
                              ELSE f[i - 1]
           Made(f) == f = [i \in 0 .. n |-> Step(f, i)]
           p == CHOOSE f : Made(f)
           full == [i \in 0 .. n |-> All(i)]
<1>1. \A i \in 1 .. n : Append(All(i - 1), One(i)) = All(i)
  <2> SUFFICES ASSUME NEW i \in 1 .. n PROVE Append(All(i - 1), One(i)) = All(i)
    OBVIOUS
  <2> HIDE DEF One
  <2>1. i - 1 \in Nat /\ (i - 1) + 1 = i
    OBVIOUS
  <2> QED
    BY <2>1
<1>2. All(0) = <<>>
  OBVIOUS
<1> HIDE DEF One
<1>3. \A i \in 0 .. n : Step(full, i) = full[i]
  <2> SUFFICES ASSUME NEW i \in 0 .. n PROVE Step(full, i) = full[i]
    OBVIOUS
  <2>1. CASE i = 0
    BY <1>2, <2>1
  <2>2. CASE i # 0
    <3>1. i \in 1 .. n /\ i - 1 \in 0 .. n
      BY <2>2
    <3>2. full[i - 1] = All(i - 1) /\ full[i] = All(i)
      BY <3>1
    <3> HIDE DEF All, full
    <3> QED
      BY <1>1, <2>2, <3>1, <3>2
  <2> QED
    BY <2>1, <2>2
<1>4. Made(full)
  <2>1. full = [i \in 0 .. n |-> full[i]]
    OBVIOUS
  <2> HIDE DEF Step, full
  <2> QED
    BY <1>3, <2>1
<1> HIDE DEF full
<1>5. Made(p)
  BY <1>4
<1>6. Config!to_lint_flags(lints, order) = p[n]
  BY DEF Config!to_lint_flags, One, Flag
<1> HIDE DEF p
<1>7. \A i \in 0 .. n : p[i] = Step(p, i)
  BY <1>5
<1> DEFINE bad == {i \in 0 .. n : p[i] # All(i)}
<1>8. bad = {}
  <2> SUFFICES ASSUME bad # {} PROVE FALSE
    OBVIOUS
  <2>1. PICK i \in bad : \A k \in bad : i <= k
    <3>1. bad \subseteq Nat
      OBVIOUS
    <3> HIDE DEF bad
    <3> QED
      BY <3>1, LeastNat
  <2>2. i # 0
    <3>1. 0 \in 0 .. n /\ p[0] = All(0)
      BY <1>2, <1>7
    <3> QED
      BY <2>1, <3>1
  <2>3. i \in 1 .. n /\ i - 1 \in 0 .. n /\ ~ i <= i - 1
    BY <2>1, <2>2
  <2>4. p[i - 1] = All(i - 1)
    BY <2>1, <2>3
  <2> HIDE DEF All
  <2>5. p[i] = All(i)
    BY <1>1, <1>7, <2>2, <2>3, <2>4
  <2> QED
    BY <2>1, <2>5
<1>9. p[n] = All(n)
  BY <1>8
<1> QED
  BY <1>6, <1>9 DEF One

\* The keys that LoadConfig iterates over.
KeysOf(file) == IF file.lints \in {Missing, Malformed} THEN {} ELSE DOMAIN file.lints

\* What a validation accepts does not depend on the order of iteration.
LEMMA ValidationIgnoresOrder ==
  ASSUME NEW file, NEW known, IsFiniteSet(KeysOf(file)),
         NEW order \in SetToSeqs(KeysOf(file))
  PROVE  LET result == Config!from_file_validated(file, known, order)
         IN /\ result.ok \in BOOLEAN
            /\ result.ok <=>
                 /\ file.readable /\ file.toml /\ file.lints # Malformed
                 /\ \/ file.lints = Missing
                    \/ \A name \in DOMAIN file.lints :
                         name \in ToSet(known) /\ file.lints[name] \in DOMAIN Flag
            /\ result.lints = IF result.ok THEN file.lints ELSE Missing
<1> DEFINE result == Config!from_file_validated(file, known, order)
           Bad(name) == Config!Refused(file.lints, name, known)
           faults == {i \in DOMAIN order : Bad(order[i])}
           Right(r) ==
             /\ r.ok \in BOOLEAN
             /\ r.ok <=>
                  /\ file.readable /\ file.toml /\ file.lints # Malformed
                  /\ \/ file.lints = Missing
                     \/ \A name \in DOMAIN file.lints :
                          name \in ToSet(known) /\ file.lints[name] \in DOMAIN Flag
             /\ r.lints = IF r.ok THEN file.lints ELSE Missing
<1>1. /\ DOMAIN order = 1 .. Len(order)
      /\ \A i \in 1 .. Len(order) : order[i] \in KeysOf(file)
      /\ \A key \in KeysOf(file) : \E i \in 1 .. Len(order) : order[i] = key
  BY OrderOfKeys
<1>2. faults = {} <=> \A name \in KeysOf(file) : ~ Bad(name)
  <2> HIDE DEF Bad
  <2> QED
    BY <1>1
<1>3. \A name : Bad(name) <=> ~ (name \in ToSet(known) /\ file.lints[name] \in DOMAIN Flag)
  BY DEF Config!Refused, Config!build_lint_name_set, Config!ToSet, ToSet, Flag
<1>4. \A lints : Config!Accepted(lints).ok = TRUE /\ Config!Accepted(lints).lints = lints
  BY DEF Config!Accepted
<1>5. \A error : Config!Rejected(error).ok = FALSE /\ Config!Rejected(error).lints = Missing
  BY DEF Config!Rejected
<1>6. result = IF ~ file.readable THEN Config!Rejected("read")
               ELSE IF ~ file.toml \/ file.lints = Malformed THEN Config!Rejected("parse")
               ELSE IF file.lints = Missing THEN Config!Accepted(Missing)
               ELSE IF faults = {} THEN Config!Accepted(file.lints)
               ELSE Config!Rejected(Config!EntryError(order[Config!Min(faults)], known))
  BY DEF Config!from_file_validated
<1> HIDE DEF result, Bad, faults
<1>7. ASSUME ~ file.readable \/ ~ file.toml \/ file.lints = Malformed
      PROVE  Right(result)
  BY <1>5, <1>6, <1>7
<1>8. ASSUME file.readable, file.toml, file.lints # Malformed, file.lints = Missing
      PROVE  Right(result)
  BY <1>4, <1>6, <1>8
<1>9. ASSUME file.readable, file.toml, file.lints # Malformed, file.lints # Missing
      PROVE  Right(result)
  <2>1. KeysOf(file) = DOMAIN file.lints
    BY <1>9 DEF KeysOf
  <2>2. CASE faults = {}
    BY <1>2, <1>3, <1>4, <1>6, <1>9, <2>1, <2>2
  <2>3. CASE faults # {}
    BY <1>2, <1>3, <1>5, <1>6, <1>9, <2>1, <2>3
  <2> QED
    BY <2>2, <2>3
<1> QED
  BY <1>7, <1>8, <1>9 DEF result

\* The flags of settings that were all accepted are one for each setting.
LEMMA FlagsOfAccepted ==
  ASSUME NEW lints, lints # Missing, IsFiniteSet(DOMAIN lints),
         NEW order \in SetToSeqs(DOMAIN lints),
         \A name \in DOMAIN lints : lints[name] \in DOMAIN Flag
  PROVE  LET flags == Config!to_lint_flags(lints, order)
         IN /\ {f.lint : f \in ToSet(flags)} = DOMAIN lints
            /\ Len(flags) = Cardinality(DOMAIN lints)
<1> DEFINE flags == Config!to_lint_flags(lints, order)
           n == Len(order)
           One(i) == [prefix |-> Flag[lints[order[i]]], lint |-> order[i]]
<1>1. /\ n \in Nat /\ n = Cardinality(DOMAIN lints)
      /\ \A i \in 1 .. n : order[i] \in DOMAIN lints
      /\ \A key \in DOMAIN lints : \E i \in 1 .. n : order[i] = key
  BY OrderOfKeys
<1>2. flags = [i \in 1 .. n |-> One(i)]
  BY <1>1, FlagsOfAll
<1> HIDE DEF flags
<1>3. Len(flags) = n /\ DOMAIN flags = 1 .. n
  BY <1>1, <1>2
<1>4. \A i \in 1 .. n : flags[i].lint = order[i]
  <2> TAKE i \in 1 .. n
  <2>1. flags[i] = One(i)
    BY <1>2
  <2>2. One(i).lint = order[i]
    OBVIOUS
  <2> QED
    BY <2>1, <2>2
<1>5. ToSet(flags) = {flags[i] : i \in 1 .. n}
  BY <1>3 DEF ToSet
<1>6. {f.lint : f \in ToSet(flags)} = {order[i] : i \in 1 .. n}
  BY <1>4, <1>5
<1>7. {order[i] : i \in 1 .. n} = DOMAIN lints
  BY <1>1
<1> QED
  BY <1>1, <1>3, <1>6, <1>7 DEF flags

\* What one reading of a configuration gives.
LEMMA LoadSettles ==
  ASSUME RegistryInv, SourceKnown, LoadConfig
  PROVE  AcceptedSettingsBecomeFlags'
<1> DEFINE Loaded(file, first, second) ==
             LET result == Config!from_file_validated(file, out["lint_names"], first)
             IN [file    |-> file,
                 lints   |-> NamesOf(bsrc.declares),
                 known   |-> out["lint_names"],
                 result  |-> result,
                 flags   |-> Config!to_lint_flags(result.lints, second),
                 lenient |-> Config!parse_config(file)]
<1>0. PICK file \in Configs :
        \E first, second \in SetToSeqs(KeysOf(file)) : loaded' = Loaded(file, first, second)
  BY DEF LoadConfig, KeysOf
<1>1. PICK first \in SetToSeqs(KeysOf(file)), second \in SetToSeqs(KeysOf(file)) :
        loaded' = Loaded(file, first, second)
  BY <1>0
<1> DEFINE known == out["lint_names"]
           result == Config!from_file_validated(file, known, first)
           flags == Config!to_lint_flags(result.lints, second)
           lints == file.lints
           Names == {f.lint : f \in ToSet(flags)}
<1> HIDE DEF result, flags
<1>2. /\ loaded'.file = file /\ loaded'.lints = NamesOf(bsrc.declares)
      /\ loaded'.known = known /\ loaded'.result = result /\ loaded'.flags = flags
  BY <1>1 DEF result, flags
<1>3. IsFiniteSet(KeysOf(file))
  BY ConfigAssumption, FS_EmptySet DEF KeysOf
<1>4. /\ result.ok \in BOOLEAN
      /\ result.ok <=>
           /\ file.readable /\ file.toml /\ lints # Malformed
           /\ \/ lints = Missing
              \/ \A name \in DOMAIN lints :
                   name \in ToSet(known) /\ lints[name] \in DOMAIN Flag
      /\ result.lints = IF result.ok THEN lints ELSE Missing
  BY <1>3, ValidationIgnoresOrder DEF result
<1>5. DOMAIN Flag = {"allow", "warn", "deny"}
  BY DEF Flag, Config!Flag
<1>6. ToSet(known) \subseteq NamesOf(bsrc.declares)
  <2>1. bpc = "ok" /\ bsrc \in Sources /\ CrossChecked(bsrc) /\ known = RegisteredIn(bsrc)
    BY DEF LoadConfig, RegistryInv, NamesAreRead, SourceKnown
  <2> QED
    BY <2>1, SourceAssumption
<1>7. ASSUME result.lints = Missing
      PROVE  flags = <<>> /\ Names = {} /\ Len(flags) = 0
  <2>1. flags = <<>>
    BY <1>7 DEF flags, Config!to_lint_flags
  <2> QED
    BY <2>1 DEF ToSet
<1>8. ASSUME result.ok, lints # Missing
      PROVE  Names = DOMAIN lints /\ Len(flags) = Cardinality(Names)
  <2>1. KeysOf(file) = DOMAIN lints /\ result.lints = lints
    BY <1>4, <1>8 DEF KeysOf
  <2>2. \A name \in DOMAIN lints : lints[name] \in DOMAIN Flag
    BY <1>4, <1>8
  <2> QED
    BY <1>3, <1>8, <2>1, <2>2, FlagsOfAccepted DEF flags
<1>9. /\ result.ok => /\ Names = IF lints = Missing THEN {} ELSE DOMAIN lints
                      /\ Len(flags) = Cardinality(Names)
                      /\ Names \subseteq NamesOf(bsrc.declares)
      /\ ~ result.ok => flags = <<>>
  <2>1. CASE ~ result.ok
    BY <1>4, <1>7, <2>1
  <2>2. CASE result.ok /\ lints = Missing
    <3>1. Names = {} /\ Len(flags) = 0
      BY <1>4, <1>7, <2>2
    <3> QED
      BY <2>2, <3>1, FS_EmptySet
  <2>3. CASE result.ok /\ lints # Missing
    <3>1. \A name \in DOMAIN lints : name \in NamesOf(bsrc.declares)
      BY <1>4, <1>6, <2>3
    <3> QED
      BY <1>8, <2>3, <3>1
  <2> QED
    BY <2>1, <2>2, <2>3
<1> HIDE DEF Names, known, lints
<1> QED
  BY <1>2, <1>4, <1>5, <1>9 DEF AcceptedSettingsBecomeFlags, Names, known, lints

\* Whatever order the HashMap of a configuration is iterated in, and in another
\* one for its flags, what is accepted becomes one flag for each setting, each
\* for a lint that rustc declares.
THEOREM SettingsBecomeFlags == Spec => []AcceptedSettingsBecomeFlags
<1>1. Init => AcceptedSettingsBecomeFlags
  BY DEF Init, AcceptedSettingsBecomeFlags
<1>2. AcceptedSettingsBecomeFlags /\ RegistryInv /\ SourceKnown /\ [Next]_vars
        => AcceptedSettingsBecomeFlags'
  <2> SUFFICES ASSUME AcceptedSettingsBecomeFlags, RegistryInv, SourceKnown, [Next]_vars
               PROVE  AcceptedSettingsBecomeFlags'
    OBVIOUS
  <2>1. CASE LoadConfig
    BY <2>1, LoadSettles
  <2>2. CASE loaded' = loaded
    BY <2>2 DEF AcceptedSettingsBecomeFlags
  <2>3. LoadConfig \/ loaded' = loaded
    BY DEF Next, vars, Edit, Rest, BuildParses, BuildFindsPages, BuildFindsOrphans,
       BuildReadsPages, BuildReadsToolchain, BuildWrites, BuildFails, Rebuild, BuildGoto,
       GenStarts, GenTruncates, GenWrites, GenCompares, GenVerdict, GenFails
  <2> QED
    BY <2>1, <2>2, <2>3
<1> QED
  BY <1>1, <1>2, RegistryInductive, SourcesAreKnown, PTL DEF Spec

-----------------------------------------------------------------------------
\* What a build vouches for.

\* A set of numbers up to n that is not empty has a greatest element.
LEMMA Greatest ==
  ASSUME NEW n \in Nat, NEW T, T \subseteq 1 .. n, T # {}
  PROVE  \E x \in T : \A y \in T : y <= x
<1> DEFINE below == {n - k : k \in T}
<1>1. below \subseteq Nat /\ below # {}
  <2>1. \A k \in T : n - k \in Nat
    <3> TAKE k \in T
    <3>1. k \in 1 .. n
      OBVIOUS
    <3> QED
      BY <3>1
  <2>2. \E k \in T : TRUE
    OBVIOUS
  <2> QED
    BY <2>1, <2>2
<1> HIDE DEF below
<1>2. PICK l \in below : \A k \in below : l <= k
  BY <1>1, LeastNat
<1>3. PICK x \in T : l = n - x
  BY <1>2 DEF below
<1>4. \A y \in T : y <= x
  <2> TAKE y \in T
  <2>1. n - x <= n - y
    BY <1>2, <1>3 DEF below
  <2> QED
    BY <2>1
<1> QED
  BY <1>4

\* It is its maximum.
LEMMA GreatestNat ==
  ASSUME NEW n \in Nat, NEW T, T \subseteq 1 .. n, T # {}
  PROVE  Max(T) \in T
BY Greatest DEF Max

\* The metadata of a registered lint is that of a block with its name.
LEMMA MetaHasName ==
  ASSUME NEW s, CrossChecked(s), NEW D, DeclaredIn(s) \in Seq(D),
         NEW name \in ToSet(RegisteredIn(s))
  PROVE  MetaOf(s, name) \in D /\ MetaOf(s, name).name = name
<1> DEFINE lints == DeclaredIn(s)
           named == {i \in DOMAIN lints : lints[i].name = name}
<1>1. name \in NamesOf(lints)
  BY DEF CrossChecked
<1>2. Len(lints) \in Nat /\ DOMAIN lints = 1 .. Len(lints) /\ \A i \in DOMAIN lints : lints[i] \in D
  OBVIOUS
<1>3. MetaOf(s, name) = lints[Max(named)]
  BY DEF MetaOf
<1> HIDE DEF lints
<1>4. named # {} /\ named \subseteq 1 .. Len(lints)
  BY <1>1, <1>2 DEF NamesOf
<1> HIDE DEF named
<1>5. Max(named) \in named
  BY <1>2, <1>4, GreatestNat
<1> QED
  BY <1>2, <1>3, <1>5 DEF named

\* If the parser of declarations makes of each source what rustc does, a build
\* that ends well, with nobody editing under it, gives exactly the lints that are
\* declared and have a page, each with its own level and description.
THEOREM BuildVouches ==
  ASSUME ParserIsRight
  PROVE  Spec => []BuildVouchesForLints
<1>1. ASSUME BuildIsWhole, SourceKnown
      PROVE  BuildVouchesForLints
  <2> SUFFICES ASSUME bpc = "ok", Build \notin doubt, ~ BracesInStrings(src)
               PROVE  LET names == ToSet(out["lint_names"])
                          infos == ToSet(out["lint_info"])
                      IN /\ infos \subseteq ToSet(src.declares)
                         /\ names = NamesOf(out["lint_info"]) /\ names \subseteq pages
                         /\ Orphan \notin doubt => names = pages
                         /\ ~ HasLine(src, {"openTight"}) => infos = ToSet(src.declares)
                         /\ \A i \in DOMAIN out["lint_info"] :
                              /\ out["lint_names"][i] = out["lint_info"][i].name
                              /\ out["lint_metadata"][i].meta = out["lint_info"][i]
    BY DEF BuildVouchesForLints
  <2> DEFINE known == RegisteredIn(src)
             info == out["lint_info"]
             entries == out["lint_metadata"]
             Meta(name) == MetaOf(src, name)
  <2>1. /\ CrossChecked(src) /\ ToSet(known) \subseteq pages /\ src \in Sources
        /\ Orphan \notin doubt => ToSet(known) = pages
    BY <1>1 DEF BuildIsWhole, SourceKnown
  <2>2. /\ out["lint_names"] = known
        /\ info = [i \in DOMAIN known |-> Meta(known[i])]
        /\ entries = [i \in DOMAIN known |->
                        [meta     |-> Meta(known[i]),
                         category |-> CategoryIn(src, known[i], "Unknown")]]
    <3>1. \A file \in {"lint_names", "lint_info", "lint_metadata"} :
            out[file] = ContentOf(file, src)
      BY <1>1, OutputFacts DEF BuildIsWhole, Outputs, ToSet
    <3> QED
      BY <3>1 DEF ContentOf
  <2>3. /\ DeclaredIn(src) \in Seq(ToSet(src.declares))
        /\ ~ HasLine(src, {"openTight"}) => ToSet(src.declares) \subseteq ToSet(DeclaredIn(src))
    BY <2>1 DEF ParserIsRight
  <2>4. \A name \in ToSet(known) : Meta(name) \in ToSet(src.declares) /\ Meta(name).name = name
    BY <2>1, <2>3, MetaHasName
  <2>5. \A i, j \in DOMAIN src.declares :
          src.declares[i].name = src.declares[j].name => src.declares[i] = src.declares[j]
    BY <2>1, SourceAssumption
  <2>6. ToSet(known) = NamesOf(DeclaredIn(src))
    BY <2>1 DEF CrossChecked
  <2>7. \A i \in DOMAIN known : entries[i].meta = Meta(known[i])
    <3> TAKE i \in DOMAIN known
    <3> DEFINE entry == [meta     |-> Meta(known[i]),
                         category |-> CategoryIn(src, known[i], "Unknown")]
    <3>1. entries[i] = entry
      BY <2>2
    <3>2. entry.meta = Meta(known[i])
      OBVIOUS
    <3> QED
      BY <3>1, <3>2
  <2> HIDE DEF known, info, entries, Meta
  <2>8. \A i \in DOMAIN known : known[i] \in ToSet(known)
    BY DEF ToSet
  <2>9. DOMAIN info = DOMAIN known /\ \A i \in DOMAIN known : info[i] = Meta(known[i])
    BY <2>2
  <2>10. ToSet(info) \subseteq ToSet(src.declares)
    BY <2>4, <2>8, <2>9 DEF ToSet
  <2>11. ToSet(known) = NamesOf(info)
    <3>1. \A i \in DOMAIN known : info[i].name = known[i]
      BY <2>4, <2>8, <2>9
    <3> QED
      BY <2>9, <3>1 DEF ToSet, NamesOf
  <2>12. ASSUME ~ HasLine(src, {"openTight"}), NEW d \in ToSet(src.declares)
         PROVE  d \in ToSet(info)
    <3>1. d \in ToSet(DeclaredIn(src))
      BY <2>3, <2>12
    <3>2. d.name \in ToSet(known)
      BY <2>6, <3>1 DEF ToSet, NamesOf
    <3>3. PICK i \in DOMAIN known : known[i] = d.name
      BY <3>2 DEF ToSet
    <3>4. Meta(d.name) \in ToSet(src.declares) /\ Meta(d.name).name = d.name
      BY <2>4, <3>2
    <3>5. Meta(d.name) = d
      BY <2>5, <2>12, <3>4 DEF ToSet
    <3>6. i \in DOMAIN info /\ info[i] = d
      BY <2>9, <3>3, <3>5
    <3> QED
      BY <3>6 DEF ToSet
  <2>13. \A i \in DOMAIN known : known[i] = info[i].name /\ entries[i].meta = info[i]
    BY <2>4, <2>7, <2>8, <2>9
  <2> QED
    BY <2>1, <2>2, <2>9, <2>10, <2>11, <2>12, <2>13 DEF info, entries
<1> QED
  BY <1>1, BuildWhole, SourcesAreKnown, PTL
-----------------------------------------------------------------------------
\* What is found in a sequence of lines.

\* A number of a set that no other one of the set is below is its minimum.
LEMMA MinIs ==
  ASSUME NEW T, T \subseteq Int, NEW x \in T, \A y \in T : x <= y
  PROVE  Min(T) = x
<1>1. Min(T) \in T /\ \A y \in T : Min(T) <= y
  BY DEF Min
<1>2. Min(T) <= x /\ x <= Min(T) /\ x \in Int /\ Min(T) \in Int
  BY <1>1
<1> HIDE DEF Min
<1> QED
  BY ONLY <1>2

-----------------------------------------------------------------------------
\* A scan of n lines that finds something at m of them.

\* It finds the k-th at open[k] and goes on at resume[k].
Ordered(n, m, open, resume) ==
  /\ n \in Nat /\ m \in Nat
  /\ open \in [1 .. m -> 1 .. n] /\ resume \in [1 .. m -> 1 .. n + 1]
  /\ \A k \in 1 .. m : open[k] < resume[k]
  /\ \A k, l \in 1 .. m : k < l => resume[k] <= open[l]

\* f[i] is what it finds from line i on, if that is the rest of e.
Scans(f, n, m, open, resume, e) ==
  /\ f[n + 1] = <<>>
  /\ \A k \in 1 .. m : f[open[k]] = <<e[k]>> \o f[resume[k]]
  /\ \A i \in 1 .. n : (\A k \in 1 .. m : open[k] # i) => f[i] = f[i + 1]

\* c are before line i.
Before(m, open, i, c) == \A k \in 1 .. m : open[k] < i <=> k <= c

\* Some number of them is before a line.
LEMMA SomeBefore ==
  ASSUME NEW n, NEW m, NEW open, NEW resume, Ordered(n, m, open, resume),
         NEW i \in 1 .. n + 1
  PROVE  \E c \in 0 .. m : Before(m, open, i, c)
<1> USE DEF Ordered
<1> DEFINE T == {k \in 1 .. m : open[k] < i}
<1>1. \A k, l \in 1 .. m : k < l => open[k] < open[l]
  OBVIOUS
<1>2. CASE T = {}
  <2>1. \A k \in 1 .. m : ~ (open[k] < i)
    BY <1>2
  <2>2. Before(m, open, i, 0) /\ 0 \in 0 .. m
    BY <2>1 DEF Before
  <2> QED
    BY <2>2
<1>3. CASE T # {}
  <2>1. PICK c \in T : \A y \in T : y <= c
    BY <1>3, Greatest
  <2>2. Before(m, open, i, c)
    <3> SUFFICES ASSUME NEW k \in 1 .. m PROVE open[k] < i <=> k <= c
      BY DEF Before
    <3>1. open[k] < i => k <= c
      BY <2>1
    <3>2. k <= c => open[k] < i
      BY <1>1, <2>1
    <3> QED
      BY <3>1, <3>2
  <2>3. c \in 1 .. m
    BY <2>1
  <2> QED
    BY <2>2, <2>3
<1> QED
  BY <1>2, <1>3

\* One more is before the line at which the scan goes on.
LEMMA OneMoreBefore ==
  ASSUME NEW n, NEW m, NEW open, NEW resume, Ordered(n, m, open, resume),
         NEW k \in 1 .. m
  PROVE  Before(m, open, open[k], k - 1) /\ Before(m, open, resume[k], k)
<1>1. \A l \in 1 .. m : open[l] < open[k] <=> l <= k - 1
  BY DEF Ordered
<1>2. \A l \in 1 .. m : open[l] < resume[k] <=> l <= k
  BY DEF Ordered
<1> QED
  BY <1>1, <1>2 DEF Before

\* A number is the only one.
LEMMA OneBefore ==
  ASSUME NEW m \in Nat, NEW open, NEW i, NEW c \in 0 .. m, NEW d \in 0 .. m,
         Before(m, open, i, c), Before(m, open, i, d)
  PROVE  c = d
<1>1. CASE c < d
  BY <1>1 DEF Before
<1>2. CASE d < c
  BY <1>2 DEF Before
<1> QED
  BY <1>1, <1>2

\* What such a scan finds is e.
LEMMA ScanFinds ==
  ASSUME NEW n, NEW m, NEW open, NEW resume, Ordered(n, m, open, resume),
         NEW E, NEW e \in Seq(E), Len(e) = m,
         NEW f, Scans(f, n, m, open, resume, e)
  PROVE  f[1] = e
<1> USE DEF Ordered
<1> DEFINE Wrong == {i \in 1 .. n + 1 : \E c \in 0 .. m :
                       Before(m, open, i, c) /\ f[i] # SubSeq(e, c + 1, m)}
<1>1. ASSUME Wrong # {}
      PROVE  FALSE
  <2>1. PICK i \in Wrong : \A j \in Wrong : j <= i
    <3>1. n + 1 \in Nat /\ Wrong \subseteq 1 .. n + 1
      OBVIOUS
    <3> HIDE DEF Wrong
    <3> QED
      BY <1>1, <3>1, Greatest
  <2>2. PICK c \in 0 .. m : Before(m, open, i, c) /\ f[i] # SubSeq(e, c + 1, m)
    BY <2>1
  <2>3. ASSUME NEW j \in 1 .. n + 1, j > i, NEW d \in 0 .. m, Before(m, open, j, d)
        PROVE  f[j] = SubSeq(e, d + 1, m)
    BY <2>1, <2>3
  <2>4. i \in 1 .. n + 1
    BY <2>1
  <2> HIDE DEF Wrong
  <2>5. CASE i = n + 1
    <3>1. \A k \in 1 .. m : open[k] < i
      BY <2>5
    <3>2. c = m
      BY <2>2, <3>1 DEF Before
    <3>3. SubSeq(e, c + 1, m) = <<>>
      BY <3>2
    <3> QED
      BY <2>2, <2>5, <3>3 DEF Scans
  <2>6. ASSUME NEW k \in 1 .. m, i = open[k]
        PROVE  FALSE
    <3>1. Before(m, open, i, k - 1) /\ Before(m, open, resume[k], k)
      BY <2>6, OneMoreBefore
    <3>2. c = k - 1
      BY <2>2, <3>1, OneBefore
    <3>3. f[resume[k]] = SubSeq(e, k + 1, m)
      <4>1. resume[k] \in 1 .. n + 1 /\ resume[k] > i /\ k \in 0 .. m
        BY <2>6
      <4> QED
        BY <2>3, <3>1, <4>1
    <3>4. f[i] = <<e[k]>> \o SubSeq(e, k + 1, m)
      BY <2>6, <3>3 DEF Scans
    <3>5. <<e[k]>> \o SubSeq(e, k + 1, m) = SubSeq(e, k, m)
      OBVIOUS
    <3> QED
      BY <2>2, <3>2, <3>4, <3>5
  <2>7. ASSUME i \in 1 .. n, \A k \in 1 .. m : open[k] # i
        PROVE  FALSE
    <3>1. Before(m, open, i + 1, c)
      BY <2>2, <2>7 DEF Before
    <3>2. f[i + 1] = SubSeq(e, c + 1, m)
      BY <2>3, <2>7, <3>1
    <3> QED
      BY <2>2, <2>7, <3>2 DEF Scans
  <2> QED
    BY <2>4, <2>5, <2>6, <2>7
<1>2. Before(m, open, 1, 0)
  BY DEF Before
<1>3. f[1] = SubSeq(e, 1, m)
  BY <1>1, <1>2
<1> QED
  BY <1>3

\* There is such a scan.
LEMMA ScanExists ==
  ASSUME NEW n, NEW m, NEW open, NEW resume, Ordered(n, m, open, resume),
         NEW E, NEW e \in Seq(E), Len(e) = m
  PROVE  \E f \in [1 .. n + 1 -> Seq(E)] : Scans(f, n, m, open, resume, e)
<1> USE DEF Ordered
<1> DEFINE Count(i) == CHOOSE c \in 0 .. m : Before(m, open, i, c)
           g == [i \in 1 .. n + 1 |-> SubSeq(e, Count(i) + 1, m)]
<1>1. \A i \in 1 .. n + 1 : Count(i) \in 0 .. m /\ Before(m, open, i, Count(i))
  BY SomeBefore
<1> HIDE DEF Count
<1>2. \A i \in 1 .. n + 1, c \in 0 .. m : Before(m, open, i, c) => g[i] = SubSeq(e, c + 1, m)
  BY <1>1, OneBefore
<1>3. g \in [1 .. n + 1 -> Seq(E)]
  BY <1>1
<1> HIDE DEF g
<1>4. g[n + 1] = <<>>
  <2>1. Before(m, open, n + 1, m)
    BY DEF Before
  <2>2. n + 1 \in 1 .. n + 1 /\ m \in 0 .. m
    OBVIOUS
  <2>3. g[n + 1] = SubSeq(e, m + 1, m)
    BY <1>2, <2>1, <2>2
  <2> QED
    BY <2>3
<1>5. ASSUME NEW k \in 1 .. m
      PROVE  g[open[k]] = <<e[k]>> \o g[resume[k]]
  <2>1. g[open[k]] = SubSeq(e, k, m) /\ g[resume[k]] = SubSeq(e, k + 1, m)
    <3>1. k - 1 \in 0 .. m /\ k \in 0 .. m /\ (k - 1) + 1 = k
      OBVIOUS
    <3>2. Before(m, open, open[k], k - 1) /\ Before(m, open, resume[k], k)
      BY OneMoreBefore
    <3>3. open[k] \in 1 .. n + 1 /\ resume[k] \in 1 .. n + 1
      OBVIOUS
    <3>4. g[open[k]] = SubSeq(e, (k - 1) + 1, m)
      BY <1>2, <3>1, <3>2, <3>3
    <3> QED
      BY <1>2, <3>1, <3>2, <3>3, <3>4
  <2>2. <<e[k]>> \o SubSeq(e, k + 1, m) = SubSeq(e, k, m)
    OBVIOUS
  <2> QED
    BY <2>1, <2>2
<1>6. ASSUME NEW i \in 1 .. n, \A k \in 1 .. m : open[k] # i
      PROVE  g[i] = g[i + 1]
  <2>1. i \in 1 .. n + 1 /\ i + 1 \in 1 .. n + 1
    OBVIOUS
  <2>2. Count(i) \in 0 .. m /\ Before(m, open, i, Count(i))
    BY <1>1, <2>1
  <2>3. \A k \in 1 .. m : open[k] < i + 1 <=> open[k] < i
    BY <1>6
  <2>4. Before(m, open, i + 1, Count(i))
    BY <2>2, <2>3 DEF Before
  <2> QED
    BY <1>2, <2>1, <2>2, <2>4
<1> QED
  BY <1>3, <1>4, <1>5, <1>6 DEF Scans

\* The ranks of the numbers of a set count it.
LEMMA RanksCount ==
  ASSUME NEW S, IsFiniteSet(S), S \subseteq Int
  PROVE  /\ IsFiniteSet(S) /\ Cardinality(S) \in Nat
         /\ \A i \in S : Rank(S, i) \in 1 .. Cardinality(S)
         /\ \A i, j \in S : Rank(S, i) = Rank(S, j) => i = j
         /\ \A k \in 1 .. Cardinality(S) : \E i \in S : Rank(S, i) = k
<1> DEFINE Upto(i) == {j \in S : j <= i}
           N == Cardinality(S)
           rank == [i \in S |-> Rank(S, i)]
<1>1. IsFiniteSet(S) /\ N \in Nat
  BY FS_CardinalityType
<1>2. \A i \in S : Upto(i) \subseteq S /\ i \in Upto(i)
  OBVIOUS
<1>3. \A i : Rank(S, i) = Cardinality(Upto(i))
  BY DEF Rank
<1>4. \A T \in SUBSET S : IsFiniteSet(T) /\ Cardinality(T) \in Nat /\ Cardinality(T) <= N
  BY <1>1, FS_Subset, FS_CardinalityType
<1>5. ASSUME NEW i \in S
      PROVE  Rank(S, i) \in 1 .. N
  <2>1. IsFiniteSet(Upto(i)) /\ Cardinality(Upto(i)) \in Nat /\ Cardinality(Upto(i)) <= N
    BY <1>2, <1>4
  <2>2. Cardinality(Upto(i)) # 0
    BY <1>2, <2>1, FS_EmptySet
  <2> QED
    BY <1>1, <1>3, <2>1, <2>2
<1>6. ASSUME NEW i \in S, NEW j \in S, i < j
      PROVE  Rank(S, i) # Rank(S, j)
  <2>1. Upto(i) \in SUBSET Upto(j) /\ Upto(i) # Upto(j)
    <3>1. j \in Upto(j) /\ j \notin Upto(i)
      BY <1>6
    <3>2. \A l \in S : l <= i => l <= j
      BY <1>6
    <3> QED
      BY <3>1, <3>2
  <2>2. IsFiniteSet(Upto(j))
    BY <1>2, <1>4
  <2> QED
    BY <1>3, <2>1, <2>2, FS_Subset
<1>7. ASSUME NEW i \in S, NEW j \in S, Rank(S, i) = Rank(S, j)
      PROVE  i = j
  <2>1. i \in Int /\ j \in Int
    OBVIOUS
  <2>2. ~ (i < j) /\ ~ (j < i)
    BY <1>6, <1>7
  <2> QED
    BY <2>1, <2>2
<1>8. rank \in Injection(S, 1 .. N)
  BY <1>5, <1>7 DEF Injection, IsInjective
<1>9. IsFiniteSet(1 .. N) /\ Cardinality(1 .. N) = N
  BY <1>1, FS_Interval
<1>10. rank \in Surjection(S, 1 .. N)
  BY <1>8, <1>9, FS_Injection
<1>11. \A k \in 1 .. N : \E i \in S : Rank(S, i) = k
  BY <1>10 DEF Surjection
<1> QED
  BY <1>1, <1>5, <1>7, <1>11

\* What is chosen is what stands at the places.
LEMMA ChosenAll ==
  ASSUME NEW S, IsFiniteSet(S), S \subseteq Int, NEW s
  PROVE  ToSet(Chosen(s, S)) = {s[i] : i \in S}
<1> DEFINE N == Cardinality(S)
           At(k) == CHOOSE i \in S : Rank(S, i) = k
<1>1. /\ N \in Nat
      /\ \A i \in S : Rank(S, i) \in 1 .. N
      /\ \A i, j \in S : Rank(S, i) = Rank(S, j) => i = j
      /\ \A k \in 1 .. N : \E i \in S : Rank(S, i) = k
  BY RanksCount
<1>2. \A k \in 1 .. N : At(k) \in S /\ Rank(S, At(k)) = k
  BY <1>1
<1>3. \A i \in S : i = At(Rank(S, i))
  BY <1>1, <1>2
<1>4. Chosen(s, S) = [k \in 1 .. N |-> s[At(k)]]
  BY DEF Chosen
<1> HIDE DEF At
<1>5. ToSet(Chosen(s, S)) = {s[At(k)] : k \in 1 .. N}
  BY <1>4 DEF ToSet
<1>6. {s[At(k)] : k \in 1 .. N} = {s[i] : i \in S}
  BY <1>1, <1>2, <1>3
<1> QED
  BY <1>5, <1>6

\* The numbers of S, one after the other.
Enumerates(S, place) ==
  /\ place \in [1 .. Cardinality(S) -> S]
  /\ \A k, l \in 1 .. Cardinality(S) : k < l => place[k] < place[l]

\* What is chosen stands in the order of the places, and these are all.
InOrder(s, S, place) ==
  /\ \A i \in S : \E k \in 1 .. Cardinality(S) : place[k] = i
  /\ Len(Chosen(s, S)) = Cardinality(S)
  /\ \A k \in 1 .. Cardinality(S) : Chosen(s, S)[k] = s[place[k]]

LEMMA ChosenInOrder ==
  ASSUME NEW S, IsFiniteSet(S), S \subseteq Int, NEW s, NEW place, Enumerates(S, place)
  PROVE  InOrder(s, S, place)
<1> DEFINE N == Cardinality(S)
           At(k) == CHOOSE i \in S : Rank(S, i) = k
<1>0. place \in [1 .. N -> S] /\ S \subseteq Int
      /\ \A k, l \in 1 .. N : k < l => place[k] < place[l]
  BY DEF Enumerates
<1>1. /\ IsFiniteSet(S) /\ N \in Nat /\ Cardinality(S) = N
      /\ \A i, j \in S : Rank(S, i) = Rank(S, j) => i = j
  BY RanksCount
<1> HIDE DEF N
<1>2. IsFiniteSet(1 .. N) /\ Cardinality(1 .. N) = N
  BY <1>1, FS_Interval
<1>3. \A k, l \in 1 .. N : place[k] = place[l] => k = l
  <2> SUFFICES ASSUME NEW k \in 1 .. N, NEW l \in 1 .. N, k # l
               PROVE  place[k] # place[l]
    OBVIOUS
  <2>1. place[k] \in Int /\ place[l] \in Int
    BY <1>0
  <2>2. k < l \/ l < k
    OBVIOUS
  <2> QED
    BY <1>0, <2>1, <2>2
<1>4. place \in Injection(1 .. N, S)
  BY <1>0, <1>3 DEF Injection, IsInjective
<1>5. place \in Surjection(1 .. N, S)
  BY <1>1, <1>2, <1>4, FS_Injection
<1>6. \A i \in S : \E k \in 1 .. N : place[k] = i
  BY <1>5 DEF Surjection
<1>7. ASSUME NEW k \in 1 .. N
      PROVE  Rank(S, place[k]) = k
  <2> DEFINE Upto == {j \in S : j <= place[k]}
             part == [l \in 1 .. k |-> place[l]]
  <2>1. \A l \in 1 .. N : place[l] \in Upto <=> l \in 1 .. k
    <3> TAKE l \in 1 .. N
    <3>1. place[k] \in Int /\ place[l] \in Int /\ place[l] \in S
      BY <1>0
    <3>2. l = k \/ l < k \/ k < l
      OBVIOUS
    <3> QED
      BY <1>0, <3>1, <3>2
  <2>0. \A l \in 1 .. k : l \in 1 .. N
    BY <1>1
  <2>2. part \in [1 .. k -> Upto]
    BY <2>0, <2>1
  <2>3. \A j \in Upto : \E l \in 1 .. k : part[l] = j
    BY <1>6, <2>1
  <2>4. \A a, b \in 1 .. k : part[a] = part[b] => a = b
    BY <1>3, <2>0
  <2> HIDE DEF Upto, part
  <2>5. part \in Bijection(1 .. k, Upto)
    BY <2>2, <2>3, <2>4 DEF Bijection, Injection, Surjection, IsInjective
  <2>6. Cardinality(Upto) = k
    BY <2>5, FS_CountingElements DEF ExistsBijection
  <2> QED
    BY <2>6 DEF Rank, Upto
<1>8. \A k \in 1 .. N : At(k) = place[k]
  <2> TAKE k \in 1 .. N
  <2>1. place[k] \in S /\ Rank(S, place[k]) = k
    BY <1>0, <1>7
  <2>2. At(k) \in S /\ Rank(S, At(k)) = k
    BY <2>1
  <2> QED
    BY <1>1, <2>1, <2>2
<1>9. Chosen(s, S) = [k \in 1 .. N |-> s[At(k)]]
  BY <1>1 DEF Chosen
<1> HIDE DEF At
<1>10. Len(Chosen(s, S)) = N /\ \A k \in 1 .. N : Chosen(s, S)[k] = s[place[k]]
  BY <1>1, <1>8, <1>9
<1> QED
  BY <1>1, <1>6, <1>10 DEF InOrder

\* A block without inner braces ends at the line that closes it.
LEMMA BlockEnds ==
  ASSUME NEW text, Len(text) \in Nat, NEW i \in 1 .. Len(text), NEW j \in 1 .. Len(text),
         i < j, Braces(text[i]) = 1, Braces(text[j]) = -1,
         \A l \in i + 1 .. j - 1 : Braces(text[l]) = 0
  PROVE  BlockEnd(text, i) = j
<1> DEFINE Up(l) == {m \in i .. l : Braces(text[m]) = 1}
           Down(l) == {m \in i .. l : Braces(text[m]) = -1}
           closed == {l \in i .. Len(text) : Depth(text, i, l) = 0}
<1>1. ASSUME NEW l \in i .. j
      PROVE  Depth(text, i, l) = IF l = j THEN 0 ELSE 1
  <2>1. \A m \in i .. l : m = i \/ m = j \/ m \in i + 1 .. j - 1
    OBVIOUS
  <2>2. Up(l) = {i}
    BY <2>1
  <2>3. Down(l) = IF l = j THEN {j} ELSE {}
    BY <2>1
  <2>4. Cardinality(Up(l)) = 1 /\ Cardinality(Down(l)) = IF l = j THEN 1 ELSE 0
    BY <2>2, <2>3, FS_EmptySet, FS_Singleton
  <2> QED
    BY <2>4 DEF Depth
<1>2. j \in closed /\ \A l \in closed : j <= l
  BY <1>1
<1>3. closed \subseteq Int
  OBVIOUS
<1> HIDE DEF closed
<1>4. Min(closed) = j /\ closed # {}
  BY <1>2, <1>3, MinIs
<1> QED
  BY <1>4 DEF BlockEnd, closed

\* The lines of a block that are its fields.
FieldsOf(text, i, j) == {l \in i + 1 .. j - 1 : ~ Quiet(text[l])}

\* These are their places, in order, and what they tell of d.
Tells(text, i, j, d, n, place) ==
  /\ n \in Nat /\ n >= 3 /\ place \in [1 .. n -> FieldsOf(text, i, j)]
  /\ \A k, l \in 1 .. n : k < l => place[k] < place[l]
  /\ \A l \in FieldsOf(text, i, j) : \E k \in 1 .. n : place[k] = l
  /\ Len(Chosen(text, FieldsOf(text, i, j))) = n
  /\ \A k \in 1 .. n : Chosen(text, FieldsOf(text, i, j))[k] = text[place[k]]
  /\ text[place[1]].k \in {"pubName", "name"}
  /\ text[place[2]].k = "level"
  /\ \A k \in 3 .. n : text[place[k]].k = "text"
  /\ d = [name        |-> text[place[1]].v,
          level       |-> text[place[2]].v,
          description |-> [k \in 1 .. n - 2 |-> text[place[k + 2]].v]]

\* The lines of a declaration tell it.
LEMMA DeclarationTold ==
  ASSUME NEW text, Len(text) \in Nat, NEW i \in 1 .. Len(text), NEW j \in 1 .. Len(text),
         NEW d, Declares(text, i, j, d)
  PROVE  \E n, place : Tells(text, i, j, d, n, place)
<1> DEFINE fields == FieldsOf(text, i, j)
           n == Cardinality(fields)
           Shows(place) ==
             /\ text[place[1]].k \in {"pubName", "name"}
             /\ text[place[2]].k = "level"
             /\ \A k \in 3 .. n : text[place[k]].k = "text"
             /\ d = [name        |-> text[place[1]].v,
                     level       |-> text[place[2]].v,
                     description |-> [k \in 1 .. n - 2 |-> text[place[k + 2]].v]]
<1>1. /\ n >= 3
      /\ \E place \in [1 .. n -> fields] :
           (\A k, l \in 1 .. n : k < l => place[k] < place[l]) /\ Shows(place)
  BY DEF Declares, FieldsOf
<1>2. IsFiniteSet(fields) /\ fields \subseteq Int
  <2>1. fields \in SUBSET (1 .. Len(text)) /\ 1 .. Len(text) \subseteq Int
    BY DEF FieldsOf
  <2>2. IsFiniteSet(1 .. Len(text))
    BY FS_Interval
  <2> QED
    BY <2>1, <2>2, FS_Subset
<1> HIDE DEF fields
<1>3. n \in Nat
  BY <1>2, RanksCount
<1> HIDE DEF Shows
<1>4. PICK place \in [1 .. n -> fields] :
        (\A k, l \in 1 .. n : k < l => place[k] < place[l]) /\ Shows(place)
  BY <1>1
<1>5. /\ \A l \in fields : \E k \in 1 .. n : place[k] = l
      /\ Len(Chosen(text, fields)) = n
      /\ \A k \in 1 .. n : Chosen(text, fields)[k] = text[place[k]]
  <2>1. \A k, l \in 1 .. n : k < l => place[k] < place[l]
    BY <1>4
  <2>2. Enumerates(fields, place)
    BY <2>1 DEF Enumerates
  <2>3. InOrder(text, fields, place)
    BY <1>2, <2>2, ChosenInOrder
  <2> QED
    BY <2>3 DEF InOrder
<1>6. Tells(text, i, j, d, n, place)
  BY <1>1, <1>3, <1>4, <1>5 DEF Tells, Shows, fields
<1> QED
  BY <1>6

\* The lines of a declaration are of these kinds.
LEMMA DeclarationKinds ==
  ASSUME NEW text, NEW i, NEW j, NEW d, NEW n, NEW place, Tells(text, i, j, d, n, place),
         NEW l \in i + 1 .. j - 1
  PROVE  Quiet(text[l]) \/ text[l].k \in {"pubName", "name", "level", "text"}
<1>1. CASE l \in FieldsOf(text, i, j)
  <2>1. PICK k \in 1 .. n : place[k] = l
    BY <1>1 DEF Tells
  <2>2. k = 1 \/ k = 2 \/ k \in 3 .. n
    BY DEF Tells
  <2> QED
    BY <2>1, <2>2 DEF Tells
<1>2. CASE l \notin FieldsOf(text, i, j)
  BY <1>2 DEF FieldsOf
<1> QED
  BY <1>1, <1>2

\* The build script reads a declaration as it is.
LEMMA DeclarationRead ==
  ASSUME NEW text, Len(text) \in Nat, NEW i \in 1 .. Len(text), NEW j \in 1 .. Len(text),
         i < j, text[i].k = "open", text[j].k = "close",
         NEW d, Declares(text, i, j, d)
  PROVE  /\ BlockEnd(text, i) = j
         /\ Len(Payload(text, i, j)) \in Nat /\ Len(Payload(text, i, j)) >= 3
         /\ LintMeta(Payload(text, i, j)) = d
         /\ d.description # <<"">>
<1> DEFINE payload == Payload(text, i, j)
<1>1. PICK n, place : Tells(text, i, j, d, n, place)
  BY DeclarationTold
<1>2. \A l \in i + 1 .. j - 1 :
        Quiet(text[l]) \/ text[l].k \in {"pubName", "name", "level", "text"}
  BY <1>1, DeclarationKinds
<1>3. BlockEnd(text, i) = j
  <2>1. \A l \in i + 1 .. j - 1 : Braces(text[l]) = 0
    BY <1>2 DEF Braces, Quiet
  <2>2. Braces(text[i]) = 1 /\ Braces(text[j]) = -1
    BY DEF Braces
  <2> QED
    BY <2>1, <2>2, BlockEnds
<1>4. {m \in i + 1 .. j - 1 : ~ Skipped(text[m])} = FieldsOf(text, i, j)
  BY <1>2 DEF Skipped, Quiet, FieldsOf
<1>5. payload = Chosen(text, FieldsOf(text, i, j))
  BY <1>4 DEF Payload
<1> HIDE DEF payload
<1>6. n \in Nat /\ n >= 3 /\ \A k \in 1 .. n : payload[k] = text[place[k]]
  BY <1>1, <1>5 DEF Tells
<1>7. Len(payload) = n
  BY <1>1, <1>5 DEF Tells
<1>8. payload[1] = text[place[1]] /\ payload[2] = text[place[2]]
  BY <1>6
<1>9. [k \in 1 .. Len(payload) - 2 |-> payload[k + 2].v]
        = [k \in 1 .. n - 2 |-> text[place[k + 2]].v]
  <2>1. \A k \in 1 .. n - 2 : payload[k + 2] = text[place[k + 2]]
    BY <1>6
  <2> QED
    BY <1>7, <2>1
<1>10. LintMeta(payload) = d
  BY <1>1, <1>8, <1>9 DEF LintMeta, Tells
<1>11. d.description # <<"">>
  BY DEF Declares
<1> QED
  BY <1>3, <1>6, <1>7, <1>10, <1>11 DEF payload

-----------------------------------------------------------------------------
\* A source that is laid out plainly is read as rustc sees it.

\* The k-th declaration stands from line first[k] to line last[k].
Placed(s, first, last) ==
  LET m == Len(s.declares)
      n == Len(s.text)
  IN /\ m \in Nat /\ n \in Nat
     /\ first \in [1 .. m -> 1 .. n] /\ last \in [1 .. m -> 1 .. n]
     /\ \A k \in 1 .. m :
          /\ s.text[first[k]].k = "open" /\ s.text[last[k]].k = "close"
          /\ first[k] < last[k]
          /\ Declares(s.text, first[k], last[k], s.declares[k])
     /\ \A k, l \in 1 .. m : k < l => last[k] < first[l]
     /\ \A i \in 1 .. n : Quiet(s.text[i]) \/ \E k \in 1 .. m : i \in first[k] .. last[k]

\* A source that is laid out plainly has such places.
LEMMA LaidOutPlaced ==
  ASSUME NEW s, s.declares \in Seq(ToSet(s.declares)), s.text \in Seq(ToSet(s.text)),
         LaidOut(s)
  PROVE  \E first, last : Placed(s, first, last)
<1> DEFINE m == Len(s.declares)
           n == Len(s.text)
           Lines(kind) == {i \in DOMAIN s.text : s.text[i].k = kind}
<1>1. m \in Nat /\ n \in Nat /\ DOMAIN s.declares = 1 .. m /\ DOMAIN s.text = 1 .. n
  OBVIOUS
<1>2. PICK first \in [DOMAIN s.declares -> Lines("open")],
           last \in [DOMAIN s.declares -> Lines("close")] :
        /\ \A k, l \in DOMAIN s.declares : k < l => last[k] < first[l]
        /\ \A k \in DOMAIN s.declares :
             first[k] < last[k] /\ Declares(s.text, first[k], last[k], s.declares[k])
        /\ \A i \in DOMAIN s.text :
             Quiet(s.text[i]) \/ \E k \in DOMAIN s.declares : i \in first[k] .. last[k]
  BY DEF LaidOut
<1>3. /\ first \in [1 .. m -> 1 .. n] /\ last \in [1 .. m -> 1 .. n]
      /\ \A k \in 1 .. m : s.text[first[k]].k = "open" /\ s.text[last[k]].k = "close"
  BY <1>1
<1>4. Placed(s, first, last)
  BY <1>1, <1>2, <1>3 DEF Placed
<1> QED
  BY <1>4

\* Only the declarations look like one.
LEMMA NoOtherOpens ==
  ASSUME NEW s, NEW first, NEW last, Placed(s, first, last),
         NEW i \in 1 .. Len(s.text), \A k \in 1 .. Len(s.declares) : first[k] # i
  PROVE  ~ Opens(s.text[i]) /\ ~ Heads(s.text[i])
<1>1. CASE Quiet(s.text[i])
  BY <1>1 DEF Quiet, Opens, Heads
<1>2. CASE ~ Quiet(s.text[i])
  <2>1. PICK k \in 1 .. Len(s.declares) : i \in first[k] .. last[k]
    BY <1>2 DEF Placed
  <2>2. /\ Len(s.text) \in Nat
        /\ first[k] \in 1 .. Len(s.text) /\ last[k] \in 1 .. Len(s.text)
        /\ s.text[last[k]].k = "close"
        /\ Declares(s.text, first[k], last[k], s.declares[k])
    BY DEF Placed
  <2>3. CASE i = last[k]
    BY <2>2, <2>3 DEF Opens, Heads
  <2>4. CASE i # last[k]
    <3>1. i \in first[k] + 1 .. last[k] - 1
      BY <2>1, <2>2, <2>4
    <3>2. PICK n, place : Tells(s.text, first[k], last[k], s.declares[k], n, place)
      BY <2>2, DeclarationTold
    <3>3. s.text[i].k \in {"pubName", "name", "level", "text"}
      BY <1>2, <3>1, <3>2, DeclarationKinds
    <3> QED
      BY <3>3 DEF Opens, Heads
  <2> QED
    BY <2>3, <2>4
<1> QED
  BY <1>1, <1>2

\* What build.rs finds from line i on, if f is what it finds from later ones.
Reads(text, f, i) ==
  IF i > Len(text) THEN <<>>
  ELSE IF ~ Opens(text[i]) THEN f[i + 1]
  ELSE LET end == BlockEnd(text, i)
           payload == Payload(text, i, end)
       IN IF \/ end = 0 \/ Len(payload) < 3
             \/ LintMeta(payload).description = <<"">> THEN <<Missing>>
          ELSE <<LintMeta(payload)>> \o f[end + 1]

\* The parser of declarations is a scan.
LEMMA DeclaredByScan ==
  ASSUME NEW text
  PROVE  LET found == (CHOOSE f : f = [i \in 1 .. Len(text) + 1 |-> Reads(text, f, i)])[1]
         IN parse_declare_lints(text) =
              IF found # <<>> /\ Last(found) = Missing THEN Missing ELSE found
BY DEF parse_declare_lints, Reads

\* It finds the declarations.
LEMMA DeclaredIs ==
  ASSUME NEW s, s.declares \in Seq(ToSet(s.declares)),
         NEW first, NEW last, Placed(s, first, last), DeclaredIn(s) # Missing
  PROVE  DeclaredIn(s) = s.declares
<1> DEFINE text == s.text
           m == Len(s.declares)
           n == Len(text)
           resume == [k \in 1 .. m |-> last[k] + 1]
           Step(f) == \A i \in 1 .. n + 1 : f[i] = Reads(text, f, i)
           Finds(f) == Scans(f, n, m, first, resume, s.declares)
           from == CHOOSE f : f = [i \in 1 .. n + 1 |-> Reads(text, f, i)]
<1>1. /\ m \in Nat /\ n \in Nat
      /\ first \in [1 .. m -> 1 .. n] /\ last \in [1 .. m -> 1 .. n]
      /\ \A k \in 1 .. m :
           /\ text[first[k]].k = "open" /\ text[last[k]].k = "close"
           /\ first[k] < last[k]
           /\ Declares(text, first[k], last[k], s.declares[k])
      /\ \A k, l \in 1 .. m : k < l => last[k] < first[l]
  BY DEF Placed
<1>2. Ordered(n, m, first, resume)
  <2>1. resume \in [1 .. m -> 1 .. n + 1] /\ \A k \in 1 .. m : resume[k] = last[k] + 1
    BY <1>1
  <2>2. \A k \in 1 .. m : first[k] \in 1 .. n /\ last[k] \in 1 .. n /\ first[k] < last[k]
    BY <1>1
  <2> HIDE DEF resume, m, n
  <2>3. \A k \in 1 .. m : first[k] < resume[k]
    BY <1>1, <2>1, <2>2
  <2>4. \A k, l \in 1 .. m : k < l => resume[k] <= first[l]
    <3> SUFFICES ASSUME NEW k \in 1 .. m, NEW l \in 1 .. m, k < l
                 PROVE  resume[k] <= first[l]
      OBVIOUS
    <3>1. resume[k] = last[k] + 1 /\ last[k] < first[l]
      BY <1>1, <2>1
    <3>2. last[k] \in Int /\ first[l] \in Int
      BY <2>2
    <3> QED
      BY <3>1, <3>2
  <2> QED
    BY <1>1, <2>1, <2>3, <2>4 DEF Ordered
<1>3. \A f : Reads(text, f, n + 1) = <<>>
  BY <1>1 DEF Reads
<1>4. ASSUME NEW k \in 1 .. m, NEW f
      PROVE  Reads(text, f, first[k]) = <<s.declares[k]>> \o f[resume[k]]
  <2> DEFINE i == first[k]
             j == last[k]
             payload == Payload(text, i, j)
  <2>1. /\ i \in 1 .. n /\ j \in 1 .. n /\ i < j
        /\ text[i].k = "open" /\ text[j].k = "close" /\ Declares(text, i, j, s.declares[k])
    BY <1>1
  <2> HIDE DEF i, j
  <2>2. /\ BlockEnd(text, i) = j
        /\ Len(payload) \in Nat /\ Len(payload) >= 3
        /\ LintMeta(payload) = s.declares[k]
        /\ s.declares[k].description # <<"">>
    BY <1>1, <2>1, DeclarationRead
  <2> HIDE DEF payload
  <2>3. Opens(text[i]) /\ ~ (i > n) /\ ~ (j = 0) /\ ~ (Len(payload) < 3)
    <3>1. Opens(text[i])
      BY <2>1 DEF Opens
    <3>2. ~ (i > n) /\ ~ (j = 0)
      BY <1>1, <2>1
    <3>3. Len(payload) \in Nat /\ Len(payload) >= 3
      BY <2>2
    <3>4. ~ (Len(payload) < 3)
      BY ONLY <3>3
    <3> QED
      BY <3>1, <3>2, <3>4
  <2>4. Reads(text, f, i) = <<s.declares[k]>> \o f[j + 1]
    BY <2>2, <2>3 DEF Reads, payload
  <2> QED
    BY <2>4 DEF i, j
<1>5. ASSUME NEW i \in 1 .. n, \A k \in 1 .. m : first[k] # i, NEW f
      PROVE  Reads(text, f, i) = f[i + 1]
  <2>1. ~ Opens(text[i])
    BY <1>5, NoOtherOpens
  <2> QED
    BY <1>1, <2>1 DEF Reads
<1> HIDE DEF resume
<1>6. \A f : Step(f) => Finds(f)
  <2> SUFFICES ASSUME NEW f, Step(f) PROVE Finds(f)
    OBVIOUS
  <2>1. f[n + 1] = <<>>
    BY <1>1, <1>3
  <2>2. \A k \in 1 .. m : f[first[k]] = <<s.declares[k]>> \o f[resume[k]]
    <3> TAKE k \in 1 .. m
    <3>1. first[k] \in 1 .. n + 1
      BY <1>1
    <3>2. f[first[k]] = Reads(text, f, first[k])
      BY <3>1
    <3> QED
      BY <1>4, <3>2
  <2>3. \A i \in 1 .. n : (\A k \in 1 .. m : first[k] # i) => f[i] = f[i + 1]
    BY <1>1, <1>5
  <2> QED
    BY <2>1, <2>2, <2>3 DEF Scans
<1>7. \A f : Finds(f) => Step(f)
  <2> SUFFICES ASSUME NEW f, Finds(f), NEW i \in 1 .. n + 1
               PROVE  f[i] = Reads(text, f, i)
    OBVIOUS
  <2>1. CASE i = n + 1
    BY <1>3, <2>1 DEF Scans
  <2>2. ASSUME NEW k \in 1 .. m, i = first[k]
        PROVE  f[i] = Reads(text, f, i)
    BY <1>4, <2>2 DEF Scans
  <2>3. ASSUME i \in 1 .. n, \A k \in 1 .. m : first[k] # i
        PROVE  f[i] = Reads(text, f, i)
    BY <1>5, <2>3 DEF Scans
  <2>4. i = n + 1 \/ i \in 1 .. n
    BY <1>1
  <2> QED
    BY <2>1, <2>2, <2>3, <2>4
<1>8. PICK g \in [1 .. n + 1 -> Seq(ToSet(s.declares))] : Finds(g)
  BY <1>2, ScanExists
<1>9. g = [i \in 1 .. n + 1 |-> Reads(text, g, i)]
  <2>1. Step(g)
    BY <1>7, <1>8
  <2> QED
    BY <2>1
<1>10. from = [i \in 1 .. n + 1 |-> Reads(text, from, i)]
  BY <1>9
<1> HIDE DEF from
<1>11. Step(from)
  BY <1>10
<1> HIDE DEF Step
<1>12. Finds(from)
  BY <1>6, <1>11
<1>13. from[1] = s.declares
  BY <1>2, <1>12, ScanFinds
<1>14. DeclaredIn(s) = IF from[1] # <<>> /\ Last(from[1]) = Missing THEN Missing ELSE from[1]
  BY DeclaredByScan DEF DeclaredIn, from
<1> QED
  BY <1>13, <1>14

\* The next line that is not blank is not after one that is not.
LEMMA NextNotBlank ==
  ASSUME NEW text, Len(text) \in Nat, NEW from \in Nat, NEW x \in from .. Len(text),
         ~ Blank(text[x])
  PROVE  LET y == NextLine(text, from, Blank)
         IN y \in from .. x /\ ~ Blank(text[y])
<1> DEFINE T == {j \in from .. Len(text) : ~ Blank(text[j])} \cup {Len(text) + 1}
<1>1. T \subseteq Nat /\ x \in T
  OBVIOUS
<1>2. \A y \in T : y <= x => y \in from .. x /\ ~ Blank(text[y])
  OBVIOUS
<1> HIDE DEF T
<1>3. PICK y \in T : \A z \in T : y <= z
  BY <1>1, LeastNat
<1>4. Min(T) = y
  <2>1. T \subseteq Int
    BY <1>1
  <2> QED
    BY <1>3, <2>1, MinIs
<1>5. NextLine(text, from, Blank) = y
  BY <1>4 DEF NextLine, T
<1> QED
  BY <1>1, <1>2, <1>3, <1>5

\* The next line that is no comment, when all before it are.
LEMMA NextNotSkipped ==
  ASSUME NEW text, Len(text) \in Nat, NEW from \in Nat, NEW x \in from .. Len(text),
         ~ Skipped(text[x]), \A y \in from .. x - 1 : Skipped(text[y])
  PROVE  NextLine(text, from, Skipped) = x
<1> DEFINE T == {j \in from .. Len(text) : ~ Skipped(text[j])} \cup {Len(text) + 1}
<1>1. T \subseteq Int /\ x \in T /\ \A y \in T : x <= y
  OBVIOUS
<1> HIDE DEF T
<1>2. Min(T) = x
  BY <1>1, MinIs
<1> QED
  BY <1>2 DEF NextLine, T

\* The lines that generate-lint-docs takes for the fields of a block.
NameLine(text, i) == NextLine(text, i + 1, Skipped)
LevelLine(text, i) == NextLine(text, NameLine(text, i) + 1, Blank)
DescriptionLine(text, i) == NextLine(text, LevelLine(text, i) + 1, Blank)

\* They are those of the declaration of d from line i to line j.
Fits(text, i, j, d) ==
  LET name == NameLine(text, i)
      level == LevelLine(text, i)
      description == DescriptionLine(text, i)
  IN /\ name \in 1 .. Len(text) /\ text[name].k = "pubName"
     /\ description \in i + 1 .. j - 1
     /\ d = [name        |-> text[name].v,
             level       |-> text[level].v,
             description |-> <<text[description].v>>]

\* If each field has a line, these are the fields of the declaration.
LEMMA FieldLines ==
  ASSUME NEW s, s.declares \in Seq(ToSet(s.declares)), s.text \in Seq(ToSet(s.text)),
         NEW first, NEW last, Placed(s, first, last), FieldPerLine(s),
         NEW k \in 1 .. Len(s.declares)
  PROVE  Fits(s.text, first[k], last[k], s.declares[k])
<1> DEFINE text == s.text
           d == s.declares[k]
           i == first[k]
           j == last[k]
           fields == FieldsOf(text, i, j)
<1>1. /\ Len(text) \in Nat /\ i \in 1 .. Len(text) /\ j \in 1 .. Len(text) /\ i < j
      /\ Declares(text, i, j, d)
  BY DEF Placed
<1>2. DOMAIN text = 1 .. Len(text) /\ k \in DOMAIN s.declares
  OBVIOUS
<1>3. /\ \A l \in 1 .. Len(text) : text[l].k # "name"
      /\ Len(d.description) = 1
      /\ \A l \in 1 .. Len(text) : text[l].k = "pubName" =>
           /\ text[NextLine(text, l + 1, Blank)].k = "level"
           /\ text[NextLine(text, NextLine(text, l + 1, Blank) + 1, Blank)].k = "text"
  BY <1>2 DEF FieldPerLine, HasLine
<1> HIDE DEF text, i, j, d
<1>4. PICK n, place : Tells(text, i, j, d, n, place)
  BY <1>1, DeclarationTold
<1>5. n = 3
  <2>1. d.description = [l \in 1 .. n - 2 |-> text[place[l + 2]].v] /\ n \in Nat /\ n >= 3
    BY <1>4 DEF Tells
  <2>2. Len(d.description) = n - 2
    BY <2>1
  <2> QED
    BY <1>3, <2>1, <2>2
<1> DEFINE p == place[1]
           q == place[2]
           r == place[3]
<1>6. /\ p \in fields /\ q \in fields /\ r \in fields /\ p < q /\ q < r
      /\ \A l \in fields : l = p \/ l = q \/ l = r
  <2>1. /\ place \in [1 .. 3 -> fields]
        /\ \A a, b \in 1 .. 3 : a < b => place[a] < place[b]
        /\ \A l \in fields : \E a \in 1 .. 3 : place[a] = l
    BY <1>4, <1>5 DEF Tells
  <2> QED
    BY <2>1
<1>7. /\ text[p].k \in {"pubName", "name"} /\ text[q].k = "level" /\ text[r].k = "text"
      /\ d = [name        |-> text[p].v,
              level       |-> text[q].v,
              description |-> [l \in 1 .. 1 |-> text[place[l + 2]].v]]
  BY <1>4, <1>5 DEF Tells
<1>8. [l \in 1 .. 1 |-> text[place[l + 2]].v] = <<text[r].v>>
  OBVIOUS
<1> HIDE DEF p, q, r
<1>9. /\ p \in Nat /\ q \in Nat /\ r \in Nat /\ i \in Nat /\ j \in Nat
      /\ i < p /\ r < j /\ r <= Len(text)
      /\ \A l \in i + 1 .. j - 1 : Quiet(text[l]) \/ l = p \/ l = q \/ l = r
  <2>1. fields \subseteq i + 1 .. j - 1
    BY DEF FieldsOf
  <2>2. \A l \in i + 1 .. j - 1 : Quiet(text[l]) \/ l \in fields
    BY DEF FieldsOf
  <2> HIDE DEF fields
  <2> QED
    BY <1>1, <1>6, <2>1, <2>2
<1>10. NameLine(text, i) = p /\ text[p].k = "pubName" /\ p \in 1 .. Len(text)
  <2>1. \A l \in i + 1 .. p - 1 : Skipped(text[l])
    BY <1>6, <1>9 DEF Quiet, Skipped
  <2>2. p \in i + 1 .. Len(text) /\ i + 1 \in Nat
    BY <1>6, <1>9, <1>1
  <2>3. text[p].k = "pubName" /\ ~ Skipped(text[p])
    BY <1>3, <1>7, <1>9, <2>2, <1>1 DEF Skipped
  <2>4. NextLine(text, i + 1, Skipped) = p
    BY <1>1, <2>1, <2>2, <2>3, NextNotSkipped
  <2>5. p \in 1 .. Len(text)
    BY <1>9, <2>2
  <2> QED
    BY <2>3, <2>4, <2>5 DEF NameLine
<1>11. LevelLine(text, i) = q
  <2> DEFINE y == LevelLine(text, i)
  <2>1. q \in p + 1 .. Len(text) /\ p + 1 \in Nat /\ ~ Blank(text[q])
    BY <1>1, <1>6, <1>7, <1>9 DEF Blank
  <2>2. y = NextLine(text, p + 1, Blank)
    BY <1>10 DEF LevelLine
  <2>3. y \in p + 1 .. q
    BY <1>1, <2>1, <2>2, NextNotBlank
  <2>4. text[y].k = "level"
    BY <1>3, <1>10, <2>2
  <2> HIDE DEF y
  <2>5. ~ Quiet(text[y]) /\ y \in i + 1 .. j - 1 /\ y # p /\ y # r
    BY <1>1, <1>6, <1>9, <2>3, <2>4 DEF Quiet
  <2> QED
    BY <1>9, <2>5 DEF y
<1>12. DescriptionLine(text, i) = r
  <2> DEFINE z == DescriptionLine(text, i)
  <2>1. r \in q + 1 .. Len(text) /\ q + 1 \in Nat /\ ~ Blank(text[r])
    BY <1>1, <1>6, <1>7, <1>9 DEF Blank
  <2>2. z = NextLine(text, q + 1, Blank) /\ q = NextLine(text, p + 1, Blank)
    BY <1>10, <1>11 DEF DescriptionLine, LevelLine
  <2>3. z \in q + 1 .. r
    BY <1>1, <2>1, <2>2, NextNotBlank
  <2>4. text[z].k = "text"
    BY <1>3, <1>10, <2>2
  <2> HIDE DEF z
  <2>5. ~ Quiet(text[z]) /\ z \in i + 1 .. j - 1 /\ z # p /\ z # q
    BY <1>1, <1>6, <1>9, <2>3, <2>4 DEF Quiet
  <2> QED
    BY <1>9, <2>5 DEF z
<1>13. r \in i + 1 .. j - 1
  BY <1>6, <1>9
<1> QED
  BY <1>7, <1>8, <1>10, <1>11, <1>12, <1>13 DEF text, i, j, d, Fits

\* What generate-lint-docs finds from line i on, if f is what it finds from later
\* ones.
Lists(s, f, i) ==
  IF i > Len(s.text) THEN <<>>
  ELSE IF ~ Heads(s.text[i]) THEN f[i + 1]
  ELSE LET text == s.text
           n == Len(text)
           name == NextLine(text, i + 1, Skipped)
           level == NextLine(text, name + 1, Blank)
           description == NextLine(text, level + 1, Blank)
           Entry == [name        |-> text[name].v,
                     level       |-> text[level].v,
                     description |-> <<text[description].v>>,
                     category    |-> CategoryIn(s, text[name].v, "Other")]
       IN IF name > n THEN <<>>
          ELSE IF text[name].k # "pubName" THEN f[name + 1]
          ELSE IF description > n THEN <<>>
          ELSE <<Entry>> \o f[description + 1]

\* Its parser is a scan.
LEMMA ListedByScan ==
  ASSUME NEW s
  PROVE  parse_lib_rs(s)
           = (CHOOSE f : f = [i \in 1 .. Len(s.text) + 1 |-> Lists(s, f, i)])[1]
BY DEF parse_lib_rs, Lists

\* The entry of a declaration.
EntryOf(s, d) ==
  [name        |-> d.name,
   level       |-> d.level,
   description |-> d.description,
   category    |-> CategoryIn(s, d.name, "Other")]

\* It finds an entry for each declaration.
LEMMA ListedIs ==
  ASSUME NEW s, s.declares \in Seq(ToSet(s.declares)), s.text \in Seq(ToSet(s.text)),
         NEW first, NEW last, Placed(s, first, last), FieldPerLine(s)
  PROVE  parse_lib_rs(s) = [k \in 1 .. Len(s.declares) |-> EntryOf(s, s.declares[k])]
<1> DEFINE text == s.text
           m == Len(s.declares)
           n == Len(text)
           e == [k \in 1 .. m |-> EntryOf(s, s.declares[k])]
           E == {EntryOf(s, d) : d \in ToSet(s.declares)}
           resume == [k \in 1 .. m |-> DescriptionLine(text, first[k]) + 1]
           Step(f) == \A i \in 1 .. n + 1 : f[i] = Lists(s, f, i)
           Finds(f) == Scans(f, n, m, first, resume, e)
           from == CHOOSE f : f = [i \in 1 .. n + 1 |-> Lists(s, f, i)]
<1>1. /\ m \in Nat /\ n \in Nat
      /\ first \in [1 .. m -> 1 .. n] /\ last \in [1 .. m -> 1 .. n]
      /\ \A k \in 1 .. m : text[first[k]].k = "open"
      /\ \A k, l \in 1 .. m : k < l => last[k] < first[l]
  BY DEF Placed
<1>2. \A k \in 1 .. m : /\ Fits(text, first[k], last[k], s.declares[k])
                        /\ first[k] \in 1 .. n /\ last[k] \in 1 .. n
                        /\ first[k] \in 1 .. n + 1
  BY <1>1, FieldLines
<1>3. Ordered(n, m, first, resume)
  <2>1. ASSUME NEW k \in 1 .. m
        PROVE  /\ resume[k] \in first[k] + 1 .. last[k]
               /\ resume[k] \in 1 .. n + 1
    <3> DEFINE description == DescriptionLine(text, first[k])
    <3>1. description \in first[k] + 1 .. last[k] - 1 /\ resume[k] = description + 1
      BY <1>2 DEF Fits
    <3>2. first[k] \in 1 .. n /\ last[k] \in 1 .. n
      BY <1>2
    <3> HIDE DEF description
    <3> QED
      BY <3>1, <3>2
  <2>2. resume \in [1 .. m -> 1 .. n + 1]
    BY <2>1
  <2> HIDE DEF resume, m, n
  <2>3. \A k, l \in 1 .. m : k < l => resume[k] <= first[l]
    <3> SUFFICES ASSUME NEW k \in 1 .. m, NEW l \in 1 .. m, k < l
                 PROVE  resume[k] <= first[l]
      OBVIOUS
    <3>1. /\ resume[k] \in first[k] + 1 .. last[k] /\ last[k] < first[l]
          /\ first[k] \in 1 .. n /\ last[k] \in 1 .. n /\ first[l] \in 1 .. n
      BY <1>1, <1>2, <2>1
    <3> QED
      BY <1>1, <3>1
  <2>4. \A k \in 1 .. m : first[k] < resume[k]
    BY <1>1, <1>2, <2>1
  <2> QED
    BY <1>1, <2>2, <2>3, <2>4 DEF Ordered
<1>4. e \in Seq(E) /\ Len(e) = m
  <2>1. \A k \in 1 .. m : s.declares[k] \in ToSet(s.declares)
    BY DEF ToSet
  <2>2. \A k \in 1 .. m : e[k] \in E
    BY <2>1
  <2> QED
    BY <1>1, <2>2
<1>5. \A f : Lists(s, f, n + 1) = <<>>
  BY <1>1 DEF Lists
<1>6. ASSUME NEW k \in 1 .. m, NEW f
      PROVE  Lists(s, f, first[k]) = <<e[k]>> \o f[resume[k]]
  <2> DEFINE i == first[k]
             name == NameLine(text, i)
             level == LevelLine(text, i)
             description == DescriptionLine(text, i)
             d == s.declares[k]
             Entry == [name        |-> text[name].v,
                       level       |-> text[level].v,
                       description |-> <<text[description].v>>,
                       category    |-> CategoryIn(s, text[name].v, "Other")]
  <2>1. i \in 1 .. n /\ Heads(text[i]) /\ last[k] \in 1 .. n
    BY <1>1 DEF Heads
  <2>2. /\ name \in 1 .. n /\ text[name].k = "pubName"
        /\ description \in i + 1 .. last[k] - 1
        /\ d = [name        |-> text[name].v,
                level       |-> text[level].v,
                description |-> <<text[description].v>>]
    BY <1>2 DEF Fits
  <2>3. /\ name = NextLine(text, i + 1, Skipped)
        /\ level = NextLine(text, name + 1, Blank)
        /\ description = NextLine(text, level + 1, Blank)
    BY DEF NameLine, LevelLine, DescriptionLine
  <2> HIDE DEF i, name, level, description, d
  <2>4. ~ (i > n) /\ ~ (name > n) /\ ~ (description > n)
    BY <1>1, <2>1, <2>2
  <2>5. Entry = EntryOf(s, d)
    BY <2>2 DEF EntryOf
  <2> HIDE DEF Entry
  <2>6. Lists(s, f, i) = <<Entry>> \o f[description + 1]
    BY <2>1, <2>2, <2>3, <2>4 DEF Lists, Entry
  <2> QED
    BY <2>5, <2>6 DEF i, description, d
<1>7. ASSUME NEW i \in 1 .. n, \A k \in 1 .. m : first[k] # i, NEW f
      PROVE  Lists(s, f, i) = f[i + 1]
  <2>1. ~ Heads(text[i])
    BY <1>7, NoOtherOpens
  <2> QED
    BY <1>1, <2>1 DEF Lists
<1> HIDE DEF resume, e
<1>8. \A f : Step(f) => Finds(f)
  <2> SUFFICES ASSUME NEW f, Step(f) PROVE Finds(f)
    OBVIOUS
  <2>1. f[n + 1] = <<>>
    BY <1>1, <1>5
  <2>2. \A k \in 1 .. m : f[first[k]] = <<e[k]>> \o f[resume[k]]
    <3> TAKE k \in 1 .. m
    <3>1. first[k] \in 1 .. n + 1
      BY <1>2
    <3>2. f[first[k]] = Lists(s, f, first[k])
      BY <3>1
    <3> QED
      BY <1>6, <3>2
  <2>3. \A i \in 1 .. n : (\A k \in 1 .. m : first[k] # i) => f[i] = f[i + 1]
    BY <1>1, <1>7
  <2> QED
    BY <2>1, <2>2, <2>3 DEF Scans
<1>9. \A f : Finds(f) => Step(f)
  <2> SUFFICES ASSUME NEW f, Finds(f), NEW i \in 1 .. n + 1
               PROVE  f[i] = Lists(s, f, i)
    OBVIOUS
  <2>1. CASE i = n + 1
    BY <1>5, <2>1 DEF Scans
  <2>2. ASSUME NEW k \in 1 .. m, i = first[k]
        PROVE  f[i] = Lists(s, f, i)
    BY <1>6, <2>2 DEF Scans
  <2>3. ASSUME i \in 1 .. n, \A k \in 1 .. m : first[k] # i
        PROVE  f[i] = Lists(s, f, i)
    BY <1>7, <2>3 DEF Scans
  <2>4. i = n + 1 \/ i \in 1 .. n
    BY <1>1
  <2> QED
    BY <2>1, <2>2, <2>3, <2>4
<1>10. PICK g \in [1 .. n + 1 -> Seq(E)] : Finds(g)
  BY <1>3, <1>4, ScanExists
<1>11. g = [i \in 1 .. n + 1 |-> Lists(s, g, i)]
  <2>1. Step(g)
    BY <1>9, <1>10
  <2> QED
    BY <2>1
<1>12. from = [i \in 1 .. n + 1 |-> Lists(s, from, i)]
  BY <1>11
<1> HIDE DEF from
<1>13. Step(from)
  BY <1>12
<1> HIDE DEF Step
<1>14. Finds(from)
  BY <1>8, <1>13
<1>15. from[1] = e
  BY <1>3, <1>4, <1>14, ScanFinds
<1> QED
  BY <1>15, ListedByScan DEF from, e

\* The sources are sequences of lines and of declarations.
LEMMA SourceIs ==
  ASSUME NEW s \in Sources
  PROVE  s.declares \in Seq(ToSet(s.declares)) /\ s.text \in Seq(ToSet(s.text))
BY SourceAssumption

\* What both parsers make of a source that passes the cross-check and is laid out
\* plainly is what rustc sees: each declaration once, in order, with its own name,
\* level and description, whatever stands between them; the documentation
\* generator only if each field has a line of its own
\* (parse_declare_lints, parse_lib_rs).
THEOREM LaidOutIsRead ==
  ASSUME NEW s \in Sources, LaidOut(s), CrossChecked(s)
  PROVE  /\ DeclaredIn(s) = s.declares
         /\ FieldPerLine(s) =>
              /\ parse_lib_rs(s)
                   = [k \in 1 .. Len(s.declares) |-> EntryOf(s, s.declares[k])]
              /\ generate_catalog(parse_lib_rs(s)) = s.declares
<1> DEFINE m == Len(s.declares)
           entries == parse_lib_rs(s)
<1>1. s.declares \in Seq(ToSet(s.declares)) /\ s.text \in Seq(ToSet(s.text))
  BY SourceIs
<1>2. PICK first, last : Placed(s, first, last)
  BY <1>1, LaidOutPlaced
<1>3. DeclaredIn(s) = s.declares
  BY <1>1, <1>2, DeclaredIs DEF CrossChecked
<1>4. ASSUME FieldPerLine(s)
      PROVE  entries = [k \in 1 .. m |-> EntryOf(s, s.declares[k])]
  BY <1>1, <1>2, <1>4, ListedIs
<1>5. ASSUME FieldPerLine(s)
      PROVE  generate_catalog(entries) = s.declares
  <2> DEFINE Row(d) == [name |-> d.name, level |-> d.level, description |-> d.description]
  <2>1. ASSUME NEW k \in 1 .. m
        PROVE  Row(s.declares[k]) = s.declares[k]
    <3>1. Fits(s.text, first[k], last[k], s.declares[k])
      BY <1>1, <1>2, <1>5, FieldLines
    <3> QED
      BY <3>1 DEF Fits
  <2>2. \A k \in 1 .. m : /\ entries[k].name = s.declares[k].name
                          /\ entries[k].level = s.declares[k].level
                          /\ entries[k].description = s.declares[k].description
    BY <1>4, <1>5 DEF EntryOf
  <2>3. DOMAIN entries = 1 .. m
    BY <1>4, <1>5
  <2> HIDE DEF entries
  <2>4. generate_catalog(entries) = [k \in 1 .. m |-> s.declares[k]]
    BY <2>1, <2>2, <2>3 DEF generate_catalog
  <2> QED
    BY <1>1, <2>4
<1> QED
  BY <1>3, <1>4, <1>5

\* The metadata embedded are those of the declarations.
LEMMA MetasAre ==
  ASSUME NEW s \in Sources, CrossChecked(s), DeclaredIn(s) = s.declares
  PROVE  /\ {MetaOf(s, name) : name \in ToSet(RegisteredIn(s))} = ToSet(s.declares)
         /\ \A name \in ToSet(RegisteredIn(s)) : MetaOf(s, name).name = name
<1> DEFINE known == ToSet(RegisteredIn(s))
           Meta(name) == MetaOf(s, name)
<1>1. DeclaredIn(s) \in Seq(ToSet(s.declares))
  BY SourceIs
<1>2. \A name \in known : Meta(name) \in ToSet(s.declares) /\ Meta(name).name = name
  BY <1>1, MetaHasName
<1>3. \A d \in ToSet(s.declares) : d.name \in known
  BY DEF CrossChecked, NamesOf, ToSet
<1>4. ASSUME NEW d \in ToSet(s.declares), NEW c \in ToSet(s.declares), d.name = c.name
      PROVE  d = c
  <2>1. PICK i, j \in DOMAIN s.declares : d = s.declares[i] /\ c = s.declares[j]
    BY DEF ToSet
  <2> QED
    BY <1>4, <2>1, SourceAssumption
<1> HIDE DEF known, Meta
<1>5. \A d \in ToSet(s.declares) : d = Meta(d.name)
  BY <1>2, <1>3, <1>4
<1>6. {Meta(name) : name \in known} = ToSet(s.declares)
  BY <1>2, <1>3, <1>5
<1> QED
  BY <1>2, <1>6 DEF known, Meta

\* The tables of README.md hold the entries of the categories there are.
LEMMA TablesHold ==
  ASSUME NEW entries, Len(entries) \in Nat, DOMAIN entries = 1 .. Len(entries),
         {entries[i].category : i \in DOMAIN entries}
           \subseteq {"Compute", "Memory", "StorageOperations", "Other"}
  PROVE  UNION {ToSet(table) : table \in ToSet(generate_readme(entries))} = ToSet(entries)
<1> DEFINE Of(c) == {i \in DOMAIN entries : entries[i].category = c}
           C == DOMAIN category_order
           readme == generate_readme(entries)
<1>1. ASSUME NEW c
      PROVE  ToSet(InCategory(entries, c)) = {entries[i] : i \in Of(c)}
  <2>1. Of(c) \in SUBSET (1 .. Len(entries)) /\ 1 .. Len(entries) \subseteq Int
    OBVIOUS
  <2>2. IsFiniteSet(1 .. Len(entries))
    BY FS_Interval
  <2>3. IsFiniteSet(Of(c)) /\ Of(c) \subseteq Int
    BY <2>1, <2>2, FS_Subset
  <2> QED
    BY <2>3, ChosenAll DEF InCategory
<1>2. \A c \in {"Compute", "Memory", "StorageOperations", "Other"} :
        \E i \in C : category_order[i] = c
  <2>1. /\ C = 1 .. 6
        /\ category_order[1] = "StorageOperations" /\ category_order[2] = "Compute"
        /\ category_order[3] = "Memory" /\ category_order[6] = "Other"
    BY DEF category_order
  <2> QED
    BY <2>1
<1>3. ToSet(readme) = {InCategory(entries, category_order[i]) : i \in C}
  BY DEF generate_readme, ToSet
<1>4. ASSUME NEW e \in ToSet(entries)
      PROVE  \E i \in C : e \in ToSet(InCategory(entries, category_order[i]))
  <2>1. PICK j \in DOMAIN entries : e = entries[j]
    BY DEF ToSet
  <2>2. PICK i \in C : category_order[i] = entries[j].category
    BY <1>2
  <2> QED
    BY <1>1, <2>1, <2>2
<1>5. ASSUME NEW i \in C, NEW e \in ToSet(InCategory(entries, category_order[i]))
      PROVE  e \in ToSet(entries)
  <2>1. e \in {entries[j] : j \in Of(category_order[i])}
    BY <1>1
  <2> QED
    BY <2>1 DEF ToSet
<1> HIDE DEF C, readme
<1> QED
  BY <1>3, <1>4, <1>5 DEF readme

\* When lib.rs has a line for each field, plainly laid out, the build succeeds and
\* the documents are up to date, then what the tool embeds and what the three
\* documents list are the same lints, with the same levels, descriptions and
\* categories.
THEOREM InventoriesAgreed ==
  ASSUME FieldsAreLaidOut
  PROVE  Spec => []InventoriesAgree
<1>1. ASSUME BuildIsWhole, SourceKnown
      PROVE  InventoriesAgree
  <2> DEFINE infos == ToSet(out["lint_info"])
             registry == docs["lint-registry.json"].rows
             catalog == docs["lint_catalog.md"].rows
             readme == docs["README.md"].rows
             embedded == out["lint_metadata"]
             Categories == {registry[i].category : i \in DOMAIN registry}
             known == RegisteredIn(src)
             entries == parse_lib_rs(src)
             m == Len(src.declares)
  <2> SUFFICES ASSUME bpc = "ok", Build \notin doubt, DocsAreUp,
                      FieldPerLine(src), ~ HasLine(src, {"openTight"})
               PROVE  /\ ToSet(catalog) = infos
                      /\ ToSet(generate_catalog(registry)) = infos
                      /\ \A i \in DOMAIN registry, j \in DOMAIN embedded :
                           registry[i].name = embedded[j].meta.name =>
                             \/ registry[i].category = embedded[j].category
                             \/ /\ registry[i].category = "Other"
                                /\ embedded[j].category = "Unknown"
                      /\ Categories \subseteq {"Compute", "Memory", "StorageOperations", "Other"} =>
                           UNION {ToSet(table) : table \in ToSet(readme)} = ToSet(registry)
    BY DEF InventoriesAgree
  <2>1. CrossChecked(src) /\ src \in Sources
    BY <1>1 DEF BuildIsWhole, SourceKnown
  <2>2. /\ DeclaredIn(src) = src.declares
        /\ entries = [k \in 1 .. m |-> EntryOf(src, src.declares[k])]
        /\ generate_catalog(entries) = src.declares
    BY <2>1, LaidOutIsRead DEF FieldsAreLaidOut
  <2>3. /\ registry = entries
        /\ catalog = generate_catalog(entries)
        /\ readme = generate_readme(entries)
    <3>1. \A f \in {"README.md", "lint-registry.json", "lint_catalog.md"} :
            docs[f].rows = Generated(f, src)
      BY DEF DocsAreUp, Documents, ToSet
    <3> QED
      BY <3>1 DEF Generated, generate_registry
  <2>4. /\ out["lint_info"] = [i \in DOMAIN known |-> MetaOf(src, known[i])]
        /\ embedded = [i \in DOMAIN known |->
                         [meta     |-> MetaOf(src, known[i]),
                          category |-> CategoryIn(src, known[i], "Unknown")]]
    <3>1. \A file \in {"lint_info", "lint_metadata"} : out[file] = ContentOf(file, src)
      BY <1>1, OutputFacts DEF BuildIsWhole, Outputs, ToSet
    <3> QED
      BY <3>1 DEF ContentOf
  <2>5. /\ {MetaOf(src, name) : name \in ToSet(known)} = ToSet(src.declares)
        /\ \A name \in ToSet(known) : MetaOf(src, name).name = name
    BY <2>1, <2>2, MetasAre
  <2>6. infos = ToSet(src.declares)
    <3>1. infos = {MetaOf(src, known[i]) : i \in DOMAIN known}
      BY <2>4 DEF ToSet
    <3>2. ToSet(known) = {known[i] : i \in DOMAIN known}
      BY DEF ToSet
    <3>3. {MetaOf(src, known[i]) : i \in DOMAIN known}
            = {MetaOf(src, name) : name \in ToSet(known)}
      BY ONLY <3>2
    <3> QED
      BY <2>5, <3>1, <3>3
  <2>7. ToSet(catalog) = infos /\ ToSet(generate_catalog(registry)) = infos
    BY <2>2, <2>3, <2>6
  <2>8. ASSUME NEW i \in DOMAIN registry, NEW j \in DOMAIN embedded,
               registry[i].name = embedded[j].meta.name
        PROVE  \/ registry[i].category = embedded[j].category
               \/ registry[i].category = "Other" /\ embedded[j].category = "Unknown"
    <3>1. /\ i \in 1 .. m
          /\ registry[i].name = src.declares[i].name
          /\ registry[i].category = CategoryIn(src, src.declares[i].name, "Other")
      BY <2>2, <2>3 DEF EntryOf
    <3>2. /\ j \in DOMAIN known
          /\ embedded[j].meta = MetaOf(src, known[j])
          /\ embedded[j].category = CategoryIn(src, known[j], "Unknown")
      BY <2>4
    <3>3. MetaOf(src, known[j]).name = known[j]
      BY <2>5, <3>2 DEF ToSet
    <3>4. src.declares[i].name = known[j]
      BY <2>8, <3>1, <3>2, <3>3
    <3>5. \/ CategoryIn(src, known[j], "Other") = CategoryIn(src, known[j], "Unknown")
          \/ /\ CategoryIn(src, known[j], "Other") = "Other"
             /\ CategoryIn(src, known[j], "Unknown") = "Unknown"
      BY DEF CategoryIn
    <3> QED
      BY <3>1, <3>2, <3>4, <3>5
  <2>9. Len(entries) \in Nat /\ DOMAIN entries = 1 .. Len(entries)
    <3>1. m \in Nat
      BY <2>1, SourceIs
    <3> QED
      BY <2>2, <3>1
  <2>10. ASSUME Categories \subseteq {"Compute", "Memory", "StorageOperations", "Other"}
         PROVE  UNION {ToSet(table) : table \in ToSet(readme)} = ToSet(registry)
    BY <2>3, <2>9, <2>10, TablesHold
  <2> QED
    BY <2>7, <2>8, <2>10
<1> QED
  BY <1>1, BuildWhole, SourcesAreKnown, PTL
=============================================================================
