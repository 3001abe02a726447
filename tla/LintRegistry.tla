---------------------------- MODULE LintRegistry ----------------------------
(***************************************************************************)
(* What is generated from lib.rs, and who reads it: the build script of    *)
(* cargo-cost-lint writes five files into OUT_DIR, generate-lint-docs      *)
(* writes or checks three documents, and the configuration is validated    *)
(* against the names of the last build.  Developers edit lib.rs and the    *)
(* pages of the lints meanwhile.                                           *)
(***************************************************************************)
EXTENDS LintSource

CONSTANTS
  Worlds,     \* initial states of the tree: [src, pages, channel, docs, left]
  Revisions,  \* the sources an edit may leave
  Configs,    \* the budget.toml files that may be read
  Malformed,  \* a table of budget.toml that is none
  Gens,       \* runs of generate-lint-docs
  Torn        \* a file that is truncated and not yet written

\* The bounds of a world: how many edits there may be, runs of the generator
\* and repetitions of the build, and configurations read.
ASSUME BoundAssumption ==
  \A w \in Worlds : w.left \in [edits : Nat, starts : Nat, loads : Nat]

Config == INSTANCE LintConfig

\* The files in the order in which they are written.
Outputs == <<"version_info", "lint_names", "lint_metadata", "lint_info",
             "lint_explanations">>
Documents == <<"README.md", "lint-registry.json", "lint_catalog.md">>

VARIABLES
  src,      \* lib.rs
  pages,    \* the lints that have a page in docs/lints
  channel,  \* the channel in rust-toolchain, or Missing
  docs,     \* the three documents: [rows, crlf], Missing or Torn
  out,      \* the five files of OUT_DIR
  bpc,      \* the build script: "idle", "parsed", "paged", "matched", "read",
            \* "writing", "ok", "failed"
  bsrc,     \* what it read of lib.rs
  at,       \* the file each run is about to write or compare
  gpc,      \* the runs: "idle", "truncating", "writing", "comparing", "done"
  gsrc,     \* what each read of lib.rs
  stale,    \* the documents a check found out of date
  status,   \* the exit status of each run
  loaded,   \* what the last reading of a configuration gave
  left,     \* how many edits, starts and loads are left
  doubt     \* history: the runs and the build under which something changed,
            \* and whether the build has overlooked an orphaned page

tree == <<src, pages, channel>>
build == <<out, bpc, bsrc>>
gens == <<docs, gpc, gsrc, stale, status>>
vars == <<tree, build, gens, at, loaded, left, doubt>>

Build == "build"
Orphan == "orphan"
Runs == Gens \cup {Build}

Active(p) == IF p = Build THEN bpc \notin {"idle", "ok", "failed"}
             ELSE gpc[p] \notin {"idle", "done"}

Writers == {g \in Gens : gpc[g] \in {"truncating", "writing"}}

-----------------------------------------------------------------------------
\* The build script.

RegisteredIn(s) == parse_register_lints(s.registered)
DeclaredIn(s) == parse_declare_lints(s.text)
NamesOf(lints) == {lints[i].name : i \in DOMAIN lints}

\* metadata_by_name: of two blocks with one name the later counts.
MetaOf(s, name) ==
  LET lints == DeclaredIn(s)
  IN lints[Max({i \in DOMAIN lints : lints[i].name = name})]

\* Variant for mutation: only registered lints are looked up.
CrossChecked_oneWay(s) ==
  /\ RegisteredIn(s) # Missing
  /\ DeclaredIn(s) # Missing
  /\ ToSet(RegisteredIn(s)) \subseteq NamesOf(DeclaredIn(s))

\* Both parsers succeed, and what one finds the other finds.
CrossChecked(s) ==
  /\ RegisteredIn(s) # Missing
  /\ DeclaredIn(s) # Missing
  /\ ToSet(RegisteredIn(s)) = NamesOf(DeclaredIn(s))

\* What is written into each file: one entry for each registered lint, in the
\* order of registration.
ContentOf(file, s) ==
  LET names == RegisteredIn(s)
      each(F(_)) == [i \in DOMAIN names |-> F(names[i])]
      Entry(name) == [meta     |-> MetaOf(s, name),
                      category |-> CategoryIn(s, name, "Unknown")]
  IN CASE file = "version_info"      -> channel
       [] file = "lint_names"        -> names
       [] file = "lint_metadata"     -> each(Entry)
       [] file = "lint_info"         -> each(LAMBDA name : MetaOf(s, name))
       [] file = "lint_explanations" -> names

BuildGoto(pc) ==
  /\ bpc' = pc
  /\ UNCHANGED <<tree, gens, bsrc, loaded, left, doubt>>

\* lib.rs is read once; a parser or the cross-check may end the build.
BuildParses ==
  /\ bpc = "idle"
  /\ bsrc' = src
  /\ bpc' = IF CrossChecked(src) THEN "parsed" ELSE "failed"
  /\ UNCHANGED <<tree, gens, out, at, loaded, left, doubt>>

\* Every registered lint has a page.
BuildFindsPages ==
  /\ bpc = "parsed"
  /\ BuildGoto(IF ToSet(RegisteredIn(bsrc)) \subseteq pages THEN "paged"
               ELSE "failed")
  /\ UNCHANGED <<out, at>>

\* Every page that is seen belongs to a registered lint: a directory or an
\* entry that cannot be read is passed over in silence.
BuildFindsOrphans ==
  /\ bpc = "paged"
  /\ LET orphans == pages \ ToSet(RegisteredIn(bsrc))
     IN \E seen \in SUBSET orphans :
          /\ bpc' = IF seen = {} THEN "matched" ELSE "failed"
          /\ doubt' = IF seen = {} /\ orphans # {} THEN doubt \cup {Orphan}
                      ELSE doubt
  /\ UNCHANGED <<tree, gens, out, bsrc, at, loaded, left>>

\* The pages are read into the explanations.
BuildReadsPages ==
  /\ bpc = "matched"
  /\ BuildGoto(IF ToSet(RegisteredIn(bsrc)) \subseteq pages THEN "read"
               ELSE "failed")
  /\ UNCHANGED <<out, at>>

\* Variant for mutation: the files are not written from the first.
BuildReadsToolchain_goesOn ==
  /\ bpc = "read"
  /\ BuildGoto(IF channel = Missing THEN "failed" ELSE "writing")
  /\ UNCHANGED <<out, at>>

BuildReadsToolchain ==
  /\ bpc = "read"
  /\ BuildGoto(IF channel = Missing THEN "failed" ELSE "writing")
  /\ at' = [at EXCEPT ![Build] = 1]
  /\ UNCHANGED out

BuildWrites ==
  /\ bpc = "writing"
  /\ LET file == Outputs[at[Build]]
     IN out' = [out EXCEPT ![file] = ContentOf(file, bsrc)]
  /\ at' = [at EXCEPT ![Build] = @ + 1]
  /\ BuildGoto(IF at[Build] = Len(Outputs) THEN "ok" ELSE "writing")

\* An I/O error or a signal: the files written so far stay, and the one being
\* written may be torn.
BuildFails ==
  /\ Active(Build)
  /\ BuildGoto("failed")
  /\ \/ UNCHANGED out
     \/ bpc = "writing" /\ out' = [out EXCEPT ![Outputs[at[Build]]] = Torn]
  /\ UNCHANGED at

\* Cargo runs the script again.
Rebuild ==
  /\ bpc \in {"ok", "failed"} /\ left.starts > 0
  /\ left' = [left EXCEPT !.starts = @ - 1]
  /\ bpc' = "idle"
  /\ doubt' = doubt \ {Build, Orphan}
  /\ UNCHANGED <<tree, gens, out, bsrc, at, loaded>>

-----------------------------------------------------------------------------
\* generate-lint-docs.

\* Variant for mutation: the table of lints without a category is forgotten.
category_order_known ==
  <<"StorageOperations", "Compute", "Memory", "EntryLifecycle",
    "SymbolOperations">>

category_order ==
  <<"StorageOperations", "Compute", "Memory", "EntryLifecycle",
    "SymbolOperations", "Other">>

InCategory(entries, c) ==
  Chosen(entries, {i \in DOMAIN entries : entries[i].category = c})

\* One table for each category; an entry with another one is in no table.
generate_readme(entries) ==
  [i \in DOMAIN category_order |-> InCategory(entries, category_order[i])]

generate_registry(entries) == entries

generate_catalog(entries) ==
  [i \in DOMAIN entries |-> [name        |-> entries[i].name,
                             level       |-> entries[i].level,
                             description |-> entries[i].description]]

Generated(file, s) ==
  LET entries == parse_lib_rs(s)
  IN CASE file = "README.md"          -> generate_readme(entries)
       [] file = "lint-registry.json" -> generate_registry(entries)
       [] file = "lint_catalog.md"    -> generate_catalog(entries)

\* Variant for mutation: a document is compared byte for byte.
Normalised_bytes(file) ==
  IF docs[file] \in {Missing, Torn} \/ docs[file].crlf THEN <<>>
  ELSE docs[file].rows

\* The text of a document, line endings aside; nothing if there is none.
Normalised(file) ==
  IF docs[file] \in {Missing, Torn} THEN <<>> ELSE docs[file].rows

\* An empty document still has a heading: it is no missing one.
Stale(file, s) ==
  docs[file] \in {Missing, Torn} \/ Normalised(file) # Generated(file, s)

GenGoto(g, pc) == gpc' = [gpc EXCEPT ![g] = pc]

\* A run starts and reads lib.rs; with --check it will compare.  Another run
\* that writes at the same time is a reason for doubt.
GenStarts(g) ==
  /\ gpc[g] = "idle" /\ left.starts > 0
  /\ left' = [left EXCEPT !.starts = @ - 1]
  /\ gsrc' = [gsrc EXCEPT ![g] = src]
  /\ at' = [at EXCEPT ![g] = 1]
  /\ \/ /\ GenGoto(g, "truncating")
        /\ doubt' = doubt \cup {p \in Gens : Active(p)} \cup
                      (IF Writers = {} THEN {} ELSE {g})
     \/ /\ GenGoto(g, "comparing")
        /\ doubt' = IF Writers = {} THEN doubt ELSE doubt \cup {g}
  /\ UNCHANGED <<tree, build, docs, stale, status, loaded>>

\* fs::write opens a file, which empties it, and writes.
GenTruncates(g) ==
  /\ gpc[g] = "truncating"
  /\ docs' = [docs EXCEPT ![Documents[at[g]]] = Torn]
  /\ GenGoto(g, "writing")
  /\ UNCHANGED <<tree, build, at, gsrc, stale, status, loaded, left, doubt>>

\* Variant for mutation: the run ends before the catalog.
GenWrites_two(g) ==
  /\ gpc[g] = "writing"
  /\ LET file == Documents[at[g]]
     IN docs' = [docs EXCEPT ![file] =
                   [rows |-> Generated(file, gsrc[g]), crlf |-> FALSE]]
  /\ at' = [at EXCEPT ![g] = @ + 1]
  /\ IF at[g] = 2
     THEN GenGoto(g, "done") /\ status' = [status EXCEPT ![g] = 0]
     ELSE GenGoto(g, "truncating") /\ UNCHANGED status
  /\ UNCHANGED <<tree, build, gsrc, stale, loaded, left, doubt>>

GenWrites(g) ==
  /\ gpc[g] = "writing"
  /\ LET file == Documents[at[g]]
     IN docs' = [docs EXCEPT ![file] =
                   [rows |-> Generated(file, gsrc[g]), crlf |-> FALSE]]
  /\ at' = [at EXCEPT ![g] = @ + 1]
  /\ IF at[g] = Len(Documents)
     THEN GenGoto(g, "done") /\ status' = [status EXCEPT ![g] = 0]
     ELSE GenGoto(g, "truncating") /\ UNCHANGED status
  /\ UNCHANGED <<tree, build, gsrc, stale, loaded, left, doubt>>

\* --check reads all three documents, and reports each one that is stale.
GenCompares(g) ==
  /\ gpc[g] = "comparing" /\ at[g] <= Len(Documents)
  /\ LET file == Documents[at[g]]
     IN stale' = [stale EXCEPT ![g] =
                    IF Stale(file, gsrc[g]) THEN @ \cup {file} ELSE @]
  /\ at' = [at EXCEPT ![g] = @ + 1]
  /\ UNCHANGED <<tree, build, docs, gpc, gsrc, status, loaded, left, doubt>>

GenVerdict(g) ==
  /\ gpc[g] = "comparing" /\ at[g] > Len(Documents)
  /\ GenGoto(g, "done")
  /\ status' = [status EXCEPT ![g] = IF stale[g] = {} THEN 0 ELSE 1]
  /\ UNCHANGED <<tree, build, docs, at, gsrc, stale, loaded, left, doubt>>

\* A failed write panics; a signal ends the run anywhere.
GenFails(g) ==
  /\ Active(g)
  /\ GenGoto(g, "done")
  /\ status' = [status EXCEPT ![g] = 101]
  /\ UNCHANGED <<tree, build, docs, at, gsrc, stale, loaded, left, doubt>>

-----------------------------------------------------------------------------
\* A configuration is read by a tool that was built with the names of OUT_DIR.
LoadConfig ==
  /\ bpc = "ok" /\ left.loads > 0
  /\ left' = [left EXCEPT !.loads = @ - 1]
  /\ \E file \in Configs :
       LET keys == IF file.lints \in {Missing, Malformed} THEN {}
                   ELSE DOMAIN file.lints
       IN \E first \in SetToSeqs(keys), second \in SetToSeqs(keys) :
            LET result == Config!from_file_validated(file, out["lint_names"], first)
            IN loaded' = [file    |-> file,
                          lints   |-> NamesOf(bsrc.declares),
                          known   |-> out["lint_names"],
                          result  |-> result,
                          flags   |-> Config!to_lint_flags(result.lints, second),
                          lenient |-> Config!parse_config(file)]
  /\ UNCHANGED <<tree, build, gens, at, doubt>>

-----------------------------------------------------------------------------
Sources == Revisions \cup {w.src : w \in Worlds}

\* No lib.rs declares a static twice, and one that is registered is declared, as
\* far as the parser of declarations sees one of its name: rustc compiles it.
ASSUME SourceAssumption ==
  \A s \in Sources :
    /\ s.declares \in Seq(ToSet(s.declares)) /\ s.text \in Seq(ToSet(s.text))
    /\ \A i, j \in DOMAIN s.declares :
         s.declares[i].name = s.declares[j].name => s.declares[i] = s.declares[j]
    /\ CrossChecked(s) => ToSet(RegisteredIn(s)) \subseteq NamesOf(s.declares)

\* A HashMap is finite.
ASSUME ConfigAssumption ==
  \A file \in Configs :
    file.lints \in {Missing, Malformed} \/ IsFiniteSet(DOMAIN file.lints)

\* What the proofs need of the constants; TLC evaluates it.  A document that
\* has been written is neither missing nor torn.
ASSUME RegistryAssumption ==
  /\ {Build, Orphan} \cap Gens = {}
  /\ Missing \notin {0, 1, 101}
  /\ \A w \in Worlds : DOMAIN w.docs = ToSet(Documents)
  /\ \A s \in Sources, f \in ToSet(Documents) :
       [rows |-> Generated(f, s), crlf |-> FALSE] \notin {Missing, Torn}

TypeOK ==
  /\ bpc \in {"idle", "parsed", "paged", "matched", "read", "writing", "ok",
              "failed"}
  /\ at \in [Runs -> Nat]
  /\ bpc = "writing" => at[Build] \in DOMAIN Outputs
  /\ DOMAIN docs = ToSet(Documents) /\ DOMAIN out = ToSet(Outputs)
  /\ gpc \in [Gens -> {"idle", "truncating", "writing", "comparing", "done"}]
  /\ DOMAIN gsrc = Gens
  /\ stale \in [Gens -> SUBSET ToSet(Documents)]
  /\ status \in [Gens -> {Missing, 0, 1, 101}]
  /\ \A g \in Gens :
       /\ gpc[g] \in {"truncating", "writing"} => at[g] \in DOMAIN Documents
       /\ gpc[g] = "comparing" => at[g] \in 1 .. Len(Documents) + 1
       /\ gpc[g] = "idle" => stale[g] = {}
       /\ status[g] # Missing <=> gpc[g] = "done"
  /\ doubt \subseteq Runs \cup {Orphan}

Init ==
  /\ \E w \in Worlds : /\ src = w.src /\ pages = w.pages
                       /\ channel = w.channel /\ docs = w.docs
                       /\ left = w.left
  /\ out = [f \in ToSet(Outputs) |-> Missing]
  /\ bpc = "idle" /\ bsrc = Missing
  /\ at = [p \in Runs |-> 1]
  /\ gpc = [g \in Gens |-> "idle"] /\ gsrc = [g \in Gens |-> Missing]
  /\ stale = [g \in Gens |-> {}] /\ status = [g \in Gens |-> Missing]
  /\ loaded = Missing
  /\ doubt = {}

\* A developer edits lib.rs, adds a page or removes one.
Edit ==
  /\ left.edits > 0
  /\ \/ src' \in Revisions \ {src} /\ UNCHANGED pages
     \/ \E page \in pages : pages' = pages \ {page} /\ UNCHANGED src
     \/ \E page \in NamesOf(src.declares) \ pages :
          pages' = pages \cup {page} /\ UNCHANGED src
  /\ left' = [left EXCEPT !.edits = @ - 1]
  /\ doubt' = doubt \cup {p \in Runs : Active(p)}
                \cup (IF bpc = "ok" THEN {Build} ELSE {})
  /\ UNCHANGED <<channel, build, gens, at, loaded>>

\* Nothing more happens.
Rest == bpc \in {"ok", "failed"} /\ (\A g \in Gens : ~ Active(g)) /\ UNCHANGED vars

Next ==
  \/ BuildParses \/ BuildFindsPages \/ BuildFindsOrphans \/ BuildReadsPages
  \/ BuildReadsToolchain \/ BuildWrites \/ BuildFails \/ Rebuild
  \/ \E g \in Gens : \/ GenStarts(g) \/ GenTruncates(g) \/ GenWrites(g)
                     \/ GenCompares(g) \/ GenVerdict(g) \/ GenFails(g)
  \/ LoadConfig
  \/ Edit
  \/ Rest

Spec == Init /\ [][Next]_vars
-----------------------------------------------------------------------------
\* Properties.

\* Layouts on which the parsers are not expected to see what rustc sees.
HasLine(s, kinds) == \E i \in DOMAIN s.text : s.text[i].k \in kinds

BracesInStrings(s) == HasLine(s, {"textOpen", "textClose"})

\* One line for each field, with nothing but blank lines between.
FieldPerLine(s) ==
  /\ ~ HasLine(s, {"inline", "openComment", "name"})
  /\ \A i \in DOMAIN s.declares : Len(s.declares[i].description) = 1
  /\ \A i \in DOMAIN s.text : s.text[i].k = "pubName" =>
       LET level == NextLine(s.text, i + 1, Blank)
           description == NextLine(s.text, level + 1, Blank)
       IN s.text[level].k = "level" /\ s.text[description].k = "text"

\* The lines from i to j are a declaration of d: its name, its level and the
\* lines of its description, with only blank lines, comments and attributes
\* between.
Quiet(line) == line.k \in {"blank", "comment", "attribute"}

Declares(text, i, j, d) ==
  LET fields == {l \in i + 1 .. j - 1 : ~ Quiet(text[l])}
      n == Cardinality(fields)
  IN /\ n >= 3
     /\ \E place \in [1 .. n -> fields] :
          /\ \A k, l \in 1 .. n : k < l => place[k] < place[l]
          /\ text[place[1]].k \in {"pubName", "name"}
          /\ text[place[2]].k = "level"
          /\ \A k \in 3 .. n : text[place[k]].k = "text"
          /\ d = [name        |-> text[place[1]].v,
                  level       |-> text[place[2]].v,
                  description |-> [k \in 1 .. n - 2 |-> text[place[k + 2]].v]]
     /\ d.description # <<"">>

\* The declarations stand one after the other, and nothing else does.
LaidOut(s) ==
  LET Lines(kind) == {i \in DOMAIN s.text : s.text[i].k = kind}
  IN \E first \in [DOMAIN s.declares -> Lines("open")],
        last \in [DOMAIN s.declares -> Lines("close")] :
       /\ \A k, l \in DOMAIN s.declares : k < l => last[k] < first[l]
       /\ \A k \in DOMAIN s.declares :
            first[k] < last[k] /\ Declares(s.text, first[k], last[k], s.declares[k])
       /\ \A i \in DOMAIN s.text :
            Quiet(s.text[i]) \/ \E k \in DOMAIN s.declares : i \in first[k] .. last[k]

\* Sources with a line for each field are laid out like this.
FieldsAreLaidOut ==
  \A s \in Sources :
    CrossChecked(s) /\ FieldPerLine(s) /\ ~ HasLine(s, {"openTight"}) => LaidOut(s)

\* The parser of declarations makes of each of these sources what rustc does.
ParserIsRight ==
  \A s \in Sources : CrossChecked(s) /\ ~ BracesInStrings(s) =>
    /\ DeclaredIn(s) \in Seq(ToSet(s.declares))
    /\ ~ HasLine(s, {"openTight"}) => ToSet(s.declares) \subseteq ToSet(DeclaredIn(s))

\* A build that ends well, with nobody editing under it, gives exactly the
\* lints that rustc declares and that have a page, each with the level and the
\* description rustc sees, however lib.rs is laid out: the parsers and the
\* cross-check of build.rs fail rather than lose a lint.  (A macro written
\* without a space can hide a lint that is not registered; a brace in a string
\* can end a description early; a page that could not be listed may belong to
\* no lint.)
BuildVouchesForLints ==
  bpc = "ok" /\ Build \notin doubt /\ ~ BracesInStrings(src) =>
    LET names == ToSet(out["lint_names"])
        infos == ToSet(out["lint_info"])
    IN /\ infos \subseteq ToSet(src.declares)
       /\ names = NamesOf(out["lint_info"]) /\ names \subseteq pages
       /\ Orphan \notin doubt => names = pages
       /\ ~ HasLine(src, {"openTight"}) => infos = ToSet(src.declares)
       /\ \A i \in DOMAIN out["lint_info"] :
            /\ out["lint_names"][i] = out["lint_info"][i].name
            /\ out["lint_metadata"][i].meta = out["lint_info"][i]

DocsAreUp ==
  \A f \in ToSet(Documents) : /\ docs[f] \notin {Missing, Torn}
                              /\ docs[f].rows = Generated(f, src)

\* Two programs parse lib.rs, each in its own way.  When the build succeeds and
\* the documents are up to date, the embedded inventory and all three documents
\* list the same lints with the same levels, descriptions and categories, if
\* each field has a line of its own and each category is one README.md has.
InventoriesAgree ==
  bpc = "ok" /\ Build \notin doubt /\ DocsAreUp
  /\ FieldPerLine(src) /\ ~ HasLine(src, {"openTight"}) =>
    LET infos == ToSet(out["lint_info"])
        registry == docs["lint-registry.json"].rows
        Categories == {registry[i].category : i \in DOMAIN registry}
    IN /\ ToSet(docs["lint_catalog.md"].rows) = infos
       /\ ToSet(generate_catalog(registry)) = infos
       /\ \A i \in DOMAIN registry, j \in DOMAIN out["lint_metadata"] :
            LET embedded == out["lint_metadata"][j]
            IN registry[i].name = embedded.meta.name =>
                 \/ registry[i].category = embedded.category
                 \/ registry[i].category = "Other" /\ embedded.category = "Unknown"
       /\ Categories \subseteq {"Compute", "Memory", "StorageOperations", "Other"} =>
            UNION {ToSet(table) : table \in ToSet(docs["README.md"].rows)}
              = ToSet(registry)

\* A check that nobody disturbs ends with 0 exactly if all three documents are
\* whole and made of the lib.rs there is, whatever their line endings: half a
\* generation, left by a failure between two writes, does not pass (main).
CheckIsExact ==
  [][\A g \in Gens \ doubt : GenVerdict(g) => (status'[g] = 0 <=> DocsAreUp)]_vars

\* A run that writes undisturbed and exits with 0 leaves all documents up to
\* date, whatever it found (main).
WriterLeavesDocsUp ==
  [][\A g \in Gens \ doubt :
       gpc[g] = "writing" /\ gpc'[g] = "done" /\ status'[g] = 0 => DocsAreUp']_vars

\* A run in no doubt has read the lib.rs there is, and nobody else writes.
UndisturbedRuns ==
  \A g \in Gens \ doubt : Active(g) => gsrc[g] = src /\ Writers \subseteq {g}

\* The documents a writer in no doubt is past hold what it generates.
WrittenSoFar ==
  \A g \in Gens \ doubt : gpc[g] \in {"truncating", "writing"} =>
    \A k \in 1 .. at[g] - 1 :
      docs[Documents[k]] = [rows |-> Generated(Documents[k], src), crlf |-> FALSE]

\* A check in no doubt has reported what is stale of the documents it is past.
ComparedSoFar ==
  \A g \in Gens \ doubt : gpc[g] = "comparing" =>
    \A k \in DOMAIN Documents :
      Documents[k] \in stale[g] <=> k < at[g] /\ Stale(Documents[k], src)

\* A build in no doubt has found, so far, that the two parsers, the pages and
\* lib.rs agree, and the files it is past are made of one reading of lib.rs.
BuildSoFar ==
  Build \notin doubt =>
    /\ bpc \notin {"idle", "failed"} => bsrc = src /\ CrossChecked(src)
    /\ bpc \notin {"idle", "failed", "parsed"} => ToSet(RegisteredIn(src)) \subseteq pages
    /\ bpc \notin {"idle", "failed", "parsed", "paged"} /\ Orphan \notin doubt =>
         pages \subseteq ToSet(RegisteredIn(src))
    /\ bpc \in {"writing", "ok"} => \A k \in DOMAIN Outputs :
         bpc = "ok" \/ k < at[Build] => out[Outputs[k]] = ContentOf(Outputs[k], src)

\* A build that ends well, with nobody editing under it, leaves five files made
\* of one lib.rs, in which both parsers see the same lints, those with a page;
\* each has one even if the directory of pages could not be listed.
BuildIsWhole ==
  bpc = "ok" /\ Build \notin doubt =>
    /\ CrossChecked(src) /\ ToSet(RegisteredIn(src)) \subseteq pages
    /\ Orphan \notin doubt => ToSet(RegisteredIn(src)) = pages
    /\ \A file \in ToSet(Outputs) : out[file] = ContentOf(file, src)

\* Whatever is edited meanwhile, the build has compared what the two parsers see,
\* and the names it embeds are those of that one reading.
NamesAreRead ==
  /\ bpc \notin {"idle", "failed"} => CrossChecked(bsrc)
  /\ bpc = "ok" \/ (bpc = "writing" /\ at[Build] > 2) =>
       out["lint_names"] = RegisteredIn(bsrc)

\* The inductive invariant.
RegistryInv ==
  /\ TypeOK
  /\ UndisturbedRuns /\ WrittenSoFar /\ ComparedSoFar
  /\ BuildSoFar /\ BuildIsWhole /\ NamesAreRead

\* A configuration is accepted or refused whatever order its HashMap has.  What
\* is accepted becomes one flag for each setting, in some order, each for a lint
\* that rustc declares: no flag is lost to the skipping of unknown levels, and
\* none names a lint that cargo dylint would not know
\* (from_file_validated, to_lint_flags, over the LINT_NAMES of build.rs).
AcceptedSettingsBecomeFlags ==
  loaded # Missing =>
    LET lints == loaded.file.lints
        flags == ToSet(loaded.flags)
        Names == {f.lint : f \in flags}
        Good == lints = Missing \/ \A name \in DOMAIN lints :
                  name \in ToSet(loaded.known) /\ lints[name] \in {"allow", "warn", "deny"}
    IN /\ loaded.result.ok <=> /\ loaded.file.readable /\ loaded.file.toml
                              /\ lints # Malformed /\ Good
       /\ loaded.result.ok => /\ Names = (IF lints = Missing THEN {} ELSE DOMAIN lints)
                              /\ Len(loaded.flags) = Cardinality(Names)
                              /\ Names \subseteq loaded.lints
       /\ ~ loaded.result.ok => loaded.flags = <<>>
=============================================================================
