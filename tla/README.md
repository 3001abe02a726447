# Verification of soroban-cost-linter

TLA+ models of the parts of soroban-cost-linter that keep state, run
concurrently, or can be interrupted, with the TLC configurations that check them
and TLAPS proofs of what matters most. Line numbers refer to the repository at
the commit beside this directory. Every definition is translated from the
source; `PROJECT.json` maps each one to its lines.

The repository as it stands does not compile: `main.rs` calls three functions that
no module defines, the lint crate three more, `output_formatters.rs` adds a `&str` to
a `&str`, and `build.rs` stops at its own cross-check. The models describe the code as
written, and each says what it takes the missing functions to be; the one pass that consists of
them is left out (section 5).

## 1. Inventory

| component | state it keeps | operations | talks to |
|---|---|---|---|
| Driver, `cargo-cost-lint/src/main.rs` | locals of one process | parse, `execute_dylint_and_collect_findings`, `invoke_dylint`, `parse_dylint_output`, the loop and exit code of `run`, `list_lints` | cache, `cargo dylint` child, standard output |
| Result cache, `cache.rs` | one JSON file per key under `--cache-dir`, shared by every process of the workspace | `compute_source_hash`, `get_toolchain_version`, `compute_hash`, `load_cache_entry`, `save_cache_entry`, `clear_cache` | file system, `rustc -Vv` |
| Output formatters, `output_formatters.rs` | accumulated findings | `handle_finding`, `print_findings_summary`, `generate_sarif_report` | standard output |
| Configuration, `config.rs`, `budget_config.rs`, `lint_name_set.rs` | none | parse, validate against the lint inventory, `to_lint_flags` | build script's inventory; called by nobody |
| Build script, `build.rs` | five generated files in `OUT_DIR` | two parsers of `lib.rs`, cross-check, pages of the lints | lint crate sources, `docs/lints`, `rust-toolchain` |
| Documentation generator, `tools/generate-lint-docs` | three generated documents | parse, generate, `--check` | lint crate sources |
| Lint passes, `soroban_cost_lints/src/lib.rs` | none between expressions | `check_expr` of two passes, declarations, registration | rustc, clippy_utils |
| Corpus test, `tests/real_world_corpus.rs` | `baseline.json` | lint every contract, triage, BLESS, compare; `dogfood-action.yml` compares again | driver, corpus |
| Performance gate, `benches/linter_performance.rs` | `benchmark_baseline.json` | time every contract, BLESS, compare | driver, corpus |
| Cost benchmarks, `cost_benchmarks/src/lib.rs` | one `Env` and its budget | eleven comparisons of a bad and a good way | Soroban host |
| Nightly bump, `.github/scripts`, `nightly-bump.yml` | working tree, main, one pull request | resolve, edit, validate, publish | GitHub, developers |
| Failure summary of the bump, CLI integration tests, `action.yml` and the other workflows | none | | not modelled, section 5 |

How they interact: `lib.rs` of the lint crate is read as text by the build script and by
the generator; the names the build script embeds are what configurations are validated
against; the driver runs the child, caches and prints what it says; the corpus test and
the performance gate run the driver; the bump changes the toolchain under all of them.

What is hard, and where:

* **Concurrency.** The cache takes no lock and writes entries in place. Runs,
  clears and `cargo clean` interleave between the system calls of each other; two
  generators may write the same documents.
* **Stale reads.** A run reads the workspace three times (key to load, the child,
  key to save) while an editor may write it; the build script reads `lib.rs` once and
  the pages twice; a gate compares with a record of another corpus and another day.
* **Failure and crash.** A save may stop after the truncation or in the middle
  of the bytes; the child may fail half-way and its exit status is not read; a bump, a
  generation or a recording may stop between any two of its steps and be retried on
  what it left; the reader of standard output may go away at any line.
* **Ordering.** HashMap iteration, listing a directory that changes, a scheduled
  job against a developer's own bump.
* **Two readings of one thing.** Three hand-written parsers read `lib.rs` beside
  rustc; three renderings and the exit code each decide what an error is.
* **Numbers.** The 128-bit lint reasons about ranges at the edge of 64 bits; the
  gates compare percentages at their boundary.

What makes each component correct: caching must be invisible except for speed;
an entry must match its key; nothing torn may be served; a clear must leave no
file it saw; nobody may wait for anybody; a run's report must depend only on its
findings, and its exit code agree with it; generated files must agree with the lint
crate and with each other, or their generation fail; a reported value must fit 64 bits; a gate that
passes must mean that nothing
got worse since its record; a benchmark must not flatter a lint; and the validator must
never take half a nightly bump for a whole one.

## 2. Modules

| module | models |
|---|---|
| `LintKeys` | the constants, workspaces, snapshots and cache keys (`cache.rs` 36-139) |
| `CacheFiles` | the cache directory at the granularity of its system calls |
| `LintRun` | runs of the driver over `CacheFiles`, with edits, clears, `cargo clean` and faults |
| `LintService` | the abstract promise: a linter without a cache |
| `LintRunProofs` | theorems about `LintRun` |
| `LintReport` | what a run makes of its findings: parsing, rendering, summary, exit code |
| `LintReportProofs` | theorems about `LintReport` |
| `LintSource` | `lib.rs` as text, and its three parsers |
| `LintConfig` | the two readers of `budget.toml` and the lint flags |
| `LintRegistry` | the build script and the generator at work on a tree that is edited |
| `LintRegistryProofs` | theorems about `LintRegistry` |
| `LibRs` | the repository's own `lib.rs` and pages as an instance of `LintRegistry` |
| `WideArithmetic` | the 128-bit lint of `lib.rs` against exact arithmetic |
| `WideArithmeticProofs` | theorems about `WideArithmetic` |
| `Corpus` | the contracts that the two gates list |
| `CorpusProofs` | lemmas about the list of contracts, for both gates |
| `CorpusGate` | the corpus test, its baseline, and the workflow job that reads the same baseline |
| `CorpusGateProofs` | theorems about `CorpusGate` |
| `PerfGate` | the performance benchmark and its baseline |
| `CostBench` | the cost benchmarks on a metered host |
| `MeasurementProofs` | theorems about `PerfGate`, `CostBench` and the workspace they share with `CorpusGate` |
| `NightlyBump` | the bump script, the validator, the workflow and the developers around them |
| `NightlyBumpProofs` | theorems about `NightlyBump` |
| `MCLintRun`, `MCLintReport`, `MCLinter`, `MCLintRegistry`, `MCMeasurements`, `MCNightlyBump` | instances for TLC; `MCLinter` (report and 128-bit lint) and `MCMeasurements` (gates and benchmarks) put independent components side by side |

In the modules, an operator `X_something` after "Variant for mutation" is a plausible
wrong form of `X`: it is used only to confirm that a property notices.

### 2.1 The cached run (`LintRun` over `CacheFiles`)

The program counter `pc[p]` follows `execute_dylint_and_collect_findings`:

```
            --cache                miss              child ended
  Start ---> keying (walk) -----------> linting -----------------> rekeying (walk)
     \          | hit                   ^   | no --cache               |
      \ no cache|                       |   v                          v
       +--------+-----------------------+  done <-- writing <- opening <- saving
```

* `keying`, `rekeying`: one `ReadInput` per turn of the walk of
  `compute_source_hash`, so an edit can fall between two files. `SkipInput` is a
  file whose read failed, which the code drops from the digest (`cache.rs`
  116-118), or `rustc -Vv` failing, which becomes `unknown-toolchain`.
  An error of the walk itself is `NoKeyToLoad` (a miss) or `NoKeyToSave` (the
  run ends in `Err`).
* `linting`: `ChildSucceeds` returns what dylint says of the workspace as it is;
  `ChildFails` returns some of it, because the exit status is not looked at.
* `saving`, `opening`, `writing`: `create_dir_all`, `open(O_CREAT|O_TRUNC)`,
  `write_all`. `SaveFails`, `WriteFails` and `Crash` are their failures.
* `load_from_cache(dir, args)` and `save_to_cache(dir, args, findings)` are called
  and defined nowhere. Their signatures carry no key, so whatever their bodies
  are, each must compute the key from the workspace it finds. They are
  modelled as that computation followed by `load_cache_entry` and
  `save_cache_entry`. Nor is it known how findings become the exit code and the two
  texts of a `CacheEntry` and come back from them; the conversion is taken to lose nothing.

`CacheFiles` keeps what a file parses to: a list of findings, `Empty`, `Torn`, or
`Absent`. Two writers of one key share the file, not a lock: writing over another
content may leave a tail (`Overwritten`). A descriptor whose file was unlinked
(`Orphan`) writes bytes nobody can reach. `clear_cache` lists, then removes one
entry per step; entries created meanwhile may or may not be seen.

History variables (`began`, `doubt`, `suspect`, `produced`, `old`) are read by
properties only. A run is *in doubt* once an input changed under it, an input
could not be read, its child failed, or it was served the entry of a run in doubt.
The doubts are exactly the excuses under which the program cannot be expected to
be right; each property says which of them it needs.

`LintService` is the abstract specification: `Ask`, then `Tell` the findings of the
workspace *as it is now*, or `GiveUp`, `Abandon`, `TellExcused`. It has no files, keys or child.
`ImplementsService` is the refinement (`source`, `Phase`, `args`, `answer`, `doubt # {}`).

### 2.2 The nightly bump (`NightlyBump`)

A nightly is its day and a rev the day of its commit. `Strays` are what the patterns of the
scripts let through although it names no day (`nightly-2026-02-30`) or no commit, and
`NoDate` is what they refuse. A working tree is what the scripts see of it: the pin of
`rust-toolchain`, the clippy_utils rev, and the set of nightlies each of the eight
`NIGHTLY_FILES` names (`{}` for a file that names none or is missing: the script
leaves both alone, the validator only warns of both). The script is `checking`,
then edits `pin`, `rev`, `files` one `sed` per step; `EditFails` is `set -e`
ending it with the edits so far in place, `Interrupt` a signal. `Resolved` is
`resolve-clippy-rev.js`: the first branch that answers. What it makes of a date that is no day is up to
GitHub: nothing, or any commit. `Overrides`
are the values of `CLIPPY_REV`, which the script writes unchecked. The validator, `Validates`, takes
whether the API answers it as an argument: without an answer it fails. A job of the workflow
starts from a checkout of main, to any target it was given, and publishes only after exit 0, a changed
tree, and an installation of the toolchain of that day (`SetupFails` otherwise); a developer starts from
whatever the last run left. `Merge` and `Commit`
require the validator, which CI runs on every change (`lint.yml` 20-29).

### 2.3 The report (`LintReport`)

`pc` goes `collect`, `findings`, `flush`, `verdict`, `exited`. `Collect` is
`parse_dylint_output` over the lines of the child; `HandleFinding` is one turn of the
loop of `run`, which accumulates the finding and then writes it; `Summarise` fixes the
lines of the summary and `WriteLine` writes one; `Verdict` is the exit code. `ListLints` is
`--list-lints`, which leaves by the same verdict on no findings. `ReaderCloses` may
happen before any of them, and the next write then ends the run: with 1 from `writeln!`,
with 101 from the `println!` of the inventory.

Texts are sequences of a few characters, because escaping is about characters; lint
names are numbers in alphabetical order, and a level is one of the eight that rustc and
the lint crate use. `parse_dylint_output`, `Replace` and the reference decoder
`Unescaped` are recursive functions over positions. A HashMap is the set of the orders in
which it may be iterated: `print_findings_summary` returns one summary for each, sorted by
the stable sort of the code (`StableSort`: an entry's place is the number of entries
that compare before it, or compare equal and came before it), and `ReportFollowsFindings` says
that they are all the same. The reference, `Report`, is a function of the findings alone; its order is
the one that the comments in the code ask for, by count and then by name, and not the
alphabetical one of README.md 295-299. What an error is is decided by four lists, as in the
code (`AnnotationSeverity`, `DiagnosticSeverity`, `SarifLevel`, `HasErrors`), so that `RenderingsAgree`
and `ExitAgreesWithOutput` notice when one of them drifts.
`ReportAssumption` says of the inputs what JSON says of them: a missing field is no
value, codes are names, positions unsigned, texts texts.

### 2.4 The registry (`LintSource`, `LintConfig`, `LintRegistry`, `LibRs`)

`LintSource` gives a `lib.rs` as the declarations rustc sees *and* the lines in which they
are laid out. A line is what a parser recognises of it; three parsers
(`parse_register_lints`, `parse_declare_lints`, `parse_lib_rs`), the last two written as
recursive functions over the lines, take from it what the code takes. `README.md` is one table for each
category, in the order of `generate_readme`. The layouts of
`MCLintRegistry` are those on which they differ: comments and attributes before the name,
a comment between fields, an example of the macro in a doc comment, a declaration in one line,
no space before the brace, no `pub`, a description over two lines or empty, braces in it.

`LintRegistry` is the tree and its users: the build script (`bpc`: it reads `lib.rs`
once, the pages, the toolchain, then writes five files), runs of the generator (`gpc`:
writing, or comparing with `--check`), `LoadConfig` over the names of the last build,
and a developer who edits. Every write may fail before or after its truncation. A page may be
overlooked when the directory of pages cannot be listed (`BuildFindsOrphans`: `build.rs` 337-338 skip what
they cannot read). `doubt`
collects the runs under which somebody else changed the tree or the documents (what they
conclude is about no single tree), and `Orphan` once a page of no lint was overlooked: then
the build says of the pages only that every lint has one.

### 2.5 The 128-bit lint (`WideArithmetic`)

`WideArithmetic` grows a body expression by expression, as a visitor sees it. Each
carries `within`, the verdict of `is_provably_within_64_bits` (recursive in the code, and
here a function of the verdicts of the operands), `holds`, the values it takes at run
time, and `leans`, the rules its verdict rests on that are not sound by themselves:

* `min`, `max`: the methods are accepted whatever their operands, two wide ones included;
* `BitOr`: one bounded operand is enough for `|`, as it rightly is for `&`;
* `len`: a method of that name on the user's own type may return 128 bits;
* `receiver`: any other method is judged by its receiver (`pow`, `wrapping_mul`, ...);
* `sign`: a negative 64-bit value cast to `u128`, or used as a mask, is large.

`ProvenValuesFit` says that these are all; what a document promises of them is in section 3.
The other pass of `lib.rs`, `collection_len_in_loop_condition`, is not modelled (section 5).

### 2.6 Gates and benchmarks (`Corpus`, `CorpusGate`, `PerfGate`, `CostBench`)

`CorpusGate` lints the contracts one per step; `printed \in SUBSET truth[c]` is the linter
that stops early. `OpenBaseline`, `SaveBaseline` are the two halves of `fs::write`. The
history variables `seen`, `allowed` and `gaps` keep what a complete lint would have counted
at the same moments, which is what the gate is supposed to be about. A write that fails leaves the
baseline `Empty` or `Torn`; the test cannot read either.

`Dogfood` is the job of `dogfood-action.yml` for one contract, which reads the same baseline with
a list of its own (`DOGFOOD_ALWAYS_TP`) and other rules for a contract without findings,
without a record, or with an empty baseline: `jq` fails on one that breaks off, but of an empty one
it prints nothing and
succeeds, `[ n -gt "" ]` is an error that counts as false, and the job goes on to "OK"
(`Assertion`). The instances give both lists their members among two lints, one
of which only the first list has.

`PerfGate` times a contract with `slows` slow and `shorts` short samples out of `iterations`;
`percentile` picks the median as the code does. A sample is short when the linter did not lint all of the
contract: its child failed half-way, which its exit status hides, or cargo found the contract built,
since the target directory is kept between samples and cached by CI (`lint.yml` 144-145).
`timed`, `was`, `busy`, `busyRecord`, `short`, `shortRecord` remember how fast
the contracts truly were, then and now, and of what kind most samples were.

`CostBench` gives each benchmark as the metered calls of its setup, its bad and its good
region on one `Env`. A tariff has a base price and a growth per unit of size for each kind of call on
each place, and a charge for the first call on a place, which the setup or the bad region pays for the
good one. `ghost` and `proper` are the same region on a host of its own. Prices are not
negative, and a test for a key costs no more than reading it, which is what the lint about discarded
reads presumes (`Charges`); no loop is empty (`BenchAssumption`).
Of two benchmarks it is not said that the good region is the cheaper one (`Incomparable`): a
blind write is a matter of correctness, and whether the instance or the persistent storage is dearer is up to
the host.

`MCMeasurements` offers the three as one workspace in which a developer uses one
`command`; the two gates share the corpus.

## 3. Runs

| run | asks | instance and why it is enough |
|---|---|---|
| `cache_faults` | are entries and answers right, whatever fails, and is the cache invisible? | two processes on two argument vectors (same key and different keys), one input with two contents, two edits, every fault: a stale, a torn, a partial and a shared entry all occur |
| `cache_clear` | does a clear clear, does every run end, is `IInv` an invariant? | two clears, `cargo clean`, two runs that may fail or crash while saving: two entries, so a clear has one left when another is gone; an unlinked open file, a directory gone between its creation and the open, two clears over the same files. Nothing is edited here, so one content is enough |
| `stale_entry` | (violation) does an edit always invalidate? | no fault at all, one edit |
| `linter` | can what the linter says be relied on: do accepted values fit 64 bits, is the report a function of the findings that agrees with itself and with the exit code, is nothing lost in escaping, and are `ReportInv` and `WideInv` invariants? | every body of four expressions (a verdict that depends on two levels of operands, under an arithmetic operation), with 2 bits for 64 and 4 for 128 (`N` = 4, `W` = 16), so that the largest u64, the first value beyond it and both signs occur; every output of up to three plain diagnostics (three lints, three levels: all ties and majorities of the summary), every kind of noise line, every missing field and awkward text alone or in pairs, every format, a reader that goes away at any line |
| `sarif` | (violation) does `--format sarif` print anything? | `LintReport` alone, one diagnostic |
| `registry` | do the build, the documents, `--check` and the configurations say what rustc says, and is `RegistryInv` an invariant? | two lints in a dozen layouts, rightly and wrongly registered; pages missing, extra and overlooked; documents absent, stale, with other line endings; edits and a second generator where all is well; an edit under the build whose names then judge a configuration. What may happen in a world is bounded by its `left` |
| `real_tree` | (violation) does the repository's own `lib.rs` pass the cross-check? | the real declarations, registrations and pages |
| `measurements` | what does a green run of the corpus test, of the second gate or of the performance gate mean, and do benchmarks flatter? `Inv` is the conjunction of the three inductive invariants | two contracts (one may be new, gone or unrecorded while the other is not), two changes, three tests (record, spoil, judge), two timings (record, judge); speeds of 4 and 5 ms, so a slowdown of exactly 25 % under the default threshold of 25 and under one of 20, slow samples of 3 ms more and short ones of 1 ms; two and three samples, so the median has a majority and a tie; a baseline that is missing, whole, broken off or empty; loops of three turns; 192 tariffs: one kind of call on one place dearer than the rest, every set of places that grow dearer, first calls free or dear |
| `dogfood` | (violation) does the second gate count as the first? | a baseline just written, nothing edited |
| `bump` | can half a bump pass for a whole one, in a tree or in the pull request, and is `BumpInv` an invariant? | a job and a developer, three days, one more value that is shaped like a day and is none and one that is not even shaped so, as targets and as revs; a file with the pin and one without, both orders by choice of the initial tree; every fault, with an API that does not answer. The job runs twice, one run after the other: overlapping jobs are left to the proof |
| `bump_retry` | (violation) does "nothing to do" mean so? | a developer, one interruption |
| `bump_backwards` | (violation) does the schedule only go forward? | one job on a main pinned later than today minus the offset |

Bounds: `MaxRuns`, `MaxEdits`, `MaxBumps`, `LastDay`, `MaxTests`, `MaxBenches`, `MaxNodes`
and `left` cap counters that only guard `Start`, `Edit`, `Begin`, `NextDay`, `StartTest`,
`StartBench`, `Visit` and the starts of `LintRegistry`; the proofs do not depend on their
values. `MaxLines` bounds the length of a report. `Window` (3 in the validator) and
`Offset` (7) are 1 in the instances, so that three days hold both sides of each
comparison; `ITER_COUNT` (100) and `STORAGE_ITER_COUNT` are 3.

Deadlock is checked in `linter`, `sarif`, `registry` and `real_tree`, where the
only places to stop are explicit (`Exited`, `Rest`, `Visited`). It is not checked in the
others: a workspace in which nobody starts anything may rest for ever.

Symmetry: `cache_faults` permutes processes, arguments and contents. The
specification names none of them, `MCLintOf` is equivariant (it returns its own
arguments), and the run checks no liveness property. `registry` permutes the two runs of
the generator, which are named nowhere. `cache_clear`, which checks liveness, uses no symmetry.

Fairness: `WF_vars(Step(p))` for each process of `LintRun` and nothing else. It says that the
operating system schedules a started process and that the child it waits
for exits; starting, editing, clearing and crashing are never forced. `RunsEnd` then
says that no run waits for another, for a clear or for a file to become whole. The other
components wait for nobody, so their properties are safety only.

### What the violations show

* `stale_entry` (`main.rs` 119): the key to save is taken from the workspace after the
  child has ended. An edit between the child's reads and that walk stores the
  old findings under the new key; the next run, on sources nobody touches, hits
  that entry. README.md line 168 says every edit triggers a fresh pass. Taking the
  key once, before the child, would store under a key whose sources the child may
  not have seen, so it would also have to be compared with a second one.
* `bump_retry` (`bump-nightly.sh` 54): the script compares the target with
  `rust-toolchain` alone, and `rust-toolchain` is edited first. After an interruption
  the same command ends with exit 2, documented as "(nothing to do)", on a
  tree that the validator rejects.
* `bump_backwards` (`nightly-bump.yml` 54): the scheduled target is today minus
  seven days whatever the pin is. When the pin is younger than that, the job
  opens a pull request that moves it back, where the workflow says "newer".
* `sarif` (`output_formatters.rs` 247): with this format `handle_finding` only accumulates,
  the summary is omitted, and nothing calls `generate_sarif_report`. README.md 257-263
  pipes standard output into a file. The report itself, were it called, would be
  right as far as `RenderingsAgree` looks (levels, positions, order).
* `dogfood` (`dogfood-action.yml` 104): the nightly job that runs the action on each
  contract triages with a list of its own. It says it mirrors the one of `real_world_corpus.rs` and
  lacks three of its lints, so findings that were just blessed as true positives count as an
  increase of the false ones. With the repository's own `baseline.json` that happens to four
  contracts (`compute_input_validation`, `memory_input_decoder`, `swap`, `token`). Since its list is the
  smaller one, it is at least no way around the first gate (`DogfoodIsNoLaxer`).
* `real_tree` (`lib.rs` 593 against `build.rs` 312): `collection_len_in_loop_condition` is
  declared and not registered, so the build script panics; `InventoriesAgree` and
  `BuildVouchesForLints` say what would hold if it did not.

### What the models show beside

Each of these was met while a property was being found that holds; each is an
exception the property names, or a smaller disagreement with a document that no run is spent on.

* Sums, products and left shifts of 64-bit operands are reported by
  `u128_where_u64_suffices` although the result may need 128 bits; `ReportedFitsU64` is about
  the other operations. The branch for `x += y` (`lib.rs` 425-440) is dead, because the type of
  an assignment is `()`. The `.stderr` of its ui fixture expects warnings for `i + 1` and `x * 2`
  where `i`, `x` are paths of 128 bits, which no rule accepts.
* docs/false_positives.md 128 says that the lint flags "128-bit arithmetic on values provably within
  64 bits". Each of the five rules of 2.5 (`lib.rs` 486-506) breaks that: `(x as u128) + 1` of a negative
  `i64` is reported and far beyond 64 bits.
* docs/lints/collection_len_in_loop_condition.md 26-30 counts the bound of a `for` among what is
  flagged; `lib.rs` 617 lets only `LoopSource::While` through.
* README.md 295-299 shows the summary in alphabetical order with the total last. The code prints the
  total first (`output_formatters.rs` 268) and the lints by count (282), as its comments ask.
* An empty `baseline.json`, which an interrupted write leaves, is read by the second gate as consistent
  with anything: `jq` prints nothing, the comparison of a number with nothing is an error that counts as
  false, and the job says "OK" (`dogfood-action.yml` 113-130), where the test panics on the same file, "the
  same source of truth" (61-63). `DogfoodIsNoLaxer` excepts that file and nothing else.
* README.md 331 says that regressions above the threshold fail the build. A linter that is slower but
  stops early is not noticed: only the status of the driver is asserted (`linter_performance.rs` 159-160),
  which ignores that of its child (`main.rs` 152), and from the second sample on a target directory is warm.
  `SlowdownsAreCaught` and `NoiseIsForgiven` say how many such samples it takes.
* cost_benchmarks/README.md 21 calls the printed difference "the exact cost savings". The two regions
  share an `Env`: the good one finds places opened, which flatters the lint by a first-use charge at
  most (`SavingsNeverOverstated`), and what the bad one stored, which makes it dearer (the storage loop,
  `cost_benchmarks/src/lib.rs` 198-225, writes into the instance that the bad region has filled).
* `bump-nightly.sh` writes a `CLIPPY_REV` unchecked (62-71) and looks only at the shape of a target (46):
  `nightly-2026-02-30` with a rev given is written everywhere and ends with 0. The validator refuses
  such a pin, of which `date` makes nothing, and a rev that GitHub does not know.
* The corpus test reads the old baseline before it writes a new one: a torn `baseline.json`
  stops BLESS too and has to be deleted by hand. The performance gate can be re-blessed over a
  torn record.
* A record made from a lint that stopped early is lower than the truth, so the test raises
  alarms about old findings (`gaps` in `AlarmsAreReal`); it never hides new ones.
* A `BENCHMARK_THRESHOLD` that is no number overrides the recorded threshold by 25. Without a
  record the performance gate succeeds.
* The second gate demands at least one finding (`dogfood-action.yml` 118), which three contracts of
  the recorded baseline do not have, and expects the action to end with 0 because
  "corpus lints default to `warn`" (96), although `soroban_storage_in_loop` is declared `Deny`.
* `lint.yml` 59-61 blesses an empty baseline in the job that then tests against it.

## 4. Proofs

`LintRunProofs` proves, for any number of processes, clears, arguments, inputs,
contents and faults, and assuming only that the marker values are distinct
(`MarksAssumption`), that `LintOf` and `Partial` have their types
(`LintAssumption`) and that the bounds are numbers (`BoundsAssumption`):

* `Inductive`: `Spec => []IInv`. The safety properties are not inductive by
  themselves. `LocalsOK` says what each program point may rely on (a run that
  saves has finished its walk, an open descriptor is the run's own key and the
  file is there). `SteadyRuns` says a run in no doubt has seen one state of the
  workspace throughout, which is what makes its entry right when it is written;
  without it `EntriesMatchKeys` cannot be kept by `WriteEntry`.
  `EntriesAreProduced` carries "some child printed this" from the entry to the
  answer. `ClearsProceed` keeps every listed file either unlinked or still before
  the loop.
* from it `TypeCorrect`, `StoreIsSound`, `CachingIsTransparent`,
  `NothingTornIsServed` and `ClearIsComplete`;
* `CacheIsInvisible`: `Spec => ImplementsService`, each step being a step of
  `LintService` or a stutter; a hit in no doubt needs `EntriesMatchKeys` to be a `Tell`.

`NightlyBumpProofs` proves, for any number of jobs and developers that overlap in any way, any sequence of
files, targets and revs of any shape, any branches, offset and window: `BumpInductive` and from it
`HalfBumpsCaught`, `RefusalsHarmless`, `UpdatesComplete` and `PullRequestWhole`.
The invariant says which of the intermediate trees of the script a working tree
can be: the one it started from, that with the new pin, or that with the rev and
the first `at - 1` files done. Between the first and the last of them some file
still names the old nightly while the pin is the new one, which the validator
sees; this is where editing the pin first matters.

`CorpusGateProofs` (on lemmas of `CorpusProofs` about the sorted list of contracts) proves, for
any corpus, any finite set of findings, any number of tests and any two lists with
`DOGFOOD_ALWAYS_TP \subseteq ALWAYS_TP`, which is how the two files stand: `GateInductive`, and from
it `RatchetNeverSlips`, `NoFalseAlarms`, `DogfoodNoLaxer`. The clauses of `GateInv`:
`PrintedIsTrue` (a run has printed of a contract at most what the lints see in it),
`BaselineIsFair` (a whole baseline allows each contract no more than was there when it was
recorded, and exactly that unless the linter had stopped early) and `VerdictIsLast` (a run under
way has no verdict). The properties compare a verdict with what was seen and allowed, so they need
the first two at the moment it is given.

`WideArithmeticProofs` proves of the 128-bit lint, for any widths with `N = 2 * Half` and the laws of `&`
and `|` in `WidthAssumption`, `WideInductive`, `ProvenFit` and `ReportedFit`. `WideInv` is inductive as it is
checked; each rule of `is_provably_within_64_bits` is a lemma (`CastFits`, `MethodFits`, `BitwiseFits`): with
operands whose verdicts are sound, its own verdict is, unless it leans on one of the five rules of 2.5.

`LintRegistryProofs` proves, for any sources, any number of generators and any edits:

* `RegistryInductive`, `BuildWhole`, `CheckExact`, `WriterSafe`. That every page is of a lint is claimed
  of builds that overlooked none (`Orphan`), the rest of all. `UndisturbedRuns` says that a run in
  no doubt still works on the tree it has read and is the only writer; `WrittenSoFar`, `ComparedSoFar`
  and `BuildSoFar` say what the part of its work that is behind it has established, document by
  document and file by file. Without the first, the second would have to be about a tree that no
  longer exists.
* `BuildVouches`: these theorems do not open the parsers, and hold for whatever they return. That an
  undisturbed build embeds what rustc declares follows from `BuildWhole` and one hypothesis about the
  parser of declarations, `ParserIsRight`: a source whose macros have their space and whose strings
  have no braces is read as rustc reads it. `MCLintRegistry` states the hypothesis of its sources as an
  assumption, which TLC evaluates; of every layout it is not provable (a comment that shows the macro
  may hide a declaration from the parser, and then only the cross-check stops the build).
* `LaidOutIsRead` opens both parsers. `LaidOut` says of a source, without mentioning them, that its
  declarations stand one after the other, each between a line that opens it and one that closes it,
  with the name, the level and the lines of the description in this order and only blank lines, comments
  and attributes around them, in any number. Of such a source that passes the cross-check, `build.rs`
  reads exactly what rustc declares, and so does `generate-lint-docs` if each field has a line of its own.
  Neither is an induction over lines: a scan that finds the k-th declaration at line `open[k]`
  and goes on at `resume[k]` finds them all (`ScanFinds`, from the last line at which it would go wrong;
  `ScanExists`, so that the recursive functions of the parsers are defined at all); a block without
  inner braces ends where it is closed (`BlockEnds`, by counting braces); the lines that are chosen are those
  in between, in order (`ChosenInOrder`, by counting ranks); and the lines `parse_lib_rs` takes are the same
  (`FieldLines`).
* `InventoriesAgreed` is `InventoriesAgree` from `BuildWhole`, `LaidOutIsRead` and
  `SourceAssumption` (no two declarations of one name), with `TablesHold` for the tables of `README.md`.
  Its hypothesis, `FieldsAreLaidOut`, is on the sources one by one: those that pass the cross-check with a line
  for each field and the space in the macro are laid out plainly. `MCLintRegistry` states it of its
  sources as an assumption, which TLC evaluates.
* `SettingsBecomeFlags`, for any configurations. An iteration of a HashMap is any sequence that has each
  key once; `OrderOfKeys` (a pigeonhole argument) says that it has them all, so whether some entry is at
  fault does not depend on it (`ValidationIgnoresOrder`), and where none is, there is a flag
  at every place (`FlagsOfAll`, `FlagsOfAccepted`). That each flag is for a lint rustc knows needs
  `NamesAreRead`: a build that is under way or done has compared the two parsers and embeds the names of
  that one reading, even if lib.rs is edited under it. It also needs `SourceAssumption`: a lint that
  is registered, and declared as far as the parser sees, is one rustc declares, or `lib.rs` does not compile.

`MeasurementProofs` proves, for any contracts, speeds, thresholds, numbers of samples, prices and
lengths of loops:

* `PerfInductive`, `SlowdownsCaught`, `NoiseForgiven`. `MediansAreBounded` and `VerdictStands`
  are the invariant; `MedianIsBounded` proves that the sample the code picks is no faster than the truth
  unless most samples were short, and no slower unless half of them were slow, `TotalsScale` that a sum
  exceeds a percentage only if a summand does.
* `BenchInductive`, `NeverFlattered`, `FollowingPays`, for any tariff in `Charges`. `RegionsAreApart` says that
  the bad region meets the host as the setup left it, and the good region one that stores at least as much;
  prices are monotone in that (`PriceMonotone`), but for what is opened already: `PlacesInUse` keeps where calls
  were made, so at most the one place of the good region was opened for it (`Allowance`).
  `BadRegionCosts`, `WritesStay` and `GoodRegionFits` carry the comparison through the loops,
  benchmark by benchmark (`SymbolNew` to `NoCalls` list the calls of each).
* `WorkspaceInductive`: the three invariants hold together in `MCMeasurements`, where the gates
  share a corpus that changes between them.

`LintReportProofs` proves, for outputs of the child of any length, any texts and positions,
every order of the two HashMaps, and a reader that may go away at any line:
`ReportInductive`, `ReportFollows`, `NoErrorPasses`, `AnnotationsLossless`, `RenderingsAgreed`,
`ExitAgreed`. `ReportInv` adds `FindingsAreParsed` (when the findings are those of the lines) and
`ReportSoFar` (what is written and what is still to be written make up the report) to the two
properties, which see only what is written. Three arguments carry it:

* `ParsedLines`: the parser invents no finding and loses none, by a least counterexample
  over the prefixes of the output.
* `HashOrderIsHidden`: under an order that is total on the keys every entry has a place of its own, these
  places fill `1 .. n` (`PlacesAreTaken`, by counting), and so a stable sort has one result
  whatever it was given. `CountsAreTotal` and `SeveritiesAreTotal` then say that the comparisons
  of the code are such orders; without the tie-break by name the first would be false.
* `AnnotationsLossless`: the passes of `replace` amount to one token per character
  (`MessageEscaped`, `PropertyEscaped`; this is where the percent sign has to go first), and a text
  made of tokens is decoded token by token (`TokenAtEnd`, `DecodeToken`, `TokensDecode`), because no
  escape is cut off at the end of what precedes it (`Whole`).

The bounds of section 3 appear in none of these proofs. What they assume of the constants
are the named assumptions of the modules, which TLC evaluates on every instance: marker
values are distinct from data and from each other, inputs have their types, and where
it says more than that, it is named above.

Only model-checked:

* `RunsEnd`, which needs fairness.
* The hypothesis of `BuildVouches` beyond sources that are laid out plainly: it compares the parser of
  declarations with rustc layout by layout (a comment that shows the macro, a declaration in one
  line), and many of these layouts are right only because the cross-check refuses what is misread.
* `LinterSpec`, which joins the report and the 128-bit lint in one run, extends `Bitwise` for `&` and `|`, so
  the theorems are about its parts.

Only on an instance: the six violations, which are traces. No module declares a RECURSIVE operator.

## 5. Abstractions, and what is not modelled

The cached run:

* The 64-bit FNV-1a digest is injective. Collisions by chance are out of scope, and so is
  the encoding below it, which has no separators (`cache.rs` 52-66, 122-128): a tree with
  `a.rs` holding `x` and `b.rs` holding `y` has the same byte string as one with `a.rs` holding
  `xb.rsy`, and the package arguments `a,b` as one or as two arguments are the same.
* The child reads the sources in one step, the one in which it ends. A child
  that reads half before and half after an edit is in doubt already
  (`Edit` marks every active run), and what it prints is then covered by
  the excuse; for an entry the same mark puts its key in `suspect`.
* `exists` and `read_dir` of `clear_cache` are one step: a directory removed
  between them ends the call with `Ok(0)` as well. The count it returns is left out. Removing a
  directory by `cargo clean` is one step.
* A reader that overlaps a writer sees `Empty`, `Torn` or a whole entry;
  a splice of two entries that happens to parse is not considered.

The bump: `create-pull-request` pushes and titles the pull request in one step; that two
overlapping jobs could interleave inside it is outside the model. `Publish` replaces what the branch
holds, so a fix that somebody pushed to `ci/nightly-bump`, as the runbook asks
(docs/NIGHTLY_UPGRADE_RUNBOOK.md 294), would be gone after the next run; such fixes change code, not pins,
and are no step of the model. Neither are pins edited by hand. The runbook (33, 49) says that the rustup
branch no longer exists; the model asks it first all the same, as the script does. A merge is
possible only if main has not moved since the checkout (both touch the same lines).

The report: `get_lint_inventory`, which no module defines, is a constant.
`format!("file:///" + ...)` does not compile; the prefix is left out. The words of the
renderings and their layout are left out; their fields are not. clap is the values of its options.

The registry: a description is the sequence of its lines, without characters. Where the
parsers are not expected to see what rustc sees, the property says so: braces in a
string (`BracesInStrings`), a macro without the space before its brace (`openTight`),
more than one field in a line or a field over two lines (`FieldPerLine`). On the real
`lib.rs`, `LINT_METADATA` has the type `LintMeta`, so neither parser reads its
categories, and three of those it uses (Storage, Host, Security) have no table in the
generated README; three of the declared lints are missing from `register_group`; many
pages of `docs/lints` belong to no registered lint (`BuildFindsOrphans` would stop
there). Nothing calls the configuration readers outside their tests, so `LoadConfig` is
the use their signatures ask for. A `lib.rs` that cannot be read is not considered.

The lint passes: what `collection_len_in_loop_condition` reports (`lib.rs` 585-635) is decided by
`enclosing_loop`, `depends_on_loop_state` and `match_soroban_def_path`, which are called and defined
nowhere. A model would have to invent them, so that pass is left out; whether what it reports may be
hoisted cannot be said of this code. In the 128-bit lint, value sets combine operands independently
of each other (`x - x` may be
anything); signed arithmetic, left shifts and unknown methods may yield anything of
their type; overflow ends the program, as contracts are built with overflow checks, and
yields nothing; shifts by another type are left out.

Gates and benchmarks: the samples of one contract are one step. The host's prices are
external: a call has a price of its kind on its place, which may grow with what is stored there, and the
first call on a place may cost more; nothing is assumed of them but that `has` costs no more than `get`
on the instance. A second key of one place has no first-use charge of its own. The memory counter,
which is read at the same points, is left out,
and so are the printed summaries. Building the linter before the samples are taken is part of a benchmark that aborts.

Not modelled: the pass `collection_len_in_loop_condition` (above); the 29 registered lints of which
the lint crate holds no implementation;
`summarize-test-failures.js` (text formatting of a log); the CLI integration tests
(statements of intent that the properties were read from); `action.yml`, packaging and the other
workflows (sequences of tool invocations without state of their own).

## 6. Plan

1. [done] Cache and driver core: `LintKeys`, `CacheFiles`, `LintRun`,
   `LintService`, proofs.
2. [done] `NightlyBump`, proofs.
3. [done] `LintReport`: the report, with every HashMap order, and SARIF.
4. [done] `LintSource`, `LintConfig`, `LintRegistry`, `LibRs`.
5. [done] `WideArithmetic`.
6. [done] `Corpus`, `CorpusGate`, `PerfGate`, `CostBench`.
7. [done] Theorems about `CorpusGate`, `WideArithmetic`, `LintRegistry`, `PerfGate`, `CostBench`
   and `LintReport`.
8. [done] What the parsers of `LintSource` read of sources that are laid out plainly, and with it
   `InventoriesAgree`.
9. [done] Baselines that are empty, samples that are short, prices by place with first-use charges,
   targets and revs of any shape, pages that are overlooked.
10. [open] `collection_len_in_loop_condition`, once its helpers are written.
