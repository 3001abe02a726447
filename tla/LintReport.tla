----------------------------- MODULE LintReport -----------------------------
(***************************************************************************)
(* What a run of cargo-cost-lint makes of its findings: parsing the lines  *)
(* cargo dylint printed (parse_dylint_output), the loop and the exit code  *)
(* of run() in main.rs, --list-lints, and the four renderings and the      *)
(* summary of output_formatters.rs, against a reader of standard output    *)
(* that may go away at any time.                                           *)
(*                                                                         *)
(* Texts (messages, file names) are sequences over a few characters,       *)
(* because escaping is about characters.  Lint names are numbers in        *)
(* alphabetical order.  A JSON field that is missing or has another type   *)
(* is Missing.                                                             *)
(***************************************************************************)
EXTENDS Integers, Sequences, FiniteSets, SequencesExt

CONSTANTS
  Inputs,      \* the possible outputs of cargo dylint: sequences of lines
  Inventory,   \* the lints --list-lints shows, a sequence
  Cwd,         \* the current directory, as the first characters of a path
  Missing      \* a JSON field that is not there

Formats == {"text", "json", "sarif", "github"}

\* The levels a diagnostic may have, in alphabetical order.
LevelOrder == <<"deny", "error", "error: internal compiler error",
                "failure-note", "help", "note", "warn", "warning">>

Levels == Range(LevelOrder)

VARIABLES
  format,    \* --format
  listing,   \* --list-lints
  lines,     \* what the child printed on standard error
  findings,  \* what parse_dylint_output made of it
  acc,       \* findings_acc
  queue,     \* the lines of a summary or an inventory still to be written
  pc,        \* "collect", "findings", "flush", "verdict", "exited"
  out,       \* the lines the reader of standard output received
  reader,    \* whether that reader is still there
  status     \* the exit status: Missing, 0, 1, or 101 after a panic

vars == <<format, listing, lines, findings, acc, queue, pc, out, reader,
          status>>

-----------------------------------------------------------------------------
\* parse_dylint_output.

Default(field, value) == IF field = Missing THEN value ELSE field

NoSpan == [file |-> <<>>, line |-> 0, lineEnd |-> 0, col |-> 0, colEnd |-> 0]

\* Span fields that are missing or are not unsigned integers count as 0.
SpanOf(span) ==
  IF span = Missing THEN NoSpan
  ELSE [k \in DOMAIN NoSpan |-> Default(span[k], NoSpan[k])]

\* A line is dropped unless it is JSON, a compiler message, and its code is
\* an object with a string that is not empty.
IsFinding(line) ==
  /\ line # Missing
  /\ line.reason = "compiler-message"
  /\ line.message # Missing
  /\ line.message.code \notin {Missing, 0}

\* Variant for mutation: a missing level has no default.
FindingOf_noDefault(line) ==
  LET m == line.message
  IN [name |-> m.code, level |-> m.level, message |-> Default(m.text, <<>>),
      span |-> SpanOf(m.span), help |-> Missing, suggestion |-> Missing]

FindingOf(line) ==
  LET m == line.message
  IN [name |-> m.code, level |-> Default(m.level, "warning"),
      message |-> Default(m.text, <<>>), span |-> SpanOf(m.span),
      help |-> Missing, suggestion |-> Missing]

\* parsed[n] is the vector after the first n lines.
parse_dylint_output(ls) ==
  LET parsed[n \in 0 .. Len(ls)] ==
        IF n = 0 THEN <<>>
        ELSE IF IsFinding(ls[n]) THEN Append(parsed[n - 1], FindingOf(ls[n]))
        ELSE parsed[n - 1]
  IN parsed[Len(ls)]

\* What JSON and the child allow: a missing field is no value, a code that is
\* a string is the name of a lint, texts are texts and positions unsigned.
ASSUME ReportAssumption ==
  /\ Missing \notin Levels /\ Missing \notin {0, 1, 101}
  /\ Cwd \in Seq(Range(Cwd))
  /\ \A ls \in Inputs :
       /\ ls \in Seq(Range(ls))
       /\ \A i \in DOMAIN ls : IsFinding(ls[i]) =>
            LET m == ls[i].message
            IN /\ m.code \in Nat
               /\ m.level \in Levels \cup {Missing}
               /\ m.text # Missing => m.text \in Seq(Range(m.text))
               /\ m.span # Missing =>
                    /\ m.span.line \in Nat \cup {Missing}
                    /\ m.span.file # Missing => m.span.file \in Seq(Range(m.span.file))

-----------------------------------------------------------------------------
\* The renderings of one finding.

\* s.replace(c, with): every occurrence of a character.
Replace(s, c, with) ==
  LET done[n \in 0 .. Len(s)] ==
        IF n = 0 THEN <<>>
        ELSE done[n - 1] \o IF s[n] = c THEN with ELSE <<s[n]>>
  IN done[Len(s)]

\* Variant for mutation: the percent sign is escaped last.
escape_github_message_percentLast(s) ==
  Replace(Replace(Replace(s, "CR", <<"%", "0", "D">>), "LF", <<"%", "0", "A">>),
          "%", <<"%", "2", "5">>)

escape_github_message(s) ==
  Replace(Replace(Replace(s, "%", <<"%", "2", "5">>), "CR", <<"%", "0", "D">>),
          "LF", <<"%", "0", "A">>)

escape_github_property(s) ==
  Replace(Replace(escape_github_message(s), ":", <<"%", "3", "A">>),
          ",", <<"%", "2", "C">>)

\* A path below the current directory becomes relative; backslashes turn.
RelativeFile(file) ==
  Replace(IF IsPrefix(Cwd, file) THEN SubSeq(file, Len(Cwd) + 1, Len(file))
          ELSE file, "BS", <<"/">>)

\* What counts as an error is listed four times in the code: here, in
\* DiagnosticSeverity, in SarifLevel and in HasErrors.

\* Variant for mutation: the levels of lints, not those of diagnostics.
AnnotationSeverity_deny(level) == IF level = "deny" THEN "error" ELSE "warning"

AnnotationSeverity(level) ==
  IF level \in {"error", "deny"} THEN "error" ELSE "warning"

\* The annotation drops the column without a line, and the file when it is "".
format_github_annotation(f) ==
  LET file == escape_github_property(RelativeFile(f.span.file))
  IN [kind     |-> "annotation",
      severity |-> AnnotationSeverity(f.level),
      file     |-> file,
      line     |-> f.span.line,
      col      |-> IF f.span.line > 0 THEN f.span.col ELSE 0,
      message  |-> escape_github_message(f.message)]

\* Variant for mutation: the levels of lints, not those of diagnostics.
DiagnosticSeverity_deny(level) ==
  CASE level = "deny" -> "error"
    [] level = "warn" -> "warning"
    [] OTHER -> "note"

DiagnosticSeverity(level) ==
  CASE level \in {"error", "deny"} -> "error"
    [] level \in {"warning", "warn"} -> "warning"
    [] OTHER -> "note"

format_diagnostic(f) ==
  [kind       |-> "diagnostic",
   severity   |-> DiagnosticSeverity(f.level),
   name       |-> f.name,
   message    |-> f.message,
   location   |-> IF f.span.file = <<>> THEN <<"unknown">>
                  ELSE IF f.span.line > 0
                       THEN <<f.span.file, f.span.line, f.span.col>>
                       ELSE <<f.span.file>>,
   help       |-> f.help,
   suggestion |-> f.suggestion]

\* What generate_sarif_report makes of the accumulated findings.  No code of
\* the repository calls it.
SarifLevel(level) ==
  CASE level \in {"error", "deny"} -> "error"
    [] level \in {"warning", "warn"} -> "warning"
    [] OTHER -> "note"

Positive(n) == IF n > 0 THEN n ELSE Missing

\* The optional region, as a sequence of at most one.
SarifRegion(span) ==
  IF span.line > 0
  THEN <<[startLine |-> span.line, startColumn |-> Positive(span.col),
          endLine |-> Positive(span.lineEnd), endColumn |-> Positive(span.colEnd)]>>
  ELSE <<>>

SarifResult(f) ==
  [rule_id |-> f.name, level |-> SarifLevel(f.level), text |-> f.message,
   uri |-> RelativeFile(f.span.file), region |-> SarifRegion(f.span)]

SarifReport(results) ==
  [schema |-> "2.1.0", driver |-> "cargo-cost-lint", results |-> results]

generate_sarif_report(fs) == SarifReport([i \in DOMAIN fs |-> SarifResult(fs[i])])

\* The lines handle_finding writes for a finding: none of them for sarif.
Rendered(fmt, f) ==
  CASE fmt = "json"   -> <<[kind |-> "json", finding |-> f]>>
    [] fmt = "github" -> <<format_github_annotation(f)>>
    [] fmt = "text"   -> <<format_diagnostic(f)>>
    [] fmt = "sarif"  -> <<>>

-----------------------------------------------------------------------------
\* The summary.

Count(fs, field, v) == Cardinality({i \in DOMAIN fs : fs[i][field] = v})

Values(fs, field) == {fs[i][field] : i \in DOMAIN fs}

LevelRank(l) == CHOOSE i \in DOMAIN LevelOrder : LevelOrder[i] = l

\* The elements of S in the order before, which is total on S.
Sorted(S, before) ==
  LET Place(x) == 1 + Cardinality({y \in S : <<y, x>> \in before})
  IN [i \in 1 .. Cardinality(S) |-> CHOOSE x \in S : Place(x) = i]

\* sort_by is stable: entries that compare equal keep the order in which the
\* HashMap gave them.  (hash is that order, before the strict comparison.)
StableSort(hash, before) ==
  LET Place(i) == 1 + Cardinality({j \in DOMAIN hash :
                        \/ <<hash[j], hash[i]>> \in before
                        \/ <<hash[i], hash[j]>> \notin before /\ j < i})
  IN [p \in DOMAIN hash |-> hash[CHOOSE i \in DOMAIN hash : Place(i) = p]]

\* Variant for mutation: no tie-break by name.
LintBefore_countOnly(fs, a, b) == Count(fs, "name", a) > Count(fs, "name", b)

\* Most frequent lint first, then by name.
LintBefore(fs, a, b) ==
  \/ Count(fs, "name", a) > Count(fs, "name", b)
  \/ Count(fs, "name", a) = Count(fs, "name", b) /\ a < b

LevelBefore(a, b) == LevelRank(a) > LevelRank(b)

\* The two comparisons as relations on the keys.
ByCount(fs) ==
  {p \in Values(fs, "name") \X Values(fs, "name") : LintBefore(fs, p[1], p[2])}

BySeverity(fs) ==
  {p \in Values(fs, "level") \X Values(fs, "level") : LevelBefore(p[1], p[2])}

Rows(fs, field, keys) ==
  [i \in DOMAIN keys |-> [kind |-> field, key |-> keys[i],
                          count |-> Count(fs, field, keys[i])]]

Header(what, n) == <<[kind |-> what, count |-> n]>>

\* names and levels are the sorted keys of the two maps of counts.
Summary(fs, names, levels) ==
  Header("blank", 0) \o
  IF fs = <<>> THEN Header("clean", 0)
  ELSE Header("total", Len(fs))
       \o Header("by name", 0) \o Rows(fs, "name", names)
       \o Header("by severity", 0) \o Rows(fs, "level", levels)

\* The orders in which the sorted entries of a HashMap may come out.
SortedEntries(keys, before) ==
  {StableSort(hash, before) : hash \in SetToSeqs(keys)}

\* What print_findings_summary may print, over all the orders in which its two
\* HashMaps may be iterated.  The formats meant for machines have no summary.
print_findings_summary(fmt, fs) ==
  IF fmt # "text" THEN {<<>>}
  ELSE {Summary(fs, names, levels) :
          names \in SortedEntries(Values(fs, "name"), ByCount(fs)),
          levels \in SortedEntries(Values(fs, "level"), BySeverity(fs))}

-----------------------------------------------------------------------------
TypeOK ==
  /\ format \in Formats
  /\ listing \in BOOLEAN
  /\ lines \in Inputs
  /\ {findings, acc} \subseteq Seq(Range(findings))
  /\ Len(out) \in Nat /\ out = [i \in 1 .. Len(out) |-> out[i]]
  /\ Len(findings) <= Len(lines)
  /\ \A i \in DOMAIN findings :
       LET f == findings[i]
       IN /\ f.name \in Nat /\ f.level \in Levels /\ f.span.line \in Nat
          /\ f.message \in Seq(Range(f.message))
          /\ f.span.file \in Seq(Range(f.span.file))
  /\ IsPrefix(acc, findings)
  /\ pc \in {"collect", "findings", "flush", "verdict", "exited"}
  /\ reader \in BOOLEAN
  /\ status \in {Missing, 0, 1, 101}
  /\ status = Missing <=> pc # "exited"

Init ==
  /\ format \in Formats
  /\ listing \in BOOLEAN
  /\ lines \in Inputs
  /\ findings = <<>> /\ acc = <<>> /\ queue = <<>> /\ out = <<>>
  /\ pc = "collect"
  /\ reader = TRUE
  /\ status = Missing

\* The process ends.
Exit(code) ==
  /\ pc' = "exited"
  /\ status' = code
  /\ UNCHANGED <<format, listing, lines, reader>>

\* execute_dylint_and_collect_findings returned Ok.
Collect ==
  /\ pc = "collect" /\ ~ listing
  /\ findings' = parse_dylint_output(lines)
  /\ pc' = "findings"
  /\ UNCHANGED <<format, listing, lines, acc, queue, out, reader, status>>

\* It returned Err: run() fails before anything is printed.
CollectFails ==
  /\ pc = "collect" /\ ~ listing
  /\ Exit(1)
  /\ UNCHANGED <<findings, acc, queue, out>>

\* --list-lints: the inventory as one JSON document, or a heading and two
\* lines for each lint.
ListLints ==
  /\ pc = "collect" /\ listing
  /\ pc' = "flush"
  /\ queue' = IF format = "json" THEN <<[kind |-> "inventory", lints |-> Inventory]>>
              ELSE Header("heading", 0) \o FlattenSeq(
                     [i \in DOMAIN Inventory |->
                       <<[kind |-> "lint", name |-> Inventory[i]],
                         [kind |-> "docs", name |-> Inventory[i]]>>])
  /\ UNCHANGED <<format, listing, lines, findings, acc, out, reader, status>>

\* handle_finding: the finding is accumulated, then written; a write nobody
\* reads ends the run in Err.
HandleFinding ==
  /\ pc = "findings" /\ Len(acc) < Len(findings)
  /\ LET f == findings[Len(acc) + 1]
         text == Rendered(format, f)
     IN /\ acc' = Append(acc, f)
        /\ \/ /\ reader \/ text = <<>>
              /\ out' = out \o text
              /\ UNCHANGED <<format, listing, lines, pc, reader, status>>
           \/ /\ ~ reader /\ text # <<>>
              /\ Exit(1)
              /\ UNCHANGED out
  /\ UNCHANGED <<findings, queue>>

\* print_findings_summary: the lines still to be written.
Summarise ==
  /\ pc = "findings" /\ Len(acc) = Len(findings)
  /\ queue' \in print_findings_summary(format, acc)
  /\ pc' = "flush"
  /\ UNCHANGED <<format, listing, lines, findings, acc, out, reader, status>>

\* One line of the summary or of the inventory.
WriteLine ==
  /\ pc = "flush" /\ queue # <<>> /\ reader
  /\ out' = Append(out, Head(queue))
  /\ queue' = Tail(queue)
  /\ UNCHANGED <<format, listing, lines, findings, acc, pc, reader, status>>

\* writeln! in the summary returns the error; println! in list_lints panics.
WriteLineFails ==
  /\ pc = "flush" /\ queue # <<>> /\ ~ reader
  /\ Exit(IF listing THEN 101 ELSE 1)
  /\ UNCHANGED <<findings, acc, queue, out>>

Written ==
  /\ pc = "flush" /\ queue = <<>>
  /\ pc' = "verdict"
  /\ UNCHANGED <<format, listing, lines, findings, acc, queue, out, reader,
                 status>>

\* Variant for mutation: only the last finding is looked at.
HasErrors_last(fs) == fs # <<>> /\ Last(fs).level \in {"error", "deny"}

HasErrors(fs) == \E i \in DOMAIN fs : fs[i].level \in {"error", "deny"}

\* The exit code of a run that printed its report (or its inventory).
Verdict ==
  /\ pc = "verdict"
  /\ Exit(IF HasErrors(findings) THEN 1 ELSE 0)
  /\ UNCHANGED <<findings, acc, queue, out>>

\* The reader of standard output goes away.
ReaderCloses ==
  /\ reader /\ pc # "exited"
  /\ reader' = FALSE
  /\ UNCHANGED <<format, listing, lines, findings, acc, queue, pc, out, status>>

Program == \/ Collect \/ CollectFails \/ ListLints \/ HandleFinding
           \/ Summarise \/ WriteLine \/ WriteLineFails \/ Written \/ Verdict

\* The only place where a run may stop.
Exited == pc = "exited" /\ UNCHANGED vars

Next == Program \/ ReaderCloses \/ Exited

Spec == Init /\ [][Next]_vars

-----------------------------------------------------------------------------
\* Properties.

\* The order the comments of print_findings_summary ask for: "ordered by count
\* descending", "then name ascending for stability".  (The example in
\* README.md 295-299 shows another one, alphabetical with the total last.)
MoreFrequent(fs, a, b) ==
  LET n(x) == Count(fs, "name", x) IN n(a) > n(b) \/ (n(a) = n(b) /\ a < b)

Frequency(fs) ==
  {p \in Values(fs, "name") \X Values(fs, "name") : MoreFrequent(fs, p[1], p[2])}

\* One line for each finding, in their order; none for sarif.
Body(fmt, fs) ==
  IF fmt = "sarif" THEN <<>> ELSE [i \in DOMAIN fs |-> Rendered(fmt, fs[i])[1]]

\* What a run with these findings prints, whatever its HashMaps do.
Report(fmt, fs) ==
  Body(fmt, fs) \o
  IF fmt # "text" THEN <<>>
  ELSE Summary(fs, Sorted(Values(fs, "name"), Frequency(fs)),
               Sorted(Values(fs, "level"), BySeverity(fs)))

\* The reader gets the report of the findings, up to where it stopped reading:
\* no finding is skipped, none is printed twice, and the order of the two
\* HashMaps of print_findings_summary shows nowhere.  A run that exits with 0
\* printed all of it (handle_finding, print_findings_summary, run).
ReportFollowsFindings ==
  ~ listing /\ pc # "collect" =>
    /\ IsPrefix(out, Report(format, findings))
    /\ pc = "verdict" \/ status = 0 => out = Report(format, findings)

\* A run that exits with 0 saw no diagnostic of error level that has a code,
\* through parsing, the loop and the exit code (parse_dylint_output, run).
ErrorsNeverPass ==
  ~ listing /\ status = 0 =>
    \A i \in DOMAIN lines :
      IsFinding(lines[i]) => lines[i].message.level # "error"

\* What GitHub makes of an escaped text: each escape stands for its character.
Escapes == << <<"%", "2", "5">>, <<"%", "0", "D">>, <<"%", "0", "A">>,
              <<"%", "3", "A">>, <<"%", "2", "C">> >>

Escaped == <<"%", "CR", "LF", ":", ",">>

EscapesAt(s, i) ==
  {e \in DOMAIN Escapes :
     i + 2 <= Len(s) /\ <<s[i], s[i + 1], s[i + 2]>> = Escapes[e]}

Unescaped(s) ==
  LET from[i \in 1 .. Len(s) + 1] ==
        IF i > Len(s) THEN <<>>
        ELSE IF EscapesAt(s, i) = {} THEN <<s[i]>> \o from[i + 1]
        ELSE <<Escaped[CHOOSE e \in EscapesAt(s, i) : TRUE]>> \o from[i + 3]
  IN from[1]

\* Every annotation stays one workflow command and says what its finding
\* says: its texts hold no character that would end the line or the property,
\* and decode to the originals (escape_github_message, escape_github_property).
AnnotationsAreLossless ==
  format = "github" /\ ~ listing =>
    \A i \in DOMAIN out :
      /\ Range(out[i].message) \cap {"CR", "LF"} = {}
      /\ Range(out[i].file) \cap {"CR", "LF", ":", ","} = {}
      /\ Unescaped(out[i].message) = acc[i].message
      /\ Unescaped(out[i].file) = RelativeFile(acc[i].span.file)

\* The three renderings and the exit code decide what an error is by four lists
\* of their own, and agree; the unused SARIF report keeps the findings, in
\* order, with their positions (format_github_annotation, format_diagnostic,
\* generate_sarif_report, run).
RenderingsAgree ==
  LET results == generate_sarif_report(acc).results
  IN \A i \in DOMAIN acc :
       LET annotation == format_github_annotation(acc[i])
           diagnostic == format_diagnostic(acc[i])
       IN /\ results[i].level = diagnostic.severity
          /\ annotation.severity = "error" <=> results[i].level = "error"
          /\ HasErrors(<<acc[i]>>) <=> diagnostic.severity = "error"
          /\ annotation.line = IF results[i].region = <<>> THEN 0
                               ELSE results[i].region[1].startLine

\* A run that got to its verdict fails exactly if an annotation or a
\* diagnostic it printed is an error (run, handle_finding).
ExitAgreesWithOutput ==
  [][pc = "verdict" /\ pc' # pc /\ ~ listing /\ format \in {"text", "github"} =>
       (status' = 1 <=> \E i \in DOMAIN acc : out[i].severity = "error")]_vars

\* Nothing is found before the child has ended, nor when lints are listed;
\* after that, the findings are those of its lines, unless it failed.
FindingsAreParsed ==
  /\ pc = "collect" => out = <<>>
  /\ pc = "collect" \/ listing => findings = <<>>
  /\ ~ listing /\ (pc \notin {"collect", "exited"} \/ status = 0) =>
       findings = parse_dylint_output(lines)

\* What is written and what is still to be written make up the report, and a
\* run that passes has looked at every finding.
ReportSoFar ==
  ~ listing =>
    LET report == Report(format, findings)
    IN /\ pc = "findings" => out = Body(format, acc)
       /\ pc = "flush" => \E n \in 0 .. Len(report) :
                            /\ out = SubSeq(report, 1, n)
                            /\ queue = SubSeq(report, n + 1, Len(report))
       /\ pc \in {"flush", "verdict"} => acc = findings
       /\ format = "github" => Len(out) <= Len(acc)
       /\ status = 0 => ~ HasErrors(findings)

\* The inductive invariant.
ReportInv ==
  /\ TypeOK /\ FindingsAreParsed /\ ReportSoFar
  /\ ReportFollowsFindings /\ ErrorsNeverPass

\* --format sarif prints a report (README.md 257-263).
SarifIsPrinted ==
  format = "sarif" /\ status = 0 /\ findings # <<>> => out # <<>>
=============================================================================
