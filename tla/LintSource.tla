----------------------------- MODULE LintSource -----------------------------
(***************************************************************************)
(* lib.rs of the lint crate as its readers see it: rustc, which expands    *)
(* the macros, the two parsers of build.rs, and the parser of              *)
(* generate-lint-docs.  None of the latter is a Rust parser: they look for *)
(* marks in lines of text.                                                 *)
(*                                                                         *)
(* A source is a record                                                    *)
(*   declares    what rustc sees: [name, level, description]               *)
(*   text        the lines that hold those declarations                    *)
(*   registered  the lines between the brackets of register_lints, each    *)
(*               a sequence of names (empty for a comment or a blank       *)
(*               line), or Missing                                         *)
(*   typed       whether LINT_METADATA has the type the parsers look for   *)
(*   metadata    its entries: [lint, category]                             *)
(*                                                                         *)
(* A line is [k, v]: what a parser recognises of it and what it would take *)
(* from it.  A description is the sequence of the lines it spans.          *)
(***************************************************************************)
EXTENDS Integers, Sequences, FiniteSets, SequencesExt, FiniteSetsExt

CONSTANTS
  Missing,  \* no register_lints call
  Garbled,  \* the name read from a line that holds more than one name
  Cut       \* a description that stops at a brace

Line(k, v) == [k |-> k, v |-> v]

\* A reader looks for the first line it does not skip; Len(text) + 1 if none.
NextLine(text, from, Skip(_)) ==
  Min({j \in from .. Len(text) : ~ Skip(text[j])} \cup {Len(text) + 1})

Blank(line) == line.k = "blank"

\* Blank lines, comments and attributes.
Skipped(line) == line.k \in {"blank", "comment", "attribute", "openComment"}

-----------------------------------------------------------------------------
\* build.rs.

\* Only this spelling, anywhere in a line, starts a block; "openTight" is the
\* macro without the space, "openComment" a comment that shows its use, and
\* "inline" a declaration in one line.
Opens(line) == line.k \in {"open", "openComment", "inline"}

\* Braces count wherever they stand, in strings and comments too.
Braces(line) ==
  CASE line.k \in {"open", "openTight", "openComment", "textOpen"} -> 1
    [] line.k \in {"close", "textClose"} -> -1
    [] OTHER -> 0

\* How deep the lines from i to j open braces.
Depth(text, i, j) == Cardinality({m \in i .. j : Braces(text[m]) = 1})
                       - Cardinality({m \in i .. j : Braces(text[m]) = -1})

\* The line on which the block opened at i ends; 0 if none does.
BlockEnd(text, i) ==
  LET closed == {j \in i .. Len(text) : Depth(text, i, j) = 0}
  IN IF closed = {} THEN 0 ELSE Min(closed)

\* How many of these places come no later than i.
Rank(places, i) == Cardinality({j \in places : j <= i})

\* What stands at some of the places of s, in its order.
Chosen(s, places) ==
  [k \in 1 .. Cardinality(places) |-> s[CHOOSE i \in places : Rank(places, i) = k]]

\* The lines of the block from i to j that are no comments.
Payload(text, i, j) ==
  LET whole == Chosen(text, {m \in i + 1 .. j - 1 : ~ Skipped(text[m])})
  IN IF j > i /\ text[j].k = "textClose" THEN Append(whole, Line("text", Cut))
     ELSE whole

\* Names and levels lose their decoration, descriptions their quotes.
LintMeta(payload) ==
  [name        |-> payload[1].v,
   level       |-> payload[2].v,
   description |-> [n \in 1 .. Len(payload) - 2 |-> payload[n + 2].v]]

\* The lints of all blocks, or Missing if one of them cannot be read.
parse_declare_lints(text) ==
  LET from[i \in 1 .. Len(text) + 1] ==
        IF i > Len(text) THEN <<>>
        ELSE IF ~ Opens(text[i]) THEN from[i + 1]
        ELSE LET end == BlockEnd(text, i)
                 payload == Payload(text, i, end)
             IN IF \/ end = 0 \/ Len(payload) < 3
                   \/ LintMeta(payload).description = <<"">> THEN <<Missing>>
                ELSE <<LintMeta(payload)>> \o from[end + 1]
      found == from[1]
  IN IF found # <<>> /\ Last(found) = Missing THEN Missing ELSE found

\* One name for each line that is neither blank nor a comment.
parse_register_lints(registered) ==
  IF registered = Missing THEN Missing
  ELSE LET entries == SelectSeq(registered, LAMBDA line : line # <<>>)
       IN [n \in DOMAIN entries |->
             IF Len(entries[n]) = 1 THEN entries[n][1] ELSE Garbled]

\* The category of a lint: its last entry counts.
CategoryIn(src, name, default) ==
  LET of == {i \in DOMAIN src.metadata : src.metadata[i].lint = name}
  IN IF src.typed /\ of # {} THEN src.metadata[Max(of)].category ELSE default

-----------------------------------------------------------------------------
\* generate-lint-docs.

\* The macro must end its line; a space before the brace is not needed.
Heads(line) == line.k \in {"open", "openTight", "openComment"}

\* A name without pub is passed over; the level and the description are the
\* next lines that are not blank, comments included, one line each.
parse_lib_rs(src) ==
  LET text == src.text
      n == Len(text)
      Entry(name, level, description) ==
        [name        |-> text[name].v,
         level       |-> text[level].v,
         description |-> <<text[description].v>>,
         category    |-> CategoryIn(src, text[name].v, "Other")]
      from[i \in 1 .. n + 1] ==
        IF i > n THEN <<>>
        ELSE IF ~ Heads(text[i]) THEN from[i + 1]
        ELSE LET name == NextLine(text, i + 1, Skipped)
                 level == NextLine(text, name + 1, Blank)
                 description == NextLine(text, level + 1, Blank)
             IN IF name > n THEN <<>>
                ELSE IF text[name].k # "pubName" THEN from[name + 1]
                ELSE IF description > n THEN <<>>
                ELSE <<Entry(name, level, description)>> \o from[description + 1]
  IN from[1]
=============================================================================
