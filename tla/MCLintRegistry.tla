--------------------------- MODULE MCLintRegistry ---------------------------
(***************************************************************************)
(* Instances of LintRegistry: lib.rs files of one or two lints, each laid  *)
(* out in every way the parsers treat differently, with right and wrong    *)
(* registrations, metadata, pages and documents.                           *)
(***************************************************************************)
EXTENDS LintRegistry

Lint(name, description) ==
  [name |-> name, level |-> IF name = "a" THEN "Deny" ELSE "Warn",
   description |-> description]

One(name) == Lint(name, <<"catches " \o name>>)
Two(name) == Lint(name, <<"catches", "more">>)

Styles == {"plain", "documented", "spaced", "commented", "exampled", "inline",
           "tight", "bare", "multiline", "empty", "open", "close"}

Declaration(name, style) ==
  CASE style = "multiline" -> Two(name)
    [] style = "empty" -> Lint(name, <<"">>)
    [] OTHER -> One(name)

\* The lines of a declaration in a style.
Block(name, style) ==
  LET d == Declaration(name, style)
      Texts(k) == [i \in DOMAIN d.description |-> Line(k, d.description[i])]
      Fields(k) == <<Line("pubName", name), Line("level", d.level)>> \o Texts(k)
                     \o <<Line("close", "}")>>
      Open == <<Line("open", "")>>
      Comment == <<Line("comment", "//")>>
  IN CASE style = "documented" ->
            Open \o Comment \o <<Line("attribute", "#[]"), Line("blank", "")>>
              \o Fields("text")
       [] style = "spaced" ->
            Open \o FlattenSeq([i \in 1 .. 4 |-> <<Fields("text")[i], Line("blank", "")>>])
       [] style = "commented" ->
            Open \o <<Fields("text")[1]>> \o Comment \o Tail(Fields("text"))
       [] style = "exampled" -> <<Line("openComment", "//")>> \o Open \o Fields("text")
       [] style = "inline" -> <<Line("inline", "")>>
       [] style = "tight" -> <<Line("openTight", "")>> \o Fields("text")
       [] style = "bare" -> Open \o <<Line("name", name)>> \o Tail(Fields("text"))
       [] style = "open" -> Open \o Fields("textOpen")
       [] style = "close" -> Open \o Fields("textClose")
       [] OTHER -> Open \o Fields("text")

Source(blocks, registered, typed, metadata) ==
  [declares   |-> [i \in DOMAIN blocks |-> Declaration(blocks[i][1], blocks[i][2])],
   text       |-> FlattenSeq([i \in DOMAIN blocks |-> Block(blocks[i][1], blocks[i][2])]),
   registered |-> registered,
   typed      |-> typed,
   metadata   |-> metadata]

Both == << <<"a">>, <<"b">> >>
Plain == << <<"a", "plain">>, <<"b", "plain">> >>
Meta(name, category) == [lint |-> name, category |-> category]

Styled == {Source(<< <<"a", s>>, <<"b", t>> >>, r, FALSE, <<>>) :
             s \in Styles, t \in {"plain", "close"},
             r \in {Both, << <<"b">> >>}}

Registrations == {Missing, << <<"b">>, <<>>, <<"a">> >>, << <<"a", "b">> >>,
                  << <<"a">> >>, << <<"a">>, <<"b">>, <<"c">> >>}

Registered == {Source(Plain, r, FALSE, <<>>) : r \in Registrations}

Described == {Source(Plain, Both, typed, <<Meta("a", c), Meta("b", "Compute"), Meta("a", d)>>) :
                typed \in BOOLEAN, c \in {"Memory"}, d \in {"Memory", "Compute", "Storage"}}

Base == Source(Plain, Both, TRUE, <<Meta("a", "Compute")>>)
Smaller == Source(<< <<"b", "plain">> >>, << <<"b">> >>, TRUE, <<Meta("b", "Memory")>>)

MCRevisions == {Base, Smaller}

Absent == [f \in ToSet(Documents) |-> Missing]

UpFor(s, crlf) ==
  [f \in ToSet(Documents) |-> [rows |-> Generated(f, s), crlf |-> crlf]]

World(s, p, c, d, e, n, l) ==
  [src |-> s, pages |-> p, channel |-> c, docs |-> d,
   left |-> [edits |-> e, starts |-> n, loads |-> l]]

\* Every layout with one run of the generator and no edit; edits and a second
\* run where all is well, or nearly.
MCWorlds ==
  {World(s, {"a", "b"}, "nightly", UpFor(s, FALSE), 0, 1, 0) :
     s \in Styled \cup Registered \cup Described} \cup
  {World(s, {"b"}, "nightly", UpFor(s, FALSE), 0, 1, 0) : s \in Styled} \cup
  {World(Base, p, "nightly", Absent, 0, 1, 1) : p \in SUBSET {"a", "b", "c"}} \cup
  {World(Base, {"a", "b"}, Missing, UpFor(Smaller, crlf), 0, 1, 1) : crlf \in BOOLEAN} \cup
  {World(Base, {"a", "b"}, "nightly", UpFor(Base, TRUE), 1, 2, 0),
   World(Base, {"a", "b"}, "nightly", Absent, 1, 0, 1),
   World(Smaller, {"b"}, "nightly", Absent, 0, 2, 0)}

Symmetry == Permutations(Gens)

File(readable, toml, lints, budget) ==
  [readable |-> readable, toml |-> toml, lints |-> lints, budget |-> budget]

Tables == {Missing, Malformed, [a |-> "deny"], [a |-> "warn", b |-> "allow"],
           [a |-> "oops", c |-> "deny"], [b |-> "deny", c |-> "warn"]}

MCConfigs == {File(TRUE, TRUE, t, Missing) : t \in Tables} \cup
             {File(TRUE, TRUE, Missing, [a |-> "deny"]), File(FALSE, TRUE, Missing, Missing),
              File(TRUE, FALSE, Missing, Missing)}

\* Every source of this instance is read right, and those with a line for each
\* field are laid out plainly: what the theorems on the build and on the two
\* inventories suppose is not out of reach.
ASSUME ParserAssumption == ParserIsRight
ASSUME LayoutAssumption == FieldsAreLaidOut
=============================================================================
