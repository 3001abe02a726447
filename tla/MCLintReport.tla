---------------------------- MODULE MCLintReport ----------------------------
(***************************************************************************)
(* Instances of LintReport: outputs of cargo dylint that mix diagnostics   *)
(* of two lints, lines that are no diagnostics, and fields that are        *)
(* missing or awkward.                                                     *)
(***************************************************************************)
EXTENDS LintReport

CONSTANT MaxLines  \* bound: the length of the outputs whose fields vary

MCCwd == <<"w", "/">>

MCInventory == <<1, 2>>

At(file, line, col) ==
  [file |-> file, line |-> line, lineEnd |-> line, col |-> col, colEnd |-> col]

Message(code, level, text, span) ==
  [reason  |-> "compiler-message",
   message |-> [code |-> code, level |-> level, text |-> text, span |-> span]]

\* Not JSON, another reason, no message, no code, a code that is not a string.
Noise ==
  {Missing, [reason |-> "build-finished"],
   [reason |-> "compiler-message", message |-> Missing]} \cup
  {Message(c, "error", <<"a">>, Missing) : c \in {Missing, 0}}

Texts == {Missing, <<"a">>, <<"%", "LF">>, <<"%", "2", "5">>, <<"CR", "0", "A">>}

Spans == {Missing, At(Missing, Missing, 1), At(<<"w", "/", "a">>, 1, 1),
          At(<<"a", "BS", ":">>, 2, 0), At(<<"w", "%", ",">>, Missing, Missing)}

\* Lines that differ in lint and level only, and lines with everything else.
Plain == {Message(c, l, <<"a">>, At(<<"a">>, 1, 1)) :
            c \in {1, 2, 3}, l \in {"warning", "error", "note"}}

Awkward == {Message(1, Missing, t, s) : t \in Texts, s \in Spans}

MCInputs == BoundedSeq(Plain, MaxLines) \cup BoundedSeq(Noise \cup Awkward, 2)
              \cup {<<n, p>> : n \in Noise, p \in Plain}
=============================================================================
