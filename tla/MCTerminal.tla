----------------------------- MODULE MCTerminal -----------------------------
(***************************************************************************)
(* A window of a few characters, which the longest line fills.             *)
(***************************************************************************)
EXTENDS Terminal

MCKey == {".", "q"}
MCGlyph == MCKey \cup {" ", "#", ">"}
MCPrompt == <<">", " ">>
MCOutput == <<"q", "newline">>
MCQuitLines == {<<"q", "q">>}
=============================================================================
