----------------------------- MODULE MCTerminal -----------------------------
(***************************************************************************)
(* Terminal on a screen of three short rows.                               *)
(***************************************************************************)
EXTENDS Terminal

MCBytes == {"c", "e", "h", "u", "x", "y", "d", ">", "?", Blank, Newline}
MCPrompt == <<">">>
MCUnknown == <<"?">>
MCLine == <<"d", Newline>>

\* A text that fills a row, one that wraps and scrolls, and one with a byte
\* the text mode cannot show.
MCTexts ==
  {<<"x", "x", "x", "x", Newline>>,
   <<"x", "x", "x", "x", "x", Newline, "y", Newline>>,
   <<"u", Newline>>}
=============================================================================
