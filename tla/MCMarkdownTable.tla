--------------------------- MODULE MCMarkdownTable ---------------------------
(* MarkdownTable for TLC: rows of no cell, one and two.                     *)
EXTENDS MarkdownTable

MCRow == {<<>>, <<"a">>, <<"b", "c">>}
=============================================================================
