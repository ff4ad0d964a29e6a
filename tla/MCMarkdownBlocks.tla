--------------------------- MODULE MCMarkdownBlocks ---------------------------
(* MarkdownBlocks for TLC: sets of line shapes.                             *)
EXTENDS MarkdownBlocks

MCWord == <<"w1", "w2", "w3", "w4", "w5", "w6", "w7">>

(* Every marker, alone and behind one of the others.                        *)
AllShapes ==
    {<<>>, <<"text">>, <<"sp", "sp", "text">>, <<"sp", "sp">>,
     <<"* ", "text">>, <<"sp", "sp", "* ", "text">>,
     <<"1. ", "text">>, <<"sp", "sp", "1. ", "text">>,
     <<"- [ ] ", "text">>, <<"sp", "sp", "- [ ] ", "text">>,
     <<">", "sp", "text">>, <<">", ">", "sp", "text">>,
     <<">", "sp", "* ", "text">>, <<">", "sp", "# ", "text">>, <<">">>,
     <<"# ", "text">>, <<"---">>, <<"fence">>, <<"|table>">>, <<"|<table">>}

Indent(n) == [i \in 1..(2 * n) |-> "sp"]

(* The items of lists that are nested up to three deep, and their end.      *)
ListShapes ==
    {<<>>} \cup {Indent(n) \o <<marker, "text">> : n \in 0..2, marker \in {"* ", "1. "}}

(* Any four lines, and then more items if there has been nothing else.      *)
IsOutline(d) ==
    \A i \in DOMAIN d : d[i] = <<>> \/ Append(Front(d[i]), "text") \in ListShapes

MCShape(d) ==
    CASE Len(d) < 4   -> AllShapes
      [] IsOutline(d) -> ListShapes
      [] OTHER        -> {}
=============================================================================
