--------------------------- MODULE MCMarkdownInline ---------------------------
(* MarkdownInline for TLC: all short lines of marks, all short lines of     *)
(* brackets, links and images with every short text and address, with marks *)
(* around them, and nested in every way.                                    *)
EXTENDS MarkdownInline

MCText == {"w", "u"}

MCMarks == BoundedSeq({"w", "*", "_", "tick"}, 7) \cup BoundedSeq({"w", "~", "*", "tick"}, 6)
MCBrackets == BoundedSeq({"w", "!", "[", "]", "(", ")"}, 5)

Inside == BoundedSeq({"w", "_", "tick", "!"}, 3)
Address == BoundedSeq({"u", "_", "tick", ")"}, 3)
MCLinks == {bang \o <<"[">> \o t \o <<"]", "(">> \o a \o <<")">> :
               bang \in {<<>>, <<"!">>}, t \in Inside, a \in Address}
MCAround == {m \o l \o m : m \in {<<"_">>, <<"_", "_">>, <<"*">>, <<"~", "~">>, <<"tick">>},
                           l \in {n \in MCLinks : Len(n) <= 6}}

Piece == {<<"!", "[">>, <<"[">>, <<"]", "(">>, <<"]">>, <<")">>, <<"u">>}
MCNested == {FlattenSeq(pieces) : pieces \in BoundedSeq(Piece, 6)}
       \cup {l \o m : l, m \in {n \in MCLinks : Len(n) <= 5}}

MCLines == MCMarks \cup MCBrackets \cup MCLinks \cup MCAround \cup MCNested
=============================================================================
