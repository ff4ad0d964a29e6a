---------------------------- MODULE MarkdownTable ----------------------------
(***************************************************************************)
(* TableParser of markdown.h: rows go into the block that the separators   *)
(* "- | - | -" count, and "|<table" prints the blocks as head, bodies and  *)
(* foot.  MarkdownBlocks has the life of the parser among the others; here *)
(* is its grid.                                                            *)
(*                                                                         *)
(* A row is the sequence of its cells, already split at "|" and parsed.    *)
(* An access to table behind its end is undefined behaviour: the state     *)
(* "undefined" stands for whatever the program does from there.            *)
(* A definition Name_Bug is a mutant of Name; Next uses none of them.      *)
(***************************************************************************)
EXTENDS Naturals, Sequences, FiniteSets, SequencesExt, FiniteSetsExt

CONSTANTS Row,       \* the rows a document may have: sequences of cells
          MaxLines   \* bound on the lines between "|table>" and "|<table"

ASSUME RowAssumption ==
    /\ MaxLines \in Nat
    /\ Row \subseteq Seq(STRING)

VARIABLES doc,            \* history: the lines read so far
          state,          \* "new", "started", "finished" or "undefined"
          table,          \* table[b][r]: row r of block b, both from 1
          currentBlock,   \* from 0, as in the code
          currentRow,     \* from 0
          result          \* the HTML

vars == <<doc, state, table, currentBlock, currentRow, result>>

(* The line that counts the blocks is compared whole; no cell has a "|".    *)
Separator == <<"- | - | -">>

ASSUME SeparatorAssumption == Separator \notin Row

Init ==
    /\ doc = <<>> /\ state = "new" /\ table = <<>>
    /\ currentBlock = 0 /\ currentRow = 0 /\ result = <<>>
-----------------------------------------------------------------------------
Start ==
    /\ state = "new"
    /\ state' = "started"
    /\ UNCHANGED <<doc, table, currentBlock, currentRow, result>>

Reads(l) ==
    /\ state = "started" /\ Len(doc) < MaxLines
    /\ doc' = Append(doc, l)

NewBlock_KeepsRow == currentBlock' = currentBlock + 1 /\ UNCHANGED currentRow
NewBlock == currentBlock' = currentBlock + 1 /\ currentRow' = 0

AddSeparator ==
    /\ Reads(Separator)
    /\ NewBlock
    /\ UNCHANGED <<state, table, result>>

(* One block is added when there are too few, even if one is not enough.    *)
Grown_Once == IF table = <<>> THEN <<<<>>>> ELSE table
Grown == IF Len(table) < currentBlock + 1 THEN Append(table, <<>>) ELSE table

(* An empty row is added to the block, and gets its cells one by one.       *)
Filled(block, row) ==
    [Append(block, <<>>) EXCEPT ![currentRow + 1] = @ \o row]

InBounds(row) ==
    /\ currentBlock < Len(Grown)
    /\ row = <<>> \/ currentRow <= Len(Grown[currentBlock + 1])

AddRow(row) ==
    /\ Reads(row)
    /\ InBounds(row)
    /\ table' = [Grown EXCEPT ![currentBlock + 1] = Filled(@, row)]
    /\ currentRow' = currentRow + 1
    /\ UNCHANGED <<state, currentBlock, result>>

AddRowBeyond(row) ==
    /\ Reads(row)
    /\ ~InBounds(row)
    /\ state' = "undefined"
    /\ UNCHANGED <<table, currentBlock, currentRow, result>>

(* parseBlock: the block's place among the others decides what it is.       *)
HasFooter_FromTwo == Len(table) >= 2
HasFooter == Len(table) >= 3

Section(b) ==
    CASE Len(table) > 1 /\ b = 1                   -> "thead"
      [] HasFooter /\ b = Len(table)               -> "tfoot"
      [] OTHER                                     -> "tbody"

OpenTag(name) == "<" \o name \o ">"
CloseTag(name) == "</" \o name \o ">"

Tagged(name, content) == <<OpenTag(name)>> \o content \o <<CloseTag(name)>>

RowHtml(row, section) ==
    LET cell == IF section = "thead" THEN "th" ELSE "td"
    IN  Tagged("tr", FlattenSeq([c \in DOMAIN row |-> Tagged(cell, <<row[c]>>)]))

BlockHtml(b) ==
    Tagged(Section(b), FlattenSeq(
        [r \in DOMAIN table[b] |-> RowHtml(table[b][r], Section(b))]))

End ==
    /\ state = "started"
    /\ state' = "finished"
    /\ result' = Tagged("table", FlattenSeq([b \in DOMAIN table |-> BlockHtml(b)]))
    /\ UNCHANGED <<doc, table, currentBlock, currentRow>>

Next ==
    \/ Start \/ AddSeparator \/ End
    \/ \E row \in Row : AddRow(row) \/ AddRowBeyond(row)

Spec == Init /\ [][Next]_vars
-----------------------------------------------------------------------------
(* Of the document alone: which lines are rows, the number of the block a   *)
(* row is in, and the number of blocks up to the last row.                  *)
RowLines == {i \in DOMAIN doc : doc[i] # Separator}
BlockOf(i) == Cardinality({j \in 1..i : doc[j] = Separator}) + 1
BlockCount == IF RowLines = {} THEN 0 ELSE BlockOf(Max(RowLines))

Place(b) == CASE b = 1 /\ BlockCount > 1           -> "thead"
              [] b = BlockCount /\ BlockCount > 2  -> "tfoot"
              [] OTHER                             -> "tbody"

(* Its HTML, line by line: the first row of a block opens its element, the  *)
(* last one closes it.                                                      *)
LineHtml(i) ==
    LET place  == Place(BlockOf(i))
        opens  == i = 1 \/ doc[i - 1] = Separator
        closes == i = Len(doc) \/ doc[i + 1] = Separator
        cell   == IF place = "thead" THEN "th" ELSE "td"
    IN  (IF opens THEN <<OpenTag(place)>> ELSE <<>>)
        \o <<OpenTag("tr")>>
        \o FlattenSeq([c \in DOMAIN doc[i] |->
              <<OpenTag(cell), doc[i][c], CloseTag(cell)>>])
        \o <<CloseTag("tr")>>
        \o (IF closes THEN <<CloseTag(place)>> ELSE <<>>)

(* A finished table is the document's: every cell in its row, every row in  *)
(* the block it was written in, the first of several blocks a head and the  *)
(* last of three or more a foot.                                            *)
PrintsTheDocument ==
    state = "finished" =>
        result = <<OpenTag("table")>>
                 \o FlattenSeq([i \in DOMAIN doc |->
                       IF i \in RowLines THEN LineHtml(i) ELSE <<>>])
                 \o <<CloseTag("table")>>

(* currentRow is the index of the row that the next line adds.              *)
RowIndex ==
    currentRow = IF currentBlock < Len(table) THEN Len(table[currentBlock + 1])
                                              ELSE 0

(* table is read behind its end for the documents that have a row after a   *)
(* block without rows, and for no others.                                   *)
EmptyBlock(i) == doc[i] = Separator /\ (i = 1 \/ doc[i - 1] = Separator)

BeyondOnlyAfterEmpty ==
    state # "new" =>
        (state = "undefined" <=>
           \E i, j \in DOMAIN doc : i < j /\ EmptyBlock(i) /\ j \in RowLines)
=============================================================================
