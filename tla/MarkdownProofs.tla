---------------------------- MODULE MarkdownProofs ----------------------------
(***************************************************************************)
(* The parsers of a table and of a line, proved: the indices of            *)
(* TableParser and what it prints, for any rows and any length of the      *)
(* document; and what the seven LineParsers make of a line, for any line.  *)
(*                                                                         *)
(* The second part, from the lemmas of Replace on, never looks at the      *)
(* lines one by one: it says what one match changes and what replacing     *)
(* leaves, and follows the line from parser to parser.                     *)
(*   Rewriting      what std::regex_replace makes of a line, from each     *)
(*                  position on, and how many of anything it leaves        *)
(*   Accounted      width, words and tags, kept by each of the parsers     *)
(*   InlineInv      the line each parser gets                              *)
(*   Keeps, Split   nothing of the emphases reaches code: CodeProtected    *)
(*   Apart          "!" and a link do not meet: OrderKept                  *)
(*   Traced         where in the line each token is from                   *)
(*   Window         two empty emphases stem from two underscores, text,    *)
(*                  two underscores: OrderKept                             *)
(*   Addressed      an address stays in its tag: TextKept                  *)
(***************************************************************************)
EXTENDS MarkdownTable, MarkdownInline, SequenceLemmas, FiniteSetTheorems, TLAPS

Cells == Seq(STRING)

(* The types the indices need, and how many blocks there are at most.       *)
Shape ==
    /\ table \in Seq(Seq(Cells))
    /\ currentBlock \in Nat
    /\ currentRow \in Nat
    /\ Len(table) <= currentBlock + 1

IInv == Shape /\ RowIndex

(* Replacing an element of a sequence, at an index it has or has not.       *)
LEMMA Replaced ==
    ASSUME NEW S, NEW s \in Seq(S), NEW i \in Nat, NEW e, i \in 1..Len(s) => e \in S
    PROVE  /\ [s EXCEPT ![i] = e] \in Seq(S)
           /\ Len([s EXCEPT ![i] = e]) = Len(s)
           /\ i \in 1..Len(s) => [s EXCEPT ![i] = e][i] = e
  <1> DEFINE t == [s EXCEPT ![i] = e]
  <1>1. Len(s) \in Nat /\ s \in [1..Len(s) -> S]
    OBVIOUS
  <1>2. t \in [1..Len(s) -> S]
    BY <1>1
  <1>3. i \in 1..Len(s) => t[i] = e
    BY <1>1
  <1> HIDE DEF t
  <1>4. t \in Seq(S) /\ Len(t) = Len(s)
    BY <1>1, <1>2
  <1> QED
    BY <1>3, <1>4 DEF t

(* A filled row makes the block one longer, whatever its index.             *)
LEMMA FilledLength ==
    ASSUME NEW block \in Seq(Cells), NEW row \in Cells, currentRow \in Nat
    PROVE  /\ Filled(block, row) \in Seq(Cells)
           /\ Len(Filled(block, row)) = Len(block) + 1
  <1> DEFINE longer == Append(block, <<>>)
  <1>1. <<>> \in Cells
    BY DEF Cells
  <1>2. longer \in Seq(Cells) /\ Len(longer) = Len(block) + 1
    BY <1>1
  <1> HIDE DEF longer
  <1>3. ASSUME currentRow + 1 \in 1..Len(longer)
        PROVE  longer[currentRow + 1] \o row \in Cells
    <2>1. longer[currentRow + 1] \in Cells
      BY <1>2, <1>3
    <2> QED
      BY <2>1 DEF Cells
  <1>4. Filled(block, row) =
            [longer EXCEPT ![currentRow + 1] = longer[currentRow + 1] \o row]
    BY DEF Filled, longer
  <1> QED
    BY <1>2, <1>3, <1>4, Replaced

(* When a row is within bounds there is a block for it, the last one.       *)
LEMMA GrownFacts ==
    ASSUME Shape, RowIndex, currentBlock < Len(Grown)
    PROVE  /\ Grown \in Seq(Seq(Cells))
           /\ Len(Grown) = currentBlock + 1
           /\ Len(Grown[currentBlock + 1]) = currentRow
  <1>1. CASE Len(table) < currentBlock + 1
    <2>1. Grown = Append(table, <<>>) /\ <<>> \in Seq(Cells)
      BY <1>1 DEF Grown
    <2>2. Grown \in Seq(Seq(Cells)) /\ Len(Grown) = Len(table) + 1
      BY <2>1 DEF Shape
    <2>3. Len(table) = currentBlock
      BY <1>1, <2>2 DEF Shape
    <2>4. Grown[currentBlock + 1] = <<>> /\ currentRow = 0
      BY <2>1, <2>3 DEF Shape, RowIndex
    <2> QED
      BY <2>2, <2>3, <2>4
  <1>2. CASE ~(Len(table) < currentBlock + 1)
    <2>1. Grown = table /\ Len(table) = currentBlock + 1
      BY <1>2 DEF Grown, Shape
    <2> QED
      BY <2>1 DEF Shape, RowIndex
  <1> QED
    BY <1>1, <1>2

(* The empty table has no block, no row.                                    *)
LEMMA InvInit == Init => IInv
  BY DEF Init, IInv, Shape, RowIndex, Cells

(* Every line keeps the indices where the next row belongs.                 *)
LEMMA InvStep == IInv /\ [Next]_vars => IInv'
  <1> SUFFICES ASSUME IInv, [Next]_vars PROVE IInv'
    OBVIOUS
  <1>1. CASE Start \/ End \/ UNCHANGED vars
    BY <1>1 DEF Start, End, vars, IInv, Shape, RowIndex
  <1>2. CASE AddSeparator
    BY <1>2 DEF AddSeparator, NewBlock, IInv, Shape, RowIndex
  <1>3. ASSUME NEW row \in Row, AddRow(row) PROVE IInv'
    <2>1. row \in Cells
      BY RowAssumption DEF Cells
    <2>2. /\ Grown \in Seq(Seq(Cells))
          /\ Len(Grown) = currentBlock + 1
          /\ Len(Grown[currentBlock + 1]) = currentRow
      BY <1>3, GrownFacts DEF AddRow, InBounds, IInv
    <2>3. Grown[currentBlock + 1] \in Seq(Cells)
      BY <2>2 DEF IInv, Shape
    <2> DEFINE new == Filled(Grown[currentBlock + 1], row)
    <2>4. new \in Seq(Cells) /\ Len(new) = currentRow + 1
      BY <2>1, <2>2, <2>3, FilledLength DEF IInv, Shape
    <2>5. table' = [Grown EXCEPT ![currentBlock + 1] = new]
      BY <1>3 DEF AddRow
    <2> HIDE DEF new
    <2>6. /\ table' \in Seq(Seq(Cells)) /\ Len(table') = currentBlock + 1
          /\ table'[currentBlock + 1] = new
      <3>1. currentBlock + 1 \in 1..Len(Grown)
        BY <2>2 DEF IInv, Shape
      <3> QED
        BY <2>2, <2>4, <2>5, <3>1, Replaced
    <2>7. currentRow' = currentRow + 1 /\ currentBlock' = currentBlock
      BY <1>3 DEF AddRow
    <2>8. currentBlock' < Len(table') /\ Len(table') <= currentBlock' + 1
      BY <2>6, <2>7 DEF IInv, Shape
    <2>9. Len(table'[currentBlock' + 1]) = currentRow'
      BY <2>4, <2>6, <2>7
    <2>10. Shape'
      BY <2>6, <2>7, <2>8 DEF IInv, Shape
    <2>11. RowIndex'
      BY <2>8, <2>9 DEF RowIndex
    <2> QED
      BY <2>10, <2>11 DEF IInv
  <1>4. ASSUME NEW row \in Row, AddRowBeyond(row) PROVE IInv'
    BY <1>4 DEF AddRowBeyond, IInv, Shape, RowIndex
  <1> QED
    BY <1>1, <1>2, <1>3, <1>4 DEF Next

(* Whatever the document, currentRow is the index of the row that the next  *)
(* line adds: only a missing block can make AddLine read behind an end.     *)
THEOREM RowIndexHolds == Spec => []RowIndex
  <1>1. IInv => RowIndex
    BY DEF IInv
  <1> QED
    BY <1>1, InvInit, InvStep, PTL DEF Spec
-----------------------------------------------------------------------------
Line == Row \cup {Separator}

HasEmpty == \E i \in 1..Len(doc) : EmptyBlock(i)

RowAfterEmpty ==
    \E i \in 1..Len(doc) : \E j \in 1..Len(doc) :
        i < j /\ EmptyBlock(i) /\ doc[j] # Separator

(* How many blocks there are, told from the last line: that of the last row *)
(* is there; behind a separator it is still to come; and once a block was   *)
(* left empty there are too few for ever.                                   *)
Blocks ==
    /\ doc \in Seq(Line)
    /\ state \in {"new", "started", "finished", "undefined"}
    /\ state = "new" => doc = <<>>
    /\ state = "undefined" <=> RowAfterEmpty
    /\ state # "undefined" =>
         /\ doc = <<>> => Len(table) = 0 /\ currentBlock = 0
         /\ Len(doc) > 0 /\ doc[Len(doc)] # Separator =>
               ~HasEmpty /\ Len(table) = currentBlock + 1
         /\ Len(doc) > 0 /\ doc[Len(doc)] = Separator =>
               IF HasEmpty THEN Len(table) < currentBlock ELSE Len(table) = currentBlock

(* A line more: the blocks that were empty are, and the new line is one if  *)
(* it is a separator behind nothing or behind a separator.                  *)
LEMMA LineAdded ==
    ASSUME doc \in Seq(Line), NEW l \in Line, doc' = Append(doc, l)
    PROVE  /\ doc' \in Seq(Line) /\ Len(doc) \in Nat /\ Len(doc') = Len(doc) + 1
           /\ doc'[Len(doc')] = l
           /\ \A i \in 1..Len(doc) : doc'[i] = doc[i] /\ (EmptyBlock(i)' <=> EmptyBlock(i))
           /\ \A i : i = Len(doc) + 1 =>
                 (EmptyBlock(i)' <=> /\ l = Separator
                                     /\ Len(doc) = 0 \/ doc[Len(doc)] = Separator)
  <1>1. /\ doc' \in Seq(Line) /\ Len(doc) \in Nat /\ Len(doc') = Len(doc) + 1
        /\ doc'[Len(doc) + 1] = l
        /\ \A i \in 1..Len(doc) : doc'[i] = doc[i]
    OBVIOUS
  <1>2. ASSUME NEW i \in 1..Len(doc) PROVE EmptyBlock(i)' <=> EmptyBlock(i)
    <2>1. doc'[i] = doc[i] /\ (i # 1 => doc'[i - 1] = doc[i - 1])
      BY <1>1
    <2> QED
      BY <2>1 DEF EmptyBlock
  <1>3. ASSUME NEW i, i = Len(doc) + 1
        PROVE  EmptyBlock(i)' <=> l = Separator /\ (Len(doc) = 0 \/ doc[Len(doc)] = Separator)
    <2>1. Len(doc) # 0 => doc'[Len(doc)] = doc[Len(doc)]
      BY <1>1
    <2>2. i - 1 = Len(doc) /\ (i = 1 <=> Len(doc) = 0) /\ doc'[i] = l
      BY <1>1, <1>3
    <2> QED
      BY <2>1, <2>2 DEF EmptyBlock
  <1> QED
    BY <1>1, <1>2, <1>3

(* A row behind no empty block is within bounds, and only such a row.       *)
LEMMA BoundsByBlocks ==
    ASSUME IInv, Blocks, state = "started", NEW row
    PROVE  InBounds(row) <=> ~HasEmpty
  <1>1. Shape /\ RowIndex
    BY DEF IInv
  <1>2. Len(table) \in Nat /\ Len(doc) \in Nat /\ currentBlock \in Nat
    BY <1>1 DEF Shape, Blocks
  <1>3. CASE HasEmpty
    <2>1. Len(doc) > 0
      BY <1>2, <1>3 DEF HasEmpty
    <2>2. Len(table) < currentBlock
      BY <1>3, <2>1 DEF Blocks
    <2>3. Len(Grown) <= Len(table) + 1 /\ Len(Grown) \in Nat
      BY <1>1, <1>2 DEF Grown, Shape, Cells
    <2>4. ~(currentBlock < Len(Grown))
      BY <1>2, <2>2, <2>3
    <2> QED
      BY <1>3, <2>4 DEF InBounds
  <1>4. CASE ~HasEmpty
    <2>1. Len(table) = currentBlock \/ Len(table) = currentBlock + 1
      <3>1. doc = <<>> \/ Len(doc) > 0
        BY DEF Blocks
      <3> QED
        BY <1>4, <3>1 DEF Blocks
    <2>2. currentBlock < Len(Grown)
      <3>1. CASE Len(table) = currentBlock
        <4>1. Grown = Append(table, <<>>)
          BY <1>2, <3>1 DEF Grown
        <4>2. <<>> \in Seq(Cells)
          OBVIOUS
        <4> QED
          BY <1>1, <1>2, <3>1, <4>1, <4>2 DEF Shape
      <3>2. CASE Len(table) = currentBlock + 1
        BY <1>2, <3>2 DEF Grown
      <3> QED
        BY <2>1, <3>1, <3>2
    <2>3. Len(Grown[currentBlock + 1]) = currentRow
      BY <1>1, <2>2, GrownFacts
    <2>4. currentRow <= currentRow
      BY <1>1 DEF Shape
    <2> QED
      BY <1>4, <2>2, <2>3, <2>4 DEF InBounds
  <1> QED
    BY <1>3, <1>4

(* Before the first line no block is empty.                                 *)
LEMMA BlocksInit == Init => Blocks
  <1> SUFFICES ASSUME Init PROVE Blocks
    OBVIOUS
  <1>1. doc = <<>> /\ doc \in Seq(Line) /\ Len(doc) = 0 /\ Len(table) = 0
    BY DEF Init
  <1>2. ~RowAfterEmpty
    BY <1>1 DEF RowAfterEmpty
  <1> QED
    BY <1>1, <1>2 DEF Init, Blocks

(* An empty block with a row behind it, after one line more.                *)
LEMMA BadAdded ==
    ASSUME doc \in Seq(Line), NEW l \in Line, doc' = Append(doc, l), ~RowAfterEmpty
    PROVE  /\ RowAfterEmpty' <=> l # Separator /\ HasEmpty
           /\ HasEmpty' <=> \/ HasEmpty
                            \/ l = Separator /\ (Len(doc) = 0 \/ doc[Len(doc)] = Separator)
  <1>0. PICK n : n = Len(doc)
    OBVIOUS
  <1>1. /\ n \in Nat /\ Len(doc') = n + 1
        /\ doc'[n + 1] = l
        /\ \A i \in 1..n : doc'[i] = doc[i] /\ (EmptyBlock(i)' <=> EmptyBlock(i))
        /\ EmptyBlock(n + 1)' <=> l = Separator /\ (n = 0 \/ doc[n] = Separator)
    BY <1>0, LineAdded
  <1>2. \A i : i \in 1..n + 1 <=> i \in 1..n \/ i = n + 1
    BY <1>1
  <1>3. HasEmpty' <=> \E i \in 1..n + 1 : EmptyBlock(i)'
    BY <1>1, Zenon DEF HasEmpty
  <1>4. HasEmpty <=> \E i \in 1..n : EmptyBlock(i)
    BY <1>0, Zenon DEF HasEmpty
  <1>5. HasEmpty' <=> HasEmpty \/ EmptyBlock(n + 1)'
    BY <1>1, <1>2, <1>3, <1>4, Zenon
  <1>6. RowAfterEmpty' <=>
          \E i \in 1..n + 1 : \E j \in 1..n + 1 :
              i < j /\ EmptyBlock(i)' /\ doc'[j] # Separator
    BY <1>1, Zenon DEF RowAfterEmpty
  <1>7. ASSUME l # Separator, HasEmpty PROVE RowAfterEmpty'
    <2>1. PICK i \in 1..n : EmptyBlock(i)
      BY <1>4, <1>7
    <2>2. i < n + 1 /\ i \in 1..n + 1 /\ n + 1 \in 1..n + 1
      BY <1>1
    <2> QED
      BY <1>1, <1>6, <1>7, <2>1, <2>2, Zenon
  <1>8. ASSUME RowAfterEmpty' PROVE l # Separator /\ HasEmpty
    <2>1. PICK i \in 1..n + 1, j \in 1..n + 1 :
              i < j /\ EmptyBlock(i)' /\ doc'[j] # Separator
      BY <1>6, <1>8, Zenon
    <2>2. i \in 1..n
      BY <1>1, <2>1
    <2>3. EmptyBlock(i)
      BY <1>1, <2>1, <2>2, Zenon
    <2>4. j \notin 1..n
      <3> SUFFICES ASSUME j \in 1..n PROVE FALSE
        OBVIOUS
      <3>1. doc[j] # Separator
        BY <1>1, <2>1, Zenon
      <3> QED
        BY <2>1, <2>2, <2>3, <3>1, <1>0, Zenon DEF RowAfterEmpty
    <2>5. j = n + 1
      BY <1>2, <2>1, <2>4, Zenon
    <2> QED
      BY <1>1, <1>4, <2>1, <2>2, <2>3, <2>5, Zenon
  <1> QED
    BY <1>0, <1>1, <1>5, <1>7, <1>8, Zenon

(* Every line keeps what is known of the blocks.                            *)
LEMMA BlocksStep == IInv /\ Blocks /\ [Next]_vars => Blocks'
  <1> SUFFICES ASSUME IInv, Blocks, [Next]_vars PROVE Blocks'
    OBVIOUS
  <1>0. Len(table) \in Nat /\ Len(doc) \in Nat /\ currentBlock \in Nat
        /\ Len(table) <= currentBlock + 1
    BY DEF IInv, Shape, Blocks
  <1>1. CASE Start \/ End \/ UNCHANGED vars
    <2>1. UNCHANGED <<doc, table, currentBlock>>
      BY <1>1 DEF Start, End, vars
    <2>2. (RowAfterEmpty' <=> RowAfterEmpty) /\ (HasEmpty' <=> HasEmpty)
      BY <2>1 DEF RowAfterEmpty, HasEmpty, EmptyBlock
    <2>3. \/ state' = state
          \/ state \in {"new", "started"} /\ state' \in {"started", "finished"}
      BY <1>1 DEF Start, End, vars
    <2> QED
      BY <2>1, <2>2, <2>3 DEF Blocks
  <1>2. CASE AddSeparator
    <2>1. /\ state = "started" /\ state' = state
          /\ doc' = Append(doc, Separator) /\ Separator \in Line
          /\ table' = table /\ currentBlock' = currentBlock + 1
      BY <1>2 DEF AddSeparator, Reads, NewBlock, Line
    <2>2. doc \in Seq(Line) /\ ~RowAfterEmpty
      BY <2>1 DEF Blocks
    <2>3. /\ doc' \in Seq(Line) /\ Len(doc') = Len(doc) + 1 /\ doc'[Len(doc')] = Separator
      BY <2>1, <2>2, LineAdded
    <2>4. /\ ~RowAfterEmpty'
          /\ HasEmpty' <=> HasEmpty \/ Len(doc) = 0 \/ doc[Len(doc)] = Separator
      BY <2>1, <2>2, BadAdded
    <2>5. IF HasEmpty' THEN Len(table) < currentBlock + 1 ELSE Len(table) = currentBlock + 1
      <3>1. CASE Len(doc) = 0
        <4>1. doc = <<>>
          BY <2>2, <3>1
        <4> QED
          BY <1>0, <2>1, <2>4, <3>1, <4>1 DEF Blocks
      <3>2. CASE Len(doc) > 0 /\ doc[Len(doc)] # Separator
        BY <1>0, <2>1, <2>4, <3>2 DEF Blocks
      <3>3. CASE Len(doc) > 0 /\ doc[Len(doc)] = Separator
        BY <1>0, <2>1, <2>4, <3>3 DEF Blocks
      <3> QED
        BY <1>0, <3>1, <3>2, <3>3
    <2>6. doc' # <<>> /\ Len(doc') > 0
      BY <1>0, <2>3
    <2> QED
      BY <2>1, <2>3, <2>4, <2>5, <2>6 DEF Blocks
  <1>3. ASSUME NEW row \in Row, AddRow(row) PROVE Blocks'
    <2>1. /\ state = "started" /\ state' = state
          /\ doc' = Append(doc, row) /\ row \in Line /\ row # Separator
          /\ currentBlock' = currentBlock /\ InBounds(row)
          /\ table' = [Grown EXCEPT ![currentBlock + 1] = Filled(Grown[currentBlock + 1], row)]
      BY <1>3, SeparatorAssumption DEF AddRow, Reads, Line
    <2>2. doc \in Seq(Line) /\ ~RowAfterEmpty
      BY <2>1 DEF Blocks
    <2>3. /\ doc' \in Seq(Line) /\ Len(doc') = Len(doc) + 1 /\ doc'[Len(doc')] = row
      BY <2>1, <2>2, LineAdded
    <2>4. ~HasEmpty
      BY <2>1, BoundsByBlocks
    <2>5. ~RowAfterEmpty' /\ ~HasEmpty'
      BY <2>1, <2>2, <2>4, BadAdded
    <2>6. Len(table') = currentBlock + 1
      <3>1. Len(Grown) = currentBlock + 1 /\ Grown \in Seq(Seq(Cells))
        BY <2>1, GrownFacts DEF InBounds, IInv
      <3>2. table' \in Seq(Seq(Cells)) /\ Len(table') = Len(Grown)
        <4>1. row \in Cells
          BY RowAssumption DEF Cells
        <4>2. Grown[currentBlock + 1] \in Seq(Cells) /\ currentBlock + 1 \in Nat
          BY <1>0, <3>1
        <4>3. Filled(Grown[currentBlock + 1], row) \in Seq(Cells)
          BY <4>1, <4>2, FilledLength DEF IInv, Shape
        <4> QED
          BY <2>1, <3>1, <4>2, <4>3, Replaced
      <3> QED
        BY <3>1, <3>2
    <2>7. doc' # <<>> /\ Len(doc') > 0
      BY <1>0, <2>3
    <2> QED
      BY <2>1, <2>3, <2>5, <2>6, <2>7 DEF Blocks
  <1>4. ASSUME NEW row \in Row, AddRowBeyond(row) PROVE Blocks'
    <2>1. /\ state = "started" /\ state' = "undefined"
          /\ doc' = Append(doc, row) /\ row \in Line /\ row # Separator
          /\ ~InBounds(row)
      BY <1>4, SeparatorAssumption DEF AddRowBeyond, Reads, Line
    <2>2. doc \in Seq(Line) /\ ~RowAfterEmpty
      BY <2>1 DEF Blocks
    <2>3. doc' \in Seq(Line)
      BY <2>1, <2>2, LineAdded
    <2>4. HasEmpty
      BY <2>1, BoundsByBlocks
    <2>5. RowAfterEmpty'
      BY <2>1, <2>2, <2>4, BadAdded
    <2> QED
      BY <2>1, <2>3, <2>5 DEF Blocks
  <1> QED
    BY <1>1, <1>2, <1>3, <1>4 DEF Next

(* The table is read behind its end for the documents that have a row after *)
(* a block without rows, of any length, and for no others.                  *)
THEOREM BeyondOnlyAfterEmptyHolds == Spec => []BeyondOnlyAfterEmpty
  <1>1. IInv /\ Blocks => BeyondOnlyAfterEmpty
    <2> SUFFICES ASSUME Blocks PROVE BeyondOnlyAfterEmpty
      OBVIOUS
    <2>1. DOMAIN doc = 1..Len(doc)
      BY DEF Blocks
    <2>2. RowAfterEmpty <=> \E i, j \in DOMAIN doc : i < j /\ EmptyBlock(i) /\ j \in RowLines
      BY <2>1, Zenon DEF RowAfterEmpty, RowLines
    <2> QED
      BY <2>2, Zenon DEF Blocks, BeyondOnlyAfterEmpty
  <1>2. Init => IInv /\ Blocks
    BY InvInit, BlocksInit
  <1>3. IInv /\ Blocks /\ [Next]_vars => (IInv /\ Blocks)'
    BY InvStep, BlocksStep
  <1> QED
    BY <1>1, <1>2, <1>3, PTL DEF Spec

-----------------------------------------------------------------------------
Name == {"table", "thead", "tbody", "tfoot", "tr", "th", "td"}
Places == {"thead", "tbody", "tfoot"}

Html == STRING \cup {OpenTag(n) : n \in Name} \cup {CloseTag(n) : n \in Name}

(* The number of the block that line i is in, or would be if it were a row, *)
(* of the document d.                                                       *)
Number(d, i) == Cardinality({j \in 1..i : d[j] = Separator}) + 1

(* It counts the separators one by one ...                                  *)
LEMMA NumberNext ==
    ASSUME NEW d, NEW i \in Nat
    PROVE  /\ Number(d, i) \in Nat
           /\ Number(d, 0) = 1
           /\ Number(d, i + 1) = IF d[i + 1] = Separator THEN Number(d, i) + 1 ELSE Number(d, i)
  <1> DEFINE I(k) == {j \in 1..k : d[j] = Separator}
  <1>1. I(i) \in SUBSET (1..i) /\ IsFiniteSet(1..i)
    BY FS_Interval
  <1>2. IsFiniteSet(I(i)) /\ Cardinality(I(i)) \in Nat
    BY <1>1, FS_Subset, FS_CardinalityType
  <1>3. I(0) = {}
    OBVIOUS
  <1>4. CASE d[i + 1] = Separator
    <2>1. I(i + 1) = I(i) \cup {i + 1} /\ i + 1 \notin I(i)
      BY <1>4
    <2> HIDE DEF I
    <2>2. Cardinality(I(i + 1)) = Cardinality(I(i)) + 1
      BY <1>2, <2>1, FS_AddElement
    <2> QED
      BY <1>2, <1>3, <1>4, <2>2, FS_EmptySet DEF Number, I
  <1>5. CASE d[i + 1] # Separator
    <2>1. I(i + 1) = I(i)
      BY <1>5
    <2> HIDE DEF I
    <2> QED
      BY <1>2, <1>3, <1>5, <2>1, FS_EmptySet DEF Number, I
  <1> QED
    BY <1>4, <1>5

(* ... and does not depend on the lines behind.                             *)
LEMMA NumberSame ==
    ASSUME NEW d, NEW e, NEW i \in Nat, \A j \in 1..i : e[j] = d[j]
    PROVE  Number(e, i) = Number(d, i)
  <1>1. {j \in 1..i : e[j] = Separator} = {j \in 1..i : d[j] = Separator}
    OBVIOUS
  <1> QED
    BY <1>1 DEF Number

(* The tags of an element.                                                  *)
LEMMA TagsType ==
    ASSUME NEW n \in Name
    PROVE  <<OpenTag(n)>> \in Seq(Html) /\ <<CloseTag(n)>> \in Seq(Html)
  <1>1. OpenTag(n) \in Html /\ CloseTag(n) \in Html
    BY DEF Html
  <1> QED
    BY <1>1

(* An element of HTML.                                                      *)
LEMMA TaggedType ==
    ASSUME NEW n \in Name, NEW c \in Seq(Html)
    PROVE  Tagged(n, c) \in Seq(Html)
  <1> DEFINE a == <<OpenTag(n)>>
             z == <<CloseTag(n)>>
  <1>1. a \in Seq(Html) /\ z \in Seq(Html)
    BY TagsType
  <1> HIDE DEF a, z
  <1>2. (a \o c) \o z \in Seq(Html)
    BY <1>1
  <1> QED
    BY <1>2 DEF Tagged, a, z

(* A row's HTML.                                                            *)
LEMMA RowHtmlType ==
    ASSUME NEW row \in Cells, NEW place \in Places
    PROVE  RowHtml(row, place) \in Seq(Html)
  <1> DEFINE cell == IF place = "thead" THEN "th" ELSE "td"
             F == [c \in DOMAIN row |-> Tagged(cell, <<row[c]>>)]
  <1>1. DOMAIN row = 1..Len(row) /\ Len(row) \in Nat /\ \A c \in 1..Len(row) : row[c] \in STRING
    BY DEF Cells
  <1>2. cell \in Name /\ "tr" \in Name
    BY DEF Name
  <1> HIDE DEF cell
  <1>3. ASSUME NEW c \in 1..Len(row) PROVE Tagged(cell, <<row[c]>>) \in Seq(Html)
    <2>1. row[c] \in Html
      BY <1>1 DEF Html
    <2>2. <<row[c]>> \in Seq(Html)
      BY <2>1
    <2> QED
      BY <1>2, <2>2, TaggedType
  <1>4. F \in [1..Len(row) -> Seq(Html)]
    BY <1>1, <1>3
  <1> HIDE DEF F
  <1>5. F \in Seq(Seq(Html))
    BY <1>1, <1>4
  <1>6. FlattenSeq(F) \in Seq(Html)
    BY <1>5, FlattenType
  <1>7. Tagged("tr", FlattenSeq(F)) \in Seq(Html)
    BY <1>2, <1>6, TaggedType
  <1> QED
    BY <1>7 DEF RowHtml, F, cell

(* The rows of a block ...                                                  *)
RowsHtml(block, place) ==
    FlattenSeq([r \in DOMAIN block |-> RowHtml(block[r], place)])

(* ... one by one.                                                          *)
LEMMA RowsMore ==
    ASSUME NEW block \in Seq(Cells), NEW row \in Cells, NEW place \in Places
    PROVE  /\ RowsHtml(block, place) \in Seq(Html)
           /\ RowsHtml(Append(block, row), place)
                  = RowsHtml(block, place) \o RowHtml(row, place)
  <1> DEFINE n == Len(block)
             more == Append(block, row)
             g == [r \in DOMAIN block |-> RowHtml(block[r], place)]
             h == [r \in DOMAIN more |-> RowHtml(more[r], place)]
  <1>1. /\ n \in Nat /\ DOMAIN block = 1..n /\ \A r \in 1..n : block[r] \in Cells
        /\ DOMAIN more = 1..n + 1 /\ more[n + 1] = row /\ \A r \in 1..n : more[r] = block[r]
    OBVIOUS
  <1> HIDE DEF n, more
  <1>2. \A r \in 1..n + 1 : more[r] \in Cells
    BY <1>1
  <1>3. g \in [1..n -> Seq(Html)] /\ h \in [1..n + 1 -> Seq(Html)]
        /\ h[n + 1] = RowHtml(row, place) /\ \A r \in 1..n : h[r] = g[r]
    <2>1. \A r \in 1..n + 1 : RowHtml(more[r], place) \in Seq(Html)
      BY <1>2, RowHtmlType
    <2>2. \A r \in 1..n : RowHtml(block[r], place) \in Seq(Html)
      BY <1>1, RowHtmlType
    <2>3. n + 1 \in 1..n + 1 /\ \A r \in 1..n : r \in 1..n + 1
      BY <1>1
    <2> QED
      BY <1>1, <2>1, <2>2, <2>3
  <1> HIDE DEF g, h
  <1>4. OnePart(g, h, n) /\ FlattenSeq(g) \in Seq(Html)
    BY <1>1, <1>3, OnePartMore, Zenon
  <1> QED
    BY <1>3, <1>4 DEF OnePart, RowsHtml, g, h, more

(* The first n blocks of a table, with the names of their elements in p ... *)
BlocksHtml(blocks, n, p) ==
    FlattenSeq([b \in 1..n |-> Tagged(p[b], RowsHtml(blocks[b], p[b]))])

(* ... one by one.                                                          *)
LEMMA BlocksMore ==
    ASSUME NEW n \in Nat, NEW old, NEW new, NEW p \in [Nat -> Places],
           \A b \in 1..n : old[b] = new[b], \A b \in 1..n + 1 : new[b] \in Seq(Cells)
    PROVE  /\ BlocksHtml(old, n, p) \in Seq(Html)
           /\ BlocksHtml(new, n + 1, p)
                  = BlocksHtml(old, n, p) \o Tagged(p[n + 1], RowsHtml(new[n + 1], p[n + 1]))
  <1> DEFINE E(b) == Tagged(p[b], RowsHtml(new[b], p[b]))
             g == [b \in 1..n |-> Tagged(p[b], RowsHtml(old[b], p[b]))]
             h == [b \in 1..n + 1 |-> E(b)]
  <1>1. ASSUME NEW b \in 1..n + 1 PROVE E(b) \in Seq(Html)
    <2>1. p[b] \in Places /\ p[b] \in Name /\ new[b] \in Seq(Cells) /\ <<>> \in Cells
      BY DEF Places, Name, Cells
    <2>2. RowsHtml(new[b], p[b]) \in Seq(Html)
      BY <2>1, RowsMore
    <2> QED
      BY <2>1, <2>2, TaggedType
  <1>2. \A b \in 1..n : Tagged(p[b], RowsHtml(old[b], p[b])) = E(b)
    OBVIOUS
  <1> HIDE DEF E
  <1>3. n + 1 \in 1..n + 1 /\ \A b \in 1..n : b \in 1..n + 1
    OBVIOUS
  <1>4. /\ g \in [1..n -> Seq(Html)] /\ h \in [1..n + 1 -> Seq(Html)]
        /\ h[n + 1] = E(n + 1) /\ \A b \in 1..n : h[b] = g[b]
    BY <1>1, <1>2, <1>3
  <1> HIDE DEF g, h
  <1>5. OnePart(g, h, n) /\ FlattenSeq(g) \in Seq(Html)
    BY <1>4, OnePartMore, Zenon
  <1>6. BlocksHtml(old, n, p) = FlattenSeq(g) /\ BlocksHtml(new, n + 1, p) = FlattenSeq(h)
    BY DEF BlocksHtml, g, h, E
  <1> QED
    BY <1>4, <1>5, <1>6 DEF OnePart, E

-----------------------------------------------------------------------------
(* The HTML of a document written while it is read: a row opens the element *)
(* of its block if nothing or a separator is before it, and a separator     *)
(* closes that of the row before it.  p names the elements, which are not   *)
(* known before the last block.                                             *)
IsRow(d, i) == d[i] # Separator

Opening(d, p, i) ==
    IF i = 1 \/ ~IsRow(d, i - 1) THEN <<OpenTag(p[Number(d, i)])>> ELSE <<>>

Closing(d, p, i) ==
    IF i # 1 /\ IsRow(d, i - 1) THEN <<CloseTag(p[Number(d, i - 1)])>> ELSE <<>>

Piece(d, p, i) ==
    IF IsRow(d, i) THEN Opening(d, p, i) \o RowHtml(d[i], p[Number(d, i)])
                   ELSE Closing(d, p, i)

Written(d, p, k) == FlattenSeq([i \in 1..k |-> Piece(d, p, i)])

(* A piece is HTML.                                                         *)
LEMMA PieceType ==
    ASSUME NEW d, NEW p \in [Nat -> Places], NEW i \in Nat \ {0}, IsRow(d, i) => d[i] \in Cells
    PROVE  Piece(d, p, i) \in Seq(Html) /\ Opening(d, p, i) \in Seq(Html)
  <1>1. Number(d, i) \in Nat /\ Number(d, i - 1) \in Nat
    <2>1. i \in Nat /\ i - 1 \in Nat
      OBVIOUS
    <2> QED
      BY <2>1, NumberNext, Zenon
  <1>2. \A n \in Nat : p[n] \in Places /\ p[n] \in Name
    BY DEF Places, Name
  <1>3. <<>> \in Seq(Html)
    OBVIOUS
  <1>4. Opening(d, p, i) \in Seq(Html) /\ Closing(d, p, i) \in Seq(Html)
    <2>1. /\ <<OpenTag(p[Number(d, i)])>> \in Seq(Html)
          /\ <<CloseTag(p[Number(d, i - 1)])>> \in Seq(Html)
      BY <1>1, <1>2, TagsType, Zenon
    <2> QED
      BY <1>3, <2>1, Zenon DEF Opening, Closing
  <1>5. CASE IsRow(d, i)
    <2>1. RowHtml(d[i], p[Number(d, i)]) \in Seq(Html)
      BY <1>1, <1>2, <1>5, RowHtmlType, Zenon
    <2> DEFINE a == Opening(d, p, i)
               b == RowHtml(d[i], p[Number(d, i)])
    <2>2. a \in Seq(Html) /\ b \in Seq(Html) /\ Piece(d, p, i) = a \o b
      BY <1>4, <1>5, <2>1 DEF Piece
    <2> HIDE DEF a, b
    <2>3. Piece(d, p, i) \in Seq(Html)
      BY <2>2
    <2> QED
      BY <1>4, <2>3
  <1>6. CASE ~IsRow(d, i)
    BY <1>4, <1>6 DEF Piece
  <1> QED
    BY <1>5, <1>6

WritesOn(d, e, p, k) == Written(e, p, k + 1) = Written(d, p, k) \o Piece(e, p, k + 1)

(* What is written of the lines before does not depend on the next.         *)
LEMMA WrittenMore ==
    ASSUME NEW d, NEW e, NEW p \in [Nat -> Places], NEW k \in Nat,
           \A i \in 1..k : e[i] = d[i],
           \A i \in 1..k + 1 : IsRow(e, i) => e[i] \in Cells
    PROVE  WritesOn(d, e, p, k) /\ Written(d, p, k) \in Seq(Html)
  <1> DEFINE g == [i \in 1..k |-> Piece(d, p, i)]
             h == [i \in 1..k + 1 |-> Piece(e, p, i)]
  <1>1. ASSUME NEW i \in 1..k PROVE Piece(d, p, i) = Piece(e, p, i)
    <2>1. e[i] = d[i] /\ (i # 1 => e[i - 1] = d[i - 1])
      OBVIOUS
    <2>2. Number(e, i) = Number(d, i) /\ Number(e, i - 1) = Number(d, i - 1)
      <3>1. i \in Nat /\ i - 1 \in Nat
        OBVIOUS
      <3>2. (\A j \in 1..i : e[j] = d[j]) /\ (\A j \in 1..i - 1 : e[j] = d[j])
        OBVIOUS
      <3> QED
        BY <3>1, <3>2, NumberSame, Zenon
    <2> QED
      BY <2>1, <2>2, Zenon DEF Piece, Opening, Closing, IsRow
  <1>2. \A i \in 1..k + 1 : Piece(e, p, i) \in Seq(Html)
    <2> SUFFICES ASSUME NEW i \in 1..k + 1 PROVE Piece(e, p, i) \in Seq(Html)
      OBVIOUS
    <2>1. i \in Nat \ {0}
      OBVIOUS
    <2> QED
      BY <2>1, PieceType
  <1>3. k + 1 \in 1..k + 1 /\ \A i \in 1..k : i \in 1..k + 1
    OBVIOUS
  <1>4. /\ g \in [1..k -> Seq(Html)] /\ h \in [1..k + 1 -> Seq(Html)]
        /\ h[k + 1] = Piece(e, p, k + 1) /\ \A i \in 1..k : h[i] = g[i]
    BY <1>1, <1>2, <1>3
  <1> HIDE DEF g, h
  <1>5. OnePart(g, h, k) /\ FlattenSeq(g) \in Seq(Html)
    BY <1>4, OnePartMore, Zenon
  <1>6. Written(d, p, k) = FlattenSeq(g) /\ Written(e, p, k + 1) = FlattenSeq(h)
    BY DEF Written, g, h
  <1> QED
    BY <1>4, <1>5, <1>6 DEF OnePart, WritesOn

(* Of nothing, nothing.                                                     *)
LEMMA WrittenNone ==
    ASSUME NEW d, NEW p
    PROVE  Written(d, p, 0) = <<>> /\ BlocksHtml(<<>>, 0, p) = <<>>
  <1>1. [i \in 1..0 |-> Piece(d, p, i)] = <<>>
    OBVIOUS
  <1>2. [b \in 1..0 |-> Tagged(p[b], RowsHtml(<<>>[b], p[b]))] = <<>>
    OBVIOUS
  <1> QED
    BY <1>1, <1>2, FlattenEmpty, Zenon DEF Written, BlocksHtml

LastIsRow == Len(doc) > 0 /\ IsRow(doc, Len(doc))

(* What is written of the document is its table: all its blocks, or all but *)
(* the last, which is open, and the rows of that one.                       *)
WrittenIsTable(p) ==
    Written(doc, p, Len(doc)) =
        IF LastIsRow
          THEN BlocksHtml(table, currentBlock, p) \o
                 (<<OpenTag(p[currentBlock + 1])>>
                    \o RowsHtml(table[currentBlock + 1], p[currentBlock + 1]))
          ELSE BlocksHtml(table, Len(table), p)

(* The last block that has a row is the last of the table.                  *)
LastBlock ==
    \/ Len(table) = 0 /\ \A i \in 1..Len(doc) : ~IsRow(doc, i)
    \/ \E m \in 1..Len(doc) :
          /\ IsRow(doc, m) /\ Number(doc, m) = Len(table)
          /\ \A i \in 1..Len(doc) : IsRow(doc, i) => i <= m

Prints ==
    /\ state # "undefined" =>
         /\ currentBlock + 1 = Number(doc, Len(doc))
         /\ LastBlock
         /\ \A p \in [Nat -> Places] : WrittenIsTable(p)
    /\ state = "finished" =>
         result = Tagged("table", FlattenSeq([b \in DOMAIN table |-> BlockHtml(b)]))

(* The document and the table are empty at first.                           *)
LEMMA PrintsInit == Init => Prints
  <1> SUFFICES ASSUME Init PROVE Prints
    OBVIOUS
  <1>1. /\ doc = <<>> /\ Len(doc) = 0 /\ table = <<>> /\ Len(table) = 0
        /\ currentBlock = 0 /\ state = "new"
    BY DEF Init
  <1>2. Number(doc, 0) = 1
    BY NumberNext
  <1>3. LastBlock
    BY <1>1 DEF LastBlock
  <1>4. ASSUME NEW p PROVE WrittenIsTable(p)
    <2>1. ~LastIsRow
      BY <1>1 DEF LastIsRow
    <2> QED
      BY <1>1, <2>1, WrittenNone DEF WrittenIsTable
  <1> QED
    BY <1>1, <1>2, <1>3, <1>4 DEF Prints

(* What a line more leaves of the document.                                 *)
LEMMA NumbersAdded ==
    ASSUME doc \in Seq(Line), NEW l \in Line, doc' = Append(doc, l), NEW n, n = Len(doc)
    PROVE  /\ n \in Nat /\ Len(doc') = n + 1 /\ doc'[n + 1] = l
           /\ \A i \in 1..n : doc'[i] = doc[i]
           /\ \A i \in 0..n : Number(doc', i) = Number(doc, i)
           /\ Number(doc, n) \in Nat
           /\ Number(doc', n + 1) = IF l = Separator THEN Number(doc, n) + 1 ELSE Number(doc, n)
           /\ \A i \in 1..n + 1 : IsRow(doc', i) => doc'[i] \in Cells
  <1>1. /\ n \in Nat /\ Len(doc') = n + 1 /\ doc'[n + 1] = l
        /\ \A i \in 1..n : doc'[i] = doc[i] /\ doc[i] \in Line
    OBVIOUS
  <1>2. ASSUME NEW i \in 0..n PROVE Number(doc', i) = Number(doc, i)
    <2>1. i \in Nat /\ \A j \in 1..i : doc'[j] = doc[j]
      BY <1>1
    <2> QED
      BY <2>1, NumberSame
  <1>3. n \in 0..n
    BY <1>1
  <1>4. /\ Number(doc, n) \in Nat
        /\ Number(doc', n + 1) = IF l = Separator THEN Number(doc, n) + 1 ELSE Number(doc, n)
    <2>1. /\ Number(doc', n + 1) = IF doc'[n + 1] = Separator THEN Number(doc', n) + 1
                                                             ELSE Number(doc', n)
          /\ Number(doc, n) \in Nat
      BY <1>1, NumberNext
    <2> QED
      BY <1>1, <1>2, <1>3, <2>1
  <1>5. ASSUME NEW i \in 1..n + 1, IsRow(doc', i) PROVE doc'[i] \in Cells
    <2>1. doc'[i] \in Line
      <3>1. i = n + 1 \/ i \in 1..n
        BY <1>1
      <3> QED
        BY <1>1, <3>1
    <2> QED
      BY <1>5, <2>1, RowAssumption DEF IsRow, Line, Cells
  <1> QED
    BY <1>1, <1>2, <1>4, <1>5

(* A separator closes the block of the row before it.                       *)
LEMMA SeparatorPrints ==
    ASSUME IInv, Blocks, Prints, AddSeparator
    PROVE  Prints'
  <1> DEFINE n == Len(doc)
  <1>1. /\ state = "started" /\ state' = "started" /\ doc' = Append(doc, Separator)
        /\ Separator \in Line /\ table' = table /\ currentBlock' = currentBlock + 1
        /\ doc \in Seq(Line)
    BY DEF AddSeparator, Reads, NewBlock, Line, Blocks
  <1>2. /\ n \in Nat /\ Len(doc') = n + 1 /\ doc'[n + 1] = Separator
        /\ \A i \in 1..n : doc'[i] = doc[i]
        /\ \A i \in 0..n : Number(doc', i) = Number(doc, i)
        /\ Number(doc, n) \in Nat /\ Number(doc', n + 1) = Number(doc, n) + 1
        /\ \A i \in 1..n + 1 : IsRow(doc', i) => doc'[i] \in Cells
    <2>1. Separator \in Line /\ n = Len(doc)
      BY <1>1
    <2> HIDE DEF n
    <2> QED
      BY <1>1, <2>1, NumbersAdded
  <1>3. /\ currentBlock + 1 = Number(doc, n) /\ currentBlock \in Nat
        /\ Len(table) \in Nat /\ table \in Seq(Seq(Cells))
    BY <1>1 DEF Prints, IInv, Shape
  <1>4. ~LastIsRow' /\ ~IsRow(doc', n + 1)
    BY <1>2 DEF LastIsRow, IsRow
  <1>5. LastIsRow => Len(table) = currentBlock + 1
    BY <1>1 DEF LastIsRow, IsRow, Blocks
  <1>6. LastBlock'
    <2>1. LastBlock
      BY <1>1 DEF Prints
    <2>2. \A i \in 1..n : IsRow(doc', i) <=> IsRow(doc, i)
      BY <1>2 DEF IsRow
    <2>3. \A i \in 1..n + 1 : IsRow(doc', i) => i \in 1..n /\ IsRow(doc, i)
      BY <1>2, <1>4, <2>2
    <2>4. CASE Len(table) = 0 /\ \A i \in 1..n : ~IsRow(doc, i)
      BY <1>1, <1>2, <2>3, <2>4 DEF LastBlock
    <2>5. CASE \E m \in 1..n : /\ IsRow(doc, m) /\ Number(doc, m) = Len(table)
                               /\ \A i \in 1..n : IsRow(doc, i) => i <= m
      <3>1. PICK m \in 1..n : /\ IsRow(doc, m) /\ Number(doc, m) = Len(table)
                              /\ \A i \in 1..n : IsRow(doc, i) => i <= m
        BY <2>5
      <3>2. m \in 1..n + 1 /\ m \in 0..n
        BY <1>2
      <3>3. IsRow(doc', m) /\ Number(doc', m) = Len(table')
        BY <1>1, <1>2, <2>2, <3>1, <3>2
      <3>4. \A i \in 1..n + 1 : IsRow(doc', i) => i <= m
        BY <2>3, <3>1
      <3> QED
        BY <1>2, <3>2, <3>3, <3>4 DEF LastBlock
    <2> QED
      BY <2>1, <2>4, <2>5 DEF LastBlock
  <1>7. ASSUME NEW p \in [Nat -> Places] PROVE WrittenIsTable(p)'
    <2>1. WrittenIsTable(p)
      BY <1>1 DEF Prints
    <2>2. WritesOn(doc, doc', p, n) /\ Written(doc, p, n) \in Seq(Html)
      <3> HIDE DEF n
      <3> QED
        BY <1>2, WrittenMore
    <2>3. Piece(doc', p, n + 1)
              = IF LastIsRow THEN <<CloseTag(p[currentBlock + 1])>> ELSE <<>>
      <3>1. Piece(doc', p, n + 1) = Closing(doc', p, n + 1)
        BY <1>4 DEF Piece
      <3>2. (n + 1) - 1 = n /\ n \in 0..n /\ (n + 1 # 1 <=> n > 0)
        BY <1>2
      <3>3. n > 0 => (IsRow(doc', n) <=> IsRow(doc, n))
        BY <1>2 DEF IsRow
      <3>4. (n + 1 # 1 /\ IsRow(doc', (n + 1) - 1)) <=> LastIsRow
        BY <3>2, <3>3 DEF LastIsRow
      <3>5. Number(doc', (n + 1) - 1) = currentBlock + 1
        BY <1>2, <1>3, <3>2
      <3> QED
        BY <3>1, <3>4, <3>5, Zenon DEF Closing
    <2>4. Written(doc', p, n + 1) = BlocksHtml(table, Len(table), p)
      <3>1. CASE LastIsRow
        <4> DEFINE c == currentBlock
                   B == BlocksHtml(table, c, p)
                   o == <<OpenTag(p[c + 1])>>
                   r == RowsHtml(table[c + 1], p[c + 1])
                   z == <<CloseTag(p[c + 1])>>
        <4>1. c \in Nat /\ Len(table) = c + 1 /\ c + 1 \in 1..c + 1 /\ c + 1 \in Nat
          BY <1>3, <1>5, <3>1
        <4>2. \A b \in 1..c + 1 : table[b] \in Seq(Cells)
          BY <1>3, <4>1
        <4>3. /\ B \in Seq(Html)
              /\ BlocksHtml(table, c + 1, p) = B \o Tagged(p[c + 1], r)
          <5>1. \A b \in 1..c : table[b] = table[b]
            OBVIOUS
          <5> HIDE DEF c
          <5> QED
            BY <4>1, <4>2, <5>1, BlocksMore
        <4>4. p[c + 1] \in Places /\ p[c + 1] \in Name
          BY <4>1 DEF Places, Name
        <4>5. o \in Seq(Html) /\ z \in Seq(Html)
          BY <4>4, TagsType
        <4>6. r \in Seq(Html)
          <5>1. <<>> \in Cells /\ table[c + 1] \in Seq(Cells)
            BY <4>1, <4>2 DEF Cells
          <5> QED
            BY <4>4, <5>1, RowsMore
        <4>7. Written(doc', p, n + 1) = (B \o (o \o r)) \o z
          BY <2>1, <2>2, <2>3, <3>1, Zenon DEF WrittenIsTable, WritesOn
        <4>8. Tagged(p[c + 1], r) = (o \o r) \o z
          BY DEF Tagged
        <4> HIDE DEF B, o, r, z, c
        <4>9. o \o r \in Seq(Html)
          BY <4>5, <4>6
        <4>10. Regroups(B, o \o r, z)
          BY <4>3, <4>5, <4>9, Regroup, Zenon
        <4> QED
          BY <4>1, <4>3, <4>7, <4>8, <4>10, Zenon DEF Regroups
      <3>2. CASE ~LastIsRow
        <4>1. Written(doc', p, n + 1) = Written(doc, p, n) \o <<>>
          BY <2>2, <2>3, <3>2, Zenon DEF WritesOn
        <4>2. Written(doc, p, n) \o <<>> = Written(doc, p, n)
          BY <2>2
        <4>3. Written(doc, p, n) = BlocksHtml(table, Len(table), p)
          BY <2>1, <3>2 DEF WrittenIsTable
        <4> QED
          BY <4>1, <4>2, <4>3
      <3> QED
        BY <3>1, <3>2
    <2> QED
      BY <1>1, <1>2, <1>4, <2>4, Zenon DEF WrittenIsTable
  <1>8. currentBlock' + 1 = Number(doc', Len(doc'))
    BY <1>1, <1>2, <1>3
  <1> QED
    BY <1>1, <1>6, <1>7, <1>8 DEF Prints

(* A row is appended to its block, which it opens if it is the first there. *)
LEMMA RowGoesLast ==
    ASSUME IInv, Blocks, NEW row \in Row, AddRow(row)
    PROVE  /\ Len(table') = currentBlock + 1
           /\ table' \in Seq(Seq(Cells))
           /\ \A b \in 1..currentBlock : table'[b] = table[b]
           /\ IF LastIsRow
                THEN table'[currentBlock + 1] = Append(table[currentBlock + 1], row)
                ELSE table'[currentBlock + 1] = Append(<<>>, row) /\ Len(table) = currentBlock
           /\ LastIsRow => Len(table) = currentBlock + 1
  <1> DEFINE c == currentBlock
             block == Grown[c + 1]
  <1>1. /\ state = "started" /\ InBounds(row) /\ row \in Cells
        /\ c \in Nat /\ table \in Seq(Seq(Cells)) /\ currentRow \in Nat
        /\ table' = [Grown EXCEPT ![c + 1] = Filled(block, row)]
    BY RowAssumption DEF AddRow, Reads, IInv, Shape, Cells
  <1>2. ~HasEmpty
    BY <1>1, BoundsByBlocks
  <1>3. /\ Grown \in Seq(Seq(Cells)) /\ Len(Grown) = c + 1 /\ Len(block) = currentRow
    BY <1>1, GrownFacts DEF InBounds, IInv
  <1>4. block \in Seq(Cells) /\ c + 1 \in 1..Len(Grown)
    BY <1>1, <1>3
  <1>5. IF LastIsRow THEN Len(table) = c + 1 ELSE Len(table) = c
    <2>1. doc \in Seq(Line) /\ (doc = <<>> \/ Len(doc) > 0)
      BY DEF Blocks
    <2> QED
      BY <1>1, <1>2, <2>1 DEF Blocks, LastIsRow, IsRow
  <1>6. IF LastIsRow THEN Grown = table ELSE Grown = Append(table, <<>>)
    BY <1>1, <1>5 DEF Grown
  <1>7. Filled(block, row) = Append(block, row)
    <2> DEFINE longer == Append(block, <<>>)
    <2>1. <<>> \in Cells
      BY DEF Cells
    <2>2. /\ longer \in Seq(Cells) /\ Len(longer) = currentRow + 1
          /\ longer[currentRow + 1] = <<>> /\ \A r \in 1..currentRow : longer[r] = block[r]
      BY <1>3, <1>4, <2>1
    <2>3. Filled(block, row) = [longer EXCEPT ![currentRow + 1] = longer[currentRow + 1] \o row]
      BY DEF Filled
    <2>4. longer[currentRow + 1] \o row = row
      BY <1>1, <2>2 DEF Cells
    <2> HIDE DEF longer
    <2> DEFINE f == [longer EXCEPT ![currentRow + 1] = row]
               a == Append(block, row)
    <2>5. f \in Seq(Cells) /\ Len(f) = currentRow + 1 /\ f[currentRow + 1] = row
          /\ \A r \in 1..currentRow : f[r] = block[r]
      BY <1>1, <2>2
    <2>6. a \in Seq(Cells) /\ Len(a) = currentRow + 1 /\ a[currentRow + 1] = row
          /\ \A r \in 1..currentRow : a[r] = block[r]
      BY <1>1, <1>3, <1>4
    <2> HIDE DEF f, a
    <2>7. \A r \in 1..Len(f) : f[r] = a[r]
      <3>1. \A r \in 1..currentRow + 1 : r = currentRow + 1 \/ r \in 1..currentRow
        BY <1>1
      <3> QED
        BY <2>5, <2>6, <3>1
    <2>8. f = a
      BY <2>5, <2>6, <2>7, SeqEqual
    <2> QED
      BY <2>3, <2>4, <2>8 DEF f, a
  <1>8. Append(block, row) \in Seq(Cells)
    BY <1>1, <1>4
  <1>9. /\ table' \in Seq(Seq(Cells)) /\ Len(table') = c + 1
        /\ table'[c + 1] = Append(block, row)
        /\ \A b \in 1..c : table'[b] = Grown[b]
    <2> HIDE DEF c, block
    <2> QED
      BY <1>1, <1>3, <1>4, <1>7, <1>8
  <1>10. \A b \in 1..c : Grown[b] = table[b]
    <2>1. CASE LastIsRow
      BY <1>6, <2>1
    <2>2. CASE ~LastIsRow
      <3> DEFINE g == Append(table, <<>>)
      <3>1. \A b \in 1..Len(table) : g[b] = table[b]
        BY <1>1
      <3>2. Grown = g /\ Len(table) = c
        BY <1>5, <1>6, <2>2
      <3> QED
        BY <3>1, <3>2
    <2> QED
      BY <2>1, <2>2
  <1>11. block = IF LastIsRow THEN table[c + 1] ELSE <<>>
    BY <1>1, <1>5, <1>6
  <1> QED
    BY <1>5, <1>9, <1>10, <1>11

(* A row is written behind the rows of its block, or opens a block.         *)
LEMMA RowPrints ==
    ASSUME IInv, Blocks, Prints, NEW row \in Row, AddRow(row)
    PROVE  Prints'
  <1> DEFINE n == Len(doc)
             c == currentBlock
  <1>1. /\ state = "started" /\ state' = "started" /\ doc' = Append(doc, row)
        /\ row \in Line /\ row # Separator /\ row \in Cells /\ currentBlock' = c
        /\ doc \in Seq(Line)
    BY RowAssumption, SeparatorAssumption DEF AddRow, Reads, Line, Blocks, Cells
  <1>2. /\ n \in Nat /\ Len(doc') = n + 1 /\ doc'[n + 1] = row
        /\ \A i \in 1..n : doc'[i] = doc[i]
        /\ Number(doc, n) \in Nat /\ Number(doc', n + 1) = Number(doc, n)
        /\ \A i \in 1..n + 1 : IsRow(doc', i) => doc'[i] \in Cells
    <2>1. n = Len(doc)
      OBVIOUS
    <2> HIDE DEF n
    <2> QED
      BY <1>1, <2>1, NumbersAdded
  <1>3. /\ c + 1 = Number(doc, n) /\ c \in Nat
        /\ Len(table) \in Nat /\ table \in Seq(Seq(Cells))
    BY <1>1 DEF Prints, IInv, Shape
  <1>4. LastIsRow' /\ IsRow(doc', n + 1)
    BY <1>1, <1>2 DEF LastIsRow, IsRow
  <1>5. /\ Len(table') = c + 1
        /\ table' \in Seq(Seq(Cells))
        /\ \A b \in 1..c : table'[b] = table[b]
        /\ IF LastIsRow
             THEN table'[c + 1] = Append(table[c + 1], row)
             ELSE table'[c + 1] = Append(<<>>, row) /\ Len(table) = c
        /\ LastIsRow => Len(table) = c + 1
    BY RowGoesLast, Zenon
  <1>6. LastBlock'
    <2>1. n + 1 \in 1..n + 1 /\ Number(doc', n + 1) = Len(table')
      BY <1>2, <1>3, <1>5
    <2>2. \A i \in 1..n + 1 : i <= n + 1
      OBVIOUS
    <2> QED
      BY <1>2, <1>4, <2>1, <2>2, Zenon DEF LastBlock
  <1>7. ASSUME NEW p \in [Nat -> Places] PROVE WrittenIsTable(p)'
    <2> DEFINE W == Written(doc, p, n)
               B == BlocksHtml(table, c, p)
               q == p[c + 1]
               o == <<OpenTag(q)>>
               h == RowHtml(row, q)
    <2>1. WrittenIsTable(p)
      BY <1>1 DEF Prints
    <2>2. WritesOn(doc, doc', p, n) /\ W \in Seq(Html)
      <3> HIDE DEF n
      <3> QED
        BY <1>2, WrittenMore
    <2>3. q \in Places /\ q \in Name
      BY <1>3 DEF Places, Name
    <2>4. o \in Seq(Html) /\ h \in Seq(Html) /\ B \in Seq(Html)
      <3>1. o \in Seq(Html) /\ h \in Seq(Html)
        BY <1>1, <2>3, TagsType, RowHtmlType
      <3>2. \A b \in 1..c + 1 : table'[b] \in Seq(Cells)
        BY <1>5
      <3>3. \A b \in 1..c : table[b] = table'[b]
        BY <1>5
      <3> HIDE DEF c
      <3>4. B \in Seq(Html)
        BY <1>3, <3>2, <3>3, BlocksMore
      <3> QED
        BY <3>1, <3>4
    <2>5. BlocksHtml(table', c, p) = B
      BY <1>5, Zenon DEF BlocksHtml
    <2>6. Written(doc', p, n + 1) = W \o (Opening(doc', p, n + 1) \o h)
      <3>1. Piece(doc', p, n + 1) = Opening(doc', p, n + 1) \o h
        BY <1>2, <1>3, <1>4 DEF Piece
      <3> QED
        BY <2>2, <3>1 DEF WritesOn
    <2>7. Opening(doc', p, n + 1) = IF LastIsRow THEN <<>> ELSE o
      <3>1. (n + 1) - 1 = n /\ (n + 1 = 1 <=> ~(n > 0))
        BY <1>2
      <3>2. n > 0 => (IsRow(doc', n) <=> IsRow(doc, n))
        BY <1>2 DEF IsRow
      <3>3. (n + 1 = 1 \/ ~IsRow(doc', (n + 1) - 1)) <=> ~LastIsRow
        BY <3>1, <3>2 DEF LastIsRow
      <3>4. Number(doc', n + 1) = c + 1
        BY <1>2, <1>3
      <3> QED
        BY <3>3, <3>4, Zenon DEF Opening
    <2> DEFINE R == RowsHtml(table'[c + 1], q)
    <2>8. Written(doc', p, n + 1) = B \o (o \o R)
      <3>1. CASE LastIsRow
        <4> DEFINE r == RowsHtml(table[c + 1], q)
        <4>1. r \in Seq(Html) /\ R = r \o h
          <5>1. table[c + 1] \in Seq(Cells) /\ table'[c + 1] = Append(table[c + 1], row)
            BY <1>3, <1>5, <3>1
          <5> QED
            BY <1>1, <2>3, <5>1, RowsMore
        <4>2. W = B \o (o \o r)
          BY <2>1, <3>1 DEF WrittenIsTable
        <4> HIDE DEF W, B, o, h, r, R, q, c, n
        <4>3. Written(doc', p, n + 1) = (B \o (o \o r)) \o h
          <5>1. <<>> \o h = h
            BY <2>4
          <5> QED
            BY <2>6, <2>7, <3>1, <4>2, <5>1, Zenon
        <4>4. o \o r \in Seq(Html)
          BY <2>4, <4>1
        <4>5. Regroups(B, o \o r, h) /\ Regroups(o, r, h)
          BY <2>4, <4>1, <4>4, Regroup, Zenon
        <4> QED
          BY <4>1, <4>3, <4>5, Zenon DEF Regroups
      <3>2. CASE ~LastIsRow
        <4>1. R = h
          <5>1. <<>> \in Seq(Cells) /\ table'[c + 1] = Append(<<>>, row)
            BY <1>5, <3>2
          <5>2. RowsHtml(Append(<<>>, row), q) = RowsHtml(<<>>, q) \o h
            BY <1>1, <2>3, <5>1, RowsMore
          <5>3. RowsHtml(<<>>, q) = <<>>
            <6>1. [r \in DOMAIN <<>> |-> RowHtml(<<>>[r], q)] = <<>>
              OBVIOUS
            <6> QED
              BY <6>1, FlattenEmpty, Zenon DEF RowsHtml
          <5>4. <<>> \o h = h
            BY <2>4
          <5> QED
            BY <5>1, <5>2, <5>3, <5>4, Zenon
        <4>2. W = B
          BY <1>5, <2>1, <3>2 DEF WrittenIsTable
        <4> QED
          BY <2>6, <2>7, <3>2, <4>1, <4>2, Zenon
      <3> QED
        BY <3>1, <3>2
    <2> QED
      BY <1>1, <1>2, <1>4, <2>5, <2>8, Zenon DEF WrittenIsTable
  <1>8. currentBlock' + 1 = Number(doc', Len(doc'))
    BY <1>1, <1>2, <1>3
  <1> QED
    BY <1>1, <1>6, <1>7, <1>8 DEF Prints

(* No step prints something else.                                           *)
LEMMA PrintsStep == IInv /\ Blocks /\ Prints /\ [Next]_vars => Prints'
  <1> SUFFICES ASSUME IInv, Blocks, Prints, [Next]_vars PROVE Prints'
    OBVIOUS
  <1>1. ASSUME UNCHANGED <<doc, table, currentBlock>>, state # "undefined",
               state' # "undefined",
               state' = "finished" =>
                  result' = Tagged("table", FlattenSeq([b \in DOMAIN table |-> BlockHtml(b)]))
        PROVE  Prints'
    <2>1. LastBlock' <=> LastBlock
      BY <1>1, Zenon DEF LastBlock
    <2>2. \A p : WrittenIsTable(p)' <=> WrittenIsTable(p)
      BY <1>1, Zenon DEF WrittenIsTable, LastIsRow
    <2>3. [b \in DOMAIN table |-> BlockHtml(b)]' = [b \in DOMAIN table |-> BlockHtml(b)]
      <3>1. table' = table
        BY <1>1
      <3>2. ASSUME NEW b PROVE BlockHtml(b)' = BlockHtml(b)
        <4>1. Section(b)' = Section(b)
          BY <3>1, Zenon DEF Section, HasFooter
        <4> QED
          BY <3>1, <4>1, Zenon DEF BlockHtml
      <3> QED
        BY <3>1, <3>2, Zenon
    <2> QED
      BY <1>1, <2>1, <2>2, <2>3, Zenon DEF Prints
  <1>2. CASE Start
    <2>1. /\ UNCHANGED <<doc, table, currentBlock>>
          /\ state # "undefined" /\ state' # "undefined" /\ state' # "finished"
      BY <1>2 DEF Start
    <2> QED
      BY <1>1, <2>1
  <1>3. CASE AddSeparator
    BY <1>3, SeparatorPrints
  <1>4. CASE End
    BY <1>1, <1>4 DEF End
  <1>5. ASSUME NEW row \in Row, AddRow(row) PROVE Prints'
    BY <1>5, RowPrints
  <1>6. ASSUME NEW row \in Row, AddRowBeyond(row) PROVE Prints'
    BY <1>6 DEF AddRowBeyond, Prints
  <1>7. CASE UNCHANGED vars
    <2>1. CASE state = "undefined"
      BY <1>7, <2>1 DEF Prints, vars
    <2>2. CASE state # "undefined"
      <3>1. /\ UNCHANGED <<doc, table, currentBlock>>
            /\ state' # "undefined" /\ state' = state /\ result' = result
        BY <1>7, <2>2 DEF vars
      <3> QED
        BY <1>1, <2>2, <3>1 DEF Prints
    <2> QED
      BY <2>1, <2>2
  <1> QED
    BY <1>2, <1>3, <1>4, <1>5, <1>6, <1>7 DEF Next

-----------------------------------------------------------------------------
(* What the property compares it with names the elements by their place,    *)
(* and closes a block with its last row.                                    *)
Placed == [b \in Nat |-> Place(b)]

Ends(k) == k > 0 /\ IsRow(doc, k) /\ (k = Len(doc) \/ ~IsRow(doc, k + 1))

BlockEnd(k) == IF Ends(k) THEN <<CloseTag(Placed[Number(doc, k)])>> ELSE <<>>

LineOrNone(k) == IF k \in RowLines THEN LineHtml(k) ELSE <<>>

LinesUpto(k) == FlattenSeq([i \in 1..k |-> LineOrNone(i)])

(* A place is one of three, and names an element.                           *)
LEMMA PlacedType ==
    /\ Placed \in [Nat -> Places]
    /\ \A b \in Nat : Placed[b] = Place(b) /\ Placed[b] \in Places /\ Placed[b] \in Name
  <1>1. ASSUME NEW b \in Nat PROVE Place(b) \in Places
    BY Zenon DEF Place, Places
  <1>2. \A q \in Places : q \in Name
    BY DEF Places, Name
  <1> QED
    BY <1>1, <1>2 DEF Placed

(* What closes a block is HTML.                                             *)
LEMMA BlockEndType ==
    ASSUME NEW k \in Nat
    PROVE  BlockEnd(k) \in Seq(Html)
  <1>1. Number(doc, k) \in Nat /\ <<>> \in Seq(Html)
    BY NumberNext
  <1>2. Placed[Number(doc, k)] \in Name
    BY <1>1, PlacedType
  <1> QED
    BY <1>1, <1>2, TagsType, Zenon DEF BlockEnd

(* The line of a row is its piece, and the end of its block if it is last.  *)
LEMMA LineIsPiece ==
    ASSUME doc \in Seq(Line), NEW k \in 1..Len(doc), IsRow(doc, k)
    PROVE  LineHtml(k) = Piece(doc, Placed, k) \o BlockEnd(k)
  <1> DEFINE q == Placed[Number(doc, k)]
             cell == IF q = "thead" THEN "th" ELSE "td"
             A == Opening(doc, Placed, k)
             T == <<OpenTag("tr")>>
             F == FlattenSeq([c \in DOMAIN doc[k] |-> Tagged(cell, <<doc[k][c]>>)])
             G == FlattenSeq([c \in DOMAIN doc[k] |-> <<OpenTag(cell), doc[k][c], CloseTag(cell)>>])
             Z == <<CloseTag("tr")>>
  <1>1. /\ k \in Nat /\ k \in Nat \ {0} /\ Len(doc) \in Nat
        /\ Number(doc, k) \in Nat /\ BlockOf(k) = Number(doc, k)
        /\ doc[k] \in Cells
    <2>1. k \in Nat /\ k \in Nat \ {0} /\ Len(doc) \in Nat
      OBVIOUS
    <2>2. doc[k] \in Line
      OBVIOUS
    <2>3. doc[k] \in Cells
      BY <2>2, RowAssumption DEF IsRow, Line, Cells
    <2> QED
      BY <2>1, <2>3, NumberNext DEF BlockOf, Number
  <1>2. q = Place(BlockOf(k)) /\ q \in Places /\ q \in Name
    BY <1>1, PlacedType
  <1>3. /\ A \in Seq(Html) /\ T \in Seq(Html) /\ Z \in Seq(Html)
        /\ BlockEnd(k) \in Seq(Html)
    <2>1. A \in Seq(Html)
      BY <1>1, PieceType, PlacedType
    <2>2. "tr" \in Name
      BY DEF Name
    <2> QED
      BY <1>1, <2>1, <2>2, TagsType, BlockEndType, Zenon
  <1>4. G = F
    <2>1. ASSUME NEW c \in DOMAIN doc[k]
          PROVE  <<OpenTag(cell), doc[k][c], CloseTag(cell)>> = Tagged(cell, <<doc[k][c]>>)
      BY ThreeElements DEF Tagged
    <2> QED
      BY <2>1, Zenon
  <1>5. F \in Seq(Html)
    <2>1. cell \in Name
      BY DEF Name
    <2>2. /\ DOMAIN doc[k] = 1..Len(doc[k]) /\ Len(doc[k]) \in Nat
          /\ \A c \in 1..Len(doc[k]) : doc[k][c] \in STRING
      BY <1>1 DEF Cells
    <2> HIDE DEF cell
    <2>3. ASSUME NEW c \in 1..Len(doc[k]) PROVE Tagged(cell, <<doc[k][c]>>) \in Seq(Html)
      <3>1. doc[k][c] \in Html
        BY <2>2 DEF Html
      <3>2. <<doc[k][c]>> \in Seq(Html)
        BY <3>1
      <3> QED
        BY <2>1, <3>2, TaggedType
    <2> DEFINE f == [c \in DOMAIN doc[k] |-> Tagged(cell, <<doc[k][c]>>)]
    <2>4. f \in [1..Len(doc[k]) -> Seq(Html)]
      BY <2>2, <2>3
    <2> HIDE DEF f
    <2>5. f \in Seq(Seq(Html))
      BY <2>2, <2>4, FunctionIsSequence, Zenon
    <2>6. FlattenSeq(f) \in Seq(Html)
      BY <2>5, FlattenType
    <2> QED
      BY <2>6 DEF f
  <1>6. RowHtml(doc[k], q) = (T \o F) \o Z
    BY Zenon DEF RowHtml, Tagged
  <1>7. Piece(doc, Placed, k) = A \o ((T \o F) \o Z)
    BY <1>6 DEF Piece
  <1>8. LineHtml(k) = (((A \o T) \o G) \o Z) \o BlockEnd(k)
    <2>1. (k = 1 \/ doc[k - 1] = Separator) <=> (k = 1 \/ ~IsRow(doc, k - 1))
      BY DEF IsRow
    <2>2. (k = Len(doc) \/ doc[k + 1] = Separator) <=> Ends(k)
      BY <1>1 DEF Ends, IsRow
    <2> DEFINE opens == k = 1 \/ doc[k - 1] = Separator
               closes == k = Len(doc) \/ doc[k + 1] = Separator
    <2>3. A = IF opens THEN <<OpenTag(q)>> ELSE <<>>
      BY <2>1, Zenon DEF Opening
    <2>4. BlockEnd(k) = IF closes THEN <<CloseTag(q)>> ELSE <<>>
      BY <2>2, Zenon DEF BlockEnd
    <2> HIDE DEF A
    <2> QED
      BY <1>2, <2>3, <2>4, Zenon DEF LineHtml
  <1> HIDE DEF A, T, F, G, Z
  <1>9. /\ T \o F \in Seq(Html)
        /\ Regroups(A, T, F) /\ Regroups(A, T \o F, Z)
    <2>1. T \o F \in Seq(Html)
      BY <1>3, <1>5
    <2> QED
      BY <1>3, <1>5, <2>1, Regroup, Zenon
  <1> QED
    BY <1>4, <1>7, <1>8, <1>9, Zenon DEF Regroups

(* A line more, on both sides.                                              *)
LEMMA LineStep ==
    ASSUME doc \in Seq(Line), NEW k \in Nat, k < Len(doc)
    PROVE  /\ BlockEnd(k) \o LineOrNone(k + 1) = Piece(doc, Placed, k + 1) \o BlockEnd(k + 1)
           /\ LineOrNone(k + 1) \in Seq(Html)
           /\ Piece(doc, Placed, k + 1) \in Seq(Html)
  <1>1. /\ k + 1 \in 1..Len(doc) /\ k + 1 \in Nat /\ k + 1 \in Nat \ {0} /\ Len(doc) \in Nat
        /\ (k + 1) - 1 = k /\ (k + 1 # 1 <=> k > 0) /\ k # Len(doc)
        /\ (k + 1 \in RowLines <=> IsRow(doc, k + 1))
    BY DEF RowLines, IsRow
  <1>2. BlockEnd(k) \in Seq(Html) /\ BlockEnd(k + 1) \in Seq(Html)
    BY <1>1, BlockEndType
  <1>3. Piece(doc, Placed, k + 1) \in Seq(Html)
    <2>1. doc[k + 1] \in Line
      BY <1>1
    <2>2. IsRow(doc, k + 1) => doc[k + 1] \in Cells
      BY <2>1, RowAssumption DEF IsRow, Line, Cells
    <2> QED
      BY <1>1, <2>2, PieceType, PlacedType
  <1>4. CASE IsRow(doc, k + 1)
    <2>1. BlockEnd(k) = <<>>
      BY <1>1, <1>4 DEF BlockEnd, Ends
    <2>2. LineOrNone(k + 1) = Piece(doc, Placed, k + 1) \o BlockEnd(k + 1)
      BY <1>1, <1>4, LineIsPiece DEF LineOrNone
    <2> DEFINE l == LineOrNone(k + 1)
               Q == Piece(doc, Placed, k + 1)
    <2>3. l \in Seq(Html)
      <3> HIDE DEF Q
      <3>1. Q \o BlockEnd(k + 1) \in Seq(Html)
        BY <1>2, <1>3 DEF Q
      <3> QED
        BY <2>2, <3>1 DEF Q
    <2> HIDE DEF l
    <2>4. <<>> \o l = l
      BY <2>3
    <2> QED
      BY <1>3, <2>1, <2>2, <2>3, <2>4 DEF l
  <1>5. CASE ~IsRow(doc, k + 1)
    <2>1. LineOrNone(k + 1) = <<>> /\ BlockEnd(k + 1) = <<>>
      BY <1>1, <1>5, Zenon DEF LineOrNone, BlockEnd, Ends
    <2>2. Piece(doc, Placed, k + 1) = Closing(doc, Placed, k + 1)
      BY <1>5 DEF Piece
    <2>3. Closing(doc, Placed, k + 1) = BlockEnd(k)
      <3>1. (k + 1 # 1 /\ IsRow(doc, (k + 1) - 1)) <=> Ends(k)
        BY <1>1, <1>5 DEF Ends
      <3> QED
        BY <1>1, <3>1, Zenon DEF Closing, BlockEnd
    <2>4. <<>> \in Seq(Html) /\ BlockEnd(k) \o <<>> = BlockEnd(k)
      BY <1>2
    <2> QED
      BY <1>3, <2>1, <2>2, <2>3, <2>4
  <1> QED
    BY <1>4, <1>5

(* The lines are what is written of them, and the end of the last block.    *)
LEMMA LinesAreWritten ==
    ASSUME doc \in Seq(Line), NEW n, n = Len(doc)
    PROVE  LinesUpto(n) = Written(doc, Placed, n) \o BlockEnd(n)
  <1> DEFINE Good(k) == LinesUpto(k) = Written(doc, Placed, k) \o BlockEnd(k)
             P == {k \in Nat : k <= n => Good(k)}
  <1>0. n \in Nat
    OBVIOUS
  <1>1. Good(0)
    <2>1. Written(doc, Placed, 0) = <<>> /\ LinesUpto(0) = <<>>
      <3>1. [j \in 1..0 |-> LineOrNone(j)] = <<>>
        OBVIOUS
      <3> QED
        BY <3>1, WrittenNone, FlattenEmpty, Zenon DEF LinesUpto
    <2>2. BlockEnd(0) = <<>>
      BY DEF BlockEnd, Ends
    <2>3. <<>> \o <<>> = <<>>
      OBVIOUS
    <2> QED
      BY <2>1, <2>2, <2>3, Zenon
  <1>2. ASSUME NEW k \in Nat, k + 1 <= n, Good(k) PROVE Good(k + 1)
    <2> DEFINE L == LineOrNone(k + 1)
               Q == Piece(doc, Placed, k + 1)
               W == Written(doc, Placed, k)
    <2>1. /\ BlockEnd(k) \o L = Q \o BlockEnd(k + 1)
          /\ L \in Seq(Html) /\ Q \in Seq(Html)
      <3>1. k < Len(doc)
        BY <1>0, <1>2
      <3> QED
        BY <1>2, <3>1, LineStep, Zenon
    <2>2. WritesOn(doc, doc, Placed, k) /\ W \in Seq(Html)
      <3>1. \A j \in 1..k + 1 : IsRow(doc, j) => doc[j] \in Cells
        <4>1. ASSUME NEW j \in 1..k + 1, IsRow(doc, j) PROVE doc[j] \in Cells
          <5>1. doc[j] \in Line
            BY <1>0, <1>2
          <5> QED
            BY <4>1, <5>1, RowAssumption DEF IsRow, Line, Cells
        <4> QED
          BY <4>1
      <3> QED
        BY <1>2, <3>1, WrittenMore, PlacedType
    <2>3. LinesUpto(k + 1) = LinesUpto(k) \o L
      <3> DEFINE g == [j \in 1..k |-> LineOrNone(j)]
                 h == [j \in 1..k + 1 |-> LineOrNone(j)]
      <3>1. ASSUME NEW j \in 1..k + 1 PROVE LineOrNone(j) \in Seq(Html)
        <4>1. j - 1 \in Nat /\ j - 1 < Len(doc) /\ (j - 1) + 1 = j
          BY <1>0, <1>2
        <4> QED
          BY <4>1, LineStep
      <3>2. /\ g \in [1..k -> Seq(Html)] /\ h \in [1..k + 1 -> Seq(Html)]
            /\ h[k + 1] = L /\ \A j \in 1..k : h[j] = g[j]
        <4>1. k + 1 \in 1..k + 1 /\ \A j \in 1..k : j \in 1..k + 1
          BY <1>2
        <4> QED
          BY <3>1, <4>1
      <3> HIDE DEF g, h
      <3>3. OnePart(g, h, k)
        BY <1>2, <3>2, OnePartMore, Zenon
      <3> QED
        BY <3>2, <3>3 DEF OnePart, LinesUpto, g, h
    <2>4. BlockEnd(k) \in Seq(Html) /\ BlockEnd(k + 1) \in Seq(Html)
      BY <1>2, BlockEndType
    <2>5. Regroups(W, BlockEnd(k), L) /\ Regroups(W, Q, BlockEnd(k + 1))
      <3> HIDE DEF W, L, Q
      <3> QED
        BY <2>1, <2>2, <2>4, Regroup, Zenon
    <2> QED
      BY <1>2, <2>1, <2>2, <2>3, <2>5, Zenon DEF Regroups, WritesOn
  <1> HIDE DEF Good
  <1>3. \A k \in P : k + 1 \in P
    BY <1>0, <1>2
  <1>4. P \in SUBSET Nat /\ 0 \in P
    BY <1>1
  <1> HIDE DEF P
  <1>5. P = Nat
    BY <1>3, <1>4, NumberInduction, Zenon
  <1>6. n <= n /\ n \in P
    BY <1>0, <1>5
  <1> QED
    BY <1>0, <1>6 DEF P, Good

(* The number of blocks up to the last row is that of the table.            *)
LEMMA CountIsLength ==
    ASSUME LastBlock, Len(table) \in Nat, doc \in Seq(Line)
    PROVE  BlockCount = Len(table)
  <1>1. RowLines = {j \in 1..Len(doc) : IsRow(doc, j)}
    BY DEF RowLines, IsRow
  <1>2. CASE Len(table) = 0 /\ \A j \in 1..Len(doc) : ~IsRow(doc, j)
    BY <1>1, <1>2 DEF BlockCount
  <1>3. ASSUME NEW m \in 1..Len(doc), IsRow(doc, m), Number(doc, m) = Len(table),
               \A j \in 1..Len(doc) : IsRow(doc, j) => j <= m
        PROVE  BlockCount = Len(table)
    <2>1. m \in RowLines /\ \A y \in RowLines : m >= y
      BY <1>1, <1>3
    <2>2. Max(RowLines) \in RowLines /\ \A y \in RowLines : Max(RowLines) >= y
      BY <2>1 DEF Max
    <2>3. Max(RowLines) = m
      BY <1>1, <2>1, <2>2
    <2> QED
      BY <1>3, <2>1, <2>3, Zenon DEF BlockCount, BlockOf, Number
  <1> QED
    BY <1>2, <1>3 DEF LastBlock

(* The table's HTML.                                                        *)
LEMMA TableHtml ==
    ASSUME BlockCount = Len(table), table \in Seq(Seq(Cells))
    PROVE  BlocksHtml(table, Len(table), Placed)
               = FlattenSeq([b \in DOMAIN table |-> BlockHtml(b)])
  <1>1. DOMAIN table = 1..Len(table) /\ Len(table) \in Nat
    OBVIOUS
  <1>2. ASSUME NEW b \in 1..Len(table) PROVE Placed[b] = Section(b)
    <2>1. Placed[b] = Place(b)
      BY <1>1, PlacedType
    <2>2. /\ (b = 1 /\ BlockCount > 1) <=> (Len(table) > 1 /\ b = 1)
          /\ (b = BlockCount /\ BlockCount > 2) <=> (HasFooter /\ b = Len(table))
      BY <1>1 DEF HasFooter
    <2> QED
      BY <2>1, <2>2, Zenon DEF Place, Section
  <1>3. ASSUME NEW b \in 1..Len(table)
        PROVE  Tagged(Placed[b], RowsHtml(table[b], Placed[b])) = BlockHtml(b)
    BY <1>2, Zenon DEF BlockHtml, RowsHtml
  <1> QED
    BY <1>1, <1>3, Zenon DEF BlocksHtml

(* A table that ends is the document's.                                     *)
LEMMA PrintsItAll ==
    ASSUME IInv, Blocks, Prints
    PROVE  PrintsTheDocument
  <1> SUFFICES ASSUME state = "finished"
               PROVE  result = <<OpenTag("table")>>
                               \o FlattenSeq([j \in DOMAIN doc |-> LineOrNone(j)])
                               \o <<CloseTag("table")>>
    BY Zenon DEF PrintsTheDocument, LineOrNone
  <1> DEFINE n == Len(doc)
             c == currentBlock
             q == Placed[c + 1]
  <1>1. /\ c + 1 = Number(doc, n) /\ LastBlock /\ WrittenIsTable(Placed)
        /\ result = Tagged("table", FlattenSeq([b \in DOMAIN table |-> BlockHtml(b)]))
    BY PlacedType DEF Prints
  <1>2. /\ doc \in Seq(Line) /\ n \in Nat /\ DOMAIN doc = 1..n
        /\ c \in Nat /\ table \in Seq(Seq(Cells)) /\ Len(table) \in Nat
    <2>1. doc \in Seq(Line) /\ table \in Seq(Seq(Cells)) /\ c \in Nat
      BY DEF Blocks, IInv, Shape
    <2> QED
      BY <2>1
  <1>3. LinesUpto(n) = Written(doc, Placed, n) \o BlockEnd(n)
    <2>1. n = Len(doc)
      OBVIOUS
    <2> HIDE DEF n
    <2> QED
      BY <1>2, <2>1, LinesAreWritten
  <1>4. LastIsRow => Len(table) = c + 1
    BY <1>2 DEF LastIsRow, IsRow, Blocks
  <1>5. LinesUpto(n) = BlocksHtml(table, Len(table), Placed)
    <2>1. CASE LastIsRow
      <3> DEFINE B == BlocksHtml(table, c, Placed)
                 o == <<OpenTag(q)>>
                 r == RowsHtml(table[c + 1], q)
                 z == <<CloseTag(q)>>
      <3>1. /\ Len(table) = c + 1 /\ c + 1 \in Nat /\ c + 1 \in 1..c + 1
            /\ \A b \in 1..c + 1 : table[b] \in Seq(Cells)
        BY <1>2, <1>4, <2>1
      <3>2. q \in Places /\ q \in Name
        BY <3>1, PlacedType
      <3>3. B \in Seq(Html) /\ BlocksHtml(table, c + 1, Placed) = B \o Tagged(q, r)
        <4>1. \A b \in 1..c : table[b] = table[b]
          OBVIOUS
        <4> HIDE DEF c
        <4> QED
          BY <1>2, <3>1, <4>1, BlocksMore, PlacedType
      <3>4. o \in Seq(Html) /\ z \in Seq(Html)
        BY <3>2, TagsType
      <3>5. r \in Seq(Html)
        <4>1. <<>> \in Cells /\ table[c + 1] \in Seq(Cells)
          BY <3>1 DEF Cells
        <4> QED
          BY <3>2, <4>1, RowsMore
      <3>6. BlockEnd(n) = z
        <4>1. Ends(n)
          BY <2>1 DEF LastIsRow, Ends
        <4> QED
          BY <1>1, <4>1 DEF BlockEnd
      <3>7. LinesUpto(n) = (B \o (o \o r)) \o z
        BY <1>1, <1>3, <2>1, <3>6, Zenon DEF WrittenIsTable
      <3>8. Tagged(q, r) = (o \o r) \o z
        BY DEF Tagged
      <3> HIDE DEF B, o, r, z, c, q, n
      <3>9. o \o r \in Seq(Html)
        BY <3>4, <3>5
      <3>10. Regroups(B, o \o r, z)
        BY <3>3, <3>4, <3>9, Regroup, Zenon
      <3> QED
        BY <3>1, <3>3, <3>7, <3>8, <3>10, Zenon DEF Regroups
    <2>2. CASE ~LastIsRow
      <3>1. BlockEnd(n) = <<>>
        BY <2>2 DEF BlockEnd, Ends, LastIsRow
      <3> DEFINE W == Written(doc, Placed, n)
      <3>2. W \in Seq(Html)
        <4>1. \A j \in 1..n : IsRow(doc, j) => doc[j] \in Cells
          <5>1. ASSUME NEW j \in 1..n, IsRow(doc, j) PROVE doc[j] \in Cells
            <6>1. doc[j] \in Line
              BY <1>2
            <6> QED
              BY <5>1, <6>1, RowAssumption DEF IsRow, Line, Cells
          <5> QED
            BY <5>1
        <4> DEFINE f == [j \in 1..n |-> Piece(doc, Placed, j)]
        <4>2. ASSUME NEW j \in 1..n PROVE Piece(doc, Placed, j) \in Seq(Html)
          <5>1. j \in Nat \ {0}
            BY <1>2
          <5> QED
            BY <4>1, <5>1, PieceType, PlacedType
        <4>3. f \in [1..n -> Seq(Html)]
          BY <4>2
        <4> HIDE DEF f, n
        <4>4. f \in Seq(Seq(Html))
          BY <1>2, <4>3
        <4>5. FlattenSeq(f) \in Seq(Html)
          BY <4>4, FlattenType
        <4> QED
          BY <4>5 DEF f, Written
      <3>3. W \o <<>> = W
        BY <3>2
      <3>4. W = BlocksHtml(table, Len(table), Placed)
        BY <1>1, <2>2 DEF WrittenIsTable
      <3> QED
        BY <1>3, <3>1, <3>3, <3>4, Zenon
    <2> QED
      BY <2>1, <2>2
  <1>6. BlocksHtml(table, Len(table), Placed)
            = FlattenSeq([b \in DOMAIN table |-> BlockHtml(b)])
    <2>1. BlockCount = Len(table)
      BY <1>1, <1>2, CountIsLength
    <2> QED
      BY <1>2, <2>1, TableHtml
  <1> QED
    BY <1>1, <1>2, <1>5, <1>6, Zenon DEF LinesUpto, Tagged

(* TableParser::process: the HTML of a finished table is that of the lines  *)
(* read, row by row, whatever they are and however many.                    *)
THEOREM PrintsTheDocumentHolds == Spec => []PrintsTheDocument
  <1>1. Init => IInv /\ Blocks /\ Prints
    BY InvInit, BlocksInit, PrintsInit
  <1>2. IInv /\ Blocks /\ Prints /\ [Next]_vars => (IInv /\ Blocks /\ Prints)'
    BY InvStep, BlocksStep, PrintsStep
  <1>3. IInv /\ Blocks /\ Prints => PrintsTheDocument
    BY PrintsItAll
  <1> QED
    BY <1>1, <1>2, <1>3, PTL DEF Spec

-----------------------------------------------------------------------------

(* Matches are at most as long as the line.                                *)
MatchEnds(l, end) == \A p \in 1..Len(l) : end[p] = 0 \/ end[p] \in p..Len(l)

(* What Replace makes of the line from p on, from what it makes of the rest.*)
Rewritten(R, l, end, rep, p) ==
    IF p > Len(l) THEN <<>>
    ELSE IF end[p] = 0 THEN <<l[p]>> \o R[p + 1]
    ELSE rep[p] \o R[end[p] + 1]

Rewrites(R, l, end, rep) ==
    \A p \in 1..Len(l) + 1 : R[p] = Rewritten(R, l, end, rep, p)

(* end and rep say what is replaced in l by what, and R is the result from *)
(* every position on.                                                      *)
Replaceable(S, l, end, rep) ==
    /\ MatchEnds(l, end)
    /\ \A p \in 1..Len(l) : end[p] # 0 => rep[p] \in Seq(S)

Rewriting(S, l, end, rep, R) ==
    /\ Replaceable(S, l, end, rep)
    /\ R \in [1..Len(l) + 1 -> Seq(S)]
    /\ Rewrites(R, l, end, rep)

ReplacedBy(S, l, end, rep, m) == \E R : Rewriting(S, l, end, rep, R) /\ m = R[1]

(* Replace is the first value of a function that rewrites from every       *)
(* position on.                                                            *)
LEMMA RewritesExists ==
    ASSUME NEW S, NEW l \in Seq(S), NEW end, NEW rep, MatchEnds(l, end),
           \A p \in 1..Len(l) : end[p] # 0 => rep[p] \in Seq(S)
    PROVE  \E R \in [1..Len(l) + 1 -> Seq(S)] : Rewrites(R, l, end, rep)
  <1> DEFINE n == Len(l)
             Body(R, p) == Rewritten(R, l, end, rep, p)
             From(k) == \E R \in [1..n + 1 -> Seq(S)] :
                            \A p \in 1..n + 1 : p >= n + 1 - k => R[p] = Body(R, p)
             P == {k \in Nat : k <= n => From(k)}
  <1>0. n \in Nat
    OBVIOUS
  <1>1. From(0)
    <2> DEFINE R == [p \in 1..n + 1 |-> <<>>]
    <2>1. R \in [1..n + 1 -> Seq(S)]
      OBVIOUS
    <2>2. ASSUME NEW p \in 1..n + 1, p >= n + 1 - 0 PROVE R[p] = Body(R, p)
      <3>1. p > Len(l) /\ R[p] = <<>>
        BY <1>0, <2>2
      <3> HIDE DEF R
      <3> QED
        BY <3>1 DEF Rewritten
    <2> HIDE DEF R, Body
    <2> QED
      BY <2>1, <2>2
  <1>2. ASSUME NEW k \in Nat, k + 1 <= n, From(k) PROVE From(k + 1)
    <2>1. PICK T \in [1..n + 1 -> Seq(S)] :
              \A p \in 1..n + 1 : p >= n + 1 - k => T[p] = Body(T, p)
      BY <1>2
    <2> DEFINE m == n - k
               R == [p \in 1..n + 1 |-> IF p = m THEN Body(T, m) ELSE T[p]]
    <2>2. m \in 1..n
      BY <1>0, <1>2
    <2>3. Body(T, m) \in Seq(S)
      <3>1. CASE end[m] = 0
        <4>1. T[m + 1] \in Seq(S) /\ <<l[m]>> \in Seq(S)
          <5> HIDE DEF m
          <5>1. m + 1 \in 1..n + 1 /\ l[m] \in S
            BY <1>0, <2>2
          <5> QED
            BY <5>1
        <4> QED
          BY <2>2, <3>1, <4>1, ConcatProperties DEF Rewritten
      <3>2. CASE end[m] # 0
        <4>1. end[m] + 1 \in 1..n + 1
          BY <1>0, <2>2, <3>2 DEF MatchEnds
        <4>2. T[end[m] + 1] \in Seq(S) /\ rep[m] \in Seq(S)
          BY <2>2, <3>2, <4>1
        <4> QED
          BY <2>2, <3>2, <4>2, ConcatProperties DEF Rewritten
      <3> QED
        BY <3>1, <3>2
    <2>4. R \in [1..n + 1 -> Seq(S)]
      <3> HIDE DEF Body
      <3> QED
        BY <2>3
    <2>5. ASSUME NEW p \in 1..n + 1, p >= n + 1 - (k + 1) PROVE R[p] = Body(R, p)
      <3>1. p >= m
        BY <1>0, <2>5
      <3>2. Body(R, p) = Body(T, p)
        <4>1. p <= n => p + 1 \in 1..n + 1 /\ R[p + 1] = T[p + 1]
          <5> HIDE DEF Body
          <5> QED
            BY <1>0, <2>2, <3>1
        <4>2. p <= n /\ end[p] # 0 => end[p] + 1 \in 1..n + 1 /\ R[end[p] + 1] = T[end[p] + 1]
          <5>1. p <= n /\ end[p] # 0 => end[p] + 1 \in 1..n + 1 /\ end[p] + 1 # m
            BY <1>0, <2>2, <3>1 DEF MatchEnds
          <5> HIDE DEF Body
          <5> QED
            BY <5>1
        <4> HIDE DEF R, m
        <4> QED
          BY <1>0, <4>1, <4>2 DEF Rewritten
      <3>3. p # m => p >= n + 1 - k
        BY <1>0, <3>1
      <3>4. R[p] = Body(T, p)
        <4> HIDE DEF Body
        <4> QED
          BY <2>1, <3>3
      <3> HIDE DEF R, Body
      <3> QED
        BY <3>2, <3>4
    <2> HIDE DEF R, Body
    <2> QED
      BY <2>4, <2>5
  <1>3. P = Nat
    <2> HIDE DEF From
    <2>1. 0 \in P
      BY <1>1
    <2>2. ASSUME NEW k \in P PROVE k + 1 \in P
      <3>1. k + 1 <= n => k <= n
        BY <1>0
      <3> QED
        BY <1>2, <3>1
    <2>3. P \in SUBSET Nat
      OBVIOUS
    <2> HIDE DEF P
    <2> QED
      BY <2>1, <2>2, <2>3, NumberInduction
  <1>4. From(n)
    <2> HIDE DEF From
    <2> QED
      BY <1>0, <1>3
  <1>5. \E R \in [1..n + 1 -> Seq(S)] : \A p \in 1..n + 1 : R[p] = Body(R, p)
    <2>1. PICK R \in [1..n + 1 -> Seq(S)] :
              \A p \in 1..n + 1 : p >= n + 1 - n => R[p] = Body(R, p)
      BY <1>4
    <2> HIDE DEF Body
    <2>2. \A p \in 1..n + 1 : p >= n + 1 - n
      BY <1>0
    <2> QED
      BY <2>1, <2>2
  <1> QED
    BY <1>5 DEF Rewrites

(* Replace is the first value of such a function.                          *)
LEMMA ReplaceIs ==
    ASSUME NEW S, NEW l \in Seq(S), NEW end, NEW rep, Replaceable(S, l, end, rep)
    PROVE  ReplacedBy(S, l, end, rep, Replace(l, end, rep))
  <1> DEFINE Body(R) == [p \in 1..Len(l) + 1 |->
                            IF p > Len(l) THEN <<>>
                            ELSE IF end[p] = 0 THEN <<l[p]>> \o R[p + 1]
                            ELSE rep[p] \o R[end[p] + 1]]
             rest == CHOOSE R : R = Body(R)
  <1>1. \E R : R = Body(R)
    <2>1. PICK R \in [1..Len(l) + 1 -> Seq(S)] : Rewrites(R, l, end, rep)
      BY RewritesExists DEF Replaceable
    <2>2. R = Body(R)
      BY <2>1 DEF Rewrites, Rewritten
    <2> QED
      BY <2>2
  <1>2. rest = Body(rest)
    <2> HIDE DEF Body
    <2> QED
      BY <1>1
  <1>3. Replace(l, end, rep) = rest[1]
    BY DEF Replace
  <1> HIDE DEF rest
  <1>4. Rewrites(rest, l, end, rep) /\ DOMAIN rest = 1..Len(l) + 1
    BY <1>2 DEF Rewrites, Rewritten
  <1>5. \A p \in 1..Len(l) + 1 : rest[p] \in Seq(S)
    <2> DEFINE P == {p \in 1..Len(l) + 1 : rest[p] \in Seq(S)}
    <2>0. Len(l) \in Nat
      OBVIOUS
    <2>1. Len(l) + 1 \in P
      <3>1. rest[Len(l) + 1] = Rewritten(rest, l, end, rep, Len(l) + 1)
        BY <1>4, <2>0 DEF Rewrites
      <3>2. rest[Len(l) + 1] = <<>>
        BY <2>0, <3>1 DEF Rewritten
      <3>3. Len(l) + 1 \in 1..Len(l) + 1 /\ <<>> \in Seq(S)
        BY <2>0, EmptySeq
      <3> HIDE DEF rest
      <3> QED
        BY <3>2, <3>3
    <2>2. ASSUME NEW p \in 1..Len(l), \A q \in p + 1..Len(l) + 1 : q \in P
          PROVE  p \in P
      <3>1. rest[p] = Rewritten(rest, l, end, rep, p)
        BY <1>4, <2>0 DEF Rewrites
      <3>2. CASE end[p] = 0
        <4>1. rest[p + 1] \in Seq(S) /\ <<l[p]>> \in Seq(S)
          BY <2>0, <2>2
        <4>2. rest[p] = <<l[p]>> \o rest[p + 1]
          BY <2>0, <3>1, <3>2 DEF Rewritten
        <4>3. rest[p] \in Seq(S)
          BY <4>1, <4>2, ConcatProperties
        <4> QED
          BY <2>0, <4>3
      <3>3. CASE end[p] # 0
        <4>1. end[p] + 1 \in p + 1..Len(l) + 1
          BY <2>0, <3>3 DEF MatchEnds, Replaceable
        <4>2. rest[end[p] + 1] \in Seq(S) /\ rep[p] \in Seq(S)
          BY <2>2, <3>3, <4>1 DEF Replaceable
        <4>3. ~(p > Len(l)) /\ p \in 1..Len(l) + 1
          BY <2>0
        <4>4. rest[p] = rep[p] \o rest[end[p] + 1]
          BY <3>1, <3>3, <4>3, Zenon DEF Rewritten
        <4>5. rest[p] \in Seq(S)
          BY <4>2, <4>4, ConcatProperties
        <4> QED
          BY <4>3, <4>5
      <3> QED
        BY <3>2, <3>3
    <2> HIDE DEF P
    <2>3. \A p \in 1..Len(l) + 1 : p \in P
      BY <2>0, <2>1, <2>2, DownInduction
    <2> QED
      BY <2>3 DEF P
  <1>6. rest \in [1..Len(l) + 1 -> Seq(S)]
    <2>1. rest = [p \in 1..Len(l) + 1 |-> rest[p]]
      BY <1>2
    <2> QED
      BY <1>5, <2>1
  <1>7. Rewriting(S, l, end, rep, rest)
    BY <1>4, <1>6 DEF Rewriting
  <1> QED
    BY <1>3, <1>7 DEF ReplacedBy

(* What is behind the last position, ...                                   *)
LEMMA NothingBehind ==
    ASSUME NEW S, NEW l \in Seq(S), NEW end, NEW rep, NEW R, Rewriting(S, l, end, rep, R)
    PROVE  R[Len(l) + 1] = <<>>
  <1>1. Len(l) \in Nat /\ Len(l) + 1 \in 1..Len(l) + 1 /\ Len(l) + 1 > Len(l)
    OBVIOUS
  <1> QED
    BY <1>1 DEF Rewriting, Rewrites, Rewritten

(* where there is no match, ...                                            *)
Copied(S, l, R, p) ==
    /\ p + 1 \in 1..Len(l) + 1 /\ R[p + 1] \in Seq(S) /\ <<l[p]>> \in Seq(S)
    /\ R[p] = <<l[p]>> \o R[p + 1]

(* Where there is no match the result has the element of the line, ...     *)
LEMMA WhereNone ==
    ASSUME NEW S, NEW l \in Seq(S), NEW end, NEW rep, NEW R, Rewriting(S, l, end, rep, R),
           NEW p \in 1..Len(l), end[p] = 0
    PROVE  Copied(S, l, R, p)
  <1>1. /\ p \in 1..Len(l) + 1 /\ p + 1 \in 1..Len(l) + 1 /\ ~(p > Len(l))
        /\ <<l[p]>> \in Seq(S)
    OBVIOUS
  <1>2. R[p + 1] \in Seq(S)
    BY <1>1 DEF Rewriting
  <1>3. R[p] = Rewritten(R, l, end, rep, p)
    BY <1>1 DEF Rewriting, Rewrites
  <1>4. Rewritten(R, l, end, rep, p) = <<l[p]>> \o R[p + 1]
    BY <1>1, Zenon DEF Rewritten
  <1> QED
    BY <1>1, <1>2, <1>3, <1>4 DEF Copied

(* and where there is one.                                                 *)
Put(S, l, end, rep, R, p) ==
    /\ end[p] \in p..Len(l) /\ end[p] + 1 \in p + 1..Len(l) + 1
    /\ rep[p] \in Seq(S) /\ R[end[p] + 1] \in Seq(S)
    /\ R[p] = rep[p] \o R[end[p] + 1]

(* and where there is one it has its replacement, and goes on behind the   *)
(* match.                                                                  *)
LEMMA WhereOne ==
    ASSUME NEW S, NEW l \in Seq(S), NEW end, NEW rep, NEW R, Rewriting(S, l, end, rep, R),
           NEW p \in 1..Len(l), end[p] # 0
    PROVE  Put(S, l, end, rep, R, p)
  <1>1. end[p] \in p..Len(l)
    BY DEF Rewriting, MatchEnds, Replaceable
  <1>2. /\ p \in 1..Len(l) + 1 /\ end[p] + 1 \in 1..Len(l) + 1 /\ ~(p > Len(l))
        /\ end[p] + 1 \in p + 1..Len(l) + 1
    BY <1>1
  <1>3. R[end[p] + 1] \in Seq(S) /\ rep[p] \in Seq(S)
    BY <1>2 DEF Rewriting, Replaceable
  <1>4. R[p] = Rewritten(R, l, end, rep, p)
    BY <1>2 DEF Rewriting, Rewrites
  <1>5. Rewritten(R, l, end, rep, p) = rep[p] \o R[end[p] + 1]
    BY <1>2, Zenon DEF Rewritten
  <1> QED
    BY <1>1, <1>2, <1>3, <1>4, <1>5 DEF Put

(* A stretch without a match stays as it is.                               *)
NoMatch(end, p, k) == \A j \in p..k : end[j] = 0
CopiedUpto(l, R, p, k) == R[p] = SubSeq(l, p, k) \o R[k + 1]

(* From p to k the result is the line, if nothing matches there.           *)
LEMMA WhereNoneUpto ==
    ASSUME NEW S, NEW l \in Seq(S), NEW end, NEW rep, NEW R, Rewriting(S, l, end, rep, R),
           NEW k \in 0..Len(l), NEW p \in 1..k + 1, NoMatch(end, p, k)
    PROVE  CopiedUpto(l, R, p, k)
  <1> USE DEF CopiedUpto, NoMatch
  <1> DEFINE P == {q \in 1..k + 1 : q >= p => R[q] = SubSeq(l, q, k) \o R[k + 1]}
  <1>1. k \in Nat /\ Len(l) \in Nat /\ k + 1 \in 1..Len(l) + 1
    OBVIOUS
  <1>2. k + 1 \in P
    <2>1. SubSeq(l, k + 1, k) = <<>>
      BY <1>1, SubSeqEmpty
    <2>2. R[k + 1] \in Seq(S)
      BY <1>1 DEF Rewriting
    <2>3. R[k + 1] = <<>> \o R[k + 1]
      BY <2>2, ConcatEmptySeq
    <2>4. R[k + 1] = SubSeq(l, k + 1, k) \o R[k + 1]
      BY <2>1, <2>3
    <2>5. k + 1 \in 1..k + 1
      BY <1>1
    <2> QED
      BY <2>4, <2>5
  <1>3. ASSUME NEW q \in 1..k, \A j \in q + 1..k + 1 : j \in P PROVE q \in P
    <2> SUFFICES ASSUME q >= p PROVE R[q] = SubSeq(l, q, k) \o R[k + 1]
      <3>1. q \in 1..k + 1
        BY <1>1
      <3> QED
        BY <3>1
    <2>1. q \in 1..Len(l) /\ k \in q..Len(l) /\ q + 1 \in q + 1..k + 1 /\ q + 1 >= p /\ end[q] = 0
      BY <1>1
    <2>2. Copied(S, l, R, q)
      BY <2>1, WhereNone, Zenon
    <2>3. R[q + 1] = SubSeq(l, q + 1, k) \o R[k + 1]
      BY <1>3, <2>1
    <2>4. SubSeq(l, q, k) = <<l[q]>> \o SubSeq(l, q + 1, k)
      BY <2>1, SubSeqRecursiveFirst
    <2>5. R[k + 1] \in Seq(S) /\ <<l[q]>> \in Seq(S)
      BY <1>1, <2>2 DEF Rewriting, Copied
    <2>6. SubSeq(l, q + 1, k) \in Seq(S)
      <3>1. \A i \in q + 1..k : l[i] \in S
        BY <1>1
      <3> QED
        BY <1>1, <3>1, SubSeqProperties
    <2>7. Regroups(<<l[q]>>, SubSeq(l, q + 1, k), R[k + 1])
      BY <2>5, <2>6, Regroup, Zenon
    <2>8. R[q] = <<l[q]>> \o R[q + 1]
      BY <2>2 DEF Copied
    <2> QED
      BY <2>3, <2>4, <2>7, <2>8, Zenon DEF Regroups
  <1> HIDE DEF P
  <1>4. \A q \in 1..k + 1 : q \in P
    BY <1>1, <1>2, <1>3, DownInduction
  <1>5. p \in P /\ p >= p
    BY <1>4
  <1> QED
    BY <1>5 DEF P
-----------------------------------------------------------------------------
(* An element more counts, if it is one of T.                              *)
LEMMA CountAppend ==
    ASSUME NEW S, NEW s \in Seq(S), NEW e \in S, NEW T
    PROVE  /\ IsFiniteSet({p \in DOMAIN s : s[p] \in T})
           /\ Count(Append(s, e), T) = Count(s, T) + (IF e \in T THEN 1 ELSE 0)
  <1> DEFINE t == Append(s, e)
             A == {p \in DOMAIN s : s[p] \in T}
             B == {p \in DOMAIN t : t[p] \in T}
             n == Len(s) + 1
  <1>1. /\ Len(s) \in Nat /\ DOMAIN s = 1..Len(s) /\ DOMAIN t = 1..n
        /\ t[n] = e /\ \A p \in 1..Len(s) : t[p] = s[p]
    OBVIOUS
  <1>2. IsFiniteSet(A)
    <2>1. IsFiniteSet(1..Len(s))
      BY <1>1, FS_Interval
    <2>2. A \in SUBSET (1..Len(s))
      BY <1>1
    <2> QED
      BY <2>1, <2>2, FS_Subset, Zenon
  <1>3. n \notin A
    BY <1>1
  <1>4. CASE e \in T
    <2>1. B = A \cup {n}
      <3> HIDE DEF t
      <3> QED
        BY <1>1, <1>4
    <2> HIDE DEF A, B, n
    <2>2. Cardinality(B) = Cardinality(A) + 1
      BY <1>2, <1>3, <2>1, FS_AddElement
    <2> QED
      BY <1>2, <1>4, <2>2 DEF Count, A, B
  <1>5. CASE e \notin T
    <2>1. B = A
      <3> HIDE DEF t
      <3> QED
        BY <1>1, <1>5
    <2>2. Cardinality(A) \in Nat
      BY <1>2, FS_CardinalityType, Zenon
    <2>3. Count(t, T) = Count(s, T) /\ Count(s, T) \in Nat
      BY <2>1, <2>2 DEF Count
    <2> QED
      BY <1>2, <1>5, <2>3
  <1> QED
    BY <1>4, <1>5

(* Nothing is in the empty line.                                           *)
LEMMA CountEmpty ==
    ASSUME NEW T
    PROVE  Count(<<>>, T) = 0
  <1>1. {p \in DOMAIN <<>> : <<>>[p] \in T} = {}
    OBVIOUS
  <1> QED
    BY <1>1, FS_EmptySet, Zenon DEF Count

(* A count is a number, of finitely many positions.                        *)
LEMMA CountType ==
    ASSUME NEW S, NEW s \in Seq(S), NEW T
    PROVE  Count(s, T) \in Nat /\ IsFiniteSet({p \in DOMAIN s : s[p] \in T})
  <1> DEFINE A == {p \in DOMAIN s : s[p] \in T}
  <1>1. IsFiniteSet(1..Len(s))
    BY FS_Interval
  <1>2. A \in SUBSET (1..Len(s))
    OBVIOUS
  <1>3. IsFiniteSet(A)
    BY <1>1, <1>2, FS_Subset, Zenon
  <1> QED
    BY <1>3, FS_CardinalityType, Zenon DEF Count

(* A line of one element.                                                  *)
LEMMA CountOne ==
    ASSUME NEW e, NEW T
    PROVE  Count(<<e>>, T) = IF e \in T THEN 1 ELSE 0
  <1>1. <<>> \in Seq({e}) /\ <<e>> = Append(<<>>, e) /\ e \in {e}
    OBVIOUS
  <1>2. Count(Append(<<>>, e), T) = Count(<<>>, T) + (IF e \in T THEN 1 ELSE 0)
    BY <1>1, CountAppend
  <1> QED
    BY <1>1, <1>2, CountEmpty

CountsBoth(s, t, T) == Count(s \o t, T) = Count(s, T) + Count(t, T)

(* Two lines have together what each of them has.                          *)
LEMMA CountConcat ==
    ASSUME NEW S, NEW s \in Seq(S), NEW t \in Seq(S), NEW T
    PROVE  CountsBoth(s, t, T)
  <1> DEFINE P == {u \in Seq(S) : Count(s \o u, T) = Count(s, T) + Count(u, T)}
  <1>1. <<>> \in P
    <2>1. s \o <<>> = s /\ <<>> \in Seq(S)
      BY ConcatEmptySeq, EmptySeq
    <2>2. Count(s, T) \in Nat /\ Count(<<>>, T) = 0
      BY CountEmpty, CountType
    <2> QED
      BY <2>1, <2>2
  <1>2. ASSUME NEW u \in P, NEW e \in S PROVE Append(u, e) \in P
    <2>1. u \in Seq(S) /\ s \o u \in Seq(S) /\ Append(u, e) \in Seq(S)
      BY ConcatProperties
    <2>2. s \o Append(u, e) = Append(s \o u, e)
      BY <2>1
    <2>3. Count(Append(s \o u, e), T) = Count(s \o u, T) + (IF e \in T THEN 1 ELSE 0)
      BY <2>1, CountAppend, ZenonT(30)
    <2>4. Count(Append(u, e), T) = Count(u, T) + (IF e \in T THEN 1 ELSE 0)
      BY <2>1, CountAppend
    <2>5. Count(s, T) \in Nat /\ Count(u, T) \in Nat /\ Count(s \o u, T) = Count(s, T) + Count(u, T)
      BY <2>1, CountType
    <2>6. Count(s \o Append(u, e), T) = Count(s, T) + Count(Append(u, e), T)
      BY <2>2, <2>3, <2>4, <2>5
    <2> QED
      BY <2>1, <2>6
  <1>3. P = Seq(S)
    <2>1. P \in SUBSET Seq(S)
      OBVIOUS
    <2> HIDE DEF P
    <2> QED
      BY <1>1, <1>2, <2>1, AppendInduction
  <1> QED
    BY <1>3 DEF CountsBoth

(* A multiple with one more.                                               *)
LEMMA OneMoreTime ==
    ASSUME NEW n \in Nat, NEW c \in Int
    PROVE  (n + 1) * c = n * c + c /\ n * c \in Int
  OBVIOUS

(* How often anything is in the result, if every replacement changes that  *)
(* by c: there are n of them.                                              *)
Changed(S, l, m, c, n) == \A T \in SUBSET S : Count(m, T) = Count(l, T) + n * c[T]
EachChanges(S, l, end, rep, c) ==
    \A p \in 1..Len(l) : end[p] # 0 =>
        \A T \in SUBSET S : Count(rep[p], T) = Count(SubSeq(l, p, end[p]), T) + c[T]
ChangedSo(S, l, m, c, end) ==
    \E n \in Nat : Changed(S, l, m, c, n) /\ (n = 0 => \A p \in 1..Len(l) : end[p] = 0)

(* Replacing changes how often anything is there by a multiple of what     *)
(* one match changes; if there is no match, by nothing.                    *)
LEMMA Matched ==
    ASSUME NEW S, NEW l \in Seq(S), NEW end, NEW rep, NEW R, Rewriting(S, l, end, rep, R),
           NEW c \in [SUBSET S -> Int], EachChanges(S, l, end, rep, c)
    PROVE  ChangedSo(S, l, R[1], c, end)
  <1> USE DEF EachChanges, ChangedSo
  <1> DEFINE N == Len(l)
             Suffix(p) == SubSeq(l, p, N)
             Good(p, n) == /\ Changed(S, Suffix(p), R[p], c, n)
                           /\ n = 0 => \A q \in p..N : end[q] = 0
             P == {p \in 1..N + 1 : \E n \in Nat : Good(p, n)}
  <1>1. N \in Nat /\ N + 1 \in 1..N + 1
    OBVIOUS
  <1>2. N + 1 \in P
    <2>1. Suffix(N + 1) = <<>>
      BY <1>1, SubSeqEmpty
    <2>2. R[N + 1] = <<>>
      BY NothingBehind, Zenon
    <2>3. ASSUME NEW T \in SUBSET S
          PROVE  Count(R[N + 1], T) = Count(Suffix(N + 1), T) + 0 * c[T]
      <3>1. Count(R[N + 1], T) = 0 /\ Count(Suffix(N + 1), T) = 0 /\ c[T] \in Int
        BY <2>1, <2>2, CountEmpty
      <3> QED
        BY <3>1
    <2>4. Changed(S, Suffix(N + 1), R[N + 1], c, 0)
      BY <2>3 DEF Changed
    <2>5. \A q \in N + 1..N : end[q] = 0
      BY <1>1
    <2>6. Good(N + 1, 0)
      BY <2>4, <2>5
    <2> HIDE DEF Good
    <2> QED
      BY <1>1, <2>6
  <1>3. ASSUME NEW p \in 1..N, \A q \in p + 1..N + 1 : q \in P PROVE p \in P
    <2>0. p \in 1..N + 1 /\ p \in 1..Len(l) /\ N \in p..Len(l)
      BY <1>1
    <2>1. CASE end[p] = 0
      <3>1. Copied(S, l, R, p)
        BY <2>1, WhereNone, Zenon
      <3>2. PICK n \in Nat : Good(p + 1, n)
        <4>1. p + 1 \in P
          BY <1>1, <1>3
        <4> HIDE DEF Good
        <4> QED
          BY <4>1
      <3>3. Suffix(p) = <<l[p]>> \o Suffix(p + 1)
        BY <2>0, SubSeqRecursiveFirst
      <3>4. Suffix(p + 1) \in Seq(S) /\ <<l[p]>> \in Seq(S) /\ R[p + 1] \in Seq(S)
        <4>1. \A i \in p + 1..N : l[i] \in S
          BY <1>1
        <4> QED
          BY <1>1, <3>1, <4>1, SubSeqProperties DEF Copied
      <3>5. ASSUME NEW T \in SUBSET S
            PROVE  Count(R[p], T) = Count(Suffix(p), T) + n * c[T]
        <4> HIDE DEF Suffix
        <4>1. Count(R[p + 1], T) = Count(Suffix(p + 1), T) + n * c[T]
          BY <3>2 DEF Changed
        <4>2. CountsBoth(<<l[p]>>, Suffix(p + 1), T) /\ CountsBoth(<<l[p]>>, R[p + 1], T)
          BY <3>4, CountConcat, Zenon
        <4>3. /\ Count(Suffix(p), T) = Count(<<l[p]>>, T) + Count(Suffix(p + 1), T)
              /\ Count(R[p], T) = Count(<<l[p]>>, T) + Count(R[p + 1], T)
          BY <3>1, <3>3, <4>2 DEF CountsBoth, Copied
        <4>4. /\ Count(<<l[p]>>, T) \in Nat /\ Count(Suffix(p + 1), T) \in Nat
              /\ c[T] \in Int /\ n * c[T] \in Int
          BY <3>4, CountType, OneMoreTime
        <4> HIDE DEF Good
        <4> DEFINE w == n * c[T]
        <4> HIDE DEF w
        <4>5. Count(R[p + 1], T) = Count(Suffix(p + 1), T) + w /\ w \in Int
          BY <4>1, <4>4 DEF w
        <4>6. Count(R[p], T) = Count(Suffix(p), T) + w
          BY <4>3, <4>4, <4>5
        <4> QED
          BY <4>6 DEF w
      <3>6. n = 0 => \A q \in p..N : end[q] = 0
        <4>1. n = 0 => \A q \in p + 1..N : end[q] = 0
          BY <3>2
        <4>2. \A q \in p..N : q = p \/ q \in p + 1..N
          BY <1>1
        <4> QED
          BY <2>1, <4>1, <4>2
      <3>7. Good(p, n)
        BY <3>5, <3>6 DEF Changed
      <3> HIDE DEF Good
      <3> QED
        BY <2>0, <3>7
    <2>2. CASE end[p] # 0
      <3> DEFINE e == end[p]
      <3>1. Put(S, l, end, rep, R, p)
        BY <2>2, WhereOne, Zenon
      <3>2. e \in p..N /\ e + 1 \in p + 1..N + 1 /\ rep[p] \in Seq(S) /\ R[e + 1] \in Seq(S)
            /\ R[p] = rep[p] \o R[e + 1]
        BY <3>1 DEF Put
      <3> HIDE DEF e
      <3>3. PICK n \in Nat : Good(e + 1, n)
        <4>1. e + 1 \in P
          BY <1>3, <3>2
        <4> HIDE DEF Good
        <4> QED
          BY <4>1
      <3>4. Suffix(p) = SubSeq(l, p, e) \o Suffix(e + 1)
        <4>1. p \in 1..Len(l) + 1 /\ e \in p - 1..Len(l) /\ N \in e..Len(l)
          BY <1>1, <3>2
        <4> QED
          BY <4>1, ConcatAdjacentSubSeq
      <3>5. Suffix(e + 1) \in Seq(S) /\ SubSeq(l, p, e) \in Seq(S)
        <4>1. (\A i \in p..e : l[i] \in S) /\ (\A i \in e + 1..N : l[i] \in S)
          BY <1>1, <3>2
        <4> QED
          BY <1>1, <3>2, <4>1, SubSeqProperties
      <3>6. ASSUME NEW T \in SUBSET S
            PROVE  Count(R[p], T) = Count(Suffix(p), T) + (n + 1) * c[T]
        <4>0. Count(rep[p], T) = Count(SubSeq(l, p, e), T) + c[T]
          BY <2>0, <2>2 DEF e
        <4>1. Count(R[e + 1], T) = Count(Suffix(e + 1), T) + n * c[T]
          BY <3>3 DEF Changed
        <4> HIDE DEF Suffix, Good
        <4>2. CountsBoth(SubSeq(l, p, e), Suffix(e + 1), T) /\ CountsBoth(rep[p], R[e + 1], T)
          BY <3>2, <3>5, CountConcat, Zenon
        <4>3. /\ Count(Suffix(p), T) = Count(SubSeq(l, p, e), T) + Count(Suffix(e + 1), T)
              /\ Count(R[p], T) = Count(rep[p], T) + Count(R[e + 1], T)
          BY <3>2, <3>4, <4>2 DEF CountsBoth
        <4>4. /\ Count(SubSeq(l, p, e), T) \in Nat /\ Count(Suffix(e + 1), T) \in Nat
              /\ c[T] \in Int /\ n * c[T] \in Int /\ (n + 1) * c[T] = n * c[T] + c[T]
          BY <3>5, CountType, OneMoreTime
        <4> DEFINE w == n * c[T]
                   v == (n + 1) * c[T]
        <4> HIDE DEF w, v
        <4>5. /\ Count(R[e + 1], T) = Count(Suffix(e + 1), T) + w /\ w \in Int /\ v = w + c[T]
              /\ Count(SubSeq(l, p, e), T) \in Nat /\ Count(Suffix(e + 1), T) \in Nat
              /\ c[T] \in Int
          BY <4>1, <4>4 DEF w, v
        <4>6. Count(R[p], T) = Count(Suffix(p), T) + v
          BY <4>0, <4>3, <4>5, SMTT(30)
        <4> QED
          BY <4>6 DEF v
      <3>7. Good(p, n + 1)
        BY <3>6 DEF Changed
      <3> HIDE DEF Good
      <3>8. n + 1 \in Nat
        OBVIOUS
      <3> QED
        BY <2>0, <3>7, <3>8
    <2> QED
      BY <2>1, <2>2
  <1>4. 1 \in P
    <2> HIDE DEF P
    <2>1. \A p \in 1..N + 1 : p \in P
      BY <1>1, <1>2, <1>3, DownInduction
    <2>2. 1 \in 1..N + 1
      BY <1>1
    <2> QED
      BY <2>1, <2>2
  <1>5. PICK n \in Nat : Good(1, n)
    <2> HIDE DEF Good
    <2> QED
      BY <1>4
  <1>6. Suffix(1) = l
    BY SubSeqFull
  <1> QED
    BY <1>5, <1>6

(* A line without a match is as it was.                                    *)
LEMMA Unmatched ==
    ASSUME NEW S, NEW l \in Seq(S), NEW end, NEW rep, NEW R, Rewriting(S, l, end, rep, R),
           \A p \in 1..Len(l) : end[p] = 0
    PROVE  R[1] = l
  <1> DEFINE k == Len(l)
  <1>1. k \in 0..Len(l) /\ 1 \in 1..k + 1 /\ NoMatch(end, 1, k)
    BY DEF NoMatch
  <1>2. CopiedUpto(l, R, 1, k)
    <2> HIDE DEF k
    <2> QED
      BY <1>1, WhereNoneUpto, Zenon
  <1>3. R[Len(l) + 1] = <<>>
    BY NothingBehind, Zenon
  <1>4. SubSeq(l, 1, Len(l)) = l /\ l \o <<>> = l
    BY SubSeqFull, ConcatEmptySeq
  <1> QED
    BY <1>2, <1>3, <1>4 DEF CopiedUpto

-----------------------------------------------------------------------------
IsNext(l, tokens, p, n) ==
    /\ n \in p..Len(l) + 1
    /\ n = Len(l) + 1 \/ l[n] \in tokens
    /\ \A k \in p..n - 1 : l[k] \notin tokens

(* NextOf is the first position of one of the tokens, ...                  *)
LEMMA NextOfIs ==
    ASSUME NEW S, NEW l \in Seq(S), NEW tokens, NEW p \in 1..Len(l) + 1
    PROVE  IsNext(l, tokens, p, NextOf(l, tokens, p))
  <1> DEFINE P == {q \in 1..Len(l) + 1 : \E n \in q..Len(l) + 1 : IsNext(l, tokens, q, n)}
  <1>1. Len(l) \in Nat
    OBVIOUS
  <1>2. Len(l) + 1 \in P
    <2>1. IsNext(l, tokens, Len(l) + 1, Len(l) + 1)
      BY <1>1 DEF IsNext
    <2> QED
      BY <1>1, <2>1
  <1>3. ASSUME NEW q \in 1..Len(l), \A r \in q + 1..Len(l) + 1 : r \in P PROVE q \in P
    <2>1. CASE l[q] \in tokens
      <3>1. IsNext(l, tokens, q, q)
        BY <1>1, <2>1 DEF IsNext
      <3> QED
        BY <1>1, <3>1
    <2>2. CASE l[q] \notin tokens
      <3>1. q + 1 \in P
        BY <1>1, <1>3
      <3>2. PICK n \in q + 1..Len(l) + 1 : IsNext(l, tokens, q + 1, n)
        BY <3>1
      <3>3. \A k \in q..n - 1 : k = q \/ k \in q + 1..n - 1
        BY <1>1
      <3>4. IsNext(l, tokens, q, n) /\ n \in q..Len(l) + 1
        BY <1>1, <2>2, <3>2, <3>3 DEF IsNext
      <3> QED
        BY <1>1, <3>4
    <2> QED
      BY <2>1, <2>2
  <1>4. p \in P
    <2> HIDE DEF P
    <2>1. \A q \in 1..Len(l) + 1 : q \in P
      BY <1>1, <1>2, <1>3, DownInduction
    <2> QED
      BY <2>1
  <1>5. \E n \in p..Len(l) + 1 : IsNext(l, tokens, p, n)
    BY <1>4
  <1> QED
    BY <1>5 DEF NextOf, IsNext

(* and the only one.                                                       *)
LEMMA NextOfUnique ==
    ASSUME NEW S, NEW l \in Seq(S), NEW tokens, NEW p \in 1..Len(l) + 1, NEW n,
           IsNext(l, tokens, p, n)
    PROVE  NextOf(l, tokens, p) = n
  <1> DEFINE m == NextOf(l, tokens, p)
  <1>1. IsNext(l, tokens, p, m)
    BY NextOfIs, Zenon
  <1> HIDE DEF m
  <1>2. Len(l) \in Nat /\ p \in Nat
    OBVIOUS
  <1>3. ~(m < n)
    BY <1>1, <1>2 DEF IsNext
  <1>4. ~(n < m)
    BY <1>1, <1>2 DEF IsNext
  <1>5. m \in Int /\ n \in Int
    BY <1>1, <1>2 DEF IsNext
  <1>6. m = n
    BY <1>3, <1>4, <1>5
  <1> QED
    BY <1>6 DEF m

(* A match of an expression for emphasis or code, from p to e.             *)
Span(l, p, e, mark) ==
    /\ e \in p + 2 * Len(mark) - 1..Len(l)
    /\ SubSeq(l, p, p + Len(mark) - 1) = mark
    /\ SubSeq(l, e - Len(mark) + 1, e) = mark
    /\ \A k \in p + Len(mark)..e - Len(mark) : l[k] # mark[1]

(* What Delimited finds is a span.                                         *)
LEMMA DelimitedIs ==
    ASSUME NEW S, NEW l \in Seq(S), NEW mark \in Seq(S), Len(mark) > 0,
           NEW p \in 1..Len(l), Delimited(l, p, mark) # 0
    PROVE  Span(l, p, Delimited(l, p, mark), mark)
  <1> DEFINE m == Len(mark)
             close == NextOf(l, {mark[1]}, p + m)
  <1>1. Occurs(l, mark, p) /\ Occurs(l, mark, close) /\ Delimited(l, p, mark) = close + m - 1
    BY DEF Delimited
  <1>2. m \in Nat /\ m > 0 /\ Len(l) \in Nat
    OBVIOUS
  <1> HIDE DEF m
  <1>3. p + m - 1 <= Len(l) /\ SubSeq(l, p, p + m - 1) = mark
    BY <1>1 DEF Occurs, m
  <1>4. IsNext(l, {mark[1]}, p + m, close)
    <2>1. p + m \in 1..Len(l) + 1
      BY <1>2, <1>3
    <2> QED
      BY <2>1, NextOfIs, Zenon
  <1> HIDE DEF close
  <1>5. close + m - 1 <= Len(l) /\ SubSeq(l, close, close + m - 1) = mark
    BY <1>1 DEF Occurs, m
  <1>6. close \in p + m..Len(l) + 1 /\ \A k \in p + m..close - 1 : l[k] # mark[1]
    BY <1>4 DEF IsNext
  <1> DEFINE e == close + m - 1
  <1>7. e \in p + 2 * m - 1..Len(l) /\ e - m + 1 = close /\ e - m = close - 1
    BY <1>2, <1>5, <1>6
  <1>8. SubSeq(l, e - m + 1, e) = mark
    BY <1>5, <1>7
  <1>9. \A k \in p + m..e - m : l[k] # mark[1]
    BY <1>6, <1>7
  <1> HIDE DEF e
  <1>10. Span(l, p, e, mark)
    BY <1>3, <1>7, <1>8, <1>9 DEF Span, m
  <1> QED
    BY <1>1, <1>10 DEF e

(* It is the mark, what is between, and the mark.                          *)
Inner(l, p, e, mark) == SubSeq(l, p + Len(mark), e - Len(mark))
SpanParts(S, l, p, e, mark) ==
    /\ Inner(l, p, e, mark) \in Seq(S)
    /\ SubSeq(l, p, e) = mark \o (Inner(l, p, e, mark) \o mark)

(* A span is made of three parts.                                          *)
LEMMA SpanIs ==
    ASSUME NEW S, NEW l \in Seq(S), NEW mark \in Seq(S), Len(mark) > 0,
           NEW p \in 1..Len(l), NEW e, Span(l, p, e, mark)
    PROVE  SpanParts(S, l, p, e, mark)
  <1> DEFINE m == Len(mark)
  <1>1. m \in Nat /\ m > 0 /\ Len(l) \in Nat
    OBVIOUS
  <1>2. /\ e \in p + 2 * m - 1..Len(l)
        /\ SubSeq(l, p, p + m - 1) = mark /\ SubSeq(l, e - m + 1, e) = mark
    BY DEF Span
  <1>3. Inner(l, p, e, mark) = SubSeq(l, p + m, e - m)
    BY DEF Inner
  <1> HIDE DEF m
  <1>4. Inner(l, p, e, mark) \in Seq(S)
    <2>1. \A i \in p + m..e - m : l[i] \in S
      BY <1>1, <1>2
    <2>2. p + m \in Int /\ e - m \in Int
      BY <1>1, <1>2
    <2> QED
      BY <1>3, <2>1, <2>2, SubSeqProperties
  <1>5. SubSeq(l, p, p + m - 1) \o SubSeq(l, p + m, e) = SubSeq(l, p, e)
    <2> DEFINE k == p + m - 1
    <2>1. p \in 1..Len(l) + 1 /\ k \in p - 1..Len(l) /\ e \in k..Len(l) /\ k + 1 = p + m
      BY <1>1, <1>2
    <2> HIDE DEF k
    <2>2. SubSeq(l, p, k) \o SubSeq(l, k + 1, e) = SubSeq(l, p, e)
      BY <2>1, ConcatAdjacentSubSeq
    <2> QED
      BY <2>1, <2>2 DEF k
  <1>6. SubSeq(l, p + m, e - m) \o SubSeq(l, e - m + 1, e) = SubSeq(l, p + m, e)
    <2> DEFINE k == e - m
               q == p + m
    <2>1. q \in 1..Len(l) + 1 /\ k \in q - 1..Len(l) /\ e \in k..Len(l)
      BY <1>1, <1>2
    <2> HIDE DEF k, q
    <2>2. SubSeq(l, q, k) \o SubSeq(l, k + 1, e) = SubSeq(l, q, e)
      BY <2>1, ConcatAdjacentSubSeq
    <2> QED
      BY <2>2 DEF k, q
  <1> QED
    BY <1>2, <1>3, <1>4, <1>5, <1>6 DEF SpanParts

-----------------------------------------------------------------------------
One(e, T) == IF e \in T THEN 1 ELSE 0

(* A stretch that is cut in two.                                           *)
LEMMA CountSplit ==
    ASSUME NEW S, NEW l \in Seq(S), NEW T, NEW a \in 1..Len(l) + 1, NEW b \in a - 1..Len(l),
           NEW c \in b..Len(l)
    PROVE  /\ Count(SubSeq(l, a, c), T) = Count(SubSeq(l, a, b), T) + Count(SubSeq(l, b + 1, c), T)
           /\ Count(SubSeq(l, a, b), T) \in Nat /\ Count(SubSeq(l, b + 1, c), T) \in Nat
  <1>1. SubSeq(l, a, b) \o SubSeq(l, b + 1, c) = SubSeq(l, a, c)
    BY ConcatAdjacentSubSeq
  <1>2. SubSeq(l, a, b) \in Seq(S) /\ SubSeq(l, b + 1, c) \in Seq(S)
    <2>1. (\A i \in a..b : l[i] \in S) /\ (\A i \in b + 1..c : l[i] \in S)
      OBVIOUS
    <2>2. a \in Int /\ b \in Int /\ b + 1 \in Int /\ c \in Int
      OBVIOUS
    <2> QED
      BY <2>1, <2>2, SubSeqProperties
  <1>3. CountsBoth(SubSeq(l, a, b), SubSeq(l, b + 1, c), T)
    BY <1>2, CountConcat, Zenon
  <1> QED
    BY <1>1, <1>2, <1>3, CountType DEF CountsBoth

(* With one element in front, or behind.                                   *)
LEMMA CountFirst ==
    ASSUME NEW S, NEW l \in Seq(S), NEW T, NEW a \in 1..Len(l), NEW c \in a..Len(l)
    PROVE  /\ Count(SubSeq(l, a, c), T) = One(l[a], T) + Count(SubSeq(l, a + 1, c), T)
           /\ Count(SubSeq(l, a + 1, c), T) \in Nat
  <1>1. SubSeq(l, a, a) = <<l[a]>>
    <2> DEFINE s == SubSeq(l, a, a)
    <2>1. a \in Int /\ \A i \in a..a : l[i] \in S
      OBVIOUS
    <2>2. s \in Seq(S) /\ Len(s) = 1 /\ s[1] = l[a]
      BY <2>1, SubSeqProperties
    <2> HIDE DEF s
    <2>3. s = <<l[a]>>
      BY <2>2
    <2> QED
      BY <2>3 DEF s
  <1>2. a \in 1..Len(l) + 1 /\ a \in a - 1..Len(l)
    OBVIOUS
  <1>3. /\ Count(SubSeq(l, a, c), T) = Count(SubSeq(l, a, a), T) + Count(SubSeq(l, a + 1, c), T)
        /\ Count(SubSeq(l, a + 1, c), T) \in Nat
    BY <1>2, CountSplit
  <1> QED
    BY <1>1, <1>3, CountOne DEF One

CountsThree(a, b, c, T) ==
    /\ Count(a \o b \o c, T) = Count(a, T) + Count(b, T) + Count(c, T)
    /\ Count(a, T) \in Nat /\ Count(b, T) \in Nat /\ Count(c, T) \in Nat

(* Three lines one behind the other.                                       *)
LEMMA CountThree ==
    ASSUME NEW S, NEW a \in Seq(S), NEW b \in Seq(S), NEW c \in Seq(S), NEW T
    PROVE  CountsThree(a, b, c, T)
  <1>1. a \o b \in Seq(S)
    BY ConcatProperties
  <1>2. CountsBoth(a, b, T) /\ CountsBoth(a \o b, c, T)
    BY <1>1, CountConcat, Zenon
  <1>3. Count(a, T) \in Nat /\ Count(b, T) \in Nat /\ Count(c, T) \in Nat
    BY CountType
  <1> QED
    BY <1>2, <1>3 DEF CountsBoth, CountsThree

(* What a parser makes of a line: c is what a match changes.               *)
Rewrote(S, l, m, c, end) ==
    /\ m \in Seq(S)
    /\ \E n \in Nat : /\ Changed(S, l, m, c, n)
                      /\ n = 0 => m = l /\ NoMatch(end, 1, Len(l))

(* What Replace makes of a line when every match changes it by c.          *)
LEMMA RewroteIs ==
    ASSUME NEW S, NEW l \in Seq(S), NEW end, NEW rep, NEW R, Rewriting(S, l, end, rep, R),
           NEW c \in [SUBSET S -> Int], EachChanges(S, l, end, rep, c)
    PROVE  Rewrote(S, l, R[1], c, end)
  <1>0. ChangedSo(S, l, R[1], c, end)
    BY Matched, Zenon
  <1>1. PICK n \in Nat : Changed(S, l, R[1], c, n) /\ (n = 0 => \A p \in 1..Len(l) : end[p] = 0)
    BY <1>0 DEF ChangedSo
  <1>2. n = 0 => R[1] = l
    BY <1>1, Unmatched
  <1>3. R[1] \in Seq(S)
    <2>1. 1 \in 1..Len(l) + 1
      OBVIOUS
    <2> QED
      BY <2>1 DEF Rewriting
  <1> QED
    BY <1>1, <1>2, <1>3 DEF Rewrote, NoMatch

SpanRep(l, end, mark, open, close) ==
    [p \in DOMAIN l |-> <<open>> \o SubSeq(l, p + Len(mark), end[p] - Len(mark)) \o <<close>>]
SpanEnds(l, end, mark) == \A p \in 1..Len(l) : end[p] # 0 => Span(l, p, end[p], mark)
SpanChange(S, mark, open, close) ==
    [T \in SUBSET S |-> One(open, T) + One(close, T) - 2 * Count(mark, T)]

(* Spans replaces spans.                                                   *)
LEMMA SpansRewrite ==
    ASSUME NEW S, NEW l \in Seq(S), NEW mark \in Seq(S), Len(mark) > 0,
           NEW open \in S, NEW close \in S, NEW end, SpanEnds(l, end, mark)
    PROVE  ReplacedBy(S, l, end, SpanRep(l, end, mark, open, close),
                      Spans(l, end, mark, open, close))
  <1> DEFINE rep == SpanRep(l, end, mark, open, close)
  <1>1. ASSUME NEW p \in 1..Len(l), end[p] # 0
        PROVE  rep[p] \in Seq(S) /\ end[p] \in p..Len(l)
    <2>1. Span(l, p, end[p], mark)
      BY <1>1 DEF SpanEnds
    <2>2. SpanParts(S, l, p, end[p], mark)
      BY <2>1, SpanIs, Zenon
    <2>3. Inner(l, p, end[p], mark) \in Seq(S) /\ <<open>> \in Seq(S) /\ <<close>> \in Seq(S)
      BY <2>2 DEF SpanParts
    <2>4. <<open>> \o Inner(l, p, end[p], mark) \in Seq(S)
      BY <2>3, ConcatProperties
    <2>5. (<<open>> \o Inner(l, p, end[p], mark)) \o <<close>> \in Seq(S)
      BY <2>3, <2>4, ConcatProperties
    <2>6. p \in DOMAIN l
      OBVIOUS
    <2>7. end[p] \in p..Len(l)
      BY <2>1 DEF Span
    <2> QED
      BY <2>5, <2>6, <2>7 DEF SpanRep, Inner
  <1>2. Replaceable(S, l, end, rep)
    <2> HIDE DEF rep
    <2> QED
      BY <1>1 DEF Replaceable, MatchEnds
  <1>3. ReplacedBy(S, l, end, rep, Replace(l, end, rep))
    <2> HIDE DEF rep
    <2> QED
      BY <1>2, ReplaceIs, Zenon
  <1> QED
    BY <1>3, Zenon DEF Spans, SpanRep

(* A span loses two marks and gets two tags.                               *)
LEMMA SpansRewrote ==
    ASSUME NEW S, NEW l \in Seq(S), NEW mark \in Seq(S), Len(mark) > 0,
           NEW open \in S, NEW close \in S, NEW end, SpanEnds(l, end, mark)
    PROVE  Rewrote(S, l, Spans(l, end, mark, open, close), SpanChange(S, mark, open, close), end)
  <1> DEFINE rep == SpanRep(l, end, mark, open, close)
             c == SpanChange(S, mark, open, close)
  <1>0. ReplacedBy(S, l, end, rep, Spans(l, end, mark, open, close))
    BY SpansRewrite, Zenon
  <1>1. PICK R : Rewriting(S, l, end, rep, R) /\ Spans(l, end, mark, open, close) = R[1]
    BY <1>0, Zenon DEF ReplacedBy
  <1>2. c \in [SUBSET S -> Int]
    <2>1. \A T \in SUBSET S : Count(mark, T) \in Nat
      BY CountType
    <2> QED
      BY <2>1 DEF SpanChange, One
  <1>3. ASSUME NEW p \in 1..Len(l), end[p] # 0, NEW T \in SUBSET S
        PROVE  Count(rep[p], T) = Count(SubSeq(l, p, end[p]), T) + c[T]
    <2> DEFINE in == Inner(l, p, end[p], mark)
    <2>1. SpanParts(S, l, p, end[p], mark)
      <3>1. Span(l, p, end[p], mark)
        BY <1>3 DEF SpanEnds
      <3> QED
        BY <3>1, SpanIs, Zenon
    <2>2. in \in Seq(S) /\ <<open>> \in Seq(S) /\ <<close>> \in Seq(S) /\ in \o mark \in Seq(S)
          /\ SubSeq(l, p, end[p]) = mark \o (in \o mark)
      BY <2>1, ConcatProperties DEF SpanParts
    <2>3. rep[p] = <<open>> \o in \o <<close>>
      <3>1. p \in DOMAIN l
        OBVIOUS
      <3> QED
        BY <3>1, Zenon DEF SpanRep, Inner
    <2> HIDE DEF in
    <2>4. CountsThree(<<open>>, in, <<close>>, T)
      BY <2>2, CountThree, Zenon
    <2>5. CountsBoth(mark, in \o mark, T) /\ CountsBoth(in, mark, T)
      BY <2>2, CountConcat, Zenon
    <2>6. Count(<<open>>, T) = One(open, T) /\ Count(<<close>>, T) = One(close, T)
      BY CountOne DEF One
    <2>7. c[T] = One(open, T) + One(close, T) - 2 * Count(mark, T)
      BY DEF SpanChange
    <2>8. Count(mark, T) \in Nat /\ One(open, T) \in Nat /\ One(close, T) \in Nat
      BY CountType DEF One
    <2>9. Count(rep[p], T) = One(open, T) + Count(in, T) + One(close, T) /\ Count(in, T) \in Nat
      BY <2>3, <2>4, <2>6 DEF CountsThree
    <2>10. Count(SubSeq(l, p, end[p]), T) = Count(mark, T) + (Count(in, T) + Count(mark, T))
      BY <2>2, <2>5 DEF CountsBoth
    <2> HIDE DEF rep, c
    <2> QED
      BY <2>7, <2>8, <2>9, <2>10
  <1> HIDE DEF rep, c
  <1>4. EachChanges(S, l, end, rep, c)
    BY <1>3 DEF EachChanges
  <1>5. Rewrote(S, l, R[1], c, end)
    BY <1>1, <1>2, <1>4, RewroteIs, Zenon
  <1> QED
    BY <1>1, <1>5 DEF c

-----------------------------------------------------------------------------
(* One token occurs where the line has it, ...                             *)
LEMMA OccursOne ==
    ASSUME NEW S, NEW l \in Seq(S), NEW a, NEW p \in Nat \ {0}
    PROVE  Occurs(l, <<a>>, p) <=> p <= Len(l) /\ l[p] = a
  <1> DEFINE s == SubSeq(l, p, p)
  <1>1. Len(l) \in Nat /\ Len(<<a>>) = 1 /\ p + 1 - 1 = p
    OBVIOUS
  <1>2. ASSUME p <= Len(l) PROVE s = <<a>> <=> l[p] = a
    <2>1. p \in Int /\ \A i \in p..p : l[i] \in S
      BY <1>1, <1>2
    <2>2. s \in Seq(S) /\ Len(s) = 1 /\ s[1] = l[p]
      BY <2>1, SubSeqProperties
    <2> HIDE DEF s
    <2> QED
      BY <2>2
  <1> QED
    BY <1>1, <1>2 DEF Occurs

(* and two where it has one and then the other.                            *)
LEMMA OccursTwo ==
    ASSUME NEW S, NEW l \in Seq(S), NEW a, NEW b, NEW p \in Nat \ {0}
    PROVE  Occurs(l, <<a, b>>, p) <=> p + 1 <= Len(l) /\ l[p] = a /\ l[p + 1] = b
  <1> DEFINE s == SubSeq(l, p, p + 1)
  <1>1. Len(l) \in Nat /\ Len(<<a, b>>) = 2 /\ p + 2 - 1 = p + 1
    OBVIOUS
  <1>2. ASSUME p + 1 <= Len(l) PROVE s = <<a, b>> <=> l[p] = a /\ l[p + 1] = b
    <2>1. p \in Int /\ p + 1 \in Int /\ \A i \in p..p + 1 : l[i] \in S
      BY <1>1, <1>2
    <2>2. s \in Seq(S) /\ Len(s) = 2 /\ s[1] = l[p] /\ s[2] = l[p + 1]
      BY <2>1, SubSeqProperties
    <2> HIDE DEF s
    <2> QED
      BY <2>2
  <1> QED
    BY <1>1, <1>2 DEF Occurs

(* A match of the expression for links: its address starts at u, and it    *)
(* ends at e.                                                              *)
Bracket(l, p, u, e) ==
    /\ u - 2 = NextOf(l, {"]"}, p + 1)
    /\ p < u - 2 /\ u <= e /\ e <= Len(l)
    /\ l[p] = "[" /\ l[u - 2] = "]" /\ l[u - 1] = "(" /\ l[e] = ")"
    /\ \A k \in p + 1..u - 3 : l[k] # "]"
    /\ \A k \in u..e : l[k] # "]"
    /\ e \in AddressEnds(l, u) /\ \A n \in AddressEnds(l, u) : n <= e

(* An address may end at a ")" that has no "]" in front of it.             *)
LEMMA AddressEndsAre ==
    ASSUME NEW S, NEW l \in Seq(S), NEW u \in 1..Len(l) + 1, NEW n
    PROVE  n \in AddressEnds(l, u) <=>
               n \in u..Len(l) /\ l[n] = ")" /\ \A k \in u..n : l[k] # "]"
  <1> DEFINE next == NextOf(l, {"]"}, u)
  <1>1. IsNext(l, {"]"}, u, next)
    BY NextOfIs, Zenon
  <1>2. n \in AddressEnds(l, u) <=> n \in u..next - 1 /\ l[n] = ")"
    BY DEF AddressEnds
  <1> HIDE DEF next
  <1>3. Len(l) \in Nat /\ u \in Nat /\ next \in u..Len(l) + 1
    BY <1>1 DEF IsNext
  <1>4. ASSUME n \in u..next - 1
        PROVE  n \in u..Len(l) /\ \A k \in u..n : l[k] # "]"
    BY <1>1, <1>3, <1>4 DEF IsNext
  <1>5. ASSUME n \in u..Len(l), \A k \in u..n : l[k] # "]" PROVE n \in u..next - 1
    <2>1. next # Len(l) + 1 => l[next] = "]"
      BY <1>1 DEF IsNext
    <2> QED
      BY <1>3, <1>5, <2>1
  <1> QED
    BY <1>2, <1>4, <1>5

(* What Bracketed finds is a bracket, its text and its address.            *)
LEMMA BracketedIs ==
    ASSUME NEW S, NEW l \in Seq(S), NEW p \in 1..Len(l), Bracketed(l, p) # 0
    PROVE  Bracket(l, p, UrlStart(l, p), Bracketed(l, p))
  <1> DEFINE u == UrlStart(l, p)
             E == AddressEnds(l, u)
             e == Bracketed(l, p)
             next == NextOf(l, {"]"}, p + 1)
  <1>1. /\ Occurs(l, <<"[">>, p) /\ Occurs(l, <<"]", "(">>, u - 2) /\ E # {}
        /\ e = CHOOSE n \in E : \A m \in E : m <= n
    BY DEF Bracketed
  <1>2. IsNext(l, {"]"}, p + 1, next)
    <2>1. p + 1 \in 1..Len(l) + 1
      OBVIOUS
    <2> QED
      BY <2>1, NextOfIs, Zenon
  <1>3. u - 2 = next
    <2>1. u = next + 2
      BY Zenon DEF UrlStart
    <2> HIDE DEF next, u
    <2>2. next \in Int
      BY <1>2 DEF IsNext
    <2> QED
      BY <2>1, <2>2
  <1> HIDE DEF next, u, e, E
  <1>4. next \in p + 1..Len(l) + 1 /\ p \in Nat /\ Len(l) \in Nat /\ u \in Int
        /\ \A k \in p + 1..next - 1 : l[k] # "]"
    BY <1>2, <1>3 DEF IsNext, UrlStart, u, next
  <1>5. p <= Len(l) /\ l[p] = "["
    BY <1>1, <1>4, OccursOne
  <1>6. next + 1 <= Len(l) /\ l[next] = "]" /\ l[next + 1] = "("
    <2>1. next \in Nat \ {0} /\ Occurs(l, <<"]", "(">>, next)
      BY <1>1, <1>3, <1>4
    <2> QED
      BY <2>1, OccursTwo
  <1>7. u \in 1..Len(l) + 1 /\ u = next + 2
    BY <1>3, <1>4, <1>6
  <1>8. e \in E /\ \A n \in E : n <= e
    <2>1. E \in SUBSET (0..Len(l))
      <3>1. \A n \in E : n \in u..Len(l)
        BY <1>7, AddressEndsAre DEF E
      <3> QED
        BY <1>7, <3>1
    <2>2. \E n \in E : \A m \in E : m <= n
      BY <1>1, <1>4, <2>1, MaxExists
    <2> QED
      BY <1>1, <2>2
  <1>9. e \in u..Len(l) /\ l[e] = ")" /\ \A k \in u..e : l[k] # "]"
    BY <1>7, <1>8, AddressEndsAre DEF E
  <1>10. p < u - 2 /\ u <= e /\ e <= Len(l) /\ u - 1 = next + 1 /\ u - 3 = next - 1
    BY <1>4, <1>7, <1>9
  <1>11. Bracket(l, p, u, e)
    BY <1>3, <1>4, <1>5, <1>6, <1>8, <1>9, <1>10 DEF Bracket, E, next
  <1> QED
    BY <1>11 DEF u, e

(* There is a match where these are in the line.                           *)
LEMMA BracketedHere ==
    ASSUME NEW S, NEW l \in Seq(S), NEW p \in 1..Len(l), NEW j \in p + 1..Len(l) - 1,
           l[p] = "[", l[j] = "]", l[j + 1] = "(", \A k \in p + 1..j - 1 : l[k] # "]",
           NEW n \in AddressEnds(l, j + 2)
    PROVE  Bracketed(l, p) # 0
  <1> DEFINE E == AddressEnds(l, j + 2)
  <1>1. Len(l) \in Nat /\ p \in Nat \ {0} /\ j \in Nat \ {0} /\ j + 1 <= Len(l) /\ p + 1 \in 1..Len(l) + 1
    OBVIOUS
  <1>2. IsNext(l, {"]"}, p + 1, j)
    BY <1>1 DEF IsNext
  <1>3. NextOf(l, {"]"}, p + 1) = j
    BY <1>1, <1>2, NextOfUnique, Zenon
  <1>4. UrlStart(l, p) = j + 2
    BY <1>3 DEF UrlStart
  <1>5. Occurs(l, <<"[">>, p)
    BY <1>1, OccursOne
  <1>6. Occurs(l, <<"]", "(">>, j)
    BY <1>1, OccursTwo
  <1>7. (j + 2) - 2 = j
    BY <1>1
  <1>8. \A m \in E : m \in j + 2..Len(l)
    <2>1. j + 2 \in 1..Len(l) + 1
      BY <1>1
    <2> QED
      BY <2>1, AddressEndsAre
  <1>9. \E e \in E : \A m \in E : m <= e
    <2>1. E \in SUBSET (0..Len(l)) /\ E # {}
      <3> HIDE DEF E
      <3>1. E \in SUBSET (0..Len(l))
        BY <1>1, <1>8
      <3>2. E # {}
        BY DEF E
      <3> QED
        BY <3>1, <3>2
    <2> HIDE DEF E
    <2> QED
      BY <1>1, <2>1, MaxExists
  <1>10. Bracketed(l, p) = CHOOSE e \in E : \A m \in E : m <= e
    BY <1>4, <1>5, <1>6, <1>7, Zenon DEF Bracketed
  <1> HIDE DEF E
  <1>11. Bracketed(l, p) \in E
    BY <1>9, <1>10
  <1> QED
    BY <1>1, <1>8, <1>11

(* What a bracket, its text, its address and their delimiters hold.        *)
BracketHolds(S, l, p, u, e, T) ==
    /\ SubSeq(l, p + 1, u - 3) \in Seq(S) /\ SubSeq(l, u, e - 1) \in Seq(S)
    /\ Count(SubSeq(l, p, e), T) =
           One("[", T) + One("]", T) + One("(", T) + One(")", T)
           + Count(SubSeq(l, p + 1, u - 3), T) + Count(SubSeq(l, u, e - 1), T)
    /\ Count(SubSeq(l, p + 1, u - 3), T) \in Nat /\ Count(SubSeq(l, u, e - 1), T) \in Nat

(* What a match holds is its four delimiters, its text and its address.    *)
LEMMA BracketCount ==
    ASSUME NEW S, NEW l \in Seq(S), NEW p \in 1..Len(l), NEW u \in Nat, NEW e \in Nat,
           Bracket(l, p, u, e), NEW T
    PROVE  BracketHolds(S, l, p, u, e, T)
  <1> DEFINE N(a, b) == Count(SubSeq(l, a, b), T)
  <1>1. /\ p < u - 2 /\ u <= e /\ e <= Len(l) /\ Len(l) \in Nat /\ p \in Nat
        /\ l[p] = "[" /\ l[u - 2] = "]" /\ l[u - 1] = "(" /\ l[e] = ")"
    BY DEF Bracket
  <1>2. SubSeq(l, p + 1, u - 3) \in Seq(S) /\ SubSeq(l, u, e - 1) \in Seq(S)
    <2>1. \A i \in p + 1..u - 3 : l[i] \in S
      BY <1>1
    <2>2. \A i \in u..e - 1 : l[i] \in S
      BY <1>1
    <2>3. p + 1 \in Int /\ u - 3 \in Int /\ e - 1 \in Int /\ u \in Int
      BY <1>1
    <2> QED
      BY <2>1, <2>2, <2>3, SubSeqProperties
  <1>3. N(p, e) = One("[", T) + N(p + 1, e)
    <2>1. p \in 1..Len(l) /\ e \in p..Len(l)
      BY <1>1
    <2> QED
      BY <1>1, <2>1, CountFirst
  <1>4. N(p + 1, e) = N(p + 1, u - 3) + N(u - 2, e) /\ N(p + 1, u - 3) \in Nat
    <2>1. p + 1 \in 1..Len(l) + 1 /\ u - 3 \in (p + 1) - 1..Len(l) /\ e \in u - 3..Len(l)
          /\ (u - 3) + 1 = u - 2
      BY <1>1
    <2>2. N(p + 1, e) = N(p + 1, u - 3) + N((u - 3) + 1, e) /\ N(p + 1, u - 3) \in Nat
      BY <2>1, CountSplit
    <2> QED
      BY <2>1, <2>2
  <1>5. N(u - 2, e) = One("]", T) + N(u - 1, e)
    <2>1. u - 2 \in 1..Len(l) /\ e \in u - 2..Len(l) /\ (u - 2) + 1 = u - 1
      BY <1>1
    <2>2. N(u - 2, e) = One(l[u - 2], T) + N((u - 2) + 1, e)
      BY <2>1, CountFirst
    <2> QED
      BY <1>1, <2>1, <2>2
  <1>6. N(u - 1, e) = One("(", T) + N(u, e)
    <2>1. u - 1 \in 1..Len(l) /\ e \in u - 1..Len(l) /\ (u - 1) + 1 = u
      BY <1>1
    <2>2. N(u - 1, e) = One(l[u - 1], T) + N((u - 1) + 1, e)
      BY <2>1, CountFirst
    <2> QED
      BY <1>1, <2>1, <2>2
  <1>7. N(u, e) = N(u, e - 1) + N(e, e) /\ N(u, e - 1) \in Nat
    <2>1. u \in 1..Len(l) + 1 /\ e - 1 \in u - 1..Len(l) /\ e \in e - 1..Len(l) /\ (e - 1) + 1 = e
      BY <1>1
    <2>2. N(u, e) = N(u, e - 1) + N((e - 1) + 1, e) /\ N(u, e - 1) \in Nat
      BY <2>1, CountSplit
    <2> QED
      BY <2>1, <2>2
  <1>8. N(e, e) = One(")", T)
    <2>1. e \in 1..Len(l) /\ e \in e..Len(l) /\ SubSeq(l, e + 1, e) = <<>>
      BY <1>1, SubSeqEmpty
    <2>2. N(e, e) = One(l[e], T) + N(e + 1, e)
      BY <2>1, CountFirst
    <2>3. N(e + 1, e) = 0 /\ One(")", T) \in Nat
      BY <2>1, CountEmpty DEF One
    <2> HIDE DEF N
    <2> QED
      BY <1>1, <2>2, <2>3
  <1>9. One("[", T) \in Nat /\ One("]", T) \in Nat /\ One("(", T) \in Nat /\ One(")", T) \in Nat
    BY DEF One
  <1> HIDE DEF N
  <1> DEFINE a == One("[", T)
             b == One("]", T)
             c == One("(", T)
             d == One(")", T)
             x == N(p + 1, u - 3)
             y == N(u, e - 1)
  <1>10. a \in Nat /\ b \in Nat /\ c \in Nat /\ d \in Nat /\ x \in Nat /\ y \in Nat
    BY <1>4, <1>7, <1>9
  <1>11. N(u - 1, e) = c + (y + d) /\ N(p, e) = a + (x + (b + N(u - 1, e)))
    BY <1>3, <1>4, <1>5, <1>6, <1>7, <1>8, Zenon
  <1>12. N(p, e) = a + b + c + d + x + y
    <2> HIDE DEF a, b, c, d, x, y
    <2> QED
      BY <1>10, <1>11
  <1> QED
    BY <1>2, <1>4, <1>7, <1>12 DEF BracketHolds, N

(* Behind the line there is no match.                                      *)
LEMMA NoBracketBehind ==
    ASSUME NEW S, NEW l \in Seq(S), NEW p \in Nat, p > Len(l)
    PROVE  Bracketed(l, p) = 0
  <1>1. ~Occurs(l, <<"[">>, p)
    <2>1. Len(l) \in Nat /\ Len(<<"[">>) = 1
      OBVIOUS
    <2>2. ~(p + 1 - 1 <= Len(l))
      BY <2>1
    <2> QED
      BY <2>1, <2>2 DEF Occurs
  <1> QED
    BY <1>1, Zenon DEF Bracketed

LinkEnd(l) == [p \in DOMAIN l |-> Bracketed(l, p)]
LinkRep(l) == [p \in DOMAIN l |-> LinkHtml(SubSeq(l, p + 1, UrlStart(l, p) - 3),
                                           SubSeq(l, UrlStart(l, p), LinkEnd(l)[p] - 1))]
LinkChange(S) ==
    [T \in SUBSET S |-> (One("<a href='", T) + One("'>", T) + One("</a>", T))
                        - (One("[", T) + One("]", T) + One("(", T) + One(")", T))]

(* A link that is matched at p.                                            *)
LinkAt(S, l, p) ==
    /\ UrlStart(l, p) \in Nat /\ LinkEnd(l)[p] \in p..Len(l) /\ LinkEnd(l)[p] = Bracketed(l, p)
    /\ Bracket(l, p, UrlStart(l, p), LinkEnd(l)[p])
    /\ LinkRep(l)[p] = LinkHtml(SubSeq(l, p + 1, UrlStart(l, p) - 3),
                                SubSeq(l, UrlStart(l, p), LinkEnd(l)[p] - 1))
    /\ SubSeq(l, p + 1, UrlStart(l, p) - 3) \in Seq(S)
    /\ SubSeq(l, UrlStart(l, p), LinkEnd(l)[p] - 1) \in Seq(S)

(* The address starts at a position, or behind the line.                   *)
LEMMA UrlStartType ==
    ASSUME NEW S, NEW l \in Seq(S), NEW p \in 1..Len(l)
    PROVE  UrlStart(l, p) \in Nat
  <1>1. IsNext(l, {"]"}, p + 1, NextOf(l, {"]"}, p + 1))
    <2>1. p + 1 \in 1..Len(l) + 1
      OBVIOUS
    <2> QED
      BY <2>1, NextOfIs, Zenon
  <1>2. NextOf(l, {"]"}, p + 1) \in Nat
    <2>1. p + 1 \in Nat
      OBVIOUS
    <2> QED
      BY <1>1, <2>1 DEF IsNext
  <1> QED
    BY <1>2 DEF UrlStart

(* A match of LinkParser and what it is replaced by.                       *)
LEMMA LinkIs ==
    ASSUME NEW S, NEW l \in Seq(S), NEW p \in 1..Len(l), LinkEnd(l)[p] # 0
    PROVE  LinkAt(S, l, p)
  <1> DEFINE u == UrlStart(l, p)
             e == LinkEnd(l)[p]
  <1>0. p \in DOMAIN l
    OBVIOUS
  <1>1. e = Bracketed(l, p)
    BY <1>0 DEF LinkEnd
  <1>2. u \in Nat
    BY UrlStartType
  <1>3. Bracket(l, p, u, e)
    <2>1. Bracketed(l, p) # 0
      BY <1>1
    <2>2. Bracket(l, p, u, Bracketed(l, p))
      BY <2>1, BracketedIs, Zenon
    <2> QED
      BY <1>1, <2>2
  <1>4. LinkRep(l)[p] = LinkHtml(SubSeq(l, p + 1, u - 3), SubSeq(l, u, e - 1))
    BY <1>0, Zenon DEF LinkRep
  <1> HIDE DEF u, e
  <1>5. e \in p..Len(l) /\ e \in Nat
    <2>1. AddressEnds(l, u) \subseteq Nat
      <3>1. u..NextOf(l, {"]"}, u) - 1 \subseteq Nat
        BY <1>2
      <3> QED
        BY <3>1 DEF AddressEnds
    <2>2. e \in Nat /\ p < u - 2 /\ u <= e /\ e <= Len(l)
      BY <1>3, <2>1 DEF Bracket
    <2> QED
      BY <1>2, <2>2
  <1>6. BracketHolds(S, l, p, u, e, {})
    BY <1>2, <1>3, <1>5, BracketCount, Zenon
  <1> QED
    BY <1>1, <1>2, <1>3, <1>4, <1>5, <1>6 DEF LinkAt, BracketHolds, u, e

ImageEnd(l) == [p \in DOMAIN l |-> IF l[p] = "!" THEN Bracketed(l, p + 1) ELSE 0]
ImageRep(l) == [p \in DOMAIN l |-> ImageHtml(SubSeq(l, p + 2, UrlStart(l, p + 1) - 3),
                                             SubSeq(l, UrlStart(l, p + 1), ImageEnd(l)[p] - 1))]
ImageChange(S) ==
    [T \in SUBSET S |->
        (One("<img src='", T) + One("' alt='", T) + One("'/>", T))
        - (One("!", T) + (One("[", T) + One("]", T) + One("(", T) + One(")", T)))]

(* An image that is matched at p.                                          *)
ImageAt(S, l, p) ==
    /\ UrlStart(l, p + 1) \in Nat /\ ImageEnd(l)[p] \in p + 1..Len(l)
    /\ l[p] = "!" /\ ImageEnd(l)[p] = Bracketed(l, p + 1)
    /\ Bracket(l, p + 1, UrlStart(l, p + 1), ImageEnd(l)[p])
    /\ ImageRep(l)[p] = ImageHtml(SubSeq(l, p + 2, UrlStart(l, p + 1) - 3),
                                  SubSeq(l, UrlStart(l, p + 1), ImageEnd(l)[p] - 1))
    /\ SubSeq(l, p + 2, UrlStart(l, p + 1) - 3) \in Seq(S)
    /\ SubSeq(l, UrlStart(l, p + 1), ImageEnd(l)[p] - 1) \in Seq(S)

(* A match of ImageParser and what it is replaced by.                      *)
LEMMA ImageIs ==
    ASSUME NEW S, NEW l \in Seq(S), NEW p \in 1..Len(l), ImageEnd(l)[p] # 0
    PROVE  ImageAt(S, l, p)
  <1> DEFINE q == p + 1
             e == ImageEnd(l)[p]
  <1>0. p \in DOMAIN l /\ q \in Nat /\ q - 1 = p
    OBVIOUS
  <1>1. l[p] = "!" /\ e = Bracketed(l, q)
    BY <1>0 DEF ImageEnd
  <1>2. q \in 1..Len(l)
    <2> HIDE DEF q
    <2>1. ~(q > Len(l))
      BY <1>0, <1>1, NoBracketBehind
    <2> QED
      BY <1>0, <2>1
  <1>3. LinkEnd(l)[q] = e
    <2>1. q \in DOMAIN l
      BY <1>2
    <2> HIDE DEF q, e
    <2> QED
      BY <1>1, <2>1 DEF LinkEnd
  <1>4. LinkAt(S, l, q)
    <2>1. LinkEnd(l)[q] # 0
      BY <1>3
    <2> HIDE DEF q
    <2> QED
      BY <1>2, <2>1, LinkIs, Zenon
  <1>5. ImageRep(l)[p] = ImageHtml(SubSeq(l, p + 2, UrlStart(l, q) - 3),
                                   SubSeq(l, UrlStart(l, q), e - 1))
    BY <1>0, Zenon DEF ImageRep
  <1>6. q + 1 = p + 2
    OBVIOUS
  <1>7. /\ UrlStart(l, q) \in Nat /\ e \in q..Len(l) /\ Bracket(l, q, UrlStart(l, q), e)
        /\ SubSeq(l, p + 2, UrlStart(l, q) - 3) \in Seq(S)
        /\ SubSeq(l, UrlStart(l, q), e - 1) \in Seq(S)
    <2> HIDE DEF q, e
    <2> QED
      BY <1>3, <1>4, <1>6, Zenon DEF LinkAt
  <1> QED
    BY <1>1, <1>5, <1>7, Zenon DEF ImageAt

(* A tag with an attribute: its type, and what it holds.                   *)
TagHolds(S, x, a, y, b, z, T) ==
    /\ <<x>> \o a \o <<y>> \o b \o <<z>> \in Seq(S)
    /\ Count(<<x>> \o a \o <<y>> \o b \o <<z>>, T) =
           One(x, T) + One(y, T) + One(z, T) + Count(a, T) + Count(b, T)

(* A tag has its three parts, the text and the address.                    *)
LEMMA TagCount ==
    ASSUME NEW S, NEW x \in S, NEW a \in Seq(S), NEW y \in S, NEW b \in Seq(S), NEW z \in S, NEW T
    PROVE  TagHolds(S, x, a, y, b, z, T)
  <1> DEFINE s == <<x>> \o a \o <<y>>
  <1>1. <<x>> \in Seq(S) /\ <<y>> \in Seq(S) /\ <<z>> \in Seq(S)
    OBVIOUS
  <1>2. <<x>> \o a \in Seq(S)
    BY <1>1, ConcatProperties
  <1>3. s \in Seq(S)
    BY <1>1, <1>2, ConcatProperties
  <1>4. CountsThree(<<x>>, a, <<y>>, T)
    BY <1>1, CountThree, Zenon
  <1> HIDE DEF s
  <1>5. s \o b \in Seq(S)
    BY <1>3, ConcatProperties
  <1>6. s \o b \o <<z>> \in Seq(S)
    BY <1>1, <1>5, ConcatProperties
  <1>7. CountsThree(s, b, <<z>>, T)
    BY <1>1, <1>3, CountThree, Zenon
  <1>8. Count(<<x>>, T) = One(x, T) /\ Count(<<y>>, T) = One(y, T) /\ Count(<<z>>, T) = One(z, T)
    BY CountOne DEF One
  <1>9. Count(s, T) = One(x, T) + Count(a, T) + One(y, T) /\ Count(a, T) \in Nat
    BY <1>4, <1>8 DEF CountsThree, s
  <1>10. Count(s \o b \o <<z>>, T) = Count(s, T) + Count(b, T) + One(z, T) /\ Count(b, T) \in Nat
    BY <1>7, <1>8 DEF CountsThree
  <1>11. One(x, T) \in Nat /\ One(y, T) \in Nat /\ One(z, T) \in Nat
    BY DEF One
  <1>12. Count(s \o b \o <<z>>, T) = One(x, T) + One(y, T) + One(z, T) + Count(a, T) + Count(b, T)
    BY <1>9, <1>10, <1>11
  <1> QED
    BY <1>6, <1>12 DEF TagHolds, s

ThreeOnes(a, b, c, T) == One(a, T) + One(b, T) + One(c, T)
FourOnes(a, b, c, d, T) == One(a, T) + One(b, T) + One(c, T) + One(d, T)

(* These are numbers.                                                      *)
LEMMA OnesType ==
    /\ \A a, T : One(a, T) \in Nat
    /\ \A a, b, c, T : ThreeOnes(a, b, c, T) \in Nat
    /\ \A a, b, c, d, T : FourOnes(a, b, c, d, T) \in Nat
  BY DEF One, ThreeOnes, FourOnes

(* The parts of the tags with attributes are tokens.                       *)
LEMMA TokensAre ==
    /\ "<a href='" \in Token /\ "'>" \in Token /\ "</a>" \in Token
    /\ "<img src='" \in Token /\ "' alt='" \in Token /\ "'/>" \in Token
  BY DEF Token, Tag

(* LinkParser takes four characters for each link and puts three parts of  *)
(* a tag, ...                                                              *)
LEMMA LinksRewrite ==
    ASSUME NEW l \in Seq(Token)
    PROVE  /\ ReplacedBy(Token, l, LinkEnd(l), LinkRep(l), Links(l))
           /\ EachChanges(Token, l, LinkEnd(l), LinkRep(l), LinkChange(Token))
  <1> DEFINE end == LinkEnd(l)
             rep == LinkRep(l)
  <1>1. ASSUME NEW p \in 1..Len(l), end[p] # 0, NEW T \in SUBSET Token
        PROVE  /\ end[p] \in p..Len(l) /\ rep[p] \in Seq(Token)
               /\ Count(rep[p], T) = Count(SubSeq(l, p, end[p]), T) + LinkChange(Token)[T]
    <2> DEFINE u == UrlStart(l, p)
               text == SubSeq(l, p + 1, u - 3)
               url == SubSeq(l, u, end[p] - 1)
    <2>1. LinkAt(Token, l, p)
      BY <1>1, LinkIs, Zenon
    <2>2. /\ u \in Nat /\ end[p] \in p..Len(l) /\ Bracket(l, p, u, end[p])
          /\ rep[p] = LinkHtml(text, url) /\ text \in Seq(Token) /\ url \in Seq(Token)
      BY <2>1, Zenon DEF LinkAt
    <2> HIDE DEF end, rep
    <2>3. BracketHolds(Token, l, p, u, end[p], T)
      <3>1. end[p] \in Nat
        BY <2>2
      <3> QED
        BY <2>2, <3>1, BracketCount, Zenon
    <2>4. /\ Count(SubSeq(l, p, end[p]), T) =
                 One("[", T) + One("]", T) + One("(", T) + One(")", T)
                 + Count(text, T) + Count(url, T)
          /\ Count(text, T) \in Nat /\ Count(url, T) \in Nat
      BY <2>3 DEF BracketHolds
    <2> HIDE DEF text, url, u
    <2>5. TagHolds(Token, "<a href='", url, "'>", text, "</a>", T)
      BY <2>2, TokensAre, TagCount, Zenon
    <2>6. /\ rep[p] \in Seq(Token)
          /\ Count(rep[p], T) = One("<a href='", T) + One("'>", T) + One("</a>", T)
                                + Count(url, T) + Count(text, T)
      BY <2>2, <2>5, Zenon DEF TagHolds, LinkHtml
    <2>7. LinkChange(Token)[T] = (One("<a href='", T) + One("'>", T) + One("</a>", T))
                        - (One("[", T) + One("]", T) + One("(", T) + One(")", T))
      BY Zenon DEF LinkChange
    <2> DEFINE new == One("<a href='", T) + One("'>", T) + One("</a>", T)
               old == One("[", T) + One("]", T) + One("(", T) + One(")", T)
    <2>8. new \in Nat /\ old \in Nat
      BY OnesType, Zenon DEF ThreeOnes, FourOnes
    <2> HIDE DEF new, old
    <2>9. Count(rep[p], T) = new + Count(url, T) + Count(text, T)
      BY <2>6 DEF new
    <2>10. Count(SubSeq(l, p, end[p]), T) = old + Count(text, T) + Count(url, T)
      BY <2>4 DEF old
    <2>11. LinkChange(Token)[T] = new - old
      BY <2>7, Zenon DEF new, old
    <2>12. end[p] \in p..Len(l) /\ rep[p] \in Seq(Token)
      BY <2>2, <2>6, Zenon
    <2>13. Count(text, T) \in Nat /\ Count(url, T) \in Nat
      BY <2>4, Zenon
    <2> QED
      BY <2>8, <2>9, <2>10, <2>11, <2>12, <2>13
  <1>2. EachChanges(Token, l, end, rep, LinkChange(Token))
    <2> HIDE DEF end, rep
    <2> QED
      BY <1>1 DEF EachChanges
  <1>3. Replaceable(Token, l, end, rep)
    <2> HIDE DEF end, rep
    <2> QED
      BY <1>1 DEF Replaceable, MatchEnds
  <1>4. ReplacedBy(Token, l, end, rep, Replace(l, end, rep))
    <2> HIDE DEF end, rep
    <2> QED
      BY <1>3, ReplaceIs, Zenon
  <1>5. Links(l) = Replace(l, end, rep)
    BY Zenon DEF Links, LinkEnd, LinkRep
  <1> QED
    BY <1>2, <1>4, <1>5

(* and ImageParser takes five for each image.                              *)
LEMMA ImagesRewrite ==
    ASSUME NEW l \in Seq(Token)
    PROVE  /\ ReplacedBy(Token, l, ImageEnd(l), ImageRep(l), Images(l))
           /\ EachChanges(Token, l, ImageEnd(l), ImageRep(l), ImageChange(Token))
  <1> DEFINE end == ImageEnd(l)
             rep == ImageRep(l)
  <1>1. ASSUME NEW p \in 1..Len(l), end[p] # 0, NEW T \in SUBSET Token
        PROVE  /\ end[p] \in p..Len(l) /\ rep[p] \in Seq(Token)
               /\ Count(rep[p], T) = Count(SubSeq(l, p, end[p]), T) + ImageChange(Token)[T]
    <2> DEFINE q == p + 1
               u == UrlStart(l, q)
               text == SubSeq(l, p + 2, u - 3)
               url == SubSeq(l, u, end[p] - 1)
    <2>1. ImageAt(Token, l, p)
      BY <1>1, ImageIs, Zenon
    <2>2. /\ u \in Nat /\ end[p] \in q..Len(l) /\ Bracket(l, q, u, end[p]) /\ l[p] = "!"
          /\ rep[p] = ImageHtml(text, url) /\ text \in Seq(Token) /\ url \in Seq(Token)
      BY <2>1, Zenon DEF ImageAt
    <2> HIDE DEF end, rep, u
    <2>3. BracketHolds(Token, l, q, u, end[p], T)
      <3>1. end[p] \in Nat /\ q \in 1..Len(l)
        BY <2>2
      <3> HIDE DEF q
      <3> QED
        BY <2>2, <3>1, BracketCount, Zenon
    <2>4. /\ Count(SubSeq(l, q, end[p]), T) =
                 One("[", T) + One("]", T) + One("(", T) + One(")", T)
                 + Count(text, T) + Count(url, T)
          /\ Count(text, T) \in Nat /\ Count(url, T) \in Nat
      <3>1. q + 1 = p + 2
        OBVIOUS
      <3> HIDE DEF q
      <3> QED
        BY <2>3, <3>1 DEF BracketHolds
    <2>5. TagHolds(Token, "<img src='", url, "' alt='", text, "'/>", T)
      <3> HIDE DEF url, text
      <3> QED
        BY <2>2, TokensAre, TagCount, Zenon
    <2> HIDE DEF text, url
    <2>6. /\ rep[p] \in Seq(Token)
          /\ Count(rep[p], T) = One("<img src='", T) + One("' alt='", T) + One("'/>", T)
                                + Count(url, T) + Count(text, T)
      BY <2>2, <2>5, Zenon DEF TagHolds, ImageHtml
    <2>7. ImageChange(Token)[T] =
            (One("<img src='", T) + One("' alt='", T) + One("'/>", T))
            - (One("!", T) + (One("[", T) + One("]", T) + One("(", T) + One(")", T)))
      BY Zenon DEF ImageChange
    <2>8. Count(SubSeq(l, p, end[p]), T) = One("!", T) + Count(SubSeq(l, q, end[p]), T)
      <3>1. end[p] \in p..Len(l)
        BY <2>2
      <3> QED
        BY <2>2, <3>1, CountFirst
    <2> HIDE DEF q
    <2> DEFINE new == One("<img src='", T) + One("' alt='", T) + One("'/>", T)
               old == One("[", T) + One("]", T) + One("(", T) + One(")", T)
               bang == One("!", T)
    <2>9. new \in Nat /\ old \in Nat /\ bang \in Nat
      BY OnesType, Zenon DEF ThreeOnes, FourOnes
    <2> HIDE DEF new, old, bang
    <2>10. Count(rep[p], T) = new + Count(url, T) + Count(text, T)
      BY <2>6 DEF new
    <2>11. Count(SubSeq(l, p, end[p]), T) = bang + (old + Count(text, T) + Count(url, T))
      BY <2>4, <2>8 DEF old, bang
    <2>12. ImageChange(Token)[T] = new - (bang + old)
      BY <2>7, Zenon DEF new, old, bang
    <2>13. end[p] \in p..Len(l)
      BY <2>2 DEF q
    <2>14. Count(text, T) \in Nat /\ Count(url, T) \in Nat /\ rep[p] \in Seq(Token)
      BY <2>4, <2>6, Zenon
    <2> QED
      BY <2>9, <2>10, <2>11, <2>12, <2>13, <2>14
  <1>2. EachChanges(Token, l, end, rep, ImageChange(Token))
    <2> HIDE DEF end, rep
    <2> QED
      BY <1>1 DEF EachChanges
  <1>3. Replaceable(Token, l, end, rep)
    <2> HIDE DEF end, rep
    <2> QED
      BY <1>1 DEF Replaceable, MatchEnds
  <1>4. ReplacedBy(Token, l, end, rep, Replace(l, end, rep))
    <2> HIDE DEF end, rep
    <2> QED
      BY <1>3, ReplaceIs, Zenon
  <1>5. Images(l) = Replace(l, end, rep)
    BY Zenon DEF Images, ImageEnd, ImageRep
  <1> QED
    BY <1>2, <1>4, <1>5

(* These changes are integers, for every set of tokens.                    *)
LEMMA ChangeTypes ==
    /\ ImageChange(Token) \in [SUBSET Token -> Int] /\ LinkChange(Token) \in [SUBSET Token -> Int]
  <1>1. \A a, b \in Nat : a - b \in Int
    OBVIOUS
  <1>2. ASSUME NEW T \in SUBSET Token
        PROVE  (One("<a href='", T) + One("'>", T) + One("</a>", T))
                  - (One("[", T) + One("]", T) + One("(", T) + One(")", T)) \in Int
    <2>1. /\ ThreeOnes("<a href='", "'>", "</a>", T) \in Nat
          /\ FourOnes("[", "]", "(", ")", T) \in Nat
      BY OnesType, Zenon
    <2>2. ThreeOnes("<a href='", "'>", "</a>", T) - FourOnes("[", "]", "(", ")", T) \in Int
      BY <1>1, <2>1, Zenon
    <2> QED
      BY <2>2, Zenon DEF ThreeOnes, FourOnes
  <1>3. ASSUME NEW T \in SUBSET Token
        PROVE  (One("<img src='", T) + One("' alt='", T) + One("'/>", T))
                  - (One("!", T) + (One("[", T) + One("]", T) + One("(", T) + One(")", T))) \in Int
    <2>1. /\ ThreeOnes("<img src='", "' alt='", "'/>", T) \in Nat
          /\ FourOnes("[", "]", "(", ")", T) \in Nat /\ One("!", T) \in Nat
      BY OnesType, Zenon
    <2>2. \A a, b \in Nat : a + b \in Nat
      OBVIOUS
    <2>3. One("!", T) + FourOnes("[", "]", "(", ")", T) \in Nat
      BY <2>1, <2>2, Zenon
    <2>4. ThreeOnes("<img src='", "' alt='", "'/>", T)
              - (One("!", T) + FourOnes("[", "]", "(", ")", T)) \in Int
      BY <1>1, <2>1, <2>3, Zenon
    <2> QED
      BY <2>4, Zenon DEF ThreeOnes, FourOnes
  <1> QED
    BY <1>2, <1>3, Zenon DEF ImageChange, LinkChange

(* What ImageParser makes of a line, ...                                   *)
LEMMA ImagesRewrote ==
    ASSUME NEW l \in Seq(Token)
    PROVE  Rewrote(Token, l, Images(l), ImageChange(Token), ImageEnd(l))
  <1>1. /\ ReplacedBy(Token, l, ImageEnd(l), ImageRep(l), Images(l))
        /\ EachChanges(Token, l, ImageEnd(l), ImageRep(l), ImageChange(Token))
    BY ImagesRewrite, Zenon
  <1>2. PICK R : Rewriting(Token, l, ImageEnd(l), ImageRep(l), R) /\ Images(l) = R[1]
    BY <1>1, Zenon DEF ReplacedBy
  <1>3. Rewrote(Token, l, R[1], ImageChange(Token), ImageEnd(l))
    BY <1>1, <1>2, ChangeTypes, RewroteIs, Zenon
  <1> QED
    BY <1>2, <1>3, Zenon

(* and what LinkParser does.                                               *)
LEMMA LinksRewrote ==
    ASSUME NEW l \in Seq(Token)
    PROVE  Rewrote(Token, l, Links(l), LinkChange(Token), LinkEnd(l))
  <1>1. /\ ReplacedBy(Token, l, LinkEnd(l), LinkRep(l), Links(l))
        /\ EachChanges(Token, l, LinkEnd(l), LinkRep(l), LinkChange(Token))
    BY LinksRewrite, Zenon
  <1>2. PICK R : Rewriting(Token, l, LinkEnd(l), LinkRep(l), R) /\ Links(l) = R[1]
    BY <1>1, Zenon DEF ReplacedBy
  <1>3. Rewrote(Token, l, R[1], LinkChange(Token), LinkEnd(l))
    BY <1>1, <1>2, ChangeTypes, RewroteIs, Zenon
  <1> QED
    BY <1>2, <1>3, Zenon

MarkEnd(l, mark) ==
    [p \in DOMAIN l |-> IF NoCodeAhead(l, p) THEN Delimited(l, p, mark) ELSE 0]
CodeEnd(l) == [p \in DOMAIN l |-> Delimited(l, p, <<"tick">>)]

(* The matches of a parser of emphasis are spans, ...                      *)
LEMMA MarkEndsAre ==
    ASSUME NEW S, NEW l \in Seq(S), NEW mark \in Seq(S), Len(mark) > 0
    PROVE  SpanEnds(l, MarkEnd(l, mark), mark)
  <1> SUFFICES ASSUME NEW p \in 1..Len(l), MarkEnd(l, mark)[p] # 0
               PROVE  Span(l, p, MarkEnd(l, mark)[p], mark)
    BY DEF SpanEnds
  <1>1. p \in DOMAIN l
    OBVIOUS
  <1>2. MarkEnd(l, mark)[p] = Delimited(l, p, mark) /\ Delimited(l, p, mark) # 0
    BY <1>1 DEF MarkEnd
  <1>3. Span(l, p, Delimited(l, p, mark), mark)
    BY <1>2, DelimitedIs, Zenon
  <1> QED
    BY <1>2, <1>3

(* and those of the parser of code are.                                    *)
LEMMA CodeEndsAre ==
    ASSUME NEW S, NEW l \in Seq(S), "tick" \in S
    PROVE  SpanEnds(l, CodeEnd(l), <<"tick">>)
  <1> SUFFICES ASSUME NEW p \in 1..Len(l), CodeEnd(l)[p] # 0
               PROVE  Span(l, p, CodeEnd(l)[p], <<"tick">>)
    BY Zenon DEF SpanEnds
  <1>1. p \in DOMAIN l
    OBVIOUS
  <1>2. CodeEnd(l)[p] = Delimited(l, p, <<"tick">>)
    BY <1>1, Zenon DEF CodeEnd
  <1>3. <<"tick">> \in Seq(S) /\ Len(<<"tick">>) > 0
    OBVIOUS
  <1>4. Span(l, p, Delimited(l, p, <<"tick">>), <<"tick">>)
    BY <1>2, <1>3, DelimitedIs, Zenon
  <1> QED
    BY <1>2, <1>4, Zenon

(* What a parser of emphasis makes of a line.                              *)
LEMMA MarkedRewrote ==
    ASSUME NEW l \in Seq(Token), NEW mark \in Seq(Token), Len(mark) > 0,
           NEW open \in Token, NEW close \in Token
    PROVE  Rewrote(Token, l, Marked(l, mark, open, close),
                   SpanChange(Token, mark, open, close), MarkEnd(l, mark))
  <1>1. SpanEnds(l, MarkEnd(l, mark), mark)
    BY MarkEndsAre, Zenon
  <1>2. Rewrote(Token, l, Spans(l, MarkEnd(l, mark), mark, open, close),
                SpanChange(Token, mark, open, close), MarkEnd(l, mark))
    BY <1>1, SpansRewrote, Zenon
  <1> QED
    BY <1>2, Zenon DEF Marked, MarkEnd

(* The marks of the parsers, and how long they are.                        *)
LEMMA MarksAre ==
    /\ <<"*", "*">> \in Seq(Mark) /\ Len(<<"*", "*">>) = 2
    /\ <<"_", "_">> \in Seq(Mark) /\ Len(<<"_", "_">>) = 2
    /\ <<"~", "~">> \in Seq(Mark) /\ Len(<<"~", "~">>) = 2
    /\ <<"_">> \in Seq(Mark) /\ Len(<<"_">>) = 1
    /\ <<"*">> \in Seq(Mark) /\ Len(<<"*">>) = 1
    /\ <<"tick">> \in Seq(Mark) /\ Len(<<"tick">>) = 1
  <1>1. "*" \in Mark /\ "_" \in Mark /\ "~" \in Mark /\ "tick" \in Mark
    BY DEF Mark
  <1>2. \A S, a : a \in S => /\ <<a>> \in Seq(S) /\ Len(<<a>>) = 1
                             /\ <<a, a>> \in Seq(S) /\ Len(<<a, a>>) = 2
    OBVIOUS
  <1> QED
    BY <1>1, <1>2, Zenon

(* A mark is made of tokens.                                               *)
LEMMA MarksAreTokens ==
    ASSUME NEW mark \in Seq(Mark)
    PROVE  mark \in Seq(Token)
  <1>1. Mark \subseteq Token
    BY DEF Token, Character
  <1> QED
    BY <1>1, SeqMonotonic

(* What the parser of code makes of a line.                                *)
LEMMA CodedRewrote ==
    ASSUME NEW l \in Seq(Token)
    PROVE  Rewrote(Token, l, Coded(l), SpanChange(Token, <<"tick">>, "<code>", "</code>"), CodeEnd(l))
  <1>1. "tick" \in Token /\ "<code>" \in Token /\ "</code>" \in Token
    BY DEF Token, Tag, Character, Mark
  <1>2. SpanEnds(l, CodeEnd(l), <<"tick">>)
    BY <1>1, CodeEndsAre, Zenon
  <1>3. <<"tick">> \in Seq(Token)
    BY MarksAre, MarksAreTokens, Zenon
  <1>4. Len(<<"tick">>) > 0
    OBVIOUS
  <1>5. Rewrote(Token, l, Spans(l, CodeEnd(l), <<"tick">>, "<code>", "</code>"),
                SpanChange(Token, <<"tick">>, "<code>", "</code>"), CodeEnd(l))
    BY <1>1, <1>2, <1>3, <1>4, SpansRewrote, Zenon
  <1> QED
    BY <1>5, Zenon DEF Coded, CodeEnd

-----------------------------------------------------------------------------
(* What a token counts for in WidthKept.                                   *)
Doubled == {"<strong>", "</strong>", "<s>", "</s>"}
Silent == {"' alt='", "'/>", "'>", "</a>"}
ImageTag == {"<img src='"}
LinkTag == {"<a href='"}
Weighs(e, w, d, i, a, s) ==
    /\ One(e, Token) = w /\ One(e, Doubled) = d /\ One(e, ImageTag) = i
    /\ One(e, LinkTag) = a /\ One(e, Silent) = s

(* A character that is no text counts once, ...                            *)
LEMMA WeightsOfMarks ==
    ASSUME NEW e \in Mark \cup {"!", "[", "]", "(", ")"}
    PROVE  Weighs(e, 1, 0, 0, 0, 0)
  BY Zenon DEF Weighs, One, Token, Character, Doubled, Silent, ImageTag, LinkTag, Mark

(* and a tag once, and as what it is in WidthKept.                         *)
LEMMA WeightsOfTags ==
    /\ \A e \in Doubled : Weighs(e, 1, 1, 0, 0, 0)
    /\ \A e \in {"<em>", "</em>", "<i>", "</i>", "<code>", "</code>"} : Weighs(e, 1, 0, 0, 0, 0)
    /\ Weighs("<img src='", 1, 0, 1, 0, 0)
    /\ Weighs("<a href='", 1, 0, 0, 1, 0)
    /\ \A e \in Silent : Weighs(e, 1, 0, 0, 0, 1)
  <1>1. \A e \in Doubled : Weighs(e, 1, 1, 0, 0, 0)
    BY Zenon DEF Weighs, One, Token, Tag, Emphasis, Doubled, Silent, ImageTag, LinkTag
  <1>2. \A e \in {"<em>", "</em>", "<i>", "</i>", "<code>", "</code>"} : Weighs(e, 1, 0, 0, 0, 0)
    BY Zenon DEF Weighs, One, Token, Tag, Emphasis, Doubled, Silent, ImageTag, LinkTag
  <1>3. Weighs("<img src='", 1, 0, 1, 0, 0) /\ Weighs("<a href='", 1, 0, 0, 1, 0)
    BY Zenon DEF Weighs, One, Token, Tag, Emphasis, Doubled, Silent, ImageTag, LinkTag
  <1>4. \A e \in Silent : Weighs(e, 1, 0, 0, 0, 1)
    BY Zenon DEF Weighs, One, Token, Tag, Emphasis, Doubled, Silent, ImageTag, LinkTag
  <1> QED
    BY <1>1, <1>2, <1>3, <1>4

(* A change that keeps the width.                                          *)
SameWidth(c) == c[Token] + c[Doubled] + 4 * c[ImageTag] + 3 * c[LinkTag] = c[Silent]

(* WidthKept between two lines.                                            *)
Wide(l, m) ==
    Len(l) + Count(l, Doubled) + 4 * Count(l, ImageTag) + 3 * Count(l, LinkTag) + Count(m, Silent)
        = Len(m) + Count(m, Doubled) + 4 * Count(m, ImageTag) + 3 * Count(m, LinkTag)
          + Count(l, Silent)

(* Everything in a line is one of its elements.                            *)
LEMMA CountAll ==
    ASSUME NEW S, NEW l \in Seq(S)
    PROVE  Count(l, S) = Len(l)
  <1>1. {p \in DOMAIN l : l[p] \in S} = 1..Len(l) /\ Len(l) \in Nat
    OBVIOUS
  <1>2. Cardinality(1..Len(l)) = Len(l)
    <2> DEFINE n == Len(l)
    <2>1. n \in Int /\ 1 \in Int /\ n >= 0
      BY <1>1
    <2> HIDE DEF n
    <2>2. Cardinality(1..n) = IF 1 > n THEN 0 ELSE n - 1 + 1
      BY <2>1, FS_Interval, Zenon
    <2>3. Cardinality(1..n) = n
      BY <2>1, <2>2
    <2> QED
      BY <2>3 DEF n
  <1> QED
    BY <1>1, <1>2 DEF Count

(* The sets WidthKept counts are sets of tokens.                           *)
LEMMA SetsOfTokens ==
    /\ Token \in SUBSET Token /\ Doubled \in SUBSET Token /\ ImageTag \in SUBSET Token
    /\ LinkTag \in SUBSET Token /\ Silent \in SUBSET Token
  BY DEF Token, Tag, Emphasis, Doubled, Silent, ImageTag, LinkTag

(* A multiple of what WidthKept adds up.                                   *)
LEMMA Distribute ==
    ASSUME NEW n \in Nat, NEW a \in Int, NEW b \in Int, NEW c \in Int, NEW d \in Int
    PROVE  n * (a + b + 4 * c + 3 * d) = n * a + n * b + 4 * (n * c) + 3 * (n * d)
  OBVIOUS

(* When one match changes the width by nothing, all of them do.            *)
LEMMA WidthChanged ==
    ASSUME NEW l \in Seq(Token), NEW m, NEW c \in [SUBSET Token -> Int], NEW end,
           Rewrote(Token, l, m, c, end), SameWidth(c)
    PROVE  Wide(l, m)
  <1>1. PICK n \in Nat : Changed(Token, l, m, c, n)
    BY DEF Rewrote
  <1>2. m \in Seq(Token)
    BY DEF Rewrote
  <1>3. /\ Count(m, Token) = Count(l, Token) + n * c[Token]
        /\ Count(m, Doubled) = Count(l, Doubled) + n * c[Doubled]
        /\ Count(m, ImageTag) = Count(l, ImageTag) + n * c[ImageTag]
        /\ Count(m, LinkTag) = Count(l, LinkTag) + n * c[LinkTag]
        /\ Count(m, Silent) = Count(l, Silent) + n * c[Silent]
    BY <1>1, SetsOfTokens, Zenon DEF Changed
  <1>4. Count(m, Token) = Len(m) /\ Count(l, Token) = Len(l)
    BY <1>2, CountAll
  <1>5. /\ c[Token] \in Int /\ c[Doubled] \in Int /\ c[ImageTag] \in Int /\ c[LinkTag] \in Int
    BY SetsOfTokens
  <1>6. n * c[Silent] = n * c[Token] + n * c[Doubled] + 4 * (n * c[ImageTag]) + 3 * (n * c[LinkTag])
    <2>1. c[Silent] = c[Token] + c[Doubled] + 4 * c[ImageTag] + 3 * c[LinkTag]
      BY Zenon DEF SameWidth
    <2>2. n * (c[Token] + c[Doubled] + 4 * c[ImageTag] + 3 * c[LinkTag])
              = n * c[Token] + n * c[Doubled] + 4 * (n * c[ImageTag]) + 3 * (n * c[LinkTag])
      <3> DEFINE w == c[Token]
                 x == c[Doubled]
                 y == c[ImageTag]
                 z == c[LinkTag]
      <3>1. w \in Int /\ x \in Int /\ y \in Int /\ z \in Int
        BY <1>5
      <3> HIDE DEF w, x, y, z
      <3>2. n * (w + x + 4 * y + 3 * z) = n * w + n * x + 4 * (n * y) + 3 * (n * z)
        BY <3>1, Distribute
      <3> QED
        BY <3>2 DEF w, x, y, z
    <2> QED
      BY <2>1, <2>2, Zenon
  <1>7. /\ n * c[Token] \in Int /\ n * c[Doubled] \in Int /\ n * c[ImageTag] \in Int
        /\ n * c[LinkTag] \in Int
    BY <1>5, OneMoreTime
  <1>8. /\ Len(l) \in Nat /\ Count(l, Doubled) \in Nat /\ Count(l, ImageTag) \in Nat
        /\ Count(l, LinkTag) \in Nat /\ Count(l, Silent) \in Nat
    BY CountType, LenProperties
  <1> DEFINE t == n * c[Token]
             d == n * c[Doubled]
             i == n * c[ImageTag]
             a == n * c[LinkTag]
             s == n * c[Silent]
  <1> HIDE DEF t, d, i, a, s
  <1>9. /\ Len(m) = Len(l) + t /\ Count(m, Doubled) = Count(l, Doubled) + d
        /\ Count(m, ImageTag) = Count(l, ImageTag) + i /\ Count(m, LinkTag) = Count(l, LinkTag) + a
        /\ Count(m, Silent) = Count(l, Silent) + s
        /\ s = t + d + 4 * i + 3 * a /\ t \in Int /\ d \in Int /\ i \in Int /\ a \in Int
    BY <1>3, <1>4, <1>6, <1>7, Zenon DEF t, d, i, a, s
  <1> DEFINE lt == Len(l)
             ld == Count(l, Doubled)
             li == Count(l, ImageTag)
             la == Count(l, LinkTag)
             ls == Count(l, Silent)
             mt == Len(m)
             md == Count(m, Doubled)
             mi == Count(m, ImageTag)
             ma == Count(m, LinkTag)
             ms == Count(m, Silent)
  <1>10. lt + ld + 4 * li + 3 * la + ms = mt + md + 4 * mi + 3 * ma + ls
    <2> HIDE DEF lt, ld, li, la, ls, mt, md, mi, ma, ms
    <2>1. /\ lt \in Nat /\ ld \in Nat /\ li \in Nat /\ la \in Nat /\ ls \in Nat
          /\ mt = lt + t /\ md = ld + d /\ mi = li + i /\ ma = la + a /\ ms = ls + s
      BY <1>8, <1>9, Zenon DEF lt, ld, li, la, ls, mt, md, mi, ma, ms
    <2> QED
      BY <1>9, <2>1
  <1> QED
    BY <1>10, Zenon DEF Wide

(* An image keeps the width, ...                                           *)
LEMMA ImagesSameWidth == SameWidth(ImageChange(Token))
  <1> DEFINE c == ImageChange(Token)
  <1>1. /\ Weighs("<img src='", 1, 0, 1, 0, 0) /\ Weighs("' alt='", 1, 0, 0, 0, 1)
        /\ Weighs("'/>", 1, 0, 0, 0, 1)
    BY WeightsOfTags, Zenon DEF Silent
  <1>2. /\ Weighs("!", 1, 0, 0, 0, 0) /\ Weighs("[", 1, 0, 0, 0, 0) /\ Weighs("]", 1, 0, 0, 0, 0)
        /\ Weighs("(", 1, 0, 0, 0, 0) /\ Weighs(")", 1, 0, 0, 0, 0)
    BY WeightsOfMarks, Zenon
  <1>3. /\ c[Token] = (1 + 1 + 1) - (1 + (1 + 1 + 1 + 1))
        /\ c[Doubled] = (0 + 0 + 0) - (0 + (0 + 0 + 0 + 0))
        /\ c[ImageTag] = (1 + 0 + 0) - (0 + (0 + 0 + 0 + 0))
        /\ c[LinkTag] = (0 + 0 + 0) - (0 + (0 + 0 + 0 + 0))
        /\ c[Silent] = (0 + 1 + 1) - (0 + (0 + 0 + 0 + 0))
    BY <1>1, <1>2, SetsOfTokens, Zenon DEF ImageChange, Weighs
  <1> HIDE DEF c
  <1>4. SameWidth(c)
    BY <1>3 DEF SameWidth
  <1> QED
    BY <1>4 DEF c

(* a link does, ...                                                        *)
LEMMA LinksSameWidth == SameWidth(LinkChange(Token))
  <1> DEFINE c == LinkChange(Token)
  <1>1. /\ Weighs("<a href='", 1, 0, 0, 1, 0) /\ Weighs("'>", 1, 0, 0, 0, 1)
        /\ Weighs("</a>", 1, 0, 0, 0, 1)
    BY WeightsOfTags, Zenon DEF Silent
  <1>2. /\ Weighs("[", 1, 0, 0, 0, 0) /\ Weighs("]", 1, 0, 0, 0, 0)
        /\ Weighs("(", 1, 0, 0, 0, 0) /\ Weighs(")", 1, 0, 0, 0, 0)
    BY WeightsOfMarks, Zenon
  <1>3. /\ c[Token] = (1 + 1 + 1) - (1 + 1 + 1 + 1)
        /\ c[Doubled] = (0 + 0 + 0) - (0 + 0 + 0 + 0)
        /\ c[ImageTag] = (0 + 0 + 0) - (0 + 0 + 0 + 0)
        /\ c[LinkTag] = (1 + 0 + 0) - (0 + 0 + 0 + 0)
        /\ c[Silent] = (0 + 1 + 1) - (0 + 0 + 0 + 0)
    BY <1>1, <1>2, SetsOfTokens, Zenon DEF LinkChange, Weighs
  <1> HIDE DEF c
  <1>4. SameWidth(c)
    BY <1>3 DEF SameWidth
  <1> QED
    BY <1>4 DEF c

(* The number of a token in a mark of one or of two characters.            *)
LEMMA CountMark ==
    ASSUME NEW a, NEW T
    PROVE  Count(<<a>>, T) = One(a, T) /\ Count(<<a, a>>, T) = 2 * One(a, T)
  <1>1. <<a>> \in Seq({a}) /\ <<a>> \o <<a>> = <<a, a>>
    <2> DEFINE s == <<a>>
               t == s \o s
    <2>1. s \in Seq({a}) /\ Len(s) = 1 /\ s[1] = a
      OBVIOUS
    <2> HIDE DEF s
    <2>2. t \in Seq({a}) /\ Len(t) = 2 /\ t[1] = a /\ t[2] = a
      <3>1. /\ t \in Seq({a}) /\ Len(t) = Len(s) + Len(s)
            /\ \A i \in 1..Len(s) + Len(s) : t[i] = IF i <= Len(s) THEN s[i] ELSE s[i - Len(s)]
        BY <2>1, ConcatProperties, Zenon
      <3> HIDE DEF t
      <3> QED
        BY <2>1, <3>1
    <2> HIDE DEF t
    <2>3. t = <<a, a>>
      BY <2>2
    <2> QED
      BY <2>1, <2>3 DEF s, t
  <1>2. CountsBoth(<<a>>, <<a>>, T)
    BY <1>1, CountConcat, Zenon
  <1>3. Count(<<a>>, T) = One(a, T) /\ One(a, T) \in Nat
    BY CountOne DEF One
  <1>4. Count(<<a, a>>, T) = Count(<<a>>, T) + Count(<<a>>, T)
    BY <1>1, <1>2, Zenon DEF CountsBoth
  <1> QED
    BY <1>3, <1>4

(* and so does a span of one mark or two of the same character, each with  *)
(* the tags it has.                                                        *)
LEMMA SpansSameWidth ==
    ASSUME NEW k \in {1, 2}, NEW a, NEW mark, NEW open, NEW close,
           Weighs(a, 1, 0, 0, 0, 0),
           (k = 1 /\ mark = <<a>> /\ Weighs(open, 1, 0, 0, 0, 0) /\ Weighs(close, 1, 0, 0, 0, 0))
           \/ (k = 2 /\ mark = <<a, a>> /\ Weighs(open, 1, 1, 0, 0, 0) /\ Weighs(close, 1, 1, 0, 0, 0))
    PROVE  SameWidth(SpanChange(Token, mark, open, close))
  <1> DEFINE c == SpanChange(Token, mark, open, close)
  <1>1. \A T \in SUBSET Token : c[T] = One(open, T) + One(close, T) - 2 * Count(mark, T)
    BY DEF SpanChange
  <1>2. \A T : Count(mark, T) = k * One(a, T)
    <2>1. \A T : One(a, T) \in Nat
      BY DEF One
    <2>2. \A T : Count(<<a>>, T) = One(a, T) /\ Count(<<a, a>>, T) = 2 * One(a, T)
      BY CountMark, Zenon
    <2>3. CASE k = 1
      <3>1. mark = <<a>>
        BY <2>3
      <3>2. \A T : Count(mark, T) = One(a, T)
        BY <2>2, <3>1, Zenon
      <3> QED
        BY <2>1, <2>3, <3>2
    <2>4. CASE k = 2
      <3>1. mark = <<a, a>>
        BY <2>4
      <3>2. \A T : Count(mark, T) = 2 * One(a, T)
        BY <2>2, <3>1, Zenon
      <3> QED
        BY <2>4, <3>2
    <2> QED
      BY <2>3, <2>4
  <1> HIDE DEF c
  <1>3. \A T \in SUBSET Token : c[T] = One(open, T) + One(close, T) - 2 * (k * One(a, T))
    BY <1>1, <1>2
  <1>4. /\ c[Token] = One(open, Token) + One(close, Token) - 2 * (k * One(a, Token))
        /\ c[Doubled] = One(open, Doubled) + One(close, Doubled) - 2 * (k * One(a, Doubled))
        /\ c[ImageTag] = One(open, ImageTag) + One(close, ImageTag) - 2 * (k * One(a, ImageTag))
        /\ c[LinkTag] = One(open, LinkTag) + One(close, LinkTag) - 2 * (k * One(a, LinkTag))
        /\ c[Silent] = One(open, Silent) + One(close, Silent) - 2 * (k * One(a, Silent))
    BY <1>3, SetsOfTokens, Zenon
  <1>5. CASE k = 1
    <2>1. Weighs(open, 1, 0, 0, 0, 0) /\ Weighs(close, 1, 0, 0, 0, 0)
      BY <1>5
    <2>2. /\ c[Token] = 1 + 1 - 2 * (1 * 1) /\ c[Doubled] = 0 + 0 - 2 * (1 * 0)
          /\ c[ImageTag] = 0 + 0 - 2 * (1 * 0) /\ c[LinkTag] = 0 + 0 - 2 * (1 * 0)
          /\ c[Silent] = 0 + 0 - 2 * (1 * 0)
      BY <1>4, <1>5, <2>1, Zenon DEF Weighs
    <2>3. SameWidth(c)
      BY <2>2 DEF SameWidth
    <2> QED
      BY <2>3 DEF c
  <1>6. CASE k = 2
    <2>1. Weighs(open, 1, 1, 0, 0, 0) /\ Weighs(close, 1, 1, 0, 0, 0)
      BY <1>6
    <2>2. /\ c[Token] = 1 + 1 - 2 * (2 * 1) /\ c[Doubled] = 1 + 1 - 2 * (2 * 0)
          /\ c[ImageTag] = 0 + 0 - 2 * (2 * 0) /\ c[LinkTag] = 0 + 0 - 2 * (2 * 0)
          /\ c[Silent] = 0 + 0 - 2 * (2 * 0)
      BY <1>4, <1>6, <2>1, Zenon DEF Weighs
    <2>3. SameWidth(c)
      BY <2>2 DEF SameWidth
    <2> QED
      BY <2>3 DEF c
  <1> QED
    BY <1>5, <1>6

-----------------------------------------------------------------------------
(* A line of none of T has none of them, ...                               *)
LEMMA CountNone ==
    ASSUME NEW S, NEW l \in Seq(S), NEW T, S \cap T = {}
    PROVE  Count(l, T) = 0
  <1>1. {p \in DOMAIN l : l[p] \in T} = {}
    OBVIOUS
  <1> QED
    BY <1>1, FS_EmptySet, Zenon DEF Count

(* and a line that counts none has none.                                   *)
LEMMA NoneCounted ==
    ASSUME NEW S, NEW l \in Seq(S), NEW T, Count(l, T) = 0, NEW p \in 1..Len(l)
    PROVE  l[p] \notin T
  <1> DEFINE A == {q \in DOMAIN l : l[q] \in T}
  <1>1. IsFiniteSet(A) /\ Cardinality(A) = 0
    BY CountType, Zenon DEF Count
  <1>2. A = {}
    BY <1>1, FS_EmptySet, Zenon
  <1> QED
    BY <1>2

LinkPart == {"<a href='", "'>", "</a>", "[", "]", "(", ")"}
ImagePart == {"<img src='", "' alt='", "'/>", "!", "[", "]", "(", ")"}

(* A link changes nothing that is not one of its parts, ...                *)
LEMMA LinksLeave ==
    ASSUME NEW T \in SUBSET Token, T \cap LinkPart = {}
    PROVE  LinkChange(Token)[T] = 0
  <1>1. LinkChange(Token)[T] = (One("<a href='", T) + One("'>", T) + One("</a>", T))
                        - (One("[", T) + One("]", T) + One("(", T) + One(")", T))
    BY Zenon DEF LinkChange
  <1>2. /\ One("<a href='", T) = 0 /\ One("'>", T) = 0 /\ One("</a>", T) = 0
        /\ One("[", T) = 0 /\ One("]", T) = 0 /\ One("(", T) = 0 /\ One(")", T) = 0
    BY Zenon DEF LinkPart, One
  <1>3. LinkChange(Token)[T] = (0 + 0 + 0) - (0 + 0 + 0 + 0)
    BY <1>1, <1>2, Zenon
  <1> QED
    BY <1>3

(* an image does not, ...                                                  *)
LEMMA ImagesLeave ==
    ASSUME NEW T \in SUBSET Token, T \cap ImagePart = {}
    PROVE  ImageChange(Token)[T] = 0
  <1>1. ImageChange(Token)[T] =
            (One("<img src='", T) + One("' alt='", T) + One("'/>", T))
            - (One("!", T) + (One("[", T) + One("]", T) + One("(", T) + One(")", T)))
    BY Zenon DEF ImageChange
  <1>2. /\ One("<img src='", T) = 0 /\ One("' alt='", T) = 0 /\ One("'/>", T) = 0
        /\ One("!", T) = 0
        /\ One("[", T) = 0 /\ One("]", T) = 0 /\ One("(", T) = 0 /\ One(")", T) = 0
    BY Zenon DEF ImagePart, One
  <1>3. ImageChange(Token)[T] = (0 + 0 + 0) - (0 + (0 + 0 + 0 + 0))
    BY <1>1, <1>2, Zenon
  <1> QED
    BY <1>3

(* and a span only marks and its tags.                                     *)
LEMMA SpansLeave ==
    ASSUME NEW T \in SUBSET Token, NEW mark \in Seq(Mark), NEW open, NEW close, Mark \cap T = {},
           open \notin T, close \notin T
    PROVE  SpanChange(Token, mark, open, close)[T] = 0
  <1>1. Count(mark, T) = 0 /\ One(open, T) = 0 /\ One(close, T) = 0
    BY CountNone DEF One
  <1>2. SpanChange(Token, mark, open, close)[T] = One(open, T) + One(close, T) - 2 * Count(mark, T)
    BY Zenon DEF SpanChange
  <1> QED
    BY <1>1, <1>2

(* The tags that belong together.                                          *)
Pair(o, d) ==
    \/ o = "<strong>" /\ d = "</strong>"
    \/ o = "<em>" /\ d = "</em>"
    \/ o = "<s>" /\ d = "</s>"
    \/ o = "<code>" /\ d = "</code>"
    \/ o = "<i>" /\ d = "</i>"

(* Two pairs of tags are the same or have nothing in common.               *)
LEMMA PairsApart ==
    ASSUME NEW o, NEW d, NEW open, NEW close, Pair(o, d), Pair(open, close)
    PROVE  (o = open /\ d = close) \/ (o \notin {open, close} /\ d \notin {open, close})
  BY Zenon DEF Pair

(* The tags of a pair are two, and no part of a link or an image.          *)
LEMMA PairsAre ==
    ASSUME NEW o, NEW d, Pair(o, d)
    PROVE  /\ o # d /\ {o} \in SUBSET Token /\ {d} \in SUBSET Token
           /\ o \notin Mark /\ d \notin Mark
           /\ {o} \cap LinkPart = {} /\ {d} \cap LinkPart = {}
           /\ {o} \cap ImagePart = {} /\ {d} \cap ImagePart = {}
  <1>1. o # d /\ o \in Token /\ d \in Token
    BY Zenon DEF Pair, Token, Tag, Emphasis
  <1>2. o \notin Mark /\ d \notin Mark
    BY Zenon DEF Pair, Mark
  <1>3. o \notin LinkPart /\ d \notin LinkPart
    BY Zenon DEF Pair, LinkPart
  <1>4. o \notin ImagePart /\ d \notin ImagePart
    BY Zenon DEF Pair, ImagePart
  <1> QED
    BY <1>1, <1>2, <1>3, <1>4

(* A change that is accounted for.                                         *)
Neutral(c) ==
    /\ c \in [SUBSET Token -> Int]
    /\ SameWidth(c)
    /\ \A t \in Text : c[{t}] = 0
    /\ \A o, d : Pair(o, d) => c[{o}] = c[{d}]

(* A word is no mark and no tag.                                           *)
LEMMA WordsAre ==
    ASSUME NEW t \in Text
    PROVE  /\ {t} \in SUBSET Token /\ t \notin Mark /\ t \notin Tag
           /\ {t} \cap LinkPart = {} /\ {t} \cap ImagePart = {}
  <1>1. t \in Token
    BY DEF Token, Character
  <1>2. t \notin Mark \cup {"!", "[", "]", "(", ")"} \cup Tag
    BY TextAssumption
  <1>3. LinkPart \subseteq {"!", "[", "]", "(", ")"} \cup Tag
    BY DEF LinkPart, Tag
  <1>4. ImagePart \subseteq {"!", "[", "]", "(", ")"} \cup Tag
    BY DEF ImagePart, Tag
  <1> QED
    BY <1>1, <1>2, <1>3, <1>4

(* The change of an image is accounted for, ...                            *)
LEMMA ImagesNeutral == Neutral(ImageChange(Token))
  <1>1. \A t \in Text : ImageChange(Token)[{t}] = 0
    BY WordsAre, ImagesLeave, Zenon
  <1>2. \A o, d : Pair(o, d) => ImageChange(Token)[{o}] = ImageChange(Token)[{d}]
    <2> SUFFICES ASSUME NEW o, NEW d, Pair(o, d)
                 PROVE  ImageChange(Token)[{o}] = ImageChange(Token)[{d}]
      OBVIOUS
    <2>1. ImageChange(Token)[{o}] = 0 /\ ImageChange(Token)[{d}] = 0
      BY PairsAre, ImagesLeave, Zenon
    <2> QED
      BY <2>1
  <1> QED
    BY <1>1, <1>2, ChangeTypes, ImagesSameWidth, Zenon DEF Neutral

(* that of a link is, ...                                                  *)
LEMMA LinksNeutral == Neutral(LinkChange(Token))
  <1>1. \A t \in Text : LinkChange(Token)[{t}] = 0
    BY WordsAre, LinksLeave, Zenon
  <1>2. \A o, d : Pair(o, d) => LinkChange(Token)[{o}] = LinkChange(Token)[{d}]
    <2> SUFFICES ASSUME NEW o, NEW d, Pair(o, d)
                 PROVE  LinkChange(Token)[{o}] = LinkChange(Token)[{d}]
      OBVIOUS
    <2>1. LinkChange(Token)[{o}] = 0 /\ LinkChange(Token)[{d}] = 0
      BY PairsAre, LinksLeave, Zenon
    <2> QED
      BY <2>1
  <1> QED
    BY <1>1, <1>2, ChangeTypes, LinksSameWidth, Zenon DEF Neutral

(* and that of a span which becomes a pair of tags.                        *)
LEMMA SpansNeutral ==
    ASSUME NEW mark \in Seq(Mark), NEW open, NEW close, Pair(open, close),
           SameWidth(SpanChange(Token, mark, open, close))
    PROVE  Neutral(SpanChange(Token, mark, open, close))
  <1> DEFINE c == SpanChange(Token, mark, open, close)
  <1>1. ASSUME NEW T \in SUBSET Token
        PROVE  c[T] = One(open, T) + One(close, T) - 2 * Count(mark, T) /\ c[T] \in Int
    <2>1. Count(mark, T) \in Nat /\ One(open, T) \in Nat /\ One(close, T) \in Nat
      BY CountType, OnesType
    <2>2. c[T] = One(open, T) + One(close, T) - 2 * Count(mark, T)
      BY Zenon DEF SpanChange
    <2> HIDE DEF c
    <2> QED
      BY <2>1, <2>2
  <1>2. c \in [SUBSET Token -> Int]
    <2>1. c = [T \in SUBSET Token |-> c[T]]
      BY DEF SpanChange
    <2> HIDE DEF c
    <2> QED
      BY <1>1, <2>1
  <1>3. \A t \in Text : c[{t}] = 0
    <2> SUFFICES ASSUME NEW t \in Text PROVE c[{t}] = 0
      OBVIOUS
    <2>1. {t} \in SUBSET Token /\ t \notin Mark /\ t \notin Tag
      BY WordsAre
    <2>2. open \in Tag /\ close \in Tag
      BY Zenon DEF Pair, Tag, Emphasis
    <2>3. Mark \cap {t} = {} /\ open \notin {t} /\ close \notin {t}
      BY <2>1, <2>2
    <2> QED
      BY <2>1, <2>3, SpansLeave, Zenon
  <1>4. \A o, d : Pair(o, d) => c[{o}] = c[{d}]
    <2> SUFFICES ASSUME NEW o, NEW d, Pair(o, d) PROVE c[{o}] = c[{d}]
      OBVIOUS
    <2>1. {o} \in SUBSET Token /\ {d} \in SUBSET Token /\ o # d /\ o \notin Mark /\ d \notin Mark
      BY PairsAre, Zenon
    <2>2. Mark \cap {o} = {} /\ Mark \cap {d} = {}
      BY <2>1
    <2>3. CASE o = open /\ d = close
      <3>1. Count(mark, {o}) = 0 /\ Count(mark, {d}) = 0
        BY <2>2, CountNone
      <3>2. One(o, {o}) = 1 /\ One(o, {d}) = 0 /\ One(d, {d}) = 1 /\ One(d, {o}) = 0
        BY <2>1 DEF One
      <3> HIDE DEF c
      <3> QED
        BY <1>1, <2>1, <2>3, <3>1, <3>2
    <2>4. CASE o \notin {open, close} /\ d \notin {open, close}
      <3>1. open \notin {o} /\ close \notin {o} /\ open \notin {d} /\ close \notin {d}
        BY <2>4
      <3>2. c[{o}] = 0 /\ c[{d}] = 0
        BY <2>1, <2>2, <3>1, SpansLeave, Zenon
      <3> QED
        BY <3>2
    <2> QED
      BY <2>3, <2>4, PairsApart, Zenon
  <1> QED
    BY <1>2, <1>3, <1>4, Zenon DEF Neutral

-----------------------------------------------------------------------------
(* TextKept but for the addresses, between a line and what was made of it. *)
Accounted(s, l) ==
    /\ l \in Seq(Token)
    /\ Wide(s, l)
    /\ \A t \in Text : Count(l, {t}) = Count(s, {t})
    /\ \A o, d : Pair(o, d) => Count(l, {o}) = Count(l, {d})

(* The width is kept from one parser to the next.                          *)
LEMMA WideTransitive ==
    ASSUME NEW s \in Seq(Token), NEW l \in Seq(Token), NEW m \in Seq(Token), Wide(s, l), Wide(l, m)
    PROVE  Wide(s, m)
  <1> DEFINE C(x, T) == Count(x, T)
  <1>1. ASSUME NEW x \in Seq(Token), NEW T
        PROVE  C(x, T) \in Nat /\ Len(x) \in Nat
    <2>1. Count(x, T) \in Nat
      BY <1>1, CountType, Zenon
    <2> QED BY <1>1, <2>1
  <1>2. /\ Len(s) + C(s, Doubled) + 4 * C(s, ImageTag) + 3 * C(s, LinkTag) + C(l, Silent)
              = Len(l) + C(l, Doubled) + 4 * C(l, ImageTag) + 3 * C(l, LinkTag) + C(s, Silent)
        /\ Len(l) + C(l, Doubled) + 4 * C(l, ImageTag) + 3 * C(l, LinkTag) + C(m, Silent)
              = Len(m) + C(m, Doubled) + 4 * C(m, ImageTag) + 3 * C(m, LinkTag) + C(l, Silent)
    BY DEF Wide
  <1>3. /\ C(s, Doubled) \in Nat /\ C(s, ImageTag) \in Nat /\ C(s, LinkTag) \in Nat /\ C(s, Silent) \in Nat
        /\ C(l, Doubled) \in Nat /\ C(l, ImageTag) \in Nat /\ C(l, LinkTag) \in Nat /\ C(l, Silent) \in Nat
        /\ C(m, Doubled) \in Nat /\ C(m, ImageTag) \in Nat /\ C(m, LinkTag) \in Nat /\ C(m, Silent) \in Nat
        /\ Len(s) \in Nat /\ Len(l) \in Nat /\ Len(m) \in Nat
    BY <1>1, Zenon
  <1> HIDE DEF C
  <1> DEFINE s2 == C(s, Doubled)   s3 == C(s, ImageTag)   s4 == C(s, LinkTag)   s5 == C(s, Silent)
             l2 == C(l, Doubled)   l3 == C(l, ImageTag)   l4 == C(l, LinkTag)   l5 == C(l, Silent)
             m2 == C(m, Doubled)   m3 == C(m, ImageTag)   m4 == C(m, LinkTag)   m5 == C(m, Silent)
             s1 == Len(s)   l1 == Len(l)   m1 == Len(m)
  <1>4. /\ s1 + s2 + 4 * s3 + 3 * s4 + l5 = l1 + l2 + 4 * l3 + 3 * l4 + s5
        /\ l1 + l2 + 4 * l3 + 3 * l4 + m5 = m1 + m2 + 4 * m3 + 3 * m4 + l5
    BY <1>2
  <1>5. /\ s1 \in Nat /\ s2 \in Nat /\ s3 \in Nat /\ s4 \in Nat /\ s5 \in Nat
        /\ l1 \in Nat /\ l2 \in Nat /\ l3 \in Nat /\ l4 \in Nat /\ l5 \in Nat
        /\ m1 \in Nat /\ m2 \in Nat /\ m3 \in Nat /\ m4 \in Nat /\ m5 \in Nat
    BY <1>3
  <1> HIDE DEF s1, s2, s3, s4, s5, l1, l2, l3, l4, l5, m1, m2, m3, m4, m5
  <1>6. s1 + s2 + 4 * s3 + 3 * s4 + m5 = m1 + m2 + 4 * m3 + 3 * m4 + s5
    BY <1>4, <1>5
  <1> QED BY <1>6 DEF C, Wide, s1, s2, s3, s4, s5, m1, m2, m3, m4, m5

(* One more parser keeps the account.                                      *)
LEMMA AccountedStep ==
    ASSUME NEW s \in Seq(Token), NEW l, Accounted(s, l), NEW m, NEW c, NEW end,
           Rewrote(Token, l, m, c, end), Neutral(c)
    PROVE  Accounted(s, m)
  <1>0. /\ l \in Seq(Token) /\ m \in Seq(Token) /\ c \in [SUBSET Token -> Int] /\ SameWidth(c)
        /\ Wide(s, l)
    BY DEF Accounted, Rewrote, Neutral
  <1>1. Wide(l, m)
    BY <1>0, WidthChanged
  <1>2. Wide(s, m)
    BY <1>0, <1>1, WideTransitive
  <1>3. PICK n \in Nat : Changed(Token, l, m, c, n)
    BY DEF Rewrote
  <1>4. ASSUME NEW t \in Text
        PROVE  Count(m, {t}) = Count(s, {t})
    <2>1. {t} \in SUBSET Token /\ c[{t}] = 0 /\ Count(l, {t}) = Count(s, {t})
      BY <1>4, WordsAre DEF Accounted, Neutral
    <2>2. Count(m, {t}) = Count(l, {t}) + n * c[{t}]
      BY <1>3, <2>1, Zenon DEF Changed
    <2>3. Count(l, {t}) \in Nat
      BY <1>0, CountType
    <2>4. n * c[{t}] = 0
      BY <2>1
    <2> QED BY <2>1, <2>2, <2>3, <2>4
  <1>5. ASSUME NEW o, NEW d, Pair(o, d)
        PROVE  Count(m, {o}) = Count(m, {d})
    <2>1. /\ {o} \in SUBSET Token /\ {d} \in SUBSET Token /\ c[{o}] = c[{d}]
          /\ Count(l, {o}) = Count(l, {d})
      BY <1>5, PairsAre, Zenon DEF Accounted, Neutral
    <2>2. /\ Count(m, {o}) = Count(l, {o}) + n * c[{o}]
          /\ Count(m, {d}) = Count(l, {d}) + n * c[{d}]
      BY <1>3, <2>1, Zenon DEF Changed
    <2> QED BY <2>1, <2>2, Zenon
  <1> QED BY <1>0, <1>2, <1>4, <1>5, Zenon DEF Accounted

(* ImageParser keeps the account, ...                                      *)
LEMMA ImagesAccounted ==
    ASSUME NEW s \in Seq(Token), NEW l, Accounted(s, l)
    PROVE  Accounted(s, Images(l))
  <1>1. l \in Seq(Token)
    BY DEF Accounted
  <1> QED BY <1>1, ImagesRewrote, ImagesNeutral, AccountedStep, Zenon

(* LinkParser does, ...                                                    *)
LEMMA LinksAccounted ==
    ASSUME NEW s \in Seq(Token), NEW l, Accounted(s, l)
    PROVE  Accounted(s, Links(l))
  <1>1. l \in Seq(Token)
    BY DEF Accounted
  <1> QED BY <1>1, LinksRewrote, LinksNeutral, AccountedStep, Zenon

(* (the tags of a pair are tokens)                                         *)
LEMMA PairTokens ==
    ASSUME NEW o, NEW d, Pair(o, d)
    PROVE  o \in Token /\ d \in Token
  BY PairsAre, Zenon

(* the parsers with a mark of two characters do, ...                       *)
LEMMA DoublesAccounted ==
    ASSUME NEW s \in Seq(Token), NEW l, Accounted(s, l), NEW a \in Mark, NEW open, NEW close,
           Pair(open, close), open \in Doubled, close \in Doubled
    PROVE  Accounted(s, Marked(l, <<a, a>>, open, close))
  <1> DEFINE mark == <<a, a>>
  <1>1. l \in Seq(Token)
    BY DEF Accounted
  <1>2. mark \in Seq(Mark) /\ Len(mark) > 0
    OBVIOUS
  <1>3. mark \in Seq(Token)
    BY <1>2, MarksAreTokens
  <1>4. open \in Token /\ close \in Token
    BY PairTokens
  <1>5. Weighs(a, 1, 0, 0, 0, 0) /\ Weighs(open, 1, 1, 0, 0, 0) /\ Weighs(close, 1, 1, 0, 0, 0)
    BY WeightsOfMarks, WeightsOfTags, Zenon
  <1>6. 2 \in {1, 2} /\ 2 = 2 /\ mark = mark
    BY Zenon
  <1>7. SameWidth(SpanChange(Token, mark, open, close))
    BY <1>5, <1>6, SpansSameWidth, Zenon
  <1> HIDE DEF mark
  <1>8. Neutral(SpanChange(Token, mark, open, close))
    BY <1>2, <1>7, SpansNeutral, Zenon
  <1>9. Rewrote(Token, l, Marked(l, mark, open, close),
                SpanChange(Token, mark, open, close), MarkEnd(l, mark))
    BY <1>1, <1>2, <1>3, <1>4, MarkedRewrote, Zenon
  <1>10. Accounted(s, Marked(l, mark, open, close))
    BY <1>8, <1>9, AccountedStep, Zenon
  <1> QED BY <1>10 DEF mark

(* those with a mark of one, ...                                           *)
LEMMA SinglesAccounted ==
    ASSUME NEW s \in Seq(Token), NEW l, Accounted(s, l), NEW a \in Mark, NEW open, NEW close,
           Pair(open, close), open \in {"<em>", "<i>"}, close \in {"</em>", "</i>"}
    PROVE  Accounted(s, Marked(l, <<a>>, open, close))
  <1> DEFINE mark == <<a>>
  <1>1. l \in Seq(Token)
    BY DEF Accounted
  <1>2. mark \in Seq(Mark) /\ Len(mark) > 0
    OBVIOUS
  <1>3. mark \in Seq(Token)
    BY <1>2, MarksAreTokens
  <1>4. open \in Token /\ close \in Token
    BY PairTokens
  <1>5. Weighs(a, 1, 0, 0, 0, 0) /\ Weighs(open, 1, 0, 0, 0, 0) /\ Weighs(close, 1, 0, 0, 0, 0)
    BY WeightsOfMarks, WeightsOfTags, Zenon
  <1>6. 1 \in {1, 2} /\ 1 = 1 /\ mark = mark
    BY Zenon
  <1>7. SameWidth(SpanChange(Token, mark, open, close))
    BY <1>5, <1>6, SpansSameWidth, Zenon
  <1> HIDE DEF mark
  <1>8. Neutral(SpanChange(Token, mark, open, close))
    BY <1>2, <1>7, SpansNeutral, Zenon
  <1>9. Rewrote(Token, l, Marked(l, mark, open, close),
                SpanChange(Token, mark, open, close), MarkEnd(l, mark))
    BY <1>1, <1>2, <1>3, <1>4, MarkedRewrote, Zenon
  <1>10. Accounted(s, Marked(l, mark, open, close))
    BY <1>8, <1>9, AccountedStep, Zenon
  <1> QED BY <1>10 DEF mark

(* and the parser of code.                                                 *)
LEMMA CodedAccounted ==
    ASSUME NEW s \in Seq(Token), NEW l, Accounted(s, l)
    PROVE  Accounted(s, Coded(l))
  <1> DEFINE mark == <<"tick">>
  <1>1. l \in Seq(Token)
    BY DEF Accounted
  <1>2. mark \in Seq(Mark)
    BY MarksAre, Zenon
  <1>5. /\ Weighs("tick", 1, 0, 0, 0, 0)
        /\ Weighs("<code>", 1, 0, 0, 0, 0) /\ Weighs("</code>", 1, 0, 0, 0, 0)
    BY WeightsOfMarks, WeightsOfTags, Zenon DEF Mark
  <1>6. 1 \in {1, 2} /\ 1 = 1 /\ mark = mark
    BY Zenon
  <1>7. SameWidth(SpanChange(Token, mark, "<code>", "</code>"))
    BY <1>5, <1>6, SpansSameWidth, Zenon
  <1>8. Pair("<code>", "</code>")
    BY Zenon DEF Pair
  <1> HIDE DEF mark
  <1>9. Neutral(SpanChange(Token, mark, "<code>", "</code>"))
    BY <1>2, <1>7, <1>8, SpansNeutral, Zenon
  <1>10. Rewrote(Token, l, Coded(l), SpanChange(Token, mark, "<code>", "</code>"), CodeEnd(l))
    BY <1>1, CodedRewrote, Zenon DEF mark
  <1> QED BY <1>9, <1>10, AccountedStep, Zenon

-----------------------------------------------------------------------------
(* The line after each parser.                                             *)
AfterImages(s) == Images(s)
AfterLinks(s) == Links(AfterImages(s))
AfterStars(s) == Marked(AfterLinks(s), <<"*", "*">>, "<strong>", "</strong>")
AfterStrong(s) == Marked(AfterStars(s), <<"_", "_">>, "<strong>", "</strong>")
AfterEmphasized(s) == Marked(AfterStrong(s), <<"_">>, "<em>", "</em>")
AfterStrikeThrough(s) == Marked(AfterEmphasized(s), <<"~", "~">>, "<s>", "</s>")
AfterCode(s) == Coded(AfterStrikeThrough(s))
AfterItalic(s) == Marked(AfterCode(s), <<"*">>, "<i>", "</i>")

(* The parsers run in their order, each on what those before it left.      *)
InlineInv ==
    /\ source \in Lines
    /\ \/ done = 0 /\ line = source
       \/ done = 1 /\ line = AfterImages(source)
       \/ done = 2 /\ line = AfterLinks(source)
       \/ done = 3 /\ line = AfterStrong(source)
       \/ done = 4 /\ line = AfterEmphasized(source)
       \/ done = 5 /\ line = AfterStrikeThrough(source)
       \/ done = 6 /\ line = AfterCode(source)
       \/ done = 7 /\ line = AfterItalic(source)

(* Each parser has its place in Order.                                     *)
PlaceOf(parser, k) == \A n \in Nat : n < Len(Order) /\ Order[n + 1] = parser => n = k

(* Each of the seven parsers has one place, and no other.                  *)
LEMMA PlacesAre ==
    /\ Len(Order) = 7
    /\ PlaceOf("image", 0) /\ PlaceOf("link", 1) /\ PlaceOf("strong", 2)
    /\ PlaceOf("emphasized", 3) /\ PlaceOf("strikethrough", 4)
    /\ PlaceOf("code", 5) /\ PlaceOf("italic", 6)
  <1>1. /\ Len(Order) = 7
        /\ Order[0 + 1] = "image" /\ Order[1 + 1] = "link" /\ Order[2 + 1] = "strong"
        /\ Order[3 + 1] = "emphasized" /\ Order[4 + 1] = "strikethrough" /\ Order[5 + 1] = "code"
        /\ Order[6 + 1] = "italic"
    BY DEF Order
  <1>2. ASSUME NEW n \in Nat, n < Len(Order)
        PROVE  n = 0 \/ n = 1 \/ n = 2 \/ n = 3 \/ n = 4 \/ n = 5 \/ n = 6
    BY <1>1, <1>2
  <1> HIDE DEF Order
  <1> QED BY <1>1, <1>2, Zenon DEF PlaceOf

(* Each parser gets the line as the one before it left it: InlineInv is    *)
(* an invariant, and inductive.                                            *)
LEMMA InlineInvHolds == InlineSpec => []InlineInv
  <1>1. InlineInit => InlineInv
    BY DEF InlineInit, InlineInv
  <1>2. ASSUME InlineInv, [InlineNext]_inlineVars
        PROVE  InlineInv'
    <2>1. done \in Nat
      BY <1>2 DEF InlineInv
    <2>2. ASSUME NEW parser, NEW made, NEW k, Parse(parser, made), PlaceOf(parser, k)
          PROVE  /\ done = k /\ done' = done + 1 /\ line' = made /\ source' = source
                 /\ source \in Lines
      BY <1>2, <2>1, <2>2, Zenon DEF Parse, PlaceOf, InlineInv
    <2>3. CASE ImageParser
      <3>1. /\ done = 0 /\ done' = done + 1 /\ line' = Images(line) /\ source' = source
            /\ source \in Lines
        BY <2>2, <2>3, PlacesAre, Zenon DEF ImageParser
      <3> QED BY <1>2, <3>1 DEF InlineInv, AfterImages
    <2>4. CASE LinkParser
      <3>1. /\ done = 1 /\ done' = done + 1 /\ line' = Links(line) /\ source' = source
            /\ source \in Lines
        BY <2>2, <2>4, PlacesAre, Zenon DEF LinkParser
      <3> QED BY <1>2, <3>1 DEF InlineInv, AfterLinks
    <2>5. CASE StrongParser
      <3>1. /\ done = 2 /\ done' = done + 1 /\ source' = source /\ source \in Lines
            /\ line' = Marked(Marked(line, <<"*", "*">>, "<strong>", "</strong>"),
                              <<"_", "_">>, "<strong>", "</strong>")
        BY <2>2, <2>5, PlacesAre, Zenon DEF StrongParser
      <3>2. done = 2 /\ done' = done + 1
        BY <3>1, Zenon
      <3>3. line = AfterLinks(source) /\ done' = 3
        BY <1>2, <3>2 DEF InlineInv
      <3>4. line' = AfterStrong(source)
        BY <3>1, <3>3, Zenon DEF AfterStrong, AfterStars
      <3> QED BY <3>1, <3>3, <3>4, Zenon DEF InlineInv
    <2>6. CASE EmphasizedParser
      <3>1. /\ done = 3 /\ done' = done + 1 /\ source' = source /\ source \in Lines
            /\ line' = Marked(line, <<"_">>, "<em>", "</em>")
        BY <2>2, <2>6, PlacesAre, Zenon DEF EmphasizedParser
      <3>2. done = 3 /\ done' = done + 1
        BY <3>1, Zenon
      <3>3. line = AfterStrong(source) /\ done' = 4
        BY <1>2, <3>2 DEF InlineInv
      <3>4. line' = AfterEmphasized(source)
        BY <3>1, <3>3, Zenon DEF AfterEmphasized
      <3> QED BY <3>1, <3>3, <3>4, Zenon DEF InlineInv
    <2>7. CASE StrikeThroughParser
      <3>1. /\ done = 4 /\ done' = done + 1 /\ source' = source /\ source \in Lines
            /\ line' = Marked(line, <<"~", "~">>, "<s>", "</s>")
        BY <2>2, <2>7, PlacesAre, Zenon DEF StrikeThroughParser
      <3>2. line = AfterEmphasized(source)
        BY <1>2, <3>1 DEF InlineInv
      <3>3. done' = 5
        BY <3>1
      <3>4. line' = AfterStrikeThrough(source)
        BY <3>1, <3>2, Zenon DEF AfterStrikeThrough
      <3> QED BY <3>1, <3>3, <3>4, Zenon DEF InlineInv
    <2>8. CASE InlineCodeParser
      <3>1. /\ done = 5 /\ done' = done + 1 /\ source' = source /\ source \in Lines
            /\ line' = Coded(line)
        BY <2>2, <2>8, PlacesAre, Zenon DEF InlineCodeParser
      <3>2. line = AfterStrikeThrough(source)
        BY <1>2, <3>1 DEF InlineInv
      <3>3. done' = 6
        BY <3>1
      <3>4. line' = AfterCode(source)
        BY <3>1, <3>2, Zenon DEF AfterCode
      <3> QED BY <3>1, <3>3, <3>4, Zenon DEF InlineInv
    <2>9. CASE ItalicParser
      <3>1. /\ done = 6 /\ done' = done + 1 /\ source' = source /\ source \in Lines
            /\ line' = Marked(line, <<"*">>, "<i>", "</i>")
        BY <2>2, <2>9, PlacesAre, Zenon DEF ItalicParser
      <3>2. line = AfterCode(source)
        BY <1>2, <3>1 DEF InlineInv
      <3>3. done' = 7
        BY <3>1
      <3>4. line' = AfterItalic(source)
        BY <3>1, <3>2, Zenon DEF AfterItalic
      <3> QED BY <3>1, <3>3, <3>4, Zenon DEF InlineInv
    <2>10. CASE UNCHANGED inlineVars
      BY <1>2, <2>10, Zenon DEF inlineVars, InlineInv
    <2> QED BY <1>2, <2>3, <2>4, <2>5, <2>6, <2>7, <2>8, <2>9, <2>10, Zenon DEF InlineNext
  <1> QED BY <1>1, <1>2, PTL DEF InlineSpec

(* A line of characters, before the first parser: it has no tags.          *)
LEMMA SourceAccounted ==
    ASSUME NEW s \in Seq(Character)
    PROVE  /\ s \in Seq(Token) /\ Accounted(s, s)
           /\ \A T \in SUBSET Tag : Count(s, T) = 0
  <1>1. s \in Seq(Token)
    BY DEF Token
  <1>2. ASSUME NEW T \in SUBSET Tag
        PROVE  Count(s, T) = 0
    <2>1. Character \cap T = {}
      BY <1>2, TextAssumption, Zenon DEF Character, Tag, Emphasis, Mark
    <2> QED BY <2>1, CountNone, Zenon
  <1>3. ASSUME NEW o, NEW d, Pair(o, d)
        PROVE  Count(s, {o}) = Count(s, {d})
    <2>1. {o} \in SUBSET Tag /\ {d} \in SUBSET Tag
      BY <1>3, Zenon DEF Pair, Tag, Emphasis
    <2> QED BY <1>2, <2>1, Zenon
  <1>4. Wide(s, s)
    BY Zenon DEF Wide
  <1> QED BY <1>1, <1>2, <1>3, <1>4, Zenon DEF Accounted

(* After each of the parsers the line is accounted for.                    *)
LEMMA StagesAccounted ==
    ASSUME NEW s \in Seq(Character)
    PROVE  /\ Accounted(s, AfterImages(s)) /\ Accounted(s, AfterLinks(s))
           /\ Accounted(s, AfterStars(s)) /\ Accounted(s, AfterStrong(s))
           /\ Accounted(s, AfterEmphasized(s)) /\ Accounted(s, AfterStrikeThrough(s))
           /\ Accounted(s, AfterCode(s)) /\ Accounted(s, AfterItalic(s))
  <1>1. s \in Seq(Token) /\ Accounted(s, s)
    BY SourceAccounted
  <1>2. "*" \in Mark /\ "_" \in Mark /\ "~" \in Mark
    BY Zenon DEF Mark
  <1>3. /\ Pair("<strong>", "</strong>") /\ Pair("<em>", "</em>") /\ Pair("<s>", "</s>")
        /\ Pair("<i>", "</i>")
    BY Zenon DEF Pair
  <1>4. /\ "<strong>" \in Doubled /\ "</strong>" \in Doubled /\ "<s>" \in Doubled /\ "</s>" \in Doubled
        /\ "<em>" \in {"<em>", "<i>"} /\ "<i>" \in {"<em>", "<i>"}
        /\ "</em>" \in {"</em>", "</i>"} /\ "</i>" \in {"</em>", "</i>"}
    BY Zenon DEF Doubled
  <1>5. Accounted(s, AfterImages(s))
    BY <1>1, ImagesAccounted, Zenon DEF AfterImages
  <1>6. Accounted(s, AfterLinks(s))
    BY <1>1, <1>5, LinksAccounted, Zenon DEF AfterLinks
  <1>7. Accounted(s, AfterStars(s))
    BY <1>1, <1>2, <1>3, <1>4, <1>6, DoublesAccounted, Zenon DEF AfterStars
  <1>8. Accounted(s, AfterStrong(s))
    BY <1>1, <1>2, <1>3, <1>4, <1>7, DoublesAccounted, Zenon DEF AfterStrong
  <1>9. Accounted(s, AfterEmphasized(s))
    BY <1>1, <1>2, <1>3, <1>4, <1>8, SinglesAccounted, Zenon DEF AfterEmphasized
  <1>10. Accounted(s, AfterStrikeThrough(s))
    BY <1>1, <1>2, <1>3, <1>4, <1>9, DoublesAccounted, Zenon DEF AfterStrikeThrough
  <1>11. Accounted(s, AfterCode(s))
    BY <1>1, <1>10, CodedAccounted, Zenon DEF AfterCode
  <1>12. Accounted(s, AfterItalic(s))
    BY <1>1, <1>2, <1>3, <1>4, <1>11, SinglesAccounted, Zenon DEF AfterItalic
  <1> QED BY <1>5, <1>6, <1>7, <1>8, <1>9, <1>10, <1>11, <1>12

(* TextKept but for the addresses, of a line that is accounted for.        *)
LEMMA AccountedIs ==
    ASSUME source \in Seq(Character), Accounted(source, line)
    PROVE  /\ WidthKept
           /\ \A t \in Text : Count(line, {t}) = Count(source, {t})
           /\ \A tags \in {<<"<strong>", "</strong>">>, <<"<em>", "</em>">>, <<"<s>", "</s>">>,
                           <<"<code>", "</code>">>, <<"<i>", "</i>">>} :
                 Count(line, {tags[1]}) = Count(line, {tags[2]})
  <1>1. WidthKept
    <2>1. /\ Doubled \in SUBSET Tag /\ Silent \in SUBSET Tag /\ ImageTag \in SUBSET Tag
          /\ LinkTag \in SUBSET Tag
      BY Zenon DEF Doubled, Silent, ImageTag, LinkTag, Tag, Emphasis
    <2>2. /\ Count(source, Doubled) = 0 /\ Count(source, Silent) = 0
          /\ Count(source, ImageTag) = 0 /\ Count(source, LinkTag) = 0
      BY <2>1, SourceAccounted, Zenon
    <2>3. line \in Seq(Token) /\ Wide(source, line) /\ source \in Seq(Token)
      BY SourceAccounted DEF Accounted
    <2> DEFINE d == Count(line, Doubled)
               i == Count(line, ImageTag)
               a == Count(line, LinkTag)
               k == Count(line, Silent)
    <2>4. d \in Nat /\ i \in Nat /\ a \in Nat /\ k \in Nat
      BY <2>3, CountType, Zenon
    <2>5. Len(source) + 0 + 4 * 0 + 3 * 0 + k = Len(line) + d + 4 * i + 3 * a + 0
      BY <2>2, <2>3 DEF Wide
    <2> HIDE DEF d, i, a, k
    <2>6. Len(source) + k = Len(line) + d + 4 * i + 3 * a
      BY <2>3, <2>4, <2>5
    <2> QED BY <2>6, Zenon DEF d, i, a, k, WidthKept, Doubled, Silent, ImageTag, LinkTag
  <1>2. ASSUME NEW o, NEW d, Pair(o, d)
        PROVE  Count(line, {<<o, d>>[1]}) = Count(line, {<<o, d>>[2]})
    <2>1. <<o, d>>[1] = o /\ <<o, d>>[2] = d
      OBVIOUS
    <2>2. Count(line, {o}) = Count(line, {d})
      BY <1>2, Zenon DEF Accounted
    <2> QED BY <2>1, <2>2, Zenon
  <1>3. /\ Pair("<strong>", "</strong>") /\ Pair("<em>", "</em>") /\ Pair("<s>", "</s>")
        /\ Pair("<code>", "</code>") /\ Pair("<i>", "</i>")
    BY Zenon DEF Pair
  <1>4. \A t \in Text : Count(line, {t}) = Count(source, {t})
    BY Zenon DEF Accounted
  <1> DEFINE Even(tags) == Count(line, {tags[1]}) = Count(line, {tags[2]})
  <1>5. /\ Even(<<"<strong>", "</strong>">>) /\ Even(<<"<em>", "</em>">>) /\ Even(<<"<s>", "</s>">>)
        /\ Even(<<"<code>", "</code>">>) /\ Even(<<"<i>", "</i>">>)
    BY <1>2, <1>3, Zenon
  <1> HIDE DEF Even
  <1>6. \A tags \in {<<"<strong>", "</strong>">>, <<"<em>", "</em>">>, <<"<s>", "</s>">>,
                    <<"<code>", "</code>">>, <<"<i>", "</i>">>} : Even(tags)
    BY <1>5, Zenon
  <1> QED BY <1>1, <1>4, <1>6, Zenon DEF Even

-----------------------------------------------------------------------------
(* What a parser does not change.                                          *)
LEMMA Leaves ==
    ASSUME NEW l \in Seq(Token), NEW m, NEW c, NEW end, Rewrote(Token, l, m, c, end),
           NEW T \in SUBSET Token, c[T] = 0
    PROVE  Count(m, T) = Count(l, T)
  <1>1. PICK n \in Nat : Count(m, T) = Count(l, T) + n * c[T]
    BY Zenon DEF Rewrote, Changed
  <1>2. Count(l, T) \in Nat
    BY CountType, Zenon
  <1>3. n * c[T] = 0
    OBVIOUS
  <1> QED BY <1>1, <1>2, <1>3

(* No mark is empty.                                                       *)
LEMMA MarksAreLong ==
    /\ <<"*", "*">> \in Seq(Mark) /\ Len(<<"*", "*">>) > 0
    /\ <<"_", "_">> \in Seq(Mark) /\ Len(<<"_", "_">>) > 0
    /\ <<"~", "~">> \in Seq(Mark) /\ Len(<<"~", "~">>) > 0
    /\ <<"_">> \in Seq(Mark) /\ Len(<<"_">>) > 0
    /\ <<"*">> \in Seq(Mark) /\ Len(<<"*">>) > 0
    /\ <<"tick">> \in Seq(Mark) /\ Len(<<"tick">>) > 0
  <1>1. 1 > 0 /\ 2 > 0
    OBVIOUS
  <1> QED BY <1>1, MarksAre, Zenon

(* The parser of code changes nothing but marks and its tags, ...          *)
LEMMA CodedLeft ==
    ASSUME NEW l \in Seq(Token), NEW T \in SUBSET Token, Mark \cap T = {}, "<code>" \notin T,
           "</code>" \notin T
    PROVE  Count(Coded(l), T) = Count(l, T)
  <1>1. <<"tick">> \in Seq(Mark)
    BY MarksAre, Zenon
  <1>2. SpanChange(Token, <<"tick">>, "<code>", "</code>")[T] = 0
    BY <1>1, SpansLeave, Zenon
  <1> QED BY <1>2, CodedRewrote, Leaves, Zenon

(* ImageParser nothing that is no part of an image, ...                    *)
LEMMA ImagesLeft ==
    ASSUME NEW l \in Seq(Token), NEW T \in SUBSET Token, T \cap ImagePart = {}
    PROVE  Count(Images(l), T) = Count(l, T)
  <1>1. ImageChange(Token)[T] = 0
    BY ImagesLeave, Zenon
  <1>2. Rewrote(Token, l, Images(l), ImageChange(Token), ImageEnd(l))
    BY ImagesRewrote, Zenon
  <1> QED BY <1>1, <1>2, Leaves, Zenon

(* and LinkParser nothing that is no part of a link.                       *)
LEMMA LinksLeft ==
    ASSUME NEW l \in Seq(Token), NEW T \in SUBSET Token, T \cap LinkPart = {}
    PROVE  Count(Links(l), T) = Count(l, T)
  <1>1. LinkChange(Token)[T] = 0
    BY LinksLeave, Zenon
  <1>2. Rewrote(Token, l, Links(l), LinkChange(Token), LinkEnd(l))
    BY LinksRewrote, Zenon
  <1> QED BY <1>1, <1>2, Leaves, Zenon

(* Without a parenthesis there is no link and no image.                    *)
LEMMA NoParenthesis ==
    ASSUME NEW l \in Seq(Token), Positions(l, "(") = {}
    PROVE  Images(l) = l /\ Links(l) = l
  <1>1. ASSUME NEW p \in 1..Len(l)
        PROVE  l[p] # "("
    BY DEF Positions
  <1>2. ASSUME NEW p \in 1..Len(l), NEW u \in Nat, NEW e \in Nat, Bracket(l, p, u, e)
        PROVE  FALSE
    <2>1. l[u - 1] = "(" /\ p < u - 2 /\ u <= e /\ e <= Len(l)
      BY <1>2 DEF Bracket
    <2>2. u - 1 \in 1..Len(l)
      BY <2>1
    <2> QED BY <1>1, <2>1, <2>2
  <1>3. ASSUME NEW p \in 1..Len(l)
        PROVE  LinkEnd(l)[p] = 0
    <2>1. SUFFICES ASSUME LinkEnd(l)[p] # 0
                   PROVE  FALSE
      OBVIOUS
    <2>2. LinkAt(Token, l, p)
      BY <2>1, LinkIs, Zenon
    <2>3. /\ UrlStart(l, p) \in Nat /\ LinkEnd(l)[p] \in p..Len(l)
          /\ Bracket(l, p, UrlStart(l, p), LinkEnd(l)[p])
      BY <2>2, Zenon DEF LinkAt
    <2>4. LinkEnd(l)[p] \in Nat
      BY <2>3
    <2> QED BY <1>2, <2>3, <2>4, Zenon
  <1>4. ASSUME NEW p \in 1..Len(l)
        PROVE  ImageEnd(l)[p] = 0
    <2>1. SUFFICES ASSUME ImageEnd(l)[p] # 0
                   PROVE  FALSE
      OBVIOUS
    <2>2. ImageAt(Token, l, p)
      BY <2>1, ImageIs, Zenon
    <2>3. /\ UrlStart(l, p + 1) \in Nat /\ ImageEnd(l)[p] \in p + 1..Len(l)
          /\ Bracket(l, p + 1, UrlStart(l, p + 1), ImageEnd(l)[p])
      BY <2>2, Zenon DEF ImageAt
    <2>4. ImageEnd(l)[p] \in Nat /\ p + 1 \in 1..Len(l)
      BY <2>3
    <2> QED BY <1>2, <2>3, <2>4, Zenon
  <1>5. ASSUME NEW end, NEW rep, NEW m, ReplacedBy(Token, l, end, rep, m),
               \A p \in 1..Len(l) : end[p] = 0
        PROVE  m = l
    <2>1. PICK R : Rewriting(Token, l, end, rep, R) /\ m = R[1]
      BY <1>5, Zenon DEF ReplacedBy
    <2> QED BY <1>5, <2>1, Unmatched, Zenon
  <1>6. Images(l) = l
    BY <1>4, <1>5, ImagesRewrite, Zenon
  <1>7. Links(l) = l
    BY <1>3, <1>5, LinksRewrite, Zenon
  <1> QED BY <1>6, <1>7

(* A line without a parenthesis is as it was when StrongParser gets it.    *)
LEMMA LinksSkipped ==
    ASSUME NEW s \in Seq(Token), Positions(s, "(") = {}
    PROVE  AfterImages(s) = s /\ AfterLinks(s) = s
  BY NoParenthesis, Zenon DEF AfterImages, AfterLinks

(* StrongParser puts a tag or finds no match.                              *)
LEMMA StrongMore ==
    ASSUME NEW l \in Seq(Token), NEW mark \in Seq(Mark), Len(mark) > 0, NEW m,
           m = Marked(l, mark, "<strong>", "</strong>")
    PROVE  /\ Count(m, {"<strong>"}) >= Count(l, {"<strong>"})
           /\ \/ m = l /\ \A p \in 1..Len(l) : MarkEnd(l, mark)[p] = 0
              \/ Count(m, {"<strong>"}) > 0
  <1> DEFINE T == {"<strong>"}
             c == SpanChange(Token, mark, "<strong>", "</strong>")
  <1>1. /\ mark \in Seq(Token) /\ "<strong>" \in Token /\ "</strong>" \in Token
        /\ T \in SUBSET Token /\ Mark \cap T = {} /\ "</strong>" \notin T /\ "<strong>" \in T
    <2>1. /\ "<strong>" \in Token /\ "</strong>" \in Token
          /\ T \in SUBSET Token /\ Mark \cap T = {} /\ "</strong>" \notin T /\ "<strong>" \in T
      BY Zenon DEF Token, Tag, Emphasis, Mark
    <2> QED BY <2>1, MarksAreTokens, Zenon
  <1>2. Rewrote(Token, l, m, c, MarkEnd(l, mark))
    BY <1>1, MarkedRewrote, Zenon
  <1>3. c[T] = 1
    <2>1. c[T] = One("<strong>", T) + One("</strong>", T) - 2 * Count(mark, T)
      BY <1>1, Zenon DEF SpanChange
    <2>2. Count(mark, T) = 0
      BY <1>1, CountNone, Zenon
    <2>3. One("<strong>", T) = 1 /\ One("</strong>", T) = 0
      BY <1>1, Zenon DEF One
    <2> HIDE DEF c, T
    <2> QED BY <2>1, <2>2, <2>3
  <1>4. PICK n \in Nat : /\ Count(m, T) = Count(l, T) + n * c[T]
                         /\ n = 0 => m = l /\ NoMatch(MarkEnd(l, mark), 1, Len(l))
    BY <1>1, <1>2, Zenon DEF Rewrote, Changed
  <1>5. Count(l, T) \in Nat
    BY CountType, Zenon
  <1> DEFINE a == Count(l, T)
             b == Count(m, T)
  <1>6. a \in Nat /\ b = a + n
    BY <1>3, <1>4, <1>5
  <1> HIDE DEF a, b
  <1>7. b >= a /\ (n = 0 \/ b > 0)
    BY <1>6
  <1>8. n = 0 => m = l /\ \A p \in 1..Len(l) : MarkEnd(l, mark)[p] = 0
    BY <1>4, Zenon DEF NoMatch
  <1> QED BY <1>7, <1>8, Zenon DEF a, b

(* No other parser takes the tag away.                                     *)
LEMMA StrongLeft ==
    ASSUME NEW l \in Seq(Token), NEW mark \in Seq(Mark), Len(mark) > 0, NEW open, NEW close,
           Pair(open, close), open # "<strong>"
    PROVE  Count(Marked(l, mark, open, close), {"<strong>"}) = Count(l, {"<strong>"})
  <1> DEFINE T == {"<strong>"}
  <1>1. T \in SUBSET Token /\ Mark \cap T = {} /\ open \notin T /\ close \notin T
    BY Zenon DEF Token, Tag, Emphasis, Mark, Pair
  <1>2. open \in Token /\ close \in Token
    BY PairTokens, Zenon
  <1> HIDE DEF T
  <1>3. mark \in Seq(Token)
    BY MarksAreTokens, Zenon
  <1>4. Rewrote(Token, l, Marked(l, mark, open, close), SpanChange(Token, mark, open, close),
                MarkEnd(l, mark))
    BY <1>2, <1>3, MarkedRewrote, Zenon
  <1>5. SpanChange(Token, mark, open, close)[T] = 0
    BY <1>1, SpansLeave, Zenon
  <1> QED BY <1>1, <1>4, <1>5, Leaves, Zenon DEF T

(* What is at least a positive number is one.                              *)
LEMMA Positive ==
    /\ ~(0 > 0)
    /\ \A a, b \in Nat : a > 0 /\ b >= a => b > 0
  OBVIOUS

(* "StrongParser has to be before EmphasizedParser", of the finished line. *)
LEMMA StrongFirst ==
    ASSUME NEW s \in Seq(Character), Positions(s, "tick") = {}, Positions(s, "(") = {},
           NEW p \in 1..Len(s), Delimited(s, p, <<"_", "_">>) # 0
    PROVE  Positions(AfterItalic(s), "<strong>") # {}
  <1> DEFINE T == {"<strong>"}
  <1>0. /\ T \in SUBSET Token /\ Mark \cap T = {} /\ "<code>" \notin T /\ "</code>" \notin T
        /\ "<em>" # "<strong>" /\ "<s>" # "<strong>" /\ "<i>" # "<strong>"
        /\ Pair("<em>", "</em>") /\ Pair("<s>", "</s>") /\ Pair("<i>", "</i>")
    BY Zenon DEF Token, Tag, Emphasis, Mark, Pair
  <1> HIDE DEF T
  <1>1. /\ AfterLinks(s) \in Seq(Token) /\ AfterStars(s) \in Seq(Token)
        /\ AfterStrong(s) \in Seq(Token) /\ AfterEmphasized(s) \in Seq(Token)
        /\ AfterStrikeThrough(s) \in Seq(Token) /\ AfterCode(s) \in Seq(Token)
        /\ AfterItalic(s) \in Seq(Token) /\ s \in Seq(Token)
    BY StagesAccounted, SourceAccounted, Zenon DEF Accounted
  <1>2. AfterLinks(s) = s
    BY <1>1, LinksSkipped, Zenon
  <1>3. Count(AfterStrong(s), T) > 0
    <2>1. CASE Count(AfterStars(s), T) > 0
      <3>1. Count(AfterStrong(s), T) >= Count(AfterStars(s), T)
        BY <1>1, MarksAreLong, StrongMore, Zenon DEF AfterStrong, T
      <3>2. Count(AfterStrong(s), T) \in Nat /\ Count(AfterStars(s), T) \in Nat
        BY <1>1, CountType, Zenon
      <3> QED BY <2>1, <3>1, <3>2, Positive, Zenon
    <2>2. CASE ~(Count(AfterStars(s), T) > 0)
      <3>1. AfterStars(s) = s
        BY <1>1, <1>2, MarksAreLong, <2>2, StrongMore, Zenon DEF AfterStars, T
      <3>2. NoCodeAhead(s, p)
        <4>1. ASSUME NEW k \in 1..Len(s)
              PROVE  s[k] \notin CodeToken
          <5>1. DOMAIN s = 1..Len(s) /\ s[k] \in Character
            BY PlacesOf, Zenon
          <5>3. s[k] # "tick"
            BY <5>1, Zenon DEF Positions
          <5>2. "<code>" \notin Character /\ "</code>" \notin Character
            BY TextAssumption, Zenon DEF Character, Mark, Tag
          <5> QED BY <5>1, <5>2, <5>3, Zenon DEF CodeToken
        <4>2. \A k \in p..Len(s) : k \in 1..Len(s)
          BY PlacesOf, Zenon
        <4> QED BY <4>1, <4>2, Zenon DEF NoCodeAhead
      <3>3. p \in DOMAIN s
        BY PlacesOf, Zenon
      <3>4. MarkEnd(s, <<"_", "_">>)[p] = Delimited(s, p, <<"_", "_">>)
        BY <3>2, <3>3, Zenon DEF MarkEnd
      <3>5. MarkEnd(s, <<"_", "_">>)[p] # 0
        BY <3>4, Zenon
      <3> QED BY <1>1, MarksAreLong, <3>1, <3>5, StrongMore, Zenon DEF AfterStrong, T
    <2> QED BY <2>1, <2>2, Zenon
  <1>4. Count(AfterEmphasized(s), T) = Count(AfterStrong(s), T)
    BY <1>0, <1>1, MarksAreLong, StrongLeft, ZenonT(30) DEF AfterEmphasized, T
  <1>5. Count(AfterStrikeThrough(s), T) = Count(AfterEmphasized(s), T)
    BY <1>0, <1>1, MarksAreLong, StrongLeft, ZenonT(30) DEF AfterStrikeThrough, T
  <1>6. Count(AfterCode(s), T) = Count(AfterStrikeThrough(s), T)
    BY <1>0, <1>1, CodedLeft, Zenon DEF AfterCode
  <1>7. Count(AfterItalic(s), T) = Count(AfterCode(s), T)
    BY <1>0, <1>1, MarksAreLong, StrongLeft, ZenonT(30) DEF AfterItalic, T
  <1>8. Count(AfterItalic(s), T) > 0
    BY <1>3, <1>4, <1>5, <1>6, <1>7, Zenon
  <1>9. ASSUME Positions(AfterItalic(s), "<strong>") = {}
        PROVE  FALSE
    <2>1. {q \in DOMAIN AfterItalic(s) : AfterItalic(s)[q] \in T} = {}
      BY <1>9, Zenon DEF Positions, T
    <2>2. Count(AfterItalic(s), T) = 0
      BY <2>1, FS_EmptySet, Zenon DEF Count
    <2> QED BY <1>8, <2>2, Positive, Zenon
  <1> QED BY <1>9, Zenon

-----------------------------------------------------------------------------
(* m is l up to c, where the last element of K is in both.                 *)
Keeps(S, l, m, K, c) ==
    /\ m \in Seq(S)
    /\ LastOf(l, K, c) /\ LastOf(m, K, c)
    /\ \A k \in 1..c : m[k] = l[k]

(* Two parsers that keep the line up to c.                                 *)
LEMMA KeepsTransitive ==
    ASSUME NEW S, NEW l, NEW m, NEW n, NEW K, NEW c, Keeps(S, l, m, K, c), Keeps(S, m, n, K, c)
    PROVE  Keeps(S, l, n, K, c)
  BY DEF Keeps

(* A parser that has no match up to c, and that neither makes nor takes    *)
(* anything of K.                                                          *)
LEMMA FrontKept ==
    ASSUME NEW S, NEW l \in Seq(S), NEW mark \in Seq(S), Len(mark) > 0,
           NEW open \in S, NEW close \in S, NEW end, SpanEnds(l, end, mark),
           NEW K \in SUBSET S, Count(mark, K) = 0, open \notin K, close \notin K,
           NEW c, LastOf(l, K, c), NoMatch(end, 1, c)
    PROVE  Keeps(S, l, Spans(l, end, mark, open, close), K, c)
  <1> DEFINE m == Spans(l, end, mark, open, close)
             n == Len(l)
             d == SpanChange(S, mark, open, close)
  <1>1. c \in 0..n /\ n \in Nat /\ \A k \in c + 1..n : l[k] \notin K
    BY DEF LastOf
  <1>2. PICK R : Rewriting(S, l, end, SpanRep(l, end, mark, open, close), R) /\ m = R[1]
    <2>1. ReplacedBy(S, l, end, SpanRep(l, end, mark, open, close), m)
      BY SpansRewrite, Zenon
    <2> QED BY <2>1, Zenon DEF ReplacedBy
  <1> HIDE DEF m
  <1>3. CopiedUpto(l, R, 1, c)
    <2>1. 1 \in 1..c + 1
      BY <1>1
    <2> QED BY <1>1, <1>2, <2>1, WhereNoneUpto, Zenon DEF n
  <1>4. R[c + 1] \in Seq(S) /\ m \in Seq(S)
    <2>1. c + 1 \in 1..Len(l) + 1 /\ 1 \in 1..Len(l) + 1
      BY <1>1
    <2> QED BY <1>2, <2>1, Zenon DEF Rewriting
  <1>5. m = SubSeq(l, 1, c) \o R[c + 1]
    BY <1>2, <1>3, Zenon DEF CopiedUpto
  <1>6. /\ SubSeq(l, 1, c) \in Seq(S) /\ Len(SubSeq(l, 1, c)) = c
        /\ \A k \in 1..c : SubSeq(l, 1, c)[k] = l[k]
    BY <1>1
  <1>7. Count(R[c + 1], K) = 0
    <2>1. Rewrote(S, l, m, d, end)
      BY SpansRewrote, Zenon DEF m
    <2>2. d[K] = 0
      <3>1. d[K] = One(open, K) + One(close, K) - 2 * Count(mark, K)
        BY Zenon DEF SpanChange
      <3>2. One(open, K) = 0 /\ One(close, K) = 0
        BY Zenon DEF One
      <3> HIDE DEF d
      <3> QED BY <3>1, <3>2
    <2> HIDE DEF d
    <2>3. PICK k \in Nat : Count(m, K) = Count(l, K) + k * d[K]
      BY <2>1, Zenon DEF Rewrote, Changed
    <2>4. Count(m, K) = Count(SubSeq(l, 1, c), K) + Count(R[c + 1], K)
      <3>1. CountsBoth(SubSeq(l, 1, c), R[c + 1], K)
        BY <1>4, <1>6, CountConcat, Zenon
      <3> QED BY <1>5, <3>1, Zenon DEF CountsBoth
    <2>5. Count(l, K) = Count(SubSeq(l, 1, c), K) + Count(SubSeq(l, c + 1, n), K)
      <3>1. 1 \in 1..Len(l) + 1 /\ c \in 1 - 1..Len(l) /\ n \in c..Len(l)
        BY <1>1
      <3>2. Count(SubSeq(l, 1, n), K) = Count(SubSeq(l, 1, c), K) + Count(SubSeq(l, c + 1, n), K)
        <4> HIDE DEF n
        <4> QED BY <3>1, CountSplit
      <3>3. SubSeq(l, 1, n) = l
        BY SubSeqFull
      <3> QED BY <3>2, <3>3, Zenon
    <2>6. Count(SubSeq(l, c + 1, n), K) = 0
      <3>1. SubSeq(l, c + 1, n) \in Seq(S \ K)
        <4>1. \A i \in c + 1..n : l[i] \in S \ K
          BY <1>1
        <4>2. c + 1 \in Int /\ n \in Int
          BY <1>1
        <4> HIDE DEF n
        <4> QED BY <4>1, <4>2, SubSeqProperties
      <3>2. (S \ K) \cap K = {}
        OBVIOUS
      <3> QED BY <3>1, <3>2, CountNone, Zenon
    <2>7. Count(l, K) \in Nat /\ Count(SubSeq(l, 1, c), K) \in Nat /\ Count(R[c + 1], K) \in Nat
      BY <1>4, <1>6, CountType, Zenon
    <2>8. k * d[K] = 0
      BY <2>2
    <2> DEFINE u == Count(l, K)
               v == Count(SubSeq(l, 1, c), K)
               w == Count(R[c + 1], K)
    <2>9. u \in Nat /\ v \in Nat /\ w \in Nat /\ u + 0 = v + w /\ u = v + 0
      BY <2>3, <2>4, <2>5, <2>6, <2>7, <2>8, Zenon
    <2> HIDE DEF u, v, w
    <2>10. w = 0
      BY <2>9
    <2> QED BY <2>10 DEF w
  <1> DEFINE a == SubSeq(l, 1, c)
             b == R[c + 1]
  <1>8. \A j \in 1..Len(b) : b[j] \notin K
    BY <1>4, <1>7, NoneCounted, Zenon
  <1>9. /\ Len(a \o b) = Len(a) + Len(b)
        /\ \A i \in 1..Len(a) + Len(b) : (a \o b)[i] = IF i <= Len(a) THEN a[i] ELSE b[i - Len(a)]
    <2>1. a \in Seq(S) /\ b \in Seq(S)
      BY <1>4, <1>6
    <2> HIDE DEF a, b
    <2> QED BY <2>1, ConcatProperties
  <1>10. Len(b) \in Nat /\ Len(a) = c /\ m = a \o b /\ \A k \in 1..c : a[k] = l[k]
    BY <1>4, <1>5, <1>6
  <1> HIDE DEF a, b
  <1>11. Len(m) = c + Len(b) /\ \A k \in 1..c : m[k] = l[k]
    BY <1>1, <1>9, <1>10
  <1>12. ASSUME NEW k \in c + 1..Len(m)
         PROVE  m[k] \notin K
    <2>1. k \in 1..Len(a) + Len(b) /\ ~(k <= Len(a)) /\ k - Len(a) \in 1..Len(b)
      BY <1>1, <1>10, <1>11
    <2>2. m[k] = b[k - Len(a)]
      BY <1>9, <1>10, <2>1, Zenon
    <2> QED BY <1>8, <2>1, <2>2, Zenon
  <1>13. c \in 0..Len(m) /\ (c = 0 \/ m[c] \in K)
    <2>1. c = 0 \/ l[c] \in K
      BY DEF LastOf
    <2>2. c = 0 \/ c \in 1..c
      BY <1>1
    <2>3. c = 0 \/ m[c] \in K
      BY <1>11, <2>1, <2>2
    <2> QED BY <1>1, <1>10, <1>11, <2>3
  <1>14. LastOf(m, K, c)
    BY <1>12, <1>13, Zenon DEF LastOf
  <1> QED BY <1>4, <1>11, <1>14, Zenon DEF m, Keeps

(* The lookahead keeps a parser of emphasis behind the last code.          *)
LEMMA MarkedKeeps ==
    ASSUME NEW l \in Seq(Token), NEW mark \in Seq(Mark \ CodeToken), Len(mark) > 0, NEW open, NEW close,
           Pair(open, close), open # "<code>", NEW c, LastOf(l, CodeToken, c)
    PROVE  Keeps(Token, l, Marked(l, mark, open, close), CodeToken, c)
  <1> DEFINE end == MarkEnd(l, mark)
             K == CodeToken
  <1>1. K \in SUBSET Token /\ open \notin K /\ close \notin K /\ open \in Token /\ close \in Token
    <2>1. K \in SUBSET Token /\ open \notin K /\ close \notin K
      BY Zenon DEF CodeToken, Token, Character, Mark, Tag, Pair
    <2> QED BY <2>1, PairTokens, Zenon
  <1>2. mark \in Seq(Token) /\ Count(mark, K) = 0
    <2>1. mark \in Seq(Mark)
      OBVIOUS
    <2>2. (Mark \ CodeToken) \cap CodeToken = {}
      BY Zenon
    <2> QED BY <2>1, <2>2, MarksAreTokens, CountNone, Zenon
  <1>3. SpanEnds(l, end, mark)
    BY <1>2, MarkEndsAre, Zenon
  <1> HIDE DEF K
  <1>4. NoMatch(end, 1, c)
    <2>1. SUFFICES ASSUME NEW j \in 1..c
                   PROVE  end[j] = 0
      BY DEF NoMatch
    <2>2. c \in j..Len(l) /\ j \in DOMAIN l /\ l[c] \in K
      BY DEF LastOf, K
    <2>3. ~NoCodeAhead(l, j)
      BY <2>2, Zenon DEF NoCodeAhead, K
    <2> QED BY <2>2, <2>3, Zenon DEF MarkEnd
  <1>5. LastOf(l, K, c)
    BY DEF K
  <1> HIDE DEF end
  <1>6. Keeps(Token, l, Spans(l, end, mark, open, close), K, c)
    BY <1>1, <1>2, <1>3, <1>4, <1>5, FrontKept, Zenon
  <1> QED BY <1>6, Zenon DEF Marked, MarkEnd, end, K

-----------------------------------------------------------------------------
(* How many of t are in l up to p.                                         *)
Upto(l, t, p) == Count(SubSeq(l, 1, p), {t})

(* One position more.                                                      *)
LEMMA UptoNext ==
    ASSUME NEW S, NEW l \in Seq(S), NEW t, NEW p \in 1..Len(l)
    PROVE  Upto(l, t, p) = Upto(l, t, p - 1) + (IF l[p] = t THEN 1 ELSE 0) /\ Upto(l, t, p - 1) \in Nat
  <1>1. 1 \in 1..Len(l) + 1 /\ p - 1 \in 1 - 1..Len(l) /\ p \in p - 1..Len(l) /\ (p - 1) + 1 = p
        /\ p \in p..Len(l)
    OBVIOUS
  <1>2. /\ Count(SubSeq(l, 1, p), {t}) = Count(SubSeq(l, 1, p - 1), {t}) + Count(SubSeq(l, p, p), {t})
        /\ Count(SubSeq(l, 1, p - 1), {t}) \in Nat
    <2> DEFINE k == p - 1
    <2>1. 1 \in 1..Len(l) + 1 /\ k \in 1 - 1..Len(l) /\ p \in k..Len(l) /\ k + 1 = p
      BY <1>1
    <2> HIDE DEF k
    <2>2. /\ Count(SubSeq(l, 1, p), {t}) = Count(SubSeq(l, 1, k), {t}) + Count(SubSeq(l, k + 1, p), {t})
          /\ Count(SubSeq(l, 1, k), {t}) \in Nat
      BY <2>1, CountSplit
    <2> QED BY <2>1, <2>2 DEF k
  <1>3. Count(SubSeq(l, p, p), {t}) = One(l[p], {t}) + Count(SubSeq(l, p + 1, p), {t})
    BY <1>1, CountFirst
  <1>4. Count(SubSeq(l, p + 1, p), {t}) = 0
    <2>1. SubSeq(l, p + 1, p) = <<>>
      BY SubSeqEmpty
    <2> QED BY <2>1, CountEmpty, Zenon
  <1>5. One(l[p], {t}) = IF l[p] = t THEN 1 ELSE 0
    BY DEF One
  <1> QED BY <1>2, <1>3, <1>4, <1>5 DEF Upto

(* A stretch without t.                                                    *)
LEMMA UptoSame ==
    ASSUME NEW S, NEW l \in Seq(S), NEW t, NEW p \in 0..Len(l), NEW q \in p..Len(l),
           \A k \in p + 1..q : l[k] # t
    PROVE  Upto(l, t, q) = Upto(l, t, p) /\ Upto(l, t, p) \in Nat
  <1>1. 1 \in 1..Len(l) + 1 /\ p \in 1 - 1..Len(l) /\ q \in p..Len(l)
    OBVIOUS
  <1>2. /\ Count(SubSeq(l, 1, q), {t}) = Count(SubSeq(l, 1, p), {t}) + Count(SubSeq(l, p + 1, q), {t})
        /\ Count(SubSeq(l, 1, p), {t}) \in Nat
    BY <1>1, CountSplit
  <1>3. Count(SubSeq(l, p + 1, q), {t}) = 0
    <2>1. \A i \in p + 1..q : l[i] \in S \ {t}
      OBVIOUS
    <2>2. SubSeq(l, p + 1, q) \in Seq(S \ {t})
      BY <2>1, SubSeqProperties
    <2>3. (S \ {t}) \cap {t} = {}
      OBVIOUS
    <2> QED BY <2>2, <2>3, CountNone, Zenon
  <1> QED BY <1>2, <1>3 DEF Upto

(* Even and odd.                                                           *)
LEMMA Parity ==
    ASSUME NEW a \in Nat
    PROVE  (a % 2 = 0 => (a + 1) % 2 # 0 /\ ((a + 1) + 1) % 2 = 0) /\ 0 % 2 = 0
  OBVIOUS

(* A span between two of t ends at the next one.                           *)
LEMMA DelimitedByOne ==
    ASSUME NEW S, NEW l \in Seq(S), NEW t, NEW p \in 1..Len(l)
    PROVE  LET q == NextOf(l, {t}, p + 1)
           IN  /\ q \in p + 1..Len(l) + 1 /\ \A k \in p + 1..q - 1 : l[k] # t
               /\ q <= Len(l) => l[q] = t
               /\ Delimited(l, p, <<t>>) = IF l[p] = t /\ q <= Len(l) THEN q ELSE 0
  <1> DEFINE q == NextOf(l, {t}, p + 1)
  <1>1. IsNext(l, {t}, p + 1, q)
    <2>1. p + 1 \in 1..Len(l) + 1
      OBVIOUS
    <2> QED BY <2>1, NextOfIs, Zenon
  <1>2. q \in p + 1..Len(l) + 1 /\ (q = Len(l) + 1 \/ l[q] = t) /\ \A k \in p + 1..q - 1 : l[k] # t
    BY <1>1 DEF IsNext
  <1>3. Len(<<t>>) = 1 /\ <<t>>[1] = t
    OBVIOUS
  <1>4. Delimited(l, p, <<t>>) = IF Occurs(l, <<t>>, p) /\ Occurs(l, <<t>>, q) THEN q + 1 - 1 ELSE 0
    BY <1>3, Zenon DEF Delimited
  <1> HIDE DEF q
  <1>5. p \in Nat \ {0} /\ q \in Nat \ {0} /\ p <= Len(l) /\ Len(l) \in Nat
    BY <1>2
  <1>6. Occurs(l, <<t>>, p) <=> l[p] = t
    BY <1>5, OccursOne
  <1>7. Occurs(l, <<t>>, q) <=> q <= Len(l) /\ l[q] = t
    BY <1>5, OccursOne
  <1>8. q <= Len(l) => l[q] = t
    BY <1>2, <1>5
  <1>9. q + 1 - 1 = q
    BY <1>5
  <1>10. Delimited(l, p, <<t>>) = IF l[p] = t /\ q <= Len(l) THEN q ELSE 0
    BY <1>4, <1>6, <1>7, <1>8, <1>9, Zenon
  <1> QED BY <1>2, <1>8, <1>10, Zenon DEF q

(* What stands at k when every two of t have become open and close: c is   *)
(* where the last one is.                                                  *)
CodeAt(l, t, open, close, c, k) ==
    IF l[k] # t THEN l[k]
    ELSE IF Upto(l, t, k) % 2 = 0 THEN close
    ELSE IF k = c THEN t
    ELSE open

CodedFrom(l, t, open, close, c, R, p) ==
    /\ Len(R[p]) = (Len(l) - p) + 1
    /\ \A k \in p..Len(l) : R[p][(k - p) + 1] = CodeAt(l, t, open, close, c, k)

(* From each position on, with an even number of t before it, the result   *)
(* has code where two of t were. A match of one character keeps the        *)
(* length: each tag is where its mark was.                                 *)
LEMMA EachCode ==
    ASSUME NEW S, NEW l \in Seq(S), NEW t \in S, NEW open \in S, NEW close \in S, NEW end,
           end = [p \in DOMAIN l |-> Delimited(l, p, <<t>>)], NEW rep,
           rep = SpanRep(l, end, <<t>>, open, close), NEW R, Rewriting(S, l, end, rep, R),
           NEW c, LastOf(l, {t}, c)
    PROVE  CodedFrom(l, t, open, close, c, R, 1)
  <1> DEFINE n == Len(l)
             Coded1(p) == CodedFrom(l, t, open, close, c, R, p)
             At(k) == CodeAt(l, t, open, close, c, k)
             P == {p \in 1..n + 1 : Upto(l, t, p - 1) % 2 = 0 => Coded1(p)}
  <1>0. n \in Nat /\ Len(l) = n
    OBVIOUS
  <1>1. c \in 0..n /\ (c = 0 \/ l[c] = t) /\ \A k \in c + 1..n : l[k] # t
    BY DEF LastOf
  <1> HIDE DEF n
  <1>2. n + 1 \in P
    <2>1. R[n + 1] = <<>>
      BY <1>0, NothingBehind
    <2>2. Coded1(n + 1)
      BY <1>0, <2>1 DEF CodedFrom
    <2>3. n + 1 \in 1..n + 1
      BY <1>0
    <2> QED BY <2>2, <2>3
  <1>3. ASSUME NEW p \in 1..n, \A q \in p + 1..n + 1 : q \in P
        PROVE  p \in P
    <2> DEFINE q == NextOf(l, {t}, p + 1)
    <2>1. /\ q \in p + 1..n + 1 /\ \A k \in p + 1..q - 1 : l[k] # t
          /\ q <= n => l[q] = t
          /\ Delimited(l, p, <<t>>) = IF l[p] = t /\ q <= n THEN q ELSE 0
      BY <1>0, DelimitedByOne, Zenon
    <2>2. p \in 1..Len(l) /\ DOMAIN l = 1..n
      BY <1>0
    <2>3. end[p] = IF l[p] = t /\ q <= n THEN q ELSE 0
      BY <2>1, <2>2, Zenon
    <2> HIDE DEF q
    <2>4. SUFFICES ASSUME Upto(l, t, p - 1) % 2 = 0
                   PROVE  Coded1(p)
      <3>1. p \in 1..n + 1
        BY <1>0
      <3> QED BY <3>1
    <2>5. Upto(l, t, p) = Upto(l, t, p - 1) + (IF l[p] = t THEN 1 ELSE 0) /\ Upto(l, t, p - 1) \in Nat
      BY <2>2, UptoNext
    <2>6. CASE l[p] # t
      <3>1. end[p] = 0
        BY <2>3, <2>6
      <3>2. Copied(S, l, R, p)
        BY <2>2, <3>1, WhereNone, Zenon
      <3>3. Upto(l, t, p) % 2 = 0
        BY <2>4, <2>5, <2>6
      <3>4. p + 1 \in P /\ (p + 1) - 1 = p
        <4>1. p + 1 \in p + 1..n + 1
          BY <1>0
        <4> QED BY <1>3, <4>1
      <3>5. Coded1(p + 1)
        BY <3>3, <3>4
      <3> DEFINE b == R[p + 1]
      <3>6. /\ b \in Seq(S) /\ R[p] = <<l[p]>> \o b /\ <<l[p]>> \in Seq(S)
            /\ Len(b) = (n - (p + 1)) + 1
            /\ \A k \in p + 1..n : b[(k - (p + 1)) + 1] = At(k)
        BY <1>0, <3>2, <3>5 DEF Copied, CodedFrom
      <3> HIDE DEF b
      <3>7. At(p) = l[p]
        BY <2>6 DEF CodeAt
      <3> HIDE DEF At
      <3>8. /\ Len(<<l[p]>> \o b) = Len(<<l[p]>>) + Len(b)
            /\ \A i \in 1..Len(<<l[p]>>) + Len(b) :
                  (<<l[p]>> \o b)[i] = IF i <= Len(<<l[p]>>) THEN <<l[p]>>[i] ELSE b[i - Len(<<l[p]>>)]
        BY <3>6, ConcatProperties
      <3>9. /\ Len(R[p]) = 1 + Len(b)
            /\ \A i \in 1..1 + Len(b) : R[p][i] = IF i <= 1 THEN l[p] ELSE b[i - 1]
        BY <3>6, <3>8
      <3>10. Len(R[p]) = (n - p) + 1
        BY <1>0, <3>6, <3>9
      <3>11. ASSUME NEW k \in p..n
             PROVE  R[p][(k - p) + 1] = At(k)
        <4>1. CASE k = p
          <5>1. (k - p) + 1 = 1 /\ 1 \in 1..1 + Len(b)
            BY <1>0, <3>6, <4>1
          <5> QED BY <3>7, <3>9, <4>1, <5>1
        <4>2. CASE k # p
          <5>1. /\ k \in p + 1..n /\ (k - p) + 1 \in 1..1 + Len(b) /\ ~((k - p) + 1 <= 1)
                /\ ((k - p) + 1) - 1 = (k - (p + 1)) + 1
            BY <1>0, <3>6, <4>2
          <5>2. R[p][(k - p) + 1] = b[((k - p) + 1) - 1]
            BY <3>9, <5>1
          <5> QED BY <3>6, <5>1, <5>2
        <4> QED BY <4>1, <4>2
      <3> QED BY <1>0, <3>10, <3>11 DEF CodedFrom, At
    <2>7. CASE l[p] = t /\ ~(q <= n)
      <3>1. p = c
        <4>1. \A k \in p + 1..n : l[k] # t
          BY <1>0, <2>1, <2>7
        <4> QED BY <1>0, <1>1, <2>7, <4>1
      <3>2. NoMatch(end, p, n)
        <4>1. ASSUME NEW j \in p..n
              PROVE  end[j] = 0
          <5>1. CASE j = p
            BY <2>3, <2>7, <5>1
          <5>2. CASE j # p
            <6>1. l[j] # t /\ j \in DOMAIN l
              BY <1>0, <1>1, <2>2, <3>1, <5>2
            <6>2. j \in 1..Len(l)
              BY <1>0, <2>2
            <6>3. Delimited(l, j, <<t>>) = 0
              BY <6>1, <6>2, DelimitedByOne, Zenon
            <6> QED BY <6>1, <6>3
          <5> QED BY <5>1, <5>2
        <4> QED BY <4>1 DEF NoMatch
      <3>3. R[p] = SubSeq(l, p, n)
        <4>1. n \in 0..Len(l) /\ p \in 1..n + 1
          BY <1>0
        <4>2. CopiedUpto(l, R, p, n)
          BY <3>2, <4>1, WhereNoneUpto, Zenon
        <4>3. R[n + 1] = <<>>
          BY <1>0, NothingBehind
        <4>4. SubSeq(l, p, n) \in Seq(S)
          <5>1. \A i \in p..n : l[i] \in S
            BY <1>0
          <5> QED BY <1>0, <5>1, SubSeqProperties
        <4> QED BY <4>2, <4>3, <4>4, ConcatEmptySeq DEF CopiedUpto
      <3>4. /\ Len(SubSeq(l, p, n)) = (n - p) + 1
            /\ \A i \in 1..(n - p) + 1 : SubSeq(l, p, n)[i] = l[(p + i) - 1]
        <4>1. \A i \in p..n : l[i] \in S
          BY <1>0
        <4> QED BY <1>0, <4>1, SubSeqProperties
      <3>5. ASSUME NEW k \in p..n
            PROVE  R[p][(k - p) + 1] = At(k)
        <4>1. (k - p) + 1 \in 1..(n - p) + 1 /\ (p + ((k - p) + 1)) - 1 = k
          BY <1>0
        <4>2. R[p][(k - p) + 1] = l[k]
          BY <3>3, <3>4, <4>1
        <4>3. CASE k = p
          <5>1. Upto(l, t, p) % 2 # 0
            BY <2>4, <2>5, <2>7, Parity
          <5> QED BY <2>7, <3>1, <4>2, <4>3, <5>1 DEF CodeAt
        <4>4. CASE k # p
          <5>1. l[k] # t
            BY <1>0, <1>1, <3>1, <4>4
          <5> QED BY <4>2, <5>1 DEF CodeAt
        <4> QED BY <4>3, <4>4
      <3> QED BY <1>0, <3>3, <3>4, <3>5 DEF CodedFrom
    <2>8. CASE l[p] = t /\ q <= n
      <3>1. end[p] = q /\ q # 0 /\ q \in p + 1..n /\ l[q] = t
        BY <1>0, <2>1, <2>3, <2>8
      <3>2. Put(S, l, end, rep, R, p)
        <4>1. end[p] # 0
          BY <3>1
        <4> QED BY <2>2, <4>1, WhereOne, Zenon
      <3> DEFINE b == R[q + 1]
                 a == SubSeq(l, p + 1, q - 1)
                 m == <<open>> \o a \o <<close>>
      <3>3. b \in Seq(S) /\ R[p] = m \o b /\ m \in Seq(S)
        <4>1. rep[p] \in Seq(S) /\ b \in Seq(S) /\ R[p] = rep[p] \o b
          BY <3>1, <3>2, Zenon DEF Put
        <4>2. Len(<<t>>) = 1 /\ p \in DOMAIN l
          BY <2>2, <1>0
        <4>3. rep[p] = m
          BY <3>1, <4>2, Zenon DEF SpanRep
        <4> QED BY <4>1, <4>3
      <3>4. /\ a \in Seq(S) /\ Len(a) = (q - p) - 1
            /\ \A i \in 1..(q - p) - 1 : a[i] = l[p + i]
        <4>1. \A i \in p + 1..q - 1 : l[i] \in S
          BY <1>0, <3>1
        <4>2. /\ p + 1 \in Int /\ q - 1 \in Int /\ ((q - 1) - (p + 1)) + 1 = (q - p) - 1
              /\ (p + 1 <= q - 1 \/ (q - p) - 1 = 0)
          BY <1>0, <3>1
        <4>3. /\ a \in Seq(S) /\ Len(a) = (IF p + 1 <= q - 1 THEN ((q - 1) - (p + 1)) + 1 ELSE 0)
              /\ \A i \in 1..((q - 1) - (p + 1)) + 1 : a[i] = l[((p + 1) + i) - 1]
          BY <4>1, <4>2, SubSeqProperties
        <4>4. \A i \in 1..(q - p) - 1 : ((p + 1) + i) - 1 = p + i
          BY <1>0
        <4>5. Len(a) = (q - p) - 1
          <5> HIDE DEF a
          <5> QED BY <1>0, <3>1, <4>2, <4>3
        <4> QED BY <4>2, <4>3, <4>4, <4>5
      <3>5. Encloses(open, a, close)
        BY <3>4, Enclosed, Zenon
      <3>6. Upto(l, t, q) % 2 = 0 /\ Upto(l, t, p) % 2 # 0
        <4>1. Upto(l, t, q) = Upto(l, t, q - 1) + 1
          <5>1. q \in 1..Len(l)
            BY <1>0, <3>1
          <5> QED BY <3>1, <5>1, UptoNext
        <4>2. Upto(l, t, q - 1) = Upto(l, t, p)
          <5>1. p \in 0..Len(l) /\ q - 1 \in p..Len(l)
            BY <1>0, <3>1
          <5>2. \A k \in p + 1..q - 1 : l[k] # t
            BY <2>1
          <5> QED BY <5>1, <5>2, UptoSame
        <4> QED BY <2>4, <2>5, <2>8, <4>1, <4>2, Parity
      <3>7. Coded1(q + 1)
        <4>1. q + 1 \in p + 1..n + 1 /\ (q + 1) - 1 = q
          BY <1>0, <3>1
        <4> QED BY <1>3, <3>6, <4>1
      <3>8. Len(b) = (n - (q + 1)) + 1 /\ \A k \in q + 1..n : b[(k - (q + 1)) + 1] = At(k)
        BY <1>0, <3>7 DEF CodedFrom
      <3>9. At(p) = open /\ At(q) = close /\ \A k \in p + 1..q - 1 : At(k) = l[k]
        <4>1. p # c
          BY <1>0, <1>1, <3>1
        <4> QED BY <2>1, <2>8, <3>1, <3>6, <4>1 DEF CodeAt
      <3> HIDE DEF b, At
      <3>10. /\ Len(m) = (q - p) + 1 /\ m[1] = open /\ m[(q - p) + 1] = close
             /\ \A i \in 1..(q - p) - 1 : m[i + 1] = l[p + i]
        <4> HIDE DEF a
        <4>1. /\ Len(m) = Len(a) + 2 /\ m[1] = open /\ m[Len(a) + 2] = close
              /\ \A i \in 1..Len(a) : m[i + 1] = a[i]
          BY <3>5, Zenon DEF Encloses
        <4>2. Len(a) + 2 = (q - p) + 1
          BY <1>0, <3>1, <3>4
        <4> HIDE DEF m
        <4> QED BY <3>4, <4>1, <4>2
      <3> HIDE DEF m
      <3>11. /\ Len(m \o b) = Len(m) + Len(b)
             /\ \A i \in 1..Len(m) + Len(b) : (m \o b)[i] = IF i <= Len(m) THEN m[i] ELSE b[i - Len(m)]
        BY <3>3, ConcatProperties
      <3>12. Len(R[p]) = (n - p) + 1
        BY <1>0, <3>1, <3>3, <3>8, <3>10, <3>11, SMTT(30)
      <3>13. \A i \in 1..(n - p) + 1 :
                 R[p][i] = IF i <= (q - p) + 1 THEN m[i] ELSE b[i - ((q - p) + 1)]
        BY <1>0, <3>1, <3>3, <3>8, <3>10, <3>11, SMTT(30)
      <3>14. ASSUME NEW k \in p..n
             PROVE  R[p][(k - p) + 1] = At(k)
        <4>1. (k - p) + 1 \in 1..(n - p) + 1
          BY <1>0
        <4>2. CASE k = p
          <5>1. (k - p) + 1 = 1 /\ 1 <= (q - p) + 1
            BY <1>0, <3>1, <4>2
          <5> QED BY <3>9, <3>10, <3>13, <4>1, <4>2, <5>1
        <4>3. CASE k = q
          <5>1. (k - p) + 1 = (q - p) + 1 /\ (k - p) + 1 <= (q - p) + 1
            BY <1>0, <3>1, <4>3
          <5> QED BY <3>9, <3>10, <3>13, <4>1, <4>3, <5>1
        <4>4. CASE k \in p + 1..q - 1
          <5>1. /\ (k - p) + 1 <= (q - p) + 1 /\ k - p \in 1..(q - p) - 1 /\ p + (k - p) = k
            BY <1>0, <3>1, <4>4
          <5>2. m[(k - p) + 1] = l[k]
            BY <3>10, <5>1
          <5> QED BY <3>9, <3>13, <4>1, <4>4, <5>1, <5>2
        <4>5. CASE k \in q + 1..n
          <5>1. /\ ~((k - p) + 1 <= (q - p) + 1)
                /\ ((k - p) + 1) - ((q - p) + 1) = (k - (q + 1)) + 1
            BY <1>0, <3>1, <4>5
          <5>2. R[p][(k - p) + 1] = b[(k - (q + 1)) + 1]
            BY <3>13, <4>1, <5>1
          <5> QED BY <3>8, <4>5, <5>2
        <4>6. k = p \/ k = q \/ k \in p + 1..q - 1 \/ k \in q + 1..n
          BY <1>0, <3>1
        <4> QED BY <4>2, <4>3, <4>4, <4>5, <4>6
      <3> QED BY <1>0, <3>12, <3>14 DEF CodedFrom, At
    <2> QED BY <2>6, <2>7, <2>8
  <1>4. Upto(l, t, 1 - 1) % 2 = 0
    <2>1. SubSeq(l, 1, 0) = <<>> /\ 1 - 1 = 0
      BY SubSeqEmpty
    <2>2. Upto(l, t, 1 - 1) = 0
      BY <2>1, CountEmpty, Zenon DEF Upto
    <2> QED BY <2>2, Parity
  <1>5. \A p \in 1..n + 1 : p \in P
    <2> HIDE DEF P
    <2> QED BY <1>0, <1>2, <1>3, DownInduction
  <1>6. 1 \in P
    <2>1. 1 \in 1..n + 1
      BY <1>0
    <2> QED BY <1>5, <2>1
  <1> QED BY <1>4, <1>6

-----------------------------------------------------------------------------
(* Coded keeps every position of the line.                                 *)
CodedSo(l, m, t, open, close, c) ==
    Len(m) = Len(l) /\ \A k \in 1..Len(l) : m[k] = CodeAt(l, t, open, close, c, k)

(* So it is from the first position on.                                    *)
LEMMA CodedFirst ==
    ASSUME NEW S, NEW l \in Seq(S), NEW t, NEW open, NEW close, NEW c, NEW R, NEW m, m = R[1],
           CodedFrom(l, t, open, close, c, R, 1)
    PROVE  CodedSo(l, m, t, open, close, c)
  <1>1. Len(l) \in Nat /\ (Len(l) - 1) + 1 = Len(l) /\ \A k \in 1..Len(l) : (k - 1) + 1 = k
    OBVIOUS
  <1> QED BY <1>1 DEF CodedFrom, CodedSo

(* Coded turns every two backticks into code, whatever is between them,    *)
(* and changes nothing else.                                               *)
LEMMA CodedMakes ==
    ASSUME NEW l \in Seq(Token), NEW c, LastOf(l, {"tick"}, c)
    PROVE  CodedSo(l, Coded(l), "tick", "<code>", "</code>", c)
  <1> DEFINE end == CodeEnd(l)
             rep == SpanRep(l, end, <<"tick">>, "<code>", "</code>")
  <1>1. "tick" \in Token /\ "<code>" \in Token /\ "</code>" \in Token
    BY Zenon DEF Token, Character, Mark, Tag
  <1>2. <<"tick">> \in Seq(Token)
    BY MarksAre, MarksAreTokens, Zenon
  <1>3. SpanEnds(l, end, <<"tick">>)
    BY <1>1, CodeEndsAre, Zenon
  <1>4. ReplacedBy(Token, l, end, rep, Spans(l, end, <<"tick">>, "<code>", "</code>"))
    BY <1>1, <1>2, <1>3, MarksAreLong, SpansRewrite, Zenon
  <1>5. Coded(l) = Spans(l, end, <<"tick">>, "<code>", "</code>")
    BY Zenon DEF Coded, CodeEnd
  <1>6. PICK R : Rewriting(Token, l, end, rep, R) /\ Coded(l) = R[1]
    BY <1>4, <1>5, Zenon DEF ReplacedBy
  <1>7. end = [p \in DOMAIN l |-> Delimited(l, p, <<"tick">>)]
    BY Zenon DEF CodeEnd
  <1>8. CodedFrom(l, "tick", "<code>", "</code>", c, R, 1)
    BY <1>1, <1>6, <1>7, EachCode, Zenon
  <1> QED BY <1>6, <1>8, CodedFirst, Zenon

(* No element of E is in front of one of K.                                *)
Split(l, E, K) == \A p, q \in 1..Len(l) : l[p] \in E /\ l[q] \in K => q < p

(* A parser that keeps the line up to the last of K keeps it split, ...    *)
LEMMA SplitKept ==
    ASSUME NEW S, NEW l \in Seq(S), NEW m, NEW E, NEW K, NEW c, Keeps(S, l, m, K, c), Split(l, E, K)
    PROVE  Split(m, E, K)
  <1> SUFFICES ASSUME NEW p \in 1..Len(m), NEW q \in 1..Len(m), m[p] \in E, m[q] \in K
               PROVE  q < p
    BY DEF Split
  <1>1. /\ m \in Seq(S) /\ c \in 0..Len(m) /\ c \in 0..Len(l) /\ Len(m) \in Nat /\ Len(l) \in Nat
        /\ \A k \in c + 1..Len(m) : m[k] \notin K
        /\ \A k \in 1..c : m[k] = l[k]
    BY DEF Keeps, LastOf
  <1>2. q <= c
    BY <1>1
  <1>3. CASE p > c
    BY <1>1, <1>2, <1>3
  <1>4. CASE ~(p > c)
    <2>1. p \in 1..c /\ q \in 1..c /\ p \in 1..Len(l) /\ q \in 1..Len(l)
      BY <1>1, <1>2, <1>4
    <2>2. l[p] \in E /\ l[q] \in K
      BY <1>1, <2>1
    <2> QED BY <2>1, <2>2, Zenon DEF Split
  <1> QED BY <1>3, <1>4

(* and so does the parser of code, whose tags are of K.                    *)
LEMMA SplitCoded ==
    ASSUME NEW S, NEW l \in Seq(S), NEW m, NEW E, NEW K, NEW t \in K, NEW open \in K, NEW close \in K,
           NEW c, CodedSo(l, m, t, open, close, c), E \cap K = {}, Split(l, E, K)
    PROVE  Split(m, E, K)
  <1>1. ASSUME NEW k \in 1..Len(l)
        PROVE  m[k] = l[k] \/ (m[k] \in K /\ l[k] \in K)
    BY DEF CodedSo, CodeAt
  <1> QED BY <1>1 DEF CodedSo, Split

(* The line up to the parser of code, and behind it.                       *)
LEMMA EmphasisKeeps ==
    ASSUME NEW s \in Seq(Character), NEW c, LastOf(AfterLinks(s), CodeToken, c)
    PROVE  Keeps(Token, AfterLinks(s), AfterStrikeThrough(s), CodeToken, c)
  <1>1. /\ AfterLinks(s) \in Seq(Token) /\ AfterStars(s) \in Seq(Token)
        /\ AfterStrong(s) \in Seq(Token) /\ AfterEmphasized(s) \in Seq(Token)
    BY StagesAccounted, Zenon DEF Accounted
  <1>2. /\ <<"*", "*">> \in Seq(Mark \ CodeToken) /\ <<"_", "_">> \in Seq(Mark \ CodeToken)
        /\ <<"_">> \in Seq(Mark \ CodeToken) /\ <<"~", "~">> \in Seq(Mark \ CodeToken)
    <2>1. "*" \in Mark \ CodeToken /\ "_" \in Mark \ CodeToken /\ "~" \in Mark \ CodeToken
      BY Zenon DEF Mark, CodeToken
    <2>2. \A S : \A a \in S : <<a>> \in Seq(S) /\ <<a, a>> \in Seq(S)
      OBVIOUS
    <2> QED BY <2>1, <2>2, Zenon
  <1>3. /\ Pair("<strong>", "</strong>") /\ Pair("<em>", "</em>") /\ Pair("<s>", "</s>")
        /\ "<strong>" # "<code>" /\ "<em>" # "<code>" /\ "<s>" # "<code>"
    BY Zenon DEF Pair
  <1> DEFINE l2 == AfterLinks(s)
             l3 == AfterStars(s)
             l4 == AfterStrong(s)
             l5 == AfterEmphasized(s)
             l6 == AfterStrikeThrough(s)
  <1>4. Keeps(Token, l2, l3, CodeToken, c)
    BY <1>1, <1>2, <1>3, MarksAreLong, MarkedKeeps, Zenon DEF AfterStars
  <1>5. Keeps(Token, l3, l4, CodeToken, c)
    <2>1. LastOf(l3, CodeToken, c)
      BY <1>4, Zenon DEF Keeps
    <2> QED BY <1>1, <1>2, <1>3, <2>1, MarksAreLong, MarkedKeeps, Zenon DEF AfterStrong
  <1>6. Keeps(Token, l4, l5, CodeToken, c)
    <2>1. LastOf(l4, CodeToken, c)
      BY <1>5, Zenon DEF Keeps
    <2> QED BY <1>1, <1>2, <1>3, <2>1, MarksAreLong, MarkedKeeps, Zenon DEF AfterEmphasized
  <1>7. Keeps(Token, l5, l6, CodeToken, c)
    <2>1. LastOf(l5, CodeToken, c)
      BY <1>6, Zenon DEF Keeps
    <2> QED BY <1>1, <1>2, <1>3, <2>1, MarksAreLong, MarkedKeeps, Zenon DEF AfterStrikeThrough
  <1> HIDE DEF l2, l3, l4, l5, l6
  <1>8. Keeps(Token, l2, l6, CodeToken, c)
    BY <1>4, <1>5, <1>6, <1>7, KeepsTransitive, Zenon
  <1> QED BY <1>8 DEF l2, l6

(* ItalicParser runs behind the parser of code, and keeps away from its    *)
(* tags.                                                                   *)
LEMMA ItalicKeeps ==
    ASSUME NEW s \in Seq(Character), NEW c, LastOf(AfterCode(s), CodeToken, c)
    PROVE  Keeps(Token, AfterCode(s), AfterItalic(s), CodeToken, c)
  <1>1. AfterCode(s) \in Seq(Token)
    BY StagesAccounted, Zenon DEF Accounted
  <1>2. <<"*">> \in Seq(Mark \ CodeToken)
    <2>1. "*" \in Mark \ CodeToken
      BY Zenon DEF Mark, CodeToken
    <2>2. \A S : \A a \in S : <<a>> \in Seq(S)
      OBVIOUS
    <2> QED BY <2>1, <2>2, Zenon
  <1>3. Pair("<i>", "</i>") /\ "<i>" # "<code>"
    BY Zenon DEF Pair
  <1> QED BY <1>1, <1>2, <1>3, MarksAreLong, MarkedKeeps, Zenon DEF AfterItalic

(* No emphasis is in front of code, or in it, in the finished line.        *)
LEMMA EmphasisBehind ==
    ASSUME NEW s \in Seq(Character)
    PROVE  Split(AfterItalic(s), Emphasis, CodeToken)
  <1>1. /\ AfterImages(s) \in Seq(Token) /\ AfterLinks(s) \in Seq(Token) /\ s \in Seq(Token)
        /\ AfterStrikeThrough(s) \in Seq(Token) /\ AfterCode(s) \in Seq(Token)
    BY StagesAccounted, SourceAccounted, Zenon DEF Accounted
  <1>2. Count(AfterLinks(s), Emphasis) = 0
    <2>1. /\ Emphasis \in SUBSET Token /\ Emphasis \in SUBSET Tag
          /\ Emphasis \cap LinkPart = {} /\ Emphasis \cap ImagePart = {}
      BY Zenon DEF Emphasis, Token, Tag, LinkPart, ImagePart
    <2>2. Count(s, Emphasis) = 0
      BY <2>1, SourceAccounted, Zenon
    <2>3. Count(AfterImages(s), Emphasis) = Count(s, Emphasis)
      BY <1>1, <2>1, ImagesLeft, Zenon DEF AfterImages
    <2>4. Count(AfterLinks(s), Emphasis) = Count(AfterImages(s), Emphasis)
      BY <1>1, <2>1, LinksLeft, Zenon DEF AfterLinks
    <2> QED BY <2>2, <2>3, <2>4, Zenon
  <1>3. Split(AfterLinks(s), Emphasis, CodeToken)
    <2>1. \A p \in 1..Len(AfterLinks(s)) : AfterLinks(s)[p] \notin Emphasis
      BY <1>1, <1>2, NoneCounted, Zenon
    <2> QED BY <2>1, Zenon DEF Split
  <1>4. Split(AfterStrikeThrough(s), Emphasis, CodeToken)
    <2>1. PICK c \in 0..Len(AfterLinks(s)) : LastOf(AfterLinks(s), CodeToken, c)
      BY <1>1, LastOfExists, Zenon
    <2> QED BY <1>1, <1>3, <2>1, EmphasisKeeps, SplitKept, Zenon
  <1>5. Split(AfterCode(s), Emphasis, CodeToken)
    <2>1. PICK c \in 0..Len(AfterStrikeThrough(s)) : LastOf(AfterStrikeThrough(s), {"tick"}, c)
      BY <1>1, LastOfExists, Zenon
    <2>2. CodedSo(AfterStrikeThrough(s), AfterCode(s), "tick", "<code>", "</code>", c)
      BY <1>1, <2>1, CodedMakes, Zenon DEF AfterCode
    <2>3. /\ "tick" \in CodeToken /\ "<code>" \in CodeToken /\ "</code>" \in CodeToken
          /\ Emphasis \cap CodeToken = {}
      BY Zenon DEF CodeToken, Emphasis
    <2> QED BY <1>1, <1>4, <2>2, <2>3, SplitCoded, Zenon
  <1>6. PICK c \in 0..Len(AfterCode(s)) : LastOf(AfterCode(s), CodeToken, c)
    BY <1>1, LastOfExists, Zenon
  <1> QED BY <1>1, <1>5, <1>6, ItalicKeeps, SplitKept, Zenon

(* LastTick is the last backtick of a line.                                *)
LEMMA LastTickIs ==
    ASSUME NEW S, NEW l \in Seq(S)
    PROVE  LastOf(l, {"tick"}, LastTick(l))
  <1> DEFINE E == {0} \cup Positions(l, "tick")
             c == CHOOSE n \in E : \A q \in Positions(l, "tick") : q <= n
  <1>1. PICK d \in 0..Len(l) : LastOf(l, {"tick"}, d)
    BY LastOfExists, Zenon
  <1>2. ASSUME NEW t, NEW Q, Q = {p \in DOMAIN l : l[p] = t}, NEW d1, LastOf(l, {t}, d1)
        PROVE  d1 \in {0} \cup Q /\ \A q \in Q : q <= d1
    BY <1>2 DEF LastOf
  <1>3. Positions(l, "tick") = {p \in DOMAIN l : l[p] = "tick"}
    BY Zenon DEF Positions
  <1>4. d \in E /\ \A q \in Positions(l, "tick") : q <= d
    BY <1>1, <1>2, <1>3, Zenon
  <1>5. c \in E /\ \A q \in Positions(l, "tick") : q <= c
    BY <1>4, Zenon
  <1>6. ASSUME NEW t, NEW Q, Q = {p \in DOMAIN l : l[p] = t}, NEW d1, d1 \in {0} \cup Q,
               \A q \in Q : q <= d1
        PROVE  LastOf(l, {t}, d1)
    BY <1>6 DEF LastOf
  <1>7. LastOf(l, {"tick"}, c)
    BY <1>3, <1>5, <1>6, Zenon
  <1> QED BY <1>7, Zenon DEF LastTick

(* The same up to c, and so as much of t.                                  *)
LEMMA UptoKept ==
    ASSUME NEW S, NEW l \in Seq(S), NEW m, NEW K, NEW c, Keeps(S, l, m, K, c), NEW t, NEW k \in 0..c
    PROVE  Upto(m, t, k) = Upto(l, t, k)
  <1>1. m \in Seq(S) /\ k \in Int /\ 1 \in Int /\ \A i \in 1..k : m[i] = l[i] /\ m[i] \in S /\ l[i] \in S
    BY DEF Keeps, LastOf
  <1> DEFINE a == SubSeq(l, 1, k)
             b == SubSeq(m, 1, k)
  <1>2. /\ a \in Seq(S) /\ Len(a) = (IF 1 <= k THEN (k - 1) + 1 ELSE 0)
        /\ \A i \in 1..(k - 1) + 1 : a[i] = l[(1 + i) - 1]
    BY <1>1, SubSeqProperties
  <1>3. /\ b \in Seq(S) /\ Len(b) = (IF 1 <= k THEN (k - 1) + 1 ELSE 0)
        /\ \A i \in 1..(k - 1) + 1 : b[i] = m[(1 + i) - 1]
    BY <1>1, SubSeqProperties
  <1> HIDE DEF a, b
  <1>4. Len(a) = Len(b) /\ \A i \in 1..Len(a) : a[i] = b[i]
    <2>1. \A i \in 1..k : (1 + i) - 1 = i /\ i \in 1..(k - 1) + 1
      BY <1>1
    <2>2. \A i \in 1..k : a[i] = b[i]
      BY <1>1, <1>2, <1>3, <2>1
    <2> QED BY <1>1, <1>2, <1>3, <2>2
  <1>5. a = b
    BY <1>2, <1>3, <1>4, SeqEqual
  <1> QED BY <1>5, Zenon DEF a, b, Upto

(* The line behind the parser of code, up to the last of t.                *)
CodeStands(s, m, t, open, close, K, c) ==
    LastOf(m, K, c) /\ \A k \in 1..c : m[k] = CodeAt(s, t, open, close, c, k)

(* s is the line before the emphases, l before code, m behind it.          *)
LEMMA CodeOf ==
    ASSUME NEW S, NEW s \in Seq(S), NEW t, NEW open, NEW close, NEW K, t \in K, open \in K, close \in K,
           NEW c, LastOf(s, {t}, c), NEW l, Keeps(S, s, l, K, c),
           NEW m, CodedSo(l, m, t, open, close, c), m \in Seq(S)
    PROVE  CodeStands(s, m, t, open, close, K, c)
  <1>1. /\ l \in Seq(S) /\ c \in 0..Len(s) /\ c \in 0..Len(l) /\ Len(m) = Len(l)
        /\ c = 0 \/ l[c] \in K
        /\ c = 0 \/ s[c] = t
        /\ \A k \in c + 1..Len(l) : l[k] \notin K
        /\ \A k \in 1..c : l[k] = s[k]
        /\ \A k \in 1..Len(l) : m[k] = CodeAt(l, t, open, close, c, k)
    BY DEF Keeps, LastOf, CodedSo
  <1>2. ASSUME NEW k \in 1..c
        PROVE  m[k] = CodeAt(s, t, open, close, c, k)
    <2>1. k \in 0..c /\ k \in 1..Len(l)
      BY <1>1
    <2>2. Upto(l, t, k) = Upto(s, t, k)
      BY <2>1, UptoKept
    <2> QED BY <1>1, <2>1, <2>2 DEF CodeAt
  <1>3. LastOf(m, K, c)
    <2>1. ASSUME NEW k \in c + 1..Len(m)
          PROVE  m[k] \notin K
      <3>1. k \in 1..Len(l) /\ l[k] \notin K
        BY <1>1
      <3> QED BY <1>1, <3>1 DEF CodeAt
    <2>2. c = 0 \/ m[c] \in K
      <3>1. c = 0 \/ c \in 1..Len(l)
        BY <1>1
      <3> QED BY <1>1, <3>1 DEF CodeAt
    <2> QED BY <1>1, <2>1, <2>2 DEF LastOf
  <1> QED BY <1>2, <1>3, Zenon DEF CodeStands

(* WithCode says what stands where.                                        *)
LEMMA WithCodeIs ==
    ASSUME NEW s \in Seq(Token)
    PROVE  /\ WithCode(s) \in Seq(Token) /\ Len(WithCode(s)) = LastTick(s)
           /\ \A k \in 1..LastTick(s) :
                 WithCode(s)[k] = CodeAt(s, "tick", "<code>", "</code>", LastTick(s), k)
  <1> DEFINE c == LastTick(s)
             At(k) == CodeAt(s, "tick", "<code>", "</code>", c, k)
  <1>1. LastOf(s, {"tick"}, c)
    BY LastTickIs, Zenon
  <1>2. \A k \in 1..c : k \in 1..Len(s)
    <2>1. ASSUME NEW K, NEW d, LastOf(s, K, d)
          PROVE  \A k \in 1..d : k \in 1..Len(s)
      BY <2>1 DEF LastOf
    <2> QED BY <1>1, <2>1, Zenon
  <1>3. c \in Nat
    <2>1. ASSUME NEW K, NEW d, LastOf(s, K, d)
          PROVE  d \in Nat
      BY <2>1 DEF LastOf
    <2> QED BY <1>1, <2>1, Zenon
  <1> HIDE DEF c
  <1>4. ASSUME NEW k \in 1..c
        PROVE  At(k) \in Token
    <2>1. s[k] \in Token
      BY <1>2, PlacesOf, Zenon
    <2>2. "tick" \in Token /\ "<code>" \in Token /\ "</code>" \in Token
      BY Zenon DEF Token, Character, Mark, Tag
    <2> QED BY <2>1, <2>2, Zenon DEF CodeAt
  <1>5. WithCode(s) = [k \in 1..c |-> At(k)]
    <2>1. WithCode(s) =
            [p \in 1..c |->
                IF s[p] # "tick" THEN s[p]
                ELSE IF Count(SubSeq(s, 1, p), {"tick"}) % 2 = 0 THEN "</code>"
                ELSE IF p = c THEN "tick"
                ELSE "<code>"]
      BY Zenon DEF WithCode, c
    <2> QED BY <2>1, Zenon DEF CodeAt, Upto
  <1> HIDE DEF At
  <1>6. ASSUME NEW F, F = [k \in 1..c |-> At(k)]
        PROVE  F \in Seq(Token) /\ Len(F) = c /\ \A k \in 1..c : F[k] = At(k)
    <2>1. F \in [1..c -> Token]
      BY <1>4, <1>6
    <2> QED BY <1>3, <1>6, <2>1
  <1> QED BY <1>5, <1>6, Zenon DEF At, c

(* CodeKept, of the finished line.                                         *)
LEMMA CodeOfLine ==
    ASSUME NEW s \in Seq(Character), Positions(s, "(") = {}
    PROVE  /\ SubSeq(AfterItalic(s), 1, LastTick(s)) = WithCode(s)
           /\ \A p \in LastTick(s) + 1..Len(AfterItalic(s)) : AfterItalic(s)[p] \notin CodeToken
  <1> DEFINE c == LastTick(s)
             l == AfterStrikeThrough(s)
             m == AfterCode(s)
             n == AfterItalic(s)
  <1>1. /\ s \in Seq(Token) /\ l \in Seq(Token) /\ m \in Seq(Token) /\ n \in Seq(Token)
    BY StagesAccounted, SourceAccounted, Zenon DEF Accounted
  <1>2. AfterLinks(s) = s
    BY <1>1, LinksSkipped, Zenon
  <1>3. \A k \in 1..Len(s) : s[k] \in CodeToken => s[k] = "tick"
    <2>1. "<code>" \notin Character /\ "</code>" \notin Character
      BY TextAssumption, Zenon DEF Character, Mark, Tag
    <2>2. \A k \in 1..Len(s) : s[k] \in Character
      BY PlacesOf, Zenon
    <2> QED BY <2>1, <2>2, Zenon DEF CodeToken
  <1>4. LastOf(s, {"tick"}, c)
    BY LastTickIs, Zenon
  <1>5. LastOf(s, CodeToken, c)
    <2>1. ASSUME NEW t, NEW K, NEW d, LastOf(s, {t}, d), t \in K,
                 \A k \in 1..Len(s) : s[k] \in K => s[k] = t
          PROVE  LastOf(s, K, d)
      BY <2>1 DEF LastOf
    <2>2. "tick" \in CodeToken
      BY Zenon DEF CodeToken
    <2> QED BY <1>3, <1>4, <2>1, <2>2, Zenon
  <1>6. Keeps(Token, s, l, CodeToken, c)
    <2>1. LastOf(AfterLinks(s), CodeToken, c)
      BY <1>2, <1>5, Zenon
    <2>2. Keeps(Token, AfterLinks(s), l, CodeToken, c)
      BY <2>1, EmphasisKeeps, Zenon
    <2> QED BY <1>2, <2>2, Zenon
  <1>7. LastOf(l, {"tick"}, c)
    <2>1. ASSUME NEW t, NEW K, NEW d, LastOf(s, {t}, d), t \in K, Keeps(Token, s, l, K, d)
          PROVE  LastOf(l, {t}, d)
      <3>1. /\ d \in 0..Len(l) /\ (d = 0 \/ d \in 1..d) /\ (d = 0 \/ s[d] = t)
            /\ \A k \in 1..d : l[k] = s[k]
            /\ \A k \in d + 1..Len(l) : l[k] \notin K
        BY <2>1 DEF LastOf, Keeps
      <3> HIDE DEF l
      <3> QED BY <2>1, <3>1 DEF LastOf
    <2>2. "tick" \in CodeToken
      BY Zenon DEF CodeToken
    <2> QED BY <1>4, <1>6, <2>1, <2>2, Zenon
  <1>8. CodedSo(l, m, "tick", "<code>", "</code>", c)
    BY <1>1, <1>7, CodedMakes, Zenon DEF AfterCode
  <1>9. /\ LastOf(m, CodeToken, c)
        /\ \A k \in 1..c : m[k] = CodeAt(s, "tick", "<code>", "</code>", c, k)
    <2>1. "tick" \in CodeToken /\ "<code>" \in CodeToken /\ "</code>" \in CodeToken
      BY Zenon DEF CodeToken
    <2> HIDE DEF c, l, m, n
    <2>2. CodeStands(s, m, "tick", "<code>", "</code>", CodeToken, c)
      BY <1>1, <1>4, <1>6, <1>8, <2>1, CodeOf, Zenon
    <2> QED BY <2>2, Zenon DEF CodeStands
  <1>10. Keeps(Token, m, n, CodeToken, c)
    BY <1>9, ItalicKeeps, Zenon
  <1> DEFINE w == WithCode(s)
  <1>11. /\ w \in Seq(Token) /\ Len(w) = c
         /\ \A k \in 1..c : w[k] = m[k]
    BY <1>1, <1>9, WithCodeIs, Zenon
  <1> HIDE DEF c, m, n, w
  <1>12. ASSUME NEW K, Keeps(Token, m, n, K, c)
         PROVE  SubSeq(n, 1, c) = w /\ \A p \in c + 1..Len(n) : n[p] \notin K
    <2>1. /\ c \in 0..Len(n) /\ \A k \in 1..c : n[k] = m[k]
          /\ \A p \in c + 1..Len(n) : n[p] \notin K
      BY <1>12 DEF Keeps, LastOf
    <2>2. SubSeq(n, 1, c) \in Seq(Token) /\ Len(SubSeq(n, 1, c)) = c
          /\ \A k \in 1..c : SubSeq(n, 1, c)[k] = n[k]
      BY <1>1, <2>1
    <2> DEFINE a == SubSeq(n, 1, c)
    <2>3. a \in Seq(Token) /\ Len(a) = c /\ \A k \in 1..c : a[k] = w[k]
      BY <1>11, <2>1, <2>2
    <2> HIDE DEF a
    <2>4. a = w
      BY <1>11, <2>3, SeqEqual
    <2> QED BY <2>1, <2>4 DEF a
  <1> QED BY <1>10, <1>12, Zenon DEF c, n, w

(* The finished line is what the seven parsers make of the source.         *)
LEMMA FinishedIs ==
    ASSUME InlineInv
    PROVE  /\ source \in Seq(Character)
           /\ Finished => line = AfterItalic(source)
  <1>1. source \in Seq(Character)
    BY LinesAssumption, Zenon DEF InlineInv
  <1>2. ASSUME Finished
        PROVE  line = AfterItalic(source)
    <2>1. done = 7
      BY <1>2, PlacesAre, Zenon DEF Finished
    <2> QED BY <2>1 DEF InlineInv
  <1> QED BY <1>1, <1>2

(* The finished line is a sequence of tokens.                              *)
LEMMA FinishedType ==
    ASSUME NEW s \in Seq(Character)
    PROVE  AfterItalic(s) \in Seq(Token) /\ DOMAIN AfterItalic(s) = 1..Len(AfterItalic(s))
  <1>1. AfterItalic(s) \in Seq(Token)
    BY StagesAccounted, Zenon DEF Accounted
  <1> QED BY <1>1

(* Code is code and nothing else, and no emphasis reaches it, after every  *)
(* parser and whatever the line: InlineInv says which line each parser has. *)
THEOREM CodeProtectedHolds == InlineSpec => []CodeProtected
  <1>1. InlineInv => EmphasisBehindCode
    <2> SUFFICES ASSUME InlineInv, Finished
                 PROVE  \A p, q \in DOMAIN line : line[p] \in Emphasis /\ line[q] \in CodeToken => q < p
      BY Zenon DEF EmphasisBehindCode
    <2>1. source \in Seq(Character) /\ line = AfterItalic(source)
      BY FinishedIs, Zenon
    <2>2. Split(line, Emphasis, CodeToken) /\ DOMAIN line = 1..Len(line)
      BY <2>1, EmphasisBehind, FinishedType, Zenon
    <2> QED BY <2>2, Zenon DEF Split
  <1>2. InlineInv => CodeKept
    <2> SUFFICES ASSUME InlineInv, Finished, Positions(source, "(") = {}
                 PROVE  /\ SubSeq(line, 1, LastTick(source)) = WithCode(source)
                        /\ \A p \in LastTick(source) + 1..Len(line) : line[p] \notin CodeToken
      BY Zenon DEF CodeKept
    <2>1. source \in Seq(Character) /\ line = AfterItalic(source)
      BY FinishedIs, Zenon
    <2> QED BY <2>1, CodeOfLine, Zenon
  <1>3. InlineInv => CodeProtected
    BY <1>1, <1>2, Zenon DEF CodeProtected
  <1> QED BY <1>3, InlineInvHolds, PTL

-----------------------------------------------------------------------------
(* What the result from p on begins with.                                  *)
BeginsWith(l, end, rep, p) == IF end[p] = 0 THEN l[p] ELSE rep[p][1]

(* No replacement puts y behind x.                                         *)
KeepsApart(l, end, rep, x, y) ==
    /\ \A p \in 1..Len(l) - 1 : end[p] = 0 /\ l[p] = x => BeginsWith(l, end, rep, p + 1) # y
    /\ \A p \in 1..Len(l) : end[p] # 0 =>
          Len(rep[p]) > 0 /\ rep[p][Len(rep[p])] # x /\ Apart(rep[p], x, y)

(* Replacing keeps x and y apart, when no replacement brings them          *)
(* together.                                                               *)
LEMMA ApartKept ==
    ASSUME NEW S, NEW l \in Seq(S), NEW end, NEW rep, NEW R, Rewriting(S, l, end, rep, R),
           NEW x, NEW y, KeepsApart(l, end, rep, x, y)
    PROVE  Apart(R[1], x, y)
  <1> DEFINE n == Len(l)
             Begin(p) == BeginsWith(l, end, rep, p)
             P == {p \in 1..n + 1 : /\ Apart(R[p], x, y)
                                    /\ Len(R[p]) > 0 => p <= n /\ R[p][1] = Begin(p)}
  <1>0. n \in Nat /\ Len(l) = n
    OBVIOUS
  <1> HIDE DEF n
  <1>1. n + 1 \in P
    <2>1. R[n + 1] = <<>>
      BY <1>0, NothingBehind
    <2>2. Len(R[n + 1]) = 0
      BY <2>1
    <2> QED BY <1>0, <2>2 DEF Apart
  <1>2. ASSUME NEW p \in 1..n, \A q \in p + 1..n + 1 : q \in P
        PROVE  p \in P
    <2>1. p \in 1..Len(l) /\ p \in 1..n + 1
      BY <1>0
    <2>2. CASE end[p] = 0
      <3>1. Copied(S, l, R, p)
        BY <2>1, <2>2, WhereNone, Zenon
      <3> DEFINE a == <<l[p]>>
                 b == R[p + 1]
      <3>2. a \in Seq(S) /\ b \in Seq(S) /\ R[p] = a \o b /\ Len(a) = 1 /\ a[1] = l[p] /\ Len(b) \in Nat
        BY <3>1 DEF Copied
      <3>3. p + 1 \in P
        BY <1>0, <1>2
      <3>4. Apart(b, x, y) /\ (Len(b) > 0 => p + 1 <= n /\ b[1] = Begin(p + 1))
        BY <3>3
      <3> HIDE DEF a, b, P
      <3>5. ~Meets(a, b, x, y)
        <4>1. SUFFICES ASSUME Len(b) > 0, l[p] = x, b[1] = y
                       PROVE  FALSE
          BY <3>2 DEF Meets
        <4>2. p \in 1..Len(l) - 1
          BY <1>0, <3>4, <4>1
        <4> QED BY <2>2, <3>4, <4>1, <4>2 DEF KeepsApart
      <3>6. Apart(a, x, y)
        BY <3>2 DEF Apart
      <3>7. Apart(a \o b, x, y)
        BY <3>2, <3>4, <3>5, <3>6, ApartConcat
      <3>8. (a \o b)[1] = l[p]
        <4>1. (a \o b)[1] = IF 1 <= Len(a) THEN a[1] ELSE b[1 - Len(a)]
          <5>1. 1 \in 1..Len(a) + Len(b)
            BY <3>2
          <5> QED BY <3>2, <5>1, ConcatProperties
        <4> QED BY <3>2, <4>1
      <3>9. Apart(R[p], x, y) /\ p <= n /\ R[p][1] = Begin(p)
        BY <1>0, <2>2, <3>2, <3>7, <3>8 DEF BeginsWith
      <3> HIDE DEF Begin
      <3> QED BY <2>1, <3>9 DEF P
    <2>3. CASE end[p] # 0
      <3>1. Put(S, l, end, rep, R, p)
        BY <2>1, <2>3, WhereOne, Zenon
      <3> DEFINE a == rep[p]
                 b == R[end[p] + 1]
      <3>2. /\ a \in Seq(S) /\ b \in Seq(S) /\ R[p] = a \o b /\ end[p] + 1 \in p + 1..n + 1
            /\ Len(a) \in Nat /\ Len(b) \in Nat
        BY <1>0, <3>1 DEF Put
      <3>3. Len(a) > 0 /\ a[Len(a)] # x /\ Apart(a, x, y)
        BY <2>1, <2>3, Zenon DEF KeepsApart
      <3>4. Apart(b, x, y)
        BY <1>2, <3>2
      <3> HIDE DEF a, b, P
      <3>5. ~Meets(a, b, x, y)
        BY <3>3 DEF Meets
      <3>6. Apart(a \o b, x, y)
        BY <3>2, <3>3, <3>4, <3>5, ApartConcat
      <3>7. (a \o b)[1] = a[1]
        <4>1. (a \o b)[1] = IF 1 <= Len(a) THEN a[1] ELSE b[1 - Len(a)]
          <5>1. 1 \in 1..Len(a) + Len(b)
            BY <3>2, <3>3
          <5> QED BY <3>2, <5>1, ConcatProperties
        <4> QED BY <3>2, <3>3, <4>1
      <3>8. Apart(R[p], x, y) /\ p <= n /\ R[p][1] = Begin(p)
        BY <1>0, <2>3, <3>2, <3>6, <3>7 DEF BeginsWith, a
      <3> HIDE DEF Begin
      <3> QED BY <2>1, <3>8 DEF P
    <2> QED BY <2>2, <2>3
  <1>3. \A p \in 1..n + 1 : p \in P
    <2> HIDE DEF P
    <2> QED BY <1>0, <1>1, <1>2, DownInduction
  <1>4. 1 \in P
    <2>1. 1 \in 1..n + 1
      BY <1>0
    <2> QED BY <1>3, <2>1
  <1> QED BY <1>4

(* Spans do, if their tags are not x or y.                                 *)
LEMMA SpansApart ==
    ASSUME NEW S, NEW l \in Seq(S), NEW mark \in Seq(S), Len(mark) > 0, NEW open \in S, NEW close \in S,
           NEW end, SpanEnds(l, end, mark), NEW x, NEW y, Apart(l, x, y),
           open \notin {x, y}, close \notin {x, y}
    PROVE  Apart(Spans(l, end, mark, open, close), x, y)
  <1> DEFINE rep == SpanRep(l, end, mark, open, close)
             m == Spans(l, end, mark, open, close)
  <1>1. PICK R : Rewriting(S, l, end, rep, R) /\ m = R[1]
    <2>1. ReplacedBy(S, l, end, rep, m)
      BY SpansRewrite, Zenon
    <2> QED BY <2>1, Zenon DEF ReplacedBy
  <1>2. ASSUME NEW p \in 1..Len(l), end[p] # 0
        PROVE  Len(rep[p]) > 0 /\ rep[p][1] = open /\ rep[p][Len(rep[p])] = close /\ Apart(rep[p], x, y)
    <2> DEFINE a == SubSeq(l, p + Len(mark), end[p] - Len(mark))
    <2>1. rep[p] = <<open>> \o a \o <<close>>
      <3>1. p \in DOMAIN l
        BY <1>2
      <3> QED BY <3>1, Zenon DEF SpanRep
    <2>2. Span(l, p, end[p], mark)
      BY <1>2, Zenon DEF SpanEnds
    <2>3. /\ p + Len(mark) \in 1..Len(l) + 1 /\ end[p] - Len(mark) \in 0..Len(l)
          /\ a \in Seq(S)
      <3>1. end[p] \in (p + 2 * Len(mark)) - 1..Len(l) /\ Len(mark) \in Nat /\ Len(l) \in Nat
        BY <2>2 DEF Span
      <3>2. p + Len(mark) \in 1..Len(l) + 1 /\ end[p] - Len(mark) \in 0..Len(l)
        BY <3>1
      <3>3. Inner(l, p, end[p], mark) \in Seq(S)
        BY <2>2, SpanIs, Zenon DEF SpanParts
      <3> QED BY <3>2, <3>3 DEF Inner
    <2>4. Apart(a, x, y)
      BY <2>3, ApartPart
    <2> HIDE DEF a
    <2>5. Encloses(open, a, close)
      BY <2>3, Enclosed, Zenon
    <2>6. Apart(<<open>> \o a \o <<close>>, x, y)
      <3>1. open # x /\ close # y
        OBVIOUS
      <3> QED BY <2>3, <2>4, <3>1, ApartEnclosed, Zenon
    <2> DEFINE b == <<open>> \o a \o <<close>>
    <2>7. Len(b) = Len(a) + 2 /\ b[1] = open /\ b[Len(a) + 2] = close
      BY <2>5, Zenon DEF Encloses
    <2>8. Len(a) \in Nat
      BY <2>3
    <2> HIDE DEF b, rep
    <2>9. Len(b) > 0 /\ b[Len(b)] = close
      BY <2>7, <2>8
    <2> QED BY <2>1, <2>6, <2>7, <2>9, Zenon DEF b
  <1> HIDE DEF rep, m
  <1>3. KeepsApart(l, end, rep, x, y)
    <2>1. ASSUME NEW p \in 1..Len(l) - 1, end[p] = 0, l[p] = x
          PROVE  BeginsWith(l, end, rep, p + 1) # y
      <3>1. p + 1 \in 1..Len(l) /\ l[p + 1] # y
        BY <2>1 DEF Apart
      <3> QED BY <1>2, <3>1 DEF BeginsWith
    <2> QED BY <1>2, <2>1, Zenon DEF KeepsApart
  <1>4. Apart(R[1], x, y)
    BY <1>1, <1>3, ApartKept, Zenon
  <1> QED BY <1>1, <1>4, Zenon DEF m

(* A tag with attributes is something between two tags.                    *)
TagSplits(x, a, y, b, z) ==
    <<x>> \o a \o <<y>> \o b \o <<z>> = <<x>> \o (a \o <<y>> \o b) \o <<z>>

(* As a tag with attributes is made of three parts and two.                *)
LEMMA TagIs ==
    ASSUME NEW S, NEW x \in S, NEW a \in Seq(S), NEW y \in S, NEW b \in Seq(S), NEW z \in S
    PROVE  TagSplits(x, a, y, b, z) /\ a \o <<y>> \o b \in Seq(S)
  <1> DEFINE u == <<x>>
             v == <<y>>
             w == <<z>>
             av == a \o v
  <1>1. u \in Seq(S) /\ v \in Seq(S) /\ w \in Seq(S)
    OBVIOUS
  <1> HIDE DEF u, v, w
  <1>2. av \in Seq(S) /\ u \o a \in Seq(S)
    BY <1>1, ConcatProperties
  <1>3. (u \o a) \o v = u \o av
    <2>1. Regroups(u, a, v)
      BY <1>1, Regroup, Zenon
    <2> QED BY <2>1, Zenon DEF Regroups
  <1>4. av \o b \in Seq(S)
    BY <1>2, ConcatProperties
  <1>5. (u \o av) \o b = u \o (av \o b)
    <2> HIDE DEF av
    <2>1. Regroups(u, av, b)
      BY <1>1, <1>2, Regroup, Zenon
    <2> QED BY <2>1, Zenon DEF Regroups
  <1>6. (((u \o a) \o v) \o b) \o w = (u \o (av \o b)) \o w
    BY <1>3, <1>5, Zenon
  <1> QED BY <1>4, <1>6 DEF u, v, w, av, TagSplits

(* A tag with attributes, around two such sequences.                       *)
LEMMA TagApart ==
    ASSUME NEW S, NEW u \in S, NEW a \in Seq(S), NEW v \in S, NEW b \in Seq(S), NEW w \in S,
           NEW x, NEW y, Apart(a, x, y), Apart(b, x, y), u # x, v \notin {x, y}, w # y
    PROVE  Apart(<<u>> \o a \o <<v>> \o b \o <<w>>, x, y)
  <1> DEFINE c == <<v>>
             ac == a \o c
  <1>1. c \in Seq(S) /\ Len(c) = 1 /\ c[1] = v
    OBVIOUS
  <1> HIDE DEF c
  <1>2. Apart(c, x, y) /\ ~Meets(a, c, x, y)
    BY <1>1 DEF Apart, Meets
  <1>3. /\ ac \in Seq(S) /\ Apart(ac, x, y) /\ Len(ac) = Len(a) + 1
        /\ ac[Len(a) + 1] = v /\ Len(a) \in Nat
    <2>1. Apart(ac, x, y)
      BY <1>1, <1>2, ApartConcat
    <2>2. /\ ac \in Seq(S) /\ Len(ac) = Len(a) + Len(c)
          /\ \A i \in 1..Len(a) + Len(c) : ac[i] = IF i <= Len(a) THEN a[i] ELSE c[i - Len(a)]
      BY <1>1, ConcatProperties
    <2> HIDE DEF ac
    <2>3. Len(a) + 1 \in 1..Len(a) + Len(c) /\ ~(Len(a) + 1 <= Len(a)) /\ (Len(a) + 1) - Len(a) = 1
      BY <1>1
    <2>4. ac[Len(a) + 1] = c[1]
      BY <2>2, <2>3
    <2> QED BY <1>1, <2>1, <2>2, <2>4
  <1> HIDE DEF ac
  <1>4. ~Meets(ac, b, x, y)
    BY <1>3 DEF Meets
  <1>5. Apart(ac \o b, x, y) /\ ac \o b \in Seq(S)
    BY <1>3, <1>4, ApartConcat, ConcatProperties
  <1> DEFINE d == ac \o b
  <1> HIDE DEF d
  <1>6. d \in Seq(S) /\ Apart(d, x, y)
    BY <1>5 DEF d
  <1>7. Apart(<<u>> \o d \o <<w>>, x, y)
    BY <1>6, ApartEnclosed
  <1>8. <<u>> \o a \o <<v>> \o b \o <<w>> = <<u>> \o d \o <<w>>
    <2>1. TagSplits(u, a, v, b, w)
      BY TagIs, Zenon
    <2> QED BY <2>1 DEF d, ac, c, TagSplits
  <1> QED BY <1>7, <1>8, Zenon

(* A sequence without y is one.                                            *)
LEMMA ApartWithout ==
    ASSUME NEW S, NEW a \in Seq(S), NEW x, NEW y, \A k \in 1..Len(a) : a[k] # y
    PROVE  Apart(a, x, y)
  BY DEF Apart

(* A part of a sequence without y has none, ...                            *)
LEMMA PartWithout ==
    ASSUME NEW S, NEW l \in Seq(S), NEW y, \A k \in 1..Len(l) : l[k] # y, NEW i \in 1..Len(l) + 1,
           NEW j \in 0..Len(l)
    PROVE  /\ SubSeq(l, i, j) \in Seq(S)
           /\ \A k \in 1..Len(SubSeq(l, i, j)) : SubSeq(l, i, j)[k] # y
  <1>1. \A k \in i..j : l[k] \in S \ {y}
    OBVIOUS
  <1>2. SubSeq(l, i, j) \in Seq(S \ {y})
    BY <1>1, SubSeqProperties
  <1> QED BY <1>2

(* and so is one.                                                          *)
LEMMA PartApart ==
    ASSUME NEW S, NEW l \in Seq(S), NEW x, NEW y, \A k \in 1..Len(l) : l[k] # y,
           NEW i \in 1..Len(l) + 1, NEW j \in 0..Len(l)
    PROVE  SubSeq(l, i, j) \in Seq(S) /\ Apart(SubSeq(l, i, j), x, y)
  <1>1. /\ SubSeq(l, i, j) \in Seq(S)
        /\ \A k \in 1..Len(SubSeq(l, i, j)) : SubSeq(l, i, j)[k] # y
    BY PartWithout, Zenon
  <1> QED BY <1>1, ApartWithout, Zenon

(* Where the parts of a link are.                                          *)
LEMMA BracketRange ==
    ASSUME NEW S, NEW l \in Seq(S), NEW p \in 1..Len(l), NEW u \in Nat, NEW e \in Nat,
           Bracket(l, p, u, e)
    PROVE  /\ u \in 1..Len(l) + 1 /\ e \in 1..Len(l) /\ e - 1 \in 0..Len(l)
           /\ p + 1 \in 1..Len(l) + 1 /\ u - 3 \in 0..Len(l) /\ e \in u..Len(l)
           /\ u - 2 \in p + 1..Len(l) /\ u - 1 \in p + 2..Len(l)
  BY DEF Bracket

(* The first and the last of a tag with attributes.                        *)
TagEnds(m, x, z) == Len(m) > 0 /\ m[1] = x /\ m[Len(m)] = z

(* A tag begins with its first part and ends with its last.                *)
LEMMA TagEndsAre ==
    ASSUME NEW S, NEW x \in S, NEW a \in Seq(S), NEW y \in S, NEW b \in Seq(S), NEW z \in S
    PROVE  TagEnds(<<x>> \o a \o <<y>> \o b \o <<z>>, x, z)
  <1> DEFINE d == a \o <<y>> \o b
             m == <<x>> \o d \o <<z>>
  <1>1. d \in Seq(S) /\ TagSplits(x, a, y, b, z)
    BY TagIs, Zenon
  <1> HIDE DEF d
  <1>2. Encloses(x, d, z)
    BY <1>1, Enclosed, Zenon
  <1>3. Len(m) = Len(d) + 2 /\ m[1] = x /\ m[Len(d) + 2] = z
    BY <1>2, Zenon DEF Encloses
  <1> HIDE DEF m
  <1>4. Len(d) \in Nat
    BY <1>1
  <1>5. TagEnds(m, x, z)
    BY <1>3, <1>4 DEF TagEnds
  <1> QED BY <1>1, <1>5 DEF TagSplits, d, m

(* A bracket is not matched because of what is in front of it.             *)
LEMMA BracketedBehind ==
    ASSUME NEW S, NEW a \in Seq(S), NEW b \in Seq(S), NEW p \in 1..Len(b),
           Bracketed(a \o b, Len(a) + p) # 0
    PROVE  Bracketed(b, p) # 0
  <1> DEFINE l == a \o b
             m == Len(a)
             u == UrlStart(l, m + p)
             e == Bracketed(l, m + p)
  <1>1. /\ l \in Seq(S) /\ Len(l) = m + Len(b) /\ m \in Nat /\ Len(b) \in Nat
        /\ \A i \in 1..m + Len(b) : l[i] = IF i <= m THEN a[i] ELSE b[i - m]
    BY ConcatProperties
  <1> HIDE DEF l, m
  <1>2. m + p \in 1..Len(l)
    BY <1>1
  <1>3. Bracket(l, m + p, u, e)
    <2>1. Bracketed(l, m + p) # 0
      BY DEF l, m
    <2> QED BY <1>1, <1>2, <2>1, BracketedIs, Zenon
  <1>4. u \in Nat
    BY <1>1, <1>2, UrlStartType, Zenon
  <1>5. e \in AddressEnds(l, u) /\ m + p < u - 2 /\ u <= e /\ e <= Len(l)
    BY <1>3, Zenon DEF Bracket
  <1>6. e \in Nat
    <2>1. u \in 1..Len(l) + 1
      <3>1. e \in Int
        BY <1>4, <1>5 DEF AddressEnds
      <3> HIDE DEF e, u
      <3> QED BY <1>1, <1>4, <1>5, <3>1
    <2>2. e \in u..Len(l)
      BY <1>1, <1>5, <2>1, AddressEndsAre, Zenon
    <2> QED BY <1>4, <2>2
  <1>7. /\ l[m + p] = "[" /\ l[u - 2] = "]" /\ l[u - 1] = "(" /\ l[e] = ")"
        /\ \A k \in (m + p) + 1..u - 3 : l[k] # "]"
        /\ \A k \in u..e : l[k] # "]"
    BY <1>3, Zenon DEF Bracket
  <1> HIDE DEF u, e
  <1>8. \A i \in 1..Len(b) : l[m + i] = b[i]
    <2>1. \A i \in 1..Len(b) : m + i \in 1..m + Len(b) /\ ~(m + i <= m) /\ (m + i) - m = i
      BY <1>1
    <2> QED BY <1>1, <2>1
  <1> DEFINE j == (u - 2) - m
             n == e - m
  <1>9. /\ j \in p + 1..Len(b) - 1 /\ m + j = u - 2 /\ m + (j + 1) = u - 1 /\ j + 1 \in 1..Len(b)
        /\ j + 2 \in 1..Len(b) + 1 /\ n \in j + 2..Len(b) /\ m + n = e /\ n \in 1..Len(b)
        /\ j \in 1..Len(b)
    BY <1>1, <1>4, <1>5, <1>6
  <1>10. b[p] = "[" /\ b[j] = "]" /\ b[j + 1] = "(" /\ b[n] = ")"
    BY <1>7, <1>8, <1>9, Zenon
  <1>11. \A k \in p + 1..j - 1 : b[k] # "]"
    <2>1. \A k \in p + 1..j - 1 : k \in 1..Len(b) /\ m + k \in (m + p) + 1..u - 3
      BY <1>1, <1>4, <1>9
    <2> QED BY <1>7, <1>8, <2>1, Zenon
  <1>12. \A k \in j + 2..n : b[k] # "]"
    <2>1. \A k \in j + 2..n : k \in 1..Len(b) /\ m + k \in u..e
      BY <1>1, <1>4, <1>6, <1>9
    <2> QED BY <1>7, <1>8, <2>1, Zenon
  <1> HIDE DEF j, n
  <1>13. n \in AddressEnds(b, j + 2)
    BY <1>9, <1>10, <1>12, AddressEndsAre, Zenon
  <1> QED BY <1>9, <1>10, <1>11, <1>13, BracketedHere, Zenon

(* LinkParser puts no link behind an exclamation mark, if no match begins  *)
(* behind one.                                                             *)
LEMMA LinksApart ==
    ASSUME NEW l \in Seq(Token), Count(l, {"<a href='"}) = 0,
           \A p \in 1..Len(l) - 1 : l[p] = "!" => Bracketed(l, p + 1) = 0
    PROVE  Apart(Links(l), "!", "<a href='")
  <1> DEFINE end == LinkEnd(l)
             rep == LinkRep(l)
             y == "<a href='"
             x == "!"
  <1>1. PICK R : Rewriting(Token, l, end, rep, R) /\ Links(l) = R[1]
    <2>1. ReplacedBy(Token, l, end, rep, Links(l))
      BY LinksRewrite, Zenon
    <2> QED BY <2>1, Zenon DEF ReplacedBy
  <1>2. \A k \in 1..Len(l) : l[k] # y
    <2>1. \A k \in 1..Len(l) : l[k] \notin {y}
      BY NoneCounted, Zenon
    <2> QED BY <2>1, Zenon
  <1>3. y # x /\ "'>" \notin {x, y} /\ "</a>" # y /\ "</a>" # x
    BY Zenon
  <1>4. ASSUME NEW p \in 1..Len(l), end[p] # 0
        PROVE  Len(rep[p]) > 0 /\ rep[p][Len(rep[p])] # x /\ Apart(rep[p], x, y)
    <2> DEFINE a == SubSeq(l, UrlStart(l, p), end[p] - 1)
               b == SubSeq(l, p + 1, UrlStart(l, p) - 3)
    <2>1. LinkAt(Token, l, p)
      BY <1>4, LinkIs, Zenon
    <2>2. /\ UrlStart(l, p) \in Nat /\ end[p] \in p..Len(l)
          /\ Bracket(l, p, UrlStart(l, p), end[p])
          /\ rep[p] = LinkHtml(b, a)
      BY <2>1, Zenon DEF LinkAt
    <2>3. /\ UrlStart(l, p) \in 1..Len(l) + 1 /\ end[p] - 1 \in 0..Len(l)
          /\ p + 1 \in 1..Len(l) + 1 /\ UrlStart(l, p) - 3 \in 0..Len(l)
      <3>1. end[p] \in Nat
        BY <2>2, RangeType, Zenon
      <3> QED BY <2>2, <3>1, BracketRange, Zenon
    <2>4. a \in Seq(Token) /\ Apart(a, x, y)
      BY <1>2, <2>3, PartApart, Zenon
    <2>5. b \in Seq(Token) /\ Apart(b, x, y)
      BY <1>2, <2>3, PartApart, Zenon
    <2> HIDE DEF a, b, end
    <2>6. LinkHtml(b, a) = <<y>> \o a \o <<"'>">> \o b \o <<"</a>">>
      BY Zenon DEF LinkHtml
    <2> DEFINE v == "'>"
               w == "</a>"
               m == <<y>> \o a \o <<v>> \o b \o <<w>>
    <2>7. y \in Token /\ v \in Token /\ w \in Token
      BY TokensAre, Zenon
    <2> HIDE DEF x, y, v, w
    <2>8. Apart(m, x, y)
      BY <1>3, <2>4, <2>5, <2>7, TagApart, Zenon DEF v, w
    <2>9. TagEnds(m, y, w)
      BY <2>4, <2>5, <2>7, TagEndsAre, Zenon
    <2> HIDE DEF m
    <2>10. rep[p] = m
      BY <2>2, <2>6, Zenon DEF m, v, w
    <2> QED BY <1>3, <2>8, <2>9, <2>10, Zenon DEF TagEnds, w
  <1>5. KeepsApart(l, end, rep, x, y)
    <2>1. ASSUME NEW p \in 1..Len(l) - 1, l[p] = x
          PROVE  BeginsWith(l, end, rep, p + 1) # y
      <3>1. p + 1 \in DOMAIN l /\ p + 1 \in 1..Len(l)
        BY NextPlace, Zenon
      <3>2. end[p + 1] = 0
        BY <2>1, <3>1, Zenon DEF LinkEnd
      <3>3. l[p + 1] # y
        BY <1>2, <3>1, Zenon
      <3> QED BY <3>2, <3>3, Zenon DEF BeginsWith
    <2> QED BY <1>4, <2>1, Zenon DEF KeepsApart
  <1> QED BY <1>1, <1>5, ApartKept, Zenon

-----------------------------------------------------------------------------
(* Where the characters of a stretch without a match are.                  *)
Stretch(l, R, p, k) ==
    /\ Len(R[p]) = ((k - p) + 1) + Len(R[k + 1])
    /\ \A i \in p..k : R[p][(i - p) + 1] = l[i]
    /\ \A i \in 1..Len(R[k + 1]) : R[p][((k - p) + 1) + i] = R[k + 1][i]

(* The characters of a stretch without a match are in the result one by    *)
(* one.                                                                    *)
LEMMA StretchIs ==
    ASSUME NEW S, NEW l \in Seq(S), NEW end, NEW rep, NEW R, Rewriting(S, l, end, rep, R),
           NEW k \in 0..Len(l), NEW p \in 1..k + 1, NoMatch(end, p, k)
    PROVE  Stretch(l, R, p, k)
  <1> DEFINE a == SubSeq(l, p, k)
             b == R[k + 1]
  <1>1. R[p] = a \o b
    <2>1. CopiedUpto(l, R, p, k)
      BY WhereNoneUpto, Zenon
    <2> QED BY <2>1 DEF CopiedUpto
  <1>2. b \in Seq(S) /\ Len(b) \in Nat
    <2>1. k + 1 \in 1..Len(l) + 1
      OBVIOUS
    <2>2. b \in Seq(S)
      BY <2>1 DEF Rewriting
    <2> QED BY <2>2
  <1>3. /\ a \in Seq(S) /\ Len(a) = (k - p) + 1
        /\ \A i \in 1..(k - p) + 1 : a[i] = l[(p + i) - 1]
    <2>1. \A i \in p..k : l[i] \in S
      OBVIOUS
    <2>2. /\ a \in Seq(S) /\ Len(a) = (IF p <= k THEN (k - p) + 1 ELSE 0)
          /\ \A i \in 1..(k - p) + 1 : a[i] = l[(p + i) - 1]
      BY <2>1, SubSeqProperties
    <2> HIDE DEF a
    <2> QED BY <2>2
  <1> HIDE DEF a, b
  <1>4. /\ Len(a \o b) = Len(a) + Len(b)
        /\ \A i \in 1..Len(a) + Len(b) : (a \o b)[i] = IF i <= Len(a) THEN a[i] ELSE b[i - Len(a)]
    BY <1>2, <1>3, ConcatProperties
  <1>5. Len(R[p]) = ((k - p) + 1) + Len(b)
    BY <1>1, <1>3, <1>4
  <1>6. ASSUME NEW i \in p..k
        PROVE  R[p][(i - p) + 1] = l[i]
    <2>1. /\ (i - p) + 1 \in 1..Len(a) + Len(b) /\ (i - p) + 1 <= Len(a) /\ (i - p) + 1 \in 1..(k - p) + 1
          /\ (p + ((i - p) + 1)) - 1 = i
      BY <1>2, <1>3
    <2> QED BY <1>1, <1>3, <1>4, <2>1
  <1>7. ASSUME NEW i \in 1..Len(b)
        PROVE  R[p][((k - p) + 1) + i] = b[i]
    <2>1. /\ ((k - p) + 1) + i \in 1..Len(a) + Len(b) /\ ~(((k - p) + 1) + i <= Len(a))
          /\ (((k - p) + 1) + i) - Len(a) = i
      BY <1>2, <1>3
    <2> QED BY <1>1, <1>4, <2>1
  <1> QED BY <1>5, <1>6, <1>7 DEF Stretch, b

NoInside(s) == \A q, r \in DOMAIN s : ~ImageInside(s, q, r)

(* An image begins at each match of its parser.                            *)
LEMMA ImageBegins ==
    ASSUME NEW S, NEW s \in Seq(S), NEW r \in 1..Len(s), ImageEnd(s)[r] # 0
    PROVE  Occurs(s, <<"!", "[">>, r)
  <1>1. ImageAt(S, s, r)
    BY ImageIs, Zenon
  <1>2. s[r] = "!" /\ s[r + 1] = "[" /\ ImageEnd(s)[r] \in r + 1..Len(s)
    BY <1>1, Zenon DEF ImageAt, Bracket
  <1>3. ASSUME NEW x, NEW y, NEW e \in r + 1..Len(s), s[r] = x, s[r + 1] = y
        PROVE  Occurs(s, <<x, y>>, r)
    <2>1. r \in Nat \ {0} /\ r + 1 <= Len(s)
      OBVIOUS
    <2> QED BY <1>3, <2>1, OccursTwo
  <1> QED BY <1>2, <1>3, Zenon

(* What the parser of images makes of a line from a match on begins with   *)
(* its tag.                                                                *)
LEMMA ImageTagFirst ==
    ASSUME NEW s \in Seq(Token), NEW R, Rewriting(Token, s, ImageEnd(s), ImageRep(s), R),
           NEW p \in 1..Len(s), ImageEnd(s)[p] # 0
    PROVE  R[p][1] = "<img src='"
  <1> DEFINE end == ImageEnd(s)
             rep == ImageRep(s)
             a == SubSeq(s, UrlStart(s, p + 1), end[p] - 1)
             b == SubSeq(s, p + 2, UrlStart(s, p + 1) - 3)
             x == "<img src='"
             y == "' alt='"
             z == "'/>"
             m == <<x>> \o a \o <<y>> \o b \o <<z>>
  <1>1. rep[p] = ImageHtml(b, a) /\ a \in Seq(Token) /\ b \in Seq(Token)
    <2>1. ImageAt(Token, s, p)
      BY ImageIs, Zenon
    <2> QED BY <2>1, Zenon DEF ImageAt
  <1>2. rep[p] = m
    BY <1>1, Zenon DEF ImageHtml
  <1>3. x \in Token /\ y \in Token /\ z \in Token
    BY TokensAre, Zenon
  <1> HIDE DEF a, b, x, y, z
  <1>4. TagEnds(m, x, z)
    BY <1>1, <1>3, TagEndsAre, Zenon
  <1> HIDE DEF m, rep, end
  <1>5. Put(Token, s, end, rep, R, p)
    BY WhereOne, Zenon DEF end, rep
  <1>6. rep[p] \in Seq(Token) /\ R[end[p] + 1] \in Seq(Token) /\ R[p] = rep[p] \o R[end[p] + 1]
    BY <1>5, Zenon DEF Put
  <1>7. Len(rep[p]) > 0 /\ rep[p][1] = x
    BY <1>2, <1>4, Zenon DEF TagEnds
  <1>8. (rep[p] \o R[end[p] + 1])[1] = rep[p][1]
    BY <1>6, <1>7, FirstOf, Zenon
  <1>9. R[p][1] = x
    BY <1>6, <1>7, <1>8, Zenon
  <1> QED BY <1>9 DEF x

(* Where something is left is a place of the line.                         *)
LEMMA PlaceWithRest ==
    ASSUME NEW S, NEW l \in Seq(S), NEW R, R[Len(l) + 1] = <<>>,
           NEW p \in 1..Len(l) + 1, Len(R[p]) > 0
    PROVE  p \in 1..Len(l)
  <1>1. p # Len(l) + 1
    <2>1. Len(<<>>) = 0 /\ ~(0 > 0)
      OBVIOUS
    <2> SUFFICES ASSUME p = Len(l) + 1 PROVE FALSE
      OBVIOUS
    <2>2. R[p] = <<>>
      BY Zenon
    <2> QED BY <2>1, <2>2, Zenon
  <1> QED BY <1>1

(* A sequence of one element.                                              *)
LEMMA OneElement == \A x : Len(<<x>>) > 0 /\ <<x>>[1] = x
  <1> QED OBVIOUS

(* From p on the result begins as the line, if it begins with a character. *)
LEMMA BeginsAsLine ==
    ASSUME NEW s \in Seq(Token), NEW R, Rewriting(Token, s, ImageEnd(s), ImageRep(s), R),
           NEW p \in 1..Len(s) + 1, Len(R[p]) > 0, R[p][1] # "<img src='"
    PROVE  p \in 1..Len(s) /\ ImageEnd(s)[p] = 0 /\ R[p][1] = s[p]
  <1>1. p \in 1..Len(s)
    <2>1. R[Len(s) + 1] = <<>>
      BY NothingBehind, Zenon
    <2> QED BY <2>1, PlaceWithRest, Zenon
  <1>2. ImageEnd(s)[p] = 0
    BY <1>1, ImageTagFirst, Zenon
  <1>3. Copied(Token, s, R, p)
    BY <1>1, <1>2, WhereNone, Zenon
  <1>4. <<s[p]>> \in Seq(Token) /\ R[p + 1] \in Seq(Token) /\ R[p] = <<s[p]>> \o R[p + 1]
    BY <1>3, Zenon DEF Copied
  <1>5. (<<s[p]>> \o R[p + 1])[1] = <<s[p]>>[1]
    BY <1>4, OneElement, FirstOf, Zenon
  <1>6. R[p][1] = s[p]
    BY <1>4, <1>5, OneElement, Zenon
  <1> QED BY <1>1, <1>2, <1>6, Zenon

(* Between the places p and j of a stretch nothing is c, and c is in what  *)
(* it becomes: then it goes on behind the stretch.                         *)
LEMMA StretchWithout ==
    ASSUME NEW S, NEW l \in Seq(S), NEW R, R[Len(l) + 1] = <<>>,
           NEW p \in 1..Len(l), Stretch(l, R, p, Len(l)),
           NEW c, \A k \in p..Len(l) : l[k] # c,
           NEW i \in Nat, 1 <= i, i <= Len(R[p]), R[p][i] = c
    PROVE  FALSE
  <1>1. Len(<<>>) = 0
    OBVIOUS
  <1>2. Len(R[Len(l) + 1]) = 0
    BY <1>1, Zenon
  <1>3. Len(l) \in Nat /\ Len(R[p]) = ((Len(l) - p) + 1) + 0
    <2>1. Len(l) \in Nat
      OBVIOUS
    <2> QED BY <1>2, <2>1, Zenon DEF Stretch
  <1>4. (i + p) - 1 \in p..Len(l) /\ (((i + p) - 1) - p) + 1 = i
    BY <1>3
  <1>5. R[p][(((i + p) - 1) - p) + 1] = l[(i + p) - 1]
    BY <1>4, Zenon DEF Stretch
  <1> QED BY <1>4, <1>5, Zenon

(* The first c behind the first element of a stretch is its last.          *)
FirstIn(m, v, c) == v \in Nat /\ 1 < v /\ m[v] = c /\ v < Len(m) /\ \A k \in 2..v - 1 : m[k] # c
FirstAt(l, p, j, c) == l[j] = c /\ \A k \in p + 1..j - 1 : l[k] # c
StretchPassed(R, p, j, v) ==
    v = (j - p) + 1 /\ Len(R[j + 1]) > 0 /\ R[j + 1][1] = R[p][v + 1]

(* If the first c is behind the stretch in the line, it is in the result.  *)
LEMMA StretchFirst ==
    ASSUME NEW S, NEW l \in Seq(S), NEW R, NEW p \in 1..Len(l), NEW j \in p + 1..Len(l),
           Stretch(l, R, p, j), Len(R[j + 1]) \in Nat, NEW c, FirstAt(l, p, j, c),
           NEW v, FirstIn(R[p], v, c)
    PROVE  StretchPassed(R, p, j, v)
  <1>0. /\ \A k \in p + 1..j - 1 : l[k] # c
        /\ l[j] = c /\ v \in Nat /\ 1 < v /\ R[p][v] = c /\ v < Len(R[p])
        /\ \A k \in 2..v - 1 : R[p][k] # c
    BY Zenon DEF FirstIn, FirstAt
  <1>1. /\ Len(R[p]) = ((j - p) + 1) + Len(R[j + 1])
        /\ \A i \in p..j : R[p][(i - p) + 1] = l[i]
        /\ \A i \in 1..Len(R[j + 1]) : R[p][((j - p) + 1) + i] = R[j + 1][i]
    BY Zenon DEF Stretch
  <1>2. ~(v < (j - p) + 1)
    <2> SUFFICES ASSUME v < (j - p) + 1 PROVE FALSE
      OBVIOUS
    <2> DEFINE i == (v + p) - 1
    <2>1. i \in p + 1..j - 1 /\ i \in p..j /\ (i - p) + 1 = v
      BY <1>0
    <2> HIDE DEF i
    <2>2. R[p][v] = l[i]
      BY <1>1, <2>1
    <2> QED BY <1>0, <2>1, <2>2, Zenon
  <1>3. ~((j - p) + 1 < v)
    <2> SUFFICES ASSUME (j - p) + 1 < v PROVE FALSE
      OBVIOUS
    <2>1. (j - p) + 1 \in 2..v - 1 /\ j \in p..j
      BY <1>0
    <2> QED BY <1>0, <1>1, <2>1, Zenon
  <1>4. v = (j - p) + 1
    BY <1>0, <1>2, <1>3
  <1>5. Len(R[j + 1]) > 0 /\ 1 \in 1..Len(R[j + 1]) /\ v + 1 = ((j - p) + 1) + 1
    <2> DEFINE a == Len(R[p])
               d == Len(R[j + 1])
    <2>1. a = ((j - p) + 1) + d /\ v < a /\ d \in Nat
      BY <1>0, <1>1, Zenon
    <2> HIDE DEF a, d
    <2>2. d > 0 /\ 1 \in 1..d /\ v + 1 = ((j - p) + 1) + 1
      BY <1>4, <2>1
    <2> QED BY <2>2 DEF d
  <1> QED BY <1>1, <1>4, <1>5, Zenon DEF StretchPassed

(* A match of the parser of images in the text of an image.                *)
LEMMA NoneInText ==
    ASSUME NEW S, NEW s \in Seq(S), NoInside(s), NEW p \in 1..Len(s) - 1,
           Occurs(s, <<"!", "[">>, p),
           NEW r \in 1..Len(s), p < r, r < NextOf(s, {"]"}, p + 2)
    PROVE  ImageEnd(s)[r] = 0
  <1> SUFFICES ASSUME ImageEnd(s)[r] # 0 PROVE FALSE
    BY Zenon
  <1>1. Occurs(s, <<"!", "[">>, r)
    BY ImageBegins, Zenon
  <1>2. p + 1 + 1 = p + 2 /\ p \in DOMAIN s /\ r \in DOMAIN s
    OBVIOUS
  <1>3. UrlStart(s, p + 1) = NextOf(s, {"]"}, p + 2) + 2
    BY <1>2, Zenon DEF UrlStart
  <1>4. IsNext(s, {"]"}, p + 2, NextOf(s, {"]"}, p + 2))
    <2>1. p + 2 \in 1..Len(s) + 1
      OBVIOUS
    <2> QED BY <2>1, NextOfIs, Zenon
  <1>5. NextOf(s, {"]"}, p + 2) \in Int
    <2>1. NextOf(s, {"]"}, p + 2) \in p + 2..Len(s) + 1
      BY <1>4, Zenon DEF IsNext
    <2> QED BY <2>1
  <1>6. UrlStart(s, p + 1) - 2 = NextOf(s, {"]"}, p + 2)
    BY <1>3, <1>5
  <1>7. ImageInside(s, p, r)
    BY <1>1, <1>6, Zenon DEF ImageInside
  <1> QED BY <1>2, <1>7, Zenon DEF NoInside

(* A match of the parser of images in what is read as the address of one,  *)
(* which has no end.                                                       *)
LEMMA NoneInAddress ==
    ASSUME NEW S, NEW s \in Seq(S), NoInside(s), NEW p \in 1..Len(s) - 1,
           Occurs(s, <<"!", "[">>, p),
           NEW j \in 1..Len(s) - 1, j = NextOf(s, {"]"}, p + 2), Occurs(s, <<"]", "(">>, j),
           AddressEnds(s, j + 2) = {}, p < j,
           NEW r \in 1..Len(s), j + 2 <= r, r < NextOf(s, {"]"}, j + 2)
    PROVE  ImageEnd(s)[r] = 0
  <1> SUFFICES ASSUME ImageEnd(s)[r] # 0 PROVE FALSE
    BY Zenon
  <1>1. Occurs(s, <<"!", "[">>, r)
    BY ImageBegins, Zenon
  <1>2. p + 1 + 1 = p + 2 /\ p \in DOMAIN s /\ r \in DOMAIN s /\ p < r
    OBVIOUS
  <1>3. UrlStart(s, p + 1) = j + 2
    BY <1>2, Zenon DEF UrlStart
  <1>4. IsNext(s, {"]"}, j + 2, NextOf(s, {"]"}, j + 2))
    <2>1. j + 2 \in 1..Len(s) + 1
      OBVIOUS
    <2> QED BY <2>1, NextOfIs, Zenon
  <1>5. NextOf(s, {"]"}, j + 2) \in j + 2..Len(s) + 1
    BY <1>4, Zenon DEF IsNext
  <1>6. (j + 2) - 2 = j /\ r \in j + 2..NextOf(s, {"]"}, j + 2) - 1
    BY <1>5
  <1>7. ImageInside(s, p, r)
    BY <1>1, <1>2, <1>3, <1>6, Zenon DEF ImageInside
  <1> QED BY <1>2, <1>7, Zenon DEF NoInside

(* What begins in a stretch and closes before there is a c is in it.       *)
StretchEnds(l, R, a, k, c) == (l[k] = c /\ a <= k) \/ (k = Len(l) /\ R[Len(l) + 1] = <<>>)
ClosesIn(m, a, e, c, d) ==
    e \in Nat /\ a <= e /\ e <= Len(m) /\ m[e] = d /\ \A i \in a..e : m[i] # c
Closes(l, a, c, d) == \E i \in a..Len(l) : l[i] = d /\ \A m \in a..i : l[m] # c

(* What closes in the result of a stretch closed in the line.              *)
LEMMA StretchCloses ==
    ASSUME NEW S, NEW l \in Seq(S), NEW R, NEW p \in 1..Len(l), NEW k \in p..Len(l),
           Stretch(l, R, p, k), NEW a \in p..k + 1, NEW c, NEW d, StretchEnds(l, R, a, k, c),
           NEW e, ClosesIn(R[p], (a - p) + 1, e, c, d)
    PROVE  Closes(l, a, c, d)
  <1>0. /\ (l[k] = c /\ a <= k) \/ (k = Len(l) /\ R[Len(l) + 1] = <<>>)
        /\ e \in Nat /\ (a - p) + 1 <= e /\ e <= Len(R[p]) /\ R[p][e] = d
        /\ \A i \in (a - p) + 1..e : R[p][i] # c
    BY Zenon DEF StretchEnds, ClosesIn
  <1>1. \A i \in p..k : R[p][(i - p) + 1] = l[i]
    BY Zenon DEF Stretch
  <1>2. e <= (k - p) + 1
    <2>1. CASE l[k] = c /\ a <= k
      <3>0. e \in Nat
        BY <1>0, Zenon
      <3> SUFFICES ASSUME (k - p) + 1 < e PROVE FALSE
        BY <3>0
      <3>1. (k - p) + 1 \in (a - p) + 1..e /\ k \in p..k
        BY <1>0, <2>1
      <3> QED BY <1>0, <1>1, <2>1, <3>1, Zenon
    <2>2. CASE k = Len(l) /\ R[Len(l) + 1] = <<>>
      <3>1. Len(<<>>) = 0
        OBVIOUS
      <3>2. Len(R[k + 1]) = 0
        BY <2>2, <3>1, Zenon
      <3>3. Len(R[p]) = ((k - p) + 1) + 0
        BY <3>2, Zenon DEF Stretch
      <3> DEFINE h == Len(R[p])
      <3>4. e \in Nat /\ e <= h /\ h = ((k - p) + 1) + 0
        BY <1>0, <3>3, Zenon
      <3> HIDE DEF h
      <3> QED BY <3>4
    <2> QED BY <1>0, <2>1, <2>2, Zenon
  <1>3. /\ (e + p) - 1 \in a..Len(l) /\ (e + p) - 1 \in p..k /\ (((e + p) - 1) - p) + 1 = e
        /\ \A m \in a..(e + p) - 1 : m \in p..k /\ (m - p) + 1 \in (a - p) + 1..e
    BY <1>0, <1>2
  <1> QED BY <1>0, <1>1, <1>3, Zenon DEF Closes

(* Two tokens that occur.                                                  *)
LEMMA OccursHere ==
    ASSUME NEW S, NEW l \in Seq(S), NEW p \in 1..Len(l) - 1, NEW x, NEW y,
           l[p] = x, l[p + 1] = y
    PROVE  Occurs(l, <<x, y>>, p)
  <1>1. p \in Nat \ {0} /\ p + 1 <= Len(l)
    OBVIOUS
  <1> QED BY <1>1, OccursTwo

(* An exclamation mark of the line that begins no image.                   *)
LoneMark(s, p) == s[p] = "!" /\ ImageEnd(s)[p] = 0

(* Everything about a match of a bracket.                                  *)
Match(S, l, p) ==
    /\ Bracket(l, p, UrlStart(l, p), Bracketed(l, p))
    /\ UrlStart(l, p) \in Nat /\ Bracketed(l, p) \in Nat

(* Bracketed is a match if it is not 0.                                    *)
LEMMA MatchIs ==
    ASSUME NEW S, NEW l \in Seq(S), NEW p \in 1..Len(l), Bracketed(l, p) # 0
    PROVE  Match(S, l, p)
  <1> DEFINE u == UrlStart(l, p)
             e == Bracketed(l, p)
  <1>1. Bracket(l, p, u, e)
    BY BracketedIs, Zenon
  <1>2. u \in Nat
    BY UrlStartType, Zenon
  <1>3. e \in AddressEnds(l, u) /\ p < u - 2 /\ u <= e /\ e <= Len(l)
    BY <1>1, Zenon DEF Bracket
  <1>4. e \in Nat
    <2>1. u \in 1..Len(l) + 1
      <3>1. e \in Int
        BY <1>2, <1>3 DEF AddressEnds
      <3> HIDE DEF e, u
      <3> QED BY <1>2, <1>3, <3>1
    <2>2. e \in u..Len(l)
      BY <1>3, <2>1, AddressEndsAre, Zenon
    <2> QED BY <1>2, <2>2
  <1> QED BY <1>1, <1>2, <1>4, Zenon DEF Match

(* What such a mark has behind it when the parser of images has run is not *)
(* the bracket of a link.                                                  *)
LEMMA LoneMarkKept ==
    ASSUME NEW s \in Seq(Token), NEW R, Rewriting(Token, s, ImageEnd(s), ImageRep(s), R),
           NoInside(s), NEW p \in 1..Len(s), LoneMark(s, p), Len(R[p + 1]) > 0
    PROVE  Bracketed(R[p + 1], 1) = 0
  <1> DEFINE b == R[p + 1]
             u == UrlStart(b, 1)
             e == Bracketed(b, 1)
             ob == "["
             cb == "]"
             op == "("
             cl == ")"
             n == Len(s)
             end == ImageEnd(s)
  <1>1. SUFFICES ASSUME e # 0 PROVE FALSE
    BY Zenon
  <1>2. b \in Seq(Token) /\ 1 \in 1..Len(b) /\ Len(b) \in Nat /\ p + 1 \in 1..n + 1
        /\ R[n + 1] = <<>>
    <2>1. p + 1 \in 1..n + 1
      OBVIOUS
    <2>2. b \in Seq(Token)
      BY <2>1, Zenon DEF Rewriting
    <2>3. R[n + 1] = <<>>
      BY NothingBehind, Zenon
    <2> HIDE DEF b
    <2>4. Len(b) > 0
      BY DEF b
    <2>5. 1 \in 1..Len(b) /\ Len(b) \in Nat
      BY <2>2, <2>4
    <2> QED BY <2>1, <2>2, <2>3, <2>5
  <1>3. Match(Token, b, 1)
    BY <1>1, <1>2, MatchIs, Zenon
  <1>4. Bracket(b, 1, u, e) /\ u \in Nat /\ e \in Nat
    BY <1>3, Zenon DEF Match
  <1>5. /\ b[1] = ob /\ b[u - 2] = cb /\ b[u - 1] = op /\ b[e] = cl
        /\ \A k \in 1 + 1..u - 3 : b[k] # cb
        /\ \A k \in u..e : b[k] # cb
        /\ 1 < u - 2 /\ u <= e /\ e <= Len(b)
    BY <1>4, Zenon DEF Bracket
  <1> HIDE DEF u, e
  <1>6. /\ u - 2 \in Nat /\ 1 <= u - 2 /\ u - 2 < Len(b) /\ u - 2 <= Len(b) /\ (u - 2) + 1 = u - 1
        /\ (u - 2) - 1 = u - 3 /\ 1 + 1 = 2
    <2> HIDE DEF b
    <2> QED BY <1>2, <1>4, <1>5
  <1>7. cb # ob /\ cb # "!" /\ op # "!" /\ op # cb /\ ob # "<img src='" /\ op # "<img src='"
    BY Zenon
  <1>8. p + 1 \in 1..n /\ end[p + 1] = 0 /\ s[p + 1] = ob
    <2>1. p + 1 \in 1..Len(s) /\ ImageEnd(s)[p + 1] = 0 /\ R[p + 1][1] = s[p + 1]
      BY <1>2, <1>5, <1>7, BeginsAsLine, Zenon
    <2> QED BY <1>5, <2>1, Zenon
  <1>9. /\ p \in 1..n - 1 /\ n \in Nat /\ p + 2 \in 1..n + 1 /\ (p + 1) + 1 = p + 2
        /\ p \in DOMAIN s
    BY <1>8
  <1>10. s[p] = "!" /\ end[p] = 0
    BY Zenon DEF LoneMark
  <1> HIDE DEF ob, cb, op, cl
  <1>11. Occurs(s, <<"!", "[">>, p)
    BY <1>8, <1>9, <1>10, OccursHere, Zenon DEF ob
  <1>12. Bracketed(s, p + 1) = 0
    BY <1>9, <1>10, Zenon DEF ImageEnd, end
  <1> DEFINE j == NextOf(s, {"]"}, p + 2)
  <1>13. IsNext(s, {cb}, p + 2, j)
    BY <1>9, NextOfIs, Zenon DEF cb
  <1>14. j \in p + 2..n + 1 /\ (j = n + 1 \/ s[j] = cb) /\ \A k \in p + 2..j - 1 : s[k] # cb
    BY <1>13, Zenon DEF IsNext
  <1>15. \A r \in 1..n : p < r /\ r < j => end[r] = 0
    BY <1>9, <1>11, NoneInText, Zenon
  <1>16. \A k \in 1..n : s[k] = cb => end[k] = 0
    <2>1. \A k \in 1..n : k \in DOMAIN s
      OBVIOUS
    <2> QED BY <1>7, <2>1, Zenon DEF ImageEnd
  <1>17. \A k \in p + 1..j - 1 : s[k] # cb
    <2>1. \A k \in p + 1..j - 1 : k = p + 1 \/ k \in p + 2..j - 1
      OBVIOUS
    <2> QED BY <1>7, <1>8, <1>14, <2>1, Zenon
  <1> HIDE DEF j, end
  <1>18. j # n + 1
    <2> SUFFICES ASSUME j = n + 1 PROVE FALSE
      OBVIOUS
    <2>1. /\ \A r \in p + 1..n : r \in 1..n /\ p < r /\ r < j /\ r \in p + 1..j - 1
          /\ n \in 0..n /\ p + 1 \in 1..n + 1
      BY <1>9
    <2>2. NoMatch(end, p + 1, n)
      BY <1>15, <2>1, Zenon DEF NoMatch
    <2>3. Stretch(s, R, p + 1, n)
      BY <2>1, <2>2, StretchIs, Zenon DEF end
    <2>4. \A k \in p + 1..n : s[k] # cb
      BY <1>17, <2>1, Zenon
    <2> QED BY <1>2, <1>5, <1>6, <1>8, <2>3, <2>4, StretchWithout, Zenon
  <1>19. j \in p + 2..n /\ s[j] = cb /\ j \in 1..n /\ j \in p + 2..n
    BY <1>9, <1>14, <1>18
  <1>20. NoMatch(end, p + 1, j)
    <2>1. end[j] = 0
      BY <1>16, <1>19, Zenon
    <2>2. \A r \in p + 1..j : r = j \/ (r \in 1..n /\ p < r /\ r < j)
      BY <1>9, <1>19
    <2> QED BY <1>15, <2>1, <2>2, Zenon DEF NoMatch
  <1>21. Stretch(s, R, p + 1, j)
    <2>1. j \in 0..n /\ p + 1 \in 1..j + 1
      BY <1>9, <1>19
    <2> QED BY <1>20, <2>1, StretchIs, Zenon DEF end
  <1>22. u - 2 = (j - (p + 1)) + 1 /\ Len(R[j + 1]) > 0 /\ R[j + 1][1] = op
    <2>1. j \in (p + 1) + 1..n /\ j + 1 \in 1..n + 1
          /\ \A k \in (p + 1) + 1..j - 1 : k \in p + 1..j - 1
      BY <1>9, <1>19
    <2>2. R[j + 1] \in Seq(Token)
      BY <2>1, Zenon DEF Rewriting
    <2>3. Len(R[j + 1]) \in Nat
      BY <2>2
    <2>4. \A k \in (p + 1) + 1..j - 1 : s[k] # cb
      BY <1>17, <2>1, Zenon
    <2>5. \A k \in 2..(u - 2) - 1 : R[p + 1][k] # cb
      BY <1>5, <1>6, Zenon
    <2> DEFINE v == u - 2
               q == p + 1
    <2>6. /\ q \in 1..Len(s) /\ j \in q + 1..Len(s) /\ Stretch(s, R, q, j) /\ Len(R[j + 1]) \in Nat
          /\ FirstAt(s, q, j, cb)
      BY <1>8, <1>19, <1>21, <2>1, <2>3, <2>4, Zenon DEF FirstAt
    <2>7. FirstIn(R[q], v, cb)
      BY <1>5, <1>6, <2>5, Zenon DEF FirstIn
    <2> HIDE DEF v, q
    <2>8. StretchPassed(R, q, j, v)
      BY <2>6, <2>7, StretchFirst, Zenon
    <2>9. /\ u - 2 = (j - (p + 1)) + 1
          /\ Len(R[j + 1]) > 0 /\ R[j + 1][1] = R[p + 1][(u - 2) + 1]
      BY <2>8, Zenon DEF v, q, StretchPassed
    <2> QED BY <1>5, <1>6, <2>9, Zenon
  <1>23. j + 1 \in 1..n /\ end[j + 1] = 0 /\ s[j + 1] = op
    <2>1. j + 1 \in 1..Len(s) + 1
      BY <1>19
    <2>2. j + 1 \in 1..Len(s) /\ ImageEnd(s)[j + 1] = 0 /\ R[j + 1][1] = s[j + 1]
      BY <1>7, <1>22, <2>1, BeginsAsLine, Zenon
    <2> QED BY <1>22, <2>2, Zenon DEF end
  <1>24. /\ j \in 1..n - 1 /\ j \in (p + 1) + 1..n - 1 /\ j + 2 \in 1..n + 1 /\ p < j
         /\ \A k \in (p + 1) + 1..j - 1 : k \in p + 1..j - 1
    BY <1>9, <1>19, <1>23
  <1>25. AddressEnds(s, j + 2) = {}
    <2> SUFFICES ASSUME NEW m \in AddressEnds(s, j + 2) PROVE FALSE
      BY Zenon
    <2>1. \A k \in (p + 1) + 1..j - 1 : s[k] # cb
      BY <1>17, <1>24, Zenon
    <2>2. Bracketed(s, p + 1) # 0
      BY <1>8, <1>19, <1>23, <1>24, <2>1, BracketedHere, Zenon DEF ob, cb, op
    <2> QED BY <1>12, <2>2, Zenon
  <1> DEFINE j2 == NextOf(s, {"]"}, j + 2)
  <1>26. IsNext(s, {cb}, j + 2, j2)
    BY <1>24, NextOfIs, Zenon DEF cb
  <1>27. j2 \in j + 2..n + 1 /\ (j2 = n + 1 \/ s[j2] = cb)
    BY <1>26, Zenon DEF IsNext
  <1>28. \A r \in 1..n : j + 2 <= r /\ r < j2 => end[r] = 0
    <2>1. Occurs(s, <<"]", "(">>, j)
      BY <1>19, <1>23, <1>24, OccursHere, Zenon DEF cb, op
    <2>2. j = NextOf(s, {"]"}, p + 2)
      BY DEF j
    <2> QED BY <1>9, <1>11, <1>24, <1>25, <2>1, <2>2, NoneInAddress, Zenon DEF end
  <1> HIDE DEF j2
  <1> DEFINE k == IF j2 = n + 1 THEN n ELSE j2
  <1>29. /\ k \in p + 1..n /\ j + 2 \in p + 1..k + 1 /\ k \in 0..n /\ p + 1 \in 1..k + 1
         /\ (j2 = n + 1 => k = n) /\ (j2 # n + 1 => k = j2 /\ j2 \in 1..n /\ j + 2 <= k)
         /\ \A r \in p + 1..k : r \in p + 1..j \/ r = j + 1 \/ (r \in 1..n /\ j + 2 <= r /\ r < j2)
                                                \/ (r = j2 /\ j2 # n + 1)
    <2>1. j2 = n + 1 \/ j2 \in 1..n
      BY <1>9, <1>19, <1>27
    <2>2. j2 = n + 1 => k = n
      BY Zenon
    <2>3. j2 # n + 1 => k = j2
      BY Zenon
    <2> HIDE DEF k, n
    <2>4. \A r \in p + 1..k : r \in p + 1..j \/ r = j + 1 \/ (r \in 1..n /\ j + 2 <= r /\ r < j2)
                                                \/ (r = j2 /\ j2 # n + 1)
      BY <1>9, <1>19, <1>24, <1>27, <2>1, <2>2, <2>3, SMTT(30)
    <2>5. /\ k \in p + 1..n /\ j + 2 \in p + 1..k + 1 /\ k \in 0..n /\ p + 1 \in 1..k + 1
          /\ (j2 # n + 1 => j2 \in 1..n /\ j + 2 <= k)
      BY <1>9, <1>19, <1>24, <1>27, <2>1, <2>2, <2>3, SMTT(30)
    <2> QED BY <2>2, <2>3, <2>4, <2>5
  <1> HIDE DEF k
  <1>30. (s[k] = cb /\ j + 2 <= k) \/ (k = Len(s) /\ R[Len(s) + 1] = <<>>)
    BY <1>2, <1>27, <1>29, Zenon
  <1>31. NoMatch(end, p + 1, k)
    <2>1. \A r \in p + 1..j : end[r] = 0
      BY <1>20, Zenon DEF NoMatch
    <2>2. j2 # n + 1 => end[j2] = 0
      BY <1>16, <1>27, <1>29, Zenon
    <2> QED BY <1>23, <1>28, <1>29, <2>1, <2>2, Zenon DEF NoMatch
  <1>32. Stretch(s, R, p + 1, k)
    BY <1>29, <1>31, StretchIs, Zenon DEF end
  <1>33. ((j + 2) - (p + 1)) + 1 = u
    <2>1. u - 2 = (j - (p + 1)) + 1 /\ u \in Nat /\ p \in Int /\ j \in Int
      BY <1>4, <1>19, <1>22
    <2> QED BY <2>1
  <1>34. Closes(s, j + 2, cb, cl)
    <2> DEFINE q == p + 1
               a == j + 2
    <2>1. /\ q \in 1..Len(s) /\ k \in q..Len(s) /\ Stretch(s, R, q, k) /\ a \in q..k + 1
          /\ StretchEnds(s, R, a, k, cb)
      BY <1>8, <1>29, <1>30, <1>32, Zenon DEF StretchEnds
    <2>2. ClosesIn(R[q], (a - q) + 1, e, cb, cl)
      BY <1>4, <1>5, <1>33, Zenon DEF ClosesIn
    <2> HIDE DEF q, a
    <2>3. Closes(s, a, cb, cl)
      BY <2>1, <2>2, StretchCloses, Zenon
    <2> QED BY <2>3, Zenon DEF a
  <1>35. PICK i \in j + 2..n : s[i] = cl /\ \A m \in j + 2..i : s[m] # cb
    BY <1>34, Zenon DEF Closes
  <1>36. i \in AddressEnds(s, j + 2)
    BY <1>24, <1>35, AddressEndsAre, Zenon DEF cl, cb
  <1> QED BY <1>25, <1>36, Zenon

(* A part of a line in which x and y do not meet.                          *)
LEMMA ApartWindow ==
    ASSUME NEW S, NEW l \in Seq(S), NEW x, NEW y, NEW i \in 1..Len(l) + 1, NEW j \in 0..Len(l),
           \A r \in i..j - 1 : ~(l[r] = x /\ l[r + 1] = y)
    PROVE  Apart(SubSeq(l, i, j), x, y)
  <1>1. /\ Len(SubSeq(l, i, j)) = (IF i <= j THEN (j - i) + 1 ELSE 0)
        /\ \A k \in 1..(j - i) + 1 : SubSeq(l, i, j)[k] = l[(i + k) - 1]
    <2>1. \A k \in i..j : l[k] \in S
      OBVIOUS
    <2> QED BY <2>1, SubSeqProperties
  <1> DEFINE a == SubSeq(l, i, j)
  <1> HIDE DEF a
  <1>2. ASSUME NEW k \in 1..Len(a) - 1, a[k] = x, a[k + 1] = y PROVE FALSE
    <2>1. Len(a) = (IF i <= j THEN (j - i) + 1 ELSE 0)
      BY <1>1 DEF a
    <2>2. /\ k \in 1..(j - i) + 1 /\ k + 1 \in 1..(j - i) + 1 /\ (i + k) - 1 \in i..j - 1
          /\ (i + (k + 1)) - 1 = ((i + k) - 1) + 1
      BY <2>1
    <2>3. a[k] = l[(i + k) - 1] /\ a[k + 1] = l[((i + k) - 1) + 1]
      BY <1>1, <2>2 DEF a
    <2> QED BY <1>2, <2>2, <2>3, Zenon
  <1>3. Apart(a, x, y)
    BY <1>2 DEF Apart
  <1> QED BY <1>3 DEF a

(* No image is in the text of another, nor in its address.                 *)
LEMMA ImageTagApart ==
    ASSUME NEW s \in Seq(Token), NoInside(s), NEW p \in 1..Len(s), ImageEnd(s)[p] # 0
    PROVE  /\ Apart(ImageRep(s)[p], "!", "[")
           /\ TagEnds(ImageRep(s)[p], "<img src='", "'/>")
  <1> DEFINE q == p + 1
             u == UrlStart(s, q)
             e == ImageEnd(s)[p]
             a == SubSeq(s, u, e - 1)
             b == SubSeq(s, p + 2, u - 3)
             x == "!"
             y == "["
             o == "<img src='"
             v == "' alt='"
             w == "'/>"
  <1>1. ImageAt(Token, s, p)
    BY ImageIs, Zenon
  <1>2. /\ u \in Nat /\ e \in q..Len(s) /\ Bracket(s, q, u, e) /\ s[p] = x
        /\ ImageRep(s)[p] = ImageHtml(b, a) /\ b \in Seq(Token) /\ a \in Seq(Token)
    BY <1>1, Zenon DEF ImageAt
  <1>3. q \in 1..Len(s) /\ e \in Nat /\ q + 1 = p + 2 /\ p \in Nat /\ p \in 1..Len(s) - 1
        /\ p \in DOMAIN s /\ (u - 1) - 1 = u - 2 /\ u - 1 = (u - 2) + 1
    <2>1. e \in q..Len(s) /\ u \in Nat
      BY <1>2, Zenon
    <2> HIDE DEF e, u
    <2> QED BY <2>1
  <1>4. /\ u \in 1..Len(s) + 1 /\ e \in 1..Len(s) /\ e - 1 \in 0..Len(s)
        /\ q + 1 \in 1..Len(s) + 1 /\ u - 3 \in 0..Len(s) /\ e \in u..Len(s)
        /\ u - 2 \in q + 1..Len(s) /\ u - 1 \in q + 2..Len(s)
    BY <1>2, <1>3, BracketRange, Zenon
  <1>5. s[q] = y /\ s[u - 2] = "]" /\ s[u - 1] = "(" /\ e \in AddressEnds(s, u)
    BY <1>2, Zenon DEF Bracket
  <1>6. Occurs(s, <<"!", "[">>, p)
    BY <1>2, <1>3, <1>5, OccursHere, Zenon
  <1>7. Occurs(s, <<"]", "(">>, u - 2)
    <2>1. u - 2 \in 1..Len(s) - 1
      <3> HIDE DEF e, u
      <3> QED BY <1>3, <1>4
    <2> QED BY <1>3, <1>5, <2>1, OccursHere, Zenon
  <1> DEFINE next == NextOf(s, {"]"}, u)
  <1>8. e \in u..next - 1
    BY <1>5, Zenon DEF AddressEnds
  <1> HIDE DEF u, e
  <1>8a. next \in u..Len(s) + 1
    <2>1. IsNext(s, {"]"}, u, next)
      BY <1>4, NextOfIs, Zenon
    <2> QED BY <2>1, Zenon DEF IsNext
  <1> HIDE DEF next
  <1>9. ASSUME NEW r \in 1..Len(s) - 1, p < r, s[r] = x, s[r + 1] = y,
               r < u - 2 \/ (r \in u..next - 1 /\ r < e)
        PROVE  FALSE
    <2>1. Occurs(s, <<"!", "[">>, r)
      BY <1>9, OccursHere, Zenon
    <2>2. r \in DOMAIN s
      OBVIOUS
    <2>3. ImageInside(s, p, r)
      BY <1>5, <1>6, <1>7, <1>9, <2>1, Zenon DEF ImageInside, u, next
    <2> QED BY <1>3, <2>2, <2>3, Zenon DEF NoInside
  <1>10. Apart(b, x, y)
    <2>1. \A r \in p + 2..(u - 3) - 1 : r \in 1..Len(s) - 1 /\ p < r /\ r < u - 2
      BY <1>3, <1>4
    <2>2. \A r \in p + 2..(u - 3) - 1 : ~(s[r] = x /\ s[r + 1] = y)
      BY <1>9, <2>1, Zenon
    <2> QED BY <1>3, <1>4, <2>2, ApartWindow, Zenon
  <1>11. Apart(a, x, y)
    <2>1. \A r \in u..(e - 1) - 1 : r \in 1..Len(s) - 1 /\ p < r /\ r \in u..next - 1 /\ r < e
      BY <1>3, <1>4, <1>8, <1>8a
    <2>2. \A r \in u..(e - 1) - 1 : ~(s[r] = x /\ s[r + 1] = y)
      BY <1>9, <2>1, Zenon
    <2> QED BY <1>4, <2>2, ApartWindow, Zenon
  <1>12. o \in Token /\ v \in Token /\ w \in Token
    BY TokensAre, Zenon
  <1>13. o # x /\ v \notin {x, y} /\ w # y
    BY Zenon
  <1> DEFINE m == <<o>> \o a \o <<v>> \o b \o <<w>>
  <1>14. ImageRep(s)[p] = m
    BY <1>2, Zenon DEF ImageHtml
  <1> HIDE DEF a, b, o, v, w, x, y
  <1>15. Apart(m, x, y)
    BY <1>2, <1>10, <1>11, <1>12, <1>13, TagApart, Zenon
  <1>16. TagEnds(m, o, w)
    BY <1>2, <1>12, TagEndsAre, Zenon
  <1> HIDE DEF m
  <1> QED BY <1>14, <1>15, <1>16, Zenon DEF o, w, x, y

(* No link follows an exclamation mark.                                    *)
NoLinkBehind(m) == \A k \in 1..Len(m) - 1 : m[k] = "!" => Bracketed(m, k + 1) = 0

(* None does in the first part of a line, nor where it meets the second.   *)
NoLinkUpto(a, b) ==
    /\ Apart(a, "!", "[")
    /\ Len(a) > 0 /\ a[Len(a)] = "!" /\ Len(b) > 0 => Bracketed(b, 1) = 0

(* Two parts of a line that have no such link.                             *)
LEMMA NoLinkConcat ==
    ASSUME NEW S, NEW a \in Seq(S), NEW b \in Seq(S), NoLinkUpto(a, b), NoLinkBehind(b)
    PROVE  NoLinkBehind(a \o b)
  <1> DEFINE m == a \o b
             n == Len(a)
             x == "!"
  <1>1. /\ m \in Seq(S) /\ Len(m) = n + Len(b) /\ n \in Nat /\ Len(b) \in Nat
        /\ \A i \in 1..n + Len(b) : m[i] = IF i <= n THEN a[i] ELSE b[i - n]
    BY ConcatProperties
  <1>2. /\ \A k \in 1..Len(a) - 1 : ~(a[k] = x /\ a[k + 1] = "[")
        /\ Len(a) > 0 /\ a[Len(a)] = x /\ Len(b) > 0 => Bracketed(b, 1) = 0
        /\ \A k \in 1..Len(b) - 1 : b[k] = x => Bracketed(b, k + 1) = 0
    BY Zenon DEF NoLinkUpto, NoLinkBehind, Apart
  <1> HIDE DEF x
  <1>3. ASSUME NEW k \in 1..Len(m) - 1, m[k] = x, Bracketed(m, k + 1) # 0
        PROVE  FALSE
    <2>1. k + 1 \in 1..Len(m) /\ k \in Nat /\ Len(m) = n + Len(b)
      <3> HIDE DEF m
      <3> QED BY <1>1
    <2>2. Match(S, m, k + 1)
      BY <1>1, <1>3, <2>1, MatchIs, Zenon
    <2>3. m[k + 1] = "["
      BY <2>2, Zenon DEF Match, Bracket
    <2>4. CASE k < n
      <3>1. k \in 1..n + Len(b) /\ k + 1 \in 1..n + Len(b) /\ k <= n /\ k + 1 <= n /\ k \in 1..n - 1
        BY <1>1, <2>1, <2>4
      <3>2. a[k] = x /\ a[k + 1] = "["
        BY <1>1, <1>3, <2>3, <3>1, Zenon
      <3> QED BY <1>2, <3>1, <3>2, Zenon
    <2>5. ASSUME n <= k
          PROVE  k + 1 - n \in 1..Len(b) /\ Bracketed(b, k + 1 - n) # 0
      <3> DEFINE i == k + 1 - n
      <3>1. i \in 1..Len(b) /\ n + i = k + 1
        BY <1>1, <2>1, <2>5
      <3> HIDE DEF i
      <3>2. Bracketed(a \o b, Len(a) + i) # 0
        BY <1>3, <3>1
      <3>3. Bracketed(b, i) # 0
        BY <3>1, <3>2, BracketedBehind, Zenon
      <3> QED BY <3>1, <3>3 DEF i
    <2>6. CASE k = n
      <3>1. k + 1 - n = 1 /\ n \in 1..n + Len(b) /\ n <= n /\ n > 0
        BY <1>1, <2>1, <2>6
      <3>2. a[n] = x
        BY <1>1, <1>3, <2>6, <3>1, Zenon
      <3>3. 1 \in 1..Len(b) /\ Bracketed(b, 1) # 0
        <4>1. n <= k
          BY <1>1, <2>6
        <4> QED BY <2>5, <3>1, <4>1, Zenon
      <3>4. Len(b) > 0
        BY <1>1, <3>3
      <3> QED BY <1>2, <3>1, <3>2, <3>3, <3>4, Zenon
    <2>7. CASE n < k
      <3>1. /\ k - n \in 1..Len(b) - 1 /\ (k - n) + 1 = k + 1 - n /\ k \in 1..n + Len(b) /\ ~(k <= n)
            /\ n <= k
        BY <1>1, <2>1, <2>7
      <3>2. b[k - n] = x
        BY <1>1, <1>3, <3>1, Zenon
      <3> QED BY <1>2, <2>5, <3>1, <3>2, Zenon
    <2>8. k < n \/ k = n \/ n < k
      BY <1>1, <2>1
    <2> QED BY <2>4, <2>6, <2>7, <2>8, Zenon
  <1> HIDE DEF m
  <1>4. NoLinkBehind(m)
    BY <1>3, Zenon DEF NoLinkBehind, x
  <1> QED BY <1>4 DEF m

(* ImageParser leaves no link behind an exclamation mark, if no image is   *)
(* in another.                                                             *)
LEMMA NoLinksMade ==
    ASSUME NEW s \in Seq(Token), NoInside(s)
    PROVE  NoLinkBehind(Images(s))
  <1> DEFINE end == ImageEnd(s)
             rep == ImageRep(s)
             n == Len(s)
  <1>1. PICK R : Rewriting(Token, s, end, rep, R) /\ Images(s) = R[1]
    <2>1. ReplacedBy(Token, s, end, rep, Images(s))
      BY ImagesRewrite, Zenon
    <2> QED BY <2>1, Zenon DEF ReplacedBy
  <1> DEFINE P == {q \in 1..n + 1 : NoLinkBehind(R[q])}
  <1>2. /\ n \in Nat /\ n + 1 \in 1..n + 1 /\ 1 \in 1..n + 1
        /\ \A q \in 1..n : q \in 1..n + 1 /\ q + 1 \in q + 1..n + 1
        /\ \A q \in 1..n : \A r \in q + 1..n + 1 : r \in 1..n + 1
    OBVIOUS
  <1>3. NoLinkBehind(R[n + 1])
    <2>1. R[n + 1] = <<>>
      BY <1>1, NothingBehind, Zenon
    <2>2. \A k : k \notin 1..Len(<<>>) - 1
      OBVIOUS
    <2> QED BY <2>1, <2>2, Zenon DEF NoLinkBehind
  <1>4. ASSUME NEW q \in 1..n, \A r \in q + 1..n + 1 : r \in P
        PROVE  NoLinkBehind(R[q])
    <2>0. \A r \in q + 1..n + 1 : NoLinkBehind(R[r])
      BY <1>4, Zenon
    <2>1. CASE end[q] = 0
      <3> DEFINE a == <<s[q]>>
                 b == R[q + 1]
      <3>1. a \in Seq(Token) /\ b \in Seq(Token) /\ R[q] = a \o b
        <4>1. Copied(Token, s, R, q)
          BY <1>1, <2>1, WhereNone, Zenon
        <4> QED BY <4>1, Zenon DEF Copied
      <3>2. NoLinkBehind(b)
        BY <1>2, <2>0, Zenon
      <3>3. Len(a) = 1 /\ a[1] = s[q] /\ \A k : k \notin 1..1 - 1
        OBVIOUS
      <3> HIDE DEF a
      <3>4. Apart(a, "!", "[")
        BY <3>3, Zenon DEF Apart
      <3>5. a[Len(a)] = "!" /\ Len(b) > 0 => Bracketed(b, 1) = 0
        <4> SUFFICES ASSUME a[Len(a)] = "!", Len(b) > 0 PROVE Bracketed(b, 1) = 0
          BY Zenon
        <4>1. LoneMark(s, q)
          BY <2>1, <3>3, Zenon DEF LoneMark
        <4> QED BY <1>1, <4>1, LoneMarkKept, Zenon
      <3>6. NoLinkUpto(a, b)
        BY <3>4, <3>5, Zenon DEF NoLinkUpto
      <3> HIDE DEF b
      <3> QED BY <3>1, <3>2, <3>6, NoLinkConcat, Zenon
    <2>2. CASE end[q] # 0
      <3> DEFINE a == rep[q]
                 b == R[end[q] + 1]
      <3>1. Put(Token, s, end, rep, R, q)
        BY <1>1, <2>2, WhereOne, Zenon
      <3>2. a \in Seq(Token) /\ b \in Seq(Token) /\ R[q] = a \o b /\ end[q] + 1 \in q + 1..n + 1
        BY <3>1, Zenon DEF Put
      <3>3. NoLinkBehind(b)
        BY <1>2, <2>0, <3>2, Zenon
      <3>4. Apart(a, "!", "[") /\ TagEnds(a, "<img src='", "'/>")
        BY <2>2, ImageTagApart, Zenon
      <3>5. a[Len(a)] # "!"
        <4>1. "'/>" # "!"
          BY Zenon
        <4> QED BY <3>4, <4>1, Zenon DEF TagEnds
      <3> HIDE DEF a, b
      <3>6. NoLinkUpto(a, b)
        BY <3>4, <3>5, Zenon DEF NoLinkUpto
      <3> QED BY <3>2, <3>3, <3>6, NoLinkConcat, Zenon
    <2> QED BY <2>1, <2>2, Zenon
  <1>5. n + 1 \in P
    BY <1>2, <1>3, Zenon
  <1>6. ASSUME NEW q \in 1..n, \A r \in q + 1..n + 1 : r \in P PROVE q \in P
    BY <1>2, <1>4, <1>6, Zenon
  <1> HIDE DEF P
  <1>7. \A q \in 1..n + 1 : q \in P
    <2> HIDE DEF n
    <2> QED BY <1>2, <1>5, <1>6, DownInduction, Zenon
  <1>8. 1 \in P
    BY <1>2, <1>7, Zenon
  <1> QED BY <1>1, <1>8, Zenon DEF P

(* The parsers of emphasis keep two tokens apart that are none of theirs,  *)
(* ...                                                                     *)
LEMMA MarkedApart ==
    ASSUME NEW l \in Seq(Token), NEW mark \in Seq(Mark), Len(mark) > 0,
           NEW open \in Token, NEW close \in Token, NEW x, NEW y, Apart(l, x, y),
           open \notin {x, y}, close \notin {x, y}
    PROVE  Apart(Marked(l, mark, open, close), x, y)
  <1>1. mark \in Seq(Token)
    BY MarksAreTokens, Zenon
  <1>2. SpanEnds(l, MarkEnd(l, mark), mark)
    BY <1>1, MarkEndsAre, Zenon
  <1>3. Apart(Spans(l, MarkEnd(l, mark), mark, open, close), x, y)
    BY <1>1, <1>2, SpansApart, Zenon
  <1> QED BY <1>3, Zenon DEF Marked, MarkEnd

(* and so does the parser of code.                                         *)
LEMMA CodedApart ==
    ASSUME NEW l \in Seq(Token), NEW x, NEW y, Apart(l, x, y),
           "<code>" \notin {x, y}, "</code>" \notin {x, y}
    PROVE  Apart(Coded(l), x, y)
  <1>1. "tick" \in Token /\ "<code>" \in Token /\ "</code>" \in Token
    BY DEF Token, Tag, Character, Mark
  <1>2. SpanEnds(l, CodeEnd(l), <<"tick">>)
    BY <1>1, CodeEndsAre, Zenon
  <1>3. <<"tick">> \in Seq(Token) /\ Len(<<"tick">>) > 0
    BY <1>1, OneElement
  <1>4. Apart(Spans(l, CodeEnd(l), <<"tick">>, "<code>", "</code>"), x, y)
    BY <1>1, <1>2, <1>3, SpansApart, Zenon
  <1> QED BY <1>4, Zenon DEF Coded, CodeEnd

(* No parser brings an exclamation mark and the tag of a link together.    *)
LEMMA MarkAndLinkApart ==
    ASSUME NEW s \in Seq(Character), NoInside(s)
    PROVE  Apart(AfterItalic(s), "!", "<a href='")
  <1> DEFINE x == "!"
             y == "<a href='"
             T == {"<a href='"}
  <1>1. /\ s \in Seq(Token) /\ AfterImages(s) \in Seq(Token) /\ AfterLinks(s) \in Seq(Token)
        /\ AfterStars(s) \in Seq(Token) /\ AfterStrong(s) \in Seq(Token)
        /\ AfterEmphasized(s) \in Seq(Token) /\ AfterStrikeThrough(s) \in Seq(Token)
        /\ AfterCode(s) \in Seq(Token)
    BY SourceAccounted, StagesAccounted, Zenon DEF Accounted
  <1>2. NoLinkBehind(AfterImages(s))
    BY <1>1, NoLinksMade, Zenon DEF AfterImages
  <1>3. Count(AfterImages(s), T) = 0
    <2>1. T \in SUBSET Token /\ T \cap ImagePart = {} /\ T \cap Character = {}
      BY TextAssumption, Zenon DEF Token, Tag, ImagePart, Character, Mark
    <2>2. Count(s, T) = 0
      BY <2>1, CountNone, Zenon
    <2>3. Count(Images(s), T) = Count(s, T)
      BY <1>1, <2>1, ImagesLeft, Zenon
    <2> QED BY <2>2, <2>3, Zenon DEF AfterImages
  <1>4. Apart(AfterLinks(s), x, y)
    BY <1>1, <1>2, <1>3, LinksApart, Zenon DEF AfterLinks, NoLinkBehind
  <1>5. \A t \in Emphasis : t \in Token /\ t \notin {x, y}
    BY Zenon DEF Emphasis, Token, Tag
  <1>6. /\ "<strong>" \in Emphasis /\ "</strong>" \in Emphasis /\ "<em>" \in Emphasis
        /\ "</em>" \in Emphasis /\ "<s>" \in Emphasis /\ "</s>" \in Emphasis
        /\ "<i>" \in Emphasis /\ "</i>" \in Emphasis
        /\ "<code>" \notin {x, y} /\ "</code>" \notin {x, y}
    BY Zenon DEF Emphasis
  <1> HIDE DEF x, y, T
  <1>7. ASSUME NEW l \in Seq(Token), Apart(l, x, y), NEW mark \in Seq(Mark), Len(mark) > 0,
               NEW open \in Emphasis, NEW close \in Emphasis
        PROVE  Apart(Marked(l, mark, open, close), x, y)
    BY <1>5, <1>7, MarkedApart, Zenon
  <1>8. 2 > 0 /\ 1 > 0
    OBVIOUS
  <1>9. Apart(AfterStars(s), x, y)
    BY <1>1, <1>4, <1>6, <1>7, <1>8, MarksAre, Zenon DEF AfterStars
  <1>10. Apart(AfterStrong(s), x, y)
    BY <1>1, <1>6, <1>7, <1>8, <1>9, MarksAre, Zenon DEF AfterStrong
  <1>11. Apart(AfterEmphasized(s), x, y)
    BY <1>1, <1>6, <1>7, <1>8, <1>10, MarksAre, Zenon DEF AfterEmphasized
  <1>12. Apart(AfterStrikeThrough(s), x, y)
    BY <1>1, <1>6, <1>7, <1>8, <1>11, MarksAre, Zenon DEF AfterStrikeThrough
  <1>13. Apart(AfterCode(s), x, y)
    BY <1>1, <1>6, <1>12, CodedApart, Zenon DEF AfterCode
  <1>14. Apart(AfterItalic(s), x, y)
    BY <1>1, <1>6, <1>7, <1>8, <1>13, MarksAre, Zenon DEF AfterItalic
  <1> QED BY <1>14 DEF x, y

-----------------------------------------------------------------------------
(* What a rewriting of spans makes of l from q on, traced back: St are the *)
(* places where the matches begin, and g says for each token of m where in *)
(* l it is from: a token that was copied, or the tag for a mark.           *)
Covered(end, St, x) == \E p \in St : x \in p..end[p]
Origin(l, end, mark, open, close, e, x, St) ==
    \/ /\ e = l[x]
       /\ IF Covered(end, St, x) THEN l[x] # mark[1] ELSE end[x] = 0
    \/ e = open /\ x \in St
    \/ e = close /\ \E p \in St : x = end[p]
Rising(m, g) == \A i, j \in 1..Len(m) : i < j => g[i] < g[j]
NextTo(mark, open, close, m, g) ==
    \A k \in 1..Len(m) - 1 :
        g[k + 1] = g[k] + 1 \/ (Len(mark) # 1 /\ (m[k] = open \/ m[k + 1] = close))
NothingLost(l, end, mark, q, m, g, St) ==
    \A x \in q..Len(l) :
        \/ \E k \in 1..Len(m) : g[k] = x
        \/ Len(mark) # 1 /\ l[x] = mark[1] /\ Covered(end, St, x)
Traced(l, end, mark, open, close, q, m, g, St) ==
    /\ \A p \in St : p \in q..Len(l) /\ end[p] # 0
    /\ \A k \in 1..Len(m) : g[k] \in q..Len(l)
    /\ Len(m) > 0 => g[1] = q
    /\ Rising(m, g)
    /\ NextTo(mark, open, close, m, g)
    /\ NothingLost(l, end, mark, q, m, g, St)
    /\ \A k \in 1..Len(m) : Origin(l, end, mark, open, close, m[k], g[k], St)

(* Behind the line nothing is left to trace.                               *)
LEMMA TraceNothing ==
    ASSUME NEW S, NEW l \in Seq(S), NEW end, NEW mark, NEW open, NEW close
    PROVE  Traced(l, end, mark, open, close, Len(l) + 1, <<>>, <<>>, {})
  <1>1. Len(<<>>) = 0 /\ Len(l) \in Nat /\ 1..0 = {} /\ (Len(l) + 1)..Len(l) = {} /\ 1..0 - 1 = {}
    OBVIOUS
  <1> QED BY <1>1 DEF Traced, Rising, NextTo, NothingLost

(* Where nothing matches, one token more is traced to itself.              *)
LEMMA TraceCopied ==
    ASSUME NEW S, NEW l \in Seq(S), NEW end, NEW mark, NEW open, NEW close, NEW q \in 1..Len(l),
           end[q] = 0, NEW b \in Seq(S), NEW h, NEW St,
           Traced(l, end, mark, open, close, q + 1, b, h, St)
    PROVE  \E g : Traced(l, end, mark, open, close, q, <<l[q]>> \o b, g, St)
  <1> DEFINE a == <<l[q]>>
             m == a \o b
             g == [k \in 1..Len(b) + 1 |-> IF k = 1 THEN q ELSE h[k - 1]]
  <1>1. /\ Len(m) = Len(b) + 1 /\ m[1] = l[q] /\ Len(b) \in Nat /\ Len(l) \in Nat
        /\ \A k \in 2..Len(b) + 1 : m[k] = b[k - 1]
    <2>1. a \in Seq(S) /\ Len(a) = 1 /\ a[1] = l[q] /\ Len(b) \in Nat
      OBVIOUS
    <2> HIDE DEF a
    <2>2. Len(m) = Len(a) + Len(b) /\ \A i \in 1..Len(a) + Len(b) : m[i] = IF i <= Len(a) THEN a[i] ELSE b[i - Len(a)]
      BY <2>1, ConcatProperties
    <2> QED BY <2>1, <2>2
  <1>2. /\ g[1] = q /\ \A k \in 2..Len(b) + 1 : g[k] = h[k - 1]
    BY <1>1
  <1> HIDE DEF m, g
  <1>3. /\ \A p \in St : p \in q + 1..Len(l) /\ end[p] # 0
        /\ \A k \in 1..Len(b) : h[k] \in q + 1..Len(l)
        /\ Len(b) > 0 => h[1] = q + 1
    BY DEF Traced
  <1>4. \A k \in 2..Len(b) + 1 : k - 1 \in 1..Len(b) /\ g[k] \in q + 1..Len(l)
    BY <1>1, <1>2, <1>3
  <1>5. ~Covered(end, St, q)
    BY <1>3 DEF Covered
  <1>6. Rising(m, g)
    <2>1. SUFFICES ASSUME NEW i \in 1..Len(m), NEW j \in 1..Len(m), i < j PROVE g[i] < g[j]
      BY DEF Rising
    <2>2. j \in 2..Len(b) + 1 /\ g[j] = h[j - 1] /\ g[j] \in q + 1..Len(l)
      BY <1>1, <1>2, <1>4, <2>1
    <2>3. CASE i = 1
      BY <1>2, <2>2, <2>3
    <2>4. CASE i # 1
      <3>1. i \in 2..Len(b) + 1 /\ i - 1 \in 1..Len(b) /\ j - 1 \in 1..Len(b) /\ i - 1 < j - 1
        BY <1>1, <2>1, <2>4
      <3>2. h[i - 1] < h[j - 1]
        BY <3>1 DEF Traced, Rising
      <3> QED BY <1>2, <2>2, <3>1, <3>2
    <2> QED BY <2>3, <2>4
  <1>7. NextTo(mark, open, close, m, g)
    <2>1. SUFFICES ASSUME NEW k \in 1..Len(m) - 1
                   PROVE  g[k + 1] = g[k] + 1 \/ (Len(mark) # 1 /\ (m[k] = open \/ m[k + 1] = close))
      BY DEF NextTo
    <2>2. k + 1 \in 2..Len(b) + 1 /\ g[k + 1] = h[k] /\ m[k + 1] = b[k]
      <3>1. k + 1 \in 2..Len(b) + 1 /\ (k + 1) - 1 = k
        BY <1>1, <2>1
      <3> QED BY <1>1, <1>2, <3>1
    <2>3. CASE k = 1
      BY <1>1, <1>2, <1>3, <2>1, <2>2, <2>3
    <2>4. CASE k # 1
      <3>1. k \in 2..Len(b) + 1 /\ k - 1 \in 1..Len(b) - 1 /\ (k - 1) + 1 = k
        BY <1>1, <2>1, <2>4
      <3>2. h[k] = h[k - 1] + 1 \/ (Len(mark) # 1 /\ (b[k - 1] = open \/ b[k] = close))
        BY <3>1 DEF Traced, NextTo
      <3> QED BY <1>1, <1>2, <2>2, <3>1, <3>2
    <2> QED BY <2>3, <2>4
  <1>8. NothingLost(l, end, mark, q, m, g, St)
    <2>1. SUFFICES ASSUME NEW x \in q..Len(l)
                   PROVE  \/ \E k \in 1..Len(m) : g[k] = x
                          \/ Len(mark) # 1 /\ l[x] = mark[1] /\ Covered(end, St, x)
      BY DEF NothingLost
    <2>2. CASE x = q
      BY <1>1, <1>2, <2>2
    <2>3. CASE x # q
      <3>1. x \in q + 1..Len(l)
        BY <2>1, <2>3
      <3>2. CASE \E k \in 1..Len(b) : h[k] = x
        <4>1. PICK k \in 1..Len(b) : h[k] = x
          BY <3>2
        <4>2. k + 1 \in 2..Len(b) + 1 /\ (k + 1) - 1 = k /\ k + 1 \in 1..Len(m)
          BY <1>1
        <4> QED BY <1>2, <4>1, <4>2
      <3> QED BY <3>1, <3>2 DEF Traced, NothingLost
    <2> QED BY <2>2, <2>3
  <1>9. ASSUME NEW k \in 1..Len(m)
        PROVE  Origin(l, end, mark, open, close, m[k], g[k], St)
    <2>1. CASE k = 1
      BY <1>1, <1>2, <1>5, <2>1 DEF Origin
    <2>2. CASE k # 1
      <3>1. k \in 2..Len(b) + 1 /\ k - 1 \in 1..Len(b)
        BY <1>1, <2>2
      <3>2. Origin(l, end, mark, open, close, b[k - 1], h[k - 1], St)
        BY <3>1, Zenon DEF Traced
      <3>3. m[k] = b[k - 1] /\ g[k] = h[k - 1]
        BY <1>1, <1>2, <3>1
      <3> QED BY <3>2, <3>3
    <2> QED BY <2>1, <2>2
  <1>10. \A k \in 1..Len(m) : g[k] \in q..Len(l)
    <2>1. SUFFICES ASSUME NEW k \in 1..Len(m) PROVE g[k] \in q..Len(l)
      OBVIOUS
    <2>2. k = 1 \/ k \in 2..Len(b) + 1
      BY <1>1
    <2> QED BY <1>1, <1>2, <1>4, <2>2
  <1>11. \A p \in St : p \in q..Len(l) /\ end[p] # 0
    BY <1>3
  <1>12. Traced(l, end, mark, open, close, q, m, g, St)
    BY <1>2, <1>6, <1>7, <1>8, <1>9, <1>10, <1>11 DEF Traced
  <1> QED BY <1>12 DEF m

(* A mark is one character, once or more.                                  *)
OneCharacter(mark) == Len(mark) > 0 /\ \A i \in 1..Len(mark) : mark[i] = mark[1]

(* The characters of a match: marks, then none, then marks.                *)
LEMMA SpanMarked ==
    ASSUME NEW S, NEW l \in Seq(S), NEW mark \in Seq(S), OneCharacter(mark), NEW q \in 1..Len(l),
           NEW e, Span(l, q, e, mark)
    PROVE  /\ \A x \in q..q + Len(mark) - 1 : l[x] = mark[1]
           /\ \A x \in e - Len(mark) + 1..e : l[x] = mark[1]
  <1> DEFINE n == Len(mark)
  <1>1. n \in Nat /\ n > 0 /\ Len(l) \in Nat /\ \A i \in 1..n : mark[i] = mark[1]
    BY DEF OneCharacter
  <1>2. e \in q + 2 * n - 1..Len(l) /\ SubSeq(l, q, q + n - 1) = mark /\ SubSeq(l, e - n + 1, e) = mark
    BY DEF Span
  <1> HIDE DEF n
  <1>3. ASSUME NEW a \in 1..Len(l), NEW c \in 1..Len(l), c = a + n - 1, SubSeq(l, a, c) = mark
        PROVE  \A x \in a..c : l[x] = mark[1]
    <2>1. SUFFICES ASSUME NEW x \in a..c PROVE l[x] = mark[1]
      OBVIOUS
    <2>2. \A i \in 1..(c - a) + 1 : SubSeq(l, a, c)[i] = l[(a + i) - 1]
      <3>1. \A i \in a..c : l[i] \in S
        OBVIOUS
      <3> QED BY <3>1, SubSeqProperties
    <2>3. (x - a) + 1 \in 1..n /\ (x - a) + 1 \in 1..(c - a) + 1 /\ (a + ((x - a) + 1)) - 1 = x
      BY <1>1, <1>3, <2>1
    <2> QED BY <1>1, <1>3, <2>2, <2>3
  <1>4. /\ q + n - 1 \in 1..Len(l) /\ e - n + 1 \in 1..Len(l) /\ e \in 1..Len(l)
        /\ e = (e - n + 1) + n - 1
    BY <1>1, <1>2
  <1>5. \A x \in q..q + n - 1 : l[x] = mark[1]
    BY <1>2, <1>3, <1>4
  <1>6. \A x \in e - n + 1..e : l[x] = mark[1]
    <2> DEFINE c == e - n + 1
    <2>1. c \in 1..Len(l) /\ e \in 1..Len(l) /\ e = c + n - 1 /\ SubSeq(l, c, e) = mark
      BY <1>2, <1>4
    <2> HIDE DEF c
    <2>2. \A x \in c..e : l[x] = mark[1]
      BY <1>3, <2>1
    <2> QED BY <2>2 DEF c
  <1> QED BY <1>5, <1>6 DEF n

(* Where a match begins and where it ends is the mark.                     *)
LEMMA SpanTouches ==
    ASSUME NEW S, NEW l \in Seq(S), NEW mark \in Seq(S), OneCharacter(mark), NEW end,
           SpanEnds(l, end, mark), NEW p \in 1..Len(l), end[p] # 0
    PROVE  /\ l[p] = mark[1] /\ l[end[p]] = mark[1] /\ end[p] \in p..Len(l)
           /\ p \in p..end[p] /\ end[p] \in p..end[p]
           /\ Len(mark) = 2 => p + 1 \in 1..Len(l) /\ l[p + 1] = mark[1]
  <1> DEFINE e == end[p]
  <1>1. Span(l, p, e, mark)
    BY Zenon DEF SpanEnds
  <1> HIDE DEF e
  <1>2. /\ \A x \in p..p + Len(mark) - 1 : l[x] = mark[1]
        /\ \A x \in e - Len(mark) + 1..e : l[x] = mark[1]
    BY <1>1, SpanMarked
  <1>3. Len(mark) \in Nat /\ Len(mark) > 0 /\ Len(l) \in Nat /\ e \in p + 2 * Len(mark) - 1..Len(l)
    BY <1>1 DEF Span, OneCharacter
  <1>4. p \in p..p + Len(mark) - 1 /\ e \in e - Len(mark) + 1..e /\ e \in p..Len(l) /\ p \in p..e /\ e \in p..e
    BY <1>3
  <1>5. Len(mark) = 2 => p + 1 \in 1..Len(l) /\ p + 1 \in p..p + Len(mark) - 1
    BY <1>3
  <1> QED BY <1>2, <1>4, <1>5 DEF e

(* A match is traced to its marks and to what is between them.             *)
LEMMA TracePut ==
    ASSUME NEW S, NEW l \in Seq(S), NEW end, NEW mark \in Seq(S), OneCharacter(mark),
           NEW open \in S, NEW close \in S, NEW q \in 1..Len(l), end[q] # 0,
           Span(l, q, end[q], mark), NEW b \in Seq(S), NEW h, NEW Sb,
           Traced(l, end, mark, open, close, end[q] + 1, b, h, Sb)
    PROVE  \E g, St : Traced(l, end, mark, open, close, q,
                             (<<open>> \o Inner(l, q, end[q], mark) \o <<close>>) \o b, g, St)
  <1> DEFINE n == Len(mark)
             e == end[q]
             a == Inner(l, q, e, mark)
             t == Len(a)
             d == <<open>> \o a \o <<close>>
             m == d \o b
             St == Sb \cup {q}
             g == [k \in 1..Len(m) |-> IF k = 1 THEN q
                                       ELSE IF k <= t + 1 THEN (q + n + k) - 2
                                       ELSE IF k = t + 2 THEN e
                                       ELSE h[k - (t + 2)]]
  <1>1. /\ n \in Nat /\ n > 0 /\ Len(l) \in Nat /\ e \in q + 2 * n - 1..Len(l)
        /\ \A k \in q + n..e - n : l[k] # mark[1]
    BY DEF Span, OneCharacter
  <1>2. /\ \A x \in q..q + n - 1 : l[x] = mark[1]
        /\ \A x \in e - n + 1..e : l[x] = mark[1]
    BY SpanMarked
  <1>3. a \in Seq(S) /\ t = (e - q) - 2 * n + 1 /\ t \in Nat /\ \A i \in 1..t : a[i] = l[(q + n + i) - 1]
    <2>1. a \in Seq(S)
      BY SpanIs, Zenon DEF SpanParts, OneCharacter
    <2>2. \A i \in q + n..e - n : l[i] \in S
      BY <1>1
    <2> DEFINE u == q + n
               v == e - n
    <2>3. u \in Int /\ v \in Int /\ v - u + 1 >= 0 /\ v - u + 1 = (e - q) - 2 * n + 1
      BY <1>1
    <2>4. a = SubSeq(l, u, v)
      BY DEF Inner
    <2> HIDE DEF a, u, v
    <2>5. /\ Len(SubSeq(l, u, v)) = (IF u <= v THEN (v - u) + 1 ELSE 0)
          /\ \A i \in 1..(v - u) + 1 : SubSeq(l, u, v)[i] = l[(u + i) - 1]
      <3>1. \A i \in u..v : l[i] \in S
        BY <2>2 DEF u, v
      <3> QED BY <2>3, <3>1, SubSeqProperties
    <2>6. Len(a) = v - u + 1
      BY <2>3, <2>4, <2>5
    <2> QED BY <2>1, <2>3, <2>4, <2>5, <2>6 DEF u
  <1> HIDE DEF n, e, a, t
  <1>4. d \in Seq(S) /\ Len(d) = t + 2 /\ d[1] = open /\ d[t + 2] = close /\ \A i \in 1..t : d[i + 1] = a[i]
    <2>1. Encloses(open, a, close)
      BY <1>3, Enclosed, Zenon
    <2>2. d \in Seq(S)
      <3>1. <<open>> \in Seq(S) /\ <<close>> \in Seq(S)
        OBVIOUS
      <3> QED BY <1>3, <3>1, ConcatProperties
    <2> QED BY <2>1, <2>2, Zenon DEF Encloses, t
  <1> HIDE DEF d
  <1>5. /\ Len(m) = t + 2 + Len(b) /\ Len(b) \in Nat /\ m[1] = open /\ m[t + 2] = close
        /\ \A k \in 2..t + 1 : m[k] = l[(q + n + k) - 2]
        /\ \A k \in t + 3..t + 2 + Len(b) : m[k] = b[k - (t + 2)]
    <2>1. Len(m) = Len(d) + Len(b) /\ \A i \in 1..Len(d) + Len(b) : m[i] = IF i <= Len(d) THEN d[i] ELSE b[i - Len(d)]
      BY <1>4, ConcatProperties
    <2>2. Len(b) \in Nat
      OBVIOUS
    <2> HIDE DEF m
    <2>3. ASSUME NEW k \in 2..t + 1
          PROVE  m[k] = l[(q + n + k) - 2]
      <3>1. t \in Nat /\ k \in 1..Len(d) + Len(b) /\ k <= Len(d)
        BY <1>3, <1>4, <2>2
      <3>2. m[k] = d[k]
        BY <2>1, <3>1
      <3>3. k - 1 \in 1..t /\ (k - 1) + 1 = k /\ (q + n + (k - 1)) - 1 = (q + n + k) - 2
        BY <1>1, <3>1
      <3>4. d[(k - 1) + 1] = a[k - 1] /\ a[k - 1] = l[(q + n + (k - 1)) - 1]
        BY <1>3, <1>4, <3>3
      <3> QED BY <3>2, <3>3, <3>4
    <2> QED BY <1>3, <1>4, <2>1, <2>2, <2>3
  <1>6. /\ g[1] = q /\ g[t + 2] = e
        /\ \A k \in 2..t + 1 : g[k] = (q + n + k) - 2
        /\ \A k \in t + 3..t + 2 + Len(b) : g[k] = h[k - (t + 2)]
    <2> HIDE DEF m, e
    <2>1. t \in Nat /\ Len(b) \in Nat /\ Len(m) = t + 2 + Len(b)
      BY <1>3, <1>5
    <2>2. 1 \in 1..Len(m) /\ t + 2 \in 1..Len(m) /\ t + 2 # 1 /\ ~(t + 2 <= t + 1)
      BY <2>1
    <2>3. g[1] = q
      BY <2>2
    <2>4. g[t + 2] = e
      BY <2>2
    <2>5. ASSUME NEW k \in 2..t + 1
          PROVE  g[k] = (q + n + k) - 2
      <3>1. k \in 1..Len(m) /\ k # 1 /\ k <= t + 1
        BY <2>1
      <3> QED BY <3>1
    <2>6. ASSUME NEW k \in t + 3..t + 2 + Len(b)
          PROVE  g[k] = h[k - (t + 2)]
      <3>1. k \in 1..Len(m) /\ k # 1 /\ ~(k <= t + 1) /\ k # t + 2
        BY <2>1
      <3> QED BY <3>1
    <2> QED BY <2>3, <2>4, <2>5, <2>6
  <1> HIDE DEF m, g
  <1>7. /\ \A p \in Sb : p \in e + 1..Len(l) /\ end[p] # 0
        /\ \A k \in 1..Len(b) : h[k] \in e + 1..Len(l)
        /\ Len(b) > 0 => h[1] = e + 1
        /\ Rising(b, h) /\ NextTo(mark, open, close, b, h)
        /\ NothingLost(l, end, mark, e + 1, b, h, Sb)
        /\ \A k \in 1..Len(b) : Origin(l, end, mark, open, close, b[k], h[k], Sb)
    BY Zenon DEF Traced, e
  <1>8. \A k \in 1..Len(m) : k = 1 \/ k \in 2..t + 1 \/ k = t + 2 \/ k \in t + 3..t + 2 + Len(b)
    BY <1>3, <1>5
  <1>9. ASSUME NEW k \in t + 3..t + 2 + Len(b)
        PROVE  k - (t + 2) \in 1..Len(b) /\ g[k] \in e + 1..Len(l)
    <2>1. k - (t + 2) \in 1..Len(b)
      <3>1. t \in Nat /\ Len(b) \in Nat
        BY <1>3, <1>5
      <3> QED BY <3>1
    <2>2. g[k] = h[k - (t + 2)] /\ h[k - (t + 2)] \in e + 1..Len(l)
      BY <1>6, <1>7, <2>1, Zenon
    <2> QED BY <2>1, <2>2
  <1>10. ASSUME NEW k \in 2..t + 1
         PROVE  (q + n + k) - 2 \in q + n..e - n
    <2>1. t = (e - q) - 2 * n + 1 /\ t \in Nat /\ n \in Nat /\ e \in q..Len(l)
      BY <1>1, <1>3
    <2> QED BY <2>1
  <1>11. e = end[q] /\ q \in St
    BY DEF e
  <1>12. \A x \in q..e : Covered(end, St, x)
    BY <1>11, Zenon DEF Covered
  <1>13. \A x \in e + 1..Len(l) : Covered(end, St, x) <=> Covered(end, Sb, x)
    <2>1. SUFFICES ASSUME NEW x \in e + 1..Len(l) PROVE Covered(end, St, x) <=> Covered(end, Sb, x)
      OBVIOUS
    <2>2. x \notin q..end[q]
      BY <1>1, <1>11
    <2> QED BY <2>2, Zenon DEF Covered
  <1>14. Rising(m, g)
    <2>1. SUFFICES ASSUME NEW i \in 1..Len(m), NEW j \in 1..Len(m), i < j PROVE g[i] < g[j]
      BY DEF Rising
    <2>2. ASSUME i \in t + 3..t + 2 + Len(b)
          PROVE  g[i] < g[j]
      <3>1. /\ j \in t + 3..t + 2 + Len(b) /\ i - (t + 2) \in 1..Len(b) /\ j - (t + 2) \in 1..Len(b)
            /\ i - (t + 2) < j - (t + 2)
        BY <1>3, <1>5, <1>9, <2>1, <2>2
      <3>2. h[i - (t + 2)] < h[j - (t + 2)]
        BY <1>7, <3>1 DEF Rising
      <3> QED BY <1>6, <2>2, <3>1, <3>2
    <2>3. CASE i = 1 \/ i \in 2..t + 1 \/ i = t + 2
      <3>1. \/ i = 1 /\ g[i] = q
            \/ i \in 2..t + 1 /\ g[i] = (q + n + i) - 2 /\ g[i] \in q + n..e - n
            \/ i = t + 2 /\ g[i] = e
        BY <1>6, <1>10, <2>3
      <3>2. \/ j \in 2..t + 1 /\ g[j] = (q + n + j) - 2 /\ g[j] \in q + n..e - n
            \/ j = t + 2 /\ g[j] = e
            \/ j \in t + 3..t + 2 + Len(b) /\ g[j] \in e + 1..Len(l)
        <4>1. j # 1
          BY <2>1
        <4> QED BY <1>6, <1>8, <1>9, <1>10, <2>1, <4>1
      <3> QED BY <1>1, <1>3, <2>1, <3>1, <3>2
    <2> QED BY <1>8, <2>1, <2>2, <2>3
  <1>15. NextTo(mark, open, close, m, g)
    <2>1. SUFFICES ASSUME NEW k \in 1..Len(m) - 1
                   PROVE  g[k + 1] = g[k] + 1 \/ (n # 1 /\ (m[k] = open \/ m[k + 1] = close))
      BY DEF NextTo, n
    <2>0. t \in Nat /\ Len(b) \in Nat /\ Len(m) = t + 2 + Len(b)
      BY <1>3, <1>5
    <2>2. CASE k = 1 /\ t = 0
      BY <1>1, <1>3, <1>5, <1>6, <2>2
    <2>3. CASE k = 1 /\ t # 0
      <3>1. 2 \in 2..t + 1
        BY <1>3, <2>3
      <3> QED BY <1>1, <1>3, <1>5, <1>6, <2>3, <3>1
    <2>4. CASE k \in 2..t
      <3>1. k \in 2..t + 1 /\ k + 1 \in 2..t + 1
        BY <1>3, <2>4
      <3> QED BY <1>1, <1>6, <3>1
    <2>5. CASE k = t + 1 /\ t # 0
      <3>1. k \in 2..t + 1 /\ k + 1 = t + 2
        BY <1>3, <2>5
      <3> QED BY <1>1, <1>3, <1>5, <1>6, <2>5, <3>1
    <2>6. CASE k = t + 2
      <3>1. k + 1 \in t + 3..t + 2 + Len(b) /\ (k + 1) - (t + 2) = 1 /\ Len(b) > 0
        BY <1>3, <1>5, <2>1, <2>6
      <3> QED BY <1>6, <1>7, <2>6, <3>1
    <2>7. CASE k \in t + 3..t + 2 + Len(b)
      <3>1. /\ k + 1 \in t + 3..t + 2 + Len(b) /\ k - (t + 2) \in 1..Len(b) - 1
            /\ (k + 1) - (t + 2) = (k - (t + 2)) + 1
        BY <2>0, <2>7
      <3> DEFINE i == k - (t + 2)
      <3>2. g[k] = h[i] /\ g[k + 1] = h[i + 1] /\ m[k] = b[i] /\ m[k + 1] = b[i + 1]
        BY <1>5, <1>6, <2>7, <3>1
      <3>3. h[i + 1] = h[i] + 1 \/ (n # 1 /\ (b[i] = open \/ b[i + 1] = close))
        BY <1>7, <3>1 DEF NextTo, n
      <3> QED BY <3>2, <3>3
    <2>8. k = 1 \/ k \in 2..t \/ k = t + 1 \/ k = t + 2 \/ k \in t + 3..t + 2 + Len(b)
      BY <2>0
    <2> QED BY <2>2, <2>3, <2>4, <2>5, <2>6, <2>7, <2>8
  <1>16. NothingLost(l, end, mark, q, m, g, St)
    <2>1. SUFFICES ASSUME NEW x \in q..Len(l)
                   PROVE  \/ \E k \in 1..Len(m) : g[k] = x
                          \/ n # 1 /\ l[x] = mark[1] /\ Covered(end, St, x)
      BY DEF NothingLost, n
    <2>2. CASE x \in q..e
      <3>1. CASE x = q \/ x = e
        <4>1. 1 \in 1..Len(m) /\ t + 2 \in 1..Len(m)
          BY <1>3, <1>5
        <4> QED BY <1>6, <3>1, <4>1
      <3>2. CASE x \in q + n..e - n
        <4>1. (x - (q + n)) + 2 \in 2..t + 1 /\ (x - (q + n)) + 2 \in 1..Len(m)
              /\ (q + n + ((x - (q + n)) + 2)) - 2 = x
          BY <1>1, <1>3, <1>5, <3>2
        <4> QED BY <1>6, <4>1
      <3>3. CASE x # q /\ x # e /\ x \notin q + n..e - n
        <4>1. n # 1 /\ (x \in q..q + n - 1 \/ x \in e - n + 1..e)
          BY <1>1, <2>2, <3>3
        <4> QED BY <1>2, <1>12, <2>2, <4>1
      <3> QED BY <3>1, <3>2, <3>3
    <2>3. CASE x \notin q..e
      <3>1. x \in e + 1..Len(l)
        BY <1>1, <2>1, <2>3
      <3>2. CASE \E k \in 1..Len(b) : h[k] = x
        <4>1. PICK k \in 1..Len(b) : h[k] = x
          BY <3>2
        <4>2. k + (t + 2) \in t + 3..t + 2 + Len(b) /\ (k + (t + 2)) - (t + 2) = k /\ k + (t + 2) \in 1..Len(m)
          BY <1>3, <1>5
        <4> QED BY <1>6, <4>1, <4>2
      <3>3. CASE n # 1 /\ l[x] = mark[1] /\ Covered(end, Sb, x)
        BY <1>13, <3>1, <3>3, Zenon
      <3> QED BY <1>7, <3>1, <3>2, <3>3 DEF NothingLost, n
    <2> QED BY <2>2, <2>3
  <1>17. ASSUME NEW k \in 1..Len(m)
         PROVE  Origin(l, end, mark, open, close, m[k], g[k], St)
    <2>1. CASE k = 1
      BY <1>5, <1>6, <1>11, <2>1, Zenon DEF Origin
    <2>2. CASE k = t + 2
      BY <1>5, <1>6, <1>11, <2>2, Zenon DEF Origin
    <2>3. CASE k \in 2..t + 1
      <3> DEFINE x == (q + n + k) - 2
      <3>1. m[k] = l[x] /\ g[k] = x /\ x \in q + n..e - n
        BY <1>5, <1>6, <1>10, <2>3
      <3>2. l[x] # mark[1] /\ x \in q..e
        BY <1>1, <3>1
      <3> HIDE DEF x
      <3> QED BY <1>12, <3>1, <3>2, Zenon DEF Origin
    <2>4. CASE k \in t + 3..t + 2 + Len(b)
      <3> DEFINE i == k - (t + 2)
      <3>1. i \in 1..Len(b) /\ m[k] = b[i] /\ g[k] = h[i]
        BY <1>5, <1>6, <1>9, <2>4
      <3> HIDE DEF i
      <3>2. Origin(l, end, mark, open, close, b[i], h[i], Sb) /\ h[i] \in e + 1..Len(l)
        BY <1>7, <3>1
      <3>3. Covered(end, St, h[i]) <=> Covered(end, Sb, h[i])
        BY <1>13, <3>2, Zenon
      <3>4. \A p \in Sb : p \in St
        OBVIOUS
      <3> HIDE DEF St
      <3>5. Origin(l, end, mark, open, close, b[i], h[i], St)
        BY <3>2, <3>3, <3>4, Zenon DEF Origin
      <3> QED BY <3>1, <3>5, Zenon
    <2> QED BY <1>8, <2>1, <2>2, <2>3, <2>4
  <1>18. \A k \in 1..Len(m) : g[k] \in q..Len(l)
    <2>1. SUFFICES ASSUME NEW k \in 1..Len(m) PROVE g[k] \in q..Len(l)
      OBVIOUS
    <2>2. CASE k = 1
      BY <1>1, <1>6, <2>2
    <2>3. CASE k = t + 2
      BY <1>1, <1>6, <2>3
    <2>4. CASE k \in 2..t + 1
      BY <1>1, <1>6, <1>10, <2>4
    <2>5. CASE k \in t + 3..t + 2 + Len(b)
      BY <1>1, <1>9, <2>5
    <2> QED BY <1>8, <2>2, <2>3, <2>4, <2>5
  <1>19. \A p \in St : p \in q..Len(l) /\ end[p] # 0
    <2>1. \A p \in e + 1..Len(l) : p \in q..Len(l)
      BY <1>1
    <2> QED BY <1>7, <1>11, <2>1
  <1>20. Traced(l, end, mark, open, close, q, m, g, St)
    BY <1>6, <1>14, <1>15, <1>16, <1>17, <1>18, <1>19 DEF Traced
  <1> QED BY <1>20, Zenon DEF m, d, a, e

(* All that spans make of a line can be traced back.                       *)
LEMMA SpansTraced ==
    ASSUME NEW S, NEW l \in Seq(S), NEW mark \in Seq(S), OneCharacter(mark),
           NEW open \in S, NEW close \in S, NEW end, SpanEnds(l, end, mark)
    PROVE  \E g, St : Traced(l, end, mark, open, close, 1, Spans(l, end, mark, open, close), g, St)
  <1> DEFINE n == Len(l)
             rep == SpanRep(l, end, mark, open, close)
             Tr(q, m) == \E g, St : Traced(l, end, mark, open, close, q, m, g, St)
  <1>1. PICK R : Rewriting(S, l, end, rep, R) /\ Spans(l, end, mark, open, close) = R[1]
    <2>1. ReplacedBy(S, l, end, rep, Spans(l, end, mark, open, close))
      BY SpansRewrite, Zenon DEF OneCharacter
    <2> QED BY <2>1, Zenon DEF ReplacedBy
  <1> DEFINE P == {q \in 1..n + 1 : Tr(q, R[q])}
  <1>2. n \in Nat /\ n = Len(l) /\ 1 \in 1..n + 1 /\ n + 1 \in 1..n + 1
    OBVIOUS
  <1>3. ASSUME NEW p \in 1..Len(l), end[p] # 0
        PROVE  rep[p] = <<open>> \o Inner(l, p, end[p], mark) \o <<close>>
    <2>1. p \in DOMAIN l
      BY <1>3
    <2> QED BY <2>1, Zenon DEF SpanRep, Inner
  <1> HIDE DEF rep, n
  <1>4. n + 1 \in P
    <2>1. R[n + 1] = <<>>
      BY <1>1, <1>2, NothingBehind
    <2>2. Tr(n + 1, <<>>)
      BY <1>2, TraceNothing, Zenon
    <2> HIDE DEF Tr
    <2> QED BY <1>2, <2>1, <2>2
  <1>5. ASSUME NEW p \in 1..n, \A q \in p + 1..n + 1 : q \in P
        PROVE  p \in P
    <2>1. p \in 1..Len(l) /\ p \in 1..n + 1 /\ p + 1 \in p + 1..n + 1
      BY <1>2
    <2>2. CASE end[p] = 0
      <3>1. Copied(S, l, R, p)
        BY <1>1, <2>1, <2>2, WhereNone, Zenon
      <3>2. p + 1 \in P
        BY <1>5, <2>1, Zenon
      <3>3. PICK g, St : Traced(l, end, mark, open, close, p + 1, R[p + 1], g, St)
        BY <3>2, Zenon
      <3>6. R[p + 1] \in Seq(S)
        BY <3>1, Zenon DEF Copied
      <3>7. \E f : Traced(l, end, mark, open, close, p, <<l[p]>> \o R[p + 1], f, St)
        BY <2>1, <2>2, <3>3, <3>6, TraceCopied, Zenon
      <3>4. Tr(p, <<l[p]>> \o R[p + 1])
        BY <3>7, Zenon
      <3>5. Tr(p, R[p])
        BY <3>1, <3>4, Zenon DEF Copied
      <3> HIDE DEF Tr
      <3> QED BY <2>1, <3>5
    <2>3. CASE end[p] # 0
      <3>1. Put(S, l, end, rep, R, p)
        BY <1>1, <2>1, <2>3, WhereOne, Zenon
      <3>2. end[p] + 1 \in p + 1..n + 1
        BY <1>2, <3>1, Zenon DEF Put
      <3>3. end[p] + 1 \in P
        BY <1>5, <3>2, Zenon
      <3>4. PICK g, St : Traced(l, end, mark, open, close, end[p] + 1, R[end[p] + 1], g, St)
        BY <3>3, Zenon
      <3>5. Span(l, p, end[p], mark)
        BY <2>1, <2>3, Zenon DEF SpanEnds
      <3>6. R[end[p] + 1] \in Seq(S)
        BY <3>1, Zenon DEF Put
      <3>7. Tr(p, (<<open>> \o Inner(l, p, end[p], mark) \o <<close>>) \o R[end[p] + 1])
        BY <2>1, <2>3, <3>4, <3>5, <3>6, TracePut, Zenon
      <3>8. R[p] = (<<open>> \o Inner(l, p, end[p], mark) \o <<close>>) \o R[end[p] + 1]
        BY <1>3, <2>1, <2>3, <3>1, Zenon DEF Put
      <3>9. Tr(p, R[p])
        BY <3>7, <3>8, Zenon
      <3> HIDE DEF Tr
      <3> QED BY <2>1, <3>9
    <2> QED BY <2>2, <2>3, Zenon
  <1>6. \A p \in 1..n + 1 : p \in P
    <2> HIDE DEF P
    <2> QED BY <1>2, <1>4, <1>5, DownInduction
  <1>7. 1 \in P
    <2> HIDE DEF P
    <2> QED BY <1>2, <1>6, Zenon
  <1>8. Tr(1, R[1])
    BY <1>7, Zenon
  <1> QED BY <1>1, <1>8, Zenon

-----------------------------------------------------------------------------
(* Twice a and b, one behind the other, and nothing of B between them.     *)
Window(l, a, b, B, i, j) ==
    /\ i \in 1..Len(l) /\ j \in i + 2..Len(l) /\ j + 1 \in 1..Len(l)
    /\ l[i] = a /\ l[i + 1] = b /\ l[j] = a /\ l[j + 1] = b
    /\ \A k \in i + 2..j - 1 : l[k] \notin B

(* Spans of other tokens make no such window.                              *)
LEMMA WindowBefore ==
    ASSUME NEW S, NEW l \in Seq(S), NEW mark \in Seq(S), OneCharacter(mark),
           NEW open \in S, NEW close \in S, NEW end, SpanEnds(l, end, mark),
           NEW B, NEW a \in B, NEW b \in B, open \notin B, close \notin B, mark[1] \notin B,
           NEW i, NEW j, Window(Spans(l, end, mark, open, close), a, b, B, i, j)
    PROVE  \E c, d : Window(l, a, b, B, c, d)
  <1> DEFINE m == Spans(l, end, mark, open, close)
  <1>1. PICK g, St : Traced(l, end, mark, open, close, 1, m, g, St)
    BY SpansTraced, Zenon
  <1> HIDE DEF m
  <1>2. Window(m, a, b, B, i, j)
    BY DEF m
  <1>3. m \in Seq(S)
    BY SpansRewrote, Zenon DEF Rewrote, OneCharacter, m
  <1>4. Len(m) \in Nat /\ Len(l) \in Nat
    BY <1>3
  <1>5. /\ i \in 1..Len(m) - 1 /\ i + 1 \in 1..Len(m) /\ i \in 1..Len(m) /\ j \in 1..Len(m) /\ j \in 1..Len(m) - 1
        /\ j + 1 \in 1..Len(m) /\ i + 1 < j
        /\ m[i] = a /\ m[i + 1] = b /\ m[j] = a /\ m[j + 1] = b /\ \A k \in i + 2..j - 1 : m[k] \notin B
    BY <1>2, <1>4 DEF Window
  <1>6. /\ \A k \in 1..Len(m) : g[k] \in 1..Len(l)
        /\ Rising(m, g) /\ NextTo(mark, open, close, m, g) /\ NothingLost(l, end, mark, 1, m, g, St)
        /\ \A k \in 1..Len(m) : Origin(l, end, mark, open, close, m[k], g[k], St)
        /\ \A p \in St : p \in 1..Len(l) /\ end[p] # 0
    BY <1>1, Zenon DEF Traced
  <1>7. ASSUME NEW k \in 1..Len(m), m[k] \in B
        PROVE  l[g[k]] = m[k]
    BY <1>6, <1>7, Zenon DEF Origin
  <1>8. ASSUME NEW p \in St
        PROVE  l[p] \notin B /\ l[end[p]] \notin B
    <2>1. p \in 1..Len(l) /\ end[p] # 0
      BY <1>6, <1>8, Zenon
    <2>2. l[p] = mark[1] /\ l[end[p]] = mark[1]
      BY <2>1, SpanTouches
    <2> QED BY <2>2, Zenon
  <1>9. ASSUME NEW k \in 1..Len(m), m[k] \notin B
        PROVE  l[g[k]] \notin B
    BY <1>6, <1>8, <1>9, Zenon DEF Origin
  <1>10. g[i + 1] = g[i] + 1 /\ g[j + 1] = g[j] + 1
    BY <1>5, <1>6 DEF NextTo
  <1>11. g[i + 1] < g[j]
    BY <1>5, <1>6, Zenon DEF Rising
  <1>16. g[i] \in 1..Len(l) /\ g[j] \in 1..Len(l) /\ g[i + 1] \in 1..Len(l)
    BY <1>5, <1>6, Zenon
  <1>12. ASSUME NEW x \in g[i] + 2..g[j] - 1
         PROVE  l[x] \notin B
    <2>1. x \in 1..Len(l) /\ g[i + 1] < x /\ x < g[j]
      BY <1>4, <1>10, <1>16
    <2>2. CASE \E k \in 1..Len(m) : g[k] = x
      <3>1. PICK k \in 1..Len(m) : g[k] = x
        BY <2>2
      <3>2. ~(k < i + 1) /\ k # i + 1
        <4>1. k < i + 1 => x < g[i + 1]
          BY <1>5, <1>6, <3>1, Zenon DEF Rising
        <4> QED BY <1>16, <2>1, <3>1, <4>1
      <3>3. ~(j < k) /\ k # j
        <4>1. j < k => g[j] < x
          BY <1>5, <1>6, <3>1, Zenon DEF Rising
        <4> QED BY <1>16, <2>1, <3>1, <4>1
      <3>4. k \in i + 2..j - 1
        BY <1>4, <1>5, <3>1, <3>2, <3>3
      <3>5. m[k] \notin B
        BY <1>5, <3>4
      <3> QED BY <1>9, <3>1, <3>5, Zenon
    <2>3. CASE l[x] = mark[1]
      BY <2>3, Zenon
    <2> QED BY <1>6, <2>1, <2>2, <2>3, Zenon DEF NothingLost
  <1>13. l[g[i]] = a /\ l[g[i] + 1] = b /\ l[g[j]] = a /\ l[g[j] + 1] = b
    <2>1. l[g[i]] = a /\ l[g[i + 1]] = b /\ l[g[j]] = a /\ l[g[j + 1]] = b
      BY <1>5, <1>7, Zenon
    <2> QED BY <1>10, <2>1
  <1>14. g[i] \in 1..Len(l) /\ g[j] \in g[i] + 2..Len(l) /\ g[j] + 1 \in 1..Len(l)
    BY <1>4, <1>5, <1>6, <1>10, <1>11
  <1>15. Window(l, a, b, B, g[i], g[j])
    BY <1>12, <1>13, <1>14, Zenon DEF Window
  <1> QED BY <1>15, Zenon

(* What the parsers of emphasis match is delimited and no code is behind.  *)
LEMMA MarkEndIs ==
    ASSUME NEW S, NEW l \in Seq(S), NEW mark, NEW p \in 1..Len(l)
    PROVE  MarkEnd(l, mark)[p] = IF NoCodeAhead(l, p) THEN Delimited(l, p, mark) ELSE 0
  <1>1. p \in DOMAIN l
    OBVIOUS
  <1> QED BY <1>1, Zenon DEF MarkEnd

(* Two of a character, none, and two again are delimited.                  *)
LEMMA WindowDelimited ==
    ASSUME NEW S, NEW l \in Seq(S), NEW c, NEW p \in 1..Len(l), NEW n \in p + 2..Len(l), n + 1 \in 1..Len(l),
           l[p] = c, l[p + 1] = c, l[n] = c, l[n + 1] = c, \A k \in p + 2..n - 1 : l[k] # c
    PROVE  Delimited(l, p, <<c, c>>) # 0
  <1>1. Len(<<c, c>>) = 2 /\ <<c, c>>[1] = c /\ Len(l) \in Nat
    OBVIOUS
  <1>2. p + 2 \in 1..Len(l) + 1 /\ p \in Nat \ {0} /\ n \in Nat \ {0}
    BY <1>1
  <1>3. IsNext(l, {c}, p + 2, n)
    BY <1>1 DEF IsNext
  <1>4. NextOf(l, {c}, p + 2) = n
    BY <1>2, <1>3, NextOfUnique, Zenon
  <1>5. Occurs(l, <<c, c>>, p) /\ Occurs(l, <<c, c>>, n)
    <2>1. p + 1 <= Len(l) /\ n + 1 <= Len(l)
      BY <1>1
    <2> QED BY <1>2, <2>1, OccursTwo, Zenon
  <1>6. Delimited(l, p, <<c, c>>) = n + 2 - 1
    BY <1>1, <1>4, <1>5, Zenon DEF Delimited
  <1> QED BY <1>2, <1>6

(* Two of a mark's character, text, two of it that spans leave are where   *)
(* the line has a match that was not taken.                                *)
LEMMA WindowLeft ==
    ASSUME NEW S, NEW l \in Seq(S), NEW m \in Seq(S), NEW u, NEW mark \in Seq(S), Len(mark) = 2,
           mark[1] = u, mark[2] = u, NEW open, NEW close, u \notin CodeToken, u # open, u # close,
           open \notin CodeToken, close \notin CodeToken, NEW end, SpanEnds(l, end, mark),
           NEW g, NEW St, Traced(l, end, mark, open, close, 1, m, g, St),
           NEW i, NEW j, Window(m, u, u, {u}, i, j), NoCodeAhead(m, i)
    PROVE  /\ g[i] \in 1..Len(l) /\ end[g[i]] = 0
           /\ Delimited(l, g[i], mark) # 0 /\ NoCodeAhead(l, g[i])
  <1>1. mark \in Seq(S) /\ Len(mark) = 2 /\ mark[1] = u /\ mark[2] = u
    OBVIOUS
  <1>2. OneCharacter(mark)
    BY <1>1 DEF OneCharacter
  <1>3. open # u /\ close # u /\ open \notin CodeToken /\ close \notin CodeToken /\ u \notin CodeToken
    OBVIOUS
  <1>4. Window(m, u, u, {u}, i, j) /\ NoCodeAhead(m, i)
    OBVIOUS
  <1>6. SpanEnds(l, end, mark)
    OBVIOUS
  <1>8. Len(m) \in Nat /\ Len(l) \in Nat
    OBVIOUS
  <1>9. /\ i \in 1..Len(m) - 1 /\ i + 1 \in 1..Len(m) /\ i \in 1..Len(m) /\ j \in 1..Len(m) /\ j \in 1..Len(m) - 1
        /\ j + 1 \in 1..Len(m) /\ i + 1 < j
        /\ m[i] = u /\ m[i + 1] = u /\ m[j] = u /\ m[j + 1] = u /\ \A k \in i + 2..j - 1 : m[k] # u
    BY <1>4, <1>8 DEF Window
  <1>10. /\ \A k \in 1..Len(m) : g[k] \in 1..Len(l)
         /\ Rising(m, g) /\ NextTo(mark, open, close, m, g) /\ NothingLost(l, end, mark, 1, m, g, St)
         /\ \A k \in 1..Len(m) : Origin(l, end, mark, open, close, m[k], g[k], St)
         /\ \A p \in St : p \in 1..Len(l) /\ end[p] # 0
    BY Zenon DEF Traced
  <1>11. ASSUME NEW k \in 1..Len(m), m[k] = u
         PROVE  l[g[k]] = u /\ end[g[k]] = 0 /\ ~Covered(end, St, g[k])
    <2>1. Origin(l, end, mark, open, close, u, g[k], St)
      BY <1>10, <1>11
    <2> QED BY <1>1, <1>3, <2>1, Zenon DEF Origin
  <1>12. g[i + 1] = g[i] + 1 /\ g[j + 1] = g[j] + 1
    <2>1. m[i] # open /\ m[i + 1] # close /\ m[j] # open /\ m[j + 1] # close
      BY <1>3, <1>9, Zenon
    <2> QED BY <1>9, <1>10, <2>1, Zenon DEF NextTo
  <1>13. g[i] \in 1..Len(l) /\ g[j] \in 1..Len(l) /\ g[i + 1] \in 1..Len(l) /\ g[j + 1] \in 1..Len(l)
    BY <1>9, <1>10, Zenon
  <1>14. g[i + 1] < g[j]
    BY <1>9, <1>10, Zenon DEF Rising
  <1>15. ~Covered(end, St, g[i + 1]) /\ end[g[i]] = 0
         /\ l[g[i]] = u /\ l[g[i] + 1] = u /\ l[g[j]] = u /\ l[g[j] + 1] = u
    <2>1. l[g[i + 1]] = u /\ l[g[j + 1]] = u
      BY <1>9, <1>11, Zenon
    <2> QED BY <1>9, <1>11, <1>12, <2>1, Zenon
  <1>16. PICK n : IsNext(l, {u}, g[i] + 2, n)
    <2>1. g[i] + 2 \in 1..Len(l) + 1
      BY <1>8, <1>12, <1>13, <1>14
    <2> QED BY <2>1, NextOfIs, Zenon
  <1>17. /\ n \in g[i] + 2..Len(l) + 1 /\ (n = Len(l) + 1 \/ l[n] = u)
         /\ \A k \in g[i] + 2..n - 1 : l[k] # u
    BY <1>16 DEF IsNext
  <1>18. n <= g[j] /\ l[n] = u /\ n \in 1..Len(l)
    <2>1. ~(g[j] \in g[i] + 2..n - 1)
      BY <1>15, <1>17, Zenon
    <2>2. n <= g[j]
      BY <1>8, <1>12, <1>13, <1>14, <1>17, <2>1
    <2> QED BY <1>8, <1>13, <1>17, <2>2
  <1>19. n + 1 \in 1..Len(l) /\ l[n + 1] = u
    <2>1. CASE Covered(end, St, n)
      <3>1. PICK p \in St : n \in p..end[p]
        BY <2>1 DEF Covered
      <3>2. p \in 1..Len(l) /\ end[p] # 0
        BY <1>10, Zenon
      <3>4. l[p] = u /\ l[p + 1] = u /\ p + 1 \in 1..Len(l)
        BY <1>1, <1>2, <1>6, <3>2, SpanTouches
      <3>8. end[p] \in p..Len(l)
        BY <1>1, <1>2, <1>6, <3>2, SpanTouches
      <3>5. g[i + 1] \notin p..end[p]
        BY <1>15, Zenon DEF Covered
      <3>6. ~(p \in g[i] + 2..n - 1)
        BY <1>17, <3>4, Zenon
      <3>7. p = n
        BY <1>8, <1>12, <1>13, <1>17, <3>1, <3>2, <3>5, <3>6, <3>8
      <3> QED BY <3>4, <3>7
    <2>2. CASE ~Covered(end, St, n)
      <3>1. PICK k \in 1..Len(m) : g[k] = n
        BY <1>10, <1>18, <2>2, Zenon DEF NothingLost
      <3>2. m[k] = u
        <4>1. Origin(l, end, mark, open, close, m[k], n, St)
          BY <1>10, <3>1
        <4>2. n \notin St
          <5>1. ASSUME n \in St PROVE FALSE
            <6>2. n \in n..end[n]
              BY <1>2, <1>6, <1>10, <5>1, SpanTouches, Zenon
            <6> QED BY <2>2, <5>1, <6>2, Zenon DEF Covered
          <5> QED BY <5>1
        <4>3. ASSUME NEW p \in St, n = end[p] PROVE FALSE
          <5>2. n \in p..end[p]
            BY <1>2, <1>6, <1>10, <4>3, SpanTouches, Zenon
          <5> QED BY <2>2, <4>3, <5>2, Zenon DEF Covered
        <4> QED BY <1>18, <4>1, <4>2, <4>3, Zenon DEF Origin
      <3>3. ~(k < i + 1) /\ k # i + 1
        <4>1. k < i + 1 => n < g[i + 1]
          BY <1>9, <1>10, <3>1, Zenon DEF Rising
        <4>2. g[i + 1] < n
          BY <1>8, <1>12, <1>13, <1>17
        <4> QED BY <1>13, <1>18, <3>1, <4>1, <4>2
      <3>4. ~(j < k)
        <4>1. j < k => g[j] < n
          BY <1>9, <1>10, <3>1, Zenon DEF Rising
        <4> QED BY <1>13, <1>18, <4>1
      <3>5. k = j
        <4>1. ~(k \in i + 2..j - 1)
          BY <1>9, <3>2, Zenon
        <4> QED BY <1>8, <1>9, <3>1, <3>3, <3>4, <4>1
      <3> QED BY <1>12, <1>13, <1>15, <3>1, <3>5
    <2> QED BY <2>1, <2>2
  <1>20. Delimited(l, g[i], mark) # 0
    <2> DEFINE p == g[i]
    <2>1. /\ p \in 1..Len(l) /\ n \in p + 2..Len(l) /\ l[p] = u /\ l[p + 1] = u
          /\ \A k \in p + 2..n - 1 : l[k] # u
      BY <1>8, <1>13, <1>15, <1>17, <1>18
    <2> HIDE DEF p
    <2>2. Delimited(l, p, <<u, u>>) # 0
      BY <1>18, <1>19, <2>1, WindowDelimited
    <2> QED BY <1>1, <2>2 DEF p
  <1>21. NoCodeAhead(l, g[i])
    <2>1. SUFFICES ASSUME NEW x \in g[i]..Len(l), l[x] \in CodeToken PROVE FALSE
      BY Zenon DEF NoCodeAhead
    <2>2. x \in 1..Len(l) /\ g[i] <= x
      BY <1>8, <1>13
    <2>3. l[x] # mark[1]
      BY <1>1, <1>3, <2>1, Zenon
    <2>4. PICK k \in 1..Len(m) : g[k] = x
      BY <1>10, <2>2, <2>3, Zenon DEF NothingLost
    <2>5. ~(k < i)
      <3>1. k < i => x < g[i]
        BY <1>9, <1>10, <2>4, Zenon DEF Rising
      <3> QED BY <1>13, <2>2, <3>1
    <2>6. k \in i..Len(m)
      BY <1>8, <1>9, <2>4, <2>5
    <2>7. m[k] = l[x]
      <3>1. Origin(l, end, mark, open, close, m[k], x, St)
        BY <1>10, <2>4
      <3>2. ASSUME NEW p \in St PROVE l[p] = mark[1] /\ l[end[p]] = mark[1]
        <4>1. p \in 1..Len(l) /\ end[p] # 0
          BY <1>10, <3>2, Zenon
        <4> QED BY <1>2, <1>6, <4>1, SpanTouches
      <3> QED BY <2>3, <3>1, <3>2, Zenon DEF Origin
    <2> QED BY <1>4, <2>1, <2>6, <2>7, Zenon DEF NoCodeAhead
  <1> QED BY <1>13, <1>15, <1>20, <1>21

(* Two times a character is one.                                           *)
LEMMA TwiceIs ==
    ASSUME NEW mark, Len(mark) = 2, mark[1] = mark[2]
    PROVE  OneCharacter(mark) /\ Len(mark) > 0
  BY DEF OneCharacter

(* and so is a character alone.                                            *)
LEMMA OnceIs ==
    ASSUME NEW mark, Len(mark) = 1
    PROVE  OneCharacter(mark) /\ Len(mark) > 0
  BY DEF OneCharacter

(* The strong parser leaves no two underscores, text, two underscores in   *)
(* front of which it may match.                                            *)
LEMMA WindowStrong ==
    ASSUME NEW l \in Seq(Token), NEW i, NEW j,
           Window(Marked(l, <<"_", "_">>, "<strong>", "</strong>"), "_", "_", {"_"}, i, j),
           NoCodeAhead(Marked(l, <<"_", "_">>, "<strong>", "</strong>"), i)
    PROVE  FALSE
  <1> DEFINE u == "_"
             mark == <<u, u>>
             open == "<strong>"
             close == "</strong>"
             end == MarkEnd(l, mark)
             m == Marked(l, mark, open, close)
  <1>1. mark \in Seq(Token) /\ open \in Token /\ close \in Token
    BY MarksAre, MarksAreTokens, Zenon DEF Token, Tag, Emphasis
  <1>2. Len(mark) = 2 /\ mark[1] = u /\ mark[2] = u
    OBVIOUS
  <1>3. open # u /\ close # u /\ open \notin CodeToken /\ close \notin CodeToken /\ u \notin CodeToken
    BY Zenon DEF CodeToken
  <1>4. Window(m, u, u, {u}, i, j) /\ NoCodeAhead(m, i)
    BY Zenon
  <1>5. m = Spans(l, end, mark, open, close)
    BY Zenon DEF Marked, MarkEnd
  <1> HIDE DEF u, open, close, end, m, mark
  <1>6. OneCharacter(mark) /\ Len(mark) > 0
    BY <1>2, TwiceIs, Zenon
  <1>7. m \in Seq(Token)
    BY <1>1, <1>6, MarkedRewrote, Zenon DEF Rewrote, m
  <1>8. SpanEnds(l, end, mark)
    BY <1>1, <1>6, MarkEndsAre, Zenon DEF end
  <1>9. PICK g, St : Traced(l, end, mark, open, close, 1, m, g, St)
    BY <1>1, <1>5, <1>6, <1>8, SpansTraced, Zenon
  <1>10. /\ g[i] \in 1..Len(l) /\ end[g[i]] = 0
         /\ Delimited(l, g[i], mark) # 0 /\ NoCodeAhead(l, g[i])
    BY <1>1, <1>2, <1>3, <1>4, <1>7, <1>8, <1>9, WindowLeft, Zenon
  <1> QED BY <1>10, MarkEndIs, Zenon DEF end

(* Two empty spans with no mark between them were twice two marks with     *)
(* none between them.                                                      *)
LEMMA WindowPut ==
    ASSUME NEW S, NEW l \in Seq(S), NEW m \in Seq(S), NEW u, NEW mark \in Seq(S), Len(mark) = 1,
           mark[1] = u, NEW open, NEW close, open # close,
           \A x \in 1..Len(l) : l[x] # open /\ l[x] # close, NEW end, SpanEnds(l, end, mark),
           NEW g, NEW St, Traced(l, end, mark, open, close, 1, m, g, St),
           NEW i, NEW j, Window(m, open, close, {u, open, close}, i, j)
    PROVE  Window(l, u, u, {u}, g[i], g[j]) /\ g[i] \in 1..Len(l) /\ end[g[i]] # 0
  <1>1. OneCharacter(mark)
    BY DEF OneCharacter
  <1>2. Len(m) \in Nat /\ Len(l) \in Nat
    OBVIOUS
  <1>3. /\ i \in 1..Len(m) - 1 /\ i + 1 \in 1..Len(m) /\ i \in 1..Len(m) /\ j \in 1..Len(m) /\ j \in 1..Len(m) - 1
        /\ j + 1 \in 1..Len(m) /\ i + 1 < j /\ i < i + 1 /\ j < j + 1
        /\ m[i] = open /\ m[i + 1] = close /\ m[j] = open /\ m[j + 1] = close
        /\ \A k \in i + 2..j - 1 : m[k] \notin {u, open, close}
    BY <1>2 DEF Window
  <1>4. /\ \A k \in 1..Len(m) : g[k] \in 1..Len(l)
        /\ Rising(m, g) /\ NextTo(mark, open, close, m, g) /\ NothingLost(l, end, mark, 1, m, g, St)
        /\ \A k \in 1..Len(m) : Origin(l, end, mark, open, close, m[k], g[k], St)
        /\ \A p \in St : p \in 1..Len(l) /\ end[p] # 0
    BY Zenon DEF Traced
  <1>5. ASSUME NEW p \in St
        PROVE  l[p] = u /\ l[end[p]] = u
    <2>1. p \in 1..Len(l) /\ end[p] # 0
      BY <1>4, <1>5, Zenon
    <2> QED BY <1>1, <2>1, SpanTouches
  <1>6. ASSUME NEW k \in 1..Len(m), m[k] = open
        PROVE  l[g[k]] = u /\ end[g[k]] # 0
    <2>1. Origin(l, end, mark, open, close, open, g[k], St) /\ g[k] \in 1..Len(l)
      BY <1>4, <1>6
    <2>2. g[k] \in St
      BY <2>1, Zenon DEF Origin
    <2> QED BY <1>4, <1>5, <2>2, Zenon
  <1>7. ASSUME NEW k \in 1..Len(m), m[k] = close
        PROVE  l[g[k]] = u
    <2>1. Origin(l, end, mark, open, close, close, g[k], St) /\ g[k] \in 1..Len(l)
      BY <1>4, <1>7
    <2>2. \E p \in St : g[k] = end[p]
      BY <2>1, Zenon DEF Origin
    <2> QED BY <1>5, <2>2, Zenon
  <1>8. ASSUME NEW k \in 1..Len(m), m[k] \notin {u, open, close}
        PROVE  l[g[k]] # u
    <2>1. Origin(l, end, mark, open, close, m[k], g[k], St)
      BY <1>4
    <2> QED BY <1>8, <2>1, Zenon DEF Origin
  <1>9. g[i + 1] = g[i] + 1 /\ g[j + 1] = g[j] + 1
    BY <1>3, <1>4, Zenon DEF NextTo
  <1>10. g[i] \in 1..Len(l) /\ g[j] \in 1..Len(l) /\ g[i + 1] \in 1..Len(l) /\ g[j + 1] \in 1..Len(l)
    BY <1>3, <1>4, Zenon
  <1>11. g[i + 1] < g[j]
    BY <1>3, <1>4, Zenon DEF Rising
  <1>12. ASSUME NEW x \in g[i] + 2..g[j] - 1
         PROVE  l[x] # u
    <2>1. x \in 1..Len(l) /\ g[i + 1] < x /\ x < g[j]
      BY <1>2, <1>9, <1>10
    <2>2. PICK k \in 1..Len(m) : g[k] = x
      BY <1>4, <2>1, Zenon DEF NothingLost
    <2>3. ~(k < i + 1) /\ k # i + 1
      <3>1. k < i + 1 => x < g[i + 1]
        BY <1>3, <1>4, <2>2, Zenon DEF Rising
      <3> QED BY <1>10, <2>1, <2>2, <3>1
    <2>4. ~(j < k) /\ k # j
      <3>1. j < k => g[j] < x
        BY <1>3, <1>4, <2>2, Zenon DEF Rising
      <3> QED BY <1>10, <2>1, <2>2, <3>1
    <2>5. k \in i + 2..j - 1
      BY <1>2, <1>3, <2>2, <2>3, <2>4
    <2> QED BY <1>3, <1>8, <2>2, <2>5, Zenon
  <1>13. l[g[i]] = u /\ l[g[i] + 1] = u /\ l[g[j]] = u /\ l[g[j] + 1] = u
    <2>1. l[g[i]] = u /\ l[g[i + 1]] = u /\ l[g[j]] = u /\ l[g[j + 1]] = u
      BY <1>3, <1>6, <1>7, Zenon
    <2> QED BY <1>9, <2>1
  <1>14. g[j] \in g[i] + 2..Len(l) /\ g[j] + 1 \in 1..Len(l)
    BY <1>2, <1>9, <1>10, <1>11
  <1>15. \A x \in g[i] + 2..g[j] - 1 : l[x] \notin {u}
    BY <1>12
  <1>16. Window(l, u, u, {u}, g[i], g[j])
    BY <1>10, <1>13, <1>14, <1>15, Zenon DEF Window
  <1>17. end[g[i]] # 0
    BY <1>3, <1>6, Zenon
  <1> QED BY <1>10, <1>16, <1>17

(* The emphasized parser makes two empty emphases with nothing of its own  *)
(* between them of two underscores, text, two underscores.                 *)
LEMMA WindowEmphasized ==
    ASSUME NEW l \in Seq(Token), Count(l, {"<em>"}) = 0, Count(l, {"</em>"}) = 0, NEW i, NEW j,
           Window(Marked(l, <<"_">>, "<em>", "</em>"), "<em>", "</em>", {"_", "<em>", "</em>"}, i, j)
    PROVE  \E c, d : Window(l, "_", "_", {"_"}, c, d) /\ NoCodeAhead(l, c)
  <1> DEFINE u == "_"
             mark == <<u>>
             open == "<em>"
             close == "</em>"
             end == MarkEnd(l, mark)
             m == Marked(l, mark, open, close)
  <1>1. mark \in Seq(Token) /\ open \in Token /\ close \in Token
    BY MarksAre, MarksAreTokens, Zenon DEF Token, Tag, Emphasis
  <1>2. Len(mark) = 1 /\ mark[1] = u
    OBVIOUS
  <1>3. open # close
    OBVIOUS
  <1>4. Window(m, open, close, {u, open, close}, i, j)
    BY Zenon
  <1>5. m = Spans(l, end, mark, open, close)
    BY Zenon DEF Marked, MarkEnd
  <1>6. \A x \in 1..Len(l) : l[x] # open /\ l[x] # close
    BY NoneCounted, Zenon
  <1> HIDE DEF u, open, close, end, m, mark
  <1>7. OneCharacter(mark) /\ Len(mark) > 0
    BY <1>2, OnceIs, Zenon
  <1>8. m \in Seq(Token)
    BY <1>1, <1>7, MarkedRewrote, Zenon DEF Rewrote, m
  <1>9. SpanEnds(l, end, mark)
    BY <1>1, <1>7, MarkEndsAre, Zenon DEF end
  <1>10. PICK g, St : Traced(l, end, mark, open, close, 1, m, g, St)
    BY <1>1, <1>5, <1>7, <1>9, SpansTraced, Zenon
  <1>11. Window(l, u, u, {u}, g[i], g[j]) /\ g[i] \in 1..Len(l) /\ end[g[i]] # 0
    BY <1>1, <1>2, <1>3, <1>4, <1>6, <1>8, <1>9, <1>10, WindowPut
  <1>12. NoCodeAhead(l, g[i])
    BY <1>11, MarkEndIs, Zenon DEF end
  <1> QED BY <1>11, <1>12, Zenon DEF u

(* Nor do the other parsers of emphasis, ...                               *)
LEMMA MarkedWindow ==
    ASSUME NEW l \in Seq(Token), NEW mark \in Seq(Mark), OneCharacter(mark),
           NEW open \in Token, NEW close \in Token, NEW B, NEW a \in B, NEW b \in B,
           open \notin B, close \notin B, mark[1] \notin B, NEW i, NEW j,
           Window(Marked(l, mark, open, close), a, b, B, i, j)
    PROVE  \E c, d : Window(l, a, b, B, c, d)
  <1>1. mark \in Seq(Token) /\ Len(mark) > 0
    BY MarksAreTokens, Zenon DEF OneCharacter
  <1>2. SpanEnds(l, MarkEnd(l, mark), mark)
    BY <1>1, MarkEndsAre, Zenon
  <1>3. Marked(l, mark, open, close) = Spans(l, MarkEnd(l, mark), mark, open, close)
    BY Zenon DEF Marked, MarkEnd
  <1>4. Window(Spans(l, MarkEnd(l, mark), mark, open, close), a, b, B, i, j)
    BY <1>3, Zenon
  <1> QED BY <1>1, <1>2, <1>4, WindowBefore, Zenon

(* and that of code.                                                       *)
LEMMA CodedWindow ==
    ASSUME NEW l \in Seq(Token), NEW B, NEW a \in B, NEW b \in B, "<code>" \notin B,
           "</code>" \notin B, "tick" \notin B, NEW i, NEW j, Window(Coded(l), a, b, B, i, j)
    PROVE  \E c, d : Window(l, a, b, B, c, d)
  <1> DEFINE t == "tick"
             mark == <<t>>
             open == "<code>"
             close == "</code>"
  <1>1. t \in Token /\ open \in Token /\ close \in Token
    BY Zenon DEF Token, Tag, Character, Mark
  <1>2. SpanEnds(l, CodeEnd(l), mark)
    BY <1>1, CodeEndsAre, Zenon
  <1>3. mark \in Seq(Token)
    BY MarksAre, MarksAreTokens, Zenon
  <1>4. Len(mark) = 1 /\ mark[1] = t
    OBVIOUS
  <1>5. Coded(l) = Spans(l, CodeEnd(l), mark, open, close)
    BY Zenon DEF Coded, CodeEnd
  <1>6. open \notin B /\ close \notin B /\ mark[1] \notin B
    BY <1>4, Zenon
  <1>7. Window(Coded(l), a, b, B, i, j)
    OBVIOUS
  <1> HIDE DEF t, mark, open, close
  <1>8. OneCharacter(mark)
    BY <1>4, OnceIs, Zenon
  <1>9. Window(Spans(l, CodeEnd(l), mark, open, close), a, b, B, i, j)
    BY <1>5, <1>7, Zenon
  <1> QED BY <1>1, <1>2, <1>3, <1>6, <1>8, <1>9, WindowBefore, Zenon

(* The order of the parsers leaves no two empty emphases of two            *)
(* underscores, text, two underscores.                                     *)
LEMMA NoEmptyEmphases ==
    ASSUME NEW s \in Seq(Character), NEW i, NEW j,
           Window(AfterItalic(s), "<em>", "</em>", {"_", "<em>", "</em>"}, i, j)
    PROVE  FALSE
  <1> DEFINE a == "<em>"
             b == "</em>"
             B == {"_", a, b}
  <1>1. /\ s \in Seq(Token) /\ AfterImages(s) \in Seq(Token) /\ AfterLinks(s) \in Seq(Token)
        /\ AfterStars(s) \in Seq(Token) /\ AfterStrong(s) \in Seq(Token)
        /\ AfterEmphasized(s) \in Seq(Token) /\ AfterStrikeThrough(s) \in Seq(Token)
        /\ AfterCode(s) \in Seq(Token)
    BY SourceAccounted, StagesAccounted, Zenon DEF Accounted
  <1>2. /\ <<"~", "~">> \in Seq(Mark) /\ OneCharacter(<<"~", "~">>) /\ <<"~", "~">>[1] = "~"
        /\ <<"*">> \in Seq(Mark) /\ OneCharacter(<<"*">>) /\ <<"*">>[1] = "*"
    BY MarksAre, OnceIs, TwiceIs
  <1>3. /\ a \in B /\ b \in B /\ {"~", "*", "tick", "<s>", "</s>", "<i>", "</i>", "<code>", "</code>"} \cap B = {}
        /\ {"<s>", "</s>", "<i>", "</i>"} \subseteq Token
    BY Zenon DEF Token, Tag, Emphasis
  <1>4. \A T \in {{a}, {b}} : Count(AfterStrong(s), T) = 0
    <2>1. SUFFICES ASSUME NEW T \in SUBSET Token, Mark \cap T = {}, T \cap Character = {},
                          T \cap (ImagePart \cup LinkPart) = {}, "<strong>" \notin T, "</strong>" \notin T
                   PROVE  Count(AfterStrong(s), T) = 0
      <3>1. \A e \in {a, b} : /\ {e} \in SUBSET Token /\ Mark \cap {e} = {} /\ {e} \cap Character = {}
                              /\ {e} \cap (ImagePart \cup LinkPart) = {} /\ "<strong>" \notin {e} /\ "</strong>" \notin {e}
        BY TextAssumption, Zenon DEF Token, Tag, Emphasis, Mark, Character, ImagePart, LinkPart
      <3> QED BY <2>1, <3>1, Zenon
    <2>2. T \cap ImagePart = {} /\ T \cap LinkPart = {}
      BY <2>1, Zenon
    <2>3. Count(s, T) = 0
      BY <2>1, CountNone, Zenon
    <2>4. Count(Images(s), T) = Count(s, T)
      BY <1>1, <2>1, <2>2, ImagesLeft, Zenon
    <2>5. Count(Links(AfterImages(s)), T) = Count(AfterImages(s), T)
      BY <1>1, <2>1, <2>2, LinksLeft, Zenon
    <2>6. ASSUME NEW l \in Seq(Token), NEW mark \in Seq(Mark), Len(mark) > 0
          PROVE  Count(Marked(l, mark, "<strong>", "</strong>"), T) = Count(l, T)
      <3> DEFINE o == "<strong>"
                 c == "</strong>"
      <3>1. o \in Token /\ c \in Token /\ o \notin T /\ c \notin T
        BY <2>1, Zenon DEF Token, Tag, Emphasis
      <3> HIDE DEF o, c
      <3>2. mark \in Seq(Token)
        BY <2>6, MarksAreTokens, Zenon
      <3>3. Rewrote(Token, l, Marked(l, mark, o, c), SpanChange(Token, mark, o, c), MarkEnd(l, mark))
        BY <2>6, <3>1, <3>2, MarkedRewrote, Zenon
      <3>4. SpanChange(Token, mark, o, c)[T] = 0
        BY <2>1, <2>6, <3>1, SpansLeave, Zenon
      <3>5. Count(Marked(l, mark, o, c), T) = Count(l, T)
        BY <2>1, <2>6, <3>3, <3>4, Leaves, Zenon
      <3> QED BY <3>5, Zenon DEF o, c
    <2>7. Count(AfterStars(s), T) = Count(AfterLinks(s), T)
      BY <1>1, <2>6, MarksAreLong, Zenon DEF AfterStars
    <2>8. Count(AfterStrong(s), T) = Count(AfterStars(s), T)
      BY <1>1, <2>6, MarksAreLong, Zenon DEF AfterStrong
    <2> QED BY <2>3, <2>4, <2>5, <2>7, <2>8, Zenon DEF AfterImages, AfterLinks
  <1>5. Window(AfterItalic(s), a, b, B, i, j)
    BY Zenon
  <1>6. Count(AfterStrong(s), {"<em>"}) = 0 /\ Count(AfterStrong(s), {"</em>"}) = 0
    BY <1>4, Zenon
  <1> HIDE DEF B
  <1>7. \E c, d : Window(AfterCode(s), a, b, B, c, d)
    BY <1>1, <1>2, <1>3, <1>5, MarkedWindow, Zenon DEF AfterItalic
  <1>8. \E c, d : Window(AfterStrikeThrough(s), a, b, B, c, d)
    BY <1>1, <1>3, <1>7, CodedWindow, Zenon DEF AfterCode
  <1>9. \E c, d : Window(AfterEmphasized(s), a, b, B, c, d)
    BY <1>1, <1>2, <1>3, <1>8, MarkedWindow, Zenon DEF AfterStrikeThrough
  <1>10. \E c, d : Window(AfterStrong(s), "_", "_", {"_"}, c, d) /\ NoCodeAhead(AfterStrong(s), c)
    BY <1>1, <1>6, <1>9, WindowEmphasized, Zenon DEF AfterEmphasized, B
  <1> QED BY <1>1, <1>10, WindowStrong, Zenon DEF AfterStrong

-----------------------------------------------------------------------------
(* The order of the parsers does what the comments say it is for: an image *)
(* becomes no link; of two underscores, text, two underscores some become  *)
(* strong, if no code and no address is there; and in no line are they     *)
(* left as two empty emphases around the text.                             *)
THEOREM OrderKeptHolds == InlineSpec => []OrderKept
  <1>1. InlineInv => ImagesAreNotLinks
    <2> SUFFICES ASSUME InlineInv, Finished, NEW p \in Positions(line, "<a href='"),
                        p > 1, line[p - 1] = "!", ~\E q, r \in DOMAIN source : ImageInside(source, q, r)
                 PROVE  FALSE
      BY Zenon DEF ImagesAreNotLinks
    <2>1. source \in Seq(Character) /\ line = AfterItalic(source)
      BY FinishedIs, Zenon
    <2>2. line \in Seq(Token)
      BY <2>1, FinishedType, Zenon
    <2>3. NoInside(source)
      BY Zenon DEF NoInside
    <2>4. Apart(line, "!", "<a href='")
      BY <2>1, <2>3, MarkAndLinkApart, Zenon
    <2>5. p \in DOMAIN line /\ line[p] = "<a href='"
      BY Zenon DEF Positions
    <2>6. p - 1 \in 1..Len(line) - 1 /\ (p - 1) + 1 = p
      BY <2>2, <2>5, PlaceBefore, Zenon
    <2> QED BY <2>4, <2>5, <2>6, Zenon DEF Apart
  <1>2. InlineInv => StrongBeforeEmphasized
    <2> SUFFICES ASSUME InlineInv, Finished PROVE StrongBeforeEmphasized
      BY Zenon DEF StrongBeforeEmphasized
    <2>1. source \in Seq(Character) /\ line = AfterItalic(source)
      BY FinishedIs, Zenon
    <2>2. ASSUME Positions(source, "tick") = {}, Positions(source, "(") = {},
                 NEW p \in DOMAIN source, Delimited(source, p, <<"_", "_">>) # 0
          PROVE  Positions(line, "<strong>") # {}
      <3>1. DOMAIN source = 1..Len(source)
        BY <2>1, DomainIs, Zenon
      <3>2. p \in 1..Len(source)
        BY <2>2, <3>1, Zenon
      <3> QED BY <2>1, <2>2, <3>2, StrongFirst, Zenon
    <2>3. ASSUME NEW p \in EmptyEmphases(line), NEW q \in EmptyEmphases(line), p < q,
                 ~\E k \in p + 2..q - 1 : line[k] \in {"_", "<em>", "</em>"}
          PROVE  FALSE
      <3> DEFINE a == "<em>"
                 b == "</em>"
                 B == {"_", a, b}
      <3>1. line \in Seq(Token)
        BY <2>1, FinishedType, Zenon
      <3>2. DOMAIN line = 1..Len(line) /\ Len(line) \in Nat
        BY <3>1
      <3>3. p \in 1..Len(line) /\ q \in 1..Len(line) /\ Occurs(line, <<a, b>>, p) /\ Occurs(line, <<a, b>>, q)
        BY <2>3, <3>2, Zenon DEF EmptyEmphases
      <3>4. a # b
        OBVIOUS
      <3>5. \A k \in p + 2..q - 1 : line[k] \notin B
        BY <2>3, Zenon
      <3> HIDE DEF a, b, B
      <3>6. p \in Nat \ {0} /\ q \in Nat \ {0}
        BY <3>2, <3>3
      <3>11. p + 1 <= Len(line) /\ line[p] = a /\ line[p + 1] = b
        BY <3>1, <3>3, <3>6, OccursTwo
      <3>12. q + 1 <= Len(line) /\ line[q] = a /\ line[q + 1] = b
        BY <3>1, <3>3, <3>6, OccursTwo
      <3>7. /\ p + 1 <= Len(line) /\ line[p] = a /\ line[p + 1] = b
            /\ q + 1 <= Len(line) /\ line[q] = a /\ line[q + 1] = b
        BY <3>11, <3>12, Zenon
      <3>8. q # p + 1
        BY <3>4, <3>7
      <3>9. q \in p + 2..Len(line) /\ q + 1 \in 1..Len(line)
        <4>1. p < q
          BY <2>3, Zenon
        <4>2. p \in 1..Len(line) /\ q \in 1..Len(line) /\ q + 1 <= Len(line)
          BY <3>3, <3>7, Zenon
        <4> QED BY <3>2, <3>8, <4>1, <4>2
      <3>10. Window(line, a, b, B, p, q)
        BY <3>3, <3>5, <3>7, <3>9, Zenon DEF Window
      <3> QED BY <2>1, <3>10, NoEmptyEmphases, Zenon DEF a, b, B
    <2> QED BY <2>2, <2>3, Zenon DEF StrongBeforeEmphasized
  <1>3. InlineInv => OrderKept
    BY <1>1, <1>2, Zenon DEF OrderKept
  <1> QED BY <1>3, InlineInvHolds, PTL

-----------------------------------------------------------------------------
(* The tokens on the two sides of an address, and those in it.             *)
Opener == {"<a href='", "<img src='"}
Closer == {"' alt='", "'>"}
Plain == Text \cup {"(", ")"}

(* a stood in parentheses behind a bracket.                                *)
Stood(s, a) == \E q \in DOMAIN s : Occurs(s, <<"]", "(">> \o a \o <<")">>, q)

(* From k to c is an address of the line s.                                *)
Address(s, x, k, c) ==
    /\ c \in k + 1..Len(x) /\ x[c] \in Closer /\ \A i \in k + 1..c - 1 : x[i] \in Plain
    /\ Stood(s, SubSeq(x, k + 1, c - 1))
HasAddress(s, x, k) == \E c \in k + 1..Len(x) : Address(s, x, k, c)
Addressed(s, x) == \A k \in 1..Len(x) : x[k] \in Opener => HasAddress(s, x, k)

(* What an address is made of is none of what the parsers match or put     *)
(* in.                                                                     *)
LEMMA PlainApart ==
    /\ Opener \cap Closer = {} /\ Plain \cap Closer = {} /\ Opener \cap Plain = {}
    /\ Mark \cap (Opener \cup Plain \cup Closer) = {}
    /\ {"!", "[", "]"} \cap (Opener \cup Plain \cup Closer) = {}
    /\ (Emphasis \cup {"<code>", "</code>", "'/>", "</a>"}) \cap (Opener \cup Plain \cup Closer) = {}
    /\ Opener \cap Character = {} /\ Opener \subseteq Token /\ Closer \subseteq Token
  <1> QED BY TextAssumption, Zenon DEF Opener, Closer, Plain, Mark, Emphasis, Tag, Character, Token

(* The tokens k to c of l are those of m, d places on.                     *)
SameAt(l, m, k, c, d) == \A i \in k..c : i + d \in 1..Len(m) /\ m[i + d] = l[i]

(* Between such positions the two lines are the same.                      *)
LEMMA WindowMoved ==
    ASSUME NEW S, NEW l \in Seq(S), NEW m \in Seq(S), NEW k \in 1..Len(l), NEW c \in k + 1..Len(l),
           NEW d \in Int, SameAt(l, m, k, c, d)
    PROVE  SubSeq(l, k + 1, c - 1) = SubSeq(m, (k + d) + 1, (c + d) - 1)
  <1>2. \A i \in k..c : i + d \in 1..Len(m) /\ m[i + d] = l[i]
    BY Zenon DEF SameAt
  <1>3. c \in Nat /\ k \in Nat /\ c \in k..c /\ k \in k..c /\ k + 1 <= c /\ Len(l) \in Nat
    OBVIOUS
  <1>4. /\ c + d \in 1..Len(m) /\ k + d \in 1..Len(m) /\ Len(m) \in Nat
    BY <1>2, <1>3
  <1> DEFINE a == SubSeq(l, k + 1, c - 1)
             b == SubSeq(m, (k + d) + 1, (c + d) - 1)
  <1>5. /\ \A i \in k + 1..c - 1 : l[i] \in S
        /\ \A i \in (k + d) + 1..(c + d) - 1 : m[i] \in S
    BY <1>3, <1>4
  <1>6. /\ a \in Seq(S)
        /\ Len(a) = (IF k + 1 <= c - 1 THEN ((c - 1) - (k + 1)) + 1 ELSE 0)
        /\ \A i \in 1..((c - 1) - (k + 1)) + 1 : a[i] = l[((k + 1) + i) - 1]
    BY <1>3, <1>5, SubSeqProperties
  <1>7. /\ b \in Seq(S)
        /\ Len(b) = (IF (k + d) + 1 <= (c + d) - 1 THEN (((c + d) - 1) - ((k + d) + 1)) + 1 ELSE 0)
        /\ \A i \in 1..(((c + d) - 1) - ((k + d) + 1)) + 1 : b[i] = m[(((k + d) + 1) + i) - 1]
    BY <1>3, <1>5, SubSeqProperties
  <1> HIDE DEF a, b
  <1>8. Len(a) = Len(b) /\ Len(a) \in Nat
    BY <1>3, <1>6, <1>7
  <1>9. ASSUME NEW i \in 1..Len(a)
        PROVE  a[i] = b[i]
    <2>1. /\ i \in 1..((c - 1) - (k + 1)) + 1 /\ i \in 1..(((c + d) - 1) - ((k + d) + 1)) + 1
          /\ ((k + 1) + i) - 1 \in k..c
          /\ (((k + 1) + i) - 1) + d = (((k + d) + 1) + i) - 1
      BY <1>3, <1>6
    <2> QED BY <1>2, <1>6, <1>7, <2>1, Zenon
  <1>10. a = b
    BY <1>6, <1>7, <1>8, <1>9, SeqEqual
  <1> QED BY <1>10, Zenon DEF a, b

(* So is an address.                                                       *)
LEMMA AddressMoved ==
    ASSUME NEW S, NEW l \in Seq(S), NEW m \in Seq(S), NEW s, NEW k \in 1..Len(l), NEW c,
           Address(s, l, k, c), NEW d \in Int, SameAt(l, m, k, c, d)
    PROVE  HasAddress(s, m, k + d)
  <1>1. /\ c \in k + 1..Len(l) /\ l[c] \in Closer /\ \A i \in k + 1..c - 1 : l[i] \in Plain
        /\ Stood(s, SubSeq(l, k + 1, c - 1))
    BY Zenon DEF Address
  <1>2. \A i \in k..c : i + d \in 1..Len(m) /\ m[i + d] = l[i]
    BY Zenon DEF SameAt
  <1>3. c \in Nat /\ k \in Nat /\ c \in k..c /\ k + 1 <= c /\ Len(l) \in Nat
    BY <1>1
  <1>4. /\ c + d \in 1..Len(m) /\ k + d \in 1..Len(m) /\ Len(m) \in Nat
    BY <1>2, <1>3
  <1>5. c + d \in (k + d) + 1..Len(m)
    BY <1>3, <1>4
  <1>6. m[c + d] \in Closer
    BY <1>1, <1>2, <1>3, Zenon
  <1>7. \A i \in (k + d) + 1..(c + d) - 1 : m[i] \in Plain
    <2>1. ASSUME NEW i \in (k + d) + 1..(c + d) - 1
          PROVE  i - d \in k + 1..c - 1 /\ i - d \in k..c /\ (i - d) + d = i
      BY <1>3
    <2> QED BY <1>1, <1>2, <2>1, Zenon
  <1> DEFINE a == SubSeq(l, k + 1, c - 1)
             b == SubSeq(m, (k + d) + 1, (c + d) - 1)
  <1>8. a = b
    <2>1. c \in k + 1..Len(l)
      BY <1>1, Zenon
    <2> QED BY <2>1, WindowMoved
  <1> HIDE DEF a, b
  <1>9. Stood(s, b)
    BY <1>1, <1>8 DEF a
  <1>10. Address(s, m, k + d, c + d)
    BY <1>5, <1>6, <1>7, <1>9, Zenon DEF Address, b
  <1> QED BY <1>5, <1>10, Zenon DEF HasAddress

(* A line without links and images has no address to keep.                 *)
LEMMA AddressedNone ==
    ASSUME NEW s, NEW x, \A k \in 1..Len(x) : x[k] \notin Opener
    PROVE  Addressed(s, x)
  <1> QED BY Zenon DEF Addressed

(* Two lines with their addresses are one.                                 *)
LEMMA AddressedConcat ==
    ASSUME NEW S, NEW a \in Seq(S), NEW b \in Seq(S), NEW s, Addressed(s, a), Addressed(s, b)
    PROVE  Addressed(s, a \o b)
  <1> DEFINE m == a \o b
             n == Len(a)
  <1>1. /\ m \in Seq(S) /\ Len(m) = n + Len(b) /\ n \in Nat /\ Len(b) \in Nat
        /\ \A i \in 1..n + Len(b) : m[i] = IF i <= n THEN a[i] ELSE b[i - n]
    BY ConcatProperties
  <1> HIDE DEF m
  <1>2. ASSUME NEW k \in 1..Len(m), m[k] \in Opener
        PROVE  HasAddress(s, m, k)
    <2>1. CASE k <= n
      <3>1. k \in 1..n /\ k \in 1..n + Len(b) /\ k + 0 = k /\ 0 \in Int
        BY <1>1, <2>1
      <3>2. HasAddress(s, a, k)
        <4>1. a[k] \in Opener
          BY <1>1, <1>2, <2>1, <3>1, Zenon
        <4> QED BY <3>1, <4>1, Zenon DEF Addressed
      <3>3. PICK c \in k + 1..n : Address(s, a, k, c)
        BY <3>2, Zenon DEF HasAddress
      <3>4. SameAt(a, m, k, c, 0)
        <4>1. \A i \in k..c : i + 0 = i /\ i \in 1..n + Len(b) /\ i <= n
          BY <1>1
        <4>2. Len(m) = n + Len(b)
          BY <1>1, Zenon
        <4> QED BY <1>1, <4>1, <4>2, Zenon DEF SameAt
      <3>5. HasAddress(s, m, k + 0)
        BY <1>1, <3>1, <3>3, <3>4, AddressMoved, Zenon
      <3> QED BY <3>1, <3>5, Zenon
    <2>2. CASE n < k
      <3> DEFINE h == k - n
      <3>1. h \in 1..Len(b) /\ k \in 1..n + Len(b) /\ h + n = k /\ n \in Int /\ ~(k <= n)
        BY <1>1, <2>2
      <3>2. HasAddress(s, b, h)
        <4>1. b[h] \in Opener
          BY <1>1, <1>2, <3>1, Zenon
        <4> QED BY <3>1, <4>1, Zenon DEF Addressed
      <3> HIDE DEF h
      <3>3. PICK c \in h + 1..Len(b) : Address(s, b, h, c)
        BY <3>2, Zenon DEF HasAddress
      <3>4. SameAt(b, m, h, c, n)
        <4>1. \A i \in h..c : i + n \in 1..n + Len(b) /\ ~(i + n <= n) /\ (i + n) - n = i
          BY <1>1, <3>1
        <4>2. Len(m) = n + Len(b)
          BY <1>1, Zenon
        <4> QED BY <1>1, <4>1, <4>2, Zenon DEF SameAt
      <3>5. HasAddress(s, m, h + n)
        BY <1>1, <3>1, <3>3, <3>4, AddressMoved, Zenon
      <3> QED BY <3>1, <3>5, Zenon
    <2> QED BY <1>1, <2>1, <2>2
  <1>3. Addressed(s, m)
    BY <1>2, Zenon DEF Addressed
  <1> QED BY <1>3 DEF m

(* An address does not leave a stretch that ends like this.                *)
StretchApart(l, j) ==
    \/ j = Len(l) \/ l[j] \notin Opener \cup Plain
    \/ j + 1 \in 1..Len(l) /\ l[j + 1] \notin Plain \cup Closer

(* So an address is in it.                                                 *)
LEMMA AddressInside ==
    ASSUME NEW S, NEW l \in Seq(S), NEW s, NEW k \in 1..Len(l), l[k] \in Opener, NEW c,
           Address(s, l, k, c), NEW j \in k..Len(l), StretchApart(l, j)
    PROVE  c <= j
  <1>1. c \in k + 1..Len(l) /\ l[c] \in Closer /\ \A i \in k + 1..c - 1 : l[i] \in Plain
    BY Zenon DEF Address
  <1> SUFFICES ASSUME j < c PROVE FALSE
    BY <1>1
  <1>2. /\ j # Len(l) /\ (j = k \/ j \in k + 1..c - 1) /\ (j + 1 = c \/ j + 1 \in k + 1..c - 1)
    BY <1>1
  <1>3. l[j] \in Opener \cup Plain
    BY <1>1, <1>2, Zenon
  <1>4. l[j + 1] \in Plain \cup Closer
    BY <1>1, <1>2, Zenon
  <1> QED BY <1>2, <1>3, <1>4, Zenon DEF StretchApart

(* And the stretch has its addresses.                                      *)
LEMMA AddressedWindow ==
    ASSUME NEW S, NEW l \in Seq(S), NEW s, Addressed(s, l), NEW i \in 1..Len(l) + 1,
           NEW j \in 0..Len(l), StretchApart(l, j)
    PROVE  SubSeq(l, i, j) \in Seq(S) /\ Addressed(s, SubSeq(l, i, j))
  <1> DEFINE a == SubSeq(l, i, j)
  <1>1. /\ a \in Seq(S) /\ Len(a) = (IF i <= j THEN (j - i) + 1 ELSE 0)
        /\ \A k \in 1..(j - i) + 1 : a[k] = l[(i + k) - 1]
    <2>1. \A k \in i..j : l[k] \in S
      OBVIOUS
    <2> QED BY <2>1, SubSeqProperties
  <1> HIDE DEF a
  <1>2. ASSUME NEW k \in 1..Len(a), a[k] \in Opener
        PROVE  HasAddress(s, a, k)
    <2> DEFINE h == (i + k) - 1
               d == 1 - i
    <2>1. /\ Len(a) = (j - i) + 1 /\ h \in i..j /\ h \in 1..Len(l) /\ j \in h..Len(l) /\ d \in Int
          /\ h + d = k /\ k \in 1..(j - i) + 1
      BY <1>1, <1>2
    <2>2. l[h] \in Opener
      BY <1>1, <1>2, <2>1
    <2>3. HasAddress(s, l, h)
      BY <2>1, <2>2, Zenon DEF Addressed
    <2>4. PICK c \in h + 1..Len(l) : Address(s, l, h, c)
      BY <2>3, Zenon DEF HasAddress
    <2>5. c <= j
      BY <2>1, <2>2, <2>4, AddressInside, Zenon
    <2>6. SameAt(l, a, h, c, d)
      <3>1. \A q \in h..c : q + d \in 1..Len(a) /\ q + d \in 1..(j - i) + 1 /\ (i + (q + d)) - 1 = q
        BY <2>1, <2>5
      <3> HIDE DEF h, d
      <3> QED BY <1>1, <3>1, Zenon DEF SameAt
    <2> HIDE DEF h, d
    <2>7. HasAddress(s, a, h + d)
      BY <1>1, <2>1, <2>4, <2>6, AddressMoved, Zenon
    <2> QED BY <2>1, <2>7, Zenon
  <1>3. Addressed(s, a)
    BY <1>2, Zenon DEF Addressed
  <1> QED BY <1>1, <1>3 DEF a

(* What is put in for an address has it.                                   *)
LEMMA AddressedTag ==
    ASSUME NEW S, NEW a \in Seq(S), NEW s, NEW o \in S, NEW v \in S, o \in Opener, v \in Closer,
           Stood(s, a), \A i \in 1..Len(a) : a[i] \in Plain
    PROVE  <<o>> \o a \o <<v>> \in Seq(S) /\ Addressed(s, <<o>> \o a \o <<v>>)
  <1> DEFINE m == <<o>> \o a \o <<v>>
             n == Len(a)
  <1>1. /\ m \in Seq(S) /\ Len(m) = n + 2 /\ m[1] = o /\ m[n + 2] = v /\ n \in Nat
        /\ \A i \in 1..n : m[i + 1] = a[i]
    <2> DEFINE x == <<o>>
               y == <<v>>
    <2>1. x \in Seq(S) /\ Len(x) = 1 /\ x[1] = o /\ y \in Seq(S) /\ Len(y) = 1 /\ y[1] = v
      OBVIOUS
    <2> HIDE DEF x, y
    <2> DEFINE b == x \o a
    <2>2. /\ b \in Seq(S) /\ Len(b) = Len(x) + Len(a)
          /\ \A i \in 1..Len(x) + Len(a) : b[i] = IF i <= Len(x) THEN x[i] ELSE a[i - Len(x)]
      BY <2>1, ConcatProperties
    <2> HIDE DEF b
    <2>0. b \in Seq(S) /\ y \in Seq(S)
      BY <2>1, <2>2
    <2>3. /\ b \o y \in Seq(S) /\ Len(b \o y) = Len(b) + Len(y)
          /\ \A i \in 1..Len(b) + Len(y) : (b \o y)[i] = IF i <= Len(b) THEN b[i] ELSE y[i - Len(b)]
      BY <2>0, ConcatProperties
    <2>4. /\ n \in Nat /\ Len(x) + n = 1 + n /\ Len(b) = 1 + n /\ Len(b) + Len(y) = n + 2
          /\ 1 \in 1..Len(x) + Len(a) /\ 1 \in 1..Len(b) + Len(y) /\ 1 <= Len(b) /\ 1 <= Len(x)
          /\ n + 2 \in 1..Len(b) + Len(y) /\ ~(n + 2 <= Len(b)) /\ (n + 2) - Len(b) = 1
          /\ \A i \in 1..n : /\ i + 1 \in 1..Len(x) + Len(a) /\ i + 1 \in 1..Len(b) + Len(y)
                             /\ i + 1 <= Len(b) /\ ~(i + 1 <= Len(x)) /\ (i + 1) - Len(x) = i
      <3>1. n \in Nat
        OBVIOUS
      <3>2. Len(b) = 1 + n
        BY <2>1, <2>2
      <3> HIDE DEF n
      <3> QED BY <2>1, <3>1, <3>2 DEF n
    <2>5. m = b \o y
      BY DEF m, b, x, y
    <2> HIDE DEF m
    <2>6. m[1] = o /\ m[n + 2] = v /\ \A i \in 1..n : m[i + 1] = a[i]
      <3>1. b[1] = x[1] /\ m[1] = b[1]
        BY <2>2, <2>3, <2>4, <2>5, Zenon
      <3>2. m[n + 2] = y[(n + 2) - Len(b)]
        BY <2>3, <2>4, <2>5, Zenon
      <3>3. ASSUME NEW i \in 1..n PROVE m[i + 1] = a[i]
        <4>1. m[i + 1] = b[i + 1]
          BY <2>3, <2>4, <2>5, Zenon
        <4>2. b[i + 1] = a[(i + 1) - Len(x)]
          BY <2>2, <2>4, Zenon
        <4> QED BY <2>4, <4>1, <4>2, Zenon
      <3> QED BY <2>1, <2>4, <3>1, <3>2, <3>3, Zenon
    <2> QED BY <2>2, <2>3, <2>4, <2>5, <2>6, Zenon
  <1> HIDE DEF m
  <1>2. a = SubSeq(m, 1 + 1, (n + 2) - 1)
    <2> DEFINE b == SubSeq(m, 1 + 1, (n + 2) - 1)
    <2>1. /\ b \in Seq(S) /\ Len(b) = (IF 2 <= n + 1 THEN n ELSE 0)
          /\ \A i \in 1..n : b[i] = m[i + 1]
      <3>1. 1 + 1 = 2 /\ (n + 2) - 1 = n + 1 /\ 2 \in Nat \ {0} /\ n + 1 \in Nat
            /\ ((n + 1) - 2) + 1 = n /\ \A i \in 1..n : (2 + i) - 1 = i + 1
        BY <1>1
      <3>2. \A i \in 2..n + 1 : m[i] \in S
        BY <1>1
      <3>3. /\ SubSeq(m, 2, n + 1) \in Seq(S)
            /\ Len(SubSeq(m, 2, n + 1)) = (IF 2 <= n + 1 THEN ((n + 1) - 2) + 1 ELSE 0)
            /\ \A i \in 1..((n + 1) - 2) + 1 : SubSeq(m, 2, n + 1)[i] = m[(2 + i) - 1]
        BY <3>1, <3>2, SubSeqProperties
      <3> QED BY <3>1, <3>3
    <2> HIDE DEF b
    <2>2. Len(a) = Len(b) /\ \A i \in 1..Len(a) : a[i] = b[i]
      BY <1>1, <2>1
    <2>3. a = b
      BY <2>1, <2>2, SeqEqual
    <2> QED BY <2>3 DEF b
  <1>3. ASSUME NEW k \in 1..Len(m), m[k] \in Opener
        PROVE  HasAddress(s, m, k)
    <2>1. k = 1
      <3>1. k = n + 2 => m[k] \in Closer
        BY <1>1, Zenon
      <3>2. ASSUME k # 1, k # n + 2 PROVE m[k] \in Plain
        <4>1. k - 1 \in 1..n /\ (k - 1) + 1 = k
          BY <1>1, <3>2
        <4> QED BY <1>1, <4>1, Zenon
      <3> QED BY <1>3, <3>1, <3>2, PlainApart, Zenon
    <2>2. n + 2 \in 1 + 1..Len(m)
      BY <1>1
    <2>3. \A i \in 1 + 1..(n + 2) - 1 : m[i] \in Plain
      <3>1. \A i \in 1 + 1..(n + 2) - 1 : i - 1 \in 1..n /\ (i - 1) + 1 = i
        BY <1>1
      <3> QED BY <1>1, <3>1, Zenon
    <2>4. Address(s, m, 1, n + 2)
      BY <1>1, <1>2, <2>2, <2>3, Zenon DEF Address
    <2> QED BY <2>1, <2>2, <2>4, Zenon DEF HasAddress
  <1>4. Addressed(s, m)
    BY <1>3, Zenon DEF Addressed
  <1> QED BY <1>1, <1>4 DEF m

(* No match begins in an address, and what is put in for one has its own.  *)
AddressesApart(s, l, end, rep) ==
    \A p \in 1..Len(l) :
        end[p] # 0 => l[p] \notin Opener \cup Plain \cup Closer /\ Addressed(s, rep[p])

(* Replacing keeps the addresses, when no match begins in one.             *)
LEMMA AddressedRewrite ==
    ASSUME NEW S, NEW l \in Seq(S), NEW end, NEW rep, NEW R, Rewriting(S, l, end, rep, R),
           NEW s, Addressed(s, l), AddressesApart(s, l, end, rep)
    PROVE  Addressed(s, R[1])
  <1> DEFINE n == Len(l)
             P == {q \in 1..n + 1 : Addressed(s, R[q])}
  <1>1. /\ n \in Nat /\ n + 1 \in 1..n + 1 /\ 1 \in 1..n + 1
        /\ \A q \in 1..n : q \in 1..n + 1 /\ q + 1 \in q + 1..n + 1
        /\ \A q \in 1..n : \A r \in q + 1..n + 1 : r \in 1..n + 1
    OBVIOUS
  <1>2. Addressed(s, R[n + 1])
    <2>1. R[n + 1] = <<>>
      BY NothingBehind, Zenon
    <2>2. \A k : k \notin 1..Len(<<>>)
      OBVIOUS
    <2> QED BY <2>1, <2>2, AddressedNone, Zenon
  <1>3. ASSUME NEW q \in 1..n, \A r \in q + 1..n + 1 : r \in P
        PROVE  Addressed(s, R[q])
    <2>0. \A r \in q + 1..n + 1 : Addressed(s, R[r])
      BY <1>3, Zenon
    <2>1. CASE end[q] = 0 /\ l[q] \notin Opener
      <3> DEFINE a == <<l[q]>>
      <3>1. a \in Seq(S) /\ R[q + 1] \in Seq(S) /\ R[q] = a \o R[q + 1]
        <4>1. Copied(S, l, R, q)
          BY <2>1, WhereNone, Zenon
        <4> QED BY <4>1, Zenon DEF Copied
      <3>2. Addressed(s, R[q + 1])
        BY <1>1, <2>0, Zenon
      <3>3. Len(a) = 1 /\ a[1] = l[q] /\ \A k \in 1..1 : k = 1
        OBVIOUS
      <3> HIDE DEF a
      <3>4. Addressed(s, a)
        BY <2>1, <3>3, AddressedNone, Zenon
      <3> QED BY <3>1, <3>2, <3>4, AddressedConcat, Zenon
    <2>2. CASE end[q] = 0 /\ l[q] \in Opener
      <3>1. HasAddress(s, l, q)
        BY <2>2, Zenon DEF Addressed
      <3>2. PICK c \in q + 1..n : Address(s, l, q, c)
        BY <3>1, Zenon DEF HasAddress
      <3>3. l[c] \in Closer /\ \A i \in q + 1..c - 1 : l[i] \in Plain
        BY <3>2, Zenon DEF Address
      <3>4. /\ c \in 0..n /\ q \in 1..c + 1 /\ c + 1 \in q + 1..n + 1 /\ c + 1 \in 1..n + 1
            /\ q \in 1..n + 1 /\ \A i \in q..c : i \in 1..n /\ (i = q \/ i = c \/ i \in q + 1..c - 1)
        OBVIOUS
      <3>5. NoMatch(end, q, c)
        <4>1. \A i \in q..c : l[i] \in Opener \cup Plain \cup Closer
          BY <2>2, <3>3, <3>4, Zenon
        <4> QED BY <3>4, <4>1, Zenon DEF NoMatch, AddressesApart
      <3>6. R[q] = SubSeq(l, q, c) \o R[c + 1]
        <4>1. CopiedUpto(l, R, q, c)
          BY <3>4, <3>5, WhereNoneUpto, Zenon
        <4> QED BY <4>1, Zenon DEF CopiedUpto
      <3>7. StretchApart(l, c)
        BY <3>3, PlainApart, Zenon DEF StretchApart
      <3>8. SubSeq(l, q, c) \in Seq(S) /\ Addressed(s, SubSeq(l, q, c))
        BY <3>4, <3>7, AddressedWindow, Zenon
      <3>9. R[c + 1] \in Seq(S) /\ Addressed(s, R[c + 1])
        BY <2>0, <3>4, Zenon DEF Rewriting
      <3> QED BY <3>6, <3>8, <3>9, AddressedConcat, Zenon
    <2>3. CASE end[q] # 0
      <3>1. Put(S, l, end, rep, R, q)
        BY <2>3, WhereOne, Zenon
      <3>2. rep[q] \in Seq(S) /\ R[end[q] + 1] \in Seq(S) /\ R[q] = rep[q] \o R[end[q] + 1]
            /\ end[q] + 1 \in q + 1..n + 1
        BY <3>1, Zenon DEF Put
      <3>3. Addressed(s, R[end[q] + 1])
        BY <2>0, <3>2, Zenon
      <3>4. Addressed(s, rep[q])
        BY <2>3, Zenon DEF AddressesApart
      <3> QED BY <3>2, <3>3, <3>4, AddressedConcat, Zenon
    <2> QED BY <2>1, <2>2, <2>3, Zenon
  <1>4. n + 1 \in P
    BY <1>1, <1>2, Zenon
  <1>5. ASSUME NEW q \in 1..n, \A r \in q + 1..n + 1 : r \in P PROVE q \in P
    BY <1>1, <1>3, <1>5, Zenon
  <1> HIDE DEF P
  <1>6. \A q \in 1..n + 1 : q \in P
    <2> HIDE DEF n
    <2> QED BY <1>1, <1>4, <1>5, DownInduction, Zenon
  <1>7. 1 \in P
    BY <1>1, <1>6, Zenon
  <1> QED BY <1>7, Zenon DEF P

(* A span begins and ends with a character of its mark, and the rest is    *)
(* between.                                                                *)
LEMMA SpanMarks ==
    ASSUME NEW S, NEW l \in Seq(S), NEW mark \in Seq(S), Len(mark) > 0, NEW p \in 1..Len(l),
           NEW e, Span(l, p, e, mark)
    PROVE  /\ l[p] = mark[1] /\ (e - Len(mark)) + 1 \in 1..Len(l) /\ l[(e - Len(mark)) + 1] = mark[1]
           /\ p + Len(mark) \in 1..Len(l) + 1 /\ e - Len(mark) \in 0..Len(l)
  <1> DEFINE m == Len(mark)
  <1>1. m \in Nat /\ m > 0 /\ Len(l) \in Nat
    OBVIOUS
  <1>2. /\ e \in (p + 2 * m) - 1..Len(l)
        /\ SubSeq(l, p, (p + m) - 1) = mark /\ SubSeq(l, (e - m) + 1, e) = mark
    BY DEF Span
  <1> HIDE DEF m
  <1>3. /\ p + m \in 1..Len(l) + 1 /\ e - m \in 0..Len(l) /\ (e - m) + 1 \in 1..Len(l)
        /\ p <= (p + m) - 1 /\ (p + m) - 1 <= Len(l) /\ (e - m) + 1 <= e /\ e \in 1..Len(l)
        /\ (p + m) - 1 \in 1..Len(l)
    BY <1>1, <1>2
  <1>4. ASSUME NEW i \in 1..Len(l), NEW j \in 1..Len(l), i <= j PROVE SubSeq(l, i, j)[1] = l[i]
    <2>1. \A k \in i..j : l[k] \in S
      OBVIOUS
    <2>2. 1 \in 1..(j - i) + 1 /\ (i + 1) - 1 = i
      BY <1>4
    <2>3. \A k \in 1..(j - i) + 1 : SubSeq(l, i, j)[k] = l[(i + k) - 1]
      BY <2>1, SubSeqProperties
    <2> QED BY <2>2, <2>3
  <1>5. mark[1] = l[p]
    BY <1>2, <1>3, <1>4, Zenon
  <1>6. mark[1] = l[(e - m) + 1]
    BY <1>2, <1>3, <1>4, Zenon
  <1> QED BY <1>3, <1>5, <1>6 DEF m

(* Marks go and tags come, but not in an address.                          *)
LEMMA AddressedSpans ==
    ASSUME NEW l \in Seq(Token), NEW mark \in Seq(Mark), Len(mark) > 0,
           NEW open \in Token, NEW close \in Token, open \notin Opener, close \notin Opener,
           NEW end, SpanEnds(l, end, mark), NEW s, Addressed(s, l)
    PROVE  Addressed(s, Spans(l, end, mark, open, close))
  <1> DEFINE rep == SpanRep(l, end, mark, open, close)
             m == Spans(l, end, mark, open, close)
  <1>0. mark \in Seq(Token) /\ mark[1] \in Mark
    <2>1. 1 \in 1..Len(mark)
      OBVIOUS
    <2> QED BY <2>1, MarksAreTokens, PlacesOf, Zenon
  <1>1. PICK R : Rewriting(Token, l, end, rep, R) /\ m = R[1]
    <2>1. ReplacedBy(Token, l, end, rep, m)
      BY <1>0, SpansRewrite, Zenon
    <2> QED BY <2>1, Zenon DEF ReplacedBy
  <1>2. ASSUME NEW p \in 1..Len(l), end[p] # 0
        PROVE  l[p] \notin Opener \cup Plain \cup Closer /\ Addressed(s, rep[p])
    <2> DEFINE i == p + Len(mark)
               j == end[p] - Len(mark)
               a == SubSeq(l, i, j)
               x == <<open>>
               y == <<close>>
    <2>1. rep[p] = x \o a \o y
      <3>1. p \in DOMAIN l
        BY DomainIs, Zenon
      <3> QED BY <3>1, Zenon DEF SpanRep
    <2>2. Span(l, p, end[p], mark)
      BY <1>2, Zenon DEF SpanEnds
    <2>3. /\ l[p] = mark[1] /\ j + 1 \in 1..Len(l) /\ l[j + 1] = mark[1]
          /\ i \in 1..Len(l) + 1 /\ j \in 0..Len(l)
      BY <1>0, <2>2, SpanMarks, Zenon
    <2>4. l[p] \notin Opener \cup Plain \cup Closer
      BY <1>0, <2>3, PlainApart, Zenon
    <2>5. StretchApart(l, j)
      BY <1>0, <2>3, PlainApart, Zenon DEF StretchApart
    <2> HIDE DEF i, j
    <2>6. a \in Seq(Token) /\ Addressed(s, a)
      BY <2>3, <2>5, AddressedWindow, Zenon
    <2> HIDE DEF a
    <2>7. /\ x \in Seq(Token) /\ y \in Seq(Token) /\ \A k \in 1..Len(x) : x[k] = open
          /\ \A k \in 1..Len(y) : y[k] = close
      BY OneToken, Zenon
    <2> HIDE DEF x, y
    <2>8. Addressed(s, x) /\ Addressed(s, y)
      BY <2>7, AddressedNone, Zenon
    <2>9. x \o a \in Seq(Token) /\ Addressed(s, x \o a)
      <3>1. x \o a \in Seq(Token)
        BY <2>6, <2>7, ConcatProperties
      <3> QED BY <2>6, <2>7, <2>8, <3>1, AddressedConcat, Zenon
    <2>10. Addressed(s, x \o a \o y)
      BY <2>7, <2>8, <2>9, AddressedConcat, Zenon
    <2> QED BY <2>1, <2>4, <2>10, Zenon
  <1> HIDE DEF rep, m
  <1>3. AddressesApart(s, l, end, rep)
    BY <1>2, Zenon DEF AddressesApart
  <1>4. Addressed(s, R[1])
    BY <1>1, <1>3, AddressedRewrite, Zenon
  <1> QED BY <1>1, <1>4, Zenon DEF m

(* The parsers of emphasis keep the addresses, ...                         *)
LEMMA AddressedMarked ==
    ASSUME NEW l \in Seq(Token), NEW mark \in Seq(Mark), Len(mark) > 0,
           NEW open \in Emphasis, NEW close \in Emphasis, NEW s, Addressed(s, l)
    PROVE  Addressed(s, Marked(l, mark, open, close))
  <1>1. mark \in Seq(Token)
    BY MarksAreTokens, Zenon
  <1>2. SpanEnds(l, MarkEnd(l, mark), mark)
    BY <1>1, MarkEndsAre, Zenon
  <1>3. open \in Token /\ close \in Token /\ open \notin Opener /\ close \notin Opener
    BY PlainApart, Zenon DEF Token, Tag
  <1>4. Addressed(s, Spans(l, MarkEnd(l, mark), mark, open, close))
    BY <1>2, <1>3, AddressedSpans, Zenon
  <1> QED BY <1>4, Zenon DEF Marked, MarkEnd

(* and so does the parser of code.                                         *)
LEMMA AddressedCoded ==
    ASSUME NEW l \in Seq(Token), NEW s, Addressed(s, l)
    PROVE  Addressed(s, Coded(l))
  <1>1. "tick" \in Token /\ "<code>" \in Token /\ "</code>" \in Token
    BY DEF Token, Tag, Character, Mark
  <1>2. SpanEnds(l, CodeEnd(l), <<"tick">>)
    BY <1>1, CodeEndsAre, Zenon
  <1>3. "<code>" \notin Opener /\ "</code>" \notin Opener
    BY PlainApart, Zenon
  <1>4. <<"tick">> \in Seq(Mark) /\ Len(<<"tick">>) > 0
    BY MarksAre, OneElement, Zenon
  <1>5. Addressed(s, Spans(l, CodeEnd(l), <<"tick">>, "<code>", "</code>"))
    BY <1>1, <1>2, <1>3, <1>4, AddressedSpans, Zenon
  <1> QED BY <1>5, Zenon DEF Coded, CodeEnd

(* A part of the line with what is on its two sides.                       *)
LEMMA OccursAround ==
    ASSUME NEW S, NEW l \in Seq(S), NEW y \in 1..Len(l), NEW e \in y + 2..Len(l),
           NEW u, NEW v, NEW w, l[y] = u, l[y + 1] = v, l[e] = w
    PROVE  Occurs(l, <<u, v>> \o SubSeq(l, y + 2, e - 1) \o <<w>>, y)
  <1> DEFINE a == SubSeq(l, y + 2, e - 1)
             x == <<u, v>>
             z == <<w>>
             c == SubSeq(l, y, e)
  <1>1. /\ a \in Seq(S) /\ Len(a) = (e - y) - 2
        /\ \A i \in 1..(e - y) - 2 : a[i] = l[(y + i) + 1]
    <2>1. /\ y + 2 \in Int /\ e - 1 \in Int /\ \A i \in y + 2..e - 1 : l[i] \in S
          /\ ((e - 1) - (y + 2)) + 1 = (e - y) - 2 /\ \A i \in 1..(e - y) - 2 : ((y + 2) + i) - 1 = (y + i) + 1
      OBVIOUS
    <2>2. /\ a \in Seq(S) /\ Len(a) = (IF y + 2 <= e - 1 THEN ((e - 1) - (y + 2)) + 1 ELSE 0)
          /\ \A i \in 1..((e - 1) - (y + 2)) + 1 : a[i] = l[((y + 2) + i) - 1]
      BY <2>1, SubSeqProperties
    <2> HIDE DEF a
    <2>3. Len(a) = (e - y) - 2
      BY <2>2
    <2> QED BY <2>1, <2>2, <2>3, Zenon
  <1>2. /\ c \in Seq(S) /\ Len(c) = (e - y) + 1
        /\ \A i \in 1..(e - y) + 1 : c[i] = l[(y + i) - 1]
    <2>1. \A i \in y..e : l[i] \in S
      OBVIOUS
    <2>2. /\ c \in Seq(S) /\ Len(c) = (IF y <= e THEN (e - y) + 1 ELSE 0)
          /\ \A i \in 1..(e - y) + 1 : c[i] = l[(y + i) - 1]
      BY <2>1, SubSeqProperties
    <2> HIDE DEF c
    <2> QED BY <2>2
  <1>3. /\ x \in Seq(S) /\ Len(x) = 2 /\ x[1] = u /\ x[2] = v /\ z \in Seq(S) /\ Len(z) = 1 /\ z[1] = w
    <2>1. u \in S /\ v \in S /\ w \in S
      OBVIOUS
    <2> QED BY <2>1
  <1> HIDE DEF a, x, z, c
  <1> DEFINE b == x \o a
  <1>4. /\ b \in Seq(S) /\ Len(b) = Len(x) + Len(a)
        /\ \A i \in 1..Len(x) + Len(a) : b[i] = IF i <= Len(x) THEN x[i] ELSE a[i - Len(x)]
    <2>1. x \in Seq(S) /\ a \in Seq(S)
      BY <1>1, <1>3, Zenon
    <2> QED BY <2>1, ConcatProperties
  <1> HIDE DEF b
  <1> DEFINE m == b \o z
  <1>5. /\ m \in Seq(S) /\ Len(m) = Len(b) + Len(z)
        /\ \A i \in 1..Len(b) + Len(z) : m[i] = IF i <= Len(b) THEN b[i] ELSE z[i - Len(b)]
    <2>1. b \in Seq(S) /\ z \in Seq(S)
      BY <1>3, <1>4, Zenon
    <2> QED BY <2>1, ConcatProperties
  <1> HIDE DEF m
  <1>6. Len(m) = Len(c) /\ Len(c) = (e - y) + 1
    BY <1>1, <1>2, <1>3, <1>4, <1>5
  <1>7. ASSUME NEW i \in 1..Len(c)
        PROVE  m[i] = c[i]
    <2>1. /\ i \in 1..(e - y) + 1 /\ i \in 1..Len(b) + Len(z) /\ Len(b) = (e - y) /\ Len(x) = 2
          /\ Len(a) = (e - y) - 2
      BY <1>1, <1>2, <1>3, <1>4
    <2>2. c[i] = l[(y + i) - 1]
      BY <1>2, <2>1, Zenon
    <2>3. CASE i = 1
      <3>1. /\ i <= Len(b) /\ i \in 1..Len(x) + Len(a) /\ i <= Len(x) /\ (y + i) - 1 = y
        BY <2>1, <2>3
      <3>2. m[i] = b[i] /\ b[i] = x[i]
        BY <1>4, <1>5, <2>1, <3>1, Zenon
      <3> QED BY <1>3, <2>2, <2>3, <3>1, <3>2, Zenon
    <2>4. CASE i = 2
      <3>1. /\ i <= Len(b) /\ i \in 1..Len(x) + Len(a) /\ i <= Len(x) /\ (y + i) - 1 = y + 1
        BY <2>1, <2>4
      <3>2. m[i] = b[i] /\ b[i] = x[i]
        BY <1>4, <1>5, <2>1, <3>1, Zenon
      <3> QED BY <1>3, <2>2, <2>4, <3>1, <3>2, Zenon
    <2>5. CASE i \in 3..e - y
      <3>1. /\ i <= Len(b) /\ i \in 1..Len(x) + Len(a) /\ ~(i <= Len(x))
            /\ i - Len(x) \in 1..(e - y) - 2 /\ (y + (i - Len(x))) + 1 = (y + i) - 1
        BY <2>1, <2>5
      <3>2. m[i] = b[i]
        BY <1>5, <2>1, <3>1, Zenon
      <3>3. b[i] = a[i - Len(x)]
        BY <1>4, <3>1, Zenon
      <3>4. a[i - Len(x)] = l[(y + (i - Len(x))) + 1]
        BY <1>1, <3>1, Zenon
      <3> QED BY <2>2, <3>1, <3>2, <3>3, <3>4, Zenon
    <2>6. CASE i = (e - y) + 1
      <3>1. /\ ~(i <= Len(b)) /\ i - Len(b) = 1 /\ (y + i) - 1 = e
        BY <2>1, <2>6
      <3>2. m[i] = z[i - Len(b)]
        BY <1>5, <2>1, <3>1, Zenon
      <3> QED BY <1>3, <2>2, <3>1, <3>2, Zenon
    <2>7. i = 1 \/ i = 2 \/ i \in 3..e - y \/ i = (e - y) + 1
      BY <2>1
    <2> QED BY <2>3, <2>4, <2>5, <2>6, <2>7, Zenon
  <1>8. m = c
    BY <1>2, <1>5, <1>6, <1>7, SeqEqual
  <1>9. y + (Len(m) - 1) = e /\ e <= Len(l)
    BY <1>6
  <1>10. Occurs(l, m, y)
    <2>1. SubSeq(l, y, y + (Len(m) - 1)) = SubSeq(l, y, e)
      BY <1>9, Zenon
    <2>2. SubSeq(l, y, y + (Len(m) - 1)) = m
      BY <1>8, <2>1, Zenon DEF c
    <2>3. y + (Len(m) - 1) <= Len(l)
      BY <1>9, Zenon
    <2> QED BY <2>2, <2>3, Zenon DEF Occurs
  <1> QED BY <1>10 DEF m, b, x, z, a

(* ~AddressDisturbed, of any line.                                         *)
Undisturbed(s) ==
    \A q, r \in DOMAIN s :
        q < r /\ s[q] = "(" =>
            /\ s[r] \notin Mark \cup {"!"}
            /\ ~(s[r] = "[" /\ \E n \in AddressEnds(s, q + 1) : r < n)

AddressParts(s, y, e) ==
    /\ SubSeq(s, y + 2, e - 1) \in Seq(Token)
    /\ \A i \in 1..Len(SubSeq(s, y + 2, e - 1)) : SubSeq(s, y + 2, e - 1)[i] \in Plain
    /\ Stood(s, SubSeq(s, y + 2, e - 1))

(* Between y and e is what would be the address of a link or an image.     *)
AddressFrom(s, y, e) ==
    s[y] = "]" /\ s[y + 1] = "(" /\ s[e] = ")" /\ \A k \in y + 2..e : s[k] # "]"

(* It stood in parentheses, and has no mark in it when the line is         *)
(* undisturbed.                                                            *)
LEMMA AddressIs ==
    ASSUME NEW s \in Seq(Character), Undisturbed(s), NEW y \in 1..Len(s), NEW e \in y + 2..Len(s),
           AddressFrom(s, y, e)
    PROVE  AddressParts(s, y, e)
  <1> DEFINE a == SubSeq(s, y + 2, e - 1)
  <1>1. s[y] = "]" /\ s[y + 1] = "(" /\ s[e] = ")" /\ \A k \in y + 2..e : s[k] # "]"
    BY Zenon DEF AddressFrom
  <1>2. /\ y + 1 \in DOMAIN s /\ y \in DOMAIN s /\ y + 2 \in 1..Len(s) + 1 /\ (y + 1) + 1 = y + 2
        /\ e - 1 \in 0..Len(s) /\ e \in y + 2..Len(s)
        /\ \A k \in y + 2..e - 1 : k \in DOMAIN s /\ y + 1 < k /\ k < e /\ k \in y + 2..e /\ s[k] \in Character
    OBVIOUS
  <1>3. e \in AddressEnds(s, y + 2)
    BY <1>1, <1>2, AddressEndsAre, Zenon
  <1>4. ASSUME NEW k \in y + 2..e - 1 PROVE s[k] \in Plain
    <2>1. s[k] \notin Mark \cup {"!"} /\ s[k] # "["
      BY <1>1, <1>2, <1>3, Zenon DEF Undisturbed
    <2>2. s[k] # "]" /\ s[k] \in Character
      BY <1>1, <1>2, Zenon
    <2> QED BY <2>1, <2>2, Zenon DEF Character, Plain
  <1>5. a \in Seq(Plain)
    <2>1. y + 2 \in Int /\ e - 1 \in Int
      BY <1>2
    <2> QED BY <1>4, <2>1, SubSeqProperties
  <1>6. a \in Seq(Token) /\ \A i \in 1..Len(a) : a[i] \in Plain
    <2>1. Plain \subseteq Token
      BY Zenon DEF Plain, Token, Character
    <2> HIDE DEF a
    <2> QED BY <1>5, <2>1
  <1>7. Stood(s, a)
    <2>1. Occurs(s, <<"]", "(">> \o a \o <<")">>, y)
      BY <1>1, OccursAround, Zenon
    <2> QED BY <1>2, <2>1, Zenon DEF Stood
  <1> QED BY <1>6, <1>7, Zenon DEF AddressParts

(* A tag for a link or an image has its address.                           *)
LEMMA TagAddressed ==
    ASSUME NEW o \in Token, NEW a \in Seq(Token), NEW v \in Token, NEW b \in Seq(Token),
           NEW w \in Token, NEW s, o \in Opener, v \in Closer, w \notin Opener, Stood(s, a),
           \A i \in 1..Len(a) : a[i] \in Plain, Addressed(s, b)
    PROVE  Addressed(s, <<o>> \o a \o <<v>> \o b \o <<w>>)
  <1> DEFINE c == <<o>> \o a \o <<v>>
             d == <<w>>
  <1>1. c \in Seq(Token) /\ Addressed(s, c)
    BY AddressedTag, Zenon
  <1>2. d \in Seq(Token) /\ Addressed(s, d)
    <2>1. d \in Seq(Token) /\ \A k \in 1..Len(d) : d[k] = w
      BY OneToken, Zenon
    <2> HIDE DEF d
    <2> QED BY <2>1, AddressedNone, Zenon
  <1> HIDE DEF c, d
  <1>3. c \o b \in Seq(Token) /\ Addressed(s, c \o b)
    <2>1. c \o b \in Seq(Token)
      BY <1>1, ConcatProperties
    <2> QED BY <1>1, <2>1, AddressedConcat, Zenon
  <1>4. Addressed(s, c \o b \o d)
    BY <1>2, <1>3, AddressedConcat, Zenon
  <1> QED BY <1>4, Zenon DEF c, d

(* Characters are no tags, and have no addresses.                          *)
LEMMA CharactersAddressed ==
    ASSUME NEW a \in Seq(Character), NEW s
    PROVE  Addressed(s, a)
  <1>1. \A k \in 1..Len(a) : a[k] \in Character
    OBVIOUS
  <1> QED BY <1>1, PlainApart, AddressedNone, Zenon

(* The addresses of the images.                                            *)
LEMMA ImagesAddressed ==
    ASSUME NEW s \in Seq(Character), Undisturbed(s)
    PROVE  Addressed(s, Images(s))
  <1> DEFINE end == ImageEnd(s)
             rep == ImageRep(s)
  <1>0. s \in Seq(Token)
    BY SourceAccounted, Zenon
  <1>1. PICK R : Rewriting(Token, s, end, rep, R) /\ Images(s) = R[1]
    <2>1. ReplacedBy(Token, s, end, rep, Images(s))
      BY <1>0, ImagesRewrite, Zenon
    <2> QED BY <2>1, Zenon DEF ReplacedBy
  <1>2. ASSUME NEW p \in 1..Len(s), end[p] # 0
        PROVE  s[p] \notin Opener \cup Plain \cup Closer /\ Addressed(s, rep[p])
    <2> DEFINE q == p + 1
               u == UrlStart(s, q)
               e == end[p]
               y == u - 2
               a == SubSeq(s, u, e - 1)
               b == SubSeq(s, p + 2, u - 3)
               o == "<img src='"
               v == "' alt='"
               w == "'/>"
    <2>1. ImageAt(Character, s, p)
      BY <1>2, ImageIs, Zenon
    <2>2. /\ u \in Nat /\ e \in q..Len(s) /\ Bracket(s, q, u, e) /\ s[p] = "!"
          /\ rep[p] = ImageHtml(b, a) /\ b \in Seq(Character) /\ a \in Seq(Character)
      BY <2>1, Zenon DEF ImageAt
    <2>3. q \in 1..Len(s) /\ e \in Nat
      <3>1. e \in q..Len(s)
        BY <2>2, Zenon
      <3> HIDE DEF e
      <3> QED BY <3>1
    <2>4. /\ e \in u..Len(s) /\ u - 2 \in q + 1..Len(s)
      BY <2>2, <2>3, BracketRange, Zenon
    <2>5. /\ s[u - 2] = "]" /\ s[u - 1] = "(" /\ s[e] = ")" /\ \A k \in u..e : s[k] # "]"
      BY <2>2, Zenon DEF Bracket
    <2>6. y \in 1..Len(s) /\ y + 2 = u /\ y + 1 = u - 1 /\ e \in y + 2..Len(s)
      <3>1. u \in Nat
        BY <2>2, Zenon
      <3> HIDE DEF e, u
      <3> QED BY <2>3, <2>4, <3>1
    <2>7. AddressFrom(s, y, e)
      BY <2>5, <2>6, Zenon DEF AddressFrom
    <2> HIDE DEF y, e, u
    <2>8. AddressParts(s, y, e)
      BY <2>6, <2>7, AddressIs, Zenon
    <2>9. a \in Seq(Token) /\ Stood(s, a) /\ \A i \in 1..Len(a) : a[i] \in Plain
      BY <2>6, <2>8, Zenon DEF AddressParts
    <2>10. b \in Seq(Token) /\ Addressed(s, b)
      BY <2>2, SourceAccounted, CharactersAddressed, Zenon
    <2>11. /\ o \in Token /\ v \in Token /\ w \in Token /\ o \in Opener /\ v \in Closer /\ w \notin Opener
      BY TokensAre, PlainApart, Zenon DEF Opener, Closer
    <2>12. rep[p] = <<o>> \o a \o <<v>> \o b \o <<w>>
      BY <2>2, Zenon DEF ImageHtml
    <2> HIDE DEF a, b, o, v, w
    <2>13. Addressed(s, <<o>> \o a \o <<v>> \o b \o <<w>>)
      BY <2>9, <2>10, <2>11, TagAddressed, Zenon
    <2>14. s[p] \notin Opener \cup Plain \cup Closer
      BY <2>2, PlainApart, Zenon
    <2> QED BY <2>12, <2>13, <2>14, Zenon
  <1> HIDE DEF end, rep
  <1>3. AddressesApart(s, s, end, rep)
    BY <1>2, Zenon DEF AddressesApart
  <1>4. Addressed(s, s)
    BY CharactersAddressed, Zenon
  <1>5. Addressed(s, R[1])
    BY <1>0, <1>1, <1>3, <1>4, AddressedRewrite, Zenon
  <1> QED BY <1>1, <1>5, Zenon

(* From x on, m is what the line is from y on.                             *)
SameTail(s, m, x, y) ==
    Len(m) - x = Len(s) - y /\ \A i \in 0..Len(s) - y : m[x + i] = s[y + i]

(* What is read as an address in m was there in the line, with all behind  *)
(* it.                                                                     *)
TailAt(s, m, x) == \E y \in 1..Len(s) : SameTail(s, m, x, y)
TailsKept(s, m) == \A x \in 1..Len(m) - 1 : m[x] = "]" /\ m[x + 1] = "(" => TailAt(s, m, x)

(* A tail is one, whatever is in front of it, ...                          *)
LEMMA TailBehind ==
    ASSUME NEW S, NEW a \in Seq(S), NEW b \in Seq(S), NEW T, NEW s \in Seq(T),
           NEW x \in 1..Len(b), TailAt(s, b, x)
    PROVE  TailAt(s, a \o b, Len(a) + x)
  <1> DEFINE m == a \o b
             n == Len(a)
  <1>1. /\ m \in Seq(S) /\ Len(m) = n + Len(b) /\ n \in Nat /\ Len(b) \in Nat /\ Len(s) \in Nat
        /\ \A i \in 1..n + Len(b) : m[i] = IF i <= n THEN a[i] ELSE b[i - n]
    BY ConcatProperties
  <1> HIDE DEF m, n
  <1>2. PICK y \in 1..Len(s) : SameTail(s, b, x, y)
    BY Zenon DEF TailAt
  <1>3. Len(b) - x = Len(s) - y /\ \A i \in 0..Len(s) - y : b[x + i] = s[y + i]
    BY <1>2, Zenon DEF SameTail
  <1>4. Len(m) - (n + x) = Len(s) - y
    BY <1>1, <1>3
  <1>5. ASSUME NEW i \in 0..Len(s) - y
        PROVE  m[(n + x) + i] = s[y + i]
    <2>1. /\ (n + x) + i \in 1..n + Len(b) /\ ~((n + x) + i <= n) /\ ((n + x) + i) - n = x + i
      BY <1>1, <1>3
    <2> QED BY <1>1, <1>3, <2>1, Zenon
  <1>6. SameTail(s, m, n + x, y)
    BY <1>4, <1>5, Zenon DEF SameTail
  <1>7. TailAt(s, m, n + x)
    BY <1>6, Zenon DEF TailAt
  <1> QED BY <1>7 DEF m, n

(* The first part may end where an address begins, no more.                *)
LEMMA TailsConcat ==
    ASSUME NEW S, NEW a \in Seq(S), NEW b \in Seq(S), NEW T, NEW s \in Seq(T), TailsKept(s, b),
           \A x \in 1..Len(a) :
               x + 1 \in 1..Len(a \o b) /\ (a \o b)[x] = "]" /\ (a \o b)[x + 1] = "(" =>
                   TailAt(s, a \o b, x)
    PROVE  TailsKept(s, a \o b)
  <1> DEFINE m == a \o b
             n == Len(a)
             c == "]"
             d == "("
  <1>1. /\ m \in Seq(S) /\ Len(m) = n + Len(b) /\ n \in Nat /\ Len(b) \in Nat
        /\ \A i \in 1..n + Len(b) : m[i] = IF i <= n THEN a[i] ELSE b[i - n]
    BY ConcatProperties, SMT
  <1>2. \A x \in 1..n : x + 1 \in 1..Len(m) /\ m[x] = c /\ m[x + 1] = d => TailAt(s, m, x)
    BY Zenon
  <1>3. \A x \in 1..Len(b) - 1 : b[x] = c /\ b[x + 1] = d => TailAt(s, b, x)
    BY Zenon DEF TailsKept
  <1> HIDE DEF m, c, d
  <1>4. ASSUME NEW x \in 1..Len(m) - 1, m[x] = c, m[x + 1] = d
        PROVE  TailAt(s, m, x)
    <2>1. x + 1 \in 1..Len(m) /\ (x \in 1..n \/ x \in n + 1..n + Len(b) - 1)
      BY <1>1
    <2>2. CASE x \in 1..n
      BY <1>2, <1>4, <2>1, <2>2, Zenon
    <2>3. CASE x \in n + 1..n + Len(b) - 1
      <3> DEFINE h == x - n
      <3>1. /\ h \in 1..Len(b) - 1 /\ h \in 1..Len(b) /\ n + h = x /\ (x + 1) - n = h + 1
            /\ x \in 1..n + Len(b) /\ x + 1 \in 1..n + Len(b) /\ ~(x <= n) /\ ~(x + 1 <= n)
        BY <1>1, <2>3
      <3>2. b[h] = c /\ b[h + 1] = d
        <4>1. m[x] = b[x - n]
          BY <1>1, <3>1, Zenon
        <4>2. m[x + 1] = b[(x + 1) - n]
          BY <1>1, <3>1, Zenon
        <4> QED BY <1>4, <3>1, <4>1, <4>2, Zenon
      <3> HIDE DEF h
      <3>3. TailAt(s, b, h)
        BY <1>3, <3>1, <3>2, Zenon
      <3>4. TailAt(s, a \o b, Len(a) + h)
        BY <3>1, <3>3, TailBehind, Zenon
      <3> QED BY <3>1, <3>4, Zenon DEF m
    <2> QED BY <2>1, <2>2, <2>3, Zenon
  <1> QED BY <1>4, Zenon DEF TailsKept, m, c, d

(* No bracket closes in what is put in for an image.                       *)
LEMMA NoneClosesInTag ==
    ASSUME NEW s \in Seq(Token), NEW p \in 1..Len(s), ImageEnd(s)[p] # 0
    PROVE  \A x \in 1..Len(ImageRep(s)[p]) : ImageRep(s)[p][x] # "]"
  <1> DEFINE q == p + 1
             u == UrlStart(s, q)
             e == ImageEnd(s)[p]
             a == SubSeq(s, u, e - 1)
             b == SubSeq(s, p + 2, u - 3)
             o == "<img src='"
             v == "' alt='"
             w == "'/>"
             c == "]"
             T == Token \ {c}
  <1>1. ImageAt(Token, s, p)
    BY ImageIs, Zenon
  <1>2. /\ u \in Nat /\ e \in q..Len(s) /\ Bracket(s, q, u, e) /\ ImageRep(s)[p] = ImageHtml(b, a)
    BY <1>1, Zenon DEF ImageAt
  <1>3. q \in 1..Len(s) /\ e \in Nat /\ q + 1 = p + 2
    <2>1. e \in q..Len(s)
      BY <1>2, Zenon
    <2> HIDE DEF e
    <2> QED BY <2>1
  <1>4. /\ u \in 1..Len(s) + 1 /\ e \in 1..Len(s) /\ e - 1 \in 0..Len(s) /\ u - 3 \in 0..Len(s)
        /\ q + 1 \in 1..Len(s) + 1
    BY <1>2, <1>3, BracketRange, Zenon
  <1>5. /\ \A k \in q + 1..u - 3 : s[k] # c
        /\ \A k \in u..e : s[k] # c
    BY <1>2, Zenon DEF Bracket
  <1> HIDE DEF u, e
  <1>6. /\ \A k \in p + 2..u - 3 : k \in 1..Len(s) /\ k \in q + 1..u - 3
        /\ \A k \in u..e - 1 : k \in 1..Len(s) /\ k \in u..e
        /\ p + 2 \in Int /\ u - 3 \in Int /\ u \in Int /\ e - 1 \in Int
    BY <1>3, <1>4
  <1> HIDE DEF q
  <1>7. \A k \in 1..Len(s) : s[k] \in Token
    OBVIOUS
  <1>8. /\ \A k \in p + 2..u - 3 : s[k] \in T
        /\ \A k \in u..e - 1 : s[k] \in T
    BY <1>5, <1>6, <1>7, Zenon
  <1>9. o \in T /\ v \in T /\ w \in T
    BY TokensAre, Zenon
  <1> HIDE DEF T, o, v, w
  <1>10. a \in Seq(T) /\ b \in Seq(T)
    BY <1>6, <1>8, SubSeqProperties
  <1> DEFINE m == <<o>> \o a \o <<v>> \o b \o <<w>>
  <1>11. ImageRep(s)[p] = m
    BY <1>2, Zenon DEF ImageHtml, o, v, w
  <1> HIDE DEF a, b
  <1>12. m \in Seq(T)
    <2>1. <<o>> \in Seq(T) /\ <<v>> \in Seq(T) /\ <<w>> \in Seq(T)
      BY <1>9, OneToken, Zenon
    <2> DEFINE x == <<o>>
               y == <<v>>
               z == <<w>>
    <2> HIDE DEF x, y, z
    <2>2. x \in Seq(T) /\ y \in Seq(T) /\ z \in Seq(T)
      BY <2>1 DEF x, y, z
    <2>3. x \o a \in Seq(T)
      BY <1>10, <2>2, ConcatProperties
    <2>4. x \o a \o y \in Seq(T)
      BY <2>2, <2>3, ConcatProperties
    <2>5. x \o a \o y \o b \in Seq(T)
      BY <1>10, <2>4, ConcatProperties
    <2>6. x \o a \o y \o b \o z \in Seq(T)
      BY <2>2, <2>5, ConcatProperties
    <2> QED BY <2>6 DEF x, y, z
  <1> HIDE DEF m
  <1>13. \A x \in 1..Len(m) : m[x] \in T
    BY <1>12
  <1> QED BY <1>11, <1>13, Zenon DEF T

(* Behind "](" nothing of an undisturbed line is an image.                 *)
LEMMA TailHere ==
    ASSUME NEW s \in Seq(Character), Undisturbed(s), NEW R,
           Rewriting(Token, s, ImageEnd(s), ImageRep(s), R), NEW q \in 1..Len(s),
           ImageEnd(s)[q] = 0, Len(R[q + 1]) > 0, R[q + 1][1] = "("
    PROVE  TailAt(s, R[q], 1)
  <1> DEFINE n == Len(s)
             end == ImageEnd(s)
  <1>0. s \in Seq(Token)
    BY SourceAccounted, Zenon
  <1>1. q + 1 \in 1..n /\ end[q + 1] = 0 /\ s[q + 1] = "("
    <2>1. "(" # "<img src='"
      BY Zenon
    <2>2. q + 1 \in 1..Len(s) + 1
      OBVIOUS
    <2>3. q + 1 \in 1..Len(s) /\ ImageEnd(s)[q + 1] = 0 /\ R[q + 1][1] = s[q + 1]
      BY <1>0, <2>1, <2>2, BeginsAsLine, Zenon
    <2> QED BY <2>3, Zenon
  <1>2. \A r \in q..n : r \in DOMAIN s /\ q + 1 \in DOMAIN s /\ (r = q \/ r = q + 1 \/ q + 1 < r)
    BY <1>1
  <1>3. NoMatch(end, q, n)
    <2>1. ASSUME NEW r \in q..n, q + 1 < r PROVE end[r] = 0
      <3>1. s[r] # "!"
        BY <1>1, <1>2, <2>1, Zenon DEF Undisturbed
      <3> QED BY <1>2, <3>1, Zenon DEF ImageEnd
    <2> QED BY <1>1, <1>2, <2>1, Zenon DEF NoMatch
  <1> HIDE DEF end
  <1>4. Stretch(s, R, q, n)
    <2>1. n \in 0..n /\ q \in 1..n + 1
      OBVIOUS
    <2> QED BY <1>0, <1>3, <2>1, StretchIs, Zenon DEF end
  <1>5. Len(R[n + 1]) = 0
    <2>1. R[n + 1] = <<>>
      BY <1>0, NothingBehind, Zenon
    <2>2. Len(<<>>) = 0
      OBVIOUS
    <2> QED BY <2>1, <2>2, Zenon
  <1>6. Len(R[q]) = ((n - q) + 1) + 0 /\ \A i \in q..n : R[q][(i - q) + 1] = s[i]
    BY <1>4, <1>5, Zenon DEF Stretch
  <1>7. Len(R[q]) - 1 = n - q
    BY <1>6
  <1>8. \A i \in 0..n - q : R[q][1 + i] = s[q + i]
    <2>1. \A i \in 0..n - q : q + i \in q..n /\ ((q + i) - q) + 1 = 1 + i
      OBVIOUS
    <2> QED BY <1>6, <2>1, Zenon
  <1>9. SameTail(s, R[q], 1, q)
    BY <1>7, <1>8, Zenon DEF SameTail
  <1> QED BY <1>9, Zenon DEF TailAt

(* So ImageParser leaves what is behind a "](" as it was.                  *)
LEMMA TailsOfImages ==
    ASSUME NEW s \in Seq(Character), Undisturbed(s)
    PROVE  TailsKept(s, Images(s))
  <1> DEFINE end == ImageEnd(s)
             rep == ImageRep(s)
             n == Len(s)
  <1>0. s \in Seq(Token)
    BY SourceAccounted, Zenon
  <1>1. PICK R : Rewriting(Token, s, end, rep, R) /\ Images(s) = R[1]
    <2>1. ReplacedBy(Token, s, end, rep, Images(s))
      BY <1>0, ImagesRewrite, Zenon
    <2> QED BY <2>1, Zenon DEF ReplacedBy
  <1> DEFINE P == {q \in 1..n + 1 : TailsKept(s, R[q])}
  <1>2. /\ n \in Nat /\ n + 1 \in 1..n + 1 /\ 1 \in 1..n + 1
        /\ \A q \in 1..n : q \in 1..n + 1 /\ q + 1 \in q + 1..n + 1
        /\ \A q \in 1..n : \A r \in q + 1..n + 1 : r \in 1..n + 1
    OBVIOUS
  <1>3. TailsKept(s, R[n + 1])
    <2>1. R[n + 1] = <<>>
      BY <1>0, <1>1, NothingBehind, Zenon
    <2>2. \A k : k \notin 1..Len(<<>>) - 1
      OBVIOUS
    <2> QED BY <2>1, <2>2, Zenon DEF TailsKept
  <1>4. ASSUME NEW q \in 1..n, \A r \in q + 1..n + 1 : r \in P
        PROVE  TailsKept(s, R[q])
    <2>0. \A r \in q + 1..n + 1 : TailsKept(s, R[r])
      BY <1>4, Zenon
    <2>1. CASE end[q] = 0
      <3> DEFINE a == <<s[q]>>
                 b == R[q + 1]
      <3>1. a \in Seq(Token) /\ b \in Seq(Token) /\ R[q] = a \o b
        <4>1. Copied(Token, s, R, q)
          BY <1>0, <1>1, <2>1, WhereNone, Zenon
        <4> QED BY <4>1, Zenon DEF Copied
      <3>2. TailsKept(s, b)
        BY <1>2, <2>0, Zenon
      <3>3. ASSUME NEW x \in 1..Len(a), x + 1 \in 1..Len(a \o b), (a \o b)[x + 1] = "("
            PROVE  TailAt(s, a \o b, x)
        <4>1. s[q] \in Token
          BY <1>0, PlacesOf, Zenon
        <4>2. x = 1 /\ Len(b) > 0 /\ (a \o b)[x + 1] = b[1]
          <5> DEFINE y == s[q]
          <5>1. y \in Token /\ b \in Seq(Token) /\ x \in 1..Len(<<y>>) /\ x + 1 \in 1..Len(<<y>> \o b)
            BY <3>1, <3>3, <4>1
          <5> HIDE DEF y, b
          <5>2. x = 1 /\ Len(b) > 0 /\ (<<y>> \o b)[x + 1] = b[1]
            BY <5>1, SecondOf
          <5> QED BY <5>2 DEF y
        <4>3. TailAt(s, R[q], 1)
          BY <1>1, <2>1, <3>3, <4>2, TailHere, Zenon
        <4> QED BY <3>1, <4>2, <4>3, Zenon
      <3> HIDE DEF a, b
      <3> QED BY <3>1, <3>2, <3>3, TailsConcat, Zenon
    <2>2. CASE end[q] # 0
      <3> DEFINE a == rep[q]
                 b == R[end[q] + 1]
      <3>1. Put(Token, s, end, rep, R, q)
        BY <1>0, <1>1, <2>2, WhereOne, Zenon
      <3>2. a \in Seq(Token) /\ b \in Seq(Token) /\ R[q] = a \o b /\ end[q] + 1 \in q + 1..n + 1
        BY <3>1, Zenon DEF Put
      <3>3. TailsKept(s, b)
        BY <1>2, <2>0, <3>2, Zenon
      <3>4. \A x \in 1..Len(a) : a[x] # "]"
        BY <1>0, <2>2, NoneClosesInTag, Zenon
      <3> HIDE DEF a, b
      <3>5. ASSUME NEW x \in 1..Len(a), (a \o b)[x] = "]" PROVE FALSE
        <4>1. (a \o b)[x] = a[x]
          BY <3>2, FrontOf, Zenon
        <4> QED BY <3>4, <3>5, <4>1, Zenon
      <3> QED BY <3>2, <3>3, <3>5, TailsConcat, Zenon
    <2> QED BY <2>1, <2>2, Zenon
  <1>5. n + 1 \in P
    BY <1>2, <1>3, Zenon
  <1>6. ASSUME NEW q \in 1..n, \A r \in q + 1..n + 1 : r \in P PROVE q \in P
    BY <1>2, <1>4, <1>6, Zenon
  <1> HIDE DEF P
  <1>7. \A q \in 1..n + 1 : q \in P
    <2> HIDE DEF n
    <2> QED BY <1>2, <1>5, <1>6, DownInduction, Zenon
  <1>8. 1 \in P
    BY <1>2, <1>7, Zenon
  <1> QED BY <1>1, <1>8, Zenon DEF P

(* The address of a link is one of the line, whatever the parser of images *)
(* has done.                                                               *)
LEMMA LinkAddress ==
    ASSUME NEW s \in Seq(Character), Undisturbed(s), NEW l \in Seq(Token), TailsKept(s, l),
           NEW u \in Nat, NEW e \in u..Len(l), 1 <= u - 2,
           l[u - 2] = "]", l[u - 1] = "(", l[e] = ")", \A k \in u..e : l[k] # "]"
    PROVE  /\ \A i \in 1..Len(SubSeq(l, u, e - 1)) : SubSeq(l, u, e - 1)[i] \in Plain
           /\ Stood(s, SubSeq(l, u, e - 1))
  <1> DEFINE x == u - 2
             cb == "]"
             op == "("
             cl == ")"
  <1>0. l[x] = cb /\ l[u - 1] = op /\ l[e] = cl /\ \A k \in u..e : l[k] # cb
    BY Zenon
  <1>1. /\ x \in 1..Len(l) - 1 /\ x + 1 = u - 1 /\ x \in 1..Len(l) /\ x + 2 = u /\ Len(l) \in Nat
        /\ e \in 1..Len(l) /\ x \in Nat
    OBVIOUS
  <1>2. TailAt(s, l, x)
    BY <1>0, <1>1, Zenon DEF TailsKept
  <1> HIDE DEF cb, op, cl, x
  <1>3. PICK y \in 1..Len(s) : SameTail(s, l, x, y)
    BY <1>2, Zenon DEF TailAt
  <1>4. Len(l) - x = Len(s) - y /\ \A i \in 0..Len(s) - y : l[x + i] = s[y + i]
    BY <1>3, Zenon DEF SameTail
  <1> DEFINE d == y - x
             f == e + d
  <1>5. /\ d \in Int /\ f \in y + 2..Len(s) /\ y + 1 = (x + 1) + d /\ Len(s) \in Nat
        /\ \A i \in x..Len(l) : i + d \in 1..Len(s) /\ i - x \in 0..Len(s) - y
                                /\ x + (i - x) = i /\ y + (i - x) = i + d
    <2>1. Len(l) - x = Len(s) - y /\ Len(s) \in Nat
      BY <1>4
    <2> QED BY <1>1, <2>1
  <1>6. ASSUME NEW i \in x..Len(l)
        PROVE  i + d \in 1..Len(s) /\ s[i + d] = l[i]
    BY <1>4, <1>5, Zenon
  <1>7. /\ x \in x..Len(l) /\ x + 1 \in x..Len(l) /\ e \in x..Len(l) /\ x + d = y
        /\ \A k \in y + 2..f : k - d \in u..e /\ k - d \in x..Len(l) /\ (k - d) + d = k
        /\ \A k \in x + 1..e : k \in x..Len(l)
        /\ x + 1 \in 1..Len(l) /\ e \in (x + 1) + 1..Len(l) /\ (x + 1) + 1 = u
        /\ ((x + 1) + d) + 1 = y + 2
    BY <1>1, <1>5
  <1>8. s[y] = cb /\ s[y + 1] = op /\ s[f] = cl
    <2>1. s[y] = l[x]
      BY <1>6, <1>7, Zenon
    <2>2. s[y + 1] = l[x + 1]
      BY <1>5, <1>6, <1>7, Zenon
    <2>3. s[f] = l[e]
      BY <1>6, <1>7, Zenon
    <2> QED BY <1>0, <1>1, <2>1, <2>2, <2>3, Zenon
  <1>9. \A k \in y + 2..f : s[k] # cb
    <2> SUFFICES ASSUME NEW k \in y + 2..f PROVE s[k] # cb
      BY Zenon
    <2> DEFINE i == k - d
    <2>1. i \in u..e /\ i \in x..Len(l) /\ i + d = k
      BY <1>7, Zenon
    <2> HIDE DEF i, f, d
    <2>2. s[i + d] = l[i] /\ l[i] # cb
      BY <1>0, <1>6, <2>1, Zenon
    <2> QED BY <2>1, <2>2, Zenon
  <1>10. AddressFrom(s, y, f)
    BY <1>8, <1>9, Zenon DEF AddressFrom, cb, op, cl
  <1>11. AddressParts(s, y, f)
    BY <1>5, <1>10, AddressIs, Zenon
  <1>12. SubSeq(l, u, e - 1) = SubSeq(s, y + 2, f - 1)
    <2> DEFINE k == x + 1
    <2>1. SameAt(l, s, k, e, d)
      BY <1>6, <1>7, Zenon DEF SameAt
    <2>2. k \in 1..Len(l) /\ e \in k + 1..Len(l) /\ d \in Int
      BY <1>5, <1>7, Zenon
    <2>3. s \in Seq(Token)
      BY SourceAccounted, Zenon
    <2> HIDE DEF k, d
    <2>4. SubSeq(l, k + 1, e - 1) = SubSeq(s, (k + d) + 1, (e + d) - 1)
      BY <2>1, <2>2, <2>3, WindowMoved
    <2> QED BY <1>7, <2>4, Zenon DEF k
  <1> QED BY <1>11, <1>12, Zenon DEF AddressParts

(* LinkParser gives each link its address.                                 *)
LEMMA LinksAddressed ==
    ASSUME NEW s \in Seq(Character), Undisturbed(s), NEW l \in Seq(Token), TailsKept(s, l),
           Addressed(s, l)
    PROVE  Addressed(s, Links(l))
  <1> DEFINE end == LinkEnd(l)
             rep == LinkRep(l)
  <1>1. PICK R : Rewriting(Token, l, end, rep, R) /\ Links(l) = R[1]
    <2>1. ReplacedBy(Token, l, end, rep, Links(l))
      BY LinksRewrite, Zenon
    <2> QED BY <2>1, Zenon DEF ReplacedBy
  <1>2. ASSUME NEW p \in 1..Len(l), end[p] # 0
        PROVE  l[p] \notin Opener \cup Plain \cup Closer /\ Addressed(s, rep[p])
    <2> DEFINE u == UrlStart(l, p)
               e == end[p]
               a == SubSeq(l, u, e - 1)
               b == SubSeq(l, p + 1, u - 3)
               o == "<a href='"
               v == "'>"
               w == "</a>"
    <2>1. LinkAt(Token, l, p)
      BY <1>2, LinkIs, Zenon
    <2>2. /\ u \in Nat /\ e \in p..Len(l) /\ Bracket(l, p, u, e)
          /\ rep[p] = LinkHtml(b, a) /\ b \in Seq(Token) /\ a \in Seq(Token)
      BY <2>1, Zenon DEF LinkAt
    <2>3. e \in Nat
      BY <2>2, RangeType, Zenon
    <2>4. /\ e \in u..Len(l) /\ u - 2 \in p + 1..Len(l) /\ u - 3 \in 0..Len(l) /\ p + 1 \in 1..Len(l) + 1
      BY <2>2, <2>3, BracketRange, Zenon
    <2>5. /\ l[p] = "[" /\ l[u - 2] = "]" /\ l[u - 1] = "(" /\ l[e] = ")" /\ \A k \in u..e : l[k] # "]"
      BY <2>2, Zenon DEF Bracket
    <2>6. 1 <= u - 2 /\ (u - 3) + 1 = u - 2 /\ u - 2 \in 1..Len(l)
      <3>1. u \in Nat
        BY <2>2, Zenon
      <3> HIDE DEF u
      <3> QED BY <2>4, <3>1
    <2> HIDE DEF e, u
    <2>7. Stood(s, a) /\ \A i \in 1..Len(a) : a[i] \in Plain
      BY <2>2, <2>4, <2>5, <2>6, LinkAddress, Zenon
    <2>8. Addressed(s, b)
      <3>1. StretchApart(l, u - 3)
        BY <2>5, <2>6, PlainApart, Zenon DEF StretchApart
      <3> QED BY <2>4, <3>1, AddressedWindow, Zenon
    <2>9. /\ o \in Token /\ v \in Token /\ w \in Token /\ o \in Opener /\ v \in Closer /\ w \notin Opener
      BY TokensAre, PlainApart, Zenon DEF Opener, Closer
    <2>10. rep[p] = <<o>> \o a \o <<v>> \o b \o <<w>>
      BY <2>2, Zenon DEF LinkHtml
    <2> HIDE DEF a, b, o, v, w
    <2>11. Addressed(s, <<o>> \o a \o <<v>> \o b \o <<w>>)
      BY <2>2, <2>7, <2>8, <2>9, TagAddressed, Zenon
    <2>12. l[p] \notin Opener \cup Plain \cup Closer
      BY <2>5, PlainApart, Zenon
    <2> QED BY <2>10, <2>11, <2>12, Zenon
  <1> HIDE DEF end, rep
  <1>3. AddressesApart(s, l, end, rep)
    BY <1>2, Zenon DEF AddressesApart
  <1>4. Addressed(s, R[1])
    BY <1>1, <1>3, AddressedRewrite, Zenon
  <1> QED BY <1>1, <1>4, Zenon

(* In the finished line of a source that is not disturbed, each link and   *)
(* each image has its address.                                             *)
LEMMA FinishedAddressed ==
    ASSUME NEW s \in Seq(Character), Undisturbed(s)
    PROVE  Addressed(s, AfterItalic(s))
  <1>1. /\ s \in Seq(Token) /\ AfterImages(s) \in Seq(Token) /\ AfterLinks(s) \in Seq(Token)
        /\ AfterStars(s) \in Seq(Token) /\ AfterStrong(s) \in Seq(Token)
        /\ AfterEmphasized(s) \in Seq(Token) /\ AfterStrikeThrough(s) \in Seq(Token)
        /\ AfterCode(s) \in Seq(Token)
    BY SourceAccounted, StagesAccounted, Zenon DEF Accounted
  <1>2. Addressed(s, AfterImages(s)) /\ TailsKept(s, AfterImages(s))
    BY ImagesAddressed, TailsOfImages, Zenon DEF AfterImages
  <1>3. Addressed(s, AfterLinks(s))
    BY <1>1, <1>2, LinksAddressed, Zenon DEF AfterLinks
  <1>4. /\ "<strong>" \in Emphasis /\ "</strong>" \in Emphasis /\ "<em>" \in Emphasis
        /\ "</em>" \in Emphasis /\ "<s>" \in Emphasis /\ "</s>" \in Emphasis
        /\ "<i>" \in Emphasis /\ "</i>" \in Emphasis
    BY Zenon DEF Emphasis
  <1>5. 2 > 0 /\ 1 > 0
    OBVIOUS
  <1>6. Addressed(s, AfterStars(s))
    BY <1>1, <1>3, <1>4, <1>5, AddressedMarked, MarksAre, Zenon DEF AfterStars
  <1>7. Addressed(s, AfterStrong(s))
    BY <1>1, <1>4, <1>5, <1>6, AddressedMarked, MarksAre, Zenon DEF AfterStrong
  <1>8. Addressed(s, AfterEmphasized(s))
    BY <1>1, <1>4, <1>5, <1>7, AddressedMarked, MarksAre, Zenon DEF AfterEmphasized
  <1>9. Addressed(s, AfterStrikeThrough(s))
    BY <1>1, <1>4, <1>5, <1>8, AddressedMarked, MarksAre, Zenon DEF AfterStrikeThrough
  <1>10. Addressed(s, AfterCode(s))
    BY <1>1, <1>9, AddressedCoded, Zenon DEF AfterCode
  <1> QED BY <1>1, <1>4, <1>5, <1>10, AddressedMarked, MarksAre, Zenon DEF AfterItalic

(* The positions from p to c.                                              *)
LEMMA PlacesFrom ==
    ASSUME NEW S, NEW l \in Seq(S), NEW p \in 1..Len(l), NEW c \in p + 1..Len(l)
    PROVE  /\ c \in p..Len(l) + 1 /\ p \in 1..Len(l) + 1
           /\ \A k \in p..c - 1 : k = p \/ k \in p + 1..c - 1
  <1> QED OBVIOUS

(* AddressesKept, of the finished line.                                    *)
LEMMA AddressedIs ==
    ASSUME source \in Seq(Character), line = AfterItalic(source)
    PROVE  ~AddressDisturbed =>
               \A p \in Positions(line, "<a href='") \cup Positions(line, "<img src='") :
                   \E q \in DOMAIN source :
                       Occurs(source, <<"]", "(">> \o Attribute(p) \o <<")">>, q)
  <1> SUFFICES ASSUME ~AddressDisturbed,
                      NEW p \in Positions(line, "<a href='") \cup Positions(line, "<img src='")
               PROVE  \E q \in DOMAIN source :
                          Occurs(source, <<"]", "(">> \o Attribute(p) \o <<")">>, q)
    BY Zenon
  <1>1. Undisturbed(source)
    BY Zenon DEF Undisturbed, AddressDisturbed
  <1>2. Addressed(source, line)
    BY <1>1, FinishedAddressed, Zenon
  <1>3. line \in Seq(Token) /\ DOMAIN line = 1..Len(line)
    BY FinishedType, Zenon
  <1>4. p \in 1..Len(line) /\ line[p] \in Opener
    BY <1>3, Zenon DEF Positions, Opener
  <1>5. PICK c \in p + 1..Len(line) : Address(source, line, p, c)
    <2>1. HasAddress(source, line, p)
      BY <1>2, <1>4, Zenon DEF Addressed
    <2> QED BY <2>1, Zenon DEF HasAddress
  <1>6. /\ line[c] \in Closer /\ \A i \in p + 1..c - 1 : line[i] \in Plain
        /\ Stood(source, SubSeq(line, p + 1, c - 1))
    BY <1>5, Zenon DEF Address
  <1>7. NextOf(line, Closer, p) = c
    <2>1. \A k \in p..c - 1 : line[k] \notin Closer
      <3>1. \A k \in p..c - 1 : k = p \/ k \in p + 1..c - 1
        BY <1>3, <1>4, PlacesFrom, Zenon
      <3> QED BY <1>4, <1>6, <3>1, PlainApart, Zenon
    <2>2. c \in p..Len(line) + 1 /\ p \in 1..Len(line) + 1
      BY <1>3, <1>4, PlacesFrom, Zenon
    <2>3. IsNext(line, Closer, p, c)
      BY <1>6, <2>1, <2>2, Zenon DEF IsNext
    <2> QED BY <1>3, <2>2, <2>3, NextOfUnique, Zenon
  <1>8. Attribute(p) = SubSeq(line, p + 1, c - 1)
    BY <1>7, Zenon DEF Attribute, Closer
  <1> QED BY <1>6, <1>8, Zenon DEF Stood

(* Every parser accounts for each character and each tag, of every line, and *)
(* an address is an address still when the last has run.                   *)
THEOREM TextKeptHolds == InlineSpec => []TextKept
  <1>1. InlineInv => source \in Seq(Character) /\ Accounted(source, line)
    <2> SUFFICES ASSUME InlineInv
                 PROVE  source \in Seq(Character) /\ Accounted(source, line)
      BY Zenon
    <2>1. source \in Seq(Character)
      BY FinishedIs, Zenon
    <2>2. \/ line = source \/ line = AfterImages(source) \/ line = AfterLinks(source)
          \/ line = AfterStrong(source) \/ line = AfterEmphasized(source)
          \/ line = AfterStrikeThrough(source) \/ line = AfterCode(source)
          \/ line = AfterItalic(source)
      BY Zenon DEF InlineInv
    <2> QED BY <2>1, <2>2, SourceAccounted, StagesAccounted, Zenon
  <1>2. InlineInv => AddressesKept
    <2> SUFFICES ASSUME InlineInv, Finished
                 PROVE  ~AddressDisturbed =>
                            \A p \in Positions(line, "<a href='") \cup Positions(line, "<img src='") :
                                \E q \in DOMAIN source :
                                    Occurs(source, <<"]", "(">> \o Attribute(p) \o <<")">>, q)
      BY Zenon DEF AddressesKept
    <2> QED BY FinishedIs, AddressedIs, Zenon
  <1>3. InlineInv => TextKept
    <2> SUFFICES ASSUME InlineInv PROVE TextKept
      BY Zenon
    <2>1. source \in Seq(Character) /\ Accounted(source, line)
      BY <1>1, Zenon
    <2>2. /\ WidthKept
          /\ \A t \in Text : Count(line, {t}) = Count(source, {t})
          /\ \A tags \in {<<"<strong>", "</strong>">>, <<"<em>", "</em>">>, <<"<s>", "</s>">>,
                          <<"<code>", "</code>">>, <<"<i>", "</i>">>} :
                Count(line, {tags[1]}) = Count(line, {tags[2]})
      BY <2>1, AccountedIs
    <2> QED BY <1>2, <2>2, Zenon DEF TextKept
  <1> QED BY <1>3, InlineInvHolds, PTL
=============================================================================
