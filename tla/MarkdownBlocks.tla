---------------------------- MODULE MarkdownBlocks ----------------------------
(***************************************************************************)
(* Parser::Parse of markdown.h and the BlockParsers it drives.  A document *)
(* is read line by line; the line goes down the chain currentBlockParser,  *)
(* its childParser, the child's childParser ..., every parser rewriting it *)
(* in place (parseBlock), until a parser without a child appends it to its *)
(* result.  On the way back each parser takes over the result of a child   *)
(* that says IsFinished.  A call of AddLine is a step down, its return a   *)
(* step up.                                                                *)
(*                                                                         *)
(* A line is a sequence of tokens: "sp" one space of white space, the      *)
(* markers * ", "1. ", "- [ ] ", ">", "# ", "fence", "---", "|table>",      *)
(* "|<table", words, and the HTML the parsers put in front of them.  What  *)
(* the LineParsers do inside a line is left out; so is the layout of a     *)
(* table.  A definition Name_Bug is a mutant of Name; Next uses none.      *)
(***************************************************************************)
EXTENDS Naturals, Sequences, SequencesExt

CONSTANTS Shape(_),  \* Shape(d): the lines that a document that begins with
                     \* d may go on with; "text" stands for a word of its
                     \* own on each line
          Word,      \* Word[n]: the word of line n
          MaxLines   \* bound on the length of a document

(* What a line may hold besides words, and the tags the parsers write.      *)
Markup == {"sp", "* ", "1. ", "- [ ] ", ">", "# ", "fence", "---", "|table>", "|<table"}

Tag == {"<ul><li>", "<ol><li>", "<ul class=checklist><li><label>",
        "</li><li>", "</label></li><li><label>",
        "</li></ul>", "</li></ol>", "</label></li></ul>",
        "<blockquote>", "</blockquote>", "<p>", "</p>", "<h1>", "</h1>",
        "<pre><code>", "</code></pre>", "<table>", "</table>"}

Token == Markup \cup Tag \cup {"<input/>", "<hr/>"} \cup ToSet(Word)

ASSUME DocumentAssumption ==
    /\ MaxLines \in Nat
    /\ Word \in Seq(STRING) /\ Len(Word) >= MaxLines
    /\ ToSet(Word) \cap (Markup \cup Tag \cup {"<input/>", "<hr/>"}) = {}

VARIABLES doc,      \* history: the lines read so far
          line,     \* the line on its way through the parsers
          stack,    \* currentBlockParser and the childParsers below it
          at,       \* the parser whose AddLine runs, 0 when none does
          phase,    \* "read", "add" (at is called), "return", "done"
          eof,      \* whether the line is Parse's final empty one
          output    \* result of Parse

vars == <<doc, line, stack, at, phase, eof, output>>

ListKind == {"ul", "ol", "check"}
Kind == ListKind \cup {"quote", "p", "head", "rule", "code", "table"}

NewParser(kind) ==
    [kind |-> kind, started |-> FALSE, finished |-> FALSE, result |-> <<>>]

(* Which parser can be the child of which: only quotes and lists have       *)
(* children; code and tables do not start inside a quote.                   *)
Nests ==
    \A i \in 2..Len(stack) :
        LET parent == stack[i - 1].kind
            child  == stack[i].kind
        IN  \/ parent = "quote" /\ child \in Kind \ {"code", "table", "rule"}
            \/ parent \in {"ul", "ol"} /\ child \in {"ul", "ol"}
            \/ parent = "check" /\ child = "check"

TypeOK ==
    /\ doc \in Seq(Seq(Token)) /\ Len(doc) <= MaxLines
    /\ line \in Seq(Token)
    /\ stack \in Seq([kind : Kind, started : BOOLEAN, finished : BOOLEAN,
                      result : Seq(Token)])
    /\ at \in 0..Len(stack)
    /\ phase \in {"read", "add", "return", "done"}
    /\ phase \in {"add", "return"} <=> at > 0
    /\ phase = "read" => \A i \in DOMAIN stack : ~stack[i].finished
    /\ eof \in BOOLEAN
    /\ output \in Seq(Token)
    /\ Nests

Init ==
    /\ doc = <<>> /\ line = <<>> /\ stack = <<>> /\ at = 0
    /\ phase = "read" /\ eof = FALSE /\ output = <<>>
-----------------------------------------------------------------------------
(* Which parser takes a line: the IsStartingLine functions.                 *)
Begins(l, token) == l # <<>> /\ Head(l) = token
Marker == [check |-> "- [ ] ", quote |-> ">", head |-> "# ",
           ol |-> "1. ", ul |-> "* "]
WholeLine == [code |-> "fence", rule |-> "---", table |-> "|table>"]

IsStartingLine(kind, l) ==
    IF kind \in DOMAIN Marker THEN Begins(l, Marker[kind])
                              ELSE l = <<WholeLine[kind]>>

(* The parser among those of the given kinds that l starts.                 *)
StartedBy(kinds, l) ==
    IF \E k \in kinds : IsStartingLine(k, l)
      THEN CHOOSE k \in kinds : IsStartingLine(k, l)
      ELSE "none"

GetBlockParserForLine(l) ==
    LET special == StartedBy(Kind \ {"p"}, l)
    IN  IF special = "none" /\ l # <<>> THEN "p" ELSE special

(* The getBlockParserForLineCallback that Parser hands each parser.         *)
ChildFor(kind, l) ==
    CASE kind = "quote"         -> GetBlockParserForLine(l)
      [] kind \in {"ul", "ol"}  -> StartedBy({"ul", "ol"}, l)
      [] kind = "check"         -> StartedBy({"check"}, l)
      [] OTHER                  -> "none"

(* std::getline, and the parser of the first line of a block; an empty line *)
(* between blocks is skipped.                                               *)
Instantiated(shape) ==
    [i \in DOMAIN shape |->
        IF shape[i] = "text" THEN Word[Len(doc) + 1] ELSE shape[i]]

ReadLine ==
    /\ phase = "read"
    /\ Len(doc) < MaxLines
    /\ \E shape \in Shape(doc) \cap Seq(Markup \cup {"text"}) :
         LET l     == Instantiated(shape)
             block == GetBlockParserForLine(l)
         IN  /\ doc' = Append(doc, l)
             /\ IF stack = <<>> /\ block = "none"
                  THEN UNCHANGED <<line, stack, at, phase>>
                  ELSE /\ line' = l
                       /\ stack' = IF stack = <<>> THEN <<NewParser(block)>>
                                                   ELSE stack
                       /\ at' = 1
                       /\ phase' = "add"
    /\ UNCHANGED <<eof, output>>

(* The document ends: "make sure, that all parsers are finished" feeds one  *)
(* more, empty line to the parser that is left.                             *)
EndOfFile ==
    /\ phase = "read"
    /\ IF stack = <<>>
         THEN phase' = "done" /\ UNCHANGED <<line, at, eof>>
         ELSE line' = <<>> /\ at' = 1 /\ phase' = "add" /\ eof' = TRUE
    /\ UNCHANGED <<doc, stack, output>>
-----------------------------------------------------------------------------
(* BlockParser::AddLine after parseBlock turned the line into l and the     *)
(* parser into f: down to the child, an old or a new one, or back up.       *)
AddLine(f, l) ==
    LET child == IF at < Len(stack) THEN stack[at + 1].kind
                                    ELSE ChildFor(f.kind, l)
    IN  /\ phase = "add"
        /\ line' = l
        /\ IF child = "none"
             THEN /\ stack' = [stack EXCEPT ![at] =
                                 [f EXCEPT !.result = @ \o l]]
                  /\ phase' = "return"
                  /\ UNCHANGED at
             ELSE /\ stack' = IF at < Len(stack)
                                THEN [stack EXCEPT ![at] = f]
                                ELSE Append([stack EXCEPT ![at] = f],
                                            NewParser(child))
                  /\ at' = at + 1
                  /\ UNCHANGED phase
        /\ UNCHANGED <<doc, eof, output>>

Running(kinds) == phase = "add" /\ stack[at].kind \in kinds
Me == stack[at]
Started == [Me EXCEPT !.started = TRUE]
Finished == [Me EXCEPT !.finished = TRUE]

(* The lists.                                                               *)
OpenTag == [ul |-> "<ul><li>", ol |-> "<ol><li>",
            check |-> "<ul class=checklist><li><label>"]
ItemTag_NoLabel == [k \in ListKind |-> "</li><li>"]
ItemTag == [ul |-> "</li><li>", ol |-> "</li><li>",
            check |-> "</label></li><li><label>"]
CloseTag == [ul |-> "</li></ul>", ol |-> "</li></ol>",
             check |-> "</label></li></ul>"]

(* The tags an outer list puts in front of a line when it ends or goes on   *)
(* to its next item: the inner lists end with it.                           *)
EndingTag_SameKind ==
    [k \in ListKind |-> {ItemTag[k], CloseTag[k]}]
EndingTag ==
    [ul    |-> {"</li><li>", "</li></ol>", "</li></ul>"},
     ol    |-> {"</li><li>", "</li></ol>", "</li></ul>"},
     check |-> {"</label></li><li><label>", "</label></li></ul>"}]

Strip(token, l) == IF Begins(l, token) THEN Tail(l) ELSE l

(* The line without the marker of its item; an ordered list removes a       *)
(* bullet, too, and a check box becomes an input element.                   *)
Body(kind, l) ==
    CASE kind = "ul"    -> Strip("* ", l)
      [] kind = "ol"    -> Strip("* ", Strip("1. ", l))
      [] kind = "check" -> IF Begins(l, "- [ ] ")
                             THEN <<"<input/>">> \o Tail(l) ELSE l

IsNewItem(kind, l) ==
    \/ IsStartingLine(kind, l)
    \/ kind = "ol" /\ IsStartingLine("ul", l)

Indented(l) == Len(l) >= 2 /\ l[1] = "sp" /\ l[2] = "sp"

StripIndent(l) == SubSeq(l, 3, Len(l))

EndsList_ByTagOnly(kind, l) ==
    \E tag \in EndingTag[kind] : Contains(l, tag)
EndsList(kind, l) ==
    \/ Body(kind, l) = <<>>
    \/ \E tag \in EndingTag[kind] : Contains(l, tag)

ListStart ==
    /\ Running(ListKind) /\ ~Me.started
    /\ AddLine(Started, <<OpenTag[Me.kind]>> \o Body(Me.kind, line))

ListIndented ==
    /\ Running(ListKind) /\ Me.started
    /\ Indented(line)
    /\ AddLine(Me, StripIndent(line))

ListEnd ==
    /\ Running(ListKind) /\ Me.started
    /\ ~Indented(line) /\ EndsList(Me.kind, line)
    /\ AddLine(Finished, <<CloseTag[Me.kind]>> \o Body(Me.kind, line))

ListItem ==
    /\ Running(ListKind) /\ Me.started
    /\ ~Indented(line) /\ ~EndsList(Me.kind, line)
    /\ IsNewItem(Me.kind, line)
    /\ AddLine(Me, <<ItemTag[Me.kind]>> \o Body(Me.kind, line))

ListText ==
    /\ Running(ListKind) /\ Me.started
    /\ ~Indented(line) /\ ~EndsList(Me.kind, line)
    /\ ~IsNewItem(Me.kind, line)
    /\ AddLine(Me, Body(Me.kind, line))
-----------------------------------------------------------------------------
(* QuoteParser: "> " and ">" are removed one after the other, and a space   *)
(* is put behind what is left.                                              *)
QuotedPart(l) ==
    Strip(">", IF Len(l) >= 2 /\ l[1] = ">" /\ l[2] = "sp"
                 THEN SubSeq(l, 3, Len(l)) ELSE l)

Unquoted_NoSpace(l) == QuotedPart(l)
Unquoted(l) ==
    IF QuotedPart(l) = <<>> THEN <<>> ELSE Append(QuotedPart(l), "sp")

Quoting == IF Me.started THEN Me
           ELSE [Started EXCEPT !.result = <<"<blockquote>">>]

QuoteLine ==
    /\ Running({"quote"})
    /\ line # <<>> \/ at < Len(stack)
    /\ AddLine(Quoting, Unquoted(line))

QuoteEnd ==
    /\ Running({"quote"})
    /\ line = <<>> /\ at = Len(stack)
    /\ AddLine([Quoting EXCEPT !.finished = TRUE,
                               !.result = Append(@, "</blockquote>")], <<>>)

ParagraphStart ==
    /\ Running({"p"}) /\ ~Me.started
    /\ AddLine(Started, <<"<p>">> \o line)

ParagraphLine ==
    /\ Running({"p"}) /\ Me.started
    /\ IF line = <<>> THEN AddLine(Finished, <<"</p>">>)
                      ELSE AddLine(Me, line)

Headline ==
    /\ Running({"head"})
    /\ AddLine(Finished, <<"<h1>">> \o Tail(line) \o <<"</h1>">>)

HorizontalLine == Running({"rule"}) /\ AddLine(Finished, <<"<hr/>">>)

CodeFence ==
    /\ Running({"code"}) /\ line = <<"fence">>
    /\ IF Me.started THEN AddLine(Finished, <<"</code></pre>">>)
                     ELSE AddLine(Started, <<"<pre><code>">>)

CodeText == Running({"code"}) /\ line # <<"fence">> /\ AddLine(Me, line)

(* TableParser keeps the cells until the end of the table.                  *)
TableStart == Running({"table"}) /\ ~Me.started /\ AddLine(Started, <<>>)

TableRow ==
    /\ Running({"table"}) /\ Me.started /\ line # <<"|<table">>
    /\ AddLine(Me, line)

TableEnd ==
    /\ Running({"table"}) /\ Me.started /\ line = <<"|<table">>
    /\ AddLine([Finished EXCEPT !.result = <<"<table>">> \o @],
               <<"</table>">>)
-----------------------------------------------------------------------------
(* AddLine returns.  The caller, Parse or the parent, takes over the result *)
(* of a finished parser and lets go of it, and of any child it still has.   *)
Handover_Lost(f) == <<>>
Handover(f) == f.result

TakesOver == Me.finished

Return ==
    /\ phase = "return"
    /\ IF ~TakesOver
         THEN UNCHANGED <<stack, output>>
         ELSE IF at = 1
         THEN stack' = <<>> /\ output' = output \o Handover(Me)
         ELSE /\ stack' = [SubSeq(stack, 1, at - 1) EXCEPT ![at - 1].result =
                             @ \o Handover(Me)]
              /\ UNCHANGED output
    /\ at' = at - 1
    /\ phase' = IF at > 1 THEN "return" ELSE IF eof THEN "done" ELSE "read"
    /\ UNCHANGED <<doc, line, eof>>

ParseBlock ==
    \/ ListStart \/ ListIndented \/ ListEnd \/ ListItem \/ ListText
    \/ QuoteLine \/ QuoteEnd \/ ParagraphStart \/ ParagraphLine
    \/ Headline \/ HorizontalLine \/ CodeFence \/ CodeText
    \/ TableStart \/ TableRow \/ TableEnd

Next == ReadLine \/ EndOfFile \/ ParseBlock \/ Return

Spec == Init /\ [][Next]_vars
-----------------------------------------------------------------------------
(* What has been produced so far, open parsers included.                    *)
Rendered == output \o FlattenSeq([i \in DOMAIN stack |-> stack[i].result])

Words(tokens) ==
    FlattenSeq([k \in DOMAIN tokens |->
        IF tokens[k] \in ToSet(Word) THEN <<tokens[k]>> ELSE <<>>])

(* No word of a line that was read is lost, duplicated or moved, however    *)
(* many parsers it went through and whichever of them ended.                *)
NothingLost == phase = "read" => Words(Rendered) = Words(FlattenSeq(doc))

(* The elements a tag closes, and those it opens, outermost first.          *)
Closes(tag) ==
    CASE tag = "</li><li>"                -> <<"li">>
      [] tag = "</label></li><li><label>" -> <<"li", "label">>
      [] tag = "</li></ul>"               -> <<"ul", "li">>
      [] tag = "</li></ol>"               -> <<"ol", "li">>
      [] tag = "</label></li></ul>"       -> <<"ul", "li", "label">>
      [] tag = "</blockquote>"            -> <<"blockquote">>
      [] tag = "</p>"                     -> <<"p">>
      [] tag = "</h1>"                    -> <<"h1">>
      [] tag = "</code></pre>"            -> <<"pre", "code">>
      [] tag = "</table>"                 -> <<"table">>
      [] OTHER                            -> <<>>

Opens(tag) ==
    CASE tag = "<ul><li>"                        -> <<"ul", "li">>
      [] tag = "<ol><li>"                        -> <<"ol", "li">>
      [] tag = "<ul class=checklist><li><label>" -> <<"ul", "li", "label">>
      [] tag = "</li><li>"                       -> <<"li">>
      [] tag = "</label></li><li><label>"        -> <<"li", "label">>
      [] tag = "<blockquote>"                    -> <<"blockquote">>
      [] tag = "<p>"                             -> <<"p">>
      [] tag = "<h1>"                            -> <<"h1">>
      [] tag = "<pre><code>"                     -> <<"pre", "code">>
      [] tag = "<table>"                         -> <<"table">>
      [] OTHER                                   -> <<>>

(* The elements a sequence of tokens leaves open.                           *)
Apply(open, token) ==
    LET left == Len(open) - Len(Closes(token))
    IN  IF left >= 0 /\ SubSeq(open, left + 1, Len(open)) = Closes(token)
          THEN SubSeq(open, 1, left) \o Opens(token)
          ELSE Append(open, "broken")

Nesting(tokens) ==
    LET open[n \in 0..Len(tokens)] ==
            IF n = 0 THEN <<>> ELSE Apply(open[n - 1], tokens[n])
    IN  open[Len(tokens)]

Element == [ul |-> <<"ul", "li">>, ol |-> <<"ol", "li">>,
            check |-> <<"ul", "li", "label">>, quote |-> <<"blockquote">>,
            p |-> <<"p">>, code |-> <<"pre", "code">>, table |-> <<>>]

(* The HTML is well nested: the result holds complete elements only, and    *)
(* the elements still open are those of the parsers still open, in order.   *)
WellNested ==
    phase = "read" =>
        /\ Nesting(output) = <<>>
        /\ Nesting(Rendered) =
             FlattenSeq([i \in DOMAIN stack |-> Element[stack[i].kind]])

(* Of an unfinished document, the lists and paragraphs are closed at the    *)
(* end, whatever their depth; quotes, code and tables may be left.          *)
EofClosesLists ==
    phase = "done" /\ stack # <<>> => stack[1].kind \in {"quote", "code", "table"}

(* An outline: items, indented by two spaces for each level above their     *)
(* own, of one kind per level, none deeper than one level below its         *)
(* predecessor; an empty line ends it.                                      *)
IsItem(l) ==
    /\ Len(l) >= 2 /\ Len(l) % 2 = 0
    /\ l[Len(l) - 1] \in {"* ", "1. "} /\ l[Len(l)] \in ToSet(Word)
    /\ \A i \in 1..Len(l) - 2 : l[i] = "sp"

Level(l) == Len(l) \div 2
ItemKind(l) == IF l[Len(l) - 1] = "* " THEN "ul" ELSE "ol"

Fits(open, l) ==
    \/ l = <<>>
    \/ /\ IsItem(l)
       /\ Level(l) <= Len(open) + 1
       /\ Level(l) <= Len(open) => open[Level(l)] = ItemKind(l)

(* Its HTML, built from the levels alone: a line opens the list one level   *)
(* deeper, or closes those below its own and goes on with the next item.    *)
ClosedTo(open, level) ==
    [i \in 1..(Len(open) - level) |-> CloseTag[open[Len(open) + 1 - i]]]

NextItem(l) == IF l = <<>> THEN <<>> ELSE <<ItemTag[ItemKind(l)], l[Len(l)]>>
FirstItem(l) == <<OpenTag[ItemKind(l)], l[Len(l)]>>

OutlineStep(acc, l) ==
    IF ~(acc.ok /\ Fits(acc.open, l))
      THEN [acc EXCEPT !.ok = FALSE]
    ELSE IF Level(l) > Len(acc.open)
      THEN [acc EXCEPT !.open = Append(@, ItemKind(l)),
                       !.html = @ \o FirstItem(l)]
    ELSE [acc EXCEPT !.open = SubSeq(@, 1, Level(l)),
                     !.html = @ \o (ClosedTo(acc.open, Level(l)) \o NextItem(l))]

Outline(d) ==
    LET acc[n \in 0..Len(d)] ==
            IF n = 0 THEN [ok |-> TRUE, open |-> <<>>, html |-> <<>>]
                     ELSE OutlineStep(acc[n - 1], d[n])
    IN  acc[Len(d)]

(* The lists of an outline are nested as its lines are indented.            *)
NestsAsIndented ==
    phase = "read" /\ Outline(doc).ok => Rendered = Outline(doc).html

(* markdown.h:405: "make sure, that all parsers are finished".              *)
AllFinished == phase = "done" => stack = <<>>
=============================================================================
