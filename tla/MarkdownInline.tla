---------------------------- MODULE MarkdownInline ----------------------------
(***************************************************************************)
(* Parser::runLineParser: the seven LineParsers rewrite one line in turn,  *)
(* each the output of those before it.                                     *)
(*                                                                         *)
(* A line is a sequence of tokens: the characters that the regular         *)
(* expressions tell apart, text, and the tags (or the parts of one with    *)
(* attributes) that the parsers put in.  "tick" is the backtick.           *)
(* A definition Name_Bug is a mutant of Name; Next uses none of them.      *)
(***************************************************************************)
EXTENDS Naturals, Sequences, FiniteSets, SequencesExt

CONSTANTS Text,    \* tokens that no parser knows
          Lines    \* the lines to parse

VARIABLES source,     \* history: the line as it was
          line,       \* the line
          done        \* how many of the parsers have run

inlineVars == <<source, line, done>>

Mark == {"*", "_", "~", "tick"}
Character == Mark \cup {"!", "[", "]", "(", ")"} \cup Text
Emphasis == {"<strong>", "</strong>", "<em>", "</em>", "<s>", "</s>", "<i>", "</i>"}
Tag == Emphasis \cup {"<code>", "</code>", "<img src='", "' alt='", "'/>",
                      "<a href='", "'>", "</a>"}

CodeToken == {"tick", "<code>", "</code>"}
Token == Character \cup Tag

ASSUME TextAssumption ==
    Text \cap (Mark \cup {"!", "[", "]", "(", ")"} \cup Tag) = {}
ASSUME LinesAssumption == \A l \in Lines : l \in Seq(Character)
-----------------------------------------------------------------------------
Order_LinkFirst ==
    <<"link", "image", "strong", "emphasized", "strikethrough", "code", "italic">>
Order_EmphasizedFirst ==
    <<"image", "link", "emphasized", "strong", "strikethrough", "code", "italic">>
Order == <<"image", "link", "strong", "emphasized", "strikethrough", "code", "italic">>

(* Where the first of the tokens is from p on; Len(l) + 1 if nowhere.       *)
NextOf(l, tokens, p) ==
    CHOOSE n \in p..Len(l) + 1 :
        /\ n = Len(l) + 1 \/ l[n] \in tokens
        /\ \A k \in p..n - 1 : l[k] \notin tokens

Occurs(l, s, p) == p + Len(s) - 1 <= Len(l) /\ SubSeq(l, p, p + Len(s) - 1) = s

(* The negative lookaheads of the expressions for emphasis, for a match     *)
(* that starts at p.                                                        *)
NoCodeAhead_BacktickOnly(l, p) == \A k \in p..Len(l) : l[k] # "tick"
NoCodeAhead(l, p) == \A k \in p..Len(l) : l[k] \notin CodeToken

(* Where the match that starts at p ends: mark, text without the mark's     *)
(* character, mark.  0 is no match.                                         *)
Delimited(l, p, mark) ==
    LET close == NextOf(l, {mark[1]}, p + Len(mark))
    IN  IF Occurs(l, mark, p) /\ Occurs(l, mark, close) THEN close + Len(mark) - 1 ELSE 0

(* [text](url): the text ends at the first "]"; the url is the longest that *)
(* has no "]" in it and a ")" behind it.                                    *)
UrlStart(l, p) == NextOf(l, {"]"}, p + 1) + 2
AddressEnds(l, url) == {n \in url..NextOf(l, {"]"}, url) - 1 : l[n] = ")"}
Bracketed(l, p) ==
    LET url == UrlStart(l, p)
    IN  IF /\ Occurs(l, <<"[">>, p) /\ Occurs(l, <<"]", "(">>, url - 2)
           /\ AddressEnds(l, url) # {}
          THEN CHOOSE n \in AddressEnds(l, url) : \A m \in AddressEnds(l, url) : m <= n
          ELSE 0

(* std::regex_replace: leftmost matches, from left to right.                *)
Replace(l, matchEnd, replacement) ==
    LET rest[p \in 1..Len(l) + 1] ==
            IF p > Len(l) THEN <<>>
            ELSE IF matchEnd[p] = 0 THEN <<l[p]>> \o rest[p + 1]
            ELSE replacement[p] \o rest[matchEnd[p] + 1]
    IN  rest[1]

Spans(l, end, mark, open, close) ==
    Replace(l, end,
        [p \in DOMAIN l |-> <<open>> \o SubSeq(l, p + Len(mark), end[p] - Len(mark)) \o <<close>>])

Marked(l, mark, open, close) ==
    Spans(l, [p \in DOMAIN l |-> IF NoCodeAhead(l, p) THEN Delimited(l, p, mark) ELSE 0],
          mark, open, close)

(* The parser of code has no lookahead.                                     *)
Coded(l) ==
    Spans(l, [p \in DOMAIN l |-> Delimited(l, p, <<"tick">>)], <<"tick">>, "<code>", "</code>")

ImageHtml(text, url) == <<"<img src='">> \o url \o <<"' alt='">> \o text \o <<"'/>">>

LinkHtml_NoText(text, url) == <<"<a href='">> \o url \o <<"'>">> \o url \o <<"</a>">>
LinkHtml(text, url) == <<"<a href='">> \o url \o <<"'>">> \o text \o <<"</a>">>

Images(l) ==
    LET end == [p \in DOMAIN l |-> IF l[p] = "!" THEN Bracketed(l, p + 1) ELSE 0]
    IN  Replace(l, end,
            [p \in DOMAIN l |-> ImageHtml(SubSeq(l, p + 2, UrlStart(l, p + 1) - 3),
                                          SubSeq(l, UrlStart(l, p + 1), end[p] - 1))])

Links(l) ==
    LET end == [p \in DOMAIN l |-> Bracketed(l, p)]
    IN  Replace(l, end,
            [p \in DOMAIN l |-> LinkHtml(SubSeq(l, p + 1, UrlStart(l, p) - 3),
                                         SubSeq(l, UrlStart(l, p), end[p] - 1))])
-----------------------------------------------------------------------------
InlineInit == source \in Lines /\ line = source /\ done = 0

Parse(parser, result) ==
    /\ done < Len(Order) /\ Order[done + 1] = parser
    /\ line' = result
    /\ done' = done + 1
    /\ UNCHANGED source

ImageParser == Parse("image", Images(line))
LinkParser == Parse("link", Links(line))
StrongParser ==
    Parse("strong", Marked(Marked(line, <<"*", "*">>, "<strong>", "</strong>"),
                           <<"_", "_">>, "<strong>", "</strong>"))
EmphasizedParser == Parse("emphasized", Marked(line, <<"_">>, "<em>", "</em>"))
StrikeThroughParser == Parse("strikethrough", Marked(line, <<"~", "~">>, "<s>", "</s>"))
InlineCodeParser == Parse("code", Coded(line))
ItalicParser == Parse("italic", Marked(line, <<"*">>, "<i>", "</i>"))

InlineNext ==
    \/ ImageParser \/ LinkParser \/ StrongParser \/ EmphasizedParser
    \/ StrikeThroughParser \/ InlineCodeParser \/ ItalicParser

InlineSpec == InlineInit /\ [][InlineNext]_inlineVars
-----------------------------------------------------------------------------
Positions(l, token) == {p \in DOMAIN l : l[p] = token}
Count(l, tokens) == Cardinality({p \in DOMAIN l : l[p] \in tokens})

Finished == done = Len(Order)

(* No tag of an emphasis is in front of a code span, in one, or in front of *)
(* a single backtick.                                                       *)
EmphasisBehindCode ==
    Finished =>
        \A p, q \in DOMAIN line : line[p] \in Emphasis /\ line[q] \in CodeToken => q < p

(* What a line is up to its last backtick when every two of them, whatever  *)
(* is between them, have become code: a last one of an odd number stays.    *)
LastTick(l) ==
    CHOOSE n \in {0} \cup Positions(l, "tick") : \A q \in Positions(l, "tick") : q <= n
WithCode(l) ==
    [p \in 1..LastTick(l) |->
        IF l[p] # "tick" THEN l[p]
        ELSE IF Count(SubSeq(l, 1, p), {"tick"}) % 2 = 0 THEN "</code>"
        ELSE IF p = LastTick(l) THEN "tick"
        ELSE "<code>"]

(* Two backticks make code whatever is between them, and nothing in front   *)
(* of the last one changes but for that, unless a link or an image may be   *)
(* in the way.                                                              *)
CodeKept ==
    Finished /\ Positions(source, "(") = {} =>
        /\ SubSeq(line, 1, LastTick(source)) = WithCode(source)
        /\ \A p \in LastTick(source) + 1..Len(line) : line[p] \notin CodeToken

(* Code is code and nothing else, although its parser is the sixth of the   *)
(* seven: the lookaheads of the others keep them away from it.              *)
CodeProtected == EmphasisBehindCode /\ CodeKept

(* An image begins at r in the text of one that begins at q, or in what is  *)
(* read as its address.                                                     *)
ImageInside(l, q, r) ==
    /\ Occurs(l, <<"!", "[">>, q) /\ Occurs(l, <<"!", "[">>, r) /\ q < r
    /\ LET url == UrlStart(l, q + 1)
       IN  \/ r < url - 2
           \/ /\ Occurs(l, <<"]", "(">>, url - 2)
              /\ r \in url..NextOf(l, {"]"}, url) - 1
              /\ AddressEnds(l, url) = {} \/ \E n \in AddressEnds(l, url) : r < n

(* "ImageParser has to be before LinkParser": an image is never read as an  *)
(* exclamation mark and a link, but for one with another in it.             *)
ImagesAreNotLinks ==
    Finished =>
        \A p \in Positions(line, "<a href='") :
            p > 1 /\ line[p - 1] = "!" => \E q, r \in DOMAIN source : ImageInside(source, q, r)

EmptyEmphases(l) == {p \in DOMAIN l : Occurs(l, <<"<em>", "</em>">>, p)}

(* "StrongParser has to be before EmphasizedParser": of two underscores,    *)
(* text, two underscores some are strong, and none is left as two empty     *)
(* emphases around the text: between two of those is another underscore.    *)
StrongBeforeEmphasized ==
    Finished =>
        /\ Positions(source, "tick") = {} /\ Positions(source, "(") = {} =>
              \A p \in DOMAIN source :
                  Delimited(source, p, <<"_", "_">>) # 0 => Positions(line, "<strong>") # {}
        /\ \A p, q \in EmptyEmphases(line) :
              p < q => \E k \in p + 2..q - 1 : line[k] \in {"_", "<em>", "</em>"}

(* The order the comments of the parsers ask for does what it is for.       *)
OrderKept == ImagesAreNotLinks /\ StrongBeforeEmphasized

(* The attribute that starts at p, up to its quotation mark.                *)
Attribute(p) == SubSeq(line, p + 1, NextOf(line, {"' alt='", "'>"}, p) - 1)

(* Behind a parenthesis is something that may change what is in it: a mark, *)
(* an exclamation mark, or a bracket in an address.                         *)
AddressDisturbed ==
    \E q, r \in DOMAIN source :
        /\ q < r /\ source[q] = "("
        /\ \/ source[r] \in Mark \cup {"!"}
           \/ source[r] = "[" /\ \E n \in AddressEnds(source, q + 1) : r < n

(* An address is what stood in parentheses behind a bracket.                *)
AddressesKept ==
    Finished /\ ~AddressDisturbed =>
        \A p \in Positions(line, "<a href='") \cup Positions(line, "<img src='") :
            \E q \in DOMAIN source : Occurs(source, <<"]", "(">> \o Attribute(p) \o <<")">>, q)

(* Every character of the source is in the line or has become a tag, or a   *)
(* part of one.                                                             *)
WidthKept ==
    Len(source) + Count(line, {"' alt='", "'/>", "'>", "</a>"})
        = Len(line) + Count(line, {"<strong>", "</strong>", "<s>", "</s>"})
          + 4 * Count(line, {"<img src='"}) + 3 * Count(line, {"<a href='"})

(* After every parser each character of the source is in the line or has    *)
(* become a tag, each word is there once, each tag that opens has one that  *)
(* closes, and what was in parentheses is an address still.                 *)
TextKept ==
    /\ WidthKept
    /\ \A t \in Text : Count(line, {t}) = Count(source, {t})
    /\ \A tags \in {<<"<strong>", "</strong>">>, <<"<em>", "</em>">>, <<"<s>", "</s>">>,
                    <<"<code>", "</code>">>, <<"<i>", "</i>">>} :
          Count(line, {tags[1]}) = Count(line, {tags[2]})
    /\ AddressesKept
=============================================================================
