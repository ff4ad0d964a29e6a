------------------------- MODULE MarkdownBlocksProofs -------------------------
(***************************************************************************)
(* What holds of MarkdownBlocks for every document, however long and with  *)
(* whatever lines: the types, that no word is lost, that the HTML is well  *)
(* nested, that the end of the document closes lists and paragraphs, and   *)
(* that lists are nested as the lines of an outline are indented.          *)
(*                                                                         *)
(* First what the tags do to the open elements (Nesting) and what the      *)
(* parsers do to a line (Words, Strip, Body, Unquoted); then the invariant:*)
(* the structure of the parsers (SInv) and what they have rendered         *)
(* (Content).  Every parser's step is shown to be an AddLine(f, l) with an *)
(* f and an l as Turned and Renders say; from these alone it follows that  *)
(* the invariant is preserved.                                             *)
(*                                                                         *)
(* Last the outlines: what a line is by the time it reaches list k of the  *)
(* chain (LineAt), and the invariant that ties the parsers to the levels   *)
(* of the document so far (OutlineInv).                                    *)
(***************************************************************************)
EXTENDS MarkdownBlocks, SequenceLemmas

(* What HTML elements there are to be open; Nesting answers "broken" for a  *)
(* tag that closes something else.                                          *)
OpenElement == {"ul", "ol", "li", "label", "blockquote", "p", "h1", "pre", "code",
                "table", "broken"}

(* Where the open elements end with e, that is what a SubSeq finds there.   *)
LEMMA OpenedClosed ==
    ASSUME NEW o \in Seq(OpenElement), NEW e \in Seq(OpenElement)
    PROVE  /\ Len(o \o e) - Len(e) = Len(o)
           /\ SubSeq(o \o e, Len(o) + 1, Len(o) + Len(e)) = e
           /\ SubSeq(o \o e, 1, Len(o)) = o
  OBVIOUS

(* A tag whose elements are the last that are open.                         *)
LEMMA Applies ==
    ASSUME NEW o \in Seq(OpenElement), NEW token, NEW e \in Seq(OpenElement), e = Closes(token)
    PROVE  Apply(o \o e, token) = o \o Opens(token)
  <1>1. /\ Len(o \o e) - Len(e) = Len(o) /\ Len(o \o e) = Len(o) + Len(e) /\ Len(o) >= 0
        /\ SubSeq(o \o e, Len(o) + 1, Len(o) + Len(e)) = e
        /\ SubSeq(o \o e, 1, Len(o)) = o
    BY OpenedClosed
  <1> QED
    BY <1>1 DEF Apply

(* A token that is no tag opens and closes nothing.                         *)
LEMMA PlainApplies ==
    ASSUME NEW o \in Seq(OpenElement), NEW token, token \notin Tag
    PROVE  Apply(o, token) = o
  <1>1. Closes(token) = <<>> /\ Opens(token) = <<>>
    BY DEF Closes, Opens, Tag
  <1>2. o \o <<>> = o /\ <<>> \in Seq(OpenElement)
    OBVIOUS
  <1> QED
    BY <1>1, <1>2, Applies

(* Tuples are sequences.                                                    *)
LEMMA TupleTypes ==
    ASSUME NEW S
    PROVE  /\ <<>> \in Seq(S)
           /\ \A a \in S : <<a>> \in Seq(S)
           /\ \A a, b \in S : <<a, b>> \in Seq(S)
           /\ \A a, b, c \in S : <<a, b, c>> \in Seq(S)
  OBVIOUS

(* A sequence and one element more.                                         *)
LEMMA AppendType ==
    ASSUME NEW S, NEW s \in Seq(S), NEW e \in S
    PROVE  /\ Append(s, e) \in Seq(S) /\ Len(Append(s, e)) = Len(s) + 1
           /\ Append(s, e)[Len(s) + 1] = e
           /\ \A n \in 1..Len(s) : Append(s, e)[n] = s[n]
  OBVIOUS

(* What tags close and open are elements.                                   *)
LEMMA ClosesType ==
    ASSUME NEW t
    PROVE  Closes(t) \in Seq(OpenElement) /\ Opens(t) \in Seq(OpenElement)
  <1>1. /\ "li" \in OpenElement /\ "label" \in OpenElement /\ "ul" \in OpenElement /\ "ol" \in OpenElement
        /\ "blockquote" \in OpenElement /\ "p" \in OpenElement /\ "h1" \in OpenElement /\ "pre" \in OpenElement
        /\ "code" \in OpenElement /\ "table" \in OpenElement
    BY DEF OpenElement
  <1>2. /\ <<>> \in Seq(OpenElement) /\ <<"li">> \in Seq(OpenElement) /\ <<"li", "label">> \in Seq(OpenElement)
        /\ <<"ul", "li">> \in Seq(OpenElement) /\ <<"ol", "li">> \in Seq(OpenElement)
        /\ <<"ul", "li", "label">> \in Seq(OpenElement) /\ <<"blockquote">> \in Seq(OpenElement)
    BY <1>1, TupleTypes, Zenon
  <1>3. /\ <<"p">> \in Seq(OpenElement) /\ <<"h1">> \in Seq(OpenElement)
        /\ <<"pre", "code">> \in Seq(OpenElement) /\ <<"table">> \in Seq(OpenElement)
    BY <1>1, TupleTypes, Zenon
  <1>4. Closes(t) \in {<<>>, <<"li">>, <<"li", "label">>, <<"ul", "li">>, <<"ol", "li">>,
           <<"ul", "li", "label">>, <<"blockquote">>, <<"p">>, <<"h1">>, <<"pre", "code">>,
           <<"table">>}
    BY Zenon DEF Closes
  <1>5. Opens(t) \in {<<>>, <<"li">>, <<"li", "label">>, <<"ul", "li">>, <<"ol", "li">>,
           <<"ul", "li", "label">>, <<"blockquote">>, <<"p">>, <<"h1">>, <<"pre", "code">>,
           <<"table">>}
    BY Zenon DEF Opens
  <1>6. \A x : x \in {<<>>, <<"li">>, <<"li", "label">>, <<"ul", "li">>, <<"ol", "li">>,
           <<"ul", "li", "label">>, <<"blockquote">>, <<"p">>, <<"h1">>, <<"pre", "code">>,
           <<"table">>} => x \in Seq(OpenElement)
    BY <1>2, <1>3, Zenon
  <1> QED
    BY <1>4, <1>5, <1>6

(* A token leaves elements open.                                            *)
LEMMA ApplyType ==
    ASSUME NEW o \in Seq(OpenElement), NEW t
    PROVE  Apply(o, t) \in Seq(OpenElement)
  <1>1. Closes(t) \in Seq(OpenElement) /\ Opens(t) \in Seq(OpenElement)
    BY ClosesType
  <1>2. Append(o, "broken") \in Seq(OpenElement)
    <2>1. "broken" \in OpenElement
      BY DEF OpenElement
    <2> QED
      BY <2>1, AppendType, Zenon
  <1> DEFINE left == Len(o) - Len(Closes(t))
  <1>3. left >= 0 => SubSeq(o, 1, left) \in Seq(OpenElement)
    <2>1. left \in Int /\ left <= Len(o)
      BY <1>1
    <2> HIDE DEF left
    <2> QED
      BY <2>1
  <1>4. left >= 0 => SubSeq(o, 1, left) \o Opens(t) \in Seq(OpenElement)
    <2> HIDE DEF left
    <2> QED
      BY <1>1, <1>3
  <1> QED
    BY <1>2, <1>4 DEF Apply

(* f[n] is what the first n tokens leave open.                              *)
IsNesting(f, tokens) ==
    /\ f[0] = <<>>
    /\ \A n \in 1..Len(tokens) : f[n] = Apply(f[n - 1], tokens[n])

(* The recursive function in Nesting exists, for every length ...           *)
LEMMA NestingExists ==
    ASSUME NEW tokens \in Seq(Token)
    PROVE  \E f \in [0..Len(tokens) -> Seq(OpenElement)] : IsNesting(f, tokens)
  <1> DEFINE Upto(m) == \E f \in [0..m -> Seq(OpenElement)] :
                           f[0] = <<>> /\ \A n \in 1..m : f[n] = Apply(f[n - 1], tokens[n])
             P == {m \in Nat : m <= Len(tokens) => Upto(m)}
  <1>1. Upto(0)
    <2> DEFINE f == [n \in 0..0 |-> <<>>]
    <2>1. f \in [0..0 -> Seq(OpenElement)] /\ 1..0 = {} /\ f[0] = <<>>
      OBVIOUS
    <2> HIDE DEF f
    <2> QED
      BY <2>1
  <1>2. ASSUME NEW m \in Nat, m + 1 <= Len(tokens), Upto(m) PROVE Upto(m + 1)
    <2>1. PICK g \in [0..m -> Seq(OpenElement)] :
              g[0] = <<>> /\ \A n \in 1..m : g[n] = Apply(g[n - 1], tokens[n])
      BY <1>2
    <2> DEFINE last == Apply(g[m], tokens[m + 1])
               f == [n \in 0..m + 1 |-> IF n = m + 1 THEN last ELSE g[n]]
    <2>2. last \in Seq(OpenElement)
      <3>1. g[m] \in Seq(OpenElement)
        BY <2>1
      <3> QED
        BY <3>1, ApplyType
    <2>3. f \in [0..m + 1 -> Seq(OpenElement)] /\ f[0] = <<>>
      <3> HIDE DEF last
      <3> QED
        BY <2>1, <2>2
    <2>4. ASSUME NEW n \in 1..m + 1 PROVE f[n] = Apply(f[n - 1], tokens[n])
      <3>1. CASE n = m + 1
        <4>1. n - 1 \in 0..m + 1 /\ n - 1 # m + 1 /\ n - 1 = m
          BY <3>1
        <4>2. f[n - 1] = g[m] /\ f[n] = last
          BY <3>1, <4>1
        <4> QED
          BY <3>1, <4>2
      <3>2. CASE n # m + 1
        <4>1. n \in 1..m /\ n \in 0..m + 1 /\ n - 1 \in 0..m + 1 /\ n - 1 # m + 1
          BY <3>2
        <4>2. f[n - 1] = g[n - 1] /\ f[n] = g[n]
          BY <3>2, <4>1
        <4> QED
          BY <2>1, <4>1, <4>2
      <3> QED
        BY <3>1, <3>2
    <2> HIDE DEF f
    <2> QED
      BY <2>3, <2>4
  <1>3. P = Nat
    <2> HIDE DEF Upto
    <2>1. 0 \in P
      BY <1>1
    <2>2. ASSUME NEW m \in P PROVE m + 1 \in P
      <3>1. m + 1 <= Len(tokens) => m <= Len(tokens)
        OBVIOUS
      <3> QED
        BY <1>2, <3>1
    <2>3. P \in SUBSET Nat
      OBVIOUS
    <2> HIDE DEF P
    <2> QED
      BY <2>1, <2>2, <2>3, NumberInduction
  <1>4. Upto(Len(tokens))
    <2> HIDE DEF Upto
    <2>1. Len(tokens) \in P /\ Len(tokens) <= Len(tokens)
      BY <1>3
    <2> QED
      BY <2>1
  <1> QED
    BY <1>4 DEF IsNesting

(* ... there is one only, and it does not look ahead ...                    *)
LEMMA NestingUnique ==
    ASSUME NEW s, NEW t, NEW f, NEW g, IsNesting(f, s), IsNesting(g, t),
           Len(s) \in Nat, Len(t) \in Nat, Len(s) <= Len(t),
           \A n \in 1..Len(s) : t[n] = s[n]
    PROVE  \A n \in 0..Len(s) : f[n] = g[n]
  <1> DEFINE P == {n \in Nat : n <= Len(s) => f[n] = g[n]}
  <1>1. 0 \in P
    BY DEF IsNesting
  <1>2. ASSUME NEW n \in P PROVE n + 1 \in P
    <2> SUFFICES ASSUME n + 1 <= Len(s) PROVE f[n + 1] = g[n + 1]
      OBVIOUS
    <2>1. /\ n + 1 \in 1..Len(s) /\ n + 1 \in 1..Len(t) /\ (n + 1) - 1 = n
          /\ n <= Len(s)
      OBVIOUS
    <2>2. f[n] = g[n]
      BY <2>1
    <2>3. f[n + 1] = Apply(f[n], s[n + 1]) /\ g[n + 1] = Apply(g[n], t[n + 1])
      BY <2>1 DEF IsNesting
    <2> QED
      BY <2>1, <2>2, <2>3
  <1>3. P = Nat
    <2>1. P \in SUBSET Nat
      OBVIOUS
    <2> HIDE DEF P
    <2> QED
      BY <1>1, <1>2, <2>1, NumberInduction
  <1>4. ASSUME NEW n \in 0..Len(s) PROVE f[n] = g[n]
    <2>1. n \in Nat /\ n <= Len(s)
      OBVIOUS
    <2>2. n \in P
      <3> HIDE DEF P
      <3> QED
        BY <1>3, <2>1
    <2> QED
      BY <2>1, <2>2
  <1> QED
    BY <1>4

(* ... so Nesting is what it gives for the last token.                      *)
LEMMA NestingValue ==
    ASSUME NEW tokens \in Seq(Token)
    PROVE  \E f \in [0..Len(tokens) -> Seq(OpenElement)] :
              IsNesting(f, tokens) /\ Nesting(tokens) = f[Len(tokens)]
  <1> DEFINE Prefix(f) == [n \in 0..Len(tokens) |->
                           IF n = 0 THEN <<>> ELSE Apply(f[n - 1], tokens[n])]
             open == CHOOSE f : f = Prefix(f)
  <1>1. PICK g \in [0..Len(tokens) -> Seq(OpenElement)] : IsNesting(g, tokens)
    BY NestingExists
  <1>2. g = Prefix(g)
    <2>1. \A n \in 0..Len(tokens) : n = 0 \/ n \in 1..Len(tokens)
      OBVIOUS
    <2>2. \A n \in 0..Len(tokens) : g[n] = IF n = 0 THEN <<>> ELSE Apply(g[n - 1], tokens[n])
      BY <1>1, <2>1 DEF IsNesting
    <2> QED
      BY <2>2
  <1>3. open = Prefix(open)
    <2> HIDE DEF Prefix
    <2> QED
      BY <1>2
  <1>4. IsNesting(open, tokens)
    <2>1. /\ 0 \in 0..Len(tokens)
          /\ \A n \in 1..Len(tokens) : n \in 0..Len(tokens) /\ n # 0
      OBVIOUS
    <2> HIDE DEF open
    <2> QED
      BY <1>3, <2>1 DEF IsNesting
  <1>5. Nesting(tokens) = open[Len(tokens)]
    BY Zenon DEF Nesting
  <1> HIDE DEF open
  <1>6. open[Len(tokens)] = g[Len(tokens)]
    <2>1. /\ Len(tokens) \in Nat /\ Len(tokens) <= Len(tokens) /\ Len(tokens) \in 0..Len(tokens)
          /\ \A n \in 1..Len(tokens) : tokens[n] = tokens[n]
      OBVIOUS
    <2> QED
      BY <1>1, <1>4, <2>1, NestingUnique
  <1> QED
    BY <1>1, <1>5, <1>6

(* No tokens leave nothing open.                                            *)
LEMMA NestingEmpty == Nesting(<<>>) = <<>>
  <1>1. <<>> \in Seq(Token) /\ Len(<<>>) = 0
    OBVIOUS
  <1> QED
    BY <1>1, NestingValue DEF IsNesting

(* Tokens leave elements open.                                              *)
LEMMA NestingType ==
    ASSUME NEW s \in Seq(Token)
    PROVE  Nesting(s) \in Seq(OpenElement)
  <1>1. Len(s) \in 0..Len(s)
    OBVIOUS
  <1> QED
    BY <1>1, NestingValue

(* One token more ...                                                       *)
LEMMA NestingAppend ==
    ASSUME NEW s \in Seq(Token), NEW e \in Token
    PROVE  Nesting(Append(s, e)) = Apply(Nesting(s), e)
  <1> DEFINE t == Append(s, e)
  <1>1. /\ t \in Seq(Token) /\ Len(t) = Len(s) + 1 /\ t[Len(s) + 1] = e
        /\ \A n \in 1..Len(s) : t[n] = s[n]
    BY AppendType
  <1> HIDE DEF t
  <1>2. PICK f : IsNesting(f, s) /\ Nesting(s) = f[Len(s)]
    BY NestingValue
  <1>3. PICK g : IsNesting(g, t) /\ Nesting(t) = g[Len(t)]
    BY <1>1, NestingValue
  <1>4. f[Len(s)] = g[Len(s)]
    <2>1. Len(s) \in Nat /\ Len(t) \in Nat /\ Len(s) <= Len(t) /\ Len(s) \in 0..Len(s)
      BY <1>1
    <2> QED
      BY <1>1, <1>2, <1>3, <2>1, NestingUnique
  <1>5. g[Len(t)] = Apply(g[Len(s)], t[Len(t)])
    <2>1. Len(t) \in 1..Len(t) /\ Len(t) - 1 = Len(s)
      BY <1>1
    <2> QED
      BY <1>3, <2>1 DEF IsNesting
  <1> QED
    BY <1>1, <1>2, <1>3, <1>4, <1>5 DEF t

(* ... and several: none but tags matter.                                   *)
LEMMA NestingPlain ==
    ASSUME NEW s \in Seq(Token), NEW t \in Seq(Token \ Tag)
    PROVE  Nesting(s \o t) = Nesting(s)
  <1> DEFINE P == {u \in Seq(Token \ Tag) : Nesting(s \o u) = Nesting(s)}
  <1>1. <<>> \in P
    <2>1. <<>> \in Seq(Token \ Tag) /\ s \o <<>> = s
      OBVIOUS
    <2> QED
      BY <2>1
  <1>2. ASSUME NEW u \in P, NEW e \in Token \ Tag PROVE Append(u, e) \in P
    <2>1. u \in Seq(Token \ Tag) /\ Append(u, e) \in Seq(Token \ Tag)
      OBVIOUS
    <2>2. u \in Seq(Token) /\ s \o u \in Seq(Token)
      <3>1. u \in Seq(Token)
        BY <2>1
      <3> QED
        BY <3>1
    <2>3. s \o Append(u, e) = Append(s \o u, e)
      BY <2>2, AppendIsConcat, ConcatAssociative
    <2>4. Nesting(Append(s \o u, e)) = Apply(Nesting(s \o u), e)
      BY <2>2, NestingAppend
    <2>5. Apply(Nesting(s \o u), e) = Nesting(s \o u)
      BY <2>2, NestingType, PlainApplies
    <2> QED
      BY <2>1, <2>3, <2>4, <2>5
  <1>3. P = Seq(Token \ Tag)
    <2> HIDE DEF P
    <2>1. P \in SUBSET Seq(Token \ Tag)
      BY DEF P
    <2> QED
      BY <1>1, <1>2, <2>1, AppendInduction
  <1> QED
    BY <1>3

(* A tag whose elements are the last that are open, and what follows.       *)
LEMMA NestingTag ==
    ASSUME NEW s \in Seq(Token), NEW tag \in Token, NEW t \in Seq(Token),
           NEW o \in Seq(OpenElement), Nesting(s) = o \o Closes(tag)
    PROVE  /\ s \o <<tag>> \in Seq(Token)
           /\ Nesting(s \o <<tag>>) = o \o Opens(tag)
           /\ s \o (<<tag>> \o t) = (s \o <<tag>>) \o t
  <1>1. Append(s, tag) = s \o <<tag>>
    BY AppendIsConcat
  <1>2. Nesting(Append(s, tag)) = Apply(o \o Closes(tag), tag)
    BY NestingAppend
  <1>3. Apply(o \o Closes(tag), tag) = o \o Opens(tag)
    BY ClosesType, Applies
  <1>4. <<tag>> \in Seq(Token) /\ s \o <<tag>> \in Seq(Token)
    OBVIOUS
  <1>5. Regroups(s, <<tag>>, t)
    BY <1>4, Regroup, Zenon
  <1> QED
    BY <1>1, <1>2, <1>3, <1>4, <1>5, Zenon DEF Regroups
-----------------------------------------------------------------------------
(* The word that a token is, if it is one.                                  *)
WordOf == [t \in Token |-> IF t \in ToSet(Word) THEN <<t>> ELSE <<>>]

(* Of a token, its words are none or itself.                                *)
LEMMA WordOfType == WordOf \in [Token -> Seq(Token)]
  BY DEF WordOf

(* Words is a map that is flattened ...                                     *)
LEMMA WordsIs ==
    ASSUME NEW s \in Seq(Token)
    PROVE  Words(s) = Each(WordOf, s)
  <1>1. \A k \in DOMAIN s : s[k] \in Token
    OBVIOUS
  <1>2. [k \in DOMAIN s |-> IF s[k] \in ToSet(Word) THEN <<s[k]>> ELSE <<>>]
          = [k \in DOMAIN s |-> WordOf[s[k]]]
    BY <1>1 DEF WordOf
  <1> QED
    BY <1>2, Zenon DEF Words, Each, Mapped

(* ... typed ...                                                            *)
LEMMA WordsType ==
    ASSUME NEW s \in Seq(Token)
    PROVE  Words(s) \in Seq(Token)
  BY WordsIs, WordOfType, EachType

(* ... the words of the halves, put together ...                            *)
LEMMA WordsConcat ==
    ASSUME NEW s \in Seq(Token), NEW t \in Seq(Token)
    PROVE  Words(s \o t) = Words(s) \o Words(t)
  <1>1. s \o t \in Seq(Token)
    OBVIOUS
  <1>2. Distributes(WordOf, s, t)
    BY WordOfType, EachConcat, Zenon
  <1>3. Words(s \o t) = Each(WordOf, s \o t) /\ Words(s) = Each(WordOf, s) /\ Words(t) = Each(WordOf, t)
    BY <1>1, WordsIs
  <1> QED
    BY <1>2, <1>3, Zenon DEF Distributes

(* The tokens that are no words.                                            *)
NoWord == Token \ ToSet(Word)

(* ... without the tokens that are no words ...                             *)
LEMMA WordsNone ==
    ASSUME NEW e \in NoWord
    PROVE  /\ <<e>> \in Seq(Token) /\ Words(<<e>>) = <<>>
           /\ \A s \in Seq(Token) : Words(<<e>> \o s) = Words(s) /\ Words(s \o <<e>>) = Words(s)
  <1>1. e \in Token /\ e \notin ToSet(Word) /\ <<e>> \in Seq(Token)
    BY DEF NoWord
  <1>2. Words(<<e>>) = WordOf[e]
    <2>1. Words(<<e>>) = Each(WordOf, <<e>>)
      BY <1>1, WordsIs
    <2>2. Each(WordOf, <<e>>) = WordOf[e]
      BY <1>1, WordOfType, EachOne
    <2> QED
      BY <2>1, <2>2
  <1>3. WordOf[e] = <<>>
    BY <1>1 DEF WordOf
  <1>4. ASSUME NEW s \in Seq(Token)
        PROVE  Words(<<e>> \o s) = Words(s) /\ Words(s \o <<e>>) = Words(s)
    <2>1. Words(<<e>> \o s) = <<>> \o Words(s) /\ Words(s \o <<e>>) = Words(s) \o <<>>
      BY <1>1, <1>2, <1>3, WordsConcat
    <2>2. Words(s) \in Seq(Token)
      BY WordsType
    <2> QED
      BY <2>1, <2>2
  <1> QED
    BY <1>1, <1>2, <1>3, <1>4

(* ... and of no tokens nothing.                                            *)
LEMMA WordsEmpty == Words(<<>>) = <<>>
  <1>1. <<>> \in Seq(Token)
    OBVIOUS
  <1> QED
    BY <1>1, WordsIs, EachEmpty

(* Only words are words.                                                    *)
LEMMA NoWords == Markup \cup Tag \cup {"<input/>", "<hr/>"} \subseteq NoWord
  BY DocumentAssumption DEF NoWord, Token

(* Markers, words and the two elements without an end are no tags.          *)
LEMMA NoTags == Markup \cup {"<input/>", "<hr/>"} \cup ToSet(Word) \subseteq Token \ Tag
  <1>1. (Markup \cup {"<input/>", "<hr/>"}) \cap Tag = {}
    BY DEF Markup, Tag
  <1> QED
    BY <1>1, DocumentAssumption DEF Token
-----------------------------------------------------------------------------
(* A line without its first token.                                          *)
LEMMA HeadTail ==
    ASSUME NEW S, NEW l \in Seq(S), l # <<>>
    PROVE  Head(l) \in S /\ Tail(l) \in Seq(S) /\ l = <<Head(l)>> \o Tail(l)
  <1>1. Head(l) \in S /\ Tail(l) \in Seq(S) /\ <<Head(l)>> \in Seq(S)
    OBVIOUS
  <1> DEFINE m == <<Head(l)>> \o Tail(l)
  <1>2. m \in Seq(S) /\ Len(m) = Len(l)
    OBVIOUS
  <1>3. \A i \in 1..Len(l) : l[i] = m[i]
    OBVIOUS
  <1> HIDE DEF m
  <1>4. l = m
    BY <1>2, <1>3, SeqEqual
  <1> QED
    BY <1>1, <1>4 DEF m

(* Strip takes away a marker: no word, and no tag.                          *)
LEMMA StripKeeps ==
    ASSUME NEW token \in NoWord, NEW l \in Seq(Token)
    PROVE  /\ Strip(token, l) \in Seq(Token)
           /\ Words(Strip(token, l)) = Words(l)
           /\ l \in Seq(Token \ Tag) => Strip(token, l) \in Seq(Token \ Tag)
  <1>1. CASE Begins(l, token)
    <2>1. l # <<>> /\ Head(l) = token /\ Strip(token, l) = Tail(l)
      BY <1>1 DEF Begins, Strip
    <2>2. Tail(l) \in Seq(Token) /\ l = <<token>> \o Tail(l)
      BY <2>1, HeadTail
    <2>3. Words(l) = Words(Tail(l))
      BY <2>2, WordsNone
    <2>4. l \in Seq(Token \ Tag) => Tail(l) \in Seq(Token \ Tag)
      BY <2>1, HeadTail
    <2> QED
      BY <2>1, <2>2, <2>3, <2>4
  <1>2. CASE ~Begins(l, token)
    BY <1>2 DEF Strip
  <1> QED
    BY <1>1, <1>2

(* The first two tokens of a line, taken away.                              *)
LEMMA TwoOff ==
    ASSUME NEW l \in Seq(Token), Len(l) >= 2, l[1] \in NoWord, l[2] \in NoWord
    PROVE  /\ SubSeq(l, 3, Len(l)) \in Seq(Token)
           /\ Words(SubSeq(l, 3, Len(l))) = Words(l)
           /\ l \in Seq(Token \ Tag) => SubSeq(l, 3, Len(l)) \in Seq(Token \ Tag)
  <1> DEFINE m == SubSeq(l, 3, Len(l))
             a == l[1]
             b == l[2]
  <1>1. m \in Seq(Token) /\ (l \in Seq(Token \ Tag) => m \in Seq(Token \ Tag))
    OBVIOUS
  <1>2. a \in Token /\ b \in Token /\ a \in NoWord /\ b \in NoWord /\ Len(l) \in Nat
    OBVIOUS
  <1>3. m = [i \in 1..Len(l) - 2 |-> l[i + 2]] /\ Len(l) - 2 \in Nat
    OBVIOUS
  <1>4. Len(m) = Len(l) - 2 /\ \A i \in 1..Len(m) : m[i] = l[i + 2]
    <2> HIDE DEF m
    <2> QED
      BY <1>3
  <1>5. l[1] = a /\ l[2] = b
    OBVIOUS
  <1> HIDE DEF m, a, b
  <1>6. l = <<a>> \o (<<b>> \o m)
    <2> DEFINE k == <<a>> \o (<<b>> \o m)
    <2>1. k \in Seq(Token) /\ Len(k) = Len(m) + 2
      BY <1>1, <1>2
    <2>2. \A i \in 1..Len(l) : l[i] = k[i]
      BY <1>1, <1>2, <1>4, <1>5
    <2> HIDE DEF k
    <2>3. Len(l) = Len(k)
      BY <1>2, <1>4, <2>1
    <2>4. l = k
      BY <2>1, <2>2, <2>3, SeqEqual
    <2> QED
      BY <2>4 DEF k
  <1>7. Words(l) = Words(m)
    <2>1. <<b>> \o m \in Seq(Token)
      BY <1>1, <1>2
    <2>2. Words(<<a>> \o (<<b>> \o m)) = Words(<<b>> \o m)
      BY <1>2, <2>1, WordsNone
    <2>3. Words(<<b>> \o m) = Words(m)
      BY <1>1, <1>2, WordsNone
    <2> QED
      BY <1>6, <2>2, <2>3
  <1> QED
    BY <1>1, <1>7 DEF m

(* StripIndent takes away two spaces.                                       *)
LEMMA IndentKeeps ==
    ASSUME NEW l \in Seq(Token), Indented(l)
    PROVE  /\ StripIndent(l) \in Seq(Token)
           /\ Words(StripIndent(l)) = Words(l)
           /\ l \in Seq(Token \ Tag) => StripIndent(l) \in Seq(Token \ Tag)
  <1>1. "sp" \in NoWord
    BY NoWords DEF Markup
  <1> QED
    BY <1>1, TwoOff DEF Indented, StripIndent

(* Unquoted takes away the marker and adds a space; no single token is left.*)
LEMMA QuoteKeeps ==
    ASSUME NEW l \in Seq(Token)
    PROVE  /\ Unquoted(l) \in Seq(Token)
           /\ Words(Unquoted(l)) = Words(l)
           /\ l \in Seq(Token \ Tag) => Unquoted(l) \in Seq(Token \ Tag)
           /\ \A e : Unquoted(l) # <<e>>
  <1> DEFINE m == IF Len(l) >= 2 /\ l[1] = ">" /\ l[2] = "sp" THEN SubSeq(l, 3, Len(l)) ELSE l
  <1>1. "sp" \in NoWord /\ ">" \in NoWord /\ "sp" \in Token \ Tag
    BY NoWords, NoTags DEF Markup
  <1>2. /\ m \in Seq(Token) /\ Words(m) = Words(l)
        /\ l \in Seq(Token \ Tag) => m \in Seq(Token \ Tag)
    BY <1>1, TwoOff
  <1> HIDE DEF m
  <1> DEFINE q == Strip(">", m)
  <1>3. /\ q \in Seq(Token) /\ Words(q) = Words(m)
        /\ m \in Seq(Token \ Tag) => q \in Seq(Token \ Tag)
    BY <1>1, <1>2, StripKeeps
  <1>4. QuotedPart(l) = q
    BY Zenon DEF QuotedPart, m, q
  <1> HIDE DEF q
  <1>5. CASE q = <<>>
    <2>1. Unquoted(l) = <<>>
      BY <1>4, <1>5 DEF Unquoted
    <2>2. <<>> \in Seq(Token) /\ <<>> \in Seq(Token \ Tag) /\ \A e : <<>> # <<e>>
      OBVIOUS
    <2> QED
      BY <1>2, <1>3, <1>5, <2>1, <2>2
  <1>6. CASE q # <<>>
    <2>1. Unquoted(l) = Append(q, "sp")
      BY <1>4, <1>6 DEF Unquoted
    <2> DEFINE u == Append(q, "sp")
    <2>2. /\ u \in Seq(Token) /\ u = q \o <<"sp">>
          /\ q \in Seq(Token \ Tag) => u \in Seq(Token \ Tag)
      BY <1>1, <1>3, AppendType, AppendIsConcat
    <2>3. Len(u) = Len(q) + 1 /\ Len(q) \in Nat /\ Len(q) # 0
      BY <1>3, <1>6
    <2>4. Words(u) = Words(q)
      BY <1>1, <1>3, <2>2, WordsNone
    <2> HIDE DEF u
    <2>5. \A e : u # <<e>>
      <3> SUFFICES ASSUME NEW e, u = <<e>> PROVE FALSE
        OBVIOUS
      <3>1. Len(u) = 1
        OBVIOUS
      <3> QED
        BY <2>3, <3>1
    <2> QED
      BY <1>2, <1>3, <2>1, <2>2, <2>4, <2>5 DEF u
  <1> QED
    BY <1>5, <1>6

(* Body takes away the marker of an item: no word, and no tag.              *)
LEMMA BodyKeeps ==
    ASSUME NEW k \in ListKind, NEW l \in Seq(Token)
    PROVE  /\ Body(k, l) \in Seq(Token)
           /\ Words(Body(k, l)) = Words(l)
           /\ l \in Seq(Token \ Tag) => Body(k, l) \in Seq(Token \ Tag)
           /\ l # <<>> /\ Head(l) \in Tag => Body(k, l) = l
           /\ l = <<>> => Body(k, l) = <<>>
  <1>1. /\ "* " \in NoWord /\ "1. " \in NoWord /\ "- [ ] " \in NoWord
        /\ "<input/>" \in NoWord /\ "<input/>" \in Token \ Tag
    BY NoWords, NoTags DEF Markup
  <1>2. "* " \notin Tag /\ "1. " \notin Tag /\ "- [ ] " \notin Tag
    BY DEF Tag
  <1>3. CASE k = "ul"
    <2>1. Body(k, l) = Strip("* ", l)
      BY <1>3 DEF Body
    <2> QED
      BY <1>1, <1>2, <2>1, StripKeeps DEF Strip, Begins
  <1>4. CASE k = "ol"
    <2> DEFINE m == Strip("1. ", l)
    <2>1. Body(k, l) = Strip("* ", m)
      BY <1>4 DEF Body
    <2>2. /\ m \in Seq(Token) /\ Words(m) = Words(l)
          /\ l \in Seq(Token \ Tag) => m \in Seq(Token \ Tag)
          /\ l # <<>> /\ Head(l) \in Tag => m = l
          /\ l = <<>> => m = <<>>
      BY <1>1, <1>2, StripKeeps DEF Strip, Begins
    <2> HIDE DEF m
    <2> DEFINE n == Strip("* ", m)
    <2>3. /\ n \in Seq(Token) /\ Words(n) = Words(m)
          /\ m \in Seq(Token \ Tag) => n \in Seq(Token \ Tag)
          /\ m # <<>> /\ Head(m) \in Tag => n = m
          /\ m = <<>> => n = <<>>
      BY <1>1, <1>2, <2>2, StripKeeps DEF Strip, Begins
    <2> HIDE DEF n
    <2>4. Body(k, l) = n
      BY <2>1 DEF n
    <2> QED
      BY <2>2, <2>3, <2>4
  <1>5. CASE k = "check"
    <2>1. CASE Begins(l, "- [ ] ")
      <3>1. l # <<>> /\ Head(l) = "- [ ] " /\ Body(k, l) = <<"<input/>">> \o Tail(l)
        BY <1>5, <2>1 DEF Begins, Body
      <3>2. Tail(l) \in Seq(Token) /\ l = <<"- [ ] ">> \o Tail(l)
        BY <3>1, HeadTail
      <3>3. Words(<<"<input/>">> \o Tail(l)) = Words(l)
        <4>1. Words(<<"<input/>">> \o Tail(l)) = Words(Tail(l))
          BY <1>1, <3>2, WordsNone, Zenon
        <4>2. Words(<<"- [ ] ">> \o Tail(l)) = Words(Tail(l))
          BY <1>1, <3>2, WordsNone, Zenon
        <4> QED
          BY <3>2, <4>1, <4>2, Zenon
      <3>4. <<"<input/>">> \o Tail(l) \in Seq(Token)
        <4>1. <<"<input/>">> \in Seq(Token)
          BY <1>1, TupleTypes
        <4> QED
          BY <3>2, <4>1, ConcatProperties, Zenon
      <3>5. l \in Seq(Token \ Tag) => <<"<input/>">> \o Tail(l) \in Seq(Token \ Tag)
        <4>1. l \in Seq(Token \ Tag) => Tail(l) \in Seq(Token \ Tag)
          BY <3>1, HeadTail
        <4>2. <<"<input/>">> \in Seq(Token \ Tag)
          BY <1>1, TupleTypes
        <4> QED
          BY <4>1, <4>2
      <3> QED
        BY <1>2, <3>1, <3>3, <3>4, <3>5
    <2>2. CASE ~Begins(l, "- [ ] ")
      BY <1>5, <2>2 DEF Body
    <2> QED
      BY <2>1, <2>2
  <1> QED
    BY <1>3, <1>4, <1>5 DEF ListKind

(* Concatenation of tokens is typed, and associative.                       *)
LEMMA CatTokens ==
    ASSUME NEW a \in Seq(Token), NEW b \in Seq(Token), NEW c \in Seq(Token)
    PROVE  a \o b \in Seq(Token) /\ a \o (b \o c) = (a \o b) \o c
  <1>1. a \o b \in Seq(Token)
    OBVIOUS
  <1>2. Regroups(a, b, c)
    BY Regroup, Zenon
  <1> QED
    BY <1>1, <1>2 DEF Regroups

(* A tag that closes what is open, and then no more tags.                   *)
LEMMA TagThenCalm ==
    ASSUME NEW s \in Seq(Token), NEW tag \in Token, NEW b \in Seq(Token \ Tag),
           NEW o \in Seq(OpenElement), Nesting(s) = o \o Closes(tag)
    PROVE  Nesting(s \o (<<tag>> \o b)) = o \o Opens(tag)
  <1>1. b \in Seq(Token)
    OBVIOUS
  <1>2. /\ s \o <<tag>> \in Seq(Token)
        /\ Nesting(s \o <<tag>>) = o \o Opens(tag)
        /\ s \o (<<tag>> \o b) = (s \o <<tag>>) \o b
    BY <1>1, NestingTag
  <1> QED
    BY <1>2, NestingPlain
-----------------------------------------------------------------------------
(* The parsers, and the types of the variables.                             *)
Parser == [kind : Kind, started : BOOLEAN, finished : BOOLEAN, result : Seq(Token)]

TypeInv ==
    /\ doc \in Seq(Seq(Token)) /\ Len(doc) <= MaxLines
    /\ line \in Seq(Token)
    /\ stack \in Seq(Parser)
    /\ at \in 0..Len(stack)
    /\ phase \in {"read", "add", "return", "done"}
    /\ phase \in {"add", "return"} <=> at > 0
    /\ eof \in BOOLEAN
    /\ output \in Seq(Token)
    /\ Nests

(* The line starts a parser of this kind; any but the empty one a paragraph.*)
Starts(k, l) == IF k = "p" THEN l # <<>> ELSE IsStartingLine(k, l)

(* The line begins with a tag that ends a list of this kind.                *)
EndsBy(k, l) == k \in ListKind /\ l # <<>> /\ Head(l) \in EndingTag[k]

(* The kinds of a parent and its child.                                     *)
Pair(parent, child) ==
    \/ parent = "quote" /\ child \in Kind \ {"code", "table", "rule"}
    \/ parent \in {"ul", "ol"} /\ child \in {"ul", "ol"}
    \/ parent = "check" /\ child = "check"

(* Headlines and rules are never seen started, ...                          *)
Fresh ==
    \A i \in 1..Len(stack) : stack[i].started => stack[i].kind \notin {"head", "rule"}

(* ... between two lines all parsers are started and none is finished, ...  *)
InRead == \A i \in 1..Len(stack) : stack[i].started /\ ~stack[i].finished

(* ... on the way down those above the running one may have finished, each  *)
(* only with its parent, and a new one has the line that starts it, ...     *)
InAdd ==
    /\ \A i \in 1..Len(stack) : i # at => stack[i].started
    /\ \A i \in 1..Len(stack) : i >= at => ~stack[i].finished
    /\ \A i, j \in 1..Len(stack) : i <= j /\ j < at /\ stack[i].finished => stack[j].finished
    /\ at > 1 /\ stack[at - 1].finished => stack[at].started /\ EndsBy(stack[at].kind, line)
    /\ ~stack[at].started =>
          /\ at = Len(stack)
          /\ stack[at].result = <<>>
          /\ Starts(stack[at].kind, line)

(* ... and on the way back the finished ones are the last ones.             *)
InReturn ==
    /\ \A i \in 1..Len(stack) : stack[i].started \/ stack[i].finished
    /\ \A i, j \in 1..Len(stack) : i <= j /\ stack[i].finished => stack[j].finished
    /\ at < Len(stack) => \A i \in 1..Len(stack) : ~stack[i].finished

(* The final empty line finishes the first parser, if that is one for which an*)
(* empty line is the end.                                                   *)
AtEnd ==
    eof /\ stack # <<>> =>
        \/ stack[1].kind \in {"quote", "code", "table"}
        \/ stack[1].finished
        \/ phase = "add" /\ at = 1 /\ line = <<>> /\ stack[1].started

Structure ==
    /\ Fresh
    /\ phase \in {"read", "done"} => InRead
    /\ phase = "add" => InAdd
    /\ phase = "return" => InReturn
    /\ phase \in {"read", "done"} => at = 0
    /\ phase = "read" => ~eof
    /\ phase = "done" /\ stack # <<>> => eof
    /\ AtEnd

(* The first part of the invariant.                                         *)
SInv == TypeInv /\ Structure
-----------------------------------------------------------------------------
(* StartedBy answers with a parser that the line starts.                    *)
LEMMA StartedByOne ==
    ASSUME NEW kinds \in SUBSET Kind, NEW l
    PROVE  \/ StartedBy(kinds, l) = "none"
           \/ StartedBy(kinds, l) \in kinds /\ IsStartingLine(StartedBy(kinds, l), l)
  BY DEF StartedBy

(* So does GetBlockParserForLine ...                                        *)
LEMMA BlockStarts ==
    ASSUME NEW l, NEW c, c = GetBlockParserForLine(l), c # "none"
    PROVE  c \in Kind /\ Starts(c, l)
  <1> DEFINE special == StartedBy(Kind \ {"p"}, l)
  <1>1. special = "none" \/ (special \in Kind \ {"p"} /\ IsStartingLine(special, l))
    BY StartedByOne
  <1>2. c = IF special = "none" /\ l # <<>> THEN "p" ELSE special
    BY DEF GetBlockParserForLine
  <1> HIDE DEF special
  <1>3. CASE c = "p"
    <2>1. l # <<>>
      BY <1>1, <1>2, <1>3
    <2> QED
      BY <1>3, <2>1 DEF Starts, Kind
  <1>4. CASE c # "p"
    BY <1>1, <1>2, <1>4 DEF Starts
  <1> QED
    BY <1>3, <1>4

(* ... and so does the callback, with a kind the parent may have.           *)
LEMMA ChildStarts ==
    ASSUME NEW kind \in Kind, NEW l, NEW c, c = ChildFor(kind, l), c # "none"
    PROVE  /\ c \in Kind /\ Starts(c, l)
           /\ \/ kind = "quote"
              \/ kind \in {"ul", "ol"} /\ c \in {"ul", "ol"}
              \/ kind = "check" /\ c = "check"
  <1>1. CASE kind = "quote"
    BY <1>1, BlockStarts DEF ChildFor
  <1>2. CASE kind \in {"ul", "ol"}
    <2>1. c = StartedBy({"ul", "ol"}, l)
      BY <1>2 DEF ChildFor
    <2>2. {"ul", "ol"} \in SUBSET Kind
      BY DEF Kind, ListKind
    <2>3. c \in {"ul", "ol"} /\ IsStartingLine(c, l)
      BY <2>1, <2>2, StartedByOne
    <2> QED
      BY <1>2, <2>2, <2>3 DEF Starts
  <1>3. CASE kind = "check"
    <2>1. c = StartedBy({"check"}, l)
      BY <1>3 DEF ChildFor
    <2>2. {"check"} \in SUBSET Kind
      BY DEF Kind, ListKind
    <2>3. c \in {"check"} /\ IsStartingLine(c, l)
      BY <2>1, <2>2, StartedByOne
    <2> QED
      BY <1>3, <2>2, <2>3 DEF Starts
  <1>4. CASE kind \notin {"quote", "ul", "ol", "check"}
    BY <1>4 DEF ChildFor
  <1> QED
    BY <1>1, <1>2, <1>3, <1>4

(* What a line that starts a parser looks like.                             *)
LEMMA StartsWith ==
    ASSUME NEW k \in Kind, NEW l, Starts(k, l)
    PROVE  /\ l # <<>>
           /\ k \in {"check", "quote", "head", "ol", "ul"} => Head(l) = Marker[k]
           /\ k \in {"code", "rule", "table"} => l = <<WholeLine[k]>>
  <1>1. DOMAIN Marker = {"check", "quote", "head", "ol", "ul"}
    BY DEF Marker
  <1>2. CASE k = "p"
    BY <1>2 DEF Starts
  <1>3. CASE k \in {"check", "quote", "head", "ol", "ul"}
    BY <1>1, <1>3 DEF Starts, IsStartingLine, Begins
  <1>4. CASE k \in {"code", "rule", "table"}
    <2>1. l = <<WholeLine[k]>>
      BY <1>1, <1>4 DEF Starts, IsStartingLine
    <2> QED
      BY <1>4, <2>1
  <1> QED
    BY <1>2, <1>3, <1>4 DEF Kind, ListKind

(* A new parser is a parser.                                                *)
LEMMA NewParserType ==
    ASSUME NEW k \in Kind
    PROVE  NewParser(k) \in Parser
  <1>1. <<>> \in Seq(Token)
    OBVIOUS
  <1> QED
    BY <1>1 DEF NewParser, Parser
-----------------------------------------------------------------------------
(* What the parsers have open: in their results, and when the line is done. *)
Had(p) == IF p.started /\ p.kind \notin {"head", "rule"} THEN Element[p.kind] ELSE <<>>
HadOpen == [p \in Parser |-> Had(p)]
OpenOf == [p \in Parser |-> IF p.finished THEN <<>> ELSE Had(p)]
ResultOf == [p \in Parser |-> p.result]

(* The parsers above the one that runs.                                     *)
Before == SubSeq(stack, 1, at - 1)
(* There is no tag in the line.                                             *)
Calm(l) == l \in Seq(Token \ Tag)

(* The line ends what those above have finished with this line.             *)
LineCloses ==
    \A s \in Seq(Token) :
        Nesting(s) = Each(HadOpen, Before) => Nesting(s \o line) = Each(OpenOf, Before)

(* The second part: what has been rendered.  On the way down the line still *)
(* misses, with its words and with its tags.                                *)
Content ==
    /\ \A i \in 1..Len(stack) :
          stack[i].kind = "table" /\ ~stack[i].finished => Calm(stack[i].result)
    /\ Nesting(output) = <<>>
    /\ phase = "add" =>
          /\ Words(Rendered) \o Words(line) = Words(FlattenSeq(doc))
          /\ Nesting(Rendered) = Each(HadOpen, stack)
          /\ Calm(line) \/ (stack[at].started /\ EndsBy(stack[at].kind, line))
          /\ LineCloses
    /\ phase # "add" =>
          /\ Words(Rendered) = Words(FlattenSeq(doc))
          /\ Nesting(Rendered) = Each(OpenOf, stack)

(* The inductive invariant.                                                 *)
IInv == SInv /\ Content

(* The parser keeps the line.                                               *)
Leaf(f, l) == at = Len(stack) /\ ChildFor(f.kind, l) = "none"

(* What a parser makes of its result, and of the line.                      *)
Grows(f, l) ==
    \A s \in Seq(Token) :
        Nesting(s \o Me.result) = Each(HadOpen, Before) \o HadOpen[Me] =>
            Nesting(s \o f.result \o l) = Each(OpenOf, Before) \o OpenOf[f]

(* What it makes of its result only, ...                                    *)
Keeps(f) ==
    \A s \in Seq(Token) :
        Nesting(s \o Me.result) = Each(HadOpen, Before) \o HadOpen[Me] =>
            Nesting(s \o f.result) = Each(HadOpen, Before) \o HadOpen[f]

(* ... and of the line only.                                                *)
Passes(f, l) ==
    \A s \in Seq(Token) :
        Nesting(s) = Each(HadOpen, Before) \o HadOpen[f] =>
            Nesting(s \o l) = Each(OpenOf, Before) \o OpenOf[f]

(* The contents of a step: the words stay, and the tags fit to what is open.*)
Renders(f, l) ==
    /\ Words(f.result) = Words(Me.result) /\ Words(l) = Words(line)
    /\ f.kind = "table" /\ ~f.finished => Calm(f.result \o l)
    /\ at < Len(stack) => f.result = Me.result
    /\ Leaf(f, l) => Grows(f, l)
    /\ ~Leaf(f, l) =>
          /\ Keeps(f)
          /\ Passes(f, l)
          /\ Calm(l) \/ (at < Len(stack) /\ EndsBy(stack[at + 1].kind, l))

(* The structure of a step.                                                 *)
Turned(f, l) ==
    /\ f \in Parser /\ f.kind = Me.kind
    /\ l \in Seq(Token)
    /\ f.started \/ f.finished
    /\ Me.started => f.started
    /\ f.started => f.kind \notin {"head", "rule"}
    /\ f.kind = "quote" => \A k \in {"code", "table", "rule"} : l # <<WholeLine[k]>>
    /\ f.finished /\ at < Len(stack) => EndsBy(stack[at + 1].kind, l)
    /\ at > 1 /\ stack[at - 1].finished => f.finished
    /\ f.finished \/ ~f.started => ChildFor(f.kind, l) = "none"
    /\ eof /\ at = 1 => f.kind \in {"quote", "code", "table"} \/ f.finished

(* Nests, of any stack.                                                     *)
NestsOf(stk) == \A i \in 2..Len(stk) : Pair(stk[i - 1].kind, stk[i].kind)

(* Nests, for any stack ...                                                 *)
LEMMA NestsIs == Nests <=> NestsOf(stack)
  BY DEF Nests, NestsOf, Pair

(* ... and for the next one.                                                *)
LEMMA NestsIsPrime == Nests' <=> NestsOf(stack')
  BY DEF Nests, NestsOf, Pair

(* Parsers of the same kinds nest alike, also if some are gone.             *)
LEMMA NestsSame ==
    ASSUME NEW b, NEW c, NestsOf(b), Len(b) \in Nat, Len(c) \in Nat, Len(c) <= Len(b),
           \A i \in 1..Len(c) : c[i].kind = b[i].kind
    PROVE  NestsOf(c)
  <1>1. ASSUME NEW i \in 2..Len(c)
        PROVE  Pair(c[i - 1].kind, c[i].kind)
    <2>1. i \in 2..Len(b) /\ i \in 1..Len(c) /\ i - 1 \in 1..Len(c)
      OBVIOUS
    <2>2. c[i].kind = b[i].kind /\ c[i - 1].kind = b[i - 1].kind
      BY <2>1
    <2>3. Pair(b[i - 1].kind, b[i].kind)
      BY <2>1 DEF NestsOf
    <2> QED
      BY <2>2, <2>3
  <1> QED
    BY <1>1 DEF NestsOf

(* The three things that AddLine may do.                                    *)
LEMMA AddLineCases ==
    ASSUME TypeInv, NEW f \in Parser, NEW l, AddLine(f, l), f.kind = Me.kind
    PROVE  /\ phase = "add" /\ at \in 1..Len(stack) /\ line' = l
           /\ UNCHANGED <<doc, eof, output>>
           /\ \/ /\ at = Len(stack) /\ ChildFor(f.kind, l) = "none"
                 /\ stack' = [stack EXCEPT ![at] = [f EXCEPT !.result = @ \o l]]
                 /\ phase' = "return" /\ at' = at
              \/ /\ at < Len(stack)
                 /\ stack' = [stack EXCEPT ![at] = f]
                 /\ phase' = "add" /\ at' = at + 1
              \/ /\ at = Len(stack)
                 /\ ChildFor(f.kind, l) \in Kind
                 /\ stack' = Append([stack EXCEPT ![at] = f], NewParser(ChildFor(f.kind, l)))
                 /\ phase' = "add" /\ at' = at + 1
  <1>1. phase = "add" /\ at \in 1..Len(stack) /\ line' = l /\ UNCHANGED <<doc, eof, output>>
    BY DEF AddLine, TypeInv
  <1>2. CASE at < Len(stack)
    <2>1. stack[at + 1].kind \in Kind
      <3>1. at + 1 \in 1..Len(stack) /\ stack \in Seq(Parser)
        BY <1>1, <1>2 DEF TypeInv
      <3>2. stack[at + 1] \in Parser
        BY <3>1
      <3> QED
        BY <3>2 DEF Parser
    <2>2. stack[at + 1].kind # "none"
      BY <2>1 DEF Kind, ListKind
    <2> QED
      BY <1>1, <1>2, <2>2 DEF AddLine
  <1>3. CASE ~(at < Len(stack))
    <2>1. at = Len(stack)
      BY <1>1, <1>3 DEF TypeInv
    <2>2. f.kind \in Kind
      BY DEF Parser
    <2>3. ChildFor(f.kind, l) # "none" => ChildFor(f.kind, l) \in Kind
      BY <2>2, ChildStarts
    <2> QED
      BY <1>1, <1>3, <2>1, <2>3 DEF AddLine
  <1> QED
    BY <1>2, <1>3

(* One element of a sequence is replaced.                                   *)
LEMMA PutAt ==
    ASSUME NEW s \in Seq(Parser), NEW k \in 1..Len(s), NEW g \in Parser,
           NEW t, t = [s EXCEPT ![k] = g]
    PROVE  /\ t \in Seq(Parser) /\ Len(t) = Len(s)
           /\ \A i \in 1..Len(s) : t[i] = IF i = k THEN g ELSE s[i]
  OBVIOUS

(* Every step of a parser preserves the structure of the parsers.           *)
LEMMA AddLineInv ==
    ASSUME SInv, NEW f, NEW l, Turned(f, l), AddLine(f, l)
    PROVE  SInv'
  <1> DEFINE n == Len(stack)
             c == ChildFor(f.kind, l)
  <1>0. /\ f \in Parser /\ f.kind = stack[at].kind /\ l \in Seq(Token) /\ f.kind \in Kind
        /\ TypeInv /\ n \in Nat /\ stack \in Seq(Parser)
    BY DEF SInv, Turned, TypeInv, Parser, Me
  <1>1. /\ phase = "add" /\ at \in 1..n /\ line' = l
        /\ UNCHANGED <<doc, eof, output>>
        /\ InAdd /\ Fresh /\ AtEnd /\ NestsOf(stack)
    BY <1>0, AddLineCases, NestsIs DEF Me, SInv, Structure, TypeInv
  <1>2. CASE /\ at = n /\ c = "none"
             /\ stack' = [stack EXCEPT ![at] = [f EXCEPT !.result = @ \o l]]
             /\ phase' = "return" /\ at' = at
    <2> DEFINE g == [f EXCEPT !.result = @ \o l]
    <2>1. /\ g \in Parser /\ g.kind = f.kind /\ g.started = f.started
          /\ g.finished = f.finished
      <3>1. f.result \o l \in Seq(Token)
        BY <1>0 DEF Parser
      <3> HIDE DEF n
      <3> QED
        BY <1>0, <3>1 DEF Parser
    <2> HIDE DEF g
    <2>2. /\ stack' \in Seq(Parser) /\ Len(stack') = n
          /\ \A i \in 1..n : stack'[i] = IF i = at THEN g ELSE stack[i]
      <3>1. stack' = [stack EXCEPT ![at] = g]
        BY <1>1, <1>2 DEF g
      <3>2. at \in 1..Len(stack)
        BY <1>1
      <3>3. /\ stack' \in Seq(Parser) /\ Len(stack') = Len(stack)
            /\ \A i \in 1..Len(stack) : stack'[i] = IF i = at THEN g ELSE stack[i]
        BY <1>0, <2>1, <3>1, <3>2, PutAt
      <3> QED
        BY <3>3, Zenon
    <2>3. NestsOf(stack')
      <3>1. \A i \in 1..n : stack'[i].kind = stack[i].kind
        BY <1>0, <2>1, <2>2, Zenon
      <3>2. Len(stack') = Len(stack) /\ \A i \in 1..Len(stack) : stack'[i].kind = stack[i].kind
        BY <2>2, <3>1
      <3> HIDE DEF n
      <3> QED
        BY <1>0, <1>1, <3>2, NestsSame
    <2>4. TypeInv'
      BY <1>0, <1>1, <1>2, <2>2, <2>3, NestsIsPrime DEF TypeInv
    <2>5. Fresh'
      BY <1>1, <2>1, <2>2 DEF Fresh, Turned
    <2>6. InReturn'
      <3>1. \A i \in 1..n : stack'[i].started \/ stack'[i].finished
        BY <1>1, <2>1, <2>2 DEF InAdd, Turned
      <3>2. ASSUME NEW i \in 1..n, NEW j \in 1..n, i <= j, stack'[i].finished
            PROVE  stack'[j].finished
        <4>1. CASE i = at
          BY <1>0, <1>2, <3>2, <4>1
        <4>2. CASE i # at
          <5>1. i < at /\ stack[i].finished
            BY <1>0, <1>1, <1>2, <2>2, <3>2, <4>2
          <5>2. CASE j < at
            BY <1>1, <2>2, <3>2, <5>1, <5>2 DEF InAdd
          <5>3. CASE j = at
            <6>1. at - 1 \in 1..n /\ i <= at - 1 /\ at - 1 < at /\ at > 1
              BY <1>0, <1>1, <5>1
            <6>2. stack[at - 1].finished
              BY <1>1, <5>1, <6>1 DEF InAdd
            <6> QED
              BY <1>1, <2>1, <2>2, <5>3, <6>1, <6>2 DEF Turned
          <5> QED
            BY <1>0, <1>2, <5>2, <5>3
        <4> QED
          BY <4>1, <4>2
      <3>3. at' = Len(stack')
        BY <1>2, <2>2
      <3> QED
        BY <1>0, <2>2, <3>1, <3>2, <3>3 DEF InReturn
    <2>7. AtEnd'
      BY <1>0, <1>1, <1>2, <2>1, <2>2 DEF AtEnd, Turned, InAdd
    <2> QED
      BY <1>2, <2>4, <2>5, <2>6, <2>7 DEF SInv, Structure
  <1>3. CASE /\ at < n
             /\ stack' = [stack EXCEPT ![at] = f]
             /\ phase' = "add" /\ at' = at + 1
    <2>2. /\ stack' \in Seq(Parser) /\ Len(stack') = n
          /\ \A i \in 1..n : stack'[i] = IF i = at THEN f ELSE stack[i]
      BY <1>0, <1>1, <1>3
    <2>3. NestsOf(stack')
      BY <1>0, <1>1, <2>2 DEF NestsOf
    <2>4. TypeInv'
      BY <1>0, <1>1, <1>3, <2>2, <2>3, NestsIsPrime DEF TypeInv
    <2>5. Fresh'
      BY <1>1, <2>2 DEF Fresh, Turned
    <2>6. InAdd'
      <3>1. \A i \in 1..n : stack'[i].started
        <4>1. stack[at].started
          BY <1>0, <1>1, <1>3 DEF InAdd
        <4>2. f.started
          BY <4>1 DEF Turned, Me
        <4> QED
          BY <1>1, <2>2, <4>2 DEF InAdd
      <3>2. \A i \in 1..n : i >= at + 1 => ~stack'[i].finished
        BY <1>1, <2>2 DEF InAdd
      <3>3. ASSUME NEW i \in 1..n, NEW j \in 1..n, i <= j, j < at + 1, stack'[i].finished
            PROVE  stack'[j].finished
        <4>1. CASE i = at
          BY <1>0, <1>1, <3>3, <4>1
        <4>2. CASE i # at
          <5>1. i < at /\ stack[i].finished
            BY <1>0, <1>1, <2>2, <3>3, <4>2
          <5>2. CASE j < at
            BY <1>1, <2>2, <3>3, <5>1, <5>2 DEF InAdd
          <5>3. CASE j = at
            <6>1. at - 1 \in 1..n /\ i <= at - 1 /\ at - 1 < at /\ at > 1
              BY <1>0, <1>1, <5>1
            <6>2. stack[at - 1].finished
              BY <1>1, <5>1, <6>1 DEF InAdd
            <6> QED
              BY <1>1, <2>2, <5>3, <6>1, <6>2 DEF Turned
          <5> QED
            BY <1>0, <1>1, <3>3, <5>2, <5>3
        <4> QED
          BY <4>1, <4>2
      <3>4. stack'[at].finished => EndsBy(stack'[at + 1].kind, line')
        BY <1>0, <1>1, <1>3, <2>2 DEF Turned
      <3>5. at + 1 \in 1..n /\ (at + 1) - 1 = at
        BY <1>0, <1>1, <1>3
      <3> QED
        BY <1>3, <2>2, <3>1, <3>2, <3>3, <3>4, <3>5 DEF InAdd
    <2>7. AtEnd'
      <3>1. CASE at = 1
        BY <1>0, <1>1, <1>3, <2>2, <3>1 DEF AtEnd, Turned
      <3>2. CASE at # 1
        <4>1. stack'[1] = stack[1] /\ stack # <<>>
          BY <1>0, <1>1, <2>2, <3>2
        <4> QED
          BY <1>1, <3>2, <4>1 DEF AtEnd
      <3> QED
        BY <3>1, <3>2
    <2> QED
      BY <1>0, <1>1, <1>3, <2>4, <2>5, <2>6, <2>7 DEF SInv, Structure
  <1>4. CASE /\ at = n
             /\ c \in Kind
             /\ stack' = Append([stack EXCEPT ![at] = f], NewParser(c))
             /\ phase' = "add" /\ at' = at + 1
    <2>0. c # "none"
      BY <1>4 DEF Kind, ListKind
    <2>1. /\ NewParser(c) \in Parser /\ NewParser(c).kind = c /\ ~NewParser(c).started
          /\ ~NewParser(c).finished /\ NewParser(c).result = <<>>
      BY <1>4, NewParserType DEF NewParser
    <2>2. /\ stack' \in Seq(Parser) /\ Len(stack') = n + 1
          /\ \A i \in 1..n + 1 : stack'[i] = IF i = at THEN f
                                         ELSE IF i = n + 1 THEN NewParser(c) ELSE stack[i]
      BY <1>0, <1>1, <1>4, <2>1
    <2>a. ~f.finished /\ f.started /\ Starts(c, l) /\ Pair(f.kind, c)
      <3>1. ~f.finished /\ f.started
        BY <1>0, <2>0 DEF Turned, Parser
      <3>2. /\ Starts(c, l)
            /\ \/ f.kind = "quote"
               \/ f.kind \in {"ul", "ol"} /\ c \in {"ul", "ol"}
               \/ f.kind = "check" /\ c = "check"
        BY <1>0, <2>0, ChildStarts
      <3>3. f.kind = "quote" => c \notin {"code", "table", "rule"}
        <4> HIDE DEF c
        <4> QED
          BY <1>4, <3>2, StartsWith DEF Turned
      <3> QED
        BY <1>4, <3>1, <3>2, <3>3 DEF Pair
    <2> HIDE DEF c
    <2>3. NestsOf(stack')
      BY <1>0, <1>1, <1>4, <2>1, <2>2, <2>a DEF NestsOf
    <2>4. TypeInv'
      BY <1>0, <1>1, <1>4, <2>2, <2>3, NestsIsPrime DEF TypeInv
    <2>5. Fresh'
      BY <1>1, <2>1, <2>2 DEF Fresh, Turned
    <2>6. InAdd'
      <3>1. \A i \in 1..n + 1 : i # n + 1 => stack'[i].started
        BY <1>1, <1>4, <2>2, <2>a DEF InAdd
      <3>2. \A i \in 1..n + 1 : i >= n + 1 => ~stack'[i].finished
        BY <1>0, <1>4, <2>1, <2>2
      <3>3. ~(at > 1 /\ stack[at - 1].finished)
        BY <2>a DEF Turned
      <3>4. ASSUME NEW i \in 1..n + 1, i < n + 1, stack'[i].finished
            PROVE  FALSE
        <4>1. i # at /\ i < at /\ stack[i].finished
          BY <1>0, <1>4, <2>2, <2>a, <3>4
        <4>2. at - 1 \in 1..n /\ i <= at - 1 /\ at - 1 < at /\ at > 1
          BY <1>0, <1>1, <4>1
        <4>3. stack[at - 1].finished
          BY <1>0, <1>1, <4>1, <4>2 DEF InAdd
        <4> QED
          BY <3>3, <4>2, <4>3
      <3>5. at' = n + 1 /\ (n + 1) - 1 \in 1..n /\ at' - 1 = n /\ at' = Len(stack')
        BY <1>0, <1>1, <1>4, <2>2
      <3>6. /\ stack'[n + 1].result = <<>> /\ Starts(stack'[n + 1].kind, l)
            /\ ~stack'[n].finished
        BY <1>0, <1>1, <1>4, <2>1, <2>2, <2>a
      <3> HIDE DEF n
      <3> QED
        BY <1>1, <2>2, <3>1, <3>2, <3>4, <3>5, <3>6 DEF InAdd
    <2>7. AtEnd'
      BY <1>0, <1>1, <1>4, <2>2 DEF AtEnd, Turned, InAdd
    <2> QED
      BY <1>0, <1>1, <1>4, <2>4, <2>5, <2>6, <2>7 DEF SInv, Structure
  <1> QED
    BY <1>0, <1>2, <1>3, <1>4, AddLineCases DEF Me
-----------------------------------------------------------------------------
(* The types of what parsers have open and of their results.                *)
LEMMA OpenTypes ==
    /\ HadOpen \in [Parser -> Seq(OpenElement)]
    /\ OpenOf \in [Parser -> Seq(OpenElement)]
    /\ ResultOf \in [Parser -> Seq(Token)]
    /\ \A k \in Kind \ {"head", "rule"} : Element[k] \in Seq(OpenElement)
  <1>1. /\ Element["ul"] \in Seq(OpenElement) /\ Element["ol"] \in Seq(OpenElement)
        /\ Element["check"] \in Seq(OpenElement)
    BY TupleTypes DEF Element, OpenElement
  <1>2. /\ Element["quote"] \in Seq(OpenElement) /\ Element["p"] \in Seq(OpenElement)
        /\ Element["code"] \in Seq(OpenElement) /\ Element["table"] \in Seq(OpenElement)
    BY TupleTypes DEF Element, OpenElement
  <1>3. \A k \in Kind \ {"head", "rule"} : Element[k] \in Seq(OpenElement)
    BY <1>1, <1>2 DEF Kind, ListKind
  <1>4. <<>> \in Seq(OpenElement)
    OBVIOUS
  <1>5. \A p \in Parser : p.kind \in Kind /\ p.result \in Seq(Token)
    BY DEF Parser
  <1>6. \A p \in Parser : Had(p) \in Seq(OpenElement)
    BY <1>3, <1>4, <1>5 DEF Had
  <1> QED
    BY <1>3, <1>4, <1>5, <1>6 DEF HadOpen, OpenOf, ResultOf

(* One parser more.                                                         *)
LEMMA ParserMore ==
    ASSUME NEW b \in Seq(Parser), NEW p \in Parser
    PROVE  /\ Each(HadOpen, b \o <<p>>) = Each(HadOpen, b) \o HadOpen[p]
           /\ Each(OpenOf, b \o <<p>>) = Each(OpenOf, b) \o OpenOf[p]
           /\ Each(ResultOf, b \o <<p>>) = Each(ResultOf, b) \o ResultOf[p]
           /\ Each(HadOpen, b) \in Seq(OpenElement)
           /\ Each(OpenOf, b) \in Seq(OpenElement)
           /\ Each(ResultOf, b) \in Seq(Token)
  <1>1. ASSUME NEW S, NEW g \in [Parser -> Seq(S)]
        PROVE  Each(g, b \o <<p>>) = Each(g, b) \o g[p] /\ Each(g, b) \in Seq(S)
    <2>1. Each(g, b) \in Seq(S)
      BY EachType, Zenon
    <2>2. AddsOne(g, b, p)
      BY EachMore, Zenon
    <2> QED
      BY <2>1, <2>2 DEF AddsOne
  <1>2. /\ Each(HadOpen, b \o <<p>>) = Each(HadOpen, b) \o HadOpen[p]
        /\ Each(HadOpen, b) \in Seq(OpenElement)
    BY <1>1, OpenTypes, Zenon
  <1>3. /\ Each(OpenOf, b \o <<p>>) = Each(OpenOf, b) \o OpenOf[p]
        /\ Each(OpenOf, b) \in Seq(OpenElement)
    BY <1>1, OpenTypes, Zenon
  <1>4. /\ Each(ResultOf, b \o <<p>>) = Each(ResultOf, b) \o ResultOf[p]
        /\ Each(ResultOf, b) \in Seq(Token)
    BY <1>1, OpenTypes, Zenon
  <1> QED
    BY <1>2, <1>3, <1>4

(* Rendered, as the results of the parsers one behind the other ...         *)
LEMMA RenderedIs ==
    ASSUME stack \in Seq(Parser)
    PROVE  Rendered = output \o Each(ResultOf, stack)
  <1>1. [i \in DOMAIN stack |-> stack[i].result] = [i \in DOMAIN stack |-> ResultOf[stack[i]]]
    <2>1. \A i \in DOMAIN stack : stack[i] \in Parser
      OBVIOUS
    <2> QED
      BY <2>1 DEF ResultOf
  <1> QED
    BY <1>1, Zenon DEF Rendered, Each, Mapped

(* ... and after a step.                                                    *)
LEMMA RenderedIsPrime ==
    ASSUME stack' \in Seq(Parser)
    PROVE  Rendered' = output' \o Each(ResultOf, stack')
  <1>1. [i \in DOMAIN stack' |-> stack'[i].result] = [i \in DOMAIN stack' |-> ResultOf[stack'[i]]]
    <2>1. \A i \in DOMAIN stack' : stack'[i] \in Parser
      OBVIOUS
    <2> QED
      BY <2>1 DEF ResultOf
  <1> QED
    BY <1>1, Zenon DEF Rendered, Each, Mapped

(* A line that ends a list begins with a tag, not with two spaces.          *)
LEMMA EndsNotCalm ==
    ASSUME NEW k, NEW l \in Seq(Token), EndsBy(k, l)
    PROVE  ~Calm(l) /\ ~Indented(l) /\ Head(l) \in Tag /\ Head(l) \in Token
  <1>1. l # <<>> /\ k \in ListKind /\ Head(l) \in EndingTag[k]
    BY DEF EndsBy
  <1>2. Head(l) \in Tag
    <2>1. k \in {"ul", "ol", "check"}
      BY <1>1 DEF ListKind
    <2>2. EndingTag["ul"] \subseteq Tag /\ EndingTag["ol"] \subseteq Tag
      BY DEF EndingTag, Tag
    <2>3. EndingTag["check"] \subseteq Tag
      BY DEF EndingTag, Tag
    <2> QED
      BY <1>1, <2>1, <2>2, <2>3
  <1>3. ~Calm(l)
    BY <1>1, <1>2, HeadTail DEF Calm
  <1>4. ~Indented(l)
    <2>1. "sp" \notin Tag
      BY DEF Tag
    <2>2. Head(l) = l[1]
      BY <1>1
    <2> QED
      BY <1>2, <2>1, <2>2 DEF Indented
  <1> QED
    BY <1>1, <1>2, <1>3, <1>4, HeadTail

(* What holds of the parser that runs, and of the parsers above it.         *)
LEMMA AddFacts ==
    ASSUME IInv, phase = "add"
    PROVE  /\ at \in 1..Len(stack) /\ Me \in Parser /\ Me.kind \in Kind
           /\ Me.result \in Seq(Token) /\ line \in Seq(Token)
           /\ Me.started \in BOOLEAN /\ Me.finished = FALSE
           /\ Before \in Seq(Parser)
           /\ Each(HadOpen, Before) \in Seq(OpenElement)
           /\ Each(OpenOf, Before) \in Seq(OpenElement)
           /\ Calm(line) =>
                 /\ ~(at > 1 /\ stack[at - 1].finished)
                 /\ Each(OpenOf, Before) = Each(HadOpen, Before)
           /\ ~Calm(line) => Me.started /\ EndsBy(Me.kind, line)
           /\ ~Me.started =>
                 /\ at = Len(stack) /\ Me.result = <<>>
                 /\ Starts(Me.kind, line) /\ HadOpen[Me] = <<>>
           /\ Me.started => /\ Me.kind \in Kind \ {"head", "rule"}
                             /\ HadOpen[Me] = Element[Me.kind]
                             /\ Element[Me.kind] \in Seq(OpenElement)
           /\ eof /\ at = 1 =>
                 Me.kind \in {"quote", "code", "table"} \/ (line = <<>> /\ Me.started)
  <1>1. /\ at \in 1..Len(stack) /\ stack \in Seq(Parser) /\ line \in Seq(Token)
        /\ InAdd /\ Fresh /\ AtEnd
    BY DEF IInv, SInv, TypeInv, Structure
  <1>2. Me \in Parser
    BY <1>1 DEF Me
  <1>3. /\ Me.kind \in Kind /\ Me.result \in Seq(Token)
        /\ Me.started \in BOOLEAN /\ Me.finished \in BOOLEAN
    BY <1>2 DEF Parser
  <1>4. ~Me.finished
    BY <1>1 DEF InAdd, Me
  <1>5. /\ Before \in Seq(Parser) /\ DOMAIN Before = 1..at - 1
        /\ \A i \in 1..at - 1 : Before[i] = stack[i] /\ stack[i] \in Parser
    BY <1>1 DEF Before
  <1>6. Each(HadOpen, Before) \in Seq(OpenElement) /\ Each(OpenOf, Before) \in Seq(OpenElement)
    BY <1>5, OpenTypes, EachType
  <1>7. ~Calm(line) => Me.started /\ EndsBy(Me.kind, line)
    BY DEF IInv, Content, Me
  <1>8. Calm(line) => ~(at > 1 /\ stack[at - 1].finished)
    BY <1>1, EndsNotCalm DEF InAdd
  <1>9. ASSUME Calm(line) PROVE Each(OpenOf, Before) = Each(HadOpen, Before)
    <2>1. ASSUME NEW i \in 1..at - 1 PROVE ~stack[i].finished
      <3>1. i \in 1..Len(stack) /\ at - 1 \in 1..Len(stack) /\ i <= at - 1 /\ at - 1 < at /\ at > 1
        BY <1>1
      <3> QED
        BY <1>1, <1>8, <1>9, <3>1 DEF InAdd
    <2>2. \A i \in DOMAIN Before : OpenOf[Before[i]] = HadOpen[Before[i]]
      BY <1>5, <2>1 DEF OpenOf, HadOpen
    <2>3. Mapped(OpenOf, Before) = Mapped(HadOpen, Before)
      BY <2>2, Zenon DEF Mapped
    <2> QED
      BY <2>3, Zenon DEF Each
  <1>10. ~Me.started => /\ at = Len(stack) /\ Me.result = <<>>
                       /\ Starts(Me.kind, line) /\ HadOpen[Me] = <<>>
    BY <1>1, <1>2 DEF InAdd, Me, HadOpen, Had
  <1>11. Me.started => /\ Me.kind \in Kind \ {"head", "rule"}
                      /\ HadOpen[Me] = Element[Me.kind]
                      /\ Element[Me.kind] \in Seq(OpenElement)
    <2>1. Me.started => Me.kind \in Kind \ {"head", "rule"}
      BY <1>1, <1>3 DEF Fresh, Me
    <2> QED
      BY <1>2, <2>1, OpenTypes DEF HadOpen, Had
  <1>12. eof /\ at = 1 =>
            Me.kind \in {"quote", "code", "table"} \/ (line = <<>> /\ Me.started)
    <2>1. stack # <<>>
      BY <1>1
    <2> QED
      BY <1>4, <2>1, <1>1 DEF AtEnd, Me
  <1> QED
    BY <1>1, <1>2, <1>3, <1>4, <1>5, <1>6, <1>7, <1>8, <1>9, <1>10, <1>11, <1>12
-----------------------------------------------------------------------------
(* A parser that goes on with a line in which there are no tags.            *)
LEMMA GoesOn ==
    ASSUME IInv, phase = "add", Me.started, Calm(line),
           NEW l \in Seq(Token \ Tag), Words(l) = Words(line),
           Me.kind = "quote" => \A k \in {"code", "table", "rule"} : l # <<WholeLine[k]>>,
           line # <<>> \/ Me.kind \in {"quote", "code", "table"}
    PROVE  Turned(Me, l) /\ Renders(Me, l)
  <1>1. l \in Seq(Token)
    OBVIOUS
  <1>2. Turned(Me, l)
    BY <1>1, AddFacts DEF Turned
  <1>3. /\ Each(OpenOf, Before) = Each(HadOpen, Before)
        /\ OpenOf[Me] = HadOpen[Me] /\ Me.result \in Seq(Token)
    BY AddFacts DEF OpenOf, HadOpen
  <1>4. Keeps(Me)
    BY DEF Keeps
  <1>5. Passes(Me, l)
    BY <1>3, NestingPlain DEF Passes
  <1>6. Grows(Me, l)
    <2> SUFFICES ASSUME NEW s \in Seq(Token),
                        Nesting(s \o Me.result) = Each(HadOpen, Before) \o HadOpen[Me]
                 PROVE  Nesting(s \o Me.result \o l) = Each(OpenOf, Before) \o OpenOf[Me]
      BY DEF Grows
    <2> DEFINE r == s \o Me.result
    <2>1. r \in Seq(Token)
      BY <1>3
    <2> HIDE DEF r
    <2>2. Nesting(r \o l) = Nesting(r)
      BY <2>1, NestingPlain
    <2> QED
      BY <1>3, <2>2 DEF r
  <1>7. Me.kind = "table" /\ ~Me.finished => Calm(Me.result \o l)
    <2>1. Me.kind = "table" => Calm(Me.result)
      BY AddFacts DEF IInv, Content, Me
    <2> QED
      BY <2>1 DEF Calm
  <1> QED
    BY <1>2, <1>4, <1>5, <1>6, <1>7 DEF Renders, Calm

(* What holds of a parser that passes a line on holds of one that keeps it. *)
LEMMA PassesGrows ==
    ASSUME NEW f \in Parser, NEW l \in Seq(Token), Keeps(f), Passes(f, l)
    PROVE  Grows(f, l)
  <1> SUFFICES ASSUME NEW s \in Seq(Token),
                      Nesting(s \o Me.result) = Each(HadOpen, Before) \o HadOpen[Me]
               PROVE  Nesting(s \o f.result \o l) = Each(OpenOf, Before) \o OpenOf[f]
    BY DEF Grows
  <1> DEFINE r == s \o f.result
  <1>1. r \in Seq(Token)
    BY DEF Parser
  <1>2. Nesting(r) = Each(HadOpen, Before) \o HadOpen[f]
    BY DEF Keeps
  <1> HIDE DEF r
  <1>3. Nesting(r \o l) = Each(OpenOf, Before) \o OpenOf[f]
    BY <1>1, <1>2 DEF Passes
  <1> QED
    BY <1>3 DEF r

(* A line that begins with a tag starts no list inside of one.              *)
LEMMA TagStartsNone ==
    ASSUME NEW k \in Kind \ {"quote"}, NEW l, l # <<>>, Head(l) \in Tag
    PROVE  ChildFor(k, l) = "none"
  <1> SUFFICES ASSUME ChildFor(k, l) # "none" PROVE FALSE
    OBVIOUS
  <1>1. PICK c : c = ChildFor(k, l)
    OBVIOUS
  <1>2. c \in {"ul", "ol", "check"} /\ Starts(c, l) /\ c \in Kind
    BY <1>1, ChildStarts
  <1>3. Head(l) = Marker[c]
    BY <1>2, StartsWith
  <1>4. Marker["ul"] \notin Tag /\ Marker["ol"] \notin Tag /\ Marker["check"] \notin Tag
    BY DEF Marker, Tag
  <1> QED
    BY <1>2, <1>3, <1>4

(* The parser below a list is one that the tags of that list end.           *)
LEMMA EndsTheNext ==
    ASSUME IInv, phase = "add", Me.kind \in ListKind, at < Len(stack),
           NEW tag \in {ItemTag[Me.kind], CloseTag[Me.kind]}, NEW b \in Seq(Token)
    PROVE  EndsBy(stack[at + 1].kind, <<tag>> \o b)
  <1>1. at \in 1..Len(stack) /\ NestsOf(stack)
    BY AddFacts, NestsIs DEF IInv, SInv, TypeInv
  <1>2. at + 1 \in 2..Len(stack) /\ (at + 1) - 1 = at
    BY <1>1
  <1>3. Pair(Me.kind, stack[at + 1].kind)
    BY <1>1, <1>2 DEF NestsOf, Me
  <1>4. <<tag>> \o b # <<>> /\ Head(<<tag>> \o b) = tag
    OBVIOUS
  <1>5. CASE Me.kind \in {"ul", "ol"}
    <2>1. stack[at + 1].kind \in {"ul", "ol"}
      BY <1>3, <1>5 DEF Pair
    <2>2. tag \in {"</li><li>", "</li></ul>", "</li></ol>"}
      BY <1>5 DEF ItemTag, CloseTag
    <2>3. tag \in EndingTag[stack[at + 1].kind]
      BY <2>1, <2>2 DEF EndingTag
    <2> QED
      BY <1>4, <2>1, <2>3 DEF EndsBy, ListKind
  <1>6. CASE Me.kind = "check"
    <2>1. stack[at + 1].kind = "check"
      BY <1>3, <1>6 DEF Pair
    <2>2. tag \in EndingTag["check"]
      BY <1>6 DEF ItemTag, CloseTag, EndingTag
    <2> QED
      BY <1>4, <2>1, <2>2 DEF EndsBy, ListKind
  <1> QED
    BY <1>5, <1>6 DEF ListKind

(* The tags of the lists: what they close is what the list has open.        *)
LEMMA ListTags ==
    ASSUME NEW k \in ListKind
    PROVE  /\ OpenTag[k] \in Tag /\ Closes(OpenTag[k]) = <<>> /\ Opens(OpenTag[k]) = Element[k]
           /\ CloseTag[k] \in Tag /\ Closes(CloseTag[k]) = Element[k] /\ Opens(CloseTag[k]) = <<>>
           /\ ItemTag[k] \in Tag /\ Opens(ItemTag[k]) = Closes(ItemTag[k])
           /\ Element[k] = <<"ul">> \o Closes(ItemTag[k]) \/ Element[k] = <<"ol">> \o Closes(ItemTag[k])
           /\ k \in Kind \ {"quote", "head", "rule", "table", "code"}
  <1>1. CASE k = "ul"
    BY <1>1 DEF OpenTag, CloseTag, ItemTag, Tag, Closes, Opens, Element, Kind, ListKind
  <1>2. CASE k = "ol"
    BY <1>2 DEF OpenTag, CloseTag, ItemTag, Tag, Closes, Opens, Element, Kind, ListKind
  <1>3. CASE k = "check"
    BY <1>3 DEF OpenTag, CloseTag, ItemTag, Tag, Closes, Opens, Element, Kind, ListKind
  <1> QED
    BY <1>1, <1>2, <1>3 DEF ListKind

(* The parser that runs, started or finished.                               *)
LEMMA StartedFields ==
    ASSUME Me \in Parser
    PROVE  /\ Started \in Parser /\ Started.kind = Me.kind /\ Started.started = TRUE
           /\ Started.finished = Me.finished /\ Started.result = Me.result
           /\ Finished \in Parser /\ Finished.kind = Me.kind /\ Finished.started = Me.started
           /\ Finished.finished = TRUE /\ Finished.result = Me.result
           /\ HadOpen[Finished] = HadOpen[Me] /\ OpenOf[Finished] = <<>>
  <1>1. /\ Started \in Parser /\ Started.kind = Me.kind /\ Started.started = TRUE
        /\ Started.finished = Me.finished /\ Started.result = Me.result
    BY DEF Started, Parser
  <1>2. /\ Finished \in Parser /\ Finished.kind = Me.kind /\ Finished.started = Me.started
        /\ Finished.finished = TRUE /\ Finished.result = Me.result
    BY DEF Finished, Parser
  <1> QED
    BY <1>1, <1>2 DEF HadOpen, OpenOf, Had
-----------------------------------------------------------------------------
(* ListIndented: a line without the two spaces.                             *)
LEMMA TurnsIndented ==
    ASSUME IInv, ListIndented
    PROVE  \E f, l : Turned(f, l) /\ Renders(f, l) /\ AddLine(f, l)
  <1>1. /\ phase = "add" /\ Me.kind \in ListKind /\ Me.started /\ Indented(line)
        /\ AddLine(Me, StripIndent(line))
    BY DEF ListIndented, Running, Me
  <1>2. line \in Seq(Token) /\ Calm(line)
    BY <1>1, AddFacts, EndsNotCalm
  <1>3. /\ StripIndent(line) \in Seq(Token \ Tag) /\ Words(StripIndent(line)) = Words(line)
    BY <1>1, <1>2, IndentKeeps DEF Calm
  <1>4. line # <<>> /\ Me.kind # "quote"
    BY <1>1 DEF Indented, ListKind
  <1>5. Turned(Me, StripIndent(line)) /\ Renders(Me, StripIndent(line))
    BY <1>1, <1>2, <1>3, <1>4, GoesOn
  <1> QED
    BY <1>1, <1>5

(* ListStart: the opening tag and the body of the item.                     *)
LEMMA TurnsListStart ==
    ASSUME IInv, ListStart
    PROVE  \E f, l : Turned(f, l) /\ Renders(f, l) /\ AddLine(f, l)
  <1> DEFINE k == Me.kind
             b == Body(k, line)
             l == <<OpenTag[k]>> \o b
             H == Each(HadOpen, Before)
  <1>1. /\ phase = "add" /\ k \in ListKind /\ ~Me.started /\ AddLine(Started, l)
    BY DEF ListStart, Running, Me
  <1>2. /\ line \in Seq(Token) /\ Calm(line) /\ Me \in Parser /\ Me.result = <<>>
        /\ HadOpen[Me] = <<>> /\ at = Len(stack) /\ H \in Seq(OpenElement)
        /\ Each(OpenOf, Before) = H /\ Me.finished = FALSE
        /\ ~(at > 1 /\ stack[at - 1].finished) /\ ~(eof /\ at = 1)
    BY <1>1, AddFacts, ListTags
  <1>3. b \in Seq(Token) /\ Words(b) = Words(line) /\ b \in Seq(Token \ Tag)
    BY <1>1, <1>2, BodyKeeps DEF Calm
  <1>4. /\ OpenTag[k] \in Token /\ OpenTag[k] \in NoWord /\ OpenTag[k] \in Tag
        /\ Closes(OpenTag[k]) = <<>> /\ Opens(OpenTag[k]) = Element[k]
        /\ k \in Kind \ {"quote", "head", "rule", "table", "code"}
    BY <1>1, ListTags, NoWords DEF NoWord
  <1>5. Words(l) = Words(line) /\ l \in Seq(Token) /\ l # <<>> /\ Head(l) = OpenTag[k]
    <2>1. Words(l) = Words(b)
      BY <1>3, <1>4, WordsNone
    <2>2. <<OpenTag[k]>> \in Seq(Token)
      BY <1>4, TupleTypes
    <2> HIDE DEF b, k
    <2> QED
      BY <1>3, <2>1, <2>2
  <1>6. ChildFor(k, l) = "none"
    BY <1>4, <1>5, TagStartsNone
  <1>7. /\ Started \in Parser /\ Started.kind = k /\ Started.started = TRUE
        /\ Started.finished = FALSE /\ Started.result = <<>>
    BY <1>2, StartedFields
  <1>8. OpenOf[Started] = Element[k]
    BY <1>4, <1>7 DEF OpenOf, Had
  <1>9. Turned(Started, l)
    BY <1>2, <1>4, <1>5, <1>6, <1>7 DEF Turned
  <1>10. Grows(Started, l)
    <2> SUFFICES ASSUME NEW s \in Seq(Token), Nesting(s \o Me.result) = H \o HadOpen[Me]
                 PROVE  Nesting(s \o Started.result \o l) = H \o Element[k]
      BY <1>2, <1>8 DEF Grows
    <2>1. s \o Me.result = s /\ s \o Started.result = s
      BY <1>2, <1>7
    <2>2. Nesting(s) = H \o Closes(OpenTag[k])
      BY <1>2, <1>4, <2>1
    <2>3. Nesting(s \o l) = H \o Opens(OpenTag[k])
      <3> DEFINE tag == OpenTag[k]
      <3>1. tag \in Token /\ b \in Seq(Token \ Tag) /\ Nesting(s) = H \o Closes(tag)
        BY <1>3, <1>4, <2>2
      <3> HIDE DEF tag, b, H
      <3> QED
        BY <1>2, <3>1, TagThenCalm DEF tag
    <2>4. s \o Started.result \o l = s \o l
      BY <2>1
    <2> QED
      BY <1>4, <2>3, <2>4
  <1>11. Renders(Started, l)
    BY <1>2, <1>4, <1>5, <1>6, <1>7, <1>10 DEF Renders, Leaf
  <1> QED
    BY <1>1, <1>9, <1>11

(* ListEnd: the closing tag, and what an outer list has put into the line.  *)
LEMMA TurnsListEnd ==
    ASSUME IInv, ListEnd
    PROVE  \E f, l : Turned(f, l) /\ Renders(f, l) /\ AddLine(f, l)
  <1> DEFINE k == Me.kind
             b == Body(k, line)
             l == <<CloseTag[k]>> \o b
             H == Each(HadOpen, Before)
             O == Each(OpenOf, Before)
  <1>1. /\ phase = "add" /\ k \in ListKind /\ Me.started /\ AddLine(Finished, l)
    BY DEF ListEnd, Running, Me
  <1>2. /\ line \in Seq(Token) /\ Me \in Parser /\ at \in 1..Len(stack)
        /\ H \in Seq(OpenElement) /\ HadOpen[Me] = Element[k] /\ Me.finished = FALSE
        /\ Calm(line) => O = H
        /\ ~Calm(line) => EndsBy(k, line)
        /\ Element[k] \in Seq(OpenElement) /\ O \in Seq(OpenElement)
        /\ Me.result \in Seq(Token)
    BY <1>1, AddFacts
  <1>3. /\ b \in Seq(Token) /\ Words(b) = Words(line)
        /\ Calm(line) => b \in Seq(Token \ Tag)
        /\ ~Calm(line) => b = line
    BY <1>1, <1>2, BodyKeeps, EndsNotCalm DEF Calm, EndsBy
  <1>4. /\ CloseTag[k] \in Token /\ CloseTag[k] \in NoWord /\ CloseTag[k] \in Tag
        /\ Closes(CloseTag[k]) = Element[k] /\ Opens(CloseTag[k]) = <<>>
        /\ k \in Kind \ {"quote", "head", "rule", "table", "code"}
    BY <1>1, ListTags, NoWords DEF NoWord
  <1>5. Words(l) = Words(line) /\ l \in Seq(Token) /\ l # <<>> /\ Head(l) = CloseTag[k]
    <2>1. Words(l) = Words(b)
      BY <1>3, <1>4, WordsNone
    <2>2. <<CloseTag[k]>> \in Seq(Token)
      BY <1>4, TupleTypes
    <2> HIDE DEF b, k
    <2> QED
      BY <1>3, <2>1, <2>2
  <1>6. ChildFor(k, l) = "none"
    BY <1>4, <1>5, TagStartsNone
  <1>7. at < Len(stack) => EndsBy(stack[at + 1].kind, l)
    BY <1>1, <1>3, EndsTheNext
  <1>8. /\ Finished \in Parser /\ Finished.kind = k /\ Finished.started = TRUE
        /\ Finished.finished = TRUE /\ Finished.result = Me.result
        /\ HadOpen[Finished] = Element[k] /\ OpenOf[Finished] = <<>>
    BY <1>1, <1>2, StartedFields
  <1>9. Turned(Finished, l)
    BY <1>2, <1>4, <1>5, <1>6, <1>7, <1>8 DEF Turned
  <1>10. Keeps(Finished)
    BY <1>2, <1>8 DEF Keeps
  <1>11. Passes(Finished, l)
    <2> SUFFICES ASSUME NEW s \in Seq(Token), Nesting(s) = H \o Element[k]
                 PROVE  Nesting(s \o l) = O
      <3>1. Each(OpenOf, Before) \o OpenOf[Finished] = O
        BY <1>2, <1>8
      <3>2. Each(HadOpen, Before) \o HadOpen[Finished] = H \o Element[k]
        BY <1>8
      <3> HIDE DEF l, k
      <3> QED
        BY <3>1, <3>2 DEF Passes
    <2> DEFINE r == s \o <<CloseTag[k]>>
    <2>1. r \in Seq(Token) /\ Nesting(r) = H \o <<>> /\ s \o l = r \o b
      <3> DEFINE tag == CloseTag[k]
      <3>1. tag \in Token /\ Nesting(s) = H \o Closes(tag) /\ Opens(tag) = <<>>
        BY <1>4
      <3> HIDE DEF tag, b, H
      <3>2. /\ s \o <<tag>> \in Seq(Token) /\ Nesting(s \o <<tag>>) = H \o Opens(tag)
            /\ s \o (<<tag>> \o b) = (s \o <<tag>>) \o b
        <4>1. b \in Seq(Token) /\ H \in Seq(OpenElement)
          BY <1>2, <1>3
        <4> QED
          BY <3>1, <4>1, NestingTag, Zenon
      <3>3. l = <<tag>> \o b
        BY <1>3 DEF tag
      <3> QED
        BY <3>1, <3>2, <3>3 DEF tag
    <2>2. Nesting(r) = H
      BY <1>2, <2>1
    <2> HIDE DEF r, b
    <2>3. CASE Calm(line)
      <3>1. Nesting(r \o b) = Nesting(r)
        BY <1>3, <2>1, <2>3, NestingPlain
      <3> QED
        BY <1>2, <2>1, <2>2, <2>3, <3>1
    <2>4. CASE ~Calm(line)
      <3>1. Nesting(r \o line) = O
        BY <1>1, <2>1, <2>2 DEF IInv, Content, LineCloses
      <3> QED
        BY <1>3, <2>1, <2>4, <3>1
    <2> QED
      BY <2>3, <2>4
  <1>12. Grows(Finished, l)
    BY <1>5, <1>8, <1>10, <1>11, PassesGrows
  <1>13. Renders(Finished, l)
    <2>1. ~Leaf(Finished, l) => at < Len(stack)
      BY <1>2, <1>6, <1>8 DEF Leaf, IInv, SInv, TypeInv
    <2> QED
      BY <1>5, <1>7, <1>8, <1>10, <1>11, <1>12, <2>1 DEF Renders
  <1> QED
    BY <1>1, <1>9, <1>13

(* A line that does not end the list has no tag: it is not what an outer    *)
(* list wrote.                                                              *)
LEMMA NotEnding ==
    ASSUME IInv, phase = "add", Me.kind \in ListKind, ~EndsList(Me.kind, line)
    PROVE  Calm(line) /\ line # <<>>
  <1>1. line \in Seq(Token)
    BY AddFacts
  <1>2. line # <<>>
    BY <1>1, BodyKeeps DEF EndsList
  <1>3. ~EndsBy(Me.kind, line)
    <2> SUFFICES ASSUME EndsBy(Me.kind, line) PROVE FALSE
      OBVIOUS
    <2>1. 1 \in 1..Len(line) /\ line[1] = Head(line)
      BY <1>1, <1>2
    <2> QED
      BY <2>1 DEF EndsBy, EndsList, Contains
  <1> QED
    BY <1>1, <1>2, <1>3, AddFacts

(* ListItem: the tag between two items; the lists inside end with it.       *)
LEMMA TurnsListItem ==
    ASSUME IInv, ListItem
    PROVE  \E f, l : Turned(f, l) /\ Renders(f, l) /\ AddLine(f, l)
  <1> DEFINE k == Me.kind
             tag == ItemTag[k]
             b == Body(k, line)
             l == <<tag>> \o b
             H == Each(HadOpen, Before)
  <1>1. /\ phase = "add" /\ k \in ListKind /\ Me.started /\ AddLine(Me, l)
        /\ ~EndsList(k, line)
    BY DEF ListItem, Running, Me
  <1>2. Calm(line) /\ line # <<>>
    BY <1>1, NotEnding
  <1>3. /\ line \in Seq(Token) /\ Me \in Parser /\ at \in 1..Len(stack)
        /\ H \in Seq(OpenElement) /\ HadOpen[Me] = Element[k] /\ Me.finished = FALSE
        /\ Each(OpenOf, Before) = H /\ Me.result \in Seq(Token)
        /\ ~(at > 1 /\ stack[at - 1].finished)
        /\ eof /\ at = 1 => Me.kind \in {"quote", "code", "table"}
    BY <1>1, <1>2, AddFacts
  <1>4. b \in Seq(Token) /\ Words(b) = Words(line) /\ b \in Seq(Token \ Tag)
    BY <1>1, <1>2, <1>3, BodyKeeps DEF Calm
  <1>5. /\ tag \in Token /\ tag \in NoWord /\ tag \in Tag /\ Opens(tag) = Closes(tag)
        /\ Element[k] = <<"ul">> \o Closes(tag) \/ Element[k] = <<"ol">> \o Closes(tag)
        /\ k \in Kind \ {"quote", "head", "rule", "table", "code"}
    BY <1>1, ListTags, NoWords DEF NoWord
  <1>6. Words(l) = Words(line) /\ l \in Seq(Token) /\ l # <<>> /\ Head(l) = tag
    <2>1. Words(l) = Words(b)
      BY <1>4, <1>5, WordsNone
    <2>2. <<tag>> \in Seq(Token)
      BY <1>5, TupleTypes
    <2> HIDE DEF b, tag, k
    <2> QED
      BY <1>4, <2>1, <2>2
  <1>7. ChildFor(k, l) = "none"
    BY <1>5, <1>6, TagStartsNone
  <1>8. at < Len(stack) => EndsBy(stack[at + 1].kind, l)
    BY <1>1, <1>4, EndsTheNext
  <1>9. Turned(Me, l)
    BY <1>1, <1>3, <1>5, <1>6, <1>7 DEF Turned
  <1>10. Keeps(Me)
    BY DEF Keeps
  <1>11. OpenOf[Me] = Element[k]
    BY <1>3 DEF OpenOf, HadOpen
  <1>12. ASSUME NEW s \in Seq(Token), Nesting(s) = H \o Element[k]
         PROVE  Nesting(s \o l) = H \o Element[k]
    <2>1. PICK e \in OpenElement : Element[k] = <<e>> \o Closes(tag)
      <3>1. "ul" \in OpenElement /\ "ol" \in OpenElement
        BY DEF OpenElement
      <3> QED
        BY <1>5, <3>1
    <2> DEFINE o == H \o <<e>>
               c == Closes(tag)
    <2>2. <<e>> \in Seq(OpenElement) /\ c \in Seq(OpenElement)
      BY <2>1, TupleTypes, ClosesType
    <2> HIDE DEF H, c, tag, b
    <2>3. o \in Seq(OpenElement) /\ H \o (<<e>> \o c) = o \o c
      <3>1. o \in Seq(OpenElement)
        BY <1>3, <2>2
      <3>2. Regroups(H, <<e>>, c)
        BY <1>3, <2>2, Regroup, Zenon
      <3> QED
        BY <3>1, <3>2 DEF Regroups
    <2>4. Nesting(s) = o \o Closes(tag)
      BY <1>12, <2>1, <2>3 DEF c
    <2> HIDE DEF o
    <2>5. Nesting(s \o (<<tag>> \o b)) = o \o Opens(tag)
      BY <1>4, <1>5, <2>3, <2>4, TagThenCalm
    <2> QED
      BY <1>5, <2>1, <2>3, <2>5 DEF c
  <1>13. Passes(Me, l)
    <2> HIDE DEF H, l
    <2>1. /\ Each(OpenOf, Before) \o OpenOf[Me] = H \o Element[k]
          /\ Each(HadOpen, Before) \o HadOpen[Me] = H \o Element[k]
      BY <1>3, <1>11 DEF H
    <2> QED
      BY <1>12, <2>1 DEF Passes
  <1>14. Grows(Me, l)
    BY <1>3, <1>6, <1>10, <1>13, PassesGrows
  <1>15. Renders(Me, l)
    <2>1. ~Leaf(Me, l) => at < Len(stack)
      BY <1>3, <1>7 DEF Leaf
    <2> QED
      BY <1>5, <1>6, <1>8, <1>10, <1>13, <1>14, <2>1 DEF Renders
  <1> QED
    BY <1>1, <1>9, <1>15

(* ListText: a line more of the same item.                                  *)
LEMMA TurnsListText ==
    ASSUME IInv, ListText
    PROVE  \E f, l : Turned(f, l) /\ Renders(f, l) /\ AddLine(f, l)
  <1> DEFINE l == Body(Me.kind, line)
  <1>1. /\ phase = "add" /\ Me.kind \in ListKind /\ Me.started /\ AddLine(Me, l)
        /\ ~EndsList(Me.kind, line)
    BY DEF ListText, Running, Me
  <1>2. Calm(line) /\ line # <<>> /\ line \in Seq(Token)
    BY <1>1, NotEnding, AddFacts
  <1>3. Words(l) = Words(line) /\ l \in Seq(Token \ Tag)
    BY <1>1, <1>2, BodyKeeps DEF Calm
  <1>4. Me.kind # "quote"
    BY <1>1 DEF ListKind
  <1>5. Turned(Me, l) /\ Renders(Me, l)
    BY <1>1, <1>2, <1>3, <1>4, GoesOn
  <1> QED
    BY <1>1, <1>5
-----------------------------------------------------------------------------
(* Only lists get lines with tags.                                          *)
LEMMA NotAList ==
    ASSUME IInv, phase = "add", Me.kind \notin ListKind
    PROVE  Calm(line)
  BY AddFacts DEF EndsBy

(* QuoteLine: a quote begins, or goes on.                                   *)
LEMMA TurnsQuoteLine ==
    ASSUME IInv, QuoteLine
    PROVE  \E f, l : Turned(f, l) /\ Renders(f, l) /\ AddLine(f, l)
  <1> DEFINE l == Unquoted(line)
             H == Each(HadOpen, Before)
  <1>1. phase = "add" /\ Me.kind = "quote" /\ AddLine(Quoting, l)
    BY DEF QuoteLine, Running, Me
  <1>2. Calm(line) /\ line \in Seq(Token)
    BY <1>1, NotAList, AddFacts DEF ListKind
  <1>3. /\ Words(l) = Words(line) /\ l \in Seq(Token \ Tag) /\ l \in Seq(Token)
        /\ \A e : l # <<e>>
    BY <1>2, QuoteKeeps DEF Calm
  <1>4. CASE Me.started
    <2>1. Turned(Me, l) /\ Renders(Me, l)
      BY <1>1, <1>2, <1>3, <1>4, GoesOn
    <2>2. Quoting = Me
      BY <1>4 DEF Quoting
    <2> QED
      BY <1>1, <2>1, <2>2
  <1>5. CASE ~Me.started
    <2> DEFINE tag == "<blockquote>"
    <2>1. /\ Me \in Parser /\ at = Len(stack) /\ Me.result = <<>> /\ HadOpen[Me] = <<>>
          /\ H \in Seq(OpenElement) /\ Each(OpenOf, Before) = H /\ Me.finished = FALSE
          /\ ~(at > 1 /\ stack[at - 1].finished) /\ at \in 1..Len(stack)
      BY <1>1, <1>2, <1>5, AddFacts
    <2>2. /\ tag \in Token /\ tag \in NoWord /\ Closes(tag) = <<>>
          /\ Opens(tag) = <<"blockquote">> /\ <<tag>> \in Seq(Token)
      <3>1. tag \in Tag
        BY DEF Tag
      <3>2. tag \in NoWord /\ tag \in Token
        BY <3>1, NoWords DEF NoWord
      <3> QED
        BY <3>2, TupleTypes DEF Closes, Opens
    <2>3. Quoting = [Started EXCEPT !.result = <<tag>>]
      BY <1>5 DEF Quoting
    <2> HIDE DEF tag
    <2>4. /\ Quoting \in Parser /\ Quoting.kind = "quote" /\ Quoting.started = TRUE
          /\ Quoting.finished = FALSE /\ Quoting.result = <<tag>>
      <3>1. /\ Started \in Parser /\ Started.kind = "quote" /\ Started.started = TRUE
            /\ Started.finished = FALSE
        BY <1>1, <2>1, StartedFields
      <3> QED
        BY <2>2, <2>3, <3>1 DEF Parser
    <2>5. HadOpen[Quoting] = <<"blockquote">> /\ OpenOf[Quoting] = <<"blockquote">>
      <3>1. Element["quote"] = <<"blockquote">>
        BY DEF Element
      <3> QED
        BY <2>4, <3>1 DEF HadOpen, OpenOf, Had
    <2>6. Turned(Quoting, l)
      BY <1>1, <1>3, <2>1, <2>4 DEF Turned
    <2>7. Keeps(Quoting)
      <3> SUFFICES ASSUME NEW s \in Seq(Token), Nesting(s \o Me.result) = H \o HadOpen[Me]
                   PROVE  Nesting(s \o Quoting.result) = H \o HadOpen[Quoting]
        BY DEF Keeps
      <3>1. s \o Me.result = s
        BY <2>1
      <3>2. Nesting(s) = H \o Closes(tag)
        BY <2>1, <2>2, <3>1
      <3>3. Nesting(s \o <<tag>>) = H \o Opens(tag)
        BY <2>1, <2>2, <3>2, NestingTag
      <3> QED
        BY <2>2, <2>4, <2>5, <3>3
    <2>8. Passes(Quoting, l)
      BY <1>3, <2>1, <2>5, NestingPlain DEF Passes
    <2>9. Grows(Quoting, l)
      BY <1>3, <2>4, <2>7, <2>8, PassesGrows
    <2>10. Words(Quoting.result) = Words(Me.result)
      BY <2>1, <2>2, <2>4, WordsNone, WordsEmpty
    <2>11. Renders(Quoting, l)
      BY <1>3, <2>1, <2>4, <2>7, <2>8, <2>9, <2>10 DEF Renders, Calm
    <2> QED
      BY <1>1, <2>6, <2>11
  <1> QED
    BY <1>4, <1>5

(* A parser that keeps the line is turned and renders, if it grows as it    *)
(* should.                                                                  *)
LEMMA LeafTurns ==
    ASSUME IInv, phase = "add", Me.kind \notin ListKind,
           NEW f \in Parser, NEW l \in Seq(Token), Leaf(f, l), f.kind = Me.kind,
           Me.started => f.started, f.started \/ f.finished,
           f.started => f.kind \notin {"head", "rule"},
           f.kind = "quote" => l = <<>>,
           f.kind = "p" /\ Me.started => f.finished \/ line # <<>>,
           Words(f.result) = Words(Me.result), Words(l) = Words(line),
           f.kind = "table" /\ ~f.finished => Calm(f.result \o l),
           Grows(f, l)
    PROVE  Turned(f, l) /\ Renders(f, l)
  <1>1. Calm(line)
    BY NotAList
  <1>2. /\ at = Len(stack) /\ at \in 1..Len(stack) /\ ChildFor(f.kind, l) = "none"
        /\ ~(at > 1 /\ stack[at - 1].finished)
    BY <1>1, AddFacts DEF Leaf
  <1>3. ~(at < Len(stack))
    BY <1>2
  <1>4. eof /\ at = 1 => f.kind \in {"quote", "code", "table"} \/ f.finished
    <2>1. eof /\ at = 1 => Me.kind \in {"quote", "code", "table"} \/ (line = <<>> /\ Me.started)
      BY AddFacts
    <2>2. Me.started => Me.kind \in Kind \ {"head", "rule"}
      BY AddFacts
    <2> QED
      BY <2>1, <2>2 DEF Kind
  <1>5. <<>> # <<WholeLine["code"]>> /\ <<>> # <<WholeLine["table"]>> /\ <<>> # <<WholeLine["rule"]>>
    OBVIOUS
  <1>6. Turned(f, l)
    BY <1>2, <1>3, <1>4, <1>5 DEF Turned
  <1>7. Renders(f, l)
    BY <1>3 DEF Renders
  <1> QED
    BY <1>6, <1>7

(* These have no children, and are no children but at the end of a chain.   *)
LEMMA Leaves ==
    ASSUME IInv, phase = "add", Me.kind \in {"p", "head", "rule", "code", "table"},
           NEW f, f.kind = Me.kind, NEW l
    PROVE  Leaf(f, l) /\ Me.kind \notin ListKind
  <1>1. at \in 1..Len(stack) /\ NestsOf(stack)
    BY AddFacts, NestsIs DEF IInv, SInv, TypeInv
  <1>2. ~(at < Len(stack))
    <2> SUFFICES ASSUME at < Len(stack) PROVE FALSE
      OBVIOUS
    <2>1. at + 1 \in 2..Len(stack) /\ (at + 1) - 1 = at
      BY <1>1
    <2>2. Pair(Me.kind, stack[at + 1].kind)
      BY <1>1, <2>1 DEF NestsOf, Me
    <2> QED
      BY <2>2 DEF Pair
  <1>3. at = Len(stack)
    BY <1>1, <1>2
  <1>4. ChildFor(f.kind, l) = "none"
    BY DEF ChildFor
  <1> QED
    BY <1>3, <1>4 DEF Leaf, ListKind

(* A tag is a token, and no word.                                           *)
LEMMA TagFacts ==
    ASSUME NEW tag \in Tag
    PROVE  tag \in Token /\ tag \in NoWord /\ <<tag>> \in Seq(Token) /\ Words(<<tag>>) = <<>>
  <1>1. tag \in NoWord /\ tag \in Token
    BY NoWords DEF NoWord
  <1> QED
    BY <1>1, WordsNone

(* QuoteEnd: the closing tag goes to the result, the line stays empty.      *)
LEMMA TurnsQuoteEnd ==
    ASSUME IInv, QuoteEnd
    PROVE  \E f, l : Turned(f, l) /\ Renders(f, l) /\ AddLine(f, l)
  <1> DEFINE tag == "</blockquote>"
             f == [Quoting EXCEPT !.finished = TRUE, !.result = Append(@, tag)]
             H == Each(HadOpen, Before)
  <1>1. /\ phase = "add" /\ Me.kind = "quote" /\ line = <<>> /\ at = Len(stack)
        /\ AddLine(f, <<>>)
    BY DEF QuoteEnd, Running, Me
  <1>2. Me.kind \notin ListKind /\ Calm(line)
    BY <1>1, NotAList DEF ListKind
  <1>3. Me.started
    <2>1. Me.kind \in Kind /\ (~Me.started => Starts(Me.kind, line))
      BY <1>1, AddFacts
    <2> QED
      BY <1>1, <2>1, StartsWith
  <1>4. /\ Me \in Parser /\ Me.result \in Seq(Token) /\ HadOpen[Me] = Element["quote"]
        /\ H \in Seq(OpenElement) /\ Each(OpenOf, Before) = H
    BY <1>1, <1>2, <1>3, AddFacts
  <1>5. /\ tag \in Token /\ tag \in NoWord /\ <<tag>> \in Seq(Token)
        /\ Closes(tag) = Element["quote"] /\ Opens(tag) = <<>>
    <2>1. tag \in Tag
      BY DEF Tag
    <2> QED
      BY <2>1, TagFacts DEF Closes, Opens, Element
  <1> DEFINE r == Me.result \o <<tag>>
  <1>6. r \in Seq(Token) /\ Append(Me.result, tag) = r /\ Words(r) = Words(Me.result)
    BY <1>4, <1>5, WordsNone, AppendIsConcat
  <1>7. f = [Me EXCEPT !.finished = TRUE, !.result = r]
    BY <1>3, <1>6 DEF Quoting
  <1> HIDE DEF f, r, tag
  <1>8. /\ f \in Parser /\ f.kind = "quote" /\ f.started = TRUE /\ f.finished = TRUE
        /\ f.result = r
    BY <1>1, <1>3, <1>4, <1>6, <1>7 DEF Parser
  <1>9. OpenOf[f] = <<>>
    BY <1>8 DEF OpenOf
  <1>10. <<>> \in Seq(Token)
    OBVIOUS
  <1>11. Leaf(f, <<>>)
    <2>1. ChildFor("quote", <<>>) = GetBlockParserForLine(<<>>)
      BY DEF ChildFor
    <2>2. GetBlockParserForLine(<<>>) = "none"
      <3> SUFFICES ASSUME GetBlockParserForLine(<<>>) # "none" PROVE FALSE
        OBVIOUS
      <3>1. PICK c : c = GetBlockParserForLine(<<>>)
        OBVIOUS
      <3>2. c \in Kind /\ Starts(c, <<>>)
        BY <3>1, BlockStarts
      <3> QED
        BY <3>2, StartsWith
    <2> QED
      BY <1>1, <1>8, <2>1, <2>2 DEF Leaf
  <1>12. Grows(f, <<>>)
    <2> SUFFICES ASSUME NEW s \in Seq(Token), Nesting(s \o Me.result) = H \o HadOpen[Me]
                 PROVE  Nesting(s \o f.result \o <<>>) = H \o OpenOf[f]
      BY <1>4 DEF Grows
    <2> DEFINE q == s \o Me.result
    <2>1. q \in Seq(Token) /\ s \o r = q \o <<tag>>
      <3>1. Me.result \in Seq(Token) /\ <<tag>> \in Seq(Token) /\ s \in Seq(Token)
        BY <1>4, <1>5
      <3>2. q \in Seq(Token) /\ s \o (Me.result \o <<tag>>) = q \o <<tag>>
        BY <3>1, CatTokens, Zenon
      <3> QED
        BY <3>2, Zenon DEF r
    <2>2. Nesting(q) = H \o Closes(tag)
      BY <1>4, <1>5
    <2> HIDE DEF q
    <2>3. Nesting(q \o <<tag>>) = H \o Opens(tag)
      <3>1. /\ q \in Seq(Token) /\ tag \in Token /\ H \in Seq(OpenElement)
            /\ <<>> \in Seq(Token)
        BY <1>4, <1>5, <2>1
      <3> QED
        BY <2>2, <3>1, NestingTag, Zenon
    <2>4. s \o f.result \o <<>> = s \o r
      BY <1>6, <1>8
    <2> QED
      BY <1>5, <1>9, <2>1, <2>3, <2>4
  <1>13. Words(<<>>) = Words(line)
    BY <1>1
  <1>14. Turned(f, <<>>) /\ Renders(f, <<>>)
    BY <1>1, <1>2, <1>6, <1>8, <1>10, <1>11, <1>12, <1>13, LeafTurns
  <1> QED
    BY <1>1, <1>14

(* A parser without a child that begins: a tag and a line without any.      *)
LEMMA BeginsBlock ==
    ASSUME IInv, phase = "add", Me.kind \in {"p", "code"}, ~Me.started,
           NEW tag \in Tag, Closes(tag) = <<>>, Opens(tag) = Element[Me.kind],
           NEW b \in Seq(Token \ Tag), Words(b) = Words(line)
    PROVE  Turned(Started, <<tag>> \o b) /\ Renders(Started, <<tag>> \o b)
  <1> DEFINE l == <<tag>> \o b
             H == Each(HadOpen, Before)
  <1>1. Me.kind \notin ListKind /\ Calm(line) /\ Me \in Parser
    BY NotAList, AddFacts DEF ListKind
  <1>2. /\ Me.result = <<>> /\ HadOpen[Me] = <<>> /\ Me.finished = FALSE
        /\ H \in Seq(OpenElement) /\ Each(OpenOf, Before) = H
    BY <1>1, AddFacts
  <1>3. /\ Started \in Parser /\ Started.kind = Me.kind /\ Started.started = TRUE
        /\ Started.finished = FALSE /\ Started.result = <<>>
    BY <1>1, <1>2, StartedFields
  <1>4. OpenOf[Started] = Element[Me.kind]
    BY <1>3 DEF OpenOf, Had
  <1>5. /\ tag \in Token /\ tag \in NoWord /\ <<tag>> \in Seq(Token) /\ b \in Seq(Token)
        /\ l \in Seq(Token) /\ Words(l) = Words(line)
    <2>1. tag \in Token /\ tag \in NoWord /\ <<tag>> \in Seq(Token)
      BY TagFacts
    <2>2. b \in Seq(Token)
      OBVIOUS
    <2> QED
      BY <2>1, <2>2, WordsNone, ConcatProperties
  <1>6. Leaf(Started, l)
    BY <1>3, Leaves
  <1>7. Grows(Started, l)
    <2> SUFFICES ASSUME NEW s \in Seq(Token), Nesting(s \o Me.result) = H \o HadOpen[Me]
                 PROVE  Nesting(s \o Started.result \o l) = H \o OpenOf[Started]
      BY <1>2 DEF Grows
    <2>1. s \o Me.result = s /\ s \o Started.result = s
      BY <1>2, <1>3
    <2>2. Nesting(s) = H \o Closes(tag)
      BY <1>2, <2>1
    <2>3. Nesting(s \o l) = H \o Opens(tag)
      BY <1>2, <1>5, <2>2, TagThenCalm
    <2>4. s \o Started.result \o l = s \o l
      BY <2>1
    <2> QED
      BY <1>4, <2>3, <2>4
  <1> QED
    BY <1>1, <1>2, <1>3, <1>5, <1>6, <1>7, LeafTurns

(* A parser without a child that ends: a tag.                               *)
LEMMA EndsBlock ==
    ASSUME IInv, phase = "add", Me.kind \in {"p", "code"}, Me.started,
           NEW tag \in Tag, Closes(tag) = Element[Me.kind], Opens(tag) = <<>>,
           Words(line) = <<>>
    PROVE  Turned(Finished, <<tag>>) /\ Renders(Finished, <<tag>>)
  <1> DEFINE H == Each(HadOpen, Before)
  <1>1. Me.kind \notin ListKind /\ Calm(line) /\ Me \in Parser
    BY NotAList, AddFacts DEF ListKind
  <1>2. /\ Me.result \in Seq(Token) /\ HadOpen[Me] = Element[Me.kind]
        /\ H \in Seq(OpenElement) /\ Each(OpenOf, Before) = H
    BY <1>1, AddFacts
  <1>3. /\ Finished \in Parser /\ Finished.kind = Me.kind /\ Finished.started = TRUE
        /\ Finished.finished = TRUE /\ Finished.result = Me.result /\ OpenOf[Finished] = <<>>
    BY <1>1, <1>2, StartedFields
  <1>5. tag \in Token /\ <<tag>> \in Seq(Token) /\ Words(<<tag>>) = <<>>
    BY TagFacts
  <1>6. Leaf(Finished, <<tag>>)
    BY <1>3, Leaves
  <1>7. Grows(Finished, <<tag>>)
    <2> SUFFICES ASSUME NEW s \in Seq(Token), Nesting(s \o Me.result) = H \o HadOpen[Me]
                 PROVE  Nesting(s \o Finished.result \o <<tag>>) = H \o OpenOf[Finished]
      BY <1>2 DEF Grows
    <2> DEFINE q == s \o Me.result
    <2>1. q \in Seq(Token) /\ Nesting(q) = H \o Closes(tag)
      BY <1>2
    <2> HIDE DEF q
    <2>2. Nesting(q \o <<tag>>) = H \o Opens(tag)
      BY <1>2, <1>5, <2>1, NestingTag
    <2> QED
      BY <1>3, <2>2 DEF q
  <1> QED
    BY <1>1, <1>2, <1>3, <1>5, <1>6, <1>7, LeafTurns

(* ParagraphStart and ParagraphLine.                                        *)
LEMMA TurnsParagraph ==
    ASSUME IInv, ParagraphStart \/ ParagraphLine
    PROVE  \E f, l : Turned(f, l) /\ Renders(f, l) /\ AddLine(f, l)
  <1>1. phase = "add" /\ Me.kind = "p"
    BY DEF ParagraphStart, ParagraphLine, Running, Me
  <1>2. line \in Seq(Token) /\ Calm(line)
    BY <1>1, NotAList, AddFacts DEF ListKind
  <1>3. CASE ParagraphStart
    <2>1. ~Me.started /\ AddLine(Started, <<"<p>">> \o line)
      BY <1>3 DEF ParagraphStart
    <2>2. "<p>" \in Tag /\ Closes("<p>") = <<>> /\ Opens("<p>") = Element["p"]
      BY DEF Tag, Closes, Opens, Element
    <2>3. Turned(Started, <<"<p>">> \o line) /\ Renders(Started, <<"<p>">> \o line)
      BY <1>1, <1>2, <2>1, <2>2, BeginsBlock DEF Calm
    <2> QED
      BY <2>1, <2>3
  <1>4. CASE ParagraphLine /\ line = <<>>
    <2>1. Me.started /\ AddLine(Finished, <<"</p>">>)
      BY <1>4 DEF ParagraphLine
    <2>2. "</p>" \in Tag /\ Closes("</p>") = Element["p"] /\ Opens("</p>") = <<>>
      BY DEF Tag, Closes, Opens, Element
    <2>3. Turned(Finished, <<"</p>">>) /\ Renders(Finished, <<"</p>">>)
      BY <1>1, <1>4, <2>1, <2>2, EndsBlock, WordsEmpty
    <2> QED
      BY <2>1, <2>3
  <1>5. CASE ParagraphLine /\ line # <<>>
    <2>1. Me.started /\ AddLine(Me, line)
      BY <1>5 DEF ParagraphLine
    <2>2. Turned(Me, line) /\ Renders(Me, line)
      BY <1>1, <1>2, <1>5, <2>1, GoesOn DEF Calm
    <2> QED
      BY <2>1, <2>2
  <1> QED
    BY <1>3, <1>4, <1>5

(* Headline: begins and ends with one line.                                 *)
LEMMA TurnsHeadline ==
    ASSUME IInv, Headline
    PROVE  \E f, l : Turned(f, l) /\ Renders(f, l) /\ AddLine(f, l)
  <1> DEFINE b == Tail(line)
             l == <<"<h1>">> \o b \o <<"</h1>">>
             H == Each(HadOpen, Before)
  <1>1. phase = "add" /\ Me.kind = "head" /\ AddLine(Finished, l)
    BY DEF Headline, Running, Me
  <1>2. Me.kind \notin ListKind /\ Calm(line)
    BY <1>1, NotAList DEF ListKind
  <1>3. ~Me.started
    BY <1>1, AddFacts
  <1>4. /\ Me \in Parser /\ Me.result = <<>> /\ HadOpen[Me] = <<>> /\ Starts(Me.kind, line)
        /\ H \in Seq(OpenElement) /\ Each(OpenOf, Before) = H /\ Me.kind \in Kind
        /\ Me.started = FALSE
    BY <1>1, <1>2, <1>3, AddFacts
  <1>5. line # <<>> /\ Head(line) = "# "
    BY <1>1, <1>4, StartsWith DEF Marker
  <1>6. b \in Seq(Token \ Tag) /\ line = <<"# ">> \o b /\ b \in Seq(Token)
    <2>1. b \in Seq(Token \ Tag) /\ line = <<"# ">> \o b
      BY <1>2, <1>5, HeadTail DEF Calm
    <2>2. \A c \in Seq(Token \ Tag) : c \in Seq(Token)
      OBVIOUS
    <2> QED
      BY <2>1, <2>2, Zenon
  <1>7. "<h1>" \in Tag /\ "</h1>" \in Tag /\ "# " \in NoWord
    BY NoWords DEF Markup, Tag
  <1> DEFINE m == <<"<h1>">> \o b
  <1>8. /\ m \in Seq(Token) /\ Words(m) = Words(b) /\ l \in Seq(Token) /\ Words(l) = Words(m)
    <2>1. m \in Seq(Token) /\ Words(m) = Words(b)
      BY <1>6, <1>7, TagFacts, WordsNone, CatTokens
    <2> HIDE DEF m
    <2>2. m \o <<"</h1>">> \in Seq(Token) /\ Words(m \o <<"</h1>">>) = Words(m)
      BY <1>7, <2>1, TagFacts, WordsNone, CatTokens
    <2> QED
      BY <2>1, <2>2 DEF m
  <1>9. Words(l) = Words(line)
    BY <1>6, <1>7, <1>8, WordsNone
  <1>10. /\ Finished \in Parser /\ Finished.kind = "head" /\ Finished.started = FALSE
         /\ Finished.finished = TRUE /\ Finished.result = <<>> /\ OpenOf[Finished] = <<>>
    BY <1>1, <1>4, StartedFields
  <1>11. Leaf(Finished, l)
    BY <1>1, <1>10, Leaves
  <1>12. Grows(Finished, l)
    <2> SUFFICES ASSUME NEW s \in Seq(Token), Nesting(s \o Me.result) = H \o HadOpen[Me]
                 PROVE  Nesting(s \o Finished.result \o l) = H \o OpenOf[Finished]
      BY <1>4 DEF Grows
    <2> HIDE DEF H, b
    <2>1. s \o Finished.result = s /\ s \o Me.result = s
      BY <1>4, <1>10
    <2>2. Closes("<h1>") = <<>> /\ Opens("<h1>") = Closes("</h1>") /\ Opens("</h1>") = <<>>
      BY DEF Closes, Opens
    <2>3. "<h1>" \in Token /\ "</h1>" \in Token
      BY <1>7, TagFacts
    <2>4. Nesting(s) = H \o Closes("<h1>")
      BY <1>4, <2>1, <2>2
    <2>5. Nesting(s \o m) = H \o Closes("</h1>")
      <3> DEFINE tag == "<h1>"
      <3>1. tag \in Token /\ Nesting(s) = H \o Closes(tag) /\ H \in Seq(OpenElement)
        BY <1>4, <2>3, <2>4 DEF H
      <3> HIDE DEF tag
      <3>2. Nesting(s \o (<<tag>> \o b)) = H \o Opens(tag)
        BY <1>6, <3>1, TagThenCalm
      <3> QED
        BY <2>2, <3>2 DEF tag
    <2> HIDE DEF m
    <2>6. s \o m \in Seq(Token) /\ s \o (m \o <<"</h1>">>) = (s \o m) \o <<"</h1>">>
      BY <1>7, <1>8, TagFacts, CatTokens
    <2>7. Nesting((s \o m) \o <<"</h1>">>) = H \o Opens("</h1>")
      BY <1>4, <2>3, <2>5, <2>6, TupleTypes, NestingTag
    <2>8. l = m \o <<"</h1>">>
      BY DEF m
    <2> QED
      BY <1>10, <2>1, <2>2, <2>6, <2>7, <2>8
  <1> HIDE DEF l
  <1>13. Turned(Finished, l) /\ Renders(Finished, l)
    BY <1>1, <1>2, <1>4, <1>8, <1>9, <1>10, <1>11, <1>12, LeafTurns
  <1> QED
    BY <1>1, <1>13

(* A parser without a child that needs its line only, and no tag.           *)
LEMMA TurnsRule ==
    ASSUME IInv, HorizontalLine
    PROVE  \E f, l : Turned(f, l) /\ Renders(f, l) /\ AddLine(f, l)
  <1> DEFINE l == <<"<hr/>">>
             H == Each(HadOpen, Before)
  <1>1. phase = "add" /\ Me.kind = "rule" /\ AddLine(Finished, l)
    BY DEF HorizontalLine, Running, Me
  <1>2. Me.kind \notin ListKind /\ Calm(line)
    BY <1>1, NotAList DEF ListKind
  <1>3. ~Me.started
    BY <1>1, AddFacts
  <1>4. /\ Me \in Parser /\ Me.result = <<>> /\ HadOpen[Me] = <<>> /\ Starts(Me.kind, line)
        /\ H \in Seq(OpenElement) /\ Each(OpenOf, Before) = H /\ Me.kind \in Kind
        /\ Me.started = FALSE
    BY <1>1, <1>2, <1>3, AddFacts
  <1>5. line = <<"---">>
    BY <1>1, <1>4, StartsWith DEF WholeLine
  <1>6. "---" \in NoWord /\ "<hr/>" \in NoWord /\ "<hr/>" \in Token \ Tag
    BY NoWords, NoTags DEF Markup
  <1>7. l \in Seq(Token) /\ l \in Seq(Token \ Tag) /\ Words(l) = Words(line)
    BY <1>5, <1>6, WordsNone, TupleTypes
  <1>10. /\ Finished \in Parser /\ Finished.kind = "rule" /\ Finished.started = FALSE
         /\ Finished.finished = TRUE /\ Finished.result = <<>> /\ OpenOf[Finished] = <<>>
    BY <1>1, <1>4, StartedFields
  <1>11. Leaf(Finished, l)
    BY <1>1, <1>10, Leaves
  <1> HIDE DEF l
  <1>12. Grows(Finished, l)
    <2> SUFFICES ASSUME NEW s \in Seq(Token), Nesting(s \o Me.result) = H \o HadOpen[Me]
                 PROVE  Nesting(s \o Finished.result \o l) = H \o OpenOf[Finished]
      BY <1>4 DEF Grows
    <2> HIDE DEF H
    <2>1. s \o Finished.result = s /\ s \o Me.result = s
      BY <1>4, <1>10
    <2>2. Nesting(s \o l) = Nesting(s)
      BY <1>7, NestingPlain
    <2> QED
      BY <1>4, <1>10, <2>1, <2>2
  <1>13. Turned(Finished, l) /\ Renders(Finished, l)
    BY <1>1, <1>2, <1>4, <1>7, <1>10, <1>11, <1>12, LeafTurns
  <1> QED
    BY <1>1, <1>13

(* CodeFence and CodeText: between the fences, lines are kept as they are.  *)
LEMMA TurnsCode ==
    ASSUME IInv, CodeFence \/ CodeText
    PROVE  \E f, l : Turned(f, l) /\ Renders(f, l) /\ AddLine(f, l)
  <1>1. phase = "add" /\ Me.kind = "code"
    BY DEF CodeFence, CodeText, Running, Me
  <1>2. line \in Seq(Token) /\ Calm(line)
    BY <1>1, NotAList, AddFacts DEF ListKind
  <1>3. CASE CodeFence
    <2>1. line = <<"fence">> /\ IF Me.started THEN AddLine(Finished, <<"</code></pre>">>)
                                            ELSE AddLine(Started, <<"<pre><code>">>)
      BY <1>3 DEF CodeFence
    <2>2. "fence" \in NoWord
      BY NoWords DEF Markup
    <2>3. Words(line) = <<>>
      BY <2>1, <2>2, WordsNone
    <2>4. CASE Me.started
      <3>1. /\ "</code></pre>" \in Tag /\ Closes("</code></pre>") = Element["code"]
            /\ Opens("</code></pre>") = <<>>
        BY DEF Tag, Closes, Opens, Element
      <3>2. Turned(Finished, <<"</code></pre>">>) /\ Renders(Finished, <<"</code></pre>">>)
        BY <1>1, <2>3, <2>4, <3>1, EndsBlock
      <3> QED
        BY <2>1, <2>4, <3>2
    <2>5. CASE ~Me.started
      <3>1. /\ "<pre><code>" \in Tag /\ Closes("<pre><code>") = <<>>
            /\ Opens("<pre><code>") = Element["code"]
        BY DEF Tag, Closes, Opens, Element
      <3>2. <<>> \in Seq(Token \ Tag) /\ Words(<<>>) = Words(line)
        BY <2>3, WordsEmpty
      <3>3. <<"<pre><code>">> \o <<>> = <<"<pre><code>">>
        OBVIOUS
      <3>4. /\ Turned(Started, <<"<pre><code>">> \o <<>>)
            /\ Renders(Started, <<"<pre><code>">> \o <<>>)
        <4> DEFINE b == <<>>
        <4>1. b \in Seq(Token \ Tag) /\ Words(b) = Words(line)
          BY <3>2
        <4> HIDE DEF b
        <4>2. Turned(Started, <<"<pre><code>">> \o b) /\ Renders(Started, <<"<pre><code>">> \o b)
          BY <1>1, <2>5, <3>1, <4>1, BeginsBlock
        <4> QED
          BY <4>2 DEF b
      <3> QED
        BY <2>1, <2>5, <3>3, <3>4
    <2> QED
      BY <2>4, <2>5
  <1>4. CASE CodeText
    <2>1. line # <<"fence">> /\ AddLine(Me, line)
      BY <1>4 DEF CodeText
    <2>2. Me.started
      <3>1. ~Me.started => Starts("code", line)
        BY <1>1, AddFacts
      <3>2. "code" \in Kind
        BY DEF Kind
      <3> QED
        BY <2>1, <3>1, <3>2, StartsWith DEF WholeLine
    <2>3. Turned(Me, line) /\ Renders(Me, line)
      BY <1>1, <1>2, <2>2, GoesOn DEF Calm
    <2> QED
      BY <2>1, <2>3
  <1> QED
    BY <1>3, <1>4

(* TableStart and TableRow: no tag before the end of the table.             *)
LEMMA TurnsTable ==
    ASSUME IInv, TableStart \/ TableRow
    PROVE  \E f, l : Turned(f, l) /\ Renders(f, l) /\ AddLine(f, l)
  <1>1. phase = "add" /\ Me.kind = "table"
    BY DEF TableStart, TableRow, Running, Me
  <1>2. line \in Seq(Token) /\ Calm(line) /\ Me.kind \notin ListKind
    BY <1>1, NotAList, AddFacts DEF ListKind
  <1>3. CASE TableRow
    <2>1. Me.started /\ AddLine(Me, line)
      BY <1>3 DEF TableRow
    <2>2. Turned(Me, line) /\ Renders(Me, line)
      BY <1>1, <1>2, <2>1, GoesOn DEF Calm
    <2> QED
      BY <2>1, <2>2
  <1>4. CASE TableStart
    <2> DEFINE l == <<>>
               H == Each(HadOpen, Before)
    <2>1. ~Me.started /\ AddLine(Started, l)
      BY <1>4 DEF TableStart
    <2>2. /\ Me \in Parser /\ Me.result = <<>> /\ HadOpen[Me] = <<>> /\ Starts(Me.kind, line)
          /\ H \in Seq(OpenElement) /\ Each(OpenOf, Before) = H /\ Me.kind \in Kind
          /\ Me.finished = FALSE
      BY <1>1, <1>2, <2>1, AddFacts
    <2>3. line = <<"|table>">>
      BY <1>1, <2>2, StartsWith DEF WholeLine
    <2>4. "|table>" \in NoWord
      BY NoWords DEF Markup
    <2>5. l \in Seq(Token) /\ l \in Seq(Token \ Tag) /\ Words(l) = Words(line)
      BY <2>3, <2>4, WordsNone, WordsEmpty
    <2>6. /\ Started \in Parser /\ Started.kind = "table" /\ Started.started = TRUE
          /\ Started.finished = FALSE /\ Started.result = <<>>
      BY <1>1, <2>2, StartedFields
    <2>7. OpenOf[Started] = <<>>
      <3>1. Element["table"] = <<>>
        BY DEF Element
      <3> QED
        BY <2>6, <3>1 DEF OpenOf, Had
    <2>8. Leaf(Started, l)
      BY <1>1, <2>6, Leaves
    <2>9. Grows(Started, l)
      <3> SUFFICES ASSUME NEW s \in Seq(Token), Nesting(s \o Me.result) = H \o HadOpen[Me]
                   PROVE  Nesting(s \o Started.result \o l) = H \o OpenOf[Started]
        BY <2>2 DEF Grows
      <3> HIDE DEF H
      <3>1. s \o Started.result \o l = s /\ s \o Me.result = s
        BY <2>2, <2>6
      <3> QED
        BY <2>2, <2>7, <3>1
    <2>10. Calm(Started.result \o l)
      BY <2>5, <2>6 DEF Calm
    <2> HIDE DEF l
    <2>11. Turned(Started, l) /\ Renders(Started, l)
      BY <1>1, <1>2, <2>1, <2>2, <2>5, <2>6, <2>8, <2>9, <2>10, LeafTurns
    <2> QED
      BY <2>1, <2>11
  <1> QED
    BY <1>3, <1>4

(* TableEnd: both tags at once, around what has been collected.             *)
LEMMA TurnsTableEnd ==
    ASSUME IInv, TableEnd
    PROVE  \E f, l : Turned(f, l) /\ Renders(f, l) /\ AddLine(f, l)
  <1> DEFINE l == <<"</table>">>
             f == [Finished EXCEPT !.result = <<"<table>">> \o @]
             H == Each(HadOpen, Before)
             r == <<"<table>">> \o Me.result
  <1>1. /\ phase = "add" /\ Me.kind = "table" /\ Me.started /\ line = <<"|<table">>
        /\ AddLine(f, l)
    BY DEF TableEnd, Running, Me
  <1>2. Me.kind \notin ListKind /\ Calm(line)
    BY <1>1, NotAList DEF ListKind
  <1>4. /\ Me \in Parser /\ Me.result \in Seq(Token) /\ HadOpen[Me] = Element["table"]
        /\ H \in Seq(OpenElement) /\ Each(OpenOf, Before) = H /\ Me.finished = FALSE
    BY <1>1, <1>2, AddFacts
  <1>5. Me.result \in Seq(Token \ Tag)
    <2>1. at \in 1..Len(stack)
      BY <1>1, AddFacts
    <2> QED
      BY <1>1, <1>4, <2>1 DEF IInv, Content, Me, Calm
  <1>6. "<table>" \in Tag /\ "</table>" \in Tag /\ "|<table" \in NoWord
    BY NoWords DEF Markup, Tag
  <1>7. /\ r \in Seq(Token) /\ Words(r) = Words(Me.result)
        /\ l \in Seq(Token) /\ Words(l) = Words(line)
    BY <1>1, <1>4, <1>6, TagFacts, WordsNone, CatTokens
  <1>8. /\ Finished \in Parser /\ Finished.kind = "table" /\ Finished.started = TRUE
        /\ Finished.finished = TRUE /\ Finished.result = Me.result
    BY <1>1, <1>4, StartedFields
  <1>9. f = [Finished EXCEPT !.result = r]
    BY <1>8
  <1> HIDE DEF f, r, l
  <1>10. /\ f \in Parser /\ f.kind = "table" /\ f.started = TRUE
         /\ f.finished = TRUE /\ f.result = r
    BY <1>7, <1>8, <1>9 DEF Parser
  <1>11. OpenOf[f] = <<>>
    BY <1>10 DEF OpenOf
  <1>12. Leaf(f, l)
    BY <1>1, <1>10, Leaves
  <1>13. Grows(f, l)
    <2> SUFFICES ASSUME NEW s \in Seq(Token), Nesting(s \o Me.result) = H \o HadOpen[Me]
                 PROVE  Nesting(s \o f.result \o l) = H \o OpenOf[f]
      BY <1>4 DEF Grows
    <2> HIDE DEF H
    <2>1. Closes("<table>") = <<>> /\ Opens("<table>") = Closes("</table>")
          /\ Opens("</table>") = <<>> /\ Element["table"] = <<>>
      BY DEF Closes, Opens, Element
    <2>2. Nesting(s \o Me.result) = Nesting(s)
      BY <1>5, NestingPlain
    <2>3. Nesting(s) = H \o Closes("<table>")
      BY <1>4, <2>1, <2>2
    <2>4. "<table>" \in Token /\ "</table>" \in Token
      BY <1>6, TagFacts
    <2>5. Nesting(s \o r) = H \o Closes("</table>")
      <3> DEFINE tag == "<table>"
                 b == Me.result
      <3>1. /\ tag \in Token /\ Nesting(s) = H \o Closes(tag) /\ H \in Seq(OpenElement)
            /\ b \in Seq(Token \ Tag)
        BY <1>4, <1>5, <2>3, <2>4 DEF H
      <3> HIDE DEF tag, b
      <3>2. Nesting(s \o (<<tag>> \o b)) = H \o Opens(tag)
        BY <3>1, TagThenCalm
      <3> QED
        BY <2>1, <3>2 DEF tag, b, r
    <2>6. s \o r \in Seq(Token)
      BY <1>7, CatTokens
    <2>7. Nesting((s \o r) \o <<"</table>">>) = H \o Opens("</table>")
      BY <1>4, <2>4, <2>5, <2>6, TupleTypes, NestingTag
    <2> QED
      BY <1>10, <1>11, <2>1, <2>7 DEF l
  <1>14. Turned(f, l) /\ Renders(f, l)
    BY <1>1, <1>2, <1>7, <1>10, <1>12, <1>13, LeafTurns
  <1> QED
    BY <1>1, <1>14

(* What every parser makes of a line.                                       *)
LEMMA EveryBlockTurns ==
    ASSUME IInv, ParseBlock
    PROVE  \E f, l : Turned(f, l) /\ Renders(f, l) /\ AddLine(f, l)
  BY TurnsIndented, TurnsListStart, TurnsListEnd, TurnsListItem, TurnsListText,
     TurnsQuoteLine, TurnsQuoteEnd, TurnsParagraph, TurnsHeadline, TurnsRule, TurnsCode,
     TurnsTable, TurnsTableEnd, Zenon DEF ParseBlock
-----------------------------------------------------------------------------
(* The line ends what is open above the parser that gets it next, when it   *)
(* passes through this one.                                                 *)
LEMMA ClosesNext ==
    ASSUME IInv, phase = "add", NEW f \in Parser, NEW l \in Seq(Token), Passes(f, l),
           NEW b, b = Before \o <<f>>
    PROVE  \A s \in Seq(Token) :
              Nesting(s) = Each(HadOpen, b) => Nesting(s \o l) = Each(OpenOf, b)
  <1>1. Before \in Seq(Parser)
    BY AddFacts
  <1>2. Each(HadOpen, b) = Each(HadOpen, Before) \o HadOpen[f]
    BY <1>1, ParserMore
  <1>3. Each(OpenOf, b) = Each(OpenOf, Before) \o OpenOf[f]
    BY <1>1, ParserMore
  <1> QED
    BY <1>2, <1>3 DEF Passes

(* What has been rendered, with the last parser apart.                      *)
LEMMA RenderedApart ==
    ASSUME IInv, phase = "add", at = Len(stack),
           NEW s, s = output \o Each(ResultOf, Before)
    PROVE  /\ s \in Seq(Token) /\ Rendered = s \o Me.result
           /\ Words(s) \o (Words(Me.result) \o Words(line)) = Words(FlattenSeq(doc))
           /\ Nesting(s \o Me.result) = Each(HadOpen, Before) \o HadOpen[Me]
           /\ \A p \in Parser : output \o Each(ResultOf, Before \o <<p>>) = s \o p.result
  <1>1. /\ stack \in Seq(Parser) /\ at \in 1..Len(stack) /\ Me \in Parser
        /\ output \in Seq(Token) /\ Before \in Seq(Parser) /\ Me.result \in Seq(Token)
        /\ line \in Seq(Token)
    BY AddFacts DEF IInv, SInv, TypeInv
  <1>2. stack = Before \o <<Me>>
    BY <1>1, LastOff DEF Before, Me
  <1> DEFINE R == Each(ResultOf, Before)
  <1>3. R \in Seq(Token)
    BY <1>1, ParserMore
  <1>4. s \in Seq(Token)
    BY <1>1, <1>3, CatTokens
  <1>r. s = output \o R
    OBVIOUS
  <1> HIDE DEF R
  <1>5. ASSUME NEW p \in Parser
        PROVE  output \o Each(ResultOf, Before \o <<p>>) = s \o p.result
    <2>1. Each(ResultOf, Before \o <<p>>) = R \o ResultOf[p]
      BY <1>1, ParserMore DEF R
    <2>2. ResultOf[p] = p.result /\ p.result \in Seq(Token)
      BY DEF ResultOf, Parser
    <2>3. output \o (R \o p.result) = (output \o R) \o p.result
      <3>1. /\ output \in Seq(Token) /\ R \in Seq(Token) /\ p.result \in Seq(Token)
        BY <1>1, <1>3, <2>2
      <3>2. Regroups(output, R, p.result)
        BY <3>1, Regroup, Zenon
      <3> QED
        BY <3>2, Zenon DEF Regroups
    <2> QED
      BY <1>r, <2>1, <2>2, <2>3
  <1>6. Rendered = s \o Me.result
    BY <1>1, <1>2, <1>5, RenderedIs
  <1>7. Words(s) \o (Words(Me.result) \o Words(line)) = Words(FlattenSeq(doc))
    <2>1. Words(Rendered) = Words(s) \o Words(Me.result)
      BY <1>1, <1>4, <1>6, WordsConcat
    <2>2. Words(Rendered) \o Words(line) = Words(FlattenSeq(doc))
      BY DEF IInv, Content
    <2>3. Words(s) \in Seq(Token) /\ Words(Me.result) \in Seq(Token) /\ Words(line) \in Seq(Token)
      BY <1>1, <1>4, WordsType
    <2>4. Words(s) \o (Words(Me.result) \o Words(line))
            = (Words(s) \o Words(Me.result)) \o Words(line)
      <3>1. Regroups(Words(s), Words(Me.result), Words(line))
        BY <2>3, Regroup, Zenon
      <3> QED
        BY <3>1, Zenon DEF Regroups
    <2> QED
      BY <2>1, <2>2, <2>4
  <1>8. Nesting(s \o Me.result) = Each(HadOpen, Before) \o HadOpen[Me]
    <2>1. Each(HadOpen, Before \o <<Me>>) = Each(HadOpen, Before) \o HadOpen[Me]
      BY <1>1, ParserMore
    <2> QED
      BY <1>2, <1>6, <2>1 DEF IInv, Content
  <1> QED
    BY <1>4, <1>5, <1>6, <1>7, <1>8

(* The step of a parser keeps every word, and the tags match.               *)
LEMMA AddLineContent ==
    ASSUME IInv, NEW f, NEW l, Turned(f, l), Renders(f, l), AddLine(f, l), SInv'
    PROVE  Content'
  <1> DEFINE n == Len(stack)
             H == Each(HadOpen, Before)
             O == Each(OpenOf, Before)
             c == ChildFor(f.kind, l)
  <1>1. /\ TypeInv /\ f \in Parser /\ f.kind = Me.kind /\ l \in Seq(Token)
        /\ stack \in Seq(Parser) /\ stack' \in Seq(Parser)
        /\ f.result \in Seq(Token)
    BY DEF IInv, SInv, TypeInv, Turned, Parser
  <1>2. /\ phase = "add" /\ at \in 1..n /\ line' = l /\ doc' = doc /\ output' = output
    BY <1>1, AddLineCases
  <1>3. /\ Before \in Seq(Parser) /\ Me \in Parser
        /\ Words(f.result) = Words(Me.result) /\ Words(l) = Words(line)
    BY <1>2, AddFacts DEF Renders
  <1>4. /\ Nesting(output) = <<>>
        /\ \A i \in 1..n : stack[i].kind = "table" /\ ~stack[i].finished => Calm(stack[i].result)
    BY DEF IInv, Content
  <1>5. CASE /\ at = n /\ c = "none"
             /\ stack' = [stack EXCEPT ![at] = [f EXCEPT !.result = @ \o l]]
             /\ phase' = "return" /\ at' = at
    <2> DEFINE g == [f EXCEPT !.result = @ \o l]
               s == output \o Each(ResultOf, Before)
    <2>1. /\ g \in Parser /\ g.result = f.result \o l /\ OpenOf[g] = OpenOf[f]
          /\ g.kind = f.kind /\ g.finished = f.finished
      <3>1. f.result \o l \in Seq(Token)
        BY <1>1
      <3>2. /\ g \in Parser /\ g.result = f.result \o l /\ g.kind = f.kind
            /\ g.finished = f.finished /\ g.started = f.started
        BY <1>1, <3>1 DEF Parser
      <3> HIDE DEF g
      <3> QED
        BY <1>1, <3>2 DEF OpenOf, Had
    <2>0. stack' = [stack EXCEPT ![at] = g]
      BY <1>5
    <2> HIDE DEF g, s
    <2>b. \A i \in 1..n : stack'[i] = IF i = at THEN g ELSE stack[i]
      BY <1>1, <1>2, <2>0
    <2>2. stack' = Before \o <<g>>
      <3>1. stack \in Seq(Parser) /\ at \in 1..Len(stack) /\ at = Len(stack) /\ g \in Parser
        BY <1>1, <1>2, <1>5, <2>1
      <3>2. [stack EXCEPT ![at] = g] = SubSeq(stack, 1, at - 1) \o <<g>>
        BY <3>1, UptoReplaced
      <3> QED
        BY <2>0, <3>2 DEF Before
    <2>3. /\ s \in Seq(Token)
          /\ Words(s) \o (Words(Me.result) \o Words(line)) = Words(FlattenSeq(doc))
          /\ Nesting(s \o Me.result) = H \o HadOpen[Me]
          /\ output \o Each(ResultOf, Before \o <<g>>) = s \o g.result
      BY <1>2, <1>5, <2>1, RenderedApart DEF s
    <2>4. Rendered' = s \o (f.result \o l)
      BY <1>1, <1>2, <2>1, <2>2, <2>3, RenderedIsPrime
    <2>5. Words(Rendered') = Words(FlattenSeq(doc'))
      <3>1. f.result \o l \in Seq(Token) /\ Words(f.result \o l) = Words(f.result) \o Words(l)
        BY <1>1, WordsConcat, CatTokens
      <3>2. Words(s \o (f.result \o l)) = Words(s) \o Words(f.result \o l)
        BY <2>3, <3>1, WordsConcat
      <3> QED
        BY <1>2, <1>3, <2>3, <2>4, <3>1, <3>2
    <2>6. Nesting(Rendered') = Each(OpenOf, stack')
      <3>1. Leaf(f, l) /\ Grows(f, l)
        BY <1>5 DEF Leaf, Renders
      <3>2. Nesting(s \o f.result \o l) = O \o OpenOf[f]
        BY <2>3, <3>1 DEF Grows
      <3>3. s \o f.result \o l = s \o (f.result \o l)
        BY <1>1, <2>3, CatTokens
      <3>4. Each(OpenOf, Before \o <<g>>) = O \o OpenOf[g]
        BY <1>3, <2>1, ParserMore
      <3> QED
        BY <2>1, <2>2, <2>4, <3>2, <3>3, <3>4
    <2>7. Len(stack') = n
      BY <1>1, <1>2, <2>0, <2>1
    <2>8. \A i \in 1..n : stack'[i].kind = "table" /\ ~stack'[i].finished => Calm(stack'[i].result)
      BY <1>4, <2>1, <2>b DEF Renders
    <2> QED
      BY <1>2, <1>4, <1>5, <2>5, <2>6, <2>7, <2>8 DEF Content, Calm
  <1>6. CASE /\ at < n
             /\ stack' = [stack EXCEPT ![at] = f]
             /\ phase' = "add" /\ at' = at + 1
    <2>1. /\ Len(stack') = n
          /\ \A i \in 1..n : stack'[i] = IF i = at THEN f ELSE stack[i]
      BY <1>1, <1>2, <1>6
    <2>2. f.result = Me.result
      BY <1>6 DEF Renders
    <2>3. HadOpen[f] = HadOpen[Me] /\ Me.started /\ f.started
      <3>1. Me.started /\ f.started
        BY <1>2, <1>6, AddFacts DEF Turned
      <3> QED
        BY <1>1, <1>3, <3>1 DEF HadOpen, Had
    <2>4. Each(ResultOf, stack') = Each(ResultOf, stack)
      <3>1. \A i \in 1..n : ResultOf[stack'[i]] = ResultOf[stack[i]]
        BY <1>1, <1>3, <2>1, <2>2 DEF ResultOf, Me
      <3>2. DOMAIN stack' = 1..n /\ DOMAIN stack = 1..n
        BY <1>1, <2>1
      <3>3. Mapped(ResultOf, stack') = Mapped(ResultOf, stack)
        BY <3>1, <3>2, Zenon DEF Mapped
      <3> QED
        BY <3>3, Zenon DEF Each
    <2>5. Each(HadOpen, stack') = Each(HadOpen, stack)
      <3>1. \A i \in 1..n : HadOpen[stack'[i]] = HadOpen[stack[i]]
        BY <2>1, <2>3 DEF Me
      <3>2. DOMAIN stack' = 1..n /\ DOMAIN stack = 1..n
        BY <1>1, <2>1
      <3>3. Mapped(HadOpen, stack') = Mapped(HadOpen, stack)
        BY <3>1, <3>2, Zenon DEF Mapped
      <3> QED
        BY <3>3, Zenon DEF Each
    <2>6. Rendered' = Rendered
      BY <1>1, <1>2, <2>4, RenderedIs, RenderedIsPrime
    <2>7. /\ Words(Rendered') \o Words(line') = Words(FlattenSeq(doc'))
          /\ Nesting(Rendered') = Each(HadOpen, stack')
      BY <1>2, <1>3, <2>5, <2>6 DEF IInv, Content
    <2>8. ~Leaf(f, l)
      BY <1>2, <1>6 DEF Leaf
    <2>9. Calm(l) \/ (stack'[at'].started /\ EndsBy(stack'[at'].kind, l))
      <3>1. at + 1 \in 1..n /\ at + 1 # at
        BY <1>1, <1>2, <1>6
      <3>2. stack[at + 1].started
        BY <1>2, <3>1 DEF IInv, SInv, Structure, InAdd
      <3> QED
        BY <1>6, <2>1, <2>8, <3>1, <3>2 DEF Renders
    <2>10. SubSeq(stack', 1, at) = Before \o <<f>>
      BY <1>1, <1>2, <1>6, UptoReplaced DEF Before
    <2>11. LineCloses'
      <3>1. at' - 1 = at
        BY <1>1, <1>2, <1>6
      <3>2. Before' = Before \o <<f>>
        BY <2>10, <3>1 DEF Before
      <3>3. Passes(f, l)
        BY <2>8 DEF Renders
      <3>4. \A s \in Seq(Token) :
               Nesting(s) = Each(HadOpen, Before') => Nesting(s \o l) = Each(OpenOf, Before')
        BY <1>1, <1>2, <3>2, <3>3, ClosesNext
      <3> QED
        BY <1>2, <3>4 DEF LineCloses
    <2>12. \A i \in 1..n : stack'[i].kind = "table" /\ ~stack'[i].finished => Calm(stack'[i].result)
      <3>1. Me.finished = FALSE /\ Me = stack[at]
        BY <1>2, AddFacts DEF Me
      <3> QED
        BY <1>1, <1>2, <1>4, <2>1, <2>2, <3>1
    <2> QED
      BY <1>2, <1>4, <1>6, <2>1, <2>7, <2>9, <2>11, <2>12 DEF Content, Calm
  <1>7. CASE /\ at = n
             /\ c \in Kind
             /\ stack' = Append([stack EXCEPT ![at] = f], NewParser(c))
             /\ phase' = "add" /\ at' = at + 1
    <2> DEFINE N == NewParser(c)
               b == [stack EXCEPT ![at] = f]
               s == output \o Each(ResultOf, Before)
    <2>1. /\ N \in Parser /\ ~N.started /\ N.result = <<>> /\ N.kind = c
          /\ c # "none" /\ ResultOf[N] = <<>> /\ HadOpen[N] = <<>>
      <3>1. N \in Parser /\ ~N.started /\ N.result = <<>> /\ N.kind = c
        BY <1>7, NewParserType DEF NewParser
      <3>2. c # "none"
        BY <1>7 DEF Kind, ListKind
      <3> HIDE DEF N
      <3> QED
        BY <3>1, <3>2 DEF ResultOf, HadOpen, Had
    <2>a. stack' = Append(b, N)
      BY <1>7
    <2> HIDE DEF N, s, c
    <2>2. b = Before \o <<f>> /\ b \in Seq(Parser) /\ Len(b) = n
      BY <1>1, <1>2, <1>7, UptoReplaced DEF Before
    <2>b. \A i \in 1..n : b[i] = IF i = at THEN f ELSE stack[i]
      BY <1>1, <1>2
    <2> HIDE DEF b
    <2>3. stack' = b \o <<N>> /\ Len(stack') = n + 1 /\ SubSeq(stack', 1, n) = b
      <3>1. Append(b, N) = b \o <<N>>
        BY <2>1, <2>2, AppendIsConcat
      <3>2. Len(Append(b, N)) = n + 1
        BY <2>2
      <3>3. SubSeq(b \o <<N>>, 1, Len(b)) = b
        BY <2>1, <2>2, UptoAppended
      <3> QED
        BY <2>2, <2>a, <3>1, <3>2, <3>3
    <2>4. \A i \in 1..n + 1 : stack'[i] = IF i = n + 1 THEN N ELSE b[i]
      BY <2>1, <2>2, <2>a
    <2>5. /\ s \in Seq(Token)
          /\ Words(s) \o (Words(Me.result) \o Words(line)) = Words(FlattenSeq(doc))
          /\ Nesting(s \o Me.result) = H \o HadOpen[Me]
          /\ output \o Each(ResultOf, Before \o <<f>>) = s \o f.result
      BY <1>1, <1>2, <1>7, RenderedApart DEF s
    <2>6. Rendered' = s \o f.result
      <3>1. Each(ResultOf, b) \in Seq(Token)
        BY <2>1, <2>2, ParserMore
      <3>2. Each(ResultOf, b \o <<N>>) = Each(ResultOf, b) \o ResultOf[N]
        BY <2>1, <2>2, ParserMore
      <3>3. Each(ResultOf, b) \o <<>> = Each(ResultOf, b)
        BY <3>1
      <3>4. Rendered' = output' \o Each(ResultOf, stack')
        BY <1>1, RenderedIsPrime
      <3> QED
        BY <1>2, <2>1, <2>2, <2>3, <2>5, <3>2, <3>3, <3>4
    <2>7. Words(Rendered') \o Words(line') = Words(FlattenSeq(doc'))
      <3>1. Words(s \o f.result) = Words(s) \o Words(f.result)
        BY <1>1, <2>5, WordsConcat
      <3>2. Words(s) \in Seq(Token) /\ Words(f.result) \in Seq(Token) /\ Words(l) \in Seq(Token)
        BY <1>1, <2>5, WordsType
      <3>3. (Words(s) \o Words(f.result)) \o Words(l) = Words(s) \o (Words(f.result) \o Words(l))
        <4>1. Regroups(Words(s), Words(f.result), Words(l))
          BY <3>2, Regroup, Zenon
        <4> QED
          BY <4>1, Zenon DEF Regroups
      <3> QED
        BY <1>2, <1>3, <2>5, <2>6, <3>1, <3>3
    <2>8. ~Leaf(f, l)
      BY <2>1 DEF Leaf, c
    <2>9. Nesting(Rendered') = Each(HadOpen, stack')
      <3>1. Keeps(f)
        BY <2>8 DEF Renders
      <3>2. Nesting(s \o f.result) = H \o HadOpen[f]
        BY <2>5, <3>1 DEF Keeps
      <3>3. Each(HadOpen, b) = H \o HadOpen[f] /\ Each(HadOpen, b) \in Seq(OpenElement)
        BY <1>1, <1>3, <2>2, ParserMore
      <3>4. Each(HadOpen, b \o <<N>>) = Each(HadOpen, b) \o HadOpen[N]
        BY <2>1, <2>2, ParserMore
      <3>5. Each(HadOpen, b) \o <<>> = Each(HadOpen, b)
        BY <3>3
      <3> QED
        BY <2>1, <2>3, <2>6, <3>2, <3>3, <3>4, <3>5
    <2>10. Calm(l)
      <3>1. ~(at < n)
        BY <1>1, <1>2, <1>7
      <3> QED
        BY <2>8, <3>1 DEF Renders
    <2>11. LineCloses'
      <3>1. at' - 1 = n
        BY <1>1, <1>2, <1>7
      <3>2. Before' = Before \o <<f>>
        BY <2>2, <2>3, <3>1 DEF Before
      <3>3. Passes(f, l)
        BY <2>8 DEF Renders
      <3>4. \A q \in Seq(Token) :
               Nesting(q) = Each(HadOpen, Before') => Nesting(q \o l) = Each(OpenOf, Before')
        BY <1>1, <1>2, <3>2, <3>3, ClosesNext
      <3> QED
        BY <1>2, <3>4 DEF LineCloses
    <2>12. \A i \in 1..n + 1 :
              stack'[i].kind = "table" /\ ~stack'[i].finished => Calm(stack'[i].result)
      <3>1. N.result \in Seq(Token \ Tag)
        BY <2>1
      <3>2. f.kind # "table"
        <4>1. c # "none" => f.kind # "table"
          BY DEF c, ChildFor
        <4> QED
          BY <2>1, <4>1
      <3>3. \A i \in 1..n + 1 : i # n + 1 => i \in 1..n
        BY <1>2
      <3> QED
        BY <1>4, <2>4, <2>b, <3>1, <3>2, <3>3 DEF Calm
    <2> QED
      BY <1>2, <1>4, <1>7, <2>3, <2>7, <2>9, <2>10, <2>11, <2>12 DEF Content, Calm
  <1>8. \/ /\ at = n /\ c = "none"
           /\ stack' = [stack EXCEPT ![at] = [f EXCEPT !.result = @ \o l]]
           /\ phase' = "return" /\ at' = at
        \/ /\ at < n
           /\ stack' = [stack EXCEPT ![at] = f]
           /\ phase' = "add" /\ at' = at + 1
        \/ /\ at = n
           /\ c \in Kind
           /\ stack' = Append([stack EXCEPT ![at] = f], NewParser(c))
           /\ phase' = "add" /\ at' = at + 1
    BY <1>1, AddLineCases
  <1> QED
    BY <1>5, <1>6, <1>7, <1>8, Zenon
-----------------------------------------------------------------------------
(* The invariant holds at the start ...                                     *)
LEMMA InitInv == Init => IInv
  <1> SUFFICES ASSUME Init PROVE IInv
    OBVIOUS
  <1>1. /\ doc = <<>> /\ line = <<>> /\ stack = <<>> /\ at = 0
        /\ phase = "read" /\ eof = FALSE /\ output = <<>>
    BY DEF Init
  <1>2. /\ doc \in Seq(Seq(Token)) /\ Len(doc) = 0 /\ line \in Seq(Token)
        /\ stack \in Seq(Parser) /\ Len(stack) = 0 /\ output \in Seq(Token)
    BY <1>1
  <1>3. SInv
    <2>1. 2..Len(stack) = {} /\ 1..Len(stack) = {} /\ MaxLines \in Nat
      BY <1>2, DocumentAssumption
    <2>2. TypeInv
      <3>1. Nests
        BY <2>1, NestsIs DEF NestsOf
      <3>2. at \in 0..Len(stack) /\ ~(at > 0) /\ Len(doc) <= MaxLines
        BY <1>1, <1>2, <2>1
      <3> QED
        BY <1>1, <1>2, <3>1, <3>2 DEF TypeInv
    <2>3. Structure
      BY <1>1, <2>1 DEF Structure, Fresh, InRead, AtEnd
    <2> QED
      BY <2>2, <2>3 DEF SInv
  <1>4. Rendered = <<>>
    <2>1. Each(ResultOf, <<>>) = <<>>
      BY EachEmpty
    <2> QED
      BY <1>1, <1>2, <2>1, RenderedIs
  <1>5. Content
    <2>1. Each(OpenOf, <<>>) = <<>> /\ FlattenSeq(<<>>) = <<>>
      BY EachEmpty, FlattenEmpty
    <2> QED
      BY <1>1, <1>2, <1>4, <2>1, NestingEmpty DEF Content
  <1> QED
    BY <1>3, <1>5 DEF IInv

(* The lines that are read have markers and words, and no tags.             *)
LEMMA LineRead ==
    ASSUME TypeInv, Len(doc) < MaxLines, NEW shape \in Seq(Markup \cup {"text"}),
           NEW l, l = Instantiated(shape)
    PROVE  l \in Seq(Token \ Tag) /\ l \in Seq(Token)
  <1>1. Word[Len(doc) + 1] \in ToSet(Word)
    <2>1. Len(doc) \in Nat /\ MaxLines \in Nat /\ Len(Word) \in Nat /\ Len(Word) >= MaxLines
          /\ DOMAIN Word = 1..Len(Word)
      BY DocumentAssumption DEF TypeInv
    <2>2. Len(doc) + 1 \in DOMAIN Word
      BY <2>1
    <2> QED
      BY <2>2 DEF ToSet
  <1>2. DOMAIN shape = 1..Len(shape) /\ Len(shape) \in Nat
        /\ \A i \in 1..Len(shape) : shape[i] \in Markup \cup {"text"}
    OBVIOUS
  <1>3. Markup \subseteq Token \ Tag /\ ToSet(Word) \subseteq Token \ Tag
    BY NoTags
  <1> DEFINE T == Token \ Tag
             w == Word[Len(doc) + 1]
  <1>4. w \in T /\ Markup \subseteq T
    BY <1>1, <1>3
  <1>5. l = [i \in 1..Len(shape) |-> IF shape[i] = "text" THEN w ELSE shape[i]]
    BY <1>2 DEF Instantiated
  <1> HIDE DEF T, w
  <1>6. l \in [1..Len(shape) -> T]
    BY <1>2, <1>4, <1>5
  <1>7. l \in Seq(T)
    BY <1>2, <1>6
  <1>8. \A c \in Seq(Token \ Tag) : c \in Seq(Token)
    OBVIOUS
  <1> QED
    BY <1>7, <1>8, Zenon DEF T

(* With no parser half way through a line, all of them are open.            *)
LEMMA AllOpen ==
    ASSUME SInv, InRead
    PROVE  Each(OpenOf, stack) = Each(HadOpen, stack)
  <1>1. stack \in Seq(Parser) /\ DOMAIN stack = 1..Len(stack)
    BY DEF SInv, TypeInv
  <1>2. \A i \in DOMAIN stack : OpenOf[stack[i]] = HadOpen[stack[i]]
    BY <1>1 DEF OpenOf, HadOpen, InRead
  <1>3. Mapped(OpenOf, stack) = Mapped(HadOpen, stack)
    BY <1>2, Zenon DEF Mapped
  <1> QED
    BY <1>3, Zenon DEF Each

(* The first parser gets a line without tags: nothing is above it.          *)
LEMMA FirstCloses ==
    ASSUME NEW l \in Seq(Token \ Tag), NEW b, b = <<>>
    PROVE  \A s \in Seq(Token) :
              Nesting(s) = Each(HadOpen, b) => Nesting(s \o l) = Each(OpenOf, b)
  <1>1. Each(HadOpen, b) = <<>> /\ Each(OpenOf, b) = <<>>
    BY EachEmpty
  <1> QED
    BY <1>1, NestingPlain

(* A line more, and the words of it.                                        *)
LEMMA WordsMore ==
    ASSUME NEW d \in Seq(Seq(Token)), NEW l \in Seq(Token)
    PROVE  Words(FlattenSeq(Append(d, l))) = Words(FlattenSeq(d)) \o Words(l)
  <1>1. FlattenSeq(d) \in Seq(Token)
    BY FlattenType
  <1>2. FlattenSeq(Append(d, l)) = FlattenSeq(d) \o l
    BY FlattenAppend
  <1> QED
    BY <1>1, <1>2, WordsConcat

(* A line is given to the parsers that are there, or to a new one.          *)
BeginsNew(l) == \E k \in Kind : Starts(k, l) /\ stack' = <<NewParser(k)>>

(* ... after a line was given to the first parser ...                       *)
LEMMA HandsDown ==
    ASSUME IInv, phase = "read", NEW l \in Seq(Token \ Tag), l \in Seq(Token),
           doc' \in Seq(Seq(Token)), Len(doc') <= MaxLines,
           Words(FlattenSeq(doc')) = Words(FlattenSeq(doc)) \o Words(l),
           line' = l, at' = 1, phase' = "add", output' = output,
           \/ stack # <<>> /\ stack' = stack
           \/ /\ stack = <<>> /\ eof' = FALSE
              /\ BeginsNew(l),
           eof' \in BOOLEAN, eof' => l = <<>>
    PROVE  IInv'
  <1>1. /\ TypeInv /\ Fresh /\ InRead /\ ~eof /\ NestsOf(stack)
        /\ stack \in Seq(Parser) /\ Len(stack) \in Nat
    BY NestsIs DEF IInv, SInv, Structure, TypeInv
  <1>2. /\ Nesting(output) = <<>> /\ Words(Rendered) = Words(FlattenSeq(doc))
        /\ Nesting(Rendered) = Each(OpenOf, stack)
        /\ output \in Seq(Token)
    BY DEF IInv, Content, SInv, TypeInv
  <1>3. LineCloses' /\ Calm(line')
    <2>1. at' - 1 = 0
      OBVIOUS
    <2>2. Before' = <<>>
      BY <2>1 DEF Before
    <2> QED
      BY <2>2, FirstCloses DEF LineCloses, Calm
  <1>4. CASE stack # <<>> /\ stack' = stack
    <2>1. Len(stack) >= 1 /\ Len(stack') = Len(stack)
      BY <1>1, <1>4
    <2>2. NestsOf(stack')
      BY <1>1, <1>4
    <2>3. TypeInv'
      BY <1>1, <1>4, <2>1, <2>2, NestsIsPrime DEF TypeInv
    <2>4. Structure'
      BY <1>1, <1>4, <2>1 DEF Structure, Fresh, InRead, InAdd, AtEnd
    <2>5. Rendered' = Rendered
      BY <1>1, <1>4, RenderedIs, RenderedIsPrime
    <2>6. Nesting(Rendered') = Each(HadOpen, stack')
      BY <1>1, <1>2, <1>4, <2>5, AllOpen DEF IInv
    <2>7. \A i \in 1..Len(stack) :
             stack[i].kind = "table" /\ ~stack[i].finished => Calm(stack[i].result)
      BY DEF IInv, Content
    <2> QED
      BY <1>2, <1>3, <1>4, <2>3, <2>4, <2>5, <2>6, <2>7 DEF IInv, SInv, Content, Calm
  <1>5. CASE /\ stack = <<>> /\ eof' = FALSE
             /\ BeginsNew(l)
    <2>1. PICK k \in Kind : Starts(k, l) /\ stack' = <<NewParser(k)>>
      BY <1>5 DEF BeginsNew
    <2> DEFINE N == NewParser(k)
    <2>2. /\ N \in Parser /\ N.kind = k /\ N.started = FALSE /\ N.finished = FALSE
          /\ N.result = <<>>
      BY NewParserType DEF NewParser
    <2>3. stack' = <<N>>
      BY <2>1
    <2> HIDE DEF N
    <2>4. stack' \in Seq(Parser) /\ Len(stack') = 1 /\ stack'[1] = N
      BY <2>2, <2>3
    <2>5. NestsOf(stack')
      BY <2>4 DEF NestsOf
    <2>6. TypeInv'
      BY <1>1, <2>4, <2>5, NestsIsPrime DEF TypeInv
    <2>7. Structure'
      <3>1. InAdd'
        BY <2>1, <2>2, <2>4 DEF InAdd
      <3> QED
        BY <1>5, <2>2, <2>4, <3>1 DEF Structure, Fresh, AtEnd
    <2>8. Each(HadOpen, stack') = <<>> /\ Each(ResultOf, stack') = <<>>
      <3>1. ResultOf[N] = <<>> /\ HadOpen[N] = <<>>
        BY <2>2 DEF ResultOf, HadOpen, Had
      <3>2. /\ Each(ResultOf, <<>> \o <<N>>) = Each(ResultOf, <<>>) \o ResultOf[N]
            /\ Each(HadOpen, <<>> \o <<N>>) = Each(HadOpen, <<>>) \o HadOpen[N]
        <4>1. <<>> \in Seq(Parser)
          OBVIOUS
        <4> QED
          BY <2>2, <4>1, ParserMore
      <3>3. <<>> \o <<N>> = <<N>> /\ <<>> \o <<>> = <<>>
        OBVIOUS
      <3> QED
        BY <2>3, <3>1, <3>2, <3>3, EachEmpty
    <2>9. Rendered = output /\ Rendered' = output
      <3>1. output \o <<>> = output /\ Each(ResultOf, <<>>) = <<>>
        BY <1>2, EachEmpty
      <3> QED
        BY <1>1, <1>5, <2>4, <2>8, <3>1, RenderedIs, RenderedIsPrime
    <2>10. \A i \in 1..Len(stack') :
              stack'[i].kind = "table" /\ ~stack'[i].finished => Calm(stack'[i].result)
      <3>1. <<>> \in Seq(Token \ Tag)
        OBVIOUS
      <3>2. \A i \in 1..Len(stack') : stack'[i] = N
        BY <2>4
      <3> QED
        BY <2>2, <3>1, <3>2 DEF Calm
    <2>11. Words(Rendered') \o Words(line') = Words(FlattenSeq(doc'))
      BY <1>2, <2>9
    <2>12. Nesting(Rendered') = Each(HadOpen, stack')
      BY <1>1, <1>2, <1>5, <2>8, <2>9, EachEmpty
    <2>13. Content'
      BY <1>2, <1>3, <2>10, <2>11, <2>12 DEF Content, Calm
    <2> QED
      BY <2>6, <2>7, <2>13 DEF IInv, SInv
  <1> QED
    BY <1>4, <1>5

(* ... so with ReadLine ...                                                 *)
LEMMA ReadLineInv == IInv /\ ReadLine => IInv'
  <1> SUFFICES ASSUME IInv, ReadLine PROVE IInv'
    OBVIOUS
  <1>1. PICK shape \in Shape(doc) \cap Seq(Markup \cup {"text"}) :
           LET l     == Instantiated(shape)
               block == GetBlockParserForLine(l)
           IN  /\ doc' = Append(doc, l)
               /\ IF stack = <<>> /\ block = "none"
                    THEN UNCHANGED <<line, stack, at, phase>>
                    ELSE /\ line' = l
                         /\ stack' = IF stack = <<>> THEN <<NewParser(block)>> ELSE stack
                         /\ at' = 1
                         /\ phase' = "add"
    BY DEF ReadLine
  <1> DEFINE l == Instantiated(shape)
             block == GetBlockParserForLine(l)
  <1>2. phase = "read" /\ Len(doc) < MaxLines /\ eof' = eof /\ output' = output
    BY DEF ReadLine
  <1>3. TypeInv /\ doc \in Seq(Seq(Token)) /\ ~eof /\ MaxLines \in Nat /\ eof \in BOOLEAN
        /\ stack \in Seq(Parser)
    BY <1>2, DocumentAssumption DEF IInv, SInv, TypeInv, Structure
  <1>4. l \in Seq(Token \ Tag) /\ l \in Seq(Token)
    BY <1>2, <1>3, LineRead
  <1>5. block # "none" => block \in Kind /\ Starts(block, l)
    <2> HIDE DEF l
    <2> QED
      BY BlockStarts
  <1>6. block = "none" => l = <<>>
    BY DEF GetBlockParserForLine, Kind, ListKind
  <1>7. doc' = Append(doc, l)
    BY <1>1
  <1>8. IF stack = <<>> /\ block = "none"
          THEN UNCHANGED <<line, stack, at, phase>>
          ELSE /\ line' = l
               /\ stack' = IF stack = <<>> THEN <<NewParser(block)>> ELSE stack
               /\ at' = 1
               /\ phase' = "add"
    BY <1>1
  <1> HIDE DEF l, block
  <1>9. /\ doc' \in Seq(Seq(Token)) /\ Len(doc') <= MaxLines
        /\ Words(FlattenSeq(doc')) = Words(FlattenSeq(doc)) \o Words(l)
    <2>1. doc' \in Seq(Seq(Token)) /\ Len(doc') = Len(doc) + 1
      BY <1>3, <1>4, <1>7
    <2>2. Len(doc') <= MaxLines
      BY <1>2, <1>3, <2>1
    <2> QED
      BY <1>3, <1>4, <1>7, <2>1, <2>2, WordsMore
  <1>10. CASE stack = <<>> /\ block = "none"
    <2>1. UNCHANGED <<line, stack, at, phase>> /\ l = <<>>
      BY <1>6, <1>8, <1>10
    <2>2. Words(FlattenSeq(doc')) = Words(FlattenSeq(doc))
      <3>1. Words(FlattenSeq(doc)) \in Seq(Token)
        BY <1>3, FlattenType, WordsType
      <3>2. Words(FlattenSeq(doc)) \o <<>> = Words(FlattenSeq(doc))
        BY <3>1
      <3> QED
        BY <1>9, <2>1, <3>2, WordsEmpty
    <2>3. SInv'
      BY <1>2, <1>3, <1>9, <2>1
         DEF IInv, SInv, TypeInv, Structure, Nests, Fresh, InRead, AtEnd
    <2>4. Content'
      <3>1. Rendered' = Rendered
        BY <1>2, <1>3, <2>1, RenderedIs, RenderedIsPrime
      <3> QED
        BY <1>2, <2>1, <2>2, <3>1 DEF IInv, Content, Calm
    <2> QED
      BY <2>3, <2>4 DEF IInv
  <1>11. CASE ~(stack = <<>> /\ block = "none")
    <2>1. \/ stack # <<>> /\ stack' = stack
          \/ /\ stack = <<>> /\ eof' = FALSE
             /\ BeginsNew(l)
      BY <1>2, <1>3, <1>5, <1>8, <1>11 DEF BeginsNew
    <2>2. line' = l /\ at' = 1 /\ phase' = "add" /\ output' = output
      BY <1>2, <1>8, <1>11
    <2>3. eof' \in BOOLEAN /\ (eof' => l = <<>>)
      BY <1>2, <1>3
    <2>4. CASE stack # <<>> /\ stack' = stack
      BY <1>2, <1>4, <1>9, <2>2, <2>3, <2>4, HandsDown
    <2>5. CASE /\ stack = <<>> /\ eof' = FALSE
               /\ BeginsNew(l)
      BY <1>2, <1>4, <1>9, <2>2, <2>3, <2>5, HandsDown
    <2> QED
      BY <2>1, <2>4, <2>5
  <1> QED
    BY <1>10, <1>11

(* ... and with EndOfFile ...                                               *)
LEMMA EndOfFileInv == IInv /\ EndOfFile => IInv'
  <1> SUFFICES ASSUME IInv, EndOfFile PROVE IInv'
    OBVIOUS
  <1>1. phase = "read" /\ doc' = doc /\ stack' = stack /\ output' = output
    BY DEF EndOfFile
  <1>2. TypeInv /\ Structure /\ Content /\ stack \in Seq(Parser)
    BY DEF IInv, SInv, TypeInv
  <1>3. CASE stack = <<>>
    <2>1. phase' = "done" /\ line' = line /\ at' = at /\ eof' = eof
      BY <1>3 DEF EndOfFile
    <2>2. SInv'
      BY <1>1, <1>2, <1>3, <2>1 DEF SInv, TypeInv, Structure, Nests, Fresh, InRead, AtEnd
    <2>3. Rendered' = Rendered
      BY <1>1, <1>2, RenderedIs, RenderedIsPrime
    <2>4. Content'
      BY <1>1, <1>2, <2>1, <2>3 DEF Content, Calm
    <2> QED
      BY <2>2, <2>4 DEF IInv
  <1>4. CASE stack # <<>>
    <2>1. line' = <<>> /\ at' = 1 /\ phase' = "add" /\ eof' = TRUE
      BY <1>4 DEF EndOfFile
    <2> DEFINE l == <<>>
    <2>2. l \in Seq(Token \ Tag) /\ l \in Seq(Token) /\ line' = l
      BY <2>1
    <2>3. doc' \in Seq(Seq(Token)) /\ Len(doc') <= MaxLines
      BY <1>1, <1>2 DEF TypeInv
    <2>4. Words(FlattenSeq(doc')) = Words(FlattenSeq(doc)) \o Words(l)
      <3>1. Words(FlattenSeq(doc)) \in Seq(Token)
        BY <1>1, <2>3, FlattenType, WordsType
      <3>2. Words(FlattenSeq(doc)) \o <<>> = Words(FlattenSeq(doc))
        BY <3>1
      <3> QED
        BY <1>1, <3>2, WordsEmpty
    <2>5. eof' => l = <<>>
      OBVIOUS
    <2> HIDE DEF l
    <2> QED
      BY <1>1, <1>4, <2>1, <2>2, <2>3, <2>4, <2>5, HandsDown
  <1> QED
    BY <1>3, <1>4
-----------------------------------------------------------------------------
(* The parent with the result of its child.                                 *)
LEMMA ParentOf ==
    ASSUME IInv, Return, Me.finished, at > 1
    PROVE  LET parent == stack[at - 1]
               p      == [parent EXCEPT !.result = @ \o Me.result]
               b      == SubSeq(stack, 1, at - 2)
           IN  /\ at = Len(stack) /\ parent \in Parser /\ Me \in Parser /\ p \in Parser
               /\ p.kind = parent.kind /\ p.started = parent.started
               /\ p.finished = parent.finished /\ p.result = parent.result \o Me.result
               /\ b \in Seq(Parser) /\ stack = (b \o <<parent>>) \o <<Me>>
               /\ stack' = b \o <<p>> /\ Len(stack') = at - 1
               /\ \A i \in 1..at - 1 : stack'[i] = IF i = at - 1 THEN p ELSE stack[i]
               /\ output' = output /\ at' = at - 1 /\ phase' = "return"
  <1> DEFINE parent == stack[at - 1]
             p == [parent EXCEPT !.result = @ \o Me.result]
             b == SubSeq(stack, 1, at - 2)
             u == SubSeq(stack, 1, at - 1)
  <1>1. /\ phase = "return" /\ stack \in Seq(Parser) /\ at \in 1..Len(stack) /\ at > 1
        /\ InReturn
    BY DEF Return, IInv, SInv, TypeInv, Structure
  <1>2. at = Len(stack) /\ at - 1 \in 1..Len(stack)
    BY <1>1 DEF InReturn, Me
  <1>3. parent \in Parser /\ Me \in Parser
    BY <1>1, <1>2 DEF Me
  <1>4. /\ p \in Parser /\ p.kind = parent.kind /\ p.started = parent.started
        /\ p.finished = parent.finished /\ p.result = parent.result \o Me.result
    <2>1. parent.result \o Me.result \in Seq(Token)
      BY <1>3 DEF Parser
    <2> HIDE DEF parent
    <2> QED
      BY <1>3, <2>1 DEF Parser
  <1>5. stack = u \o <<Me>> /\ u \in Seq(Parser) /\ Len(u) = at - 1 /\ u[at - 1] = parent
    <2>1. stack = u \o <<Me>>
      BY <1>1, <1>2, LastOff DEF Me
    <2>2. u \in Seq(Parser) /\ Len(u) = at - 1 /\ u[at - 1] = parent
      BY <1>1, <1>2
    <2> QED
      BY <2>1, <2>2
  <1>6. \A i \in 1..at - 1 : u[i] = stack[i]
    BY <1>1, <1>2
  <1>7. SubSeq(u, 1, (at - 1) - 1) = b
    <2> DEFINE v == SubSeq(u, 1, (at - 1) - 1)
    <2>1. v \in Seq(Parser) /\ b \in Seq(Parser) /\ Len(v) = at - 2 /\ Len(b) = at - 2
          /\ \A i \in 1..at - 2 : v[i] = b[i]
      BY <1>1, <1>2
    <2> HIDE DEF v, b
    <2> QED
      BY <2>1, SeqEqual DEF v
  <1>8. /\ stack' = [u EXCEPT ![at - 1].result = @ \o Me.result]
        /\ output' = output /\ at' = at - 1 /\ phase' = "return"
    <2>1. at # 1 /\ TakesOver
      BY <1>1 DEF TakesOver
    <2>2. /\ stack' = [SubSeq(stack, 1, at - 1) EXCEPT ![at - 1].result = @ \o Handover(Me)]
          /\ output' = output /\ at' = at - 1 /\ phase' = "return"
      BY <1>1, <2>1, Zenon DEF Return
    <2> QED
      BY <2>2, Zenon DEF Handover
  <1>9. stack' = [u EXCEPT ![at - 1] = p]
    BY <1>5, <1>8
  <1>10. b \in Seq(Parser)
    BY <1>1, <1>2
  <1>k. at - 1 \in Nat /\ at - 1 >= 1 /\ (at - 1) - 1 = at - 2
    BY <1>1, <1>2
  <1> HIDE DEF u, p, b, parent
  <1> DEFINE k == at - 1
  <1>11. k \in 1..Len(u) /\ k = Len(u)
    BY <1>1, <1>5, <1>k
  <1> HIDE DEF k
  <1>12. u = SubSeq(u, 1, k - 1) \o <<u[k]>>
    BY <1>5, <1>11, LastOff
  <1>13. [u EXCEPT ![k] = p] = SubSeq(u, 1, k - 1) \o <<p>>
    BY <1>4, <1>5, <1>11, UptoReplaced
  <1>14. u = b \o <<parent>> /\ stack' = b \o <<p>>
    BY <1>5, <1>7, <1>9, <1>12, <1>13 DEF k
  <1>15. Len(stack') = at - 1 /\ \A i \in 1..at - 1 : stack'[i] = IF i = at - 1 THEN p ELSE stack[i]
    BY <1>4, <1>5, <1>6, <1>9, <1>k
  <1>16. stack = (b \o <<parent>>) \o <<Me>>
    BY <1>5, <1>14
  <1> QED
    BY <1>2, <1>3, <1>4, <1>8, <1>10, <1>14, <1>15, <1>16 DEF parent, p, b

(* ... Return preserves the structure ...                                   *)
LEMMA ReturnStructure == IInv /\ Return => SInv'
  <1> SUFFICES ASSUME IInv, Return PROVE SInv'
    OBVIOUS
  <1>1. /\ phase = "return" /\ UNCHANGED <<doc, line, eof>> /\ at' = at - 1
        /\ phase' = IF at > 1 THEN "return" ELSE IF eof THEN "done" ELSE "read"
    BY DEF Return
  <1>2. /\ TypeInv /\ Fresh /\ InReturn /\ AtEnd /\ NestsOf(stack)
        /\ stack \in Seq(Parser) /\ at \in 1..Len(stack) /\ Len(stack) \in Nat
        /\ output \in Seq(Token) /\ eof \in BOOLEAN
    BY <1>1, NestsIs DEF IInv, SInv, Structure, TypeInv
  <1>3. Me \in Parser /\ Me = stack[at]
    BY <1>2 DEF Me
  <1>4. CASE ~Me.finished
    <2>1. stack' = stack /\ output' = output
      BY <1>4 DEF Return, TakesOver
    <2>2. TypeInv'
      <3>1. NestsOf(stack')
        BY <1>2, <2>1
      <3>2. at' \in 0..Len(stack')
        BY <1>1, <1>2, <2>1
      <3>3. phase' \in {"add", "return"} <=> at' > 0
        BY <1>1, <1>2
      <3> QED
        BY <1>1, <1>2, <2>1, <3>1, <3>2, <3>3, NestsIsPrime DEF TypeInv
    <2>3. \A i \in 1..Len(stack) : ~stack[i].finished
      <3>1. CASE at < Len(stack)
        BY <1>2, <3>1 DEF InReturn
      <3>2. CASE at = Len(stack)
        <4>1. \A i \in 1..Len(stack) : stack[i].finished => stack[at].finished
          BY <1>2, <3>2 DEF InReturn
        <4> QED
          BY <1>3, <1>4, <4>1
      <3> QED
        BY <1>2, <3>1, <3>2
    <2>4. InReturn' /\ InRead'
      BY <1>2, <2>1, <2>3 DEF InReturn, InRead
    <2>5. AtEnd'
      BY <1>1, <1>2, <2>1 DEF AtEnd
    <2>6. phase' = "done" => eof'
      BY <1>1
    <2>7. phase' = "read" => ~eof'
      BY <1>1
    <2>8. phase' \in {"read", "done"} => at' = 0
      BY <1>1, <1>2
    <2>9. phase' # "add" /\ Fresh'
      BY <1>1, <1>2, <2>1 DEF Fresh
    <2> QED
      BY <2>2, <2>4, <2>5, <2>6, <2>7, <2>8, <2>9 DEF SInv, Structure
  <1>5. CASE Me.finished /\ at = 1
    <2>1. stack' = <<>> /\ output' = output \o Me.result
      BY <1>1, <1>5 DEF Return, TakesOver, Handover
    <2>2. output' \in Seq(Token)
      BY <1>2, <1>3, <2>1 DEF Parser
    <2>3. /\ stack' \in Seq(Parser) /\ Len(stack') = 0
          /\ 1..Len(stack') = {} /\ 2..Len(stack') = {}
      BY <2>1
    <2>4. phase' \in {"read", "done"} /\ at' = 0 /\ (phase' = "read" => ~eof')
      BY <1>1, <1>5
    <2>5. TypeInv'
      <3>1. NestsOf(stack')
        BY <2>3 DEF NestsOf
      <3>2. at' \in 0..Len(stack') /\ ~(at' > 0)
        BY <2>3, <2>4
      <3> QED
        BY <1>1, <1>2, <2>2, <2>3, <2>4, <3>1, <3>2, NestsIsPrime DEF TypeInv
    <2>6. Fresh' /\ InRead' /\ AtEnd'
      BY <2>1, <2>3 DEF Fresh, InRead, AtEnd
    <2> QED
      BY <2>1, <2>4, <2>5, <2>6 DEF SInv, Structure
  <1>6. CASE Me.finished /\ at > 1
    <2> DEFINE parent == stack[at - 1]
               p == [parent EXCEPT !.result = @ \o Me.result]
               b == SubSeq(stack, 1, at - 2)
    <2>1. /\ at = Len(stack) /\ p \in Parser /\ p.kind = parent.kind
          /\ p.started = parent.started /\ p.finished = parent.finished
          /\ b \in Seq(Parser) /\ stack' = b \o <<p>> /\ Len(stack') = at - 1
          /\ \A i \in 1..at - 1 : stack'[i] = IF i = at - 1 THEN p ELSE stack[i]
          /\ output' = output /\ at' = at - 1 /\ phase' = "return"
      BY <1>6, ParentOf
    <2> HIDE DEF p, b
    <2>2. stack' \in Seq(Parser)
      BY <2>1
    <2>3. \A i \in 1..at - 1 : /\ stack'[i].kind = stack[i].kind
                               /\ stack'[i].started = stack[i].started
                               /\ stack'[i].finished = stack[i].finished
      BY <2>1
    <2>4. TypeInv'
      <3>1. NestsOf(stack')
        <4>1. Len(stack) \in Nat /\ Len(stack') \in Nat /\ Len(stack') <= Len(stack)
              /\ 1..Len(stack') = 1..at - 1
          BY <1>2, <2>1
        <4>2. \A i \in 1..Len(stack') : stack'[i].kind = stack[i].kind
          BY <2>3, <4>1
        <4> QED
          BY <1>2, <4>1, <4>2, NestsSame
      <3>2. at' \in 0..Len(stack') /\ at' > 0
        BY <1>2, <1>6, <2>1
      <3> QED
        BY <1>1, <1>2, <2>1, <2>2, <3>1, <3>2, NestsIsPrime DEF TypeInv
    <2>5. Fresh'
      BY <1>2, <2>1, <2>3 DEF Fresh
    <2>6. InReturn'
      <3>1. 1..Len(stack') = 1..at - 1 /\ at' = Len(stack') /\ ~(at' < Len(stack'))
        BY <1>2, <2>1
      <3>2. \A i \in 1..at - 1 : i \in 1..Len(stack)
        BY <1>2
      <3>3. /\ \A i \in 1..at - 1 : stack[i].started \/ stack[i].finished
            /\ \A i, j \in 1..at - 1 : i <= j /\ stack[i].finished => stack[j].finished
        BY <1>2, <3>2 DEF InReturn
      <3> QED
        BY <2>3, <3>1, <3>3 DEF InReturn
    <2>7. AtEnd'
      <3>1. 1 \in 1..at - 1 /\ stack # <<>>
        BY <1>2, <1>6
      <3> QED
        BY <1>1, <1>2, <2>1, <2>3, <3>1 DEF AtEnd
    <2> QED
      BY <2>1, <2>4, <2>5, <2>6, <2>7 DEF SInv, Structure
  <1> QED
    BY <1>2, <1>4, <1>5, <1>6

(* ... and moves the result of a child behind its parent's, so that what    *)
(* has been rendered, and what is open, stay as they are ...                *)
LEMMA ReturnMoves ==
    ASSUME IInv, Return
    PROVE  Rendered' = Rendered /\ Each(OpenOf, stack') = Each(OpenOf, stack)
  <1>1. phase = "return"
    BY DEF Return
  <1>2. stack \in Seq(Parser) /\ at \in 1..Len(stack) /\ output \in Seq(Token)
    BY <1>1 DEF IInv, SInv, TypeInv
  <1>3. Me \in Parser /\ Me = stack[at] /\ Me.result \in Seq(Token)
    <2>1. Me \in Parser /\ Me = stack[at]
      BY <1>2 DEF Me
    <2> QED
      BY <2>1 DEF Parser
  <1>4. SInv'
    BY ReturnStructure
  <1>5. stack' \in Seq(Parser)
    BY <1>4 DEF SInv, TypeInv
  <1>6. CASE ~Me.finished
    <2>1. stack' = stack /\ output' = output
      BY <1>6 DEF Return, TakesOver
    <2>2. Rendered' = Rendered
      BY <1>2, <1>5, <2>1, RenderedIs, RenderedIsPrime
    <2> QED
      BY <2>1, <2>2
  <1>7. CASE Me.finished /\ at = 1
    <2>1. stack' = <<>> /\ output' = output \o Me.result
      BY <1>1, <1>7 DEF Return, TakesOver, Handover
    <2>2. at = Len(stack)
      <3>1. InReturn /\ stack[at].finished
        BY <1>1, <1>3, <1>7 DEF IInv, SInv, Structure
      <3>2. ~(at < Len(stack))
        BY <1>2, <3>1 DEF InReturn
      <3> QED
        BY <1>2, <3>2
    <2>3. stack = <<>> \o <<Me>> /\ <<>> \in Seq(Parser)
      BY <1>2, <1>3, <1>7, <2>2
    <2>4. /\ Each(ResultOf, stack) = <<>> \o ResultOf[Me]
          /\ Each(OpenOf, stack) = <<>> \o OpenOf[Me]
      BY <1>3, <2>3, ParserMore, EachEmpty
    <2>5. ResultOf[Me] = Me.result /\ OpenOf[Me] = <<>>
      BY <1>3, <1>7 DEF ResultOf, OpenOf
    <2>6. Each(ResultOf, stack) = Me.result /\ Each(OpenOf, stack) = <<>>
      <3>1. <<>> \o Me.result = Me.result /\ <<>> \o <<>> = <<>>
        BY <1>3
      <3> QED
        BY <2>4, <2>5, <3>1
    <2>7. Rendered = output'
      BY <1>2, <2>1, <2>6, RenderedIs
    <2>8. Rendered' = output'
      <3>1. output' \in Seq(Token)
        BY <1>4 DEF SInv, TypeInv
      <3>2. output' \o <<>> = output' /\ Each(ResultOf, <<>>) = <<>>
        BY <3>1, EachEmpty
      <3> QED
        BY <1>5, <2>1, <3>2, RenderedIsPrime
    <2>9. Each(OpenOf, stack') = <<>>
      BY <2>1, EachEmpty
    <2> QED
      BY <2>6, <2>7, <2>8, <2>9
  <1>8. CASE Me.finished /\ at > 1
    <2> DEFINE parent == stack[at - 1]
               p == [parent EXCEPT !.result = @ \o Me.result]
               b == SubSeq(stack, 1, at - 2)
    <2>1. /\ at = Len(stack) /\ p \in Parser /\ p.kind = parent.kind /\ parent \in Parser
          /\ p.started = parent.started /\ p.finished = parent.finished
          /\ p.result = parent.result \o Me.result
          /\ b \in Seq(Parser) /\ stack = (b \o <<parent>>) \o <<Me>>
          /\ stack' = b \o <<p>> /\ output' = output
      BY <1>8, ParentOf
    <2> HIDE DEF p, b, parent
    <2>3. /\ ResultOf[p] = parent.result \o Me.result /\ ResultOf[parent] = parent.result
          /\ ResultOf[Me] = Me.result /\ OpenOf[Me] = <<>> /\ OpenOf[p] = OpenOf[parent]
          /\ parent.result \in Seq(Token)
      BY <1>3, <1>8, <2>1 DEF ResultOf, OpenOf, Had, Parser
    <2> DEFINE R == Each(ResultOf, b)
               O == Each(OpenOf, b)
               c == b \o <<parent>>
    <2>4. /\ c \in Seq(Parser) /\ stack = c \o <<Me>> /\ Each(ResultOf, c) = R \o parent.result
          /\ Each(OpenOf, c) = O \o OpenOf[parent] /\ R \in Seq(Token)
          /\ Each(OpenOf, c) \in Seq(OpenElement)
          /\ Each(ResultOf, stack') = R \o (parent.result \o Me.result)
          /\ Each(OpenOf, stack') = O \o OpenOf[parent]
      <3>1. c \in Seq(Parser)
        BY <2>1
      <3>2. Each(OpenOf, c) \in Seq(OpenElement)
        <4> HIDE DEF c
        <4> QED
          BY <2>1, <3>1, ParserMore, Zenon
      <3>3. parent \in Parser
        BY <2>1
      <3>4. /\ Each(ResultOf, c) = R \o ResultOf[parent] /\ R \in Seq(Token)
            /\ Each(OpenOf, c) = O \o OpenOf[parent]
        BY <2>1, <3>3, ParserMore, Zenon
      <3>5. /\ Each(ResultOf, stack') = R \o ResultOf[p]
            /\ Each(OpenOf, stack') = O \o OpenOf[p]
        BY <2>1, ParserMore, Zenon
      <3> QED
        BY <2>1, <2>3, <3>1, <3>2, <3>4, <3>5
    <2> HIDE DEF c, R, O
    <2>5. Each(ResultOf, stack) = (R \o parent.result) \o Me.result
          /\ Each(OpenOf, stack) = Each(OpenOf, c) \o <<>>
      BY <1>3, <2>3, <2>4, ParserMore
    <2>6. Each(ResultOf, stack') = Each(ResultOf, stack)
      <3> DEFINE q == parent.result
                 m == Me.result
      <3>1. q \in Seq(Token) /\ m \in Seq(Token)
        BY <1>3, <2>3
      <3> HIDE DEF q, m
      <3>2. R \o (q \o m) = (R \o q) \o m
        BY <2>4, <3>1, CatTokens
      <3> QED
        BY <2>4, <2>5, <3>2 DEF q, m
    <2>7. Each(OpenOf, stack') = Each(OpenOf, stack)
      <3> DEFINE o == Each(OpenOf, c)
      <3>1. o \in Seq(OpenElement) /\ Each(OpenOf, stack) = o \o <<>> /\ Each(OpenOf, stack') = o
        BY <2>4, <2>5
      <3> HIDE DEF o
      <3> QED
        BY <3>1
    <2>8. Rendered' = Rendered
      BY <1>2, <1>5, <2>1, <2>6, RenderedIs, RenderedIsPrime
    <2> QED
      BY <2>7, <2>8
  <1> QED
    BY <1>2, <1>6, <1>7, <1>8

(* ... and a table has no child that could put tags into its result ...     *)
LEMMA ReturnContent == IInv /\ Return => Content'
  <1> SUFFICES ASSUME IInv, Return PROVE Content'
    OBVIOUS
  <1>1. /\ phase = "return" /\ doc' = doc /\ phase' # "add"
    BY DEF Return
  <1>2. /\ stack \in Seq(Parser) /\ at \in 1..Len(stack) /\ output \in Seq(Token)
        /\ Nesting(output) = <<>> /\ Words(Rendered) = Words(FlattenSeq(doc))
        /\ Nesting(Rendered) = Each(OpenOf, stack)
        /\ \A i \in 1..Len(stack) :
              stack[i].kind = "table" /\ ~stack[i].finished => Calm(stack[i].result)
    BY <1>1 DEF IInv, SInv, TypeInv, Content
  <1>3. /\ Words(Rendered') = Words(FlattenSeq(doc'))
        /\ Nesting(Rendered') = Each(OpenOf, stack')
    BY <1>1, <1>2, ReturnMoves
  <1>4. Me = stack[at]
    BY DEF Me
  <1>5. CASE ~Me.finished
    <2>1. stack' = stack /\ output' = output
      BY <1>5 DEF Return, TakesOver
    <2> QED
      BY <1>1, <1>2, <1>3, <2>1 DEF Content, Calm
  <1>6. CASE Me.finished /\ at = 1
    <2>1. stack' = <<>> /\ output' = output \o Me.result
      BY <1>1, <1>6 DEF Return, TakesOver, Handover
    <2>2. 1..Len(stack') = {}
      BY <2>1
    <2>3. Rendered' = output'
      <3>1. output' \in Seq(Token) /\ stack' \in Seq(Parser)
        BY ReturnStructure DEF SInv, TypeInv
      <3>2. output' \o <<>> = output' /\ Each(ResultOf, <<>>) = <<>>
        BY <3>1, EachEmpty
      <3> QED
        BY <2>1, <3>1, <3>2, RenderedIsPrime
    <2>4. Each(OpenOf, stack') = <<>>
      BY <2>1, EachEmpty
    <2> QED
      BY <1>1, <1>3, <2>2, <2>3, <2>4 DEF Content
  <1>7. CASE Me.finished /\ at > 1
    <2>1. /\ at = Len(stack) /\ Len(stack') = at - 1 /\ output' = output
          /\ \A i \in 1..at - 1 :
                /\ stack'[i].kind = stack[i].kind
                /\ stack'[i].finished = stack[i].finished
                /\ i # at - 1 => stack'[i] = stack[i]
      BY <1>7, ParentOf
    <2>2. stack[at - 1].kind # "table"
      <3>1. NestsOf(stack) /\ at \in 2..Len(stack)
        BY <1>2, <1>7, NestsIs DEF IInv, SInv, TypeInv
      <3>2. Pair(stack[at - 1].kind, stack[at].kind)
        BY <3>1 DEF NestsOf
      <3> QED
        BY <3>2 DEF Pair
    <2>3. ASSUME NEW i \in 1..at - 1, stack'[i].kind = "table", ~stack'[i].finished
          PROVE  Calm(stack'[i].result)
      <3>1. i # at - 1 /\ i \in 1..Len(stack)
        BY <1>2, <2>1, <2>2, <2>3
      <3>2. stack'[i] = stack[i]
        BY <2>1, <3>1
      <3> QED
        BY <1>2, <2>3, <3>1, <3>2
    <2> QED
      BY <1>1, <1>2, <1>3, <2>1, <2>3 DEF Content, Calm
  <1> QED
    BY <1>2, <1>5, <1>6, <1>7

(* ... and so every step preserves it ...                                   *)
LEMMA NextInv == IInv /\ [Next]_vars => IInv'
  <1> SUFFICES ASSUME IInv, [Next]_vars PROVE IInv'
    OBVIOUS
  <1>1. CASE ReadLine
    BY <1>1, ReadLineInv
  <1>2. CASE EndOfFile
    BY <1>2, EndOfFileInv
  <1>3. CASE ParseBlock
    <2>1. PICK f, l : Turned(f, l) /\ Renders(f, l) /\ AddLine(f, l)
      BY <1>3, EveryBlockTurns
    <2>2. SInv'
      BY <2>1, AddLineInv DEF IInv
    <2>3. Content'
      BY <2>1, <2>2, AddLineContent
    <2> QED
      BY <2>2, <2>3 DEF IInv
  <1>4. CASE Return
    BY <1>4, ReturnStructure, ReturnContent DEF IInv
  <1>5. CASE UNCHANGED vars
    <2>1. /\ doc' = doc /\ line' = line /\ stack' = stack /\ at' = at /\ phase' = phase
          /\ eof' = eof /\ output' = output
      BY <1>5 DEF vars
    <2>2. stack \in Seq(Parser)
      BY DEF IInv, SInv, TypeInv
    <2>3. Rendered' = Rendered /\ Before' = Before
      BY <2>1, <2>2, RenderedIs, RenderedIsPrime DEF Before
    <2>4. SInv'
      BY <2>1 DEF IInv, SInv, TypeInv, Nests, Structure, Fresh, InRead, InAdd, InReturn, AtEnd
    <2>5. Content'
      BY <2>1, <2>3 DEF IInv, Content, Calm, LineCloses
    <2> QED
      BY <2>4, <2>5 DEF IInv
  <1> QED
    BY <1>1, <1>2, <1>3, <1>4, <1>5 DEF Next

(* ... and it always holds.                                                 *)
LEMMA AlwaysInv == Spec => []IInv
  <1> QED
    BY InitInv, NextInv, PTL DEF Spec

(* Between two lines no parser is finished, and the other types hold.       *)
LEMMA InvTypeOK == IInv => TypeOK
  <1> SUFFICES ASSUME IInv PROVE TypeOK
    OBVIOUS
  <1>1. phase = "read" => \A i \in DOMAIN stack : ~stack[i].finished
    BY DEF IInv, SInv, TypeInv, Structure, InRead
  <1> QED
    BY <1>1 DEF IInv, SInv, TypeInv, TypeOK, Parser

(* The final empty line has finished a list or paragraph that was left.     *)
LEMMA InvEof == IInv => EofClosesLists
  <1> SUFFICES ASSUME IInv, phase = "done", stack # <<>>
               PROVE  stack[1].kind \in {"quote", "code", "table"}
    BY DEF EofClosesLists
  <1>1. stack \in Seq(Parser) /\ InRead /\ AtEnd /\ eof
    BY DEF IInv, SInv, TypeInv, Structure
  <1>2. 1 \in 1..Len(stack)
    BY <1>1
  <1>3. ~stack[1].finished
    BY <1>1, <1>2 DEF InRead
  <1> QED
    BY <1>1, <1>3 DEF AtEnd

(* Between two lines every parser is started and open.                      *)
LEMMA InvNested == IInv => WellNested
  <1> SUFFICES ASSUME IInv, phase = "read"
               PROVE  /\ Nesting(output) = <<>>
                      /\ Nesting(Rendered) =
                            FlattenSeq([i \in DOMAIN stack |-> Element[stack[i].kind]])
    BY DEF WellNested
  <1>1. stack \in Seq(Parser) /\ InRead /\ Fresh /\ DOMAIN stack = 1..Len(stack)
    BY DEF IInv, SInv, TypeInv, Structure
  <1>2. \A i \in DOMAIN stack : OpenOf[stack[i]] = Element[stack[i].kind]
    BY <1>1 DEF OpenOf, Had, InRead, Fresh
  <1>3. Mapped(OpenOf, stack) = [i \in DOMAIN stack |-> Element[stack[i].kind]]
    BY <1>2, Zenon DEF Mapped
  <1>4. Nesting(output) = <<>> /\ Nesting(Rendered) = Each(OpenOf, stack)
    BY DEF IInv, Content
  <1> QED
    BY <1>3, <1>4, Zenon DEF Each

-----------------------------------------------------------------------------
(* What is known of an outline: whether it is one, the kinds of its open    *)
(* lists, outermost first, and its HTML.                                    *)
Outlined == [ok : BOOLEAN, open : Seq({"ul", "ol"}), html : Seq(Token)]

(* Half of an even number.                                                  *)
LEMMA Half ==
    ASSUME NEW n \in Nat, n % 2 = 0
    PROVE  n = 2 * (n \div 2) /\ n \div 2 \in Nat
  OBVIOUS

(* An item has a level, a marker and a word; the level of an empty line is 0.*)
LEMMA ItemIs ==
    ASSUME NEW l \in Seq(Token), NEW open \in Seq({"ul", "ol"}), Fits(open, l)
    PROVE  /\ Level(l) \in 0..Len(open) + 1 /\ Len(l) = 2 * Level(l)
           /\ Level(l) = 0 <=> l = <<>>
           /\ l # <<>> => /\ ItemKind(l) \in {"ul", "ol"}
                          /\ l[Len(l) - 1] = Marker[ItemKind(l)]
                          /\ l[Len(l)] \in ToSet(Word)
                          /\ \A i \in 1..Len(l) - 2 : l[i] = "sp"
                          /\ Level(l) <= Len(open) => open[Level(l)] = ItemKind(l)
  <1>1. CASE l = <<>>
    <2>1. Len(l) = 0
      BY <1>1
    <2>2. Level(l) = 0
      BY <2>1 DEF Level
    <2> QED
      BY <1>1, <2>1, <2>2
  <1>2. CASE l # <<>>
    <2>1. IsItem(l) /\ Level(l) <= Len(open) + 1
          /\ (Level(l) <= Len(open) => open[Level(l)] = ItemKind(l))
      BY <1>2 DEF Fits
    <2>0. Len(l) \in Nat /\ Len(open) \in Nat
      OBVIOUS
    <2>2. /\ Len(l) >= 2 /\ Len(l) % 2 = 0
          /\ l[Len(l) - 1] \in {"* ", "1. "} /\ l[Len(l)] \in ToSet(Word)
          /\ \A i \in 1..Len(l) - 2 : l[i] = "sp"
      BY <2>1, Zenon DEF IsItem
    <2>3. Len(l) = 2 * Level(l) /\ Level(l) \in Nat
      BY <2>0, <2>2, Half, Zenon DEF Level
    <2>4. ItemKind(l) \in {"ul", "ol"} /\ l[Len(l) - 1] = Marker[ItemKind(l)]
      BY <2>2 DEF ItemKind, Marker
    <2>5. Level(l) \in 0..Len(open) + 1 /\ ~(Level(l) = 0)
      <3> DEFINE v == Level(l)
      <3>1. v <= Len(open) + 1 /\ Len(l) >= 2 /\ Len(l) = 2 * v /\ v \in Nat /\ Len(open) \in Nat
        BY <2>0, <2>1, <2>2, <2>3, Zenon
      <3> HIDE DEF v
      <3>2. v \in 0..Len(open) + 1 /\ v # 0
        BY <3>1
      <3> QED
        BY <3>2 DEF v
    <2> QED
      BY <1>2, <2>1, <2>2, <2>3, <2>4, <2>5, Zenon
  <1> QED
    BY <1>1, <1>2

(* The tags that lists write are tokens, and so are the words.              *)
LEMMA ListTokens ==
    /\ \A k \in {"ul", "ol"} : k \in ListKind /\ OpenTag[k] \in Token
                               /\ ItemTag[k] \in Token /\ CloseTag[k] \in Token
    /\ \A w \in ToSet(Word) : w \in Token
  BY ListTags, NoWords DEF ListKind, NoWord, Token

(* The closing tags of the lists below a level.                             *)
LEMMA ClosedToType ==
    ASSUME NEW open \in Seq({"ul", "ol"}), NEW level \in 0..Len(open)
    PROVE  /\ ClosedTo(open, level) \in Seq(Token)
           /\ Len(ClosedTo(open, level)) = Len(open) - level
           /\ \A i \in 1..Len(open) - level :
                 ClosedTo(open, level)[i] = CloseTag[open[Len(open) + 1 - i]]
  <1> DEFINE m == Len(open) - level
             c == [i \in 1..m |-> CloseTag[open[Len(open) + 1 - i]]]
  <1>1. m \in Nat
    OBVIOUS
  <1>2. ASSUME NEW i \in 1..m PROVE CloseTag[open[Len(open) + 1 - i]] \in Token
    <2>1. Len(open) + 1 - i \in 1..Len(open)
      OBVIOUS
    <2>2. open[Len(open) + 1 - i] \in {"ul", "ol"}
      BY <2>1
    <2> QED
      BY <2>2, ListTokens
  <1>3. c \in [1..m -> Token]
    BY <1>2
  <1>4. ClosedTo(open, level) = c
    BY DEF ClosedTo
  <1> HIDE DEF m
  <1>5. c \in Seq(Token) /\ Len(c) = m /\ \A i \in 1..m : c[i] = CloseTag[open[Len(open) + 1 - i]]
    BY <1>1, <1>3
  <1> QED
    BY <1>4, <1>5 DEF m

(* What a line of an outline is turned into, besides the closing tags.      *)
LEMMA ItemTypes ==
    ASSUME NEW l \in Seq(Token), NEW open \in Seq({"ul", "ol"}), Fits(open, l)
    PROVE  /\ NextItem(l) \in Seq(Token)
           /\ l # <<>> => FirstItem(l) \in Seq(Token)
  <1>1. CASE l = <<>>
    BY <1>1 DEF NextItem
  <1>2. CASE l # <<>>
    <2>1. ItemTag[ItemKind(l)] \in Token /\ OpenTag[ItemKind(l)] \in Token /\ l[Len(l)] \in Token
      BY <1>2, ItemIs, ListTokens
    <2> QED
      BY <1>2, <2>1, TupleTypes DEF NextItem, FirstItem
  <1> QED
    BY <1>1, <1>2

(* One line more keeps the types.                                           *)
LEMMA OutlineStepType ==
    ASSUME NEW acc \in Outlined, NEW l \in Seq(Token)
    PROVE  OutlineStep(acc, l) \in Outlined
  <1>1. acc.open \in Seq({"ul", "ol"}) /\ acc.html \in Seq(Token) /\ acc.ok \in BOOLEAN
    BY DEF Outlined
  <1>2. CASE ~(acc.ok /\ Fits(acc.open, l))
    BY <1>2 DEF OutlineStep, Outlined
  <1>3. CASE acc.ok /\ Fits(acc.open, l) /\ Level(l) > Len(acc.open)
    <2>1. l # <<>>
      BY <1>1, <1>3, ItemIs
    <2>2. ItemKind(l) \in {"ul", "ol"} /\ FirstItem(l) \in Seq(Token)
      BY <1>1, <1>3, <2>1, ItemIs, ItemTypes
    <2>3. Append(acc.open, ItemKind(l)) \in Seq({"ul", "ol"}) /\ acc.html \o FirstItem(l) \in Seq(Token)
      BY <1>1, <2>2
    <2>4. OutlineStep(acc, l) = [acc EXCEPT !.open = Append(acc.open, ItemKind(l)),
                                            !.html = acc.html \o FirstItem(l)]
      BY <1>3 DEF OutlineStep
    <2> QED
      BY <2>3, <2>4 DEF Outlined
  <1>4. CASE acc.ok /\ Fits(acc.open, l) /\ ~(Level(l) > Len(acc.open))
    <2>1. Level(l) \in 0..Len(acc.open)
      BY <1>1, <1>4, ItemIs
    <2>2. SubSeq(acc.open, 1, Level(l)) \in Seq({"ul", "ol"})
      BY <1>1, <2>1
    <2>3. ClosedTo(acc.open, Level(l)) \in Seq(Token) /\ NextItem(l) \in Seq(Token)
      BY <1>1, <1>4, <2>1, ClosedToType, ItemTypes
    <2>4. acc.html \o (ClosedTo(acc.open, Level(l)) \o NextItem(l)) \in Seq(Token)
      BY <1>1, <2>3
    <2>5. OutlineStep(acc, l) =
            [acc EXCEPT !.open = SubSeq(acc.open, 1, Level(l)),
                        !.html = acc.html \o (ClosedTo(acc.open, Level(l)) \o NextItem(l))]
      BY <1>4 DEF OutlineStep
    <2> QED
      BY <2>2, <2>4, <2>5 DEF Outlined
  <1> QED
    BY <1>2, <1>3, <1>4

(* Nothing is known yet.                                                    *)
NotYet == [ok |-> TRUE, open |-> <<>>, html |-> <<>>]

(* f[n] is what is known after n lines.                                     *)
IsOutline(f, d) ==
    /\ f[0] = NotYet
    /\ \A n \in 1..Len(d) : f[n] = OutlineStep(f[n - 1], d[n])

(* The recursive function in Outline exists, for every document ...         *)
LEMMA OutlineExists ==
    ASSUME NEW d \in Seq(Seq(Token))
    PROVE  \E f \in [0..Len(d) -> Outlined] : IsOutline(f, d)
  <1> DEFINE Upto(m) == \E f \in [0..m -> Outlined] :
                           f[0] = NotYet /\ \A n \in 1..m : f[n] = OutlineStep(f[n - 1], d[n])
             P == {m \in Nat : m <= Len(d) => Upto(m)}
  <1>1. Upto(0)
    <2> DEFINE f == [n \in 0..0 |-> NotYet]
    <2>1. <<>> \in Seq({"ul", "ol"}) /\ <<>> \in Seq(Token)
      OBVIOUS
    <2>2. NotYet \in Outlined
      BY <2>1 DEF NotYet, Outlined
    <2>3. f \in [0..0 -> Outlined] /\ 1..0 = {} /\ f[0] = NotYet
      BY <2>2
    <2> HIDE DEF f
    <2> QED
      BY <2>3
  <1>2. ASSUME NEW m \in Nat, m + 1 <= Len(d), Upto(m) PROVE Upto(m + 1)
    <2>1. PICK g \in [0..m -> Outlined] :
              g[0] = NotYet /\ \A n \in 1..m : g[n] = OutlineStep(g[n - 1], d[n])
      BY <1>2
    <2> DEFINE last == OutlineStep(g[m], d[m + 1])
               f == [n \in 0..m + 1 |-> IF n = m + 1 THEN last ELSE g[n]]
    <2>2. last \in Outlined
      <3>1. g[m] \in Outlined /\ d[m + 1] \in Seq(Token)
        BY <1>2, <2>1
      <3> QED
        BY <3>1, OutlineStepType
    <2>3. f \in [0..m + 1 -> Outlined] /\ f[0] = NotYet
      <3> HIDE DEF last
      <3> QED
        BY <2>1, <2>2
    <2>4. ASSUME NEW n \in 1..m + 1 PROVE f[n] = OutlineStep(f[n - 1], d[n])
      <3>1. CASE n = m + 1
        <4>1. n - 1 \in 0..m + 1 /\ n - 1 # m + 1 /\ n - 1 = m
          BY <3>1
        <4>2. f[n - 1] = g[m] /\ f[n] = last
          BY <3>1, <4>1
        <4> QED
          BY <3>1, <4>2
      <3>2. CASE n # m + 1
        <4>1. n \in 1..m /\ n \in 0..m + 1 /\ n - 1 \in 0..m + 1 /\ n - 1 # m + 1
          BY <3>2
        <4>2. f[n - 1] = g[n - 1] /\ f[n] = g[n]
          BY <3>2, <4>1
        <4> QED
          BY <2>1, <4>1, <4>2
      <3> QED
        BY <3>1, <3>2
    <2> HIDE DEF f
    <2> QED
      BY <2>3, <2>4
  <1>3. P = Nat
    <2> HIDE DEF Upto
    <2>1. 0 \in P
      BY <1>1
    <2>2. ASSUME NEW m \in P PROVE m + 1 \in P
      <3>1. m + 1 <= Len(d) => m <= Len(d)
        OBVIOUS
      <3> QED
        BY <1>2, <3>1
    <2>3. P \in SUBSET Nat
      OBVIOUS
    <2> HIDE DEF P
    <2> QED
      BY <2>1, <2>2, <2>3, NumberInduction
  <1>4. Upto(Len(d))
    <2> HIDE DEF Upto
    <2>1. Len(d) \in P /\ Len(d) <= Len(d)
      BY <1>3
    <2> QED
      BY <2>1
  <1> QED
    BY <1>4 DEF IsOutline

(* ... there is one only, and it does not look ahead ...                    *)
LEMMA OutlineUnique ==
    ASSUME NEW s, NEW t, NEW f, NEW g, IsOutline(f, s), IsOutline(g, t),
           Len(s) \in Nat, Len(t) \in Nat, Len(s) <= Len(t),
           \A n \in 1..Len(s) : t[n] = s[n]
    PROVE  f[Len(s)] = g[Len(s)]
  <1> DEFINE P == {n \in Nat : n <= Len(s) => f[n] = g[n]}
  <1>1. 0 \in P
    BY DEF IsOutline
  <1>2. ASSUME NEW n \in P PROVE n + 1 \in P
    <2> SUFFICES ASSUME n + 1 <= Len(s) PROVE f[n + 1] = g[n + 1]
      OBVIOUS
    <2>1. /\ n + 1 \in 1..Len(s) /\ n + 1 \in 1..Len(t) /\ (n + 1) - 1 = n
          /\ n <= Len(s)
      OBVIOUS
    <2>2. f[n] = g[n]
      BY <2>1
    <2>3. f[n + 1] = OutlineStep(f[n], s[n + 1]) /\ g[n + 1] = OutlineStep(g[n], t[n + 1])
      BY <2>1 DEF IsOutline
    <2>4. t[n + 1] = s[n + 1]
      BY <2>1
    <2> QED
      BY <2>2, <2>3, <2>4, Zenon
  <1>3. P = Nat
    <2>1. P \in SUBSET Nat
      OBVIOUS
    <2> HIDE DEF P
    <2> QED
      BY <1>1, <1>2, <2>1, NumberInduction
  <1>4. Len(s) \in P /\ Len(s) <= Len(s)
    <2> HIDE DEF P
    <2> QED
      BY <1>3
  <1> QED
    BY <1>4

(* ... so Outline is what it gives for the last line.                       *)
LEMMA OutlineValue ==
    ASSUME NEW d \in Seq(Seq(Token))
    PROVE  \E f \in [0..Len(d) -> Outlined] : IsOutline(f, d) /\ Outline(d) = f[Len(d)]
  <1> DEFINE Prefix(f) == [n \in 0..Len(d) |->
                             IF n = 0 THEN [ok |-> TRUE, open |-> <<>>, html |-> <<>>]
                                      ELSE OutlineStep(f[n - 1], d[n])]
             acc == CHOOSE f : f = Prefix(f)
  <1>1. PICK g \in [0..Len(d) -> Outlined] : IsOutline(g, d)
    BY OutlineExists
  <1>2. g = Prefix(g)
    <2>1. \A n \in 0..Len(d) : n = 0 \/ n \in 1..Len(d)
      OBVIOUS
    <2>2. \A n \in 0..Len(d) : g[n] = IF n = 0 THEN NotYet ELSE OutlineStep(g[n - 1], d[n])
      BY <1>1, <2>1 DEF IsOutline
    <2> QED
      BY <2>2 DEF NotYet
  <1>3. acc = Prefix(acc)
    <2> HIDE DEF Prefix
    <2> QED
      BY <1>2
  <1>4. IsOutline(acc, d)
    <2>1. /\ 0 \in 0..Len(d)
          /\ \A n \in 1..Len(d) : n \in 0..Len(d) /\ n # 0
      OBVIOUS
    <2> HIDE DEF acc
    <2> QED
      BY <1>3, <2>1 DEF IsOutline, NotYet
  <1>5. Outline(d) = acc[Len(d)]
    BY Zenon DEF Outline
  <1> HIDE DEF acc
  <1>6. acc[Len(d)] = g[Len(d)]
    <2>1. /\ Len(d) \in Nat /\ Len(d) <= Len(d)
          /\ \A n \in 1..Len(d) : d[n] = d[n]
      OBVIOUS
    <2> QED
      BY <1>1, <1>4, <2>1, OutlineUnique
  <1> QED
    BY <1>1, <1>5, <1>6

(* Before the first line ...                                                *)
LEMMA OutlineEmpty == Outline(<<>>) = NotYet
  <1>1. <<>> \in Seq(Seq(Token)) /\ Len(<<>>) = 0
    OBVIOUS
  <1> QED
    BY <1>1, OutlineValue DEF IsOutline

(* ... after any number of lines ...                                        *)
LEMMA OutlineType ==
    ASSUME NEW d \in Seq(Seq(Token))
    PROVE  Outline(d) \in Outlined
  <1>1. Len(d) \in 0..Len(d)
    OBVIOUS
  <1> QED
    BY <1>1, OutlineValue

(* ... and after one line more.                                             *)
LEMMA OutlineAppend ==
    ASSUME NEW d \in Seq(Seq(Token)), NEW l \in Seq(Token)
    PROVE  Outline(Append(d, l)) = OutlineStep(Outline(d), l)
  <1> DEFINE t == Append(d, l)
  <1>1. /\ t \in Seq(Seq(Token)) /\ Len(t) = Len(d) + 1 /\ t[Len(d) + 1] = l
        /\ \A n \in 1..Len(d) : t[n] = d[n]
    BY AppendType
  <1> HIDE DEF t
  <1>2. PICK f : IsOutline(f, d) /\ Outline(d) = f[Len(d)]
    BY OutlineValue
  <1>3. PICK g : IsOutline(g, t) /\ Outline(t) = g[Len(t)]
    BY <1>1, OutlineValue
  <1>4. f[Len(d)] = g[Len(d)]
    <2>1. Len(d) \in Nat /\ Len(t) \in Nat /\ Len(d) <= Len(t)
      BY <1>1
    <2> QED
      BY <1>1, <1>2, <1>3, <2>1, OutlineUnique
  <1>5. g[Len(t)] = OutlineStep(g[Len(d)], t[Len(t)])
    <2>1. Len(t) \in 1..Len(t) /\ Len(t) - 1 = Len(d)
      BY <1>1
    <2> QED
      BY <1>3, <2>1 DEF IsOutline
  <1> QED
    BY <1>1, <1>2, <1>3, <1>4, <1>5, Zenon DEF t
-----------------------------------------------------------------------------
(* The line of an outline on its way down, when parser k is called: its     *)
(* indentation goes with the levels above its own, and below it come the    *)
(* ends of the lists that it ends.                                          *)
LineAt(open, l, k) ==
    IF k <= Level(l) THEN SubSeq(l, 2 * k - 1, Len(l))
                     ELSE ClosedTo(SubSeq(open, 1, k - 1), Level(l)) \o NextItem(l)

(* The tags by which a list ends the lists inside of it.                    *)
ListEnds == {"</li><li>", "</li></ul>", "</li></ol>"}

(* The end of a sequence, without its first two elements.                   *)
LEMMA TwoLess ==
    ASSUME NEW l \in Seq(Token), NEW j \in Nat, j >= 1, j + 1 <= Len(l),
           NEW s, s = SubSeq(l, j, Len(l))
    PROVE  /\ s \in Seq(Token) /\ Len(s) = Len(l) - j + 1
           /\ s[1] = l[j] /\ s[2] = l[j + 1]
           /\ SubSeq(s, 3, Len(s)) = SubSeq(l, j + 2, Len(l))
  OBVIOUS

(* A sequence of two elements.                                              *)
LEMMA PairIs ==
    ASSUME NEW s \in Seq(Token), Len(s) = 2
    PROVE  s = <<s[1], s[2]>>
  OBVIOUS

(* Above its own level the line is indented.                                *)
LEMMA LineIndented ==
    ASSUME NEW l \in Seq(Token), NEW open \in Seq({"ul", "ol"}), Fits(open, l),
           NEW k \in Nat, k >= 1, k < Level(l)
    PROVE  /\ Indented(LineAt(open, l, k))
           /\ StripIndent(LineAt(open, l, k)) = LineAt(open, l, k + 1)
  <1> DEFINE v == Level(l)
             j == 2 * k - 1
             s == SubSeq(l, j, Len(l))
  <1>1. v \in Nat /\ Len(l) = 2 * v /\ (l # <<>> => \A i \in 1..Len(l) - 2 : l[i] = "sp")
    BY ItemIs
  <1> HIDE DEF v
  <1>2. k < v
    BY DEF v
  <1>3. /\ j \in Nat /\ j >= 1 /\ j + 1 <= Len(l) /\ j \in 1..Len(l) - 2 /\ j + 1 \in 1..Len(l) - 2
        /\ l # <<>> /\ j + 2 = 2 * (k + 1) - 1 /\ Len(l) - j + 1 >= 2
    BY <1>1, <1>2
  <1>4. LineAt(open, l, k) = s /\ LineAt(open, l, k + 1) = SubSeq(l, j + 2, Len(l))
    <2>1. k <= v /\ k + 1 <= v
      BY <1>1, <1>2
    <2> QED
      BY <1>3, <2>1 DEF LineAt, v
  <1>s. s = SubSeq(l, j, Len(l))
    OBVIOUS
  <1> HIDE DEF j, s
  <1>5. /\ Len(s) = Len(l) - j + 1 /\ s[1] = l[j] /\ s[2] = l[j + 1]
        /\ SubSeq(s, 3, Len(s)) = SubSeq(l, j + 2, Len(l))
    BY <1>3, <1>s, TwoLess
  <1>6. l[j] = "sp" /\ l[j + 1] = "sp"
    BY <1>1, <1>3
  <1> HIDE DEF s
  <1> QED
    BY <1>3, <1>4, <1>5, <1>6 DEF Indented, StripIndent

(* At its level only the marker and the word are left ...                   *)
LEMMA LineMarked ==
    ASSUME NEW l \in Seq(Token), NEW open \in Seq({"ul", "ol"}), Fits(open, l), l # <<>>
    PROVE  LineAt(open, l, Level(l)) = <<Marker[ItemKind(l)], l[Len(l)]>>
  <1> DEFINE v == Level(l)
             j == 2 * v - 1
             s == SubSeq(l, j, Len(l))
             m == Marker[ItemKind(l)]
  <1>1. v \in Nat /\ Len(l) = 2 * v /\ l[Len(l) - 1] = m /\ v # 0
    BY ItemIs
  <1> HIDE DEF v, m
  <1>2. j \in Nat /\ j >= 1 /\ j + 1 <= Len(l) /\ j = Len(l) - 1 /\ j + 1 = Len(l)
    BY <1>1
  <1>3. LineAt(open, l, v) = s
    <2>1. v <= v
      BY <1>1
    <2> QED
      BY <2>1, Zenon DEF LineAt, v
  <1> HIDE DEF j
  <1>4. s \in Seq(Token) /\ Len(s) = Len(l) - j + 1 /\ s[1] = l[j] /\ s[2] = l[j + 1]
    BY <1>2, TwoLess
  <1>5. s = <<l[j], l[j + 1]>>
    <2>1. Len(s) = 2
      BY <1>2, <1>4
    <2> HIDE DEF s
    <2> QED
      BY <1>4, <2>1, PairIs, Zenon
  <1> QED
    BY <1>1, <1>2, <1>3, <1>5 DEF v, m

(* ... below it, the tags of its item ...                                   *)
LEMMA LineNext ==
    ASSUME NEW l \in Seq(Token), NEW open \in Seq({"ul", "ol"}), Fits(open, l),
           Level(l) <= Len(open)
    PROVE  LineAt(open, l, Level(l) + 1) = NextItem(l)
  <1> DEFINE v == Level(l)
             o == SubSeq(open, 1, v)
  <1>1. v \in Nat /\ v <= Len(open)
    BY ItemIs
  <1> HIDE DEF v
  <1>2. o \in Seq({"ul", "ol"}) /\ Len(o) = v /\ (v + 1) - 1 = v /\ ~(v + 1 <= v)
    BY <1>1
  <1> HIDE DEF o
  <1>3. ClosedTo(o, v) = <<>>
    <2>1. ClosedTo(o, v) \in Seq(Token) /\ Len(ClosedTo(o, v)) = 0
      BY <1>1, <1>2, ClosedToType
    <2> QED
      BY <2>1
  <1>4. NextItem(l) \in Seq(Token)
    BY ItemTypes
  <1>5. LineAt(open, l, v + 1) = ClosedTo(SubSeq(open, 1, (v + 1) - 1), v) \o NextItem(l)
    BY <1>2 DEF LineAt, v
  <1>6. LineAt(open, l, v + 1) = <<>> \o NextItem(l)
    BY <1>2, <1>3, <1>5 DEF o
  <1> QED
    BY <1>4, <1>6 DEF v

(* ... and one end more with each list that it ends ...                     *)
LEMMA LineClosing ==
    ASSUME NEW l \in Seq(Token), NEW open \in Seq({"ul", "ol"}), Fits(open, l),
           NEW k \in 1..Len(open), Level(l) < k
    PROVE  LineAt(open, l, k + 1) = <<CloseTag[open[k]]>> \o LineAt(open, l, k)
  <1> DEFINE v == Level(l)
             o == SubSeq(open, 1, k - 1)
             p == SubSeq(open, 1, k)
             a == ClosedTo(o, v)
             b == ClosedTo(p, v)
             t == CloseTag[open[k]]
  <1>1. v \in Nat /\ v < k /\ NextItem(l) \in Seq(Token)
    BY ItemIs, ItemTypes
  <1> HIDE DEF v
  <1>2. /\ o \in Seq({"ul", "ol"}) /\ Len(o) = k - 1 /\ p \in Seq({"ul", "ol"}) /\ Len(p) = k
        /\ \A i \in 1..k - 1 : o[i] = open[i] /\ p[i] = open[i]
        /\ p[k] = open[k] /\ open[k] \in {"ul", "ol"}
    BY <1>1
  <1> HIDE DEF o, p
  <1>3. v \in 0..Len(o) /\ v \in 0..Len(p)
    BY <1>1, <1>2
  <1>4. /\ a \in Seq(Token) /\ Len(a) = (k - 1) - v
        /\ \A i \in 1..(k - 1) - v : a[i] = CloseTag[o[(k - 1) + 1 - i]]
    <2>1. /\ a \in Seq(Token) /\ Len(a) = Len(o) - v
          /\ \A i \in 1..Len(o) - v : a[i] = CloseTag[o[Len(o) + 1 - i]]
      BY <1>2, <1>3, ClosedToType, Zenon
    <2> QED
      BY <1>2, <2>1, Zenon
  <1>5. /\ b \in Seq(Token) /\ Len(b) = k - v
        /\ \A i \in 1..k - v : b[i] = CloseTag[p[k + 1 - i]]
    <2>1. /\ b \in Seq(Token) /\ Len(b) = Len(p) - v
          /\ \A i \in 1..Len(p) - v : b[i] = CloseTag[p[Len(p) + 1 - i]]
      BY <1>2, <1>3, ClosedToType, Zenon
    <2> QED
      BY <1>2, <2>1, Zenon
  <1>6. t \in Token
    BY <1>2, ListTokens
  <1> HIDE DEF a, b
  <1>7. b = <<t>> \o a
    <2>1. ASSUME NEW i \in 1..k - v PROVE b[i] = IF i = 1 THEN t ELSE a[i - 1]
      <3>1. b[i] = CloseTag[p[k + 1 - i]]
        BY <1>5
      <3>2. CASE i = 1
        <4>1. k + 1 - i = k
          BY <3>2
        <4> QED
          BY <1>2, <3>1, <3>2, <4>1
      <3>3. CASE i # 1
        <4>1. i - 1 \in 1..(k - 1) - v /\ k + 1 - i \in 1..k - 1 /\ (k - 1) + 1 - (i - 1) = k + 1 - i
          BY <1>1, <3>3
        <4>2. a[i - 1] = CloseTag[o[k + 1 - i]]
          BY <1>4, <4>1
        <4>3. o[k + 1 - i] = p[k + 1 - i]
          BY <1>2, <4>1
        <4> QED
          BY <3>1, <3>3, <4>2, <4>3
      <3> QED
        BY <3>2, <3>3
    <2> HIDE DEF t
    <2>2. Len(b) = Len(a) + 1 /\ Len(b) = k - v /\ Len(a) \in Nat
      BY <1>1, <1>4, <1>5
    <2> DEFINE c == <<t>> \o a
    <2>3. /\ c \in Seq(Token) /\ Len(c) = Len(a) + 1
          /\ \A i \in 1..Len(a) + 1 : c[i] = IF i = 1 THEN t ELSE a[i - 1]
      BY <1>4, <1>6
    <2> HIDE DEF c
    <2>4. \A i \in 1..Len(b) : b[i] = c[i]
      BY <2>1, <2>2, <2>3
    <2>5. b = c
      BY <1>5, <2>2, <2>3, <2>4, SeqEqual
    <2> QED
      BY <2>5 DEF c
  <1>8. LineAt(open, l, k) = a \o NextItem(l)
    <2>1. ~(k <= v)
      BY <1>1
    <2> QED
      BY <2>1 DEF LineAt, v, a, o
  <1>9. LineAt(open, l, k + 1) = b \o NextItem(l)
    <2>1. ~(k + 1 <= v) /\ (k + 1) - 1 = k
      BY <1>1
    <2> QED
      BY <2>1 DEF LineAt, v, b, p
  <1>10. (<<t>> \o a) \o NextItem(l) = <<t>> \o (a \o NextItem(l))
    <2>1. <<t>> \in Seq(Token)
      BY <1>6
    <2> QED
      BY <1>1, <1>4, <2>1, CatTokens
  <1> QED
    BY <1>7, <1>8, <1>9, <1>10

(* ... so that in the end it closes all of them.                            *)
LEMMA LineLast ==
    ASSUME NEW l \in Seq(Token), NEW open \in Seq({"ul", "ol"}), Fits(open, l),
           Level(l) <= Len(open)
    PROVE  LineAt(open, l, Len(open) + 1) = ClosedTo(open, Level(l)) \o NextItem(l)
  <1> DEFINE v == Level(l)
  <1>1. v \in Nat /\ v <= Len(open) /\ Len(open) \in Nat
    BY ItemIs
  <1>2. SubSeq(open, 1, Len(open)) = open
    OBVIOUS
  <1> HIDE DEF v
  <1>3. ~(Len(open) + 1 <= v) /\ (Len(open) + 1) - 1 = Len(open)
    BY <1>1
  <1> QED
    BY <1>2, <1>3 DEF LineAt, v
-----------------------------------------------------------------------------
(* Marker and word: a list that is called with them goes on to its next     *)
(* item, a list that has begun has a new one begin inside of it.            *)
LEMMA MarkedLine ==
    ASSUME NEW k \in {"ul", "ol"}, NEW w \in ToSet(Word), NEW m, m = <<Marker[k], w>>
    PROVE  /\ Body(k, m) = <<w>> /\ ~Indented(m) /\ ~EndsList(k, m) /\ IsNewItem(k, m)
           /\ GetBlockParserForLine(m) = k
           /\ \A parent \in {"ul", "ol"} : ChildFor(parent, m) = k
  <1>1. w \notin Markup /\ w \notin Tag
    BY DocumentAssumption
  <1>2. /\ Marker["ul"] = "* " /\ Marker["ol"] = "1. " /\ Marker["check"] = "- [ ] "
        /\ Marker["quote"] = ">" /\ Marker["head"] = "# "
        /\ DOMAIN Marker = {"check", "quote", "head", "ol", "ul"}
    BY DEF Marker
  <1>3. m # <<>> /\ Head(m) = Marker[k] /\ Tail(m) = <<w>> /\ Len(m) = 2 /\ m[1] = Marker[k] /\ m[2] = w
    OBVIOUS
  <1>4. Body(k, m) = <<w>>
    <2>1. Strip(Marker[k], m) = <<w>>
      BY <1>3 DEF Strip, Begins
    <2>2. Strip("* ", <<w>>) = <<w>>
      <3>1. w # "* "
        BY <1>1 DEF Markup
      <3>2. Head(<<w>>) = w
        OBVIOUS
      <3>3. ~Begins(<<w>>, "* ")
        BY <3>1, <3>2, Zenon DEF Begins
      <3> QED
        BY <3>3, Zenon DEF Strip
    <2> QED
      BY <1>2, <2>1, <2>2 DEF Body
  <1>5. ~Indented(m)
    BY <1>2, <1>3 DEF Indented
  <1>6. ~EndsList(k, m)
    <2>1. EndingTag[k] = {"</li><li>", "</li></ol>", "</li></ul>"}
      BY DEF EndingTag
    <2>2. w \notin EndingTag[k] /\ Marker[k] \notin EndingTag[k]
      BY <1>1, <1>2, <2>1 DEF Tag
    <2>3. \A tag \in EndingTag[k] : ~Contains(m, tag)
      BY <1>3, <2>2 DEF Contains
    <2> QED
      BY <1>4, <2>3 DEF EndsList
  <1>7. IsStartingLine(k, m)
    BY <1>2, <1>3 DEF IsStartingLine, Begins
  <1>8. IsNewItem(k, m)
    BY <1>7 DEF IsNewItem
  <1>9. ASSUME NEW c \in Kind \ {"p"}, IsStartingLine(c, m) PROVE c = k
    <2>1. CASE c \in {"check", "quote", "head", "ol", "ul"}
      <3>1. Marker[c] = Marker[k]
        BY <1>2, <1>3, <1>9, <2>1 DEF IsStartingLine, Begins
      <3> QED
        BY <1>2, <2>1, <3>1
    <2>2. CASE c \notin {"check", "quote", "head", "ol", "ul"}
      <3>1. m = <<WholeLine[c]>>
        BY <1>2, <1>9, <2>2 DEF IsStartingLine
      <3> QED
        BY <1>3, <3>1
    <2> QED
      BY <2>1, <2>2
  <1>10. ASSUME NEW kinds \in SUBSET (Kind \ {"p"}), k \in kinds
         PROVE  StartedBy(kinds, m) = k
    <2>1. \E c \in kinds : IsStartingLine(c, m)
      BY <1>7, <1>10
    <2>2. \A c \in kinds : IsStartingLine(c, m) => c = k
      BY <1>9
    <2> QED
      BY <2>1, <2>2 DEF StartedBy
  <1>11. k \in Kind \ {"p"} /\ {"ul", "ol"} \in SUBSET (Kind \ {"p"}) /\ k # "none"
    BY DEF Kind, ListKind
  <1>12. GetBlockParserForLine(m) = k
    <2>1. StartedBy(Kind \ {"p"}, m) = k
      BY <1>10, <1>11
    <2> QED
      BY <1>11, <2>1 DEF GetBlockParserForLine
  <1>13. ASSUME NEW parent \in {"ul", "ol"} PROVE ChildFor(parent, m) = k
    <2>1. StartedBy({"ul", "ol"}, m) = k
      BY <1>10, <1>11
    <2> QED
      BY <2>1 DEF ChildFor
  <1> QED
    BY <1>4, <1>5, <1>6, <1>8, <1>12, <1>13

(* Nothing, or the end of an outer list or of its item: the list ends.      *)
LEMMA EndingLine ==
    ASSUME NEW k \in {"ul", "ol"}, NEW m \in Seq(Token), m = <<>> \/ Head(m) \in ListEnds
    PROVE  Body(k, m) = m /\ ~Indented(m) /\ EndsList(k, m)
  <1>1. "* " \notin ListEnds /\ "1. " \notin ListEnds /\ "sp" \notin ListEnds
    BY DEF ListEnds
  <1>2. Strip("* ", m) = m /\ Strip("1. ", m) = m
    BY <1>1 DEF Strip, Begins
  <1>3. Body(k, m) = m
    BY <1>2 DEF Body
  <1>4. ~Indented(m)
    <2>1. Len(m) >= 2 => m # <<>> /\ Head(m) = m[1]
      OBVIOUS
    <2> QED
      BY <1>1, <2>1 DEF Indented
  <1>5. m # <<>> => \E tag \in EndingTag[k] : Contains(m, tag)
    <2>1. EndingTag[k] = ListEnds
      BY DEF EndingTag, ListEnds
    <2>2. m # <<>> => 1 \in 1..Len(m) /\ m[1] = Head(m)
      OBVIOUS
    <2> QED
      BY <2>1, <2>2 DEF Contains
  <1> QED
    BY <1>3, <1>4, <1>5 DEF EndsList

(* Below its level the line holds closing tags and the next item.           *)
LEMMA LineType ==
    ASSUME NEW l \in Seq(Token), NEW open \in Seq({"ul", "ol"}), Fits(open, l),
           NEW k \in 1..Len(open) + 1, Level(l) < k
    PROVE  LineAt(open, l, k) \in Seq(Token)
  <1> DEFINE v == Level(l)
             o == SubSeq(open, 1, k - 1)
  <1>1. v \in Nat
    BY ItemIs
  <1> HIDE DEF v
  <1>2. v < k /\ ~(k <= v)
    BY <1>1 DEF v
  <1>3. o \in Seq({"ul", "ol"}) /\ Len(o) = k - 1
    OBVIOUS
  <1>4. v \in 0..Len(o)
    BY <1>1, <1>2, <1>3
  <1>5. ClosedTo(o, v) \in Seq(Token) /\ NextItem(l) \in Seq(Token)
    BY <1>3, <1>4, ClosedToType, ItemTypes
  <1>6. LineAt(open, l, k) = ClosedTo(o, v) \o NextItem(l)
    BY <1>2, Zenon DEF LineAt, v
  <1> QED
    BY <1>5, <1>6

(* It is nothing or begins with the end of a list or of an item.            *)
LEMMA LineEnds ==
    ASSUME NEW l \in Seq(Token), NEW open \in Seq({"ul", "ol"}), Fits(open, l),
           NEW k \in 1..Len(open) + 1, Level(l) < k
    PROVE  /\ LineAt(open, l, k) \in Seq(Token)
           /\ LineAt(open, l, k) = <<>> \/ Head(LineAt(open, l, k)) \in ListEnds
           /\ k > 1 => LineAt(open, l, k) # <<>>
  <1> DEFINE v == Level(l)
  <1>1. v \in Nat /\ Len(l) = 2 * v /\ (v = 0 <=> l = <<>>) /\ (l # <<>> => ItemKind(l) \in {"ul", "ol"})
    BY ItemIs
  <1>2. v < k
    OBVIOUS
  <1> HIDE DEF v
  <1>3. LineAt(open, l, k) \in Seq(Token)
    BY LineType
  <1>5. CASE k = v + 1
    <2>1. v <= Len(open)
      BY <1>1, <1>5
    <2>2. LineAt(open, l, k) = NextItem(l)
      BY <1>5, <2>1, LineNext DEF v
    <2>3. l # <<>> => NextItem(l) # <<>> /\ Head(NextItem(l)) \in ListEnds
      <3>1. l # <<>> => ItemTag[ItemKind(l)] \in ListEnds
        BY <1>1 DEF ItemTag, ListEnds
      <3> QED
        BY <3>1 DEF NextItem
    <2>4. l = <<>> => NextItem(l) = <<>>
      BY DEF NextItem
    <2>5. k > 1 => l # <<>>
      BY <1>1, <1>5
    <2> QED
      BY <1>3, <2>2, <2>3, <2>4, <2>5
  <1>6. CASE k # v + 1
    <2> DEFINE j == k - 1
    <2>1. j \in 1..Len(open) /\ v < j /\ j + 1 = k /\ j \in 1..Len(open) + 1
      BY <1>1, <1>2, <1>6
    <2> HIDE DEF j
    <2>2. LineAt(open, l, k) = <<CloseTag[open[j]]>> \o LineAt(open, l, j)
      BY <2>1, LineClosing DEF v
    <2>3. CloseTag[open[j]] \in ListEnds
      <3>1. open[j] \in {"ul", "ol"}
        BY <2>1
      <3> QED
        BY <3>1 DEF CloseTag, ListEnds
    <2>4. LineAt(open, l, j) \in Seq(Token)
      BY <2>1, LineType DEF v
    <2> DEFINE r == LineAt(open, l, j)
               t == CloseTag[open[j]]
    <2>6. r \in Seq(Token) /\ t \in ListEnds /\ LineAt(open, l, k) = <<t>> \o r
      BY <2>2, <2>3, <2>4
    <2> HIDE DEF r, t
    <2>7. <<t>> \o r # <<>> /\ Head(<<t>> \o r) = t
      BY <2>6
    <2> QED
      BY <1>3, <2>6, <2>7, Zenon
  <1> QED
    BY <1>5, <1>6
-----------------------------------------------------------------------------
(* What the parsers have when a line is done: an outline so far, its HTML,  *)
(* and one list for each level; those that are deeper have finished and     *)
(* wait to be let go.                                                       *)
Settled(acc) ==
    /\ Rendered = acc.html
    /\ Len(acc.open) <= Len(stack)
    /\ \A i \in 1..Len(stack) : stack[i].finished <=> i > Len(acc.open)
    /\ \A i \in 1..Len(acc.open) : stack[i].kind = acc.open[i]

(* What they have while line l goes down, after an outline with prev: the   *)
(* lists below its level have finished, those above it are as they were,    *)
(* and a new one is there if the line is one level deeper.                  *)
Descends(prev, l) ==
    /\ prev.ok /\ Fits(prev.open, l)
    /\ Rendered = prev.html
    /\ \A i \in 1..Len(prev.open) : stack[i].kind = prev.open[i]
    /\ \A i \in 1..at - 1 : stack[i].finished <=> i > Level(l)
    /\ line = LineAt(prev.open, l, at)
    /\ \/ at <= Len(prev.open) /\ Len(stack) = Len(prev.open) /\ stack[at].started
       \/ /\ at = Len(prev.open) + 1 /\ Len(stack) = at /\ Level(l) = at
          /\ stack[at].kind = ItemKind(l) /\ ~stack[at].started

(* As long as the document is an outline.                                   *)
OutlineInv ==
    ~eof /\ phase # "done" /\ Outline(doc).ok =>
        /\ phase # "add" => Settled(Outline(doc))
        /\ phase = "add" =>
              \E d \in Seq(Seq(Token)), l \in Seq(Token) :
                 doc = Append(d, l) /\ Descends(Outline(d), l)

(* What the parser of a list does with a line.                              *)
LEMMA ListSteps ==
    ASSUME ParseBlock, Me.kind \in {"ul", "ol"}
    PROVE  /\ ~Me.started => AddLine(Started, <<OpenTag[Me.kind]>> \o Body(Me.kind, line))
           /\ Me.started /\ Indented(line) => AddLine(Me, StripIndent(line))
           /\ Me.started /\ ~Indented(line) /\ EndsList(Me.kind, line) =>
                 AddLine(Finished, <<CloseTag[Me.kind]>> \o Body(Me.kind, line))
           /\ Me.started /\ ~Indented(line) /\ ~EndsList(Me.kind, line)
                 /\ IsNewItem(Me.kind, line) =>
                 AddLine(Me, <<ItemTag[Me.kind]>> \o Body(Me.kind, line))
  <1>1. stack[at].kind = Me.kind /\ Me.kind \notin {"quote", "p", "head", "rule", "code", "table"}
    BY DEF Me
  <1>2. ListStart \/ ListIndented \/ ListEnd \/ ListItem \/ ListText
    BY <1>1 DEF ParseBlock, QuoteLine, QuoteEnd, ParagraphStart, ParagraphLine, Headline,
                HorizontalLine, CodeFence, CodeText, TableStart, TableRow, TableEnd, Running
  <1>3. ListStart => ~Me.started /\ AddLine(Started, <<OpenTag[Me.kind]>> \o Body(Me.kind, line))
    BY Zenon DEF ListStart
  <1>4. ListIndented => Me.started /\ Indented(line) /\ AddLine(Me, StripIndent(line))
    BY Zenon DEF ListIndented
  <1>5. ListEnd => /\ Me.started /\ ~Indented(line) /\ EndsList(Me.kind, line)
                   /\ AddLine(Finished, <<CloseTag[Me.kind]>> \o Body(Me.kind, line))
    BY Zenon DEF ListEnd
  <1>6. ListItem => /\ Me.started /\ ~Indented(line) /\ ~EndsList(Me.kind, line)
                    /\ AddLine(Me, <<ItemTag[Me.kind]>> \o Body(Me.kind, line))
    BY Zenon DEF ListItem
  <1>7. ListText => /\ Me.started /\ ~Indented(line) /\ ~EndsList(Me.kind, line)
                    /\ ~IsNewItem(Me.kind, line)
    BY Zenon DEF ListText
  <1> QED
    BY <1>2, <1>3, <1>4, <1>5, <1>6, <1>7, Zenon

(* Two sequences of one element each.                                       *)
LEMMA OneAndOne ==
    ASSUME NEW a \in Token, NEW b \in Token
    PROVE  <<a>> \o <<b>> = <<a, b>>
  <1> DEFINE s == <<a>> \o <<b>>
  <1>1. <<a>> \in Seq(Token) /\ <<b>> \in Seq(Token)
    BY TupleTypes
  <1>2. s \in Seq(Token) /\ Len(s) = 2 /\ s[1] = a /\ s[2] = b
    BY <1>1
  <1> HIDE DEF s
  <1>3. s = <<a, b>>
    BY <1>2, PairIs, Zenon
  <1> QED
    BY <1>3 DEF s

(* The line that a list hands on, and whether it ends with it.              *)
HandsOn(prev, l, f) ==
    /\ f \in Parser /\ f.kind = Me.kind /\ f.result = Me.result /\ f.started
    /\ f.finished <=> at > Level(l)
    /\ AddLine(f, IF at <= Len(prev.open) THEN LineAt(prev.open, l, at + 1) ELSE FirstItem(l))

(* A step of a list on the line of an outline.                              *)
LEMMA OutlineTurns ==
    ASSUME IInv, phase = "add", ParseBlock, NEW prev \in Outlined, NEW l \in Seq(Token),
           Descends(prev, l)
    PROVE  Me.kind \in {"ul", "ol"} /\ \E f : HandsOn(prev, l, f)
  <1> DEFINE open == prev.open
             v == Level(l)
             k == Me.kind
  <1>1. open \in Seq({"ul", "ol"})
    BY DEF Outlined
  <1>2. /\ Fits(open, l) /\ line = LineAt(open, l, at)
        /\ \A i \in 1..Len(open) : stack[i].kind = open[i]
        /\ \/ at <= Len(open) /\ Len(stack) = Len(open) /\ Me.started
           \/ /\ at = Len(open) + 1 /\ Len(stack) = at /\ v = at
              /\ Me.kind = ItemKind(l) /\ ~Me.started
    BY DEF Descends, Me
  <1>3. /\ v \in 0..Len(open) + 1 /\ (v = 0 <=> l = <<>>)
        /\ l # <<>> => /\ ItemKind(l) \in {"ul", "ol"} /\ l[Len(l)] \in ToSet(Word)
                       /\ v <= Len(open) => open[v] = ItemKind(l)
    BY <1>1, <1>2, ItemIs
  <1>4. /\ at \in 1..Len(stack) /\ Me \in Parser /\ Me.finished = FALSE /\ line \in Seq(Token)
        /\ Len(open) \in Nat
    <2>1. Len(open) \in Nat
      BY <1>1
    <2> QED
      BY <2>1, AddFacts, Zenon
  <1>5. at <= Len(open) => k = open[at] /\ at \in 1..Len(open)
    BY <1>2, <1>4 DEF Me
  <1> HIDE DEF v, open
  <1>6. k \in {"ul", "ol"}
    <2>1. CASE at <= Len(open)
      BY <1>1, <1>5, <2>1
    <2>2. CASE ~(at <= Len(open))
      <3>1. v # 0 /\ k = ItemKind(l)
        BY <1>2, <1>4, <2>2
      <3> QED
        BY <1>3, <3>1
    <2> QED
      BY <2>1, <2>2
  <1>7. CASE at <= Len(open) /\ at < v
    <2>1. Indented(line) /\ StripIndent(line) = LineAt(open, l, at + 1)
      BY <1>1, <1>2, <1>4, <1>7, LineIndented DEF v
    <2>2. Me.started /\ AddLine(Me, LineAt(open, l, at + 1))
      BY <1>2, <1>4, <1>6, <1>7, <2>1, ListSteps
    <2>3. ~(at > v)
      BY <1>3, <1>4, <1>7
    <2>4. HandsOn(prev, l, Me)
      BY <1>4, <1>7, <2>2, <2>3 DEF HandsOn, open, v
    <2> QED
      BY <1>6, <2>4
  <1>8. CASE at = v
    <2> DEFINE w == l[Len(l)]
               m == <<Marker[ItemKind(l)], w>>
    <2>1. l # <<>> /\ line = m /\ k = ItemKind(l) /\ w \in ToSet(Word)
      <3>1. l # <<>>
        BY <1>3, <1>4, <1>8
      <3>2. line = m
        BY <1>1, <1>2, <1>8, <3>1, LineMarked DEF v
      <3>3. k = ItemKind(l)
        BY <1>2, <1>3, <1>4, <1>5, <1>8, <3>1
      <3> QED
        BY <1>3, <3>1, <3>2, <3>3
    <2>2. Body(k, line) = <<w>> /\ ~Indented(line) /\ ~EndsList(k, line) /\ IsNewItem(k, line)
      BY <1>6, <2>1, MarkedLine
    <2>3. ~(at > v)
      BY <1>3, <1>4, <1>8
    <2>4. CASE at <= Len(open)
      <3>1. Me.started /\ AddLine(Me, <<ItemTag[k]>> \o <<w>>)
        BY <1>2, <1>4, <1>6, <2>2, <2>4, ListSteps
      <3>2. <<ItemTag[k]>> \o <<w>> = NextItem(l)
        <4>1. <<ItemTag[k]>> \o <<w>> = <<ItemTag[k], w>>
          BY <1>6, <2>1, ListTokens, OneAndOne
        <4> QED
          BY <2>1, <4>1, Zenon DEF NextItem
      <3>3. LineAt(open, l, at + 1) = NextItem(l)
        BY <1>1, <1>2, <1>8, <2>4, LineNext DEF v
      <3>4. HandsOn(prev, l, Me)
        BY <1>4, <2>3, <2>4, <3>1, <3>2, <3>3 DEF HandsOn, open, v
      <3> QED
        BY <1>6, <3>4
    <2>5. CASE ~(at <= Len(open))
      <3>1. AddLine(Started, <<OpenTag[k]>> \o <<w>>)
        BY <1>2, <1>6, <2>2, <2>5, ListSteps
      <3>2. <<OpenTag[k]>> \o <<w>> = FirstItem(l)
        <4>1. <<OpenTag[k]>> \o <<w>> = <<OpenTag[k], w>>
          BY <1>6, <2>1, ListTokens, OneAndOne
        <4> QED
          BY <2>1, <4>1, Zenon DEF FirstItem
      <3>3. /\ Started \in Parser /\ Started.kind = k /\ Started.started = TRUE
            /\ Started.finished = FALSE /\ Started.result = Me.result
        BY <1>4, StartedFields
      <3>4. HandsOn(prev, l, Started)
        BY <2>3, <2>5, <3>1, <3>2, <3>3 DEF HandsOn, open, v
      <3> QED
        BY <1>6, <3>4
    <2> QED
      BY <2>4, <2>5
  <1>9. CASE at > v
    <2>1. at <= Len(open) /\ Me.started /\ at \in 1..Len(open) /\ at \in 1..Len(open) + 1 /\ v < at
          /\ k = open[at]
      BY <1>2, <1>3, <1>4, <1>5, <1>9
    <2>2. line = <<>> \/ Head(line) \in ListEnds
      BY <1>1, <1>2, <2>1, LineEnds DEF v
    <2>3. Body(k, line) = line /\ ~Indented(line) /\ EndsList(k, line)
      BY <1>4, <1>6, <2>2, EndingLine
    <2>4. AddLine(Finished, <<CloseTag[k]>> \o line)
      BY <1>6, <2>1, <2>3, ListSteps
    <2>5. LineAt(open, l, at + 1) = <<CloseTag[k]>> \o line
      BY <1>1, <1>2, <2>1, LineClosing DEF v
    <2>6. /\ Finished \in Parser /\ Finished.kind = k /\ Finished.started = Me.started
          /\ Finished.finished = TRUE /\ Finished.result = Me.result
      BY <1>4, StartedFields
    <2>7. HandsOn(prev, l, Finished)
      BY <1>9, <2>1, <2>4, <2>5, <2>6 DEF HandsOn, open, v
    <2> QED
      BY <1>6, <2>7
  <1>10. (at <= Len(open) /\ at < v) \/ at = v \/ at > v
    BY <1>2, <1>3, <1>4
  <1> QED
    BY <1>7, <1>8, <1>9, <1>10

(* The results while a line goes down: the last parser puts it into its own.*)
LEMMA AddLineRenders ==
    ASSUME IInv, NEW f \in Parser, f.kind = Me.kind, f.result = Me.result,
           NEW l \in Seq(Token), AddLine(f, l), SInv'
    PROVE  Rendered' = IF phase' = "return" THEN Rendered \o l ELSE Rendered
  <1> DEFINE n == Len(stack)
             b == [stack EXCEPT ![at] = f]
             c == ChildFor(f.kind, l)
  <1>1. /\ TypeInv /\ stack \in Seq(Parser) /\ stack' \in Seq(Parser) /\ Me.result \in Seq(Token)
    <2>1. f.result \in Seq(Token)
      BY DEF Parser
    <2> QED
      BY <2>1 DEF IInv, SInv, TypeInv
  <1>2. /\ phase = "add" /\ at \in 1..n /\ output' = output
        /\ \/ /\ at = n
              /\ stack' = [stack EXCEPT ![at] = [f EXCEPT !.result = @ \o l]]
              /\ phase' = "return"
           \/ stack' = b /\ phase' = "add"
           \/ /\ c \in Kind /\ stack' = Append(b, NewParser(c))
              /\ phase' = "add"
    BY <1>1, AddLineCases
  <1> HIDE DEF c
  <1>3. CASE /\ at = n
             /\ stack' = [stack EXCEPT ![at] = [f EXCEPT !.result = @ \o l]]
             /\ phase' = "return"
    <2> DEFINE g == [f EXCEPT !.result = @ \o l]
               s == output \o Each(ResultOf, Before)
    <2>1. g \in Parser /\ g.result = Me.result \o l
      <3>1. f.result \o l \in Seq(Token)
        BY <1>1
      <3> QED
        BY <3>1 DEF Parser
    <2>2. stack' = [stack EXCEPT ![at] = g]
      BY <1>3
    <2> HIDE DEF g, s
    <2>3. stack' = Before \o <<g>>
      <3>1. [stack EXCEPT ![at] = g] = SubSeq(stack, 1, at - 1) \o <<g>>
        BY <1>1, <1>2, <1>3, <2>1, UptoReplaced
      <3> QED
        BY <2>2, <3>1 DEF Before
    <2>4. /\ s \in Seq(Token) /\ Rendered = s \o Me.result
          /\ output \o Each(ResultOf, Before \o <<g>>) = s \o g.result
      BY <1>2, <1>3, <2>1, RenderedApart DEF s
    <2>5. Rendered' = s \o (Me.result \o l)
      BY <1>1, <1>2, <2>1, <2>3, <2>4, RenderedIsPrime
    <2>6. s \o (Me.result \o l) = (s \o Me.result) \o l
      BY <1>1, <2>4, CatTokens
    <2> QED
      BY <1>3, <2>4, <2>5, <2>6
  <1>4. b \in Seq(Parser) /\ Each(ResultOf, b) = Each(ResultOf, stack)
    <2>1. /\ b \in Seq(Parser) /\ Len(b) = n
          /\ \A i \in 1..n : b[i] = IF i = at THEN f ELSE stack[i]
      BY <1>1, <1>2
    <2>2. DOMAIN b = 1..n /\ DOMAIN stack = 1..n
      BY <1>1
    <2> HIDE DEF b
    <2>3. \A i \in 1..n : ResultOf[b[i]] = ResultOf[stack[i]]
      <3>1. \A i \in 1..n : stack[i] \in Parser
        BY <1>1
      <3> QED
        BY <2>1, <3>1 DEF ResultOf, Me
    <2>4. Mapped(ResultOf, b) = Mapped(ResultOf, stack)
      BY <2>2, <2>3, Zenon DEF Mapped
    <2> QED
      BY <2>1, <2>4, Zenon DEF Each
  <1> HIDE DEF b
  <1>5. CASE stack' = b /\ phase' = "add"
    BY <1>1, <1>2, <1>4, <1>5, RenderedIs, RenderedIsPrime
  <1>6. CASE /\ c \in Kind /\ stack' = Append(b, NewParser(c))
             /\ phase' = "add"
    <2> DEFINE N == NewParser(c)
    <2>1. N \in Parser /\ ResultOf[N] = <<>>
      <3>1. N \in Parser /\ N.result = <<>>
        BY <1>6, NewParserType DEF NewParser
      <3> QED
        BY <3>1 DEF ResultOf
    <2> HIDE DEF N
    <2>2. stack' = b \o <<N>>
      BY <1>4, <1>6, <2>1, AppendIsConcat DEF N
    <2>3. Each(ResultOf, b \o <<N>>) = Each(ResultOf, b) \o ResultOf[N] /\ Each(ResultOf, b) \in Seq(Token)
      BY <1>4, <2>1, ParserMore
    <2>4. Each(ResultOf, stack') = Each(ResultOf, stack)
      <3>1. Each(ResultOf, b) \o <<>> = Each(ResultOf, b)
        BY <2>3
      <3> QED
        BY <1>4, <2>1, <2>2, <2>3, <3>1
    <2> QED
      BY <1>1, <1>2, <1>6, <2>4, RenderedIs, RenderedIsPrime
  <1> QED
    BY <1>2, <1>3, <1>5, <1>6

(* A line that is one level deeper opens a list ...                         *)
LEMMA Deeper ==
    ASSUME NEW acc \in Outlined, NEW l \in Seq(Token), acc.ok, Fits(acc.open, l),
           Level(l) > Len(acc.open), NEW next, next = OutlineStep(acc, l)
    PROVE  /\ next.ok /\ next.open = Append(acc.open, ItemKind(l))
           /\ next.html = acc.html \o FirstItem(l)
  <1>1. acc.open \in Seq({"ul", "ol"})
    BY DEF Outlined
  <1>2. next = [acc EXCEPT !.open = Append(acc.open, ItemKind(l)),
                           !.html = acc.html \o FirstItem(l)]
    BY DEF OutlineStep
  <1> QED
    BY <1>2 DEF Outlined

(* ... and any other closes those below its level.                          *)
LEMMA NotDeeper ==
    ASSUME NEW acc \in Outlined, NEW l \in Seq(Token), acc.ok, Fits(acc.open, l),
           ~(Level(l) > Len(acc.open)), NEW next, next = OutlineStep(acc, l)
    PROVE  /\ next.ok /\ next.open = SubSeq(acc.open, 1, Level(l))
           /\ next.html = acc.html \o (ClosedTo(acc.open, Level(l)) \o NextItem(l))
  <1>1. next = [acc EXCEPT !.open = SubSeq(acc.open, 1, Level(l)),
                           !.html = acc.html \o (ClosedTo(acc.open, Level(l)) \o NextItem(l))]
    BY DEF OutlineStep
  <1> QED
    BY <1>1 DEF Outlined

(* Only an outline can be one with a line more.                             *)
LEMMA StillFits ==
    ASSUME NEW acc \in Outlined, NEW l, OutlineStep(acc, l).ok
    PROVE  acc.ok /\ Fits(acc.open, l)
  <1>1. ~(acc.ok /\ Fits(acc.open, l)) => OutlineStep(acc, l) = [acc EXCEPT !.ok = FALSE]
    BY DEF OutlineStep
  <1> QED
    BY <1>1 DEF Outlined

(* A step on the line of an outline: the next list gets what it is to get,  *)
(* and when none does the outline has one line more.                        *)
LEMMA OutlineDown ==
    ASSUME IInv, phase = "add", ParseBlock, SInv',
           NEW prev \in Outlined, NEW l \in Seq(Token), Descends(prev, l),
           NEW next, next = OutlineStep(prev, l)
    PROVE  /\ doc' = doc /\ eof' = eof /\ phase' \in {"add", "return"}
           /\ phase' = "add" => Descends(prev, l)'
           /\ phase' = "return" => Settled(next)'
  <1> DEFINE open == prev.open
             n == Len(open)
             v == Level(l)
  <1>1. PICK f : HandsOn(prev, l, f)
    BY OutlineTurns
  <1> DEFINE m == IF at <= n THEN LineAt(open, l, at + 1) ELSE FirstItem(l)
             c == ChildFor(f.kind, m)
  <1>2. /\ f \in Parser /\ f.kind = Me.kind /\ f.result = Me.result /\ f.started
        /\ f.finished <=> at > v
        /\ AddLine(f, m) /\ Me.kind \in {"ul", "ol"}
    BY <1>1, OutlineTurns DEF HandsOn
  <1>3. /\ prev.ok /\ Fits(open, l) /\ Rendered = prev.html
        /\ \A i \in 1..n : stack[i].kind = open[i]
        /\ \A i \in 1..at - 1 : stack[i].finished <=> i > v
        /\ \/ at <= n /\ Len(stack) = n /\ Me.started
           \/ at = n + 1 /\ Len(stack) = at /\ v = at /\ Me.kind = ItemKind(l) /\ ~Me.started
    BY DEF Descends, Me
  <1>4. open \in Seq({"ul", "ol"}) /\ n \in Nat
    BY DEF Outlined
  <1>5. /\ v \in 0..n + 1 /\ (v = 0 <=> l = <<>>)
        /\ l # <<>> => /\ ItemKind(l) \in {"ul", "ol"} /\ l[Len(l)] \in ToSet(Word)
    BY <1>3, <1>4, ItemIs
  <1>6. at \in 1..Len(stack) /\ Len(stack) \in Nat /\ stack \in Seq(Parser) /\ TypeInv
    BY AddFacts DEF IInv, SInv, TypeInv
  <1>7. v <= n /\ at = n =>
           /\ m \in Seq(Token) /\ m # <<>> /\ Head(m) \in Tag
           /\ m = ClosedTo(open, v) \o NextItem(l)
    <2> SUFFICES ASSUME v <= n, at = n
                 PROVE  /\ m \in Seq(Token) /\ m # <<>> /\ Head(m) \in Tag
                        /\ m = ClosedTo(open, v) \o NextItem(l)
      OBVIOUS
    <2>1. m = LineAt(open, l, n + 1)
      BY <1>4
    <2>2. n + 1 \in 1..n + 1 /\ v < n + 1 /\ n + 1 > 1
      BY <1>4, <1>5, <1>6
    <2> HIDE DEF m, v
    <2>3. LineAt(open, l, n + 1) = ClosedTo(open, v) \o NextItem(l)
      BY <1>3, <1>4, LineLast DEF v
    <2> HIDE DEF n
    <2>4. /\ LineAt(open, l, n + 1) \in Seq(Token) /\ LineAt(open, l, n + 1) # <<>>
          /\ Head(LineAt(open, l, n + 1)) \in ListEnds
      BY <1>3, <1>4, <2>2, LineEnds DEF v, n
    <2>5. ListEnds \subseteq Tag
      BY DEF ListEnds, Tag
    <2> QED
      BY <2>1, <2>3, <2>4, <2>5
  <1>8. v = n + 1 => /\ Level(l) > Len(prev.open) /\ l # <<>>
                     /\ FirstItem(l) \in Seq(Token) /\ FirstItem(l) # <<>>
                     /\ Head(FirstItem(l)) \in Tag
    <2> SUFFICES ASSUME v = n + 1
                 PROVE  /\ Level(l) > Len(prev.open) /\ l # <<>>
                        /\ FirstItem(l) \in Seq(Token) /\ FirstItem(l) # <<>>
                        /\ Head(FirstItem(l)) \in Tag
      OBVIOUS
    <2>1. Level(l) > Len(prev.open) /\ l # <<>>
      BY <1>4, <1>5
    <2>2. FirstItem(l) \in Seq(Token)
      BY <1>3, <1>4, <2>1, ItemTypes
    <2>3. OpenTag[ItemKind(l)] \in Tag
      BY <1>5, <2>1, ListTags, ListTokens
    <2> QED
      BY <2>1, <2>2, <2>3 DEF FirstItem
  <1>9. v = n + 1 /\ at = n =>
           m = <<Marker[ItemKind(l)], l[Len(l)]>> /\ m \in Seq(Token) /\ c = ItemKind(l)
    <2> SUFFICES ASSUME v = n + 1, at = n
                 PROVE  m = <<Marker[ItemKind(l)], l[Len(l)]>> /\ m \in Seq(Token) /\ c = ItemKind(l)
      OBVIOUS
    <2>1. m = LineAt(open, l, v)
      BY <1>4
    <2>2. m = <<Marker[ItemKind(l)], l[Len(l)]>>
      BY <1>3, <1>4, <1>8, <2>1, LineMarked
    <2> HIDE DEF m, v
    <2>3. c = ItemKind(l)
      BY <1>2, <1>5, <1>8, <2>2, MarkedLine
    <2>4. m \in Seq(Token)
      <3>1. Marker["ul"] \in Token /\ Marker["ol"] \in Token
        BY DEF Marker, Token, Markup
      <3>2. Marker[ItemKind(l)] \in Token /\ l[Len(l)] \in Token
        BY <1>5, <1>8, <3>1, ListTokens, Zenon
      <3> QED
        BY <2>2, <3>2, TupleTypes
    <2> QED
      BY <2>2, <2>3, <2>4
  <1>10. /\ line' = m /\ doc' = doc /\ eof' = eof /\ phase' \in {"add", "return"}
         /\ \/ /\ at = Len(stack) /\ c = "none"
               /\ stack' = [stack EXCEPT ![at] = [f EXCEPT !.result = @ \o m]]
               /\ phase' = "return"
            \/ /\ at < Len(stack)
               /\ stack' = [stack EXCEPT ![at] = f]
               /\ phase' = "add" /\ at' = at + 1
            \/ /\ at = Len(stack) /\ c \in Kind
               /\ stack' = Append([stack EXCEPT ![at] = f], NewParser(c))
               /\ phase' = "add" /\ at' = at + 1
    <2> HIDE DEF m
    <2>1. /\ line' = m /\ UNCHANGED <<doc, eof, output>>
          /\ \/ /\ at = Len(stack) /\ ChildFor(f.kind, m) = "none"
                /\ stack' = [stack EXCEPT ![at] = [f EXCEPT !.result = @ \o m]]
                /\ phase' = "return" /\ at' = at
             \/ /\ at < Len(stack)
                /\ stack' = [stack EXCEPT ![at] = f]
                /\ phase' = "add" /\ at' = at + 1
             \/ /\ at = Len(stack)
                /\ ChildFor(f.kind, m) \in Kind
                /\ stack' = Append([stack EXCEPT ![at] = f], NewParser(ChildFor(f.kind, m)))
                /\ phase' = "add" /\ at' = at + 1
      BY <1>2, <1>6, AddLineCases
    <2> QED
      BY <2>1
  <1>11. m \in Seq(Token) /\ stack' \in Seq(Parser)
    BY <1>10 DEF SInv, TypeInv
  <1>12. Rendered' = IF phase' = "return" THEN Rendered \o m ELSE Rendered
    <2> HIDE DEF m
    <2> QED
      BY <1>2, <1>11, AddLineRenders
  <1>13. c \in Kind => c # "none"
    BY DEF Kind, ListKind
  <1>14. m # <<>> /\ Head(m) \in Tag => c = "none"
    <2>1. f.kind \in Kind \ {"quote"}
      BY <1>2 DEF Kind, ListKind
    <2> HIDE DEF m
    <2> QED
      BY <2>1, TagStartsNone
  <1>15. v = n + 1 /\ at = n => c # "none"
    BY <1>5, <1>8, <1>9
  <1>16. at > n => m = FirstItem(l) /\ v = n + 1
    BY <1>3, <1>4, <1>6
  <1>17. prev.open = open /\ Level(l) = v
    OBVIOUS
  <1> HIDE DEF m, c, v
  <1>18. CASE /\ at = Len(stack) /\ c = "none"
              /\ stack' = [stack EXCEPT ![at] = [f EXCEPT !.result = @ \o m]]
              /\ phase' = "return"
    <2>1. /\ Len(stack') = Len(stack)
          /\ \A i \in 1..Len(stack) :
                /\ stack'[i].kind = stack[i].kind
                /\ stack'[i].finished = IF i = at THEN f.finished ELSE stack[i].finished
      <3> DEFINE g == [f EXCEPT !.result = @ \o m]
      <3>1. g.kind = stack[at].kind /\ g.finished = f.finished
        BY <1>2 DEF Parser, Me
      <3> HIDE DEF g
      <3>2. stack' = [stack EXCEPT ![at] = g]
        BY <1>18 DEF g
      <3> QED
        BY <1>6, <3>1, <3>2
    <2>2. CASE at <= n
      <3>1. at = n /\ v <= n /\ v \in Nat
        BY <1>3, <1>4, <1>5, <1>15, <1>18, <2>2
      <3>2. /\ next.open = SubSeq(open, 1, v)
            /\ next.html = prev.html \o (ClosedTo(open, v) \o NextItem(l))
        <4>1. ~(Level(l) > Len(prev.open))
          BY <1>4, <1>17, <3>1
        <4> QED
          BY <1>3, <4>1, NotDeeper DEF v
      <3>3. Rendered' = next.html
        BY <1>3, <1>7, <1>12, <1>18, <3>1, <3>2
      <3>4. Len(next.open) = v /\ \A i \in 1..v : next.open[i] = open[i]
        BY <1>4, <3>1, <3>2
      <3>5. \A i \in 1..Len(stack) : stack'[i].finished <=> i > v
        BY <1>2, <1>3, <1>6, <1>18, <2>1
      <3> QED
        BY <1>3, <1>4, <1>10, <1>18, <2>1, <3>1, <3>3, <3>4, <3>5 DEF Settled
    <2>3. CASE ~(at <= n)
      <3>1. at = n + 1 /\ v = n + 1 /\ m = FirstItem(l) /\ Len(stack) = n + 1 /\ Me.kind = ItemKind(l)
        BY <1>3, <1>4, <1>6, <1>16, <2>3
      <3>2. next.open = Append(open, ItemKind(l)) /\ next.html = prev.html \o FirstItem(l)
        BY <1>3, <1>8, <3>1, Deeper
      <3>3. Rendered' = next.html
        BY <1>3, <1>12, <1>18, <3>1, <3>2
      <3>4. /\ Len(next.open) = n + 1 /\ next.open[n + 1] = ItemKind(l)
            /\ \A i \in 1..n : next.open[i] = open[i]
        BY <1>4, <3>2
      <3>5. \A i \in 1..Len(stack) : stack'[i].finished <=> i > n + 1
        BY <1>2, <1>3, <1>4, <1>6, <1>18, <2>1, <3>1
      <3>6. ASSUME NEW i \in 1..n + 1 PROVE stack'[i].kind = next.open[i]
        <4>1. i \in 1..Len(stack) /\ (i \in 1..n \/ i = n + 1)
          BY <1>4, <3>1
        <4>2. stack'[i].kind = stack[i].kind
          BY <2>1, <4>1
        <4> QED
          BY <1>3, <3>1, <3>4, <4>1, <4>2 DEF Me
      <3> QED
        BY <1>4, <1>10, <1>18, <2>1, <3>1, <3>3, <3>4, <3>5, <3>6 DEF Settled
    <2> QED
      BY <2>2, <2>3
  <1>19. CASE /\ at < Len(stack)
              /\ stack' = [stack EXCEPT ![at] = f]
              /\ phase' = "add" /\ at' = at + 1
    <2>1. /\ Len(stack') = Len(stack)
          /\ \A i \in 1..Len(stack) : stack'[i] = IF i = at THEN f ELSE stack[i]
      BY <1>6, <1>19
    <2>2. at < n /\ Len(stack) = n /\ at + 1 \in 1..Len(stack) /\ at + 1 # at
      BY <1>3, <1>4, <1>6, <1>19
    <2>3. stack[at + 1].started
      BY <2>2 DEF IInv, SInv, Structure, InAdd
    <2>4. line' = LineAt(open, l, at')
      <3>1. at <= n
        BY <1>4, <1>6, <2>2
      <3>2. m = LineAt(open, l, at + 1)
        BY <3>1, Zenon DEF m
      <3> QED
        BY <1>10, <1>19, <3>2, Zenon
    <2>5. \A i \in 1..n : stack'[i].kind = open[i]
      BY <1>2, <1>3, <2>1, <2>2 DEF Me
    <2>6. \A i \in 1..at' - 1 : stack'[i].finished <=> i > v
      <3>1. at' - 1 = at
        BY <1>6, <1>19
      <3>2. ASSUME NEW i \in 1..at PROVE stack'[i].finished <=> i > v
        <4>1. i \in 1..Len(stack) /\ (i = at \/ i \in 1..at - 1)
          BY <1>6
        <4> QED
          BY <1>2, <1>3, <2>1, <4>1
      <3> QED
        BY <3>1, <3>2
    <2>7. Rendered' = prev.html
      BY <1>3, <1>12, <1>19
    <2>8. at' <= n /\ Len(stack') = n /\ stack'[at'].started
      BY <1>4, <1>6, <1>19, <2>1, <2>2, <2>3
    <2>9. Descends(prev, l)'
      BY <1>3, <2>4, <2>5, <2>6, <2>7, <2>8 DEF Descends, v
    <2> QED
      BY <1>10, <1>19, <2>9
  <1>20. CASE /\ at = Len(stack) /\ c \in Kind
              /\ stack' = Append([stack EXCEPT ![at] = f], NewParser(c))
              /\ phase' = "add" /\ at' = at + 1
    <2>1. at = n /\ v = n + 1
      BY <1>3, <1>4, <1>5, <1>7, <1>8, <1>13, <1>14, <1>16, <1>20
    <2>2. m = <<Marker[ItemKind(l)], l[Len(l)]>> /\ c = ItemKind(l) /\ l # <<>>
      BY <1>8, <1>9, <2>1
    <2> DEFINE N == NewParser(c)
    <2>3. N.kind = c /\ ~N.started
      BY DEF NewParser
    <2> HIDE DEF N
    <2>4. /\ Len(stack') = n + 1 /\ stack'[n + 1] = N
          /\ \A i \in 1..n : stack'[i] = IF i = at THEN f ELSE stack[i]
      <3>1. stack' = Append([stack EXCEPT ![at] = f], N)
        BY <1>20 DEF N
      <3>2. /\ [stack EXCEPT ![at] = f] \in Seq(Parser) /\ Len([stack EXCEPT ![at] = f]) = n
            /\ \A i \in 1..n : [stack EXCEPT ![at] = f][i] = IF i = at THEN f ELSE stack[i]
        <4> DEFINE b == [stack EXCEPT ![at] = f]
        <4>1. b = [stack EXCEPT ![at] = f]
          OBVIOUS
        <4> HIDE DEF b
        <4>2. b \in Seq(Parser) /\ Len(b) = Len(stack)
              /\ \A i \in 1..Len(stack) : b[i] = IF i = at THEN f ELSE stack[i]
          BY <1>2, <1>6, <4>1, PutAt
        <4>3. Len(stack) = n
          BY <1>20, <2>1
        <4> QED
          BY <4>1, <4>2, <4>3, Zenon
      <3> QED
        BY <1>4, <3>1, <3>2
    <2>5. line' = LineAt(open, l, at')
      BY <1>10, <1>20, <2>1 DEF m
    <2>6. \A i \in 1..n : stack'[i].kind = open[i]
      BY <1>2, <1>3, <2>1, <2>4 DEF Me
    <2>7. \A i \in 1..at' - 1 : stack'[i].finished <=> i > v
      <3>1. at' - 1 = at
        BY <1>6, <1>20
      <3>2. ASSUME NEW i \in 1..at PROVE stack'[i].finished <=> i > v
        <4>1. i \in 1..n /\ (i = at \/ i \in 1..at - 1)
          BY <1>6, <2>1
        <4> QED
          BY <1>2, <1>3, <2>4, <4>1
      <3> QED
        BY <3>1, <3>2
    <2>8. Rendered' = prev.html
      BY <1>3, <1>12, <1>20
    <2>9. /\ at' = n + 1 /\ Len(stack') = at' /\ v = at'
          /\ stack'[at'].kind = ItemKind(l) /\ ~stack'[at'].started
      BY <1>20, <2>1, <2>2, <2>3, <2>4
    <2>10. Descends(prev, l)'
      BY <1>3, <2>5, <2>6, <2>7, <2>8, <2>9 DEF Descends, v
    <2> QED
      BY <1>10, <1>20, <2>10
  <1> QED
    BY <1>10, <1>18, <1>19, <1>20

(* What is to be shown of the next state.                                   *)
LEMMA SettledNext ==
    ASSUME NEW acc, Rendered' = acc.html, Len(acc.open) <= Len(stack'),
           \A i \in 1..Len(stack') : stack'[i].finished <=> i > Len(acc.open),
           \A i \in 1..Len(acc.open) : stack'[i].kind = acc.open[i]
    PROVE  Settled(acc)'
  BY DEF Settled

(* Going back, the deeper lists are let go, and nothing else is changed.    *)
LEMMA OutlineReturn ==
    ASSUME IInv, Return, SInv', NEW acc \in Outlined, Settled(acc)
    PROVE  Settled(acc)'
  <1>1. acc.open \in Seq({"ul", "ol"}) /\ Len(acc.open) \in Nat
    BY DEF Outlined
  <1>2. phase = "return"
    BY DEF Return
  <1>3. stack \in Seq(Parser) /\ at \in 1..Len(stack) /\ InReturn /\ Len(stack) \in Nat
    BY <1>2 DEF IInv, SInv, TypeInv, Structure
  <1>4. /\ Rendered = acc.html /\ Len(acc.open) <= Len(stack)
        /\ \A i \in 1..Len(stack) : stack[i].finished <=> i > Len(acc.open)
        /\ \A i \in 1..Len(acc.open) : stack[i].kind = acc.open[i]
    BY DEF Settled
  <1>5. Rendered' = acc.html
    BY <1>4, ReturnMoves
  <1>6. Me = stack[at]
    BY DEF Me
  <1>7. CASE ~Me.finished
    <2>1. stack' = stack
      BY <1>7 DEF Return, TakesOver
    <2> QED
      BY <1>4, <1>5, <2>1 DEF Settled
  <1>8. CASE Me.finished /\ at = 1
    <2>1. stack' = <<>>
      BY <1>8 DEF Return, TakesOver
    <2>2. ~(Len(acc.open) >= 1)
      BY <1>1, <1>3, <1>4, <1>6, <1>8
    <2>3. /\ Len(acc.open) = 0 /\ Len(stack') = 0
          /\ 1..Len(acc.open) = {} /\ 1..Len(stack') = {}
      BY <1>1, <2>1, <2>2
    <2>4. Len(acc.open) <= Len(stack')
      BY <2>3
    <2>5. /\ \A i \in 1..Len(stack') : stack'[i].finished <=> i > Len(acc.open)
          /\ \A i \in 1..Len(acc.open) : stack'[i].kind = acc.open[i]
      BY <2>3, Zenon
    <2> QED
      BY <1>5, <2>4, <2>5, SettledNext, Zenon
  <1>9. CASE Me.finished /\ at > 1
    <2>1. /\ at = Len(stack) /\ Len(stack') = at - 1
          /\ \A i \in 1..at - 1 : /\ stack'[i].kind = stack[i].kind
                                  /\ stack'[i].finished = stack[i].finished
      BY <1>9, ParentOf
    <2>2. at > Len(acc.open)
      BY <1>3, <1>4, <1>6, <1>9
    <2>3. Len(acc.open) <= Len(stack')
      BY <1>1, <1>3, <2>1, <2>2
    <2>4. \A i \in 1..Len(stack') : stack'[i].finished <=> i > Len(acc.open)
      BY <1>3, <1>4, <2>1
    <2>5. \A i \in 1..Len(acc.open) : stack'[i].kind = acc.open[i]
      BY <1>1, <1>3, <1>4, <2>1, <2>2
    <2> QED
      BY <1>5, <2>3, <2>4, <2>5 DEF Settled
  <1> QED
    BY <1>3, <1>7, <1>8, <1>9

(* An empty line between two blocks.                                        *)
LEMMA OutlineSkips ==
    ASSUME NEW acc \in Outlined, acc.ok, Settled(acc), stack = <<>>,
           NEW next, next = OutlineStep(acc, <<>>)
    PROVE  Settled(next)
  <1>1. acc.open \in Seq({"ul", "ol"}) /\ acc.html \in Seq(Token) /\ Len(acc.open) \in Nat
    BY DEF Outlined
  <1>2. Len(acc.open) = 0 /\ acc.open = <<>>
    <2>1. Len(stack) = 0 /\ Len(acc.open) <= Len(stack)
      BY DEF Settled
    <2> QED
      BY <1>1, <2>1
  <1>3. <<>> \in Seq(Token) /\ Fits(acc.open, <<>>)
    BY DEF Fits
  <1>4. Level(<<>>) = 0
    BY <1>1, <1>3, ItemIs
  <1>5. /\ next.open = SubSeq(acc.open, 1, 0)
        /\ next.html = acc.html \o (ClosedTo(acc.open, 0) \o NextItem(<<>>))
    <2>1. ~(Level(<<>>) > Len(acc.open))
      BY <1>2, <1>4
    <2> QED
      BY <1>3, <1>4, <2>1, NotDeeper
  <1>6. next.open = acc.open /\ next.html = acc.html
    <2>1. ClosedTo(acc.open, 0) = <<>>
      <3>1. 0 \in 0..Len(acc.open) /\ Len(acc.open) - 0 = 0
        BY <1>2
      <3>2. /\ ClosedTo(acc.open, 0) \in Seq(Token)
            /\ Len(ClosedTo(acc.open, 0)) = Len(acc.open) - 0
        BY <1>1, <3>1, ClosedToType, Zenon
      <3> QED
        BY <3>1, <3>2
    <2>2. NextItem(<<>>) = <<>>
      BY DEF NextItem
    <2>3. SubSeq(acc.open, 1, 0) = acc.open
      BY <1>2
    <2>4. <<>> \o <<>> = <<>> /\ acc.html \o <<>> = acc.html
      BY <1>1
    <2> QED
      BY <1>5, <2>1, <2>2, <2>3, <2>4, Zenon
  <1> QED
    BY <1>6 DEF Settled

(* A line that is read is given to the first list, or begins one.           *)
LEMMA OutlineReads ==
    ASSUME IInv, phase = "read", NEW acc \in Outlined, NEW l \in Seq(Token), Settled(acc),
           acc.ok, Fits(acc.open, l), line' = l, at' = 1, output' = output, SInv',
           \/ stack # <<>> /\ stack' = stack
           \/ /\ stack = <<>> /\ GetBlockParserForLine(l) # "none"
              /\ stack' = <<NewParser(GetBlockParserForLine(l))>>
    PROVE  Descends(acc, l)'
  <1> DEFINE open == acc.open
             n == Len(open)
             v == Level(l)
  <1>1. open \in Seq({"ul", "ol"}) /\ n \in Nat
    BY DEF Outlined
  <1>2. /\ v \in 0..n + 1 /\ Len(l) = 2 * v /\ (v = 0 <=> l = <<>>)
        /\ l # <<>> => ItemKind(l) \in {"ul", "ol"} /\ l[Len(l)] \in ToSet(Word)
    BY <1>1, ItemIs
  <1>3. /\ Rendered = acc.html /\ n <= Len(stack)
        /\ \A i \in 1..Len(stack) : stack[i].finished <=> i > n
        /\ \A i \in 1..n : stack[i].kind = open[i]
    BY DEF Settled
  <1>4. stack \in Seq(Parser) /\ InRead /\ stack' \in Seq(Parser) /\ Len(stack) \in Nat
    BY DEF IInv, SInv, TypeInv, Structure
  <1>5. Len(stack) = n
    <2>1. \A i \in 1..Len(stack) : ~(i > n)
      BY <1>3, <1>4 DEF InRead
    <2>2. Len(stack) \in 1..Len(stack) \/ Len(stack) = 0
      BY <1>4
    <2> QED
      BY <1>1, <1>3, <1>4, <2>1, <2>2
  <1> HIDE DEF v
  <1>6. \A i \in 1..at' - 1 : FALSE
    OBVIOUS
  <1>7. CASE stack # <<>> /\ stack' = stack
    <2>1. 1 <= n /\ 1 \in 1..Len(stack)
      BY <1>4, <1>5, <1>7
    <2>2. stack[1].started
      BY <1>4, <2>1 DEF InRead
    <2>3. Rendered' = acc.html
      BY <1>3, <1>4, <1>7, RenderedIs, RenderedIsPrime
    <2>4. LineAt(open, l, 1) = l
      <3>1. CASE v = 0
        <4>1. l = <<>> /\ v < 1 /\ v <= Len(open)
          BY <1>1, <1>2, <3>1
        <4>2. LineAt(open, l, v + 1) = NextItem(l)
          BY <1>1, <4>1, LineNext DEF v
        <4>3. v + 1 = 1
          BY <3>1
        <4> QED
          BY <4>1, <4>2, <4>3 DEF NextItem
      <3>2. CASE v # 0
        <4>1. 1 <= v /\ 2 * 1 - 1 = 1
          BY <1>2, <3>2
        <4>2. SubSeq(l, 1, Len(l)) = l
          OBVIOUS
        <4> QED
          BY <4>1, <4>2 DEF LineAt, v
      <3> QED
        BY <3>1, <3>2
    <2>5. line' = LineAt(open, l, at')
      BY <2>4
    <2> QED
      BY <1>3, <1>5, <1>6, <1>7, <2>1, <2>2, <2>3, <2>5 DEF Descends
  <1>8. CASE /\ stack = <<>> /\ GetBlockParserForLine(l) # "none"
             /\ stack' = <<NewParser(GetBlockParserForLine(l))>>
    <2>1. n = 0
      BY <1>5, <1>8
    <2>2. l # <<>>
      <3>1. \A k \in Kind : ~Starts(k, <<>>)
        BY StartsWith
      <3> QED
        BY <1>8, <3>1, BlockStarts
    <2>3. v = 1
      BY <1>2, <2>1, <2>2
    <2>4. l = <<Marker[ItemKind(l)], l[Len(l)]>> /\ l = LineAt(open, l, 1)
      <3>1. LineAt(open, l, 1) = <<Marker[ItemKind(l)], l[Len(l)]>>
        BY <1>1, <2>2, <2>3, LineMarked DEF v
      <3>2. LineAt(open, l, 1) = SubSeq(l, 1, Len(l))
        <4>1. 1 <= Level(l) /\ 2 * 1 - 1 = 1
          BY <2>3 DEF v
        <4> QED
          BY <4>1, Zenon DEF LineAt
      <3>3. SubSeq(l, 1, Len(l)) = l
        OBVIOUS
      <3> QED
        BY <3>1, <3>2, <3>3
    <2>5. GetBlockParserForLine(l) = ItemKind(l)
      BY <1>2, <2>2, <2>4, MarkedLine
    <2> DEFINE N == NewParser(ItemKind(l))
    <2>6. N.kind = ItemKind(l) /\ ~N.started /\ N \in Parser /\ N.result = <<>>
      <3>1. ItemKind(l) \in Kind
        BY <1>2, <2>2 DEF Kind, ListKind
      <3> QED
        BY <3>1, NewParserType DEF NewParser
    <2>7. stack' = <<N>>
      BY <1>8, <2>5
    <2> HIDE DEF N
    <2>8. Len(stack') = 1 /\ stack'[1] = N
      BY <2>7
    <2>9. Rendered' = acc.html
      <3>1. ResultOf[N] = <<>>
        BY <2>6 DEF ResultOf
      <3>2. Each(ResultOf, stack') = <<>>
        <4>1. Each(ResultOf, <<N>>) = ResultOf[N]
          <5>1. ResultOf \in [Parser -> Seq(Token)] /\ N \in Parser
            BY <2>6, OpenTypes
          <5> QED
            BY <5>1, EachOne
        <4> QED
          BY <2>7, <3>1, <4>1
      <3>3. Each(ResultOf, stack) = <<>>
        BY <1>8, EachEmpty
      <3> QED
        BY <1>3, <1>4, <3>2, <3>3, RenderedIs, RenderedIsPrime
    <2>10. line' = LineAt(open, l, at')
      BY <2>4
    <2>11. \A i \in 1..n : stack'[i].kind = open[i]
      BY <2>1
    <2>12. at' = n + 1 /\ Len(stack') = at' /\ v = at' /\ stack'[at'].kind = ItemKind(l) /\ ~stack'[at'].started
      BY <2>1, <2>3, <2>6, <2>8
    <2> QED
      BY <1>6, <2>9, <2>10, <2>11, <2>12 DEF Descends, v
  <1> QED
    BY <1>7, <1>8

(* What is to be shown of the next state between two lines or on the way    *)
(* back, ...                                                                *)
LEMMA OutlineSettled ==
    ASSUME NEW acc, Outline(doc') = acc, phase' # "add", Settled(acc)'
    PROVE  OutlineInv'
  <1>1. Outline(doc)' = acc
    OBVIOUS
  <1>2. Settled(Outline(doc))'
    BY <1>1 DEF Settled
  <1> QED
    BY <1>2 DEF OutlineInv

(* ... and of one on the way down.                                          *)
LEMMA OutlineDescends ==
    ASSUME NEW d \in Seq(Seq(Token)), NEW l \in Seq(Token), NEW acc, acc = Outline(d),
           doc' = Append(d, l), phase' = "add", Descends(acc, l)'
    PROVE  OutlineInv'
  <1>1. \E e \in Seq(Seq(Token)), m \in Seq(Token) :
           doc' = Append(e, m) /\ Descends(Outline(e), m)'
    OBVIOUS
  <1> QED
    BY <1>1 DEF OutlineInv

(* An outline that is read goes on as one or is none any more.              *)
LEMMA OutlineRead ==
    ASSUME IInv, OutlineInv, ReadLine, SInv'
    PROVE  OutlineInv'
  <1>1. PICK shape \in Shape(doc) \cap Seq(Markup \cup {"text"}) :
           LET l     == Instantiated(shape)
               block == GetBlockParserForLine(l)
           IN  /\ doc' = Append(doc, l)
               /\ IF stack = <<>> /\ block = "none"
                    THEN UNCHANGED <<line, stack, at, phase>>
                    ELSE /\ line' = l
                         /\ stack' = IF stack = <<>> THEN <<NewParser(block)>> ELSE stack
                         /\ at' = 1
                         /\ phase' = "add"
    BY DEF ReadLine
  <1>2. /\ phase = "read" /\ Len(doc) < MaxLines /\ eof' = eof /\ output' = output
        /\ TypeInv /\ doc \in Seq(Seq(Token)) /\ ~eof /\ stack \in Seq(Parser)
    BY DEF ReadLine, IInv, SInv, TypeInv, Structure
  <1>3. Instantiated(shape) \in Seq(Token)
    BY <1>2, LineRead
  <1>4. PICK l \in Seq(Token) : l = Instantiated(shape)
    BY <1>3
  <1>5. PICK d \in Seq(Seq(Token)) : d = doc
    BY <1>2
  <1>6. PICK acc \in Outlined : acc = Outline(d)
    BY OutlineType
  <1>7. PICK next \in Outlined : next = OutlineStep(acc, l)
    BY OutlineStepType
  <1>8. /\ doc' = Append(d, l)
        /\ IF stack = <<>> /\ GetBlockParserForLine(l) = "none"
             THEN UNCHANGED <<line, stack, at, phase>>
             ELSE /\ line' = l
                  /\ stack' = IF stack = <<>> THEN <<NewParser(GetBlockParserForLine(l))>>
                                              ELSE stack
                  /\ at' = 1
                  /\ phase' = "add"
    BY <1>1, <1>4, <1>5
  <1>9. Outline(doc') = next
    BY <1>6, <1>7, <1>8, OutlineAppend
  <1>10. CASE next.ok
    <2>1. acc.ok /\ Fits(acc.open, l)
      BY <1>7, <1>10, StillFits
    <2>2. Settled(acc)
      BY <1>2, <1>5, <1>6, <2>1 DEF OutlineInv
    <2>3. CASE stack = <<>> /\ GetBlockParserForLine(l) = "none"
      <3>1. UNCHANGED <<line, stack, at, phase>>
        BY <1>8, <2>3
      <3>2. l = <<>>
        BY <2>3 DEF GetBlockParserForLine, Kind, ListKind
      <3>3. Settled(next)
        BY <1>7, <2>1, <2>2, <2>3, <3>2, OutlineSkips
      <3>4. Rendered' = Rendered
        BY <1>2, <3>1, RenderedIs, RenderedIsPrime
      <3>5. Settled(next)'
        BY <3>1, <3>3, <3>4 DEF Settled
      <3> QED
        BY <1>2, <1>9, <3>1, <3>5, OutlineSettled
    <2>4. CASE ~(stack = <<>> /\ GetBlockParserForLine(l) = "none")
      <3>1. /\ line' = l /\ at' = 1 /\ phase' = "add"
            /\ \/ stack # <<>> /\ stack' = stack
               \/ /\ stack = <<>> /\ GetBlockParserForLine(l) # "none"
                  /\ stack' = <<NewParser(GetBlockParserForLine(l))>>
        BY <1>8, <2>4
      <3>2. Descends(acc, l)'
        BY <1>2, <2>1, <2>2, <3>1, OutlineReads
      <3> QED
        BY <1>6, <1>8, <3>1, <3>2, OutlineDescends
    <2> QED
      BY <2>3, <2>4
  <1>11. CASE ~next.ok
    BY <1>9, <1>11 DEF OutlineInv
  <1> QED
    BY <1>10, <1>11

(* On the way down the line gets where it belongs.                          *)
LEMMA OutlineParses ==
    ASSUME IInv, OutlineInv, phase = "add", ParseBlock, SInv', ~eof, Outline(doc').ok
    PROVE  OutlineInv'
  <1>1. doc' = doc /\ doc \in Seq(Seq(Token))
    <2>1. PICK f, l : Turned(f, l) /\ Renders(f, l) /\ AddLine(f, l)
      BY EveryBlockTurns
    <2> QED
      BY <2>1 DEF AddLine, IInv, SInv, TypeInv
  <1>2. PICK d \in Seq(Seq(Token)), l \in Seq(Token) :
           doc = Append(d, l) /\ Descends(Outline(d), l)
    BY <1>1 DEF OutlineInv
  <1>3. PICK prev \in Outlined : prev = Outline(d)
    BY OutlineType
  <1>4. PICK next \in Outlined : next = OutlineStep(prev, l)
    BY OutlineStepType
  <1>5. Outline(doc') = next
    BY <1>1, <1>2, <1>3, <1>4, OutlineAppend
  <1>6. /\ doc' = doc /\ eof' = eof /\ phase' \in {"add", "return"}
        /\ phase' = "add" => Descends(prev, l)'
        /\ phase' = "return" => Settled(next)'
    BY <1>2, <1>3, <1>4, OutlineDown
  <1>7. CASE phase' = "add"
    BY <1>1, <1>2, <1>3, <1>6, <1>7, OutlineDescends
  <1>8. CASE phase' = "return"
    BY <1>5, <1>6, <1>8, OutlineSettled
  <1> QED
    BY <1>6, <1>7, <1>8

(* The document need not be an outline, but every step keeps to it if it is.*)
LEMMA OutlineStepInv ==
    ASSUME IInv, OutlineInv, [Next]_vars
    PROVE  OutlineInv'
  <1>1. SInv'
    BY NextInv DEF IInv
  <1>2. doc \in Seq(Seq(Token))
    BY DEF IInv, SInv, TypeInv
  <1>3. CASE ReadLine
    BY <1>1, <1>3, OutlineRead
  <1>4. CASE EndOfFile
    <2>1. phase' = "done" \/ eof'
      BY <1>4 DEF EndOfFile
    <2> QED
      BY <2>1 DEF OutlineInv
  <1>5. CASE ParseBlock
    <2>1. phase = "add" /\ doc' = doc /\ eof' = eof
      <3>1. PICK f, l : Turned(f, l) /\ Renders(f, l) /\ AddLine(f, l)
        BY <1>5, EveryBlockTurns
      <3> QED
        BY <3>1 DEF AddLine
    <2>2. CASE ~eof /\ Outline(doc').ok
      BY <1>1, <1>5, <2>1, <2>2, OutlineParses
    <2>3. CASE ~(~eof /\ Outline(doc').ok)
      BY <2>1, <2>3 DEF OutlineInv
    <2> QED
      BY <2>2, <2>3
  <1>6. CASE Return
    <2>1. phase = "return" /\ doc' = doc /\ eof' = eof /\ phase' # "add"
      BY <1>6 DEF Return
    <2>2. PICK acc \in Outlined : acc = Outline(doc)
      BY <1>2, OutlineType
    <2>3. CASE ~eof /\ acc.ok
      <3>1. Settled(acc)
        BY <2>1, <2>2, <2>3 DEF OutlineInv
      <3>2. Settled(acc)'
        BY <1>1, <1>6, <3>1, OutlineReturn
      <3>3. Outline(doc') = acc
        BY <2>1, <2>2
      <3> QED
        BY <2>1, <3>2, <3>3, OutlineSettled
    <2>4. CASE ~(~eof /\ acc.ok)
      <3>1. Outline(doc') = acc
        BY <2>1, <2>2
      <3> QED
        BY <2>1, <2>4, <3>1 DEF OutlineInv
    <2> QED
      BY <2>3, <2>4
  <1>7. CASE UNCHANGED vars
    BY <1>7 DEF vars, OutlineInv, Settled, Descends, Rendered
  <1> QED
    BY <1>3, <1>4, <1>5, <1>6, <1>7 DEF Next

(* Before the first line there is nothing.                                  *)
LEMMA OutlineInit == Init => OutlineInv
  <1> SUFFICES ASSUME Init PROVE OutlineInv
    OBVIOUS
  <1>1. doc = <<>> /\ stack = <<>> /\ phase = "read" /\ output = <<>>
    BY DEF Init
  <1>2. Outline(doc) = NotYet
    BY <1>1, OutlineEmpty
  <1>3. Rendered = <<>>
    <2>1. stack \in Seq(Parser) /\ Each(ResultOf, stack) = <<>>
      BY <1>1, EachEmpty
    <2> QED
      BY <1>1, <2>1, RenderedIs
  <1>4. Len(stack) = 0 /\ Len(NotYet.open) = 0 /\ NotYet.html = <<>>
        /\ 1..Len(stack) = {} /\ 1..Len(NotYet.open) = {}
    BY <1>1 DEF NotYet
  <1>5. Settled(NotYet)
    BY <1>3, <1>4 DEF Settled
  <1> QED
    BY <1>1, <1>2, <1>5 DEF OutlineInv
-----------------------------------------------------------------------------
(* Type correctness, with which parser can be the child of which            *)
(* (markdown.h, Parser::getBlockParserForLine and the callbacks), for       *)
(* every document.                                                          *)
THEOREM TypeCorrect == Spec => []TypeOK
  BY AlwaysInv, InvTypeOK, PTL

(* No word of a document is lost, duplicated or moved on its way down the   *)
(* chain of parsers and back (BlockParser::AddLine, Parser::Parse), for     *)
(* every document and whatever depth its lists and quotes have.             *)
THEOREM NoWordIsLost == Spec => []NothingLost
  <1>1. IInv => NothingLost
    BY DEF IInv, Content, NothingLost
  <1> QED
    BY <1>1, AlwaysInv, PTL

(* The HTML is well nested: what is closed was opened last, and between     *)
(* two lines the open elements are those of the open parsers (the tags      *)
(* that the parseBlock functions write, and the ends they put in front of   *)
(* a line).                                                                 *)
THEOREM HtmlNests == Spec => []WellNested
  BY AlwaysInv, InvNested, PTL

(* The final empty line of Parse closes lists and paragraphs; only a        *)
(* quote, a code block or a table can be left open.                         *)
THEOREM EndOfFileCloses == Spec => []EofClosesLists
  BY AlwaysInv, InvEof, PTL

(* The lists of an outline are nested as its lines are indented, whatever   *)
(* their depth and kinds (ListParser::parseBlock, which strips two spaces   *)
(* for each list it passes a line to and ends the deeper lists by the tags  *)
(* it puts in front of a line).                                             *)
THEOREM OutlineNests == Spec => []NestsAsIndented
  <1>1. Init => IInv /\ OutlineInv
    BY InitInv, OutlineInit
  <1>2. IInv /\ OutlineInv /\ [Next]_vars => (IInv /\ OutlineInv)'
    BY NextInv, OutlineStepInv
  <1>3. IInv /\ OutlineInv => NestsAsIndented
    BY DEF IInv, SInv, Structure, OutlineInv, Settled, NestsAsIndented
  <1> QED
    BY <1>1, <1>2, <1>3, PTL DEF Spec
=============================================================================
