-------------------------------- MODULE Routes --------------------------------
(***************************************************************************)
(* How main() chooses the page: REQUEST_URI is tried against "/" and four  *)
(* regular expressions in order, one per step.                             *)
(*                                                                         *)
(* A URI is a sequence of tokens: the slash, the words of the patterns,    *)
(* and text.  "TU-KHOA" is there because the patterns ignore case, "%2F"   *)
(* because the capture is decoded, and only after the choice.  A visitor   *)
(* asks for one URI and then for a longer one; each is a process of its    *)
(* own, and before is the history of the one before.                       *)
(* A definition Name_Bug is a mutant of Name; RouteNext uses none.         *)
(***************************************************************************)
EXTENDS Naturals, Sequences, SequencesExt

CONSTANTS Word,     \* tokens that occur in no pattern, "%2F" may be one
          MaxLen    \* bound: tokens of a URI

ASSUME WordAssumption ==
    Word \cap {"/", "tu-khoa", "TU-KHOA", "chuyen-muc", "am", "p"} = {}
ASSUME MaxLenAssumption == MaxLen \in Nat

VARIABLES uri,       \* path_info; NoUri when getenv returns NULL
          trying,    \* the pattern that is next, or "done"
          page,      \* what the page says it is
          before     \* history: the visitor's request before this one

routeVars == <<uri, trying, page, before>>

NoUri == <<"NULL">>
Token == Word \cup {"/", "tu-khoa", "TU-KHOA", "chuyen-muc", "am", "p"}
Nothing == [kind |-> "none", text |-> <<>>]
-----------------------------------------------------------------------------
TagWord == {"tu-khoa", "TU-KHOA"}
CategoryWord == {"chuyen-muc"}

OptionalSlash == {<<>>, <<"/">>}
AmpEnd == {<<"/", "am">>, <<"/", "am", "/">>, <<"/", "am", "p">>, <<"/", "am", "p", "/">>}

(* What (.+)? or (.+) can be when one of the ends is all that follows it.   *)
UpTo(rest, ends) ==
    {SubSeq(rest, 1, n) : n \in {k \in 0..Len(rest) : SubSeq(rest, k + 1, Len(rest)) \in ends}}

Below(path, words) ==
    IF Len(path) >= 3 /\ path[1] = "/" /\ path[2] \in words /\ path[3] = "/"
      THEN UpTo(SubSeq(path, 4, Len(path)), OptionalSlash) ELSE {}

BehindSlash(path, ends) ==
    IF path # <<>> /\ path[1] = "/" THEN UpTo(Tail(path), ends) ELSE {}

Captures(pattern, path) ==
    CASE pattern = "tag"      -> Below(path, TagWord)
      [] pattern = "category" -> Below(path, CategoryWord)
      [] pattern = "amp"      -> BehindSlash(path, AmpEnd) \ {<<>>}
      [] pattern = "entry"    -> BehindSlash(path, OptionalSlash)

(* The quantifiers are greedy.                                              *)
Capture_Lazy(matches) == CHOOSE c \in matches : \A d \in matches : Len(c) <= Len(d)
Capture(matches) == CHOOSE c \in matches : \A d \in matches : Len(d) <= Len(c)

Decode(t) == [k \in DOMAIN t |-> IF t[k] = "%2F" THEN "/" ELSE t[k]]

AfterMiss_AmpFirst(pattern) ==
    CASE pattern = "home" -> "amp"  [] pattern = "amp"      -> "tag"
      [] pattern = "tag"  -> "category" [] pattern = "category" -> "entry"
      [] pattern = "entry" -> "done"
AfterMiss(pattern) ==
    CASE pattern = "home" -> "tag"      [] pattern = "tag"   -> "category"
      [] pattern = "amp"  -> "entry"    [] pattern = "entry" -> "done"
      [] pattern = "category" -> "amp"

(* goto BREAKOUT.                                                           *)
AfterMatch(pattern) == "done"
-----------------------------------------------------------------------------
RouteInit ==
    /\ uri \in {NoUri, <<>>}
    /\ trying = "home"
    /\ page = Nothing
    /\ before = [uri |-> NoUri, page |-> Nothing]

WithoutUri ==
    /\ trying = "home" /\ uri = NoUri
    /\ trying' = "done"
    /\ UNCHANGED <<uri, page, before>>

(* strcmp with "/".                                                         *)
Home ==
    /\ trying = "home" /\ uri # NoUri
    /\ IF uri = <<"/">>
         THEN trying' = AfterMatch("home") /\ page' = [kind |-> "home", text |-> <<>>]
         ELSE trying' = AfterMiss("home") /\ UNCHANGED page
    /\ UNCHANGED <<uri, before>>

Try(pattern) ==
    /\ trying = pattern
    /\ LET matches == Captures(pattern, uri)
       IN  IF matches # {}
             THEN /\ trying' = AfterMatch(pattern)
                  /\ page' = [kind |-> pattern, text |-> Decode(Capture(matches))]
             ELSE trying' = AfterMiss(pattern) /\ UNCHANGED page
    /\ UNCHANGED <<uri, before>>

(* The next process serves the visitor's next request.                      *)
Longer == {<<t>> : t \in Token} \cup {<<"/", "am">>, <<"/", "am", "p">>}

Request ==
    /\ trying = "done" /\ uri # NoUri
    /\ \E more \in Longer :
          /\ Len(uri \o more) <= MaxLen
          /\ uri' = uri \o more
    /\ trying' = "home" /\ page' = Nothing
    /\ before' = [uri |-> uri, page |-> page]

RouteNext ==
    \/ WithoutUri \/ Home \/ Request
    \/ Try("tag") \/ Try("category") \/ Try("amp") \/ Try("entry")

RouteSpec == RouteInit /\ [][RouteNext]_routeVars
-----------------------------------------------------------------------------
(* The visitor went from one page to the one behind it.                     *)
Went(more) ==
    trying = "done" /\ before.uri \notin {NoUri, <<>>} /\ uri = before.uri \o more

(* The AMP page of an entry is the page of that entry, but for an entry     *)
(* with the name of the tags or of the categories: that one's AMP page is a *)
(* tag or a category called "amp".                                          *)
AmpOfEntry ==
    \A amp \in {<<"/", "am">>, <<"/", "am", "p">>} :
        Went(amp) /\ before.page.kind = "entry" =>
            \/ page = [before.page EXCEPT !.kind = "amp"]
            \/ /\ before.page.text \in {<<w>> : w \in TagWord \cup CategoryWord}
               /\ page = [kind |-> IF before.page.text[1] \in TagWord THEN "tag" ELSE "category",
                          text |-> Tail(amp)]

(* A slash at the end, optional in each pattern, is so for AMP pages only:  *)
(* elsewhere the greedy capture takes it, and the name ends in a slash.     *)
SlashNamesAnother ==
    Went(<<"/">>) /\ before.page.kind = page.kind =>
        \/ page.kind = "none"
        \/ page.kind = "amp" /\ page.text = before.page.text
        \/ page.kind # "amp" /\ page.text = Append(before.page.text, "/")

(* What the two optional endings do to the page of a URI.                   *)
Endings == AmpOfEntry /\ SlashNamesAnother

(* Behind a tag or a category everything is a longer name of that kind, an  *)
(* AMP page too; only a real slash leads there, not an escaped one; and     *)
(* nothing is behind a page but pages: the last pattern takes what the      *)
(* others leave.                                                            *)
SubtreesKept ==
    \A kind \in {"tag", "category"} : \A more \in Longer :
        Went(more) =>
            /\ before.page.kind = kind =>
                  page = [kind |-> kind, text |-> before.page.text \o Decode(more)]
            /\ before.page.kind # kind /\ page.kind = kind => more[1] = "/"
            /\ before.page.kind # "none" => page.kind # "none"
=============================================================================
