------------------------------ MODULE HtmlEscape ------------------------------
(***************************************************************************)
(* htmlspecialchars of html.h, one turn of its inner loop per step.        *)
(* CppBlog knows only its possible outcomes; here is where they come from. *)
(*                                                                         *)
(* A string is a sequence of characters; what follows the "&" of an entity *)
(* counts as one, and may be in the input as well.                         *)
(* A definition Name_Bug is a mutant of Name; EscapeNext uses none of them. *)
(***************************************************************************)
EXTENDS Naturals, Sequences, SequencesExt

CONSTANTS Char,      \* the characters of the inputs
          MaxInput,  \* bound on the length of an input
          MaxLength  \* bound on the length of str: replacing may not end

ASSUME BoundAssumption == MaxInput \in Nat /\ MaxLength \in Nat

VARIABLES input,     \* history: str as it was passed
          str,
          pair,      \* i, the outer loop, from 0 to below 15
          outcome    \* "running"; behind the arrays "returned", "loops", "aborted"

escapeVars == <<input, str, pair, outcome>>

(* subs and reps have five elements.                                        *)
subs_AmpFirst == <<"&", "quote", "apostrophe", "<", ">">>
subs == <<"quote", "apostrophe", "&", "<", ">">>

reps_LtTwice == <<"quot;", "apos;", "amp;", "lt;", "lt;">>
reps == <<"quot;", "apos;", "amp;", "lt;", "gt;">>

EscapeInit ==
    /\ input \in BoundedSeq(Char, MaxInput)
    /\ str = input /\ pair = 0 /\ outcome = "running"
-----------------------------------------------------------------------------
Found == Contains(str, subs[pair + 1])

(* find begins at the start again, also behind a replacement.               *)
Replaced(n) == SubSeq(str, 1, n - 1) \o <<"&", reps[pair + 1]>>
                                     \o SubSeq(str, n + 1, Len(str))

Replace ==
    /\ pair < 5 /\ Found /\ Len(str) < MaxLength
    /\ str' = Replaced(SelectInSeq(str, LAMBDA c : c = subs[pair + 1]))
    /\ UNCHANGED <<input, pair, outcome>>

NextPair ==
    /\ pair < 5 /\ ~Found
    /\ pair' = pair + 1
    /\ UNCHANGED <<input, str, outcome>>

(* subs[5] and what follows it is undefined behaviour.                      *)
Beyond ==
    /\ pair = 5 /\ outcome = "running"
    /\ outcome' \in {"returned", "loops", "aborted"}
    /\ UNCHANGED <<input, str, pair>>

EscapeNext == Replace \/ NextPair \/ Beyond

EscapeSpec == EscapeInit /\ [][EscapeNext]_escapeVars
-----------------------------------------------------------------------------
(* A text with the characters of which replaced, each once.                 *)
EntityOf(c) ==
    CASE c = "quote"      -> <<"&", "quot;">>
      [] c = "apostrophe" -> <<"&", "apos;">>
      [] c = "&"          -> <<"&", "amp;">>
      [] c = "<"          -> <<"&", "lt;">>
      [] c = ">"          -> <<"&", "gt;">>

Escaped(t, which) ==
    FlattenSeq([k \in DOMAIN t |-> IF t[k] \in which THEN EntityOf(t[k]) ELSE <<t[k]>>])

Ampersand == {"quote", "apostrophe", "&"}

(* Every quote and every ampersand makes the loop endless: the "&" of its   *)
(* own entity is found again at i = 2, for ever.                            *)
AmpersandNeverEnds == ToSet(input) \cap Ampersand # {} => pair <= 2

(* All other strings are escaped when the arrays end, each character once.  *)
(* What the endless loop makes is the text with its quotes escaped, and     *)
(* more and more "amp;" behind the first ampersand only.                    *)
EscapesTheRest ==
    /\ pair = 5 => str = Escaped(input, {"<", ">"})
    /\ pair = 2 =>
         LET quoted == Escaped(input, {"quote", "apostrophe"})
             first  == SelectInSeq(quoted, LAMBDA c : c = "&")
             more   == Len(str) - Len(quoted)
         IN  str = SubSeq(quoted, 1, first) \o [k \in 1..more |-> "amp;"]
                   \o SubSeq(quoted, first + 1, Len(quoted))
=============================================================================
