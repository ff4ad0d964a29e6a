------------------------------- MODULE UrlCodec -------------------------------
(***************************************************************************)
(* The strings of util.h: decode_url, one turn of its loop per step, with  *)
(* from_hex_to_i and to_utf8; encode_url; and the trims.                   *)
(*                                                                         *)
(* A string is a sequence of bytes.  i counts from 0 as in the code, and   *)
(* s[s.size()] is the terminating 0.                                       *)
(* A definition Name_Bug is a mutant of Name; Next uses none of them.      *)
(***************************************************************************)
EXTENDS Naturals, Sequences, SequencesExt

CONSTANTS Text,    \* the strings to decode, and to encode and then decode
          npos     \* the greatest size_t, which no string is as long as

ASSUME TextAssumption ==
    npos \in Nat /\ \A t \in Text : t \in Seq(0..255) /\ Len(t) < npos

VARIABLES text,       \* history: a text
          coded,      \* history: whether s is encode_url(text) or text itself
          s, i,       \* decode_url's parameter and loop variable
          result,
          farthest    \* history: the greatest index of s that was read

vars == <<text, coded, s, i, result, farthest>>

Percent == 37
Plus == 43
Space == 32
LowerU == 117
-----------------------------------------------------------------------------
(* is_hex, for the value of a digit.                                        *)
HexValue(c) ==
    CASE c \in 48..57  -> c - 48
      [] c \in 65..70  -> c - 55
      [] c \in 97..102 -> c - 87

IsHex(c) == c \in (48..57) \cup (65..70) \cup (97..102)

(* to_utf8: its shifts and masks are divisions and remainders.              *)
Tail6_Unmarked(code, n) == (code \div n) % 64
Tail6(code, n) == 128 + ((code \div n) % 64)

Surrogate == 55296..57343

Utf8(code) ==
    IF code < 128 THEN <<code>>
    ELSE IF code < 2048 THEN <<192 + (code \div 64), Tail6(code, 1)>>
    ELSE IF code \in Surrogate \/ code > 1114111 THEN <<>>
    ELSE IF code < 65536 THEN <<224 + (code \div 4096), Tail6(code, 64), Tail6(code, 1)>>
    ELSE <<240 + (code \div 262144), Tail6(code, 4096), Tail6(code, 64), Tail6(code, 1)>>

(* encode_url stops at a 0 byte and leaves "%" alone.                       *)
Special_NotPlus == {10, 13, 32, 39, 44, 58, 59} \cup 128..255
Special == {10, 13, 32, 39, 43, 44, 58, 59} \cup 128..255

HexChar(n) == IF n < 10 THEN 48 + n ELSE 55 + n

Encode(t) ==
    LET end == SelectInSeq(t, LAMBDA c : c = 0)
        read == IF end = 0 THEN t ELSE SubSeq(t, 1, end - 1)
    IN  FlattenSeq([k \in DOMAIN read |->
            IF read[k] \in Special
              THEN <<Percent, HexChar(read[k] \div 16), HexChar(read[k] % 16)>>
              ELSE <<read[k]>>])
-----------------------------------------------------------------------------
(* Nothing behind the terminating 0 is read, although from_hex_to_i checks  *)
(* only its first index against the size.                                   *)
TypeOK ==
    /\ text \in Seq(0..255) /\ coded \in BOOLEAN
    /\ s \in Seq(0..255)
    /\ i \in 0..Len(s)
    /\ result \in Seq(0..255)
    /\ farthest \in 0..Len(s)

Init ==
    /\ text \in Text
    /\ coded \in BOOLEAN
    /\ s = (IF coded THEN Encode(text) ELSE text)
    /\ i = 0 /\ result = <<>> /\ farthest = 0

At(k) == IF k < Len(s) THEN s[k + 1] ELSE 0

(* from_hex_to_i(s, k, cnt, val): it ends at the first byte that is no      *)
(* digit, which the terminating 0 is at the latest.                         *)
FromHex(k, cnt) == k < Len(s) /\ \A n \in 0..cnt - 1 : IsHex(At(k + n))

HexByte(k) == 16 * HexValue(At(k)) + HexValue(At(k + 1))
HexNumber(k, cnt) == IF cnt = 2 THEN HexByte(k) ELSE 256 * HexByte(k) + HexByte(k + 2)

LastRead_All(k, cnt) == k + cnt - 1
LastRead(k, cnt) ==
    CHOOSE n \in k..(k + cnt - 1) :
        /\ \A m \in k..n - 1 : IsHex(At(m))
        /\ n = k + cnt - 1 \/ ~IsHex(At(n))

Reads(k) == farthest' = IF k > farthest THEN k ELSE farthest

Take(width, bytes) ==
    /\ i' = i + width
    /\ result' = result \o bytes
    /\ UNCHANGED <<text, coded, s>>

Escape == i < Len(s) /\ At(i) = Percent /\ i + 1 < Len(s)

(* %uXXXX; a surrogate leaves nothing.                                      *)
UnicodeWidth == 6

Unicode ==
    /\ Escape /\ At(i + 1) = LowerU
    /\ Reads(IF i + 2 < Len(s) THEN LastRead(i + 2, 4) ELSE i + 1)
    /\ IF FromHex(i + 2, 4) THEN Take(UnicodeWidth, Utf8(HexNumber(i + 2, 4)))
                            ELSE Take(1, <<Percent>>)

TwoDigits ==
    /\ Escape /\ At(i + 1) # LowerU
    /\ Reads(LastRead(i + 1, 2))
    /\ IF FromHex(i + 1, 2) THEN Take(3, <<HexNumber(i + 1, 2)>>)
                            ELSE Take(1, <<Percent>>)

Single ==
    /\ i < Len(s) /\ ~Escape
    /\ Reads(i)
    /\ Take(1, <<IF At(i) = Plus THEN Space ELSE At(i)>>)

Next == Unicode \/ TwoDigits \/ Single

Spec == Init /\ [][Next]_vars
-----------------------------------------------------------------------------
(* The trims; rtrim adds 1 to npos.                                         *)
Blank == 9..13 \cup {32}

FindFirstNotOf(t, chars) ==
    LET n == SelectInSeq(t, LAMBDA c : c \notin chars) IN IF n = 0 THEN npos ELSE n - 1
FindLastNotOf(t, chars) ==
    LET n == SelectLastInSeq(t, LAMBDA c : c \notin chars) IN IF n = 0 THEN npos ELSE n - 1

ltrim(t, chars) == SubSeq(t, 1 + (IF FindFirstNotOf(t, chars) = npos THEN Len(t)
                                  ELSE FindFirstNotOf(t, chars)), Len(t))
rtrim_NoWrap(t, chars) == SubSeq(t, 1, IF FindLastNotOf(t, chars) = npos THEN Len(t)
                                       ELSE FindLastNotOf(t, chars) + 1)
rtrim(t, chars) == SubSeq(t, 1, (FindLastNotOf(t, chars) + 1) % (npos + 1))

trim(t, chars) == ltrim(rtrim(t, chars), chars)
-----------------------------------------------------------------------------
(* Decoding undoes encoding, but for a text with a 0, where encode_url      *)
(* stops, and a text that looks like an escape, for "%" is not encoded.     *)
LooksEscaped(t) ==
    \E p \in DOMAIN t :
        /\ t[p] = Percent
        /\ \/ p + 2 <= Len(t) /\ \A k \in 1..2 : IsHex(t[p + k])
           \/ p + 5 <= Len(t) /\ t[p + 1] = LowerU /\ \A k \in 2..5 : IsHex(t[p + k])

RoundTrip ==
    coded /\ i = Len(s) =>
        (result = text <=> ~Contains(text, 0) /\ ~LooksEscaped(text))

(* Bytes that encode one code point, and which.                             *)
Continues(b) == b \in 128..191
CodePoint(b) ==
    CASE Len(b) = 1 -> b[1]
      [] Len(b) = 2 -> (b[1] - 192) * 64 + b[2] - 128
      [] Len(b) = 3 -> ((b[1] - 224) * 64 + b[2] - 128) * 64 + b[3] - 128
      [] Len(b) = 4 -> (((b[1] - 240) * 64 + b[2] - 128) * 64 + b[3] - 128) * 64 + b[4] - 128

WellFormed(b) ==
    /\ Len(b) \in 1..4
    /\ \A k \in 2..Len(b) : Continues(b[k])
    /\ b[1] \in (CASE Len(b) = 1 -> 0..127
                   [] Len(b) = 2 -> 192..223
                   [] Len(b) = 3 -> 224..239
                   [] Len(b) = 4 -> 240..247)
    /\ CodePoint(b) >= (CASE Len(b) = 1 -> 0
                          [] Len(b) = 2 -> 128
                          [] Len(b) = 3 -> 2048
                          [] Len(b) = 4 -> 65536)

(* A text that is one escape %uXXXX becomes the shortest bytes of that code *)
(* point, or nothing for half a surrogate pair.                             *)
UnicodeEscapes ==
    ~coded /\ i = Len(s) /\ Len(s) = 6 /\ At(0) = Percent /\ At(1) = LowerU
    /\ (\A k \in 2..5 : IsHex(At(k))) =>
        LET code == HexNumber(2, 4)
        IN  IF code \in Surrogate THEN result = <<>>
                                     ELSE WellFormed(result) /\ CodePoint(result) = code

(* trim takes the blanks at both ends, all of them and nothing else, and    *)
(* rtrim those at the end, also when there is nothing but blanks: then      *)
(* erase(npos + 1) has to be erase(0).                                      *)
TrimsBlanks ==
    LET core == trim(text, Blank)
        right == rtrim(text, Blank)
        Inner(t) == \E a \in 0..Len(text) :
                        /\ t = SubSeq(text, a + 1, a + Len(t))
                        /\ \A k \in DOMAIN text : k \in a + 1..a + Len(t) \/ text[k] \in Blank
    IN  /\ core # <<>> => Head(core) \notin Blank /\ Last(core) \notin Blank
        /\ right # <<>> => Last(right) \notin Blank /\ Head(right) = Head(text)
        /\ Inner(core) /\ Inner(right)
=============================================================================
