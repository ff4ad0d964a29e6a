---------------------------- MODULE StringsProofs ----------------------------
(***************************************************************************)
(* The string functions on any strings: decode_url reads inside its        *)
(* string, makes well-formed UTF-8 of the escapes %uXXXX and gives an      *)
(* encoded text back; the trimmers leave no blank at their ends;           *)
(* htmlspecialchars never returns from a quote or an ampersand, and        *)
(* escapes all other texts right when its arrays end.                      *)
(***************************************************************************)
EXTENDS UrlCodec, HtmlEscape, SequenceLemmas, TLAPS

Byte == 0..255

(* A number below 256 is a byte.                                            *)
LEMMA SmallIsByte ==
    ASSUME NEW n \in Nat, n < 256
    PROVE  n \in Byte
  BY DEF Byte

(* What to_utf8 has to make of a code point that is no surrogate.           *)
RightBytes(b, code) == b \in Seq(Byte) /\ WellFormed(b) /\ CodePoint(b) = code
-----------------------------------------------------------------------------
(* Six bits are taken off ...                                               *)
LEMMA Div64 ==
    ASSUME NEW n \in Nat
    PROVE  /\ n \div 64 \in Nat
           /\ n % 64 \in Nat /\ n % 64 < 64
           /\ n = 64 * (n \div 64) + (n % 64)
  OBVIOUS

(* ... or twelve at once.                                                   *)
LEMMA Div4096 ==
    ASSUME NEW n \in Nat
    PROVE  n \div 4096 = (n \div 64) \div 64
  OBVIOUS

(* A number is put together from its groups of six bits.                    *)
LEMMA SumOfDigits ==
    ASSUME NEW n \in Nat, n < 65536, NEW q \in Nat, NEW r \in Nat, NEW t \in Nat, NEW u \in Nat,
           r < 64, u < 64, n = 64 * q + r, q = 64 * t + u
    PROVE  t < 16 /\ n = (t * 64 + u) * 64 + r
  OBVIOUS

(* A number of sixteen bits as a digit below 16 and two below 64.           *)
LEMMA Digits64 ==
    ASSUME NEW n \in Nat, n < 65536
    PROVE  /\ n \div 4096 \in Nat /\ n \div 4096 < 16
           /\ (n \div 64) % 64 \in Nat /\ (n \div 64) % 64 < 64
           /\ n % 64 \in Nat /\ n % 64 < 64
           /\ n = ((n \div 4096) * 64 + ((n \div 64) % 64)) * 64 + (n % 64)
  <1>1. n \div 64 \in Nat /\ n % 64 \in Nat /\ n % 64 < 64 /\ n = 64 * (n \div 64) + (n % 64)
    BY Div64
  <1> DEFINE q == n \div 64
             r == n % 64
             t == q \div 64
             u == q % 64
  <1>2. q \in Nat /\ r \in Nat /\ r < 64 /\ n = 64 * q + r
    BY <1>1
  <1>3. t \in Nat /\ u \in Nat /\ u < 64 /\ q = 64 * t + u
    BY <1>2, Div64
  <1>4. n \div 4096 = t
    BY Div4096
  <1>5. t < 16 /\ n = (t * 64 + u) * 64 + r
    <2> HIDE DEF q, r, t, u
    <2> QED
      BY <1>2, <1>3, SumOfDigits
  <1> QED
    BY <1>2, <1>3, <1>4, <1>5

(* Three bytes of the right ranges.                                         *)
LEMMA ThreeBytesCode ==
    ASSUME NEW v, Len(v) = 3, v[1] \in 224..239, v[2] \in 128..191, v[3] \in 128..191
    PROVE  CodePoint(v) = ((v[1] - 224) * 64 + v[2] - 128) * 64 + v[3] - 128
  BY DEF CodePoint

(* Three bytes of a lead and two that continue are well formed if the code  *)
(* point takes three.                                                       *)
LEMMA ThreeBytesForm ==
    ASSUME NEW v, Len(v) = 3, v[1] \in 224..239, v[2] \in 128..191, v[3] \in 128..191,
           CodePoint(v) >= 2048
    PROVE  WellFormed(v)
  <1>1. (CASE Len(v) = 1 -> 0..127
           [] Len(v) = 2 -> 192..223
           [] Len(v) = 3 -> 224..239
           [] Len(v) = 4 -> 240..247) = 224..239
    OBVIOUS
  <1>2. (CASE Len(v) = 1 -> 0
           [] Len(v) = 2 -> 128
           [] Len(v) = 3 -> 2048
           [] Len(v) = 4 -> 65536) = 2048
    OBVIOUS
  <1>3. Len(v) \in 1..4 /\ \A k \in 2..Len(v) : Continues(v[k])
    BY DEF Continues
  <1> QED
    BY <1>1, <1>2, <1>3 DEF WellFormed

(* A character of one byte comes back ...                                   *)
LEMMA OneByte ==
    ASSUME NEW code \in Nat, code < 128
    PROVE  RightBytes(Utf8(code), code)
  <1>1. Utf8(code) = <<code>>
    BY DEF Utf8
  <1>2. CodePoint(<<code>>) = code
    BY DEF CodePoint
  <1>3. WellFormed(<<code>>)
    BY <1>2 DEF WellFormed
  <1> QED
    BY <1>1, <1>2, <1>3 DEF RightBytes, Byte

(* ... of two bytes ...                                                     *)
LEMMA TwoBytes ==
    ASSUME NEW code \in Nat, ~(code < 128), code < 2048
    PROVE  RightBytes(Utf8(code), code)
  <1>1. Utf8(code) = <<192 + (code \div 64), Tail6(code, 1)>>
    BY SMT DEF Utf8
  <1>2. Tail6(code, 1) = 128 + (code % 64)
    BY DEF Tail6
  <1>3. code \div 64 \in Nat /\ code % 64 \in Nat /\ code % 64 < 64
        /\ code = 64 * (code \div 64) + (code % 64)
    BY Div64
  <1>4. PICK q \in Nat, r \in Nat : q = code \div 64 /\ r = code % 64
    BY <1>3
  <1>5. r < 64 /\ code = 64 * q + r
    BY <1>3, <1>4
  <1>6. 2 <= q /\ q < 32
    BY <1>5
  <1>7. Utf8(code) = <<192 + q, 128 + r>>
    BY <1>1, <1>2, <1>4
  <1>8. CodePoint(<<192 + q, 128 + r>>) = code
    BY <1>5, <1>6 DEF CodePoint
  <1>9. WellFormed(<<192 + q, 128 + r>>)
    BY <1>5, <1>6, <1>8 DEF WellFormed, Continues
  <1>10. <<192 + q, 128 + r>> \in Seq(Byte)
    BY <1>5, <1>6 DEF Byte
  <1> QED
    BY <1>7, <1>8, <1>9, <1>10 DEF RightBytes

(* ... and of three.                                                        *)
LEMMA ThreeBytes ==
    ASSUME NEW code \in Nat, ~(code < 128), ~(code < 2048), code < 65536,
           code \notin Surrogate
    PROVE  RightBytes(Utf8(code), code)
  <1> DEFINE three == <<224 + (code \div 4096), Tail6(code, 64), Tail6(code, 1)>>
  <1>1. Utf8(code) = three
    <2> DEFINE c1 == code < 128
               c2 == code < 2048
               c3 == code \in Surrogate \/ code > 1114111
               c4 == code < 65536
               one  == <<code>>
               two  == <<192 + (code \div 64), Tail6(code, 1)>>
               four == <<240 + (code \div 262144), Tail6(code, 4096), Tail6(code, 64),
                         Tail6(code, 1)>>
    <2>1. ~(code > 1114111)
      OBVIOUS
    <2>2. ~c1 /\ ~c2 /\ ~c3 /\ c4
      BY <2>1
    <2>3. Utf8(code) = IF c1 THEN one ELSE IF c2 THEN two ELSE IF c3 THEN <<>>
                       ELSE IF c4 THEN three ELSE four
      BY DEF Utf8
    <2> HIDE DEF c1, c2, c3, c4, one, two, three, four
    <2> QED
      BY <2>2, <2>3
  <1>2. PICK t \in Nat, u \in Nat, r \in Nat :
            t = code \div 4096 /\ u = (code \div 64) % 64 /\ r = code % 64
    BY Digits64
  <1>3. t < 16 /\ u < 64 /\ r < 64 /\ code = (t * 64 + u) * 64 + r
    BY <1>2, Digits64
  <1>4. Tail6(code, 64) = 128 + u /\ Tail6(code, 1) = 128 + r
    BY <1>2 DEF Tail6
  <1>5. three = <<224 + t, 128 + u, 128 + r>>
    BY <1>2, <1>4
  <1> HIDE DEF three
  <1>6. Len(three) = 3 /\ three[1] = 224 + t /\ three[2] = 128 + u /\ three[3] = 128 + r
    BY <1>5
  <1>7. three \in Seq(Byte)
    BY <1>3, <1>5 DEF Byte
  <1>8. three[1] \in 224..239 /\ three[2] \in 128..191 /\ three[3] \in 128..191
    BY <1>3, <1>6
  <1>9. CodePoint(three) = ((three[1] - 224) * 64 + three[2] - 128) * 64 + three[3] - 128
    BY <1>6, <1>8, ThreeBytesCode
  <1>10. CodePoint(three) = code
    BY <1>3, <1>6, <1>9
  <1>11. CodePoint(three) >= 2048
    BY <1>10
  <1>12. WellFormed(three)
    BY <1>6, <1>8, <1>11, ThreeBytesForm
  <1> QED
    BY <1>1, <1>7, <1>10, <1>12 DEF RightBytes

(* to_utf8 on what from_hex_to_i makes of four digits.                      *)
LEMMA Utf8Right ==
    ASSUME NEW code \in Nat, code < 65536
    PROVE  /\ Utf8(code) \in Seq(Byte)
           /\ code \in Surrogate => Utf8(code) = <<>>
           /\ code \notin Surrogate => WellFormed(Utf8(code)) /\ CodePoint(Utf8(code)) = code
  <1>1. CASE code < 128
    <2>1. code \notin Surrogate
      BY <1>1, SMTT(30) DEF Surrogate
    <2> QED
      BY <1>1, <2>1, OneByte DEF RightBytes
  <1>2. CASE ~(code < 128) /\ code < 2048
    <2>1. code \notin Surrogate
      BY <1>2, SMTT(30) DEF Surrogate
    <2> QED
      BY <1>2, <2>1, TwoBytes DEF RightBytes
  <1>3. CASE ~(code < 128) /\ ~(code < 2048) /\ code \notin Surrogate
    BY <1>3, ThreeBytes DEF RightBytes
  <1>4. CASE ~(code < 128) /\ ~(code < 2048) /\ code \in Surrogate
    <2>1. Utf8(code) = <<>>
      <3> DEFINE c1 == code < 128
                 c2 == code < 2048
                 c3 == code \in Surrogate \/ code > 1114111
                 rest == IF code < 65536
                           THEN <<224 + (code \div 4096), Tail6(code, 64), Tail6(code, 1)>>
                           ELSE <<240 + (code \div 262144), Tail6(code, 4096),
                                  Tail6(code, 64), Tail6(code, 1)>>
                 one  == <<code>>
                 two  == <<192 + (code \div 64), Tail6(code, 1)>>
      <3>1. ~c1 /\ ~c2 /\ c3
        BY <1>4
      <3>2. Utf8(code) = IF c1 THEN one ELSE IF c2 THEN two ELSE IF c3 THEN <<>> ELSE rest
        BY DEF Utf8
      <3> HIDE DEF c1, c2, c3, one, two, rest
      <3> QED
        BY <3>1, <3>2
    <2> QED
      BY <1>4, <2>1
  <1> QED
    BY <1>1, <1>2, <1>3, <1>4
-----------------------------------------------------------------------------
(* Bytes, digits, and the terminating 0.                                    *)
LEMMA AtEnd ==
    ASSUME s \in Seq(Byte), NEW k \in Nat
    PROVE  At(k) \in Byte /\ (IsHex(At(k)) => k < Len(s))
  <1>1. k < Len(s) => At(k) \in Byte
    BY DEF At
  <1>2. ~(k < Len(s)) => At(k) = 0
    BY DEF At
  <1>3. 0 \in Byte /\ ~IsHex(0)
    BY DEF Byte, IsHex
  <1> QED
    BY <1>1, <1>2, <1>3, Zenon

(* A hexadecimal digit has the value it stands for.                         *)
LEMMA DigitValue ==
    ASSUME NEW c \in Byte, IsHex(c)
    PROVE  HexValue(c) \in Nat /\ HexValue(c) < 16
  <1>1. CASE c \in 48..57
    <2>1. HexValue(c) = c - 48
      BY <1>1, SMT DEF HexValue
    <2> QED
      BY <1>1, <2>1
  <1>2. CASE c \in 65..70
    <2>1. HexValue(c) = c - 55
      BY <1>2, SMT DEF HexValue
    <2> QED
      BY <1>2, <2>1
  <1>3. CASE c \in 97..102
    <2>1. HexValue(c) = c - 87
      BY <1>3, SMT DEF HexValue
    <2> QED
      BY <1>3, <2>1
  <1> QED
    BY <1>1, <1>2, <1>3, Zenon DEF IsHex

(* Two digits are a byte.                                                   *)
LEMMA TwoDigitNumber ==
    ASSUME s \in Seq(Byte), NEW k \in Nat, IsHex(At(k)), IsHex(At(k + 1))
    PROVE  HexByte(k) \in Nat /\ HexByte(k) < 256
  <1>1. HexValue(At(k)) \in Nat /\ HexValue(At(k)) < 16
    BY AtEnd, DigitValue
  <1>2. HexValue(At(k + 1)) \in Nat /\ HexValue(At(k + 1)) < 16
    <2>1. k + 1 \in Nat
      OBVIOUS
    <2> QED
      BY <2>1, AtEnd, DigitValue
  <1> QED
    BY <1>1, <1>2 DEF HexByte

(* from_hex_to_i of two digits and of four.                                 *)
LEMMA FromHexTwo ==
    ASSUME s \in Seq(Byte), NEW k \in Nat, FromHex(k, 2)
    PROVE  /\ HexNumber(k, 2) \in Byte
           /\ k + 1 < Len(s)
  <1>1. IsHex(At(k)) /\ IsHex(At(k + 1))
    <2>1. \A n \in 0..1 : IsHex(At(k + n))
      BY DEF FromHex
    <2>2. IsHex(At(k + 0)) /\ IsHex(At(k + 1)) /\ k + 0 = k
      BY <2>1
    <2> QED
      BY <2>2
  <1>2. HexNumber(k, 2) = HexByte(k)
    BY DEF HexNumber
  <1>3. k + 1 < Len(s)
    BY <1>1, AtEnd
  <1>4. HexByte(k) \in Nat /\ HexByte(k) < 256
    BY <1>1, TwoDigitNumber
  <1>5. HexByte(k) \in Byte
    BY <1>4, SmallIsByte
  <1> QED
    BY <1>2, <1>3, <1>5

(* Four of them are two bytes.                                              *)
LEMMA FromHexFour ==
    ASSUME s \in Seq(Byte), NEW k \in Nat, FromHex(k, 4)
    PROVE  /\ HexNumber(k, 4) \in Nat /\ HexNumber(k, 4) < 65536
           /\ k + 3 < Len(s)
  <1>1. IsHex(At(k)) /\ IsHex(At(k + 1)) /\ IsHex(At(k + 2)) /\ IsHex(At(k + 3))
    <2>1. \A n \in 0..3 : IsHex(At(k + n))
      BY DEF FromHex
    <2>2. IsHex(At(k + 0)) /\ IsHex(At(k + 1)) /\ IsHex(At(k + 2)) /\ IsHex(At(k + 3)) /\ k + 0 = k
      BY <2>1
    <2> QED
      BY <2>2
  <1>2. HexNumber(k, 4) = 256 * HexByte(k) + HexByte(k + 2)
    BY DEF HexNumber
  <1>3. HexByte(k) \in Nat /\ HexByte(k) < 256
    BY <1>1, TwoDigitNumber
  <1>4. HexByte(k + 2) \in Nat /\ HexByte(k + 2) < 256
    <2>1. k + 2 \in Nat /\ (k + 2) + 1 = k + 3
      OBVIOUS
    <2>2. IsHex(At((k + 2) + 1))
      BY <1>1, <2>1
    <2> QED
      BY <1>1, <2>1, <2>2, TwoDigitNumber
  <1>5. k + 3 < Len(s)
    BY <1>1, AtEnd
  <1> QED
    BY <1>2, <1>3, <1>4, <1>5

(* from_hex_to_i stops at the terminating 0 at the latest.                  *)
LEMMA LastReadInside ==
    ASSUME s \in Seq(Byte), NEW k \in Nat, k < Len(s), NEW cnt \in {2, 4}
    PROVE  LastRead(k, cnt) \in Nat /\ LastRead(k, cnt) <= Len(s)
  <1> DEFINE Stops(n) == /\ \A m \in k..n - 1 : IsHex(At(m))
                         /\ n = k + cnt - 1 \/ ~IsHex(At(n))
  <1>1. \E n \in k..(k + cnt - 1) : Stops(n)
    <2>1. CASE ~IsHex(At(k))
      <3>1. k \in k..(k + cnt - 1) /\ k..k - 1 = {}
        OBVIOUS
      <3>2. Stops(k)
        BY <2>1, <3>1
      <3> QED
        BY <3>1, <3>2
    <2>2. CASE IsHex(At(k)) /\ ~IsHex(At(k + 1))
      <3>1. k + 1 \in k..(k + cnt - 1) /\ k..(k + 1) - 1 = {k}
        OBVIOUS
      <3>2. Stops(k + 1)
        BY <2>2, <3>1
      <3> QED
        BY <3>1, <3>2
    <2>3. CASE IsHex(At(k)) /\ IsHex(At(k + 1)) /\ cnt = 2
      <3>1. k + 1 \in k..(k + cnt - 1) /\ k..(k + 1) - 1 = {k} /\ k + 1 = k + cnt - 1
        BY <2>3
      <3>2. Stops(k + 1)
        BY <2>3, <3>1
      <3> QED
        BY <3>1, <3>2
    <2>4. CASE IsHex(At(k)) /\ IsHex(At(k + 1)) /\ cnt = 4 /\ ~IsHex(At(k + 2))
      <3>1. k + 2 \in k..(k + cnt - 1) /\ k..(k + 2) - 1 = {k, k + 1}
        BY <2>4
      <3>2. Stops(k + 2)
        BY <2>4, <3>1
      <3> QED
        BY <3>1, <3>2
    <2>5. CASE IsHex(At(k)) /\ IsHex(At(k + 1)) /\ cnt = 4 /\ IsHex(At(k + 2))
      <3>1. /\ k + 3 \in k..(k + cnt - 1) /\ k..(k + 3) - 1 = {k, k + 1, k + 2}
            /\ k + 3 = k + cnt - 1
        BY <2>5
      <3>2. Stops(k + 3)
        BY <2>5, <3>1
      <3> QED
        BY <3>1, <3>2
    <2> QED
      BY <2>1, <2>2, <2>3, <2>4, <2>5
  <1>2. PICK n \in k..(k + cnt - 1) : n = LastRead(k, cnt) /\ Stops(n)
    <2>1. LastRead(k, cnt) = CHOOSE n \in k..(k + cnt - 1) : Stops(n)
      BY Zenon DEF LastRead
    <2> HIDE DEF Stops
    <2> QED
      BY <1>1, <2>1, Zenon
  <1>3. n <= Len(s)
    <2>1. Len(s) \in Nat
      OBVIOUS
    <2>2. ~IsHex(At(Len(s)))
      BY <2>1, AtEnd
    <2>3. ~(Len(s) \in k..n - 1)
      BY <1>2, <2>2
    <2> QED
      BY <2>1, <2>3
  <1> QED
    BY <1>2, <1>3
-----------------------------------------------------------------------------
(* What encode_url makes of a byte, and what of the text it reads: all up   *)
(* to the first 0.                                                          *)
EncodeOf ==
    [c \in Byte |-> IF c \in Special
                      THEN <<Percent, HexChar(c \div 16), HexChar(c % 16)>>
                      ELSE <<c>>]

ReadOf(t) ==
    LET end == SelectInSeq(t, LAMBDA c : c = 0)
    IN  IF end = 0 THEN t ELSE SubSeq(t, 1, end - 1)

(* A set of natural numbers has a least element, so that Min is in it.      *)
LEMMA MinIsIn ==
    ASSUME NEW S \in SUBSET Nat, S # {}
    PROVE  Min(S) \in S /\ \A y \in S : Min(S) <= y
  <1>1. OpToRel(<, Nat) = {ss \in Nat \X Nat : ss[1] < ss[2]}
    BY Zenon DEF OpToRel
  <1>2. PICK x \in S : \A y \in S : ~(<<y, x>> \in OpToRel(<, Nat))
    BY NatLessThanWellFounded, WFMin, Zenon
  <1>3. \A y \in S : ~(<<y, x>> \in {ss \in Nat \X Nat : ss[1] < ss[2]})
    BY <1>1, <1>2, Zenon
  <1>4. ASSUME NEW y \in S
        PROVE  x <= y
    <2>1. x \in Nat /\ y \in Nat /\ <<y, x>> \in Nat \X Nat
      OBVIOUS
    <2>2. ~(<<y, x>>[1] < <<y, x>>[2])
      BY <1>3, <2>1, Zenon
    <2> QED
      BY <2>1, <2>2
  <1>5. \E z \in S : \A y \in S : z <= y
    BY <1>4
  <1> QED
    BY <1>5 DEF Min

(* What find returns is the first position of c in t.                       *)
FirstAt(t, c) == SelectInSeq(t, LAMBDA d : d = c)

(* The first position, if there is one.                                     *)
LEMMA FirstIsAt ==
    ASSUME NEW S, NEW t \in Seq(S), NEW c, Contains(t, c)
    PROVE  /\ FirstAt(t, c) \in 1..Len(t) /\ t[FirstAt(t, c)] = c
           /\ \A n \in 1..FirstAt(t, c) - 1 : t[n] # c
  <1> DEFINE I == {n \in 1..Len(t) : t[n] = c}
  <1>1. I \in SUBSET Nat /\ I # {}
    BY DEF Contains
  <1>2. Min(I) \in I /\ \A y \in I : Min(I) <= y
    BY <1>1, MinIsIn
  <1>3. FirstAt(t, c) = IF I # {} THEN Min(I) ELSE 0
    BY DEF FirstAt, SelectInSeq
  <1>4. FirstAt(t, c) \in I /\ \A y \in I : FirstAt(t, c) <= y
    BY <1>1, <1>2, <1>3
  <1>5. Len(t) \in Nat
    OBVIOUS
  <1>6. \A n \in 1..FirstAt(t, c) - 1 : n \in 1..Len(t) /\ ~(FirstAt(t, c) <= n)
    BY <1>4, <1>5
  <1> QED
    BY <1>4, <1>6

(* And 0 if there is none.                                                  *)
LEMMA FirstIsNone ==
    ASSUME NEW t, NEW c, ~Contains(t, c)
    PROVE  FirstAt(t, c) = 0
  <1>1. {n \in 1..Len(t) : t[n] = c} = {}
    BY DEF Contains
  <1> QED
    BY <1>1 DEF FirstAt, SelectInSeq

(* encode_url reads all of a text without a 0, and less of one with a 0.    *)
LEMMA ReadIsPrefix ==
    ASSUME NEW t \in Seq(Byte)
    PROVE  /\ ReadOf(t) \in Seq(Byte) /\ Len(ReadOf(t)) <= Len(t)
           /\ \A k \in 1..Len(ReadOf(t)) : ReadOf(t)[k] = t[k]
           /\ ~Contains(t, 0) => ReadOf(t) = t
           /\ Contains(t, 0) => Len(ReadOf(t)) < Len(t)
  <1>1. ReadOf(t) = IF FirstAt(t, 0) = 0 THEN t ELSE SubSeq(t, 1, FirstAt(t, 0) - 1)
    BY Zenon DEF ReadOf, FirstAt
  <1>2. CASE Contains(t, 0)
    <2>1. FirstAt(t, 0) \in 1..Len(t)
      BY <1>2, FirstIsAt
    <2>2. ReadOf(t) = SubSeq(t, 1, FirstAt(t, 0) - 1)
      BY <1>1, <2>1
    <2> QED
      BY <1>2, <2>1, <2>2
  <1>3. CASE ~Contains(t, 0)
    BY <1>1, <1>3, FirstIsNone
  <1> QED
    BY <1>2, <1>3

(* The two digits of a byte are digits, none of them "%" or "u", and stand  *)
(* for that byte.                                                           *)
LEMMA HexCharRight ==
    ASSUME NEW n \in Nat, n < 16
    PROVE  /\ HexChar(n) \in Byte /\ IsHex(HexChar(n)) /\ HexValue(HexChar(n)) = n
           /\ HexChar(n) # Percent /\ HexChar(n) # LowerU
  <1>1. CASE n < 10
    <2>1. HexChar(n) = 48 + n /\ 48 + n \in 48..57
      BY <1>1 DEF HexChar
    <2>2. HexValue(HexChar(n)) = HexChar(n) - 48
      BY <2>1, SMT DEF HexValue
    <2> QED
      BY <2>1, <2>2 DEF Byte, IsHex, Percent, LowerU
  <1>2. CASE ~(n < 10)
    <2>1. HexChar(n) = 55 + n /\ 55 + n \in 65..70
      BY <1>2 DEF HexChar
    <2>2. HexValue(HexChar(n)) = HexChar(n) - 55
      BY <2>1, SMT DEF HexValue
    <2> QED
      BY <2>1, <2>2 DEF Byte, IsHex, Percent, LowerU
  <1> QED
    BY <1>1, <1>2

(* A byte and its two digits.                                               *)
LEMMA ByteDigits ==
    ASSUME NEW c \in Byte
    PROVE  /\ c \div 16 \in Nat /\ c \div 16 < 16 /\ c % 16 \in Nat /\ c % 16 < 16
           /\ c = 16 * (c \div 16) + (c % 16)
  BY DEF Byte

(* What is made of a byte are bytes.                                        *)
LEMMA EncodeOfType == EncodeOf \in [Byte -> Seq(Byte)]
  <1> SUFFICES ASSUME NEW c \in Byte
               PROVE  /\ <<Percent, HexChar(c \div 16), HexChar(c % 16)>> \in Seq(Byte)
                      /\ <<c>> \in Seq(Byte)
    BY DEF EncodeOf
  <1>1. HexChar(c \div 16) \in Byte /\ HexChar(c % 16) \in Byte
    BY ByteDigits, HexCharRight
  <1>2. Percent \in Byte
    BY DEF Percent, Byte
  <1> QED
    BY <1>1, <1>2

(* encode_url encodes what it reads byte by byte.                           *)
LEMMA EncodeIsEach ==
    ASSUME NEW t \in Seq(Byte)
    PROVE  Encode(t) = Each(EncodeOf, ReadOf(t)) /\ Encode(t) \in Seq(Byte)
  <1> DEFINE read == ReadOf(t)
             coding == [k \in DOMAIN read |->
                           IF read[k] \in Special
                             THEN <<Percent, HexChar(read[k] \div 16), HexChar(read[k] % 16)>>
                             ELSE <<read[k]>>]
  <1>1. Encode(t) = FlattenSeq(coding)
    BY Zenon DEF Encode, ReadOf
  <1>2. read \in Seq(Byte)
    BY ReadIsPrefix
  <1> HIDE DEF read
  <1>3. \A k \in DOMAIN read : read[k] \in Byte
    BY <1>2
  <1>4. coding = Mapped(EncodeOf, read)
    <2>1. \A k \in DOMAIN read : EncodeOf[read[k]] =
              IF read[k] \in Special
                THEN <<Percent, HexChar(read[k] \div 16), HexChar(read[k] % 16)>>
                ELSE <<read[k]>>
      BY <1>3, Zenon DEF EncodeOf
    <2> QED
      BY <2>1, Zenon DEF Mapped
  <1>5. Encode(t) = Each(EncodeOf, read)
    BY <1>1, <1>4, Zenon DEF Each
  <1>6. Each(EncodeOf, read) \in Seq(Byte)
    BY <1>2, EncodeOfType, EachType, Zenon
  <1> QED
    BY <1>5, <1>6 DEF read
-----------------------------------------------------------------------------
(* What is read of the text, and where in s the k-th byte of it ends.       *)
Read == ReadOf(text)
Pos(k) == Len(EachUpto(EncodeOf, Read, k))

IsCoded == text \in Seq(Byte) /\ s = Encode(text)

(* Bytes in s that are one of the text are plain.                           *)
IsPlain(c) == c \notin Special /\ c # Percent

(* Where the next byte of the text is in s.                                 *)
LEMMA ByteAt ==
    ASSUME IsCoded, NEW k \in Nat, k < Len(Read)
    PROVE  LET c == Read[k + 1]
           IN  /\ Read \in Seq(Byte) /\ c \in Byte /\ Pos(k) \in Nat
               /\ c \notin Special =>
                     /\ Pos(k + 1) = Pos(k) + 1 /\ Pos(k + 1) <= Len(s)
                     /\ At(Pos(k)) = c
               /\ c \in Special =>
                     /\ Pos(k + 1) = Pos(k) + 3 /\ Pos(k + 1) <= Len(s)
                     /\ At(Pos(k)) = Percent
                     /\ At(Pos(k) + 1) = HexChar(c \div 16)
                     /\ At(Pos(k) + 2) = HexChar(c % 16)
  <1> DEFINE c == Read[k + 1]
             u == EachUpto(EncodeOf, Read, k)
             v == EachUpto(EncodeOf, Read, k + 1)
             e == EncodeOf[c]
  <1>1. Read \in Seq(Byte)
    BY ReadIsPrefix DEF Read, IsCoded
  <1>2. c \in Byte
    BY <1>1
  <1>3. /\ u \in Seq(Byte) /\ v = u \o e
        /\ \E r \in Seq(Byte) : Each(EncodeOf, Read) = v \o r
    <2>1. StandsAt(EncodeOf, Read, k, Byte)
      BY <1>1, EncodeOfType, EachAt, Zenon
    <2> QED
      BY <2>1 DEF StandsAt
  <1>4. s = Each(EncodeOf, Read) /\ s \in Seq(Byte)
    BY EncodeIsEach DEF IsCoded, Read
  <1>5. e \in Seq(Byte)
    BY <1>2, EncodeOfType
  <1>6. /\ c \in Special => e = <<Percent, HexChar(c \div 16), HexChar(c % 16)>>
        /\ c \notin Special => e = <<c>>
    BY <1>2 DEF EncodeOf
  <1>7. Pos(k) = Len(u) /\ Pos(k + 1) = Len(v)
    BY DEF Pos
  <1> HIDE DEF c, u, v, e
  <1>8. PICK r \in Seq(Byte) : s = v \o r
    BY <1>3, <1>4
  <1>9. v \in Seq(Byte) /\ Len(v) = Len(u) + Len(e) /\ Len(u) \in Nat /\ Len(e) \in Nat
    BY <1>3, <1>5
  <1>10. \A n \in 1..Len(e) : v[Len(u) + n] = e[n]
    BY <1>3, <1>5
  <1>11. Len(v) <= Len(s) /\ \A n \in 1..Len(v) : s[n] = v[n]
    BY <1>8, <1>9
  <1>12. \A n \in 1..Len(e) : s[Len(u) + n] = e[n] /\ Len(u) + n <= Len(s)
    BY <1>9, <1>10, <1>11
  <1>13. CASE c \notin Special
    <2>1. Len(e) = 1 /\ e[1] = c
      BY <1>6, <1>13
    <2>2. s[Len(u) + 1] = c /\ Len(u) + 1 <= Len(s)
      BY <1>12, <2>1
    <2>3. At(Len(u)) = c
      BY <1>9, <2>2, <1>4 DEF At
    <2> QED
      BY <1>1, <1>2, <1>7, <1>9, <1>11, <1>13, <2>1, <2>3, Zenon DEF c
  <1>14. CASE c \in Special
    <2>1. Len(e) = 3 /\ e[1] = Percent /\ e[2] = HexChar(c \div 16) /\ e[3] = HexChar(c % 16)
      BY <1>6, <1>14
    <2>2. /\ s[Len(u) + 1] = Percent /\ s[Len(u) + 2] = HexChar(c \div 16)
          /\ s[Len(u) + 3] = HexChar(c % 16) /\ Len(u) + 3 <= Len(s)
      BY <1>12, <2>1
    <2>3. /\ At(Len(u)) = Percent /\ At(Len(u) + 1) = HexChar(c \div 16)
          /\ At(Len(u) + 2) = HexChar(c % 16)
      BY <1>9, <2>2, <1>4 DEF At
    <2> QED
      BY <1>1, <1>2, <1>7, <1>9, <1>11, <1>14, <2>1, <2>3, Zenon DEF c
  <1> QED
    BY <1>13, <1>14

(* The last byte ends where s does.                                         *)
LEMMA PosEnds ==
    ASSUME IsCoded
    PROVE  /\ Pos(0) = 0 /\ Pos(Len(Read)) = Len(s)
           /\ Read \in Seq(Byte) /\ Len(Read) \in Nat /\ s \in Seq(Byte) /\ Len(s) \in Nat
  <1>1. Read \in Seq(Byte)
    BY ReadIsPrefix DEF Read, IsCoded
  <1>2. s = Each(EncodeOf, Read) /\ s \in Seq(Byte)
    BY EncodeIsEach DEF IsCoded, Read
  <1>3. EachUpto(EncodeOf, Read, 0) = <<>> /\ EachUpto(EncodeOf, Read, Len(Read)) = Each(EncodeOf, Read)
    BY <1>1, EncodeOfType, UptoEnds
  <1> QED
    BY <1>1, <1>2, <1>3 DEF Pos

(* A byte that is plain, and not the terminating 0, is one of the text.     *)
LEMMA PlainAhead ==
    ASSUME IsCoded, NEW k \in 0..Len(Read), NEW C, \A c \in C : IsPlain(c) /\ c # 0
    PROVE  /\ At(Pos(k)) \in C <=> k < Len(Read) /\ Read[k + 1] \in C
           /\ At(Pos(k)) \in C => At(Pos(k)) = Read[k + 1] /\ Pos(k + 1) = Pos(k) + 1
  <1>0. Len(Read) \in Nat /\ Len(s) \in Nat /\ Pos(Len(Read)) = Len(s) /\ k \in Nat
    BY PosEnds
  <1>1. CASE k = Len(Read)
    <2>1. At(Pos(k)) = 0
      BY <1>0, <1>1 DEF At
    <2> QED
      BY <1>0, <1>1, <2>1
  <1>2. CASE k < Len(Read) /\ Read[k + 1] \in Special
    <2>1. At(Pos(k)) = Percent
      BY <1>0, <1>2, ByteAt
    <2> QED
      BY <1>2, <2>1 DEF IsPlain
  <1>3. CASE k < Len(Read) /\ Read[k + 1] \notin Special
    BY <1>0, <1>3, ByteAt
  <1> QED
    BY <1>0, <1>1, <1>2, <1>3

(* Digits are plain.                                                        *)
LEMMA HexIsPlain ==
    ASSUME NEW c, IsHex(c)
    PROVE  IsPlain(c) /\ c # 0
  BY DEF IsHex, IsPlain, Special, Percent

(* A digit in s, where a byte of the text begins.                           *)
LEMMA DigitAhead ==
    ASSUME IsCoded, NEW k \in 0..Len(Read)
    PROVE  /\ IsHex(At(Pos(k))) <=> k < Len(Read) /\ IsHex(Read[k + 1])
           /\ IsHex(At(Pos(k))) => Pos(k + 1) = Pos(k) + 1
  <1> DEFINE C == (48..57) \cup (65..70) \cup (97..102)
  <1>1. \A c : IsHex(c) <=> c \in C
    BY DEF IsHex
  <1> HIDE DEF C
  <1>2. \A c \in C : IsPlain(c) /\ c # 0
    BY <1>1, HexIsPlain
  <1> QED
    BY <1>1, <1>2, PlainAhead

(* Two digits in s are two in the text, ...                                 *)
LEMMA TwoAhead ==
    ASSUME IsCoded, NEW k \in Nat, k <= Len(Read)
    PROVE  /\ IsHex(At(Pos(k))) /\ IsHex(At(Pos(k) + 1))
                  <=> k + 2 <= Len(Read) /\ IsHex(Read[k + 1]) /\ IsHex(Read[k + 2])
           /\ IsHex(At(Pos(k))) /\ IsHex(At(Pos(k) + 1)) => Pos(k + 2) = Pos(k) + 2
  <1>0. Len(Read) \in Nat /\ k \in 0..Len(Read)
    BY PosEnds
  <1>1. CASE ~IsHex(At(Pos(k)))
    BY <1>0, <1>1, DigitAhead
  <1>2. CASE IsHex(At(Pos(k)))
    <2>1. k < Len(Read) /\ IsHex(Read[k + 1]) /\ Pos(k + 1) = Pos(k) + 1
      BY <1>0, <1>2, DigitAhead
    <2>2. k + 1 \in 0..Len(Read) /\ (k + 1) + 1 = k + 2
      BY <1>0, <2>1
    <2>3. /\ IsHex(At(Pos(k + 1))) <=> k + 1 < Len(Read) /\ IsHex(Read[(k + 1) + 1])
          /\ IsHex(At(Pos(k + 1))) => Pos((k + 1) + 1) = Pos(k + 1) + 1
      BY <2>2, DigitAhead
    <2>4. Pos(k) \in Nat
      BY <1>0, <2>1, ByteAt
    <2> QED
      BY <1>0, <1>2, <2>1, <2>2, <2>3, <2>4
  <1> QED
    BY <1>1, <1>2

(* ... and four are four.                                                   *)
LEMMA FourAhead ==
    ASSUME IsCoded, NEW k \in Nat, k <= Len(Read), NEW p, p = Pos(k)
    PROVE  /\ IsHex(At(p)) /\ IsHex(At(p + 1)) /\ IsHex(At(p + 2)) /\ IsHex(At(p + 3))
                  <=> /\ k + 4 <= Len(Read)
                      /\ IsHex(Read[k + 1]) /\ IsHex(Read[k + 2])
                      /\ IsHex(Read[k + 3]) /\ IsHex(Read[k + 4])
           /\ IsHex(At(p)) /\ IsHex(At(p + 1)) /\ IsHex(At(p + 2)) /\ IsHex(At(p + 3))
                  => Pos(k + 4) = p + 4
  <1>0. Len(Read) \in Nat
    BY PosEnds
  <1>1. CASE ~(IsHex(At(p)) /\ IsHex(At(p + 1)))
    BY <1>0, <1>1, TwoAhead
  <1>2. CASE IsHex(At(p)) /\ IsHex(At(p + 1))
    <2>1. k + 2 <= Len(Read) /\ IsHex(Read[k + 1]) /\ IsHex(Read[k + 2]) /\ Pos(k + 2) = p + 2
      BY <1>2, TwoAhead
    <2>2. k + 2 \in Nat /\ (k + 2) + 1 = k + 3 /\ (k + 2) + 2 = k + 4 /\ k < Len(Read)
      BY <1>0, <2>1
    <2>3. p \in Nat
      BY <2>2, ByteAt
    <2>4. /\ IsHex(At(Pos(k + 2))) /\ IsHex(At(Pos(k + 2) + 1))
                  <=> (k + 2) + 2 <= Len(Read) /\ IsHex(Read[(k + 2) + 1]) /\ IsHex(Read[(k + 2) + 2])
          /\ IsHex(At(Pos(k + 2))) /\ IsHex(At(Pos(k + 2) + 1)) => Pos((k + 2) + 2) = Pos(k + 2) + 2
      BY <2>1, <2>2, TwoAhead
    <2>5. Pos(k + 2) + 1 = p + 3 /\ Pos(k + 2) + 2 = p + 4
      BY <2>1, <2>3
    <2> QED
      BY <1>2, <2>1, <2>2, <2>4, <2>5
  <1> QED
    BY <1>1, <1>2
-----------------------------------------------------------------------------
(* A bounded set of natural numbers has a greatest element.                 *)
LEMMA MaxIsIn ==
    ASSUME NEW n \in Nat, NEW S \in SUBSET (1..n), S # {}
    PROVE  Max(S) \in S /\ \A y \in S : y <= Max(S)
  <1> DEFINE D == {d \in 0..n : n - d \in S}
  <1>1. D \in SUBSET Nat /\ D # {}
    <2>1. PICK y \in S : TRUE
      OBVIOUS
    <2>2. n - y \in 0..n /\ n - (n - y) = y
      OBVIOUS
    <2>3. n - y \in D
      BY <2>2
    <2>4. \A d \in D : d \in Nat
      OBVIOUS
    <2> HIDE DEF D
    <2> QED
      BY <2>3, <2>4
  <1>2. Min(D) \in D /\ \A d \in D : Min(D) <= d
    BY <1>1, MinIsIn
  <1> DEFINE x == n - Min(D)
  <1>3. x \in S /\ Min(D) \in Nat
    BY <1>2
  <1>4. ASSUME NEW y \in S PROVE y <= x
    <2>1. n - y \in D
      <3>1. n - y \in 0..n /\ n - (n - y) = y
        OBVIOUS
      <3> QED
        BY <3>1
    <2> QED
      BY <1>2, <1>3, <2>1
  <1>5. \E z \in S : \A y \in S : z >= y
    BY <1>3, <1>4
  <1>6. Max(S) \in S /\ \A y \in S : Max(S) >= y
    BY <1>5 DEF Max
  <1> QED
    BY <1>6

(* The first byte and the last that is no blank, or 0.                      *)
FirstInk(t) == SelectInSeq(t, LAMBDA c : c \notin Blank)
LastInk(t) == SelectLastInSeq(t, LAMBDA c : c \notin Blank)

(* What find_first_not_of and find_last_not_of look for.                    *)
LEMMA InkAt ==
    ASSUME NEW t \in Seq(Byte)
    PROVE  /\ FirstInk(t) \in 0..Len(t) /\ LastInk(t) \in 0..Len(t)
           /\ FirstInk(t) # 0 => /\ t[FirstInk(t)] \notin Blank
                                 /\ \A k \in 1..FirstInk(t) - 1 : t[k] \in Blank
           /\ FirstInk(t) = 0 => \A k \in 1..Len(t) : t[k] \in Blank
           /\ LastInk(t) # 0 => t[LastInk(t)] \notin Blank
           /\ \A k \in LastInk(t) + 1..Len(t) : t[k] \in Blank
  <1> DEFINE I == {k \in 1..Len(t) : t[k] \notin Blank}
  <1>1. I \in SUBSET Nat /\ I \in SUBSET (1..Len(t)) /\ Len(t) \in Nat
    OBVIOUS
  <1>2. FirstInk(t) = IF I # {} THEN Min(I) ELSE 0
    BY DEF FirstInk, SelectInSeq
  <1>3. LastInk(t) = IF I # {} THEN Max(I) ELSE 0
    BY DEF LastInk, SelectLastInSeq
  <1>4. \A k \in 1..Len(t) : k \notin I => t[k] \in Blank
    OBVIOUS
  <1>5. \A k \in I : k \in 1..Len(t) /\ t[k] \notin Blank
    OBVIOUS
  <1> HIDE DEF I
  <1>6. CASE I = {}
    BY <1>1, <1>2, <1>3, <1>4, <1>6
  <1>7. CASE I # {}
    <2>1. Min(I) \in I /\ \A y \in I : Min(I) <= y
      BY <1>1, <1>7, MinIsIn
    <2>2. Max(I) \in I /\ \A y \in I : y <= Max(I)
      BY <1>1, <1>7, MaxIsIn
    <2> DEFINE a == Min(I)
               z == Max(I)
    <2>5. a \in I /\ (\A y \in I : a <= y) /\ z \in I /\ \A y \in I : y <= z
      BY <2>1, <2>2
    <2> HIDE DEF a, z
    <2>6. a \in 1..Len(t) /\ z \in 1..Len(t)
      BY <1>5, <2>5
    <2>7. \A k \in 1..a - 1 : k \in 1..Len(t) /\ ~(a <= k)
      BY <1>1, <2>6
    <2>8. \A k \in z + 1..Len(t) : k \in 1..Len(t) /\ ~(k <= z)
      BY <1>1, <2>6
    <2>3. \A k \in 1..Min(I) - 1 : k \in 1..Len(t) /\ k \notin I
      BY <2>5, <2>7 DEF a
    <2>4. \A k \in Max(I) + 1..Len(t) : k \in 1..Len(t) /\ k \notin I
      BY <2>5, <2>8 DEF z
    <2> QED
      BY <1>2, <1>3, <1>4, <1>5, <1>7, <2>1, <2>2, <2>3, <2>4
  <1> QED
    BY <1>6, <1>7

(* npos + 1 is 0 where a size_t wraps, and an index is itself.              *)
LEMMA Wraps ==
    ASSUME NEW n \in Nat, npos \in Nat, n <= npos
    PROVE  n % (npos + 1) = n /\ (npos + 1) % (npos + 1) = 0
  OBVIOUS

(* rtrim keeps all up to the last byte that is no blank, ...                *)
LEMMA RtrimIs ==
    ASSUME NEW t \in Seq(Byte), npos \in Nat, Len(t) < npos
    PROVE  rtrim(t, Blank) = SubSeq(t, 1, LastInk(t))
  <1>1. LastInk(t) \in 0..Len(t) /\ Len(t) \in Nat
    BY InkAt
  <1>2. FindLastNotOf(t, Blank) = IF LastInk(t) = 0 THEN npos ELSE LastInk(t) - 1
    BY Zenon DEF FindLastNotOf, LastInk
  <1>3. (FindLastNotOf(t, Blank) + 1) % (npos + 1) = LastInk(t)
    <2>1. CASE LastInk(t) = 0
      BY <1>2, <2>1, Wraps
    <2>2. CASE LastInk(t) # 0
      <3>1. LastInk(t) - 1 + 1 = LastInk(t) /\ LastInk(t) \in Nat /\ LastInk(t) <= npos
        BY <1>1
      <3> QED
        BY <1>2, <2>2, <3>1, Wraps
    <2> QED
      BY <2>1, <2>2
  <1> QED
    BY <1>3 DEF rtrim

(* ... and ltrim all from the first on.                                     *)
LEMMA LtrimIs ==
    ASSUME NEW t \in Seq(Byte), npos \in Nat, Len(t) < npos
    PROVE  ltrim(t, Blank) = IF FirstInk(t) = 0 THEN <<>> ELSE SubSeq(t, FirstInk(t), Len(t))
  <1>1. FirstInk(t) \in 0..Len(t) /\ Len(t) \in Nat
    BY InkAt
  <1>2. FindFirstNotOf(t, Blank) = IF FirstInk(t) = 0 THEN npos ELSE FirstInk(t) - 1
    BY Zenon DEF FindFirstNotOf, FirstInk
  <1>3. CASE FirstInk(t) = 0
    <2>1. ltrim(t, Blank) = SubSeq(t, 1 + Len(t), Len(t))
      BY <1>2, <1>3 DEF ltrim
    <2>2. SubSeq(t, 1 + Len(t), Len(t)) = <<>>
      BY <1>1
    <2> QED
      BY <1>3, <2>1, <2>2
  <1>4. CASE FirstInk(t) # 0
    <2>1. FirstInk(t) - 1 # npos /\ 1 + (FirstInk(t) - 1) = FirstInk(t)
      BY <1>1
    <2> QED
      BY <1>2, <1>4, <2>1 DEF ltrim
  <1> QED
    BY <1>3, <1>4

(* What is left lies in the text, with nothing but blanks around.           *)
IsInner(t, part, a) ==
    /\ part = SubSeq(t, a + 1, a + Len(part))
    /\ \A k \in 1..Len(t) : k \in a + 1..a + Len(part) \/ t[k] \in Blank

(* rtrim and trim of any text.                                              *)
LEMMA Trimmed ==
    ASSUME NEW t \in Seq(Byte), npos \in Nat, Len(t) < npos
    PROVE  /\ IsInner(t, rtrim(t, Blank), 0)
           /\ \E a \in 0..Len(t) : IsInner(t, trim(t, Blank), a)
           /\ trim(t, Blank) # <<>> =>
                 Head(trim(t, Blank)) \notin Blank /\ Last(trim(t, Blank)) \notin Blank
           /\ rtrim(t, Blank) # <<>> =>
                 Last(rtrim(t, Blank)) \notin Blank /\ Head(rtrim(t, Blank)) = Head(t)
  <1> DEFINE n == LastInk(t)
             right == rtrim(t, Blank)
             m == FirstInk(right)
             core == trim(t, Blank)
  <1>1. /\ n \in 0..Len(t) /\ Len(t) \in Nat
        /\ n # 0 => t[n] \notin Blank
        /\ \A k \in n + 1..Len(t) : t[k] \in Blank
    BY InkAt
  <1>2. right = SubSeq(t, 1, n)
    BY RtrimIs
  <1> HIDE DEF n, right
  <1>3. right \in Seq(Byte) /\ Len(right) = n /\ \A k \in 1..n : right[k] = t[k]
    BY <1>1, <1>2
  <1>4. IsInner(t, right, 0)
    <2>1. right = SubSeq(t, 0 + 1, 0 + Len(right))
      BY <1>2, <1>3
    <2>2. \A k \in 1..Len(t) : k \in 0 + 1..0 + n \/ k \in n + 1..Len(t)
      BY <1>1
    <2> QED
      BY <1>1, <1>3, <2>1, <2>2 DEF IsInner
  <1>5. right # <<>> => Last(right) \notin Blank /\ Head(right) = Head(t)
    <2> SUFFICES ASSUME right # <<>>
                 PROVE  Last(right) \notin Blank /\ Head(right) = Head(t)
      OBVIOUS
    <2>1. n > 0
      BY <1>1, <1>3
    <2>2. Last(right) = t[n] /\ Head(right) = t[1] /\ Head(t) = t[1]
      BY <1>1, <1>3, <2>1 DEF Last
    <2> QED
      BY <1>1, <2>1, <2>2
  <1>6. /\ m \in 0..n
        /\ m # 0 => right[m] \notin Blank /\ \A k \in 1..m - 1 : right[k] \in Blank
        /\ m = 0 => \A k \in 1..n : right[k] \in Blank
    BY <1>3, InkAt
  <1>7. core = IF m = 0 THEN <<>> ELSE SubSeq(right, m, n)
    <2>1. Len(right) < npos
      BY <1>1, <1>3
    <2>2. core = ltrim(right, Blank)
      BY DEF trim, right
    <2> QED
      BY <1>3, <2>1, <2>2, LtrimIs
  <1> HIDE DEF m, core
  <1>8. CASE m = 0
    <2>1. core = <<>> /\ Len(core) = 0
      BY <1>7, <1>8
    <2>2. n = 0
      BY <1>1, <1>3, <1>6, <1>8
    <2>3. core = SubSeq(t, 0 + 1, 0 + Len(core))
      BY <2>1
    <2>4. IsInner(t, core, 0)
      BY <1>1, <2>1, <2>2, <2>3 DEF IsInner
    <2>5. 0 \in 0..Len(t)
      BY <1>1
    <2> QED
      BY <1>4, <1>5, <2>1, <2>4, <2>5 DEF core, right
  <1>9. CASE m # 0
    <2>1. /\ core = SubSeq(right, m, n) /\ core \in Seq(Byte) /\ Len(core) = n - m + 1
          /\ \A k \in 1..n - m + 1 : core[k] = right[m - 1 + k]
      BY <1>1, <1>3, <1>6, <1>7, <1>9
    <2>2. \A k \in 1..n - m + 1 : m - 1 + k \in 1..n
      BY <1>1, <1>6, <1>9
    <2>3. core = SubSeq(t, m, n)
      <3> DEFINE u == SubSeq(t, m, n)
      <3>1. u \in Seq(Byte) /\ Len(u) = n - m + 1 /\ \A k \in 1..n - m + 1 : u[k] = t[m - 1 + k]
        BY <1>1, <1>6, <1>9
      <3> HIDE DEF u
      <3>2. \A k \in 1..Len(core) : core[k] = u[k]
        BY <1>3, <2>1, <2>2, <3>1, SMTT(30)
      <3>3. core = u
        BY <2>1, <3>1, <3>2, SeqEqual
      <3> QED
        BY <3>3 DEF u
    <2>4. core = SubSeq(t, (m - 1) + 1, (m - 1) + Len(core))
      <3>1. (m - 1) + 1 = m /\ (m - 1) + Len(core) = n
        BY <1>1, <1>6, <2>1
      <3> QED
        BY <2>3, <3>1
    <2>5. \A k \in 1..Len(t) : k \in (m - 1) + 1..(m - 1) + Len(core)
                                \/ k \in 1..m - 1 \/ k \in n + 1..Len(t)
      BY <1>1, <1>6, <1>9, <2>1
    <2>6. \A k \in 1..m - 1 : t[k] \in Blank
      <3>1. \A k \in 1..m - 1 : k \in 1..n
        BY <1>1, <1>6
      <3> QED
        BY <1>3, <1>6, <1>9, <3>1
    <2>7. IsInner(t, core, m - 1)
      BY <1>1, <2>4, <2>5, <2>6 DEF IsInner
    <2>8. m - 1 \in 0..Len(t)
      BY <1>1, <1>6, <1>9
    <2>9. Head(core) = t[m] /\ Last(core) = t[n] /\ n # 0 /\ t[m] \notin Blank
      <3>1. m \in 1..n /\ 1 \in 1..n - m + 1 /\ n - m + 1 \in 1..n - m + 1 /\ n # 0
            /\ m - 1 + 1 = m /\ m - 1 + (n - m + 1) = n
        BY <1>1, <1>6, <1>9
      <3>2. core[1] = t[m] /\ core[n - m + 1] = t[n]
        BY <1>3, <2>1, <2>2, <3>1
      <3>3. Head(core) = core[1] /\ Last(core) = core[n - m + 1]
        BY <2>1, <3>1 DEF Last
      <3> QED
        BY <1>3, <1>6, <1>9, <3>1, <3>2, <3>3
    <2> QED
      BY <1>1, <1>4, <1>5, <2>7, <2>8, <2>9 DEF core, right
  <1> QED
    BY <1>8, <1>9
-----------------------------------------------------------------------------
(* s is one escape %uXXXX and nothing else.                                 *)
OneEscape ==
    /\ Len(s) = 6 /\ At(0) = Percent /\ At(1) = LowerU
    /\ \A k \in 2..5 : IsHex(At(k))

Types ==
    /\ text \in Seq(Byte) /\ coded \in BOOLEAN /\ s \in Seq(Byte)
    /\ i \in Nat /\ i <= Len(s)
    /\ result \in Seq(Byte)
    /\ farthest \in Nat /\ farthest <= Len(s)

(* An escape is taken whole, in the first turn.                             *)
Taken == OneEscape =>
    \/ i = 0 /\ result = <<>>
    \/ i = 6 /\ result = Utf8(HexNumber(2, 4))


-----------------------------------------------------------------------------
(* A text that looks like an escape does so somewhere.                      *)
EscapeAt(t, p) ==
    /\ t[p] = Percent
    /\ \/ p + 2 <= Len(t) /\ \A k \in 1..2 : IsHex(t[p + k])
       \/ p + 5 <= Len(t) /\ t[p + 1] = LowerU /\ \A k \in 2..5 : IsHex(t[p + k])

(* What decode_url has made of the first k bytes of the text: those bytes,  *)
(* or fewer since there was an escape among them.                           *)
DecodedUpto(k) ==
    /\ i = Pos(k)
    /\ \/ result = SubSeq(Read, 1, k) /\ \A p \in 1..k : ~EscapeAt(Read, p)
       \/ Len(result) < k /\ LooksEscaped(Read)

Decoded == coded => IsCoded /\ \E k \in 0..Len(Read) : DecodedUpto(k)

(* The escapes written out.                                                 *)
LEMMA EscapeForms ==
    ASSUME NEW t, NEW k \in Nat
    PROVE  EscapeAt(t, k + 1) <=>
              /\ t[k + 1] = Percent
              /\ \/ k + 3 <= Len(t) /\ IsHex(t[k + 2]) /\ IsHex(t[k + 3])
                 \/ /\ k + 6 <= Len(t) /\ t[k + 2] = LowerU
                    /\ IsHex(t[k + 3]) /\ IsHex(t[k + 4]) /\ IsHex(t[k + 5]) /\ IsHex(t[k + 6])
  <1>1. /\ (k + 1) + 2 = k + 3 /\ (k + 1) + 5 = k + 6 /\ (k + 1) + 1 = k + 2
        /\ (k + 1) + 3 = k + 4 /\ (k + 1) + 4 = k + 5
    OBVIOUS
  <1>2. (\A m \in 1..2 : IsHex(t[(k + 1) + m])) <=> IsHex(t[(k + 1) + 1]) /\ IsHex(t[(k + 1) + 2])
    <2>1. 1..2 = {1, 2}
      OBVIOUS
    <2> QED
      BY <2>1
  <1>3. (\A m \in 2..5 : IsHex(t[(k + 1) + m])) <=>
            IsHex(t[(k + 1) + 2]) /\ IsHex(t[(k + 1) + 3]) /\ IsHex(t[(k + 1) + 4])
                                  /\ IsHex(t[(k + 1) + 5])
    <2>1. 2..5 = {2, 3, 4, 5}
      OBVIOUS
    <2> QED
      BY <2>1
  <1> QED
    BY <1>1, <1>2, <1>3 DEF EscapeAt

(* Escapes in s are escapes in the text.                                    *)
LEMMA EscapeAhead ==
    ASSUME IsCoded, NEW k \in Nat, k < Len(Read), Read[k + 1] = Percent, NEW p, p = Pos(k)
    PROVE  /\ Pos(k + 1) = p + 1 /\ At(p) = Percent
           /\ IsHex(At(p + 1)) /\ IsHex(At(p + 2)) =>
                EscapeAt(Read, k + 1) /\ k + 3 <= Len(Read) /\ Pos(k + 3) = p + 3
           /\ At(p + 1) = LowerU /\ IsHex(At(p + 2)) /\ IsHex(At(p + 3)) /\ IsHex(At(p + 4))
                                 /\ IsHex(At(p + 5)) =>
                EscapeAt(Read, k + 1) /\ k + 6 <= Len(Read) /\ Pos(k + 6) = p + 6
           /\ EscapeAt(Read, k + 1) =>
                \/ IsHex(At(p + 1)) /\ IsHex(At(p + 2))
                \/ At(p + 1) = LowerU /\ IsHex(At(p + 2)) /\ IsHex(At(p + 3)) /\ IsHex(At(p + 4))
                                      /\ IsHex(At(p + 5))
  <1>1. Len(Read) \in Nat /\ k + 1 \in Nat /\ k + 1 <= Len(Read) /\ k + 1 \in 0..Len(Read)
    BY PosEnds
  <1>2. Percent \notin Special
    BY DEF Special, Percent
  <1>3. Pos(k) \in Nat /\ Pos(k + 1) = p + 1 /\ At(p) = Percent
    BY <1>2, ByteAt
  <1>4. p + 1 + 1 = p + 2 /\ p + 1 + 2 = p + 3 /\ k + 1 + 2 = k + 3 /\ k + 1 + 1 = k + 2
    BY <1>3
  <1>5. /\ IsHex(At(p + 1)) /\ IsHex(At(p + 2))
                  <=> k + 3 <= Len(Read) /\ IsHex(Read[k + 2]) /\ IsHex(Read[k + 3])
        /\ IsHex(At(p + 1)) /\ IsHex(At(p + 2)) => Pos(k + 3) = p + 3
    BY <1>1, <1>3, <1>4, TwoAhead
  <1>6. /\ At(p + 1) = LowerU <=> k + 1 < Len(Read) /\ Read[k + 2] = LowerU
        /\ At(p + 1) = LowerU => Pos(k + 2) = p + 2
    <2>1. \A c \in {LowerU} : IsPlain(c) /\ c # 0
      BY DEF IsPlain, LowerU, Percent, Special
    <2>2. /\ At(Pos(k + 1)) \in {LowerU} <=> k + 1 < Len(Read) /\ Read[(k + 1) + 1] \in {LowerU}
          /\ At(Pos(k + 1)) \in {LowerU} => Pos((k + 1) + 1) = Pos(k + 1) + 1
      BY <1>1, <2>1, PlainAhead
    <2> QED
      BY <1>3, <1>4, <2>2
  <1>7. ASSUME At(p + 1) = LowerU
        PROVE  /\ IsHex(At(p + 2)) /\ IsHex(At(p + 3)) /\ IsHex(At(p + 4)) /\ IsHex(At(p + 5))
                    <=> /\ k + 6 <= Len(Read) /\ IsHex(Read[k + 3]) /\ IsHex(Read[k + 4])
                        /\ IsHex(Read[k + 5]) /\ IsHex(Read[k + 6])
               /\ IsHex(At(p + 2)) /\ IsHex(At(p + 3)) /\ IsHex(At(p + 4)) /\ IsHex(At(p + 5))
                    => Pos(k + 6) = p + 6
    <2>1. k + 2 \in Nat /\ k + 2 <= Len(Read) /\ p + 2 = Pos(k + 2)
      BY <1>1, <1>6, <1>7
    <2>2. /\ p + 2 + 1 = p + 3 /\ p + 2 + 2 = p + 4 /\ p + 2 + 3 = p + 5 /\ p + 2 + 4 = p + 6
          /\ k + 2 + 1 = k + 3 /\ k + 2 + 2 = k + 4 /\ k + 2 + 3 = k + 5 /\ k + 2 + 4 = k + 6
      BY <1>3
    <2>3. /\ IsHex(At(p + 2)) /\ IsHex(At(p + 2 + 1)) /\ IsHex(At(p + 2 + 2)) /\ IsHex(At(p + 2 + 3))
                  <=> /\ k + 2 + 4 <= Len(Read)
                      /\ IsHex(Read[k + 2 + 1]) /\ IsHex(Read[k + 2 + 2])
                      /\ IsHex(Read[k + 2 + 3]) /\ IsHex(Read[k + 2 + 4])
          /\ IsHex(At(p + 2)) /\ IsHex(At(p + 2 + 1)) /\ IsHex(At(p + 2 + 2)) /\ IsHex(At(p + 2 + 3))
                  => Pos(k + 2 + 4) = p + 2 + 4
      BY <2>1, FourAhead
    <2> QED
      BY <2>2, <2>3
  <1>8. EscapeAt(Read, k + 1) <=>
              \/ k + 3 <= Len(Read) /\ IsHex(Read[k + 2]) /\ IsHex(Read[k + 3])
              \/ /\ k + 6 <= Len(Read) /\ Read[k + 2] = LowerU
                 /\ IsHex(Read[k + 3]) /\ IsHex(Read[k + 4]) /\ IsHex(Read[k + 5]) /\ IsHex(Read[k + 6])
    BY EscapeForms
  <1>9. k + 6 <= Len(Read) => k + 1 < Len(Read)
    BY <1>1
  <1> QED
    BY <1>3, <1>5, <1>6, <1>7, <1>8, <1>9

(* One turn of the loop: the next byte of the text, or an escape and fewer  *)
(* bytes than it has.                                                       *)
TakesByte(k) ==
    /\ i' = Pos(k + 1) /\ result' = result \o <<Read[k + 1]>>
    /\ ~EscapeAt(Read, k + 1)

TakesEscape(k) ==
    /\ EscapeAt(Read, k + 1)
    /\ \E n \in {3, 6} : \E b \in Seq(Byte) :
          /\ k + n <= Len(Read) /\ i' = Pos(k + n)
          /\ Len(b) < n /\ result' = result \o b

(* from_hex_to_i at digits.                                                 *)
LEMMA FromHexDigits ==
    ASSUME s \in Seq(Byte), NEW k \in Nat
    PROVE  /\ FromHex(k, 2) <=> IsHex(At(k)) /\ IsHex(At(k + 1))
           /\ FromHex(k, 4) <=> /\ IsHex(At(k)) /\ IsHex(At(k + 1)) /\ IsHex(At(k + 2))
                                /\ IsHex(At(k + 3))
  <1>1. IsHex(At(k)) => k < Len(s)
    BY AtEnd
  <1>2. (\A n \in 0..2 - 1 : IsHex(At(k + n))) <=> IsHex(At(k)) /\ IsHex(At(k + 1))
    <2>1. 0..2 - 1 = {0, 1} /\ k + 0 = k
      OBVIOUS
    <2> QED
      BY <2>1
  <1>3. (\A n \in 0..4 - 1 : IsHex(At(k + n))) <=>
            IsHex(At(k)) /\ IsHex(At(k + 1)) /\ IsHex(At(k + 2)) /\ IsHex(At(k + 3))
    <2>1. 0..4 - 1 = {0, 1, 2, 3} /\ k + 0 = k
      OBVIOUS
    <2> QED
      BY <2>1
  <1> QED
    BY <1>1, <1>2, <1>3 DEF FromHex

(* A turn at a special byte takes its three characters.                     *)
LEMMA TurnAtSpecial ==
    ASSUME IsCoded, NEW k \in Nat, k < Len(Read), i = Pos(k), Next, Read[k + 1] \in Special
    PROVE  TakesByte(k)
  <1> DEFINE c == Read[k + 1]
  <1>0. s \in Seq(Byte) /\ Len(s) \in Nat
    BY PosEnds
  <1>1. /\ c \in Byte /\ i \in Nat /\ Pos(k + 1) = i + 3 /\ i + 3 <= Len(s)
        /\ At(i) = Percent /\ At(i + 1) = HexChar(c \div 16) /\ At(i + 2) = HexChar(c % 16)
    BY ByteAt
  <1> HIDE DEF c
  <1>2. /\ IsHex(At(i + 1)) /\ HexValue(At(i + 1)) = c \div 16 /\ At(i + 1) # LowerU
        /\ IsHex(At(i + 2)) /\ HexValue(At(i + 2)) = c % 16
    BY <1>1, ByteDigits, HexCharRight
  <1>3. Escape
    BY <1>0, <1>1 DEF Escape
  <1>4. TwoDigits
    BY <1>2, <1>3 DEF Next, Unicode, Single
  <1>5. i + 1 \in Nat /\ i + 1 + 1 = i + 2
    BY <1>1, SMTT(30)
  <1>6. FromHex(i + 1, 2)
    BY <1>0, <1>2, <1>5, FromHexDigits
  <1>7. HexNumber(i + 1, 2) = c
    <2>1. HexNumber(i + 1, 2) = 16 * HexValue(At(i + 1)) + HexValue(At(i + 2))
      BY <1>5 DEF HexNumber, HexByte
    <2> QED
      BY <1>1, <1>2, <2>1, ByteDigits
  <1>8. Take(3, <<c>>)
    BY <1>4, <1>6, <1>7 DEF TwoDigits
  <1>9. ~EscapeAt(Read, k + 1)
    <2>1. Percent \notin Special
      BY DEF Special, Percent
    <2>2. Read[k + 1] # Percent
      BY <2>1
    <2> QED
      BY <2>2 DEF EscapeAt
  <1> QED
    BY <1>1, <1>8, <1>9 DEF Take, TakesByte, c

(* A turn at a plain byte takes that.                                       *)
LEMMA TurnAtPlain ==
    ASSUME IsCoded, NEW k \in Nat, k < Len(Read), i = Pos(k), Next, IsPlain(Read[k + 1])
    PROVE  TakesByte(k)
  <1>1. At(i) = Read[k + 1] /\ Pos(k + 1) = i + 1
    BY ByteAt DEF IsPlain
  <1>2. ~Escape /\ At(i) # Plus
    BY <1>1 DEF Escape, IsPlain, Special, Plus
  <1>3. Take(1, <<Read[k + 1]>>)
    BY <1>1, <1>2 DEF Next, Unicode, TwoDigits, Single
  <1>4. ~EscapeAt(Read, k + 1)
    BY DEF EscapeAt, IsPlain
  <1> QED
    BY <1>1, <1>3, <1>4 DEF Take, TakesByte

(* What to_utf8 makes has at most four bytes.                               *)
LEMMA Utf8Short ==
    ASSUME NEW code
    PROVE  Len(Utf8(code)) < 6
  BY DEF Utf8

(* A turn at a "%" takes it alone, or with the escape it begins.            *)
LEMMA TurnAtPercent ==
    ASSUME Types, IsCoded, NEW k \in Nat, k < Len(Read), i = Pos(k), Next, Read[k + 1] = Percent
    PROVE  TakesByte(k) \/ TakesEscape(k)
  <1>0. s \in Seq(Byte) /\ Len(s) \in Nat /\ i \in Nat
    BY PosEnds DEF Types
  <1>1. /\ Pos(k + 1) = i + 1 /\ At(i) = Percent
        /\ IsHex(At(i + 1)) /\ IsHex(At(i + 2)) =>
             EscapeAt(Read, k + 1) /\ k + 3 <= Len(Read) /\ Pos(k + 3) = i + 3
        /\ At(i + 1) = LowerU /\ IsHex(At(i + 2)) /\ IsHex(At(i + 3)) /\ IsHex(At(i + 4))
                              /\ IsHex(At(i + 5)) =>
             EscapeAt(Read, k + 1) /\ k + 6 <= Len(Read) /\ Pos(k + 6) = i + 6
        /\ EscapeAt(Read, k + 1) =>
             \/ IsHex(At(i + 1)) /\ IsHex(At(i + 2))
             \/ At(i + 1) = LowerU /\ IsHex(At(i + 2)) /\ IsHex(At(i + 3)) /\ IsHex(At(i + 4))
                                   /\ IsHex(At(i + 5))
    BY EscapeAhead
  <1>2. /\ i + 1 \in Nat /\ i + 2 \in Nat /\ i + 1 + 1 = i + 2
        /\ i + 2 + 1 = i + 3 /\ i + 2 + 2 = i + 4 /\ i + 2 + 3 = i + 5
    BY <1>0, SMTT(30)
  <1>3. /\ FromHex(i + 1, 2) <=> IsHex(At(i + 1)) /\ IsHex(At(i + 2))
        /\ FromHex(i + 2, 4) <=> /\ IsHex(At(i + 2)) /\ IsHex(At(i + 3)) /\ IsHex(At(i + 4))
                                 /\ IsHex(At(i + 5))
    BY <1>0, <1>2, FromHexDigits
  <1>4. ~IsHex(LowerU)
    BY DEF IsHex, LowerU
  <1>5. CASE Unicode
    <2>1. At(i + 1) = LowerU
      BY <1>5 DEF Unicode
    <2>2. CASE FromHex(i + 2, 4)
      <3>1. Take(6, Utf8(HexNumber(i + 2, 4)))
        BY <1>5, <2>2 DEF Unicode, UnicodeWidth
      <3>2. Utf8(HexNumber(i + 2, 4)) \in Seq(Byte) /\ Len(Utf8(HexNumber(i + 2, 4))) < 6
        <4>1. HexNumber(i + 2, 4) \in Nat /\ HexNumber(i + 2, 4) < 65536
          <5> DEFINE m == i + 2
          <5>1. s \in Seq(Byte) /\ m \in Nat /\ FromHex(m, 4)
            BY <1>0, <1>2, <2>2
          <5> HIDE DEF m
          <5>2. HexNumber(m, 4) \in Nat /\ HexNumber(m, 4) < 65536
            BY <5>1, FromHexFour
          <5> QED
            BY <5>2 DEF m
        <4> QED
          BY <4>1, Utf8Right, Utf8Short
      <3>3. EscapeAt(Read, k + 1) /\ k + 6 <= Len(Read) /\ Pos(k + 6) = i + 6
        BY <1>1, <1>3, <2>1, <2>2
      <3> QED
        BY <3>1, <3>2, <3>3 DEF Take, TakesEscape
    <2>3. CASE ~FromHex(i + 2, 4)
      <3>1. Take(1, <<Percent>>)
        BY <1>5, <2>3 DEF Unicode
      <3>2. ~EscapeAt(Read, k + 1)
        BY <1>1, <1>3, <1>4, <2>1, <2>3
      <3> QED
        BY <1>1, <3>1, <3>2 DEF Take, TakesByte
    <2> QED
      BY <2>2, <2>3
  <1>6. CASE TwoDigits
    <2>1. At(i + 1) # LowerU
      BY <1>6 DEF TwoDigits
    <2>2. CASE FromHex(i + 1, 2)
      <3>1. Take(3, <<HexNumber(i + 1, 2)>>)
        BY <1>6, <2>2 DEF TwoDigits
      <3>2. <<HexNumber(i + 1, 2)>> \in Seq(Byte) /\ Len(<<HexNumber(i + 1, 2)>>) < 3
        BY <1>0, <1>2, <2>2, FromHexTwo, SMTT(30)
      <3>3. EscapeAt(Read, k + 1) /\ k + 3 <= Len(Read) /\ Pos(k + 3) = i + 3
        BY <1>1, <1>3, <2>2
      <3> QED
        BY <3>1, <3>2, <3>3 DEF Take, TakesEscape
    <2>3. CASE ~FromHex(i + 1, 2)
      <3>1. Take(1, <<Percent>>)
        BY <1>6, <2>3 DEF TwoDigits
      <3>2. ~EscapeAt(Read, k + 1)
        BY <1>1, <1>3, <2>1, <2>3
      <3> QED
        BY <1>1, <3>1, <3>2 DEF Take, TakesByte
    <2> QED
      BY <2>2, <2>3
  <1>7. CASE Single
    <2>1. Take(1, <<Percent>>)
      BY <1>1, <1>7 DEF Single, Plus, Percent
    <2>2. ~(i + 1 < Len(s))
      BY <1>1, <1>7 DEF Single, Escape
    <2>3. At(i + 1) = 0 /\ ~IsHex(0) /\ 0 # LowerU
      BY <2>2 DEF At, IsHex, LowerU
    <2>4. ~EscapeAt(Read, k + 1)
      BY <1>1, <2>3
    <2> QED
      BY <1>1, <2>1, <2>4 DEF Take, TakesByte
  <1> QED
    BY <1>5, <1>6, <1>7 DEF Next

(* A turn of the loop decodes one byte of the text more, or an escape.      *)
LEMMA TurnDecodes ==
    ASSUME Types, IsCoded, NEW k \in Nat, k < Len(Read), i = Pos(k), Next
    PROVE  TakesByte(k) \/ TakesEscape(k)
  <1>1. CASE Read[k + 1] \in Special
    BY <1>1, TurnAtSpecial
  <1>2. CASE Read[k + 1] = Percent
    BY <1>2, TurnAtPercent
  <1>3. CASE Read[k + 1] \notin Special /\ Read[k + 1] # Percent
    BY <1>3, TurnAtPlain DEF IsPlain
  <1> QED
    BY <1>1, <1>2, <1>3

(* It keeps what is said of the bytes decoded.                              *)
LEMMA NextDecoded ==
    ASSUME Types, Decoded, Next
    PROVE  Decoded'
  <1>1. UNCHANGED <<text, coded, s>>
    BY DEF Next, Unicode, TwoDigits, Single, Take
  <1> SUFFICES ASSUME coded
               PROVE  IsCoded' /\ \E k \in 0..Len(Read)' : DecodedUpto(k)'
    BY <1>1 DEF Decoded
  <1>2. IsCoded /\ IsCoded' /\ UNCHANGED Read
    BY <1>1 DEF Decoded, IsCoded, Read
  <1>3. \A k : Pos(k)' = Pos(k)
    BY <1>2 DEF Pos
  <1>4. PICK k \in 0..Len(Read) : DecodedUpto(k)
    BY DEF Decoded
  <1>5. /\ Read \in Seq(Byte) /\ Len(Read) \in Nat /\ Pos(Len(Read)) = Len(s) /\ k \in Nat
        /\ i = Pos(k) /\ result \in Seq(Byte)
    BY <1>2, <1>4, PosEnds DEF DecodedUpto, Types
  <1>6. k < Len(Read)
    <2>1. i < Len(s)
      BY DEF Next, Unicode, TwoDigits, Single, Escape
    <2> QED
      BY <1>4, <1>5, <2>1
  <1>7. SubSeq(Read, 1, k + 1) = SubSeq(Read, 1, k) \o <<Read[k + 1]>>
    <2>1. Splits(Read, k, Byte)
      BY <1>5, <1>6, SplitAt, Zenon
    <2> QED
      BY <2>1, Zenon DEF Splits
  <1>8. LooksEscaped(Read) <=> \E p \in DOMAIN Read : EscapeAt(Read, p)
    BY DEF LooksEscaped, EscapeAt
  <1>9. Read[k + 1] \in Byte
    BY <1>5, <1>6
  <1>10. CASE TakesByte(k)
    <2>1. i' = Pos(k + 1) /\ result' = result \o <<Read[k + 1]>> /\ ~EscapeAt(Read, k + 1)
      BY <1>10 DEF TakesByte
    <2>2. k + 1 \in 0..Len(Read)
      BY <1>5, <1>6
    <2>3. CASE result = SubSeq(Read, 1, k) /\ \A p \in 1..k : ~EscapeAt(Read, p)
      <3>1. \A p \in 1..k + 1 : p \in 1..k \/ p = k + 1
        BY <1>5
      <3>2. result' = SubSeq(Read, 1, k + 1) /\ \A p \in 1..k + 1 : ~EscapeAt(Read, p)
        BY <1>7, <2>1, <2>3, <3>1
      <3> QED
        BY <1>2, <1>3, <2>1, <2>2, <3>2 DEF DecodedUpto
    <2>4. CASE Len(result) < k /\ LooksEscaped(Read)
      <3>1. Len(result') < k + 1
        BY <1>5, <1>9, <2>1, <2>4
      <3> QED
        BY <1>2, <1>3, <2>1, <2>2, <2>4, <3>1 DEF DecodedUpto
    <2> QED
      BY <1>4, <2>3, <2>4 DEF DecodedUpto
  <1>11. CASE TakesEscape(k)
    <2>1. PICK n \in {3, 6}, b \in Seq(Byte) :
             /\ k + n <= Len(Read) /\ i' = Pos(k + n)
             /\ Len(b) < n /\ result' = result \o b
      BY <1>11 DEF TakesEscape
    <2>2. LooksEscaped(Read)
      BY <1>5, <1>6, <1>8, <1>11 DEF TakesEscape
    <2>3. Len(result) <= k
      BY <1>4, <1>5, <1>6 DEF DecodedUpto
    <2>4. Len(result') < k + n /\ k + n \in 0..Len(Read)
      BY <1>5, <2>1, <2>3
    <2> QED
      BY <1>2, <1>3, <2>1, <2>2, <2>4 DEF DecodedUpto
  <1> QED
    BY <1>2, <1>5, <1>6, <1>10, <1>11, TurnDecodes

(* The end of s is reached with the end of the text.                        *)
LEMMA DecodedEnd ==
    ASSUME Types, Decoded, coded, i = Len(s)
    PROVE  DecodedUpto(Len(Read))
  <1>1. IsCoded
    BY DEF Decoded
  <1>2. Pos(Len(Read)) = Len(s) /\ Len(Read) \in Nat
    BY <1>1, PosEnds
  <1>3. PICK k \in 0..Len(Read) : DecodedUpto(k)
    BY DEF Decoded
  <1>4. CASE k < Len(Read)
    <2>1. k \in Nat
      BY <1>2
    <2>2. /\ Pos(k) \in Nat /\ Pos(k + 1) \in Nat
          /\ Pos(k) < Pos(k + 1) /\ Pos(k + 1) <= Len(s)
      BY <1>1, <1>4, <2>1, ByteAt
    <2>3. Pos(k) = Len(s)
      BY <1>3 DEF DecodedUpto
    <2> QED
      BY <2>2, <2>3
  <1>5. CASE ~(k < Len(Read))
    <2>1. k = Len(Read)
      BY <1>2, <1>5
    <2> QED
      BY <1>3, <2>1, Zenon
  <1> QED
    BY <1>4, <1>5

(* What is said of the bytes decoded gives the round trip.                  *)
LEMMA RoundTripEnd ==
    ASSUME Types, Decoded
    PROVE  RoundTrip
  <1> SUFFICES ASSUME coded, i = Len(s)
               PROVE  result = text <=> ~Contains(text, 0) /\ ~LooksEscaped(text)
    BY DEF RoundTrip
  <1>1. text \in Seq(Byte) /\ IsCoded /\ result \in Seq(Byte)
    BY DEF Types, Decoded
  <1>2. /\ Read \in Seq(Byte) /\ Len(Read) <= Len(text)
        /\ \A k \in 1..Len(Read) : Read[k] = text[k]
        /\ ~Contains(text, 0) => Read = text
        /\ Contains(text, 0) => Len(Read) < Len(text)
    BY <1>1, ReadIsPrefix DEF Read
  <1>3. \A t \in Seq(Byte) : LooksEscaped(t) <=> \E p \in 1..Len(t) : EscapeAt(t, p)
    <2> SUFFICES ASSUME NEW t \in Seq(Byte)
                 PROVE  LooksEscaped(t) <=> \E p \in 1..Len(t) : EscapeAt(t, p)
      OBVIOUS
    <2>1. DOMAIN t = 1..Len(t)
      OBVIOUS
    <2> QED
      BY <2>1, Zenon DEF LooksEscaped, EscapeAt
  <1>4. \/ result = SubSeq(Read, 1, Len(Read)) /\ \A p \in 1..Len(Read) : ~EscapeAt(Read, p)
        \/ Len(result) < Len(Read) /\ LooksEscaped(Read)
    BY DecodedEnd DEF DecodedUpto
  <1>5. SubSeq(Read, 1, Len(Read)) = Read
    BY <1>2, SubSeqFull
  <1>6. CASE ~Contains(text, 0)
    BY <1>1, <1>2, <1>3, <1>4, <1>5, <1>6
  <1>7. CASE Contains(text, 0)
    BY <1>1, <1>2, <1>4, <1>5, <1>7
  <1> QED
    BY <1>6, <1>7

(* The inductive invariant.                                                 *)
IInv == Types /\ Taken /\ Decoded /\ text \in Text

(* Nothing is decoded yet.                                                  *)
LEMMA InitInv == Init => IInv
  <1> SUFFICES ASSUME Init PROVE IInv
    OBVIOUS
  <1>1. /\ text \in Seq(Byte) /\ coded \in BOOLEAN /\ i = 0 /\ result = <<>> /\ farthest = 0
        /\ s = IF coded THEN Encode(text) ELSE text
    BY TextAssumption DEF Init, Byte
  <1>2. Encode(text) \in Seq(Byte) /\ <<>> \in Seq(Byte)
    BY <1>1, EncodeIsEach
  <1>3. s \in Seq(Byte)
    BY <1>1, <1>2
  <1>4. Types /\ Taken
    BY <1>1, <1>2, <1>3 DEF Types, Taken
  <1>5. ASSUME coded PROVE IsCoded /\ \E k \in 0..Len(Read) : DecodedUpto(k)
    <2>1. IsCoded
      BY <1>1, <1>5 DEF IsCoded
    <2>2. Pos(0) = 0 /\ Read \in Seq(Byte) /\ 0 \in 0..Len(Read)
      BY <2>1, PosEnds
    <2>3. result = SubSeq(Read, 1, 0) /\ \A p \in 1..0 : ~EscapeAt(Read, p)
      BY <1>1, <2>2
    <2> QED
      BY <1>1, <2>1, <2>2, <2>3 DEF DecodedUpto
  <1> QED
    BY <1>4, <1>5 DEF IInv, Decoded, Init

(* One turn of the loop that takes width bytes and appends some.            *)
LEMMA TakeInv ==
    ASSUME Types, NEW width \in Nat, NEW bytes \in Seq(Byte), NEW k \in Nat,
           Take(width, bytes), Reads(k), k <= Len(s), i + width <= Len(s)
    PROVE  Types'
  <1>1. i' = i + width /\ result' = result \o bytes /\ UNCHANGED <<text, coded, s>>
    BY DEF Take
  <1>2. farthest' = k \/ farthest' = farthest
    BY DEF Reads
  <1>3. result' \in Seq(Byte)
    BY <1>1 DEF Types
  <1> QED
    BY <1>1, <1>2, <1>3 DEF Types

(* Every step keeps the types.                                              *)
LEMMA NextTypes ==
    ASSUME Types, Next
    PROVE  Types'
  <1> USE DEF Types
  <1>0. Percent \in Byte /\ Space \in Byte /\ <<Percent>> \in Seq(Byte)
    BY DEF Byte, Percent, Space
  <1>1. CASE Unicode
    <2> DEFINE k == IF i + 2 < Len(s) THEN LastRead(i + 2, 4) ELSE i + 1
    <2>1. i + 1 < Len(s) /\ i + 2 \in Nat
      BY <1>1 DEF Unicode, Escape
    <2>2. k \in Nat /\ k <= Len(s)
      <3>1. CASE i + 2 < Len(s)
        BY <2>1, <3>1, LastReadInside
      <3>2. CASE ~(i + 2 < Len(s))
        BY <2>1, <3>2
      <3> QED
        BY <3>1, <3>2
    <2>3. Reads(k)
      BY <1>1, Zenon DEF Unicode
    <2> HIDE DEF k
    <2>4. CASE FromHex(i + 2, 4)
      <3>1. Take(6, Utf8(HexNumber(i + 2, 4)))
        BY <1>1, <2>4 DEF Unicode, UnicodeWidth
      <3>2. Utf8(HexNumber(i + 2, 4)) \in Seq(Byte) /\ (i + 2) + 3 < Len(s)
        BY <2>1, <2>4, FromHexFour, Utf8Right
      <3>3. i + 6 <= Len(s)
        BY <3>2
      <3> QED
        BY <2>2, <2>3, <3>1, <3>2, <3>3, TakeInv
    <2>5. CASE ~FromHex(i + 2, 4)
      <3>1. Take(1, <<Percent>>)
        BY <1>1, <2>5 DEF Unicode
      <3>2. i + 1 <= Len(s) /\ 1 \in Nat
        BY <2>1
      <3> QED
        BY <1>0, <2>2, <2>3, <3>1, <3>2, TakeInv
    <2> QED
      BY <2>4, <2>5
  <1>2. CASE TwoDigits
    <2> DEFINE k == LastRead(i + 1, 2)
    <2>1. i + 1 < Len(s) /\ i + 1 \in Nat
      BY <1>2 DEF TwoDigits, Escape
    <2>2. k \in Nat /\ k <= Len(s)
      BY <2>1, LastReadInside
    <2>3. Reads(k)
      BY <1>2, Zenon DEF TwoDigits
    <2> HIDE DEF k
    <2>4. CASE FromHex(i + 1, 2)
      <3>1. Take(3, <<HexNumber(i + 1, 2)>>)
        BY <1>2, <2>4 DEF TwoDigits
      <3>2. HexNumber(i + 1, 2) \in Byte /\ (i + 1) + 1 < Len(s)
        BY <2>1, <2>4, FromHexTwo
      <3>3. i + 3 <= Len(s) /\ <<HexNumber(i + 1, 2)>> \in Seq(Byte)
        BY <3>2
      <3> QED
        BY <2>2, <2>3, <3>1, <3>3, TakeInv
    <2>5. CASE ~FromHex(i + 1, 2)
      <3>1. Take(1, <<Percent>>)
        BY <1>2, <2>5 DEF TwoDigits
      <3>2. i + 1 <= Len(s) /\ 1 \in Nat
        BY <2>1
      <3> QED
        BY <1>0, <2>2, <2>3, <3>1, <3>2, TakeInv
    <2> QED
      BY <2>4, <2>5
  <1>3. CASE Single
    <2> DEFINE b == IF At(i) = Plus THEN Space ELSE At(i)
    <2>1. i < Len(s) /\ Reads(i) /\ Take(1, <<b>>)
      BY <1>3, Zenon DEF Single
    <2>2. b \in Byte
      BY <1>0, AtEnd
    <2> HIDE DEF b
    <2>3. <<b>> \in Seq(Byte) /\ i + 1 <= Len(s) /\ i <= Len(s)
      BY <2>1, <2>2
    <2> QED
      BY <2>1, <2>3, TakeInv
  <1> QED
    BY <1>1, <1>2, <1>3 DEF Next

(* The first turn takes the escape, and there is no second.                 *)
LEMMA NextTaken ==
    ASSUME Types, Taken, Next
    PROVE  Taken'
  <1>1. UNCHANGED s
    BY DEF Next, Unicode, TwoDigits, Single, Take
  <1>2. OneEscape' <=> OneEscape
    BY <1>1 DEF OneEscape, At
  <1> SUFFICES ASSUME OneEscape
               PROVE  i' = 6 /\ result' = Utf8(HexNumber(2, 4))'
    BY <1>2 DEF Taken
  <1>3. Len(s) = 6 /\ At(0) = Percent /\ At(1) = LowerU
    BY DEF OneEscape
  <1>4. i = 0 /\ result = <<>>
    <2>1. i < Len(s)
      BY <1>3 DEF Next, Unicode, TwoDigits, Single, Escape
    <2> QED
      BY <1>3, <2>1 DEF Taken
  <1>5. Escape
    BY <1>3, <1>4 DEF Escape
  <1>6. Unicode
    <2>1. ~TwoDigits
      BY <1>3, <1>4 DEF TwoDigits
    <2>2. ~Single
      BY <1>5 DEF Single
    <2> QED
      BY <2>1, <2>2 DEF Next
  <1>7. FromHex(2, 4)
    <2>1. 2 < Len(s)
      BY <1>3
    <2>2. IsHex(At(2)) /\ IsHex(At(3)) /\ IsHex(At(4)) /\ IsHex(At(5))
      BY DEF OneEscape
    <2>3. \A n \in 0..4 - 1 : IsHex(At(2 + n))
      BY <2>2
    <2> QED
      BY <2>1, <2>3 DEF FromHex
  <1>8. Take(6, Utf8(HexNumber(2, 4)))
    <2>1. i + 2 = 2
      BY <1>4
    <2> QED
      BY <1>6, <1>7, <2>1 DEF Unicode, UnicodeWidth
  <1>9. i' = i + 6 /\ result' = result \o Utf8(HexNumber(2, 4))
    BY <1>8 DEF Take
  <1>10. Utf8(HexNumber(2, 4)) \in Seq(Byte)
    BY <1>7, FromHexFour, Utf8Right DEF Types
  <1>11. <<>> \o Utf8(HexNumber(2, 4)) = Utf8(HexNumber(2, 4))
    BY <1>10
  <1>12. HexNumber(2, 4)' = HexNumber(2, 4)
    BY <1>1 DEF HexNumber, HexByte, At
  <1>13. Utf8(HexNumber(2, 4))' = Utf8(HexNumber(2, 4))
    BY <1>12
  <1> QED
    BY <1>4, <1>9, <1>11, <1>13

(* Every step keeps the invariant.                                          *)
LEMMA NextInv == IInv /\ [Next]_vars => IInv'
  <1> SUFFICES ASSUME IInv, [Next]_vars PROVE IInv'
    OBVIOUS
  <1>1. CASE Next
    <2>1. UNCHANGED text
      BY <1>1 DEF Next, Unicode, TwoDigits, Single, Take
    <2> QED
      BY <1>1, <2>1, NextTypes, NextTaken, NextDecoded DEF IInv
  <1>2. CASE UNCHANGED vars
    <2>1. Types'
      BY <1>2 DEF IInv, Types, vars
    <2>2. Taken'
      BY <1>2 DEF IInv, Taken, OneEscape, At, HexNumber, HexByte, vars
    <2>3. Decoded'
      BY <1>2 DEF IInv, Decoded, IsCoded, DecodedUpto, Pos, Read, vars
    <2> QED
      BY <1>2, <2>1, <2>2, <2>3 DEF IInv, vars
  <1> QED
    BY <1>1, <1>2

(* decode_url of any string, encoded or not, reads no byte behind its       *)
(* terminating 0 and makes a string of bytes, also where from_hex_to_i      *)
(* starts at the last character.                                            *)
THEOREM TypeCorrect == Spec => []TypeOK
  <1>1. IInv => TypeOK
    BY DEF IInv, Types, TypeOK, Byte
  <1> QED
    BY InitInv, NextInv, <1>1, PTL DEF Spec

(* Decoding what encode_url made of a text gives the text back, if and only *)
(* if the text has no 0 and nothing in it looks like an escape.             *)
THEOREM RoundTripHolds == Spec => []RoundTrip
  <1>1. IInv => RoundTrip
    BY RoundTripEnd DEF IInv
  <1> QED
    BY InitInv, NextInv, <1>1, PTL DEF Spec

(* trim leaves what is between the blanks at both ends, and rtrim all but   *)
(* those at the end, of a text of any length that is shorter than npos.     *)
THEOREM TrimsBlanksHolds == Spec => []TrimsBlanks
  <1>1. IInv => TrimsBlanks
    <2> SUFFICES ASSUME IInv PROVE TrimsBlanks
      OBVIOUS
    <2>1. text \in Seq(Byte) /\ npos \in Nat /\ Len(text) < npos /\ Len(text) \in Nat
      BY TextAssumption DEF IInv, Byte
    <2> DEFINE core == trim(text, Blank)
               right == rtrim(text, Blank)
               Inner(t) == \E a \in 0..Len(text) :
                               /\ t = SubSeq(text, a + 1, a + Len(t))
                               /\ \A k \in DOMAIN text : k \in a + 1..a + Len(t) \/ text[k] \in Blank
    <2>2. /\ IsInner(text, right, 0)
          /\ \E a \in 0..Len(text) : IsInner(text, core, a)
          /\ core # <<>> => Head(core) \notin Blank /\ Last(core) \notin Blank
          /\ right # <<>> => Last(right) \notin Blank /\ Head(right) = Head(text)
      BY <2>1, Trimmed
    <2>3. TrimsBlanks <=>
             /\ core # <<>> => Head(core) \notin Blank /\ Last(core) \notin Blank
             /\ right # <<>> => Last(right) \notin Blank /\ Head(right) = Head(text)
             /\ Inner(core) /\ Inner(right)
      BY Zenon DEF TrimsBlanks
    <2>4. DOMAIN text = 1..Len(text) /\ 0 \in 0..Len(text)
      BY <2>1
    <2> HIDE DEF core, right
    <2>5. \A t : (\E a \in 0..Len(text) : IsInner(text, t, a)) => Inner(t)
      BY <2>4, Zenon DEF IsInner
    <2> HIDE DEF Inner
    <2> QED
      BY <2>2, <2>3, <2>4, <2>5
  <1> QED
    BY InitInv, NextInv, <1>1, PTL DEF Spec

(* Every escape %uXXXX becomes the shortest bytes of its code point, half a *)
(* surrogate pair nothing.                                                  *)
THEOREM UnicodeEscapesHolds == Spec => []UnicodeEscapes
  <1>1. IInv => UnicodeEscapes
    <2> SUFFICES ASSUME IInv, ~coded, i = Len(s), Len(s) = 6, At(0) = Percent,
                        At(1) = LowerU, \A k \in 2..5 : IsHex(At(k))
                 PROVE  IF HexNumber(2, 4) \in Surrogate
                          THEN result = <<>>
                          ELSE WellFormed(result) /\ CodePoint(result) = HexNumber(2, 4)
      BY DEF UnicodeEscapes
    <2>1. Types /\ Taken
      BY DEF IInv
    <2>2. result = Utf8(HexNumber(2, 4))
      BY <2>1 DEF Taken, OneEscape
    <2>3. FromHex(2, 4)
      <3>1. IsHex(At(2)) /\ IsHex(At(3)) /\ IsHex(At(4)) /\ IsHex(At(5))
        OBVIOUS
      <3>2. \A n \in 0..4 - 1 : IsHex(At(2 + n))
        BY <3>1
      <3> QED
        BY <3>2 DEF FromHex
    <2>4. HexNumber(2, 4) \in Nat /\ HexNumber(2, 4) < 65536
      BY <2>1, <2>3, FromHexFour DEF Types
    <2>5. /\ HexNumber(2, 4) \in Surrogate => Utf8(HexNumber(2, 4)) = <<>>
          /\ HexNumber(2, 4) \notin Surrogate =>
                /\ WellFormed(Utf8(HexNumber(2, 4)))
                /\ CodePoint(Utf8(HexNumber(2, 4))) = HexNumber(2, 4)
      BY <2>4, Utf8Right
    <2> QED
      BY <2>2, <2>5
  <1> QED
    BY InitInv, NextInv, <1>1, PTL DEF Spec
-----------------------------------------------------------------------------
(* A sequence cut at the first c in it.                                     *)
LEMMA ContainsConcat ==
    ASSUME NEW S, NEW a \in Seq(S), NEW b \in Seq(S), NEW c
    PROVE  Contains(a \o b, c) <=> Contains(a, c) \/ Contains(b, c)
  <1>1. /\ Len(a \o b) = Len(a) + Len(b) /\ Len(a) \in Nat /\ Len(b) \in Nat
        /\ \A n \in 1..Len(a) : (a \o b)[n] = a[n]
        /\ \A n \in 1..Len(b) : (a \o b)[Len(a) + n] = b[n]
    OBVIOUS
  <1>2. ASSUME Contains(a \o b, c) PROVE Contains(a, c) \/ Contains(b, c)
    <2>1. PICK n \in 1..Len(a) + Len(b) : (a \o b)[n] = c
      BY <1>1, <1>2 DEF Contains
    <2>2. CASE n \in 1..Len(a)
      BY <1>1, <2>1, <2>2 DEF Contains
    <2>3. CASE n \notin 1..Len(a)
      <3>1. n - Len(a) \in 1..Len(b) /\ Len(a) + (n - Len(a)) = n
        BY <1>1, <2>3
      <3> QED
        BY <1>1, <2>1, <3>1 DEF Contains
    <2> QED
      BY <2>2, <2>3
  <1>3. ASSUME Contains(a, c) PROVE Contains(a \o b, c)
    BY <1>1, <1>3 DEF Contains
  <1>4. ASSUME Contains(b, c) PROVE Contains(a \o b, c)
    <2>1. PICK n \in 1..Len(b) : b[n] = c
      BY <1>4 DEF Contains
    <2>2. Len(a) + n \in 1..Len(a \o b) /\ (a \o b)[Len(a) + n] = c
      BY <1>1, <2>1
    <2> QED
      BY <2>2 DEF Contains
  <1> QED
    BY <1>2, <1>3, <1>4

(* Putting one sequence behind another.                                     *)
Joins(a, b, S) ==
    /\ a \o b \in Seq(S)
    /\ Len(a \o b) = Len(a) + Len(b)
    /\ \A n \in 1..Len(a) : (a \o b)[n] = a[n]
    /\ \A n \in 1..Len(b) : (a \o b)[Len(a) + n] = b[n]
    /\ Len(b) > 0 => (a \o b)[Len(a) + 1] = b[1]

(* The elements of both are where they should be.                           *)
LEMMA Joined ==
    ASSUME NEW S, NEW a \in Seq(S), NEW b \in Seq(S)
    PROVE  Joins(a, b, S)
  BY DEF Joins

(* The first c, what is before it and what is behind it.                    *)
LEMMA CutAtFirst ==
    ASSUME NEW S, NEW t \in Seq(S), NEW c, Contains(t, c)
    PROVE  \E x, y \in Seq(S) : t = (x \o <<c>>) \o y /\ ~Contains(x, c) /\ c \in S
  <1> DEFINE k == FirstAt(t, c) - 1
  <1>1. /\ FirstAt(t, c) \in 1..Len(t) /\ t[FirstAt(t, c)] = c
        /\ \A n \in 1..FirstAt(t, c) - 1 : t[n] # c
    BY FirstIsAt
  <1>2. k \in Nat /\ k < Len(t) /\ k + 1 = FirstAt(t, c) /\ Len(t) \in Nat
    BY <1>1
  <1>3. t[k + 1] = c /\ \A n \in 1..k : t[n] # c
    BY <1>1, <1>2
  <1> HIDE DEF k
  <1>4. /\ SubSeq(t, 1, k) \in Seq(S) /\ t[k + 1] \in S
        /\ SubSeq(t, k + 2, Len(t)) \in Seq(S)
        /\ SubSeq(t, 1, k + 1) = SubSeq(t, 1, k) \o <<t[k + 1]>>
        /\ t = SubSeq(t, 1, k + 1) \o SubSeq(t, k + 2, Len(t))
    <2>1. Splits(t, k, S)
      BY <1>2, SplitAt, Zenon
    <2> QED
      BY <2>1, Zenon DEF Splits
  <1>5. ~Contains(SubSeq(t, 1, k), c)
    <2>1. Len(SubSeq(t, 1, k)) = k /\ \A n \in 1..k : SubSeq(t, 1, k)[n] = t[n]
      BY <1>2
    <2> QED
      BY <1>3, <2>1 DEF Contains
  <1>6. t = (SubSeq(t, 1, k) \o <<c>>) \o SubSeq(t, k + 2, Len(t))
    BY <1>3, <1>4, Zenon
  <1> QED
    BY <1>3, <1>4, <1>5, <1>6, Zenon

(* The same, with the parts given.                                          *)
IsCut(t, x, c, y) ==
    /\ FirstAt(t, c) = Len(x) + 1 /\ Len(x) + 1 \in 1..Len(t) /\ t[Len(x) + 1] = c
    /\ SubSeq(t, 1, Len(x)) = x
    /\ SubSeq(t, 1, Len(x) + 1) = x \o <<c>>
    /\ SubSeq(t, Len(x) + 2, Len(t)) = y
    /\ Len(t) = Len(x) + 1 + Len(y)

(* Where the parts are in the whole.                                        *)
LEMMA PartsOfCut ==
    ASSUME NEW S, NEW x \in Seq(S), NEW y \in Seq(S), NEW c \in S, ~Contains(x, c),
           NEW t, t = (x \o <<c>>) \o y
    PROVE  IsCut(t, x, c, y) /\ Contains(t, c) /\ t \in Seq(S)
  <1> DEFINE a == x \o <<c>>
  <1>1. /\ a \in Seq(S) /\ Len(a) = Len(x) + 1 /\ Len(x) \in Nat
        /\ a[Len(x) + 1] = c /\ \A n \in 1..Len(x) : a[n] = x[n]
    OBVIOUS
  <1> HIDE DEF a
  <1>2. t = a \o y
    BY DEF a
  <1>3. /\ t \in Seq(S) /\ Len(t) = Len(x) + 1 + Len(y) /\ Len(y) \in Nat
        /\ \A n \in 1..Len(a) : t[n] = a[n]
        /\ \A n \in 1..Len(y) : t[Len(a) + n] = y[n]
    <2>1. /\ a \o y \in Seq(S) /\ Len(a \o y) = Len(a) + Len(y) /\ Len(y) \in Nat
          /\ \A n \in 1..Len(a) : (a \o y)[n] = a[n]
          /\ \A n \in 1..Len(y) : (a \o y)[Len(a) + n] = y[n]
      <3>1. a \in Seq(S) /\ y \in Seq(S)
        BY <1>1
      <3>2. Len(y) \in Nat
        OBVIOUS
      <3> QED
        <4>1. Joins(a, y, S)
          BY <3>1, Joined, Zenon
        <4> QED
          BY <3>2, <4>1 DEF Joins
    <2> QED
      BY <1>1, <1>2, <2>1, Zenon
  <1>4. t[Len(x) + 1] = c /\ (\A n \in 1..Len(x) : t[n] = x[n]) /\ Len(x) + 1 \in 1..Len(t)
    BY <1>1, <1>3
  <1>5. SubSeq(t, 1, Len(x)) = x
    <2> DEFINE u == SubSeq(t, 1, Len(x))
    <2>1. u \in Seq(S) /\ Len(u) = Len(x) /\ \A n \in 1..Len(u) : u[n] = x[n]
      BY <1>1, <1>3, <1>4
    <2> HIDE DEF u
    <2>2. u = x
      BY <2>1, SeqEqual
    <2> QED
      BY <2>2 DEF u
  <1>6. SubSeq(t, 1, Len(x) + 1) = a
    <2> DEFINE u == SubSeq(t, 1, Len(x) + 1)
    <2>0. u \in Seq(S) /\ Len(u) = Len(x) + 1 /\ \A n \in 1..Len(x) + 1 : u[n] = t[n]
      BY <1>1, <1>3, <1>4
    <2>1. u \in Seq(S) /\ Len(u) = Len(a) /\ \A n \in 1..Len(u) : u[n] = a[n]
      BY <1>1, <1>3, <2>0
    <2> HIDE DEF u
    <2>2. u = a
      BY <1>1, <2>1, SeqEqual
    <2> QED
      BY <2>2 DEF u
  <1>7. SubSeq(t, Len(x) + 2, Len(t)) = y
    <2> DEFINE u == SubSeq(t, Len(x) + 2, Len(t))
    <2>1. /\ u \in Seq(S) /\ Len(u) = Len(y) /\ \A n \in 1..Len(y) : u[n] = t[Len(x) + 1 + n]
      BY <1>1, <1>3
    <2>2. \A n \in 1..Len(u) : u[n] = y[n]
      BY <1>1, <1>3, <2>1
    <2> HIDE DEF u
    <2>3. u = y
      BY <2>1, <2>2, SeqEqual
    <2> QED
      BY <2>3 DEF u
  <1>8. Contains(t, c)
    BY <1>4 DEF Contains
  <1>9. FirstAt(t, c) = Len(x) + 1
    <2>1. FirstAt(t, c) \in 1..Len(t) /\ t[FirstAt(t, c)] = c
          /\ \A n \in 1..FirstAt(t, c) - 1 : t[n] # c
      <3>1. t \in Seq(S) /\ Contains(t, c)
        BY <1>3, <1>8
      <3> QED
        BY <3>1, FirstIsAt, ZenonT(60)
    <2>2. ~(FirstAt(t, c) <= Len(x))
      BY <1>1, <1>4, <2>1 DEF Contains
    <2>3. ~(Len(x) + 1 <= FirstAt(t, c) - 1)
      BY <1>1, <1>4, <2>1, SMTT(30)
    <2> QED
      BY <1>1, <1>3, <2>1, <2>2, <2>3
  <1> QED
    BY <1>3, <1>4, <1>5, <1>6, <1>7, <1>8, <1>9 DEF IsCut, a

(* What f never makes is not in what Each makes.                            *)
LEMMA NoneMade ==
    ASSUME NEW S, NEW T, NEW f \in [T -> Seq(S)], NEW c, \A e \in T : ~Contains(f[e], c),
           NEW t \in Seq(T)
    PROVE  ~Contains(Each(f, t), c)
  <1> DEFINE P == {u \in Seq(T) : ~Contains(Each(f, u), c)}
  <1>1. <<>> \in P
    <2>1. Each(f, <<>>) = <<>> /\ <<>> \in Seq(T)
      BY EachEmpty
    <2>2. ~Contains(<<>>, c)
      BY DEF Contains
    <2> QED
      BY <2>1, <2>2
  <1>2. ASSUME NEW u \in P, NEW e \in T PROVE Append(u, e) \in P
    <2>1. u \in Seq(T) /\ Append(u, e) = u \o <<e>> /\ Append(u, e) \in Seq(T)
      BY AppendIsConcat
    <2>2. AddsOne(f, u, e)
      BY <2>1, EachMore, Zenon
    <2>3. Each(f, Append(u, e)) = Each(f, u) \o f[e]
      BY <2>1, <2>2, Zenon DEF AddsOne
    <2>4. Each(f, u) \in Seq(S) /\ f[e] \in Seq(S)
      BY <2>1, EachType
    <2>5. ~Contains(Each(f, u), c) /\ ~Contains(f[e], c)
      BY <1>2
    <2>6. ~Contains(Each(f, Append(u, e)), c)
      BY <2>3, <2>4, <2>5, ContainsConcat
    <2> QED
      BY <2>1, <2>6
  <1>3. P = Seq(T)
    <2>1. P \in SUBSET Seq(T)
      OBVIOUS
    <2> HIDE DEF P
    <2> QED
      BY <1>1, <1>2, <2>1, AppendInduction
  <1> QED
    BY <1>3

(* What is made of equal parts is equal.                                    *)
LEMMA EachSame ==
    ASSUME NEW f, NEW g, NEW T, NEW t \in Seq(T), \A n \in 1..Len(t) : f[t[n]] = g[t[n]]
    PROVE  Each(f, t) = Each(g, t)
  <1>1. DOMAIN t = 1..Len(t)
    OBVIOUS
  <1>2. Mapped(f, t) = Mapped(g, t)
    BY <1>1 DEF Mapped
  <1> QED
    BY <1>2 DEF Each

(* What makes each element of itself makes the sequence of itself.          *)
LEMMA EachIdentity ==
    ASSUME NEW T, NEW t \in Seq(T)
    PROVE  Each([e \in T |-> <<e>>], t) = t
  <1> DEFINE f == [e \in T |-> <<e>>]
             P == {u \in Seq(T) : Each(f, u) = u}
  <1>0. f \in [T -> Seq(T)] /\ \A e \in T : f[e] = <<e>>
    OBVIOUS
  <1> HIDE DEF f
  <1>1. <<>> \in P
    BY EachEmpty
  <1>2. ASSUME NEW u \in P, NEW e \in T PROVE Append(u, e) \in P
    <2>1. u \in Seq(T) /\ Append(u, e) = u \o <<e>> /\ Append(u, e) \in Seq(T) /\ Each(f, u) = u
      BY AppendIsConcat
    <2>2. AddsOne(f, u, e)
      BY <1>0, <2>1, EachMore, Zenon
    <2>3. Each(f, Append(u, e)) = Append(u, e)
      BY <1>0, <2>1, <2>2, Zenon DEF AddsOne
    <2> QED
      BY <2>1, <2>3
  <1>3. P = Seq(T)
    <2>1. P \in SUBSET Seq(T)
      OBVIOUS
    <2> HIDE DEF P
    <2> QED
      BY <1>1, <1>2, <2>1, AppendInduction
  <1> QED
    BY <1>3 DEF f
-----------------------------------------------------------------------------
Character == Char \cup {subs[n] : n \in 1..5} \cup {reps[n] : n \in 1..5}

(* At each turn of the outer loop there is still something in str that one  *)
(* of the turns up to i = 2 replaces by an entity, whose "&" is next.       *)
Pending ==
    CASE pair = 0 -> Ampersand
      [] pair = 1 -> {"apostrophe", "&"}
      [] pair = 2 -> {"&"}
      [] OTHER    -> {}

EscapeInv ==
    /\ str \in Seq(Character)
    /\ pair \in Nat
    /\ ToSet(input) \cap Ampersand # {} =>
          pair <= 2 /\ \E n \in 1..Len(str) : str[n] \in Pending

(* A replacement puts an "&" where the character was.                       *)
LEMMA ReplacedHasAmp ==
    ASSUME str \in Seq(Character), pair \in 0..4, NEW n \in 1..Len(str)
    PROVE  /\ Replaced(n) \in Seq(Character)
           /\ n \in 1..Len(Replaced(n))
           /\ Replaced(n)[n] = "&"
  <1>1. "&" \in Character /\ reps[pair + 1] \in Character
    <2>1. subs[3] = "&"
      BY DEF subs
    <2> QED
      BY <2>1 DEF Character
  <1> DEFINE before == SubSeq(str, 1, n - 1)
             entity == <<"&", reps[pair + 1]>>
             after  == SubSeq(str, n + 1, Len(str))
  <1>2. before \in Seq(Character) /\ Len(before) = n - 1
    OBVIOUS
  <1>3. after \in Seq(Character)
    OBVIOUS
  <1>4. entity \in Seq(Character) /\ Len(entity) = 2 /\ entity[1] = "&"
    BY <1>1
  <1>5. Replaced(n) = (before \o entity) \o after
    BY DEF Replaced
  <1> HIDE DEF before, entity, after
  <1>6. before \o entity \in Seq(Character) /\ Len(before \o entity) = n + 1
        /\ (before \o entity)[n] = "&"
    <2>1. /\ before \o entity \in Seq(Character)
          /\ Len(before \o entity) = Len(before) + Len(entity)
          /\ Len(entity) > 0 => (before \o entity)[Len(before) + 1] = entity[1]
      <3>1. Joins(before, entity, Character)
        BY <1>2, <1>4, Joined, Zenon
      <3> QED
        BY <3>1 DEF Joins
    <2>2. Len(before) + 1 = n /\ Len(before) + Len(entity) = n + 1 /\ Len(entity) > 0
      BY <1>2, <1>4
    <2> QED
      BY <1>4, <2>1, <2>2, Zenon
  <1>7. Replaced(n) \in Seq(Character) /\ Len(Replaced(n)) >= n + 1 /\ Replaced(n)[n] = "&"
    <2>1. Joins(before \o entity, after, Character)
      BY <1>3, <1>6, Joined, Zenon
    <2> DEFINE b == before \o entity
    <2>2. /\ b \in Seq(Character) /\ n \in 1..Len(b) /\ Len(b) = n + 1 /\ b[n] = "&"
          /\ Joins(b, after, Character) /\ Replaced(n) = b \o after /\ Len(after) \in Nat
      BY <1>3, <1>5, <1>6, <2>1
    <2> HIDE DEF b
    <2> QED
      BY <2>2 DEF Joins
  <1> QED
    BY <1>7

(* Nothing is escaped yet.                                                  *)
LEMMA EscapeInitInv == EscapeInit => EscapeInv
  <1> SUFFICES ASSUME EscapeInit PROVE EscapeInv
    OBVIOUS
  <1>1. str \in Seq(Character) /\ str = input /\ pair = 0
    BY DEF EscapeInit, BoundedSeq, Character, SeqOf
  <1> QED
    BY <1>1 DEF EscapeInv, Pending, ToSet

(* Every step keeps the invariant of the escaper.                           *)
LEMMA EscapeNextInv == EscapeInv /\ [EscapeNext]_escapeVars => EscapeInv'
  <1> SUFFICES ASSUME EscapeInv, [EscapeNext]_escapeVars PROVE EscapeInv'
    OBVIOUS
  <1>1. CASE Replace
    <2> DEFINE n == FirstAt(str, subs[pair + 1])
    <2>1. str \in Seq(Character) /\ pair \in 0..4
      BY <1>1 DEF EscapeInv, Replace
    <2>2. Contains(str, subs[pair + 1])
      BY <1>1 DEF Replace, Found
    <2>3. n \in 1..Len(str)
      BY <2>1, <2>2, FirstIsAt
    <2>4. str' = Replaced(n) /\ UNCHANGED <<input, pair>>
      BY <1>1, Zenon DEF Replace, FirstAt
    <2> HIDE DEF n
    <2>5. str' \in Seq(Character) /\ n \in 1..Len(str') /\ str'[n] = "&"
      BY <2>1, <2>3, <2>4, ReplacedHasAmp
    <2>6. pair <= 2 => "&" \in Pending'
      BY <2>1, <2>4 DEF Pending, Ampersand
    <2> QED
      BY <2>4, <2>5, <2>6 DEF EscapeInv
  <1>2. CASE NextPair
    <2>1. pair' = pair + 1 /\ UNCHANGED <<input, str>> /\ pair \in Nat
      BY <1>2 DEF NextPair, EscapeInv
    <2>2. \A n \in 1..Len(str) : str[n] # subs[pair + 1]
      BY <1>2 DEF NextPair, Found, Contains
    <2>3. ASSUME ToSet(input) \cap Ampersand # {}
          PROVE  pair' <= 2 /\ \E n \in 1..Len(str) : str[n] \in Pending'
      <3>1. pair <= 2 /\ \E n \in 1..Len(str) : str[n] \in Pending
        BY <2>3 DEF EscapeInv
      <3>2. CASE pair = 0
        BY <2>1, <2>2, <3>1, <3>2 DEF Pending, Ampersand, subs
      <3>3. CASE pair = 1
        BY <2>1, <2>2, <3>1, <3>3 DEF Pending, subs
      <3>4. CASE pair = 2
        BY <2>2, <3>1, <3>4 DEF Pending, subs
      <3> QED
        BY <2>1, <3>1, <3>2, <3>3, <3>4
    <2> QED
      BY <2>1, <2>3 DEF EscapeInv
  <1>3. CASE Beyond
    BY <1>3 DEF Beyond, EscapeInv, Pending
  <1>4. CASE UNCHANGED escapeVars
    BY <1>4 DEF escapeVars, EscapeInv, Pending
  <1> QED
    BY <1>1, <1>2, <1>3, <1>4 DEF EscapeNext

(* htmlspecialchars does not get behind the ampersand's turn with any text  *)
(* that has a quote or an ampersand in it: no attribute with one is ever    *)
(* printed.                                                                 *)
THEOREM AmpersandNeverEndsHolds == EscapeSpec => []AmpersandNeverEnds
  <1>1. EscapeInv => AmpersandNeverEnds
    BY DEF EscapeInv, AmpersandNeverEnds
  <1> QED
    BY EscapeInitInv, EscapeNextInv, <1>1, PTL DEF EscapeSpec
-----------------------------------------------------------------------------
(* What the first p turns of the outer loop replace, and what by.           *)
Done(p) == {subs[n] : n \in 1..p}

Esc(p) == [c \in Character |-> IF c \in Done(p) THEN EntityOf(c) ELSE <<c>>]

(* The sets of characters, one by one.                                      *)
LEMMA DoneSets ==
    /\ Done(0) = {}
    /\ Done(1) = {"quote"}
    /\ Done(2) = {"quote", "apostrophe"}
    /\ Done(3) = {"quote", "apostrophe", "&"}
    /\ Done(4) = {"quote", "apostrophe", "&", "<"}
    /\ Done(5) = {"quote", "apostrophe", "&", "<", ">"}
  <1>1. /\ 1..0 = {} /\ 1..1 = {1} /\ 1..2 = {1, 2} /\ 1..3 = {1, 2, 3}
        /\ 1..4 = {1, 2, 3, 4} /\ 1..5 = {1, 2, 3, 4, 5}
    OBVIOUS
  <1>2. /\ subs[1] = "quote" /\ subs[2] = "apostrophe" /\ subs[3] = "&"
        /\ subs[4] = "<" /\ subs[5] = ">"
    BY DEF subs
  <1> QED
    BY <1>1, <1>2 DEF Done

(* The entities, one by one.                                                *)
LEMMA EntityTexts ==
    /\ EntityOf("quote") = <<"&", "quot;">>
    /\ EntityOf("apostrophe") = <<"&", "apos;">>
    /\ EntityOf("&") = <<"&", "amp;">>
    /\ EntityOf("<") = <<"&", "lt;">>
    /\ EntityOf(">") = <<"&", "gt;">>
  <1>1. EntityOf("quote") = <<"&", "quot;">>
    BY Zenon DEF EntityOf
  <1>2. EntityOf("apostrophe") = <<"&", "apos;">>
    BY Zenon DEF EntityOf
  <1>3. EntityOf("&") = <<"&", "amp;">>
    BY Zenon DEF EntityOf
  <1>4. EntityOf("<") = <<"&", "lt;">>
    BY Zenon DEF EntityOf
  <1>5. EntityOf(">") = <<"&", "gt;">>
    BY Zenon DEF EntityOf
  <1> QED
    BY <1>1, <1>2, <1>3, <1>4, <1>5, Zenon

(* The entities are made of characters that are known.                      *)
LEMMA Entities ==
    /\ \A n \in 1..5 : /\ subs[n] \in Character /\ reps[n] \in Character
                       /\ EntityOf(subs[n]) = <<"&", reps[n]>>
    /\ "&" \in Character /\ "amp;" \in Character
  <1>1. \A n \in 1..5 : subs[n] \in Character /\ reps[n] \in Character
    BY DEF Character
  <1>3. ASSUME NEW n \in 1..5 PROVE EntityOf(subs[n]) = <<"&", reps[n]>>
    <2>1. CASE n = 1
      <3>1. subs[1] = "quote" /\ reps[1] = "quot;"
        BY DEF subs, reps
      <3> QED
        BY <2>1, <3>1, EntityTexts, Zenon
    <2>2. CASE n = 2
      <3>1. subs[2] = "apostrophe" /\ reps[2] = "apos;"
        BY DEF subs, reps
      <3> QED
        BY <2>2, <3>1, EntityTexts, Zenon
    <2>3. CASE n = 3
      <3>1. subs[3] = "&" /\ reps[3] = "amp;"
        BY DEF subs, reps
      <3> QED
        BY <2>3, <3>1, EntityTexts, Zenon
    <2>4. CASE n = 4
      <3>1. subs[4] = "<" /\ reps[4] = "lt;"
        BY DEF subs, reps
      <3> QED
        BY <2>4, <3>1, EntityTexts, Zenon
    <2>5. CASE n = 5
      <3>1. subs[5] = ">" /\ reps[5] = "gt;"
        BY DEF subs, reps
      <3> QED
        BY <2>5, <3>1, EntityTexts, Zenon
    <2> QED
      BY <2>1, <2>2, <2>3, <2>4, <2>5
  <1>4. subs[3] = "&" /\ reps[3] = "amp;" /\ 3 \in 1..5
    BY DEF subs, reps
  <1>5. "&" \in Character /\ "amp;" \in Character
    BY <1>1, <1>4, Zenon
  <1> QED
    BY <1>1, <1>3, <1>5, Zenon

(* What a turn makes of a character.                                        *)
LEMMA EscType ==
    ASSUME NEW p \in 0..5
    PROVE  Esc(p) \in [Character -> Seq(Character)]
  <1>1. \A c \in Done(p) : \E n \in 1..5 : c = subs[n]
    BY DEF Done
  <1>2. ASSUME NEW c \in Done(p) PROVE EntityOf(c) \in Seq(Character)
    <2>1. PICK n \in 1..5 : c = subs[n]
      BY <1>1
    <2>2. EntityOf(c) = <<"&", reps[n]>> /\ "&" \in Character /\ reps[n] \in Character
      BY <2>1, Entities, Zenon
    <2> QED
      BY <2>2
  <1>3. \A c \in Character : <<c>> \in Seq(Character)
    OBVIOUS
  <1> QED
    BY <1>2, <1>3 DEF Esc

(* The turn p + 1 replaces one character more than those before it, and     *)
(* apart from the ampersand's none makes what it looks for.                 *)
LEMMA EscTurn ==
    ASSUME NEW p \in {0, 1, 3, 4}
    PROVE  /\ p \in 0..4 /\ p + 1 \in 1..5
           /\ Esc(p)[subs[p + 1]] = <<subs[p + 1]>>
           /\ Esc(p + 1)[subs[p + 1]] = <<"&", reps[p + 1]>>
           /\ \A c \in Character : c # subs[p + 1] => Esc(p + 1)[c] = Esc(p)[c]
           /\ \A c \in Character : ~Contains(Esc(p + 1)[c], subs[p + 1])
  <1>1. p \in 0..4 /\ p + 1 \in 1..5
    OBVIOUS
  <1>2. subs[p + 1] \in Character /\ EntityOf(subs[p + 1]) = <<"&", reps[p + 1]>>
    BY <1>1, Entities, Zenon
  <1>3. Done(p + 1) = Done(p) \cup {subs[p + 1]} /\ subs[p + 1] \notin Done(p)
    <2>1. CASE p = 0
      BY <2>1, DoneSets DEF subs
    <2>2. CASE p = 1
      BY <2>2, DoneSets DEF subs
    <2>3. CASE p = 3
      BY <2>3, DoneSets DEF subs
    <2>4. CASE p = 4
      BY <2>4, DoneSets DEF subs
    <2> QED
      BY <2>1, <2>2, <2>3, <2>4
  <1>4. Esc(p)[subs[p + 1]] = <<subs[p + 1]>> /\ Esc(p + 1)[subs[p + 1]] = <<"&", reps[p + 1]>>
    BY <1>2, <1>3 DEF Esc
  <1>5. \A c \in Character : c # subs[p + 1] => Esc(p + 1)[c] = Esc(p)[c]
    BY <1>3 DEF Esc
  <1>6. ASSUME NEW c \in Character PROVE ~Contains(Esc(p + 1)[c], subs[p + 1])
    <2>1. CASE c \in Done(p + 1)
      <3>1. PICK n \in 1..5 : c = subs[n]
        BY <1>1, <2>1 DEF Done
      <3>2. Esc(p + 1)[c] = <<"&", reps[n]>>
        <4>1. Esc(p + 1)[c] = EntityOf(c)
          BY <2>1 DEF Esc
        <4> QED
          BY <3>1, <4>1, Entities, Zenon
      <3>3. subs[p + 1] # "&" /\ subs[p + 1] # reps[n]
        <4>1. /\ subs[1] = "quote" /\ subs[2] = "apostrophe" /\ subs[4] = "<" /\ subs[5] = ">"
              /\ reps[1] = "quot;" /\ reps[2] = "apos;" /\ reps[3] = "amp;"
              /\ reps[4] = "lt;" /\ reps[5] = "gt;"
          BY DEF subs, reps
        <4>2. subs[p + 1] \in {"quote", "apostrophe", "<", ">"}
          <5>1. p + 1 = 1 \/ p + 1 = 2 \/ p + 1 = 4 \/ p + 1 = 5
            OBVIOUS
          <5> QED
            BY <4>1, <5>1, Zenon
        <4>3. reps[n] \in {"quot;", "apos;", "amp;", "lt;", "gt;"}
          <5>1. n = 1 \/ n = 2 \/ n = 3 \/ n = 4 \/ n = 5
            OBVIOUS
          <5> QED
            BY <4>1, <5>1, Zenon
        <4>4. \A a \in {"quote", "apostrophe", "<", ">"} :
              \A b \in {"quot;", "apos;", "amp;", "lt;", "gt;"} : a # "&" /\ a # b
          BY Zenon
        <4> QED
          BY <4>2, <4>3, <4>4, Zenon
      <3>4. Len(<<"&", reps[n]>>) = 2
        OBVIOUS
      <3> QED
        BY <3>2, <3>3, <3>4 DEF Contains
    <2>2. CASE c \notin Done(p + 1)
      <3>1. Esc(p + 1)[c] = <<c>> /\ c # subs[p + 1]
        BY <1>3, <2>2 DEF Esc
      <3> QED
        BY <3>1 DEF Contains
    <2> QED
      BY <2>1, <2>2
  <1> QED
    BY <1>1, <1>4, <1>5, <1>6

(* The entity between what was before it and what was behind it.            *)
ReplacedIn(x, n, y) == Replaced(n) = (x \o <<"&", reps[pair + 1]>>) \o y

(* A replacement puts it at the place of the first c.                       *)
LEMMA ReplacedCut ==
    ASSUME NEW x \in Seq(Character), NEW y \in Seq(Character), NEW n,
           IsCut(str, x, subs[pair + 1], y), n = FirstAt(str, subs[pair + 1])
    PROVE  ReplacedIn(x, n, y)
  <1>1. n = Len(x) + 1 /\ Len(x) \in Nat
    BY DEF IsCut
  <1>2. n - 1 = Len(x) /\ n + 1 = Len(x) + 2
    BY <1>1
  <1>3. SubSeq(str, 1, n - 1) = x /\ SubSeq(str, n + 1, Len(str)) = y
    BY <1>2, Zenon DEF IsCut
  <1> QED
    BY <1>3, Zenon DEF Replaced, ReplacedIn

(* In the turn p + 1 the front of the input has it behind itself.           *)
PartlyEscaped(p, t) ==
    \E front, rest \in Seq(Character) :
        input = front \o rest /\ t = Each(Esc(p + 1), front) \o Each(Esc(p), rest)

(* Where the text is the same to two turns, they make the same of it.       *)
LEMMA SameToTurn ==
    ASSUME NEW p \in {0, 1, 3, 4}, NEW x \in Seq(Character), ~Contains(x, subs[p + 1])
    PROVE  Each(Esc(p), x) = Each(Esc(p + 1), x)
  <1>1. \A n \in 1..Len(x) : x[n] \in Character /\ x[n] # subs[p + 1]
    BY DEF Contains
  <1>2. \A n \in 1..Len(x) : Esc(p)[x[n]] = Esc(p + 1)[x[n]]
    BY <1>1, EscTurn, Zenon
  <1> QED
    BY <1>2, EachSame

(* No turn but the ampersand'sub makes what it looks for.                     *)
LEMMA NotMade ==
    ASSUME NEW p \in {0, 1, 3, 4}, NEW x \in Seq(Character)
    PROVE  /\ Each(Esc(p + 1), x) \in Seq(Character)
           /\ ~Contains(Each(Esc(p + 1), x), subs[p + 1])
  <1>1. p + 1 \in 0..5
    OBVIOUS
  <1>2. Esc(p + 1) \in [Character -> Seq(Character)]
    BY <1>1, EscType
  <1>3. \A c \in Character : ~Contains(Esc(p + 1)[c], subs[p + 1])
    BY EscTurn, Zenon
  <1> QED
    BY <1>2, <1>3, NoneMade, EachType, Zenon

(* With nothing left to replace, the turn is done.                          *)
LEMMA TurnEnds ==
    ASSUME NEW p \in {0, 1, 3, 4}, NEW t, PartlyEscaped(p, t), ~Contains(t, subs[p + 1])
    PROVE  t = Each(Esc(p + 1), input) /\ input \in Seq(Character)
  <1>1. PICK front \in Seq(Character), rest \in Seq(Character) :
            input = front \o rest /\ t = Each(Esc(p + 1), front) \o Each(Esc(p), rest)
    BY DEF PartlyEscaped
  <1>2. Esc(p) \in [Character -> Seq(Character)] /\ Esc(p + 1) \in [Character -> Seq(Character)]
    BY EscType
  <1>3. Each(Esc(p), rest) \in Seq(Character) /\ Each(Esc(p + 1), front) \in Seq(Character)
    BY <1>2, EachType, Zenon
  <1>4. ~Contains(Each(Esc(p), rest), subs[p + 1])
    BY <1>1, <1>3, ContainsConcat, Zenon
  <1>5. ~Contains(rest, subs[p + 1])
    <2> SUFFICES ASSUME Contains(rest, subs[p + 1]) PROVE FALSE
      OBVIOUS
    <2> DEFINE sub == subs[p + 1]
    <2>1. PICK x \in Seq(Character), y \in Seq(Character) :
              rest = (x \o <<sub>>) \o y /\ ~Contains(x, sub)
      <3> HIDE DEF sub
      <3>1. Contains(rest, sub)
        BY DEF sub
      <3> QED
        BY <3>1, CutAtFirst
    <2> DEFINE one == <<sub>>
    <2>2. sub \in Character /\ one \in Seq(Character) /\ Esc(p)[sub] = one
      <3>1. p + 1 \in 1..5 /\ Esc(p)[sub] = one
        BY EscTurn, Zenon
      <3>2. sub \in Character
        BY <3>1, Entities, Zenon
      <3> QED
        BY <3>1, <3>2
    <2>3. Contains(one, sub)
      BY DEF Contains
    <2> HIDE DEF one, sub
    <2>4. x \o one \in Seq(Character)
      BY <2>2
    <2>5. Distributes(Esc(p), x \o one, y) /\ AddsOne(Esc(p), x, sub)
      BY <1>2, <2>1, <2>2, <2>4, EachConcat, EachMore, Zenon
    <2>6. Each(Esc(p), x) \in Seq(Character) /\ Each(Esc(p), y) \in Seq(Character)
      BY <1>2, EachType, Zenon
    <2>7. Each(Esc(p), rest) = (Each(Esc(p), x) \o one) \o Each(Esc(p), y)
      BY <2>1, <2>2, <2>5, Zenon DEF Distributes, AddsOne, one
    <2>8. Each(Esc(p), x) \o one \in Seq(Character)
      BY <2>2, <2>6
    <2>9. Contains(Each(Esc(p), x) \o one, sub)
      BY <2>2, <2>3, <2>6, ContainsConcat, Zenon
    <2>10. Contains((Each(Esc(p), x) \o one) \o Each(Esc(p), y), sub)
      BY <2>6, <2>8, <2>9, ContainsConcat, Zenon
    <2> QED
      BY <1>4, <2>7, <2>10 DEF sub
  <1>6. Each(Esc(p), rest) = Each(Esc(p + 1), rest)
    BY <1>5, SameToTurn, Zenon
  <1>7. Distributes(Esc(p + 1), front, rest)
    BY <1>2, EachConcat, Zenon
  <1>8. input \in Seq(Character)
    BY <1>1
  <1> QED
    BY <1>1, <1>6, <1>7, <1>8, Zenon DEF Distributes

(* A replacement takes the front one character further.                     *)
LEMMA TurnReplaces ==
    ASSUME NEW p \in {0, 1, 3, 4}, pair = p, PartlyEscaped(p, str),
           Contains(str, subs[p + 1])
    PROVE  PartlyEscaped(p, Replaced(FirstAt(str, subs[p + 1])))
  <1> DEFINE sub == subs[p + 1]
             one == <<sub>>
             two == <<"&", reps[p + 1]>>
             E(x) == Each(Esc(p + 1), x)
  <1>1. PICK front \in Seq(Character), rest \in Seq(Character) :
            input = front \o rest /\ str = E(front) \o Each(Esc(p), rest)
    BY DEF PartlyEscaped
  <1>2. Esc(p) \in [Character -> Seq(Character)] /\ Esc(p + 1) \in [Character -> Seq(Character)]
    BY EscType
  <1>3. /\ sub \in Character /\ one \in Seq(Character) /\ two \in Seq(Character)
        /\ Esc(p)[sub] = one /\ Esc(p + 1)[sub] = two
    <2>1. p + 1 \in 1..5 /\ Esc(p)[sub] = one /\ Esc(p + 1)[sub] = two
      BY EscTurn, Zenon
    <2>2. sub \in Character /\ "&" \in Character /\ reps[p + 1] \in Character
      BY <2>1, Entities, Zenon
    <2> QED
      BY <2>1, <2>2
  <1>4. E(front) \in Seq(Character) /\ ~Contains(E(front), sub)
    BY NotMade
  <1> HIDE DEF one, two, sub
  <1>5. Contains(rest, sub)
    <2> SUFFICES ASSUME ~Contains(rest, sub) PROVE FALSE
      OBVIOUS
    <2>1. Each(Esc(p), rest) = E(rest)
      BY SameToTurn DEF sub
    <2>2. E(rest) \in Seq(Character) /\ ~Contains(E(rest), sub)
      BY NotMade DEF sub
    <2>3. ~Contains(E(front) \o E(rest), sub)
      <3> HIDE DEF E
      <3> QED
        BY <1>4, <2>2, ContainsConcat, Zenon
    <2> QED
      BY <1>1, <2>1, <2>3, Zenon DEF sub
  <1>6. PICK x \in Seq(Character), y \in Seq(Character) :
            rest = (x \o one) \o y /\ ~Contains(x, sub)
    BY <1>5, CutAtFirst DEF one
  <1>7. /\ E(x) \in Seq(Character) /\ ~Contains(E(x), sub) /\ Each(Esc(p), x) = E(x)
        /\ Each(Esc(p), y) \in Seq(Character)
    <2>1. E(x) \in Seq(Character) /\ ~Contains(E(x), sub)
      BY NotMade DEF sub
    <2>2. Each(Esc(p), x) = E(x)
      BY <1>6, SameToTurn DEF sub
    <2>3. Each(Esc(p), y) \in Seq(Character)
      BY <1>2, EachType, Zenon
    <2> QED
      BY <2>1, <2>2, <2>3
  <1> DEFINE Y == Each(Esc(p), y)
             X == E(x)
             F == E(front)
  <1>8. Each(Esc(p), rest) = (X \o one) \o Y
    <2>1. x \o one \in Seq(Character)
      BY <1>3
    <2>2. Distributes(Esc(p), x \o one, y) /\ AddsOne(Esc(p), x, sub)
      BY <1>2, <1>3, <1>6, <2>1, EachConcat, EachMore, Zenon
    <2> QED
      BY <1>3, <1>6, <1>7, <2>2, Zenon DEF Distributes, AddsOne, one
  <1>9. E((front \o x) \o one) = (F \o X) \o two
    <2>1. front \o x \in Seq(Character)
      OBVIOUS
    <2>2. Distributes(Esc(p + 1), front, x) /\ AddsOne(Esc(p + 1), front \o x, sub)
      BY <1>2, <1>3, <2>1, EachConcat, EachMore, Zenon
    <2> QED
      BY <1>3, <2>2, Zenon DEF Distributes, AddsOne, one
  <1>10. /\ X \in Seq(Character) /\ F \in Seq(Character) /\ Y \in Seq(Character)
         /\ ~Contains(X, sub) /\ ~Contains(F, sub) /\ str = F \o ((X \o one) \o Y)
    BY <1>1, <1>4, <1>7, <1>8, Zenon
  <1> HIDE DEF X, Y, F
  <1>11. F \o X \in Seq(Character) /\ ~Contains(F \o X, sub)
    <2>1. F \o X \in Seq(Character)
      BY <1>10
    <2> QED
      BY <1>10, <2>1, ContainsConcat, Zenon
  <1>12. str = ((F \o X) \o one) \o Y
    <2>1. X \o one \in Seq(Character)
      BY <1>3, <1>10
    <2>2. Regroups(F, X \o one, Y) /\ Regroups(F, X, one)
      BY <1>3, <1>10, <2>1, Regroup, Zenon
    <2> QED
      BY <1>10, <2>2, Zenon DEF Regroups
  <1>13. IsCut(str, F \o X, sub, Y)
    BY <1>3, <1>10, <1>11, <1>12, PartsOfCut DEF one
  <1>14. Replaced(FirstAt(str, sub)) = ((F \o X) \o two) \o Y
    <2>1. IsCut(str, F \o X, subs[pair + 1], Y) /\ sub = subs[pair + 1]
      BY <1>13 DEF sub
    <2> DEFINE n == FirstAt(str, subs[pair + 1])
    <2>2. n = FirstAt(str, subs[pair + 1])
      OBVIOUS
    <2> HIDE DEF n
    <2>3. ReplacedIn(F \o X, n, Y)
      BY <1>10, <1>11, <2>1, <2>2, ReplacedCut, Zenon
    <2> QED
      BY <2>1, <2>2, <2>3, Zenon DEF two, ReplacedIn
  <1>15. input = ((front \o x) \o one) \o y
    <2>1. x \o one \in Seq(Character)
      BY <1>3
    <2>2. Regroups(front, x \o one, y) /\ Regroups(front, x, one)
      BY <1>3, <2>1, Regroup, Zenon
    <2> QED
      BY <1>1, <1>6, <2>2, Zenon DEF Regroups
  <1>16. (front \o x) \o one \in Seq(Character)
    BY <1>3
  <1>17. Replaced(FirstAt(str, sub)) = Each(Esc(p + 1), (front \o x) \o one) \o Each(Esc(p), y)
    BY <1>9, <1>14 DEF Y
  <1> QED
    BY <1>15, <1>16, <1>17 DEF PartlyEscaped, sub

Amps(m) == [k \in 1..m |-> "amp;"]

(* In the ampersand's turn there are m "amp;" more behind the first "&".    *)
SwollenBy(m, q, t) ==
    \E x, y \in Seq(Character) :
        ~Contains(x, "&") /\ q = (x \o <<"&">>) \o y /\ t = (x \o <<"&">>) \o (Amps(m) \o y)

Swollen(q, t) == \E m \in Nat : SwollenBy(m, q, t)

(* The same again and again, and once more.                                 *)
LEMMA OnceMore ==
    ASSUME NEW S, NEW e \in S, NEW m \in Nat,
           NEW a \in Seq(S), Len(a) = m, \A k \in 1..m : a[k] = e,
           NEW b \in Seq(S), Len(b) = m + 1, \A k \in 1..m + 1 : b[k] = e
    PROVE  <<e>> \o a = b
  <1> DEFINE one == <<e>>
             ab == one \o a
  <1>1. one \in Seq(S) /\ Len(one) = 1 /\ one[1] = e
    OBVIOUS
  <1> HIDE DEF one
  <1>2. /\ ab \in Seq(S) /\ Len(ab) = Len(one) + Len(a)
        /\ \A k \in 1..Len(one) : ab[k] = one[k]
        /\ \A k \in 1..Len(a) : ab[Len(one) + k] = a[k]
    <2>1. Joins(one, a, S)
      BY <1>1, Joined, Zenon
    <2> QED
      BY <2>1 DEF Joins
  <1> HIDE DEF ab
  <1>3. Len(ab) = Len(b)
    BY <1>1, <1>2
  <1>4. ASSUME NEW k \in 1..Len(ab) PROVE ab[k] = b[k]
    <2>1. k \in 1..m + 1 /\ b[k] = e
      BY <1>3
    <2>2. CASE k = 1
      BY <1>1, <1>2, <2>1, <2>2
    <2>3. CASE k # 1
      <3>1. k - 1 \in 1..m /\ 1 + (k - 1) = k
        BY <2>1, <2>3
      <3>2. a[k - 1] = e /\ ab[1 + (k - 1)] = a[k - 1]
        BY <1>1, <1>2, <3>1, Zenon
      <3> QED
        BY <2>1, <3>1, <3>2
    <2> QED
      BY <2>2, <2>3
  <1>5. ab = b
    BY <1>2, <1>3, <1>4, SeqEqual
  <1> QED
    BY <1>5 DEF ab, one

(* The same, written as functions.                                          *)
LEMMA Repeated ==
    ASSUME NEW S, NEW e \in S, NEW m \in Nat,
           NEW a, a = [k \in 1..m |-> e], NEW b, b = [k \in 1..m + 1 |-> e]
    PROVE  a \in Seq(S) /\ Len(a) = m /\ b \in Seq(S) /\ <<e>> \o a = b
  <1>1. a \in Seq(S) /\ Len(a) = m /\ \A k \in 1..m : a[k] = e
    OBVIOUS
  <1>2. b \in Seq(S) /\ Len(b) = m + 1 /\ \A k \in 1..m + 1 : b[k] = e
    OBVIOUS
  <1> QED
    BY <1>1, <1>2, OnceMore, Zenon

(* One "amp;" more is put before the others.                                *)
LEMMA AmpsMore ==
    ASSUME NEW m \in Nat
    PROVE  /\ Amps(m) \in Seq(Character) /\ Len(Amps(m)) = m
           /\ <<"amp;">> \o Amps(m) = Amps(m + 1)
  <1>1. "amp;" \in Character
    BY Entities
  <1> DEFINE e == "amp;"
             a == Amps(m)
             b == Amps(m + 1)
  <1>2. a = [k \in 1..m |-> e] /\ b = [k \in 1..m + 1 |-> e]
    BY DEF Amps
  <1>3. e \in Character
    BY <1>1
  <1> HIDE DEF e, a, b
  <1>4. a \in Seq(Character) /\ Len(a) = m /\ <<e>> \o a = b
    BY <1>2, <1>3, Repeated
  <1> QED
    BY <1>4 DEF e, a, b

(* The ampersand's turn finds the "&" that it has just made.                *)
LEMMA AmpersandAgain ==
    ASSUME NEW q, pair = 2, Swollen(q, str)
    PROVE  Swollen(q, Replaced(FirstAt(str, "&")))
  <1> DEFINE amp == <<"&">>
             more == <<"amp;">>
             both == <<"&", "amp;">>
  <1>1. PICK m \in Nat : SwollenBy(m, q, str)
    BY DEF Swollen
  <1>2. PICK x \in Seq(Character), y \in Seq(Character) :
            ~Contains(x, "&") /\ q = (x \o amp) \o y /\ str = (x \o amp) \o (Amps(m) \o y)
    BY <1>1 DEF SwollenBy
  <1>3. /\ "&" \in Character /\ subs[pair + 1] = "&" /\ reps[pair + 1] = "amp;"
        /\ Amps(m) \in Seq(Character) /\ Amps(m) \o y \in Seq(Character)
    <2>1. subs[3] = "&" /\ reps[3] = "amp;" /\ pair + 1 = 3
      BY DEF subs, reps
    <2>2. Amps(m) \in Seq(Character)
      BY AmpsMore
    <2>3. Amps(m) \o y \in Seq(Character)
      BY <2>2
    <2> QED
      BY <2>1, <2>2, <2>3, Entities, Zenon
  <1>4. IsCut(str, x, "&", Amps(m) \o y)
    <2> DEFINE behind == Amps(m) \o y
    <2>1. behind \in Seq(Character) /\ str = (x \o <<"&">>) \o behind
      BY <1>2, <1>3
    <2> HIDE DEF behind
    <2>2. IsCut(str, x, "&", behind)
      BY <1>2, <1>3, <2>1, PartsOfCut
    <2> QED
      BY <2>2 DEF behind
  <1> DEFINE n == FirstAt(str, "&")
  <1>5. Replaced(n) = (x \o both) \o (Amps(m) \o y)
    <2>1. IsCut(str, x, subs[pair + 1], Amps(m) \o y) /\ n = FirstAt(str, subs[pair + 1])
      BY <1>3, <1>4, Zenon
    <2> HIDE DEF n
    <2>2. ReplacedIn(x, n, Amps(m) \o y)
      BY <1>2, <1>3, <2>1, ReplacedCut, Zenon
    <2> QED
      BY <1>3, <2>2, Zenon DEF ReplacedIn
  <1>6. /\ amp \in Seq(Character) /\ more \in Seq(Character) /\ both = amp \o more
        /\ more \o Amps(m) = Amps(m + 1) /\ Amps(m + 1) \in Seq(Character)
    <2>0. ASSUME NEW c \in Character, NEW d \in Character
          PROVE  <<c>> \in Seq(Character) /\ <<c, d>> = <<c>> \o <<d>>
      <3>1. <<c>> \in Seq(Character) /\ <<d>> \in Seq(Character) /\ <<c, d>> \in Seq(Character)
        OBVIOUS
      <3>2. Len(<<c, d>>) = 2 /\ <<c, d>>[1] = c /\ <<c, d>>[2] = d
        OBVIOUS
      <3>3. Len(<<c>> \o <<d>>) = 2 /\ (<<c>> \o <<d>>)[1] = c /\ (<<c>> \o <<d>>)[2] = d
        OBVIOUS
      <3>4. <<c>> \o <<d>> \in Seq(Character)
        OBVIOUS
      <3> DEFINE u == <<c, d>>
                 v == <<c>> \o <<d>>
      <3> HIDE DEF u, v
      <3>5. u \in Seq(Character) /\ v \in Seq(Character) /\ Len(u) = 2 /\ Len(v) = 2
            /\ u[1] = v[1] /\ u[2] = v[2]
        BY <3>1, <3>2, <3>3, <3>4, Zenon DEF u, v
      <3>6. \A k \in 1..Len(u) : u[k] = v[k]
        BY <3>5
      <3>7. u = v
        BY <3>5, <3>6, SeqEqual
      <3> QED
        BY <3>1, <3>7 DEF u, v
    <2>1. amp \in Seq(Character) /\ more \in Seq(Character)
      BY <2>0, Entities, Zenon
    <2>2. both = amp \o more
      BY <2>0, Entities, Zenon
    <2>3. more \o Amps(m) = Amps(m + 1)
      BY AmpsMore
    <2>4. m + 1 \in Nat
      OBVIOUS
    <2>5. Amps(m + 1) \in Seq(Character)
      BY <2>4, AmpsMore, Zenon
    <2> QED
      BY <2>1, <2>2, <2>3, <2>5
  <1> HIDE DEF amp, more, both, n
  <1>7. Replaced(n) = (x \o amp) \o (Amps(m + 1) \o y)
    <2>1. x \o amp \in Seq(Character)
      BY <1>6
    <2>2. /\ Regroups(x, amp, more) /\ Regroups(x \o amp, more, Amps(m) \o y)
          /\ Regroups(more, Amps(m), y)
      BY <1>2, <1>3, <1>6, <2>1, Regroup, Zenon
    <2> QED
      BY <1>5, <1>6, <2>2, Zenon DEF Regroups
  <1>8. m + 1 \in Nat
    OBVIOUS
  <1>9. SwollenBy(m + 1, q, Replaced(n))
    BY <1>2, <1>7, Zenon DEF SwollenBy, amp
  <1> QED
    BY <1>8, <1>9, Zenon DEF Swollen, n

(* What the two turns before the ampersand's have made of the input.        *)
Quoted == Each(Esc(2), input)

RestInv ==
    /\ input \in Seq(Character)
    /\ pair \in 0..5
    /\ pair \in {0, 1, 3, 4} => PartlyEscaped(pair, str)
    /\ pair = 2 => (~Contains(Quoted, "&") /\ str = Quoted) \/ Swollen(Quoted, str)
    /\ pair = 5 => str = Each(Esc(5), input)

(* Nothing of a text in front is escaped yet.                               *)
LEMMA NothingYet ==
    ASSUME NEW p \in 0..4, input \in Seq(Character), NEW t, t = Each(Esc(p), input)
    PROVE  PartlyEscaped(p, t)
  <1> DEFINE none == <<>>
  <1>1. Esc(p) \in [Character -> Seq(Character)] /\ t \in Seq(Character)
    <2>1. p \in 0..5
      OBVIOUS
    <2> QED
      BY <2>1, EscType, EachType
  <1>2. Each(Esc(p + 1), none) = <<>>
    BY EachEmpty
  <1>3. none \in Seq(Character) /\ input = none \o input /\ t = <<>> \o t
    BY <1>1
  <1> HIDE DEF none
  <1> QED
    BY <1>2, <1>3 DEF PartlyEscaped


(* A text that has none of the characters which is the same to Esc(p) and   *)
(* to Esc(r).                                                               *)
LEMMA SameTo ==
    ASSUME NEW p \in 0..5, NEW r \in 0..5, NEW t \in Seq(Character),
           \A n \in 1..Len(t) : t[n] \in Done(p) <=> t[n] \in Done(r)
    PROVE  Each(Esc(p), t) = Each(Esc(r), t)
  <1>1. \A n \in 1..Len(t) : t[n] \in Character
    OBVIOUS
  <1>2. \A n \in 1..Len(t) : Esc(p)[t[n]] = Esc(r)[t[n]]
    BY <1>1 DEF Esc
  <1> QED
    BY <1>2, EachSame

(* No turn has begun, and the text is the input.                            *)
LEMMA RestInitInv == EscapeInit => RestInv
  <1> SUFFICES ASSUME EscapeInit PROVE RestInv
    OBVIOUS
  <1>1. str \in Seq(Character) /\ str = input /\ pair = 0
    BY DEF EscapeInit, BoundedSeq, Character, SeqOf
  <1>2. Each(Esc(0), input) = input
    <2> DEFINE same == [c \in Character |-> <<c>>]
    <2>1. Esc(0) = same
      BY DoneSets DEF Esc
    <2>2. input \in Seq(Character)
      BY <1>1
    <2>3. Each(same, input) = input
      BY <2>2, EachIdentity
    <2> QED
      BY <2>1, <2>3
  <1>3. PartlyEscaped(0, str)
    <2>1. 0 \in 0..4 /\ input \in Seq(Character) /\ str = Each(Esc(0), input)
      BY <1>1, <1>2
    <2> QED
      BY <2>1, NothingYet, Zenon
  <1> QED
    BY <1>1, <1>3 DEF RestInv

(* A replacement in any turn keeps it.                                      *)
LEMMA ReplaceRest ==
    ASSUME RestInv, EscapeInv, Replace
    PROVE  RestInv'
  <1>1. pair \in 0..4 /\ Contains(str, subs[pair + 1])
        /\ str' = Replaced(FirstAt(str, subs[pair + 1])) /\ UNCHANGED <<input, pair>>
    <2>1. pair \in 0..4 /\ Contains(str, subs[pair + 1]) /\ UNCHANGED <<input, pair>>
      BY DEF Replace, Found, RestInv
    <2>2. str' = Replaced(FirstAt(str, subs[pair + 1]))
      BY Zenon DEF Replace, FirstAt
    <2> QED
      BY <2>1, <2>2
  <1>2. CASE pair = 2
    <2>1. subs[pair + 1] = "&"
      BY <1>2 DEF subs
    <2>2. Swollen(Quoted, str)
      BY <1>1, <1>2, <2>1 DEF RestInv
    <2>3. Swollen(Quoted, Replaced(FirstAt(str, "&")))
      BY <1>2, <2>2, AmpersandAgain
    <2>4. Swollen(Quoted, str') /\ Quoted' = Quoted
      BY <1>1, <2>1, <2>3 DEF Quoted
    <2> QED
      BY <1>1, <1>2, <2>4 DEF RestInv
  <1>3. CASE pair # 2
    <2>1. pair \in {0, 1, 3, 4} /\ PartlyEscaped(pair, str)
      BY <1>1, <1>3 DEF RestInv
    <2>2. PartlyEscaped(pair, Replaced(FirstAt(str, subs[pair + 1])))
      BY <1>1, <2>1, TurnReplaces
    <2>3. PartlyEscaped(pair, str)'
      BY <1>1, <2>2 DEF PartlyEscaped
    <2> QED
      BY <1>1, <1>3, <2>1, <2>3 DEF RestInv
  <1> QED
    BY <1>2, <1>3

(* So does the next turn: the characters of the last one are gone.          *)
LEMMA NextPairRest ==
    ASSUME RestInv, EscapeInv, EscapeInv', NextPair
    PROVE  RestInv'
  <1>1. pair \in 0..4 /\ ~Contains(str, subs[pair + 1]) /\ pair' = pair + 1
        /\ UNCHANGED <<input, str>> /\ input \in Seq(Character)
    BY DEF NextPair, Found, RestInv
  <1>2. str = Each(Esc(pair + 1), input)
    <2>1. CASE pair = 2
      <3>1. subs[pair + 1] = "&" /\ pair + 1 = 3
        BY <2>1 DEF subs
      <3>2. ~Swollen(Quoted, str)
        <4> SUFFICES ASSUME Swollen(Quoted, str) PROVE FALSE
          OBVIOUS
        <4>1. PICK m \in Nat, x \in Seq(Character), y \in Seq(Character) :
                  str = (x \o <<"&">>) \o (Amps(m) \o y) /\ ~Contains(x, "&")
          BY DEF Swollen, SwollenBy
        <4> DEFINE behind == Amps(m) \o y
        <4>2. Amps(m) \in Seq(Character)
          BY AmpsMore
        <4>3. behind \in Seq(Character)
          BY <4>2
        <4>4. str = (x \o <<"&">>) \o behind
          BY <4>1
        <4> HIDE DEF behind
        <4>5. "&" \in Character
          BY Entities, Zenon
        <4>6. Contains(str, "&")
          BY <4>1, <4>3, <4>4, <4>5, PartsOfCut
        <4> QED
          BY <1>1, <3>1, <4>6
      <3>3. str = Quoted
        BY <2>1, <3>2 DEF RestInv
      <3>4. ToSet(input) \cap Ampersand = {}
        BY <1>1, <2>1 DEF EscapeInv
      <3>5. \A n \in 1..Len(input) : input[n] \notin Ampersand
        BY <1>1, <3>4 DEF ToSet
      <3>6. \A n \in 1..Len(input) : input[n] \in Done(2) <=> input[n] \in Done(3)
        BY <3>5, DoneSets DEF Ampersand
      <3>7. Each(Esc(2), input) = Each(Esc(3), input)
        <4>1. 2 \in 0..5 /\ 3 \in 0..5
          OBVIOUS
        <4> QED
          BY <1>1, <3>6, <4>1, SameTo, Zenon
      <3> QED
        BY <3>1, <3>3, <3>7 DEF Quoted
    <2>2. CASE pair # 2
      <3>1. pair \in {0, 1, 3, 4} /\ PartlyEscaped(pair, str)
        BY <1>1, <2>2 DEF RestInv
      <3> QED
        BY <1>1, <3>1, TurnEnds
    <2> QED
      BY <2>1, <2>2
  <1>3. pair' \in 1..5 /\ str' = Each(Esc(pair'), input') /\ input' \in Seq(Character)
    BY <1>1, <1>2
  <1>4. ASSUME pair' \in {1, 3, 4} PROVE PartlyEscaped(pair, str)'
    <2> DEFINE p == pair'
    <2>1. p \in 0..4 /\ str = Each(Esc(p), input) /\ input \in Seq(Character)
      BY <1>1, <1>3, <1>4
    <2> HIDE DEF p
    <2>2. PartlyEscaped(p, str)
      BY <2>1, NothingYet
    <2> QED
      BY <1>1, <2>2 DEF PartlyEscaped, p
  <1>5. ASSUME pair' = 2
        PROVE  (~Contains(Quoted, "&") /\ str = Quoted)' \/ Swollen(Quoted, str)'
    <2>1. str = Quoted /\ Quoted' = Quoted
      BY <1>1, <1>3, <1>5 DEF Quoted
    <2>2. Quoted \in Seq(Character)
      BY <2>1 DEF EscapeInv
    <2>3. ASSUME Contains(Quoted, "&") PROVE Swollen(Quoted, str)
      <3>1. PICK x \in Seq(Character), y \in Seq(Character) :
                Quoted = (x \o <<"&">>) \o y /\ ~Contains(x, "&")
        BY <2>2, <2>3, CutAtFirst
      <3>2. Amps(0) \o y = y
        <4>1. Amps(0) = <<>>
          BY DEF Amps
        <4> QED
          BY <4>1
      <3>3. SwollenBy(0, Quoted, str)
        BY <2>1, <3>1, <3>2 DEF SwollenBy
      <3> QED
        BY <3>3 DEF Swollen
    <2> QED
      BY <1>1, <2>1, <2>3 DEF Swollen, SwollenBy, Quoted
  <1> QED
    BY <1>3, <1>4, <1>5 DEF RestInv

(* Every step of the escaper keeps it.                                      *)
LEMMA RestNextInv == RestInv /\ EscapeInv /\ EscapeInv' /\ [EscapeNext]_escapeVars => RestInv'
  <1> SUFFICES ASSUME RestInv, EscapeInv, EscapeInv', [EscapeNext]_escapeVars PROVE RestInv'
    OBVIOUS
  <1>1. CASE UNCHANGED <<input, str, pair>>
    BY <1>1 DEF RestInv, PartlyEscaped, Swollen, SwollenBy, Quoted
  <1>2. Beyond \/ UNCHANGED escapeVars => UNCHANGED <<input, str, pair>>
    BY DEF Beyond, escapeVars
  <1> QED
    BY <1>1, <1>2, ReplaceRest, NextPairRest DEF EscapeNext

(* Escaped of the model is Each of the proofs.                              *)
LEMMA EscapedIsEach ==
    ASSUME NEW p \in 0..5, NEW t \in Seq(Character)
    PROVE  Escaped(t, Done(p)) = Each(Esc(p), t)
  <1>1. DOMAIN t = 1..Len(t) /\ \A k \in 1..Len(t) : t[k] \in Character
    OBVIOUS
  <1>2. \A k \in DOMAIN t :
            Esc(p)[t[k]] = IF t[k] \in Done(p) THEN EntityOf(t[k]) ELSE <<t[k]>>
    BY <1>1 DEF Esc
  <1>3. [k \in DOMAIN t |-> IF t[k] \in Done(p) THEN EntityOf(t[k]) ELSE <<t[k]>>]
            = Mapped(Esc(p), t)
    BY <1>1, <1>2 DEF Mapped
  <1> QED
    BY <1>3, Zenon DEF Escaped, Each

(* What the ampersand's turn has made, in the words of the property.        *)
LEMMA SwollenForm ==
    ASSUME NEW q \in Seq(Character), NEW t, Swollen(q, t)
    PROVE  t = SubSeq(q, 1, FirstAt(q, "&")) \o Amps(Len(t) - Len(q))
                 \o SubSeq(q, FirstAt(q, "&") + 1, Len(q))
  <1>1. PICK m \in Nat, x \in Seq(Character), y \in Seq(Character) :
            /\ ~Contains(x, "&") /\ q = (x \o <<"&">>) \o y
            /\ t = (x \o <<"&">>) \o (Amps(m) \o y)
    BY DEF Swollen, SwollenBy
  <1> DEFINE a == x \o <<"&">>
  <1>2. "&" \in Character
    BY Entities, Zenon
  <1>3. a \in Seq(Character) /\ Len(a) = Len(x) + 1
    BY <1>2
  <1>4. IsCut(q, x, "&", y)
    BY <1>1, <1>2, PartsOfCut
  <1>5. Amps(m) \in Seq(Character) /\ Len(Amps(m)) = m
    BY AmpsMore
  <1> HIDE DEF a
  <1>6. FirstAt(q, "&") = Len(x) + 1 /\ SubSeq(q, 1, FirstAt(q, "&")) = a
    BY <1>4, Zenon DEF IsCut, a
  <1>7. SubSeq(q, FirstAt(q, "&") + 1, Len(q)) = y
    <2>1. Len(x) + 1 + 1 = Len(x) + 2
      OBVIOUS
    <2> QED
      BY <1>4, <1>6, <2>1, Zenon DEF IsCut
  <1>8. Len(t) - Len(q) = m
    <2>1. Len(q) = Len(x) + 1 + Len(y)
      BY <1>4 DEF IsCut
    <2>2. Amps(m) \o y \in Seq(Character) /\ Len(Amps(m) \o y) = m + Len(y)
      <3>1. Joins(Amps(m), y, Character)
        BY <1>5, Joined, Zenon
      <3> QED
        BY <1>5, <3>1, Zenon DEF Joins
    <2>3. t = a \o (Amps(m) \o y)
      BY <1>1 DEF a
    <2>4. Len(t) = Len(x) + 1 + (m + Len(y))
      <3> DEFINE z == Amps(m) \o y
      <3>1. z \in Seq(Character) /\ t = a \o z
        BY <2>2, <2>3
      <3> HIDE DEF z
      <3>2. Len(t) = Len(a) + Len(z)
        <4>1. Joins(a, z, Character)
          BY <1>3, <3>1, Joined, Zenon
        <4> QED
          BY <3>1, <4>1, Zenon DEF Joins
      <3> QED
        BY <1>3, <2>2, <3>2 DEF z
    <2> QED
      BY <2>1, <2>4
  <1>9. t = (a \o Amps(m)) \o y
    <2>1. Regroups(a, Amps(m), y)
      BY <1>3, <1>5, Regroup, Zenon
    <2> QED
      BY <1>1, <2>1, Zenon DEF Regroups, a
  <1> QED
    BY <1>6, <1>7, <1>8, <1>9, Zenon

(* The invariant of the turns, at the ampersand's and behind the last.      *)
LEMMA RestEnds == RestInv /\ EscapeInv => EscapesTheRest
  <1> SUFFICES ASSUME RestInv, EscapeInv PROVE EscapesTheRest
    OBVIOUS
  <1>1. input \in Seq(Character) /\ str \in Seq(Character)
    BY DEF RestInv, EscapeInv
  <1>2. ASSUME pair = 5 PROVE str = Escaped(input, {"<", ">"})
    <2>1. str = Each(Esc(5), input)
      BY <1>2 DEF RestInv
    <2>2. ToSet(input) \cap Ampersand = {}
      BY <1>2 DEF EscapeInv
    <2>3. \A n \in 1..Len(input) : input[n] \notin Ampersand
      BY <1>1, <2>2 DEF ToSet
    <2>4. \A n \in DOMAIN input : input[n] \in Done(5) <=> input[n] \in {"<", ">"}
      BY <1>1, <2>3, DoneSets DEF Ampersand
    <2>5. Escaped(input, Done(5)) = Escaped(input, {"<", ">"})
      BY <2>4 DEF Escaped
    <2>6. Escaped(input, Done(5)) = Each(Esc(5), input)
      <3>1. 5 \in 0..5
        OBVIOUS
      <3> QED
        BY <1>1, <3>1, EscapedIsEach, Zenon
    <2> QED
      BY <2>1, <2>5, <2>6
  <1>3. Escaped(input, {"quote", "apostrophe"}) = Quoted
    <2>1. 2 \in 0..5
      OBVIOUS
    <2> QED
      BY <1>1, <2>1, EscapedIsEach, DoneSets, Zenon DEF Quoted
  <1>4. Quoted \in Seq(Character)
    <2>1. 2 \in 0..5
      OBVIOUS
    <2>2. Esc(2) \in [Character -> Seq(Character)]
      BY <2>1, EscType, Zenon
    <2> QED
      BY <1>1, <2>2, EachType, Zenon DEF Quoted
  <1>5. ASSUME pair = 2
        PROVE  str = SubSeq(Quoted, 1, FirstAt(Quoted, "&")) \o Amps(Len(str) - Len(Quoted))
                       \o SubSeq(Quoted, FirstAt(Quoted, "&") + 1, Len(Quoted))
    <2>1. CASE Swollen(Quoted, str)
      BY <1>4, <2>1, SwollenForm
    <2>2. CASE ~Contains(Quoted, "&") /\ str = Quoted
      <3> DEFINE q == Quoted
      <3>1. q \in Seq(Character) /\ FirstAt(q, "&") = 0
        BY <1>4, <2>2, FirstIsNone
      <3> HIDE DEF q
      <3>2. Len(q) - Len(q) = 0 /\ 0 + 1 = 1
        BY <3>1
      <3>3. SubSeq(q, 1, 0) = <<>> /\ Amps(0) = <<>> /\ SubSeq(q, 1, Len(q)) = q
        <4>1. SubSeq(q, 1, Len(q)) = q
          BY <3>1, SubSeqFull
        <4>2. SubSeq(q, 1, 0) = <<>>
          BY <3>1
        <4>3. Amps(0) = <<>>
          BY DEF Amps
        <4> QED
          BY <4>1, <4>2, <4>3
      <3>4. q = (<<>> \o <<>>) \o q
        BY <3>1
      <3> QED
        BY <2>2, <3>1, <3>2, <3>3, <3>4, Zenon DEF q
    <2> QED
      BY <1>5, <2>1, <2>2 DEF RestInv
  <1> QED
    BY <1>2, <1>3, <1>5, Zenon DEF EscapesTheRest, FirstAt, Amps

(* Behind the arrays of htmlspecialchars every text without a quote or an   *)
(* ampersand is escaped, each character once and nothing else changed; and  *)
(* while it loops, the text is the input with its quotes escaped and some   *)
(* "amp;" behind the first ampersand.                                       *)
THEOREM EscapesTheRestHolds == EscapeSpec => []EscapesTheRest
  <1> USE DEF EscapeSpec
  <1>1. EscapeSpec => []EscapeInv
    BY EscapeInitInv, EscapeNextInv, PTL
  <1>2. EscapeSpec => []RestInv
    BY <1>1, RestInitInv, RestNextInv, PTL
  <1> QED
    BY <1>1, <1>2, RestEnds, PTL
=============================================================================
