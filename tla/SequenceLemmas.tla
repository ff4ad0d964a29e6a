--------------------------- MODULE SequenceLemmas ---------------------------
(***************************************************************************)
(* Facts about sequences that the proofs of several components need: what  *)
(* FlattenSeq makes of sequences that are put together, induction over     *)
(* the length of a sequence, where elements are, and which of them meet.   *)
(* The predicate of an induction is a set here.                            *)
(***************************************************************************)
EXTENDS Integers, Sequences, SequencesExt, SequenceTheorems, WellFoundedInduction, TLAPS

(* A set of numbers that has 0, and with each number the next, has all.     *)
LEMMA NumberInduction ==
    ASSUME NEW P \in SUBSET Nat, 0 \in P, \A n \in P : n + 1 \in P
    PROVE  P = Nat
  <1> SUFFICES ASSUME P # Nat PROVE FALSE
    OBVIOUS
  <1>1. OpToRel(<, Nat) = {ss \in Nat \X Nat : ss[1] < ss[2]}
    BY Zenon DEF OpToRel
  <1>2. PICK m \in Nat \ P : \A k \in Nat \ P : ~(<<k, m>> \in OpToRel(<, Nat))
    <2>1. Nat \ P \subseteq Nat /\ Nat \ P # {}
      OBVIOUS
    <2> QED
      BY <2>1, NatLessThanWellFounded, WFMin, Zenon
  <1>3. m # 0 /\ m - 1 \in Nat
    OBVIOUS
  <1>4. m - 1 \notin P
    <2>1. (m - 1) + 1 = m
      BY <1>3
    <2> QED
      BY <1>3, <2>1
  <1>5. <<m - 1, m>> \in {ss \in Nat \X Nat : ss[1] < ss[2]}
    <2> DEFINE k == m - 1
    <2>1. k \in Nat /\ k < m
      BY <1>3
    <2> HIDE DEF k
    <2>2. <<k, m>> \in {ss \in Nat \X Nat : ss[1] < ss[2]}
      BY <2>1
    <2> QED
      BY <2>2 DEF k
  <1> QED
    BY <1>1, <1>2, <1>3, <1>4, <1>5, Zenon

(* A set of sequences that has the empty one, and with each its             *)
(* continuations, has all.                                                  *)
LEMMA AppendInduction ==
    ASSUME NEW S, NEW P \in SUBSET Seq(S), <<>> \in P,
           \A s \in P : \A e \in S : Append(s, e) \in P
    PROVE  P = Seq(S)
  <1> DEFINE Good == {n \in Nat : \A s \in Seq(S) : Len(s) = n => s \in P}
  <1>1. 0 \in Good
    BY EmptySeq
  <1>2. ASSUME NEW n \in Good PROVE n + 1 \in Good
    <2> SUFFICES ASSUME NEW s \in Seq(S), Len(s) = n + 1 PROVE s \in P
      OBVIOUS
    <2> DEFINE front == SubSeq(s, 1, n)
    <2>1. front \in Seq(S) /\ Len(front) = n /\ s[n + 1] \in S
      OBVIOUS
    <2>2. s = Append(front, s[n + 1])
      <3>1. s = SubSeq(s, 1, n + 1) /\ n \in Nat
        BY SubSeqFull
      <3>2. SubSeq(s, 1, n + 1) = front \o <<s[n + 1]>>
        <4>1. 1 \in 1..Len(s) /\ n + 1 \in 1..Len(s) /\ (n + 1) - 1 = n
          BY <3>1
        <4> QED
          BY <4>1, SubSeqRecursiveSecond
      <3> HIDE DEF front
      <3> QED
        BY <2>1, <3>1, <3>2, AppendIsConcat
    <2>3. front \in P
      BY <2>1
    <2> HIDE DEF front
    <2> QED
      BY <2>1, <2>2, <2>3
  <1>3. Good = Nat
    <2> HIDE DEF Good
    <2>1. Good \in SUBSET Nat
      BY DEF Good
    <2> QED
      BY <1>1, <1>2, <2>1, NumberInduction
  <1>4. ASSUME NEW s \in Seq(S) PROVE s \in P
    <2>1. Len(s) \in Good
      BY <1>3, LenProperties
    <2> QED
      BY <2>1
  <1> QED
    BY <1>4
-----------------------------------------------------------------------------
(* f is the function that FlattenSeq(ss) is the last value of.              *)
Flattens(f, ss) ==
    \A i \in 1..Len(ss) : f[i] = IF i = 1 THEN ss[i] ELSE f[i - 1] \o ss[i]

(* There is one ...                                                         *)
LEMMA FlattensExists ==
    ASSUME NEW S, NEW ss \in Seq(Seq(S))
    PROVE  \E f \in [1..Len(ss) -> Seq(S)] : Flattens(f, ss)
  <1> DEFINE Next(f, i) == IF i = 1 THEN ss[i] ELSE f[i - 1] \o ss[i]
             Upto(n) == \E f \in [1..n -> Seq(S)] : \A i \in 1..n : f[i] = Next(f, i)
             P == {n \in Nat : n <= Len(ss) => Upto(n)}
  <1>1. Upto(0)
    <2> DEFINE f == [i \in 1..0 |-> <<>>]
    <2>1. f \in [1..0 -> Seq(S)] /\ 1..0 = {}
      OBVIOUS
    <2> HIDE DEF f, Next
    <2> QED
      BY <2>1
  <1>2. ASSUME NEW n \in Nat, n + 1 <= Len(ss), Upto(n) PROVE Upto(n + 1)
    <2>1. PICK g \in [1..n -> Seq(S)] : \A i \in 1..n : g[i] = Next(g, i)
      BY <1>2
    <2> DEFINE last == IF n + 1 = 1 THEN ss[n + 1] ELSE g[n] \o ss[n + 1]
               f == [i \in 1..n + 1 |-> IF i = n + 1 THEN last ELSE g[i]]
    <2>2. ss[n + 1] \in Seq(S)
      BY <1>2
    <2>3. last \in Seq(S)
      BY <2>2
    <2>4. f \in [1..n + 1 -> Seq(S)]
      BY <2>3
    <2>5. ASSUME NEW i \in 1..n + 1
          PROVE  f[i] = Next(f, i)
      <3>1. CASE i = n + 1
        <4>1. i # 1 => i - 1 \in 1..n + 1 /\ i - 1 # n + 1 /\ i - 1 = n
          BY <3>1
        <4> QED
          BY <3>1, <4>1
      <3>2. CASE i # n + 1
        <4>1. i \in 1..n /\ (i # 1 => i - 1 \in 1..n + 1 /\ i - 1 # n + 1)
          BY <3>2
        <4> QED
          BY <2>1, <3>2, <4>1
      <3> QED
        BY <3>1, <3>2
    <2> HIDE DEF f, Next
    <2> QED
      BY <2>4, <2>5
  <1>3. P = Nat
    <2> HIDE DEF Upto
    <2>1. 0 \in P
      BY <1>1
    <2>2. ASSUME NEW n \in P PROVE n + 1 \in P
      <3>1. n + 1 <= Len(ss) => n <= Len(ss)
        OBVIOUS
      <3> QED
        BY <1>2, <3>1
    <2>3. P \in SUBSET Nat
      OBVIOUS
    <2> HIDE DEF P
    <2> QED
      BY <2>1, <2>2, <2>3, NumberInduction
  <1>4. Upto(Len(ss))
    <2> HIDE DEF Upto
    <2>1. Len(ss) \in P /\ Len(ss) <= Len(ss)
      BY <1>3
    <2> QED
      BY <2>1
  <1> QED
    BY <1>4 DEF Flattens

Agree(f, g, ss) == \A i \in 1..Len(ss) : f[i] = g[i]

(* ... and no other one, also of a longer sequence that begins with ss.     *)
LEMMA FlattensUnique ==
    ASSUME NEW S, NEW ss \in Seq(Seq(S)), NEW tt \in Seq(Seq(S)), NEW f, NEW g,
           Flattens(f, ss), Flattens(g, tt), Len(ss) <= Len(tt),
           \A i \in 1..Len(ss) : tt[i] = ss[i]
    PROVE  Agree(f, g, ss)
  <1> DEFINE P == {n \in Nat : n \in 1..Len(ss) => f[n] = g[n]}
  <1>0. Len(ss) \in Nat /\ Len(tt) \in Nat
    OBVIOUS
  <1>1. 0 \in P
    OBVIOUS
  <1>2. ASSUME NEW n \in P, n + 1 \in 1..Len(ss) PROVE f[n + 1] = g[n + 1]
    <2>1. n + 1 \in 1..Len(tt) /\ tt[n + 1] = ss[n + 1]
      BY <1>0, <1>2
    <2>2. CASE n = 0
      <3>1. n + 1 = 1 /\ 1 \in 1..Len(ss) /\ 1 \in 1..Len(tt)
        BY <1>2, <2>1, <2>2
      <3>2. f[1] = ss[1] /\ g[1] = tt[1]
        BY <3>1 DEF Flattens
      <3> QED
        BY <2>1, <3>1, <3>2
    <2>3. CASE n # 0
      <3>1. n \in 1..Len(ss) /\ n + 1 # 1 /\ (n + 1) - 1 = n
        BY <1>0, <1>2, <2>3
      <3>2. f[n] = g[n]
        BY <3>1
      <3>3. f[n + 1] = f[n] \o ss[n + 1] /\ g[n + 1] = g[n] \o tt[n + 1]
        BY <1>2, <2>1, <3>1 DEF Flattens
      <3> QED
        BY <2>1, <3>2, <3>3
    <2> QED
      BY <2>2, <2>3
  <1>3. ASSUME NEW n \in P PROVE n + 1 \in P
    <2>1. n + 1 \in 1..Len(ss) => f[n + 1] = g[n + 1]
      BY <1>2
    <2> QED
      BY <2>1
  <1>4. P = Nat
    <2>1. P \in SUBSET Nat
      OBVIOUS
    <2> HIDE DEF P
    <2> QED
      BY <1>1, <1>3, <2>1, NumberInduction
  <1>5. ASSUME NEW i \in 1..Len(ss) PROVE f[i] = g[i]
    <2>1. i \in P
      <3>1. i \in Nat
        OBVIOUS
      <3> HIDE DEF P
      <3> QED
        BY <1>4, <3>1
    <2> QED
      BY <2>1
  <1> QED
    BY <1>5 DEF Agree

(* What FlattenSeq is.                                                      *)
LEMMA FlattenValue ==
    ASSUME NEW S, NEW ss \in Seq(Seq(S)), ss # <<>>
    PROVE  \E f \in [1..Len(ss) -> Seq(S)] : Flattens(f, ss) /\ FlattenSeq(ss) = f[Len(ss)]
  <1> DEFINE Body(f) == [i \in 1..Len(ss) |-> IF i = 1 THEN ss[i] ELSE f[i - 1] \o ss[i]]
             flatten == CHOOSE f : f = Body(f)
  <1>1. PICK g \in [1..Len(ss) -> Seq(S)] : Flattens(g, ss)
    BY FlattensExists
  <1>2. g = Body(g)
    BY <1>1 DEF Flattens
  <1>3. flatten = Body(flatten)
    <2> HIDE DEF Body
    <2> QED
      BY <1>2
  <1>4. Len(ss) \in 1..Len(ss) /\ Len(ss) # 0
    OBVIOUS
  <1>5. FlattenSeq(ss) = flatten[Len(ss)]
    BY <1>4, Zenon DEF FlattenSeq
  <1>6. Flattens(flatten, ss)
    <2> HIDE DEF flatten
    <2> QED
      BY <1>3 DEF Flattens
  <1> HIDE DEF flatten
  <1>7. flatten[Len(ss)] = g[Len(ss)]
    <2>1. Len(ss) <= Len(ss) /\ \A i \in 1..Len(ss) : ss[i] = ss[i]
      OBVIOUS
    <2>2. Agree(flatten, g, ss)
      BY <1>1, <1>6, <2>1, FlattensUnique, Zenon
    <2> QED
      BY <1>4, <2>2 DEF Agree
  <1> QED
    BY <1>1, <1>5, <1>7

(* Of no sequences, nothing.                                                *)
LEMMA FlattenEmpty == FlattenSeq(<<>>) = <<>>
  BY DEF FlattenSeq

(* The result has the elements of the parts.                                *)
LEMMA FlattenType ==
    ASSUME NEW S, NEW ss \in Seq(Seq(S))
    PROVE  FlattenSeq(ss) \in Seq(S)
  <1>1. CASE ss = <<>>
    <2>1. <<>> \in Seq(S)
      OBVIOUS
    <2> QED
      BY <1>1, <2>1, FlattenEmpty, Zenon
  <1>2. CASE ss # <<>>
    <2>1. Len(ss) \in 1..Len(ss)
      BY <1>2
    <2>2. PICK f \in [1..Len(ss) -> Seq(S)] : FlattenSeq(ss) = f[Len(ss)]
      BY <1>2, FlattenValue
    <2> QED
      BY <2>1, <2>2
  <1> QED
    BY <1>1, <1>2

(* One sequence more.                                                       *)
LEMMA FlattenAppend ==
    ASSUME NEW S, NEW ss \in Seq(Seq(S)), NEW t \in Seq(S)
    PROVE  FlattenSeq(Append(ss, t)) = FlattenSeq(ss) \o t
  <1> DEFINE tt == Append(ss, t)
  <1>1. /\ tt \in Seq(Seq(S)) /\ tt # <<>> /\ Len(tt) = Len(ss) + 1
        /\ tt[Len(ss) + 1] = t /\ \A i \in 1..Len(ss) : tt[i] = ss[i]
    BY AppendProperties
  <1> HIDE DEF tt
  <1>2. PICK g : Flattens(g, tt) /\ FlattenSeq(tt) = g[Len(tt)]
    BY <1>1, FlattenValue
  <1>3. CASE ss = <<>>
    <2>1. Len(tt) = 1 /\ g[1] = tt[1] /\ tt[1] = t
      BY <1>1, <1>2, <1>3 DEF Flattens
    <2>2. <<>> \o t = t
      OBVIOUS
    <2>3. FlattenSeq(ss) = <<>>
      BY <1>3, FlattenEmpty, Zenon
    <2> QED
      BY <1>2, <2>1, <2>2, <2>3 DEF tt
  <1>4. CASE ss # <<>>
    <2>1. PICK f : Flattens(f, ss) /\ FlattenSeq(ss) = f[Len(ss)]
      BY <1>4, FlattenValue
    <2>2. /\ Len(ss) \in 1..Len(ss) /\ Len(tt) \in 1..Len(tt)
          /\ Len(tt) # 1 /\ Len(tt) - 1 = Len(ss) /\ Len(ss) <= Len(tt)
      BY <1>1, <1>4
    <2>3. \A i \in 1..Len(ss) : f[i] = g[i]
      <3>1. Flattens(f, ss) /\ Flattens(g, tt)
        BY <1>2, <2>1
      <3>2. Agree(f, g, ss)
        BY <1>1, <2>2, <3>1, FlattensUnique, Zenon
      <3> QED
        BY <3>2 DEF Agree
    <2>4. g[Len(tt)] = g[Len(ss)] \o tt[Len(tt)]
      BY <1>2, <2>2 DEF Flattens
    <2>5. tt[Len(tt)] = t
      BY <1>1
    <2> QED
      BY <1>2, <2>1, <2>2, <2>3, <2>4, <2>5 DEF tt
  <1> QED
    BY <1>3, <1>4

(* A single sequence.                                                       *)
LEMMA FlattenOne ==
    ASSUME NEW S, NEW t \in Seq(S)
    PROVE  FlattenSeq(<<t>>) = t
  <1>1. <<>> \in Seq(Seq(S)) /\ Append(<<>>, t) = <<t>> /\ <<>> \o t = t
    OBVIOUS
  <1> QED
    BY <1>1, FlattenAppend, FlattenEmpty

(* Three sequences one behind the other.                                    *)
Regroups(a, b, c) == (a \o b) \o c = a \o (b \o c)

(* Where the brackets are does not matter.                                  *)
LEMMA Regroup ==
    ASSUME NEW S, NEW a \in Seq(S), NEW b \in Seq(S), NEW c \in Seq(S)
    PROVE  Regroups(a, b, c)
  BY ConcatAssociative DEF Regroups

(* Several sequences more.                                                  *)
LEMMA FlattenConcat ==
    ASSUME NEW S, NEW ss \in Seq(Seq(S)), NEW tt \in Seq(Seq(S))
    PROVE  FlattenSeq(ss \o tt) = FlattenSeq(ss) \o FlattenSeq(tt)
  <1> DEFINE P == {uu \in Seq(Seq(S)) : FlattenSeq(ss \o uu) = FlattenSeq(ss) \o FlattenSeq(uu)}
  <1>1. <<>> \in P
    <2>1. /\ <<>> \in Seq(Seq(S)) /\ ss \o <<>> = ss
          /\ FlattenSeq(ss) \o <<>> = FlattenSeq(ss)
      BY FlattenType
    <2> QED
      BY <2>1, FlattenEmpty
  <1>2. ASSUME NEW uu \in P, NEW u \in Seq(S) PROVE Append(uu, u) \in P
    <2>1. Append(uu, u) \in Seq(Seq(S)) /\ ss \o uu \in Seq(Seq(S))
      OBVIOUS
    <2>2. ss \o Append(uu, u) = Append(ss \o uu, u)
      <3> DEFINE v == <<u>>
      <3>1. uu \in Seq(Seq(S)) /\ v \in Seq(Seq(S))
        OBVIOUS
      <3>2. Append(uu, u) = uu \o v /\ Append(ss \o uu, u) = (ss \o uu) \o v
        BY <2>1, <3>1
      <3> HIDE DEF v, P
      <3>3. Regroups(ss, uu, v)
        BY <3>1, Regroup, Zenon
      <3> QED
        BY <3>2, <3>3 DEF Regroups
    <2>3. FlattenSeq(ss \o Append(uu, u)) = FlattenSeq(ss \o uu) \o u
      <3>1. FlattenSeq(Append(ss \o uu, u)) = FlattenSeq(ss \o uu) \o u
        BY <2>1, FlattenAppend, Zenon
      <3> QED
        BY <2>2, <3>1, Zenon
    <2>4. FlattenSeq(ss \o uu) = FlattenSeq(ss) \o FlattenSeq(uu)
      OBVIOUS
    <2>5. FlattenSeq(Append(uu, u)) = FlattenSeq(uu) \o u
      BY FlattenAppend, Zenon
    <2>6. (FlattenSeq(ss) \o FlattenSeq(uu)) \o u = FlattenSeq(ss) \o (FlattenSeq(uu) \o u)
      <3> DEFINE a == FlattenSeq(ss)
                 b == FlattenSeq(uu)
      <3>1. a \in Seq(S) /\ b \in Seq(S)
        BY FlattenType
      <3> HIDE DEF a, b, P
      <3>2. Regroups(a, b, u)
        BY <3>1, Regroup, Zenon
      <3> QED
        BY <3>2, Zenon DEF a, b, Regroups
    <2> QED
      BY <2>1, <2>3, <2>4, <2>5, <2>6
  <1>3. P = Seq(Seq(S))
    <2> HIDE DEF P
    <2>1. P \in SUBSET Seq(Seq(S))
      BY DEF P
    <2> QED
      BY <1>1, <1>2, <2>1, AppendInduction
  <1> QED
    BY <1>3
-----------------------------------------------------------------------------
(* What f makes of each element of s, one behind the other.                 *)
Mapped(f, s) == [i \in DOMAIN s |-> f[s[i]]]
Each(f, s) == FlattenSeq(Mapped(f, s))

(* Mapped keeps the length ...                                              *)
LEMMA MappedLen ==
    ASSUME NEW f, NEW T, NEW s \in Seq(T)
    PROVE  Len(Mapped(f, s)) = Len(s)
  <1>1. DOMAIN s = 1..Len(s) /\ Len(s) \in Nat
    OBVIOUS
  <1> DEFINE q == [i \in 1..Len(s) |-> f[s[i]]]
  <1>2. Len(q) = Len(s)
    BY <1>1
  <1> QED
    BY <1>1, <1>2 DEF Mapped

(* ... maps each element ...                                                *)
LEMMA MappedAt ==
    ASSUME NEW f, NEW T, NEW s \in Seq(T), NEW i \in 1..Len(s)
    PROVE  Mapped(f, s)[i] = f[s[i]]
  BY DEF Mapped

(* ... has the type of the images ...                                       *)
LEMMA MappedType ==
    ASSUME NEW S, NEW T, NEW f, \A x \in T : f[x] \in S, NEW s \in Seq(T)
    PROVE  Mapped(f, s) \in Seq(S)
  <1>1. DOMAIN s = 1..Len(s) /\ Len(s) \in Nat
    OBVIOUS
  <1>2. Mapped(f, s) \in [1..Len(s) -> S]
    BY <1>1 DEF Mapped
  <1> QED
    BY <1>1, <1>2

(* ... and maps the two halves of a sequence apart.                         *)
LEMMA MappedConcat ==
    ASSUME NEW f, NEW T, NEW s \in Seq(T), NEW t \in Seq(T)
    PROVE  Mapped(f, s \o t) = Mapped(f, s) \o Mapped(f, t)
  <1> DEFINE S == {f[x] : x \in T}
  <1>1. /\ Len(s) \in Nat /\ Len(t) \in Nat
        /\ s \o t \in Seq(T) /\ Len(s \o t) = Len(s) + Len(t)
        /\ \A i \in 1..Len(s) + Len(t) :
              (s \o t)[i] = IF i <= Len(s) THEN s[i] ELSE t[i - Len(s)]
    OBVIOUS
  <1> DEFINE a == Mapped(f, s)
             b == Mapped(f, t)
             c == Mapped(f, s \o t)
  <1>2. a \in Seq(S) /\ b \in Seq(S) /\ c \in Seq(S)
    BY <1>1, MappedType
  <1>3. Len(a) = Len(s) /\ Len(b) = Len(t) /\ Len(c) = Len(s) + Len(t)
    BY <1>1, MappedLen
  <1>4. /\ \A i \in 1..Len(s) : a[i] = f[s[i]]
        /\ \A i \in 1..Len(t) : b[i] = f[t[i]]
    BY MappedAt
  <1>5. \A i \in 1..Len(s \o t) : c[i] = f[(s \o t)[i]]
    <2> DEFINE st == s \o t
    <2>1. st \in Seq(T)
      BY <1>1
    <2> HIDE DEF st
    <2>2. \A i \in 1..Len(st) : Mapped(f, st)[i] = f[st[i]]
      BY <2>1, MappedAt
    <2> QED
      BY <2>2 DEF st
  <1> HIDE DEF a, b, c
  <1>8. /\ a \o b \in Seq(S) /\ Len(a \o b) = Len(a) + Len(b)
        /\ \A i \in 1..Len(a) + Len(b) :
              (a \o b)[i] = IF i <= Len(a) THEN a[i] ELSE b[i - Len(a)]
    BY <1>2, ConcatProperties, Zenon
  <1>9. ASSUME NEW i \in 1..Len(c) PROVE c[i] = (a \o b)[i]
    <2>1. i \in 1..Len(s) + Len(t)
      BY <1>3
    <2>2. /\ c[i] = f[(s \o t)[i]]
          /\ (s \o t)[i] = IF i <= Len(s) THEN s[i] ELSE t[i - Len(s)]
          /\ (a \o b)[i] = IF i <= Len(s) THEN a[i] ELSE b[i - Len(s)]
      BY <1>1, <1>3, <1>5, <1>8, <2>1, Zenon
    <2>3. CASE i <= Len(s)
      <3>1. i \in 1..Len(s)
        BY <1>1, <2>1, <2>3
      <3> QED
        BY <1>4, <2>2, <2>3, <3>1, Zenon
    <2>4. CASE ~(i <= Len(s))
      <3>1. i - Len(s) \in 1..Len(t)
        BY <1>1, <2>1, <2>4
      <3> QED
        BY <1>4, <2>2, <2>4, <3>1, Zenon
    <2> QED
      BY <2>3, <2>4
  <1>10. c = a \o b
    <2>1. Len(c) = Len(a \o b)
      BY <1>3, <1>8
    <2> QED
      BY <1>2, <1>8, <1>9, <2>1, SeqEqual, Zenon
  <1> QED
    BY <1>10 DEF a, b, c

(* What Each puts together has the elements of what f makes.                *)
LEMMA EachType ==
    ASSUME NEW S, NEW T, NEW f \in [T -> Seq(S)], NEW s \in Seq(T)
    PROVE  Each(f, s) \in Seq(S)
  BY MappedType, FlattenType, Zenon DEF Each

(* Nothing of nothing ...                                                   *)
LEMMA EachEmpty ==
    ASSUME NEW f
    PROVE  Each(f, <<>>) = <<>>
  <1>1. Mapped(f, <<>>) = <<>>
    BY DEF Mapped
  <1> QED
    BY <1>1, FlattenEmpty DEF Each

(* ... of one element what f makes of it ...                                *)
LEMMA EachOne ==
    ASSUME NEW S, NEW T, NEW f \in [T -> Seq(S)], NEW e \in T
    PROVE  Each(f, <<e>>) = f[e]
  <1>1. Mapped(f, <<e>>) = <<f[e]>>
    BY DEF Mapped
  <1> QED
    BY <1>1, FlattenOne DEF Each

Distributes(f, s, t) == Each(f, s \o t) = Each(f, s) \o Each(f, t)

(* ... and of two halves what it makes of each of them.                     *)
LEMMA EachConcat ==
    ASSUME NEW S, NEW T, NEW f \in [T -> Seq(S)], NEW s \in Seq(T), NEW t \in Seq(T)
    PROVE  Distributes(f, s, t)
  <1>1. Mapped(f, s) \in Seq(Seq(S)) /\ Mapped(f, t) \in Seq(Seq(S))
    BY MappedType, Zenon
  <1>2. Mapped(f, s \o t) = Mapped(f, s) \o Mapped(f, t)
    BY MappedConcat
  <1>3. FlattenSeq(Mapped(f, s) \o Mapped(f, t))
            = FlattenSeq(Mapped(f, s)) \o FlattenSeq(Mapped(f, t))
    BY <1>1, FlattenConcat, Zenon
  <1> QED
    BY <1>2, <1>3, Zenon DEF Distributes, Each

(* One element more.                                                        *)
AddsOne(f, s, e) == Each(f, s \o <<e>>) = Each(f, s) \o f[e]

(* Each of a sequence and one element more.                                 *)
LEMMA EachMore ==
    ASSUME NEW S, NEW T, NEW f \in [T -> Seq(S)], NEW s \in Seq(T), NEW e \in T
    PROVE  AddsOne(f, s, e)
  <1> DEFINE t == <<e>>
  <1>1. t \in Seq(T)
    OBVIOUS
  <1>2. Each(f, t) = f[e]
    <2>1. Mapped(f, t) = <<f[e]>>
      BY DEF Mapped
    <2> QED
      BY <2>1, FlattenOne DEF Each
  <1> HIDE DEF t
  <1>3. Each(f, s \o t) = Each(f, s) \o Each(f, t)
    <2>1. Mapped(f, s) \in Seq(Seq(S)) /\ Mapped(f, t) \in Seq(Seq(S))
      BY <1>1, MappedType, Zenon
    <2>2. FlattenSeq(Mapped(f, s) \o Mapped(f, t))
            = FlattenSeq(Mapped(f, s)) \o FlattenSeq(Mapped(f, t))
      BY <2>1, FlattenConcat, Zenon
    <2>3. Mapped(f, s \o t) = Mapped(f, s) \o Mapped(f, t)
      BY <1>1, MappedConcat
    <2> QED
      BY <2>2, <2>3, Zenon DEF Each
  <1> QED
    BY <1>2, <1>3 DEF t, AddsOne

(* A sequence with its last element taken off.                              *)
LEMMA LastOff ==
    ASSUME NEW S, NEW s \in Seq(S), NEW k \in 1..Len(s), k = Len(s)
    PROVE  /\ SubSeq(s, 1, k - 1) \in Seq(S) /\ Len(SubSeq(s, 1, k - 1)) = k - 1
           /\ s[k] \in S
           /\ s = SubSeq(s, 1, k - 1) \o <<s[k]>>
  <1> DEFINE m == SubSeq(s, 1, k - 1) \o <<s[k]>>
  <1>1. /\ SubSeq(s, 1, k - 1) \in Seq(S) /\ Len(SubSeq(s, 1, k - 1)) = k - 1
        /\ s[k] \in S /\ <<s[k]>> \in Seq(S)
    OBVIOUS
  <1>2. m \in Seq(S) /\ Len(m) = Len(s) /\ \A i \in 1..Len(s) : s[i] = m[i]
    OBVIOUS
  <1> HIDE DEF m
  <1>3. s = m
    BY <1>2, SeqEqual
  <1> QED
    BY <1>1, <1>3 DEF m
(* A sequence up to the element that takes the place of an old one.         *)
LEMMA UptoReplaced ==
    ASSUME NEW S, NEW s \in Seq(S), NEW k \in 1..Len(s), NEW g \in S
    PROVE  /\ [s EXCEPT ![k] = g] \in Seq(S) /\ Len([s EXCEPT ![k] = g]) = Len(s)
           /\ SubSeq(s, 1, k - 1) \in Seq(S)
           /\ SubSeq([s EXCEPT ![k] = g], 1, k) = SubSeq(s, 1, k - 1) \o <<g>>
           /\ k = Len(s) => [s EXCEPT ![k] = g] = SubSeq(s, 1, k - 1) \o <<g>>
  <1> DEFINE m == SubSeq(s, 1, k - 1) \o <<g>>
             r == [s EXCEPT ![k] = g]
             u == SubSeq(r, 1, k)
  <1>1. r \in Seq(S) /\ Len(r) = Len(s) /\ \A i \in 1..Len(s) : r[i] = IF i = k THEN g ELSE s[i]
    OBVIOUS
  <1>2. /\ SubSeq(s, 1, k - 1) \in Seq(S)
        /\ m \in Seq(S) /\ Len(m) = k /\ \A i \in 1..k : m[i] = IF i = k THEN g ELSE s[i]
    OBVIOUS
  <1> HIDE DEF r
  <1>3. u \in Seq(S) /\ Len(u) = k /\ \A i \in 1..k : u[i] = r[i]
    BY <1>1
  <1>0. 1..k \subseteq 1..Len(s) /\ k \in Nat
    OBVIOUS
  <1> HIDE DEF m, u
  <1>4. u = m
    BY <1>0, <1>1, <1>2, <1>3, SeqEqual
  <1>5. k = Len(s) => r = m
    BY <1>1, <1>2, SeqEqual
  <1> QED
    BY <1>1, <1>2, <1>4, <1>5 DEF u, m, r

(* A sequence up to where another element was put behind it.                *)
LEMMA UptoAppended ==
    ASSUME NEW S, NEW s \in Seq(S), NEW e \in S
    PROVE  SubSeq(s \o <<e>>, 1, Len(s)) = s
  <1> DEFINE u == SubSeq(s \o <<e>>, 1, Len(s))
  <1>1. u \in Seq(S) /\ Len(u) = Len(s) /\ \A i \in 1..Len(s) : u[i] = s[i]
    OBVIOUS
  <1> HIDE DEF u
  <1>2. u = s
    BY <1>1, SeqEqual
  <1> QED
    BY <1>2 DEF u

(* What Each makes of the first k elements.                                 *)
EachUpto(f, s, k) == Each(f, SubSeq(s, 1, k))

(* The elements before an element, the element and the rest.                *)
Splits(s, k, S) ==
    /\ SubSeq(s, 1, k) \in Seq(S) /\ s[k + 1] \in S
    /\ SubSeq(s, k + 2, Len(s)) \in Seq(S)
    /\ SubSeq(s, 1, k + 1) \in Seq(S)
    /\ SubSeq(s, 1, k + 1) = SubSeq(s, 1, k) \o <<s[k + 1]>>
    /\ s = SubSeq(s, 1, k + 1) \o SubSeq(s, k + 2, Len(s))

(* A sequence can be split behind any k elements, when there is one more.   *)
LEMMA SplitAt ==
    ASSUME NEW S, NEW s \in Seq(S), NEW k \in Nat, k < Len(s)
    PROVE  Splits(s, k, S)
  <1>1. /\ SubSeq(s, 1, k) \in Seq(S) /\ s[k + 1] \in S
        /\ SubSeq(s, k + 2, Len(s)) \in Seq(S)
    OBVIOUS
  <1>2. /\ Len(s) \in Nat /\ 1 \in 1..Len(s) + 1 /\ 1 \in 1..Len(s)
        /\ k + 1 \in 1..Len(s) /\ k + 1 \in 1 - 1..Len(s) /\ Len(s) \in k + 1..Len(s)
        /\ (k + 1) - 1 = k /\ (k + 1) + 1 = k + 2
    OBVIOUS
  <1>3. SubSeq(s, 1, k + 1) = SubSeq(s, 1, k) \o <<s[k + 1]>>
    BY <1>2, SubSeqRecursiveSecond
  <1>4. SubSeq(s, 1, k + 1) \o SubSeq(s, k + 2, Len(s)) = SubSeq(s, 1, Len(s))
    BY <1>2, ConcatAdjacentSubSeq
  <1>5. SubSeq(s, 1, Len(s)) = s
    BY SubSeqFull
  <1>6. SubSeq(s, 1, k + 1) \in Seq(S)
    BY <1>2
  <1> QED
    BY <1>1, <1>3, <1>4, <1>5, <1>6, Zenon DEF Splits

StandsAt(f, s, k, S) ==
    /\ EachUpto(f, s, k) \in Seq(S)
    /\ EachUpto(f, s, k + 1) = EachUpto(f, s, k) \o f[s[k + 1]]
    /\ \E r \in Seq(S) : Each(f, s) = EachUpto(f, s, k + 1) \o r

(* What Each makes of an element stands behind what it makes of those       *)
(* before.                                                                  *)
LEMMA EachAt ==
    ASSUME NEW S, NEW T, NEW f \in [T -> Seq(S)], NEW s \in Seq(T), NEW k \in Nat, k < Len(s)
    PROVE  StandsAt(f, s, k, S)
  <1>1. /\ SubSeq(s, 1, k) \in Seq(T) /\ s[k + 1] \in T
        /\ SubSeq(s, k + 2, Len(s)) \in Seq(T)
        /\ SubSeq(s, 1, k + 1) = SubSeq(s, 1, k) \o <<s[k + 1]>>
        /\ s = SubSeq(s, 1, k + 1) \o SubSeq(s, k + 2, Len(s))
        /\ SubSeq(s, 1, k + 1) \in Seq(T)
    <2>1. Splits(s, k, T)
      BY SplitAt, Zenon
    <2> QED
      BY <2>1, Zenon DEF Splits
  <1>2. AddsOne(f, SubSeq(s, 1, k), s[k + 1])
    BY <1>1, EachMore, Zenon
  <1>3. Distributes(f, SubSeq(s, 1, k + 1), SubSeq(s, k + 2, Len(s)))
    BY <1>1, EachConcat, Zenon
  <1>4. Each(f, SubSeq(s, 1, k)) \in Seq(S) /\ Each(f, SubSeq(s, k + 2, Len(s))) \in Seq(S)
    BY <1>1, EachType, Zenon
  <1>5. Each(f, SubSeq(s, 1, k + 1)) = Each(f, SubSeq(s, 1, k)) \o f[s[k + 1]]
    BY <1>1, <1>2, Zenon DEF AddsOne
  <1>6. Each(f, s) = Each(f, SubSeq(s, 1, k + 1)) \o Each(f, SubSeq(s, k + 2, Len(s)))
    BY <1>1, <1>3, Zenon DEF Distributes
  <1> QED
    BY <1>4, <1>5, <1>6, Zenon DEF EachUpto, StandsAt

(* Each makes all of the whole, and nothing of nothing.                     *)
LEMMA UptoEnds ==
    ASSUME NEW S, NEW T, NEW f \in [T -> Seq(S)], NEW s \in Seq(T)
    PROVE  EachUpto(f, s, 0) = <<>> /\ EachUpto(f, s, Len(s)) = Each(f, s)
  <1>1. SubSeq(s, 1, 0) = <<>> /\ SubSeq(s, 1, Len(s)) = s
    BY SubSeqFull
  <1> QED
    BY <1>1, EachEmpty DEF EachUpto

-----------------------------------------------------------------------------
OnePart(g, h, n) == FlattenSeq(h) = FlattenSeq(g) \o h[n + 1]

(* One part more of what is put together.                                   *)
LEMMA OnePartMore ==
    ASSUME NEW S, NEW n \in Nat, NEW g \in [1..n -> Seq(S)], NEW h \in [1..n + 1 -> Seq(S)],
           \A i \in 1..n : h[i] = g[i]
    PROVE  OnePart(g, h, n) /\ FlattenSeq(g) \in Seq(S) /\ h[n + 1] \in Seq(S)
  <1>1. /\ g \in Seq(Seq(S)) /\ Len(g) = n
        /\ h \in Seq(Seq(S)) /\ Len(h) = n + 1 /\ h[n + 1] \in Seq(S)
    OBVIOUS
  <1> DEFINE a == Append(g, h[n + 1])
  <1>2. a \in Seq(Seq(S)) /\ Len(a) = n + 1 /\ a[n + 1] = h[n + 1]
        /\ \A i \in 1..n : a[i] = g[i]
    BY <1>1, AppendProperties
  <1>3. FlattenSeq(a) = FlattenSeq(g) \o h[n + 1]
    BY <1>1, FlattenAppend
  <1> HIDE DEF a
  <1>4. ASSUME NEW i \in 1..Len(h) PROVE h[i] = a[i]
    <2>1. i = n + 1 \/ i \in 1..n
      BY <1>1
    <2> QED
      BY <1>2, <2>1
  <1>5. h = a
    BY <1>1, <1>2, <1>4, SeqEqual
  <1>6. FlattenSeq(g) \in Seq(S)
    BY <1>1, FlattenType
  <1> QED
    BY <1>1, <1>3, <1>5, <1>6 DEF OnePart

(* Three elements, one by one.                                              *)
LEMMA ThreeElements ==
    ASSUME NEW a, NEW x, NEW z
    PROVE  <<a, x, z>> = (<<a>> \o <<x>>) \o <<z>>
  <1> DEFINE S == {a, x, z}
             l == <<a, x, z>>
             r == (<<a>> \o <<x>>) \o <<z>>
  <1>1. l \in Seq(S) /\ Len(l) = 3 /\ l[1] = a /\ l[2] = x /\ l[3] = z
    OBVIOUS
  <1>2. r \in Seq(S) /\ Len(r) = 3 /\ r[1] = a /\ r[2] = x /\ r[3] = z
    <2> DEFINE p == <<a>> \o <<x>>
    <2>1. p \in Seq(S) /\ Len(p) = 2 /\ p[1] = a /\ p[2] = x
      OBVIOUS
    <2> HIDE DEF p
    <2> QED
      BY <2>1
  <1> HIDE DEF l, r
  <1>3. \A j \in 1..3 : j = 1 \/ j = 2 \/ j = 3
    OBVIOUS
  <1>4. l = r
    BY <1>1, <1>2, <1>3, SeqEqual
  <1> QED
    BY <1>4 DEF l, r

(* A function on the first numbers is a sequence.                           *)
LEMMA FunctionIsSequence ==
    ASSUME NEW S, NEW n \in Nat, NEW f \in [1..n -> S]
    PROVE  f \in Seq(S)
  OBVIOUS

(* A set of positions that has n + 1, and each position with all behind it, *)
(* has all.                                                                *)
LEMMA DownInduction ==
    ASSUME NEW n \in Nat, NEW P, n + 1 \in P,
           \A p \in 1..n : (\A q \in p + 1..n + 1 : q \in P) => p \in P
    PROVE  \A p \in 1..n + 1 : p \in P
  <1> DEFINE Q == {k \in Nat : \A p \in 1..n + 1 : p >= n + 1 - k => p \in P}
  <1>1. 0 \in Q
    OBVIOUS
  <1>2. ASSUME NEW k \in Q PROVE k + 1 \in Q
    <2> SUFFICES ASSUME NEW p \in 1..n + 1, p >= n + 1 - (k + 1) PROVE p \in P
      OBVIOUS
    <2>1. k \in Nat /\ \A q \in 1..n + 1 : q >= n + 1 - k => q \in P
      OBVIOUS
    <2>2. CASE p = n + 1
      BY <2>2
    <2>3. CASE p # n + 1
      <3>1. p \in 1..n /\ \A q \in p + 1..n + 1 : q \in 1..n + 1 /\ q >= n + 1 - k
        BY <2>1, <2>3
      <3> QED
        BY <2>1, <3>1
    <2> QED
      BY <2>2, <2>3
  <1>3. Q = Nat
    <2>1. Q \in SUBSET Nat
      OBVIOUS
    <2> HIDE DEF Q
    <2> QED
      BY <1>1, <1>2, <2>1, NumberInduction
  <1>4. n + 1 \in Q /\ n + 1 - (n + 1) = 0
    BY <1>3
  <1> QED
    BY <1>4

(* A set of positions that is not empty has a greatest one.                *)
LEMMA MaxExists ==
    ASSUME NEW n \in Nat, NEW E \in SUBSET (0..n), E # {}
    PROVE  \E e \in E : \A m \in E : m <= e
  <1> DEFINE P == {k \in Nat : \A F \in SUBSET (0..k) : F # {} => \E e \in F : \A m \in F : m <= e}
  <1>1. 0 \in P
    <2> SUFFICES ASSUME NEW F \in SUBSET (0..0), F # {}
                 PROVE  \E e \in F : \A m \in F : m <= e
      OBVIOUS
    <2>1. \A m \in F : m = 0
      OBVIOUS
    <2>2. PICK e \in F : TRUE
      OBVIOUS
    <2>3. \A m \in F : m <= e
      BY <2>1
    <2> QED
      BY <2>3
  <1>2. ASSUME NEW k \in P PROVE k + 1 \in P
    <2> SUFFICES ASSUME NEW F \in SUBSET (0..k + 1), F # {}
                 PROVE  \E e \in F : \A m \in F : m <= e
      OBVIOUS
    <2>1. CASE k + 1 \in F
      BY <2>1
    <2>2. CASE k + 1 \notin F
      <3>1. F \in SUBSET (0..k)
        BY <2>2
      <3> QED
        BY <3>1
    <2> QED
      BY <2>1, <2>2
  <1>3. P = Nat
    <2>1. P \in SUBSET Nat
      OBVIOUS
    <2> HIDE DEF P
    <2> QED
      BY <1>1, <1>2, <2>1, NumberInduction
  <1> QED
    BY <1>3

(* Positions of a sequence and its elements.                               *)
LEMMA PlacesOf ==
    ASSUME NEW S, NEW s \in Seq(S), NEW p \in 1..Len(s)
    PROVE  /\ DOMAIN s = 1..Len(s) /\ p \in DOMAIN s /\ s[p] \in S
           /\ \A k \in p..Len(s) : k \in 1..Len(s)
  OBVIOUS

(* c is the last position of l with an element of K.                       *)
LastOf(l, K, c) ==
    /\ c \in 0..Len(l)
    /\ c = 0 \/ l[c] \in K
    /\ \A k \in c + 1..Len(l) : l[k] \notin K

(* There is a last position, or none, and then it is 0.                    *)
LEMMA LastOfExists ==
    ASSUME NEW S, NEW l \in Seq(S), NEW K
    PROVE  \E c \in 0..Len(l) : LastOf(l, K, c)
  <1> DEFINE E == {0} \cup {k \in 1..Len(l) : l[k] \in K}
  <1>1. Len(l) \in Nat /\ E \in SUBSET (0..Len(l)) /\ 0 \in E
    OBVIOUS
  <1>2. PICK c \in E : \A m \in E : m <= c
    <2> HIDE DEF E
    <2> QED BY <1>1, MaxExists
  <1>3. c \in 0..Len(l) /\ (c = 0 \/ l[c] \in K)
    BY <1>1, <1>2
  <1>4. ASSUME NEW k \in c + 1..Len(l), l[k] \in K
        PROVE  FALSE
    <2>1. k \in E
      BY <1>3, <1>4
    <2> HIDE DEF E
    <2>2. k <= c
      BY <1>2, <2>1
    <2> QED BY <1>3, <2>2
  <1> QED BY <1>3, <1>4 DEF LastOf

(* Something between two tags.                                             *)
Encloses(x, a, y) ==
    /\ Len(<<x>> \o a \o <<y>>) = Len(a) + 2
    /\ (<<x>> \o a \o <<y>>)[1] = x
    /\ (<<x>> \o a \o <<y>>)[Len(a) + 2] = y
    /\ \A i \in 1..Len(a) : (<<x>> \o a \o <<y>>)[i + 1] = a[i]

(* Where the tags and what is between them are.                            *)
LEMMA Enclosed ==
    ASSUME NEW S, NEW x \in S, NEW a \in Seq(S), NEW y \in S
    PROVE  Encloses(x, a, y)
  <1> DEFINE u == <<x>>
             v == <<y>>
             w == u \o a
  <1>1. /\ u \in Seq(S) /\ v \in Seq(S) /\ Len(u) = 1 /\ Len(v) = 1 /\ u[1] = x /\ v[1] = y
        /\ Len(a) \in Nat
    OBVIOUS
  <1> HIDE DEF u, v
  <1>2. /\ w \in Seq(S) /\ Len(w) = 1 + Len(a)
        /\ \A i \in 1..1 + Len(a) : w[i] = IF i <= 1 THEN u[i] ELSE a[i - 1]
    <2>1. /\ u \o a \in Seq(S) /\ Len(u \o a) = Len(u) + Len(a)
          /\ \A i \in 1..Len(u) + Len(a) : (u \o a)[i] = IF i <= Len(u) THEN u[i] ELSE a[i - Len(u)]
      BY <1>1, ConcatProperties
    <2> QED BY <1>1, <2>1
  <1> HIDE DEF w
  <1>3. /\ Len(w \o v) = (1 + Len(a)) + 1
        /\ \A i \in 1..(1 + Len(a)) + 1 : (w \o v)[i] = IF i <= 1 + Len(a) THEN w[i] ELSE v[i - (1 + Len(a))]
    <2>1. /\ Len(w \o v) = Len(w) + Len(v)
          /\ \A i \in 1..Len(w) + Len(v) : (w \o v)[i] = IF i <= Len(w) THEN w[i] ELSE v[i - Len(w)]
      BY <1>1, <1>2, ConcatProperties
    <2> QED BY <1>1, <1>2, <2>1
  <1> DEFINE z == w \o v
  <1>4. /\ Len(z) = Len(a) + 2 /\ z[1] = x /\ z[Len(a) + 2] = y
        /\ \A i \in 1..Len(a) : z[i + 1] = a[i]
    <2> HIDE DEF z
    <2>1. /\ Len(z) = (1 + Len(a)) + 1
          /\ \A i \in 1..(1 + Len(a)) + 1 : z[i] = IF i <= 1 + Len(a) THEN w[i] ELSE v[i - (1 + Len(a))]
      BY <1>3 DEF z
    <2>2. z[1] = w[1] /\ w[1] = u[1]
      BY <1>1, <1>2, <2>1
    <2>3. z[Len(a) + 2] = v[1]
      <3>1. Len(a) + 2 \in 1..(1 + Len(a)) + 1 /\ ~(Len(a) + 2 <= 1 + Len(a)) /\ (Len(a) + 2) - (1 + Len(a)) = 1
        BY <1>1
      <3> QED BY <2>1, <3>1
    <2>4. ASSUME NEW i \in 1..Len(a)
          PROVE  z[i + 1] = a[i]
      <3>1. i + 1 \in 1..1 + Len(a) /\ ~(i + 1 <= 1) /\ (i + 1) - 1 = i /\ i + 1 \in 1..(1 + Len(a)) + 1 /\ i + 1 <= 1 + Len(a)
        BY <1>1
      <3> QED BY <1>2, <2>1, <3>1
    <2> QED BY <1>1, <2>1, <2>2, <2>3, <2>4
  <1> QED BY <1>4 DEF z, w, u, v, Encloses

(* x is nowhere in front of y.                                             *)
Apart(l, x, y) == \A k \in 1..Len(l) - 1 : ~(l[k] = x /\ l[k + 1] = y)

(* Nor where two such sequences meet.                                      *)
Meets(a, b, x, y) == Len(a) > 0 /\ Len(b) > 0 /\ a[Len(a)] = x /\ b[1] = y

(* Two such sequences are one, if x and y do not meet.                     *)
LEMMA ApartConcat ==
    ASSUME NEW S, NEW a \in Seq(S), NEW b \in Seq(S), NEW x, NEW y, Apart(a, x, y), Apart(b, x, y),
           ~Meets(a, b, x, y)
    PROVE  Apart(a \o b, x, y)
  <1> DEFINE l == a \o b
  <1>1. /\ Len(l) = Len(a) + Len(b)
        /\ \A i \in 1..Len(a) + Len(b) : l[i] = IF i <= Len(a) THEN a[i] ELSE b[i - Len(a)]
    BY ConcatProperties
  <1>2. Len(a) \in Nat /\ Len(b) \in Nat
    OBVIOUS
  <1> HIDE DEF l
  <1>3. SUFFICES ASSUME NEW k \in 1..Len(l) - 1, l[k] = x, l[k + 1] = y
                 PROVE  FALSE
    BY DEF Apart, l
  <1>4. k \in 1..Len(a) + Len(b) /\ k + 1 \in 1..Len(a) + Len(b)
    BY <1>1, <1>2
  <1>5. CASE k < Len(a)
    <2>1. l[k] = a[k] /\ l[k + 1] = a[k + 1] /\ k \in 1..Len(a) - 1
      BY <1>1, <1>2, <1>4, <1>5
    <2> QED BY <1>3, <2>1 DEF Apart
  <1>6. CASE k = Len(a)
    <2>1. l[k] = a[Len(a)] /\ l[k + 1] = b[(k + 1) - Len(a)]
      BY <1>1, <1>2, <1>4, <1>6
    <2>2. (k + 1) - Len(a) = 1 /\ Len(a) > 0 /\ Len(b) > 0
      BY <1>1, <1>2, <1>4, <1>6
    <2> QED BY <1>3, <2>1, <2>2 DEF Meets
  <1>7. CASE k > Len(a)
    <2>1. l[k] = b[k - Len(a)] /\ l[k + 1] = b[(k + 1) - Len(a)]
      BY <1>1, <1>2, <1>4, <1>7
    <2>2. k - Len(a) \in 1..Len(b) - 1 /\ (k + 1) - Len(a) = (k - Len(a)) + 1
      BY <1>1, <1>2, <1>4, <1>7
    <2> QED BY <1>3, <2>1, <2>2 DEF Apart
  <1> QED BY <1>2, <1>5, <1>6, <1>7

(* A part of such a sequence is one.                                       *)
LEMMA ApartPart ==
    ASSUME NEW S, NEW l \in Seq(S), NEW x, NEW y, Apart(l, x, y), NEW i \in 1..Len(l) + 1, NEW j \in 0..Len(l)
    PROVE  Apart(SubSeq(l, i, j), x, y)
  <1>1. /\ Len(SubSeq(l, i, j)) = (IF i <= j THEN (j - i) + 1 ELSE 0)
        /\ \A k \in 1..(j - i) + 1 : SubSeq(l, i, j)[k] = l[(i + k) - 1]
    <2>1. \A k \in i..j : l[k] \in S
      OBVIOUS
    <2> QED BY <2>1, SubSeqProperties
  <1> DEFINE a == SubSeq(l, i, j)
  <1> HIDE DEF a
  <1>2. SUFFICES ASSUME NEW k \in 1..Len(a) - 1, a[k] = x, a[k + 1] = y
                 PROVE  FALSE
    BY DEF Apart, a
  <1>3. Len(a) = (IF i <= j THEN (j - i) + 1 ELSE 0) /\ \A h \in 1..(j - i) + 1 : a[h] = l[(i + h) - 1]
    BY <1>1 DEF a
  <1>4. /\ k \in 1..(j - i) + 1 /\ k + 1 \in 1..(j - i) + 1 /\ (i + (k + 1)) - 1 = ((i + k) - 1) + 1
        /\ (i + k) - 1 \in 1..Len(l) - 1
    BY <1>2, <1>3
  <1>5. a[k] = l[(i + k) - 1] /\ a[k + 1] = l[((i + k) - 1) + 1]
    BY <1>3, <1>4
  <1> QED BY <1>2, <1>4, <1>5 DEF Apart

(* And one in a tag, unless the tag is x or y.                             *)
LEMMA ApartEnclosed ==
    ASSUME NEW S, NEW u \in S, NEW a \in Seq(S), NEW v \in S, NEW x, NEW y, Apart(a, x, y), u # x, v # y
    PROVE  Apart(<<u>> \o a \o <<v>>, x, y)
  <1> DEFINE b == <<u>>
             c == <<v>>
  <1>1. b \in Seq(S) /\ c \in Seq(S) /\ Len(b) = 1 /\ Len(c) = 1 /\ b[1] = u /\ c[1] = v
    OBVIOUS
  <1> HIDE DEF b, c
  <1>2. Apart(b, x, y) /\ Apart(c, x, y) /\ ~Meets(b, a, x, y)
    BY <1>1 DEF Apart, Meets
  <1>3. Apart(b \o a, x, y) /\ b \o a \in Seq(S)
    BY <1>1, <1>2, ApartConcat, ConcatProperties
  <1>4. ~Meets(b \o a, c, x, y)
    BY <1>1 DEF Meets
  <1>5. Apart((b \o a) \o c, x, y)
    <2> DEFINE d == b \o a
    <2> HIDE DEF d
    <2>1. Apart(d \o c, x, y)
      BY <1>1, <1>2, <1>3, <1>4, ApartConcat DEF d
    <2> QED BY <2>1 DEF d
  <1> QED BY <1>5 DEF b, c

(* Positions are numbers.                                                  *)
LEMMA RangeType ==
    ASSUME NEW S, NEW l \in Seq(S), NEW p \in 1..Len(l)
    PROVE  p \in Nat /\ \A e \in p..Len(l) : e \in Nat
  OBVIOUS

(* A position that is not the last, and the next one.                      *)
LEMMA NextPlace ==
    ASSUME NEW S, NEW l \in Seq(S), NEW p \in 1..Len(l) - 1
    PROVE  p \in DOMAIN l /\ p \in 1..Len(l) /\ p + 1 \in DOMAIN l /\ p + 1 \in 1..Len(l)
  OBVIOUS

(* Two sequences begin as the first does.                                  *)
LEMMA FirstOf ==
    ASSUME NEW S, NEW a \in Seq(S), NEW b \in Seq(S), Len(a) > 0
    PROVE  (a \o b)[1] = a[1] /\ Len(a \o b) > 0
  <1>1. 1 \in 1..Len(a) + Len(b) /\ 1 <= Len(a) /\ Len(a) + Len(b) > 0
    OBVIOUS
  <1> QED BY <1>1, ConcatProperties

(* The positions of a sequence.                                            *)
LEMMA DomainIs ==
    ASSUME NEW S, NEW l \in Seq(S)
    PROVE  DOMAIN l = 1..Len(l)
  <1> QED OBVIOUS

(* A position that is not the first, and the one before it.                *)
LEMMA PlaceBefore ==
    ASSUME NEW S, NEW l \in Seq(S), NEW p \in DOMAIN l, p > 1
    PROVE  p - 1 \in 1..Len(l) - 1 /\ (p - 1) + 1 = p
  <1> QED OBVIOUS

(* A sequence of one element.                                              *)
LEMMA OneToken ==
    ASSUME NEW S, NEW x \in S
    PROVE  <<x>> \in Seq(S) /\ \A k \in 1..Len(<<x>>) : <<x>>[k] = x
  <1> QED OBVIOUS

(* The first of two sequences has its elements where it had them.          *)
LEMMA FrontOf ==
    ASSUME NEW S, NEW a \in Seq(S), NEW b \in Seq(S), NEW x \in 1..Len(a)
    PROVE  (a \o b)[x] = a[x]
  <1>1. x \in 1..Len(a) + Len(b) /\ x <= Len(a)
    OBVIOUS
  <1> QED BY <1>1, ConcatProperties

(* Of two elements that meet behind the first, the first is alone.         *)
LEMMA SecondOf ==
    ASSUME NEW S, NEW y \in S, NEW b \in Seq(S), NEW x \in 1..Len(<<y>>), x + 1 \in 1..Len(<<y>> \o b)
    PROVE  x = 1 /\ Len(b) > 0 /\ (<<y>> \o b)[x + 1] = b[1]
  <1> DEFINE a == <<y>>
  <1>1. a \in Seq(S) /\ Len(a) = 1
    OBVIOUS
  <1>2. x \in 1..Len(a) /\ x + 1 \in 1..Len(a \o b)
    OBVIOUS
  <1> HIDE DEF a
  <1>3. /\ Len(a \o b) = Len(a) + Len(b)
        /\ \A i \in 1..Len(a) + Len(b) : (a \o b)[i] = IF i <= Len(a) THEN a[i] ELSE b[i - Len(a)]
    BY <1>1, ConcatProperties
  <1>4. /\ x = 1 /\ Len(b) > 0 /\ x + 1 \in 1..Len(a) + Len(b) /\ ~(x + 1 <= Len(a))
        /\ (x + 1) - Len(a) = 1
    <2>1. Len(b) \in Nat
      OBVIOUS
    <2> DEFINE d == Len(b)
    <2>2. Len(a \o b) = 1 + d
      BY <1>1, <1>3, Zenon
    <2>3. x \in 1..1 /\ x + 1 \in 1..1 + d
      BY <1>1, <1>2, <2>2
    <2> HIDE DEF d
    <2>4. /\ x = 1 /\ d > 0 /\ x + 1 \in 1..1 + d /\ ~(x + 1 <= 1) /\ (x + 1) - 1 = 1
      BY <2>1, <2>3 DEF d
    <2> QED BY <1>1, <2>4, Zenon DEF d
  <1>5. (a \o b)[x + 1] = b[1]
    BY <1>3, <1>4, Zenon
  <1> QED BY <1>4, <1>5 DEF a
=============================================================================
