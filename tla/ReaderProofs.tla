----------------------------- MODULE ReaderProofs -----------------------------
(***************************************************************************)
(* ClientReader for streams of any number of requests, cut in pieces of any *)
(* size: what is handled is what was sent, in order, and a request that has *)
(* arrived waits only at the end of a bulk string.                          *)
(***************************************************************************)
EXTENDS ClientReader, TLAPS, SequenceTheorems, FiniteSetTheorems, WellFoundedInduction

\* What a connection sends is made of.
Byte == STRING \cup {CR, LF, "*", "$"} \cup {Digit(n) : n \in 0..9}

Text == Seq(Byte)

-----------------------------------------------------------------------------
(***************************************************************************)
(* Sequences of bytes.                                                      *)
(***************************************************************************)

\* Of some numbers one is the least.
LEMMA LeastExists ==
    ASSUME NEW S, S \subseteq Nat, S # {}
    PROVE  \E m \in S : \A n \in S : m <= n
<1>1. PICK m \in S : \A n \in S : ~(<<n, m>> \in OpToRel(<, Nat))
  BY NatLessThanWellFounded, WFMin
<1>2. \A n \in S : ~(n < m)
  BY <1>1 DEF OpToRel
<1>3. \A n \in S : m <= n
  BY <1>2
<1> QED BY <1>3

\* Concatenation.
LEMMA Joined ==
    ASSUME NEW s \in Text, NEW t \in Text
    PROVE  /\ s \o t \in Text /\ Len(s) \in Nat /\ Len(s \o t) = Len(s) + Len(t)
           /\ s \o <<>> = s /\ <<>> \o s = s
BY DEF Text

\* Concatenation is associative.
LEMMA JoinedThrice ==
    ASSUME NEW s \in Text, NEW t \in Text, NEW u \in Text
    PROVE  s \o (t \o u) = (s \o t) \o u
BY ConcatAssociative, SMTT(30) DEF Text

\* What follows the same beginning in the same text is the same.
LEMMA JoinedAlike ==
    ASSUME NEW s \in Text, NEW t \in Text, NEW u \in Text, s \o t = s \o u
    PROVE  t = u
BY ConcatSimplifications DEF Text

\* The parts of a text behind the same beginning.
LEMMA JoinedRest ==
    ASSUME NEW h \in Text, NEW r \in Text, NEW t \in Text, NEW y \in Text, (h \o r) \o t = h \o y
    PROVE  r \o t = y
<1>1. h \o (r \o t) = (h \o r) \o t /\ r \o t \in Text
  BY Joined, JoinedThrice, SMTT(60)
<1>2. h \o (r \o t) = h \o y
  BY <1>1
<1> QED BY <1>1, <1>2, JoinedAlike

\* What is left of a buffer that starts with h, and of what comes after it.
LEMMA Drained ==
    ASSUME NEW s \in Text, NEW t \in Text, NEW h \in Text, NEW y \in Text, s \o t = h \o y
    PROVE  /\ \A k \in 1..Len(h) : k <= Len(s) => s[k] = h[k]
           /\ Len(h) <= Len(s) => /\ SubSeq(s, 1, Len(h)) = h
                                  /\ SubSeq(s, Len(h) + 1, Len(s)) \in Text
                                  /\ SubSeq(s, Len(h) + 1, Len(s)) \o t = y
<1>1. \A k \in 1..Len(h) : k <= Len(s) => s[k] = h[k]
  <2> TAKE k \in 1..Len(h)
  <2> HAVE k <= Len(s)
  <2>1. (s \o t)[k] = s[k] /\ (h \o y)[k] = h[k]
    BY DEF Text
  <2> QED BY <2>1
<1>2. ASSUME Len(h) <= Len(s)
      PROVE  /\ SubSeq(s, 1, Len(h)) = h
             /\ SubSeq(s, Len(h) + 1, Len(s)) \in Text
             /\ SubSeq(s, Len(h) + 1, Len(s)) \o t = y
  <2> DEFINE r == SubSeq(s, Len(h) + 1, Len(s))
             f == SubSeq(s, 1, Len(h))
  <2>0. Len(h) \in Nat /\ Len(s) \in Nat
    BY DEF Text
  <2>1. r \in Text /\ f \in Text /\ Len(f) = Len(h)
    BY <1>2, <2>0 DEF Text
  <2>2. f = h
    <3>1. \A k \in 1..Len(h) : f[k] = h[k]
      BY <1>1, <1>2, <2>0 DEF Text
    <3> QED BY <2>1, <3>1, SeqEqual DEF Text
  <2>3. f \o r = s
    <3>1. 1 \in 1..(Len(s) + 1) /\ Len(h) \in 0..Len(s) /\ Len(s) \in Len(h)..Len(s) /\ 1 - 1 = 0
      BY <1>2, <2>0
    <3>2. f \o r = SubSeq(s, 1, Len(s))
      BY <3>1, ConcatAdjacentSubSeq DEF Text
    <3> QED BY <3>2, SubSeqFull DEF Text
  <2> HIDE DEF r, f
  <2>4. r \o t = y
    <3>1. (h \o r) \o t = h \o y
      BY <2>2, <2>3
    <3>2. r \in Text
      BY <2>1
    <3>3. \A a, b, c, d \in Text : (a \o b) \o c = a \o d => b \o c = d
      BY JoinedRest
    <3>4. (h \o r) \o t = h \o y => r \o t = y
      <4>1. h \in Text
        OBVIOUS
      <4>2. t \in Text
        OBVIOUS
      <4>3. y \in Text
        OBVIOUS
      <4>4. \A b, c, d \in Text : (h \o b) \o c = h \o d => b \o c = d
        BY <4>1, <3>3, Zenon
      <4>5. \A b, d \in Text : (h \o b) \o t = h \o d => b \o t = d
        BY <4>2, <4>4, Zenon
      <4>6. \A b \in Text : (h \o b) \o t = h \o y => b \o t = y
        BY <4>3, <4>5, Zenon
      <4> QED BY <3>2, <4>6, Zenon
    <3> QED BY <3>1, <3>4
  <2> QED BY <2>1, <2>2, <2>4 DEF r, f
<1> QED BY <1>1, <1>2

-----------------------------------------------------------------------------
(***************************************************************************)
(* What several texts are one after the other.                              *)
(***************************************************************************)

\* The texts up to each of the first m, joined.
IsFlat(g, texts, m) ==
    g = [i \in 1..m |-> IF i = 1 THEN texts[i] ELSE g[i - 1] \o texts[i]]

\* There are such.
LEMMA FlatExists ==
    ASSUME NEW texts, NEW m \in Nat
    PROVE  \E g : IsFlat(g, texts, m)
<1> DEFINE S == {n \in Nat : ~\E g : IsFlat(g, texts, n)}
<1> SUFFICES ASSUME S # {} PROVE FALSE
  OBVIOUS
<1>1. PICK n \in S : \A i \in S : n <= i
  BY LeastExists
<1>2. n \in Nat /\ ~\E g : IsFlat(g, texts, n)
  BY <1>1
<1>3. CASE n = 0
  <2> DEFINE g == [i \in 1..0 |-> texts[i]]
  <2>1. g = [i \in 1..0 |-> IF i = 1 THEN texts[i] ELSE g[i - 1] \o texts[i]]
    OBVIOUS
  <2> QED BY <1>2, <1>3, <2>1 DEF IsFlat
<1>4. CASE n # 0
  <2>1. n - 1 \in Nat /\ ~(n <= n - 1)
    BY <1>2, <1>4
  <2>2. n - 1 \notin S
    BY <1>1, <2>1
  <2>3. PICK g : IsFlat(g, texts, n - 1)
    BY <2>1, <2>2
  <2> DEFINE last == IF n = 1 THEN texts[n] ELSE g[n - 1] \o texts[n]
             e == [i \in 1..n |-> IF i = n THEN last ELSE g[i]]
  <2>4. ASSUME NEW i \in 1..n
        PROVE  e[i] = IF i = 1 THEN texts[i] ELSE e[i - 1] \o texts[i]
    <3>1. CASE i = n
      <4>1. n # 1 => e[n - 1] = g[n - 1]
        BY <1>2, <1>4
      <4> QED BY <3>1, <4>1
    <3>2. CASE i # n
      <4>1. i \in 1..(n - 1)
        BY <1>2, <3>2
      <4>2. g[i] = IF i = 1 THEN texts[i] ELSE g[i - 1] \o texts[i]
        BY <2>3, <4>1 DEF IsFlat
      <4>3. e[i] = g[i] /\ (i # 1 => e[i - 1] = g[i - 1])
        BY <1>2, <3>2
      <4> HIDE DEF e
      <4> QED BY <4>2, <4>3
    <3> QED BY <3>1, <3>2
  <2>5. e = [i \in 1..n |-> e[i]]
    OBVIOUS
  <2> HIDE DEF e
  <2>6. e = [i \in 1..n |-> IF i = 1 THEN texts[i] ELSE e[i - 1] \o texts[i]]
    BY <2>4, <2>5
  <2> QED BY <1>2, <2>6 DEF IsFlat
<1> QED BY <1>3, <1>4

\* The first texts are joined alike, whatever follows them.
LEMMA FlatAgrees ==
    ASSUME NEW texts, NEW others, NEW m \in Nat, NEW l \in Nat, m <= l,
           \A i \in 1..m : texts[i] = others[i],
           NEW d, IsFlat(d, texts, m), NEW e, IsFlat(e, others, l)
    PROVE  \A i \in 1..m : d[i] = e[i]
<1> DEFINE S == {n \in 1..m : d[n] # e[n]}
<1> SUFFICES ASSUME S # {} PROVE FALSE
  OBVIOUS
<1>1. PICK n \in S : \A i \in S : n <= i
  <2>1. S \subseteq Nat
    OBVIOUS
  <2> HIDE DEF S
  <2> QED BY <2>1, LeastExists
<1>2. n \in 1..m /\ n \in 1..l /\ d[n] # e[n]
  BY <1>1
<1>3. d[n] = IF n = 1 THEN texts[n] ELSE d[n - 1] \o texts[n]
  BY <1>2 DEF IsFlat
<1>4. e[n] = IF n = 1 THEN others[n] ELSE e[n - 1] \o others[n]
  BY <1>2 DEF IsFlat
<1>5. n # 1 => d[n - 1] = e[n - 1]
  <2>1. n # 1 => n - 1 \in 1..m /\ ~(n <= n - 1)
    BY <1>2
  <2> QED BY <1>1, <2>1
<1>6. texts[n] = others[n]
  BY <1>2
<1> QED BY <1>2, <1>3, <1>4, <1>5, <1>6

\* FlattenSeq of one text at least joins them.
LEMMA FlattenIs ==
    ASSUME NEW texts, Len(texts) \in Nat, Len(texts) # 0
    PROVE  \E g : IsFlat(g, texts, Len(texts)) /\ FlattenSeq(texts) = g[Len(texts)]
<1> DEFINE g == CHOOSE f : f = [i \in 1..Len(texts) |-> IF i = 1 THEN texts[i] ELSE f[i - 1] \o texts[i]]
<1>1. \E f : f = [i \in 1..Len(texts) |-> IF i = 1 THEN texts[i] ELSE f[i - 1] \o texts[i]]
  <2>1. \E f : IsFlat(f, texts, Len(texts))
    BY FlatExists
  <2> QED BY <2>1, Zenon DEF IsFlat
<1>2. g = [i \in 1..Len(texts) |-> IF i = 1 THEN texts[i] ELSE g[i - 1] \o texts[i]]
  BY <1>1, Zenon
<1>3. FlattenSeq(texts) = g[Len(texts)]
  BY Zenon DEF FlattenSeq
<1> HIDE DEF g
<1> QED BY <1>2, <1>3, Zenon DEF IsFlat

\* The first m texts, joined.
FirstOf(texts, m) == FlattenSeq(SubSeq(texts, 1, m))

\* Joined one by one.
LEMMA FirstOfOneMore ==
    ASSUME NEW texts \in Seq(Text)
    PROVE  /\ FirstOf(texts, 0) = <<>>
           /\ \A m \in 0..(Len(texts) - 1) : FirstOf(texts, m + 1) = FirstOf(texts, m) \o texts[m + 1]
           /\ FirstOf(texts, Len(texts)) = FlattenSeq(texts)
<1>0. Len(texts) \in Nat
  OBVIOUS
<1>1. FirstOf(texts, 0) = <<>>
  <2>1. SubSeq(texts, 1, 0) = <<>> /\ Len(<<>>) = 0
    OBVIOUS
  <2> QED BY <2>1, Zenon DEF FirstOf, FlattenSeq
<1>2. PICK g : IsFlat(g, texts, Len(texts))
  BY <1>0, FlatExists
<1>3. ASSUME NEW m \in 1..Len(texts)
      PROVE  FirstOf(texts, m) = g[m]
  <2> DEFINE s == SubSeq(texts, 1, m)
  <2>1. Len(s) = m /\ m \in Nat /\ m # 0 /\ m <= Len(texts) /\ m \in 1..m
    BY <1>0
  <2>2. \A i \in 1..m : s[i] = texts[i]
    BY <1>0
  <2> HIDE DEF s
  <2>3. PICK f : IsFlat(f, s, m) /\ FlattenSeq(s) = f[m]
    BY <2>1, FlattenIs
  <2>4. \A i \in 1..m : f[i] = g[i]
    <3>1. m \in Nat /\ Len(texts) \in Nat /\ m <= Len(texts)
      BY <1>0, <2>1
    <3>2. IsFlat(f, s, m) /\ IsFlat(g, texts, Len(texts))
      BY <1>2, <2>3
    <3> QED BY <2>2, <3>1, <3>2, FlatAgrees
  <2> QED BY <2>1, <2>3, <2>4 DEF FirstOf, s
<1>4. ASSUME NEW m \in 0..(Len(texts) - 1)
      PROVE  FirstOf(texts, m + 1) = FirstOf(texts, m) \o texts[m + 1]
  <2>1. m + 1 \in 1..Len(texts) /\ (m + 1) - 1 = m
    BY <1>0
  <2>2. g[m + 1] = IF m + 1 = 1 THEN texts[m + 1] ELSE g[m] \o texts[m + 1]
    BY <1>2, <2>1 DEF IsFlat
  <2>3. CASE m = 0
    <3>1. texts[m + 1] \in Text
      BY <2>1
    <3>2. <<>> \o texts[m + 1] = texts[m + 1]
      BY <3>1 DEF Text
    <3>3. FirstOf(texts, m + 1) = texts[m + 1]
      BY <1>3, <2>1, <2>2, <2>3
    <3> QED BY <1>1, <2>3, <3>2, <3>3
  <2>4. CASE m # 0
    <3>1. m \in 1..Len(texts) /\ m + 1 # 1
      BY <1>0, <2>4
    <3> QED BY <1>3, <2>1, <2>2, <3>1
  <2> QED BY <2>3, <2>4
<1>5. FirstOf(texts, Len(texts)) = FlattenSeq(texts)
  <2>1. SubSeq(texts, 1, Len(texts)) = texts
    OBVIOUS
  <2> QED BY <2>1 DEF FirstOf
<1> QED BY <1>1, <1>4, <1>5


\* The first texts are a text, and the beginning of more of them.
LEMMA FirstOfMore ==
    ASSUME NEW texts \in Seq(Text), NEW i \in 0..Len(texts), NEW m \in i..Len(texts)
    PROVE  /\ FirstOf(texts, i) \in Text /\ FirstOf(texts, m) \in Text
           /\ \E x \in Text : FirstOf(texts, m) = FirstOf(texts, i) \o x
<1>0. Len(texts) \in Nat
  OBVIOUS
<1>1. \A n \in 0..Len(texts) : FirstOf(texts, n) \in Text
  <2> DEFINE S == {n \in 0..Len(texts) : FirstOf(texts, n) \notin Text}
  <2> SUFFICES ASSUME S # {} PROVE FALSE
    OBVIOUS
  <2>1. PICK n \in S : \A l \in S : n <= l
    <3>1. S \subseteq Nat
      OBVIOUS
    <3> HIDE DEF S
    <3> QED BY <3>1, LeastExists
  <2>2. CASE n = 0
    <3>1. <<>> \in Text
      BY DEF Text
    <3> QED BY <2>1, <2>2, <3>1, FirstOfOneMore
  <2>3. CASE n # 0
    <3>1. n - 1 \in 0..(Len(texts) - 1) /\ n - 1 \in 0..Len(texts) /\ ~(n <= n - 1) /\ (n - 1) + 1 = n
      BY <1>0, <2>1, <2>3
    <3>2. FirstOf(texts, n - 1) \in Text
      BY <2>1, <3>1
    <3>3. texts[n] \in Text
      BY <2>1, <2>3
    <3>4. FirstOf(texts, n) = FirstOf(texts, n - 1) \o texts[n]
      BY <3>1, FirstOfOneMore
    <3>5. FirstOf(texts, n - 1) \o texts[n] \in Text
      BY <3>2, <3>3, Joined, Zenon
    <3> QED BY <2>1, <3>4, <3>5
  <2> QED BY <2>2, <2>3
<1> DEFINE Begins(n) == \E x \in Text : FirstOf(texts, n) = FirstOf(texts, i) \o x
<1> HIDE DEF Begins
<1>2. Begins(m)
  <2> DEFINE S == {n \in i..Len(texts) : ~Begins(n)}
  <2> SUFFICES ASSUME S # {} PROVE FALSE
    OBVIOUS
  <2>1. PICK n \in S : \A l \in S : n <= l
    <3>1. S \subseteq Nat
      OBVIOUS
    <3> HIDE DEF S
    <3> QED BY <3>1, LeastExists
  <2>2. n \in i..Len(texts) /\ ~Begins(n) /\ n \in 0..Len(texts)
    BY <1>0, <2>1
  <2>3. CASE n = i
    <3>1. <<>> \in Text
      BY DEF Text
    <3>2. FirstOf(texts, i) \o <<>> = FirstOf(texts, i)
      BY <1>1, Joined
    <3> QED BY <2>2, <2>3, <3>1, <3>2 DEF Begins
  <2>4. CASE n # i
    <3>1. /\ n - 1 \in 0..(Len(texts) - 1) /\ n - 1 \in i..Len(texts) /\ ~(n <= n - 1) /\ (n - 1) + 1 = n
          /\ n \in 1..Len(texts)
      BY <1>0, <2>2, <2>4
    <3>2. Begins(n - 1)
      BY <2>1, <3>1
    <3>3. PICK x \in Text : FirstOf(texts, n - 1) = FirstOf(texts, i) \o x
      BY <3>2 DEF Begins
    <3>4. texts[n] \in Text
      BY <3>1
    <3>5. FirstOf(texts, n) = FirstOf(texts, n - 1) \o texts[n]
      BY <3>1, FirstOfOneMore
    <3>6. FirstOf(texts, i) \in Text
      BY <1>1
    <3> HIDE DEF S
    <3>7. x \o texts[n] \in Text
      BY <3>4, Joined
    <3>8. FirstOf(texts, i) \o (x \o texts[n]) = (FirstOf(texts, i) \o x) \o texts[n]
      BY <3>4, <3>6, JoinedThrice, Zenon
    <3>9. FirstOf(texts, n) = FirstOf(texts, i) \o (x \o texts[n])
      BY <3>3, <3>5, <3>8
    <3> QED BY <2>2, <3>7, <3>9 DEF Begins
  <2> QED BY <2>3, <2>4
<1>3. i \in 0..Len(texts) /\ m \in 0..Len(texts)
  BY <1>0
<1> QED BY <1>1, <1>2, <1>3 DEF Begins

\* All of the texts: the first, the next, and others.
LEMMA AllOfTexts ==
    ASSUME NEW texts \in Seq(Text), NEW i \in 0..(Len(texts) - 1)
    PROVE  /\ FlattenSeq(texts) \in Text /\ FirstOf(texts, i) \in Text /\ texts[i + 1] \in Text
           /\ \E x \in Text : FlattenSeq(texts) = FirstOf(texts, i) \o (texts[i + 1] \o x)
<1>0. Len(texts) \in Nat /\ i + 1 \in 0..Len(texts) /\ Len(texts) \in (i + 1)..Len(texts) /\ i \in 0..Len(texts)
      /\ i \in i..Len(texts) /\ i + 1 \in 1..Len(texts)
  OBVIOUS
<1>1. texts[i + 1] \in Text
  BY <1>0
<1>2. PICK x \in Text : FirstOf(texts, Len(texts)) = FirstOf(texts, i + 1) \o x
  BY <1>0, FirstOfMore
<1>3. FirstOf(texts, i) \in Text /\ FirstOf(texts, Len(texts)) \in Text
  BY <1>0, FirstOfMore
<1>4. FirstOf(texts, i + 1) = FirstOf(texts, i) \o texts[i + 1]
  BY FirstOfOneMore
<1>5. FlattenSeq(texts) = FirstOf(texts, Len(texts))
  BY FirstOfOneMore
<1>6. FirstOf(texts, i) \o (texts[i + 1] \o x) = (FirstOf(texts, i) \o texts[i + 1]) \o x
  BY <1>1, <1>3, JoinedThrice, ZenonT(60)
<1> QED BY <1>1, <1>2, <1>3, <1>4, <1>5, <1>6

-----------------------------------------------------------------------------
(***************************************************************************)
(* Where a connection is: what was drained, then the buffer, then what is   *)
(* not read yet, are all that was sent.                                     *)
(***************************************************************************)
Is(all, drained, b, rest) == drained \o (b \o rest) = all

\* The socket is read.
LEMMA IsFed ==
    ASSUME NEW all, NEW drained \in Text, NEW b \in Text, NEW rest \in Text,
           NEW n \in 0..Len(rest), Is(all, drained, b, rest)
    PROVE  /\ SubSeq(rest, 1, n) \in Text /\ Len(SubSeq(rest, 1, n)) = n
           /\ b \o SubSeq(rest, 1, n) \in Text /\ SubSeq(rest, n + 1, Len(rest)) \in Text
           /\ Len(SubSeq(rest, n + 1, Len(rest))) = Len(rest) - n
           /\ Is(all, drained, b \o SubSeq(rest, 1, n), SubSeq(rest, n + 1, Len(rest)))
<1> DEFINE f == SubSeq(rest, 1, n)
           r == SubSeq(rest, n + 1, Len(rest))
<1>1. Len(rest) \in Nat /\ f \in Text /\ r \in Text /\ Len(f) = n /\ Len(r) = Len(rest) - n
  BY DEF Text
<1>2. f \o r = rest
  <2>1. 1 \in 1..(Len(rest) + 1) /\ n \in 0..Len(rest) /\ Len(rest) \in n..Len(rest) /\ 1 - 1 = 0
    BY <1>1
  <2>2. f \o r = SubSeq(rest, 1, Len(rest))
    BY <2>1, ConcatAdjacentSubSeq DEF Text
  <2> QED BY <2>2, SubSeqFull DEF Text
<1> HIDE DEF f, r
<1>3. b \o f \in Text
  BY <1>1, Joined
<1>4. b \o (f \o r) = (b \o f) \o r
  BY <1>1, JoinedThrice, Zenon
<1>5. Is(all, drained, b \o f, r)
  BY <1>2, <1>4 DEF Is
<1> QED BY <1>1, <1>3, <1>5 DEF f, r

\* The beginning of the buffer is drained.
LEMMA IsDrained ==
    ASSUME NEW all, NEW drained \in Text, NEW b \in Text, NEW rest \in Text,
           NEW h \in Text, NEW y \in Text, b \o rest = h \o y, Len(h) <= Len(b), Is(all, drained, b, rest)
    PROVE  /\ SubSeq(b, Len(h) + 1, Len(b)) \in Text /\ drained \o h \in Text
           /\ Is(all, drained \o h, SubSeq(b, Len(h) + 1, Len(b)), rest)
<1> DEFINE r == SubSeq(b, Len(h) + 1, Len(b))
<1>1. r \in Text /\ r \o rest = y
  BY Drained
<1> HIDE DEF r
<1>2. drained \o (h \o y) = (drained \o h) \o y
  BY JoinedThrice, ZenonT(60)
<1>3. Is(all, drained \o h, r, rest)
  BY <1>1, <1>2 DEF Is
<1>4. drained \o h \in Text
  BY Joined
<1> QED BY <1>1, <1>3, <1>4 DEF r

\* What is ahead of what was drained.
LEMMA IsAhead ==
    ASSUME NEW all, NEW drained \in Text, NEW b \in Text, NEW rest \in Text, NEW y \in Text,
           Is(all, drained, b, rest), all = drained \o y
    PROVE  b \o rest = y
<1>1. b \o rest \in Text
  BY Joined
<1>2. drained \o (b \o rest) = drained \o y
  BY DEF Is
<1> QED BY <1>1, <1>2, JoinedAlike


-----------------------------------------------------------------------------
(***************************************************************************)
(* Requests and their bytes.  A number is one byte here, so that a request  *)
(* has at most nine words of at most nine bytes.                            *)
(***************************************************************************)
Word == {w \in Text : Len(w) \in 0..9 /\ ~Contains(w, Binary)}

Phrase == {words \in Seq(Word) : Len(words) \in 1..9}

\* The bytes of a bulk string and of a request.
Ending == <<CR, LF>>
BulkText(w) == Header("$", Len(w)) \o (w \o Ending)
ItemTexts(words) == [i \in 1..Len(words) |-> BulkText(words[i])]
RequestText(words) == Header("*", Len(words)) \o FlattenSeq(ItemTexts(words))

\* What a peer sends that says some phrases, and its bytes.
Said(phrases) == [i \in 1..Len(phrases) |-> Request(phrases[i])]
Texts(phrases) == [i \in 1..Len(phrases) |-> RequestText(phrases[i])]

\* A digit is read as the number it is.
LEMMA DigitIsNumber ==
    ASSUME NEW n \in 0..9
    PROVE  /\ Digit(n) \in DOMAIN Digits /\ Digits[Digit(n)] = n /\ Digit(n) \in Byte
           /\ IsNumber(<<Digit(n)>>) /\ Number(<<Digit(n)>>) = n
<1>1. Digit(n) \in DOMAIN Digits /\ Digit(n) \in Byte
  BY DEF Digits, Byte
<1>2. Digits[Digit(n)] = n
  <2>1. Digits[Digit(n)] = CHOOSE m \in 0..9 : Digit(m) = Digit(n)
    BY DEF Digits
  <2>2. \A m \in 0..9 : Digit(m) = Digit(n) <=> m = n
    BY DigitAssumption
  <2> QED BY <2>1, <2>2
<1>3. IsNumber(<<Digit(n)>>)
  BY <1>1 DEF IsNumber
<1>4. Number(<<Digit(n)>>) = n
  <2> DEFINE s == <<Digit(n)>>
             Op(x, y) == 10 * y + Digits[x]
             IsIter(f) == f = [r \in SUBSET {1} |->
                                  IF r = {} THEN 0 ELSE Op(s[Max(r)], f[r \ {Max(r)}])]
             iter == CHOOSE f : IsIter(f)
  <2>1. DOMAIN s = {1} /\ s[1] = Digit(n)
    OBVIOUS
  <2>2. Number(s) = iter[{1}]
    BY <2>1 DEF Number, FoldLeft, MapThenFoldSet
  <2>3. Max({1}) = 1
    <3>1. \A x \in {1} : (\A y \in {1} : x >= y) <=> x = 1
      OBVIOUS
    <3> QED BY <3>1 DEF Max
  <2>4. Op(Digit(n), 0) = n
    BY <1>2
  <2>5. SUBSET {1} = {{}, {1}} /\ {1} # {} /\ {1} \ {1} = {}
    OBVIOUS
  <2>6. \E f : IsIter(f)
    <3> DEFINE f == [r \in SUBSET {1} |-> IF r = {} THEN 0 ELSE n]
    <3>1. ASSUME NEW r \in SUBSET {1}
          PROVE  f[r] = IF r = {} THEN 0 ELSE Op(s[Max(r)], f[r \ {Max(r)}])
      <4>1. CASE r = {}
        BY <4>1
      <4>2. CASE r = {1}
        <5>1. f[{}] = 0 /\ f[{1}] = n
          OBVIOUS
        <5> HIDE DEF f, Op, s
        <5> QED BY <2>1, <2>3, <2>4, <2>5, <4>2, <5>1
      <4> QED BY <2>5, <4>1, <4>2
    <3>2. f = [r \in SUBSET {1} |-> f[r]]
      OBVIOUS
    <3> HIDE DEF f, Op, s
    <3>3. f = [r \in SUBSET {1} |-> IF r = {} THEN 0 ELSE Op(s[Max(r)], f[r \ {Max(r)}])]
      BY <3>1, <3>2
    <3> QED BY <3>3
  <2>7. IsIter(iter)
    <3> HIDE DEF IsIter
    <3> QED BY <2>6
  <2> HIDE DEF iter, Op, s
  <2>8. iter[{}] = 0
    BY <2>5, <2>7
  <2>9. iter[{1}] = Op(s[Max({1})], iter[{1} \ {Max({1})}])
    BY <2>5, <2>7
  <2>10. iter[{1}] = Op(Digit(n), 0)
    BY <2>1, <2>3, <2>5, <2>8, <2>9
  <2> QED BY <2>2, <2>4, <2>10 DEF s
<1> QED BY <1>1, <1>2, <1>3, <1>4


\* A header is four bytes.
LEMMA HeaderIs ==
    ASSUME NEW prefix \in {"*", "$"}, NEW n \in 0..9
    PROVE  /\ Header(prefix, n) \in Text /\ Len(Header(prefix, n)) = 4
           /\ Header(prefix, n)[1] = prefix /\ Header(prefix, n)[2] = Digit(n)
           /\ Header(prefix, n)[3] = CR /\ Header(prefix, n)[4] = LF
<1>1. prefix \in Byte /\ Digit(n) \in Byte /\ CR \in Byte /\ LF \in Byte
  BY DigitIsNumber DEF Byte
<1> QED BY <1>1 DEF Header, Text

\* The bytes of a word and of a phrase are text.
LEMMA WordIs ==
    ASSUME NEW w \in Word
    PROVE  /\ w \in Text /\ Len(w) \in 0..9 /\ ~Contains(w, Binary)
           /\ Ending \in Text /\ Len(Ending) = 2 /\ Ending[1] = CR /\ Ending[2] = LF
           /\ w \o Ending \in Text /\ BulkText(w) \in Text
           /\ Len(w \o Ending) = Len(w) + 2
<1>1. w \in Text /\ Len(w) \in 0..9 /\ ~Contains(w, Binary)
  BY DEF Word
<1>2. Ending \in Text /\ Len(Ending) = 2 /\ Ending[1] = CR /\ Ending[2] = LF
  <2>1. CR \in Byte /\ LF \in Byte
    BY DEF Byte
  <2> QED BY <2>1 DEF Ending, Text
<1>3. w \o Ending \in Text /\ Len(w \o Ending) = Len(w) + 2
  BY <1>1, <1>2, Joined, ZenonT(60)
<1>4. Header("$", Len(w)) \in Text
  BY <1>1, HeaderIs
<1>5. BulkText(w) \in Text
  BY <1>3, <1>4, Joined DEF BulkText
<1> QED BY <1>1, <1>2, <1>3, <1>5

\* A phrase is words, and its request the bytes of their bulk strings.
LEMMA PhraseIs ==
    ASSUME NEW words \in Phrase
    PROVE  /\ words \in Seq(Word) /\ Len(words) \in 1..9
           /\ ItemTexts(words) \in Seq(Text) /\ Len(ItemTexts(words)) = Len(words)
           /\ \A i \in 1..Len(words) : words[i] \in Word /\ ItemTexts(words)[i] = BulkText(words[i])
           /\ Header("*", Len(words)) \in Text /\ FlattenSeq(ItemTexts(words)) \in Text
           /\ RequestText(words) \in Text
<1>1. words \in Seq(Word) /\ Len(words) \in 1..9
  BY DEF Phrase
<1>2. \A i \in 1..Len(words) : words[i] \in Word /\ BulkText(words[i]) \in Text
  BY <1>1, WordIs
<1>3. ItemTexts(words) \in Seq(Text) /\ Len(ItemTexts(words)) = Len(words)
  BY <1>1, <1>2 DEF ItemTexts
<1>4. \A i \in 1..Len(words) : ItemTexts(words)[i] = BulkText(words[i])
  BY DEF ItemTexts
<1>5. Header("*", Len(words)) \in Text
  <2>1. "*" \in {"*", "$"} /\ Len(words) \in 0..9
    BY <1>1
  <2> QED BY <2>1, HeaderIs
<1>6. FlattenSeq(ItemTexts(words)) \in Text
  <2>1. 0 \in 0..(Len(ItemTexts(words)) - 1)
    BY <1>1, <1>3
  <2> QED BY <1>3, <2>1, AllOfTexts
<1>7. RequestText(words) \in Text
  BY <1>5, <1>6, Joined DEF RequestText
<1> QED BY <1>1, <1>2, <1>3, <1>4, <1>5, <1>6, <1>7

\* What a request is made of, and how it goes over the wire.
LEMMA RequestIs ==
    ASSUME NEW words \in Phrase
    PROVE  /\ Request(words).type = "Array" /\ Request(words).length = Len(words)
           /\ Request(words).some = TRUE
           /\ Request(words).value = [i \in 1..Len(words) |-> BulkStr(words[i])]
           /\ Request(words) = Resp("Array", Len(words), TRUE, [i \in 1..Len(words) |-> BulkStr(words[i])])
           /\ serialize(Request(words)) = RequestText(words)
<1> DEFINE items == [i \in 1..Len(words) |-> BulkStr(words[i])]
<1>1. Len(words) \in 1..9 /\ DOMAIN words = 1..Len(words)
  BY PhraseIs
<1>2. Len(items) = Len(words)
  BY <1>1
<1>3. Request(words) = Resp("Array", Len(words), TRUE, items)
  <2>1. Request(words) = Array(items)
    BY <1>1 DEF Request
  <2> HIDE DEF items
  <2> QED BY <1>2, <2>1 DEF Array
<1>4. /\ Request(words).type = "Array" /\ Request(words).length = Len(words)
      /\ Request(words).some = TRUE /\ Request(words).value = items
  <2> HIDE DEF items
  <2> QED BY <1>3 DEF Resp
<1>5. ASSUME NEW i \in 1..Len(words)
      PROVE  SerializeItem(BulkStr(words[i])) = BulkText(words[i])
  <2> DEFINE w == words[i]
             t == BulkStr(w)
  <2>1. t.type = "BulkStr" /\ t.some = TRUE /\ t.length = Len(w) /\ t.value = w
    BY DEF BulkStr, Resp
  <2>2. w \in Text /\ Ending \in Text /\ Header("$", Len(w)) \in Text
    BY PhraseIs, WordIs, HeaderIs
  <2> HIDE DEF t, w
  <2>3. SerializeItem(t) = SerializeFlat(t)
    BY <2>1 DEF SerializeItem
  <2>4. SerializeFlat(t) = Header("$", Len(w)) \o w \o <<CR, LF>>
    BY <2>1, Zenon DEF SerializeFlat
  <2>5. Header("$", Len(w)) \o (w \o Ending) = (Header("$", Len(w)) \o w) \o Ending
    BY <2>2, JoinedThrice, Zenon
  <2> QED BY <2>3, <2>4, <2>5, Zenon DEF BulkText, Ending, t, w
<1>6. serialize(Request(words)) = RequestText(words)
  <2> DEFINE t == Request(words)
             texts == [i \in DOMAIN t.value |-> SerializeItem(t.value[i])]
  <2>1. texts = ItemTexts(words)
    <3> HIDE DEF t
    <3>1. DOMAIN t.value = 1..Len(words) /\ \A i \in 1..Len(words) : t.value[i] = BulkStr(words[i])
      BY <1>4 DEF t
    <3> QED BY <1>5, <3>1 DEF ItemTexts
  <2>2. serialize(t) = SerializeArray(t, SerializeItem)
    BY <1>4, Zenon DEF serialize
  <2>3. SerializeArray(t, SerializeItem) = Header("*", t.length) \o FlattenSeq(texts)
    BY <1>4, Zenon DEF SerializeArray
  <2> QED BY <1>4, <2>1, <2>2, <2>3, Zenon DEF RequestText
<1> QED BY <1>3, <1>4, <1>6

\* The bytes of the messages of a peer, and of the first of them.
LEMMA SaidIs ==
    ASSUME NEW phrases \in Seq(Phrase)
    PROVE  /\ Len(phrases) \in Nat /\ Len(Said(phrases)) = Len(phrases)
           /\ \A i \in 1..Len(phrases) : phrases[i] \in Phrase /\ Said(phrases)[i] = Request(phrases[i])
           /\ Texts(phrases) \in Seq(Text) /\ Len(Texts(phrases)) = Len(phrases)
           /\ \A i \in 1..Len(phrases) : Texts(phrases)[i] = RequestText(phrases[i])
           /\ \A n \in 0..Len(phrases) : /\ Bytes(SubSeq(Said(phrases), 1, n)) = FirstOf(Texts(phrases), n)
                                         /\ FirstOf(Texts(phrases), n) \in Text
           /\ Bytes(Said(phrases)) = FirstOf(Texts(phrases), Len(phrases))
           /\ Bytes(Said(phrases)) = FlattenSeq(Texts(phrases))
<1>1. Len(phrases) \in Nat /\ \A i \in 1..Len(phrases) : phrases[i] \in Phrase
  OBVIOUS
<1>2. \A i \in 1..Len(phrases) : RequestText(phrases[i]) \in Text
  BY <1>1, PhraseIs
<1>3. /\ Len(Said(phrases)) = Len(phrases) /\ DOMAIN Said(phrases) = 1..Len(phrases)
      /\ \A i \in 1..Len(phrases) : Said(phrases)[i] = Request(phrases[i])
      /\ Said(phrases) \in Seq({Request(words) : words \in Phrase})
  BY <1>1 DEF Said
<1>4. /\ Texts(phrases) \in Seq(Text) /\ Len(Texts(phrases)) = Len(phrases)
      /\ \A i \in 1..Len(phrases) : Texts(phrases)[i] = RequestText(phrases[i])
  BY <1>1, <1>2 DEF Texts
<1>5. ASSUME NEW i \in 1..Len(phrases)
      PROVE  serialize(Said(phrases)[i]) = Texts(phrases)[i]
  <2>1. phrases[i] \in Phrase
    BY <1>1
  <2>2. serialize(Request(phrases[i])) = RequestText(phrases[i])
    BY <2>1, RequestIs
  <2>3. Said(phrases)[i] = Request(phrases[i]) /\ Texts(phrases)[i] = RequestText(phrases[i])
    BY <1>3, <1>4
  <2> QED BY <2>2, <2>3
<1>6. ASSUME NEW n \in 0..Len(phrases)
      PROVE  Bytes(SubSeq(Said(phrases), 1, n)) = FirstOf(Texts(phrases), n)
  <2> DEFINE s == SubSeq(Said(phrases), 1, n)
             x == SubSeq(Texts(phrases), 1, n)
  <2>1. DOMAIN s = 1..n /\ \A i \in 1..n : s[i] = Said(phrases)[i]
    BY <1>1, <1>3
  <2>2. x \in Seq(Text) /\ Len(x) = n /\ \A i \in 1..n : x[i] = Texts(phrases)[i]
    BY <1>1, <1>4
  <2>3. \A i \in 1..n : i \in 1..Len(phrases)
    BY <1>1
  <2> HIDE DEF s, x
  <2>4. [i \in DOMAIN s |-> serialize(s[i])] = [i \in 1..n |-> x[i]]
    BY <1>5, <2>1, <2>2, <2>3
  <2>5. x = [i \in 1..n |-> x[i]]
    BY <2>2
  <2>6. Bytes(s) = FlattenSeq(x)
    BY <2>4, <2>5, Zenon DEF Bytes
  <2> QED BY <2>6 DEF FirstOf, s, x
<1>7. \A n \in 0..Len(phrases) : FirstOf(Texts(phrases), n) \in Text
  <2>1. ASSUME NEW n \in 0..Len(phrases)
        PROVE  FirstOf(Texts(phrases), n) \in Text
    <3>1. n \in 0..Len(Texts(phrases)) /\ n \in n..Len(Texts(phrases))
      BY <1>1, <1>4
    <3> QED BY <1>4, <3>1, FirstOfMore
  <2> QED BY <2>1
<1>8. Bytes(Said(phrases)) = FirstOf(Texts(phrases), Len(phrases))
  <2>1. SubSeq(Said(phrases), 1, Len(phrases)) = Said(phrases) /\ Len(phrases) \in 0..Len(phrases)
    BY <1>1, <1>3
  <2> QED BY <1>6, <2>1
<1>9. FirstOf(Texts(phrases), Len(phrases)) = FlattenSeq(Texts(phrases))
  BY <1>4, FirstOfOneMore
<1> QED BY <1>1, <1>3, <1>4, <1>6, <1>7, <1>8, <1>9

-----------------------------------------------------------------------------
(***************************************************************************)
(* How far a connection is.  Of phrase i + 1 the array's header and the     *)
(* first j of its bulk strings are read.                                    *)
(***************************************************************************)
Before(phrases, i) == FirstOf(Texts(phrases), i)

ReadOf(phrases, i, j) ==
    (Before(phrases, i) \o Header("*", Len(phrases[i + 1]))) \o FirstOf(ItemTexts(phrases[i + 1]), j)

\* The array with the bulk strings it has.
OpenArray(words, j) ==
    Resp("Array", Len(words), j # 0, [k \in 1..j |-> BulkStr(words[k])])

NewArray == Resp("Array", 0, FALSE, <<>>)
NewBulk == Resp("BulkStr", 0, FALSE, <<>>)

\* The open types and the status are these, and the bytes before the buffer those.
At(types, kind, n, drained) ==
    /\ stack = types /\ status = [kind |-> kind, n |-> n]
    /\ Is(Bytes(sent), drained, buf, socket)

AtStart == buf_cur = 0 /\ tmp_start = 0
AfterPrefix == buf_cur \in 1..2 /\ tmp_start = 1

Between(phrases, i) == At(<<>>, "Type", 0, Before(phrases, i)) /\ AtStart

InArrayHeader(phrases, i) == At(<<NewArray>>, "Header", 0, Before(phrases, i)) /\ AfterPrefix

InArray(phrases, i, j) ==
    At(<<OpenArray(phrases[i + 1], j)>>, "Type", 0, ReadOf(phrases, i, j)) /\ AtStart

InBulkHeader(phrases, i, j) ==
    At(<<OpenArray(phrases[i + 1], j), NewBulk>>, "Header", 0, ReadOf(phrases, i, j)) /\ AfterPrefix

InBulk(phrases, i, j) ==
    LET w == phrases[i + 1][j + 1]
    IN /\ At(<<OpenArray(phrases[i + 1], j), Resp("BulkStr", Len(w), FALSE, <<>>)>>, "Bulk", Len(w),
             ReadOf(phrases, i, j) \o Header("$", Len(w)))
       /\ buf_cur \in 0..(Len(w) + 2) /\ tmp_start = 0

BulkIsRead(phrases, i, j) ==
    /\ At(<<OpenArray(phrases[i + 1], j), BulkStr(phrases[i + 1][j + 1])>>, "Type", 0,
          ReadOf(phrases, i, j + 1))
    /\ AtStart

InPhrase(phrases, i) ==
    \/ InArrayHeader(phrases, i)
    \/ \E j \in 0..Len(phrases[i + 1]) :
          \/ InArray(phrases, i, j)
          \/ /\ j < Len(phrases[i + 1])
             /\ InBulkHeader(phrases, i, j) \/ InBulk(phrases, i, j) \/ BulkIsRead(phrases, i, j)

\* The messages that were handled, and the one that may be ready.
Handled(phrases) ==
    /\ answers \in Seq({from_resp(Request(words)).name : words \in Phrase})
    /\ Len(answers) <= Len(phrases)
    /\ delivered = Before(phrases, Len(answers))
    /\ \A k \in 1..Len(answers) : answers[k] = from_resp(Request(phrases[k])).name

Progress(phrases) ==
    \/ completed = <<>> /\ Between(phrases, Len(answers))
    \/ completed = <<>> /\ Len(answers) < Len(phrases) /\ InPhrase(phrases, Len(answers))
    \/ /\ Len(answers) < Len(phrases) /\ parsing # "idle"
       /\ completed = <<Request(phrases[Len(answers) + 1])>>
       /\ Between(phrases, Len(answers) + 1)

\* parse() returned without a message.
Waiting ==
    parsing \in {"done", "idle"} /\ completed = <<>>
        => ~TopCompleted /\ (buf_cur >= Len(buf) \/ (status.kind = "Header" /\ Len(buf) < 4))

\* The inductive invariant: a stream of phrases is read.
Hears(phrases) ==
    /\ sent = Said(phrases)
    /\ parsing \in {"idle", "parse", "done"} /\ parse_rdb = FALSE
    /\ buf \in Text /\ socket \in Text
    /\ Handled(phrases)
    /\ Progress(phrases)
    /\ Waiting

ReaderInv == \E phrases \in Seq(Phrase) : Hears(phrases)


\* What is ahead of the phrases that were read.
LEMMA PhraseAhead ==
    ASSUME NEW phrases \in Seq(Phrase), NEW i \in 0..(Len(phrases) - 1)
    PROVE  /\ phrases[i + 1] \in Phrase
           /\ Before(phrases, i) \in Text /\ Before(phrases, i + 1) \in Text
           /\ Before(phrases, i + 1) = Before(phrases, i) \o RequestText(phrases[i + 1])
           /\ \E x \in Text : Bytes(Said(phrases)) = Before(phrases, i + 1) \o x
           /\ \E x \in Text : Bytes(Said(phrases)) = Before(phrases, i) \o (Header("*", Len(phrases[i + 1])) \o x)
<1> DEFINE texts == Texts(phrases)
           words == phrases[i + 1]
           header == Header("*", Len(words))
           items == FlattenSeq(ItemTexts(words))
<1>1. /\ Len(phrases) \in Nat /\ i + 1 \in 1..Len(phrases) /\ i + 1 \in 0..Len(phrases) /\ i \in 0..Len(phrases)
      /\ Len(phrases) \in (i + 1)..Len(phrases)
  OBVIOUS
<1>2. words \in Phrase /\ texts[i + 1] = RequestText(words) /\ texts \in Seq(Text) /\ Len(texts) = Len(phrases)
  BY <1>1, SaidIs
<1>3. Before(phrases, i) \in Text /\ Before(phrases, i + 1) \in Text
  BY <1>1, SaidIs DEF Before
<1>4. Before(phrases, i + 1) = Before(phrases, i) \o RequestText(words)
  <2>1. i \in 0..(Len(texts) - 1)
    BY <1>2
  <2> HIDE DEF texts, words
  <2>2. FirstOf(texts, i + 1) = FirstOf(texts, i) \o texts[i + 1]
    BY <1>2, <2>1, FirstOfOneMore
  <2> QED BY <1>2, <2>2 DEF Before, texts
<1>5. PICK x \in Text : Bytes(Said(phrases)) = Before(phrases, i + 1) \o x
  <2>1. Bytes(Said(phrases)) = FirstOf(texts, Len(texts))
    BY <1>2, SaidIs
  <2>2. i + 1 \in 0..Len(texts) /\ Len(texts) \in (i + 1)..Len(texts)
    BY <1>1, <1>2
  <2> HIDE DEF texts, words
  <2>3. \E x \in Text : FirstOf(texts, Len(texts)) = FirstOf(texts, i + 1) \o x
    BY <1>2, <2>2, FirstOfMore
  <2> QED BY <2>1, <2>3 DEF Before, texts
<1>6. header \in Text /\ items \in Text /\ RequestText(words) = header \o items
  BY <1>2, PhraseIs DEF RequestText
<1> HIDE DEF header, items, words, texts
<1>7. Bytes(Said(phrases)) = Before(phrases, i) \o (header \o (items \o x))
  <2>1. items \o x \in Text /\ header \o items \in Text
    BY <1>6, Joined
  <2>2. header \o (items \o x) = (header \o items) \o x
    BY <1>6, JoinedThrice, Zenon
  <2>3. Before(phrases, i) \o ((header \o items) \o x) = (Before(phrases, i) \o (header \o items)) \o x
    BY <1>3, <2>1, JoinedThrice, ZenonT(60)
  <2> QED BY <1>4, <1>5, <1>6, <2>2, <2>3, Zenon
<1>8. items \o x \in Text
  BY <1>6, Joined
<1>9. \E y \in Text : Bytes(Said(phrases)) = Before(phrases, i) \o (header \o y)
  BY <1>7, <1>8, Zenon
<1>10. \E y \in Text : Bytes(Said(phrases)) = Before(phrases, i + 1) \o y
  BY <1>5
<1> QED BY <1>2, <1>3, <1>4, <1>9, <1>10, Zenon DEF header, words

\* What is ahead in a phrase of which j bulk strings are read.
LEMMA BulkAhead ==
    ASSUME NEW phrases \in Seq(Phrase), NEW i \in 0..(Len(phrases) - 1),
           NEW j \in 0..(Len(phrases[i + 1]) - 1), NEW w, w = phrases[i + 1][j + 1]
    PROVE  /\ w \in Word /\ Header("$", Len(w)) \in Text
           /\ ReadOf(phrases, i, j) \in Text /\ ReadOf(phrases, i, j + 1) \in Text
           /\ ReadOf(phrases, i, j) \o Header("$", Len(w)) \in Text
           /\ ReadOf(phrases, i, j + 1) = (ReadOf(phrases, i, j) \o Header("$", Len(w))) \o (w \o Ending)
           /\ \E x \in Text : Before(phrases, i + 1) = ReadOf(phrases, i, j + 1) \o x
<1> DEFINE words == phrases[i + 1]
           items == ItemTexts(words)
           start == Before(phrases, i) \o Header("*", Len(words))
           header == Header("$", Len(w))
<1>1. /\ words \in Phrase /\ Before(phrases, i) \in Text
      /\ Before(phrases, i + 1) = Before(phrases, i) \o RequestText(words)
  BY PhraseAhead
<1>2. /\ Len(words) \in 1..9 /\ items \in Seq(Text) /\ Len(items) = Len(words) /\ w \in Word
      /\ items[j + 1] = BulkText(w)
      /\ Header("*", Len(words)) \in Text /\ FlattenSeq(items) \in Text
  <2>1. j + 1 \in 1..Len(words)
    BY <1>1, PhraseIs
  <2> QED BY <1>1, <2>1, PhraseIs
<1>3. start \in Text
  BY <1>1, <1>2, Joined
<1>4. w \o Ending \in Text /\ Len(w) \in 0..9
  BY <1>2, WordIs
<1>5. header \in Text
  <2>1. "$" \in {"*", "$"}
    OBVIOUS
  <2> QED BY <1>4, <2>1, HeaderIs
<1>6. /\ j \in 0..Len(items) /\ j + 1 \in 0..Len(items) /\ j + 1 \in j..Len(items) /\ j \in 0..(Len(items) - 1)
      /\ Len(items) \in (j + 1)..Len(items)
  BY <1>2
<1> HIDE DEF words, items, start, header
<1>7. FirstOf(items, j) \in Text /\ FirstOf(items, j + 1) \in Text
  BY <1>2, <1>6, FirstOfMore
<1>8. FirstOf(items, j + 1) = FirstOf(items, j) \o (header \o (w \o Ending))
  <2>1. FirstOf(items, j + 1) = FirstOf(items, j) \o items[j + 1]
    BY <1>2, <1>6, FirstOfOneMore
  <2> QED BY <1>2, <2>1 DEF BulkText, header
<1>9. start \o FirstOf(items, j) \in Text
  BY <1>3, <1>7, Joined
<1>10. start \o FirstOf(items, j + 1) \in Text
  BY <1>3, <1>7, Joined
<1>11. (start \o FirstOf(items, j)) \o header \in Text
  BY <1>5, <1>9, Joined
<1>12. start \o FirstOf(items, j + 1) = ((start \o FirstOf(items, j)) \o header) \o (w \o Ending)
  <2>1. header \o (w \o Ending) \in Text
    BY <1>4, <1>5, Joined
  <2>2. start \o (FirstOf(items, j) \o (header \o (w \o Ending))) = (start \o FirstOf(items, j)) \o (header \o (w \o Ending))
    BY <1>3, <1>7, <2>1, JoinedThrice, Zenon
  <2>3. (start \o FirstOf(items, j)) \o (header \o (w \o Ending)) = ((start \o FirstOf(items, j)) \o header) \o (w \o Ending)
    BY <1>4, <1>5, <1>9, JoinedThrice, Zenon
  <2> QED BY <1>8, <2>2, <2>3, Zenon
<1>13. \E x \in Text : Before(phrases, i + 1) = (start \o FirstOf(items, j + 1)) \o x
  <2>1. PICK x \in Text : FirstOf(items, Len(items)) = FirstOf(items, j + 1) \o x
    BY <1>2, <1>6, FirstOfMore
  <2>2. FlattenSeq(items) = FirstOf(items, j + 1) \o x
    BY <1>2, <2>1, FirstOfOneMore
  <2>3. RequestText(words) = Header("*", Len(words)) \o FlattenSeq(items)
    BY DEF RequestText, items
  <2>4. Before(phrases, i) \o (Header("*", Len(words)) \o FlattenSeq(items)) = start \o FlattenSeq(items)
    BY <1>1, <1>2, JoinedThrice DEF start
  <2>5. start \o (FirstOf(items, j + 1) \o x) = (start \o FirstOf(items, j + 1)) \o x
    BY <1>3, <1>7, JoinedThrice, Zenon
  <2>6. Before(phrases, i + 1) = (start \o FirstOf(items, j + 1)) \o x
    BY <1>1, <2>2, <2>3, <2>4, <2>5, Zenon
  <2> QED BY <2>6, Zenon
<1>14. ReadOf(phrases, i, j) = start \o FirstOf(items, j) /\ ReadOf(phrases, i, j + 1) = start \o FirstOf(items, j + 1)
  BY Zenon DEF ReadOf, start, items, words
<1> QED BY <1>2, <1>5, <1>9, <1>10, <1>11, <1>12, <1>13, <1>14, Zenon DEF header

\* Before its first bulk string a phrase has its header, after its last it is read.
LEMMA ReadOfEnds ==
    ASSUME NEW phrases \in Seq(Phrase), NEW i \in 0..(Len(phrases) - 1)
    PROVE  /\ ReadOf(phrases, i, 0) = Before(phrases, i) \o Header("*", Len(phrases[i + 1]))
           /\ ReadOf(phrases, i, Len(phrases[i + 1])) = Before(phrases, i + 1)
<1> DEFINE words == phrases[i + 1]
           items == ItemTexts(words)
           header == Header("*", Len(words))
<1>1. /\ words \in Phrase /\ Before(phrases, i) \in Text
      /\ Before(phrases, i + 1) = Before(phrases, i) \o RequestText(words)
  BY PhraseAhead
<1>2. /\ items \in Seq(Text) /\ Len(items) = Len(words)
      /\ header \in Text /\ FlattenSeq(items) \in Text
  BY <1>1, PhraseIs
<1> HIDE DEF words, items, header
<1>3. FirstOf(items, 0) = <<>> /\ FirstOf(items, Len(words)) = FlattenSeq(items)
  BY <1>2, FirstOfOneMore
<1>4. Before(phrases, i) \o header \in Text
  BY <1>1, <1>2, Joined
<1>5. (Before(phrases, i) \o header) \o <<>> = Before(phrases, i) \o header
  BY <1>4, Joined
<1>6. Before(phrases, i) \o (header \o FlattenSeq(items)) = (Before(phrases, i) \o header) \o FlattenSeq(items)
  BY <1>1, <1>2, JoinedThrice, Zenon
<1>7. ReadOf(phrases, i, 0) = (Before(phrases, i) \o header) \o FirstOf(items, 0)
  BY Zenon DEF ReadOf, words, items, header
<1>8. ReadOf(phrases, i, Len(words)) = (Before(phrases, i) \o header) \o FirstOf(items, Len(words))
  BY Zenon DEF ReadOf, words, items, header
<1>9. RequestText(words) = header \o FlattenSeq(items)
  BY DEF RequestText, items, header
<1> QED BY <1>1, <1>3, <1>5, <1>6, <1>7, <1>8, <1>9, Zenon DEF header, words


-----------------------------------------------------------------------------
(***************************************************************************)
(* The open types.                                                          *)
(***************************************************************************)

\* A part of one element.
LEMMA OneOf ==
    ASSUME NEW S, NEW s \in Seq(S), NEW k \in 1..Len(s)
    PROVE  SubSeq(s, k, k) = <<s[k]>>
<1> DEFINE f == SubSeq(s, k, k)
<1>1. f \in Seq(S) /\ Len(f) = 1 /\ f[1] = s[k]
  OBVIOUS
<1>2. <<s[k]>> \in Seq(S) /\ Len(<<s[k]>>) = 1 /\ <<s[k]>>[1] = s[k]
  OBVIOUS
<1> HIDE DEF f
<1>3. \A i \in 1..1 : f[i] = <<s[k]>>[i]
  BY <1>1, <1>2
<1>4. f = <<s[k]>>
  BY <1>1, <1>2, <1>3, SeqEqual
<1> QED BY <1>4 DEF f

\* Two types with the same fields.
LEMMA SameType ==
    ASSUME NEW r, NEW q,
           r = [f \in {"type", "length", "some", "value"} |-> r[f]],
           q = [f \in {"type", "length", "some", "value"} |-> q[f]],
           r.type = q.type, r.length = q.length, r.some = q.some, r.value = q.value
    PROVE  r = q
OBVIOUS

\* The innermost of one or two types, and what is below it.
LEMMA StackIs ==
    ASSUME NEW s, NEW t
    PROVE  /\ Last(<<s>>) = s /\ Front(<<s>>) = <<>> /\ Append(<<>>, s) = <<s>> /\ <<s>> # <<>>
           /\ Last(<<s, t>>) = t /\ Front(<<s, t>>) = <<s>> /\ Append(<<s>>, t) = <<s, t>> /\ <<s, t>> # <<>>
<1>1. Len(<<s>>) = 1 /\ Len(<<s, t>>) = 2 /\ <<s>>[1] = s /\ <<s, t>>[1] = s /\ <<s, t>>[2] = t
  OBVIOUS
<1>2. Last(<<s>>) = s /\ Last(<<s, t>>) = t
  BY <1>1 DEF Last
<1>3. Front(<<s>>) = <<>>
  BY <1>1 DEF Front
<1>4. Front(<<s, t>>) = <<s>>
  <2>1. <<s, t>> \in Seq({s, t}) /\ 1 \in 1..Len(<<s, t>>)
    OBVIOUS
  <2>2. SubSeq(<<s, t>>, 1, 1) = <<<<s, t>>[1]>>
    BY <2>1, OneOf
  <2>3. Front(<<s, t>>) = SubSeq(<<s, t>>, 1, 1)
    BY <1>1 DEF Front
  <2> QED BY <1>1, <2>2, <2>3
<1>5. Append(<<>>, s) = <<s>>
  OBVIOUS
<1>6. Append(<<s>>, t) = <<s, t>>
  <2>1. <<s>> \in Seq({s, t}) /\ <<s, t>> \in Seq({s, t})
    OBVIOUS
  <2>2. /\ Append(<<s>>, t) \in Seq({s, t}) /\ Len(Append(<<s>>, t)) = 2
        /\ Append(<<s>>, t)[1] = s /\ Append(<<s>>, t)[2] = t
    OBVIOUS
  <2>3. \A i \in 1..2 : Append(<<s>>, t)[i] = <<s, t>>[i]
    BY <1>1, <2>2
  <2> QED BY <1>1, <2>1, <2>2, <2>3, SeqEqual
<1>7. <<s>> # <<>> /\ <<s, t>> # <<>>
  OBVIOUS
<1> QED BY <1>2, <1>3, <1>4, <1>5, <1>6, <1>7

\* An array while its bulk strings are read, and a bulk string.
LEMMA TypesAre ==
    ASSUME NEW words \in Phrase, NEW w
    PROVE  /\ NewArray.type = "Array" /\ NewBulk.type = "BulkStr"
           /\ ~is_completed(NewArray) /\ ~is_completed(NewBulk)
           /\ \A j \in 0..Len(words) : is_completed(OpenArray(words, j)) <=> j = Len(words)
           /\ ~is_completed(Resp("BulkStr", Len(w), FALSE, <<>>)) /\ is_completed(BulkStr(w))
           /\ [NewArray EXCEPT !.length = Len(words)] = OpenArray(words, 0)
           /\ [NewBulk EXCEPT !.length = Len(w)] = Resp("BulkStr", Len(w), FALSE, <<>>)
           /\ [Resp("BulkStr", Len(w), FALSE, <<>>) EXCEPT !.some = TRUE, !.value = w] = BulkStr(w)
<1>1. NewArray.type = "Array" /\ NewBulk.type = "BulkStr" /\ ~is_completed(NewArray) /\ ~is_completed(NewBulk)
  BY DEF NewArray, NewBulk, Resp, is_completed
<1>2. ~is_completed(Resp("BulkStr", Len(w), FALSE, <<>>)) /\ is_completed(BulkStr(w))
  BY DEF BulkStr, Resp, is_completed
<1>3. [NewBulk EXCEPT !.length = Len(w)] = Resp("BulkStr", Len(w), FALSE, <<>>)
  <2> DEFINE r == [NewBulk EXCEPT !.length = Len(w)]
             q == Resp("BulkStr", Len(w), FALSE, <<>>)
  <2>1. /\ r = [f \in {"type", "length", "some", "value"} |-> r[f]]
        /\ q = [f \in {"type", "length", "some", "value"} |-> q[f]]
    BY DEF NewBulk, Resp
  <2>2. r.type = q.type /\ r.length = q.length /\ r.some = q.some /\ r.value = q.value
    BY DEF NewBulk, Resp
  <2> HIDE DEF r, q
  <2>3. r = q
    BY <2>1, <2>2, SameType
  <2> QED BY <2>3 DEF r, q
<1>4. [Resp("BulkStr", Len(w), FALSE, <<>>) EXCEPT !.some = TRUE, !.value = w] = BulkStr(w)
  <2> DEFINE r == [Resp("BulkStr", Len(w), FALSE, <<>>) EXCEPT !.some = TRUE, !.value = w]
             q == BulkStr(w)
  <2>1. /\ r = [f \in {"type", "length", "some", "value"} |-> r[f]]
        /\ q = [f \in {"type", "length", "some", "value"} |-> q[f]]
    BY DEF BulkStr, Resp
  <2>2. r.type = q.type /\ r.length = q.length /\ r.some = q.some /\ r.value = q.value
    BY DEF BulkStr, Resp
  <2> HIDE DEF r, q
  <2>3. r = q
    BY <2>1, <2>2, SameType
  <2> QED BY <2>3 DEF r, q
<1>5. [NewArray EXCEPT !.length = Len(words)] = OpenArray(words, 0)
  <2>1. [k \in 1..0 |-> BulkStr(words[k])] = <<>>
    OBVIOUS
  <2>2. (0 # 0) = FALSE
    OBVIOUS
  <2>3. OpenArray(words, 0) = Resp("Array", Len(words), FALSE, <<>>)
    BY <2>1, <2>2, Zenon DEF OpenArray
  <2> DEFINE r == [NewArray EXCEPT !.length = Len(words)]
             q == Resp("Array", Len(words), FALSE, <<>>)
  <2>4. /\ r = [f \in {"type", "length", "some", "value"} |-> r[f]]
        /\ q = [f \in {"type", "length", "some", "value"} |-> q[f]]
    BY DEF NewArray, Resp
  <2>5. r.type = q.type /\ r.length = q.length /\ r.some = q.some /\ r.value = q.value
    BY DEF NewArray, Resp
  <2> HIDE DEF r, q
  <2>6. r = q
    BY <2>4, <2>5, SameType
  <2> QED BY <2>3, <2>6 DEF r, q
<1>6. ASSUME NEW j \in 0..Len(words)
      PROVE  is_completed(OpenArray(words, j)) <=> j = Len(words)
  <2> DEFINE items == [k \in 1..j |-> BulkStr(words[k])]
  <2>1. Len(words) \in 1..9
    BY PhraseIs
  <2>2. Len(items) = j
    BY <2>1
  <2> HIDE DEF items
  <2>3. OpenArray(words, j) = Resp("Array", Len(words), j # 0, items)
    BY Zenon DEF OpenArray, items
  <2>4. is_completed(Resp("Array", Len(words), j # 0, items)) <=> (j # 0 /\ Len(items) = Len(words))
    BY DEF Resp, is_completed
  <2> QED BY <2>1, <2>2, <2>3, <2>4
<1> QED BY <1>1, <1>2, <1>3, <1>4, <1>5, <1>6

\* One more item.
LEMMA ItemAdded ==
    ASSUME NEW words \in Phrase, NEW j \in 0..(Len(words) - 1)
    PROVE  add_item(OpenArray(words, j), BulkStr(words[j + 1])) = OpenArray(words, j + 1)
<1> DEFINE items == [k \in 1..j |-> BulkStr(words[k])]
           more == [k \in 1..(j + 1) |-> BulkStr(words[k])]
           item == BulkStr(words[j + 1])
<1>1. Append(items, item) = more
  <2>1. j \in Nat /\ items \in Seq({BulkStr(words[k]) : k \in 1..Len(words)}) /\ Len(items) = j
    BY PhraseIs, SMTT(30)
  <2> QED BY <2>1
<1> HIDE DEF items, more, item
<1>2. OpenArray(words, j) = Resp("Array", Len(words), j # 0, items)
  BY Zenon DEF OpenArray, items
<1>3. (j + 1 # 0) = TRUE
  BY PhraseIs
<1>4. OpenArray(words, j + 1) = Resp("Array", Len(words), TRUE, more)
  BY <1>3, Zenon DEF OpenArray, more
<1>5. add_item(Resp("Array", Len(words), j # 0, items), item) = Resp("Array", Len(words), TRUE, Append(items, item))
  BY DEF add_item, Resp
<1> QED BY <1>1, <1>2, <1>4, <1>5 DEF item

\* With all of its items an array is the request.
LEMMA ArrayIsWhole ==
    ASSUME NEW words \in Phrase
    PROVE  OpenArray(words, Len(words)) = Request(words)
<1>1. (Len(words) # 0) = TRUE
  <2>1. Len(words) \in 1..9
    BY PhraseIs
  <2>2. Len(words) # 0
    BY <2>1, SMTT(30)
  <2> QED BY <2>2, Zenon
<1>2. OpenArray(words, Len(words)) = Resp("Array", Len(words), TRUE, [k \in 1..Len(words) |-> BulkStr(words[k])])
  BY <1>1, Zenon DEF OpenArray
<1> QED BY <1>2, RequestIs

-----------------------------------------------------------------------------
(***************************************************************************)
(* What the parser does at each place.                                      *)
(***************************************************************************)

\* What follows in the buffer and then in the socket.
Ahead(b, rest, y) == b \o rest = y

\* The bytes of a header that are there.
LEMMA HeaderAhead ==
    ASSUME NEW prefix \in {"*", "$"}, NEW n \in 0..9, NEW b \in Text, NEW rest \in Text, NEW x \in Text,
           Ahead(b, rest, Header(prefix, n) \o x)
    PROVE  /\ Len(b) >= 1 => b[1] = prefix
           /\ Len(b) >= 2 => b[2] = Digit(n)
           /\ Len(b) >= 3 => b[3] = CR
           /\ Len(b) >= 4 => b[4] = LF
<1> DEFINE h == Header(prefix, n)
<1>1. h \in Text /\ Len(h) = 4 /\ h[1] = prefix /\ h[2] = Digit(n) /\ h[3] = CR /\ h[4] = LF
  BY HeaderIs
<1>2. b \o rest = h \o x
  BY DEF Ahead
<1> HIDE DEF h
<1>3. \A k \in 1..Len(h) : k <= Len(b) => b[k] = h[k]
  <2> TAKE k \in 1..Len(h)
  <2> HAVE k <= Len(b)
  <2>1. k \in 1..Len(h) /\ k \in 1..Len(b)
    BY DEF Text
  <2>2. (b \o rest)[k] = b[k]
    BY <2>1 DEF Text
  <2>3. (h \o x)[k] = h[k]
    <3>1. h \in Text
      BY <1>1
    <3> QED BY <2>1, <3>1 DEF Text
  <2> QED BY <1>2, <2>2, <2>3
<1>4. 1 \in 1..4 /\ 2 \in 1..4 /\ 3 \in 1..4 /\ 4 \in 1..4 /\ Len(b) \in Nat
  BY DEF Text
<1> QED BY <1>1, <1>3, <1>4

\* A prefix is the first byte, and opens its type.
LEMMA TypeStep ==
    ASSUME NEW prefix \in {"*", "$"}, NEW n \in 0..9, NEW x \in Text,
           buf \in Text, socket \in Text, Ahead(buf, socket, Header(prefix, n) \o x),
           AtStart, ParseType(FALSE)
    PROVE  /\ stack' = Append(stack, IF prefix = "*" THEN NewArray ELSE NewBulk)
           /\ status' = [kind |-> "Header", n |-> 0] /\ buf_cur' = 1 /\ tmp_start' = 1
           /\ UNCHANGED <<buf, completed, parsing>>
<1> DEFINE t == match_prefix(prefix, FALSE)
<1>1. Len(buf) \in Nat /\ 0 < Len(buf) /\ buf_cur = 0
  BY DEF ParseType, Reads, AtStart, Text
<1>2. buf[1] = prefix
  <2>1. Len(buf) >= 1
    BY <1>1
  <2> QED BY <2>1, HeaderAhead
<1>3. 0 \in TypesAhead /\ TypesAhead \subseteq Nat
  <2>1. 0 \in buf_cur..Len(buf) - 1 /\ 0 + 1 = 1
    BY <1>1
  <2>2. prefix \in TypeBytes
    BY DEF TypeBytes
  <2> HIDE DEF TypeBytes
  <2>3. 0 \in TypesAhead
    BY <1>2, <2>1, <2>2 DEF TypesAhead
  <2>4. TypesAhead \subseteq Nat
    BY <1>1 DEF TypesAhead
  <2> QED BY <2>3, <2>4
<1>4. Min(TypesAhead) = 0
  <2>1. \A y \in TypesAhead : 0 <= y
    BY <1>3
  <2>2. \A a \in TypesAhead : (\A y \in TypesAhead : a <= y) <=> a = 0
    BY <1>3, <2>1
  <2> QED BY <1>3, <2>2 DEF Min
<1>5. t = (IF prefix = "*" THEN NewArray ELSE NewBulk) /\ t.type \in {"Array", "BulkStr", "RDB"}
  <2>1. CASE prefix = "*"
    <3>1. t = NewArray
      BY <2>1, Zenon DEF match_prefix, NewArray
    <3> HIDE DEF t
    <3> QED BY <2>1, <3>1 DEF NewArray, Resp
  <2>2. CASE prefix = "$"
    <3>1. prefix # "*"
      BY <2>2
    <3>2. t = NewBulk
      BY <2>2, <3>1, Zenon DEF match_prefix, NewBulk
    <3> HIDE DEF t
    <3> QED BY <3>1, <3>2 DEF NewBulk, Resp
  <2> QED BY <2>1, <2>2
<1> HIDE DEF t
<1>6. TypesAhead # {} /\ buf[Min(TypesAhead) + 1] = prefix /\ Min(TypesAhead) + 1 = 1
  BY <1>2, <1>3, <1>4
<1>7. /\ buf_cur' = 1 /\ tmp_start' = 1 /\ stack' = Append(stack, t)
      /\ CASE t.type \in {"Array", "BulkStr", "RDB"} -> Status("Header", 0)
           [] t.type \in {"SimpleStr", "Integer"} -> Status("Line", 0)
           [] OTHER -> TypeStatus
  BY <1>6, Zenon DEF ParseType, t
<1>8. Status("Header", 0)
  <2>1. t.type \notin {"SimpleStr", "Integer"}
    BY <1>5
  <2> QED BY <1>5, <1>7, <2>1, Zenon
<1>9. UNCHANGED <<buf, completed, parsing>>
  BY DEF ParseType
<1> QED BY <1>5, <1>7, <1>8, <1>9 DEF Status

\* A header is open until its four bytes are there, and then says how much follows.
LEMMA HeaderStep ==
    ASSUME NEW prefix \in {"*", "$"}, NEW n \in 0..9, NEW x \in Text, NEW types, NEW t,
           buf \in Text, socket \in Text, Ahead(buf, socket, Header(prefix, n) \o x),
           AfterPrefix, ParseHeader, Last(stack) = t, Front(stack) = types,
           t.type = (IF prefix = "*" THEN "Array" ELSE "BulkStr")
    PROVE  \/ /\ Len(buf) < 4 /\ buf_cur' \in 1..2 /\ parsing' = "done"
              /\ UNCHANGED <<buf, tmp_start, stack, completed, status>>
           \/ /\ Len(buf) >= 4
              /\ stack' = Append(types, [t EXCEPT !.length = n])
              /\ status' = IF prefix = "*" THEN [kind |-> "Type", n |-> 0] ELSE [kind |-> "Bulk", n |-> n]
              /\ buf' = SubSeq(buf, 5, Len(buf)) /\ buf_cur' = 0 /\ tmp_start' = 0
              /\ UNCHANGED <<completed, parsing>>
<1>1. /\ Len(buf) \in Nat /\ buf_cur < Len(buf) /\ buf_cur \in 1..2 /\ tmp_start = 1
  BY DEF ParseHeader, Reads, AfterPrefix, Text
<1>4. (2 <= Len(buf) => buf[2] = Digit(n)) /\ (3 <= Len(buf) => buf[3] = CR) /\ (4 <= Len(buf) => buf[4] = LF)
  <2>1. /\ Len(buf) >= 2 => buf[2] = Digit(n)
        /\ Len(buf) >= 3 => buf[3] = CR
        /\ Len(buf) >= 4 => buf[4] = LF
    BY HeaderAhead
  <2> QED BY <1>1, <2>1
<1>5. CR # LF
  BY DEF CR, LF
<1>6. CASE Len(buf) < 4
  <2>1. NewLines = {}
    <3> SUFFICES ASSUME NEW k \in buf_cur..Len(buf) - 2, buf[k + 1] = CR /\ buf[k + 2] = LF PROVE FALSE
      BY DEF NewLines
    <3>1. k = 1 /\ k + 2 = 3 /\ 3 <= Len(buf)
      BY <1>1, <1>6
    <3> QED BY <1>4, <1>5, <3>1
  <2>2. LineIsOpen
    BY <2>1 DEF ParseHeader
  <2>3. Len(buf) - 1 \in 1..2
    <3>1. \A l \in Nat, c \in 1..2 : c < l /\ l < 4 => l - 1 \in 1..2
      OBVIOUS
    <3> QED BY <1>1, <1>6, <3>1
  <2>4. /\ buf_cur' = Len(buf) - 1 /\ parsing' = "done"
        /\ UNCHANGED <<buf, tmp_start, stack, completed, status>>
    BY <2>2 DEF LineIsOpen
  <2>5. buf_cur' \in 1..2
    BY <2>3, <2>4
  <2> QED BY <1>6, <2>4, <2>5, Zenon
<1>7. CASE Len(buf) >= 4
  <2>1. 2 \in NewLines
    <3>1. 2 \in buf_cur..Len(buf) - 2 /\ 2 + 1 = 3 /\ 2 + 2 = 4
      BY <1>1, <1>7
    <3> QED BY <1>4, <1>7, <1>1, <3>1 DEF NewLines
  <2>2. \A k \in NewLines : k \in Nat /\ 2 <= k
    <3> TAKE k \in NewLines
    <3>1. k \in buf_cur..Len(buf) - 2 /\ buf[k + 2] = LF
      BY DEF NewLines
    <3>2. k # 1
      <4> SUFFICES ASSUME k = 1 PROVE FALSE
        OBVIOUS
      <4>1. buf[3] = LF /\ 3 <= Len(buf)
        BY <1>1, <1>7, <3>1
      <4> QED BY <1>4, <1>5, <4>1
    <3> QED BY <1>1, <3>1, <3>2
  <2>3. Min(NewLines) = 2
    <3>1. \A a \in NewLines : (\A y \in NewLines : a <= y) <=> a = 2
      BY <2>1, <2>2
    <3> QED BY <2>1, <3>1 DEF Min
  <2>4. Line = <<Digit(n)>>
    <3>1. SubSeq(buf, 2, 2) = <<buf[2]>>
      <4>1. 2 \in 1..Len(buf)
        BY <1>1, <1>7
      <4> QED BY <4>1, OneOf DEF Text
    <3>2. Line = SubSeq(buf, 2, 2)
      <4>1. tmp_start + 1 = 2
        BY <1>1
      <4> QED BY <2>3, <4>1, Zenon DEF Line
    <3> QED BY <1>1, <1>4, <1>7, <3>1, <3>2
  <2>5. IsNumber(Line) /\ Number(Line) = n /\ NewLines # {}
    BY <2>1, <2>4, DigitIsNumber
  <2>6. /\ stack' = Append(types, IF t.type = "RDB" THEN t ELSE [t EXCEPT !.length = n])
        /\ CASE t.type = "Array" -> TypeStatus
             [] t.type = "BulkStr" -> Status("Bulk", n)
             [] t.type = "RDB" -> Status("RDB", n)
        /\ DrainTill(4) /\ UNCHANGED <<completed, parsing>>
    <3>1. ~LineIsOpen
      BY <2>5 DEF LineIsOpen
    <3>2. Min(NewLines) + 2 = 4
      BY <2>3
    <3> QED BY <2>5, <3>1, <3>2, Zenon DEF ParseHeader
  <2>7. t.type # "RDB"
    OBVIOUS
  <2>8. stack' = Append(types, [t EXCEPT !.length = n])
    BY <2>6, <2>7
  <2>9. buf' = SubSeq(buf, 5, Len(buf)) /\ buf_cur' = 0 /\ tmp_start' = 0
    BY <2>6 DEF DrainTill
  <2>10. status' = IF prefix = "*" THEN [kind |-> "Type", n |-> 0] ELSE [kind |-> "Bulk", n |-> n]
    <3>1. CASE prefix = "*"
      <4>1. t.type = "Array" /\ t.type # "BulkStr"
        BY <3>1
      <4>2. TypeStatus
        BY <2>6, <2>7, <4>1, Zenon
      <4> QED BY <3>1, <4>2 DEF TypeStatus, Status
    <3>2. CASE prefix = "$"
      <4>1. t.type # "Array" /\ t.type = "BulkStr" /\ prefix # "*"
        BY <3>2
      <4>2. Status("Bulk", n)
        BY <2>6, <2>7, <4>1, Zenon
      <4> QED BY <4>1, <4>2 DEF Status
    <3> QED BY <3>1, <3>2
  <2> QED BY <1>7, <2>6, <2>8, <2>9, <2>10
<1> QED BY <1>1, <1>6, <1>7


\* The bytes of a bulk string that are all there.
LEMMA BulkIsThere ==
    ASSUME NEW w \in Word, NEW b \in Text, NEW rest \in Text, NEW x \in Text,
           Ahead(b, rest, (w \o Ending) \o x), Len(w) + 2 <= Len(b)
    PROVE  SubSeq(b, 1, Len(w)) = w /\ SubSeq(b, Len(w) + 1, Len(w) + 2) = Ending
<1> DEFINE h == w \o Ending
           f == SubSeq(b, 1, Len(w))
           e == SubSeq(b, Len(w) + 1, Len(w) + 2)
<1>1. /\ w \in Text /\ Ending \in Text /\ Len(w) \in Nat /\ Len(Ending) = 2
      /\ h \in Text /\ Len(h) = Len(w) + 2 /\ Len(b) \in Nat
  BY WordIs DEF Text
<1>2. ASSUME NEW k \in 1..(Len(w) + 2)
      PROVE  b[k] = h[k]
  <2>1. b \o rest = h \o x
    BY DEF Ahead
  <2> HIDE DEF h
  <2>2. k \in 1..Len(h) /\ k \in 1..Len(b)
    BY <1>1
  <2>3. (b \o rest)[k] = b[k]
    BY <2>2 DEF Text
  <2>4. (h \o x)[k] = h[k]
    <3>1. h \in Text
      BY <1>1
    <3> QED BY <2>2, <3>1 DEF Text
  <2> QED BY <2>1, <2>3, <2>4
<1>3. \A k \in 1..Len(w) : h[k] = w[k]
  BY <1>1 DEF Text
<1>4. \A k \in 1..2 : h[Len(w) + k] = Ending[k]
  BY <1>1 DEF Text
<1>5. f \in Text /\ Len(f) = Len(w) /\ \A k \in 1..Len(w) : f[k] = b[k]
  BY <1>1 DEF Text
<1>6. e \in Text /\ Len(e) = 2 /\ \A k \in 1..2 : e[k] = b[Len(w) + k]
  BY <1>1 DEF Text
<1> HIDE DEF h, f, e
<1>7. \A k \in 1..Len(w) : f[k] = w[k]
  <2> TAKE k \in 1..Len(w)
  <2>1. k \in 1..(Len(w) + 2)
    BY <1>1
  <2> QED BY <1>2, <1>3, <1>5, <2>1
<1>8. \A k \in 1..2 : e[k] = Ending[k]
  <2> TAKE k \in 1..2
  <2>1. Len(w) + k \in 1..(Len(w) + 2)
    BY <1>1
  <2> QED BY <1>2, <1>4, <1>6, <2>1
<1>9. f = w
  BY <1>1, <1>5, <1>7, SeqEqual DEF Text
<1>10. e = Ending
  BY <1>1, <1>6, <1>8, SeqEqual DEF Text
<1> QED BY <1>9, <1>10 DEF f, e

\* A bulk string is taken once its bytes and their delimiter are there; until then the
\* cursor moves, at most to its end.
LEMMA BulkStep ==
    ASSUME NEW w \in Word, NEW x \in Text, NEW types, NEW t,
           buf \in Text, socket \in Text, Ahead(buf, socket, (w \o Ending) \o x),
           status = [kind |-> "Bulk", n |-> Len(w)], tmp_start = 0, buf_cur \in 0..(Len(w) + 2),
           ParseBytes("Bulk"), Last(stack) = t, Front(stack) = types
    PROVE  /\ UNCHANGED <<completed, parsing>>
           /\ \/ /\ buf_cur' \in 0..(Len(w) + 2)
                 /\ UNCHANGED <<buf, tmp_start, stack, status>>
              \/ /\ Len(w) + 2 <= Len(buf)
                 /\ stack' = Append(types, [t EXCEPT !.some = TRUE, !.value = w])
                 /\ status' = [kind |-> "Type", n |-> 0]
                 /\ buf' = SubSeq(buf, (Len(w) + 2) + 1, Len(buf)) /\ buf_cur' = 0 /\ tmp_start' = 0
<1> DEFINE ending == IF "Bulk" = "RDB" THEN 0 ELSE 2
           whole == status.n + ending
           read == buf_cur - tmp_start
           want == IF whole > read THEN whole - read ELSE 0
           cur == Advance(want)
           bytes == SubSeq(buf, tmp_start + 1, tmp_start + status.n)
           ends == SubSeq(buf, tmp_start + status.n + 1, cur) = <<CR, LF>>
           complete == cur <= Len(buf) /\ cur - tmp_start = whole
           valid == "Bulk" = "RDB" \/ (ends /\ ~Contains(bytes, Binary))
<1>1. UNCHANGED <<completed, parsing>>
  BY DEF ParseBytes
<1>2. \/ complete /\ valid /\ SetValue(bytes) /\ DrainTill(cur) /\ TypeStatus
      \/ complete /\ ~valid
      \/ ~complete /\ buf_cur' = cur /\ UNCHANGED <<buf, tmp_start, stack, status>>
  BY Zenon DEF ParseBytes
<1>3. Len(w) \in 0..9 /\ Len(buf) \in Nat /\ ~Contains(w, Binary)
  <2>1. Len(w) \in 0..9 /\ ~Contains(w, Binary)
    BY WordIs
  <2>2. Len(buf) \in Nat
    BY DEF Text
  <2> QED BY <2>1, <2>2
<1>4. status.n = Len(w)
  OBVIOUS
<1>5. whole = Len(w) + 2 /\ want = (Len(w) + 2) - buf_cur
  BY <1>3, <1>4
<1>6. cur \in 0..(Len(w) + 2)
  <2> HIDE DEF want
  <2> QED BY <1>3, <1>5 DEF Advance
<1>7. complete <=> cur = Len(w) + 2 /\ Len(w) + 2 <= Len(buf)
  <2> HIDE DEF cur, whole
  <2> QED BY <1>3, <1>5, <1>6
<1>8. complete => bytes = w /\ ends
  <2> SUFFICES ASSUME complete PROVE bytes = w /\ ends
    OBVIOUS
  <2>1. cur = Len(w) + 2 /\ Len(w) + 2 <= Len(buf)
    BY <1>7
  <2> HIDE DEF cur, complete, whole
  <2>2. tmp_start + 1 = 1 /\ tmp_start + status.n = Len(w) /\ tmp_start + status.n + 1 = Len(w) + 1
    BY <1>3, <1>4
  <2>3. SubSeq(buf, 1, Len(w)) = w /\ SubSeq(buf, Len(w) + 1, Len(w) + 2) = Ending
    BY <2>1, BulkIsThere
  <2>4. bytes = w
    BY <2>2, <2>3, Zenon
  <2>5. ends
    BY <2>1, <2>2, <2>3, Zenon DEF Ending
  <2> QED BY <2>4, <2>5
<1> HIDE DEF cur, complete, whole, bytes, ends
<1>9. complete => valid
  BY <1>3, <1>8, Zenon
<1>10. CASE complete
  <2>1. SetValue(w) /\ DrainTill(Len(w) + 2) /\ TypeStatus /\ Len(w) + 2 <= Len(buf)
    BY <1>2, <1>7, <1>8, <1>9, <1>10, Zenon
  <2>2. stack' = Append(types, [t EXCEPT !.some = TRUE, !.value = w])
    BY <2>1 DEF SetValue
  <2>3. buf' = SubSeq(buf, (Len(w) + 2) + 1, Len(buf)) /\ buf_cur' = 0 /\ tmp_start' = 0
    BY <2>1 DEF DrainTill
  <2>4. status' = [kind |-> "Type", n |-> 0]
    BY <2>1 DEF TypeStatus, Status
  <2> QED BY <1>1, <2>1, <2>2, <2>3, <2>4, Zenon
<1>11. CASE ~complete
  <2>1. buf_cur' = cur /\ UNCHANGED <<buf, tmp_start, stack, status>>
    BY <1>2, <1>11, Zenon
  <2> QED BY <1>1, <1>6, <2>1, Zenon
<1> QED BY <1>10, <1>11, Zenon


-----------------------------------------------------------------------------
(***************************************************************************)
(* What is ahead at each place.                                             *)
(***************************************************************************)

\* The beginning of the buffer is drained.
LEMMA AheadDrained ==
    ASSUME NEW all, NEW drained \in Text, NEW b \in Text, NEW rest \in Text, NEW h \in Text, NEW x \in Text,
           Ahead(b, rest, h \o x), Len(h) <= Len(b), Is(all, drained, b, rest)
    PROVE  /\ SubSeq(b, Len(h) + 1, Len(b)) \in Text
           /\ Is(all, drained \o h, SubSeq(b, Len(h) + 1, Len(b)), rest)
<1>1. b \o rest = h \o x
  BY DEF Ahead
<1> QED BY <1>1, IsDrained

\* Between two phrases the next array is ahead.
LEMMA AheadOfPhrase ==
    ASSUME NEW phrases \in Seq(Phrase), NEW i \in 0..(Len(phrases) - 1), NEW b \in Text, NEW rest \in Text,
           Is(Bytes(Said(phrases)), Before(phrases, i), b, rest)
    PROVE  /\ phrases[i + 1] \in Phrase /\ Before(phrases, i) \in Text
           /\ \E x \in Text : Ahead(b, rest, Header("*", Len(phrases[i + 1])) \o x)
<1> DEFINE h == Header("*", Len(phrases[i + 1]))
<1>1. phrases[i + 1] \in Phrase /\ Before(phrases, i) \in Text
  BY PhraseAhead
<1>2. PICK x \in Text : Bytes(Said(phrases)) = Before(phrases, i) \o (h \o x)
  BY PhraseAhead
<1>3. h \in Text
  BY <1>1, PhraseIs
<1> HIDE DEF h
<1>4. h \o x \in Text
  BY <1>3, Joined
<1>5. b \o rest = h \o x
  BY <1>1, <1>2, <1>4, IsAhead, ZenonT(60)
<1> QED BY <1>1, <1>5 DEF h, Ahead

\* After the last phrase nothing is.
LEMMA AheadOfNothing ==
    ASSUME NEW phrases \in Seq(Phrase), NEW b \in Text, NEW rest \in Text,
           Is(Bytes(Said(phrases)), Before(phrases, Len(phrases)), b, rest)
    PROVE  Len(b) = 0
<1>1. Before(phrases, Len(phrases)) \in Text /\ Bytes(Said(phrases)) = Before(phrases, Len(phrases))
  <2>1. Len(phrases) \in 0..Len(phrases)
    OBVIOUS
  <2> QED BY <2>1, SaidIs DEF Before
<1>2. Before(phrases, Len(phrases)) \o <<>> = Before(phrases, Len(phrases)) /\ <<>> \in Text
  <2>1. <<>> \in Text
    BY DEF Text
  <2> QED BY <1>1, <2>1, Joined
<1>3. Bytes(Said(phrases)) = Before(phrases, Len(phrases)) \o <<>>
  BY <1>1, <1>2
<1>4. b \o rest = <<>>
  <2>1. \A y \in Text : Bytes(Said(phrases)) = Before(phrases, Len(phrases)) \o y => b \o rest = y
    BY <1>1, IsAhead, ZenonT(60)
  <2> QED BY <1>2, <1>3, <2>1, Zenon
<1>5. Len(b \o rest) = Len(b) + Len(rest) /\ Len(b) \in Nat /\ Len(rest) \in Nat
  BY Joined
<1>6. Len(b) + Len(rest) = 0
  <2>1. Len(<<>>) = 0
    OBVIOUS
  <2> QED BY <1>4, <1>5, <2>1
<1> QED BY <1>5, <1>6

\* In a phrase a bulk string is ahead, and after its header its bytes.
LEMMA AheadOfBulk ==
    ASSUME NEW phrases \in Seq(Phrase), NEW i \in 0..(Len(phrases) - 1),
           NEW j \in 0..(Len(phrases[i + 1]) - 1), NEW w, w = phrases[i + 1][j + 1],
           NEW b \in Text, NEW rest \in Text
    PROVE  /\ Is(Bytes(Said(phrases)), ReadOf(phrases, i, j), b, rest)
                => \E x \in Text : Ahead(b, rest, Header("$", Len(w)) \o x)
           /\ Is(Bytes(Said(phrases)), ReadOf(phrases, i, j) \o Header("$", Len(w)), b, rest)
                => \E x \in Text : Ahead(b, rest, (w \o Ending) \o x)
<1> DEFINE h == Header("$", Len(w))
           r == ReadOf(phrases, i, j)
           v == w \o Ending
           all == Bytes(Said(phrases))
<1>1. w \in Word /\ h \in Text /\ r \in Text /\ r \o h \in Text
  BY BulkAhead
<1>2. PICK x \in Text : Before(phrases, i + 1) = ReadOf(phrases, i, j + 1) \o x
  BY BulkAhead
<1>3. PICK y \in Text : all = Before(phrases, i + 1) \o y
  BY PhraseAhead
<1>4. v \in Text
  BY <1>1, WordIs
<1>5. ReadOf(phrases, i, j + 1) = (r \o h) \o v /\ ReadOf(phrases, i, j + 1) \in Text
  BY BulkAhead
<1> DEFINE z == x \o y
<1> HIDE DEF h, r, v, all
<1>6. z \in Text
  BY Joined
<1>7. all = ((r \o h) \o v) \o z
  <2>1. ReadOf(phrases, i, j + 1) \o (x \o y) = (ReadOf(phrases, i, j + 1) \o x) \o y
    BY <1>5, JoinedThrice, Zenon
  <2> QED BY <1>2, <1>3, <1>5, <2>1, Zenon
<1> HIDE DEF z
<1>8. v \o z \in Text
  BY <1>4, <1>6, Joined
<1>9. all = (r \o h) \o (v \o z)
  <2> DEFINE s == r \o h
  <2>1. s \in Text
    BY <1>1
  <2> HIDE DEF s
  <2>2. s \o (v \o z) = (s \o v) \o z
    BY <1>4, <1>6, <2>1, JoinedThrice, ZenonT(60)
  <2> QED BY <1>7, <2>2, Zenon DEF s
<1>10. all = r \o (h \o (v \o z))
  <2> DEFINE s == v \o z
  <2>1. s \in Text
    BY <1>8
  <2>2. r \in Text
    BY <1>1
  <2>3. h \in Text
    BY <1>1
  <2> HIDE DEF s
  <2>4. \A t, u, o \in Text : t \o (u \o o) = (t \o u) \o o
    BY JoinedThrice, Zenon
  <2>5. \A u, o \in Text : r \o (u \o o) = (r \o u) \o o
    BY <2>4, <2>2, Zenon
  <2>6. \A o \in Text : r \o (h \o o) = (r \o h) \o o
    BY <2>3, <2>5, Zenon
  <2>7. r \o (h \o s) = (r \o h) \o s
    BY <2>1, <2>6, Zenon
  <2> QED BY <1>9, <2>7, Zenon DEF s
<1>11. h \o (v \o z) \in Text
  BY <1>1, <1>8, Joined
<1>12. Is(all, r, b, rest) => Ahead(b, rest, h \o (v \o z))
  <2> SUFFICES ASSUME Is(all, r, b, rest) PROVE Ahead(b, rest, h \o (v \o z))
    OBVIOUS
  <2>1. b \o rest = h \o (v \o z)
    BY <1>1, <1>10, <1>11, IsAhead
  <2> QED BY <2>1 DEF Ahead
<1>13. Is(all, r \o h, b, rest) => Ahead(b, rest, v \o z)
  <2> SUFFICES ASSUME Is(all, r \o h, b, rest) PROVE Ahead(b, rest, v \o z)
    OBVIOUS
  <2>1. b \o rest = v \o z
    BY <1>1, <1>8, <1>9, IsAhead
  <2> QED BY <2>1 DEF Ahead
<1> QED BY <1>6, <1>8, <1>12, <1>13, Zenon DEF h, r, v, all


-----------------------------------------------------------------------------
(***************************************************************************)
(* Every step of the connection keeps its place in the stream.              *)
(***************************************************************************)

\* A step of the parser leaves what was handled.
LEMMA ParserStep ==
    ASSUME NEW phrases \in Seq(Phrase), Hears(phrases),
           UNCHANGED <<sent, socket, parse_rdb, delivered, answers>>,
           buf' \in Text, parsing' \in {"idle", "parse", "done"}, Progress(phrases)', Waiting'
    PROVE  Hears(phrases)'
<1>1. Handled(phrases)'
  BY DEF Hears, Handled
<1> QED BY <1>1 DEF Hears

\* Where the parser is that reads a type, or a header, or a bulk string.
LEMMA Places ==
    ASSUME NEW phrases \in Seq(Phrase), Hears(phrases), completed = <<>>, ~TopCompleted
    PROVE  LET i == Len(answers)
           IN \/ Between(phrases, i)
              \/ /\ i \in 0..(Len(phrases) - 1) /\ phrases[i + 1] \in Phrase
                 /\ \/ InArrayHeader(phrases, i)
                    \/ \E j \in 0..(Len(phrases[i + 1]) - 1) :
                          InArray(phrases, i, j) \/ InBulkHeader(phrases, i, j) \/ InBulk(phrases, i, j)
<1> DEFINE i == Len(answers)
           words == phrases[i + 1]
<1>1. i \in Nat /\ Len(phrases) \in Nat
  BY DEF Hears, Handled
<1>2. Between(phrases, i) \/ (i < Len(phrases) /\ InPhrase(phrases, i))
  BY DEF Hears, Progress
<1>3. SUFFICES ASSUME i < Len(phrases), InPhrase(phrases, i)
               PROVE  /\ i \in 0..(Len(phrases) - 1) /\ words \in Phrase
                      /\ \/ InArrayHeader(phrases, i)
                         \/ \E j \in 0..(Len(words) - 1) :
                               InArray(phrases, i, j) \/ InBulkHeader(phrases, i, j) \/ InBulk(phrases, i, j)
  BY <1>2, Zenon
<1>4. i \in 0..(Len(phrases) - 1)
  BY <1>1, <1>3
<1>5. words \in Phrase
  BY <1>4, PhraseAhead
<1>6. Len(words) \in 1..9
  BY <1>5, PhraseIs
<1> HIDE DEF i, words
<1>7. CASE InArrayHeader(phrases, i)
  BY <1>4, <1>5, <1>7
<1>8. CASE \E j \in 0..Len(words) :
              \/ InArray(phrases, i, j)
              \/ /\ j < Len(words)
                 /\ InBulkHeader(phrases, i, j) \/ InBulk(phrases, i, j) \/ BulkIsRead(phrases, i, j)
  <2>1. PICK j \in 0..Len(words) :
              \/ InArray(phrases, i, j)
              \/ /\ j < Len(words)
                 /\ InBulkHeader(phrases, i, j) \/ InBulk(phrases, i, j) \/ BulkIsRead(phrases, i, j)
    BY <1>8
  <2>2. ~BulkIsRead(phrases, i, j)
    <3> SUFFICES ASSUME BulkIsRead(phrases, i, j) PROVE TopCompleted
      OBVIOUS
    <3> DEFINE top == BulkStr(words[j + 1])
               below == OpenArray(words, j)
    <3>1. stack = <<below, top>>
      BY DEF BulkIsRead, At, words
    <3>2. is_completed(top)
      BY <1>5, TypesAre
    <3> HIDE DEF top, below
    <3> QED BY <3>1, <3>2, StackIs DEF TopCompleted
  <2>3. InArray(phrases, i, j) => j # Len(words)
    <3> SUFFICES ASSUME InArray(phrases, i, j), j = Len(words) PROVE TopCompleted
      OBVIOUS
    <3> DEFINE top == OpenArray(words, j)
    <3>1. stack = <<top>>
      BY DEF InArray, At, words
    <3>2. is_completed(top)
      BY <1>5, TypesAre
    <3> HIDE DEF top
    <3> QED BY <3>1, <3>2, StackIs DEF TopCompleted
  <2>4. j \in 0..(Len(words) - 1)
    BY <1>6, <2>1, <2>2, <2>3
  <2> QED BY <1>4, <1>5, <2>1, <2>2, <2>4, Zenon
<1> QED BY <1>3, <1>7, <1>8 DEF InPhrase, words

\* The kinds of status at these places.
LEMMA PlaceKinds ==
    ASSUME NEW phrases, NEW i
    PROVE  /\ Between(phrases, i) => status.kind = "Type"
           /\ InArrayHeader(phrases, i) => status.kind = "Header"
           /\ \A j : /\ InArray(phrases, i, j) => status.kind = "Type"
                     /\ InBulkHeader(phrases, i, j) => status.kind = "Header"
                     /\ InBulk(phrases, i, j) => status.kind = "Bulk"
<1>1. \A types, kind, n, drained : At(types, kind, n, drained) => status.kind = kind
  BY DEF At
<1>2. Between(phrases, i) => status.kind = "Type"
  BY <1>1, Zenon DEF Between
<1>3. InArrayHeader(phrases, i) => status.kind = "Header"
  BY <1>1, Zenon DEF InArrayHeader
<1>4. \A j : InArray(phrases, i, j) => status.kind = "Type"
  BY <1>1, Zenon DEF InArray
<1>5. \A j : InBulkHeader(phrases, i, j) => status.kind = "Header"
  BY <1>1, Zenon DEF InBulkHeader
<1>6. \A j : InBulk(phrases, i, j) => status.kind = "Bulk"
  BY <1>1, Zenon DEF InBulk
<1> QED BY <1>2, <1>3, <1>4, <1>5, <1>6, Zenon

\* ParseType opens the next array, or the next bulk string of the open one.
LEMMA ParseTypeKeeps ==
    ASSUME NEW phrases \in Seq(Phrase), Hears(phrases), ParseType(parse_rdb),
           UNCHANGED <<sent, socket, parse_rdb, delivered, answers>>
    PROVE  Hears(phrases)'
<1> DEFINE i == Len(answers)
<1>1. /\ sent = Said(phrases) /\ buf \in Text /\ socket \in Text /\ parse_rdb = FALSE
      /\ i \in Nat /\ i <= Len(phrases) /\ Len(phrases) \in Nat
  BY DEF Hears, Handled
<1>2. /\ parsing = "parse" /\ ~TopCompleted /\ completed = <<>> /\ status.kind = "Type"
      /\ buf_cur < Len(buf)
  BY DEF ParseType, Reads
<1>3. ParseType(FALSE)
  BY <1>1
<1>4. UNCHANGED <<buf, completed, parsing>>
  BY DEF ParseType
<1>5. Progress(phrases)'
  <2>1. CASE Between(phrases, i)
    <3>1. Is(Bytes(Said(phrases)), Before(phrases, i), buf, socket) /\ stack = <<>> /\ AtStart
      BY <1>1, <2>1 DEF Between, At
    <3>2. i # Len(phrases)
      <4> SUFFICES ASSUME i = Len(phrases) PROVE FALSE
        OBVIOUS
      <4>1. Len(buf) = 0
        BY <1>1, <3>1, AheadOfNothing
      <4> QED BY <1>2, <3>1, <4>1 DEF AtStart
    <3>3. i \in 0..(Len(phrases) - 1)
      BY <1>1, <3>2
    <3> HIDE DEF i
    <3>4. phrases[i + 1] \in Phrase
      BY <1>1, <3>1, <3>3, AheadOfPhrase
    <3>5. PICK x \in Text : Ahead(buf, socket, Header("*", Len(phrases[i + 1])) \o x)
      BY <1>1, <3>1, <3>3, AheadOfPhrase
    <3>6. "*" \in {"*", "$"} /\ Len(phrases[i + 1]) \in 0..9
      BY <3>4, PhraseIs
    <3>7. /\ stack' = Append(stack, IF "*" = "*" THEN NewArray ELSE NewBulk)
          /\ status' = [kind |-> "Header", n |-> 0] /\ buf_cur' = 1 /\ tmp_start' = 1
      BY <1>1, <1>3, <3>1, <3>5, <3>6, TypeStep
    <3>8. stack' = <<NewArray>>
      BY <3>1, <3>7, StackIs
    <3>9. InArrayHeader(phrases, i)'
      <4>1. At(<<NewArray>>, "Header", 0, Before(phrases, i))'
        BY <1>1, <1>4, <3>1, <3>7, <3>8 DEF At, i
      <4>2. AfterPrefix'
        BY <3>7 DEF AfterPrefix
      <4> QED BY <4>1, <4>2 DEF InArrayHeader
    <3> QED BY <1>2, <1>4, <3>3, <3>9 DEF Progress, InPhrase, i
  <2>2. ASSUME i \in 0..(Len(phrases) - 1), phrases[i + 1] \in Phrase,
               NEW j \in 0..(Len(phrases[i + 1]) - 1), InArray(phrases, i, j)
        PROVE  Progress(phrases)'
    <3> DEFINE words == phrases[i + 1]
               w == words[j + 1]
    <3>1. /\ Is(Bytes(Said(phrases)), ReadOf(phrases, i, j), buf, socket) /\ AtStart
          /\ stack = <<OpenArray(words, j)>>
      BY <1>1, <2>2 DEF InArray, At
    <3>2. w \in Word /\ Len(words) \in 1..9
      <4>1. j + 1 \in 1..Len(words)
        BY <2>2, PhraseIs
      <4> QED BY <2>2, <4>1, PhraseIs
    <3> HIDE DEF i
    <3>3. PICK x \in Text : Ahead(buf, socket, Header("$", Len(w)) \o x)
      BY <1>1, <2>2, <3>1, AheadOfBulk
    <3>4. "$" \in {"*", "$"} /\ Len(w) \in 0..9
      BY <3>2, WordIs
    <3>5. /\ stack' = Append(stack, IF "$" = "*" THEN NewArray ELSE NewBulk)
          /\ status' = [kind |-> "Header", n |-> 0] /\ buf_cur' = 1 /\ tmp_start' = 1
      BY <1>1, <1>3, <3>1, <3>3, <3>4, TypeStep
    <3>6. stack' = <<OpenArray(words, j), NewBulk>>
      BY <3>1, <3>5, StackIs
    <3>7. InBulkHeader(phrases, i, j)'
      <4>1. At(<<OpenArray(words, j), NewBulk>>, "Header", 0, ReadOf(phrases, i, j))'
        BY <1>1, <1>4, <3>1, <3>5, <3>6 DEF At, i
      <4>2. AfterPrefix'
        BY <3>5 DEF AfterPrefix
      <4> QED BY <4>1, <4>2 DEF InBulkHeader
    <3>8. j \in 0..Len(words) /\ j < Len(words) /\ i < Len(phrases)
      BY <1>1, <2>2, <3>2
    <3>9. InPhrase(phrases, i)'
      BY <3>7, <3>8 DEF InPhrase, i
    <3> QED BY <1>2, <1>4, <3>8, <3>9 DEF Progress, i
  <2> HIDE DEF i
  <2>3. \/ Between(phrases, i)
        \/ /\ i \in 0..(Len(phrases) - 1) /\ phrases[i + 1] \in Phrase
           /\ \/ InArrayHeader(phrases, i)
              \/ \E j \in 0..(Len(phrases[i + 1]) - 1) :
                    InArray(phrases, i, j) \/ InBulkHeader(phrases, i, j) \/ InBulk(phrases, i, j)
    BY <1>2, Places, Zenon DEF i
  <2>4. /\ ~InArrayHeader(phrases, i)
        /\ \A j : ~InBulkHeader(phrases, i, j) /\ ~InBulk(phrases, i, j)
    <3>1. "Type" # "Header" /\ "Type" # "Bulk"
      OBVIOUS
    <3> QED BY <1>2, <3>1, PlaceKinds, Zenon
  <2> QED BY <2>1, <2>2, <2>3, <2>4, Zenon
<1>6. buf' \in Text /\ parsing' = "parse"
  BY <1>1, <1>2, <1>4
<1>7. Waiting'
  BY <1>6 DEF Waiting
<1> QED BY <1>5, <1>6, <1>7, ParserStep


\* ParseHeader waits for the end of the header, or takes the length of the array or of
\* the bulk string.
LEMMA ParseHeaderKeeps ==
    ASSUME NEW phrases \in Seq(Phrase), Hears(phrases), ParseHeader,
           UNCHANGED <<sent, socket, parse_rdb, delivered, answers>>
    PROVE  Hears(phrases)'
<1> DEFINE i == Len(answers)
           Quiet == /\ Len(buf) < 4 /\ buf_cur' \in 1..2 /\ parsing' = "done"
                    /\ UNCHANGED <<buf, tmp_start, stack, completed, status>>
<1>1. /\ sent = Said(phrases) /\ buf \in Text /\ socket \in Text
      /\ i \in Nat /\ i <= Len(phrases) /\ Len(phrases) \in Nat
  BY DEF Hears, Handled
<1>2. /\ parsing = "parse" /\ ~TopCompleted /\ completed = <<>> /\ status.kind = "Header"
      /\ buf_cur < Len(buf)
  BY DEF ParseHeader, Reads
<1> HIDE DEF i
<1>3. ASSUME Quiet, Progress(phrases)'
      PROVE  Hears(phrases)'
  <2>1. buf' = buf /\ parsing' = "done" /\ buf' \in Text
    BY <1>1, <1>3
  <2>2. ~TopCompleted'
    BY <1>2, <1>3 DEF TopCompleted
  <2>3. status'.kind = "Header" /\ Len(buf') < 4
    BY <1>2, <1>3
  <2>4. Waiting'
    BY <2>2, <2>3 DEF Waiting
  <2> QED BY <1>3, <2>1, <2>4, ParserStep
<1>4. ASSUME UNCHANGED <<completed, parsing>>, buf' \in Text, Progress(phrases)'
      PROVE  Hears(phrases)'
  <2>1. parsing' = "parse"
    BY <1>2, <1>4
  <2>2. Waiting'
    BY <2>1 DEF Waiting
  <2> QED BY <1>4, <2>1, <2>2, ParserStep
<1>5. ASSUME i \in 0..(Len(phrases) - 1), phrases[i + 1] \in Phrase, InArrayHeader(phrases, i)
      PROVE  Hears(phrases)'
  <2> DEFINE words == phrases[i + 1]
             h == Header("*", Len(words))
  <2>1. /\ Is(Bytes(Said(phrases)), Before(phrases, i), buf, socket) /\ AfterPrefix
        /\ stack = <<NewArray>> /\ status = [kind |-> "Header", n |-> 0]
    BY <1>1, <1>5 DEF InArrayHeader, At
  <2>2. PICK x \in Text : Ahead(buf, socket, Header("*", Len(words)) \o x)
    BY <1>1, <1>5, <2>1, AheadOfPhrase
  <2>3. "*" \in {"*", "$"} /\ Len(words) \in 0..9
    BY <1>5, PhraseIs
  <2>4. Last(stack) = NewArray /\ Front(stack) = <<>> /\ NewArray.type = (IF "*" = "*" THEN "Array" ELSE "BulkStr")
    BY <1>5, <2>1, StackIs, TypesAre
  <2>5. \/ Quiet
        \/ /\ Len(buf) >= 4
           /\ stack' = Append(<<>>, [NewArray EXCEPT !.length = Len(words)])
           /\ status' = IF "*" = "*" THEN [kind |-> "Type", n |-> 0] ELSE [kind |-> "Bulk", n |-> Len(words)]
           /\ buf' = SubSeq(buf, 5, Len(buf)) /\ buf_cur' = 0 /\ tmp_start' = 0
           /\ UNCHANGED <<completed, parsing>>
    BY <1>1, <2>1, <2>2, <2>3, <2>4, HeaderStep
  <2>6. CASE Quiet
    <3>1. At(<<NewArray>>, "Header", 0, Before(phrases, i))'
      BY <1>1, <2>1, <2>6 DEF At, i
    <3>2. AfterPrefix'
      BY <2>1, <2>6 DEF AfterPrefix
    <3>3. InArrayHeader(phrases, i)'
      BY <3>1, <3>2 DEF InArrayHeader
    <3>4. i < Len(phrases) /\ completed' = <<>>
      BY <1>1, <1>2, <1>5, <2>6
    <3>5. Progress(phrases)'
      BY <3>3, <3>4 DEF Progress, InPhrase, i
    <3> QED BY <1>3, <2>6, <3>5
  <2>7. CASE /\ Len(buf) >= 4
             /\ stack' = Append(<<>>, [NewArray EXCEPT !.length = Len(words)])
             /\ status' = IF "*" = "*" THEN [kind |-> "Type", n |-> 0] ELSE [kind |-> "Bulk", n |-> Len(words)]
             /\ buf' = SubSeq(buf, 5, Len(buf)) /\ buf_cur' = 0 /\ tmp_start' = 0
             /\ UNCHANGED <<completed, parsing>>
    <3>1. stack' = <<OpenArray(words, 0)>>
      BY <1>5, <2>7, StackIs, TypesAre
    <3>2. h \in Text /\ Len(h) = 4 /\ Before(phrases, i) \in Text
      BY <1>5, <2>3, HeaderIs, PhraseAhead
    <3>3. Is(Bytes(Said(phrases)), Before(phrases, i) \o h, buf', socket) /\ buf' \in Text
      <4> HIDE DEF h
      <4>1. Ahead(buf, socket, h \o x)
        BY <2>2 DEF h
      <4>2. /\ SubSeq(buf, Len(h) + 1, Len(buf)) \in Text
            /\ Is(Bytes(Said(phrases)), Before(phrases, i) \o h, SubSeq(buf, Len(h) + 1, Len(buf)), socket)
        BY <1>1, <2>1, <2>7, <3>2, <4>1, AheadDrained
      <4>3. Len(h) + 1 = 5
        BY <3>2
      <4> QED BY <2>7, <4>2, <4>3
    <3>4. ReadOf(phrases, i, 0) = Before(phrases, i) \o h
      BY <1>5, ReadOfEnds
    <3>5. At(<<OpenArray(words, 0)>>, "Type", 0, ReadOf(phrases, i, 0))'
      <4> HIDE DEF h, words
      <4>1. Is(Bytes(sent), ReadOf(phrases, i, 0), buf', socket)
        BY <1>1, <3>3, <3>4
      <4>2. Is(Bytes(sent), ReadOf(phrases, i, 0), buf, socket)'
        BY <4>1 DEF i
      <4>3. status' = [kind |-> "Type", n |-> 0]
        BY <2>7
      <4>4. (stack = <<OpenArray(words, 0)>>)'
        BY <3>1 DEF words, i
      <4> QED BY <4>2, <4>3, <4>4 DEF At
    <3>6. AtStart'
      BY <2>7 DEF AtStart
    <3>7. InArray(phrases, i, 0)'
      BY <3>5, <3>6 DEF InArray
    <3>8. 0 \in 0..Len(words) /\ i < Len(phrases) /\ completed' = <<>>
      BY <1>1, <1>2, <1>5, <2>3, <2>7
    <3>9. InPhrase(phrases, i)'
      BY <3>7, <3>8 DEF InPhrase, i
    <3>10. Progress(phrases)'
      BY <3>8, <3>9 DEF Progress, i
    <3> QED BY <1>4, <2>7, <3>3, <3>10
  <2> QED BY <2>5, <2>6, <2>7, Zenon
<1>6. ASSUME i \in 0..(Len(phrases) - 1), phrases[i + 1] \in Phrase,
             NEW j \in 0..(Len(phrases[i + 1]) - 1), InBulkHeader(phrases, i, j)
      PROVE  Hears(phrases)'
  <2> DEFINE words == phrases[i + 1]
             w == words[j + 1]
             h == Header("$", Len(w))
             array == OpenArray(words, j)
             bulk == Resp("BulkStr", Len(w), FALSE, <<>>)
  <2>1. /\ Is(Bytes(Said(phrases)), ReadOf(phrases, i, j), buf, socket) /\ AfterPrefix
        /\ stack = <<array, NewBulk>> /\ status = [kind |-> "Header", n |-> 0]
    BY <1>1, <1>6 DEF InBulkHeader, At
  <2>2. PICK x \in Text : Ahead(buf, socket, Header("$", Len(w)) \o x)
    BY <1>1, <1>6, <2>1, AheadOfBulk
  <2>3. w \in Word /\ Len(words) \in 1..9
    <3>1. j + 1 \in 1..Len(words)
      BY <1>6, PhraseIs
    <3> QED BY <1>6, <3>1, PhraseIs
  <2>4. "$" \in {"*", "$"} /\ Len(w) \in 0..9
    BY <2>3, WordIs
  <2>5. Last(stack) = NewBulk /\ Front(stack) = <<array>> /\ NewBulk.type = (IF "$" = "*" THEN "Array" ELSE "BulkStr")
    <3> HIDE DEF array
    <3> QED BY <1>6, <2>1, StackIs, TypesAre
  <2>6. \/ Quiet
        \/ /\ Len(buf) >= 4
           /\ stack' = Append(<<array>>, [NewBulk EXCEPT !.length = Len(w)])
           /\ status' = IF "$" = "*" THEN [kind |-> "Type", n |-> 0] ELSE [kind |-> "Bulk", n |-> Len(w)]
           /\ buf' = SubSeq(buf, 5, Len(buf)) /\ buf_cur' = 0 /\ tmp_start' = 0
           /\ UNCHANGED <<completed, parsing>>
    <3> HIDE DEF array, w
    <3> QED BY <1>1, <2>1, <2>2, <2>4, <2>5, HeaderStep
  <2>7. j \in 0..Len(words) /\ j < Len(words) /\ i < Len(phrases)
    BY <1>1, <1>6, <2>3
  <2>8. CASE Quiet
    <3>1. At(<<array, NewBulk>>, "Header", 0, ReadOf(phrases, i, j))'
      BY <1>1, <2>1, <2>8 DEF At, i
    <3>2. AfterPrefix'
      BY <2>1, <2>8 DEF AfterPrefix
    <3>3. InBulkHeader(phrases, i, j)'
      BY <3>1, <3>2 DEF InBulkHeader
    <3>4. completed' = <<>>
      BY <1>2, <2>8
    <3>5. InPhrase(phrases, i)'
      BY <2>7, <3>3 DEF InPhrase, i
    <3>6. Progress(phrases)'
      BY <2>7, <3>4, <3>5 DEF Progress, i
    <3> QED BY <1>3, <2>8, <3>6
  <2>9. CASE /\ Len(buf) >= 4
             /\ stack' = Append(<<array>>, [NewBulk EXCEPT !.length = Len(w)])
             /\ status' = IF "$" = "*" THEN [kind |-> "Type", n |-> 0] ELSE [kind |-> "Bulk", n |-> Len(w)]
             /\ buf' = SubSeq(buf, 5, Len(buf)) /\ buf_cur' = 0 /\ tmp_start' = 0
             /\ UNCHANGED <<completed, parsing>>
    <3>1. stack' = <<array, bulk>>
      <4>1. [NewBulk EXCEPT !.length = Len(w)] = bulk
        BY <1>6, TypesAre
      <4> HIDE DEF array, bulk
      <4> QED BY <2>9, <4>1, StackIs
    <3>2. h \in Text /\ Len(h) = 4
      BY <2>4, HeaderIs
    <3>3. ReadOf(phrases, i, j) \in Text
      BY <1>6, BulkAhead
    <3>4. Is(Bytes(Said(phrases)), ReadOf(phrases, i, j) \o h, buf', socket) /\ buf' \in Text
      <4> HIDE DEF h
      <4>1. Ahead(buf, socket, h \o x)
        BY <2>2 DEF h
      <4>2. /\ SubSeq(buf, Len(h) + 1, Len(buf)) \in Text
            /\ Is(Bytes(Said(phrases)), ReadOf(phrases, i, j) \o h, SubSeq(buf, Len(h) + 1, Len(buf)), socket)
        BY <1>1, <2>1, <2>9, <3>2, <3>3, <4>1, AheadDrained
      <4>3. Len(h) + 1 = 5
        BY <3>2
      <4> QED BY <2>9, <4>2, <4>3
    <3>5. At(<<array, bulk>>, "Bulk", Len(w), ReadOf(phrases, i, j) \o h)'
      <4>1. (Is(Bytes(sent), ReadOf(phrases, i, j) \o h, buf, socket))'
        BY <1>1, <3>4 DEF i
      <4>2. status' = [kind |-> "Bulk", n |-> Len(w)]
        BY <2>9
      <4>3. (status = [kind |-> "Bulk", n |-> Len(w)])'
        BY <4>2 DEF i
      <4>4. (stack = <<array, bulk>>)'
        BY <3>1 DEF i
      <4> QED BY <4>1, <4>3, <4>4 DEF At
    <3>6. (buf_cur \in 0..(Len(w) + 2) /\ tmp_start = 0)'
      BY <2>4, <2>9, SMTT(30)
    <3>7. InBulk(phrases, i, j)'
      BY <3>5, <3>6, Zenon DEF InBulk
    <3>8. completed' = <<>>
      BY <1>2, <2>9
    <3>9. InPhrase(phrases, i)'
      BY <2>7, <3>7 DEF InPhrase, i
    <3>10. Progress(phrases)'
      BY <2>7, <3>8, <3>9 DEF Progress, i
    <3> QED BY <1>4, <2>9, <3>4, <3>10
  <2> QED BY <2>6, <2>8, <2>9, Zenon
<1>7. \/ Between(phrases, i)
      \/ /\ i \in 0..(Len(phrases) - 1) /\ phrases[i + 1] \in Phrase
         /\ \/ InArrayHeader(phrases, i)
            \/ \E j \in 0..(Len(phrases[i + 1]) - 1) :
                  InArray(phrases, i, j) \/ InBulkHeader(phrases, i, j) \/ InBulk(phrases, i, j)
  BY <1>2, Places, Zenon DEF i
<1>8. ~Between(phrases, i) /\ \A j : ~InArray(phrases, i, j) /\ ~InBulk(phrases, i, j)
  <2>1. "Header" # "Type" /\ "Header" # "Bulk"
    OBVIOUS
  <2> QED BY <1>2, <2>1, PlaceKinds, Zenon
<1> QED BY <1>5, <1>6, <1>7, <1>8, Zenon


\* ParseBytes moves the cursor, or takes the bulk string.
LEMMA ParseBytesKeeps ==
    ASSUME NEW phrases \in Seq(Phrase), Hears(phrases), ParseBytes("Bulk"),
           UNCHANGED <<sent, socket, parse_rdb, delivered, answers>>
    PROVE  Hears(phrases)'
<1> DEFINE i == Len(answers)
<1>1. /\ sent = Said(phrases) /\ buf \in Text /\ socket \in Text
      /\ i \in Nat /\ i <= Len(phrases) /\ Len(phrases) \in Nat
  BY DEF Hears, Handled
<1>2. parsing = "parse" /\ ~TopCompleted /\ completed = <<>> /\ status.kind = "Bulk"
  BY DEF ParseBytes, Reads
<1> HIDE DEF i
<1>3. ASSUME UNCHANGED <<completed, parsing>>, buf' \in Text, Progress(phrases)'
      PROVE  Hears(phrases)'
  <2>1. parsing' = "parse"
    BY <1>2, <1>3
  <2>2. Waiting'
    BY <2>1 DEF Waiting
  <2> QED BY <1>3, <2>1, <2>2, ParserStep
<1>4. ASSUME i \in 0..(Len(phrases) - 1), phrases[i + 1] \in Phrase,
             NEW j \in 0..(Len(phrases[i + 1]) - 1), InBulk(phrases, i, j)
      PROVE  Hears(phrases)'
  <2> DEFINE words == phrases[i + 1]
             w == words[j + 1]
             v == w \o Ending
             drained == ReadOf(phrases, i, j) \o Header("$", Len(w))
             array == OpenArray(words, j)
             bulk == Resp("BulkStr", Len(w), FALSE, <<>>)
  <2>1. /\ Is(Bytes(Said(phrases)), drained, buf, socket)
        /\ buf_cur \in 0..(Len(w) + 2) /\ tmp_start = 0
        /\ stack = <<array, bulk>> /\ status = [kind |-> "Bulk", n |-> Len(w)]
    BY <1>1, <1>4 DEF InBulk, At
  <2>2. PICK x \in Text : Ahead(buf, socket, (w \o Ending) \o x)
    BY <1>1, <1>4, <2>1, AheadOfBulk
  <2>3. w \in Word /\ Len(words) \in 1..9
    <3>1. j + 1 \in 1..Len(words)
      BY <1>4, PhraseIs
    <3> QED BY <1>4, <3>1, PhraseIs
  <2>4. Last(stack) = bulk /\ Front(stack) = <<array>>
    <3> HIDE DEF array, bulk
    <3> QED BY <2>1, StackIs
  <2>5. /\ UNCHANGED <<completed, parsing>>
        /\ \/ /\ buf_cur' \in 0..(Len(w) + 2)
              /\ UNCHANGED <<buf, tmp_start, stack, status>>
           \/ /\ Len(w) + 2 <= Len(buf)
              /\ stack' = Append(<<array>>, [bulk EXCEPT !.some = TRUE, !.value = w])
              /\ status' = [kind |-> "Type", n |-> 0]
              /\ buf' = SubSeq(buf, (Len(w) + 2) + 1, Len(buf)) /\ buf_cur' = 0 /\ tmp_start' = 0
    <3> HIDE DEF array, bulk, w
    <3> QED BY <1>1, <2>1, <2>2, <2>3, <2>4, BulkStep
  <2>6. j \in 0..Len(words) /\ j < Len(words) /\ i < Len(phrases) /\ completed' = <<>>
    BY <1>1, <1>2, <1>4, <2>3, <2>5
  <2>7. CASE buf_cur' \in 0..(Len(w) + 2) /\ UNCHANGED <<buf, tmp_start, stack, status>>
    <3>1. At(<<array, bulk>>, "Bulk", Len(w), drained)'
      <4>1. At(<<array, bulk>>, "Bulk", Len(w), drained)
        BY <1>4, Zenon DEF InBulk
      <4> QED BY <2>7, <4>1 DEF At, i
    <3>2. (buf_cur \in 0..(Len(w) + 2) /\ tmp_start = 0)'
      BY <2>1, <2>7 DEF i
    <3>3. InBulk(phrases, i, j)'
      BY <3>1, <3>2, Zenon DEF InBulk
    <3>4. InPhrase(phrases, i)'
      BY <2>6, <3>3 DEF InPhrase, i
    <3>5. Progress(phrases)'
      BY <2>6, <3>4 DEF Progress, i
    <3>6. buf' \in Text
      BY <1>1, <2>7
    <3> QED BY <1>3, <2>5, <3>5, <3>6
  <2>8. CASE /\ Len(w) + 2 <= Len(buf)
             /\ stack' = Append(<<array>>, [bulk EXCEPT !.some = TRUE, !.value = w])
             /\ status' = [kind |-> "Type", n |-> 0]
             /\ buf' = SubSeq(buf, (Len(w) + 2) + 1, Len(buf)) /\ buf_cur' = 0 /\ tmp_start' = 0
    <3>1. stack' = <<array, BulkStr(w)>>
      <4>1. [bulk EXCEPT !.some = TRUE, !.value = w] = BulkStr(w)
        BY <1>4, TypesAre
      <4> HIDE DEF array, bulk, w
      <4> QED BY <2>8, <4>1, StackIs
    <3>2. v \in Text /\ Len(v) = Len(w) + 2
      BY <2>3, WordIs
    <3>3. drained \in Text /\ ReadOf(phrases, i, j + 1) = drained \o v
      BY <1>4, BulkAhead
    <3>4. Is(Bytes(Said(phrases)), drained \o v, buf', socket) /\ buf' \in Text
      <4> HIDE DEF v, drained
      <4>1. Ahead(buf, socket, v \o x)
        BY <2>2 DEF v
      <4>2. Len(v) <= Len(buf)
        BY <2>8, <3>2
      <4>3. /\ SubSeq(buf, Len(v) + 1, Len(buf)) \in Text
            /\ Is(Bytes(Said(phrases)), drained \o v, SubSeq(buf, Len(v) + 1, Len(buf)), socket)
        BY <1>1, <2>1, <3>2, <3>3, <4>1, <4>2, AheadDrained
      <4> QED BY <2>8, <3>2, <4>3
    <3>5. At(<<array, BulkStr(w)>>, "Type", 0, ReadOf(phrases, i, j + 1))'
      <4>1. Is(Bytes(Said(phrases)), ReadOf(phrases, i, j + 1), buf', socket)
        <5> HIDE DEF v, drained
        <5> QED BY <3>3, <3>4
      <4>2. (Is(Bytes(sent), ReadOf(phrases, i, j + 1), buf, socket))'
        BY <1>1, <4>1 DEF i
      <4>3. (stack = <<array, BulkStr(w)>>)'
        BY <3>1 DEF i
      <4> QED BY <2>8, <4>2, <4>3 DEF At
    <3>6. AtStart'
      BY <2>8 DEF AtStart
    <3>7. BulkIsRead(phrases, i, j)'
      BY <3>5, <3>6 DEF BulkIsRead
    <3>8. InPhrase(phrases, i)'
      BY <2>6, <3>7 DEF InPhrase, i
    <3>9. Progress(phrases)'
      BY <2>6, <3>8 DEF Progress, i
    <3> QED BY <1>3, <2>5, <3>4, <3>9
  <2> QED BY <2>5, <2>7, <2>8, Zenon
<1>5. \/ Between(phrases, i)
      \/ /\ i \in 0..(Len(phrases) - 1) /\ phrases[i + 1] \in Phrase
         /\ \/ InArrayHeader(phrases, i)
            \/ \E j \in 0..(Len(phrases[i + 1]) - 1) :
                  InArray(phrases, i, j) \/ InBulkHeader(phrases, i, j) \/ InBulk(phrases, i, j)
  BY <1>2, Places, Zenon DEF i
<1>6. /\ ~Between(phrases, i) /\ ~InArrayHeader(phrases, i)
      /\ \A j : ~InArray(phrases, i, j) /\ ~InBulkHeader(phrases, i, j)
  <2>1. "Bulk" # "Type" /\ "Bulk" # "Header"
    OBVIOUS
  <2> QED BY <1>2, <2>1, PlaceKinds, Zenon
<1> QED BY <1>4, <1>5, <1>6, Zenon

\* No line and no RDB is read.
LEMMA NoOtherStatus ==
    ASSUME NEW phrases \in Seq(Phrase), Hears(phrases)
    PROVE  ~ParseLine /\ ~ParseBytes("RDB")
<1> SUFFICES ASSUME ParseLine \/ ParseBytes("RDB") PROVE FALSE
  OBVIOUS
<1> DEFINE i == Len(answers)
<1>1. ~TopCompleted /\ completed = <<>> /\ status.kind \in {"Line", "RDB"}
  BY DEF ParseLine, ParseBytes, Reads
<1> HIDE DEF i
<1>2. \/ Between(phrases, i)
      \/ /\ i \in 0..(Len(phrases) - 1) /\ phrases[i + 1] \in Phrase
         /\ \/ InArrayHeader(phrases, i)
            \/ \E j \in 0..(Len(phrases[i + 1]) - 1) :
                  InArray(phrases, i, j) \/ InBulkHeader(phrases, i, j) \/ InBulk(phrases, i, j)
  BY <1>1, Places, Zenon DEF i
<1>3. status.kind \in {"Type", "Header", "Bulk"}
  <2>1. "Type" \in {"Type", "Header", "Bulk"} /\ "Header" \in {"Type", "Header", "Bulk"} /\ "Bulk" \in {"Type", "Header", "Bulk"}
    OBVIOUS
  <2>2. status.kind = "Type" \/ status.kind = "Header" \/ status.kind = "Bulk"
    BY <1>2, PlaceKinds, Zenon
  <2> QED BY <2>2
<1> QED BY <1>1, <1>3

\* PopCompleted puts a bulk string into the array, or the request among the completed.
LEMMA PopKeeps ==
    ASSUME NEW phrases \in Seq(Phrase), Hears(phrases), PopCompleted,
           UNCHANGED <<sent, socket, parse_rdb, delivered, answers>>
    PROVE  Hears(phrases)'
<1> DEFINE i == Len(answers)
           words == phrases[i + 1]
<1>1. /\ sent = Said(phrases) /\ buf \in Text /\ socket \in Text
      /\ i \in Nat /\ i <= Len(phrases) /\ Len(phrases) \in Nat
  BY DEF Hears, Handled
<1>2. /\ parsing = "parse" /\ TopCompleted
      /\ UNCHANGED <<buf, buf_cur, tmp_start, status, parsing>>
  BY DEF PopCompleted
<1>3. IF Front(stack) = <<>>
      THEN stack' = <<>> /\ completed' = Append(completed, Last(stack))
      ELSE stack' = Append(Front(Front(stack)), add_item(Last(Front(stack)), Last(stack))) /\ UNCHANGED completed
  BY Zenon DEF PopCompleted
<1>4. stack # <<>> /\ is_completed(Last(stack))
  BY <1>2 DEF TopCompleted
<1> HIDE DEF i, words
<1>5. \A n : ~Between(phrases, n)
  BY <1>4 DEF Between, At
<1>6. completed = <<>> /\ i < Len(phrases) /\ InPhrase(phrases, i)
  BY <1>5 DEF Hears, Progress, i
<1>7. i \in 0..(Len(phrases) - 1)
  BY <1>1, <1>6
<1>8. words \in Phrase
  BY <1>7, PhraseAhead DEF words
<1>9. Len(words) \in 1..9
  BY <1>8, PhraseIs
<1>10. ASSUME Progress(phrases)'
       PROVE  Hears(phrases)'
  <2>1. parsing' = "parse" /\ buf' \in Text
    BY <1>1, <1>2
  <2>2. Waiting'
    BY <2>1 DEF Waiting
  <2> QED BY <1>10, <2>1, <2>2, ParserStep
<1>11. ~InArrayHeader(phrases, i)
  <2> SUFFICES ASSUME InArrayHeader(phrases, i) PROVE FALSE
    OBVIOUS
  <2>1. stack = <<NewArray>>
    BY DEF InArrayHeader, At
  <2>2. Last(stack) = NewArray
    BY <2>1, StackIs
  <2>3. ~is_completed(NewArray)
    BY <1>8, TypesAre
  <2> QED BY <1>4, <2>2, <2>3
<1>12. PICK j \in 0..Len(words) :
              \/ InArray(phrases, i, j)
              \/ /\ j < Len(words)
                 /\ InBulkHeader(phrases, i, j) \/ InBulk(phrases, i, j) \/ BulkIsRead(phrases, i, j)
  BY <1>6, <1>11 DEF InPhrase, words
<1>13. ~InBulkHeader(phrases, i, j)
  <2> SUFFICES ASSUME InBulkHeader(phrases, i, j) PROVE FALSE
    OBVIOUS
  <2> DEFINE array == OpenArray(words, j)
  <2>1. stack = <<array, NewBulk>>
    BY DEF InBulkHeader, At, words
  <2> HIDE DEF array
  <2>2. Last(stack) = NewBulk
    BY <2>1, StackIs
  <2>3. ~is_completed(NewBulk)
    BY <1>8, TypesAre
  <2> QED BY <1>4, <2>2, <2>3
<1>14. ~InBulk(phrases, i, j)
  <2> SUFFICES ASSUME InBulk(phrases, i, j) PROVE FALSE
    OBVIOUS
  <2> DEFINE array == OpenArray(words, j)
             bulk == Resp("BulkStr", Len(words[j + 1]), FALSE, <<>>)
  <2>1. stack = <<array, bulk>>
    BY DEF InBulk, At, words
  <2>2. ~is_completed(bulk)
    BY <1>8, TypesAre
  <2> HIDE DEF array, bulk
  <2>3. Last(stack) = bulk
    BY <2>1, StackIs
  <2> QED BY <1>4, <2>2, <2>3
<1>15. CASE InArray(phrases, i, j)
  <2> DEFINE array == OpenArray(words, j)
  <2>1. /\ stack = <<array>> /\ status = [kind |-> "Type", n |-> 0] /\ AtStart
        /\ Is(Bytes(sent), ReadOf(phrases, i, j), buf, socket)
    BY <1>15 DEF InArray, At, words
  <2>2. Last(stack) = array /\ Front(stack) = <<>>
    <3> HIDE DEF array
    <3> QED BY <2>1, StackIs
  <2>3. j = Len(words)
    BY <1>4, <1>8, <2>2, TypesAre
  <2>4. array = Request(words)
    BY <1>8, <2>3, ArrayIsWhole
  <2>5. ReadOf(phrases, i, j) = Before(phrases, i + 1)
    BY <1>7, <2>3, ReadOfEnds DEF words
  <2> HIDE DEF array
  <2>6. stack' = <<>> /\ completed' = <<Request(words)>>
    BY <1>3, <1>6, <2>2, <2>4, StackIs
  <2>7. Between(phrases, i + 1)'
    <3>1. At(<<>>, "Type", 0, Before(phrases, i + 1))'
      BY <1>2, <2>1, <2>5, <2>6 DEF At, i
    <3>2. AtStart'
      BY <1>2, <2>1 DEF AtStart
    <3> QED BY <3>1, <3>2 DEF Between
  <2>8. Progress(phrases)'
    BY <1>2, <1>6, <2>6, <2>7 DEF Progress, i, words
  <2> QED BY <1>10, <2>8
<1>16. CASE j < Len(words) /\ BulkIsRead(phrases, i, j)
  <2> DEFINE array == OpenArray(words, j)
             bulk == BulkStr(words[j + 1])
  <2>1. /\ stack = <<array, bulk>> /\ status = [kind |-> "Type", n |-> 0] /\ AtStart
        /\ Is(Bytes(sent), ReadOf(phrases, i, j + 1), buf, socket)
    BY <1>16 DEF BulkIsRead, At, words
  <2>2. /\ Last(stack) = bulk /\ Front(stack) = <<array>> /\ <<array>> # <<>>
        /\ Last(<<array>>) = array /\ Front(<<array>>) = <<>>
    <3> HIDE DEF array, bulk
    <3> QED BY <2>1, StackIs
  <2>3. j \in 0..(Len(words) - 1) /\ j + 1 \in 0..Len(words)
    BY <1>9, <1>16
  <2>4. add_item(array, bulk) = OpenArray(words, j + 1)
    BY <1>8, <2>3, ItemAdded
  <2> HIDE DEF array, bulk
  <2>5. stack' = <<OpenArray(words, j + 1)>> /\ completed' = <<>>
    BY <1>3, <1>6, <2>2, <2>4, StackIs
  <2>6. InArray(phrases, i, j + 1)'
    <3>1. At(<<OpenArray(words, j + 1)>>, "Type", 0, ReadOf(phrases, i, j + 1))'
      BY <1>2, <2>1, <2>5 DEF At, i, words
    <3>2. AtStart'
      BY <1>2, <2>1 DEF AtStart
    <3> QED BY <3>1, <3>2 DEF InArray, words
  <2>7. InPhrase(phrases, i)'
    BY <2>3, <2>6 DEF InPhrase, i, words
  <2>8. Progress(phrases)'
    BY <1>6, <2>5, <2>7 DEF Progress, i
  <2> QED BY <1>10, <2>8
<1> QED BY <1>12, <1>13, <1>14, <1>15, <1>16, Zenon


\* What has been read of a phrase is a text.
LEMMA ReadIsText ==
    ASSUME NEW phrases \in Seq(Phrase), NEW i \in 0..(Len(phrases) - 1), NEW j \in 0..Len(phrases[i + 1])
    PROVE  ReadOf(phrases, i, j) \in Text
<1> DEFINE words == phrases[i + 1]
<1>1. words \in Phrase /\ Before(phrases, i + 1) \in Text
  BY PhraseAhead
<1>2. Len(words) \in 1..9
  BY <1>1, PhraseIs
<1>3. CASE j = Len(words)
  BY <1>1, <1>3, ReadOfEnds
<1>4. CASE j # Len(words)
  <2>1. j \in 0..(Len(words) - 1)
    BY <1>2, <1>4
  <2> QED BY <2>1, BulkAhead
<1> QED BY <1>3, <1>4

\* A step that leaves the parser where it is.
LEMMA PlaceKept ==
    ASSUME NEW phrases \in Seq(Phrase), NEW i \in 0..Len(phrases), UNCHANGED <<buf_cur, tmp_start>>,
           \A types, kind, n : \A drained \in Text :
              At(types, kind, n, drained) => At(types, kind, n, drained)'
    PROVE  /\ Between(phrases, i) => Between(phrases, i)'
           /\ i < Len(phrases) /\ InPhrase(phrases, i) => InPhrase(phrases, i)'
<1>1. (AtStart => AtStart') /\ (AfterPrefix => AfterPrefix')
  BY DEF AtStart, AfterPrefix
<1>2. Before(phrases, i) \in Text
  BY SaidIs DEF Before
<1>3. Between(phrases, i) => Between(phrases, i)'
  BY <1>1, <1>2 DEF Between
<1>4. ASSUME i < Len(phrases), InPhrase(phrases, i)
      PROVE  InPhrase(phrases, i)'
  <2> DEFINE words == phrases[i + 1]
  <2>1. i \in 0..(Len(phrases) - 1)
    BY <1>4
  <2>2. words \in Phrase
    BY <2>1, PhraseAhead
  <2>3. Len(words) \in 1..9
    BY <2>2, PhraseIs
  <2>4. InArrayHeader(phrases, i) => InArrayHeader(phrases, i)'
    BY <1>1, <1>2 DEF InArrayHeader
  <2>5. ASSUME NEW j \in 0..Len(words)
        PROVE  InArray(phrases, i, j) => InArray(phrases, i, j)'
    <3>1. ReadOf(phrases, i, j) \in Text
      BY <2>1, ReadIsText
    <3> QED BY <1>1, <3>1, Zenon DEF InArray
  <2>6. ASSUME NEW j \in 0..Len(words), j < Len(words)
        PROVE  /\ InBulkHeader(phrases, i, j) => InBulkHeader(phrases, i, j)'
               /\ InBulk(phrases, i, j) => InBulk(phrases, i, j)'
               /\ BulkIsRead(phrases, i, j) => BulkIsRead(phrases, i, j)'
    <3> DEFINE w == words[j + 1]
    <3>1. j \in 0..(Len(words) - 1)
      BY <2>3, <2>6
    <3>2. /\ ReadOf(phrases, i, j) \in Text /\ ReadOf(phrases, i, j + 1) \in Text
          /\ ReadOf(phrases, i, j) \o Header("$", Len(w)) \in Text
      BY <2>1, <3>1, BulkAhead
    <3>3. InBulkHeader(phrases, i, j) => InBulkHeader(phrases, i, j)'
      BY <1>1, <3>2, Zenon DEF InBulkHeader
    <3>4. BulkIsRead(phrases, i, j) => BulkIsRead(phrases, i, j)'
      BY <1>1, <3>2, Zenon DEF BulkIsRead
    <3>5. InBulk(phrases, i, j) => InBulk(phrases, i, j)'
      <4>1. \A n : buf_cur \in 0..n /\ tmp_start = 0 => (buf_cur \in 0..n /\ tmp_start = 0)'
        OBVIOUS
      <4> QED BY <3>2, <4>1, Zenon DEF InBulk
    <3> QED BY <3>3, <3>4, <3>5
  <2>7. CASE InArrayHeader(phrases, i)
    BY <2>4, <2>7 DEF InPhrase
  <2>8. CASE \E j \in 0..Len(words) :
                \/ InArray(phrases, i, j)
                \/ /\ j < Len(words)
                   /\ InBulkHeader(phrases, i, j) \/ InBulk(phrases, i, j) \/ BulkIsRead(phrases, i, j)
    <3>1. PICK j \in 0..Len(words) :
                \/ InArray(phrases, i, j)
                \/ /\ j < Len(words)
                   /\ InBulkHeader(phrases, i, j) \/ InBulk(phrases, i, j) \/ BulkIsRead(phrases, i, j)
      BY <2>8
    <3>2. \/ InArray(phrases, i, j)'
          \/ /\ j < Len(words)
             /\ InBulkHeader(phrases, i, j)' \/ InBulk(phrases, i, j)' \/ BulkIsRead(phrases, i, j)'
      BY <2>5, <2>6, <3>1
    <3> QED BY <3>1, <3>2 DEF InPhrase
  <2> QED BY <1>4, <2>7, <2>8 DEF InPhrase
<1> QED BY <1>3, <1>4

\* parse() returns.
LEMMA ParseReturnsKeeps ==
    ASSUME NEW phrases \in Seq(Phrase), Hears(phrases), ParseReturns,
           UNCHANGED <<sent, socket, parse_rdb, delivered, answers>>
    PROVE  Hears(phrases)'
<1> DEFINE i == Len(answers)
<1>1. i \in Nat /\ i <= Len(phrases) /\ Len(phrases) \in Nat /\ buf \in Text /\ Progress(phrases)
  BY DEF Hears, Handled
<1>2. /\ ~TopCompleted /\ (completed # <<>> \/ buf_cur >= Len(buf)) /\ parsing' = "done"
      /\ UNCHANGED <<buf, buf_cur, tmp_start, stack, completed, status>>
  BY DEF ParseReturns
<1>3. \A types, kind, n : \A drained \in Text : At(types, kind, n, drained) => At(types, kind, n, drained)'
  BY <1>2 DEF At
<1>4. \A l \in 0..Len(phrases) :
         /\ Between(phrases, l) => Between(phrases, l)'
         /\ l < Len(phrases) /\ InPhrase(phrases, l) => InPhrase(phrases, l)'
  BY <1>2, <1>3, PlaceKept
<1>5. Progress(phrases)'
  <2>1. i \in 0..Len(phrases) /\ (i < Len(phrases) => i + 1 \in 0..Len(phrases))
    BY <1>1
  <2>2. answers' = answers /\ completed' = completed /\ parsing' # "idle"
    BY <1>2
  <2> QED BY <1>1, <1>4, <2>1, <2>2 DEF Progress
<1>6. Waiting'
  <2>1. TopCompleted' <=> TopCompleted
    BY <1>2 DEF TopCompleted
  <2> QED BY <1>2, <2>1 DEF Waiting
<1>7. buf' \in Text /\ parsing' \in {"idle", "parse", "done"}
  BY <1>1, <1>2
<1> QED BY <1>5, <1>6, <1>7, ParserStep

\* read_socket returns.
LEMMA ReturnKeeps ==
    ASSUME NEW phrases \in Seq(Phrase), Hears(phrases), Return
    PROVE  Hears(phrases)'
<1> DEFINE i == Len(answers)
<1>1. /\ i \in Nat /\ i <= Len(phrases) /\ Len(phrases) \in Nat /\ buf \in Text
      /\ Progress(phrases) /\ Waiting
  BY DEF Hears, Handled
<1>2. /\ parsing = "done" /\ completed = <<>> /\ parsing' = "idle"
      /\ UNCHANGED <<buf, buf_cur, tmp_start, stack, completed, status>>
      /\ UNCHANGED <<sent, socket, parse_rdb, delivered, answers>>
  BY DEF Return
<1>3. \A types, kind, n : \A drained \in Text : At(types, kind, n, drained) => At(types, kind, n, drained)'
  BY <1>2 DEF At
<1>4. \A l \in 0..Len(phrases) :
         /\ Between(phrases, l) => Between(phrases, l)'
         /\ l < Len(phrases) /\ InPhrase(phrases, l) => InPhrase(phrases, l)'
  BY <1>2, <1>3, PlaceKept
<1>5. Progress(phrases)'
  <2>1. i \in 0..Len(phrases)
    BY <1>1
  <2>2. answers' = answers /\ completed' = completed
    BY <1>2
  <2>3. \/ completed = <<>> /\ Between(phrases, i)
        \/ completed = <<>> /\ i < Len(phrases) /\ InPhrase(phrases, i)
    <3>1. \A t : <<t>> # <<>>
      OBVIOUS
    <3> QED BY <1>1, <1>2, <3>1 DEF Progress
  <2> QED BY <1>4, <2>1, <2>2, <2>3 DEF Progress
<1>6. Waiting'
  <2>1. TopCompleted' <=> TopCompleted
    BY <1>2 DEF TopCompleted
  <2> QED BY <1>1, <1>2, <2>1 DEF Waiting
<1>7. buf' \in Text /\ parsing' \in {"idle", "parse", "done"}
  BY <1>1, <1>2
<1> QED BY <1>2, <1>5, <1>6, <1>7, ParserStep

\* The socket is read.
LEMMA ReadSocketKeeps ==
    ASSUME NEW phrases \in Seq(Phrase), Hears(phrases), NEW m \in 1..BUFFER_SIZE, ReadSocket(m)
    PROVE  Hears(phrases)'
<1> DEFINE i == Len(answers)
           fed == SubSeq(socket, 1, m)
           rest == SubSeq(socket, m + 1, Len(socket))
<1>1. /\ i \in Nat /\ i <= Len(phrases) /\ Len(phrases) \in Nat /\ buf \in Text /\ socket \in Text
      /\ Progress(phrases)
  BY DEF Hears, Handled
<1>2. /\ m <= Len(socket) /\ parsing = "idle" /\ parsing' = "parse"
      /\ buf' = buf \o fed /\ socket' = rest
      /\ UNCHANGED <<buf_cur, tmp_start, stack, completed, status>>
      /\ UNCHANGED <<sent, parse_rdb, delivered, answers>>
  BY DEF ReadSocket, FeedBuf
<1>3. m \in 0..Len(socket)
  <2>1. Len(socket) \in Nat /\ BUFFER_SIZE \in Nat
    BY <1>1, ClientReaderAssumption DEF Text
  <2> QED BY <1>2, <2>1
<1>4. <<>> \in Text
  BY DEF Text
<1>5. rest \in Text /\ buf \o fed \in Text
  <2>1. Is(buf \o socket, <<>>, buf, socket)
    <3>1. buf \o socket \in Text
      BY <1>1, Joined
    <3>2. <<>> \o (buf \o socket) = buf \o socket
      BY <3>1, Joined
    <3> QED BY <3>2 DEF Is
  <2> QED BY <1>1, <1>3, <1>4, <2>1, IsFed
<1>6. \A types, kind, n : \A drained \in Text : At(types, kind, n, drained) => At(types, kind, n, drained)'
  <2> SUFFICES ASSUME NEW types, NEW kind, NEW n, NEW drained \in Text, At(types, kind, n, drained)
               PROVE  At(types, kind, n, drained)'
    OBVIOUS
  <2>1. Is(Bytes(sent), drained, buf, socket)
    BY DEF At
  <2>2. Is(Bytes(sent), drained, buf \o fed, rest)
    BY <1>1, <1>3, <2>1, IsFed
  <2> HIDE DEF fed, rest
  <2>3. (Is(Bytes(sent), drained, buf, socket))'
    BY <1>2, <2>2
  <2> QED BY <1>2, <2>3 DEF At
<1>7. \A l \in 0..Len(phrases) :
         /\ Between(phrases, l) => Between(phrases, l)'
         /\ l < Len(phrases) /\ InPhrase(phrases, l) => InPhrase(phrases, l)'
  BY <1>2, <1>6, PlaceKept
<1>8. Progress(phrases)'
  <2>1. i \in 0..Len(phrases)
    BY <1>1
  <2>2. answers' = answers /\ completed' = completed
    BY <1>2
  <2>3. \/ completed = <<>> /\ Between(phrases, i)
        \/ completed = <<>> /\ i < Len(phrases) /\ InPhrase(phrases, i)
    BY <1>1, <1>2 DEF Progress
  <2> QED BY <1>7, <2>1, <2>2, <2>3 DEF Progress
<1>9. Waiting'
  BY <1>2 DEF Waiting
<1>10. buf' \in Text /\ socket' \in Text
  BY <1>2, <1>5
<1>11. Handled(phrases)'
  BY <1>2 DEF Hears, Handled
<1> QED BY <1>2, <1>8, <1>9, <1>10, <1>11 DEF Hears


-----------------------------------------------------------------------------
(***************************************************************************)
(* No request announces an RDB.                                             *)
(***************************************************************************)
NoResync(cmd) == cmd.name # "FULLRESYNC"

\* What a builder gives, in general.
LEMMA BuiltNames ==
    /\ \A name, args : name # "FULLRESYNC" => NoResync(Built(name, args))
    /\ \A kind \in Errors : NoResync(Error(kind))
    /\ NoResync(Panic)
    /\ \A items, kinds : NoResync(RefusedWith(items, kinds))
<1>1. \A name, args : Built(name, args).name = name
  BY DEF Built
<1>2. \A kind : Error(kind).name = kind
  BY DEF Error
<1>3. \A kind \in Errors : NoResync(Error(kind))
  BY <1>2 DEF NoResync, Errors
<1>4. NoResync(Panic)
  BY <1>2 DEF NoResync, Panic
<1>5. ASSUME NEW items, NEW kinds
      PROVE  NoResync(RefusedWith(items, kinds))
  <2>1. RefusedWith(items, kinds) = Error("MissingArgument") \/ RefusedWith(items, kinds) = Error("ParseError")
    BY Zenon DEF RefusedWith
  <2>2. "MissingArgument" \in Errors /\ "ParseError" \in Errors
    BY DEF Errors
  <2> QED BY <1>3, <2>1, <2>2
<1> QED BY <1>1, <1>3, <1>4, <1>5 DEF NoResync

\* The error of the options of a command.
LEMMA CmdArgNames ==
    ASSUME NEW name, name # "FULLRESYNC", NEW before, NEW key, NEW values
    PROVE  NoResync(CmdArg(name, before, key, values))
<1>1. /\ NoResync(Error("InvalidArgument")) /\ NoResync(Error("MissingArgument")) /\ NoResync(Error("Dummy"))
      /\ NoResync(Error("ParseError")) /\ NoResync(Error("UnsupportedCmd"))
  BY BuiltNames DEF Errors
<1>2. \A args : NoResync(Built(name, args))
  BY BuiltNames
<1> QED BY <1>1, <1>2, Zenon DEF CmdArg

\* The errors of stream ids.
LEMMA IdErrorNames ==
    ASSUME NEW cmd, NoResync(cmd)
    PROVE  /\ \A w : NoResync(Checked(XaddIdError(w), cmd))
           /\ \A n \in Int : \A errors :
                 /\ errors = [i \in 1..n |-> errors[i]]
                 /\ \A i \in 1..n : errors[i] \in {"", "InvalidArgument", "ParseError", "MissingArgument"}
                 => NoResync(Checked(FirstError(errors), cmd))
           /\ \A w, special : IdError(w, special) \in {"", "InvalidArgument", "ParseError", "MissingArgument"}
<1>1. \A kind \in {"InvalidArgument", "ParseError", "MissingArgument"} : NoResync(Error(kind))
  BY BuiltNames DEF Errors
<1>2. \A kind \in {"", "InvalidArgument", "ParseError", "MissingArgument"} : NoResync(Checked(kind, cmd))
  BY <1>1 DEF Checked
<1>3. \A w : XaddIdError(w) \in {"", "InvalidArgument", "ParseError", "MissingArgument"}
  BY DEF XaddIdError
<1>4. \A w, special : IdError(w, special) \in {"", "InvalidArgument", "ParseError", "MissingArgument"}
  BY DEF IdError
<1>5. ASSUME NEW n \in Int, NEW errors, errors = [i \in 1..n |-> errors[i]],
             \A i \in 1..n : errors[i] \in {"", "InvalidArgument", "ParseError", "MissingArgument"}
      PROVE  FirstError(errors) \in {"", "InvalidArgument", "ParseError", "MissingArgument"}
  <2> DEFINE bad == {i \in DOMAIN errors : errors[i] # ""}
  <2>1. DOMAIN errors = 1..n
    BY <1>5
  <2>2. bad # {} => Min(bad) \in 1..n
    <3> SUFFICES ASSUME bad # {} PROVE Min(bad) \in bad /\ bad \subseteq 1..n
      OBVIOUS
    <3>1. bad \subseteq 1..n
      BY <2>1
    <3> HIDE DEF bad
    <3>2. bad \subseteq Nat
      <4>1. 1..n \subseteq Nat
        OBVIOUS
      <4> QED BY <3>1, <4>1
    <3>3. \E m \in bad : \A k \in bad : m <= k
      BY <3>2, LeastExists
    <3> QED BY <3>1, <3>3 DEF Min
  <2>3. FirstError(errors) = IF bad = {} THEN "" ELSE errors[Min(bad)]
    BY DEF FirstError
  <2> HIDE DEF bad
  <2> QED BY <1>5, <2>2, <2>3
<1> QED BY <1>2, <1>3, <1>4, <1>5

\* The builders with a shape of their own.
LEMMA BuilderNames ==
    ASSUME NEW items
    PROVE  /\ NoResync(set(items)) /\ NoResync(lpop(items)) /\ NoResync(blpop(items))
           /\ NoResync(bitcount(items)) /\ NoResync(geodist(items))
<1>1. /\ \A args : NoResync(Built("SET", args)) /\ NoResync(Built("LPOP", args)) /\ NoResync(Built("BLPOP", args))
                    /\ NoResync(Built("BITCOUNT", args)) /\ NoResync(Built("GEODIST", args))
  BY BuiltNames
<1>2. /\ NoResync(Error("InvalidArgument")) /\ NoResync(Panic)
      /\ \A i, kinds : NoResync(RefusedWith(i, kinds))
  BY BuiltNames DEF Errors
<1>3. \A before, key, values : NoResync(CmdArg("SET", before, key, values))
  BY CmdArgNames
<1>4. NoResync(set(items))
  BY <1>1, <1>2, <1>3, Zenon DEF set, WithArgs
<1>5. NoResync(lpop(items))
  BY <1>1, <1>2, Zenon DEF lpop, WithArgs
<1>6. NoResync(blpop(items))
  BY <1>1, <1>2, Zenon DEF blpop, WithArgs
<1>7. NoResync(bitcount(items))
  BY <1>1, <1>2, Zenon DEF bitcount, WithArgs
<1>8. NoResync(geodist(items))
  BY <1>1, <1>2, Zenon DEF geodist, WithArgs
<1> QED BY <1>4, <1>5, <1>6, <1>7, <1>8

\* XREAD.
LEMMA XreadNames ==
    ASSUME NEW T, NEW items \in Seq(T)
    PROVE  NoResync(xread(items))
<1> DEFINE Opt(i) == Upper(items[2 * i + 1].value)
           Has(i) == 2 * i + 1 <= Len(items) /\ IsStr(items[2 * i + 1])
           IsOption(i) == Has(i) /\ Opt(i) \in {<<"COUNT">>, <<"BLOCK">>}
           Again(i) == \E j \in 0..i - 1 : Opt(j) = Opt(i)
           Amount(i) == SubSeq(items, 2 * i + 2, 2 * i + 2)
           Fine(i) == IsOption(i) /\ ~Again(i) /\ Refused(Amount(i), <<"u64">>) = {}
           n == Min({i \in 0..2 : ~Fine(i)})
           pairs == SubSeq(items, 2 * n + 2, Len(items))
           half == Len(pairs) \div 2
           errors == [i \in 1..half |-> IF IsStr(pairs[half + i]) THEN IdError(pairs[half + i].value, {<<"$">>})
                                        ELSE "MissingArgument"]
           cmd == Built("XREAD", Words(items))
<1>1. /\ NoResync(Error("MissingArgument")) /\ NoResync(Error("UnsupportedCmdStructure")) /\ NoResync(cmd)
      /\ \A i, kinds : NoResync(RefusedWith(i, kinds))
  BY BuiltNames DEF Errors
<1>2. NoResync(Checked(FirstError(errors), cmd))
  <2>1. half \in Int
    <3> DEFINE unfit == {i \in 0..2 : ~Fine(i)}
    <3>1. ~(Fine(0) /\ Fine(1) /\ Fine(2))
      <4> SUFFICES ASSUME Fine(0), Fine(1), Fine(2) PROVE FALSE
        OBVIOUS
      <4>1. /\ Opt(0) \in {<<"COUNT">>, <<"BLOCK">>} /\ Opt(1) \in {<<"COUNT">>, <<"BLOCK">>}
            /\ Opt(2) \in {<<"COUNT">>, <<"BLOCK">>} /\ ~Again(1) /\ ~Again(2)
        BY Zenon
      <4> HIDE DEF Opt
      <4>2. Opt(0) # Opt(1) /\ Opt(0) # Opt(2) /\ Opt(1) # Opt(2)
        BY <4>1
      <4> QED BY <4>1, <4>2
    <3> HIDE DEF Fine
    <3>2. unfit # {} /\ unfit \subseteq Nat /\ unfit \subseteq 0..2
      BY <3>1
    <3> HIDE DEF unfit
    <3>3. \E m \in unfit : \A k \in unfit : m <= k
      BY <3>2, LeastExists
    <3>4. Min(unfit) \in unfit
      BY <3>3 DEF Min
    <3>5. n \in 0..2
      BY <3>2, <3>4 DEF unfit
    <3> HIDE DEF n
    <3>6. Len(pairs) \in Nat
      BY <3>5
    <3> HIDE DEF pairs
    <3> QED BY <3>6
  <2> HIDE DEF half, pairs
  <2>2. \A i \in 1..half : errors[i] \in {"", "InvalidArgument", "ParseError", "MissingArgument"}
    <3>1. \A w, special : IdError(w, special) \in {"", "InvalidArgument", "ParseError", "MissingArgument"}
      BY <1>1, IdErrorNames
    <3> QED BY <3>1
  <2>3. errors = [i \in 1..half |-> errors[i]]
    OBVIOUS
  <2> HIDE DEF errors, cmd
  <2> QED BY <1>1, <2>1, <2>2, <2>3, IdErrorNames
<1>3. \/ xread(items) = Error("MissingArgument")
      \/ xread(items) = Error("UnsupportedCmdStructure")
      \/ \E i, kinds : xread(items) = RefusedWith(i, kinds)
      \/ xread(items) = Checked(FirstError(errors), cmd)
  BY Zenon DEF xread, AllOf
<1> QED BY <1>1, <1>2, <1>3, Zenon


\* Every builder.
LEMMA ArrayNames ==
    ASSUME NEW T, NEW items \in Seq(T), NEW name
    PROVE  NoResync(FromArray(name, items))
<1>1. /\ NoResync(Error("InvalidArgument")) /\ NoResync(Error("MissingArgument"))
      /\ \A i, kinds : NoResync(RefusedWith(i, kinds))
  BY BuiltNames DEF Errors
<1>2. CASE name = "FULLRESYNC"
  <2>1. name \notin DOMAIN Signature
    <3>1. DOMAIN Signature = UNION {DOMAIN StringSignature, DOMAIN SessionSignature,
                                    DOMAIN SortedSetSignature, DOMAIN BitSignature}
      BY Zenon DEF Signature
    <3>2. "FULLRESYNC" \notin DOMAIN StringSignature /\ "FULLRESYNC" \notin DOMAIN SessionSignature
      BY DEF StringSignature, SessionSignature
    <3>3. "FULLRESYNC" \notin DOMAIN SortedSetSignature /\ "FULLRESYNC" \notin DOMAIN BitSignature
      BY DEF SortedSetSignature, BitSignature
    <3> QED BY <1>2, <3>1, <3>2, <3>3
  <2>2. /\ name \notin {"RPUSH", "LPUSH"} /\ name \notin {"SUBSCRIBE", "WATCH"}
        /\ name \notin {"REPLCONF", "CONFIG"}
        /\ name # "GEOPOS" /\ name # "XADD" /\ name # "XRANGE" /\ name # "ACL" /\ name # "BITOP"
        /\ name # "SET" /\ name # "LPOP" /\ name # "BLPOP" /\ name # "XREAD"
        /\ name # "BITCOUNT" /\ name # "GEODIST"
    BY <1>2
  <2>3. FromArray(name, items) = Error("InvalidArgument")
    BY <2>1, <2>2, Zenon DEF FromArray
  <2> QED BY <1>1, <2>3
<1>3. CASE name # "FULLRESYNC"
  <2>1. \A args : NoResync(Built(name, args))
    BY <1>3, BuiltNames
  <2>2. \A before, key, values : NoResync(CmdArg(name, before, key, values))
    BY <1>3, CmdArgNames
  <2>3. \A w, cmd : NoResync(cmd) => NoResync(Checked(XaddIdError(w), cmd))
    BY IdErrorNames
  <2>4. ASSUME NEW args
        PROVE  NoResync(Checked(FirstError([i \in 1..2 |-> IdError(args[i + 1], {<<"-">>, <<"+">>})]), Built(name, args)))
    <3> DEFINE errors == [i \in 1..2 |-> IdError(args[i + 1], {<<"-">>, <<"+">>})]
               cmd == Built(name, args)
    <3>1. NoResync(cmd)
      BY <2>1
    <3>2. \A i \in 1..2 : errors[i] \in {"", "InvalidArgument", "ParseError", "MissingArgument"}
      <4>1. \A w, special : IdError(w, special) \in {"", "InvalidArgument", "ParseError", "MissingArgument"}
        BY <3>1, IdErrorNames
      <4> QED BY <4>1
    <3>3. errors = [i \in 1..2 |-> errors[i]] /\ 2 \in Int
      OBVIOUS
    <3> HIDE DEF errors, cmd
    <3>4. NoResync(Checked(FirstError(errors), cmd))
      BY <3>1, <3>2, <3>3, IdErrorNames
    <3> QED BY <3>4 DEF errors, cmd
  <2>5. /\ NoResync(set(items)) /\ NoResync(lpop(items)) /\ NoResync(blpop(items))
        /\ NoResync(bitcount(items)) /\ NoResync(geodist(items))
    BY BuilderNames
  <2>6. NoResync(xread(items))
    BY XreadNames
  <2> QED BY <1>1, <2>1, <2>2, <2>3, <2>4, <2>5, <2>6, Zenon DEF FromArray, WithArgs, AllOf
<1> QED BY <1>2, <1>3

\* A request is never the announcement of an RDB.
LEMMA RequestNames ==
    ASSUME NEW words \in Phrase
    PROVE  NoResync(from_resp(Request(words)))
<1> DEFINE t == Request(words)
           items == [i \in 1..Len(words) |-> BulkStr(words[i])]
           T == {BulkStr(words[i]) : i \in 1..Len(words)}
<1>1. t.type = "Array" /\ t.value = items /\ Len(words) \in 1..9
  BY RequestIs, PhraseIs
<1>2. items \in Seq(T) /\ items # <<>>
  <2>1. Len(words) \in Nat /\ Len(words) # 0
    <3>1. Len(words) \in 1..9
      BY PhraseIs
    <3>2. \A n \in 1..9 : n \in Nat /\ n # 0
      OBVIOUS
    <3> QED BY <3>1, <3>2, Zenon
  <2>2. items \in Seq(T) /\ Len(items) = Len(words)
    BY <2>1
  <2> HIDE DEF items, T
  <2> QED BY <2>1, <2>2
<1> HIDE DEF items, T, t
<1>3. Tail(items) \in Seq(T)
  BY <1>2
<1>4. NoResync(Error("NoCmdError")) /\ NoResync(Error("InvalidArgument"))
  BY BuiltNames DEF Errors
<1>5. \A name : NoResync(FromArray(name, Tail(items)))
  BY <1>3, ArrayNames
<1>6. \A name : NoResync(FromArray(name, Tail(t.value)))
  BY <1>1, <1>5
<1>7. t.type # "SimpleStr" /\ t.type # "RDB"
  BY <1>1
<1> QED BY <1>1, <1>4, <1>6, <1>7, Zenon DEF from_resp, t


-----------------------------------------------------------------------------
(***************************************************************************)
(* The theorems.                                                            *)
(***************************************************************************)

\* A completed request is handled.
LEMMA HandleKeeps ==
    ASSUME NEW phrases \in Seq(Phrase), Hears(phrases), Handle
    PROVE  Hears(phrases)'
<1> DEFINE i == Len(answers)
           words == phrases[i + 1]
           t == Request(words)
           cmd == from_resp(t)
           Names == {from_resp(Request(w)).name : w \in Phrase}
<1>1. /\ sent = Said(phrases) /\ buf \in Text /\ socket \in Text /\ parse_rdb = FALSE
      /\ answers \in Seq(Names) /\ delivered = Before(phrases, i)
      /\ \A k \in 1..i : answers[k] = from_resp(Request(phrases[k])).name
      /\ Progress(phrases)
  BY DEF Hears, Handled
<1>2. parsing = "done" /\ completed # <<>> /\ TakeCompleted /\ UNCHANGED <<sent, socket>>
  BY DEF Handle
<1>3. i < Len(phrases) /\ completed = <<t>> /\ Between(phrases, i + 1)
  BY <1>1, <1>2 DEF Progress
<1>4. i \in Nat /\ Len(phrases) \in Nat /\ i \in 0..(Len(phrases) - 1) /\ i + 1 \in 0..Len(phrases)
  BY <1>1, <1>3
<1>5. words \in Phrase /\ Before(phrases, i + 1) = Before(phrases, i) \o RequestText(words)
  BY <1>4, PhraseAhead
<1>6. serialize(t) = RequestText(words)
  BY <1>5, RequestIs
<1>7. cmd.name # "FULLRESYNC" /\ cmd.name \in Names
  <2>1. NoResync(cmd)
    BY <1>5, RequestNames
  <2> QED BY <1>5, <2>1 DEF NoResync
<1>8. Head(completed) = t /\ Tail(completed) = <<>>
  <2> HIDE DEF t
  <2> QED BY <1>3
<1> HIDE DEF words, t
<1>9. /\ delivered' = delivered \o serialize(t)
      /\ answers' = Append(answers, cmd.name)
      /\ parse_rdb' = IF cmd.name = "FULLRESYNC" THEN TRUE
                      ELSE IF cmd.name = "RDB" THEN FALSE ELSE parse_rdb
  BY <1>8, Zenon DEF Handle
<1>10. /\ completed' = <<>> /\ parsing' = "parse"
       /\ UNCHANGED <<buf, buf_cur, tmp_start, stack, status>>
  BY <1>2, <1>8 DEF TakeCompleted
<1> DEFINE name == cmd.name
<1> HIDE DEF cmd, name, Names
<1>11. answers' \in Seq(Names) /\ Len(answers') = i + 1
  BY <1>1, <1>7, <1>9
<1>12. parse_rdb' = FALSE
  BY <1>1, <1>7, <1>9
<1>13. delivered' = Before(phrases, i + 1)
  BY <1>1, <1>5, <1>6, <1>9, Zenon
<1>14. \A k \in 1..(i + 1) : answers'[k] = from_resp(Request(phrases[k])).name
  <2> TAKE k \in 1..(i + 1)
  <2>1. CASE k = i + 1
    <3>1. answers'[k] = cmd.name
      BY <1>1, <1>4, <1>9, <2>1
    <3> QED BY <2>1, <3>1 DEF cmd, t, words
  <2>2. CASE k # i + 1
    <3>1. k \in 1..i
      BY <1>4, <2>2
    <3>2. answers'[k] = answers[k]
      BY <1>1, <1>9, <3>1
    <3> QED BY <1>1, <3>1, <3>2
  <2> QED BY <2>1, <2>2
<1>15. Handled(phrases)'
  <2>1. Len(answers') <= Len(phrases) /\ delivered' = Before(phrases, Len(answers'))
    BY <1>3, <1>4, <1>11, <1>13
  <2>2. \A k \in 1..Len(answers') : answers'[k] = from_resp(Request(phrases[k])).name
    BY <1>11, <1>14
  <2> QED BY <1>11, <2>1, <2>2 DEF Handled, Names
<1>16. Progress(phrases)'
  <2>1. \A types, kind, n : \A drained \in Text : At(types, kind, n, drained) => At(types, kind, n, drained)'
    BY <1>2, <1>10 DEF At
  <2>2. \A l \in 0..Len(phrases) : Between(phrases, l) => Between(phrases, l)'
    BY <1>10, <2>1, PlaceKept
  <2>3. ASSUME NEW l \in 0..Len(phrases), l = Len(answers'), Between(phrases, l)
        PROVE  Progress(phrases)'
    BY <1>10, <2>2, <2>3 DEF Progress
  <2> QED BY <1>3, <1>4, <1>11, <2>3
<1>17. Waiting'
  BY <1>10 DEF Waiting
<1> QED BY <1>1, <1>2, <1>10, <1>12, <1>15, <1>16, <1>17 DEF Hears

\* A stream of requests is there to be read.
LEMMA ReaderStarts ==
    ASSUME NEW phrases \in Seq(Phrase), Init, sent = Said(phrases)
    PROVE  Hears(phrases)
<1>1. /\ buf = <<>> /\ buf_cur = 0 /\ tmp_start = 0 /\ stack = <<>> /\ completed = <<>>
      /\ status = [kind |-> "Type", n |-> 0] /\ parsing = "idle"
      /\ socket = Bytes(sent) /\ parse_rdb = FALSE /\ delivered = <<>> /\ answers = <<>>
  BY DEF Init, ParserInit
<1>2. Len(phrases) \in Nat /\ 0 \in 0..Len(phrases) /\ Len(phrases) \in 0..Len(phrases)
  OBVIOUS
<1>3. Bytes(sent) \in Text
  BY <1>2, SaidIs
<1>4. Before(phrases, 0) = <<>>
  BY SaidIs, FirstOfOneMore DEF Before
<1>5. <<>> \in Text /\ Len(answers) = 0 /\ Len(buf) = 0
  BY <1>1 DEF Text
<1>6. Is(Bytes(sent), Before(phrases, 0), buf, socket)
  <2>1. <<>> \o Bytes(sent) = Bytes(sent)
    BY <1>3, Joined
  <2>2. buf \o socket = Bytes(sent)
    BY <1>1, <2>1
  <2>3. Before(phrases, 0) \o (buf \o socket) = Bytes(sent)
    BY <1>4, <2>1, <2>2
  <2> QED BY <2>3 DEF Is
<1>7. Between(phrases, 0)
  BY <1>1, <1>6 DEF Between, At, AtStart
<1>8. Progress(phrases)
  BY <1>1, <1>5, <1>7 DEF Progress
<1>9. Handled(phrases)
  BY <1>1, <1>2, <1>4, <1>5 DEF Handled
<1>10. Waiting
  BY <1>1, <1>5 DEF Waiting, TopCompleted
<1> QED BY <1>1, <1>3, <1>5, <1>8, <1>9, <1>10 DEF Hears

\* What peers send is requests: commands as arrays of bulk strings.
OnlyRequests == \A s \in Streams : \E phrases \in Seq(Phrase) : s = Said(phrases)

\* The invariant is inductive.
LEMMA ReaderStep ==
    ASSUME ReaderInv, [Next]_vars
    PROVE  ReaderInv'
<1>1. PICK phrases \in Seq(Phrase) : Hears(phrases)
  BY DEF ReaderInv
<1>2. SUFFICES Hears(phrases)'
  BY DEF ReaderInv
<1>3. CASE UNCHANGED vars
  <2>1. /\ UNCHANGED <<buf, buf_cur, tmp_start, stack, completed, status, parsing>>
        /\ UNCHANGED <<sent, socket, parse_rdb, delivered, answers>>
    BY <1>3 DEF vars, parser_vars
  <2>2. /\ Len(answers) \in Nat /\ Len(answers) <= Len(phrases) /\ Len(phrases) \in Nat
        /\ Progress(phrases) /\ Waiting /\ buf \in Text /\ parsing \in {"idle", "parse", "done"}
    BY <1>1 DEF Hears, Handled
  <2>3. \A types, kind, n : \A drained \in Text : At(types, kind, n, drained) => At(types, kind, n, drained)'
    BY <2>1 DEF At
  <2>4. \A l \in 0..Len(phrases) :
           /\ Between(phrases, l) => Between(phrases, l)'
           /\ l < Len(phrases) /\ InPhrase(phrases, l) => InPhrase(phrases, l)'
    BY <2>1, <2>3, PlaceKept
  <2>5. Progress(phrases)'
    <3>1. Len(answers) \in 0..Len(phrases) /\ (Len(answers) < Len(phrases) => Len(answers) + 1 \in 0..Len(phrases))
      BY <2>2
    <3> QED BY <2>1, <2>2, <2>4, <3>1 DEF Progress
  <2>6. Waiting'
    BY <2>1, <2>2 DEF Waiting, TopCompleted
  <2>7. buf' \in Text /\ parsing' \in {"idle", "parse", "done"}
    BY <2>1, <2>2
  <2> QED BY <1>1, <2>1, <2>5, <2>6, <2>7, ParserStep
<1>4. CASE \E n \in 1..BUFFER_SIZE : ReadSocket(n)
  BY <1>1, <1>4, ReadSocketKeeps
<1>5. CASE Parse
  <2>1. UNCHANGED <<sent, socket, parse_rdb, delivered, answers>> /\ ParseStep(parse_rdb)
    BY <1>5 DEF Parse
  <2>2. ~ParseLine /\ ~ParseBytes("RDB")
    BY <1>1, NoOtherStatus
  <2>3. CASE PopCompleted
    BY <1>1, <2>1, <2>3, PopKeeps
  <2>4. CASE ParseReturns
    BY <1>1, <2>1, <2>4, ParseReturnsKeeps
  <2>5. CASE ParseType(parse_rdb)
    BY <1>1, <2>1, <2>5, ParseTypeKeeps
  <2>6. CASE ParseHeader
    BY <1>1, <2>1, <2>6, ParseHeaderKeeps
  <2>7. CASE ParseBytes("Bulk")
    BY <1>1, <2>1, <2>7, ParseBytesKeeps
  <2> QED BY <2>1, <2>2, <2>3, <2>4, <2>5, <2>6, <2>7 DEF ParseStep
<1>6. CASE Handle
  BY <1>1, <1>6, HandleKeeps
<1>7. CASE Return
  BY <1>1, <1>7, ReturnKeeps
<1> QED BY <1>3, <1>4, <1>5, <1>6, <1>7 DEF Next

\* A connection that is sent requests is always at its place in one of them.
THEOREM ReaderInvCorrect == OnlyRequests => (Spec => []ReaderInv)
<1> SUFFICES ASSUME OnlyRequests PROVE Spec => []ReaderInv
  OBVIOUS
<1>1. Init => ReaderInv
  <2> SUFFICES ASSUME Init PROVE ReaderInv
    OBVIOUS
  <2>1. PICK phrases \in Seq(Phrase) : sent = Said(phrases)
    BY DEF Init, OnlyRequests
  <2> QED BY <2>1, ReaderStarts DEF ReaderInv
<1>2. ReaderInv /\ [Next]_vars => ReaderInv'
  BY ReaderStep
<1> QED BY <1>1, <1>2, PTL DEF Spec


\* However the bytes of some requests are cut, what is handled is what was sent, in order
\* and with the answer the whole message deserves: the parser and read_socket for streams of
\* any number of requests.
THEOREM RequestsHandledAsSent == OnlyRequests => (Spec => []HandledAsSent)
<1>1. ReaderInv => HandledAsSent
  <2> SUFFICES ASSUME ReaderInv PROVE HandledAsSent
    OBVIOUS
  <2>1. PICK phrases \in Seq(Phrase) : Hears(phrases)
    BY DEF ReaderInv
  <2> DEFINE n == Len(answers)
  <2>2. /\ sent = Said(phrases) /\ n \in Nat /\ n <= Len(phrases) /\ Len(phrases) \in Nat
        /\ delivered = Before(phrases, n)
        /\ \A k \in 1..n : answers[k] = from_resp(Request(phrases[k])).name
    BY <2>1 DEF Hears, Handled
  <2>3. n \in 0..Len(phrases)
    BY <2>2
  <2> HIDE DEF n
  <2>4. n <= Len(sent)
    BY <2>2, SaidIs
  <2>5. delivered = Bytes(SubSeq(sent, 1, n))
    BY <2>2, <2>3, SaidIs DEF Before
  <2>6. \A k \in 1..n : answers[k] = from_resp(sent[k]).name
    <3> TAKE k \in 1..n
    <3>1. k \in 1..Len(phrases)
      BY <2>2
    <3>2. sent[k] = Request(phrases[k])
      BY <2>2, <3>1, SaidIs
    <3> QED BY <2>2, <3>2
  <2> QED BY <2>4, <2>5, <2>6, Zenon DEF HandledAsSent, n
<1> QED BY <1>1, ReaderInvCorrect, PTL

-----------------------------------------------------------------------------
(***************************************************************************)
(* What has arrived.                                                        *)
(***************************************************************************)

\* How many bytes have been received, at a place.
LEMMA ReceivedIs ==
    ASSUME NEW all \in Text, NEW drained \in Text, NEW b \in Text, NEW rest \in Text, Is(all, drained, b, rest)
    PROVE  /\ Len(all) = Len(drained) + Len(b) + Len(rest)
           /\ Len(drained) \in Nat /\ Len(b) \in Nat /\ Len(rest) \in Nat
           /\ Len(SubSeq(all, 1, Len(all) - Len(rest))) = Len(drained) + Len(b)
<1>1. b \o rest \in Text /\ Len(b \o rest) = Len(b) + Len(rest) /\ Len(b) \in Nat /\ Len(rest) \in Nat
  BY Joined
<1> DEFINE s == b \o rest
<1>2. drained \o s = all
  BY DEF Is
<1> HIDE DEF s
<1>3. Len(drained \o s) = Len(drained) + Len(s) /\ Len(drained) \in Nat
  <2>1. s \in Text
    BY <1>1 DEF s
  <2> QED BY <2>1, Joined
<1>4. Len(all) = Len(drained) + Len(b) + Len(rest)
  <2>1. Len(s) = Len(b) + Len(rest)
    BY <1>1 DEF s
  <2> QED BY <1>1, <1>2, <1>3, <2>1
<1>5. Len(SubSeq(all, 1, Len(all) - Len(rest))) = Len(drained) + Len(b)
  <2> DEFINE k == Len(drained) + Len(b)
  <2>1. Len(all) - Len(rest) = k /\ k \in Nat /\ k <= Len(all)
    BY <1>1, <1>3, <1>4
  <2> HIDE DEF k
  <2>2. Len(SubSeq(all, 1, k)) = k
    BY <2>1 DEF Text
  <2> QED BY <2>1, <2>2 DEF k
<1> QED BY <1>1, <1>3, <1>4, <1>5

\* How long the first phrases are.
LEMMA LengthsGrow ==
    ASSUME NEW phrases \in Seq(Phrase), NEW i \in 0..Len(phrases), NEW m \in i..Len(phrases)
    PROVE  /\ Len(Before(phrases, i)) \in Nat /\ Len(Before(phrases, m)) \in Nat
           /\ Len(Before(phrases, i)) <= Len(Before(phrases, m))
<1> DEFINE texts == Texts(phrases)
<1>1. texts \in Seq(Text) /\ i \in 0..Len(texts) /\ m \in i..Len(texts)
  BY SaidIs
<1> HIDE DEF texts
<1>2. /\ FirstOf(texts, i) \in Text /\ FirstOf(texts, m) \in Text
      /\ \E x \in Text : FirstOf(texts, m) = FirstOf(texts, i) \o x
  BY <1>1, FirstOfMore
<1>3. PICK x \in Text : FirstOf(texts, m) = FirstOf(texts, i) \o x
  BY <1>2
<1>4. Len(FirstOf(texts, i) \o x) = Len(FirstOf(texts, i)) + Len(x) /\ Len(FirstOf(texts, i)) \in Nat /\ Len(x) \in Nat
  BY <1>2, Joined
<1>5. /\ Len(FirstOf(texts, i)) \in Nat /\ Len(FirstOf(texts, m)) \in Nat
      /\ Len(FirstOf(texts, i)) <= Len(FirstOf(texts, m))
  BY <1>3, <1>4
<1> QED BY <1>5 DEF Before, texts


\* How long a phrase is at least, and what is left of it before a bulk string.
LEMMA PhraseLengths ==
    ASSUME NEW phrases \in Seq(Phrase), NEW i \in 0..(Len(phrases) - 1)
    PROVE  /\ Len(Before(phrases, i)) \in Nat /\ Len(Before(phrases, i + 1)) \in Nat
           /\ Len(Before(phrases, i + 1)) >= Len(Before(phrases, i)) + 4
<1> DEFINE words == phrases[i + 1]
           d == Before(phrases, i)
           h == Header("*", Len(words))
           f == FlattenSeq(ItemTexts(words))
<1>1. words \in Phrase /\ d \in Text /\ Before(phrases, i + 1) = d \o RequestText(words)
  BY PhraseAhead
<1>2. h \in Text /\ f \in Text /\ RequestText(words) = h \o f
  BY <1>1, PhraseIs DEF RequestText
<1>3. Len(h) = 4
  <2>1. "*" \in {"*", "$"} /\ Len(words) \in 0..9
    BY <1>1, PhraseIs
  <2> QED BY <2>1, HeaderIs
<1> HIDE DEF words, d, h, f
<1>4. h \o f \in Text /\ Len(h \o f) = Len(h) + Len(f) /\ Len(f) \in Nat
  BY <1>2, Joined
<1>5. Len(d \o RequestText(words)) = Len(d) + Len(RequestText(words)) /\ Len(d) \in Nat
  <2>1. RequestText(words) \in Text
    BY <1>2, <1>4
  <2> QED BY <1>1, <2>1, Joined
<1>6. Len(RequestText(words)) = 4 + Len(f)
  BY <1>2, <1>3, <1>4
<1>7. Len(d) \in Nat /\ Len(Before(phrases, i + 1)) = Len(d) + 4 + Len(f) /\ Len(f) \in Nat
  BY <1>1, <1>4, <1>5, <1>6
<1>8. Len(d) \in Nat /\ Len(Before(phrases, i + 1)) \in Nat /\ Len(Before(phrases, i + 1)) >= Len(d) + 4
  BY <1>7
<1> QED BY <1>8 DEF d

\* The same in a phrase.
LEMMA BulkLengths ==
    ASSUME NEW phrases \in Seq(Phrase), NEW i \in 0..(Len(phrases) - 1),
           NEW j \in 0..(Len(phrases[i + 1]) - 1), NEW w, w = phrases[i + 1][j + 1]
    PROVE  /\ Len(w) \in 0..9 /\ Len(ReadOf(phrases, i, j)) \in Nat
           /\ Len(ReadOf(phrases, i, j)) >= Len(Before(phrases, i))
           /\ Len(ReadOf(phrases, i, j) \o Header("$", Len(w))) = Len(ReadOf(phrases, i, j)) + 4
           /\ Len(Before(phrases, i + 1)) >= Len(ReadOf(phrases, i, j)) + Len(w) + 6
<1> DEFINE words == phrases[i + 1]
           r == ReadOf(phrases, i, j)
           h == Header("$", Len(w))
           v == w \o Ending
           s == r \o h
           more == ReadOf(phrases, i, j + 1)
           start == Before(phrases, i) \o Header("*", Len(words))
           f == FirstOf(ItemTexts(words), j)
<1>1. w \in Word /\ h \in Text /\ r \in Text /\ s \in Text /\ more \in Text /\ more = s \o v
  BY BulkAhead
<1>2. PICK x \in Text : Before(phrases, i + 1) = more \o x
  BY BulkAhead
<1>3. v \in Text /\ Len(v) = Len(w) + 2 /\ Len(w) \in 0..9
  BY <1>1, WordIs
<1>4. Len(h) = 4
  <2>1. "$" \in {"*", "$"}
    OBVIOUS
  <2> QED BY <1>3, <2>1, HeaderIs
<1>5. words \in Phrase /\ Before(phrases, i) \in Text
  BY PhraseAhead
<1>6. Header("*", Len(words)) \in Text /\ ItemTexts(words) \in Seq(Text) /\ Len(ItemTexts(words)) = Len(words) /\ Len(words) \in 1..9
  BY <1>5, PhraseIs
<1>7. r = start \o f
  BY Zenon DEF ReadOf
<1>8. f \in Text
  <2>1. j \in 0..Len(ItemTexts(words)) /\ j \in j..Len(ItemTexts(words))
    BY <1>6
  <2> QED BY <1>6, <2>1, FirstOfMore
<1>9. /\ start \in Text /\ Len(start) = Len(Before(phrases, i)) + Len(Header("*", Len(words)))
      /\ Len(Before(phrases, i)) \in Nat /\ Len(Header("*", Len(words))) \in Nat
  <2> DEFINE o == Header("*", Len(words))
  <2>1. o \in Text
    BY <1>6
  <2> HIDE DEF o
  <2>2. Before(phrases, i) \o o \in Text /\ Len(Before(phrases, i) \o o) = Len(Before(phrases, i)) + Len(o)
        /\ Len(Before(phrases, i)) \in Nat /\ Len(o) \in Nat
    BY <1>5, <2>1, Joined
  <2> QED BY <2>2 DEF o
<1> HIDE DEF words, r, h, v, s, more, start, f
<1>10. Len(start \o f) = Len(start) + Len(f) /\ Len(f) \in Nat
  BY <1>8, <1>9, Joined
<1>11. Len(r) \in Nat /\ Len(r) >= Len(Before(phrases, i))
  BY <1>7, <1>9, <1>10
<1>12. Len(s) = Len(r) + 4
  <2>1. Len(r \o h) = Len(r) + Len(h)
    BY <1>1, Joined
  <2> QED BY <1>4, <2>1 DEF s
<1>13. Len(more) = Len(s) + Len(v)
  <2>1. Len(s \o v) = Len(s) + Len(v)
    BY <1>1, <1>3, Joined
  <2> QED BY <1>1, <2>1
<1>14. Len(Before(phrases, i + 1)) = Len(more) + Len(x) /\ Len(x) \in Nat
  <2>1. Len(more \o x) = Len(more) + Len(x) /\ Len(x) \in Nat
    BY <1>1, Joined
  <2> QED BY <1>2, <2>1
<1>15. Len(Before(phrases, i + 1)) >= Len(r) + Len(w) + 6
  <2>1. Len(Before(phrases, i + 1)) = ((Len(r) + 4) + (Len(w) + 2)) + Len(x)
    BY <1>3, <1>12, <1>13, <1>14, Zenon
  <2>2. \A a, b, c \in Nat : ((a + 4) + (b + 2)) + c >= a + b + 6
    OBVIOUS
  <2>3. Len(r) \in Nat /\ Len(w) \in Nat /\ Len(x) \in Nat
    BY <1>3, <1>11, <1>14
  <2> QED BY <2>1, <2>2, <2>3
<1> QED BY <1>3, <1>11, <1>12, <1>15 DEF r, s, h

\* While a connection waits, either fewer bytes have arrived than its place needs to go on,
\* or it is at the end of a bulk string.
LEMMA WaitsForBytes ==
    ASSUME NEW phrases \in Seq(Phrase), Hears(phrases), parsing = "idle"
    PROVE  LET i == Len(answers)
           IN /\ Len(Received) \in Nat /\ Len(Before(phrases, i)) <= Len(Received)
              /\ \/ i = Len(phrases)
                 \/ Len(Received) < Len(Before(phrases, i + 1))
                 \/ status.kind = "Bulk" /\ buf_cur = Len(buf) /\ buf_cur - tmp_start = status.n + 2
<1> DEFINE i == Len(answers)
           all == Bytes(Said(phrases))
           got == Len(Received)
<1>1. /\ sent = Said(phrases) /\ buf \in Text /\ socket \in Text /\ i \in Nat /\ i <= Len(phrases)
      /\ Len(phrases) \in Nat /\ Len(buf) \in Nat /\ Progress(phrases) /\ Waiting
  BY DEF Hears, Handled, Text
<1>2. all \in Text
  <2>1. Len(phrases) \in 0..Len(phrases)
    BY <1>1
  <2> QED BY <2>1, SaidIs
<1>3. completed = <<>>
  BY <1>1 DEF Progress
<1>4. ~TopCompleted /\ (buf_cur >= Len(buf) \/ (status.kind = "Header" /\ Len(buf) < 4))
  BY <1>1, <1>3 DEF Waiting
<1>5. ASSUME NEW drained \in Text, Is(all, drained, buf, socket)
      PROVE  Len(drained) \in Nat /\ got = Len(drained) + Len(buf)
  <2>1. Len(SubSeq(all, 1, Len(all) - Len(socket))) = Len(drained) + Len(buf) /\ Len(drained) \in Nat
    BY <1>1, <1>2, <1>5, ReceivedIs
  <2> QED BY <1>1, <2>1 DEF Received
<1> HIDE DEF i, all, got
<1> DEFINE Goal == /\ got \in Nat /\ Len(Before(phrases, i)) <= got
                   /\ \/ i = Len(phrases)
                      \/ got < Len(Before(phrases, i + 1))
                      \/ status.kind = "Bulk" /\ buf_cur = Len(buf) /\ buf_cur - tmp_start = status.n + 2
<1>6. ASSUME Between(phrases, i)
      PROVE  Goal
  <2>1. Is(all, Before(phrases, i), buf, socket) /\ buf_cur = 0 /\ status.kind = "Type"
    BY <1>1, <1>6 DEF Between, At, AtStart, all
  <2>2. Before(phrases, i) \in Text
    <3>1. i \in 0..Len(phrases)
      BY <1>1
    <3> QED BY <3>1, SaidIs DEF Before
  <2>3. Len(Before(phrases, i)) \in Nat /\ got = Len(Before(phrases, i)) + Len(buf)
    BY <1>5, <2>1, <2>2
  <2>4. Len(buf) = 0
    BY <1>1, <1>4, <2>1
  <2>5. CASE i = Len(phrases)
    BY <2>3, <2>4, <2>5
  <2>6. CASE i # Len(phrases)
    <3>1. i \in 0..(Len(phrases) - 1)
      BY <1>1, <2>6
    <3>2. Len(Before(phrases, i + 1)) \in Nat /\ Len(Before(phrases, i + 1)) >= Len(Before(phrases, i)) + 4
      BY <3>1, PhraseLengths
    <3> QED BY <2>3, <2>4, <3>2
  <2> QED BY <2>5, <2>6
<1>7. ASSUME i \in 0..(Len(phrases) - 1), InArrayHeader(phrases, i)
      PROVE  Goal
  <2>1. Is(all, Before(phrases, i), buf, socket) /\ buf_cur \in 1..2
    BY <1>1, <1>7 DEF InArrayHeader, At, AfterPrefix, all
  <2>2. Before(phrases, i) \in Text
    BY <1>7, PhraseAhead
  <2>3. Len(Before(phrases, i)) \in Nat /\ got = Len(Before(phrases, i)) + Len(buf)
    BY <1>5, <2>1, <2>2
  <2>4. Len(buf) < 4
    BY <1>1, <1>4, <2>1
  <2>5. Len(Before(phrases, i + 1)) \in Nat /\ Len(Before(phrases, i + 1)) >= Len(Before(phrases, i)) + 4
    BY <1>7, PhraseLengths
  <2> QED BY <1>1, <2>3, <2>4, <2>5
<1>8. ASSUME i \in 0..(Len(phrases) - 1), NEW j \in 0..(Len(phrases[i + 1]) - 1),
             InArray(phrases, i, j) \/ InBulkHeader(phrases, i, j) \/ InBulk(phrases, i, j)
      PROVE  Goal
  <2> DEFINE w == phrases[i + 1][j + 1]
             r == ReadOf(phrases, i, j)
             s == r \o Header("$", Len(w))
  <2>1. /\ Len(w) \in 0..9 /\ Len(r) \in Nat /\ Len(r) >= Len(Before(phrases, i)) /\ Len(s) = Len(r) + 4
        /\ Len(Before(phrases, i + 1)) >= Len(r) + Len(w) + 6
    BY <1>8, BulkLengths
  <2>2. r \in Text /\ s \in Text
    BY <1>8, BulkAhead
  <2>3. Len(Before(phrases, i)) \in Nat /\ Len(Before(phrases, i + 1)) \in Nat
    BY <1>8, PhraseLengths
  <2>4. CASE InArray(phrases, i, j)
    <3>1. Is(all, r, buf, socket) /\ buf_cur = 0 /\ status.kind = "Type"
      BY <1>1, <2>4 DEF InArray, At, AtStart, all
    <3> HIDE DEF r, s, w
    <3>2. got = Len(r) + Len(buf)
      BY <1>5, <2>2, <3>1
    <3>3. Len(buf) = 0
      BY <1>1, <1>4, <3>1
    <3> QED BY <2>1, <2>3, <3>2, <3>3
  <2>5. CASE InBulkHeader(phrases, i, j)
    <3>1. Is(all, r, buf, socket) /\ buf_cur \in 1..2
      BY <1>1, <2>5 DEF InBulkHeader, At, AfterPrefix, all
    <3> HIDE DEF r, s, w
    <3>2. got = Len(r) + Len(buf)
      BY <1>5, <2>2, <3>1
    <3>3. Len(buf) < 4
      BY <1>1, <1>4, <3>1
    <3> QED BY <1>1, <2>1, <2>3, <3>2, <3>3
  <2>6. CASE InBulk(phrases, i, j)
    <3>1. /\ Is(all, s, buf, socket) /\ status = [kind |-> "Bulk", n |-> Len(w)]
          /\ buf_cur \in 0..(Len(w) + 2) /\ tmp_start = 0
      BY <1>1, <2>6 DEF InBulk, At, all
    <3>2. status.kind = "Bulk" /\ status.n = Len(w) /\ status.kind # "Header"
      BY <3>1
    <3> HIDE DEF r, s, w
    <3>3. got = Len(s) + Len(buf)
      BY <1>5, <2>2, <3>1
    <3>4. buf_cur >= Len(buf)
      BY <1>4, <3>2
    <3>5. got \in Nat /\ Len(Before(phrases, i)) <= got
      BY <1>1, <2>1, <2>3, <3>3
    <3>6. CASE Len(buf) = Len(w) + 2
      <4>1. buf_cur = Len(buf) /\ buf_cur - tmp_start = status.n + 2
        BY <1>1, <2>1, <3>1, <3>2, <3>4, <3>6
      <4> QED BY <3>2, <3>5, <4>1
    <3>7. CASE Len(buf) # Len(w) + 2
      <4>1. Len(buf) < Len(w) + 2
        BY <1>1, <2>1, <3>1, <3>4, <3>7
      <4>2. got < Len(Before(phrases, i + 1))
        BY <1>1, <2>1, <2>3, <3>3, <4>1
      <4> QED BY <3>5, <4>2
    <3> QED BY <3>6, <3>7
  <2> QED BY <1>8, <2>4, <2>5, <2>6
<1>9. \/ Between(phrases, i)
      \/ /\ i \in 0..(Len(phrases) - 1) /\ phrases[i + 1] \in Phrase
         /\ \/ InArrayHeader(phrases, i)
            \/ \E j \in 0..(Len(phrases[i + 1]) - 1) :
                  InArray(phrases, i, j) \/ InBulkHeader(phrases, i, j) \/ InBulk(phrases, i, j)
  BY <1>3, <1>4, Places, Zenon DEF i
<1>10. Goal
  <2> HIDE DEF Goal
  <2> QED BY <1>6, <1>7, <1>8, <1>9, Zenon
<1> QED BY <1>10, Zenon DEF i, got

\* A request that has arrived, to its last byte, waits for more bytes only with a bulk string
\* to whose last byte the cursor of read_bytes was taken before it was there: the parser has
\* no other way to withhold one, wherever the bytes are cut.
THEOREM OnlyBulkEndsWithhold == OnlyRequests => (Spec => []WithheldOnlyAtBulkEnd)
<1>1. ReaderInv => WithheldOnlyAtBulkEnd
  <2> SUFFICES ASSUME ReaderInv, parsing = "idle", Len(answers) # Cardinality(Arrived)
               PROVE  /\ status.kind \in {"Bulk", "RDB"}
                      /\ buf_cur = Len(buf)
                      /\ buf_cur - tmp_start = status.n + (IF status.kind = "RDB" THEN 0 ELSE 2)
    BY Zenon DEF WithheldOnlyAtBulkEnd
  <2>1. PICK phrases \in Seq(Phrase) : Hears(phrases)
    BY DEF ReaderInv
  <2> DEFINE i == Len(answers)
             got == Len(Received)
  <2>2. sent = Said(phrases) /\ i \in Nat /\ i <= Len(phrases) /\ Len(phrases) \in Nat
    BY <2>1 DEF Hears, Handled
  <2>3. /\ got \in Nat /\ Len(Before(phrases, i)) <= got
        /\ \/ i = Len(phrases)
           \/ got < Len(Before(phrases, i + 1))
           \/ status.kind = "Bulk" /\ buf_cur = Len(buf) /\ buf_cur - tmp_start = status.n + 2
    BY <2>1, WaitsForBytes, Zenon
  <2> HIDE DEF i, got
  <2>4. ASSUME i = Len(phrases) \/ got < Len(Before(phrases, i + 1))
        PROVE  FALSE
    <3>1. Arrived = {k \in 1..Len(phrases) : Len(Before(phrases, k)) <= got}
      <4>1. Len(sent) = Len(phrases)
        BY <2>2, SaidIs
      <4>2. ASSUME NEW k \in 1..Len(phrases)
            PROVE  Bytes(SubSeq(sent, 1, k)) = Before(phrases, k)
        <5>1. k \in 0..Len(phrases)
          BY <2>2
        <5> QED BY <2>2, <5>1, SaidIs DEF Before
      <4> QED BY <4>1, <4>2 DEF Arrived, got
    <3>2. ASSUME NEW k \in 1..Len(phrases)
          PROVE  Len(Before(phrases, k)) <= got <=> k <= i
      <4>1. CASE k <= i
        <5>1. k \in 0..Len(phrases) /\ i \in k..Len(phrases)
          BY <2>2, <4>1
        <5>2. /\ Len(Before(phrases, k)) \in Nat /\ Len(Before(phrases, i)) \in Nat
              /\ Len(Before(phrases, k)) <= Len(Before(phrases, i))
          BY <5>1, LengthsGrow
        <5> QED BY <2>3, <4>1, <5>2
      <4>2. CASE ~(k <= i)
        <5>1. i + 1 \in 0..Len(phrases) /\ k \in (i + 1)..Len(phrases) /\ i # Len(phrases)
          BY <2>2, <4>2
        <5>2. /\ Len(Before(phrases, i + 1)) \in Nat /\ Len(Before(phrases, k)) \in Nat
              /\ Len(Before(phrases, i + 1)) <= Len(Before(phrases, k))
          BY <5>1, LengthsGrow
        <5> QED BY <2>3, <2>4, <4>2, <5>1, <5>2
      <4> QED BY <4>1, <4>2
    <3>3. Arrived = 1..i
      BY <2>2, <3>1, <3>2
    <3>4. Cardinality(1..i) = i
      BY <2>2, FS_Interval
    <3> QED BY <3>3, <3>4 DEF i
  <2>5. status.kind = "Bulk" /\ buf_cur = Len(buf) /\ buf_cur - tmp_start = status.n + 2
    BY <2>3, <2>4
  <2>6. status.kind # "RDB" /\ status.kind \in {"Bulk", "RDB"}
    BY <2>5
  <2> QED BY <2>5, <2>6
<1> QED BY <1>1, ReaderInvCorrect, PTL

=============================================================================
