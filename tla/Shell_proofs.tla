----------------------------- MODULE Shell_proofs -----------------------------
(***************************************************************************)
(* Proofs about Shell, for any line and buffer sizes, any files, any table *)
(* of commands and any terminal contents.                                  *)
(***************************************************************************)
EXTENDS Shell, Files_proofs, FiniteSetTheorems

-----------------------------------------------------------------------------
(* Recursion over an interval                                              *)

\* What holds at the start and is kept by each step holds throughout.
LEMMA Throughout ==
  ASSUME NEW X, NEW n \in Nat, NEW g, g[0] \in X,
         \A i \in 1 .. n : g[i - 1] \in X => g[i] \in X
  PROVE  \A i \in 0 .. n : g[i] \in X
<1> DEFINE Bad == {i \in 0 .. n : g[i] \notin X}
<1>1. SUFFICES ASSUME Bad # {}
               PROVE  FALSE
  OBVIOUS
<1>2. PICK i \in Bad : \A j \in Bad : i <= j
  <2>1. Bad \subseteq Nat
    OBVIOUS
  <2> QED BY <1>1, <2>1, LeastNatural
<1>3. i \in 1 .. n
  BY <1>2
<1>4. i - 1 \in 0 .. n /\ i - 1 \notin Bad
  BY <1>2, <1>3
<1>5. g[i - 1] \in X
  BY <1>4
<1> QED BY <1>2, <1>3, <1>5

LEMMA UpTo ==
  ASSUME NEW X, NEW n \in Nat, 0 \in X,
         \A i \in 1 .. n : i - 1 \in X => i \in X
  PROVE  \A i \in 0 .. n : i \in X
<1> DEFINE Bad == {i \in 0 .. n : i \notin X}
<1>1. SUFFICES ASSUME Bad # {}
               PROVE  FALSE
  OBVIOUS
<1>2. PICK i \in Bad : \A j \in Bad : i <= j
  <2>1. Bad \subseteq Nat
    OBVIOUS
  <2> QED BY <1>1, <2>1, LeastNatural
<1>3. i \in 1 .. n
  BY <1>2
<1>4. i - 1 \in 0 .. n /\ i - 1 \notin Bad
  BY <1>2, <1>3
<1> QED BY <1>2, <1>3, <1>4

\* A value and n functions define the sequence of their results.
LEMMA Iterates ==
  ASSUME NEW X, NEW x \in X, NEW n \in Nat, NEW F \in [1 .. n -> [X -> X]]
  PROVE  \E f \in [0 .. n -> X] :
           f[0] = x /\ \A i \in 1 .. n : f[i] = F[i][f[i - 1]]
<1> DEFINE Runs(m, f) == /\ f \in [0 .. m -> X] /\ f[0] = x
                         /\ \A i \in 1 .. m : f[i] = F[i][f[i - 1]]
           Bad == {m \in 0 .. n : ~ \E f : Runs(m, f)}
<1>1. SUFFICES ASSUME Bad # {}
               PROVE  FALSE
  <2>1. n \in 0 .. n
    OBVIOUS
  <2> QED BY <2>1
<1>2. PICK m \in Bad : \A j \in Bad : m <= j
  <2>1. Bad \subseteq Nat
    OBVIOUS
  <2> QED BY <1>1, <2>1, LeastNatural
<1>3. m # 0
  <2>1. Runs(0, [i \in 0 .. 0 |-> x])
    OBVIOUS
  <2> QED BY <1>2, <2>1, ZenonT(40)
<1>4. m \in 1 .. n /\ m - 1 \in 0 .. n /\ m - 1 \notin Bad
  <2>1. m \in 0 .. n
    OBVIOUS
  <2> HIDE DEF Bad
  <2> QED BY <1>2, <1>3, <2>1
<1>5. PICK f : Runs(m - 1, f)
  <2> HIDE DEF Runs
  <2> QED BY <1>4
<1> DEFINE g == [i \in 0 .. m |-> IF i = m THEN F[m][f[m - 1]] ELSE f[i]]
<1>6. f[m - 1] \in X /\ F[m] \in [X -> X] /\ \A i \in 0 .. m - 1 : f[i] \in X
  BY <1>4, <1>5
<1>7. g \in [0 .. m -> X]
  BY <1>4, <1>6
<1>8. g[0] = x
  BY <1>4, <1>5
<1>9. \A i \in 1 .. m : g[i] = F[i][g[i - 1]]
  BY <1>4, <1>5
<1>10. Runs(m, g)
  BY <1>7, <1>8, <1>9
<1> QED BY <1>2, <1>10

\* Induction on sequences, with a set in the place of the predicate.
LEMMA BySnoc ==
  ASSUME NEW S, NEW Q, <<>> \in Q,
         \A s \in Seq(S), c \in S : s \in Q => Append(s, c) \in Q
  PROVE  Seq(S) \subseteq Q
<1> SUFFICES ASSUME NEW s \in Seq(S)
             PROVE  s \in Q
  OBVIOUS
<1>1. PICK n \in Nat : n = Len(s)
  BY LenProperties
<1> DEFINE P(i) == SubSeq(s, 1, i)
           Held == {i \in 0 .. n : P(i) \in Q}
<1>2. \A i \in 1 .. n : s[i] \in S
  BY <1>1, ElementOfSeq
<1>3. \A i \in 0 .. n : P(i) \in Seq(S)
  BY <1>2, SubSeqProperties
<1>4. P(0) = <<>>
  BY SubSeqEmpty
<1>5. ASSUME NEW i \in 1 .. n
      PROVE  P(i) = Append(P(i - 1), s[i])
  <2>1. 1 \in 1 .. Len(s) /\ i \in 1 .. Len(s)
    BY <1>1
  <2>2. P(i) = P(i - 1) \o <<s[i]>>
    BY <2>1, SubSeqRecursiveSecond
  <2>3. i - 1 \in 0 .. n
    OBVIOUS
  <2>4. P(i - 1) \in Seq(S) /\ s[i] \in S
    BY <1>2, <1>3, <2>3
  <2> HIDE DEF P
  <2> QED BY <2>2, <2>4, AppendIsConcat
<1>6. P(n) = s
  BY <1>1, SubSeqFull
<1> HIDE DEF P
<1>7. 0 \in Held
  BY <1>4
<1>8. \A i \in 1 .. n : i - 1 \in Held => i \in Held
  <2> SUFFICES ASSUME NEW i \in 1 .. n, i - 1 \in Held
               PROVE  i \in Held
    OBVIOUS
  <2>1. P(i - 1) \in Q /\ P(i - 1) \in Seq(S) /\ s[i] \in S
    BY <1>2, <1>3
  <2>2. Append(P(i - 1), s[i]) \in Q
    BY <2>1
  <2>3. P(i) = Append(P(i - 1), s[i])
    BY <1>5
  <2>4. P(i) \in Q /\ i \in 0 .. n
    BY <2>2, <2>3
  <2> QED BY <2>4
<1> HIDE DEF Held
<1>9. n \in Held
  <2>1. \A i \in 0 .. n : i \in Held
    BY <1>7, <1>8, UpTo
  <2> QED BY <2>1
<1> QED BY <1>6, <1>9 DEF Held

LEMMA AppendOfConcat ==
  ASSUME NEW S, NEW a \in Seq(S), NEW x \in Seq(S), NEW c \in S
  PROVE  a \o Append(x, c) = Append(a \o x, c)
<1>1. <<c>> \in Seq(S) /\ Append(x, c) = x \o <<c>>
  BY AppendIsConcat
<1>2. a \o x \in Seq(S)
  BY ConcatProperties
<1>3. Append(a \o x, c) = (a \o x) \o <<c>>
  BY <1>2, AppendIsConcat
<1>4. (a \o x) \o <<c>> = a \o (x \o <<c>>)
  BY <1>1, ConcatAssociative
<1> QED BY <1>1, <1>3, <1>4

\* Short sequences.
LEMMA Pair ==
  ASSUME NEW c, NEW d
  PROVE  Append(<<c>>, d) = <<c, d>>
<1> DEFINE a == Append(<<c>>, d)
           b == <<c, d>>
           S == {c, d}
<1>1. a \in Seq(S) /\ Len(a) = 2 /\ a[1] = c /\ a[2] = d
  <2>1. <<c>> \in Seq(S) /\ Len(<<c>>) = 1 /\ <<c>>[1] = c /\ d \in S
    OBVIOUS
  <2> QED BY <2>1, AppendProperties
<1>2. b \in Seq(S) /\ Len(b) = 2 /\ b[1] = c /\ b[2] = d
  OBVIOUS
<1> HIDE DEF a, b
<1>3. \A i \in 1 .. Len(a) : a[i] = b[i]
  BY <1>1, <1>2
<1>4. a = b
  BY <1>1, <1>2, <1>3, SeqEqual
<1> QED BY <1>4 DEF a, b

LEMMA Triple ==
  ASSUME NEW c, NEW d, NEW e
  PROVE  Append(<<c, d>>, e) = <<c, d, e>>
<1> DEFINE a == Append(<<c, d>>, e)
           b == <<c, d, e>>
           S == {c, d, e}
<1>1. a \in Seq(S) /\ Len(a) = 3 /\ a[1] = c /\ a[2] = d /\ a[3] = e
  <2>1. /\ <<c, d>> \in Seq(S) /\ Len(<<c, d>>) = 2
        /\ <<c, d>>[1] = c /\ <<c, d>>[2] = d /\ e \in S
    OBVIOUS
  <2> QED BY <2>1, AppendProperties
<1>2. b \in Seq(S) /\ Len(b) = 3 /\ b[1] = c /\ b[2] = d /\ b[3] = e
  OBVIOUS
<1> HIDE DEF a, b
<1>3. \A i \in 1 .. Len(a) : a[i] = b[i]
  BY <1>1, <1>2
<1>4. a = b
  BY <1>1, <1>2, <1>3, SeqEqual
<1> QED BY <1>4 DEF a, b

LEMMA Quadruple ==
  ASSUME NEW c, NEW d, NEW e, NEW f
  PROVE  Append(<<c, d, e>>, f) = <<c, d, e, f>>
<1> DEFINE a == Append(<<c, d, e>>, f)
           b == <<c, d, e, f>>
           S == {c, d, e, f}
<1>1. a \in Seq(S) /\ Len(a) = 4 /\ a[1] = c /\ a[2] = d /\ a[3] = e /\ a[4] = f
  <2>1. /\ <<c, d, e>> \in Seq(S) /\ Len(<<c, d, e>>) = 3
        /\ <<c, d, e>>[1] = c /\ <<c, d, e>>[2] = d /\ <<c, d, e>>[3] = e /\ f \in S
    OBVIOUS
  <2> QED BY <2>1, AppendProperties
<1>2. b \in Seq(S) /\ Len(b) = 4 /\ b[1] = c /\ b[2] = d /\ b[3] = e /\ b[4] = f
  OBVIOUS
<1> HIDE DEF a, b
<1>3. \A i \in 1 .. Len(a) : a[i] = b[i]
  BY <1>1, <1>2
<1>4. a = b
  BY <1>1, <1>2, <1>3, SeqEqual
<1> QED BY <1>4 DEF a, b

LEMMA TwoOrMore ==
  ASSUME NEW n \in Nat, n # 0, n # 1
  PROVE  n \in 2 .. n /\ n \in 1 .. n /\ n - 1 \in 1 .. n
OBVIOUS

-----------------------------------------------------------------------------
(* Flattened sequences                                                     *)

Flat(ss) == CHOOSE f : f = [i \in 1 .. Len(ss) |->
                              IF i = 1 THEN ss[i] ELSE f[i - 1] \o ss[i]]

LEMMA FlattenIs ==
  ASSUME NEW ss, Len(ss) # 0
  PROVE  FlattenSeq(ss) = Flat(ss)[Len(ss)]
BY DEF FlattenSeq, Flat

Pieces(ss, n, S) == \A i \in 1 .. n : ss[i] \in Seq(S)
Leading(g, ss, n, S) ==
  /\ g \in [0 .. n -> Seq(S)]
  /\ \A i \in 1 .. n : g[i] = IF i = 1 THEN ss[i] ELSE g[i - 1] \o ss[i]

LEMMA FlatExists ==
  ASSUME NEW S, NEW ss, NEW n \in Nat, Pieces(ss, n, S)
  PROVE  \E g : Leading(g, ss, n, S)
<1> DEFINE X == Seq(S)
           F == [i \in 1 .. n |-> [y \in X |-> IF i = 1 THEN ss[i] ELSE y \o ss[i]]]
<1>1. F \in [1 .. n -> [X -> X]]
  BY ConcatProperties DEF Pieces
<1>2. PICK x : x \in X
  BY EmptySeq
<1> HIDE DEF F, X
<1>3. \E g \in [0 .. n -> X] : g[0] = x /\ \A i \in 1 .. n : g[i] = F[i][g[i - 1]]
  BY <1>1, <1>2, Iterates
<1>4. PICK g \in [0 .. n -> X] : \A i \in 1 .. n : g[i] = F[i][g[i - 1]]
  BY <1>3
<1>5. ASSUME NEW i \in 1 .. n
      PROVE  g[i] = IF i = 1 THEN ss[i] ELSE g[i - 1] \o ss[i]
  <2>1. i - 1 \in 0 .. n
    OBVIOUS
  <2>2. g[i - 1] \in X
    BY <1>4, <2>1
  <2> QED BY <1>4, <2>2 DEF F
<1> QED BY <1>4, <1>5 DEF X, Leading

LEMMA FlatUnfolds ==
  ASSUME NEW S, NEW ss, NEW n \in Nat, Len(ss) = n, Pieces(ss, n, S)
  PROVE  \A i \in 1 .. n :
           /\ Flat(ss)[i] \in Seq(S)
           /\ Flat(ss)[i] = IF i = 1 THEN ss[i] ELSE Flat(ss)[i - 1] \o ss[i]
<1> DEFINE Step(f) == [i \in 1 .. n |-> IF i = 1 THEN ss[i] ELSE f[i - 1] \o ss[i]]
<1>1. \E f : f = Step(f)
  <2>1. PICK g : Leading(g, ss, n, S)
    BY FlatExists
  <2> DEFINE f == [i \in 1 .. n |-> g[i]]
  <2>2. \A i \in 1 .. n : i # 1 => g[i - 1] = f[i - 1]
    OBVIOUS
  <2>3. f = Step(f)
    BY <2>1, <2>2 DEF Leading
  <2> QED BY <2>3
<1>2. Flat(ss) = Step(Flat(ss))
  BY <1>1 DEF Flat
<1> HIDE DEF Step
<1>3. \A i \in 1 .. n : Flat(ss)[i] = IF i = 1 THEN ss[i] ELSE Flat(ss)[i - 1] \o ss[i]
  BY <1>2 DEF Step
<1> DEFINE h == [i \in 0 .. n |-> IF i = 0 THEN <<>> ELSE Flat(ss)[i]]
<1>4. h[0] \in Seq(S)
  BY EmptySeq
<1>5. ASSUME NEW i \in 1 .. n, h[i - 1] \in Seq(S)
      PROVE  h[i] \in Seq(S)
  <2>1. ss[i] \in Seq(S) /\ h[i] = Flat(ss)[i]
    BY DEF Pieces
  <2>2. CASE i = 1
    BY <1>3, <2>1, <2>2
  <2>3. CASE i # 1
    <3>1. h[i - 1] = Flat(ss)[i - 1]
      BY <2>3
    <3>2. h[i] = h[i - 1] \o ss[i]
      BY <1>3, <2>1, <2>3, <3>1
    <3> HIDE DEF h
    <3> QED BY <1>5, <2>1, <3>2, ConcatProperties
  <2> QED BY <2>2, <2>3
<1> HIDE DEF h
<1>6. \A i \in 0 .. n : h[i] \in Seq(S)
  BY <1>4, <1>5, Throughout
<1>7. \A i \in 1 .. n : Flat(ss)[i] \in Seq(S)
  BY <1>6 DEF h
<1> QED BY <1>3, <1>7

LEMMA FlatFacts ==
  ASSUME NEW S, NEW ss \in Seq(Seq(S))
  PROVE  /\ \A i \in 1 .. Len(ss) : Flat(ss)[i] \in Seq(S)
         /\ Len(ss) # 0 => Flat(ss)[1] = ss[1]
         /\ \A i \in 2 .. Len(ss) : Flat(ss)[i] = Flat(ss)[i - 1] \o ss[i]
<1>1. PICK n \in Nat : n = Len(ss)
  BY LenProperties
<1>2. Pieces(ss, n, S)
  BY <1>1, ElementOfSeq DEF Pieces
<1>3. \A i \in 1 .. n :
           /\ Flat(ss)[i] \in Seq(S)
           /\ Flat(ss)[i] = IF i = 1 THEN ss[i] ELSE Flat(ss)[i - 1] \o ss[i]
  BY <1>1, <1>2, FlatUnfolds
<1>4. n # 0 => Flat(ss)[1] = ss[1]
  <2>1. n # 0 => 1 \in 1 .. n
    OBVIOUS
  <2> QED BY <1>3, <2>1
<1>5. \A i \in 2 .. n : Flat(ss)[i] = Flat(ss)[i - 1] \o ss[i]
  <2>1. \A i \in 2 .. n : i \in 1 .. n /\ i # 1
    OBVIOUS
  <2> QED BY <1>3, <2>1
<1> QED BY <1>1, <1>3, <1>4, <1>5

LEMMA FlattenSeqType ==
  ASSUME NEW S, NEW ss \in Seq(Seq(S))
  PROVE  FlattenSeq(ss) \in Seq(S)
<1>1. Len(ss) \in Nat
  BY LenProperties
<1>2. CASE Len(ss) = 0
  <2>1. ss = <<>>
    BY <1>2, EmptySeq
  <2> QED BY <1>2, <2>1, EmptySeq DEF FlattenSeq
<1>3. CASE Len(ss) # 0
  <2>1. Len(ss) \in 1 .. Len(ss)
    BY <1>1, <1>3
  <2>2. Flat(ss)[Len(ss)] \in Seq(S)
    BY <2>1, FlatFacts
  <2> QED BY <1>3, <2>2, FlattenIs
<1> QED BY <1>2, <1>3

LEMMA FlattenEmpty == FlattenSeq(<<>>) = <<>>
BY DEF FlattenSeq

\* The flattening of a longer sequence.
LEMMA FlattenAppend ==
  ASSUME NEW S, NEW ss \in Seq(Seq(S)), NEW t \in Seq(S)
  PROVE  FlattenSeq(Append(ss, t)) = FlattenSeq(ss) \o t
<1>1. PICK n \in Nat : n = Len(ss)
  BY LenProperties
<1> DEFINE tt == Append(ss, t)
<1>2. /\ tt \in Seq(Seq(S)) /\ Len(tt) = n + 1 /\ tt[n + 1] = t
      /\ \A i \in 1 .. n : tt[i] = ss[i]
  BY <1>1, AppendProperties
<1>3. \A i \in 1 .. n : ss[i] \in Seq(S)
  BY <1>1, ElementOfSeq
<1> HIDE DEF tt
<1>4. Pieces(ss, n, S) /\ Pieces(tt, n + 1, S)
  BY <1>2, <1>3 DEF Pieces
<1>5. \A i \in 1 .. n :
        /\ Flat(ss)[i] \in Seq(S)
        /\ Flat(ss)[i] = IF i = 1 THEN ss[i] ELSE Flat(ss)[i - 1] \o ss[i]
  <2>1. Len(ss) = n /\ Pieces(ss, n, S)
    BY <1>1, <1>4
  <2> QED BY <2>1, FlatUnfolds
<1>6. \A i \in 1 .. n + 1 :
        /\ Flat(tt)[i] \in Seq(S)
        /\ Flat(tt)[i] = IF i = 1 THEN tt[i] ELSE Flat(tt)[i - 1] \o tt[i]
  <2>1. PICK m \in Nat : m = n + 1
    OBVIOUS
  <2>2. Len(tt) = m /\ Pieces(tt, m, S)
    BY <1>2, <1>4, <2>1
  <2>3. \A i \in 1 .. m :
          /\ Flat(tt)[i] \in Seq(S)
          /\ Flat(tt)[i] = IF i = 1 THEN tt[i] ELSE Flat(tt)[i - 1] \o tt[i]
    BY <2>2, FlatUnfolds
  <2> QED BY <2>1, <2>3
<1>7. FlattenSeq(tt) = Flat(tt)[n + 1]
  <2>1. Len(tt) # 0
    BY <1>2
  <2> QED BY <1>2, <2>1, FlattenIs
<1>8. CASE n = 0
  <2>1. ss = <<>>
    BY <1>1, <1>8, EmptySeq
  <2>2. Flat(tt)[1] = t
    BY <1>2, <1>6, <1>8
  <2>3. <<>> \o t = t
    BY ConcatEmptySeq
  <2> QED BY <1>7, <1>8, <2>1, <2>2, <2>3, FlattenEmpty DEF tt
<1>9. CASE n # 0
  <2> DEFINE Same == {i \in Nat : i = 0 \/ Flat(tt)[i] = Flat(ss)[i]}
  <2>1. 0 \in Same
    OBVIOUS
  <2>2. ASSUME NEW i \in 1 .. n, i - 1 \in Same
        PROVE  i \in Same
    <3>1. i \in 1 .. n + 1
      OBVIOUS
    <3>2. CASE i = 1
      BY <1>2, <1>5, <1>6, <3>1, <3>2
    <3>3. CASE i # 1
      <4>1. Flat(tt)[i - 1] = Flat(ss)[i - 1]
        BY <2>2, <3>3
      <4> QED BY <1>2, <1>5, <1>6, <3>1, <3>3, <4>1
    <3> QED BY <3>2, <3>3
  <2> HIDE DEF Same
  <2>3. \A i \in 0 .. n : i \in Same
    BY <2>1, <2>2, UpTo
  <2>4. Flat(tt)[n] = Flat(ss)[n]
    BY <1>9, <2>3 DEF Same
  <2>5. Flat(tt)[n + 1] = Flat(tt)[n] \o t
    <3>1. n + 1 \in 1 .. n + 1 /\ n + 1 # 1 /\ (n + 1) - 1 = n
      BY <1>9
    <3> QED BY <1>2, <1>6, <3>1
  <2>6. FlattenSeq(ss) = Flat(ss)[n]
    BY <1>1, <1>9, FlattenIs
  <2> QED BY <1>7, <2>4, <2>5, <2>6 DEF tt
<1> QED BY <1>8, <1>9

\* The flattening of the images of the elements of s.
Spread(s, G) == FlattenSeq([i \in DOMAIN s |-> G[s[i]]])

LEMMA ImageType ==
  ASSUME NEW S, NEW T, NEW G \in [S -> T], NEW s \in Seq(S)
  PROVE  /\ [i \in DOMAIN s |-> G[s[i]]] \in Seq(T)
         /\ Len([i \in DOMAIN s |-> G[s[i]]]) = Len(s)
         /\ \A j \in 1 .. Len(s) : [i \in DOMAIN s |-> G[s[i]]][j] = G[s[j]]
<1>1. PICK n \in Nat : n = Len(s)
  BY LenProperties
<1>2. DOMAIN s = 1 .. n /\ \A i \in 1 .. n : s[i] \in S
  BY <1>1, LenProperties, ElementOfSeq
<1> QED BY <1>1, <1>2

LEMMA ImageAppend ==
  ASSUME NEW S, NEW T, NEW G \in [S -> T], NEW s \in Seq(S), NEW c \in S
  PROVE  [i \in DOMAIN Append(s, c) |-> G[Append(s, c)[i]]]
           = Append([i \in DOMAIN s |-> G[s[i]]], G[c])
<1>1. PICK n \in Nat : n = Len(s)
  BY LenProperties
<1> DEFINE m == [i \in DOMAIN s |-> G[s[i]]]
           a == Append(s, c)
           b == [i \in DOMAIN a |-> G[a[i]]]
           d == Append(m, G[c])
<1>2. m \in Seq(T) /\ Len(m) = n /\ \A i \in 1 .. n : m[i] = G[s[i]]
  BY <1>1, ImageType
<1>3. /\ a \in Seq(S) /\ Len(a) = n + 1 /\ a[n + 1] = c
      /\ \A i \in 1 .. n : a[i] = s[i]
  BY <1>1, AppendProperties
<1> HIDE DEF a, m
<1>4. b \in Seq(T) /\ Len(b) = n + 1 /\ \A i \in 1 .. n + 1 : b[i] = G[a[i]]
  BY <1>3, ImageType
<1>5. /\ d \in Seq(T) /\ Len(d) = n + 1 /\ d[n + 1] = G[c]
      /\ \A i \in 1 .. n : d[i] = m[i]
  BY <1>2, AppendProperties
<1> HIDE DEF b, d
<1>6. \A i \in 1 .. Len(b) : b[i] = d[i]
  BY <1>2, <1>3, <1>4, <1>5
<1>7. b = d
  BY <1>4, <1>5, <1>6, SeqEqual
<1> QED BY <1>7 DEF a, b, d, m

LEMMA SpreadFacts ==
  ASSUME NEW S, NEW T, NEW G \in [S -> Seq(T)], NEW s \in Seq(S)
  PROVE  /\ Spread(<<>>, G) = <<>>
         /\ Spread(s, G) \in Seq(T)
         /\ \A c \in S : Spread(Append(s, c), G) = Spread(s, G) \o G[c]
<1>1. Spread(<<>>, G) = <<>>
  <2>1. [i \in DOMAIN <<>> |-> G[<<>>[i]]] = <<>>
    OBVIOUS
  <2> QED BY <2>1, FlattenEmpty DEF Spread
<1>2. [i \in DOMAIN s |-> G[s[i]]] \in Seq(Seq(T))
  <2>1. PICK X : X = Seq(T)
    OBVIOUS
  <2>2. G \in [S -> X]
    BY <2>1
  <2>3. [i \in DOMAIN s |-> G[s[i]]] \in Seq(X)
    BY <2>2, ImageType, SMTT(30)
  <2> QED BY <2>1, <2>3
<1>3. Spread(s, G) \in Seq(T)
  BY <1>2, FlattenSeqType DEF Spread
<1>4. ASSUME NEW c \in S
      PROVE  Spread(Append(s, c), G) = Spread(s, G) \o G[c]
  <2>1. [i \in DOMAIN Append(s, c) |-> G[Append(s, c)[i]]]
          = Append([i \in DOMAIN s |-> G[s[i]]], G[c])
    <3>1. PICK X : X = Seq(T)
      OBVIOUS
    <3>2. G \in [S -> X]
      BY <3>1
    <3> QED BY <3>2, ImageAppend
  <2>2. G[c] \in Seq(T)
    OBVIOUS
  <2> QED BY <1>2, <2>1, <2>2, FlattenAppend DEF Spread
<1> QED BY <1>1, <1>3, <1>4

LEMMA SpreadAppend ==
  ASSUME NEW S, NEW T, NEW G \in [S -> Seq(T)], NEW s \in Seq(S), NEW c \in S
  PROVE  Spread(Append(s, c), G) = Spread(s, G) \o G[c]
BY SpreadFacts

LEMMA AssociativeIn ==
  ASSUME NEW T
  PROVE  \A x, y, z \in Seq(T) : (x \o y) \o z = x \o (y \o z)
<1> SUFFICES ASSUME NEW x \in Seq(T), NEW y \in Seq(T), NEW z \in Seq(T)
             PROVE  (x \o y) \o z = x \o (y \o z)
  OBVIOUS
<1> QED BY ConcatAssociative

LEMMA SpreadConcat ==
  ASSUME NEW S, NEW T, NEW G \in [S -> Seq(T)], NEW a \in Seq(S), NEW b \in Seq(S)
  PROVE  Spread(a \o b, G) = Spread(a, G) \o Spread(b, G)
<1> DEFINE Q == {x \in Seq(S) : Spread(a \o x, G) = Spread(a, G) \o Spread(x, G)}
<1>1. <<>> \in Q
  <2>1. <<>> \in Seq(S) /\ a \o <<>> = a /\ Spread(<<>>, G) = <<>> /\ Spread(a, G) \in Seq(T)
    BY EmptySeq, ConcatEmptySeq, SpreadFacts
  <2>2. Spread(a, G) \o <<>> = Spread(a, G)
    BY <2>1, ConcatEmptySeq
  <2> QED BY <2>1, <2>2
<1>2. ASSUME NEW x \in Seq(S), NEW c \in S, x \in Q
      PROVE  Append(x, c) \in Q
  <2>1. a \o Append(x, c) = Append(a \o x, c)
    BY AppendOfConcat, SMTT(30)
  <2>2. Spread(Append(a \o x, c), G) = Spread(a \o x, G) \o G[c]
    <3>1. a \o x \in Seq(S)
      BY ConcatProperties
    <3> QED BY <3>1, SpreadAppend
  <2>3. Spread(Append(x, c), G) = Spread(x, G) \o G[c]
    BY SpreadAppend
  <2>4. Spread(a, G) \in Seq(T) /\ Spread(x, G) \in Seq(T) /\ G[c] \in Seq(T)
    BY SpreadFacts
  <2>5. (Spread(a, G) \o Spread(x, G)) \o G[c] = Spread(a, G) \o (Spread(x, G) \o G[c])
    BY <2>4, AssociativeIn, SMTT(30)
  <2>6. Append(x, c) \in Seq(S)
    BY AppendProperties
  <2> QED BY <1>2, <2>1, <2>2, <2>3, <2>5, <2>6
<1> HIDE DEF Q
<1>3. b \in Q
  BY <1>1, <1>2, BySnoc
<1> QED BY <1>3 DEF Q

-----------------------------------------------------------------------------
(* The terminal                                                            *)

\* Whatever is printed.
Chr == Printable \cup Byte \cup {"NUL", "CR", "NL", "BS", "CLS", "BEL", "msg", ">"}
         \cup {Digit[i] : i \in 1 .. 10}
         \cup {"READY", "RUNNING", "BLOCKED", "ZOMBIE", "UNKNOWN"}

\* A line of the terminal with its cursor, and the line no one has written on.
Window == {s \in [cells : Seq(Chr), col : Nat] : s.col <= Len(s.cells)}
Bare == [cells |-> <<>>, col |-> 0]

LEMMA WindowFacts ==
  ASSUME NEW s \in Window
  PROVE  /\ s.cells \in Seq(Chr) /\ s.col \in Nat /\ Len(s.cells) \in Nat
         /\ s.col <= Len(s.cells) /\ s = [cells |-> s.cells, col |-> s.col]
BY LenProperties DEF Window

LEMMA MakeWindow ==
  ASSUME NEW cells \in Seq(Chr), NEW col \in Nat, col <= Len(cells)
  PROVE  [cells |-> cells, col |-> col] \in Window
BY DEF Window

LEMMA BareWindow == Bare \in Window
BY EmptySeq DEF Window, Bare

LEMMA BlankIsChr == Blank \in Chr
BY DEF Chr, Printable

\* What the characters that move the cursor do.
LEMMA ShowControl ==
  ASSUME NEW s \in Window
  PROVE  /\ Show(s, "CR") = [cells |-> s.cells, col |-> 0]
         /\ Show(s, "NL") = [cells |-> [i \in 1 .. s.col |-> Blank], col |-> s.col]
         /\ Show(s, "BS") = [cells |-> s.cells, col |-> IF s.col = 0 THEN 0 ELSE s.col - 1]
         /\ Show(s, "CLS") = Bare
         /\ Show(s, "BEL") = s
BY WindowFacts DEF Show, Bare

LEMMA ShowOther ==
  ASSUME NEW s \in Window, NEW c, c \notin {"CR", "NL", "BS", "CLS", "BEL"}
  PROVE  Show(s, c) =
           [cells |-> IF s.col < Len(s.cells) THEN [s.cells EXCEPT ![s.col + 1] = c]
                      ELSE Append(s.cells, c),
            col |-> s.col + 1]
BY DEF Show

LEMMA ShowTyped ==
  ASSUME NEW s \in Window, NEW c \in Chr
  PROVE  Show(s, c) \in Window
<1>1. /\ s.cells \in Seq(Chr) /\ s.col \in Nat /\ Len(s.cells) \in Nat
      /\ s.col <= Len(s.cells) /\ s = [cells |-> s.cells, col |-> s.col]
  BY WindowFacts
<1>2. CASE c = "CR"
  BY <1>1, <1>2, ShowControl, MakeWindow
<1>3. CASE c = "NL"
  <2> DEFINE cells == [i \in 1 .. s.col |-> Blank]
  <2>1. cells \in Seq(Chr) /\ Len(cells) = s.col
    BY <1>1, BlankIsChr
  <2> HIDE DEF cells
  <2>2. [cells |-> cells, col |-> s.col] \in Window
    BY <1>1, <2>1, MakeWindow
  <2> QED BY <1>3, <2>2, ShowControl DEF cells
<1>4. CASE c = "BS"
  <2>1. (IF s.col = 0 THEN 0 ELSE s.col - 1) \in Nat
        /\ (IF s.col = 0 THEN 0 ELSE s.col - 1) <= Len(s.cells)
    BY <1>1
  <2> QED BY <1>1, <1>4, <2>1, ShowControl, MakeWindow
<1>5. CASE c = "CLS"
  BY <1>5, ShowControl, BareWindow
<1>6. CASE c = "BEL"
  BY <1>6, ShowControl
<1>7. CASE c \notin {"CR", "NL", "BS", "CLS", "BEL"}
  <2>1. CASE s.col < Len(s.cells)
    <3> DEFINE cells == [s.cells EXCEPT ![s.col + 1] = c]
    <3>1. cells \in Seq(Chr) /\ Len(cells) = Len(s.cells)
      BY <1>1, <2>1, ExceptSeq
    <3>2. Show(s, c) = [cells |-> cells, col |-> s.col + 1]
      BY <1>7, <2>1, ShowOther
    <3> HIDE DEF cells
    <3> QED BY <1>1, <2>1, <3>1, <3>2, MakeWindow
  <2>2. CASE ~ (s.col < Len(s.cells))
    <3> DEFINE cells == Append(s.cells, c)
    <3>1. cells \in Seq(Chr) /\ Len(cells) = Len(s.cells) + 1
      BY <1>1, AppendProperties
    <3>2. Show(s, c) = [cells |-> cells, col |-> s.col + 1]
      BY <1>7, <2>2, ShowOther
    <3> HIDE DEF cells
    <3> QED BY <1>1, <2>2, <3>1, <3>2, MakeWindow
  <2> QED BY <2>1, <2>2
<1> QED BY <1>2, <1>3, <1>4, <1>5, <1>6, <1>7

LEMMA TheOnly ==
  ASSUME NEW x
  PROVE  The({x}) = x
BY DEF The

LEMMA ShowOnly ==
  ASSUME NEW x, NEW c
  PROVE  The({Show(t, c) : t \in {x}}) = Show(x, c)
<1>1. {Show(t, c) : t \in {x}} = {Show(x, c)}
  OBVIOUS
<1> QED BY <1>1, TheOnly

Shows(g, s, chars, n) ==
  /\ g \in [0 .. n -> Window]
  /\ g[0] = s
  /\ \A i \in 1 .. n : g[i] = Show(g[i - 1], chars[i])

LEMMA ShowsExists ==
  ASSUME NEW s \in Window, NEW chars, NEW n \in Nat, \A i \in 1 .. n : chars[i] \in Chr
  PROVE  \E g : Shows(g, s, chars, n)
<1> DEFINE F == [i \in 1 .. n |-> [t \in Window |-> Show(t, chars[i])]]
<1>1. F \in [1 .. n -> [Window -> Window]]
  BY ShowTyped
<1> HIDE DEF F
<1>2. \E g \in [0 .. n -> Window] : g[0] = s /\ \A i \in 1 .. n : g[i] = F[i][g[i - 1]]
  BY <1>1, Iterates
<1>3. PICK g \in [0 .. n -> Window] : g[0] = s /\ \A i \in 1 .. n : g[i] = F[i][g[i - 1]]
  BY <1>2
<1>4. ASSUME NEW i \in 1 .. n
      PROVE  g[i] = Show(g[i - 1], chars[i])
  <2>1. i - 1 \in 0 .. n
    OBVIOUS
  <2>2. g[i - 1] \in Window
    BY <1>3, <2>1
  <2> QED BY <1>3, <2>2 DEF F
<1> QED BY <1>3, <1>4 DEF Shows

\* The screens while a text is shown, one per character.
LEMMA ScreensAre ==
  ASSUME NEW s \in Window, NEW chars, NEW n \in Nat, Len(chars) = n,
         \A i \in 1 .. n : chars[i] \in Chr
  PROVE  Shows(Screens(s, chars), s, chars, n)
<1> DEFINE Step(f) == [i \in 0 .. n |->
                         IF i = 0 THEN s ELSE The({Show(t, chars[i]) : t \in {f[i - 1]}})]
           next(f) == [i \in 0 .. n |-> IF i = 0 THEN s ELSE Show(f[i - 1], chars[i])]
<1>1. \A f : Step(f) = next(f)
  BY ShowOnly
<1>2. Screens(s, chars) = CHOOSE f : f = Step(f)
  BY DEF Screens
<1> HIDE DEF Step
<1>3. \E f : f = Step(f)
  <2>1. PICK g : Shows(g, s, chars, n)
    BY ShowsExists
  <2>2. g = next(g)
    BY <2>1 DEF Shows
  <2> QED BY <1>1, <2>2
<1> DEFINE h == Screens(s, chars)
<1>4. h = next(h)
  BY <1>1, <1>2, <1>3
<1> HIDE DEF h
<1>5. h[0] = s /\ \A i \in 1 .. n : h[i] = Show(h[i - 1], chars[i])
  BY <1>4
<1>6. \A i \in 0 .. n : h[i] \in Window
  BY <1>5, ShowTyped, Throughout
<1>7. h \in [0 .. n -> Window]
  BY <1>4, <1>6
<1> QED BY <1>5, <1>7 DEF h, Shows

\* What the last characters of a text leave on the screen.
LEMMA DisplayedIs ==
  ASSUME NEW s, NEW chars
  PROVE  Displayed(s, chars) = Screens(s, chars)[Len(chars)]
<1>1. {Screens(s, sent)[Len(sent)] : sent \in {chars}} = {Screens(s, chars)[Len(chars)]}
  OBVIOUS
<1> QED BY <1>1, TheOnly DEF Displayed

LEMMA DisplayedFacts ==
  ASSUME NEW s \in Window, NEW chars \in Seq(Chr)
  PROVE  Displayed(s, chars) \in Window
<1>1. PICK n \in Nat : n = Len(chars)
  BY LenProperties
<1>2. Shows(Screens(s, chars), s, chars, n)
  BY <1>1, ElementOfSeq, ScreensAre
<1> QED BY <1>1, <1>2, DisplayedIs DEF Shows

LEMMA DisplayedNone ==
  ASSUME NEW s \in Window
  PROVE  Displayed(s, <<>>) = s
<1>1. Len(<<>>) = 0 /\ \A i \in 1 .. 0 : <<>>[i] \in Chr
  OBVIOUS
<1>2. Shows(Screens(s, <<>>), s, <<>>, 0)
  BY <1>1, ScreensAre
<1> QED BY <1>1, <1>2, DisplayedIs DEF Shows

\* The screen before the last character, and that character.
LEMMA DisplayedLast ==
  ASSUME NEW s \in Window, NEW chars \in Seq(Chr), NEW c \in Chr
  PROVE  Displayed(s, Append(chars, c)) = Show(Displayed(s, chars), c)
<1>1. PICK n \in Nat : n = Len(chars)
  BY LenProperties
<1>2. Shows(Screens(s, chars), s, chars, n)
  BY <1>1, ElementOfSeq, ScreensAre
<1> DEFINE longer == Append(chars, c)
<1>3. /\ longer \in Seq(Chr) /\ Len(longer) = n + 1 /\ longer[n + 1] = c
      /\ \A i \in 1 .. n : longer[i] = chars[i]
  BY <1>1, AppendProperties
<1> HIDE DEF longer
<1>4. Shows(Screens(s, longer), s, longer, n + 1)
  <2>1. n + 1 \in Nat /\ \A i \in 1 .. n + 1 : longer[i] \in Chr
    BY <1>3, ElementOfSeq
  <2> QED BY <1>3, <2>1, ScreensAre
<1> DEFINE Same == {i \in Nat : Screens(s, longer)[i] = Screens(s, chars)[i]}
<1>5. 0 \in Same
  BY <1>2, <1>4 DEF Shows
<1>6. ASSUME NEW i \in 1 .. n, i - 1 \in Same
      PROVE  i \in Same
  <2>1. i \in 1 .. n + 1 /\ longer[i] = chars[i]
    BY <1>3
  <2>2. Screens(s, longer)[i] = Show(Screens(s, longer)[i - 1], longer[i])
    BY <1>4, <2>1 DEF Shows
  <2>3. Screens(s, chars)[i] = Show(Screens(s, chars)[i - 1], chars[i])
    BY <1>2 DEF Shows
  <2> QED BY <1>6, <2>1, <2>2, <2>3
<1> HIDE DEF Same
<1>7. n \in Same
  <2>1. \A i \in 0 .. n : i \in Same
    BY <1>5, <1>6, UpTo
  <2> QED BY <2>1
<1>8. Screens(s, longer)[n + 1] = Show(Screens(s, longer)[n], c)
  <2>1. n + 1 \in 1 .. n + 1 /\ (n + 1) - 1 = n
    OBVIOUS
  <2> QED BY <1>3, <1>4, <2>1 DEF Shows
<1> QED BY <1>1, <1>3, <1>7, <1>8, DisplayedIs DEF Same, longer

\* Showing one text after another.
LEMMA DisplayedConcat ==
  ASSUME NEW s \in Window, NEW a \in Seq(Chr), NEW b \in Seq(Chr)
  PROVE  Displayed(s, a \o b) = Displayed(Displayed(s, a), b)
<1> DEFINE Q == {x \in Seq(Chr) : Displayed(s, a \o x) = Displayed(Displayed(s, a), x)}
<1>1. Displayed(s, a) \in Window
  BY DisplayedFacts
<1>2. <<>> \in Q
  <2>1. a \o <<>> = a /\ <<>> \in Seq(Chr)
    BY ConcatEmptySeq, EmptySeq
  <2> QED BY <1>1, <2>1, DisplayedNone
<1>3. ASSUME NEW x \in Seq(Chr), NEW c \in Chr, x \in Q
      PROVE  Append(x, c) \in Q
  <2>1. a \o Append(x, c) = Append(a \o x, c)
    BY AppendOfConcat
  <2>2. a \o x \in Seq(Chr)
    BY ConcatProperties
  <2>3. Displayed(s, Append(a \o x, c)) = Show(Displayed(s, a \o x), c)
    BY <2>2, DisplayedLast
  <2>4. Displayed(Displayed(s, a), Append(x, c)) = Show(Displayed(Displayed(s, a), x), c)
    BY <1>1, DisplayedLast
  <2>5. Append(x, c) \in Seq(Chr)
    BY AppendProperties
  <2> QED BY <1>3, <2>1, <2>3, <2>4, <2>5
<1> HIDE DEF Q
<1>4. b \in Q
  BY <1>2, <1>3, BySnoc
<1> QED BY <1>4 DEF Q

LEMMA DisplayedOne ==
  ASSUME NEW s \in Window, NEW c \in Chr
  PROVE  Displayed(s, <<c>>) = Show(s, c)
<1>1. <<>> \in Seq(Chr) /\ Append(<<>>, c) = <<c>>
  OBVIOUS
<1>2. Displayed(s, Append(<<>>, c)) = Show(Displayed(s, <<>>), c)
  BY <1>1, DisplayedLast
<1> QED BY <1>1, <1>2, DisplayedNone

LEMMA DisplayedTwo ==
  ASSUME NEW s \in Window, NEW c \in Chr, NEW d \in Chr
  PROVE  Displayed(s, <<c, d>>) = Show(Show(s, c), d)
<1>1. <<c>> \in Seq(Chr)
  OBVIOUS
<1>2. Append(<<c>>, d) = <<c, d>>
  BY Pair
<1>3. Displayed(s, Append(<<c>>, d)) = Show(Displayed(s, <<c>>), d)
  BY <1>1, DisplayedLast
<1>4. Displayed(s, <<c>>) = Show(s, c)
  BY DisplayedOne
<1> QED BY <1>2, <1>3, <1>4, Zenon

-----------------------------------------------------------------------------
(* What goes out                                                           *)

TextOf == [c \in Chr |-> IF c = "NL" THEN <<"CR", "CR", "NL">> ELSE <<c>>]
PutcOf == [c \in Chr |-> uart_putc(c)]

LEMMA ControlIsChr ==
  "NUL" \in Chr /\ "CR" \in Chr /\ "NL" \in Chr /\ "BS" \in Chr /\ "CLS" \in Chr
  /\ "BEL" \in Chr /\ "msg" \in Chr /\ ">" \in Chr
BY DEF Chr

LEMMA TextOfType == TextOf \in [Chr -> Seq(Chr)]
BY ControlIsChr DEF TextOf

LEMMA PutcOfType == PutcOf \in [Chr -> Seq(Chr)]
BY ControlIsChr DEF PutcOf, uart_putc

LEMMA TextIs ==
  ASSUME NEW s \in Seq(Chr)
  PROVE  Text(s) = Spread(s, TextOf)
<1>1. \A i \in DOMAIN s : s[i] \in Chr
  BY ElementOfSeq, LenProperties
<1>2. [i \in DOMAIN s |-> IF s[i] = "NL" THEN <<"CR", "CR", "NL">> ELSE <<s[i]>>]
        = [i \in DOMAIN s |-> TextOf[s[i]]]
  BY <1>1 DEF TextOf
<1> QED BY <1>2 DEF Text, Spread

LEMMA TextFacts ==
  ASSUME NEW s \in Seq(Chr)
  PROVE  Text(s) \in Seq(Chr)
BY TextIs, TextOfType, SpreadFacts

LEMMA TextConcat ==
  ASSUME NEW a \in Seq(Chr), NEW b \in Seq(Chr)
  PROVE  Text(a \o b) = Text(a) \o Text(b)
<1>1. a \o b \in Seq(Chr)
  BY ConcatProperties
<1>2. Spread(a \o b, TextOf) = Spread(a, TextOf) \o Spread(b, TextOf)
  BY TextOfType, SpreadConcat
<1> QED BY <1>1, <1>2, TextIs

LEMMA TextAppend ==
  ASSUME NEW a \in Seq(Chr), NEW c \in Chr
  PROVE  Text(Append(a, c)) = Text(a) \o TextOf[c]
<1>1. Append(a, c) \in Seq(Chr)
  BY AppendProperties
<1>2. Spread(Append(a, c), TextOf) = Spread(a, TextOf) \o TextOf[c]
  BY TextOfType, SpreadAppend
<1> QED BY <1>1, <1>2, TextIs

LEMMA TextOne ==
  ASSUME NEW c \in Chr
  PROVE  Text(<<c>>) = TextOf[c]
<1>1. <<>> \in Seq(Chr) /\ Append(<<>>, c) = <<c>>
  OBVIOUS
<1>2. Text(<<>>) = <<>>
  BY <1>1, TextIs, TextOfType, SpreadFacts
<1>3. TextOf[c] \in Seq(Chr)
  BY TextOfType
<1>4. <<>> \o TextOf[c] = TextOf[c]
  BY <1>3, ConcatEmptySeq
<1> QED BY <1>1, <1>2, <1>4, TextAppend

LEMMA ConcatShift == \A x, y, z \in Seq(Chr) : (x \o y) \o z = x \o (y \o z)
BY AssociativeIn

\* Outputs that leave the cursor on a new line.
EndsLine(x) == \E y \in Seq(Chr) : x = y \o <<"CR", "NL">>

LEMMA EndsLineType ==
  ASSUME NEW x, EndsLine(x)
  PROVE  x \in Seq(Chr)
<1>1. <<"CR", "NL">> \in Seq(Chr)
  BY ControlIsChr
<1> QED BY <1>1, ConcatProperties DEF EndsLine

LEMMA EndsLineConcat ==
  ASSUME NEW a \in Seq(Chr), NEW x, EndsLine(x)
  PROVE  EndsLine(a \o x)
<1>1. PICK y \in Seq(Chr) : x = y \o <<"CR", "NL">>
  BY DEF EndsLine
<1>2. <<"CR", "NL">> \in Seq(Chr)
  BY ControlIsChr
<1>3. a \o x = (a \o y) \o <<"CR", "NL">>
  BY <1>1, <1>2, ConcatShift
<1>4. a \o y \in Seq(Chr)
  BY ConcatProperties
<1> QED BY <1>3, <1>4 DEF EndsLine

LEMMA EndsLineBare ==
  ASSUME NEW s \in Window, NEW x, EndsLine(x)
  PROVE  Displayed(s, x) = Bare
<1>1. PICK y \in Seq(Chr) : x = y \o <<"CR", "NL">>
  BY DEF EndsLine
<1>2. <<"CR", "NL">> \in Seq(Chr)
  BY ControlIsChr
<1>3. PICK w \in Window : w = Displayed(s, y)
  BY DisplayedFacts
<1>4. Displayed(s, x) = Displayed(w, <<"CR", "NL">>)
  BY <1>1, <1>2, <1>3, DisplayedConcat
<1>5. Displayed(w, <<"CR", "NL">>) = Show(Show(w, "CR"), "NL")
  BY ControlIsChr, DisplayedTwo
<1>6. Show(w, "CR") \in Window /\ Show(w, "CR").col = 0
  BY ControlIsChr, ShowTyped, ShowControl
<1>7. Show(Show(w, "CR"), "NL") = [cells |-> [i \in 1 .. 0 |-> Blank], col |-> 0]
  BY <1>6, ShowControl
<1>8. [i \in 1 .. 0 |-> Blank] = <<>>
  OBVIOUS
<1> QED BY <1>4, <1>5, <1>7, <1>8 DEF Bare

LEMMA TextEndsLine ==
  ASSUME NEW s \in Seq(Chr)
  PROVE  EndsLine(Text(Append(s, "NL")))
<1>1. Text(Append(s, "NL")) = Text(s) \o <<"CR", "CR", "NL">>
  BY ControlIsChr, TextAppend DEF TextOf
<1>2. <<"CR", "CR", "NL">> = <<"CR">> \o <<"CR", "NL">> /\ <<"CR">> \in Seq(Chr)
  BY ControlIsChr
<1>3. EndsLine(<<"CR", "CR", "NL">>)
  BY <1>2 DEF EndsLine
<1> QED BY <1>1, <1>3, TextFacts, EndsLineConcat

LEMMA SentFacts ==
  ASSUME NEW w \in Seq(Chr)
  PROVE  /\ Sent(w) \in Seq(Chr)
         /\ Len(w) <= MaxWrite => Sent(w) = Spread(w, PutcOf)
<1>1. Len(w) \in Nat /\ MaxWrite \in Nat
  BY ShellAssumption, LenProperties
<1>2. \A i \in DOMAIN w : w[i] \in Chr
  BY ElementOfSeq, LenProperties
<1>3. [i \in DOMAIN w |-> uart_putc(w[i])] = [i \in DOMAIN w |-> PutcOf[w[i]]]
  BY <1>2 DEF PutcOf
<1>4. FlattenSeq([i \in DOMAIN w |-> uart_putc(w[i])]) = Spread(w, PutcOf)
  BY <1>3 DEF Spread
<1>5. Spread(w, PutcOf) \in Seq(Chr)
  BY PutcOfType, SpreadFacts
<1>6. <<>> \in Seq(Chr)
  BY EmptySeq
<1> QED BY <1>1, <1>4, <1>5, <1>6 DEF Sent

SentOf == [w \in Seq(Chr) |-> Sent(w)]

LEMMA SentOfType == SentOf \in [Seq(Chr) -> Seq(Chr)]
BY SentFacts DEF SentOf

LEMMA AllSentIs ==
  ASSUME NEW writes \in Seq(Seq(Chr))
  PROVE  AllSent(writes) = Spread(writes, SentOf)
<1>1. \A i \in DOMAIN writes : writes[i] \in Seq(Chr)
  BY ElementOfSeq, LenProperties
<1>2. [i \in DOMAIN writes |-> Sent(writes[i])] = [i \in DOMAIN writes |-> SentOf[writes[i]]]
  BY <1>1 DEF SentOf
<1> QED BY <1>2 DEF AllSent, Spread

LEMMA AllSentType ==
  ASSUME NEW writes \in Seq(Seq(Chr))
  PROVE  AllSent(writes) \in Seq(Chr)
<1>1. PICK X : X = Seq(Chr)
  OBVIOUS
<1>2. SentOf \in [X -> Seq(Chr)] /\ writes \in Seq(X)
  BY <1>1, SentOfType
<1>3. Spread(writes, SentOf) \in Seq(Chr)
  BY <1>2, SpreadFacts
<1> QED BY <1>3, AllSentIs

\* The staging buffer of shell_puts and what it has handed over.
Pending == [buf : Seq(Chr), writes : Seq(Seq(Chr))]

LEMMA FlushedType ==
  ASSUME NEW a \in Pending
  PROVE  Flushed(a) \in Pending
<1>1. a.buf \in Seq(Chr) /\ a.writes \in Seq(Seq(Chr))
  BY DEF Pending
<1>2. Append(a.writes, a.buf) \in Seq(Seq(Chr)) /\ <<>> \in Seq(Chr)
  BY <1>1, AppendProperties, EmptySeq
<1> QED BY <1>2 DEF Flushed, Pending

LEMMA PutsCharType ==
  ASSUME NEW a \in Pending, NEW c \in Chr
  PROVE  PutsChar(a, c) \in Pending
<1> DEFINE b == IF c = "NL" THEN [Flushed(a) EXCEPT !.writes = Append(@, <<"CR">>)] ELSE a
           full == [b EXCEPT !.buf = Append(@, c)]
<1>1. b \in Pending
  <2>1. Flushed(a) \in Pending /\ <<"CR">> \in Seq(Chr)
    BY FlushedType, ControlIsChr
  <2>2. Append(Flushed(a).writes, <<"CR">>) \in Seq(Seq(Chr))
    BY <2>1, AppendProperties DEF Pending
  <2> QED BY <2>1, <2>2 DEF Pending
<1>2. full \in Pending
  <2> HIDE DEF b
  <2>1. Append(b.buf, c) \in Seq(Chr)
    BY <1>1, AppendProperties DEF Pending
  <2> QED BY <1>1, <2>1 DEF Pending
<1>3. PutsChar(a, c) = IF Len(full.buf) >= PutsSize THEN Flushed(full) ELSE full
  BY DEF PutsChar
<1> HIDE DEF full
<1> QED BY <1>2, <1>3, FlushedType

LEMMA PutsOnly ==
  ASSUME NEW x, NEW c
  PROVE  The({PutsChar(a, c) : a \in {x}}) = PutsChar(x, c)
<1>1. {PutsChar(a, c) : a \in {x}} = {PutsChar(x, c)}
  OBVIOUS
<1> QED BY <1>1, TheOnly

Puts(g, s, n) ==
  /\ g \in [0 .. n -> Pending]
  /\ g[0] = [buf |-> <<>>, writes |-> <<>>]
  /\ \A i \in 1 .. n : g[i] = PutsChar(g[i - 1], s[i])

LEMMA PutsExists ==
  ASSUME NEW s, NEW n \in Nat, \A i \in 1 .. n : s[i] \in Chr
  PROVE  \E g : Puts(g, s, n)
<1> DEFINE F == [i \in 1 .. n |-> [a \in Pending |-> PutsChar(a, s[i])]]
           none == [buf |-> <<>>, writes |-> <<>>]
<1>1. F \in [1 .. n -> [Pending -> Pending]]
  BY PutsCharType
<1>2. PICK x \in Pending : x = none
  BY EmptySeq DEF Pending
<1> HIDE DEF F, none
<1>3. \E g \in [0 .. n -> Pending] : g[0] = x /\ \A i \in 1 .. n : g[i] = F[i][g[i - 1]]
  BY <1>1, <1>2, Iterates
<1>4. PICK g \in [0 .. n -> Pending] : g[0] = x /\ \A i \in 1 .. n : g[i] = F[i][g[i - 1]]
  BY <1>3
<1>5. ASSUME NEW i \in 1 .. n
      PROVE  g[i] = PutsChar(g[i - 1], s[i])
  <2>1. i - 1 \in 0 .. n
    OBVIOUS
  <2>2. g[i - 1] \in Pending
    BY <1>4, <2>1
  <2> QED BY <1>4, <2>2 DEF F
<1> QED BY <1>2, <1>4, <1>5 DEF Puts, none

LEMMA CollectedIs ==
  ASSUME NEW s, NEW n \in Nat, Len(s) = n, \A i \in 1 .. n : s[i] \in Chr
  PROVE  Puts(Collected(s), s, n)
<1> DEFINE none == [buf |-> <<>>, writes |-> <<>>]
           Step(f) == [i \in 0 .. n |->
                         IF i = 0 THEN none ELSE The({PutsChar(a, s[i]) : a \in {f[i - 1]}})]
           next(f) == [i \in 0 .. n |-> IF i = 0 THEN none ELSE PutsChar(f[i - 1], s[i])]
<1>1. \A f : Step(f) = next(f)
  BY PutsOnly
<1>2. Collected(s) = CHOOSE f : f = Step(f)
  BY DEF Collected
<1> HIDE DEF Step
<1>3. \E f : f = Step(f)
  <2>1. PICK g : Puts(g, s, n)
    BY PutsExists
  <2>2. g = next(g)
    BY <2>1 DEF Puts
  <2> QED BY <1>1, <2>2
<1> DEFINE h == Collected(s)
<1>4. h = next(h)
  BY <1>1, <1>2, <1>3
<1> HIDE DEF h
<1>5. h[0] = none /\ \A i \in 1 .. n : h[i] = PutsChar(h[i - 1], s[i])
  BY <1>4
<1>6. \A i \in 0 .. n : h[i] \in Pending
  <2>1. none \in Pending
    BY EmptySeq DEF Pending
  <2> HIDE DEF none
  <2> QED BY <1>5, <2>1, PutsCharType, Throughout
<1>7. h \in [0 .. n -> Pending]
  BY <1>4, <1>6
<1> QED BY <1>5, <1>7 DEF h, Puts

LEMMA PutsIs ==
  ASSUME NEW s
  PROVE  shell_puts(s) = AllSent(Flushed(Collected(s)[Len(s)]).writes)
<1>1. {AllSent(Flushed(Collected(str)[Len(str)]).writes) : str \in {s}}
        = {AllSent(Flushed(Collected(s)[Len(s)]).writes)}
  OBVIOUS
<1> QED BY <1>1, TheOnly DEF shell_puts

LEMMA PutsType ==
  ASSUME NEW s \in Seq(Chr)
  PROVE  shell_puts(s) \in Seq(Chr)
<1>1. PICK n \in Nat : n = Len(s)
  BY LenProperties
<1>2. Puts(Collected(s), s, n)
  BY <1>1, ElementOfSeq, CollectedIs
<1>3. Collected(s)[n] \in Pending
  BY <1>2 DEF Puts
<1>4. Flushed(Collected(s)[n]).writes \in Seq(Seq(Chr))
  BY <1>3, FlushedType DEF Pending
<1> QED BY <1>1, <1>4, AllSentType, PutsIs

\* Digits and columns.
LEMMA PadType ==
  ASSUME NEW n \in Int
  PROVE  pad_spaces(n) \in Seq(Chr)
<1>1. CASE n \in Nat
  BY <1>1, BlankIsChr DEF pad_spaces
<1>2. CASE n \notin Nat
  <2>1. 1 .. n = 1 .. 0
    BY <1>2
  <2> QED BY <2>1, BlankIsChr DEF pad_spaces
<1> QED BY <1>1, <1>2

LEMMA FieldType ==
  ASSUME NEW chars \in Seq(Chr), NEW len \in Nat, NEW width \in Nat, NEW left
  PROVE  Field(chars, len, width, left) \in Seq(Chr)
<1> DEFINE n == IF width > len THEN width - len ELSE 0
           pad == pad_spaces(n)
<1>1. pad \in Seq(Chr)
  <2>1. n \in Int
    OBVIOUS
  <2> HIDE DEF n
  <2> QED BY <2>1, PadType
<1>2. Field(chars, len, width, left) = IF left THEN chars \o pad ELSE pad \o chars
  BY DEF Field
<1> HIDE DEF pad
<1>3. chars \o pad \in Seq(Chr) /\ pad \o chars \in Seq(Chr)
  BY <1>1, ConcatProperties
<1> QED BY <1>2, <1>3

LEMMA FormatSType ==
  ASSUME NEW s \in Seq(Chr), NEW width \in Nat, NEW left
  PROVE  FormatS(s, width, left) \in Seq(Chr)
BY PutsType, LenProperties, FieldType DEF FormatS

\* What the rounds of uint_to_buf leave of a number.
LEMMA QuotientsAre ==
  ASSUME NEW num \in Nat
  PROVE  /\ Quotients(num) \in [0 .. MaxDigits -> Nat]
         /\ Quotients(num)[0] = num
         /\ \A k \in 1 .. MaxDigits : Quotients(num)[k] = Quotients(num)[k - 1] \div 10
<1> DEFINE Step(f) == [k \in 0 .. MaxDigits |-> IF k = 0 THEN num ELSE f[k - 1] \div 10]
           F == [k \in 1 .. MaxDigits |-> [x \in Nat |-> x \div 10]]
<1>1. \A x \in Nat : x \div 10 \in Nat
  OBVIOUS
<1>2. MaxDigits \in Nat /\ F \in [1 .. MaxDigits -> [Nat -> Nat]]
  BY <1>1 DEF MaxDigits
<1> HIDE DEF F
<1>3. \E g \in [0 .. MaxDigits -> Nat] :
         g[0] = num /\ \A k \in 1 .. MaxDigits : g[k] = F[k][g[k - 1]]
  <2>0. PICK X : X = Nat
    OBVIOUS
  <2>1. PICK m \in Nat : m = MaxDigits
    BY <1>2
  <2>2. PICK x \in X : x = num
    BY <2>0
  <2>3. F \in [1 .. m -> [X -> X]]
    BY <1>2, <2>0, <2>1
  <2>4. \E g \in [0 .. m -> X] :
           g[0] = x /\ \A k \in 1 .. m : g[k] = F[k][g[k - 1]]
    <3>1. x \in X
      BY <2>2
    <3>2. m \in Nat
      BY <2>1
    <3> QED BY <2>3, <3>1, <3>2, Iterates
  <2> QED BY <2>0, <2>1, <2>2, <2>4
<1>4. PICK g \in [0 .. MaxDigits -> Nat] :
              g[0] = num /\ \A k \in 1 .. MaxDigits : g[k] = F[k][g[k - 1]]
  BY <1>3
<1>5. \A k \in 1 .. MaxDigits : g[k - 1] \in Nat
  BY <1>4 DEF MaxDigits
<1>6. g = Step(g)
  BY <1>4, <1>5 DEF F, MaxDigits
<1>7. Quotients(num) = CHOOSE f : f = Step(f)
  BY DEF Quotients
<1> DEFINE h == Quotients(num)
<1>8. h = Step(h)
  BY <1>6, <1>7
<1> HIDE DEF h
<1>9. h[0] = num /\ \A k \in 1 .. MaxDigits : h[k] = h[k - 1] \div 10
  BY <1>8 DEF MaxDigits
<1>10. \A k \in 0 .. MaxDigits : h[k] \in Nat
  BY <1>1, <1>2, <1>9, Throughout
<1>11. h \in [0 .. MaxDigits -> Nat]
  BY <1>8, <1>10
<1> QED BY <1>9, <1>11 DEF h

\* (SMT alone: the other prover writes numbers in unary.)
LEMMA QuotientsDivide ==
  ASSUME NEW n \in Nat
  PROVE  \A k \in 0 .. 9 : Quotients(n)[k] = n \div Tens[k + 1]
<1> DEFINE q == Quotients(n)
<1>1. q[0] = n /\ \A k \in 1 .. 10 : q[k] = q[k - 1] \div 10
  BY QuotientsAre DEF MaxDigits
<1> HIDE DEF q
<1>2. q[0] = n \div 1
  BY <1>1, SMT
<1>3. q[1] = n \div 10
  <2>1. q[1] = q[0] \div 10
    BY <1>1, SMT
  <2> QED BY <1>2, <2>1, SMT
<1>4. q[2] = n \div 100
  <2>1. q[2] = q[1] \div 10
    BY <1>1, SMT
  <2> QED BY <1>3, <2>1, SMT
<1>5. q[3] = n \div 1000
  <2>1. q[3] = q[2] \div 10
    BY <1>1, SMT
  <2> QED BY <1>4, <2>1, SMT
<1>6. q[4] = n \div 10000
  <2>1. q[4] = q[3] \div 10
    BY <1>1, SMT
  <2> QED BY <1>5, <2>1, SMT
<1>7. q[5] = n \div 100000
  <2>1. q[5] = q[4] \div 10
    BY <1>1, SMT
  <2> QED BY <1>6, <2>1, SMT
<1>8. q[6] = n \div 1000000
  <2>1. q[6] = q[5] \div 10
    BY <1>1, SMT
  <2> QED BY <1>7, <2>1, SMT
<1>9. q[7] = n \div 10000000
  <2>1. q[7] = q[6] \div 10
    BY <1>1, SMT
  <2> QED BY <1>8, <2>1, SMT
<1>10. q[8] = n \div 100000000
  <2>1. q[8] = q[7] \div 10
    BY <1>1, SMT
  <2> QED BY <1>9, <2>1, SMT
<1>11. q[9] = n \div 1000000000
  <2>1. q[9] = q[8] \div 10
    BY <1>1, SMT
  <2> QED BY <1>10, <2>1, SMT
<1>12. ASSUME NEW k \in 0 .. 9
      PROVE  q[k] = n \div Tens[k + 1]
  <2>1. CASE k = 0
    BY <1>2, <2>1, SMT DEF Tens
  <2>2. CASE k = 1
    BY <1>3, <2>2, SMT DEF Tens
  <2>3. CASE k = 2
    BY <1>4, <2>3, SMT DEF Tens
  <2>4. CASE k = 3
    BY <1>5, <2>4, SMT DEF Tens
  <2>5. CASE k = 4
    BY <1>6, <2>5, SMT DEF Tens
  <2>6. CASE k = 5
    BY <1>7, <2>6, SMT DEF Tens
  <2>7. CASE k = 6
    BY <1>8, <2>7, SMT DEF Tens
  <2>8. CASE k = 7
    BY <1>9, <2>8, SMT DEF Tens
  <2>9. CASE k = 8
    BY <1>10, <2>9, SMT DEF Tens
  <2>10. CASE k = 9
    BY <1>11, <2>10, SMT DEF Tens
  <2> QED BY <2>1, <2>2, <2>3, <2>4, <2>5, <2>6, <2>7, <2>8, <2>9, <2>10, SMT
<1> QED BY <1>12, SMT DEF q

LEMMA QuotientsEnd ==
  ASSUME NEW n \in UInt
  PROVE  n \in Nat /\ Quotients(n)[10] = 0 /\ n \div Tens[10] < 10
<1>1. n \in Nat /\ n \div Tens[10] < 10
  BY SMT DEF UInt, MaxDigits
<1>2. Quotients(n)[9] = n \div Tens[10]
  BY <1>1, QuotientsDivide, SMT
<1>3. Quotients(n)[10] = Quotients(n)[9] \div 10
  <2>1. 10 \in 1 .. MaxDigits /\ 10 - 1 = 9
    BY SMT DEF MaxDigits
  <2> QED BY <1>1, <2>1, QuotientsAre, SMT
<1>4. Tens[10] = 1000000000
  BY SMT DEF Tens
<1>5. n \div Tens[10] \in Nat
  BY <1>1, <1>4, SMT
<1> QED BY <1>1, <1>2, <1>3, <1>5, SMT

LEMMA DigitIsChr == \A i \in 1 .. 10 : Digit[i] \in Chr
BY DEF Chr

\* The digits of a number, in the order of the buffer.
LEMMA DigitsFacts ==
  ASSUME NEW n \in UInt, n # 0
  PROVE  \E len \in 1 .. 10 :
           /\ Quotients(n)[len] = 0
           /\ \A j \in 0 .. len - 1 : Quotients(n)[j] # 0
           /\ uint_to_buf(n) = [i \in 1 .. len |-> Digit[(Quotients(n)[len - i] % 10) + 1]]
<1> DEFINE q == Quotients(n)
           S == {j \in DOMAIN q : q[j] = 0}
           len == Lowest(S)
           tmp == [k \in 1 .. len |-> Digit[(q[k - 1] % 10) + 1]]
<1>1. n \in Nat /\ q[10] = 0 /\ q \in [0 .. 10 -> Nat] /\ q[0] = n
  BY QuotientsEnd, QuotientsAre DEF MaxDigits
<1>2. uint_to_buf(n) = Reverse(tmp)
  BY DEF uint_to_buf
<1> HIDE DEF q
<1>3. S # {} /\ S \subseteq Nat
  BY <1>1
<1>4. len \in S /\ \A k \in S : len <= k
  BY <1>3, LowestFacts
<1> HIDE DEF len
<1>5. len \in 1 .. 10 /\ q[len] = 0
  BY <1>1, <1>4
<1>6. \A j \in 0 .. len - 1 : q[j] # 0
  BY <1>1, <1>4, <1>5
<1>7. tmp \in Seq(Chr) /\ Len(tmp) = len
  <2>1. \A k \in 1 .. len : q[k - 1] \in Nat
    BY <1>1, <1>5
  <2>2. \A k \in 1 .. len : (q[k - 1] % 10) + 1 \in 1 .. 10
    BY <2>1
  <2> QED BY <1>5, <2>2, DigitIsChr
<1>8. Reverse(tmp) = [i \in 1 .. len |-> Digit[(q[len - i] % 10) + 1]]
  <2>1. \A i \in 1 .. len : (len - i) + 1 \in 1 .. len /\ ((len - i) + 1) - 1 = len - i
    BY <1>5
  <2>2. \A i \in 1 .. len : tmp[(len - i) + 1] = Digit[(q[len - i] % 10) + 1]
    BY <1>5, <2>1
  <2> HIDE DEF tmp
  <2>3. Reverse(tmp) = [i \in 1 .. len |-> tmp[(len - i) + 1]]
    BY <1>7 DEF Reverse
  <2> QED BY <2>2, <2>3
<1> QED BY <1>2, <1>5, <1>6, <1>8 DEF q

LEMMA BufType ==
  ASSUME NEW n \in UInt
  PROVE  uint_to_buf(n) \in Seq(Chr) /\ Len(uint_to_buf(n)) \in Nat
<1>1. CASE n = 0
  <2>1. uint_to_buf(n) = <<"0">> /\ "0" \in Chr
    BY <1>1, DigitIsChr DEF uint_to_buf, Digit
  <2> QED BY <2>1
<1>2. CASE n # 0
  <2> DEFINE q == Quotients(n)
  <2>1. PICK len \in 1 .. 10 :
                uint_to_buf(n) = [i \in 1 .. len |-> Digit[(q[len - i] % 10) + 1]]
    BY <1>2, DigitsFacts
  <2>2. q \in [0 .. 10 -> Nat]
    BY QuotientsEnd, QuotientsAre DEF MaxDigits
  <2> HIDE DEF q
  <2>3. \A i \in 1 .. len : q[len - i] \in Nat
    <3>1. \A i \in 1 .. len : len - i \in 0 .. 10
      BY <2>1
    <3> QED BY <2>2, <3>1
  <2>4. \A i \in 1 .. len : Digit[(q[len - i] % 10) + 1] \in Chr
    BY <2>3, DigitIsChr
  <2>5. uint_to_buf(n) \in Seq(Chr)
    BY <2>1, <2>4
  <2> QED BY <2>5, LenProperties
<1> QED BY <1>1, <1>2

LEMMA FormatUType ==
  ASSUME NEW n \in UInt, NEW width \in Nat, NEW left
  PROVE  FormatU(n, width, left) \in Seq(Chr)
BY BufType, TextFacts, FieldType DEF FormatU

\* Reports that end with a newline, whatever comes before it.
LEMMA Endings ==
  /\ EndsLine(Text(<<"NL">>)) /\ EndsLine(Text(<<"msg", "NL">>))
  /\ EndsLine(Text(<<"NL", "msg", "NL">>)) /\ EndsLine(Text(<<"msg", "NL", "NL">>))
  /\ EndsLine(Text(<<"msg", "NL", "msg", "NL">>))
<1>1. /\ <<>> \in Seq(Chr) /\ <<"msg">> \in Seq(Chr) /\ <<"NL", "msg">> \in Seq(Chr)
      /\ <<"msg", "NL">> \in Seq(Chr) /\ <<"msg", "NL", "msg">> \in Seq(Chr)
  BY ControlIsChr
<1>2. Append(<<>>, "NL") = <<"NL">>
  OBVIOUS
<1>3. Append(<<"msg">>, "NL") = <<"msg", "NL">>
  BY Pair
<1>4. Append(<<"NL", "msg">>, "NL") = <<"NL", "msg", "NL">>
  BY Triple
<1>5. Append(<<"msg", "NL">>, "NL") = <<"msg", "NL", "NL">>
  BY Triple
<1>6. Append(<<"msg", "NL", "msg">>, "NL") = <<"msg", "NL", "msg", "NL">>
  BY Quadruple
<1> QED BY <1>1, <1>2, <1>3, <1>4, <1>5, <1>6, TextEndsLine

LEMMA Literals ==
  /\ Text(<<"msg">>) \in Seq(Chr) /\ Text(<<"NL">>) \in Seq(Chr)
  /\ Text(<<"NL", "msg">>) \in Seq(Chr) /\ Text(<<Blank>>) \in Seq(Chr)
  /\ Text(<<Blank, Blank>>) \in Seq(Chr)
<1>1. /\ <<"msg">> \in Seq(Chr) /\ <<"NL">> \in Seq(Chr) /\ <<"NL", "msg">> \in Seq(Chr)
      /\ <<Blank>> \in Seq(Chr) /\ <<Blank, Blank>> \in Seq(Chr)
  BY ControlIsChr, BlankIsChr
<1> QED BY <1>1, TextFacts

\* Lines, one after another.
LEMMA LinesEnd ==
  ASSUME NEW ss \in Seq(Seq(Chr)), \A i \in 1 .. Len(ss) : EndsLine(ss[i])
  PROVE  FlattenSeq(ss) = <<>> \/ EndsLine(FlattenSeq(ss))
<1>1. CASE ss = <<>>
  BY <1>1, FlattenEmpty
<1>2. CASE ss # <<>>
  <2>1. PICK X : X = Seq(Chr)
    OBVIOUS
  <2>2. \E r \in Seq(X), x \in X : ss = Append(r, x)
    <3>1. ss \in Seq(X)
      BY <2>1
    <3> QED BY <1>2, <3>1, SequenceEmptyOrAppend
  <2>3. PICK r \in Seq(X), x \in X : ss = Append(r, x)
    BY <2>2
  <2>4. Len(ss) = Len(r) + 1 /\ ss[Len(r) + 1] = x /\ Len(r) \in Nat
    BY <2>3, AppendProperties, LenProperties
  <2>5. EndsLine(x)
    BY <2>4
  <2>6. r \in Seq(Seq(Chr)) /\ x \in Seq(Chr)
    BY <2>1, <2>3
  <2>7. FlattenSeq(ss) = FlattenSeq(r) \o x /\ FlattenSeq(r) \in Seq(Chr)
    BY <2>3, <2>6, FlattenAppend, FlattenSeqType
  <2> QED BY <2>5, <2>7, EndsLineConcat
<1> QED BY <1>1, <1>2

\* The prompt, on a new line.
Ready == [cells |-> Prompt, col |-> 2]

LEMMA TextPrompt == Text(Prompt) = Prompt /\ Prompt \in Seq(Chr) /\ Len(Prompt) = 2
<1>1. /\ <<">">> \in Seq(Chr) /\ Blank \in Chr /\ ">" \in Chr /\ Prompt \in Seq(Chr)
      /\ Len(Prompt) = 2
  BY ControlIsChr, BlankIsChr DEF Prompt
<1>2. Append(<<">">>, Blank) = Prompt
  BY Pair DEF Prompt
<1>3. Text(<<">">>) = <<">">>
  BY <1>1, TextOne DEF TextOf
<1>4. TextOf[Blank] = <<Blank>>
  BY <1>1 DEF TextOf, Blank
<1>5. Text(Append(<<">">>, Blank)) = <<">">> \o <<Blank>>
  BY <1>1, <1>3, <1>4, TextAppend
<1>6. <<">">> \o <<Blank>> = Append(<<">">>, Blank)
  BY <1>1, AppendIsConcat
<1> QED BY <1>1, <1>2, <1>5, <1>6

LEMMA PromptShown == Displayed(Bare, Text(Prompt)) = Ready
<1>1. Displayed(Bare, <<">", Blank>>) = Show(Show(Bare, ">"), Blank)
  BY BareWindow, ControlIsChr, BlankIsChr, DisplayedTwo
<1>2. Show(Bare, ">") = [cells |-> <<">">>, col |-> 1]
  <2>1. Append(<<>>, ">") = <<">">>
    OBVIOUS
  <2>2. Bare.cells = <<>> /\ Bare.col = 0 /\ Len(<<>>) = 0
    BY DEF Bare
  <2>3. Show(Bare, ">") = [cells |-> IF Bare.col < Len(Bare.cells)
                                     THEN [Bare.cells EXCEPT ![Bare.col + 1] = ">"]
                                     ELSE Append(Bare.cells, ">"),
                           col |-> Bare.col + 1]
    BY DEF Show
  <2>4. ~ (Bare.col < Len(Bare.cells)) /\ Bare.col + 1 = 1
    BY <2>2
  <2> QED BY <2>1, <2>2, <2>3, <2>4, Zenon
<1>3. Show([cells |-> <<">">>, col |-> 1], Blank) = [cells |-> <<">", Blank>>, col |-> 2]
  <2> DEFINE w == [cells |-> <<">">>, col |-> 1]
  <2>1. w.cells = <<">">> /\ w.col = 1 /\ Len(w.cells) = 1
    OBVIOUS
  <2>2. Append(<<">">>, Blank) = <<">", Blank>>
    BY Pair
  <2>3. Blank \notin {"CR", "NL", "BS", "CLS", "BEL"}
    BY DEF Blank
  <2> HIDE DEF w
  <2>4. Show(w, Blank) = [cells |-> IF w.col < Len(w.cells)
                                    THEN [w.cells EXCEPT ![w.col + 1] = Blank]
                                    ELSE Append(w.cells, Blank),
                          col |-> w.col + 1]
    BY <2>3 DEF Show
  <2>5. ~ (w.col < Len(w.cells)) /\ w.col + 1 = 2
    BY <2>1
  <2>6. Show(w, Blank) = [cells |-> <<">", Blank>>, col |-> 2]
    BY <2>1, <2>2, <2>4, <2>5, Zenon
  <2> QED BY <2>6 DEF w
<1> QED BY <1>1, <1>2, <1>3, TextPrompt DEF Prompt, Ready

-----------------------------------------------------------------------------
(* Strings in memory                                                       *)

LEMMA StringFacts ==
  ASSUME NEW S, NEW m \in Nat, NEW d \in [0 .. m -> S \cup {"NUL"}],
         NEW i \in 0 .. m, NEW z \in i .. m, d[z] = "NUL"
  PROVE  /\ End(d, i) \in i .. z /\ d[End(d, i)] = "NUL"
         /\ \A k \in i .. End(d, i) - 1 : d[k] # "NUL"
         /\ String(d, i) \in Seq(S) /\ Len(String(d, i)) = End(d, i) - i
         /\ \A k \in 1 .. End(d, i) - i : String(d, i)[k] = d[(i + k) - 1]
<1> DEFINE K == {k \in DOMAIN d : k >= i /\ d[k] = "NUL"}
           e == End(d, i)
<1>1. K \subseteq Nat /\ z \in K /\ DOMAIN d = 0 .. m
  OBVIOUS
<1>2. e \in K /\ \A k \in K : e <= k
  BY <1>1, LowestFacts DEF End
<1> HIDE DEF e
<1>3. e \in i .. z /\ d[e] = "NUL"
  BY <1>1, <1>2
<1>4. \A k \in i .. e - 1 : d[k] # "NUL"
  BY <1>1, <1>2, <1>3
<1> DEFINE str == [k \in 1 .. e - i |-> d[i + k - 1]]
<1>5. e - i \in Nat
  BY <1>3
<1>6. \A k \in 1 .. e - i : (i + k) - 1 \in i .. e - 1 /\ i + k - 1 = (i + k) - 1
  BY <1>3
<1>7. \A k \in 1 .. e - i : d[i + k - 1] \in S
  BY <1>3, <1>4, <1>6
<1>8. str \in Seq(S) /\ Len(str) = e - i
  BY <1>5, <1>7
<1>9. \A k \in 1 .. e - i : str[k] = d[(i + k) - 1]
  BY <1>6
<1>10. String(d, i) = str
  BY DEF String, e
<1> HIDE DEF str
<1> QED BY <1>3, <1>4, <1>8, <1>9, <1>10 DEF e

\* Where a string ends, from what is in memory.
LEMMA EndIs ==
  ASSUME NEW m \in Nat, NEW d, DOMAIN d = 0 .. m,
         NEW i \in 0 .. m, NEW z \in i .. m, d[z] = "NUL",
         \A k \in i .. z - 1 : d[k] # "NUL"
  PROVE  End(d, i) = z
<1> DEFINE K == {k \in DOMAIN d : k >= i /\ d[k] = "NUL"}
<1>1. K \subseteq Nat /\ z \in K /\ \A k \in K : z <= k
  OBVIOUS
<1> HIDE DEF K
<1>2. Lowest(K) = z
  BY <1>1, LowestIs
<1> QED BY <1>2 DEF End, K

-----------------------------------------------------------------------------
(* The invariant                                                           *)

\* The types, and a line that ends where the next character goes.
DataInv ==
  /\ pc \in {"start", "key", "split", "cat", "end", "app"}
  /\ data \in [Cell -> Printable \cup {"NUL"}] /\ pos \in Cell /\ data[pos] = "NUL"
  /\ p \in Cell /\ argv \in Seq(Cell) /\ fd \in Fd
  /\ buffer \in [0 .. CatSize - 1 -> Byte \cup {"NUL"}]

\* The shell has every descriptor it opened back, except the one that cat holds.
TableInv ==
  /\ Good(fd_table) /\ Good(held)
  /\ pc \in {"key", "split", "end"} => fd_table = held
  /\ pc = "cat" => IsOpen(fd_table, fd) /\ Borrowed(held, fd_table, {fd})

\* The prompt and the line e on the screen s, the cursor behind them.
Matches(s, e) ==
  /\ s.col = Len(e) + 2 /\ Len(s.cells) >= Len(e) + 2
  /\ s.cells[1] = ">" /\ s.cells[2] = Blank
  /\ \A i \in 1 .. Len(e) : s.cells[i + 2] = e[i]
  /\ \A i \in Len(e) + 3 .. Len(s.cells) : s.cells[i] = Blank

\* A command starts and ends on an empty line of the terminal.
ScreenInv ==
  /\ screen \in Window
  /\ pc \in {"split", "end"} => screen = Bare
  /\ pc = "key" => Matches(screen, edit)

\* What has been typed is in memory, all of it at the prompt and from p on while
\* the line is split.
Typed == edit \in Seq(Printable) /\ Len(edit) = pos

KeyInv == pc = "key" => Typed /\ \A k \in 0 .. pos - 1 : data[k] = edit[k + 1]

SplitInv ==
  pc = "split" =>
    /\ Typed /\ p <= pos
    /\ \A k \in p .. pos - 1 : data[k] = edit[k + 1]
    /\ p < pos => data[p] # Blank
    /\ argv = <<>> => p < pos
    /\ \A n \in 1 .. Len(argv) : argv[n] <= pos

Inv == DataInv /\ TableInv /\ ScreenInv /\ KeyInv /\ SplitInv

-----------------------------------------------------------------------------
(* Helpers of the shell                                                    *)

LEMMA CellFacts ==
  /\ LineSize \in Nat /\ LineSize >= 2 /\ Cell = 0 .. LineSize - 1
  /\ 0 \in Cell /\ Cell \subseteq Nat /\ 0 \in Fd
  /\ CatSize \in Nat /\ CatSize >= 2 /\ MaxArgs \in Nat /\ MaxArgs >= 1
<1>1. LineSize \in Nat /\ LineSize # 0 /\ LineSize # 1
  BY ShellAssumption
<1>2. CatSize \in Nat /\ CatSize # 0 /\ CatSize # 1
  BY ShellAssumption
<1>3. MaxArgs \in Nat /\ MaxArgs # 0
  BY ShellAssumption
<1>4. 0 \in Fd
  BY FilesAssumption DEF Fd
<1> QED BY <1>1, <1>2, <1>3, <1>4 DEF Cell

\* The printable characters move no cursor and end no string.
LEMMA PrintableFacts ==
  ASSUME NEW c \in Printable
  PROVE  /\ c \in Chr
         /\ c \notin {"NUL", "CR", "NL", "BS", "CLS", "BEL", "TAB"}
<1>1. c \in Chr
  BY DEF Chr
<1>2. CASE c = Blank
  BY <1>1, <1>2 DEF Blank
<1>3. CASE c # Blank
  <2>1. c \in Letter
    BY <1>3 DEF Printable
  <2>2. Letter \cap {Blank, "NUL", "CR", "NL", "BS", "TAB", "CLS", "BEL"} = {}
    BY ShellAssumption
  <2> QED BY <1>1, <2>1, <2>2
<1> QED BY <1>2, <1>3

LEMMA PrintableSeq ==
  ASSUME NEW s \in Seq(Printable)
  PROVE  s \in Seq(Chr)
<1>1. Printable \subseteq Chr
  BY PrintableFacts
<1> QED BY <1>1, SeqMonotonic

LEMMA SkipFacts ==
  ASSUME NEW d, NEW i \in Cell, NEW z \in Cell, i <= z, d[z] = "NUL"
  PROVE  /\ SkipBlanks(d, i) \in Cell /\ SkipBlanks(d, i) \in i .. z
         /\ d[SkipBlanks(d, i)] # Blank
         /\ \A k \in i .. SkipBlanks(d, i) - 1 : d[k] = Blank
<1> DEFINE K == {k \in Cell : k >= i /\ d[k] # Blank}
           e == SkipBlanks(d, i)
<1>1. K \subseteq Nat /\ z \in K
  BY CellFacts DEF Blank
<1>2. e \in K /\ \A k \in K : e <= k
  BY <1>1, LowestFacts DEF SkipBlanks
<1> HIDE DEF e
<1>3. e \in i .. z /\ e \in Cell /\ d[e] # Blank
  BY <1>1, <1>2, CellFacts
<1>4. \A k \in i .. e - 1 : d[k] = Blank
  BY <1>2, <1>3, CellFacts
<1> QED BY <1>3, <1>4 DEF e

LEMMA WordEndFacts ==
  ASSUME NEW d, NEW i \in Cell, NEW z \in Cell, i <= z, d[z] = "NUL"
  PROVE  /\ WordEnd(d, i) \in Cell /\ WordEnd(d, i) \in i .. z
         /\ d[WordEnd(d, i)] \in {"NUL", Blank}
         /\ \A k \in i .. WordEnd(d, i) - 1 : d[k] \notin {"NUL", Blank}
<1> DEFINE K == {k \in Cell : k >= i /\ d[k] \in {"NUL", Blank}}
           e == WordEnd(d, i)
<1>1. K \subseteq Nat /\ z \in K
  BY CellFacts
<1>2. e \in K /\ \A k \in K : e <= k
  BY <1>1, LowestFacts DEF WordEnd
<1> HIDE DEF e
<1>3. e \in i .. z /\ e \in Cell /\ d[e] \in {"NUL", Blank}
  BY <1>1, <1>2, CellFacts
<1>4. \A k \in i .. e - 1 : d[k] \notin {"NUL", Blank}
  BY <1>2, <1>3, CellFacts
<1> QED BY <1>3, <1>4 DEF e

\* The echo of a character, and its rub-out.
LEMMA MatchesReady == Ready \in Window /\ Matches(Ready, <<>>)
<1>1. PICK q \in Seq(Chr) : q = Prompt /\ Len(q) = 2 /\ q[1] = ">" /\ q[2] = Blank
  BY TextPrompt DEF Prompt
<1>2. PICK r : r = Ready
  OBVIOUS
<1>3. r.cells = q /\ r.col = 2 /\ r = [cells |-> q, col |-> 2]
  BY <1>1, <1>2 DEF Ready
<1>4. r \in Window
  BY <1>1, <1>3, MakeWindow
<1>5. PICK e : e = <<>> /\ Len(e) = 0
  OBVIOUS
<1>6. r.col = Len(e) + 2 /\ Len(r.cells) >= Len(e) + 2
  <2>1. Len(e) + 2 = 2
    BY <1>5
  <2>2. Len(r.cells) = 2
    BY <1>1, <1>3
  <2>3. 2 >= 2
    OBVIOUS
  <2> QED BY <1>3, <2>1, <2>2, <2>3, Zenon
<1>7. \A i \in 1 .. Len(e) : r.cells[i + 2] = e[i]
  BY <1>5
<1>8. \A i \in Len(e) + 3 .. Len(r.cells) : r.cells[i] = Blank
  BY <1>1, <1>3, <1>5
<1>9. r.cells[1] = ">" /\ r.cells[2] = Blank
  BY <1>1, <1>3
<1>10. Matches(r, e)
  BY <1>6, <1>7, <1>8, <1>9 DEF Matches
<1> QED BY <1>2, <1>4, <1>5, <1>10

LEMMA MatchesEcho ==
  ASSUME NEW s \in Window, NEW e \in Seq(Printable), Matches(s, e), NEW c \in Printable
  PROVE  Matches(Show(s, c), Append(e, c))
<1>1. /\ s.cells \in Seq(Chr) /\ s.col \in Nat /\ Len(s.cells) \in Nat
      /\ s.col <= Len(s.cells)
  BY WindowFacts
<1>2. PICK n \in Nat : n = Len(e)
  BY LenProperties
<1>3. PICK a : a = Append(e, c)
  OBVIOUS
<1>4. Len(a) = n + 1 /\ a[n + 1] = c /\ \A i \in 1 .. n : a[i] = e[i]
  BY <1>2, <1>3, AppendProperties
<1>5. c \in Chr /\ c \notin {"CR", "NL", "BS", "CLS", "BEL"}
  BY PrintableFacts
<1>6. PICK t : t = Show(s, c)
  OBVIOUS
<1>7. /\ s.col = n + 2 /\ Len(s.cells) >= n + 2
      /\ s.cells[1] = ">" /\ s.cells[2] = Blank
      /\ \A i \in 1 .. n : s.cells[i + 2] = e[i]
      /\ \A i \in n + 3 .. Len(s.cells) : s.cells[i] = Blank
  BY <1>2 DEF Matches
<1>8. /\ t.col = n + 3
      /\ t.cells = IF s.col < Len(s.cells) THEN [s.cells EXCEPT ![s.col + 1] = c]
                   ELSE Append(s.cells, c)
  <2>1. t = [cells |-> IF s.col < Len(s.cells) THEN [s.cells EXCEPT ![s.col + 1] = c]
                       ELSE Append(s.cells, c),
             col |-> s.col + 1]
    BY <1>5, <1>6, ShowOther, Zenon
  <2>2. s.col + 1 = n + 3
    BY <1>1, <1>7
  <2> QED BY <2>1, <2>2, Zenon
<1>9. /\ Len(t.cells) \in Nat
      /\ Len(t.cells) >= n + 3 /\ t.cells[n + 3] = c
      /\ \A i \in 1 .. n + 2 : t.cells[i] = s.cells[i]
      /\ \A i \in n + 4 .. Len(t.cells) : i \in n + 3 .. Len(s.cells) /\ t.cells[i] = s.cells[i]
  <2>1. CASE s.col < Len(s.cells)
    <3>1. t.cells = [s.cells EXCEPT ![n + 3] = c] /\ n + 3 \in 1 .. Len(s.cells)
      BY <1>1, <1>7, <1>8, <2>1
    <3>2. /\ Len(t.cells) = Len(s.cells)
          /\ \A j \in 1 .. Len(s.cells) : t.cells[j] = IF j = n + 3 THEN c ELSE s.cells[j]
      BY <1>1, <1>5, <3>1, ExceptSeq
    <3> QED BY <1>1, <3>1, <3>2
  <2>2. CASE ~ (s.col < Len(s.cells))
    <3>1. t.cells = Append(s.cells, c) /\ Len(s.cells) = n + 2
      BY <1>1, <1>7, <1>8, <2>2
    <3>2. /\ Len(t.cells) = n + 3 /\ t.cells[n + 3] = c
          /\ \A j \in 1 .. n + 2 : t.cells[j] = s.cells[j]
      <4>1. /\ Len(Append(s.cells, c)) = Len(s.cells) + 1
            /\ \A j \in 1 .. Len(s.cells) : Append(s.cells, c)[j] = s.cells[j]
            /\ Append(s.cells, c)[Len(s.cells) + 1] = c
        BY <1>1, <1>5, AppendProperties
      <4> QED BY <3>1, <4>1
    <3> QED BY <3>2
  <2> QED BY <2>1, <2>2
<1>10. t.col = Len(a) + 2 /\ Len(t.cells) >= Len(a) + 2
  BY <1>4, <1>8, <1>9
<1>11. t.cells[1] = ">" /\ t.cells[2] = Blank
  BY <1>7, <1>9
<1>12. \A i \in 1 .. Len(a) : t.cells[i + 2] = a[i]
  <2> SUFFICES ASSUME NEW i \in 1 .. n + 1
               PROVE  t.cells[i + 2] = a[i]
    BY <1>4
  <2>1. CASE i = n + 1
    <3>1. i + 2 = n + 3
      BY <2>1
    <3> QED BY <1>4, <1>9, <2>1, <3>1
  <2>2. CASE i # n + 1
    <3>1. i \in 1 .. n /\ i + 2 \in 1 .. n + 2
      BY <2>2
    <3> QED BY <1>4, <1>7, <1>9, <3>1
  <2> QED BY <2>1, <2>2
<1>13. \A i \in Len(a) + 3 .. Len(t.cells) : t.cells[i] = Blank
  <2>1. Len(a) + 3 = n + 4
    BY <1>4
  <2> QED BY <1>7, <1>9, <2>1
<1> QED BY <1>3, <1>6, <1>10, <1>11, <1>12, <1>13 DEF Matches

LEMMA TextErased == Text(Erased) = <<"BS", Blank, "BS">>
<1>1. <<"BS">> \in Seq(Chr) /\ <<"BS", Blank>> \in Seq(Chr) /\ "BS" \in Chr /\ Blank \in Chr
  BY ControlIsChr, BlankIsChr
<1>2. TextOf["BS"] = <<"BS">> /\ TextOf[Blank] = <<Blank>>
  BY <1>1 DEF TextOf, Blank
<1>3. Text(<<"BS">>) = <<"BS">>
  BY <1>1, <1>2, TextOne
<1>4. Text(Append(<<"BS">>, Blank)) = <<"BS">> \o <<Blank>>
  BY <1>1, <1>2, <1>3, TextAppend
<1>5. <<"BS">> \o <<Blank>> = Append(<<"BS">>, Blank)
  BY <1>1, AppendIsConcat
<1>6. Append(<<"BS">>, Blank) = <<"BS", Blank>>
  BY Pair
<1>7. Text(<<"BS", Blank>>) = <<"BS", Blank>>
  BY <1>4, <1>5, <1>6
<1>8. Text(Append(<<"BS", Blank>>, "BS")) = <<"BS", Blank>> \o <<"BS">>
  BY <1>1, <1>2, <1>7, TextAppend
<1>9. <<"BS", Blank>> \o <<"BS">> = Append(<<"BS", Blank>>, "BS")
  BY <1>1, AppendIsConcat
<1>10. Append(<<"BS", Blank>>, "BS") = <<"BS", Blank, "BS">>
  BY Triple
<1> QED BY <1>8, <1>9, <1>10 DEF Erased

LEMMA DisplayedErased ==
  ASSUME NEW s \in Window
  PROVE  Displayed(s, Text(Erased)) = Show(Show(Show(s, "BS"), Blank), "BS")
<1>1. /\ <<"BS", Blank>> \in Seq(Chr) /\ "BS" \in Chr /\ Blank \in Chr
      /\ Append(<<"BS", Blank>>, "BS") = <<"BS", Blank, "BS">>
  BY ControlIsChr, BlankIsChr, Triple
<1>2. Displayed(s, Append(<<"BS", Blank>>, "BS")) = Show(Displayed(s, <<"BS", Blank>>), "BS")
  BY <1>1, DisplayedLast
<1>3. Displayed(s, <<"BS", Blank>>) = Show(Show(s, "BS"), Blank)
  BY <1>1, DisplayedTwo
<1> QED BY <1>1, <1>2, <1>3, TextErased

LEMMA FrontFacts ==
  ASSUME NEW S, NEW e \in Seq(S), NEW n \in Nat, n + 1 = Len(e)
  PROVE  /\ Front(e) \in Seq(S) /\ Len(Front(e)) = n
         /\ \A i \in 1 .. n : Front(e)[i] = e[i]
<1>1. \A i \in 1 .. n : e[i] \in S
  BY ElementOfSeq
<1>2. Len(e) - 1 = n
  OBVIOUS
<1>3. Front(e) = SubSeq(e, 1, n)
  BY <1>2 DEF Front
<1>4. /\ SubSeq(e, 1, n) \in Seq(S)
      /\ Len(SubSeq(e, 1, n)) = (IF 1 <= n THEN n - 1 + 1 ELSE 0)
      /\ \A i \in 1 .. n - 1 + 1 : SubSeq(e, 1, n)[i] = e[1 + i - 1]
  BY <1>1, SubSeqProperties, SMTT(30)
<1> QED BY <1>3, <1>4

LEMMA MatchesErase ==
  ASSUME NEW s \in Window, NEW e \in Seq(Printable), e # <<>>, Matches(s, e)
  PROVE  Matches(Displayed(s, Text(Erased)), Front(e))
<1>1. /\ s.cells \in Seq(Chr) /\ s.col \in Nat /\ Len(s.cells) \in Nat
      /\ s.col <= Len(s.cells)
  BY WindowFacts
<1>2. PICK n \in Nat : n + 1 = Len(e)
  <2>1. PICK m \in Nat : m = Len(e)
    BY LenProperties
  <2>2. m # 0
    BY <2>1, EmptySeq
  <2>3. m - 1 \in Nat /\ (m - 1) + 1 = m
    BY <2>2
  <2> QED BY <2>1, <2>3
<1>3. PICK a : a = Front(e)
  OBVIOUS
<1>4. Len(a) = n /\ \A i \in 1 .. n : a[i] = e[i]
  BY <1>2, <1>3, FrontFacts
<1>5. /\ s.col = n + 3 /\ Len(s.cells) >= n + 3
      /\ s.cells[1] = ">" /\ s.cells[2] = Blank
      /\ \A i \in 1 .. n + 1 : s.cells[i + 2] = e[i]
      /\ \A i \in n + 4 .. Len(s.cells) : s.cells[i] = Blank
  <2>1. Len(e) + 2 = n + 3 /\ Len(e) + 3 = n + 4 /\ Len(e) = n + 1
    BY <1>2
  <2> QED BY <2>1 DEF Matches
<1>6. PICK r : r = Show(s, "BS")
  OBVIOUS
<1>7. r \in Window /\ r.cells = s.cells /\ r.col = n + 2
  <2>1. r = [cells |-> s.cells, col |-> IF s.col = 0 THEN 0 ELSE s.col - 1]
    BY <1>6, ShowControl
  <2>2. (IF s.col = 0 THEN 0 ELSE s.col - 1) = n + 2
    BY <1>5
  <2>3. r \in Window
    BY <1>6, ControlIsChr, ShowTyped
  <2> QED BY <2>1, <2>2, <2>3
<1>8. PICK t : t = Show(r, Blank)
  OBVIOUS
<1>9. t \in Window /\ t.cells = [s.cells EXCEPT ![n + 3] = Blank] /\ t.col = n + 3
  <2>1. Blank \notin {"CR", "NL", "BS", "CLS", "BEL"}
    BY DEF Blank
  <2>2. t = [cells |-> IF r.col < Len(r.cells) THEN [r.cells EXCEPT ![r.col + 1] = Blank]
                       ELSE Append(r.cells, Blank),
             col |-> r.col + 1]
    BY <1>7, <1>8, <2>1, ShowOther
  <2>3. r.col < Len(r.cells) /\ r.col + 1 = n + 3
    BY <1>1, <1>5, <1>7
  <2>4. t \in Window
    BY <1>7, <1>8, BlankIsChr, ShowTyped
  <2> QED BY <1>7, <2>2, <2>3, <2>4
<1>10. PICK u : u = Show(t, "BS")
  OBVIOUS
<1>11. u.cells = t.cells /\ u.col = n + 2
  <2>1. u = [cells |-> t.cells, col |-> IF t.col = 0 THEN 0 ELSE t.col - 1]
    BY <1>9, <1>10, ShowControl
  <2>2. (IF t.col = 0 THEN 0 ELSE t.col - 1) = n + 2
    BY <1>9
  <2> QED BY <2>1, <2>2
<1>12. /\ Len(u.cells) = Len(s.cells)
       /\ \A j \in 1 .. Len(s.cells) : u.cells[j] = IF j = n + 3 THEN Blank ELSE s.cells[j]
  <2>1. n + 3 \in 1 .. Len(s.cells)
    BY <1>1, <1>5
  <2>2. /\ Len([s.cells EXCEPT ![n + 3] = Blank]) = Len(s.cells)
        /\ \A j \in 1 .. Len(s.cells) :
             [s.cells EXCEPT ![n + 3] = Blank][j] = IF j = n + 3 THEN Blank ELSE s.cells[j]
    BY <1>1, <2>1, BlankIsChr, ExceptSeq
  <2> QED BY <1>9, <1>11, <2>2
<1>13. u.col = Len(a) + 2 /\ Len(u.cells) >= Len(a) + 2
  BY <1>1, <1>4, <1>5, <1>11, <1>12
<1>14. u.cells[1] = ">" /\ u.cells[2] = Blank
  BY <1>1, <1>5, <1>12
<1>15. \A i \in 1 .. Len(a) : u.cells[i + 2] = a[i]
  <2> SUFFICES ASSUME NEW i \in 1 .. n
               PROVE  u.cells[i + 2] = a[i]
    BY <1>4
  <2>1. i + 2 \in 1 .. Len(s.cells) /\ i + 2 # n + 3 /\ i \in 1 .. n + 1
    BY <1>1, <1>5
  <2> QED BY <1>4, <1>5, <1>12, <2>1
<1>16. \A i \in Len(a) + 3 .. Len(u.cells) : u.cells[i] = Blank
  <2> SUFFICES ASSUME NEW i \in n + 3 .. Len(s.cells)
               PROVE  u.cells[i] = Blank
    <3>1. Len(a) + 3 = n + 3
      BY <1>4
    <3> QED BY <1>12, <3>1
  <2>1. i \in 1 .. Len(s.cells) /\ (i = n + 3 \/ i \in n + 4 .. Len(s.cells))
    BY <1>1
  <2> QED BY <1>5, <1>12, <2>1
<1>17. Matches(u, a)
  BY <1>13, <1>14, <1>15, <1>16 DEF Matches
<1> QED BY <1>3, <1>6, <1>8, <1>10, <1>17, DisplayedErased

\* Elementwise, and as EchoMatches says it.
LEMMA MatchesShown ==
  ASSUME NEW s \in Window, NEW e \in Seq(Printable), Matches(s, e)
  PROVE  LET shown == Prompt \o e IN
         /\ s.col = Len(shown)
         /\ SubSeq(s.cells, 1, Len(shown)) = shown
         /\ \A i \in Len(shown) + 1 .. Len(s.cells) : s.cells[i] = Blank
<1>1. /\ s.cells \in Seq(Chr) /\ s.col \in Nat /\ Len(s.cells) \in Nat
      /\ s.col <= Len(s.cells)
  BY WindowFacts
<1>2. PICK n \in Nat : n = Len(e)
  BY LenProperties
<1>3. PICK q \in Seq(Chr) : q = Prompt /\ Len(q) = 2 /\ q[1] = ">" /\ q[2] = Blank
  BY TextPrompt DEF Prompt
<1>4. PICK a : a = q \o e
  OBVIOUS
<1>5. /\ a \in Seq(Chr) /\ Len(a) = n + 2
      /\ \A i \in 1 .. n + 2 : a[i] = IF i <= 2 THEN q[i] ELSE e[i - 2]
  <2>1. e \in Seq(Chr)
    BY PrintableSeq
  <2>2. /\ q \o e \in Seq(Chr) /\ Len(q \o e) = Len(q) + Len(e)
        /\ \A i \in 1 .. Len(q) + Len(e) :
             (q \o e)[i] = IF i <= Len(q) THEN q[i] ELSE e[i - Len(q)]
    BY <1>3, <2>1, ConcatProperties
  <2>3. Len(q) + Len(e) = n + 2
    BY <1>2, <1>3
  <2> QED BY <1>3, <1>4, <2>2, <2>3
<1>6. /\ s.col = n + 2 /\ Len(s.cells) >= n + 2
      /\ s.cells[1] = ">" /\ s.cells[2] = Blank
      /\ \A i \in 1 .. n : s.cells[i + 2] = e[i]
      /\ \A i \in n + 3 .. Len(s.cells) : s.cells[i] = Blank
  BY <1>2 DEF Matches
<1>7. SubSeq(s.cells, 1, n + 2) = a
  <2>1. PICK b : b = SubSeq(s.cells, 1, n + 2)
    OBVIOUS
  <2>2. \A i \in 1 .. n + 2 : s.cells[i] \in Chr
    BY <1>1, <1>6, ElementOfSeq
  <2>3. b \in Seq(Chr) /\ Len(b) = n + 2 /\ \A i \in 1 .. n + 2 : b[i] = s.cells[i]
    <3>1. /\ SubSeq(s.cells, 1, n + 2) \in Seq(Chr)
          /\ Len(SubSeq(s.cells, 1, n + 2)) = (IF 1 <= n + 2 THEN (n + 2) - 1 + 1 ELSE 0)
          /\ \A i \in 1 .. (n + 2) - 1 + 1 : SubSeq(s.cells, 1, n + 2)[i] = s.cells[1 + i - 1]
      BY <2>2, SubSeqProperties, SMTT(30)
    <3> QED BY <2>1, <3>1
  <2>4. \A i \in 1 .. n + 2 : b[i] = a[i]
    <3> SUFFICES ASSUME NEW i \in 1 .. n + 2
                 PROVE  s.cells[i] = a[i]
      BY <2>3
    <3>1. CASE i = 1 \/ i = 2
      BY <1>3, <1>5, <1>6, <3>1
    <3>2. CASE i # 1 /\ i # 2
      <4>1. i - 2 \in 1 .. n /\ (i - 2) + 2 = i /\ ~ (i <= 2)
        BY <3>2
      <4>2. s.cells[(i - 2) + 2] = e[i - 2]
        BY <1>6, <4>1
      <4> QED BY <1>5, <4>1, <4>2
    <3> QED BY <3>1, <3>2
  <2> QED BY <1>5, <2>1, <2>3, <2>4, SeqEqual
<1>8. Len(a) + 1 = n + 3
  BY <1>5
<1> QED BY <1>3, <1>4, <1>5, <1>6, <1>7, <1>8

-----------------------------------------------------------------------------
(* The steps keep the invariant                                            *)

\* Memory that only holds terminators, and an empty line.
LEMMA ClearedLine ==
  [i \in Cell |-> "NUL"] \in [Cell -> Printable \cup {"NUL"}]
OBVIOUS

LEMMA StartKeeps == Inv /\ Start => Inv'
<1> SUFFICES ASSUME Inv, Start
             PROVE  Inv'
  OBVIOUS
<1> USE DEF line, command
<1>1. DataInv'
  BY CellFacts DEF Inv, DataInv, Start
<1>2. TableInv'
  BY DEF Inv, TableInv, Start
<1>3. screen' = Ready
  <2>1. screen \in Window
    BY DEF Inv, ScreenInv
  <2>0. <<"NL", "msg", "NL">> \in Seq(Chr)
    BY ControlIsChr
  <2>2. PICK t \in Seq(Chr) : t = <<"NL", "msg", "NL">>
    BY <2>0
  <2>3. PICK u \in Seq(Chr) : u = Text(t)
    BY TextFacts
  <2>4. Text(t \o Prompt) = u \o Text(Prompt) /\ Text(Prompt) \in Seq(Chr)
    BY <2>3, TextPrompt, TextConcat
  <2>5. Displayed(screen, u \o Text(Prompt)) = Displayed(Displayed(screen, u), Text(Prompt))
    BY <2>1, <2>4, DisplayedConcat
  <2>6. Displayed(screen, u) = Bare
    BY <2>1, <2>2, <2>3, Endings, EndsLineBare
  <2>7. screen' = Displayed(screen, Text(t \o Prompt))
    BY <2>2 DEF Start
  <2> QED BY <2>4, <2>5, <2>6, <2>7, PromptShown
<1>4. ScreenInv'
  BY <1>3, MatchesReady DEF Start, ScreenInv
<1>5. KeyInv' /\ SplitInv'
  BY EmptySeq DEF Start, KeyInv, Typed, SplitInv
<1> QED BY <1>1, <1>2, <1>4, <1>5 DEF Inv

LEMMA NextPromptKeeps == Inv /\ NextPrompt => Inv'
<1> SUFFICES ASSUME Inv, NextPrompt
             PROVE  Inv'
  OBVIOUS
<1> USE DEF line, command
<1>1. DataInv'
  BY CellFacts, EmptySeq DEF Inv, DataInv, NextPrompt, LineBufferInit
<1>2. TableInv'
  BY DEF Inv, TableInv, NextPrompt
<1>3. ScreenInv'
  BY PromptShown, MatchesReady DEF Inv, NextPrompt, ScreenInv
<1>4. KeyInv' /\ SplitInv'
  BY EmptySeq DEF NextPrompt, LineBufferInit, KeyInv, Typed, SplitInv
<1> QED BY <1>1, <1>2, <1>3, <1>4 DEF Inv

LEMMA EchoKeeps ==
  ASSUME Inv, NEW c \in Printable, Echo(c)
  PROVE  Inv'
<1> USE DEF line, command
<1>1. /\ pc = "key" /\ pos \in Cell /\ pos < LineSize - 1 /\ data[pos] = "NUL"
      /\ data \in [Cell -> Printable \cup {"NUL"}]
      /\ edit \in Seq(Printable) /\ Len(edit) = pos
      /\ \A k \in 0 .. pos - 1 : data[k] = edit[k + 1]
      /\ screen \in Window /\ Matches(screen, edit)
  BY DEF Inv, DataInv, KeyInv, Typed, ScreenInv, Echo, line_buffer_add
<1>2. pos + 1 \in Cell /\ pos \in Nat
  BY <1>1, CellFacts
<1>3. /\ data' = [data EXCEPT ![pos] = c, ![pos + 1] = "NUL"] /\ pos' = pos + 1
      /\ edit' = Append(edit, c) /\ pc' = "key"
      /\ screen' = Displayed(screen, shell_putc(c))
      /\ UNCHANGED <<p, argv, fd, buffer, fd_table, held>>
  BY DEF Echo, line_buffer_add, Typing
<1>4. /\ data' \in [Cell -> Printable \cup {"NUL"}] /\ data'[pos + 1] = "NUL"
      /\ data'[pos] = c /\ \A k \in 0 .. pos - 1 : data'[k] = data[k]
  BY <1>1, <1>2, <1>3, CellFacts
<1>5. DataInv'
  BY <1>2, <1>3, <1>4 DEF Inv, DataInv
<1>6. TableInv'
  BY <1>1, <1>3 DEF Inv, TableInv
<1>7. c \in Chr /\ shell_putc(c) = <<c>>
  BY PrintableFacts DEF shell_putc, uart_putc
<1>8. screen' = Show(screen, c)
  BY <1>1, <1>3, <1>7, DisplayedOne
<1>9. Matches(Show(screen, c), Append(edit, c)) /\ Show(screen, c) \in Window
  BY <1>1, <1>7, MatchesEcho, ShowTyped
<1>10. ScreenInv'
  BY <1>3, <1>8, <1>9 DEF ScreenInv
<1>11. /\ edit' \in Seq(Printable) /\ Len(edit') = pos + 1 /\ edit'[pos + 1] = c
       /\ \A k \in 1 .. pos : edit'[k] = edit[k]
  BY <1>1, <1>3, AppendProperties
<1>12. \A k \in 0 .. pos' - 1 : data'[k] = edit'[k + 1]
  <2>0. pos' - 1 = pos
    BY <1>2, <1>3
  <2> SUFFICES ASSUME NEW k \in 0 .. pos
               PROVE  data'[k] = edit'[k + 1]
    BY <2>0
  <2>1. CASE k = pos
    BY <1>4, <1>11, <2>1
  <2>2. CASE k # pos
    <3>1. k \in 0 .. pos - 1 /\ k + 1 \in 1 .. pos
      BY <1>2, <2>2
    <3> QED BY <1>1, <1>4, <1>11, <3>1
  <2> QED BY <2>1, <2>2
<1>13. KeyInv' /\ SplitInv'
  BY <1>3, <1>11, <1>12 DEF KeyInv, Typed, SplitInv
<1> QED BY <1>5, <1>6, <1>10, <1>13 DEF Inv

LEMMA BackspaceKeeps == Inv /\ Backspace => Inv'
<1> SUFFICES ASSUME Inv, Backspace
             PROVE  Inv'
  OBVIOUS
<1> USE DEF line, command
<1>1. /\ pc = "key" /\ pos \in Cell /\ pos > 0
      /\ data \in [Cell -> Printable \cup {"NUL"}]
      /\ edit \in Seq(Printable) /\ Len(edit) = pos
      /\ \A k \in 0 .. pos - 1 : data[k] = edit[k + 1]
      /\ screen \in Window /\ Matches(screen, edit)
  BY DEF Inv, DataInv, KeyInv, Typed, ScreenInv, Backspace, line_buffer_backspace
<1>2. pos \in Nat /\ pos - 1 \in Cell /\ pos - 1 \in Nat /\ edit # <<>>
  BY <1>1, CellFacts
<1>3. /\ data' = [data EXCEPT ![pos - 1] = "NUL"] /\ pos' = pos - 1
      /\ edit' = Front(edit) /\ pc' = "key"
      /\ screen' = Displayed(screen, Text(Erased))
      /\ UNCHANGED <<p, argv, fd, buffer, fd_table, held>>
  BY DEF Backspace, line_buffer_backspace, Typing
<1>4. /\ data' \in [Cell -> Printable \cup {"NUL"}] /\ data'[pos - 1] = "NUL"
      /\ \A k \in 0 .. pos - 2 : data'[k] = data[k]
  BY <1>1, <1>2, <1>3, CellFacts
<1>5. DataInv'
  BY <1>2, <1>3, <1>4 DEF Inv, DataInv
<1>6. TableInv'
  BY <1>1, <1>3 DEF Inv, TableInv
<1>7. Matches(Displayed(screen, Text(Erased)), Front(edit))
  BY <1>1, <1>2, MatchesErase
<1>8. Text(Erased) \in Seq(Chr)
  BY TextErased, ControlIsChr, BlankIsChr
<1>9. ScreenInv'
  BY <1>1, <1>3, <1>7, <1>8, DisplayedFacts DEF ScreenInv
<1>10. /\ edit' \in Seq(Printable) /\ Len(edit') = pos - 1
       /\ \A k \in 1 .. pos - 1 : edit'[k] = edit[k]
  <2>1. (pos - 1) + 1 = Len(edit)
    BY <1>1, <1>2
  <2> QED BY <1>1, <1>2, <1>3, <2>1, FrontFacts
<1>11. \A k \in 0 .. pos' - 1 : data'[k] = edit'[k + 1]
  <2> SUFFICES ASSUME NEW k \in 0 .. pos - 2
               PROVE  data'[k] = edit'[k + 1]
    BY <1>2, <1>3
  <2>1. k \in 0 .. pos - 1 /\ k + 1 \in 1 .. pos - 1
    BY <1>2
  <2> QED BY <1>1, <1>4, <1>10, <2>1
<1>12. KeyInv' /\ SplitInv'
  BY <1>3, <1>10, <1>11 DEF KeyInv, Typed, SplitInv
<1> QED BY <1>5, <1>6, <1>9, <1>12 DEF Inv

\* The bell moves nothing.
LEMMA BeepKeeps == Inv /\ Beep => Inv'
<1> SUFFICES ASSUME Inv, Beep
             PROVE  Inv'
  OBVIOUS
<1>1. screen \in Window /\ "BEL" \in Chr
  BY ControlIsChr DEF Inv, ScreenInv
<1>2. shell_putc("BEL") = <<"BEL">>
  BY DEF shell_putc, uart_putc
<1>3. Displayed(screen, <<"BEL">>) = screen
  BY <1>1, DisplayedOne, ShowControl
<1>4. UNCHANGED <<pc, line, command, fd_table, held, edit, screen>>
  BY <1>2, <1>3 DEF Beep, Typing
<1> QED BY <1>4 DEF Inv, DataInv, TableInv, ScreenInv, KeyInv, Typed, SplitInv, line, command

LEMMA IgnoreKeeps ==
  ASSUME Inv, NEW c, Ignore(c)
  PROVE  Inv'
<1>1. Displayed(screen, <<>>) = screen
  BY DisplayedNone DEF Inv, ScreenInv
<1>2. UNCHANGED <<pc, line, command, fd_table, held, edit, screen>>
  BY <1>1 DEF Ignore, Typing
<1> QED BY <1>2 DEF Inv, DataInv, TableInv, ScreenInv, KeyInv, Typed, SplitInv, line, command

LEMMA EnterKeeps == Inv /\ Enter => Inv'
<1> SUFFICES ASSUME Inv, Enter
             PROVE  Inv'
  OBVIOUS
<1> USE DEF line, command
<1>1. /\ pc = "key" /\ pos \in Cell /\ data[pos] = "NUL"
      /\ Typed /\ edit \in Seq(Printable) /\ Len(edit) = pos
      /\ \A k \in 0 .. pos - 1 : data[k] = edit[k + 1]
      /\ screen \in Window
  BY DEF Inv, DataInv, KeyInv, Typed, ScreenInv, Enter
<1>2. /\ p' = SkipBlanks(data, 0) /\ argv' = <<>>
      /\ pc' = (IF data[p'] = "NUL" THEN "end" ELSE "split")
      /\ screen' = Displayed(screen, shell_putc("NL"))
      /\ UNCHANGED <<data, pos, fd, buffer, fd_table, edit, held>>
  BY DEF Enter
<1>3. p' \in Cell /\ p' \in 0 .. pos /\ data[p'] # Blank
  BY <1>1, <1>2, CellFacts, SkipFacts
<1>4. pc' \in {"end", "split"}
  BY <1>2
<1>5. DataInv'
  BY <1>2, <1>3, <1>4, EmptySeq DEF Inv, DataInv
<1>6. TableInv'
  BY <1>1, <1>2, <1>4 DEF Inv, TableInv
<1>7. screen' = Bare
  <2>1. <<"CR", "NL">> = <<>> \o <<"CR", "NL">> /\ <<>> \in Seq(Chr)
    BY EmptySeq
  <2>2. EndsLine(<<"CR", "NL">>)
    BY <2>1 DEF EndsLine
  <2>3. shell_putc("NL") = <<"CR", "NL">>
    BY DEF shell_putc, uart_putc
  <2> QED BY <1>1, <1>2, <2>2, <2>3, EndsLineBare
<1>8. ScreenInv'
  BY <1>4, <1>7, BareWindow DEF ScreenInv
<1>9. KeyInv'
  BY <1>4 DEF KeyInv
<1>10. pc' = "split" => p' < pos
  BY <1>1, <1>2, <1>3, CellFacts
<1>11. Typed'
  BY <1>1, <1>2 DEF Typed
<1>12. /\ p' <= pos' /\ \A k \in p' .. pos' - 1 : data'[k] = edit'[k + 1]
       /\ data'[p'] # Blank /\ \A n \in 1 .. Len(argv') : argv'[n] <= pos'
  BY <1>1, <1>2, <1>3, CellFacts
<1>13. SplitInv'
  BY <1>2, <1>10, <1>11, <1>12 DEF SplitInv
<1> QED BY <1>5, <1>6, <1>8, <1>9, <1>13 DEF Inv

\* One word ends at e, where the memory gets a terminator; p goes to the next one.
Advances(e) ==
  /\ data[e] \in {"NUL", Blank}
  /\ \A k \in p .. e - 1 : data[k] \notin {"NUL", Blank}
  /\ argv' = Append(argv, p)
  /\ data' \in [Cell -> Printable \cup {"NUL"}] /\ data'[e] = "NUL" /\ data'[pos] = "NUL"
  /\ \A k \in Cell : k # e => data'[k] = data[k]
  /\ p' \in Cell /\ p' \in e .. pos /\ data'[p'] # Blank /\ p < e
  /\ e < pos => e < p' /\ data[e] = Blank
  /\ \A k \in e + 1 .. p' - 1 : data[k] = Blank

LEMMA WordAdvances ==
  ASSUME Inv, Word
  PROVE  \E e \in p .. pos : Advances(e)
<1>1. /\ pc = "split" /\ pos \in Cell /\ data[pos] = "NUL" /\ p \in Cell /\ p <= pos
      /\ data \in [Cell -> Printable \cup {"NUL"}] /\ data[p] # "NUL"
      /\ Typed /\ edit \in Seq(Printable) /\ Len(edit) = pos
      /\ \A k \in p .. pos - 1 : data[k] = edit[k + 1]
      /\ argv \in Seq(Cell) /\ \A n \in 1 .. Len(argv) : argv[n] <= pos
  BY DEF Inv, DataInv, SplitInv, Typed, Word, Splitting, line, command
<1>2. PICK e : e = WordEnd(data, p)
  OBVIOUS
<1>3. /\ argv' = Append(argv, p) /\ data' = [data EXCEPT ![e] = "NUL"]
      /\ p' = (IF data[e] = "NUL" THEN e ELSE SkipBlanks(data', e + 1))
      /\ UNCHANGED <<pc, pos, fd, buffer, fd_table, screen, edit, held>>
  BY <1>2 DEF Word, line, command
<1>4. e \in Cell /\ e \in p .. pos /\ data[e] \in {"NUL", Blank}
      /\ \A k \in p .. e - 1 : data[k] \notin {"NUL", Blank}
  BY <1>1, <1>2, WordEndFacts
<1>5. /\ data' \in [Cell -> Printable \cup {"NUL"}] /\ data'[e] = "NUL"
      /\ \A k \in Cell : k # e => data'[k] = data[k]
  BY <1>1, <1>3, <1>4
<1>6. data'[pos] = "NUL"
  BY <1>1, <1>5
<1>7. data[p] # Blank /\ p < e
  <2>1. p < pos
    BY <1>1, CellFacts
  <2>2. data[p] # Blank
    BY <1>1, <2>1 DEF Inv, SplitInv
  <2>3. p # e
    BY <1>1, <1>4, <2>2
  <2> QED BY <1>1, <1>4, <2>2, <2>3, CellFacts
<1>8. data[e] = "NUL" => e = pos
  <2> SUFFICES ASSUME data[e] = "NUL", e # pos
               PROVE  FALSE
    OBVIOUS
  <2>1. e \in p .. pos - 1 /\ e + 1 \in 1 .. pos
    BY <1>1, <1>4, CellFacts
  <2>2. data[e] = edit[e + 1] /\ edit[e + 1] \in Printable
    BY <1>1, <2>1, ElementOfSeq
  <2> QED BY <2>2, PrintableFacts
<1>9. /\ p' \in Cell /\ p' \in e .. pos /\ data'[p'] # Blank
      /\ e < pos => e < p' /\ data[e] = Blank
      /\ \A k \in e + 1 .. p' - 1 : data[k] = Blank
  <2>1. CASE data[e] = "NUL"
    <3>1. p' = e /\ e = pos
      BY <1>3, <1>8, <2>1
    <3>2. e \in Nat /\ data'[p'] # Blank
      BY <1>4, <1>6, <3>1, CellFacts DEF Blank
    <3>3. p' \in e .. pos /\ ~ (e < pos) /\ \A k \in e + 1 .. p' - 1 : data[k] = Blank
      BY <3>1, <3>2
    <3> QED BY <1>4, <3>1, <3>2, <3>3
  <2>2. CASE data[e] # "NUL"
    <3>1. e + 1 \in Cell /\ e + 1 <= pos
      BY <1>1, <1>4, <2>2, CellFacts
    <3>2. PICK d : d = data'
      OBVIOUS
    <3>3. p' = SkipBlanks(d, e + 1) /\ d[pos] = "NUL"
      BY <1>3, <1>6, <2>2, <3>2
    <3>4. /\ p' \in Cell /\ p' \in e + 1 .. pos /\ d[p'] # Blank
          /\ \A k \in e + 1 .. p' - 1 : d[k] = Blank
      BY <1>1, <3>1, <3>3, SkipFacts
    <3>5. \A k \in e + 1 .. p' - 1 : data[k] = Blank
      <4> SUFFICES ASSUME NEW k \in e + 1 .. p' - 1
                   PROVE  data[k] = Blank
        OBVIOUS
      <4>1. e \in Nat /\ pos \in Nat /\ p' \in Nat /\ p' <= pos /\ pos <= LineSize - 1
        BY <1>1, <1>4, <3>4, CellFacts
      <4>3. PICK q \in Nat : q = p'
        BY <4>1
      <4>4. k \in e + 1 .. q - 1 /\ LineSize \in Nat
        BY <4>3, CellFacts
      <4>6. e \in Nat /\ pos \in Nat /\ q \in Nat /\ q <= pos /\ pos <= LineSize - 1
        BY <4>1, <4>3
      <4>7. k \in Int /\ e + 1 <= k /\ k <= q - 1
        BY <4>4, <4>6
      <4>5. k \in Nat /\ k > e /\ k < q /\ q <= pos
        BY <4>6, <4>7
      <4>2. k \in 0 .. LineSize - 1 /\ k # e
        BY <4>4, <4>5, <4>6
      <4> QED BY <1>5, <3>2, <3>4, <4>2, CellFacts
    <3>6. e \in Nat /\ pos \in Nat /\ p' \in Nat /\ e < p' /\ p' <= pos
      BY <1>1, <1>4, <3>4, CellFacts
    <3>7. p' \in e .. pos
      BY <3>6
    <3> QED BY <1>4, <2>2, <3>2, <3>4, <3>5, <3>6, <3>7
  <2> QED BY <2>1, <2>2
<1> QED BY <1>3, <1>4, <1>5, <1>6, <1>7, <1>9 DEF Advances

LEMMA WordKeeps == Inv /\ Word => Inv'
<1> SUFFICES ASSUME Inv, Word
             PROVE  Inv'
  OBVIOUS
<1> USE DEF line, command
<1>1. /\ pc = "split" /\ pos \in Cell /\ data[pos] = "NUL" /\ p \in Cell /\ p <= pos
      /\ data \in [Cell -> Printable \cup {"NUL"}] /\ argv \in Seq(Cell)
      /\ Typed /\ \A n \in 1 .. Len(argv) : argv[n] <= pos
      /\ \A k \in p .. pos - 1 : data[k] = edit[k + 1]
  BY DEF Inv, DataInv, SplitInv, Word
<1>2. PICK e \in p .. pos :
        /\ Advances(e)
        /\ UNCHANGED <<pc, pos, fd, buffer, fd_table, screen, edit, held>>
  BY WordAdvances DEF Word
<1>3. DataInv'
  <2>1. argv' \in Seq(Cell)
    BY <1>1, <1>2, AppendProperties DEF Advances
  <2> QED BY <1>1, <1>2, <2>1 DEF Inv, DataInv, Advances
<1>4. TableInv' /\ ScreenInv' /\ KeyInv'
  BY <1>1, <1>2 DEF Inv, TableInv, ScreenInv, KeyInv
<1>5. SplitInv'
  <2>1. Typed' /\ p' <= pos'
    BY <1>1, <1>2, CellFacts DEF Typed, Advances
  <2>2. \A k \in p' .. pos' - 1 : data'[k] = edit'[k + 1]
    <3> SUFFICES ASSUME NEW k \in p' .. pos - 1
                 PROVE  data'[k] = edit[k + 1]
      BY <1>2
    <3>1. k \in p .. pos - 1 /\ k \in Cell /\ k # e
      BY <1>1, <1>2, CellFacts DEF Advances
    <3> QED BY <1>1, <1>2, <3>1 DEF Advances
  <2>3. argv' # <<>> /\ \A n \in 1 .. Len(argv') : argv'[n] <= pos'
    <3>1. /\ Len(argv') = Len(argv) + 1 /\ argv'[Len(argv) + 1] = p
          /\ \A n \in 1 .. Len(argv) : argv'[n] = argv[n]
          /\ argv' # <<>> /\ Len(argv) \in Nat
      BY <1>1, <1>2, AppendProperties, LenProperties DEF Advances
    <3> QED BY <1>1, <1>2, <3>1
  <2> QED BY <1>2, <2>1, <2>2, <2>3 DEF SplitInv, Advances
<1> QED BY <1>3, <1>4, <1>5 DEF Inv

-----------------------------------------------------------------------------
(* Commands                                                                *)

LEMMA ArgType ==
  ASSUME Inv, pc = "split", NEW n \in 1 .. Len(argv)
  PROVE  Arg(n) \in Seq(Printable) /\ Arg(n) \in Seq(Chr)
<1>1. /\ data \in [Cell -> Printable \cup {"NUL"}] /\ pos \in Cell /\ data[pos] = "NUL"
      /\ argv \in Seq(Cell) /\ argv[n] <= pos
  BY DEF Inv, DataInv, SplitInv
<1>2. argv[n] \in Cell
  BY <1>1, ElementOfSeq
<1>3. PICK i : i = argv[n]
  OBVIOUS
<1>4. PICK m \in Nat : m = LineSize - 1 /\ Cell = 0 .. m
  <2>1. LineSize - 1 \in Nat
    BY CellFacts
  <2> QED BY <2>1, CellFacts
<1>5. /\ data \in [0 .. m -> Printable \cup {"NUL"}] /\ i \in 0 .. m /\ pos \in i .. m
  BY <1>1, <1>2, <1>3, <1>4
<1>6. String(data, i) \in Seq(Printable)
  BY <1>1, <1>5, StringFacts
<1> QED BY <1>3, <1>6, PrintableSeq DEF Arg

\* A line that is not empty has a first argument.
LEMMA Dispatched ==
  ASSUME Inv, NEW h, Dispatch(h)
  PROVE  pc = "split" /\ Len(argv) \in Nat /\ 1 \in 1 .. Len(argv)
<1>1. pc = "split" /\ ~ Splitting /\ argv \in Seq(Cell) /\ Len(argv) \in Nat
  BY LenProperties DEF Dispatch, Inv, DataInv
<1>2. argv # <<>>
  <2> SUFFICES ASSUME argv = <<>>
               PROVE  FALSE
    OBVIOUS
  <2>1. /\ p < pos /\ Typed /\ p \in Cell /\ pos \in Cell
        /\ \A k \in p .. pos - 1 : data[k] = edit[k + 1]
    BY <1>1 DEF Inv, DataInv, SplitInv
  <2>2. p \in p .. pos - 1 /\ p + 1 \in 1 .. pos
    BY <2>1, CellFacts
  <2>3. data[p] = edit[p + 1] /\ edit[p + 1] \in Printable
    BY <2>1, <2>2, ElementOfSeq DEF Typed
  <2>4. data[p] # "NUL"
    BY <2>3, PrintableFacts
  <2>5. Len(argv) = 0
    OBVIOUS
  <2>6. Len(argv) < MaxArgs
    BY <2>5, CellFacts
  <2> QED BY <1>1, <2>4, <2>6 DEF Splitting
<1>3. Len(argv) # 0
  BY <1>1, <1>2, EmptySeq
<1> QED BY <1>1, <1>3

\* A command that leaves the terminal on an empty line.
Settled(sent) ==
  /\ screen' = Displayed(screen, sent) /\ pc' = "end"
  /\ UNCHANGED <<line, command, fd_table, edit, held>>

LEMMA SettledKeeps ==
  ASSUME Inv, pc = "split", NEW sent, Settled(sent), Displayed(Bare, sent) = Bare
  PROVE  Inv'
<1>1. pc' = "end" /\ UNCHANGED <<data, pos, p, argv, fd, buffer, fd_table, edit, held>>
  BY DEF Settled, line, command
<1>2. DataInv' /\ TableInv' /\ KeyInv' /\ SplitInv'
  BY <1>1 DEF Inv, DataInv, TableInv, KeyInv, SplitInv
<1>3. ScreenInv'
  BY <1>1, BareWindow DEF Inv, ScreenInv, Settled
<1> QED BY <1>2, <1>3 DEF Inv

LEMMA LineKeeps ==
  ASSUME Inv, pc = "split", NEW sent, Settled(sent), EndsLine(sent)
  PROVE  Inv'
<1>1. Displayed(Bare, sent) = Bare
  BY BareWindow, EndsLineBare
<1> QED BY <1>1, SettledKeeps

\* What a report has sent.
LEMMA ReportSent ==
  ASSUME NEW sent, NEW wanted, Report(sent, wanted)
  PROVE  Settled(sent)
BY DEF Report, Emit, Settled

LEMMA UnknownKeeps == Inv /\ Unknown => Inv'
<1> SUFFICES ASSUME Inv, Unknown
             PROVE  Inv'
  OBVIOUS
<1>1. pc = "split" /\ 1 \in 1 .. Len(argv)
  BY Dispatched DEF Unknown
<1>2. PICK a \in Seq(Chr) : a = Arg(1)
  BY <1>1, ArgType
<1>3. PICK sent : /\ sent = Text(<<"msg">>) \o PlainS(a) \o Text(<<"NL", "msg", "NL">>)
                  /\ Settled(sent)
  BY <1>2 DEF Unknown, Report, Emit, Settled
<1>4. PlainS(a) \in Seq(Chr)
  BY <1>2, FormatSType DEF PlainS
<1>5. PICK b \in Seq(Chr) : b = Text(<<"msg">>) \o PlainS(a)
  BY <1>4, Literals, ConcatProperties
<1>6. EndsLine(sent)
  BY <1>3, <1>5, Endings, EndsLineConcat
<1> QED BY <1>1, <1>3, <1>6, LineKeeps

LEMMA InformKeeps == Inv /\ Inform => Inv'
<1> SUFFICES ASSUME Inv, Inform
             PROVE  Inv'
  OBVIOUS
<1>1. pc = "split"
  BY Dispatched DEF Inform
<1>2. PICK sent : sent = Text(<<"NL", "msg", "NL">>) /\ Settled(sent)
  BY DEF Inform, Report, Emit, Settled
<1> QED BY <1>1, <1>2, Endings, LineKeeps

LEMMA ClearKeeps == Inv /\ cmd_clear => Inv'
<1> SUFFICES ASSUME Inv, cmd_clear
             PROVE  Inv'
  OBVIOUS
<1>1. pc = "split"
  BY Dispatched DEF cmd_clear
<1>2. PICK sent : sent = Text(<<"CLS">>) /\ Settled(sent)
  BY DEF cmd_clear, Report, Emit, Settled
<1>3. sent = <<"CLS">>
  BY <1>2, ControlIsChr, TextOne DEF TextOf
<1>4. Displayed(Bare, sent) = Bare
  BY <1>3, BareWindow, ControlIsChr, DisplayedOne, ShowControl DEF Bare
<1> QED BY <1>1, <1>2, <1>4, SettledKeeps

LEMMA EchoCommandKeeps == Inv /\ cmd_echo => Inv'
<1> SUFFICES ASSUME Inv, cmd_echo
             PROVE  Inv'
  OBVIOUS
<1>1. pc = "split" /\ Len(argv) \in Nat /\ 1 \in 1 .. Len(argv)
  BY Dispatched DEF cmd_echo
<1>2. PICK ss : ss = [i \in 1 .. Len(argv) - 1 |-> PlainS(Arg(i + 1)) \o Text(<<Blank>>)]
  OBVIOUS
<1>3. PICK sent : sent = FlattenSeq(ss) \o Text(<<"NL">>) /\ Settled(sent)
  BY <1>2 DEF cmd_echo, Report, Emit, Settled
<1>4. \A i \in 1 .. Len(argv) - 1 : PlainS(Arg(i + 1)) \o Text(<<Blank>>) \in Seq(Chr)
  <2> SUFFICES ASSUME NEW i \in 1 .. Len(argv) - 1
               PROVE  PlainS(Arg(i + 1)) \o Text(<<Blank>>) \in Seq(Chr)
    OBVIOUS
  <2>1. PICK n \in 1 .. Len(argv) : n = i + 1
    BY <1>1
  <2>2. Arg(n) \in Seq(Chr)
    BY <1>1, ArgType
  <2>3. PlainS(Arg(n)) \in Seq(Chr)
    BY <2>2, FormatSType DEF PlainS
  <2> QED BY <2>1, <2>3, Literals, ConcatProperties
<1>5. ss \in Seq(Seq(Chr))
  <2>1. Len(argv) - 1 \in Nat
    BY <1>1
  <2> QED BY <1>2, <1>4, <2>1
<1>6. EndsLine(sent)
  BY <1>3, <1>5, FlattenSeqType, Endings, EndsLineConcat
<1> QED BY <1>1, <1>3, <1>6, LineKeeps

LEMMA MemKeeps == Inv /\ cmd_mem => Inv'
<1> SUFFICES ASSUME Inv, cmd_mem
             PROVE  Inv'
  OBVIOUS
<1>1. pc = "split"
  BY Dispatched DEF cmd_mem
<1>2. PICK n, sent :
        /\ n \in Number
        /\ sent = Text(<<"NL", "msg">>) \o PlainU(n) \o Text(<<"msg", "NL", "NL">>)
        /\ Settled(sent)
  BY DEF cmd_mem, Report, Emit, Settled
<1>3. n \in UInt
  BY <1>2, ShellAssumption
<1>4. PlainU(n) \in Seq(Chr)
  BY <1>3, FormatUType DEF PlainU
<1>5. PICK b \in Seq(Chr) : b = Text(<<"NL", "msg">>) \o PlainU(n)
  BY <1>4, Literals, ConcatProperties
<1>6. EndsLine(sent)
  BY <1>2, <1>5, Endings, EndsLineConcat
<1> QED BY <1>1, <1>2, <1>6, LineKeeps

LEMMA RowType ==
  ASSUME NEW a \in Seq(Chr), NEW b \in Seq(Chr), NEW c \in Seq(Chr)
  PROVE  Row(a, b, c) \in Seq(Chr)
<1>1. Widths[2] \in Nat /\ Widths[3] \in Nat
  BY ShellAssumption
<1>2. FormatS(b, Widths[2], TRUE) \in Seq(Chr) /\ FormatS(c, Widths[3], TRUE) \in Seq(Chr)
  BY <1>1, FormatSType
<1>3. PICK x \in Seq(Chr) : x = a \o FormatS(b, Widths[2], TRUE)
  BY <1>2, ConcatProperties
<1>4. PICK y \in Seq(Chr) : y = x \o FormatS(c, Widths[3], TRUE)
  BY <1>2, ConcatProperties
<1>5. y \o Text(<<"NL">>) \in Seq(Chr)
  BY Literals, ConcatProperties
<1> QED BY <1>3, <1>4, <1>5 DEF Row

LEMMA StateNameType ==
  ASSUME NEW state
  PROVE  StateName(state) \in Chr /\ <<StateName(state)>> \in Seq(Chr)
<1>1. StateName(state) \in Chr
  <2>1. \A c \in {"READY", "RUNNING", "BLOCKED", "ZOMBIE", "UNKNOWN"} : c \in Chr
    BY DEF Chr
  <2>2. CASE state \in 0 .. 3
    <3>1. state + 1 \in 1 .. 4
      BY <2>2
    <3>2. \A i \in 1 .. 4 : <<"READY", "RUNNING", "BLOCKED", "ZOMBIE">>[i] \in
                               {"READY", "RUNNING", "BLOCKED", "ZOMBIE", "UNKNOWN"}
      OBVIOUS
    <3> QED BY <2>1, <2>2, <3>1, <3>2 DEF StateName
  <2>3. CASE state \notin 0 .. 3
    BY <2>1, <2>3 DEF StateName
  <2> QED BY <2>2, <2>3
<1> QED BY <1>1

LEMMA TaskRowType ==
  ASSUME NEW t \in [id : UInt, name : Seq(Printable), state : UInt]
  PROVE  Row(FormatU(t.id, Widths[1], TRUE), t.name, <<StateName(t.state)>>) \in Seq(Chr)
<1>1. t.id \in UInt /\ t.name \in Seq(Printable) /\ Widths[1] \in Nat
  BY ShellAssumption
<1>2. FormatU(t.id, Widths[1], TRUE) \in Seq(Chr) /\ t.name \in Seq(Chr)
  BY <1>1, FormatUType, PrintableSeq
<1>3. <<StateName(t.state)>> \in Seq(Chr)
  BY StateNameType
<1> QED BY <1>2, <1>3, RowType

LEMMA PsKeeps == Inv /\ cmd_ps => Inv'
<1> SUFFICES ASSUME Inv, cmd_ps
             PROVE  Inv'
  OBVIOUS
<1>1. pc = "split"
  BY Dispatched DEF cmd_ps
<1>2. PICK title : title = Row(FormatS(<<"msg">>, Widths[1], TRUE), <<"msg">>, <<"msg">>)
  OBVIOUS
<1>3. PICK tasks, sent, ss :
        /\ tasks \in Tasks
        /\ ss = [i \in DOMAIN tasks |->
                   Row(FormatU(tasks[i].id, Widths[1], TRUE), tasks[i].name,
                       <<StateName(tasks[i].state)>>)]
        /\ sent = Text(<<"NL">>) \o title \o title \o FlattenSeq(ss) \o Text(<<"NL">>)
        /\ Settled(sent)
  BY <1>2 DEF cmd_ps, Report, Emit, Settled
<1>4. title \in Seq(Chr)
  <2>1. <<"msg">> \in Seq(Chr) /\ Widths[1] \in Nat
    BY ControlIsChr, ShellAssumption
  <2>2. FormatS(<<"msg">>, Widths[1], TRUE) \in Seq(Chr)
    BY <2>1, FormatSType
  <2> QED BY <1>2, <2>1, <2>2, RowType
<1>5. ss \in Seq(Seq(Chr))
  <2>1. PICK R : R = [id : UInt, name : Seq(Printable), state : UInt]
    OBVIOUS
  <2>2. tasks \in Seq(R)
    BY <1>3, <2>1, ShellAssumption
  <2>3. PICK n \in Nat : n = Len(tasks) /\ DOMAIN tasks = 1 .. n
    BY <2>2, LenProperties
  <2>4. \A i \in 1 .. n : tasks[i] \in R
    BY <2>2, <2>3, ElementOfSeq
  <2>5. \A i \in 1 .. n :
          Row(FormatU(tasks[i].id, Widths[1], TRUE), tasks[i].name,
              <<StateName(tasks[i].state)>>) \in Seq(Chr)
    BY <2>1, <2>4, TaskRowType
  <2>6. \A i \in 1 .. n : ss[i] \in Seq(Chr)
    BY <1>3, <2>3, <2>5, Zenon
  <2>7. ss = [i \in 1 .. n |-> ss[i]]
    BY <1>3, <2>3, Zenon
  <2> QED BY <2>6, <2>7
<1>6. FlattenSeq(ss) \in Seq(Chr)
  BY <1>5, FlattenSeqType
<1>7. PICK b \in Seq(Chr) : b = Text(<<"NL">>) \o title
  BY <1>4, Literals, ConcatProperties
<1>8. PICK c \in Seq(Chr) : c = b \o title
  BY <1>4, ConcatProperties
<1>9. PICK d \in Seq(Chr) : d = c \o FlattenSeq(ss)
  BY <1>6, ConcatProperties
<1>10. EndsLine(sent)
  BY <1>3, <1>7, <1>8, <1>9, Endings, EndsLineConcat
<1> QED BY <1>1, <1>3, <1>10, LineKeeps

LEMMA ListingFacts ==
  \E n \in Nat : /\ n <= FileCount /\ Len(Listing(16)) = n /\ DOMAIN Listing(16) = 1 .. n
                 /\ \A i \in 1 .. n : i - 1 \in Files /\ Listing(16)[i].name = FileName[i - 1]
<1>1. PICK n \in Nat : n = EntryCount(16) /\ n <= FileCount
  BY FilesAssumption DEF EntryCount
<1>2. Listing(16) = [i \in 1 .. n |-> [name |-> FileName[i - 1], size |-> Size(i - 1)]]
  BY <1>1 DEF Listing
<1>3. Len(Listing(16)) = n /\ DOMAIN Listing(16) = 1 .. n
  BY <1>2
<1>4. \A i \in 1 .. n : i - 1 \in Files
  BY <1>1, FilesAssumption DEF Files
<1>5. \A i \in 1 .. n : Listing(16)[i].name = FileName[i - 1]
  BY <1>2
<1> QED BY <1>1, <1>3, <1>4, <1>5

LEMMA LsKeeps == Inv /\ cmd_ls => Inv'
<1> SUFFICES ASSUME Inv, cmd_ls
             PROVE  Inv'
  OBVIOUS
<1>1. pc = "split"
  BY Dispatched DEF cmd_ls
<1>2. PICK files : files = Listing(16)
  OBVIOUS
<1>3. PICK ss : ss = [i \in DOMAIN files |->
                        Text(<<Blank, Blank>>) \o PlainS(files[i].name) \o Text(<<"NL">>)]
  OBVIOUS
<1>4. PICK sent : sent \in {FlattenSeq(ss), Text(<<"msg", "NL">>)} /\ Settled(sent)
  BY <1>2, <1>3 DEF cmd_ls, Report, Emit, Settled
<1>5. CASE sent = Text(<<"msg", "NL">>)
  BY <1>1, <1>4, <1>5, Endings, LineKeeps
<1>6. CASE sent = FlattenSeq(ss)
  <2>1. PICK n \in Nat :
          /\ n <= FileCount /\ Len(files) = n /\ DOMAIN files = 1 .. n
          /\ \A i \in 1 .. n : i - 1 \in Files /\ files[i].name = FileName[i - 1]
    BY <1>2, ListingFacts
  <2>2. \A i \in 1 .. n : EndsLine(ss[i])
    <3> SUFFICES ASSUME NEW i \in 1 .. n
                 PROVE  EndsLine(ss[i])
      OBVIOUS
    <3>1. PICK a \in Seq(Chr) : a = files[i].name
      BY <2>1, ShellAssumption, PrintableSeq
    <3>2. PlainS(a) \in Seq(Chr)
      BY <3>1, FormatSType DEF PlainS
    <3>3. PICK b \in Seq(Chr) : b = Text(<<Blank, Blank>>) \o PlainS(a)
      BY <3>2, Literals, ConcatProperties
    <3>4. ss[i] = b \o Text(<<"NL">>)
      BY <1>3, <2>1, <3>1, <3>3
    <3> QED BY <3>3, <3>4, Endings, EndsLineConcat
  <2>3. \A i \in 1 .. n : ss[i] \in Seq(Chr)
    BY <2>2, EndsLineType
  <2>4. PICK m : m = ss /\ DOMAIN m = 1 .. n /\ \A i \in 1 .. n : m[i] \in Seq(Chr)
    BY <1>3, <2>1, <2>3
  <2>5. ss \in Seq(Seq(Chr)) /\ Len(ss) = n
    <3>1. ss = [i \in 1 .. n |-> ss[i]]
      BY <1>3, <2>1
    <3> QED BY <2>3, <3>1
  <2>6. sent = <<>> \/ EndsLine(sent)
    BY <1>6, <2>2, <2>5, LinesEnd
  <2>7. CASE sent = <<>>
    <3>1. Displayed(Bare, sent) = Bare
      BY <2>7, BareWindow, DisplayedNone
    <3> QED BY <1>1, <1>4, <3>1, SettledKeeps
  <2>8. CASE EndsLine(sent)
    BY <1>1, <1>4, <2>8, LineKeeps
  <2> QED BY <2>6, <2>7, <2>8
<1> QED BY <1>4, <1>5, <1>6

LEMMA UsageKeeps == Inv /\ Usage => Inv'
<1> SUFFICES ASSUME Inv, Usage
             PROVE  Inv'
  OBVIOUS
<1>1. pc = "split"
  BY Dispatched DEF Usage
<1>2. PICK sent : sent = Text(<<"msg", "NL", "msg", "NL">>) /\ Settled(sent)
  BY DEF Usage, Report, Emit, Settled
<1> QED BY <1>1, <1>2, Endings, LineKeeps

LEMMA CatOpenFailsKeeps == Inv /\ CatOpenFails => Inv'
<1> SUFFICES ASSUME Inv, CatOpenFails
             PROVE  Inv'
  OBVIOUS
<1>1. pc = "split"
  BY Dispatched DEF CatOpenFails
<1>2. PICK sent : sent = Text(<<"msg", "NL">>) /\ Settled(sent)
  BY DEF CatOpenFails, Report, Emit, Settled
<1> QED BY <1>1, <1>2, Endings, LineKeeps

LEMMA ExecFailsKeeps == Inv /\ ExecFails => Inv'
<1> SUFFICES ASSUME Inv, ExecFails
             PROVE  Inv'
  OBVIOUS
<1>1. pc = "split" /\ Len(argv) \in Nat /\ Len(argv) >= 2
  BY Dispatched DEF ExecFails
<1>2. PICK a \in Seq(Chr) : a = Arg(2)
  BY <1>1, ArgType
<1>3. PICK sent : /\ sent = Text(<<"msg">>) \o PlainS(a) \o Text(<<"NL", "msg", "NL">>)
                  /\ Settled(sent)
  BY <1>2 DEF ExecFails, Report, Emit, Settled
<1>4. PlainS(a) \in Seq(Chr)
  BY <1>2, FormatSType DEF PlainS
<1>5. PICK b \in Seq(Chr) : b = Text(<<"msg">>) \o PlainS(a)
  BY <1>4, Literals, ConcatProperties
<1>6. EndsLine(sent)
  BY <1>3, <1>5, Endings, EndsLineConcat
<1> QED BY <1>1, <1>3, <1>6, LineKeeps

\* cat: the descriptor it takes, moves and gives back.
LEMMA CatOpenKeeps == Inv /\ CatOpen => Inv'
<1> SUFFICES ASSUME Inv, CatOpen
             PROVE  Inv'
  OBVIOUS
<1>1. pc = "split"
  BY Dispatched DEF CatOpen
<1>2. /\ fd' = OpenResult(fd_table, Named2, O_RDONLY) /\ fd' >= 0
      /\ fd_table' = AfterOpen(fd_table, Named2, O_RDONLY)
      /\ pc' = "cat" /\ screen' = Displayed(screen, Text(<<"NL">>))
      /\ UNCHANGED <<data, pos, p, argv, buffer, edit, held>>
  BY DEF CatOpen, Emit, line
<1>3. PICK h : h = OpenResult(fd_table, Named2, O_RDONLY) /\ h >= 0 /\ fd' = h
  BY <1>2
<1>4. PICK f \in Files : /\ h \in Handle /\ ~ fd_table[h].in_use
                         /\ fd_table' = Opened(fd_table, h, f)
  BY <1>2, <1>3, OpenFacts
<1>5. Good(fd_table) /\ Good(held) /\ fd_table = held /\ h \in Fd
  BY <1>1, <1>4, HandlesAreFds DEF Inv, TableInv
<1>6. Good(fd_table') /\ IsOpen(fd_table', h)
  BY <1>4, <1>5, OpenedGood
<1>7. Borrowed(held, fd_table', {h})
  <2>1. \A x \in {h} : x \in Fd /\ ~ held[x].in_use
    BY <1>4, <1>5
  <2>2. \A x \in Fd \ {h} : fd_table'[x] = held[x]
    BY <1>4, <1>5 DEF Good, Sound, Opened
  <2> QED BY <1>5, <2>1, <2>2, Zenon DEF Borrowed
<1>8. TableInv'
  BY <1>2, <1>3, <1>5, <1>6, <1>7 DEF TableInv
<1>9. DataInv'
  BY <1>2, <1>3, <1>5 DEF Inv, DataInv
<1>10. screen' \in Window
  BY <1>2, Literals, DisplayedFacts DEF Inv, ScreenInv
<1>11. ScreenInv' /\ KeyInv' /\ SplitInv'
  BY <1>2, <1>10 DEF ScreenInv, KeyInv, SplitInv
<1> QED BY <1>8, <1>9, <1>11 DEF Inv

LEMMA CatReadKeeps == Inv /\ CatRead => Inv'
<1> SUFFICES ASSUME Inv, CatRead
             PROVE  Inv'
  OBVIOUS
<1>1. /\ pc = "cat" /\ Good(fd_table) /\ Good(held) /\ IsOpen(fd_table, fd)
      /\ Borrowed(held, fd_table, {fd}) /\ fd \in Fd
      /\ buffer \in [0 .. CatSize - 1 -> Byte \cup {"NUL"}] /\ screen \in Window
  BY DEF Inv, DataInv, TableInv, ScreenInv, CatRead
<1>2. PICK bytes, b :
        /\ bytes = DataOf(fd_table, fd, CatSize - 1)
        /\ b = Terminated(Filled(buffer, bytes), Len(bytes))
        /\ buffer' = b
        /\ fd_table' = Advanced(fd_table, fd, Len(bytes))
        /\ screen' = Displayed(screen, PlainS(String(b, 0)))
  BY DEF CatRead, Emit
<1>3. UNCHANGED <<pc, data, pos, p, argv, fd, edit, held>>
  BY DEF CatRead, line
<1>4. PICK m \in Nat : m = CatSize - 1
  BY CellFacts
<1>5. PICK n \in Nat :
        /\ n = Len(bytes) /\ n <= m
        /\ Good(Advanced(fd_table, fd, n)) /\ IsOpen(Advanced(fd_table, fd, n), fd)
        /\ \A x \in Fd \ {fd} : Advanced(fd_table, fd, n)[x] = fd_table[x]
  BY <1>1, <1>2, <1>4, AdvancedGood
<1>6. TableInv'
  <2>1. Borrowed(held, fd_table', {fd})
    BY <1>1, <1>2, <1>5 DEF Borrowed
  <2> QED BY <1>1, <1>2, <1>3, <1>5, <2>1 DEF TableInv
<1>7. bytes \in Seq(Byte)
  <2>1. /\ fd_table[fd].file_index \in Files
        /\ fd_table[fd].offset \in 0 .. Size(fd_table[fd].file_index)
    BY <1>1, SlotFacts DEF Good
  <2> QED BY <1>2, <1>4, <2>1, ReadFacts DEF DataOf
<1>8. b \in [0 .. m -> Byte \cup {"NUL"}] /\ b[n] = "NUL"
  <2>1. PICK g : g = Filled(buffer, bytes)
    OBVIOUS
  <2>2. \A i \in 0 .. m : i < n => bytes[i + 1] \in Byte
    BY <1>5, <1>7, ElementOfSeq
  <2>3. g = [i \in 0 .. m |-> IF i < n THEN bytes[i + 1] ELSE buffer[i]]
    BY <1>1, <1>4, <1>5, <2>1 DEF Filled
  <2>4. g \in [0 .. m -> Byte \cup {"NUL"}]
    BY <1>1, <1>4, <2>2, <2>3
  <2>5. b = [g EXCEPT ![n] = "NUL"] /\ n \in 0 .. m
    BY <1>2, <1>5, <2>1 DEF Terminated
  <2> QED BY <2>4, <2>5
<1>9. String(b, 0) \in Seq(Chr)
  <2>1. 0 \in 0 .. m /\ n \in 0 .. m
    BY <1>5
  <2>2. String(b, 0) \in Seq(Byte)
    BY <1>8, <2>1, StringFacts
  <2>3. Byte \subseteq Chr
    BY DEF Chr
  <2> QED BY <2>2, <2>3, SeqMonotonic
<1>10. PlainS(String(b, 0)) \in Seq(Chr)
  BY <1>9, FormatSType DEF PlainS
<1>11. ScreenInv'
  BY <1>1, <1>2, <1>3, <1>10, DisplayedFacts DEF ScreenInv
<1>12. DataInv'
  BY <1>2, <1>3, <1>4, <1>8 DEF Inv, DataInv
<1>13. KeyInv' /\ SplitInv'
  BY <1>1, <1>3 DEF KeyInv, SplitInv
<1> QED BY <1>6, <1>11, <1>12, <1>13 DEF Inv

LEMMA CatEndKeeps == Inv /\ CatEnd => Inv'
<1> SUFFICES ASSUME Inv, CatEnd
             PROVE  Inv'
  OBVIOUS
<1>1. /\ pc = "cat" /\ Good(fd_table) /\ Good(held) /\ screen \in Window
      /\ Borrowed(held, fd_table, {fd})
  BY DEF Inv, TableInv, ScreenInv, CatEnd
<1>2. /\ fd_table' = Closed(fd_table, fd) /\ pc' = "end"
      /\ screen' = Displayed(screen, Text(<<"NL">>))
      /\ UNCHANGED <<data, pos, p, argv, fd, buffer, edit, held>>
  BY DEF CatEnd, CatClosed, Emit, line, command
<1>3. Good(fd_table')
  BY <1>1, <1>2, ClosedGood
<1>4. fd_table' = held
  <2>1. PICK h : h = fd
    OBVIOUS
  <2>2. Borrowed(held, Closed(fd_table, h), {h} \ {h})
    BY <1>1, <2>1, GiveBack
  <2>3. {h} \ {h} = {}
    OBVIOUS
  <2>4. Good(Closed(fd_table, h)) /\ Borrowed(held, Closed(fd_table, h), {})
    BY <1>1, <2>2, <2>3, ClosedGood
  <2>5. Closed(fd_table, h) = held
    BY <2>4, AllBack
  <2> QED BY <1>2, <2>1, <2>5
<1>5. TableInv'
  BY <1>1, <1>2, <1>3, <1>4 DEF TableInv
<1>6. ScreenInv'
  BY <1>1, <1>2, Endings, EndsLineBare, BareWindow DEF ScreenInv
<1>7. DataInv' /\ KeyInv' /\ SplitInv'
  BY <1>2 DEF Inv, DataInv, KeyInv, SplitInv
<1> QED BY <1>5, <1>6, <1>7 DEF Inv

\* The application that runs in the shell's place.
LEMMA ExecRunsKeeps == Inv /\ ExecRuns => Inv'
BY DEF Inv, DataInv, TableInv, ScreenInv, KeyInv, SplitInv, ExecRuns, line, command

LEMMA AppKeeps == Inv /\ App => Inv'
<1> SUFFICES ASSUME Inv, App
             PROVE  Inv'
  OBVIOUS
<1> USE DEF line, command
<1>1. CASE AppExits
  BY <1>1 DEF Inv, DataInv, TableInv, ScreenInv, KeyInv, SplitInv, AppExits
<1>2. ASSUME NEW f \in Files, AppOpens(f)
      PROVE  Inv'
  <2>1. /\ pc = "app" /\ fd_table' = AfterOpen(fd_table, PathOf(FileName[f]), O_RDONLY)
        /\ UNCHANGED <<pc, data, pos, p, argv, fd, buffer, screen, edit, held>>
    BY <1>2 DEF AppOpens
  <2>2. Good(fd_table')
    <3>1. Good(fd_table)
      BY DEF Inv, TableInv
    <3>2. PICK path : path = PathOf(FileName[f])
      OBVIOUS
    <3>3. CASE OpenResult(fd_table, path, O_RDONLY) >= 0
      BY <2>1, <3>1, <3>2, <3>3, OpenFacts, OpenedGood
    <3>4. CASE ~ (OpenResult(fd_table, path, O_RDONLY) >= 0)
      BY <2>1, <3>1, <3>2, <3>4, OpenFailsFacts
    <3> QED BY <3>3, <3>4
  <2> QED BY <2>1, <2>2 DEF Inv, DataInv, TableInv, ScreenInv, KeyInv, SplitInv
<1>3. ASSUME NEW c \in Letter, AppPrints(c)
      PROVE  Inv'
  <2>1. /\ pc = "app" /\ screen' = Displayed(screen, Sent(<<c>>))
        /\ UNCHANGED <<pc, data, pos, p, argv, fd, buffer, fd_table, edit, held>>
    BY <1>3 DEF AppPrints
  <2>2. <<c>> \in Seq(Chr)
    BY PrintableFacts DEF Printable
  <2>3. screen' \in Window
    BY <2>1, <2>2, SentFacts, DisplayedFacts DEF Inv, ScreenInv
  <2> QED BY <2>1, <2>3 DEF Inv, DataInv, TableInv, ScreenInv, KeyInv, SplitInv
<1> QED BY <1>1, <1>2, <1>3 DEF App

-----------------------------------------------------------------------------
(* The invariant, and what follows from it                                 *)

LEMMA InitHolds == Init => Inv
<1> SUFFICES ASSUME Init
             PROVE  Inv
  OBVIOUS
<1>1. DataInv
  <2>1. buffer \in [0 .. CatSize - 1 -> Byte \cup {"NUL"}]
    BY DEF Init
  <2>2. data \in [Cell -> Printable \cup {"NUL"}] /\ data[0] = "NUL"
    BY CellFacts DEF Init
  <2> QED BY <2>1, <2>2, CellFacts, EmptySeq DEF Init, DataInv
<1>2. TableInv
  <2>1. PICK t : t = [x \in Fd |-> Unused]
    OBVIOUS
  <2>2. Unused \in FdSlot /\ ~ Unused.in_use
    BY DEF Unused, FdSlot
  <2>3. Good(t)
    BY <2>1, <2>2 DEF Good, Sound, Clean
  <2> QED BY <2>1, <2>3 DEF Init, TableInv
<1>3. ScreenInv
  BY BareWindow DEF Init, ScreenInv, Bare
<1>4. KeyInv /\ SplitInv
  BY DEF Init, KeyInv, SplitInv
<1> QED BY <1>1, <1>2, <1>3, <1>4 DEF Inv

LEMMA KeyKeeps ==
  ASSUME Inv, NEW c \in Key, PressKey(c)
  PROVE  Inv'
<1>1. CASE c \in {"CR", "NL"} /\ Enter
  BY <1>1, EnterKeeps
<1>2. CASE c = "BS" /\ Backspace
  BY <1>2, BackspaceKeeps
<1>3. CASE c \in Printable /\ Echo(c)
  BY <1>3, EchoKeeps
<1>4. CASE Beep
  BY <1>4, BeepKeeps
<1>5. CASE Ignore(c)
  BY <1>5, IgnoreKeeps
<1> QED BY <1>1, <1>2, <1>3, <1>4, <1>5 DEF PressKey

LEMMA CommandKeeps == Inv /\ execute_command => Inv'
BY WordKeeps, UnknownKeeps, InformKeeps, ClearKeeps, EchoCommandKeeps, MemKeeps, PsKeeps,
   LsKeeps, UsageKeeps, CatOpenFailsKeeps, CatOpenKeeps, CatReadKeeps, CatEndKeeps,
   ExecFailsKeeps, ExecRunsKeeps DEF execute_command

LEMMA NextKeeps == Inv /\ [Next]_vars => Inv'
<1> SUFFICES ASSUME Inv, [Next]_vars
             PROVE  Inv'
  OBVIOUS
<1>1. CASE UNCHANGED vars
  BY <1>1 DEF Inv, DataInv, TableInv, ScreenInv, KeyInv, Typed, SplitInv, vars, line, command
<1>2. CASE Start
  BY <1>2, StartKeeps
<1>3. CASE NextPrompt
  BY <1>3, NextPromptKeeps
<1>4. CASE execute_command
  BY <1>4, CommandKeeps
<1>5. CASE App
  BY <1>5, AppKeeps
<1>6. CASE \E c \in Key : PressKey(c)
  BY <1>6, KeyKeeps
<1> QED BY <1>1, <1>2, <1>3, <1>4, <1>5, <1>6 DEF Next

\* The invariant holds in every state of the shell, whatever is typed and
\* whatever the files, the commands and the applications are.
THEOREM Invariant == Spec => []Inv
<1>1. Init => Inv
  BY InitHolds
<1>2. Inv /\ [Next]_vars => Inv'
  BY NextKeeps
<1> QED BY <1>1, <1>2, PTL DEF Spec

\* Types, and a terminator inside the line buffer and at the end of the line.
THEOREM TypeTheorem == Spec => []TypeOK
<1>1. Inv => TypeOK
  <2> SUFFICES ASSUME Inv
               PROVE  TypeOK
    OBVIOUS
  <2>1. DataInv /\ Good(fd_table) /\ screen \in Window
    BY DEF Inv, TableInv, ScreenInv
  <2>2. DOMAIN fd_table = Fd
    BY <2>1 DEF Good, Sound
  <2>3. screen.col \in 0 .. Len(screen.cells)
    BY <2>1, WindowFacts
  <2>4. \A i \in DOMAIN argv : argv[i] \in Cell
    BY <2>1, ElementOfSeq, LenProperties DEF DataInv
  <2> QED BY <2>1, <2>2, <2>3, <2>4 DEF TypeOK, DataInv
<1> QED BY <1>1, Invariant, PTL

\* At every key the string in the buffer is what was typed and not erased: the
\* editor never writes past the end, and a split line leaves nothing behind.
THEOREM LineTheorem == Spec => []LineIsWhatWasTyped
<1>1. Inv => LineIsWhatWasTyped
  <2> SUFFICES ASSUME Inv, pc = "key"
               PROVE  String(data, 0) = edit /\ Len(edit) = pos
    BY DEF LineIsWhatWasTyped
  <2>1. /\ data \in [Cell -> Printable \cup {"NUL"}] /\ pos \in Cell /\ data[pos] = "NUL"
        /\ edit \in Seq(Printable) /\ Len(edit) = pos
        /\ \A k \in 0 .. pos - 1 : data[k] = edit[k + 1]
    BY DEF Inv, DataInv, KeyInv, Typed
  <2>2. PICK n \in Nat : n = pos
    BY <2>1, CellFacts
  <2>3. PICK m \in Nat : m = LineSize - 1 /\ Cell = 0 .. m
    <3>1. LineSize - 1 \in Nat
      BY CellFacts
    <3> QED BY <3>1, CellFacts
  <2>4. data \in [0 .. m -> Printable \cup {"NUL"}] /\ 0 \in 0 .. m /\ n \in 0 .. m
    BY <2>1, <2>2, <2>3
  <2>5. \A k \in 1 .. n : edit[k] \in Printable
    BY <2>1, <2>2, ElementOfSeq
  <2>6. \A k \in 0 .. n - 1 : data[k] # "NUL"
    <3> SUFFICES ASSUME NEW k \in 0 .. n - 1
                 PROVE  data[k] # "NUL"
      OBVIOUS
    <3>1. k + 1 \in 1 .. n
      OBVIOUS
    <3> QED BY <2>1, <2>2, <2>5, <3>1, PrintableFacts
  <2>7. End(data, 0) = n
    BY <2>1, <2>2, <2>4, <2>6, EndIs
  <2>8. PICK s : s = String(data, 0)
    OBVIOUS
  <2>9. s = [k \in 1 .. n |-> edit[k]]
    <3>1. s = [k \in 1 .. n - 0 |-> data[0 + k - 1]]
      BY <2>7, <2>8 DEF String
    <3>2. n - 0 = n /\ \A k \in 1 .. n : 0 + k - 1 \in 0 .. n - 1 /\ (0 + k - 1) + 1 = k
      OBVIOUS
    <3> QED BY <2>1, <2>2, <3>1, <3>2
  <2>10. s \in Seq(Printable) /\ Len(s) = n /\ \A k \in 1 .. n : s[k] = edit[k]
    BY <2>5, <2>9
  <2>11. s = edit
    BY <2>1, <2>2, <2>9, <2>10, SeqEqual
  <2> QED BY <2>1, <2>8, <2>11
<1> QED BY <1>1, Invariant, PTL

\* At every key the terminal shows the prompt at its left margin and the line,
\* and nothing that a command, an application or an erased character left.
THEOREM EchoTheorem == Spec => []EchoMatches
<1>1. Inv => EchoMatches
  BY MatchesShown DEF Inv, ScreenInv, KeyInv, Typed, EchoMatches
<1> QED BY <1>1, Invariant, PTL

\* Every command gives back its descriptors before the next prompt.
THEOREM NoFileTheorem == Spec => []PromptHoldsNoFile
<1>1. Inv => PromptHoldsNoFile
  BY DEF Inv, TableInv, PromptHoldsNoFile
<1> QED BY <1>1, Invariant, PTL

-----------------------------------------------------------------------------
(* The words of a line                                                     *)

\* How many members of a set of positions come before the next one.
Below(S, i) == {j \in S : j <= i}
Count(S, i) == Cardinality(Below(S, i))

LEMMA BelowFacts ==
  ASSUME NEW m \in Nat, NEW S, S \subseteq 1 .. m, NEW i \in Nat
  PROVE  /\ IsFiniteSet(S) /\ IsFiniteSet(Below(S, i)) /\ Below(S, i) \subseteq S
         /\ Cardinality(S) \in Nat /\ Count(S, i) \in Nat /\ Count(S, i) <= Cardinality(S)
         /\ i >= m => Count(S, i) = Cardinality(S)
<1>1. IsFiniteSet(1 .. m) /\ S \in SUBSET (1 .. m)
  BY FS_Interval
<1>2. IsFiniteSet(S)
  BY <1>1, FS_Subset
<1>3. Below(S, i) \in SUBSET S
  BY DEF Below
<1>4. IsFiniteSet(Below(S, i)) /\ Cardinality(Below(S, i)) <= Cardinality(S)
  BY <1>2, <1>3, FS_Subset
<1>5. Cardinality(S) \in Nat /\ Cardinality(Below(S, i)) \in Nat
  BY <1>2, <1>4, FS_CardinalityType
<1>6. i >= m => Below(S, i) = S
  <2>1. \A j \in S : j \in 1 .. m
    OBVIOUS
  <2>2. i >= m => \A j \in S : j <= i
    BY <2>1
  <2> QED BY <2>2 DEF Below
<1> QED BY <1>2, <1>3, <1>4, <1>5, <1>6 DEF Count

LEMMA CountNext ==
  ASSUME NEW m \in Nat, NEW S, S \subseteq 1 .. m, NEW a \in Nat, NEW b \in Nat,
         a + 1 \in S, a < b, \A j \in a + 2 .. b : j \notin S
  PROVE  Count(S, b) = Count(S, a) + 1
<1>1. Below(S, b) = Below(S, a) \cup {a + 1}
  <2>1. ASSUME NEW j \in S, j <= b PROVE j <= a \/ j = a + 1
    <3>1. j \in Nat
      OBVIOUS
    <3>2. CASE j >= a + 2
      <4>1. j \in a + 2 .. b
        BY <2>1, <3>1, <3>2
      <4> QED BY <4>1
    <3> QED BY <3>1, <3>2
  <2>2. \A j \in S : j <= a => j <= b
    OBVIOUS
  <2>3. a + 1 <= b
    OBVIOUS
  <2> QED BY <2>1, <2>2, <2>3 DEF Below
<1>2. a + 1 \notin Below(S, a)
  BY DEF Below
<1>3. IsFiniteSet(Below(S, a))
  BY BelowFacts
<1>4. Cardinality(Below(S, a) \cup {a + 1}) = Cardinality(Below(S, a)) + 1
  BY <1>2, <1>3, FS_AddElement
<1> QED BY <1>1, <1>4 DEF Count

LEMMA CountRises ==
  ASSUME NEW m \in Nat, NEW S, S \subseteq 1 .. m, NEW a \in Nat, NEW b \in Nat,
         a + 1 \in S, a < b
  PROVE  Count(S, a) < Count(S, b)
<1>1. Below(S, a) \cup {a + 1} \in SUBSET Below(S, b)
  <2>1. a + 1 <= b /\ \A j \in S : j <= a => j <= b
    OBVIOUS
  <2> QED BY <2>1 DEF Below
<1>2. a + 1 \notin Below(S, a)
  BY DEF Below
<1>3. /\ IsFiniteSet(Below(S, a)) /\ IsFiniteSet(Below(S, b))
      /\ Count(S, a) \in Nat /\ Count(S, b) \in Nat
  BY BelowFacts
<1>4. Cardinality(Below(S, a) \cup {a + 1}) = Count(S, a) + 1
  BY <1>2, <1>3, FS_AddElement DEF Count
<1>5. Cardinality(Below(S, a) \cup {a + 1}) <= Count(S, b)
  BY <1>1, <1>3, FS_Subset DEF Count
<1> QED BY <1>3, <1>4, <1>5

\* A start is known by the number of the starts before it.
LEMMA CountTells ==
  ASSUME NEW m \in Nat, NEW S, S \subseteq 1 .. m, NEW a \in Nat, NEW b \in Nat,
         a + 1 \in S, b + 1 \in S, Count(S, a) = Count(S, b)
  PROVE  a = b
<1>1. Count(S, a) \in Nat
  BY BelowFacts
<1>2. ~ (Count(S, a) < Count(S, b)) /\ ~ (Count(S, b) < Count(S, a))
  BY <1>1
<1>3. ~ (a < b)
  BY <1>2, CountRises
<1>4. ~ (b < a)
  BY <1>2, CountRises
<1> QED BY <1>3, <1>4

LEMMA StartsFacts ==
  ASSUME NEW s \in Seq(Printable), NEW m \in Nat, m = Len(s)
  PROVE  /\ Starts(s) \subseteq 1 .. m
         /\ \A i \in Nat : i + 1 \in Starts(s) <=>
              i < m /\ s[i + 1] # Blank /\ (i = 0 \/ s[i] = Blank)
<1>1. DOMAIN s = 1 .. m
  BY LenProperties
<1>2. \A i \in Nat : i + 1 \in 1 .. m <=> i < m
  OBVIOUS
<1>3. \A i \in Nat : (i + 1 = 1 <=> i = 0) /\ (i + 1) - 1 = i
  OBVIOUS
<1>4. \A i \in Nat : i + 1 \in Starts(s) <=>
        i < m /\ s[i + 1] # Blank /\ (i + 1 = 1 \/ s[(i + 1) - 1] = Blank)
  BY <1>1, <1>2 DEF Starts
<1> QED BY <1>1, <1>3, <1>4 DEF Starts

\* The word that starts behind a and ends with z.
IsRun(s, m, a, z) ==
  /\ s \in Seq(Printable) /\ m \in Nat /\ m = Len(s)
  /\ a \in 0 .. m - 1 /\ z \in a + 1 .. m
  /\ \A k \in a + 1 .. z : s[k] # Blank
  /\ z < m => s[z + 1] = Blank

Slice(s, a, z) == [k \in 1 .. z - a |-> s[a + k]]

LEMMA RunIs ==
  ASSUME NEW s, NEW m, NEW a, NEW z, IsRun(s, m, a, z)
  PROVE  RunAt(s, a + 1) = Slice(s, a, z)
<1> USE DEF IsRun, Slice
<1> DEFINE rest == {k \in DOMAIN s : k > a + 1 /\ s[k] = Blank}
<1>1. DOMAIN s = 1 .. m
  BY LenProperties
<1>2. \A k \in rest : k \in Nat /\ k >= z + 1
  <2> SUFFICES ASSUME NEW k \in rest
               PROVE  k \in Nat /\ k >= z + 1
    OBVIOUS
  <2>1. k \in Nat /\ k > a + 1 /\ s[k] = Blank
    BY <1>1
  <2>2. ~ (k \in a + 1 .. z)
    BY <2>1
  <2> QED BY <2>1, <2>2
<1>3. (IF rest = {} THEN Len(s) ELSE Lowest(rest) - 1) = z
  <2>1. CASE z < m
    <3>1. z + 1 \in rest
      <4>1. z + 1 \in 1 .. m /\ z + 1 > a + 1
        BY <2>1
      <4> QED BY <1>1, <2>1, <4>1
    <3> HIDE DEF rest
    <3>2. rest \subseteq Nat /\ \A k \in rest : z + 1 <= k
      BY <1>2
    <3>3. Lowest(rest) = z + 1
      BY <3>1, <3>2, LowestIs
    <3> QED BY <3>1, <3>3
  <2>2. CASE ~ (z < m)
    <3>1. rest = {}
      BY <1>1, <1>2, <2>2
    <3> QED BY <2>2, <3>1
  <2> QED BY <2>1, <2>2
<1>4. RunAt(s, a + 1) = SubSeq(s, a + 1, z)
  <2> HIDE DEF rest
  <2>1. RunAt(s, a + 1) = SubSeq(s, a + 1, IF rest = {} THEN Len(s) ELSE Lowest(rest) - 1)
    BY DEF RunAt, rest
  <2> QED BY <1>3, <2>1
<1>5. PICK r : r = SubSeq(s, a + 1, z)
  OBVIOUS
<1>6. r \in Seq(Printable) /\ Len(r) = z - a /\ \A k \in 1 .. z - a : r[k] = s[a + k]
  <2>1. \A k \in a + 1 .. z : s[k] \in Printable
    BY ElementOfSeq
  <2>2. /\ SubSeq(s, a + 1, z) \in Seq(Printable)
        /\ Len(SubSeq(s, a + 1, z)) = (IF a + 1 <= z THEN z - (a + 1) + 1 ELSE 0)
        /\ \A k \in 1 .. z - (a + 1) + 1 : SubSeq(s, a + 1, z)[k] = s[(a + 1) + k - 1]
    BY <2>1, SubSeqProperties, SMTT(30)
  <2>3. z - (a + 1) + 1 = z - a /\ \A k \in Int : (a + 1) + k - 1 = a + k
    OBVIOUS
  <2> QED BY <1>5, <2>2, <2>3
<1>7. r = [k \in 1 .. z - a |-> s[a + k]]
  <2>1. r = [k \in 1 .. Len(r) |-> r[k]]
    BY <1>6
  <2> QED BY <1>6, <2>1
<1> QED BY <1>4, <1>5, <1>7

\* The word that the argument at a was: it ends at z, and the memory between is
\* still what was typed.
Cut(a, z) ==
  /\ z \in a .. pos /\ data[z] = "NUL" /\ (z < pos => edit[z + 1] = Blank)
  /\ \A k \in a .. z - 1 : data[k] = edit[k + 1] /\ edit[k + 1] # Blank

\* a is where the n-th word starts.
Found(n, a) == a + 1 \in Starts(edit) /\ Count(Starts(edit), a) = n - 1

\* While the line is split: every word up to p is an argument, in order.
WordsInv ==
  pc = "split" =>
    /\ Len(argv) <= MaxArgs
    /\ p < pos => p + 1 \in Starts(edit)
    /\ Count(Starts(edit), p) = Len(argv)
    /\ \A n \in 1 .. Len(argv) :
         Found(n, argv[n]) /\ \E z \in Cell : z <= p /\ Cut(argv[n], z)

LEMMA EnterWords ==
  ASSUME Inv, Enter
  PROVE  WordsInv'
<1>1. /\ pc = "key" /\ pos \in Cell /\ data[pos] = "NUL"
      /\ edit \in Seq(Printable) /\ Len(edit) = pos
      /\ \A k \in 0 .. pos - 1 : data[k] = edit[k + 1]
  BY DEF Inv, DataInv, KeyInv, Typed, Enter
<1>2. /\ p' = SkipBlanks(data, 0) /\ argv' = <<>> /\ edit' = edit /\ pos' = pos
  BY DEF Enter, line
<1>3. PICK n \in Nat : n = pos
  BY <1>1, CellFacts
<1>4. PICK q \in Nat : q = SkipBlanks(data, 0)
  BY <1>1, CellFacts, SkipFacts
<1>5. q <= n /\ data[q] # Blank /\ \A k \in 0 .. q - 1 : data[k] = Blank
  BY <1>1, <1>3, <1>4, CellFacts, SkipFacts
<1>6. PICK S : S = Starts(edit)
  OBVIOUS
<1>7. /\ S \subseteq 1 .. n
      /\ \A i \in Nat : i + 1 \in S <=>
           i < n /\ edit[i + 1] # Blank /\ (i = 0 \/ edit[i] = Blank)
  BY <1>1, <1>3, <1>6, StartsFacts
<1>8. \A k \in 0 .. q - 1 : edit[k + 1] = Blank
  BY <1>1, <1>3, <1>5
<1>9. q < n => q + 1 \in S
  <2> SUFFICES ASSUME q < n
               PROVE  q + 1 \in S
    OBVIOUS
  <2>1. edit[q + 1] # Blank
    BY <1>1, <1>3, <1>5
  <2>2. q = 0 \/ edit[q] = Blank
    <3>1. CASE q # 0
      <4>1. q - 1 \in 0 .. q - 1 /\ (q - 1) + 1 = q
        BY <3>1
      <4> QED BY <1>8, <4>1
    <3> QED BY <3>1
  <2> QED BY <1>7, <2>1, <2>2
<1>10. Count(S, q) = 0
  <2>1. Below(S, q) = {}
    <3> SUFFICES ASSUME NEW j \in S, j <= q
                 PROVE  FALSE
      BY DEF Below
    <3>1. j - 1 \in 0 .. q - 1 /\ j - 1 \in Nat /\ (j - 1) + 1 = j
      BY <1>7
    <3>2. edit[j] = Blank
      BY <1>8, <3>1
    <3>3. edit[(j - 1) + 1] # Blank
      BY <1>7, <3>1
    <3> QED BY <3>1, <3>2, <3>3
  <2> QED BY <2>1, FS_EmptySet DEF Count
<1>11. Len(argv') = 0
  BY <1>2
<1>12. Len(argv') <= MaxArgs
  BY <1>11, CellFacts
<1>13. p' < pos' => p' + 1 \in Starts(edit')
  BY <1>2, <1>3, <1>4, <1>6, <1>9
<1>14. Count(Starts(edit'), p') = Len(argv')
  BY <1>2, <1>4, <1>6, <1>10, <1>11
<1>15. \A k \in 1 .. Len(argv') : FALSE
  BY <1>11
<1> QED BY <1>12, <1>13, <1>14, <1>15 DEF WordsInv

\* What a word adds to the positions up to p.
LEMMA WordCount ==
  ASSUME Inv, WordsInv, pc = "split", NEW e \in p .. pos, Advances(e)
  PROVE  /\ p + 1 \in Starts(edit)
         /\ Count(Starts(edit), p') = Count(Starts(edit), p) + 1
         /\ p' < pos => p' + 1 \in Starts(edit)
         /\ e < pos => edit[e + 1] = Blank
         /\ \A k \in p .. e - 1 : edit[k + 1] # Blank /\ data'[k] = edit[k + 1]
<1>1. /\ pos \in Cell /\ p \in Cell /\ p <= pos
      /\ edit \in Seq(Printable) /\ Len(edit) = pos
      /\ \A k \in p .. pos - 1 : data[k] = edit[k + 1]
      /\ p < pos => p + 1 \in Starts(edit)
  BY DEF Inv, DataInv, SplitInv, Typed, WordsInv
<1>2. PICK n \in Nat : n = pos
  BY <1>1, CellFacts
<1>3. PICK a \in Nat : a = p
  BY <1>1, CellFacts
<1>4. PICK b : b = p'
  OBVIOUS
<1>5. /\ b \in Nat /\ e \in Nat /\ a < e /\ e <= b /\ b <= n
      /\ \A k \in a .. e - 1 : data[k] \notin {"NUL", Blank}
      /\ data'[b] # Blank
      /\ e < n => e < b /\ data[e] = Blank
      /\ \A k \in e + 1 .. b - 1 : data[k] = Blank
      /\ \A k \in Cell : k # e => data'[k] = data[k]
  <2>1. e \in a .. n /\ b \in Cell /\ b \in e .. n /\ a < e
    BY <1>2, <1>3, <1>4 DEF Advances
  <2>2. b \in Nat /\ e \in Nat /\ e <= b /\ b <= n
    BY <2>1
  <2>3. /\ data'[b] # Blank /\ (e < n => e < b /\ data[e] = Blank)
        /\ \A k \in e + 1 .. b - 1 : data[k] = Blank
    BY <1>2, <1>4 DEF Advances
  <2>4. /\ \A k \in Cell : k # e => data'[k] = data[k]
        /\ \A k \in a .. e - 1 : data[k] \notin {"NUL", Blank}
    BY <1>3 DEF Advances
  <2> QED BY <2>1, <2>2, <2>3, <2>4
<1>6. PICK S : S = Starts(edit)
  OBVIOUS
<1>7. /\ S \subseteq 1 .. n
      /\ \A i \in Nat : i + 1 \in S <=>
           i < n /\ edit[i + 1] # Blank /\ (i = 0 \/ edit[i] = Blank)
  BY <1>1, <1>2, <1>6, StartsFacts
<1>8. \A k \in a .. n - 1 : data[k] = edit[k + 1] /\ k \in Cell
  <2>1. n \in Cell
    BY <1>1, <1>2
  <2>2. \A k \in a .. n - 1 : k \in 0 .. LineSize - 1
    BY <2>1, CellFacts
  <2> QED BY <1>1, <1>2, <1>3, <2>2, CellFacts
<1>9. a + 1 \in S
  BY <1>1, <1>2, <1>3, <1>5, <1>6
<1>10. \A k \in a .. e - 1 : edit[k + 1] # Blank /\ data'[k] = edit[k + 1]
  <2> SUFFICES ASSUME NEW k \in a .. e - 1
               PROVE  edit[k + 1] # Blank /\ data'[k] = edit[k + 1]
    OBVIOUS
  <2>1. k \in a .. n - 1 /\ k # e
    BY <1>5
  <2> QED BY <1>5, <1>8, <2>1
<1>11. e < n => edit[e + 1] = Blank
  <2> SUFFICES ASSUME e < n
               PROVE  edit[e + 1] = Blank
    OBVIOUS
  <2>1. e \in a .. n - 1
    BY <1>5
  <2> QED BY <1>5, <1>8, <2>1
<1>12. \A k \in e + 1 .. b - 1 : edit[k + 1] = Blank
  <2> SUFFICES ASSUME NEW k \in e + 1 .. b - 1
               PROVE  edit[k + 1] = Blank
    OBVIOUS
  <2>1. k \in a .. n - 1
    BY <1>5
  <2> QED BY <1>5, <1>8, <2>1
<1>13. \A j \in a + 2 .. b : j \notin S
  <2> SUFFICES ASSUME NEW j \in a + 2 .. b, j \in S
               PROVE  FALSE
    OBVIOUS
  <2>1. PICK i \in Nat : i + 1 = j /\ i >= a + 1 /\ i + 1 <= b
    <3>1. j - 1 \in Nat /\ (j - 1) + 1 = j /\ j - 1 >= a + 1
      BY <1>5
    <3> QED BY <3>1
  <2>2. i < n /\ edit[i + 1] # Blank /\ (i = 0 \/ edit[i] = Blank)
    BY <1>7, <2>1
  <2>3. CASE i < e
    <3>1. i - 1 \in a .. e - 1 /\ (i - 1) + 1 = i /\ i # 0
      BY <2>1, <2>3
    <3>2. edit[i] # Blank
      BY <1>10, <3>1
    <3> QED BY <2>2, <3>1, <3>2
  <2>4. CASE i = e
    BY <1>11, <2>2, <2>4
  <2>5. CASE i > e
    <3>1. i \in e + 1 .. b - 1
      BY <1>5, <2>1, <2>5
    <3> QED BY <1>12, <2>2, <3>1
  <2> QED BY <1>5, <2>1, <2>3, <2>4, <2>5
<1>14. Count(S, b) = Count(S, a) + 1
  <2>1. a < b /\ b \in Nat /\ S \subseteq 1 .. n
    BY <1>5, <1>7
  <2> QED BY <1>9, <1>13, <2>1, CountNext
<1>15. b < n => b + 1 \in S
  <2> SUFFICES ASSUME b < n
               PROVE  b + 1 \in S
    OBVIOUS
  <2>1. e < b /\ b \in a .. n - 1
    BY <1>5
  <2>2. edit[b + 1] # Blank
    <3>1. data'[b] = data[b]
      BY <1>5, <1>8, <2>1
    <3> QED BY <1>5, <1>8, <2>1, <3>1
  <2>3. edit[b] = Blank
    <3>1. CASE b = e + 1
      BY <1>5, <1>11, <3>1
    <3>2. CASE b # e + 1
      <4>1. b - 1 \in e + 1 .. b - 1 /\ (b - 1) + 1 = b
        BY <1>5, <2>1, <3>2
      <4> QED BY <1>12, <4>1
    <3> QED BY <3>1, <3>2
  <2> QED BY <1>5, <1>7, <2>2, <2>3
<1> QED BY <1>2, <1>3, <1>4, <1>6, <1>9, <1>10, <1>11, <1>14, <1>15

LEMMA WordWords ==
  ASSUME Inv, WordsInv, Word
  PROVE  WordsInv'
<1>1. /\ pc = "split" /\ pos \in Cell /\ p \in Cell /\ argv \in Seq(Cell)
      /\ Len(argv) < MaxArgs
      /\ Count(Starts(edit), p) = Len(argv)
      /\ \A n \in 1 .. Len(argv) :
           Found(n, argv[n]) /\ \E z \in Cell : z <= p /\ Cut(argv[n], z)
  BY DEF Inv, DataInv, WordsInv, Word, Splitting
<1>2. PICK e \in p .. pos : Advances(e)
  BY WordAdvances
<1>3. UNCHANGED <<pc, pos, edit>>
  BY DEF Word
<1>4. PICK m \in Nat : m = Len(argv)
  BY <1>1, LenProperties
<1>5. /\ Len(argv') = m + 1 /\ argv'[m + 1] = p
      /\ \A n \in 1 .. m : argv'[n] = argv[n]
  BY <1>1, <1>2, <1>4, AppendProperties DEF Advances
<1>6. /\ p \in Nat /\ pos \in Nat /\ e \in Nat /\ p' \in Nat /\ p' \in Cell
      /\ p < e /\ e <= p' /\ e <= pos /\ p' <= pos
  <2>1. p \in Nat /\ pos \in Nat /\ p' \in Cell /\ p' \in e .. pos /\ p < e
    BY <1>1, <1>2, CellFacts DEF Advances
  <2> QED BY <2>1, CellFacts
<1>7. /\ e \in Cell /\ data'[e] = "NUL"
      /\ \A k \in Cell : k # e => data'[k] = data[k]
  <2>1. e \in 0 .. LineSize - 1
    BY <1>1, <1>6, CellFacts
  <2> QED BY <1>2, <2>1, CellFacts DEF Advances
<1>8. /\ p + 1 \in Starts(edit)
      /\ Count(Starts(edit), p') = m + 1
      /\ p' < pos => p' + 1 \in Starts(edit)
      /\ e < pos => edit[e + 1] = Blank
      /\ \A k \in p .. e - 1 : edit[k + 1] # Blank /\ data'[k] = edit[k + 1]
  BY <1>1, <1>2, <1>4, WordCount
<1>9. Len(argv') <= MaxArgs
  BY <1>1, <1>4, <1>5, CellFacts
<1>10. (p < pos => p + 1 \in Starts(edit))'
  BY <1>3, <1>8
<1>11. (Count(Starts(edit), p) = Len(argv))'
  BY <1>3, <1>5, <1>8
<1>12. ASSUME NEW n \in 1 .. m
       PROVE  (Found(n, argv[n]) /\ \E z \in Cell : z <= p /\ Cut(argv[n], z))'
  <2>1. PICK a : a = argv[n]
    OBVIOUS
  <2>2. Found(n, a)'
    BY <1>1, <1>3, <1>4, <2>1 DEF Found
  <2>3. PICK z \in Cell : z <= p /\ Cut(a, z)
    BY <1>1, <1>4, <2>1
  <2>4. a \in Cell
    BY <1>1, <1>4, <2>1, ElementOfSeq
  <2>5. z \in Nat /\ a \in Nat /\ z < e /\ z <= p'
    BY <1>6, <2>3, <2>4, CellFacts
  <2>6. \A k \in a .. z - 1 : k \in Cell /\ k # e
    <3> SUFFICES ASSUME NEW k \in a .. z - 1
                 PROVE  k \in Cell /\ k # e
      OBVIOUS
    <3>1. k \in Nat /\ k < e /\ k <= z
      BY <2>5
    <3>2. k \in 0 .. LineSize - 1
      BY <2>3, <3>1, CellFacts
    <3> QED BY <1>6, <3>1, <3>2, CellFacts
  <2>7. Cut(a, z)'
    BY <1>3, <1>7, <2>3, <2>5, <2>6 DEF Cut
  <2>8. argv'[n] = a
    BY <1>5, <2>1
  <2> QED BY <2>2, <2>5, <2>7, <2>8
<1>14. PICK a : a = p
  OBVIOUS
<1>15. Found(m + 1, a)'
  <2>1. (m + 1) - 1 = m
    OBVIOUS
  <2> QED BY <1>1, <1>3, <1>4, <1>8, <1>14, <2>1 DEF Found
<1>16. Cut(a, e)'
  <2>1. e \in a .. pos
    BY <1>14
  <2> QED BY <1>3, <1>7, <1>8, <1>14, <2>1 DEF Cut
<1>17. argv'[m + 1] = a /\ e <= p'
  BY <1>5, <1>6, <1>14
<1>18. ASSUME NEW n \in 1 .. m + 1
       PROVE  (Found(n, argv[n]) /\ \E z \in Cell : z <= p /\ Cut(argv[n], z))'
  <2>1. CASE n = m + 1
    BY <1>7, <1>15, <1>16, <1>17, <2>1
  <2>2. CASE n # m + 1
    <3>1. n \in 1 .. m
      BY <2>2
    <3> QED BY <1>12, <3>1
  <2> QED BY <2>1, <2>2
<1> QED BY <1>5, <1>9, <1>10, <1>11, <1>18 DEF WordsInv

LEMMA OtherWords ==
  ASSUME Inv, WordsInv, [Next]_vars, ~ Enter, ~ Word
  PROVE  WordsInv'
<1> USE DEF line, command
<1>1. CASE UNCHANGED vars
  BY <1>1 DEF vars, WordsInv, Found, Cut
<1>2. CASE Start \/ NextPrompt
  BY <1>2 DEF WordsInv, Start, NextPrompt
<1>3. CASE execute_command
  <2>1. pc' # "split"
    BY <1>3 DEF execute_command, Unknown, Inform, cmd_clear, cmd_echo, cmd_mem, cmd_ps,
                cmd_ls, Usage, CatOpenFails, CatOpen, CatRead, CatEnd, ExecFails, ExecRuns,
                Report
  <2> QED BY <2>1 DEF WordsInv
<1>4. CASE App
  <2>1. pc' # "split"
    BY <1>4 DEF App, AppExits, AppOpens, AppPrints
  <2> QED BY <2>1 DEF WordsInv
<1>5. CASE \E c \in Key : PressKey(c)
  <2>1. pc' # "split"
    BY <1>5 DEF PressKey, Backspace, Echo, Beep, Ignore, Typing
  <2> QED BY <2>1 DEF WordsInv
<1> QED BY <1>1, <1>2, <1>3, <1>4, <1>5 DEF Next

\* The arguments found so far are the words so far, whatever has been typed.
THEOREM WordsInvariant == Spec => []WordsInv
<1>1. Init => WordsInv
  BY DEF Init, WordsInv
<1>2. Inv /\ WordsInv /\ [Next]_vars => WordsInv'
  BY EnterWords, WordWords, OtherWords
<1> QED BY <1>1, <1>2, Invariant, PTL DEF Spec

\* Where the n-th word starts, and the word.
LEMMA NthIs ==
  ASSUME NEW s \in Seq(Printable), NEW a \in Nat, NEW n \in Nat,
         a + 1 \in Starts(s), Count(Starts(s), a) = n - 1
  PROVE  Nth(s, n) = a + 1
<1>1. PICK m \in Nat : m = Len(s)
  BY LenProperties
<1>2. PICK S : S = Starts(s) /\ S \subseteq 1 .. m
  BY <1>1, StartsFacts
<1>3. \A b \in Nat : {k \in S : k < b + 1} = Below(S, b)
  BY <1>2 DEF Below
<1>4. \A i \in S : i - 1 \in Nat /\ (i - 1) + 1 = i
  BY <1>2
<1>5. \A i \in S : Cardinality({k \in S : k < i}) = Count(S, i - 1)
  BY <1>3, <1>4 DEF Count
<1>6. \A i \in S : Cardinality({k \in S : k < i}) = n - 1 => i = a + 1
  <2> SUFFICES ASSUME NEW i \in S, Cardinality({k \in S : k < i}) = n - 1
               PROVE  i = a + 1
    OBVIOUS
  <2>1. PICK b \in Nat : b = i - 1 /\ b + 1 = i
    BY <1>4
  <2>2. Count(S, b) = Count(S, a)
    BY <1>2, <1>5, <2>1
  <2>3. b = a
    BY <1>2, <2>1, <2>2, CountTells
  <2> QED BY <2>1, <2>3
<1>7. a + 1 \in S /\ Cardinality({k \in S : k < a + 1}) = n - 1
  BY <1>2, <1>3 DEF Count
<1> HIDE DEF Below
<1>8. Nth(s, n) = CHOOSE i \in S : Cardinality({k \in S : k < i}) = n - 1
  BY <1>2 DEF Nth
<1> QED BY <1>6, <1>7, <1>8

\* The string at an argument is the word that starts there.
LEMMA ArgIsWord ==
  ASSUME Inv, WordsInv, pc = "split", NEW n \in 1 .. Len(argv)
  PROVE  Arg(n) = RunAt(edit, Nth(edit, n))
<1>1. /\ pos \in Cell /\ data \in [Cell -> Printable \cup {"NUL"}]
      /\ argv \in Seq(Cell) /\ edit \in Seq(Printable) /\ Len(edit) = pos
  BY DEF Inv, DataInv, SplitInv, Typed
<1>2. PICK a \in Cell : a = argv[n]
  BY <1>1, ElementOfSeq
<1>3. PICK z \in Cell : Found(n, a) /\ Cut(a, z)
  BY <1>2 DEF WordsInv
<1>4. PICK m \in Nat : m = pos /\ m = Len(edit)
  BY <1>1, CellFacts
<1>5. a \in Nat /\ z \in Nat /\ a <= z /\ z <= m
  BY <1>3, <1>4, CellFacts DEF Cut
<1>6. a < m /\ edit[a + 1] # Blank
  BY <1>1, <1>3, <1>4, <1>5, StartsFacts DEF Found
<1>7. /\ data[z] = "NUL" /\ (z < m => edit[z + 1] = Blank)
      /\ \A k \in a .. z - 1 : data[k] = edit[k + 1] /\ edit[k + 1] # Blank
  BY <1>3, <1>4 DEF Cut
<1>8. a < z
  BY <1>5, <1>6, <1>7
<1>9. \A k \in a .. z - 1 : data[k] # "NUL"
  <2> SUFFICES ASSUME NEW k \in a .. z - 1
               PROVE  data[k] # "NUL"
    OBVIOUS
  <2>1. k + 1 \in 1 .. m
    BY <1>5
  <2>2. edit[k + 1] \in Printable
    BY <1>1, <1>4, <2>1, ElementOfSeq
  <2> QED BY <1>7, <2>2, PrintableFacts
<1>10. PICK l \in Nat : l = LineSize - 1 /\ Cell = 0 .. l
  <2>1. LineSize - 1 \in Nat
    BY CellFacts
  <2> QED BY <2>1, CellFacts
<1>11. End(data, a) = z
  <2>1. DOMAIN data = 0 .. l /\ a \in 0 .. l /\ z \in a .. l
    BY <1>1, <1>5, <1>10
  <2> QED BY <1>7, <1>9, <2>1, EndIs
<1>12. Arg(n) = [k \in 1 .. z - a |-> edit[a + k]]
  <2>1. Arg(n) = [k \in 1 .. z - a |-> data[a + k - 1]]
    BY <1>2, <1>11 DEF Arg, String
  <2>2. \A k \in 1 .. z - a : data[a + k - 1] = edit[a + k]
    <3> SUFFICES ASSUME NEW k \in 1 .. z - a
                 PROVE  data[a + k - 1] = edit[a + k]
      OBVIOUS
    <3>1. a + k - 1 \in a .. z - 1 /\ (a + k - 1) + 1 = a + k
      BY <1>5
    <3> QED BY <1>7, <3>1
  <2> QED BY <2>1, <2>2
<1>13. \A k \in a + 1 .. z : edit[k] # Blank
  <2> SUFFICES ASSUME NEW k \in a + 1 .. z
               PROVE  edit[k] # Blank
    OBVIOUS
  <2>1. k - 1 \in a .. z - 1 /\ (k - 1) + 1 = k
    BY <1>5
  <2> QED BY <1>7, <2>1
<1>14. RunAt(edit, a + 1) = [k \in 1 .. z - a |-> edit[a + k]]
  <2>1. a \in 0 .. m - 1 /\ z \in a + 1 .. m
    BY <1>5, <1>6, <1>8
  <2>2. edit \in Seq(Printable) /\ m \in Nat /\ m = Len(edit) /\ (z < m => edit[z + 1] = Blank)
    BY <1>1, <1>4, <1>7
  <2>3. IsRun(edit, m, a, z)
    BY <1>13, <2>1, <2>2 DEF IsRun
  <2>4. RunAt(edit, a + 1) = Slice(edit, a, z)
    BY <2>3, RunIs, Zenon
  <2> QED BY <2>4 DEF Slice
<1>15. Nth(edit, n) = a + 1
  <2>1. n \in Nat
    BY <1>1, LenProperties
  <2> QED BY <1>1, <1>3, <1>5, <2>1, NthIs DEF Found
<1> QED BY <1>12, <1>14, <1>15

\* When the line is split, all words are arguments or the arguments are as many as
\* there may be.
LEMMA AllSplit ==
  ASSUME Inv, WordsInv, pc = "split", ~ Splitting
  PROVE  LET N == Cardinality(Starts(edit)) IN
         /\ N \in Nat /\ Len(argv) \in Nat /\ Len(argv) <= N
         /\ Len(argv) = IF N < MaxArgs THEN N ELSE MaxArgs
<1>1. /\ pos \in Cell /\ p \in Cell /\ p <= pos /\ argv \in Seq(Cell)
      /\ edit \in Seq(Printable) /\ Len(edit) = pos
      /\ \A k \in p .. pos - 1 : data[k] = edit[k + 1]
      /\ Count(Starts(edit), p) = Len(argv) /\ Len(argv) <= MaxArgs
  BY DEF Inv, DataInv, SplitInv, Typed, WordsInv
<1>2. PICK m \in Nat : m = pos /\ m = Len(edit)
  BY <1>1, CellFacts
<1>3. PICK a \in Nat : a = p /\ a <= m
  BY <1>1, <1>2, CellFacts
<1>4. PICK S : S = Starts(edit) /\ S \subseteq 1 .. m
  BY <1>1, <1>2, StartsFacts
<1>5. PICK N \in Nat : N = Cardinality(S)
  BY <1>4, BelowFacts
<1>6. PICK L \in Nat : L = Len(argv) /\ L = Count(S, a) /\ L <= MaxArgs
  BY <1>1, <1>3, <1>4, LenProperties
<1>7. L <= N
  BY <1>4, <1>5, <1>6, BelowFacts
<1>8. CASE data[p] = "NUL"
  <2>1. a = m
    <3> SUFFICES ASSUME a < m
                 PROVE  FALSE
      BY <1>3
    <3>1. a \in a .. m - 1 /\ a + 1 \in 1 .. m
      OBVIOUS
    <3>2. data[a] = edit[a + 1] /\ edit[a + 1] \in Printable
      BY <1>1, <1>2, <1>3, <3>1, ElementOfSeq
    <3> QED BY <1>3, <1>8, <3>2, PrintableFacts
  <2>2. Count(S, a) = Cardinality(S)
    BY <1>4, <2>1, BelowFacts
  <2>3. L = N
    BY <1>5, <1>6, <2>2
  <2> QED BY <1>4, <1>5, <1>6, <2>3, CellFacts
<1>9. CASE data[p] # "NUL"
  <2>1. ~ (L < MaxArgs)
    BY <1>6, <1>9 DEF Splitting
  <2>2. L = MaxArgs /\ ~ (N < MaxArgs)
    BY <1>6, <1>7, <2>1, CellFacts
  <2> QED BY <1>4, <1>5, <1>6, <1>7, <2>2, CellFacts
<1> QED BY <1>8, <1>9

LEMMA ArgumentsHold == Inv /\ WordsInv => ArgumentsAreWords
<1> SUFFICES ASSUME Inv, WordsInv, pc = "split", ~ Splitting
             PROVE  [i \in DOMAIN argv |-> Arg(i)] = Words(edit)
  BY DEF ArgumentsAreWords
<1>1. PICK N \in Nat : N = Cardinality(Starts(edit))
  BY AllSplit
<1>2. PICK L \in Nat : /\ L = Len(argv) /\ L <= N
                       /\ L = IF N < MaxArgs THEN N ELSE MaxArgs
  BY <1>1, AllSplit
<1>3. PICK w : w = AllWords(edit)
  OBVIOUS
<1>4. w = [n \in 1 .. N |-> RunAt(edit, Nth(edit, n))]
  BY <1>1, <1>3 DEF AllWords
<1>5. Len(w) = N
  BY <1>4
<1>6. Words(edit) = SubSeq(w, 1, L)
  <2>1. Words(edit) = SubSeq(w, 1, IF Len(w) < MaxArgs THEN Len(w) ELSE MaxArgs)
    BY <1>3 DEF Words
  <2> QED BY <1>2, <1>5, <2>1
<1>7. DOMAIN argv = 1 .. L
  <2>1. argv \in Seq(Cell)
    BY DEF Inv, DataInv
  <2> QED BY <1>2, <2>1, LenProperties
<1>8. \A n \in 1 .. L : Arg(n) = w[n] /\ Arg(n) \in Seq(Printable)
  <2> SUFFICES ASSUME NEW n \in 1 .. L
               PROVE  Arg(n) = w[n] /\ Arg(n) \in Seq(Printable)
    OBVIOUS
  <2>1. n \in 1 .. N /\ n \in 1 .. Len(argv)
    BY <1>2
  <2> QED BY <1>4, <2>1, ArgIsWord, ArgType
<1>9. PICK v : v = SubSeq(w, 1, L)
  OBVIOUS
<1>10. /\ v \in Seq(Seq(Printable)) /\ Len(v) = L /\ \A n \in 1 .. L : v[n] = w[n]
  <2>1. \A n \in 1 .. L : w[n] \in Seq(Printable)
    BY <1>8
  <2>2. /\ SubSeq(w, 1, L) \in Seq(Seq(Printable))
        /\ Len(SubSeq(w, 1, L)) = (IF 1 <= L THEN L - 1 + 1 ELSE 0)
        /\ \A n \in 1 .. L - 1 + 1 : SubSeq(w, 1, L)[n] = w[1 + n - 1]
    BY <2>1, SubSeqProperties, SMTT(30)
  <2>3. L - 1 + 1 = L /\ \A n \in Int : 1 + n - 1 = n
    OBVIOUS
  <2> QED BY <1>2, <1>9, <2>2, <2>3
<1>11. v = [n \in 1 .. L |-> v[n]]
  BY <1>10
<1>12. v = [n \in 1 .. L |-> Arg(n)]
  BY <1>8, <1>10, <1>11
<1> QED BY <1>6, <1>7, <1>9, <1>12

\* The arguments a command gets are the words of the line, in order and at most
\* MaxArgs, although they point into the line that has been cut for them.
THEOREM ArgumentsTheorem == Spec => []ArgumentsAreWords
BY ArgumentsHold, Invariant, WordsInvariant, PTL

-----------------------------------------------------------------------------
(* What the user sees of an output                                         *)

SeenOf == [c \in Chr |-> IF c = "CR" THEN <<>> ELSE <<c>>]

LEMMA SeenOfType == SeenOf \in [Chr -> Seq(Chr)]
<1>1. \A c \in Chr : <<c>> \in Seq(Chr) /\ <<>> \in Seq(Chr)
  OBVIOUS
<1> QED BY <1>1 DEF SeenOf

LEMMA SeenIs ==
  ASSUME NEW s \in Seq(Chr)
  PROVE  Seen(s) = Spread(s, SeenOf)
<1>1. \A i \in DOMAIN s : s[i] \in Chr
  BY ElementOfSeq, LenProperties
<1>2. [i \in DOMAIN s |-> IF s[i] = "CR" THEN <<>> ELSE <<s[i]>>]
        = [i \in DOMAIN s |-> SeenOf[s[i]]]
  BY <1>1 DEF SeenOf
<1> QED BY <1>2 DEF Seen, Spread

LEMMA SeenFacts ==
  ASSUME NEW s \in Seq(Chr)
  PROVE  Seen(s) \in Seq(Chr)
BY SeenIs, SeenOfType, SpreadFacts

LEMMA SeenEmpty == Seen(<<>>) = <<>> /\ <<>> \in Seq(Chr)
BY EmptySeq, SeenIs, SeenOfType, SpreadFacts

LEMMA SeenConcat ==
  ASSUME NEW a \in Seq(Chr), NEW b \in Seq(Chr)
  PROVE  Seen(a \o b) = Seen(a) \o Seen(b)
<1>1. a \o b \in Seq(Chr)
  BY ConcatProperties
<1>2. Spread(a \o b, SeenOf) = Spread(a, SeenOf) \o Spread(b, SeenOf)
  BY SeenOfType, SpreadConcat
<1> QED BY <1>1, <1>2, SeenIs

LEMMA SeenAppend ==
  ASSUME NEW a \in Seq(Chr), NEW c \in Chr
  PROVE  Seen(Append(a, c)) = Seen(a) \o SeenOf[c]
<1>1. Append(a, c) \in Seq(Chr)
  BY AppendProperties
<1>2. Spread(Append(a, c), SeenOf) = Spread(a, SeenOf) \o SeenOf[c]
  BY SeenOfType, SpreadAppend
<1> QED BY <1>1, <1>2, SeenIs

LEMMA SeenOne ==
  ASSUME NEW c \in Chr
  PROVE  Seen(<<c>>) = SeenOf[c]
<1>1. <<>> \in Seq(Chr) /\ Append(<<>>, c) = <<c>> /\ SeenOf[c] \in Seq(Chr)
  BY SeenOfType
<1>2. <<>> \o SeenOf[c] = SeenOf[c]
  BY <1>1, ConcatEmptySeq
<1> QED BY <1>1, <1>2, SeenAppend, SeenEmpty

\* Two outputs that look the same, one behind the other.
LEMMA SeenBoth ==
  ASSUME NEW a \in Seq(Chr), NEW b \in Seq(Chr), NEW x \in Seq(Chr), NEW y \in Seq(Chr),
         Seen(a) = Seen(x), Seen(b) = Seen(y)
  PROVE  /\ a \o b \in Seq(Chr) /\ x \o y \in Seq(Chr)
         /\ Seen(a \o b) = Seen(x \o y)
<1>1. Seen(a \o b) = Seen(a) \o Seen(b) /\ Seen(x \o y) = Seen(x) \o Seen(y)
  BY SeenConcat
<1>2. a \o b \in Seq(Chr) /\ x \o y \in Seq(Chr)
  BY ConcatProperties
<1> QED BY <1>1, <1>2

\* A driver that shows each character as it is.
LEMMA SeenSpread ==
  ASSUME NEW G \in [Chr -> Seq(Chr)], \A c \in Chr : Seen(G[c]) = SeenOf[c],
         NEW s \in Seq(Chr)
  PROVE  Seen(Spread(s, G)) = Seen(s)
<1> DEFINE Q == {x \in Seq(Chr) : Seen(Spread(x, G)) = Seen(x)}
<1>1. <<>> \in Q
  <2>1. Spread(<<>>, G) = <<>>
    BY EmptySeq, SpreadFacts
  <2> QED BY <2>1, EmptySeq
<1>2. ASSUME NEW x \in Seq(Chr), NEW c \in Chr, x \in Q
      PROVE  Append(x, c) \in Q
  <2>1. Spread(Append(x, c), G) = Spread(x, G) \o G[c] /\ Spread(x, G) \in Seq(Chr)
        /\ G[c] \in Seq(Chr)
    <3>1. Spread(Append(x, c), G) = Spread(x, G) \o G[c]
      BY SpreadAppend
    <3>2. Spread(x, G) \in Seq(Chr)
      BY SpreadFacts
    <3> QED BY <3>1, <3>2
  <2>2. Seen(Spread(x, G) \o G[c]) = Seen(x) \o SeenOf[c]
    BY <1>2, <2>1, SeenConcat
  <2>3. Seen(Append(x, c)) = Seen(x) \o SeenOf[c] /\ Append(x, c) \in Seq(Chr)
    BY SeenAppend, AppendProperties
  <2> QED BY <2>1, <2>2, <2>3
<1> HIDE DEF Q
<1>3. s \in Q
  BY <1>1, <1>2, BySnoc
<1> QED BY <1>3 DEF Q

LEMMA SeenReturns ==
  /\ Seen(<<"CR">>) = <<>> /\ <<"CR">> \in Seq(Chr)
  /\ Seen(<<"CR", "NL">>) = <<"NL">> /\ Seen(<<"CR", "CR", "NL">>) = <<"NL">>
<1>1. "CR" \in Chr /\ "NL" \in Chr /\ <<"NL">> \in Seq(Chr)
  BY ControlIsChr
<1>2. <<>> \in Seq(Chr) /\ <<"CR">> \in Seq(Chr) /\ <<"CR", "CR">> \in Seq(Chr)
  BY <1>1
<1>3. SeenOf["CR"] = <<>> /\ SeenOf["NL"] = <<"NL">>
  BY <1>1 DEF SeenOf
<1>4. Seen(<<"CR">>) = <<>>
  BY <1>1, <1>3, SeenOne
<1>5. Append(<<"CR">>, "CR") = <<"CR", "CR">> /\ Append(<<"CR">>, "NL") = <<"CR", "NL">>
  BY Pair
<1>6. Append(<<"CR", "CR">>, "NL") = <<"CR", "CR", "NL">>
  BY Triple
<1>7. <<>> \o <<>> = <<>> /\ <<>> \o <<"NL">> = <<"NL">>
  BY <1>1, <1>2, ConcatEmptySeq
<1>8. Seen(<<"CR", "CR">>) = <<>>
  BY <1>1, <1>2, <1>3, <1>4, <1>5, <1>7, SeenAppend
<1>9. Seen(<<"CR", "NL">>) = <<"NL">>
  BY <1>1, <1>2, <1>3, <1>4, <1>5, <1>7, SeenAppend
<1>10. Seen(<<"CR", "CR", "NL">>) = <<"NL">>
  BY <1>1, <1>2, <1>3, <1>6, <1>7, <1>8, SeenAppend
<1> QED BY <1>2, <1>4, <1>9, <1>10

LEMMA SeenText ==
  ASSUME NEW s \in Seq(Chr)
  PROVE  Seen(Text(s)) = Seen(s)
<1>1. \A c \in Chr : Seen(TextOf[c]) = SeenOf[c]
  <2> SUFFICES ASSUME NEW c \in Chr
               PROVE  Seen(TextOf[c]) = SeenOf[c]
    OBVIOUS
  <2>1. CASE c = "NL"
    BY <2>1, SeenReturns DEF TextOf, SeenOf
  <2>2. CASE c # "NL"
    <3>1. TextOf[c] = <<c>>
      BY <2>2 DEF TextOf
    <3> QED BY <3>1, SeenOne
  <2> QED BY <2>1, <2>2
<1> QED BY <1>1, TextOfType, TextIs, SeenSpread

LEMMA SeenSent ==
  ASSUME NEW w \in Seq(Chr), Len(w) <= MaxWrite
  PROVE  Seen(Sent(w)) = Seen(w) /\ Sent(w) \in Seq(Chr)
<1>1. \A c \in Chr : Seen(PutcOf[c]) = SeenOf[c]
  <2> SUFFICES ASSUME NEW c \in Chr
               PROVE  Seen(PutcOf[c]) = SeenOf[c]
    OBVIOUS
  <2>1. CASE c = "NL"
    BY <2>1, SeenReturns DEF PutcOf, uart_putc, SeenOf
  <2>2. CASE c # "NL"
    <3>1. PutcOf[c] = <<c>>
      BY <2>2 DEF PutcOf, uart_putc
    <3> QED BY <3>1, SeenOne
  <2> QED BY <2>1, <2>2
<1> QED BY <1>1, PutcOfType, SentFacts, SeenSpread

\* The staging buffer: it never holds more than the kernel accepts, so nothing
\* of what it is given gets lost.
Staged == {a \in Pending : Len(a.buf) < PutsSize}
Total(a) == Seen(AllSent(a.writes)) \o Seen(a.buf)

LEMMA TotalType ==
  ASSUME NEW a \in Pending
  PROVE  /\ a.buf \in Seq(Chr) /\ a.writes \in Seq(Seq(Chr)) /\ Len(a.buf) \in Nat
         /\ AllSent(a.writes) \in Seq(Chr) /\ Seen(AllSent(a.writes)) \in Seq(Chr)
         /\ Seen(a.buf) \in Seq(Chr) /\ Total(a) \in Seq(Chr)
<1>1. a.buf \in Seq(Chr) /\ a.writes \in Seq(Seq(Chr))
  BY DEF Pending
<1>2. AllSent(a.writes) \in Seq(Chr)
  BY <1>1, AllSentType
<1>3. Seen(AllSent(a.writes)) \in Seq(Chr) /\ Seen(a.buf) \in Seq(Chr)
  BY <1>1, <1>2, SeenFacts
<1> QED BY <1>1, <1>2, <1>3, ConcatProperties, LenProperties DEF Total

LEMMA BufferSizes == PutsSize \in Nat /\ PutsSize >= 1 /\ MaxWrite \in Nat /\ PutsSize <= MaxWrite
BY ShellAssumption

LEMMA AllSentAppend ==
  ASSUME NEW ws \in Seq(Seq(Chr)), NEW w \in Seq(Chr), Len(w) <= MaxWrite
  PROVE  Seen(AllSent(Append(ws, w))) = Seen(AllSent(ws)) \o Seen(w)
<1>1. PICK X : X = Seq(Chr)
  OBVIOUS
<1>2. SentOf \in [X -> Seq(Chr)] /\ ws \in Seq(X) /\ w \in X
  BY <1>1, SentOfType
<1>3. Spread(Append(ws, w), SentOf) = Spread(ws, SentOf) \o SentOf[w]
  BY <1>2, SpreadAppend
<1>4. Append(ws, w) \in Seq(Seq(Chr))
  BY AppendProperties
<1>5. AllSent(Append(ws, w)) = AllSent(ws) \o Sent(w)
  <2>1. AllSent(Append(ws, w)) = Spread(Append(ws, w), SentOf)
    BY <1>4, AllSentIs
  <2>2. AllSent(ws) = Spread(ws, SentOf) /\ SentOf[w] = Sent(w)
    BY AllSentIs DEF SentOf
  <2> QED BY <1>3, <2>1, <2>2
<1>6. AllSent(ws) \in Seq(Chr) /\ Sent(w) \in Seq(Chr) /\ Seen(Sent(w)) = Seen(w)
  BY AllSentType, SeenSent
<1> QED BY <1>5, <1>6, SeenConcat

LEMMA FlushedTotal ==
  ASSUME NEW a \in Pending, Len(a.buf) <= PutsSize
  PROVE  /\ Flushed(a) \in Pending /\ Flushed(a).buf = <<>>
         /\ Total(Flushed(a)) = Total(a) /\ Seen(AllSent(Flushed(a).writes)) = Total(a)
<1>1. /\ a.buf \in Seq(Chr) /\ a.writes \in Seq(Seq(Chr)) /\ Len(a.buf) \in Nat
      /\ Seen(AllSent(a.writes)) \in Seq(Chr) /\ Total(a) \in Seq(Chr)
  BY TotalType
<1>2. PICK f \in Pending : f = Flushed(a)
  BY FlushedType
<1>3. f.buf = <<>>
  BY <1>2 DEF Flushed
<1>4. Seen(AllSent(f.writes)) = Total(a)
  <2>1. CASE a.buf = <<>>
    <3>1. f = a
      BY <1>2, <2>1 DEF Flushed
    <3>2. Total(a) = Seen(AllSent(a.writes)) \o <<>>
      BY <2>1, SeenEmpty DEF Total
    <3> QED BY <1>1, <3>1, <3>2, ConcatEmptySeq
  <2>2. CASE a.buf # <<>>
    <3>1. f.writes = Append(a.writes, a.buf)
      BY <1>2, <2>2 DEF Flushed
    <3>2. Len(a.buf) <= MaxWrite
      BY <1>1, BufferSizes
    <3> QED BY <1>1, <3>1, <3>2, AllSentAppend DEF Total
  <2> QED BY <2>1, <2>2
<1>5. Total(f) = Total(a)
  BY <1>1, <1>3, <1>4, SeenEmpty, ConcatEmptySeq DEF Total
<1> QED BY <1>2, <1>3, <1>4, <1>5

LEMMA PutsCharTotal ==
  ASSUME NEW a \in Staged, NEW c \in Chr
  PROVE  PutsChar(a, c) \in Staged /\ Total(PutsChar(a, c)) = Total(a) \o SeenOf[c]
<1> DEFINE b == IF c = "NL" THEN [Flushed(a) EXCEPT !.writes = Append(@, <<"CR">>)] ELSE a
           full == [b EXCEPT !.buf = Append(@, c)]
<1>1. a \in Pending /\ Len(a.buf) < PutsSize /\ Len(a.buf) \in Nat
  BY TotalType DEF Staged
<1>2. b \in Staged /\ Total(b) = Total(a)
  <2>1. CASE c = "NL"
    <3>1. PICK f \in Pending : f = Flushed(a) /\ f.buf = <<>> /\ Total(f) = Total(a)
                               /\ Seen(AllSent(f.writes)) = Total(a)
      BY <1>1, BufferSizes, FlushedTotal
    <3>2. PICK d : d = [f EXCEPT !.writes = Append(f.writes, <<"CR">>)]
      OBVIOUS
    <3>3. b = d
      BY <2>1, <3>1, <3>2
    <3>4. f.writes \in Seq(Seq(Chr)) /\ Total(a) \in Seq(Chr) /\ <<"CR">> \in Seq(Chr)
      BY <1>1, <3>1, TotalType, ControlIsChr
    <3>5. d.writes = Append(f.writes, <<"CR">>) /\ d.buf = <<>> /\ d \in Pending
      BY <3>1, <3>2, <3>4, AppendProperties DEF Pending
    <3>6. Len(<<"CR">>) = 1 /\ 1 <= MaxWrite /\ Len(<<>>) = 0 /\ 0 < PutsSize
      BY BufferSizes
    <3>7. Seen(AllSent(d.writes)) = Total(a) \o <<>>
      BY <3>1, <3>4, <3>5, <3>6, AllSentAppend, SeenReturns
    <3>8. Total(d) = Total(a)
      BY <3>4, <3>5, <3>7, SeenEmpty, ConcatEmptySeq DEF Total
    <3> QED BY <3>3, <3>5, <3>6, <3>8 DEF Staged
  <2>2. CASE c # "NL"
    BY <2>2
  <2> QED BY <2>1, <2>2
<1> HIDE DEF b
<1>3. b \in Pending /\ Len(b.buf) < PutsSize
  BY <1>2 DEF Staged
<1>4. /\ b.buf \in Seq(Chr) /\ b.writes \in Seq(Seq(Chr)) /\ Len(b.buf) \in Nat
      /\ Seen(AllSent(b.writes)) \in Seq(Chr) /\ Seen(b.buf) \in Seq(Chr)
  BY <1>3, TotalType
<1>5. /\ full \in Pending /\ full.buf = Append(b.buf, c) /\ full.writes = b.writes
      /\ Len(full.buf) = Len(b.buf) + 1
  <2>1. PICK x : x = Append(b.buf, c)
    OBVIOUS
  <2>2. full = [b EXCEPT !.buf = x]
    BY <2>1
  <2>3. PICK y \in Seq(Chr) : y = b.buf
    BY <1>4
  <2>4. Append(y, c) \in Seq(Chr) /\ Len(Append(y, c)) = Len(y) + 1
    BY AppendProperties
  <2>5. x \in Seq(Chr) /\ Len(x) = Len(b.buf) + 1
    BY <2>1, <2>3, <2>4
  <2>6. full \in Pending /\ full.buf = x /\ full.writes = b.writes
    BY <1>3, <2>2, <2>5 DEF Pending
  <2> QED BY <2>1, <2>5, <2>6
<1> HIDE DEF full
<1>6. Total(full) = Total(a) \o SeenOf[c]
  <2>1. Seen(full.buf) = Seen(b.buf) \o SeenOf[c]
    BY <1>4, <1>5, SeenAppend
  <2>2. SeenOf[c] \in Seq(Chr)
    BY SeenOfType
  <2>3. Seen(AllSent(b.writes)) \o (Seen(b.buf) \o SeenOf[c]) = Total(b) \o SeenOf[c]
    <3>1. PICK x \in Seq(Chr), y \in Seq(Chr), z \in Seq(Chr) :
            x = Seen(AllSent(b.writes)) /\ y = Seen(b.buf) /\ z = SeenOf[c]
      BY <1>4, <2>2
    <3>2. (x \o y) \o z = x \o (y \o z)
      BY ConcatAssociative
    <3> QED BY <3>1, <3>2 DEF Total
  <2> QED BY <1>2, <1>5, <2>1, <2>3 DEF Total
<1>7. PutsChar(a, c) = IF Len(full.buf) >= PutsSize THEN Flushed(full) ELSE full
  BY DEF PutsChar, full, b
<1>8. Len(full.buf) <= PutsSize /\ Len(full.buf) \in Nat
  BY <1>3, <1>4, <1>5, BufferSizes
<1>9. CASE Len(full.buf) >= PutsSize
  <2>1. /\ Flushed(full) \in Pending /\ Flushed(full).buf = <<>>
        /\ Total(Flushed(full)) = Total(full)
    BY <1>5, <1>8, FlushedTotal
  <2>2. Len(<<>>) = 0 /\ 0 < PutsSize
    BY BufferSizes
  <2> QED BY <1>6, <1>7, <1>9, <2>1, <2>2 DEF Staged
<1>10. CASE ~ (Len(full.buf) >= PutsSize)
  <2>1. Len(full.buf) < PutsSize
    BY <1>8, <1>10, BufferSizes
  <2> QED BY <1>5, <1>6, <1>7, <1>10, <2>1 DEF Staged
<1> QED BY <1>9, <1>10

LEMMA PrefixNext ==
  ASSUME NEW S, NEW s \in Seq(S), NEW i \in 1 .. Len(s)
  PROVE  /\ SubSeq(s, 1, i - 1) \in Seq(S)
         /\ SubSeq(s, 1, i) = Append(SubSeq(s, 1, i - 1), s[i])
<1>1. PICK n \in Nat : n = Len(s)
  BY LenProperties
<1>2. \A j \in 1 .. n : s[j] \in S
  BY <1>1, ElementOfSeq
<1>3. i \in 1 .. n /\ i - 1 \in Int /\ \A j \in 1 .. i - 1 : j \in 1 .. n
  BY <1>1
<1>4. PICK q \in Int : q = i - 1
  BY <1>3
<1>5. \A j \in 1 .. q : s[j] \in S
  BY <1>2, <1>3, <1>4
<1>6. SubSeq(s, 1, q) \in Seq(S)
  BY <1>5, SubSeqProperties
<1>7. SubSeq(s, 1, i) = SubSeq(s, 1, i - 1) \o <<s[i]>>
  <2>1. 1 \in 1 .. Len(s) /\ i \in 1 .. Len(s)
    BY <1>1, <1>3
  <2> QED BY <2>1, SubSeqRecursiveSecond
<1>8. s[i] \in S
  BY <1>2, <1>3
<1> QED BY <1>4, <1>6, <1>7, <1>8, AppendIsConcat

\* shell_puts shows the string, whatever pieces it is sent in.
LEMMA SeenPuts ==
  ASSUME NEW s \in Seq(Chr)
  PROVE  Seen(shell_puts(s)) = Seen(s) /\ shell_puts(s) \in Seq(Chr)
<1>1. PICK n \in Nat : n = Len(s)
  BY LenProperties
<1>2. PICK g : g = Collected(s)
  OBVIOUS
<1>3. Puts(g, s, n) /\ \A i \in 1 .. n : s[i] \in Chr
  BY <1>1, <1>2, ElementOfSeq, CollectedIs
<1> DEFINE ok == {i \in 0 .. n : g[i] \in Staged /\ Total(g[i]) = Seen(SubSeq(s, 1, i))}
<1>4. 0 \in ok
  <2>1. g[0] = [buf |-> <<>>, writes |-> <<>>] /\ g[0] \in Pending
    BY <1>3 DEF Puts
  <2>2. Len(<<>>) = 0 /\ 0 < PutsSize
    BY BufferSizes
  <2>3. g[0] \in Staged
    BY <2>1, <2>2 DEF Staged
  <2>4. SubSeq(s, 1, 0) = <<>>
    BY SubSeqEmpty
  <2>5. AllSent(<<>>) = <<>>
    BY FlattenEmpty DEF AllSent
  <2>6. Total(g[0]) = <<>> \o <<>>
    BY <2>1, <2>5, SeenEmpty DEF Total
  <2>7. <<>> \o <<>> = <<>>
    OBVIOUS
  <2>8. Total(g[0]) = Seen(SubSeq(s, 1, 0))
    BY <2>4, <2>6, <2>7, SeenEmpty
  <2> QED BY <2>3, <2>8
<1>5. ASSUME NEW i \in 1 .. n, i - 1 \in ok
      PROVE  i \in ok
  <2>1. g[i] = PutsChar(g[i - 1], s[i]) /\ s[i] \in Chr
    BY <1>3 DEF Puts
  <2>2. g[i] \in Staged /\ Total(g[i]) = Seen(SubSeq(s, 1, i - 1)) \o SeenOf[s[i]]
    <3>1. g[i - 1] \in Staged /\ Total(g[i - 1]) = Seen(SubSeq(s, 1, i - 1))
      BY <1>5
    <3> QED BY <2>1, <3>1, PutsCharTotal
  <2>3. SubSeq(s, 1, i) = Append(SubSeq(s, 1, i - 1), s[i]) /\ SubSeq(s, 1, i - 1) \in Seq(Chr)
    BY <1>1, PrefixNext
  <2>4. Seen(SubSeq(s, 1, i)) = Seen(SubSeq(s, 1, i - 1)) \o SeenOf[s[i]]
    BY <2>1, <2>3, SeenAppend
  <2>5. i \in 0 .. n
    OBVIOUS
  <2> QED BY <2>2, <2>4, <2>5
<1> HIDE DEF ok
<1>6. \A i \in 0 .. n : i \in ok
  BY <1>4, <1>5, UpTo
<1>7. n \in ok
  BY <1>6
<1>8. g[n] \in Staged /\ Total(g[n]) = Seen(SubSeq(s, 1, n)) /\ SubSeq(s, 1, n) = s
  BY <1>1, <1>7, SubSeqFull DEF ok
<1>9. g[n] \in Pending /\ Len(g[n].buf) <= PutsSize
  BY <1>8, TotalType, BufferSizes DEF Staged
<1>10. Seen(AllSent(Flushed(g[n]).writes)) = Seen(s)
  BY <1>8, <1>9, FlushedTotal
<1> QED BY <1>1, <1>2, <1>10, PutsType, PutsIs

-----------------------------------------------------------------------------
(* Outputs that look the same                                              *)

Alike(a, b) == a \in Seq(Chr) /\ b \in Seq(Chr) /\ Seen(a) = Seen(b)

LEMMA AlikeSame ==
  ASSUME NEW s \in Seq(Chr)
  PROVE  Alike(s, s)
BY DEF Alike

LEMMA AlikeConcat ==
  ASSUME NEW a, NEW b, NEW x, NEW y, Alike(a, x), Alike(b, y)
  PROVE  Alike(a \o b, x \o y)
BY SeenBoth DEF Alike

LEMMA AlikeText ==
  ASSUME NEW s \in Seq(Chr)
  PROVE  Alike(Text(s), s)
BY SeenText, TextFacts DEF Alike

LEMMA PadNone ==
  ASSUME NEW s \in Seq(Chr), NEW len \in Nat
  PROVE  Field(s, len, 0, FALSE) = s
<1>1. pad_spaces(0) = <<>>
  BY DEF pad_spaces
<1>2. ~ (0 > len)
  OBVIOUS
<1>3. Field(s, len, 0, FALSE) = <<>> \o s
  BY <1>1, <1>2 DEF Field
<1> QED BY <1>3, ConcatEmptySeq

LEMMA AlikePlainS ==
  ASSUME NEW s \in Seq(Chr)
  PROVE  Alike(PlainS(s), s)
<1>1. shell_puts(s) \in Seq(Chr) /\ Len(s) \in Nat /\ Seen(shell_puts(s)) = Seen(s)
  BY SeenPuts, LenProperties
<1>2. PlainS(s) = shell_puts(s)
  BY <1>1, PadNone DEF PlainS, FormatS
<1> QED BY <1>1, <1>2 DEF Alike

\* A column is the entry and blanks up to the width.
LEMMA ColumnIs ==
  ASSUME NEW s \in Seq(Chr), NEW w \in Nat
  PROVE  Column(s, w) = s \o pad_spaces(IF w > Len(s) THEN w - Len(s) ELSE 0)
<1>1. PICK n \in Nat : n = Len(s) /\ \A i \in 1 .. n : s[i] \in Chr
  BY LenProperties, ElementOfSeq
<1>2. PICK k \in Nat : k = IF w > n THEN w - n ELSE 0
  <2>1. (IF w > n THEN w - n ELSE 0) \in Nat
    OBVIOUS
  <2> QED BY <2>1
<1>3. PICK m \in Nat : m = n + k /\ m = IF n < w THEN w ELSE n
  BY <1>2
<1>4. PICK c : c = [i \in 1 .. m |-> IF i <= n THEN s[i] ELSE Blank]
  OBVIOUS
<1>5. Column(s, w) = c
  BY <1>1, <1>3, <1>4 DEF Column
<1>6. c \in Seq(Chr) /\ Len(c) = m
  BY <1>1, <1>4, BlankIsChr
<1>7. PICK b : b = pad_spaces(k) /\ b \in Seq(Chr) /\ Len(b) = k
               /\ \A i \in 1 .. k : b[i] = Blank
  <2>1. pad_spaces(k) = [i \in 1 .. k |-> Blank]
    BY DEF pad_spaces
  <2>2. Len([i \in 1 .. k |-> Blank]) = k
    OBVIOUS
  <2>3. [i \in 1 .. k |-> Blank] \in Seq(Chr)
    BY BlankIsChr
  <2> QED BY <2>1, <2>2, <2>3
<1>8. /\ s \o b \in Seq(Chr) /\ Len(s \o b) = n + k
      /\ \A i \in 1 .. n + k : (s \o b)[i] = IF i <= n THEN s[i] ELSE b[i - n]
  <2>1. b \in Seq(Chr) /\ Len(b) = k
    BY <1>7
  <2> QED BY <1>1, <2>1, ConcatProperties
<1>9. \A i \in 1 .. m : c[i] = (s \o b)[i]
  <2> SUFFICES ASSUME NEW i \in 1 .. m
               PROVE  c[i] = (s \o b)[i]
    OBVIOUS
  <2>1. CASE i <= n
    BY <1>3, <1>4, <1>8, <2>1
  <2>2. CASE ~ (i <= n)
    <3>1. i - n \in 1 .. k
      BY <1>3, <2>2
    <3> QED BY <1>3, <1>4, <1>7, <1>8, <2>2, <3>1
  <2> QED BY <2>1, <2>2
<1>10. c = s \o b
  BY <1>3, <1>6, <1>8, <1>9, SeqEqual
<1> QED BY <1>1, <1>2, <1>5, <1>7, <1>10

LEMMA AlikeField ==
  ASSUME NEW a, NEW s, Alike(a, s), NEW w \in Nat
  PROVE  Alike(Field(a, Len(s), w, TRUE), Column(s, w))
<1>1. s \in Seq(Chr) /\ Len(s) \in Nat
  BY LenProperties DEF Alike
<1>2. PICK k \in Nat : k = IF w > Len(s) THEN w - Len(s) ELSE 0
  BY <1>1
<1>3. pad_spaces(k) \in Seq(Chr)
  BY PadType
<1>4. Column(s, w) = s \o pad_spaces(k)
  BY <1>1, <1>2, ColumnIs
<1>5. Field(a, Len(s), w, TRUE) = a \o pad_spaces(k)
  BY <1>2 DEF Field
<1> QED BY <1>3, <1>4, <1>5, AlikeSame, AlikeConcat

LEMMA AlikeFormatS ==
  ASSUME NEW s \in Seq(Chr), NEW w \in Nat
  PROVE  Alike(FormatS(s, w, TRUE), Column(s, w))
<1>1. Alike(shell_puts(s), s)
  BY SeenPuts DEF Alike
<1> QED BY <1>1, AlikeField DEF FormatS

\* The digits of uint_to_buf are the decimal digits of the number.
LEMMA DecimalIs ==
  ASSUME NEW n \in UInt
  PROVE  uint_to_buf(n) = Decimal(n)
<1>1. n \in Nat
  BY QuotientsEnd
<1>2. PICK K : K = {k \in 1 .. 10 : n \div Tens[k] < 10}
  OBVIOUS
<1>3. Lowest({k \in 1 .. MaxDigits : n \div Tens[k] < 10}) = Lowest(K)
  BY <1>2 DEF MaxDigits
<1>4. CASE n = 0
  <2>1. n \div Tens[1] = 0 /\ Tens[1] = 1
    BY <1>4 DEF Tens
  <2>2. Lowest(K) = 1
    <3>1. K \subseteq Nat /\ 1 \in K /\ \A k \in K : 1 <= k
      BY <1>2, <2>1
    <3> QED BY <3>1, LowestIs
  <2>3. Decimal(n) = [i \in 1 .. 1 |-> Digit[((n \div Tens[(1 - i) + 1]) % 10) + 1]]
    BY <1>3, <2>2 DEF Decimal
  <2>4. \A i \in 1 .. 1 : (1 - i) + 1 = 1 /\ i = 1
    OBVIOUS
  <2>5. Digit[((n \div Tens[1]) % 10) + 1] = "0"
    BY <2>1 DEF Digit
  <2>6. Decimal(n) = [i \in 1 .. 1 |-> "0"]
    BY <2>3, <2>4, <2>5
  <2>7. uint_to_buf(n) = <<"0">>
    BY <1>4 DEF uint_to_buf
  <2> QED BY <2>6, <2>7
<1>5. CASE n # 0
  <2>1. PICK Q : Q = Quotients(n)
    OBVIOUS
  <2>2. PICK len \in 1 .. 10 :
          /\ Q[len] = 0 /\ \A j \in 0 .. len - 1 : Q[j] # 0
          /\ uint_to_buf(n) = [i \in 1 .. len |-> Digit[(Q[len - i] % 10) + 1]]
    BY <1>5, <2>1, DigitsFacts
  <2>3. /\ \A k \in 0 .. 10 : Q[k] \in Nat
        /\ \A k \in 1 .. 10 : Q[k] = Q[k - 1] \div 10
    BY <1>1, <2>1, QuotientsAre DEF MaxDigits
  <2>4. \A k \in 1 .. 10 : Q[k - 1] = n \div Tens[k]
    <3>1. \A k \in 0 .. 9 : Q[k] = n \div Tens[k + 1]
      BY <1>1, <2>1, QuotientsDivide
    <3>2. \A k \in 1 .. 10 : k - 1 \in 0 .. 9 /\ (k - 1) + 1 = k
      OBVIOUS
    <3> QED BY <3>1, <3>2
  <2>5. \A k \in 1 .. 10 : Q[k - 1] < 10 <=> Q[k] = 0
    <3> SUFFICES ASSUME NEW k \in 1 .. 10
                 PROVE  Q[k - 1] < 10 <=> Q[k] = 0
      OBVIOUS
    <3>1. PICK q \in Nat : q = Q[k - 1]
      BY <2>3
    <3>2. Q[k] = q \div 10
      BY <2>3, <3>1
    <3>3. q < 10 <=> q \div 10 = 0
      OBVIOUS
    <3> QED BY <3>1, <3>2, <3>3
  <2>6. Lowest(K) = len
    <3>1. K = {k \in 1 .. 10 : Q[k] = 0}
      BY <1>2, <2>4, <2>5
    <3>2. K \subseteq Nat /\ len \in K
      BY <2>2, <3>1
    <3>3. \A k \in K : len <= k
      <4> SUFFICES ASSUME NEW k \in K, k < len
                   PROVE  FALSE
        BY <3>1
      <4>1. k \in 0 .. len - 1 /\ Q[k] = 0
        BY <3>1
      <4> QED BY <2>2, <4>1
    <3> QED BY <3>2, <3>3, LowestIs
  <2>7. Decimal(n) = [i \in 1 .. len |-> Digit[((n \div Tens[(len - i) + 1]) % 10) + 1]]
    BY <1>3, <2>6 DEF Decimal
  <2>8. \A i \in 1 .. len : Q[len - i] = n \div Tens[(len - i) + 1]
    <3> SUFFICES ASSUME NEW i \in 1 .. len
                 PROVE  Q[len - i] = n \div Tens[(len - i) + 1]
      OBVIOUS
    <3>1. PICK k \in 1 .. 10 : k = (len - i) + 1 /\ k - 1 = len - i
      OBVIOUS
    <3> QED BY <2>4, <3>1
  <2> QED BY <2>2, <2>7, <2>8
<1> QED BY <1>4, <1>5

LEMMA AlikeDigits ==
  ASSUME NEW n \in UInt
  PROVE  /\ Decimal(n) \in Seq(Chr) /\ Len(uint_to_buf(n)) = Len(Decimal(n))
         /\ Alike(Text(uint_to_buf(n)), Decimal(n))
BY BufType, DecimalIs, AlikeText

LEMMA AlikePlainU ==
  ASSUME NEW n \in UInt
  PROVE  Alike(PlainU(n), Decimal(n))
<1>1. PICK b \in Seq(Chr) : b = uint_to_buf(n) /\ Len(b) \in Nat /\ b = Decimal(n)
  BY BufType, DecimalIs
<1>2. PlainU(n) = Text(b)
  BY <1>1, TextFacts, PadNone DEF PlainU, FormatU
<1> QED BY <1>1, <1>2, AlikeText

LEMMA AlikeFormatU ==
  ASSUME NEW n \in UInt, NEW w \in Nat
  PROVE  Alike(FormatU(n, w, TRUE), Column(Decimal(n), w))
<1>1. PICK b \in Seq(Chr) : b = uint_to_buf(n) /\ b = Decimal(n)
  BY BufType, DecimalIs
<1>2. FormatU(n, w, TRUE) = Field(Text(b), Len(b), w, TRUE)
  BY <1>1 DEF FormatU
<1> QED BY <1>1, <1>2, AlikeText, AlikeField

\* Pieces that look the same, one after the other.
LEMMA AlikeFlatten ==
  ASSUME NEW a \in Seq(Seq(Chr)), NEW b \in Seq(Seq(Chr)), Len(a) = Len(b),
         \A i \in 1 .. Len(a) : Alike(a[i], b[i])
  PROVE  Alike(FlattenSeq(a), FlattenSeq(b))
<1>1. PICK n \in Nat : n = Len(a) /\ n = Len(b)
  BY LenProperties
<1>2. \A i \in 1 .. n : Alike(a[i], b[i])
  BY <1>1
<1>3. /\ \A i \in 1 .. n : Flat(a)[i] \in Seq(Chr) /\ Flat(b)[i] \in Seq(Chr)
      /\ n # 0 => Flat(a)[1] = a[1] /\ Flat(b)[1] = b[1]
      /\ \A i \in 2 .. n : Flat(a)[i] = Flat(a)[i - 1] \o a[i] /\ Flat(b)[i] = Flat(b)[i - 1] \o b[i]
  BY <1>1, FlatFacts
<1> DEFINE same == {i \in 0 .. n : i = 0 \/ Alike(Flat(a)[i], Flat(b)[i])}
<1>4. 0 \in same
  OBVIOUS
<1>5. ASSUME NEW i \in 1 .. n, i - 1 \in same
      PROVE  i \in same
  <2>1. CASE i = 1
    BY <1>2, <1>3, <2>1
  <2>2. CASE i # 1
    <3>1. i \in 2 .. n /\ i - 1 # 0
      BY <2>2
    <3>2. Alike(Flat(a)[i - 1], Flat(b)[i - 1]) /\ Alike(a[i], b[i])
      BY <1>2, <1>5, <3>1
    <3>3. Alike(Flat(a)[i - 1] \o a[i], Flat(b)[i - 1] \o b[i])
      BY <3>2, AlikeConcat
    <3>4. Alike(Flat(a)[i], Flat(b)[i])
      BY <1>3, <3>1, <3>3
    <3>5. i \in 0 .. n
      OBVIOUS
    <3> QED BY <3>4, <3>5
  <2> QED BY <2>1, <2>2
<1> HIDE DEF same
<1>6. \A i \in 0 .. n : i \in same
  BY <1>4, <1>5, UpTo
<1>7. CASE n = 0
  <2>1. a = <<>> /\ b = <<>>
    BY <1>1, <1>7, EmptySeq
  <2> QED BY <2>1, FlattenEmpty, AlikeSame, SeenEmpty
<1>8. CASE n # 0
  <2>1. n \in same /\ n \in 0 .. n
    BY <1>6
  <2>2. Alike(Flat(a)[n], Flat(b)[n])
    BY <1>8, <2>1 DEF same
  <2>3. FlattenSeq(a) = Flat(a)[n] /\ FlattenSeq(b) = Flat(b)[n]
    BY <1>1, <1>8, FlattenIs
  <2> QED BY <2>2, <2>3
<1> QED BY <1>7, <1>8

\* The same with the pieces given by functions on 1 .. n.
LEMMA AlikePieces ==
  ASSUME NEW n \in Nat, NEW a, NEW b,
         a = [i \in 1 .. n |-> a[i]], b = [i \in 1 .. n |-> b[i]],
         \A i \in 1 .. n : Alike(a[i], b[i])
  PROVE  /\ a \in Seq(Seq(Chr)) /\ b \in Seq(Seq(Chr)) /\ Len(a) = n /\ Len(b) = n
         /\ Alike(FlattenSeq(a), FlattenSeq(b))
<1>1. \A i \in 1 .. n : a[i] \in Seq(Chr) /\ b[i] \in Seq(Chr)
  BY DEF Alike
<1>2. a \in Seq(Seq(Chr)) /\ Len(a) = n
  BY <1>1
<1>3. b \in Seq(Seq(Chr)) /\ Len(b) = n
  BY <1>1
<1> QED BY <1>2, <1>3, AlikeFlatten

-----------------------------------------------------------------------------
(* What a command has printed                                              *)

\* A command starts with nothing sent.  While cat works, the part of the file in
\* front of the offset of its descriptor has gone out, unless a NUL in it has
\* stopped the output of a piece.
NotText(f) == "NUL" \in Range(Content[f])

PrintInv ==
  /\ pc = "split" => out = <<>>
  /\ pc = "cat" =>
       LET f == fd_table[fd].file_index
           o == fd_table[fd].offset
       IN  /\ expected = <<"NL">> \o Content[f] \o <<"NL">>
           /\ out \in Seq(Chr)
           /\ NotText(f) \/ Alike(out, <<"NL">> \o SubSeq(Content[f], 1, o))

LEMMA Reported ==
  ASSUME PrintInv, pc = "split", NEW sent, NEW wanted, Report(sent, wanted), Alike(sent, wanted)
  PROVE  PrintInv' /\ CommandsPrint'
<1>1. out' = <<>> \o sent /\ expected' = wanted /\ pc' = "end"
  BY DEF Report, Emit, PrintInv
<1>2. out' = sent
  BY <1>1, ConcatEmptySeq DEF Alike
<1>3. Seen(out') = Seen(expected')
  BY <1>1, <1>2 DEF Alike
<1>4. CommandsPrint'
  BY <1>3 DEF CommandsPrint
<1> QED BY <1>1, <1>4 DEF PrintInv

\* An argument is the word of that number.
LEMMA ArgWord ==
  ASSUME Inv, WordsInv, NEW h, Dispatch(h), NEW n \in 1 .. Len(argv)
  PROVE  Arg(n) = AllWords(edit)[n] /\ Arg(n) \in Seq(Chr)
<1>1. pc = "split" /\ ~ Splitting
  BY DEF Dispatch
<1>2. PICK N \in Nat : N = Cardinality(Starts(edit)) /\ Len(argv) <= N /\ Len(argv) \in Nat
  BY <1>1, AllSplit
<1>3. n \in 1 .. N
  BY <1>2
<1>4. AllWords(edit)[n] = RunAt(edit, Nth(edit, n))
  BY <1>2, <1>3 DEF AllWords
<1> QED BY <1>1, <1>4, ArgIsWord, ArgType

LEMMA NewlineSeq ==
  /\ <<"NL">> \in Seq(Chr) /\ <<"msg">> \in Seq(Chr) /\ <<Blank>> \in Seq(Chr)
  /\ <<Blank, Blank>> \in Seq(Chr) /\ <<"CLS">> \in Seq(Chr)
  /\ <<"NL", "msg">> \in Seq(Chr) /\ <<"msg", "NL">> \in Seq(Chr)
  /\ <<"NL", "msg", "NL">> \in Seq(Chr) /\ <<"msg", "NL", "NL">> \in Seq(Chr)
  /\ <<"msg", "NL", "msg", "NL">> \in Seq(Chr)
<1>1. "NL" \in Chr /\ "msg" \in Chr /\ Blank \in Chr /\ "CLS" \in Chr
  BY ControlIsChr, BlankIsChr
<1>2. PICK a, b, c : a = "NL" /\ b = "msg" /\ c = Blank
  OBVIOUS
<1>3. /\ a \in Chr /\ b \in Chr /\ c \in Chr
  BY <1>1, <1>2
<1>4. /\ <<a>> \in Seq(Chr) /\ <<b>> \in Seq(Chr) /\ <<c>> \in Seq(Chr) /\ <<c, c>> \in Seq(Chr)
      /\ <<a, b>> \in Seq(Chr) /\ <<b, a>> \in Seq(Chr)
  BY <1>3
<1>5. <<a, b, a>> \in Seq(Chr) /\ <<b, a, a>> \in Seq(Chr) /\ <<b, a, b, a>> \in Seq(Chr)
  BY <1>3
<1> QED BY <1>1, <1>2, <1>4, <1>5

\* A message, an argument and another message.
LEMMA AlikeMessage ==
  ASSUME NEW a \in Seq(Chr), NEW b \in Seq(Chr), NEW x, NEW y, Alike(x, y)
  PROVE  Alike(Text(a) \o x \o Text(b), a \o y \o b)
<1>1. Alike(Text(a), a) /\ Alike(Text(b), b)
  BY AlikeText
<1>2. Alike(Text(a) \o x, a \o y)
  BY <1>1, AlikeConcat
<1> QED BY <1>1, <1>2, AlikeConcat

LEMMA UnknownPrints ==
  ASSUME Inv, WordsInv, PrintInv, Unknown
  PROVE  PrintInv' /\ CommandsPrint'
<1>1. pc = "split" /\ 1 \in 1 .. Len(argv)
  BY Dispatched DEF Unknown
<1>2. PICK s \in Seq(Chr) : s = Arg(1) /\ s = AllWords(edit)[1]
  BY <1>1, ArgWord DEF Unknown
<1>3. PICK sent, wanted :
        /\ sent = Text(<<"msg">>) \o PlainS(s) \o Text(<<"NL", "msg", "NL">>)
        /\ wanted = <<"msg">> \o s \o <<"NL", "msg", "NL">>
        /\ Report(sent, wanted)
  BY <1>2 DEF Unknown
<1>4. Alike(sent, wanted)
  BY <1>2, <1>3, NewlineSeq, AlikePlainS, AlikeMessage
<1> QED BY <1>1, <1>3, <1>4, Reported

LEMMA ExecFailsPrints ==
  ASSUME Inv, WordsInv, PrintInv, ExecFails
  PROVE  PrintInv' /\ CommandsPrint'
<1>1. pc = "split" /\ 2 \in 1 .. Len(argv)
  BY Dispatched DEF ExecFails
<1>2. PICK s \in Seq(Chr) : s = Arg(2) /\ s = AllWords(edit)[2]
  BY <1>1, ArgWord DEF ExecFails
<1>3. PICK sent, wanted :
        /\ sent = Text(<<"msg">>) \o PlainS(s) \o Text(<<"NL", "msg", "NL">>)
        /\ wanted = <<"msg">> \o s \o <<"NL", "msg", "NL">>
        /\ Report(sent, wanted)
  BY <1>2 DEF ExecFails
<1>4. Alike(sent, wanted)
  BY <1>2, <1>3, NewlineSeq, AlikePlainS, AlikeMessage
<1> QED BY <1>1, <1>3, <1>4, Reported

\* The commands whose output is one message.
LEMMA MessagePrints ==
  ASSUME Inv, PrintInv, Inform \/ cmd_clear \/ Usage \/ CatOpenFails
  PROVE  PrintInv' /\ CommandsPrint'
<1>1. pc = "split"
  BY DEF Inform, cmd_clear, Usage, CatOpenFails, Dispatch
<1>2. PICK text \in Seq(Chr) : Report(Text(text), text)
  <2>1. CASE Inform
    BY <2>1, NewlineSeq DEF Inform
  <2>2. CASE cmd_clear
    BY <2>2, NewlineSeq DEF cmd_clear
  <2>3. CASE Usage
    BY <2>3, NewlineSeq DEF Usage
  <2>4. CASE CatOpenFails
    BY <2>4, NewlineSeq DEF CatOpenFails
  <2> QED BY <2>1, <2>2, <2>3, <2>4
<1> QED BY <1>1, <1>2, AlikeText, Reported

LEMMA MemPrints ==
  ASSUME PrintInv, cmd_mem
  PROVE  PrintInv' /\ CommandsPrint'
<1>1. pc = "split"
  BY DEF cmd_mem, Dispatch
<1>2. PICK n, sent, wanted :
        /\ n \in Number
        /\ sent = Text(<<"NL", "msg">>) \o PlainU(n) \o Text(<<"msg", "NL", "NL">>)
        /\ wanted = <<"NL", "msg">> \o Decimal(n) \o <<"msg", "NL", "NL">>
        /\ Report(sent, wanted)
  BY DEF cmd_mem
<1>3. n \in UInt
  BY <1>2, ShellAssumption
<1>4. Alike(sent, wanted)
  BY <1>2, <1>3, NewlineSeq, AlikePlainU, AlikeMessage
<1> QED BY <1>1, <1>2, <1>4, Reported

LEMMA EchoPrints ==
  ASSUME Inv, WordsInv, PrintInv, cmd_echo
  PROVE  PrintInv' /\ CommandsPrint'
<1>1. pc = "split" /\ ~ Splitting /\ 1 \in 1 .. Len(argv) /\ Len(argv) \in Nat
  BY Dispatched DEF cmd_echo, Dispatch
<1>2. PICK m \in Nat : m + 1 = Len(argv) /\ m = Len(argv) - 1
  BY <1>1
<1>3. DOMAIN argv = 1 .. m + 1
  <2>1. argv \in Seq(Cell)
    BY DEF Inv, DataInv
  <2> QED BY <1>2, <2>1, LenProperties
<1>4. \A i \in 1 .. m + 1 : Arg(i) \in Seq(Chr)
  BY <1>1, <1>2, ArgType
<1>5. PICK w : w = [i \in 1 .. m + 1 |-> Arg(i)] /\ w = Words(edit)
  BY <1>1, <1>3, ArgumentsHold DEF ArgumentsAreWords
<1>6. w \in Seq(Seq(Chr)) /\ Len(w) = m + 1 /\ w # <<>> /\ \A i \in 1 .. m + 1 : w[i] = Arg(i)
  <2>1. \A i \in 1 .. m + 1 : w[i] = Arg(i)
    BY <1>5
  <2>2. w = [i \in 1 .. m + 1 |-> w[i]] /\ \A i \in 1 .. m + 1 : w[i] \in Seq(Chr)
    BY <1>4, <1>5, <2>1
  <2>3. m + 1 \in Nat
    OBVIOUS
  <2>4. w \in Seq(Seq(Chr)) /\ Len(w) = m + 1
    BY <2>2, <2>3
  <2> QED BY <2>1, <2>4, EmptySeq
<1>7. PICK t : /\ t = Tail(w) /\ t \in Seq(Seq(Chr)) /\ Len(t) = m
               /\ \A i \in 1 .. m : t[i] = w[i + 1]
  <2>1. PICK X : X = Seq(Chr)
    OBVIOUS
  <2>2. w \in Seq(X) /\ w # <<>>
    BY <1>6, <2>1
  <2>3. /\ Tail(w) \in Seq(X) /\ Len(Tail(w)) = Len(w) - 1
        /\ \A i \in 1 .. Len(Tail(w)) : Tail(w)[i] = w[i + 1]
    BY <2>2, HeadTailProperties
  <2>4. Len(w) - 1 = m
    BY <1>6
  <2> QED BY <2>1, <2>3, <2>4
<1>8. DOMAIN t = 1 .. m
  BY <1>7, LenProperties
<1>9. \A i \in 1 .. m : t[i] = Arg(i + 1) /\ t[i] \in Seq(Chr)
  <2> SUFFICES ASSUME NEW i \in 1 .. m
               PROVE  t[i] = Arg(i + 1) /\ t[i] \in Seq(Chr)
    OBVIOUS
  <2>1. i + 1 \in 1 .. m + 1
    OBVIOUS
  <2> QED BY <1>4, <1>6, <1>7, <2>1
<1>10. PICK a : a = [i \in 1 .. m |-> PlainS(Arg(i + 1)) \o Text(<<Blank>>)]
  OBVIOUS
<1>11. PICK b : b = [i \in 1 .. m |-> t[i] \o <<Blank>>]
  OBVIOUS
<1>12. PICK sent, wanted :
        /\ sent = FlattenSeq(a) \o Text(<<"NL">>) /\ wanted = FlattenSeq(b) \o <<"NL">>
        /\ Report(sent, wanted)
  <2>1. Joined(Tail(Words(edit))) = FlattenSeq(b)
    BY <1>5, <1>7, <1>8, <1>11 DEF Joined
  <2> QED BY <1>2, <1>10, <2>1 DEF cmd_echo
<1>13. \A i \in 1 .. m : Alike(a[i], b[i])
  <2> SUFFICES ASSUME NEW i \in 1 .. m
               PROVE  Alike(a[i], b[i])
    OBVIOUS
  <2>1. PICK s \in Seq(Chr) : s = Arg(i + 1) /\ s = t[i]
    BY <1>9
  <2>2. a[i] = PlainS(s) \o Text(<<Blank>>) /\ b[i] = s \o <<Blank>>
    BY <1>10, <1>11, <2>1
  <2> QED BY <2>2, NewlineSeq, AlikePlainS, AlikeText, AlikeConcat
<1>14. Alike(FlattenSeq(a), FlattenSeq(b))
  <2>1. a = [i \in 1 .. m |-> a[i]] /\ b = [i \in 1 .. m |-> b[i]]
    BY <1>10, <1>11
  <2> QED BY <1>13, <2>1, AlikePieces
<1>15. Alike(sent, wanted)
  BY <1>12, <1>14, NewlineSeq, AlikeText, AlikeConcat
<1> QED BY <1>1, <1>12, <1>15, Reported

\* ls: one line for each file, with its name.
LEMMA LsPrints ==
  ASSUME Inv, PrintInv, cmd_ls
  PROVE  PrintInv' /\ CommandsPrint'
<1>1. pc = "split"
  BY DEF cmd_ls, Dispatch
<1>2. PICK files, n :
        /\ n \in Nat /\ files = Listing(16) /\ Len(files) = n /\ DOMAIN files = 1 .. n
        /\ \A i \in 1 .. n : i - 1 \in Files /\ files[i].name = FileName[i - 1]
  BY ListingFacts
<1>3. PICK a : a = [i \in 1 .. n |->
                      Text(<<Blank, Blank>>) \o PlainS(files[i].name) \o Text(<<"NL">>)]
  OBVIOUS
<1>4. PICK b : b = [i \in 1 .. n |-> <<Blank, Blank>> \o FileName[i - 1] \o <<"NL">>]
  OBVIOUS
<1>5. PICK sent, wanted :
        /\ \/ sent = FlattenSeq(a) /\ wanted = FlattenSeq(b)
           \/ sent = Text(<<"msg", "NL">>) /\ wanted = <<"msg", "NL">>
        /\ Report(sent, wanted)
  BY <1>2, <1>3, <1>4 DEF cmd_ls
<1>6. \A i \in 1 .. n : Alike(a[i], b[i])
  <2> SUFFICES ASSUME NEW i \in 1 .. n
               PROVE  Alike(a[i], b[i])
    OBVIOUS
  <2>1. PICK s \in Seq(Chr) : s = FileName[i - 1] /\ s = files[i].name
    BY <1>2, ShellAssumption, PrintableSeq
  <2>2. /\ a[i] = Text(<<Blank, Blank>>) \o PlainS(s) \o Text(<<"NL">>)
        /\ b[i] = <<Blank, Blank>> \o s \o <<"NL">>
    BY <1>3, <1>4, <2>1
  <2> QED BY <2>2, NewlineSeq, AlikePlainS, AlikeMessage
<1>7. Alike(FlattenSeq(a), FlattenSeq(b))
  <2>1. a = [i \in 1 .. n |-> a[i]] /\ b = [i \in 1 .. n |-> b[i]]
    BY <1>3, <1>4
  <2> QED BY <1>2, <1>6, <2>1, AlikePieces
<1>8. Alike(Text(<<"msg", "NL">>), <<"msg", "NL">>)
  BY NewlineSeq, AlikeText
<1>9. Alike(sent, wanted)
  BY <1>5, <1>7, <1>8
<1> QED BY <1>1, <1>5, <1>9, Reported

-----------------------------------------------------------------------------
(* ps                                                                      *)

LEMMA FlattenThree ==
  ASSUME NEW ss, ss = [k \in 1 .. 3 |-> ss[k]],
         ss[1] \in Seq(Chr), ss[2] \in Seq(Chr), ss[3] \in Seq(Chr)
  PROVE  FlattenSeq(ss) = ss[1] \o ss[2] \o ss[3]
<1> DEFINE a == ss[1]
           b == ss[2]
           c == ss[3]
<1>1. \A k \in 1 .. 3 : ss[k] \in Seq(Chr)
  <2>1. \A k \in 1 .. 3 : k = 1 \/ k = 2 \/ k = 3
    OBVIOUS
  <2> QED BY <2>1
<1>2. PICK n \in Nat : n = 3 /\ n # 0 /\ Len(ss) = n /\ ss \in Seq(Seq(Chr))
  <2>1. Len(ss) = 3 /\ ss \in Seq(Seq(Chr))
    BY <1>1
  <2> QED BY <2>1
<1>3. FlattenSeq(ss) = Flat(ss)[n]
  <2>1. Len(ss) # 0
    BY <1>2
  <2> QED BY <1>2, <2>1, FlattenIs
<1>4. Flat(ss)[1] = ss[1] /\ \A k \in 2 .. n : Flat(ss)[k] = Flat(ss)[k - 1] \o ss[k]
  BY <1>2, FlatFacts
<1>5. Flat(ss)[2] = a \o b
  <2>1. 2 \in 2 .. n /\ 2 - 1 = 1
    BY <1>2
  <2> QED BY <1>4, <2>1
<1>6. Flat(ss)[3] = Flat(ss)[2] \o c
  <2>1. 3 \in 2 .. n /\ 3 - 1 = 2
    BY <1>2
  <2> QED BY <1>4, <2>1
<1> QED BY <1>2, <1>3, <1>5, <1>6

\* Two pieces in front of others.
Shifted(tt, ss) == Len(tt) = Len(ss) + 2 /\ \A i \in 1 .. Len(ss) : tt[i + 2] = ss[i]

LEMMA FlattenTwoMore ==
  ASSUME NEW ss \in Seq(Seq(Chr)), NEW tt \in Seq(Seq(Chr)), Shifted(tt, ss),
         tt[1] \in Seq(Chr), tt[2] \in Seq(Chr)
  PROVE  FlattenSeq(tt) = (tt[1] \o tt[2]) \o FlattenSeq(ss)
<1>0. PICK n \in Nat : /\ n = Len(ss) /\ Len(tt) = n + 2
                       /\ \A i \in 1 .. n : tt[i + 2] = ss[i]
  BY LenProperties DEF Shifted
<1>1. PICK ab \in Seq(Chr) : ab = tt[1] \o tt[2]
  BY ConcatProperties
<1>2. /\ Flat(tt)[1] = tt[1]
      /\ \A i \in 2 .. n + 2 : Flat(tt)[i] = Flat(tt)[i - 1] \o tt[i]
  <2>1. PICK m \in Nat : m = n + 2 /\ m = Len(tt) /\ m # 0
    BY <1>0
  <2>2. /\ Flat(tt)[1] = tt[1]
        /\ \A i \in 2 .. m : Flat(tt)[i] = Flat(tt)[i - 1] \o tt[i]
    BY <2>1, FlatFacts
  <2> QED BY <2>1, <2>2
<1>3. /\ \A i \in 1 .. n : Flat(ss)[i] \in Seq(Chr) /\ ss[i] \in Seq(Chr)
      /\ n # 0 => Flat(ss)[1] = ss[1]
      /\ \A i \in 2 .. n : Flat(ss)[i] = Flat(ss)[i - 1] \o ss[i]
  BY <1>0, FlatFacts, ElementOfSeq
<1>4. Flat(tt)[2] = ab
  <2>1. 2 \in 2 .. n + 2 /\ 2 - 1 = 1
    OBVIOUS
  <2> QED BY <1>1, <1>2, <2>1
<1> DEFINE ok == {i \in 0 .. n : i = 0 \/ Flat(tt)[i + 2] = ab \o Flat(ss)[i]}
<1>5. 0 \in ok
  OBVIOUS
<1>6. ASSUME NEW i \in 1 .. n, i - 1 \in ok
      PROVE  i \in ok
  <2>1. i + 2 \in 2 .. n + 2 /\ (i + 2) - 1 = i + 1 /\ i \in 0 .. n
    OBVIOUS
  <2>2. Flat(tt)[i + 2] = Flat(tt)[i + 1] \o ss[i]
    BY <1>0, <1>2, <2>1
  <2>3. CASE i = 1
    <3>1. i + 1 = 2 /\ Flat(ss)[i] = ss[i]
      BY <1>3, <2>3
    <3> QED BY <1>4, <2>1, <2>2, <3>1
  <2>4. CASE i # 1
    <3>1. i \in 2 .. n /\ i - 1 # 0 /\ (i - 1) + 2 = i + 1 /\ i - 1 \in 1 .. n
      BY <2>4
    <3>2. Flat(tt)[i + 1] = ab \o Flat(ss)[i - 1]
      BY <1>6, <3>1
    <3>3. PICK x \in Seq(Chr), y \in Seq(Chr) : x = Flat(ss)[i - 1] /\ y = ss[i]
      BY <1>3, <3>1
    <3>4. (ab \o x) \o y = ab \o (x \o y)
      BY ConcatShift, ZenonT(30)
    <3>5. Flat(ss)[i] = x \o y
      BY <1>3, <3>1, <3>3
    <3> QED BY <2>1, <2>2, <3>2, <3>3, <3>4, <3>5
  <2> QED BY <2>3, <2>4
<1> HIDE DEF ok
<1>7. \A i \in 0 .. n : i \in ok
  BY <1>5, <1>6, UpTo
<1>8. FlattenSeq(tt) = Flat(tt)[n + 2]
  BY <1>0, FlattenIs
<1>9. CASE n = 0
  <2>1. ss = <<>>
    BY <1>0, <1>9, EmptySeq
  <2>2. FlattenSeq(ss) = <<>> /\ n + 2 = 2
    BY <1>9, <2>1, FlattenEmpty
  <2> QED BY <1>1, <1>4, <1>8, <2>2, ConcatEmptySeq
<1>10. CASE n # 0
  <2>1. n \in ok
    BY <1>7
  <2>2. Flat(tt)[n + 2] = ab \o Flat(ss)[n]
    BY <1>10, <2>1 DEF ok
  <2>3. FlattenSeq(ss) = Flat(ss)[n]
    BY <1>0, <1>10, FlattenIs
  <2> QED BY <1>1, <1>8, <2>2, <2>3
<1> QED BY <1>9, <1>10

\* A line of the table, and the row that ps prints for it.
LineOf(r) == FlattenSeq([k \in 1 .. 3 |-> Column(r[k], Widths[k])]) \o <<"NL">>

LEMMA RowAlike ==
  ASSUME NEW x \in Seq(Chr), NEW y \in Seq(Chr), NEW z \in Seq(Chr), NEW a,
         Alike(a, Column(x, Widths[1]))
  PROVE  Alike(Row(a, y, z), LineOf(<<x, y, z>>))
<1>1. Widths[1] \in Nat /\ Widths[2] \in Nat /\ Widths[3] \in Nat
  BY ShellAssumption
<1>2. PICK q, r, s : q = Column(x, Widths[1]) /\ r = Column(y, Widths[2]) /\ s = Column(z, Widths[3])
  OBVIOUS
<1>3. /\ Alike(FormatS(y, Widths[2], TRUE), r) /\ Alike(FormatS(z, Widths[3], TRUE), s)
      /\ Alike(a, q)
  BY <1>1, <1>2, AlikeFormatS
<1>4. q \in Seq(Chr) /\ r \in Seq(Chr) /\ s \in Seq(Chr)
  BY <1>3 DEF Alike
<1>5. PICK ss : ss = [k \in 1 .. 3 |-> Column(<<x, y, z>>[k], Widths[k])]
  OBVIOUS
<1>6. ss[1] = q /\ ss[2] = r /\ ss[3] = s /\ ss = [k \in 1 .. 3 |-> ss[k]]
  BY <1>2, <1>5
<1>7. FlattenSeq(ss) = q \o r \o s
  <2>1. ss[1] \in Seq(Chr) /\ ss[2] \in Seq(Chr) /\ ss[3] \in Seq(Chr)
    BY <1>4, <1>6
  <2>2. FlattenSeq(ss) = ss[1] \o ss[2] \o ss[3]
    BY <1>6, <2>1, FlattenThree, Zenon
  <2> QED BY <1>6, <2>2
<1>8. LineOf(<<x, y, z>>) = q \o r \o s \o <<"NL">>
  BY <1>5, <1>7 DEF LineOf
<1>9. Alike(a \o FormatS(y, Widths[2], TRUE), q \o r)
  BY <1>3, AlikeConcat
<1>10. Alike(a \o FormatS(y, Widths[2], TRUE) \o FormatS(z, Widths[3], TRUE), q \o r \o s)
  BY <1>3, <1>9, AlikeConcat
<1>11. Alike(Text(<<"NL">>), <<"NL">>)
  BY NewlineSeq, AlikeText
<1>12. Alike(a \o FormatS(y, Widths[2], TRUE) \o FormatS(z, Widths[3], TRUE) \o Text(<<"NL">>),
             q \o r \o s \o <<"NL">>)
  BY <1>10, <1>11, AlikeConcat
<1> QED BY <1>8, <1>12 DEF Row

TaskInfo == [id : UInt, name : Seq(Printable), state : UInt]
TaskLine(t) == <<Decimal(t.id), t.name, <<StateName(t.state)>> >>
TaskRow(t) == Row(FormatU(t.id, Widths[1], TRUE), t.name, <<StateName(t.state)>>)

LEMMA TaskAlike ==
  ASSUME NEW t \in TaskInfo
  PROVE  Alike(TaskRow(t), LineOf(TaskLine(t)))
<1>1. t.id \in UInt /\ t.name \in Seq(Printable) /\ t.state \in UInt /\ Widths[1] \in Nat
  BY ShellAssumption DEF TaskInfo
<1>2. t.name \in Seq(Chr) /\ <<StateName(t.state)>> \in Seq(Chr)
  BY <1>1, PrintableSeq, StateNameType
<1>3. Decimal(t.id) \in Seq(Chr)
  BY <1>1, AlikeDigits
<1>4. Alike(FormatU(t.id, Widths[1], TRUE), Column(Decimal(t.id), Widths[1]))
  BY <1>1, AlikeFormatU
<1> QED BY <1>2, <1>3, <1>4, RowAlike DEF TaskRow, TaskLine

\* The title and its rule, and then the tasks.
LEMMA PsPrints ==
  ASSUME PrintInv, cmd_ps
  PROVE  PrintInv' /\ CommandsPrint'
<1>1. pc = "split"
  BY DEF cmd_ps, Dispatch
<1>2. PICK title : title = Row(FormatS(<<"msg">>, Widths[1], TRUE), <<"msg">>, <<"msg">>)
  OBVIOUS
<1>3. PICK head : head = << <<"msg">>, <<"msg">>, <<"msg">> >>
  OBVIOUS
<1>4. PICK tasks, sent, ss, rows, wanted :
        /\ tasks \in Tasks
        /\ ss = [i \in DOMAIN tasks |-> TaskRow(tasks[i])]
        /\ sent = Text(<<"NL">>) \o title \o title \o FlattenSeq(ss) \o Text(<<"NL">>)
        /\ rows = [i \in 1 .. Len(tasks) + 2 |-> IF i <= 2 THEN head ELSE TaskLine(tasks[i - 2])]
        /\ wanted = <<"NL">> \o Table(rows) \o <<"NL">>
        /\ Report(sent, wanted)
  BY <1>2, <1>3 DEF cmd_ps, TaskRow, TaskLine
<1>5. tasks \in Seq(TaskInfo)
  BY <1>4, ShellAssumption DEF TaskInfo
<1>6. PICK n \in Nat : n = Len(tasks) /\ DOMAIN tasks = 1 .. n
  BY <1>5, LenProperties
<1>7. \A i \in 1 .. n : tasks[i] \in TaskInfo
  BY <1>5, <1>6, ElementOfSeq
<1>8. PICK m \in Nat : m = n + 2
  OBVIOUS
<1>9. /\ \A i \in 1 .. m : i <= 2 => rows[i] = head
      /\ \A i \in 1 .. n : rows[i + 2] = TaskLine(tasks[i])
      /\ DOMAIN rows = 1 .. m
  <2>1. rows = [i \in 1 .. m |-> IF i <= 2 THEN head ELSE TaskLine(tasks[i - 2])]
    BY <1>4, <1>6, <1>8
  <2>2. \A i \in 1 .. n : i + 2 \in 1 .. m /\ ~ (i + 2 <= 2) /\ (i + 2) - 2 = i
    BY <1>8
  <2>3. \A i \in 1 .. n : rows[i + 2] = TaskLine(tasks[(i + 2) - 2])
    BY <2>1, <2>2
  <2> QED BY <2>1, <2>2, <2>3
<1>10. PICK line0 : line0 = LineOf(head) /\ Alike(title, line0)
  <2>1. Alike(FormatS(<<"msg">>, Widths[1], TRUE), Column(<<"msg">>, Widths[1]))
    <3>1. Widths[1] \in Nat /\ <<"msg">> \in Seq(Chr)
      BY NewlineSeq, ShellAssumption
    <3> QED BY <3>1, AlikeFormatS
  <2> QED BY <1>2, <1>3, <2>1, NewlineSeq, RowAlike
<1>11. PICK ll : ll = [i \in 1 .. n |-> LineOf(TaskLine(tasks[i]))]
  OBVIOUS
<1>12. /\ ss \in Seq(Seq(Chr)) /\ ll \in Seq(Seq(Chr)) /\ Len(ll) = n
       /\ Alike(FlattenSeq(ss), FlattenSeq(ll))
  <2>1. ss = [i \in 1 .. n |-> ss[i]] /\ ll = [i \in 1 .. n |-> ll[i]]
    BY <1>4, <1>6, <1>11
  <2>2. \A i \in 1 .. n : ss[i] = TaskRow(tasks[i]) /\ ll[i] = LineOf(TaskLine(tasks[i]))
    BY <1>4, <1>6, <1>11
  <2>3. \A i \in 1 .. n : Alike(ss[i], ll[i])
    BY <1>7, <2>2, TaskAlike
  <2> QED BY <2>1, <2>3, AlikePieces
<1>13. PICK tt : tt = [r \in 1 .. m |-> LineOf(rows[r])]
  OBVIOUS
<1>14. Table(rows) = FlattenSeq(tt)
  BY <1>9, <1>13 DEF Table, LineOf
<1>15. title \in Seq(Chr) /\ line0 \in Seq(Chr)
  BY <1>10 DEF Alike
<1>16. tt[1] = line0 /\ tt[2] = line0 /\ \A i \in 1 .. n : tt[i + 2] = ll[i]
  <2>1. 1 \in 1 .. m /\ 2 \in 1 .. m /\ \A i \in 1 .. n : i + 2 \in 1 .. m
    BY <1>8
  <2>2. \A r \in 1 .. m : tt[r] = LineOf(rows[r])
    BY <1>13
  <2>3. rows[1] = head /\ rows[2] = head
    BY <1>9, <2>1
  <2> QED BY <1>9, <1>10, <1>11, <2>1, <2>2, <2>3
<1>17. tt \in Seq(Seq(Chr)) /\ Len(tt) = m
  <2>1. \A r \in 1 .. m : tt[r] \in Seq(Chr)
    <3> SUFFICES ASSUME NEW r \in 1 .. m
                 PROVE  tt[r] \in Seq(Chr)
      OBVIOUS
    <3>1. CASE r = 1 \/ r = 2
      BY <1>15, <1>16, <3>1
    <3>2. CASE ~ (r = 1 \/ r = 2)
      <4>1. PICK i \in 1 .. n : r = i + 2
        <5>1. r - 2 \in 1 .. n /\ r = (r - 2) + 2
          BY <1>8, <3>2
        <5> QED BY <5>1
      <4>2. ll[i] \in Seq(Chr)
        BY <1>12, ElementOfSeq
      <4> QED BY <1>16, <4>1, <4>2
    <3> QED BY <3>1, <3>2
  <2>2. tt = [r \in 1 .. m |-> tt[r]]
    BY <1>13
  <2> QED BY <2>1, <2>2
<1>18. FlattenSeq(tt) = (line0 \o line0) \o FlattenSeq(ll)
  <2>1. Len(tt) = n + 2 /\ n \in Nat
    BY <1>6, <1>8, <1>17
  <2>2. ll \in Seq(Seq(Chr)) /\ Len(ll) = n /\ tt \in Seq(Seq(Chr))
    BY <1>12, <1>17
  <2>3. Shifted(tt, ll)
    BY <1>16, <2>1, <2>2 DEF Shifted
  <2>4. FlattenSeq(tt) = (tt[1] \o tt[2]) \o FlattenSeq(ll)
    BY <1>15, <1>16, <2>2, <2>3, FlattenTwoMore, Zenon
  <2> QED BY <1>16, <2>4
<1>19. PICK nl, fl : nl = <<"NL">> /\ fl = FlattenSeq(ll) /\ nl \in Seq(Chr) /\ fl \in Seq(Chr)
  BY <1>12, NewlineSeq DEF Alike
<1>20. nl \o ((line0 \o line0) \o fl) = ((nl \o line0) \o line0) \o fl
  <2>1. line0 \o line0 \in Seq(Chr)
    BY <1>15, ConcatProperties
  <2>2. nl \o ((line0 \o line0) \o fl) = (nl \o (line0 \o line0)) \o fl
    BY <1>19, <2>1, ConcatShift
  <2>3. nl \o (line0 \o line0) = (nl \o line0) \o line0
    <3>1. line0 \in Seq(Chr) /\ nl \in Seq(Chr)
      BY <1>15, <1>19
    <3> QED BY <3>1, ConcatShift
  <2> QED BY <2>2, <2>3
<1>21. wanted = (((nl \o line0) \o line0) \o fl) \o nl
  BY <1>4, <1>14, <1>18, <1>19, <1>20
<1>22. Alike(Text(<<"NL">>), nl)
  BY <1>19, AlikeText
<1>23. Alike(Text(<<"NL">>) \o title, nl \o line0)
  BY <1>10, <1>22, AlikeConcat
<1>24. Alike(Text(<<"NL">>) \o title \o title, (nl \o line0) \o line0)
  BY <1>10, <1>23, AlikeConcat
<1>25. Alike(Text(<<"NL">>) \o title \o title \o FlattenSeq(ss), ((nl \o line0) \o line0) \o fl)
  BY <1>12, <1>19, <1>24, AlikeConcat
<1>26. Alike(sent, wanted)
  BY <1>4, <1>21, <1>22, <1>25, AlikeConcat
<1> QED BY <1>1, <1>4, <1>26, Reported

-----------------------------------------------------------------------------
(* cat                                                                     *)

LEMMA ContentType ==
  ASSUME NEW f \in Files
  PROVE  Content[f] \in Seq(Byte) /\ Content[f] \in Seq(Chr) /\ Size(f) = Len(Content[f])
<1>1. Content[f] \in Seq(Byte)
  BY FilesAssumption
<1>2. Byte \subseteq Chr
  BY DEF Chr
<1> QED BY <1>1, <1>2, SeqMonotonic DEF Size

LEMMA CatOpenPrints ==
  ASSUME Inv, WordsInv, PrintInv, CatOpen
  PROVE  PrintInv' /\ CommandsPrint'
<1>1. pc = "split" /\ 2 \in 1 .. Len(argv) /\ out = <<>>
  BY Dispatched DEF CatOpen, PrintInv
<1>2. PICK s \in Seq(Chr) : s = Arg(2) /\ s = AllWords(edit)[2]
  <2>1. Dispatch("cat")
    BY DEF CatOpen
  <2> QED BY <1>1, <2>1, ArgWord
<1>3. Named2.name = s
  BY <1>2 DEF Named2, PathOf
<1>4. /\ fd' = OpenResult(fd_table, Named2, O_RDONLY) /\ fd' >= 0
      /\ fd_table' = AfterOpen(fd_table, Named2, O_RDONLY)
      /\ out' = out \o Text(<<"NL">>) /\ pc' = "cat"
      /\ expected' = <<"NL">> \o Content[ramfs_lookup(s)] \o <<"NL">>
  BY <1>2 DEF CatOpen, Emit
<1>5. PICK h : h = OpenResult(fd_table, Named2, O_RDONLY) /\ h >= 0 /\ fd' = h
  BY <1>4
<1>6. PICK f \in Files : /\ f = ramfs_lookup(s) /\ h \in Handle
                         /\ fd_table' = Opened(fd_table, h, f)
  BY <1>3, <1>4, <1>5, OpenFacts
<1>7. Good(fd_table)
  BY DEF Inv, TableInv
<1>8. fd_table'[h].file_index = f /\ fd_table'[h].offset = 0
  BY <1>6, <1>7, OpenedGood
<1>9. out' \in Seq(Chr) /\ Alike(out', <<"NL">>)
  <2>1. Alike(Text(<<"NL">>), <<"NL">>)
    BY NewlineSeq, AlikeText
  <2>2. out' = Text(<<"NL">>)
    BY <1>1, <1>4, <2>1, ConcatEmptySeq DEF Alike
  <2> QED BY <2>1, <2>2 DEF Alike
<1>10. <<"NL">> \o SubSeq(Content[f], 1, 0) = <<"NL">>
  <2>1. SubSeq(Content[f], 1, 0) = <<>>
    BY SubSeqEmpty
  <2> QED BY <2>1, NewlineSeq, ConcatEmptySeq
<1>11. PrintInv'
  BY <1>4, <1>5, <1>6, <1>8, <1>9, <1>10 DEF PrintInv
<1>12. CommandsPrint'
  BY <1>4 DEF CommandsPrint
<1> QED BY <1>11, <1>12

\* The string in the buffer is what was read, if that holds no NUL.
LEMMA PieceIs ==
  ASSUME NEW m \in Nat, NEW b \in [0 .. m -> Byte \cup {"NUL"}], NEW bytes \in Seq(Byte),
         NEW n \in 0 .. m, n = Len(bytes), \A i \in 1 .. n : bytes[i] # "NUL"
  PROVE  String(Terminated(Filled(b, bytes), n), 0) = bytes
<1>1. PICK g : g = [i \in 0 .. m |-> IF i < n THEN bytes[i + 1] ELSE b[i]]
  OBVIOUS
<1>2. g = Filled(b, bytes)
  BY <1>1 DEF Filled
<1>3. PICK d : d = [g EXCEPT ![n] = "NUL"]
  OBVIOUS
<1>4. d = Terminated(Filled(b, bytes), n)
  BY <1>2, <1>3 DEF Terminated
<1>5. /\ DOMAIN d = 0 .. m /\ d[n] = "NUL"
      /\ \A k \in 0 .. n - 1 : d[k] = bytes[k + 1]
  <2>1. \A k \in 0 .. n - 1 : k \in 0 .. m /\ k # n /\ k < n
    OBVIOUS
  <2>2. \A k \in 0 .. n - 1 : g[k] = bytes[k + 1]
    BY <1>1, <2>1
  <2> QED BY <1>1, <1>3, <2>1, <2>2
<1>6. \A k \in 0 .. n - 1 : d[k] # "NUL"
  <2>1. \A k \in 0 .. n - 1 : k + 1 \in 1 .. n
    OBVIOUS
  <2> QED BY <1>5, <2>1
<1>7. End(d, 0) = n
  <2>1. 0 \in 0 .. m /\ n \in 0 .. m
    OBVIOUS
  <2> QED BY <1>5, <1>6, <2>1, EndIs
<1>8. String(d, 0) = [k \in 1 .. n |-> d[k - 1]]
  <2>1. n - 0 = n /\ \A k \in 1 .. n : 0 + k - 1 = k - 1
    OBVIOUS
  <2> QED BY <1>7, <2>1 DEF String
<1>9. \A k \in 1 .. n : d[k - 1] = bytes[k]
  <2>1. \A k \in 1 .. n : k - 1 \in 0 .. n - 1 /\ (k - 1) + 1 = k
    OBVIOUS
  <2> QED BY <1>5, <2>1
<1>10. bytes = [k \in 1 .. n |-> bytes[k]]
  BY LenProperties
<1> QED BY <1>4, <1>8, <1>9, <1>10

LEMMA PieceType ==
  ASSUME NEW m \in Nat, NEW b \in [0 .. m -> Byte \cup {"NUL"}], NEW bytes \in Seq(Byte),
         NEW n \in 0 .. m, n = Len(bytes)
  PROVE  String(Terminated(Filled(b, bytes), n), 0) \in Seq(Chr)
<1>1. PICK g : g = Filled(b, bytes)
  OBVIOUS
<1>2. \A i \in 0 .. m : i < n => bytes[i + 1] \in Byte
  BY ElementOfSeq
<1>3. g = [i \in 0 .. m |-> IF i < n THEN bytes[i + 1] ELSE b[i]]
  BY <1>1 DEF Filled
<1>4. g \in [0 .. m -> Byte \cup {"NUL"}]
  BY <1>2, <1>3
<1>5. PICK d : d = [g EXCEPT ![n] = "NUL"] /\ d = Terminated(Filled(b, bytes), n)
  BY <1>1 DEF Terminated
<1>6. d \in [0 .. m -> Byte \cup {"NUL"}] /\ d[n] = "NUL" /\ 0 \in 0 .. m
  BY <1>4, <1>5
<1>7. String(d, 0) \in Seq(Byte)
  BY <1>6, StringFacts
<1>8. Byte \subseteq Chr
  BY DEF Chr
<1> QED BY <1>5, <1>7, <1>8, SeqMonotonic

LEMMA CatReadPrints ==
  ASSUME Inv, PrintInv, CatRead
  PROVE  PrintInv' /\ CommandsPrint'
<1>1. /\ pc = "cat" /\ Good(fd_table) /\ IsOpen(fd_table, fd)
      /\ buffer \in [0 .. CatSize - 1 -> Byte \cup {"NUL"}]
  BY DEF Inv, DataInv, TableInv, CatRead
<1>2. PICK m \in Nat : m = CatSize - 1
  BY CellFacts
<1>3. PICK f \in Files, o \in Nat :
        /\ f = fd_table[fd].file_index /\ o = fd_table[fd].offset /\ o <= Size(f)
  BY <1>1, SlotFacts, SizeFacts DEF Good
<1>4. PICK bytes : bytes = DataOf(fd_table, fd, m)
  OBVIOUS
<1>5. PICK n \in Nat : /\ n = Len(bytes) /\ n <= m /\ o + n <= Size(f)
                       /\ bytes = SubSeq(Content[f], o + 1, o + n)
  <2>1. PICK k : k = Len(bytes)
    OBVIOUS
  <2>2. /\ k \in 0 .. Size(f) - o /\ (k = m \/ (k < m /\ k = Size(f) - o))
        /\ bytes = SubSeq(Content[f], o + 1, o + k)
    <3>1. Good(fd_table) /\ IsOpen(fd_table, fd)
      BY <1>1
    <3> QED BY <1>3, <1>4, <2>1, <3>1, DataFacts DEF Good
  <2>3. PICK z \in Nat : z = Size(f)
    BY SizeFacts
  <2>4. k \in Nat /\ k <= m /\ o + k <= Size(f)
    BY <1>3, <2>2, <2>3, SMTT(30)
  <2> QED BY <2>1, <2>2, <2>4
<1>6. PICK b : b = Terminated(Filled(buffer, bytes), n)
  OBVIOUS
<1>7. /\ fd_table' = Advanced(fd_table, fd, n) /\ buffer' = b
      /\ out' = out \o PlainS(String(b, 0)) /\ UNCHANGED <<pc, fd, expected>>
  BY <1>2, <1>4, <1>5, <1>6 DEF CatRead, Emit
<1>8. fd_table'[fd].file_index = f /\ fd_table'[fd].offset = o + n
  <2>1. n = Len(DataOf(fd_table, fd, m))
    BY <1>4, <1>5
  <2>2. /\ Advanced(fd_table, fd, n)[fd].file_index = fd_table[fd].file_index
        /\ Advanced(fd_table, fd, n)[fd].offset = fd_table[fd].offset + n
    BY <1>1, <2>1, AdvancedGood
  <2> QED BY <1>3, <1>7, <2>2
<1>9. /\ expected = <<"NL">> \o Content[f] \o <<"NL">> /\ out \in Seq(Chr)
      /\ NotText(f) \/ Alike(out, <<"NL">> \o SubSeq(Content[f], 1, o))
  BY <1>1, <1>3 DEF PrintInv
<1>10. out' \in Seq(Chr)
  <2>1. String(b, 0) \in Seq(Chr)
    <3>1. bytes \in Seq(Byte)
      BY <1>2, <1>3, <1>4, ReadFacts DEF DataOf
    <3>2. n \in 0 .. m /\ buffer \in [0 .. m -> Byte \cup {"NUL"}]
      BY <1>1, <1>2, <1>5
    <3> QED BY <1>5, <1>6, <3>1, <3>2, PieceType
  <2>2. PlainS(String(b, 0)) \in Seq(Chr)
    BY <2>1, FormatSType DEF PlainS
  <2> QED BY <1>7, <1>9, <2>2, ConcatProperties
<1>11. CASE NotText(f)
  BY <1>1, <1>7, <1>8, <1>9, <1>10, <1>11 DEF PrintInv, CommandsPrint
<1>12. CASE ~ NotText(f)
  <2>1. /\ Content[f] \in Seq(Chr) /\ Content[f] \in Seq(Byte) /\ Size(f) = Len(Content[f])
        /\ Size(f) \in Nat
    BY ContentType, SizeFacts
  <2>2. \A i \in 1 .. Size(f) : Content[f][i] # "NUL" /\ Content[f][i] \in Byte
    <3>1. DOMAIN Content[f] = 1 .. Size(f)
      BY <2>1, LenProperties
    <3>2. \A i \in 1 .. Size(f) : Content[f][i] \in Range(Content[f])
      BY <3>1 DEF Range
    <3> QED BY <1>12, <2>1, <3>2, ElementOfSeq DEF NotText
  <2>3. /\ bytes \in Seq(Byte) /\ \A i \in 1 .. n : bytes[i] # "NUL"
    <3>1. \A i \in o + 1 .. o + n : Content[f][i] \in Byte \ {"NUL"}
      BY <1>5, <2>1, <2>2
    <3>2. PICK x, y : x = o + 1 /\ y = o + n /\ x \in Int /\ y \in Int
      OBVIOUS
    <3>3. SubSeq(Content[f], x, y) \in Seq(Byte \ {"NUL"})
      BY <3>1, <3>2, SubSeqProperties
    <3>4. bytes \in Seq(Byte \ {"NUL"})
      BY <1>5, <3>2, <3>3
    <3>5. \A i \in 1 .. n : bytes[i] \in Byte \ {"NUL"}
      BY <1>5, <3>4, ElementOfSeq
    <3>6. bytes \in Seq(Byte)
      BY <3>4, SeqMonotonic
    <3> QED BY <3>5, <3>6
  <2>4. String(b, 0) = bytes
    <3>1. n \in 0 .. m /\ buffer \in [0 .. m -> Byte \cup {"NUL"}]
      BY <1>1, <1>2, <1>5
    <3> QED BY <1>5, <1>6, <2>3, <3>1, PieceIs
  <2>5. bytes \in Seq(Chr)
    BY <2>3, SeqMonotonic DEF Chr
  <2>6. Alike(PlainS(bytes), bytes)
    BY <2>5, AlikePlainS
  <2>7. PICK before : before = SubSeq(Content[f], 1, o) /\ before \in Seq(Chr)
    <3>1. PICK z \in Nat : z = Size(f) /\ o <= z
      BY <1>3, <2>1
    <3>2. \A i \in 1 .. o : Content[f][i] \in Chr
      BY <2>1, <3>1, ElementOfSeq
    <3>3. PICK x, y : x = 1 /\ y = o /\ x \in Int /\ y \in Int
      OBVIOUS
    <3>4. SubSeq(Content[f], x, y) \in Seq(Chr)
      BY <3>2, <3>3, SubSeqProperties
    <3> QED BY <3>3, <3>4
  <2>8. before \o bytes = SubSeq(Content[f], 1, o + n)
    <3>0. PICK z \in Nat : z = Len(Content[f]) /\ o <= z /\ o + n <= z
      BY <1>3, <1>5, <2>1
    <3>1. /\ 1 \in 1 .. Len(Content[f]) + 1 /\ o \in 1 - 1 .. Len(Content[f])
          /\ o + n \in o .. Len(Content[f])
      BY <3>0
    <3> QED BY <1>5, <2>1, <2>7, <3>1, ConcatAdjacentSubSeq
  <2>9. Alike(out', (<<"NL">> \o before) \o bytes)
    BY <1>7, <1>9, <1>12, <2>4, <2>6, <2>7, AlikeConcat
  <2>10. (<<"NL">> \o before) \o bytes = <<"NL">> \o SubSeq(Content[f], 1, o + n)
    <3>1. PICK nl \in Seq(Chr) : nl = <<"NL">>
      BY NewlineSeq
    <3>2. (nl \o before) \o bytes = nl \o (before \o bytes)
      BY <2>5, <2>7, ConcatShift, Zenon
    <3> QED BY <2>8, <3>1, <3>2
  <2>11. Alike(out', <<"NL">> \o SubSeq(Content[f], 1, o + n))
    BY <2>9, <2>10
  <2> QED BY <1>1, <1>7, <1>8, <1>9, <1>10, <2>11 DEF PrintInv, CommandsPrint
<1> QED BY <1>11, <1>12

LEMMA CatEndPrints ==
  ASSUME Inv, PrintInv, CatEnd
  PROVE  PrintInv' /\ CommandsPrint'
<1>1. pc = "cat" /\ Good(fd_table) /\ IsOpen(fd_table, fd)
  BY DEF Inv, TableInv, CatEnd
<1>2. PICK m \in Nat : m = CatSize - 1 /\ m # 0
  BY CellFacts
<1>3. PICK f \in Files, o \in Nat :
        /\ f = fd_table[fd].file_index /\ o = fd_table[fd].offset /\ o <= Size(f)
  BY <1>1, SlotFacts, SizeFacts DEF Good
<1>4. o = Size(f)
  <2>1. PICK k : k = Len(DataOf(fd_table, fd, m))
    OBVIOUS
  <2>2. k \in 0 .. Size(f) - o /\ (k = m \/ (k < m /\ k = Size(f) - o))
    BY <1>1, <1>2, <1>3, <2>1, DataFacts DEF Good
  <2>3. ~ (k > 0)
    BY <1>2, <2>1 DEF CatEnd, More
  <2>4. PICK z \in Nat : z = Size(f)
    BY SizeFacts
  <2>5. k \in 0 .. z - o /\ (k = m \/ k = z - o)
    BY <2>2, <2>4
  <2>6. o \in Nat /\ z \in Nat /\ m \in Nat /\ o <= z
    BY <1>2, <1>3, <2>4
  <2>7. k \in Nat /\ k <= z - o
    BY <2>5, <2>6
  <2>8. k = 0
    BY <2>3, <2>7
  <2>9. k # m
    BY <1>2, <2>8
  <2>10. o = z
    BY <2>5, <2>6, <2>8, <2>9
  <2> QED BY <2>4, <2>10
<1>5. /\ expected = <<"NL">> \o Content[f] \o <<"NL">> /\ out \in Seq(Chr)
      /\ NotText(f) \/ Alike(out, <<"NL">> \o SubSeq(Content[f], 1, o))
  BY <1>1, <1>3 DEF PrintInv
<1>6. out' = out \o Text(<<"NL">>) /\ expected' = expected /\ pc' = "end"
  BY DEF CatEnd, Emit
<1>7. Content[f] \in Seq(Chr) /\ Size(f) = Len(Content[f])
  BY ContentType
<1>8. PICK all \in Seq(Chr) : all = <<"NL">> \o Content[f]
  BY <1>7, NewlineSeq, ConcatProperties
<1>9. ASSUME NotText(f)
      PROVE  "NUL" \in Range(expected)
  <2>0. PICK nl \in Seq(Chr), cont \in Seq(Chr) : nl = <<"NL">> /\ cont = Content[f]
    BY <1>7, NewlineSeq
  <2>1. Range(all) = Range(<<"NL">>) \cup Range(Content[f])
    <3>1. Range(nl \o cont) = Range(nl) \cup Range(cont)
      BY RangeConcatenation
    <3> QED BY <1>8, <2>0, <3>1
  <2>2. Range(all \o <<"NL">>) = Range(all) \cup Range(<<"NL">>)
    <3>1. Range(all \o nl) = Range(all) \cup Range(nl)
      BY RangeConcatenation
    <3> QED BY <2>0, <3>1
  <2> QED BY <1>5, <1>8, <1>9, <2>1, <2>2 DEF NotText
<1>10. ASSUME Alike(out, <<"NL">> \o SubSeq(Content[f], 1, o))
       PROVE  Seen(out') = Seen(expected')
  <2>1. SubSeq(Content[f], 1, o) = Content[f]
    BY <1>4, <1>7, SubSeqFull
  <2>2. Alike(Text(<<"NL">>), <<"NL">>)
    BY NewlineSeq, AlikeText
  <2>3. Alike(out \o Text(<<"NL">>), <<"NL">> \o Content[f] \o <<"NL">>)
    BY <1>10, <2>1, <2>2, AlikeConcat
  <2> QED BY <1>5, <1>6, <2>3 DEF Alike
<1>11. CommandsPrint'
  BY <1>5, <1>6, <1>9, <1>10 DEF CommandsPrint
<1>12. PrintInv'
  BY <1>6 DEF PrintInv
<1> QED BY <1>11, <1>12

\* The other steps send nothing for a command.
LEMMA OtherPrints ==
  ASSUME PrintInv, CommandsPrint,
         \/ Start \/ NextPrompt \/ Word \/ ExecRuns \/ App \/ UNCHANGED vars
         \/ \E c \in Key : PressKey(c)
  PROVE  PrintInv' /\ CommandsPrint'
<1>1. CASE Start \/ NextPrompt \/ ExecRuns
  BY <1>1 DEF Start, NextPrompt, ExecRuns, PrintInv, CommandsPrint
<1>2. CASE App
  BY <1>2 DEF App, AppExits, AppOpens, AppPrints, PrintInv, CommandsPrint
<1>3. CASE Word
  BY <1>3 DEF Word, PrintInv, CommandsPrint
<1>4. CASE UNCHANGED vars
  <2>1. UNCHANGED <<pc, fd, fd_table, out, expected>>
    BY <1>4 DEF vars, command
  <2> QED BY <2>1 DEF PrintInv, CommandsPrint
<1>5. CASE Enter
  <2>1. out' = <<>> /\ expected' = <<>> /\ pc' \in {"end", "split"}
    BY <1>5 DEF Enter
  <2> QED BY <2>1 DEF PrintInv, CommandsPrint
<1>6. ASSUME NEW c \in Key, Backspace \/ Echo(c) \/ Beep \/ Ignore(c)
      PROVE  PrintInv' /\ CommandsPrint'
  <2>1. pc = "key" /\ pc' = pc
    BY <1>6 DEF Backspace, Echo, Beep, Ignore, Typing
  <2> QED BY <2>1 DEF PrintInv, CommandsPrint
<1>7. ASSUME NEW c \in Key, PressKey(c)
      PROVE  PrintInv' /\ CommandsPrint'
  BY <1>5, <1>6, <1>7 DEF PressKey
<1> QED BY <1>1, <1>2, <1>3, <1>4, <1>7

LEMMA NextPrints ==
  ASSUME Inv, WordsInv, PrintInv, CommandsPrint, [Next]_vars
  PROVE  PrintInv' /\ CommandsPrint'
<1>1. CASE execute_command
  BY <1>1, UnknownPrints, MessagePrints, EchoPrints, MemPrints, PsPrints, LsPrints,
     CatOpenPrints, CatReadPrints, CatEndPrints, ExecFailsPrints, OtherPrints
     DEF execute_command
<1>2. CASE ~ execute_command
  BY <1>2, OtherPrints DEF Next
<1> QED BY <1>1, <1>2

\* A command prints what it should, through the staging buffer, the limit on a
\* write, the conversions and, for cat, in pieces of its buffer: what the terminal
\* gets differs from the text only in carriage returns, for every size of those
\* buffers, unless the text holds a NUL.
THEOREM CommandsTheorem == Spec => []CommandsPrint
<1>1. Init => PrintInv /\ CommandsPrint
  BY DEF Init, PrintInv, CommandsPrint
<1>2. Inv /\ WordsInv /\ PrintInv /\ CommandsPrint /\ [Next]_vars
        => PrintInv' /\ CommandsPrint'
  BY NextPrints
<1> QED BY <1>1, <1>2, Invariant, WordsInvariant, PTL DEF Spec

-----------------------------------------------------------------------------
(* A command does not turn for ever                                        *)

\* How far a command is, and what is left of the line or of the file of cat.
Phase == IF pc = "split" THEN 3 ELSE IF pc = "cat" THEN 2 ELSE IF pc = "end" THEN 1 ELSE 0
Rest == IF pc = "split" THEN LineSize - p
        ELSE Size(fd_table[fd].file_index) - fd_table[fd].offset

AtWork == pc \in {"split", "cat", "end"}

Nearer ==
  \/ Phase' < Phase
  \/ Phase' = Phase /\ Rest \in Nat /\ Rest' \in Nat /\ Rest' < Rest

LEMMA WordNearer ==
  ASSUME Inv, Word
  PROVE  Nearer
<1>1. PICK e \in p .. pos : Advances(e)
  BY WordAdvances
<1>2. /\ p \in Nat /\ p < LineSize /\ pos \in Nat /\ LineSize \in Nat /\ p' \in Cell
      /\ pc = "split" /\ pc' = "split"
  BY <1>1, CellFacts DEF Inv, DataInv, Word, Advances
<1>3. PICK q \in Nat : q = p' /\ q < LineSize
  BY <1>2, CellFacts
<1>4. p < e /\ e <= q /\ e \in Nat
  BY <1>1, <1>2, <1>3 DEF Advances
<1>5. Rest = LineSize - p /\ Rest' = LineSize - q /\ Phase' = Phase
  BY <1>2, <1>3 DEF Rest, Phase
<1>6. LineSize - p \in Nat /\ LineSize - q \in Nat /\ LineSize - q < LineSize - p
  <2>1. p < q
    BY <1>2, <1>3, <1>4
  <2>2. PICK a \in Nat, b \in Nat, w \in Nat : a = p /\ b = q /\ w = LineSize /\ a < b /\ b < w
    BY <1>2, <1>3, <2>1
  <2>3. w - a \in Nat /\ w - b \in Nat /\ w - b < w - a
    BY <2>2
  <2> QED BY <2>2, <2>3
<1> QED BY <1>5, <1>6 DEF Nearer

LEMMA CatReadNearer ==
  ASSUME Inv, CatRead
  PROVE  Nearer
<1>1. pc = "cat" /\ pc' = "cat" /\ fd' = fd /\ Good(fd_table) /\ IsOpen(fd_table, fd)
  BY DEF Inv, TableInv, CatRead
<1>2. PICK m \in Nat : m = CatSize - 1
  BY CellFacts
<1>3. PICK f \in Files, o \in Nat :
        /\ f = fd_table[fd].file_index /\ o = fd_table[fd].offset /\ o <= Size(f)
  BY <1>1, SlotFacts, SizeFacts DEF Good
<1>4. PICK z \in Nat : z = Size(f) /\ o <= z
  BY <1>3, SizeFacts
<1>5. PICK n : n = Len(DataOf(fd_table, fd, m))
  OBVIOUS
<1>6. n > 0 /\ fd_table' = Advanced(fd_table, fd, n)
  BY <1>2, <1>5 DEF CatRead, More
<1>7. n \in 0 .. z - o
  BY <1>1, <1>3, <1>4, <1>5, DataFacts DEF Good
<1>8. /\ Advanced(fd_table, fd, n)[fd].file_index = fd_table[fd].file_index
      /\ Advanced(fd_table, fd, n)[fd].offset = fd_table[fd].offset + n
  BY <1>1, <1>5, AdvancedGood
<1>9. Rest = z - o /\ Rest' = z - (o + n) /\ Phase' = Phase
  BY <1>1, <1>3, <1>4, <1>6, <1>8 DEF Rest, Phase
<1>10. z - o \in Nat /\ z - (o + n) \in Nat /\ z - (o + n) < z - o
  BY <1>3, <1>4, <1>6, <1>7
<1> QED BY <1>9, <1>10 DEF Nearer

\* Every step between Enter and the next prompt shortens the way there: the split
\* loop moves along the line, and each turn of the loop of cat along its file,
\* whatever the size of the buffers.
THEOREM NearerTheorem == Spec => [][AtWork => Nearer]_vars
<1>1. ASSUME Inv, Next, AtWork
      PROVE  Nearer
  <2>1. CASE Word \/ CatRead
    BY <1>1, <2>1, WordNearer, CatReadNearer
  <2>2. CASE \/ Unknown \/ Inform \/ cmd_clear \/ cmd_echo \/ cmd_mem \/ cmd_ps \/ cmd_ls
             \/ Usage \/ CatOpenFails \/ ExecFails
    <3>1. pc = "split" /\ pc' = "end"
      BY <2>2 DEF Unknown, Inform, cmd_clear, cmd_echo, cmd_mem, cmd_ps, cmd_ls, Usage,
         CatOpenFails, ExecFails, Dispatch, Report
    <3> QED BY <3>1 DEF Phase, Nearer
  <2>3. CASE CatOpen \/ ExecRuns \/ CatEnd \/ NextPrompt
    <3>1. \/ pc = "split" /\ pc' \in {"cat", "app"}
          \/ pc = "cat" /\ pc' = "end"
          \/ pc = "end" /\ pc' = "key"
      BY <2>3 DEF CatOpen, ExecRuns, CatEnd, NextPrompt, Dispatch
    <3> QED BY <3>1 DEF Phase, Nearer
  <2>4. CASE Start \/ App \/ \E c \in Key : PressKey(c)
    <3>1. pc \in {"start", "app", "key"}
      BY <2>4 DEF Start, App, AppExits, AppOpens, AppPrints, PressKey, Enter, Backspace, Echo,
         Beep, Ignore, Typing
    <3> QED BY <1>1, <3>1 DEF AtWork
  <2> QED BY <1>1, <2>1, <2>2, <2>3, <2>4 DEF Next, execute_command
<1>2. Inv /\ [Next]_vars => [AtWork => Nearer]_vars
  BY <1>1
<1> QED BY <1>2, Invariant, PTL DEF Spec

=============================================================================
