---------------------------- MODULE DivMod_proofs -----------------------------
(***************************************************************************)
(* For every word size: __aeabi_idivmod divides as C says when the         *)
(* numerator is below a quarter of the words.                              *)
(***************************************************************************)
EXTENDS DivMod, TLAPS

-----------------------------------------------------------------------------
(* Arithmetic                                                              *)

LEMMA Sizes ==
  /\ Quarter \in Nat /\ Quarter > 0
  /\ Half \in Nat /\ Words \in Nat /\ Half = 2 * Quarter /\ Words = 4 * Quarter
BY DivModAssumption DEF Half, Words

\* A multiple of the word size is invisible modulo the word size.
LEMMA ModMultiple ==
  ASSUME NEW w \in Nat, w > 0, NEW k \in Int, NEW x \in 0 .. w - 1
  PROVE  (x + k * w) % w = x
<1> DEFINE y == x + k * w
           r == y % w
           q == y \div w
<1>1. y \in Int /\ q \in Int /\ r \in 0 .. w - 1 /\ y = q * w + r
  <2>1. y \in Int
    OBVIOUS
  <2> HIDE DEF y
  <2> QED BY <2>1
<1>2. (k - q) * w = r - x
  <2> HIDE DEF r, q
  <2>1. x + k * w = q * w + r
    BY <1>1
  <2> HIDE DEF y
  <2> QED BY <1>1, <2>1
<1> HIDE DEF r, q, y
<1>3. \A j \in Int : j >= 1 => j * w >= w
  OBVIOUS
<1>4. \A j \in Int : j <= -1 => j * w <= - w
  OBVIOUS
<1>5. k - q = 0
  <2>1. ~ (k - q >= 1)
    BY <1>1, <1>2, <1>3
  <2>2. ~ (k - q <= -1)
    BY <1>1, <1>2, <1>4
  <2> QED BY <1>1, <2>1, <2>2
<1>6. r = x
  BY <1>1, <1>2, <1>5
<1> QED BY <1>6 DEF r, y

\* The bits a single one reaches by shifting left, as the least set closed
\* under doubling.
Closed2(S) == 1 \in S /\ \A y \in S : 2 * y \in S
Bit == {x \in Nat : \A S \in SUBSET Nat : Closed2(S) => x \in S}

LEMMA BitFacts ==
  /\ Bit \subseteq Nat /\ 1 \in Bit
  /\ \A x \in Bit : 2 * x \in Bit
  /\ \A x \in Bit : x > 0
<1>1. Bit \subseteq Nat /\ 1 \in Bit
  BY DEF Bit, Closed2
<1>2. ASSUME NEW x \in Bit
      PROVE  2 * x \in Bit
  <2>1. 2 * x \in Nat
    BY <1>1
  <2>2. ASSUME NEW S \in SUBSET Nat, Closed2(S)
        PROVE  2 * x \in S
    <3>1. x \in S
      BY <2>2 DEF Bit
    <3> QED BY <2>2, <3>1 DEF Closed2
  <2> QED BY <2>1, <2>2 DEF Bit
<1>3. ASSUME NEW x \in Bit
      PROVE  x > 0
  <2> DEFINE S == {y \in Nat : y > 0}
  <2>1. S \in SUBSET Nat /\ Closed2(S)
    BY DEF Closed2
  <2> HIDE DEF S
  <2>2. x \in S
    BY <2>1 DEF Bit
  <2> QED BY <2>2 DEF S
<1> QED BY <1>1, <1>2, <1>3

LEMMA BitHalves ==
  ASSUME NEW x \in Bit, x # 1
  PROVE  \E y \in Bit : x = 2 * y
<1> DEFINE S == {1} \cup {2 * y : y \in Bit}
<1>1. S \in SUBSET Nat
  BY BitFacts
<1>2. Closed2(S)
  BY BitFacts DEF Closed2
<1>3. x \in S
  BY <1>1, <1>2 DEF Bit
<1> QED BY <1>3

LEMMA SignedFacts ==
  ASSUME NEW x \in Word
  PROVE  /\ Abs(x) \in Nat /\ Abs(x) <= Half
         /\ Signed(x) >= 0 => Signed(x) = x /\ Abs(x) = x
         /\ Signed(x) < 0 => /\ Signed(x) = x - Words /\ Abs(x) = Words - x
                             /\ Abs(x) > 0
<1>1. x \in 0 .. Words - 1
  BY DEF Word
<1>2. CASE x >= Half
  <2>1. Signed(x) = x - Words /\ Signed(x) < 0
    BY <1>1, <1>2, Sizes DEF Signed
  <2>2. Words - x \in 0 .. Words - 1
    BY <1>1, <1>2, Sizes
  <2>3. (Words - x) % Words = Words - x
    <3> DEFINE z == Words - x
    <3>1. z \in 0 .. Words - 1
      BY <2>2
    <3> HIDE DEF z
    <3>2. z % Words = z
      BY <3>1, Sizes
    <3> QED BY <3>2 DEF z
  <2> QED BY <1>1, <1>2, <2>1, <2>3, Sizes DEF Abs, Negated
<1>3. CASE x < Half
  BY <1>1, <1>3, Sizes DEF Abs, Signed
<1> QED BY <1>1, <1>2, <1>3, Sizes

-----------------------------------------------------------------------------
(* The loops, on numbers                                                   *)

\* One turn of .idiv_align.
LEMMA AlignTurn ==
  ASSUME NEW D \in Nat, D > 0, NEW N \in Nat, N < Quarter,
         NEW b \in Bit, NEW x, x = D * b, x < Half, x <= N
  PROVE  /\ Lsl(x) = D * Lsl(b) /\ Lsl(x) < Half
         /\ Lsl(b) \in Bit
<1>1. b \in Nat /\ b > 0 /\ 2 * b \in Bit /\ x \in Nat
  BY BitFacts
<1>2. b <= x
  BY <1>1
<1>3. 2 * x \in 0 .. Words - 1 /\ 2 * b \in 0 .. Words - 1 /\ 2 * x < Half
  BY <1>1, <1>2, Sizes
<1>4. Lsl(x) = 2 * x /\ Lsl(b) = 2 * b
  <2>1. \A y \in 0 .. Words - 1 : y % Words = y
    BY Sizes
  <2> QED BY <1>3, <2>1 DEF Lsl
<1>5. 2 * x = D * (2 * b)
  BY <1>1
<1> QED BY <1>1, <1>3, <1>4, <1>5

\* What .idiv_loop keeps: x is the divisor shifted by the bit b, q the
\* quotient and m the part of the numerator not divided yet.
Halfway(N, D, m, x, q, b) ==
  /\ b \in Bit /\ x = D * b /\ x < Half
  /\ m \in Nat /\ q \in Nat
  /\ N = q * D + m
  /\ m < 2 * x

LEMMA DivideTurn ==
  ASSUME NEW D \in Nat, D > 0, NEW N \in Nat, N < Quarter,
         NEW m, NEW x, NEW q, NEW b, Halfway(N, D, m, x, q, b),
         NEW m2, NEW q2,
         IF Ge(m, x) THEN m2 = (m - x) % Words /\ q2 = (q + b) % Words
         ELSE m2 = m /\ q2 = q
  PROVE  /\ Lsr(b) = 0 => m2 \in Nat /\ q2 \in Nat /\ N = q2 * D + m2 /\ m2 < D
         /\ Lsr(b) # 0 => Halfway(N, D, m2, Lsr(x), q2, Lsr(b))
<1>1. /\ b \in Bit /\ b \in Nat /\ b > 0 /\ x = D * b /\ x \in Nat /\ x < Half
      /\ m \in Nat /\ q \in Nat /\ N = q * D + m /\ m < 2 * x
  BY BitFacts DEF Halfway
<1>2. q * D \in Nat /\ q <= q * D /\ b <= x
  BY <1>1
<1>3. m <= N /\ q <= N
  BY <1>1, <1>2
<1>4. Ge(m, x) <=> m >= x
  BY <1>1, <1>3, Sizes DEF Ge, Signed
<1>5. m2 \in Nat /\ q2 \in Nat /\ N = q2 * D + m2 /\ m2 < x
  <2>1. CASE m >= x
    <3>1. m - x \in 0 .. Words - 1 /\ q + b \in 0 .. Words - 1
      BY <1>1, <1>2, <1>3, <2>1, Sizes
    <3>2. \A y \in 0 .. Words - 1 : y % Words = y
      BY Sizes
    <3>3. m2 = m - x /\ q2 = q + b
      BY <1>4, <2>1, <3>1, <3>2
    <3>4. (q + b) * D = q * D + D * b
      BY <1>1
    <3> QED BY <1>1, <1>2, <2>1, <3>1, <3>3, <3>4
  <2>2. CASE ~ (m >= x)
    BY <1>1, <1>4, <2>2
  <2> QED BY <2>1, <2>2
<1>6. CASE b = 1
  BY <1>1, <1>5, <1>6 DEF Lsr
<1>7. CASE b # 1
  <2>1. PICK c \in Bit : b = 2 * c
    BY <1>1, <1>7, BitHalves
  <2>2. c \in Nat /\ c > 0
    BY BitFacts
  <2>3. D * c \in Nat /\ x = 2 * (D * c) /\ D * c < Half
    <3>1. D * c \in Nat /\ x = D * (2 * c)
      BY <1>1, <2>1, <2>2
    <3>2. D * (2 * c) = 2 * (D * c)
      BY <2>2
    <3> DEFINE y == D * c
    <3>3. y \in Nat /\ x = 2 * y
      BY <3>1, <3>2
    <3> HIDE DEF y
    <3>4. y < Half
      BY <1>1, <3>3, Sizes
    <3> QED BY <3>3, <3>4 DEF y
  <2>4. Lsr(b) = c /\ c # 0
    BY <2>1, <2>2 DEF Lsr
  <2>5. Lsr(x) = D * c
    <3> DEFINE y == D * c
    <3>1. y \in Nat /\ x = 2 * y
      BY <2>3
    <3> HIDE DEF y
    <3>2. x \div 2 = y
      BY <3>1
    <3> QED BY <3>2 DEF Lsr, y
  <2> QED BY <1>5, <2>1, <2>3, <2>4, <2>5 DEF Halfway
<1> QED BY <1>6, <1>7


-----------------------------------------------------------------------------
(* Signs                                                                   *)

\* A word differs from the number it stands for by a multiple of Words.
LEMMA SignedWraps ==
  ASSUME NEW v \in Int, - Half <= v, v < Half, NEW k \in Int
  PROVE  Signed((v + k * Words) % Words) = v
<1>1. CASE v >= 0
  <2>1. v \in 0 .. Words - 1
    BY <1>1, Sizes
  <2>2. (v + k * Words) % Words = v
    BY <2>1, Sizes, ModMultiple
  <2> QED BY <1>1, <2>2, Sizes DEF Signed
<1>2. CASE v < 0
  <2> DEFINE u == v + Words
             j == k - 1
  <2>1. u \in 0 .. Words - 1 /\ j \in Int
    BY <1>2, Sizes
  <2>2. v + k * Words = u + j * Words
    BY Sizes
  <2>3. (u + j * Words) % Words = u
    <3> HIDE DEF u, j
    <3> QED BY <2>1, Sizes, ModMultiple
  <2>4. Signed(u) = v
    BY <1>2, Sizes DEF Signed
  <2> HIDE DEF u, j
  <2> QED BY <2>2, <2>3, <2>4
<1> QED BY <1>1, <1>2

LEMMA SignedMultiple ==
  ASSUME NEW x \in Word
  PROVE  Signed(x) \in Int /\ \E k \in Int : x = Signed(x) + k * Words
<1>1. x \in Int
  BY DEF Word
<1>2. CASE x >= Half
  <2>1. x = (x - Words) + 1 * Words
    BY <1>1, Sizes
  <2> QED BY <1>1, <1>2, <2>1, Sizes DEF Signed
<1>3. CASE ~ (x >= Half)
  <2>1. x = x + 0 * Words
    BY <1>1, Sizes
  <2> QED BY <1>1, <1>3, <2>1 DEF Signed
<1> QED BY <1>2, <1>3

LEMMA SignedAbs ==
  ASSUME NEW x \in Word
  PROVE  /\ Signed(x) \in Int /\ Abs(x) \in Nat
         /\ Signed(x) = IF Signed(x) < 0 THEN - Abs(x) ELSE Abs(x)
<1> DEFINE A == Signed(x)
           N == Abs(x)
<1>1. /\ A \in Int /\ N \in Nat /\ x \in Int
      /\ A >= 0 => A = x /\ N = x
      /\ A < 0 => A = x - Words /\ N = Words - x
  BY SignedFacts, SignedMultiple DEF Word
<1> HIDE DEF A, N
<1>2. A = IF A < 0 THEN - N ELSE N
  BY <1>1, Sizes
<1> QED BY <1>1, <1>2 DEF A, N

LEMMA NegatedFacts ==
  ASSUME NEW q \in Nat, q < Half
  PROVE  Negated(q) \in Word /\ Signed(Negated(q)) = - q
<1> DEFINE v == - q
<1>1. v \in Int /\ - Half <= v /\ v < Half
  BY Sizes
<1>2. Signed((v + 1 * Words) % Words) = v
  <2> HIDE DEF v
  <2> QED BY <1>1, SignedWraps
<1>3. Words - q = v + 1 * Words
  BY Sizes
<1>4. (Words - q) % Words \in Word
  <2> DEFINE z == Words - q
  <2>1. z \in Int
    BY Sizes
  <2> HIDE DEF z
  <2>2. z % Words \in Word
    BY <2>1, Sizes DEF Word
  <2> QED BY <2>2 DEF z
<1> QED BY <1>2, <1>3, <1>4 DEF Negated

\* mul and sub modulo the word size give the remainder of the signed numbers.
LEMMA RemainderWraps ==
  ASSUME NEW a \in Word, NEW b \in Word, NEW Q \in Word,
         NEW v, v = Signed(a) - Signed(Q) * Signed(b), - Half <= v, v < Half
  PROVE  Signed((a - Q * b) % Words) = v
<1>1. PICK i \in Int : a = Signed(a) + i * Words
  BY SignedMultiple
<1>2. PICK j \in Int : b = Signed(b) + j * Words
  BY SignedMultiple
<1>3. PICK l \in Int : Q = Signed(Q) + l * Words
  BY SignedMultiple
<1> DEFINE A == Signed(a)
           B == Signed(b)
           C == Signed(Q)
           k == i - C * j - l * B - l * j * Words
<1>4. A \in Int /\ B \in Int /\ C \in Int /\ Words \in Int
  BY SignedMultiple, Sizes
<1>5. a = A + i * Words /\ b = B + j * Words /\ Q = C + l * Words /\ v = A - C * B
  BY <1>1, <1>2, <1>3
<1> HIDE DEF A, B, C
<1>6. v \in Int /\ k \in Int
  BY <1>4, <1>5
<1>7. Q * b = C * B + C * (j * Words) + (l * Words) * B + (l * Words) * (j * Words)
  BY <1>4, <1>5
<1>8. a - Q * b = v + k * Words
  BY <1>4, <1>5, <1>7
<1> HIDE DEF k
<1> QED BY <1>6, <1>8, SignedWraps


\* The end of __aeabi_idivmod: with the signs put back the results are the
\* quotient and the remainder as C defines them.
LEMMA SignsPutBack ==
  ASSUME NEW a \in Word, NEW b \in Word, b # Half, Abs(a) < Quarter,
         NEW q \in Nat, NEW m \in Nat, Abs(a) = q * Abs(b) + m, m < Abs(b),
         NEW Q, Q = IF (Signed(a) < 0) # (Signed(b) < 0) THEN Negated(q) ELSE q
  PROVE  Quotient(Signed(a), Signed(b), Signed(Q), Signed((a - Q * b) % Words))
<1> DEFINE N == Abs(a)
           D == Abs(b)
           A == Signed(a)
           B == Signed(b)
           C == IF (A < 0) # (B < 0) THEN - q ELSE q
           v == IF A < 0 THEN - m ELSE m
<1>1. A \in Int /\ B \in Int
  BY SignedMultiple
<1>2. N \in Nat /\ D \in Nat /\ N < Quarter /\ N = q * D + m /\ m < D /\ q * D \in Nat
  BY SignedFacts
<1>3. A = IF A < 0 THEN - N ELSE N
  BY SignedAbs
<1>4. B = IF B < 0 THEN - D ELSE D
  BY SignedAbs
<1>5. q <= N /\ m <= N
  <2> HIDE DEF N, D
  <2>1. q <= q * D
    BY <1>2
  <2> QED BY <1>2, <2>1
<1>6. Q \in Word /\ Signed(Q) = C
  <2>1. q < Half /\ q \in Word
    <3> HIDE DEF N, D
    <3> QED BY <1>2, <1>5, Sizes DEF Word
  <2>2. CASE (A < 0) # (B < 0)
    BY <2>1, <2>2, NegatedFacts
  <2>3. CASE ~ ((A < 0) # (B < 0))
    <3>1. Signed(q) = q
      BY <2>1, Sizes DEF Signed
    <3> QED BY <2>1, <2>3, <3>1
  <2> QED BY <2>2, <2>3
<1> HIDE DEF N, D, A, B
<1>7. v = A - C * B /\ v \in Int /\ - Half <= v /\ v < Half
  <2>1. v \in Int /\ - Half <= v /\ v < Half
    BY <1>2, <1>5, Sizes
  <2>2. C * B = IF A < 0 THEN - (q * D) ELSE q * D
    <3>1. CASE A < 0 /\ B < 0
      BY <1>1, <1>2, <1>4, <3>1
    <3>2. CASE A < 0 /\ ~ (B < 0)
      BY <1>1, <1>2, <1>4, <3>2
    <3>3. CASE ~ (A < 0) /\ B < 0
      BY <1>1, <1>2, <1>4, <3>3
    <3>4. CASE ~ (A < 0) /\ ~ (B < 0)
      BY <1>1, <1>2, <1>4, <3>4
    <3> QED BY <3>1, <3>2, <3>3, <3>4
  <2>3. v = A - C * B
    <3> DEFINE x == q * D
               y == C * B
    <3>1. x \in Nat /\ N = x + m /\ y = IF A < 0 THEN - x ELSE x
      BY <1>2, <2>2
    <3> HIDE DEF x, y
    <3>2. v = A - y
      BY <1>1, <1>2, <1>3, <3>1
    <3> QED BY <3>2 DEF y
  <2> QED BY <2>1, <2>3
<1> HIDE DEF C, v
<1>8. Signed((a - Q * b) % Words) = v
  BY <1>6, <1>7, RemainderWraps DEF A, B
<1>9. Quotient(A, B, C, v)
  <2>1. A = C * B + v
    <3> DEFINE y == C * B
    <3>1. y \in Int /\ v = A - y
      BY <1>1, <1>7 DEF C
    <3> HIDE DEF y
    <3>2. A = y + v
      BY <1>1, <3>1
    <3> QED BY <3>2 DEF y
  <2>2. IF B < 0 THEN B < v /\ v < - B ELSE - B < v /\ v < B
    BY <1>1, <1>2, <1>4 DEF v
  <2>3. v # 0 => (v < 0 <=> A < 0)
    BY <1>1 DEF v
  <2> QED BY <2>1, <2>2, <2>3 DEF Quotient
<1> QED BY <1>6, <1>8, <1>9 DEF A, B

-----------------------------------------------------------------------------
(* The inductive invariant                                                 *)

\* Registers hold words.
TypeOK ==
  /\ {n, d, r0, r1, r2, r3} \subseteq Word
  /\ negative \in BOOLEAN
  /\ pc \in {"entry", "align", "loop", "sign", "end", "done"}

Signs == negative = ((Signed(n) < 0) # (Signed(d) < 0))

AlignInv == r0 = Abs(n) /\ r2 = 0 /\ r3 \in Bit /\ r1 = Abs(d) * r3 /\ r1 < Half

LoopInv == Halfway(Abs(n), Abs(d), r0, r1, r2, r3)

SignInv == Abs(n) = r2 * Abs(d) + r0 /\ r0 < Abs(d)

EndInv == \E q, m \in Nat :
  /\ Abs(n) = q * Abs(d) + m /\ m < Abs(d)
  /\ r0 = IF (Signed(n) < 0) # (Signed(d) < 0) THEN Negated(q) ELSE q

IInv ==
  /\ TypeOK
  /\ pc = "entry" => r0 = n /\ r1 = d
  /\ pc \in {"align", "loop", "sign"} => d # 0 /\ Signs
  /\ InRange =>
       /\ pc = "align" => AlignInv
       /\ pc = "loop" => LoopInv
       /\ pc = "sign" => SignInv
       /\ pc = "end" => IF d = 0 THEN r0 = 0 ELSE EndInv
  /\ DivisionIsExact

\* Modulo and halving stay among the words.
LEMMA WordFacts ==
  /\ \A x \in Int : x % Words \in Word
  /\ \A x \in Word : Lsr(x) \in Word /\ Lsl(x) \in Word /\ Abs(x) \in Word /\ Negated(x) \in Word
  /\ 0 \in Word /\ 1 \in Word /\ Word \subseteq Int
<1>1. \A x \in Int : x % Words \in Word
  BY Sizes DEF Word
<1>2. 0 \in Word /\ 1 \in Word /\ Word \subseteq Int
  BY Sizes DEF Word
<1>3. \A x \in Word : Lsr(x) \in Word
  BY Sizes DEF Word, Lsr
<1>4. \A x \in Word : Lsl(x) \in Word
  BY <1>1, <1>2 DEF Lsl
<1>5. \A x \in Word : Negated(x) \in Word
  BY <1>1, <1>2, Sizes DEF Negated
<1> QED BY <1>1, <1>2, <1>3, <1>4, <1>5 DEF Abs

\* What the range of the operands says about their absolute values.
LEMMA RangeFacts ==
  ASSUME TypeOK, InRange
  PROVE  /\ Abs(n) \in Nat /\ Abs(n) < Quarter
         /\ Abs(d) \in Nat /\ Abs(d) < Half
         /\ d # 0 => Abs(d) > 0
<1>1. n \in Word /\ d \in Word /\ d # Half /\ - Quarter < Signed(n) /\ Signed(n) < Quarter
  BY DEF TypeOK, InRange
<1>2. Abs(n) \in Nat /\ Abs(n) < Quarter
  <2> DEFINE A == Signed(n)
             N == Abs(n)
  <2>1. A \in Int /\ N \in Nat /\ A = IF A < 0 THEN - N ELSE N
    BY <1>1, SignedAbs
  <2>2. - Quarter < A /\ A < Quarter
    BY <1>1
  <2> HIDE DEF A, N
  <2>3. N \in Nat /\ N < Quarter
    BY <2>1, <2>2, Sizes
  <2> QED BY <2>3 DEF N
<1>3. /\ Abs(d) \in Nat /\ d \in Nat
      /\ Signed(d) >= 0 => Signed(d) = d /\ Abs(d) = d
      /\ Signed(d) < 0 => Abs(d) = Words - d /\ Abs(d) > 0
      /\ Signed(d) \in Int
  BY <1>1, SignedFacts, SignedMultiple DEF Word
<1>4. d < Half => Signed(d) = d
  BY <1>3, Sizes DEF Signed
<1>5. d >= Half => Signed(d) = d - Words
  BY DEF Signed
<1> QED BY <1>1, <1>2, <1>3, <1>4, <1>5, Sizes DEF Word

LEMMA InitInv == Init => IInv
<1> SUFFICES ASSUME Init
             PROVE  IInv
  OBVIOUS
<1>1. TypeOK
  BY WordFacts DEF Init, TypeOK
<1> QED BY <1>1 DEF Init, IInv, DivisionIsExact

LEMMA TypeStep ==
  ASSUME TypeOK, Next
  PROVE  TypeOK'
<1>1. /\ n \in Word /\ d \in Word /\ r0 \in Word /\ r1 \in Word /\ r2 \in Word /\ r3 \in Word
      /\ negative \in BOOLEAN /\ pc \in {"entry", "align", "loop", "sign", "end", "done"}
  BY DEF TypeOK
<1>2. CASE ByZero
  BY <1>1, <1>2, WordFacts DEF ByZero, TypeOK
<1>3. CASE Positive
  <2>1. negative' \in BOOLEAN
    BY <1>3 DEF Positive
  <2> QED BY <1>1, <1>3, <2>1, WordFacts DEF Positive, TypeOK
<1>4. CASE Align
  BY <1>1, <1>4, WordFacts DEF Align, TypeOK
<1>5. CASE Divide
  <2>1. r0 - r1 \in Int /\ r2 + r3 \in Int
    BY <1>1, WordFacts
  <2>2. (r0 - r1) % Words \in Word /\ (r2 + r3) % Words \in Word
    BY <2>1, WordFacts
  <2>3. r0' \in Word /\ r2' \in Word
    BY <1>1, <1>5, <2>2 DEF Divide
  <2>4. r1' \in Word /\ r3' \in Word
    BY <1>1, <1>5, WordFacts DEF Divide
  <2> QED BY <1>1, <1>5, <2>3, <2>4 DEF Divide, TypeOK
<1>6. CASE Sign
  BY <1>1, <1>6, WordFacts DEF Sign, TypeOK
<1>7. CASE Remainder
  <2>1. n - r0 * d \in Int
    BY <1>1, WordFacts
  <2>2. r1' \in Word
    BY <1>7, <2>1, WordFacts DEF Remainder
  <2> QED BY <1>1, <1>7, <2>2 DEF Remainder, TypeOK
<1> QED BY <1>2, <1>3, <1>4, <1>5, <1>6, <1>7 DEF Next


LEMMA PositiveStep ==
  ASSUME IInv, Positive
  PROVE  IInv'
<1>1. /\ pc' = "align" /\ n' = n /\ d' = d /\ d # 0 /\ r0' = Abs(n) /\ r1' = Abs(d)
      /\ r2' = 0 /\ r3' = 1 /\ negative' = ((Signed(n) < 0) # (Signed(d) < 0))
  BY DEF IInv, Positive
<1>2. TypeOK /\ TypeOK'
  BY TypeStep DEF IInv, Next
<1>3. Signs'
  BY <1>1, Zenon DEF Signs, Signed
<1>4. InRange' => AlignInv'
  <2> SUFFICES ASSUME InRange
               PROVE  AlignInv'
    BY <1>1 DEF InRange, Signed
  <2>1. Abs(d) \in Nat /\ Abs(d) < Half
    BY <1>2, RangeFacts
  <2>2. Abs(d) = Abs(d) * 1
    BY <2>1
  <2> QED BY <1>1, <2>1, <2>2, BitFacts DEF AlignInv, Abs, Signed, Negated
<1> QED BY <1>1, <1>2, <1>3, <1>4 DEF IInv, DivisionIsExact

LEMMA AlignStep ==
  ASSUME IInv, Align
  PROVE  IInv'
<1>1. /\ pc = "align" /\ UNCHANGED <<n, d, r0, r2, negative>>
      /\ IF r1 <= r0 THEN r1' = Lsl(r1) /\ r3' = Lsl(r3) /\ pc' = "align"
         ELSE pc' = "loop" /\ UNCHANGED <<r1, r3>>
  BY DEF Align
<1>2. TypeOK /\ TypeOK'
  BY TypeStep DEF IInv, Next
<1>3. d' # 0 /\ Signs'
  BY <1>1 DEF IInv, Signs
<1>4. ASSUME InRange
      PROVE  (pc' = "align" => AlignInv') /\ (pc' = "loop" => LoopInv')
  <2>1. /\ AlignInv /\ d # 0
        /\ Abs(n) \in Nat /\ Abs(n) < Quarter /\ Abs(d) \in Nat /\ Abs(d) > 0
    BY <1>1, <1>2, <1>4, RangeFacts DEF IInv
  <2>2. CASE r1 <= r0
    <3>1. Lsl(r1) = Abs(d) * Lsl(r3) /\ Lsl(r1) < Half /\ Lsl(r3) \in Bit
      <4> DEFINE D == Abs(d)
                 N == Abs(n)
      <4>1. D \in Nat /\ D > 0 /\ N \in Nat /\ N < Quarter
            /\ r3 \in Bit /\ r1 = D * r3 /\ r1 < Half /\ r1 <= N
        BY <2>1, <2>2 DEF AlignInv
      <4> HIDE DEF D, N
      <4>2. Lsl(r1) = D * Lsl(r3) /\ Lsl(r1) < Half /\ Lsl(r3) \in Bit
        BY <4>1, AlignTurn
      <4> QED BY <4>2 DEF D
    <3> QED BY <1>1, <2>1, <2>2, <3>1 DEF AlignInv
  <2>3. CASE ~ (r1 <= r0)
    <3> DEFINE D == Abs(d)
               N == Abs(n)
    <3>1. /\ r0 = N /\ r2 = 0 /\ r3 \in Bit /\ r1 = D * r3 /\ r1 < Half
          /\ D \in Nat /\ N \in Nat /\ r3 \in Nat
      BY <2>1, BitFacts DEF AlignInv
    <3> HIDE DEF D, N
    <3>2. r1 \in Nat /\ N = 0 * D + r0 /\ r0 < 2 * r1
      BY <2>3, <3>1
    <3>3. Halfway(N, D, r0, r1, r2, r3)
      BY <3>1, <3>2 DEF Halfway
    <3> QED BY <1>1, <2>3, <3>3 DEF LoopInv, N, D
  <2> QED BY <2>2, <2>3
<1>5. InRange' => InRange
  BY <1>1 DEF InRange
<1> QED BY <1>1, <1>2, <1>3, <1>4, <1>5 DEF IInv, DivisionIsExact

LEMMA DivideStep ==
  ASSUME IInv, Divide
  PROVE  IInv'
<1>1. /\ pc = "loop" /\ UNCHANGED <<n, d, negative>>
      /\ IF Ge(r0, r1) THEN r0' = (r0 - r1) % Words /\ r2' = (r2 + r3) % Words
         ELSE r0' = r0 /\ r2' = r2
      /\ r1' = Lsr(r1) /\ r3' = Lsr(r3)
      /\ pc' = IF Lsr(r3) = 0 THEN "sign" ELSE "loop"
  BY DEF Divide
<1>2. TypeOK /\ TypeOK'
  BY TypeStep DEF IInv, Next
<1>3. d' # 0 /\ Signs'
  BY <1>1 DEF IInv, Signs
<1>4. ASSUME InRange
      PROVE  (pc' = "loop" => LoopInv') /\ (pc' = "sign" => SignInv')
  <2> DEFINE D == Abs(d)
             N == Abs(n)
  <2>1. /\ Halfway(N, D, r0, r1, r2, r3)
        /\ N \in Nat /\ N < Quarter /\ D \in Nat /\ D > 0
    BY <1>1, <1>2, <1>4, RangeFacts DEF IInv, LoopInv
  <2>2. N' = N /\ D' = D
    BY <1>1
  <2> HIDE DEF D, N
  <2>3. /\ Lsr(r3) = 0 => r0' \in Nat /\ r2' \in Nat /\ N = r2' * D + r0' /\ r0' < D
        /\ Lsr(r3) # 0 => Halfway(N, D, r0', Lsr(r1), r2', Lsr(r3))
    BY <1>1, <2>1, DivideTurn
  <2> QED BY <1>1, <2>2, <2>3 DEF LoopInv, SignInv, N, D
<1>5. InRange' => InRange
  BY <1>1 DEF InRange
<1> QED BY <1>1, <1>2, <1>3, <1>4, <1>5 DEF IInv, DivisionIsExact

LEMMA SignStep ==
  ASSUME IInv, Sign
  PROVE  IInv'
<1>1. /\ pc = "sign" /\ pc' = "end" /\ UNCHANGED <<n, d, r1, r2, r3, negative>>
      /\ r0' = IF negative THEN Negated(r2) ELSE r2
      /\ d # 0 /\ negative = ((Signed(n) < 0) # (Signed(d) < 0))
  BY DEF IInv, Sign, Signs
<1>2. TypeOK /\ TypeOK'
  BY TypeStep DEF IInv, Next
<1>3. ASSUME InRange
      PROVE  EndInv'
  <2>1. /\ Abs(n) = r2 * Abs(d) + r0 /\ r0 < Abs(d)
        /\ r2 \in Nat /\ r0 \in Nat
    BY <1>1, <1>2, <1>3, Sizes DEF IInv, SignInv, TypeOK, Word
  <2>2. r0' = IF (Signed(n) < 0) # (Signed(d) < 0) THEN Negated(r2) ELSE r2
    BY <1>1
  <2>3. \E q, m \in Nat :
          /\ Abs(n) = q * Abs(d) + m /\ m < Abs(d)
          /\ r0' = IF (Signed(n) < 0) # (Signed(d) < 0) THEN Negated(q) ELSE q
    BY <2>1, <2>2, Zenon
  <2> QED BY <1>1, <2>3 DEF EndInv
<1>4. InRange' => InRange
  BY <1>1 DEF InRange
<1> QED BY <1>1, <1>2, <1>3, <1>4 DEF IInv, DivisionIsExact

LEMMA RemainderStep ==
  ASSUME IInv, Remainder
  PROVE  IInv'
<1>1. /\ pc = "end" /\ pc' = "done" /\ n' = n /\ d' = d /\ r0' = r0
      /\ r1' = (n - r0 * d) % Words
  BY DEF Remainder
<1>2. TypeOK /\ TypeOK'
  BY TypeStep DEF IInv, Next
<1>3. n \in Word /\ d \in Word
  BY <1>2 DEF TypeOK
<1>4. ASSUME InRange, d = 0
      PROVE  r0' = 0 /\ r1' = n
  <2>1. r0 = 0 /\ n - r0 * d = n
    BY <1>1, <1>3, <1>4 DEF IInv, Word
  <2>2. n % Words = n
    BY <1>3, Sizes DEF Word
  <2> QED BY <1>1, <2>1, <2>2
<1>5. ASSUME InRange, d # 0
      PROVE  Quotient(Signed(n), Signed(d), Signed(r0), Signed((n - r0 * d) % Words))
  <2>1. PICK q \in Nat, m \in Nat :
          /\ Abs(n) = q * Abs(d) + m /\ m < Abs(d)
          /\ r0 = IF (Signed(n) < 0) # (Signed(d) < 0) THEN Negated(q) ELSE q
    BY <1>1, <1>5 DEF IInv, EndInv
  <2>2. d # Half /\ Abs(n) < Quarter
    BY <1>2, <1>5, RangeFacts DEF InRange
  <2> QED BY <1>3, <2>1, <2>2, SignsPutBack
<1>6. InRange' => InRange
  BY <1>1 DEF InRange
<1>7. DivisionIsExact'
  BY <1>1, <1>4, <1>5, <1>6 DEF DivisionIsExact
<1> QED BY <1>1, <1>2, <1>7 DEF IInv

LEMMA NextInv == IInv /\ [Next]_vars => IInv'
<1> SUFFICES ASSUME IInv, [Next]_vars
             PROVE  IInv'
  OBVIOUS
<1>1. CASE UNCHANGED vars
  BY <1>1 DEF vars, IInv, TypeOK, Signs, InRange, AlignInv, LoopInv, SignInv, EndInv, DivisionIsExact
<1>2. CASE ByZero
  <2>1. pc' = "end" /\ r0' = 0 /\ d = 0 /\ d' = d
    BY <1>2 DEF ByZero, IInv
  <2>2. TypeOK'
    BY <1>2, TypeStep DEF IInv, Next
  <2> QED BY <2>1, <2>2 DEF IInv, DivisionIsExact
<1> QED BY <1>1, <1>2, PositiveStep, AlignStep, DivideStep, SignStep, RemainderStep DEF Next

LEMMA Invariant == Spec => []IInv
BY InitInv, NextInv, PTL DEF Spec

\* For every word size, numerators below a quarter of the words are divided as
\* C says by every divisor but the most negative one.
THEOREM ExactTheorem == Spec => []DivisionIsExact
<1>1. IInv => DivisionIsExact
  BY DEF IInv
<1> QED BY Invariant, <1>1, PTL

-----------------------------------------------------------------------------
(* Both loops run out of turns                                             *)

\* An upper bound on the steps that are left.
Left ==
  IF pc = "entry" THEN 2 * Words + 4
  ELSE IF pc = "align" THEN 2 * Words + 3 - r1
  ELSE IF pc = "loop" THEN r3 + 2
  ELSE IF pc = "sign" THEN 2
  ELSE IF pc = "end" THEN 1 ELSE 0

Shrinks == Left \in Nat /\ Left' \in Nat /\ Left' < Left

LEMMA ShrinksStep ==
  ASSUME IInv, Next, InRange
  PROVE  Shrinks
<1>1. /\ r0 \in Word /\ r1 \in Word /\ r3 \in Word /\ TypeOK
      /\ Words \in Nat /\ \A x \in Word : x \in Nat /\ x < Words
  BY Sizes DEF IInv, TypeOK, Word
<1>2. CASE ByZero
  BY <1>1, <1>2 DEF ByZero, Left, Shrinks
<1>3. CASE Positive
  <2>1. PICK x \in Nat : x = r1' /\ x < Words
    BY <1>1, <1>3, WordFacts DEF Positive
  <2>2. pc = "entry" /\ pc' = "align"
    BY <1>3 DEF Positive
  <2>3. Left = 2 * Words + 4 /\ Left' = 2 * Words + 3 - x
    BY <2>1, <2>2 DEF Left
  <2>4. PICK w \in Nat : w = Words
    BY <1>1
  <2>5. Left = 2 * w + 4 /\ Left' = 2 * w + 3 - x /\ x < w /\ x \in Nat
    BY <2>1, <2>3, <2>4
  <2> QED BY <2>4, <2>5 DEF Shrinks
<1>4. CASE Align
  <2>1. pc = "align" /\ AlignInv /\ d # 0
    BY <1>4 DEF Align, IInv
  <2>2. PICK D \in Nat, b \in Nat : D > 0 /\ b > 0 /\ r1 = D * b /\ r1 < Half
    BY <1>1, <2>1, RangeFacts, BitFacts DEF AlignInv
  <2>3. r1 > 0 /\ r1 \in Nat /\ r1 < Words /\ Left = 2 * Words + 3 - r1
    BY <1>1, <2>1, <2>2 DEF Left
  <2>4. CASE r1 <= r0
    <3>1. 2 * r1 \in 0 .. Words - 1
      BY <2>2, <2>3, Sizes
    <3>2. (2 * r1) % Words = 2 * r1
      <4>1. \A y \in 0 .. Words - 1 : y % Words = y
        BY Sizes
      <4> QED BY <3>1, <4>1
    <3>3. r1' = 2 * r1 /\ pc' = "align"
      BY <1>4, <2>1, <2>4, <3>2 DEF Align, Lsl
    <3>4. Left' = 2 * Words + 3 - 2 * r1
      BY <3>3 DEF Left
    <3> QED BY <1>1, <2>3, <3>1, <3>4 DEF Shrinks
  <2>5. CASE ~ (r1 <= r0)
    <3>1. pc' = "loop" /\ r3' = r3
      BY <1>4, <2>5 DEF Align
    <3>2. Left' = r3 + 2
      BY <3>1 DEF Left
    <3> QED BY <1>1, <2>3, <3>2 DEF Shrinks
  <2> QED BY <2>4, <2>5
<1>5. CASE Divide
  <2>1. pc = "loop" /\ LoopInv
    BY <1>5 DEF Divide, IInv
  <2>2. r3 \in Nat /\ r3 > 0
    BY <1>1, <2>1, BitFacts DEF LoopInv, Halfway
  <2>3. Lsr(r3) \in Nat /\ Lsr(r3) < r3
    BY <2>2 DEF Lsr
  <2>4. /\ r3' = Lsr(r3) /\ pc' = IF Lsr(r3) = 0 THEN "sign" ELSE "loop"
        /\ Left = r3 + 2
    BY <1>5, <2>1 DEF Divide, Left
  <2>5. Left' = Lsr(r3) + 2
    BY <2>4 DEF Left
  <2> QED BY <2>2, <2>3, <2>4, <2>5 DEF Shrinks
<1>6. CASE Sign \/ Remainder
  BY <1>6 DEF Sign, Remainder, Left, Shrinks
<1> QED BY <1>2, <1>3, <1>4, <1>5, <1>6 DEF Next

\* For operands in range every step of the routine lowers a bound on the steps
\* left, so that neither loop can turn for ever, whatever the word size: the
\* divisor grows until it exceeds the numerator, and its bit is shifted out again.
THEOREM BoundTheorem == Spec => [][InRange => Shrinks]_vars
<1>1. IInv /\ [Next]_vars => [InRange => Shrinks]_vars
  BY ShrinksStep
<1> QED BY <1>1, Invariant, PTL DEF Spec

=============================================================================
