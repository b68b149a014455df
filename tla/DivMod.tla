-------------------------------- MODULE DivMod --------------------------------
(***************************************************************************)
(* Division in the runtime of the cross compiler: __aeabi_idivmod and the  *)
(* __aeabi_idiv it calls.  The divisor is shifted left until it exceeds    *)
(* the numerator, then back bit by bit, subtracted where it fits.          *)
(*                                                                         *)
(* Registers hold words; the routine compares them as unsigned numbers in  *)
(* one loop and as signed ones in the other.                               *)
(***************************************************************************)
EXTENDS Integers

CONSTANT Quarter   \* 2^30; a smaller power of two for checking

ASSUME DivModAssumption == Quarter \in Nat \ {0}

Half == 2 * Quarter
Words == 2 * Half
Word == 0 .. Words - 1

VARIABLES
  n, d,            \* r4, r5 of __aeabi_idivmod: the operands
  r0, r1, r2, r3,  \* numerator, divisor, quotient, bit
  negative,        \* sign bit of r4 in __aeabi_idiv
  pc

vars == <<n, d, r0, r1, r2, r3, negative, pc>>

Signed(x) == IF x >= Half THEN x - Words ELSE x
Negated(x) == (Words - x) % Words
Abs(x) == IF Signed(x) < 0 THEN Negated(x) ELSE x

MutNotShifted(x) == x
Lsl(x) == (2 * x) % Words
Lsr(x) == x \div 2

\* Condition ge after cmp: the operands as signed numbers.
MutGe(x, y) == Signed(x) > Signed(y)
Ge(x, y) == Signed(x) >= Signed(y)

-----------------------------------------------------------------------------

Init ==
  /\ n \in Word /\ d \in Word
  /\ r0 = n /\ r1 = d
  /\ r2 = 0 /\ r3 = 0
  /\ negative = FALSE
  /\ pc = "entry"

ByZero ==
  /\ pc = "entry" /\ r1 = 0
  /\ r0' = 0
  /\ pc' = "end"
  /\ UNCHANGED <<n, d, r1, r2, r3, negative>>

Positive ==
  /\ pc = "entry" /\ r1 # 0
  /\ negative' = ((Signed(r0) < 0) # (Signed(r1) < 0))
  /\ r0' = Abs(r0) /\ r1' = Abs(r1)
  /\ r2' = 0 /\ r3' = 1
  /\ pc' = "align"
  /\ UNCHANGED <<n, d>>

\* .idiv_align, with the unsigned condition ls.
Align ==
  /\ pc = "align"
  /\ IF r1 <= r0 THEN r1' = Lsl(r1) /\ r3' = Lsl(r3) /\ UNCHANGED pc
     ELSE pc' = "loop" /\ UNCHANGED <<r1, r3>>
  /\ UNCHANGED <<n, d, r0, r2, negative>>

\* .idiv_loop, with the signed condition ge.
Divide ==
  /\ pc = "loop"
  /\ IF Ge(r0, r1) THEN r0' = (r0 - r1) % Words /\ r2' = (r2 + r3) % Words
     ELSE UNCHANGED <<r0, r2>>
  /\ r1' = Lsr(r1) /\ r3' = Lsr(r3)
  /\ pc' = IF Lsr(r3) = 0 THEN "sign" ELSE "loop"
  /\ UNCHANGED <<n, d, negative>>

Sign ==
  /\ pc = "sign"
  /\ r0' = IF negative THEN Negated(r2) ELSE r2
  /\ pc' = "end"
  /\ UNCHANGED <<n, d, r1, r2, r3, negative>>

\* Back in __aeabi_idivmod: mul and sub, modulo the word size.
Remainder ==
  /\ pc = "end"
  /\ r1' = (n - r0 * d) % Words
  /\ pc' = "done"
  /\ UNCHANGED <<n, d, r0, r2, r3, negative>>

Next == ByZero \/ Positive \/ Align \/ Divide \/ Sign \/ Remainder

Spec == Init /\ [][Next]_vars

\* The CPU executes.
FairSpec == Spec /\ WF_vars(Next)

-----------------------------------------------------------------------------
(* Properties                                                              *)

\* Division of C: the quotient is truncated towards zero, the remainder has
\* the sign of the numerator.
Quotient(a, b, q, r) ==
  /\ a = q * b + r
  /\ IF b < 0 THEN b < r /\ r < - b ELSE - b < r /\ r < b
  /\ r # 0 => (r < 0 <=> a < 0)

\* The operands for which the aligned divisor stays below Half.
InRange ==
  /\ - Quarter < Signed(n) /\ Signed(n) < Quarter
  /\ d # Half

\* Numerators below 2^30 are divided as C says, by every divisor but the
\* most negative one; a divisor of zero gives 0 and the numerator.
DivisionIsExact ==
  pc = "done" /\ InRange =>
    IF d = 0 THEN r0 = 0 /\ r1 = n
    ELSE Quotient(Signed(n), Signed(d), Signed(r0), Signed(r1))

\* For these operands both loops end.
DivisionReturns == InRange ~> pc = "done"

\* "Signed integer division", "Returns: r0 = quotient": said of all operands.
SignedDivision ==
  <>(pc = "done" /\ (d # 0 => Quotient(Signed(n), Signed(d), Signed(r0), Signed(r1))))

=============================================================================
