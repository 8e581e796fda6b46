------------------------------ MODULE Rational ------------------------------
(***************************************************************************)
(* Exact arithmetic for indicator values: a rational is a reduced pair     *)
(* <<numerator, denominator>> with a positive denominator, and <<0, 0>> is *)
(* NaN.  Every operation with a NaN operand is NaN.                        *)
(***************************************************************************)
EXTENDS Integers, Sequences, SequencesExt

NaN == <<0, 0>>
IsNaN(q) == q[2] = 0
AbsInt(n) == IF n < 0 THEN -n ELSE n

Gcd(m, n) ==
    LET g[a \in Nat, b \in Nat] == IF b = 0 THEN a ELSE g[b, a % b]
    IN  g[AbsInt(m), AbsInt(n)]

Reduced(n, d, g) ==
    IF d > 0 THEN <<n \div g, d \div g>> ELSE <<(-n) \div g, (-d) \div g>>
Rat(n, d) == IF d = 0 THEN NaN ELSE Reduced(n, d, Gcd(n, d))

Num(n) == <<n, 1>>
SumOver(p, q, g) ==
    Rat((p[1] * (q[2] \div g)) + (q[1] * (p[2] \div g)), p[2] * (q[2] \div g))
RAdd(p, q) == IF IsNaN(p) \/ IsNaN(q) THEN NaN
              ELSE SumOver(p, q, Gcd(p[2], q[2]))
RNeg(p) == <<-p[1], p[2]>>
RSub(p, q) == RAdd(p, RNeg(q))
\* The factors of a product, each reduced across it, have a reduced product.
CrossProduct(a, b) == <<a[1] * b[1], a[2] * b[2]>>
RMul(p, q) == IF IsNaN(p) \/ IsNaN(q) THEN NaN
              ELSE CrossProduct(Rat(p[1], q[2]), Rat(q[1], p[2]))
\* The inverse of zero is NaN.
RInv(q) == IF q[1] = 0 THEN NaN
           ELSE IF q[1] < 0 THEN <<-q[2], -q[1]>> ELSE <<q[2], q[1]>>
RDiv(p, q) == RMul(p, RInv(q))
RLeq(p, q) == ~IsNaN(p) /\ ~IsNaN(q) /\ p[1] * q[2] <= q[1] * p[2]
RAbs(p) == <<AbsInt(p[1]), p[2]>>
RSum(s) == FoldLeft(RAdd, Num(0), s)
SumSeq(s) == FoldLeft(LAMBDA a, b : a + b, 0, s)
RLess(p, q) == p[1] * q[2] < q[1] * p[2]
=============================================================================
