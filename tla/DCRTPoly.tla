------------------------------ MODULE DCRTPoly ------------------------------
(***************************************************************************)
(* The arithmetic of DCRTPolyImpl on one coefficient: an integer kept as   *)
(* its residues (the towers) for the moduli of a basis, and the operations *)
(* that move it between bases or divide it without ever forming it.  Every *)
(* operation of dcrtpoly.cpp works on coefficients one by one; only the    *)
(* ring product does not, and with one coefficient it is an integer's.     *)
(*                                                                         *)
(* A basis is a sequence of moduli, an element the sequence of its         *)
(* residues.  The tables that the code passes to an operation are          *)
(* parameters here too: HybridTables and BFVTables say how they are        *)
(* computed.  The format (coefficients or evaluations) and the Barrett and *)
(* Shoup companions of the tables are left out.                            *)
(*                                                                         *)
(* A double that counts overflows is the exact fraction plus an error: the *)
(* parameter slack, in units of half of 1/Q, with whatever sign the        *)
(* rounding happened to have.                                              *)
(***************************************************************************)
EXTENDS Integers, Sequences, SequencesExt

Basis(q) == 1 .. Len(q)
Modulus(q) == FoldLeft(LAMBDA a, b : a * b, 1, q)
Hat(q, i) == Modulus(q) \div q[i]
InverseMod(x, m) == CHOOSE y \in 0 .. m - 1 : (x * y) % m = 1 % m
Total(f) == SumFunction(f)

\* A residue modulo m as the integer nearest zero.
Signed(r, m) == IF r > m \div 2 THEN r - m ELSE r

(***************************************************************************)
(* The Fast variants keep their result below the modulus only if both      *)
(* operands are: they subtract, or add, the modulus once.                  *)
(***************************************************************************)
ModAddFast(a, b, m) == IF a + b >= m THEN a + b - m ELSE a + b
ModSubFast(a, b, m) == IF a >= b THEN a - b ELSE a + m - b

Residues(v, q) == [i \in Basis(q) |-> v % q[i]]
Plus(x, y, q) == [i \in Basis(q) |-> (x[i] + y[i]) % q[i]]
Minus(x, y, q) == [i \in Basis(q) |-> (x[i] - y[i]) % q[i]]
Times(x, y, q) == [i \in Basis(q) |-> (x[i] * y[i]) % q[i]]

\* The element modulo another prime: its representative nearest zero is kept.
SwitchModulus(r, from, to) == Signed(r, from) % to

CRTInterpolate(x, q) ==
  Total([i \in Basis(q) |-> x[i] * Hat(q, i) * InverseMod(Hat(q, i), q[i])]) % Modulus(q)

DropLastElements(x, k) == SubSeq(x, 1, Len(x) - k)
-----------------------------------------------------------------------------
(***************************************************************************)
(* Division by the last modulus.  CKKS rounds to the nearest; BGV first    *)
(* adds a multiple of t that makes the division exact, so that the         *)
(* residue modulo t is only multiplied by a constant.                      *)
(***************************************************************************)
DropLastElementAndScale(x, q, QlQlInvModqlDivqlModq, qlInvModq) ==
  LET last == Len(x)
  IN  [i \in 1 .. last - 1 |->
         (x[i] * qlInvModq[i]
            + SwitchModulus(x[last], q[last], q[i]) * QlQlInvModqlDivqlModq[i]) % q[i]]

PolyModReduce(x, q, t, negtInvModq, qlInvModq) ==
  LET last == Len(x)
      delta == (x[last] * negtInvModq) % q[last]
  IN  [i \in 1 .. last - 1 |->
         ((x[i] + SwitchModulus(delta, q[last], q[i]) * t) * qlInvModq[i]) % q[i]]
-----------------------------------------------------------------------------
(***************************************************************************)
(* From basis q to basis p, up to a multiple of Q below Len(q) * Q.  Where *)
(* the compiler has no 128-bit integers, each term is moved to p by        *)
(* SwitchModulus, and the multiple of Q may be negative.                   *)
(***************************************************************************)
ApproxSwitchCRTBasis(wide, x, q, p, QHatInvModq, QHatModp) ==
  LET used == 1 .. IF Len(x) > Len(q) THEN Len(q) ELSE Len(x)
      y == [i \in used |-> (x[i] * QHatInvModq[i]) % q[i]]
      Moved(i, j) == IF wide THEN y[i] ELSE SwitchModulus(y[i], q[i], p[j])
  IN  [j \in Basis(p) |-> Total([i \in used |-> Moved(i, j) * QHatModp[i][j]]) % p[j]]

(***************************************************************************)
(* From basis QP to basis Q, dividing by P with a small error.  With t > 0 *)
(* (BGV) what is subtracted is a multiple of t.                            *)
(***************************************************************************)
X_ApproxModDown(wide, x, q, p, PInvModq, PHatInvModp, PHatModq, tInvModp, t) ==
  LET sizeQ == Len(x) - Len(p)
      partP == [j \in Basis(p) |-> x[sizeQ + j]]
      switched == ApproxSwitchCRTBasis(wide, partP, p, q, PHatInvModp, PHatModq)
  IN  [i \in 1 .. sizeQ |-> ((x[i] - switched[i]) * PInvModq[i]) % q[i]]

ApproxModDown(wide, x, q, p, PInvModq, PHatInvModp, PHatModq, tInvModp, t) ==
  LET sizeQ == Len(x) - Len(p)
      partP == [j \in Basis(p) |->
                  IF t > 0 THEN (x[sizeQ + j] * tInvModp[j]) % p[j] ELSE x[sizeQ + j]]
      switched == ApproxSwitchCRTBasis(wide, partP, p, q, PHatInvModp, PHatModq)
      factor == IF t > 0 THEN t ELSE 1
  IN  [i \in 1 .. sizeQ |-> ((x[i] - switched[i] * factor) * PInvModq[i]) % q[i]]
-----------------------------------------------------------------------------
(***************************************************************************)
(* From basis q to basis p with the overflows counted in a double and      *)
(* taken off again: row alpha of the table is alpha * Q modulo p.          *)
(***************************************************************************)
SwitchCRTBasis(x, q, p, QHatInvModq, QHatModp, alphaQModp, slack) ==
  LET y == [i \in Basis(q) |-> (x[i] * QHatInvModq[i]) % q[i]]
      alpha == (Modulus(q) + 2 * Total([i \in Basis(q) |-> y[i] * Hat(q, i)]) + slack)
                 \div (2 * Modulus(q))
  IN  [j \in Basis(p) |->
         ModSubFast(Total([i \in Basis(q) |-> y[i] * QHatModp[j][i]]) % p[j],
                    alphaQModp[alpha][j], p[j])]

ExpandCRTBasis(x, q, p, QHatInvModq, QHatModp, alphaQModp, slack) ==
  x \o SwitchCRTBasis(x, q, p, QHatInvModq, QHatModp, alphaQModp, slack)

(***************************************************************************)
(* t/Q times an element of basis QP, rounded, in basis P.  frac holds the  *)
(* numerators of tPSHatInvModsDivsFrac.  alpha is far above p[j] at times, *)
(* and the result then is not a reduced residue.                           *)
(***************************************************************************)
ScaleAndRoundToP(x, q, p, tPSHatInvModsDivsModp, frac, slack) ==
  LET sizeQ == Len(q)
      alpha == (Modulus(q) + 2 * Total([i \in Basis(q) |-> x[i] * frac[i] * Hat(q, i)]) + slack)
                 \div (2 * Modulus(q))
      Sum(j) == Total([i \in Basis(q) |-> x[i] * tPSHatInvModsDivsModp[j][i]])
                  + x[sizeQ + j] * tPSHatInvModsDivsModp[j][sizeQ + 1]
  IN  [j \in Basis(p) |-> ModAddFast(Sum(j) % p[j], alpha, p[j])]

(***************************************************************************)
(* t/Q times an element of basis Q, rounded, modulo t.  For a t that is    *)
(* not a power of two the sum is reduced before it is rounded, and what is *)
(* just below t is rounded to t itself.                                    *)
(***************************************************************************)
ScaleAndRoundToT(x, q, t, tQHatInvModqDivqModt, frac, slack) ==
  LET Q == Modulus(q)
      intSum == Total([i \in Basis(q) |-> x[i] * tQHatInvModqDivqModt[i]])
      fracSum == Total([i \in Basis(q) |-> x[i] * frac[i] * Hat(q, i)])  \* over Q
      powerOfTwo == \E k \in 0 .. t : t = 2 ^ k
  IN  IF powerOfTwo
      THEN (intSum + (Q + 2 * fracSum + slack) \div (2 * Q)) % t
      ELSE LET reduced == (intSum * Q + fracSum) % (t * Q)
           IN  (Q + 2 * reduced + slack) \div (2 * Q)
-----------------------------------------------------------------------------
(***************************************************************************)
(* Multiplication after Bajard, Eynard, Hasan and Zucca: integers only.    *)
(* Basis bsk is B followed by the prime msk; mtilde is a power of two.     *)
(* The conversion to bsk leaves the integer itself, or with one multiple   *)
(* of Q more or less, thanks to the centred remainder modulo mtilde.       *)
(***************************************************************************)
FastBaseConvqToBskMontgomery(x, q, bsk, mtilde, tables) ==
  LET y == [i \in Basis(q) |-> (x[i] * tables.mtildeQHatInvModq[i]) % q[i]]
      r == (Total([i \in Basis(q) |-> y[i] * tables.QHatModmtilde[i]])
              * tables.negQInvModmtilde) % mtilde
      Centred(j) == IF 2 * r >= mtilde THEN r + bsk[j] - mtilde ELSE r
      Sum(j) == Total([i \in Basis(q) |-> y[i] * tables.QHatModbsk[i][j]])
  IN  x \o [j \in Basis(bsk) |->
              ((Centred(j) * tables.QModbsk[j] + Sum(j)) * tables.mtildeInvModbsk[j])
                % bsk[j]]

\* The floor of t/Q times an element of basis Q and bsk, up to Len(q) less, in basis bsk.
FastRNSFloorq(x, q, bsk, tQHatInvModq, qInvModbsk, tQInvModbsk) ==
  LET y == [i \in Basis(q) |-> (x[i] * tQHatInvModq[i]) % q[i]]
      Sum(j) == Total([i \in Basis(q) |-> y[i] * qInvModbsk[i][j]])
  IN  [j \in Basis(bsk) |-> (x[Len(q) + j] * tQInvModbsk[j] - Sum(j)) % bsk[j]]

(***************************************************************************)
(* Back from bsk to q, exactly: the residue modulo msk tells how many      *)
(* multiples of B the conversion from B is off, or below zero.             *)
(***************************************************************************)
X_FastBaseConvSK(x, q, bsk, BHatInvModb, BHatModmsk, BInvModmsk, BHatModq, BModq) ==
  LET msk == Last(bsk)
      b == Front(bsk)
      z == [i \in Basis(b) |-> (x[i] * BHatInvModb[i]) % b[i]]
      alpha == ((Total([i \in Basis(b) |-> z[i] * BHatModmsk[i]]) - Last(x)) * BInvModmsk) % msk
      Sum(j) == Total([i \in Basis(b) |-> z[i] * BHatModq[i][j]]) % q[j]
  IN  [j \in Basis(q) |-> ModSubFast(Sum(j), (alpha * BModq[j]) % q[j], q[j])]

FastBaseConvSK(x, q, bsk, BHatInvModb, BHatModmsk, BInvModmsk, BHatModq, BModq) ==
  LET msk == Last(bsk)
      b == Front(bsk)
      z == [i \in Basis(b) |-> (x[i] * BHatInvModb[i]) % b[i]]
      alpha == ((Total([i \in Basis(b) |-> z[i] * BHatModmsk[i]]) - Last(x)) * BInvModmsk) % msk
      Sum(j) == Total([i \in Basis(b) |-> z[i] * BHatModq[i][j]]) % q[j]
      Centred(j) == IF alpha > msk \div 2 THEN ModSubFast(alpha, msk, q[j]) ELSE alpha
  IN  [j \in Basis(q) |-> ModSubFast(Sum(j), (Centred(j) * BModq[j]) % q[j], q[j])]

(***************************************************************************)
(* t/Q times an element of basis Q, rounded, modulo t, from its value      *)
(* modulo t * gamma.  Like the other one, it returns t for what is just    *)
(* below t.                                                                *)
(***************************************************************************)
ScaleAndRoundByGamma(x, q, tgamma, gamma, tgammaQHatInvModq, negInvqModtgamma) ==
  LET y == [i \in Basis(q) |-> (x[i] * tgammaQHatInvModq[i]) % q[i]]
      s == Total([i \in Basis(q) |-> y[i] * negInvqModtgamma[i]]) % tgamma
  IN  (s + (s % gamma)) \div gamma
-----------------------------------------------------------------------------
(***************************************************************************)
(* The digits of an element for key switching: each tower, or the digits   *)
(* in base 2^baseBits of each tower, as an element of the whole basis.     *)
(***************************************************************************)
LengthForBase2(m) == CHOOSE n \in 1 .. m : 2 ^ (n - 1) <= m /\ m < 2 ^ n
Windows(m, baseBits) ==
  IF baseBits = 0 THEN 1 ELSE (LengthForBase2(m) + baseBits - 1) \div baseBits

CRTDecompose(x, q, baseBits) ==
  LET Digit(i, w) == IF baseBits = 0
                     THEN x[i]
                     ELSE (x[i] \div 2 ^ ((w - 1) * baseBits)) % 2 ^ baseBits
      Spread(d, i) == [k \in Basis(q) |-> IF k = i THEN d ELSE SwitchModulus(d, q[i], q[k])]
      OfTower(i) == [w \in 1 .. Windows(q[i], baseBits) |-> Spread(Digit(i, w), i)]
  IN  FlattenSeq([i \in Basis(q) |-> OfTower(i)])
=============================================================================
