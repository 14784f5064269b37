----------------------------- MODULE BigInteger -----------------------------
(***************************************************************************)
(* BigInteger, the integer type of the multiprecision layer, over either   *)
(* of two back ends: the dynamic one and the fixed one.                    *)
(*                                                                         *)
(* The machine is one integer, big, to which a program applies the methods *)
(* in any order, with operands it makes of numbers; want is the number it  *)
(* should be.  The words that a back end may read though they are of no    *)
(* number hold stray, and nothing may depend on it.                        *)
(***************************************************************************)
EXTENDS Integers, Sequences

CONSTANTS limbBits,      \* the bits of a limb or word
          nSize,         \* the words of a fixed number
          BigModuli,     \* the moduli of the instance
          BigOperands,   \* the numbers a program passes as second operands
          Limit          \* the bound of the numbers kept

VARIABLES backend, big, want, modulus, stray

bigVars == <<backend, big, want, modulus, stray>>

D == INSTANCE BigIntegerDyn
F == INSTANCE BigIntegerFxd

-----------------------------------------------------------------------------
(***************************************************************************)
(* The methods of the back end the library was built with; those with mu   *)
(* reduce by Barrett's method.                                             *)
(***************************************************************************)
isDynamic == backend = "dynamic"

Made(x) == IF isDynamic THEN D!Ubint(x) ELSE F!AssignVal(x)
Zero == IF isDynamic THEN D!Ubint(0) ELSE F!Zero

Add(a, b) == IF isDynamic THEN D!Add(a, b) ELSE F!Add(a, b)
AddEq(a, b) == IF isDynamic THEN D!AddEq(a, b) ELSE F!AddEq(a, b)
Sub(a, b) == IF isDynamic THEN D!Sub(a, b) ELSE F!Sub(a, b)
Mul(a, b) == IF isDynamic THEN D!Mul(a, b) ELSE F!Mul(a, b)
Exp(a, p) == IF isDynamic THEN D!Exp(a, p) ELSE F!Exp(a, p)
DividedBy(a, b) == IF isDynamic THEN D!DividedBy(a, b) ELSE F!DividedBy(a, b)
DivideAndRound(a, q) == IF isDynamic THEN D!DivideAndRound(a, q) ELSE F!DivideAndRound(a, q)
MultiplyAndRound(a, p, q) ==
  IF isDynamic THEN D!MultiplyAndRound(a, p, q) ELSE F!MultiplyAndRound(a, p, q)
LShift(a, k) == IF isDynamic THEN D!LShift(a, k) ELSE F!LShift(a, k)
RShift(a, k) == IF isDynamic THEN D!RShift(a, k) ELSE F!RShift(a, k)
RShiftEq(a, k) == IF isDynamic THEN D!RShiftEq(a, k) ELSE F!RShiftEq(a, k)
GetDigit(a, i, bits) ==
  IF isDynamic THEN D!GetDigitAtIndexForBase(a, i, bits) ELSE F!GetDigitAtIndexForBase(a, i, bits)

Mod(a, m) == IF isDynamic THEN D!Mod(a, m) ELSE F!Mod(a, m)
ModMu(a, m) == IF isDynamic THEN D!ModMu(a, m) ELSE F!ModMu(a, m)
ModAdd(a, b, m) == IF isDynamic THEN D!ModAdd(a, b, m) ELSE F!ModAdd(a, b, m)

ModAddFast(a, b, m, mu) ==
  IF ~isDynamic THEN F!ModAddFast(a, b, m, mu)
  ELSE IF mu THEN D!ModAddMu(a, b, m) ELSE D!ModAddFast(a, b, m)

ModSub(a, b, m, mu) ==
  IF ~isDynamic THEN F!ModSub(a, b, m, mu)
  ELSE IF mu THEN D!ModSubMu(a, b, m) ELSE D!ModSub(a, b, m)

ModSubFast(a, b, m) == IF isDynamic THEN D!ModSubFast(a, b, m) ELSE F!ModSubFast(a, b, m, FALSE)

ModMul(a, b, m, mu) ==
  IF ~isDynamic THEN F!ModMul(a, b, m, mu)
  ELSE IF mu THEN D!ModMulMu(a, b, m) ELSE D!ModMul(a, b, m)

ModMulFastMu(a, b, m) ==
  IF isDynamic THEN D!ModMulFastMu(a, b, m) ELSE F!ModMulFast(a, b, m, TRUE)

ModExp(a, e, m) == IF isDynamic THEN D!ModExp(a, e, m) ELSE F!ModExp(a, e, m)
ModInverse(a, m) == IF isDynamic THEN D!ModInverse(a, m) ELSE F!ModInverse(a, m)

-----------------------------------------------------------------------------
BigInit ==
  /\ backend \in {"dynamic", "fixed"}
  /\ modulus \in BigModuli
  /\ stray \in {0, 2 ^ limbBits - 1}
  /\ big = Zero /\ want = 0

Becomes(v, r) == r <= Limit /\ big' = v /\ want' = r /\ UNCHANGED <<backend, modulus, stray>>

PlainStep(z) ==
  \/ Becomes(Add(big, Made(z)), want + z)
  \/ Becomes(AddEq(big, Made(z)), want + z)
  \/ Becomes(Sub(big, Made(z)), IF want > z THEN want - z ELSE 0)
  \/ Becomes(Sub(Made(z), big), IF z > want THEN z - want ELSE 0)
  \/ Becomes(Mul(big, Made(z)), want * z)

\* Halves are rounded down.
Rounded(x, y) == (2 * x + y - 1) \div (2 * y)

DivideStep(z) ==
  \/ z > 0 /\ Becomes(DividedBy(big, Made(z)), want \div z)
  \/ want > 0 /\ Becomes(DividedBy(Made(z), big), z \div want)
  \/ z > 0 /\ Becomes(DivideAndRound(big, Made(z)), Rounded(want, z))
  \/ z > 0 /\ Becomes(MultiplyAndRound(big, Made(modulus), Made(z)), Rounded(want * modulus, z))

\* The dynamic back end cannot shift a number out by a limb or more in place.
ShiftStep(k) ==
  \/ Becomes(LShift(big, k), want * 2 ^ k)
  \/ Becomes(RShift(big, k), want \div 2 ^ k)
  \/ /\ isDynamic => k < limbBits \/ big.m_MSB > k
     /\ Becomes(RShiftEq(big, k), want \div 2 ^ k)

\* A number rebuilt from its digits.
DigitStep(bits) ==
  LET rebuilt[i \in 0 .. big.m_MSB \div bits + 1] ==
        IF i = 0 THEN Zero
        ELSE Add(rebuilt[i - 1], LShift(Made(GetDigit(big, i, bits)), (i - 1) * bits))
  IN  Becomes(rebuilt[big.m_MSB \div bits + 1], want)

\* The dynamic back end loses the highest limb of a string that fills all of them.
BinaryStep(z) ==
  isDynamic /\ D!Bits(z) % limbBits # 0 /\ Becomes(D!FromBinaryString(z), z)

-----------------------------------------------------------------------------
(***************************************************************************)
(* The modular steps.  Barrett's reduction is given dividends that one     *)
(* correction is enough for; of the dynamic one, whose shift in place is   *)
(* undefined if nothing is left, the estimated quotient is not 0.          *)
(***************************************************************************)
Fits(x) ==
  /\ x < 2 ^ (2 * Made(modulus).m_MSB + 2)
  /\ isDynamic /\ x >= modulus =>
       D!Estimate(Made(x), Made(modulus)).m_MSB > D!EstimateShift(Made(modulus))

Times(x, y) == (x * y) % modulus

AddModStep(z) ==
  \/ Becomes(ModAdd(big, Made(z), Made(modulus)), (want + z) % modulus)
  \/ \E mu \in BOOLEAN :
       /\ mu => Fits(want + z)
       /\ Becomes(ModAddFast(big, Made(z), Made(modulus), mu), (want + z) % modulus)

\* The fast method's second operand is below the modulus.
SubModStep(z) ==
  \/ \E mu \in BOOLEAN :
       /\ mu => Fits(z) /\ Fits(want)
       /\ Becomes(ModSub(big, Made(z), Made(modulus), mu), (want - z) % modulus)
  \/ z < modulus /\ Becomes(ModSubFast(big, Made(z), Made(modulus)), (want - z) % modulus)

\* In the first method of the dynamic back end a factor of 1 leaves the other unreduced.
MulModStep(z) ==
  \/ \E mu \in BOOLEAN :
       /\ mu => Fits(want) /\ Fits(z) /\ Fits(modulus) /\ Fits((want % modulus) * (z % modulus))
       /\ isDynamic /\ ~mu => (z = 1 => want < modulus) /\ (want = 1 => z < modulus)
       /\ Becomes(ModMul(big, Made(z), Made(modulus), mu), Times(want, z))
  \/ Fits(want * z) /\ Becomes(ModMulFastMu(big, Made(z), Made(modulus)), Times(want, z))

\* A product equal to the modulus is not reduced: a nonzero power is wanted, or one of 0.
ExpModStep(z) ==
  LET power[e \in 0 .. z] == IF e = 0 THEN 1 ELSE Times(power[e - 1], want)
  IN  /\ power[z] # 0 \/ want % modulus = 0
      /\ Becomes(ModExp(big, Made(z), Made(modulus)), power[z])

\* Of a number prime to the modulus; others throw.
InverseStep ==
  \E r \in 1 .. modulus - 1 : /\ Times(want, r) = 1
                              /\ Becomes(ModInverse(big, Made(modulus)), r)

ReduceStep ==
  \/ Becomes(Mod(big, Made(modulus)), want % modulus)
  \/ Fits(want) /\ Becomes(ModMu(big, Made(modulus)), want % modulus)

BigNext ==
  \/ \E z \in BigOperands : \/ PlainStep(z) \/ DivideStep(z) \/ BinaryStep(z)
                            \/ AddModStep(z) \/ SubModStep(z) \/ MulModStep(z)
                            \/ z <= 6 /\ ExpModStep(z)
  \/ \E p \in 0 .. 3 : Becomes(Exp(big, p), IF p = 0 THEN 1 ELSE want ^ p)
  \/ \E k \in 0 .. 2 * limbBits : ShiftStep(k)
  \/ \E bits \in 1 .. 3 : DigitStep(bits)
  \/ ReduceStep
  \/ InverseStep

BigSpec == BigInit /\ [][BigNext]_bigVars

-----------------------------------------------------------------------------
(***************************************************************************)
(* Whatever methods a program applies, in any order, the words in use are  *)
(* those of the number wanted, the highest of them is not 0, and the MSB   *)
(* is right: a zero limb left on top, a word that was never written or an  *)
(* MSB that is off would fail not in the call that left it but in a later  *)
(* comparison or division.                                                 *)
(***************************************************************************)
BigIsRight ==
  /\ big.m_MSB = D!Bits(want)
  /\ LET used == D!ceilIntByUInt(big.m_MSB)
     IN  /\ SubSeq(big.m_value, 1, used) = D!LimbsOf(want, used)
         /\ isDynamic => Len(big.m_value) = used
=============================================================================
