--------------------------- MODULE NativeInteger ---------------------------
(***************************************************************************)
(* NativeIntegerT: modular arithmetic on one machine word, with Barrett's  *)
(* reduction by a precomputed mu and Shoup's by a precomputed quotient.    *)
(*                                                                         *)
(* The machine is an integer, m_value, to which a program applies the      *)
(* methods in any order.  want is the residue it should hold.  Whether the *)
(* double-width type is wider than a word (32- and 64-bit builds) or not   *)
(* (128-bit builds) selects one of two texts of most methods.              *)
(***************************************************************************)
EXTENDS NativeFast

CONSTANTS w,         \* MaxBits, the bits of a word
          Pow,       \* the powers of two up to a double word
          Moduli,    \* the moduli of the instance
          Operands   \* the words a program passes as second operands

ASSUME PowAssumption ==
  /\ w \in Nat /\ w >= 7
  /\ Pow \in [0 .. 2 * w -> Nat \ {0}]
  /\ Pow[0] = 1 /\ Pow[1] = 2
  /\ \A i, j \in 0 .. 2 * w : i + j <= 2 * w => Pow[i + j] = Pow[i] * Pow[j]

\* At most w - 4 bits (MAX_MODULUS_SIZE), so that mu fits a word.
ASSUME ModuliAssumption ==
  \A m \in Moduli : /\ m \in Nat
                    /\ \E k \in 3 .. w - 4 : /\ Pow[k - 1] <= m /\ m < Pow[k]
                                             /\ k = w - 4 => m # Pow[k - 1]

ASSUME OperandsAssumption == Operands \subseteq 0 .. Pow[w] - 1

VARIABLES m_value,  \* the word
          modulus,
          wide,     \* DNativeInt is wider than NativeInt
          want,     \* the residue the word stands for
          clean     \* no multiple of the modulus but 0 was reduced by Barrett or taken as reduced

nativeVars == <<m_value, modulus, wide, want, clean>>

-----------------------------------------------------------------------------
(***************************************************************************)
(* Double words.                                                           *)
(***************************************************************************)
W == Pow[w]
GetMSB(x) == CHOOSE k \in 0 .. w : x < Pow[k] /\ (k = 0 \/ Pow[k - 1] <= x)

Split(x) == [hi |-> x \div W, lo |-> x % W]
GetD(x) == x.hi * W + x.lo

\* Four products of half words, whose middle two may carry twice.
SchoolbookMultD(x, y) ==
  LET H == Pow[w \div 2]
      p1 == (x % H) * (y \div H)
      p2 == (x \div H) * (y % H)
      lowBefore == (x % H) * (y % H)
      temp == (p1 + p2) % W
      lo == (lowBefore + (temp % H) * H) % W
      carry == (IF lowBefore > lo THEN 1 ELSE 0) + (IF temp < p1 \/ temp < p2 THEN H ELSE 0)
  IN  [hi |-> ((x \div H) * (y \div H) + (temp \div H) + carry) % W, lo |-> lo]

MultD(x, y) == IF wide THEN Split(x * y) ELSE SchoolbookMultD(x, y)

\* The two parts share no bit.
RShiftD(x, shift) == (x.lo \div Pow[shift]) + ((x.hi * Pow[w - shift]) % W)

SubtractD(x, y) ==
  IF x.lo < y.lo THEN [hi |-> (x.hi - 1 - y.hi) % W, lo |-> (x.lo - y.lo) % W]
                 ELSE [hi |-> (x.hi - y.hi) % W, lo |-> x.lo - y.lo]

-----------------------------------------------------------------------------
(***************************************************************************)
(* Barrett's reduction.  The estimated quotient is one too small at most;  *)
(* the remainder is corrected if it is above the modulus, so that the      *)
(* modulus itself is left where 0 is meant.                                *)
(***************************************************************************)
ComputeMu == (Pow[2 * GetMSB(modulus) + 3] \div modulus) % W

Estimate(x) == MultD(RShiftD(x, GetMSB(modulus) - 2), ComputeMu)

Remainder(x) ==
  IF wide
    THEN (GetD(x) - (GetD(Estimate(x)) \div Pow[GetMSB(modulus) + 5]) * modulus) % W
    ELSE SubtractD(x, MultD(RShiftD(Estimate(x), GetMSB(modulus) + 5), modulus)).lo

\* Mutant: no correction.
Barrett_Uncorrected(x) == Remainder(x)

Barrett(x) == IF Remainder(x) > modulus THEN Remainder(x) - modulus ELSE Remainder(x)

Mod(x) == x % modulus
ModMu(x) == Barrett([hi |-> 0, lo |-> x])

\* What addition and subtraction, and multiplication, do to an operand first.
Reduced(x) == IF x >= modulus THEN Mod(x) ELSE x
ReducedMu(x) == IF x >= modulus THEN ModMu(x) ELSE x
Lowered(x) == IF x > modulus THEN Mod(x) ELSE x
LoweredMu(x) == IF x > modulus THEN ModMu(x) ELSE x

ModAdd(x, y) == ModAddFast(Reduced(x), Reduced(y), modulus)
ModAddMu(x, y) == ModAddFast(ReducedMu(x), ReducedMu(y), modulus)
ModSub(x, y) == ModSubFast(Reduced(x), Reduced(y), modulus)
ModSubMu(x, y) == ModSubFast(ReducedMu(x), ReducedMu(y), modulus)

\* The second operand is reduced in a copy that is not used.
ModMulMu(x, y) == Barrett(MultD(LoweredMu(x), y))
ModMulFastMu(x, y) == Barrett(MultD(x, y))

ModMul(x, y) ==
  IF wide THEN (Lowered(x) * Lowered(y)) % modulus ELSE ModMulMu(LoweredMu(x), LoweredMu(y))

ModMulFast(x, y) ==
  IF wide THEN (x * y) % modulus ELSE ModMulFastMu(LoweredMu(x), LoweredMu(y))

-----------------------------------------------------------------------------
(***************************************************************************)
(* Shoup's multiplication by an operand y whose quotient is precomputed.   *)
(***************************************************************************)
PrepModMulConst(y) == ((y * W) \div modulus) % W
Signed(x) == IF x < Pow[w - 1] THEN x ELSE x - W

ModMulFastConst(x, y) ==
  LET quotient == MultD(x, PrepModMulConst(y)).hi
      yprime == (x * y - quotient * modulus) % W
  IN  IF Signed(yprime) - Signed(modulus) >= 0 THEN yprime - modulus ELSE yprime

-----------------------------------------------------------------------------
(***************************************************************************)
(* The two loops: square and multiply, and Euclid's algorithm.             *)
(***************************************************************************)
ModExp(x, e) ==
  LET times(u, v) == IF wide THEN (u * v) % modulus ELSE ModMulFastMu(u, v)
      mid[i \in 0 .. w] == IF i = 0 THEN x % modulus ELSE times(mid[i - 1], mid[i - 1])
      product[i \in 0 .. w] ==
        IF i = 0 THEN 1
        ELSE IF (e \div Pow[i - 1]) % 2 = 1 THEN times(product[i - 1], mid[i - 1])
        ELSE product[i - 1]
  IN  product[GetMSB(e)]

\* Of x prime to the modulus; u and v are the code's x and y.
ModInverse(x) ==
  LET euclid[a \in 0 .. modulus, m \in 0 .. modulus, u \in -modulus .. modulus, v \in -modulus .. modulus] ==
        IF a <= 1 THEN u ELSE euclid[m, a % m, v, u - (a \div m) * v]
      u == euclid[x % modulus, modulus, 1, 0]
  IN  IF u < 0 THEN u + modulus ELSE u

-----------------------------------------------------------------------------
\* Without a wider type moduli have two bits less, so that shifts stay below w.
NativeInit ==
  /\ modulus \in Moduli /\ wide \in BOOLEAN
  /\ wide \/ GetMSB(modulus) <= w - 6
  /\ m_value = 0 /\ want = 0 /\ clean = TRUE

\* The word becomes v, for the residue of r; the numbers given are those clean is about.
Becomes(v, r, given) ==
  /\ m_value' = v
  /\ want' = r % modulus
  /\ clean' = (clean /\ \A x \in given : x = 0 \/ x % modulus # 0)
  /\ UNCHANGED <<modulus, wide>>

\* The dividends that one correction is enough for.
Fits(z) == z < Pow[2 * GetMSB(modulus) + 2]
Above(z) == IF z >= modulus THEN {z} ELSE {}

ModStep(z) ==
  \/ Becomes(Mod(z), z, {})
  \/ Fits(z) /\ Becomes(ModMu(z), z, {z})

AddStep(z) ==
  \/ Becomes(ModAdd(m_value, z), want + z, {})
  \/ z <= modulus /\ Becomes(ModAddFast(m_value, z, modulus), want + z, Above(z))
  \/ Fits(z) /\ Becomes(ModAddMu(m_value, z), want + z, Above(z) \cup Above(m_value))

SubStep(z) ==
  \/ Becomes(ModSub(m_value, z), want - z, {})
  \/ Becomes(ModSub(z, m_value), z - want, {})
  \/ z <= modulus /\ Becomes(ModSubFast(m_value, z, modulus), want - z, Above(z))
  \/ z <= modulus /\ Becomes(ModSubFast(z, m_value, modulus), z - want, Above(z))
  \/ Fits(z) /\ Becomes(ModSubMu(m_value, z), want - z, Above(z) \cup Above(m_value))
  \/ Fits(z) /\ Becomes(ModSubMu(z, m_value), z - want, Above(z) \cup Above(m_value))

\* Operands of the fast methods are at most the modulus, and so is the second of ModMulMu.
MulStep(z) ==
  \/ /\ wide \/ Fits(z)
     /\ Becomes(ModMul(m_value, z), want * z,
                IF wide THEN {} ELSE Above(z) \cup {m_value * LoweredMu(z)})
  \/ /\ z <= modulus
     /\ Becomes(ModMulFast(m_value, z), want * z, IF wide THEN {} ELSE {m_value * z})
  \/ z <= modulus /\ Becomes(ModMulFastMu(m_value, z), want * z, {m_value * z})
  \/ /\ Fits(z)
     /\ Becomes(ModMulMu(z, m_value), want * z, Above(z) \cup {LoweredMu(z) * m_value})
  \/ z < modulus /\ Becomes(ModMulFastConst(m_value, z), want * z, {})
  \/ m_value < modulus /\ Becomes(ModMulFastConst(z, m_value), want * z, {})

ArithmeticStep == \E z \in Operands : ModStep(z) \/ AddStep(z) \/ SubStep(z) \/ MulStep(z)

\* Without a wider type a power that is a multiple of the modulus was reduced by Barrett.
ExpStep(z) ==
  LET power[e \in 0 .. z] == IF e = 0 THEN 1 ELSE (power[e - 1] * want) % modulus
  IN  Becomes(ModExp(m_value, z), power[z], IF wide \/ power[z] # 0 THEN {} ELSE {modulus})

\* Without a common divisor; with one the loop divides by zero.
InverseStep ==
  \E r \in 0 .. modulus - 1 :
    /\ (want * r) % modulus = 1
    /\ Becomes(ModInverse(m_value), r, {})

NativeNext == ArithmeticStep \/ (\E z \in Operands : z <= Pow[6] /\ ExpStep(z)) \/ InverseStep

NativeSpec == NativeInit /\ [][NativeNext]_nativeVars
ArithmeticSpec == NativeInit /\ [][ArithmeticStep]_nativeVars

\* Any operands within Barrett's range are given to ModMul with mu, in either order.
WideMulStep == \E z \in Operands :
  Fits(z) /\ Becomes(ModMulMu(m_value, z), want * z, {})

WideSpec == NativeInit /\ [][NativeNext \/ WideMulStep]_nativeVars

-----------------------------------------------------------------------------
(***************************************************************************)
(* Whatever the methods leave is right for the next one: a word between 0  *)
(* and the modulus, both included, that stands for the residue wanted.     *)
(* The modulus itself appears only after an operand that was not reduced,  *)
(* or a Barrett reduction of one of its multiples, which takes such an     *)
(* operand or a composite modulus: products of reduced operands modulo a   *)
(* prime, those of the transforms, are exact.                              *)
(***************************************************************************)
NativeIsRight ==
  /\ m_value = want \/ (want = 0 /\ m_value = modulus)
  /\ want \in 0 .. modulus - 1
  /\ clean => m_value = want

(***************************************************************************)
(* Multiplication with mu, which is not one of the methods that assume     *)
(* operands below the modulus, keeps the residue.                          *)
(***************************************************************************)
ResidueIsKept == m_value % modulus = want
=============================================================================
