--------------------------- MODULE BigIntegerDyn ---------------------------
(***************************************************************************)
(* ubint: an unsigned integer of any size, as a vector of limbs, lowest    *)
(* first, and the place of its highest bit.                                *)
(*                                                                         *)
(* Vectors are compared limb by limb from the top of the first, which may  *)
(* be longer than the second: stray is what lies after a last limb.        *)
(***************************************************************************)
EXTENDS Integers, SequencesExt

CONSTANT limbBits  \* m_limbBitLength

VARIABLE stray

-----------------------------------------------------------------------------
(***************************************************************************)
(* Limbs.                                                                  *)
(***************************************************************************)
B == 2 ^ limbBits

GetMSB(x) == CHOOSE k \in 0 .. limbBits : x < 2 ^ k /\ (k = 0 \/ 2 ^ (k - 1) <= x)
ceilIntByUInt(bits) == IF bits = 0 THEN 1 ELSE (bits + limbBits - 1) \div limbBits

SetMSB(v) == [m_value |-> v, m_MSB |-> (Len(v) - 1) * limbBits + GetMSB(v[Len(v)])]

\* A vector keeps one limb at least.
NormalizeLimbs(v) == SubSeq(v, 1, Max({1} \cup {i \in DOMAIN v : v[i] # 0}))

Tidy(v) == SetMSB(NormalizeLimbs(v))

LimbsOf(x, size) == [i \in 1 .. size |-> (x \div B ^ (i - 1)) % B]
NumberOf(v) == FoldLeftDomain(LAMBDA sum, i : sum + v[i] * B ^ (i - 1), 0, v)

\* The bits of a number in all, and the number made of a machine word.
Bits(x) == CHOOSE k \in 0 .. 30 : x < 2 ^ k /\ (k = 0 \/ 2 ^ (k - 1) <= x)
Ubint(x) == SetMSB(LimbsOf(x, ceilIntByUInt(Bits(x))))

Compare(a, b) ==
  LET other(i) == IF i <= Len(b.m_value) THEN b.m_value[i] ELSE stray
      differ == {i \in DOMAIN a.m_value : a.m_value[i] # other(i)}
  IN  IF a.m_MSB # b.m_MSB THEN a.m_MSB - b.m_MSB
      ELSE IF differ = {} THEN 0
      ELSE a.m_value[Max(differ)] - other(Max(differ))

Equal(a, b) == Compare(a, b) = 0
Less(a, b) == Compare(a, b) < 0
Above(a, b) == Compare(a, b) > 0

-----------------------------------------------------------------------------
(***************************************************************************)
(* Sums, differences and products, limb by limb.                           *)
(***************************************************************************)
AddLimbs(u, v) ==
  LET size == Max({Len(u), Len(v)})
      limb(s, i) == IF i <= Len(s) THEN s[i] ELSE 0
      ofl[i \in 0 .. size] ==
        IF i = 0 THEN 0 ELSE (limb(u, i) + limb(v, i) + ofl[i - 1]) \div B
  IN  [i \in 1 .. size |-> (limb(u, i) + limb(v, i) + ofl[i - 1]) % B]
      \o IF ofl[size] > 0 THEN <<1>> ELSE <<>>

AddEq(a, b) ==
  IF b.m_MSB = 0 THEN a
  ELSE IF a.m_MSB = 0 THEN b
  ELSE SetMSB(AddLimbs(a.m_value, b.m_value))

Add(a, b) ==
  LET used(x) == SubSeq(x.m_value, 1, ceilIntByUInt(x.m_MSB))
      large == IF Above(a, b) THEN a ELSE b
      small == IF Above(a, b) THEN b ELSE a
  IN  IF small.m_MSB = 0 THEN large ELSE SetMSB(AddLimbs(used(large), used(small)))

\* The first nonzero limb above gives the one that is borrowed.
SubLimbs(u, v) ==
  LET limb(i) == IF i <= Len(v) THEN v[i] ELSE 0
      borrow[i \in 0 .. Len(u)] ==
        IF i > 0 /\ u[i] - borrow[i - 1] < limb(i) THEN 1 ELSE 0
  IN  [i \in 1 .. Len(u) |-> (u[i] - borrow[i - 1] - limb(i)) % B]

\* There are no negative numbers: a larger subtrahend gives 0.
Sub(a, b) == IF Above(a, b) THEN Tidy(SubLimbs(a.m_value, b.m_value)) ELSE Ubint(0)

MulIntegerByLimb(u, d) ==
  LET ofl[i \in 0 .. Len(u)] == IF i = 0 THEN 0 ELSE (u[i] * d + ofl[i - 1]) \div B
  IN  [i \in 1 .. Len(u) |-> (u[i] * d + ofl[i - 1]) % B]
      \o IF ofl[Len(u)] > 0 THEN <<ofl[Len(u)]>> ELSE <<>>

\* A limb of 0 leaves a product of zero limbs only, with an MSB nonetheless.
Shifted(u, d, i) == SetMSB([k \in 1 .. i - 1 |-> 0] \o MulIntegerByLimb(u, d))

Mul(a, b) ==
  IF a.m_MSB = 0 \/ b.m_MSB = 0 THEN Ubint(0)
  ELSE IF b.m_MSB = 1 THEN a
  ELSE IF a.m_MSB = 1 THEN b
  ELSE FoldLeftDomain(LAMBDA ans, i : AddEq(ans, Shifted(a.m_value, b.m_value[i], i)),
                      Ubint(0), b.m_value)

RECURSIVE Exp(_, _)
Exp(a, p) ==
  IF p = 0 THEN Ubint(1)
  ELSE IF p = 1 THEN a
  ELSE LET tmp == Exp(a, p \div 2)
       IN  IF p % 2 = 0 THEN Mul(tmp, tmp) ELSE Mul(Mul(tmp, tmp), a)

-----------------------------------------------------------------------------
(***************************************************************************)
(* Shifts.                                                                 *)
(***************************************************************************)
LShift(a, shift) ==
  LET zeros == [k \in 1 .. shift \div limbBits |-> 0]
      factor == 2 ^ (shift % limbBits)
  IN  IF a.m_MSB = 0 THEN Ubint(0)
      ELSE [m_value |-> zeros \o MulIntegerByLimb(a.m_value, factor), m_MSB |-> a.m_MSB + shift]

ShiftDown(a, shift) ==
  LET v == SubSeq(a.m_value, shift \div limbBits + 1, Len(a.m_value))
      part == 2 ^ (shift % limbBits)
      above(i) == IF i < Len(v) THEN v[i + 1] ELSE 0
  IN  Tidy([i \in 1 .. Len(v) |-> v[i] \div part + (above(i) % part) * (B \div part)])

RShift(a, shift) == IF a.m_MSB <= shift THEN Ubint(0) ELSE ShiftDown(a, shift)

\* A number with no limb: what it holds, and what is read of it, is undefined.
NoLimb == [m_value |-> <<>>, m_MSB |-> 0]

\* A number shifted out is set to 0, one limb, and then shifted like any other.
RShiftEq(a, shift) ==
  IF a.m_MSB = 0 THEN a
  ELSE IF a.m_MSB > shift THEN ShiftDown(a, shift)
  ELSE IF shift < limbBits THEN Ubint(0)
  ELSE NoLimb

-----------------------------------------------------------------------------
(***************************************************************************)
(* Long division (Knuth's algorithm D).  A digit of the quotient is        *)
(* estimated from the top limbs, lowered while the next limb shows it to   *)
(* be too big, and lowered once more, the divisor added back, if what is   *)
(* subtracted exceeds what is left.                                        *)
(***************************************************************************)
\* From the top limb down: k[i] is what remains of the limbs from i on.
DivideByLimb(u, d) ==
  LET k[i \in 1 .. Len(u) + 1] == IF i > Len(u) THEN 0 ELSE (k[i + 1] * B + u[i]) % d
  IN  [q |-> [i \in 1 .. Len(u) |-> (k[i + 1] * B + u[i]) \div d], r |-> <<k[1]>>]

\* The digit for the limbs of un from j + 1 to j + n + 1.
QHat(un, vn, j) ==
  LET size == Len(vn)
      top == un[j + size + 1] * B + un[j + size]
      rhat(k) == (top % vn[size]) + k * vn[size]
      isTooBig(k) == LET qhat == top \div vn[size] - k
                     IN  qhat >= B \/ qhat * vn[size - 1] > B * rhat(k) + un[j + size - 1]
      lowered == CHOOSE k \in 0 .. B : /\ ~isTooBig(k) \/ (k > 0 /\ rhat(k) >= B)
                                       /\ \A l \in 0 .. k - 1 : isTooBig(l) /\ (l = 0 \/ rhat(l) < B)
  IN  top \div vn[size] - lowered

\* What is left of un, two's complement, and the sign of the last difference.
Subtracted(un, vn, j, qhat) ==
  LET size == Len(vn)
      k[i \in 0 .. size] ==
        IF i = 0 THEN 0
        ELSE (qhat * vn[i]) \div B - ((un[i + j] - k[i - 1] - ((qhat * vn[i]) % B)) \div B)
  IN  [un |-> [i \in DOMAIN un |->
                 IF i \in j + 1 .. j + size THEN (un[i] - k[i - j - 1] - ((qhat * vn[i - j]) % B)) % B
                 ELSE IF i = j + size + 1 THEN (un[i] - k[size]) % B ELSE un[i]],
       negative |-> un[j + size + 1] < k[size]]

AddedBack(un, vn, j) ==
  LET size == Len(vn)
      k[i \in 0 .. size] == IF i = 0 THEN 0 ELSE (un[i + j] + vn[i] + k[i - 1]) \div B
  IN  [i \in DOMAIN un |->
         IF i \in j + 1 .. j + size THEN (un[i] + vn[i - j] + k[i - j - 1]) % B
         ELSE IF i = j + size + 1 THEN (un[i] + k[size]) % B ELSE un[i]]

\* Mutant: the divisor is added back and the digit is not lowered.
Corrected_DigitKept(rest, vn, j, qhat, q) ==
  [un |-> IF rest.negative THEN AddedBack(rest.un, vn, j) ELSE rest.un, q |-> <<qhat>> \o q]

Corrected(rest, vn, j, qhat, q) ==
  IF rest.negative
    THEN [un |-> AddedBack(rest.un, vn, j), q |-> <<qhat - 1>> \o q]
    ELSE [un |-> rest.un, q |-> <<qhat>> \o q]

DivisionStep(left, vn, j) ==
  LET qhat == QHat(left.un, vn, j)
  IN  Corrected(Subtracted(left.un, vn, j, qhat), vn, j, qhat, left.q)

\* Both are first shifted so that the divisor's highest bit is set.
divqr_vect(u, v) ==
  LET size == Len(v)
      m == Len(u)
      s == 2 ^ (limbBits - GetMSB(v[size]))
      divided[i \in 0 .. m - size + 1] ==
        IF i = 0 THEN [un |-> LimbsOf(NumberOf(u) * s, m + 1), q |-> <<>>]
        ELSE DivisionStep(divided[i - 1], LimbsOf(NumberOf(v) * s, size), m - size + 1 - i)
      back(result) == [q |-> result.q, r |-> LimbsOf(NumberOf(result.un) \div s, size)]
  IN  IF size = 1 THEN DivideByLimb(u, v[1]) ELSE back(divided[m - size + 1])

\* The loop is written out again where only one of the results is wanted.
divq_vect(u, v) == divqr_vect(u, v).q
divr_vect(u, v) == divqr_vect(u, v).r

DividedBy(a, b) ==
  IF b.m_MSB > a.m_MSB THEN Ubint(0)
  ELSE IF Equal(b, a) THEN Ubint(1)
  ELSE Tidy(divq_vect(a.m_value, b.m_value))

RoundedQuotient(result, halfQ) ==
  IF Above(Tidy(result.r), halfQ) THEN AddEq(Tidy(result.q), Ubint(1)) ELSE Tidy(result.q)

DivideAndRound(a, q) ==
  IF ~Less(a, q) THEN RoundedQuotient(divqr_vect(a.m_value, q.m_value), RShift(q, 1))
  ELSE IF Above(a, RShift(q, 1)) THEN Ubint(1) ELSE Ubint(0)

MultiplyAndRound(a, p, q) == DivideAndRound(Mul(a, p), q)

-----------------------------------------------------------------------------
(***************************************************************************)
(* Residues, by division and by Barrett's reduction.                       *)
(***************************************************************************)
Mod(a, m) ==
  IF Less(a, m) THEN a
  ELSE IF m.m_MSB = 2 /\ m.m_value[1] = 2 THEN Ubint(a.m_value[1] % 2)
  ELSE Tidy(divr_vect(a.m_value, m.m_value))

ComputeMu(m) == DividedBy(LShift(Ubint(1), 2 * m.m_MSB + 3), m)

\* The quotient before it is shifted into place, and its shift.
Estimate(a, m) == Mul(RShiftEq(a, m.m_MSB - 2), ComputeMu(m))
EstimateShift(m) == m.m_MSB + 5

SubtractedOnce(z, m) == IF Less(z, m) THEN z ELSE Sub(z, m)

ModMu(a, m) ==
  IF Less(a, m) THEN a
  ELSE SubtractedOnce(Sub(a, Mul(RShiftEq(Estimate(a, m), EstimateShift(m)), m)), m)

Reduced(a, m) == IF Less(a, m) THEN a ELSE Mod(a, m)
ReducedMu(a, m) == IF Less(a, m) THEN a ELSE ModMu(a, m)

ModAdd(a, b, m) == Mod(AddEq(Reduced(a, m), Reduced(b, m)), m)
ModAddFast(a, b, m) == Mod(AddEq(a, b), m)
ModAddMu(a, b, m) == ModMu(AddEq(a, b), m)

ModSubFast(a, b, m) == IF Less(a, b) THEN Sub(AddEq(a, m), b) ELSE Mod(Sub(a, b), m)
ModSub(a, b, m) == ModSubFast(Reduced(a, m), Reduced(b, m), m)
DifferenceMu(x, y, m) == IF Less(x, y) THEN Sub(AddEq(x, m), y) ELSE ModMu(Sub(x, y), m)
ModSubMu(a, b, m) == DifferenceMu(ReducedMu(a, m), ReducedMu(b, m), m)

\* The product is reduced after each limb of b; a factor of 1 leaves the other as it is.
ModMul(a, b, m) ==
  IF a.m_MSB = 0 \/ b.m_MSB = 0 THEN Ubint(0)
  ELSE IF b.m_MSB = 1 THEN a
  ELSE IF a.m_MSB = 1 THEN b
  ELSE FoldLeftDomain(LAMBDA ans, i : Mod(AddEq(ans, Shifted(a.m_value, b.m_value[i], i)), m),
                      Ubint(0), b.m_value)

ModMulFastMu(a, b, m) == ModMu(Mul(a, b), m)

\* Operands equal to the modulus are not reduced.
LoweredMu(x, m) == IF Above(x, m) THEN ModMu(x, m) ELSE x

ModMulMu(a, b, m) ==
  ModMulFastMu(LoweredMu(a, m), LoweredMu(b, m), m)

Lowered(x, m) == IF Above(x, m) THEN Mod(x, m) ELSE x

NextPower(product, mid, e) == IF e.m_value[1] % 2 = 1 THEN Mul(product, mid) ELSE product

RECURSIVE SquareAndMultiply(_, _, _, _)
SquareAndMultiply(product, mid, e, m) ==
  LET from(next, half) == IF half.m_MSB = 0 THEN next
                          ELSE SquareAndMultiply(next, Mod(Mul(mid, mid), m), half, m)
  IN  from(Lowered(NextPower(product, mid, e), m), RShift(e, 1))

ModExp(a, e, m) == SquareAndMultiply(Ubint(1), Mod(a, m), e, m)

\* Euclid's quotients on the way down ("north").
RECURSIVE Quotients(_, _)
Quotients(first, second) ==
  <<DividedBy(first, second)>>
  \o IF Equal(Mod(first, second), Ubint(1)) THEN <<>> ELSE Quotients(second, Mod(first, second))

\* The way back ("south") gives the inverse or its negative.
South(quotient) ==
  FoldRight(LAMBDA q, p : <<p[2], Add(Mul(q, p[2]), p[1])>>, quotient, <<Ubint(0), Ubint(1)>>)[2]

FromQuotients(quotient, m) ==
  IF Len(quotient) % 2 = 1 THEN Sub(m, South(quotient)) ELSE South(quotient)

\* Of a number prime to the modulus.
ModInverse(a, m) ==
  LET inverse(second) == IF Equal(second, Ubint(1)) THEN Ubint(1)
                         ELSE FromQuotients(Quotients(m, second), m)
  IN  inverse(IF Above(a, m) THEN Mod(a, m) ELSE a)

-----------------------------------------------------------------------------
(***************************************************************************)
(* Digits and bits.                                                        *)
(***************************************************************************)
\* Bits are counted from 1.
GetBitAtIndex(a, index) ==
  IF index > a.m_MSB THEN 0
  ELSE (a.m_value[ceilIntByUInt(index)] \div 2 ^ ((index - 1) % limbBits)) % 2

\* Digits for the base 2^bits.
GetDigitAtIndexForBase(a, index, bits) ==
  FoldLeftDomain(LAMBDA digit, i : digit + GetBitAtIndex(a, (index - 1) * bits + i) * 2 ^ (i - 1),
                 0, [i \in 1 .. bits |-> i])

\* The bits of x, the highest first, cut into limbs from the end; the first piece has the
\* rest of the division of their number by limbBits, none if it divides.
FromBinaryString(x) ==
  LET len == Max({1, Bits(x)})
      limb(i) == IF len > i * limbBits THEN (x \div B ^ (i - 1)) % B
                 ELSE x \div 2 ^ (len - (len % limbBits))
  IN  SetMSB([i \in 1 .. ceilIntByUInt(len) |-> limb(i)])

=============================================================================
