--------------------------- MODULE BigIntegerFxd ---------------------------
(***************************************************************************)
(* BigIntegerFixedT: an unsigned integer in an array of words of one size, *)
(* here lowest first, and the place of its highest bit.                    *)
(*                                                                         *)
(* The bit's place says which words are of the number.  Those above are    *)
(* not kept at 0: a number made of a string has them as it found them      *)
(* (stray), and a product has them left over from earlier products.        *)
(***************************************************************************)
EXTENDS Integers, SequencesExt

CONSTANTS limbBits,  \* m_uintBitLength
          nSize      \* m_nSize, the words of a number

VARIABLE stray

-----------------------------------------------------------------------------
(***************************************************************************)
(* Words.                                                                  *)
(***************************************************************************)
B == 2 ^ limbBits

GetMSB(x) == CHOOSE k \in 0 .. 2 * limbBits : x < 2 ^ k /\ (k = 0 \/ 2 ^ (k - 1) <= x)
ceilIntByUInt(bits) == IF bits = 0 THEN 1 ELSE (bits + limbBits - 1) \div limbBits

\* The words a number takes, and the MSB when the highest of them is the given one.
Used(a) == ceilIntByUInt(a.m_MSB)
MSBAt(v, top) == (top - 1) * limbBits + GetMSB(v[top])

Zero == [m_value |-> [i \in 1 .. nSize |-> 0], m_MSB |-> 0]

Bits(x) == CHOOSE k \in 0 .. nSize * limbBits : x < 2 ^ k /\ (k = 0 \/ 2 ^ (k - 1) <= x)

Make(x, written, above) ==
  [m_value |-> [i \in 1 .. nSize |-> IF i <= written THEN (x \div B ^ (i - 1)) % B ELSE above],
   m_MSB |-> Bits(x)]

\* Made of a machine word, and of a string, which leaves the words above as they are.
Small(x) == Make(x, nSize, 0)
AssignVal(x) == Make(x, Bits(x) \div limbBits + 1, stray)

Compare(a, b) ==
  LET differ == {i \in 1 .. Used(a) : a.m_value[i] # b.m_value[i]}
  IN  IF a.m_MSB # b.m_MSB THEN a.m_MSB - b.m_MSB
      ELSE IF differ = {} THEN 0
      ELSE a.m_value[Max(differ)] - b.m_value[Max(differ)]

Equal(a, b) == Compare(a, b) = 0
Less(a, b) == Compare(a, b) < 0
Above(a, b) == Compare(a, b) > 0

-----------------------------------------------------------------------------
(***************************************************************************)
(* Sums, differences and products.  Operands leave the highest word free:  *)
(* the loops over words count down in a type without negative numbers, and *)
(* do not end if they should pass the highest.                             *)
(***************************************************************************)
\* The sum written over the words of old.
SumOf(large, small, old) ==
  LET top == Used(large)
      word(i) == IF i <= Used(small) THEN small.m_value[i] ELSE 0
      ofl[i \in 0 .. top] ==
        IF i = 0 THEN 0 ELSE (large.m_value[i] + word(i) + ofl[i - 1]) \div B
      v == [i \in 1 .. nSize |->
              IF i <= top THEN (large.m_value[i] + word(i) + ofl[i - 1]) % B
              ELSE IF i = top + 1 /\ ofl[top] > 0 THEN 1 ELSE old[i]]
  IN  [m_value |-> v, m_MSB |-> IF ofl[top] > 0 THEN large.m_MSB + 1 ELSE MSBAt(v, top)]

Sum2(a, b, old) == IF Above(a, b) THEN SumOf(a, b, old) ELSE SumOf(b, a, old)

Add(a, b) ==
  IF a.m_MSB = 0 /\ ~Above(a, b) THEN b
  ELSE IF b.m_MSB = 0 THEN a
  ELSE Sum2(a, b, Zero.m_value)

AddEq(a, b) ==
  IF b.m_MSB = 0 THEN a ELSE IF a.m_MSB = 0 THEN b ELSE Sum2(a, b, a.m_value)

\* There are no negative numbers: a larger subtrahend gives 0.
Sub(a, b) ==
  LET word(i) == IF i <= Used(b) THEN b.m_value[i] ELSE 0
      borrow[i \in 0 .. nSize] ==
        IF i \in 1 .. Used(a) /\ a.m_value[i] - borrow[i - 1] < word(i) THEN 1 ELSE 0
      v == [i \in 1 .. nSize |->
              IF i <= Used(a) THEN (a.m_value[i] - borrow[i - 1] - word(i)) % B ELSE a.m_value[i]]
  IN  IF Above(a, b)
        THEN [m_value |-> v, m_MSB |-> MSBAt(v, Max({i \in 1 .. Used(a) : v[i] # 0}))]
        ELSE Zero

\* The product written over the words of old.
MulByUintToInt(a, d, old) ==
  LET top == Used(a)
      temp[i \in 0 .. top] ==
        IF i = 0 THEN 0 ELSE a.m_value[i] * d + (temp[i - 1] \div B)
  IN  IF d = 0 \/ a.m_MSB = 0 THEN Zero
      ELSE [m_value |-> [i \in 1 .. nSize |->
                           IF i <= top THEN temp[i] % B
                           ELSE IF i = top + 1 /\ temp[top] >= B THEN temp[top] \div B ELSE old[i]],
            m_MSB |-> (top - 1) * limbBits + GetMSB(temp[top])]

MulByUint(a, d) == MulByUintToInt(a, d, Zero.m_value)

-----------------------------------------------------------------------------
(***************************************************************************)
(* Shifts.  Too far to the left throws, and the machine below does not.    *)
(***************************************************************************)
LShift(a, shift) ==
  LET part == 2 ^ (shift % limbBits)
      words == shift \div limbBits
      bits == IF part = 1 THEN a.m_value
              ELSE [i \in 1 .. nSize |->
                      IF i > Used(a) + 1 THEN a.m_value[i]
                      ELSE (IF i <= Used(a) THEN (a.m_value[i] * part) % B ELSE 0)
                           + IF i > 1 THEN (a.m_value[i - 1] * part) \div B ELSE 0]
      top == ceilIntByUInt(a.m_MSB + (shift % limbBits))
  IN  IF a.m_MSB = 0 THEN Zero
      ELSE [m_value |-> [i \in 1 .. nSize |-> IF i <= words THEN 0
                                              ELSE IF i <= top + words THEN bits[i - words]
                                              ELSE bits[i]],
            m_MSB |-> a.m_MSB + shift]

RShift(a, shift) ==
  LET part == 2 ^ (shift % limbBits)
      words == shift \div limbBits
      moved == [i \in 1 .. nSize |-> IF i + words <= Used(a) THEN a.m_value[i + words]
                                     ELSE IF i <= Used(a) THEN 0 ELSE a.m_value[i]]
      top == ceilIntByUInt(a.m_MSB - words * limbBits)
  IN  IF a.m_MSB <= shift THEN Zero
      ELSE [m_value |-> [i \in 1 .. nSize |->
                           IF i > top THEN moved[i]
                           ELSE (moved[i] \div part)
                                + (IF i < top THEN (moved[i + 1] % part) * (B \div part) ELSE 0)],
            m_MSB |-> a.m_MSB - shift]

\* In place, 0 is left as it is.
LShiftEq(a, shift) == IF a.m_MSB = 0 THEN a ELSE LShift(a, shift)
RShiftEq(a, shift) == IF a.m_MSB = 0 THEN a ELSE RShift(a, shift)

\* Only the words of the last product are written: the others are of earlier ones.
Mul(a, b) ==
  LET next(pair, i) ==
        LET temp == LShiftEq(MulByUintToInt(a, b.m_value[i], pair.temp.m_value), (i - 1) * limbBits)
        IN  [temp |-> temp, ans |-> AddEq(pair.ans, temp)]
  IN  IF a.m_MSB = 0 \/ b.m_MSB = 0 THEN Zero
      ELSE IF b.m_MSB = 1 THEN a
      ELSE IF a.m_MSB = 1 THEN b
      ELSE FoldLeftDomain(next, [temp |-> Zero, ans |-> Zero], SubSeq(b.m_value, 1, Used(b))).ans

RECURSIVE Exp(_, _)
Exp(a, p) ==
  IF p = 0 THEN Small(1)
  ELSE IF p = 1 THEN a
  ELSE LET tmp == Exp(a, p \div 2)
       IN  IF p % 2 = 0 THEN Mul(tmp, tmp) ELSE Mul(Mul(tmp, tmp), a)

-----------------------------------------------------------------------------
(***************************************************************************)
(* Residues by subtracting the modulus, shifted as far as it goes.         *)
(***************************************************************************)
\* j is the multiple of m to be subtracted next, if its double is not.
Multiple(a, j) ==
  IF a.m_MSB = j.m_MSB + 1 /\ Above(a, LShift(j, 1)) THEN LShift(j, 1) ELSE j

NextMultiple(rest, multiple, m) ==
  IF rest.m_MSB > m.m_MSB THEN RShiftEq(multiple, multiple.m_MSB - rest.m_MSB + 1) ELSE m

RECURSIVE SubtractMultiples(_, _, _)
SubtractMultiples(a, j, m) ==
  LET from(rest) == SubtractMultiples(rest, NextMultiple(rest, Multiple(a, j), m), m)
  IN  IF Less(a, m) THEN a ELSE from(Sub(a, Multiple(a, j)))

Mod(a, m) ==
  IF Less(a, m) THEN a
  ELSE IF m.m_MSB = 2 /\ m.m_value[1] = 2 THEN Small(a.m_value[1] % 2)
  ELSE SubtractMultiples(a, LShift(m, IF a.m_MSB > m.m_MSB THEN a.m_MSB - m.m_MSB - 1 ELSE 0), m)

-----------------------------------------------------------------------------
(***************************************************************************)
(* Long division, word by word.  The running dividend is what remains of   *)
(* the words before, and the next; a word of the quotient is made of the   *)
(* shifts of b that its multiple in the running dividend is the sum of.    *)
(***************************************************************************)
RECURSIVE BitsOfQuotient(_, _)
BitsOfQuotient(product, b) ==
  LET shifts == product.m_MSB - b.m_MSB
      exact == IF shifts = limbBits \/ Above(MulByUint(b, 2 ^ shifts), product)
                 THEN shifts - 1 ELSE shifts
  IN  IF product.m_MSB = 0 THEN 0
      ELSE 2 ^ exact + BitsOfQuotient(Sub(product, LShift(b, exact)), b)

WordOf(product, b) ==
  IF Above(product, b) THEN BitsOfQuotient(product, b) ELSE IF product.m_MSB = 0 THEN 0 ELSE 1

QuotientWord(dividend, b) == WordOf(Sub(dividend, Mod(dividend, b)), b)

\* The next word below what remains; a dividend of no bits takes its MSB from the word.
Extended(moved, word) ==
  [m_value |-> [moved.m_value EXCEPT ![1] = word],
   m_MSB |-> IF moved.m_MSB = 0 THEN GetMSB(word) ELSE moved.m_MSB]

NextDividend(dividend, b, word) ==
  Extended(IF dividend.m_MSB = 0 THEN dividend ELSE LShift(Mod(dividend, b), limbBits), word)

\* The running dividends of the words of a from its highest Used(b) words down.
RunningDividends(a, b) ==
  LET all == Used(a)
      first == Used(b)
      v == [i \in 1 .. nSize |-> IF i <= first THEN a.m_value[all - first + i] ELSE 0]
      running[i \in 0 .. all - first] ==
        IF i = 0 THEN [m_value |-> v, m_MSB |-> MSBAt(v, first)]
        ELSE NextDividend(running[i - 1], b, a.m_value[all - first + 1 - i])
  IN  running

FromWords(v) == [m_value |-> v, m_MSB |-> MSBAt(v, Max({i \in 1 .. nSize : v[i] # 0}))]

QuotientAndRest(running, last, b) ==
  [q |-> FromWords([i \in 1 .. nSize |->
                      IF i <= last + 1 THEN QuotientWord(running[last + 1 - i], b) ELSE 0]),
   r |-> Mod(running[last], b)]

LongDivision(a, b) == QuotientAndRest(RunningDividends(a, b), Used(a) - Used(b), b)

\* What is divided is a multiple of b.
DividedBy(a, b) ==
  IF Above(b, a) THEN Zero
  ELSE IF Equal(b, a) THEN Small(1)
  ELSE LongDivision(Sub(a, Mod(a, b)), b).q

RoundedQuotient(result, halfQ) ==
  IF Above(result.r, halfQ) THEN AddEq(result.q, Small(1)) ELSE result.q

DivideAndRound(a, q) ==
  IF ~Less(a, q) THEN RoundedQuotient(LongDivision(a, q), RShift(q, 1))
  ELSE IF Above(a, RShift(q, 1)) THEN Small(1) ELSE Zero

MultiplyAndRound(a, p, q) == DivideAndRound(Mul(a, p), q)

-----------------------------------------------------------------------------
(***************************************************************************)
(* The modular methods, with Barrett's reduction or without.               *)
(***************************************************************************)
ComputeMu(m) == DividedBy(LShiftEq(Small(1), 2 * m.m_MSB + 3), m)

\* The quotient before it is shifted into place.
Estimate(a, m) == Mul(RShiftEq(a, m.m_MSB - 2), ComputeMu(m))

SubtractedOnce(z, m) == IF Less(z, m) THEN z ELSE Sub(z, m)

ModMu(a, m) ==
  IF Less(a, m) THEN a
  ELSE SubtractedOnce(Sub(a, Mul(RShiftEq(Estimate(a, m), m.m_MSB + 5), m)), m)

\* What the methods below, of operands a and b, do with mu is asked for by mu.
ModBy(a, m, mu) == IF mu THEN ModMu(a, m) ELSE Mod(a, m)
Reduced(a, m, mu) == IF Less(a, m) THEN a ELSE ModBy(a, m, mu)

ModAdd(a, b, m) == Mod(AddEq(Reduced(a, m, FALSE), Reduced(b, m, FALSE)), m)
ModAddFast(a, b, m, mu) == ModBy(AddEq(a, b), m, mu)

ModSubFast(a, b, m, mu) ==
  IF Less(a, b) THEN Sub(AddEq(a, m), b) ELSE ModBy(Sub(a, b), m, mu)
ModSub(a, b, m, mu) == ModSubFast(Reduced(a, m, mu), Reduced(b, m, mu), m, mu)

ModMulFast(a, b, m, mu) == ModBy(Mul(a, b), m, mu)
ModMul(a, b, m, mu) == ModMulFast(Reduced(a, m, mu), Reduced(b, m, mu), m, mu)

Lowered(x, m) == IF Above(x, m) THEN ModMu(x, m) ELSE x

NextPower(product, mid, e) == IF e.m_value[1] % 2 = 1 THEN Mul(product, mid) ELSE product

RECURSIVE SquareAndMultiply(_, _, _, _)
SquareAndMultiply(product, mid, e, m) ==
  LET from(next, half) == IF half.m_MSB = 0 THEN next
                          ELSE SquareAndMultiply(next, ModMu(Mul(mid, mid), m), half, m)
  IN  from(Lowered(NextPower(product, mid, e), m), RShift(e, 1))

ModExp(a, e, m) == SquareAndMultiply(Small(1), Mod(a, m), e, m)

\* Euclid's quotients on the way down ("north").
RECURSIVE Quotients(_, _)
Quotients(first, second) ==
  <<DividedBy(first, second)>>
  \o IF Equal(Mod(first, second), Small(1)) THEN <<>> ELSE Quotients(second, Mod(first, second))

\* The way back ("south") gives the inverse or its negative.
South(quotient) ==
  FoldRight(LAMBDA q, p : <<p[2], Add(Mul(q, p[2]), p[1])>>, quotient, <<Zero, Small(1)>>)[2]

FromQuotients(quotient, m) ==
  IF Len(quotient) % 2 = 1 THEN Sub(m, South(quotient)) ELSE South(quotient)

\* Of a number prime to the modulus.
ModInverse(a, m) ==
  LET inverse(second) == IF Equal(second, Small(1)) THEN Small(1)
                         ELSE FromQuotients(Quotients(m, second), m)
  IN  inverse(IF Above(a, m) THEN Mod(a, m) ELSE a)

-----------------------------------------------------------------------------
(***************************************************************************)
(* Digits and bits.                                                        *)
(***************************************************************************)
\* Bits are counted from 1.
GetBitAtIndex(a, index) ==
  IF index > a.m_MSB THEN 0
  ELSE (a.m_value[ceilIntByUInt(index)] \div 2 ^ ((index - 1) % limbBits)) % 2

\* Digits for the base 2^bits.
GetDigitAtIndexForBase(a, index, bits) ==
  FoldLeftDomain(LAMBDA digit, i : digit + GetBitAtIndex(a, (index - 1) * bits + i) * 2 ^ (i - 1),
                 0, [i \in 1 .. bits |-> i])

=============================================================================
