------------------------ MODULE NativeInteger_proofs ------------------------
(***************************************************************************)
(* Native modular arithmetic is right for every word size, modulus and     *)
(* operand, where the double type is wider than a word.  Barrett's         *)
(* estimate misses the quotient by one at most (EstimateIsClose), Shoup's  *)
(* too (ShoupIsClose); one correction is then enough, except that Barrett  *)
(* leaves the modulus in the place of 0.  The invariant says what a word   *)
(* may be between two methods; each method keeps it for any operand of its *)
(* range.                                                                  *)
(***************************************************************************)
EXTENDS NativeInteger, TLAPS

\* Division with remainder.
LEMMA Quotient ==
  ASSUME NEW a \in Int, NEW m \in Nat, m > 0
  PROVE  a \div m \in Int /\ a % m \in 0 .. m - 1 /\ a = m * (a \div m) + (a % m)
  BY SMT

\* The quotient of a natural number is one.
LEMMA NatQuotient ==
  ASSUME NEW a \in Nat, NEW m \in Nat, m > 0
  PROVE  a \div m \in Nat
  BY SMT

\* Whatever has the form of a division with remainder is that division.
LEMMA DivisionIsUnique ==
  ASSUME NEW m \in Nat, m > 0, NEW k \in Int, NEW r \in 0 .. m - 1, NEW a \in Int, a = m * k + r
  PROVE  a % m = r /\ a \div m = k
<1>1. a \div m \in Int /\ a % m \in 0 .. m - 1 /\ a = m * (a \div m) + (a % m)
  BY Quotient
<1> DEFINE d == a \div m
           e == a % m
<1>2. m * (d - k) = r - e BY <1>1, SMT
<1>3. d = k
  <2>1. CASE d > k
    <3>1. m * (d - k) >= m BY <1>1, <2>1, SMT
    <3> QED BY <1>1, <1>2, <3>1, SMT
  <2>2. CASE d < k
    <3>1. m * (d - k) <= -m BY <1>1, <2>2, SMT
    <3> QED BY <1>1, <1>2, <3>1, SMT
  <2> QED BY <1>1, <2>1, <2>2, SMT
<1> QED BY <1>1, <1>2, <1>3, SMT

\* The remainder of a number given by quotient and remainder.
LEMMA ResidueOf ==
  ASSUME NEW m \in Nat, m > 0, NEW k \in Int, NEW r \in 0 .. m - 1
  PROVE  (m * k + r) % m = r
<1> DEFINE a == m * k + r
<1>1. a \in Int BY SMT
<1> HIDE DEF a
<1>2. a = m * k + r BY DEF a
<1>3. a % m = r BY <1>1, <1>2, DivisionIsUnique
<1> QED BY <1>3 DEF a

\* Products of natural numbers are monotonic.
LEMMA Product ==
  ASSUME NEW x \in Nat, NEW y \in Nat, NEW u \in Nat, NEW v \in Nat, x <= u, y <= v
  PROVE  x * y \in Nat /\ x * y <= u * v
  BY SMT

\* Barrett's estimate, with the quarter P of the modulus' power of two as unit.
LEMMA EstimateIsClose ==
  ASSUME NEW P \in Nat, P > 0, NEW m \in Nat, 2 * P <= m,
         NEW x \in Nat, x < 64 * P * P,
         NEW ql \in Nat, ql * P <= x, x < ql * P + P,
         NEW mu \in Nat, m * mu <= 128 * P * P, 128 * P * P < m * mu + m,
         NEW q \in Nat, 128 * P * q <= ql * mu, ql * mu < 128 * P * q + 128 * P
  PROVE  q * m <= x /\ x < q * m + 2 * m
<1>1. q * m <= x
  <2>1. (128 * P * q) * m <= (ql * mu) * m BY SMT
  <2>2. (ql * mu) * m = ql * (m * mu) BY SMT
  <2>3. ql * (m * mu) <= ql * (128 * P * P) BY SMT
  <2>4. ql * (128 * P * P) = 128 * P * (ql * P) BY SMT
  <2>5. 128 * P * (ql * P) <= 128 * P * x BY SMT
  <2>6. (128 * P) * (q * m) <= (128 * P) * x BY <2>1, <2>2, <2>3, <2>4, <2>5, SMT
  <2> QED BY <2>6, SMT
<1>2. x < q * m + 2 * m
  <2>1. ql < 64 * P
    <3>1. ql * P < (64 * P) * P BY SMT
    <3> QED BY <3>1, SMT
  <2>2. ql * m <= 64 * P * m BY <2>1, SMT
  <2>3. (ql * mu + 1) * m <= (128 * P * q + 128 * P) * m BY SMT
  <2>4. (ql * mu + 1) * m = ql * (m * mu) + m BY SMT
  <2>5. ql * (128 * P * P) <= ql * (m * mu + m) BY SMT
  <2>6. ql * (m * mu + m) = ql * (m * mu) + ql * m BY SMT
  <2>7. 128 * P * x <= 128 * P * (ql * P + P) BY SMT
  <2>8. 128 * P * (ql * P + P) = ql * (128 * P * P) + 128 * P * P BY SMT
  <2>9. 128 * P * P <= 64 * P * m BY SMT
  <2>10. 128 * P * x + m <= (128 * P * q + 128 * P) * m + 128 * P * m
    BY <2>2, <2>3, <2>4, <2>5, <2>6, <2>7, <2>8, <2>9, SMT
  <2>11. (128 * P * q + 128 * P) * m + 128 * P * m = (128 * P) * (q * m + 2 * m) BY SMT
  <2>12. (128 * P) * x < (128 * P) * (q * m + 2 * m) BY <2>10, <2>11, SMT
  <2> QED BY <2>12, SMT
<1> QED BY <1>1, <1>2

-----------------------------------------------------------------------------
\* Powers of two.
LEMMA Powers ==
  ASSUME NEW i \in 0 .. 2 * w, NEW j \in 0 .. 2 * w
  PROVE  /\ w \in Nat /\ w >= 7
         /\ Pow[i] \in Nat /\ Pow[i] > 0
         /\ i + j <= 2 * w => Pow[i + j] = Pow[i] * Pow[j]
         /\ i <= j => Pow[i] <= Pow[j]
         /\ i < j => 2 * Pow[i] <= Pow[j]
<1>1. w \in Nat /\ w >= 7 /\ \A k \in 0 .. 2 * w : Pow[k] \in Nat /\ Pow[k] > 0
  <2>1. w \in Nat /\ w >= 7 BY PowAssumption
  <2>2. Pow \in [0 .. 2 * w -> Nat \ {0}] BY PowAssumption
  <2> QED BY <2>1, <2>2
<1>2. i + j <= 2 * w => Pow[i + j] = Pow[i] * Pow[j] BY PowAssumption
<1>3. ASSUME i < j
      PROVE  2 * Pow[i] <= Pow[j]
  <2> DEFINE d == j - i - 1
  <2>1. d \in 0 .. 2 * w /\ d + 1 \in 0 .. 2 * w /\ i + (d + 1) = j /\ 1 \in 0 .. 2 * w
    BY <1>1, <1>3
  <2> HIDE DEF d
  <2>2. Pow[d + 1] = Pow[d] * Pow[1] BY <2>1, PowAssumption
  <2>3. Pow[i + (d + 1)] = Pow[i] * Pow[d + 1]
    <3>1. i + (d + 1) <= 2 * w BY <1>1, <2>1
    <3> QED BY <2>1, <3>1, PowAssumption
  <2>4. Pow[d + 1] = 2 * Pow[d] /\ Pow[d] >= 1 BY <1>1, <2>1, <2>2, PowAssumption, SMT
  <2>5. Pow[d] \in Nat /\ Pow[d + 1] \in Nat /\ Pow[i] \in Nat BY <1>1, <2>1
  <2>6. Pow[d + 1] >= 2 BY <2>4, <2>5, SMT
  <2> QED BY <2>1, <2>3, <2>5, <2>6, SMT
<1>4. i <= j => Pow[i] <= Pow[j] BY <1>1, <1>3, SMT
<1> QED BY <1>1, <1>2, <1>3, <1>4

K == GetMSB(modulus)
P == Pow[K - 2]

\* The length of a modulus, and what it makes of the powers that the methods use.
LEMMA Bits ==
  ASSUME modulus \in Moduli
  PROVE  /\ K \in 3 .. w - 4 /\ w \in Nat /\ W \in Nat /\ modulus \in Nat
         /\ P \in Nat /\ P > 0 /\ 2 * P <= modulus /\ modulus < 4 * P
         /\ Pow[2 * K + 2] = 64 * P * P /\ Pow[2 * K + 3] = 128 * P * P
         /\ Pow[K + 5] = 128 * P
         /\ 64 * P <= W /\ (modulus = 2 * P => 64 * P < W)
<1>1. w \in Nat /\ w >= 7 BY PowAssumption
<1>2. modulus \in Nat BY ModuliAssumption
<1>3. PICK k \in 3 .. w - 4 : /\ Pow[k - 1] <= modulus /\ modulus < Pow[k]
                              /\ k = w - 4 => modulus # Pow[k - 1]
  BY ModuliAssumption
<1>4. ASSUME NEW j \in 0 .. w, modulus < Pow[j], j = 0 \/ Pow[j - 1] <= modulus
      PROVE  j = k
  <2>1. CASE j < k
    <3>1. Pow[j] <= Pow[k - 1] BY <1>1, <2>1, Powers
    <3>2. Pow[j] \in Nat /\ Pow[k - 1] \in Nat BY <1>1, Powers
    <3> QED BY <1>2, <1>3, <1>4, <3>1, <3>2
  <2>2. CASE k < j
    <3>1. Pow[k] <= Pow[j - 1] BY <1>1, <2>2, Powers
    <3>2. Pow[k] \in Nat /\ Pow[j - 1] \in Nat BY <1>1, <2>2, Powers
    <3> QED BY <1>2, <1>3, <1>4, <2>2, <3>1, <3>2
  <2> QED BY <1>1, <2>1, <2>2
<1>5. k \in 0 .. w /\ modulus < Pow[k] /\ (k = 0 \/ Pow[k - 1] <= modulus) BY <1>1, <1>3
<1>6. K = k BY <1>4, <1>5 DEF K, GetMSB
<1>7. P \in Nat /\ P > 0 BY <1>1, <1>6, Powers DEF P
<1>8. Pow[2] = 4 /\ Pow[3] = 8 /\ Pow[4] = 16 /\ Pow[6] = 64 /\ Pow[7] = 128
  <2>1. Pow[1] = 2 BY PowAssumption
  <2>2. Pow[1 + 1] = Pow[1] * Pow[1] /\ Pow[2 + 1] = Pow[2] * Pow[1]
        /\ Pow[2 + 2] = Pow[2] * Pow[2] /\ Pow[3 + 3] = Pow[3] * Pow[3]
        /\ Pow[3 + 4] = Pow[3] * Pow[4]
    BY <1>1, Powers
  <2> QED BY <2>1, <2>2
<1>9. Pow[(k - 2) + 1] = P * Pow[1] /\ Pow[(k - 2) + 2] = P * Pow[2]
      /\ Pow[(k - 2) + 6] = P * Pow[6] /\ Pow[(k - 2) + 7] = P * Pow[7]
      /\ Pow[(k - 2) + (k - 2)] = P * P
  BY <1>1, <1>6, Powers DEF P
<1>10. Pow[(2 * k - 4) + 6] = Pow[2 * k - 4] * Pow[6] /\ Pow[(2 * k - 4) + 7] = Pow[2 * k - 4] * Pow[7]
  BY <1>1, Powers
<1>11. Pow[k - 1] = 2 * P /\ Pow[k] = 4 * P /\ Pow[k + 4] = 64 * P /\ Pow[k + 5] = 128 * P
       /\ Pow[2 * k - 4] = P * P
  BY <1>7, <1>8, <1>9, PowAssumption
<1>12. Pow[2 * k + 2] = 64 * (P * P) /\ Pow[2 * k + 3] = 128 * (P * P)
  BY <1>7, <1>8, <1>10, <1>11
<1>13. W \in Nat /\ Pow[k + 4] <= W /\ (k + 4 < w => 2 * Pow[k + 4] <= W)
  BY <1>1, Powers DEF W
<1>14. modulus = 2 * P => k + 4 < w BY <1>1, <1>3, <1>11
<1>15. 64 * (P * P) = 64 * P * P /\ 128 * (P * P) = 128 * P * P BY <1>7, SMT
<1> QED BY <1>1, <1>2, <1>3, <1>6, <1>7, <1>11, <1>12, <1>13, <1>14, <1>15

-----------------------------------------------------------------------------
\* Double words.
LEMMA SplitKeeps ==
  ASSUME NEW x \in Nat
  PROVE  GetD(Split(x)) = x
<1>1. W \in Nat /\ W > 0
  <2>1. w \in 0 .. 2 * w BY PowAssumption
  <2> QED BY <2>1, Powers DEF W
<1>2. x = W * (x \div W) + (x % W) /\ x \div W \in Int /\ x % W \in Int BY <1>1, Quotient
<1> QED BY <1>1, <1>2 DEF GetD, Split

\* A number that is shifted into one word loses nothing but the bits shifted out.
LEMMA ShiftDivides ==
  ASSUME modulus \in Moduli, NEW x \in Nat, x < 64 * P * P
  PROVE  RShiftD(Split(x), K - 2) = x \div P /\ x \div P \in Nat /\ x \div P < 64 * P
<1> DEFINE h == x \div W
           l == x % W
           a == l \div P
           b == l % P
           T == Pow[w - (K - 2)]
<1>1. K \in 3 .. w - 4 /\ w \in Nat /\ W \in Nat /\ P \in Nat /\ P > 0 /\ 64 * P <= W
  BY Bits
<1>2. T \in Nat /\ T > 0 /\ W = P * T
  <2>1. K - 2 \in 0 .. 2 * w /\ w - (K - 2) \in 0 .. 2 * w /\ (K - 2) + (w - (K - 2)) = w
    BY <1>1
  <2> QED BY <1>1, <2>1, Powers DEF W, P
<1>3. x = W * h + l /\ h \in Nat /\ l \in Nat
  <2>1. W > 0 BY <1>1
  <2> QED BY <1>1, <2>1, Quotient, NatQuotient
<1>4. l = P * a + b /\ a \in Nat /\ b \in 0 .. P - 1
  <2> HIDE DEF l
  <2> QED BY <1>1, <1>3, Quotient, NatQuotient
<1> HIDE DEF h, l, a, b, T
<1>5. x = P * (h * T + a) + b
  <2>1. W * h = P * (h * T) BY <1>1, <1>2, <1>3, SMT
  <2>2. P * (h * T + a) = P * (h * T) + P * a BY <1>1, <1>2, <1>3, <1>4, SMT
  <2> QED BY <1>1, <1>2, <1>3, <1>4, <2>1, <2>2, SMT
<1>6. h * T + a \in Nat /\ h * T \in Nat /\ h * T <= h * T + a BY <1>2, <1>3, <1>4, SMT
<1>7. x \div P = h * T + a
  <2> DEFINE c == h * T + a
  <2>1. c \in Int /\ x = P * c + b BY <1>5, <1>6
  <2> HIDE DEF c
  <2>2. x \div P = c BY <1>1, <1>4, <2>1, DivisionIsUnique
  <2> QED BY <2>2 DEF c
<1>8. h * T + a < 64 * P
  <2> DEFINE c == h * T + a
  <2>1. c \in Nat /\ P * c <= x BY <1>1, <1>4, <1>5, <1>6, SMT
  <2> HIDE DEF c
  <2>2. P * c < P * (64 * P) BY <1>1, <2>1, SMT
  <2>3. c < 64 * P BY <1>1, <2>1, <2>2, SMT
  <2> QED BY <2>3 DEF c
<1>9. (h * T) % W = h * T
  <2> DEFINE c == h * T
  <2>1. c \in 0 .. W - 1 BY <1>1, <1>4, <1>6, <1>8
  <2> HIDE DEF c
  <2>2. c = W * 0 + c BY <1>1, <2>1
  <2>3. c % W = c BY <1>1, <2>1, <2>2, DivisionIsUnique
  <2> QED BY <2>3 DEF c
<1>10. RShiftD(Split(x), K - 2) = a + ((h * T) % W) BY DEF RShiftD, Split, h, l, a, T, P
<1> QED BY <1>4, <1>6, <1>7, <1>8, <1>9, <1>10

\* mu is the quotient it is meant to be: it fits the word.
LEMMA MuFits ==
  ASSUME modulus \in Moduli
  PROVE  /\ ComputeMu \in Nat
         /\ modulus * ComputeMu <= 128 * P * P
         /\ 128 * P * P < modulus * ComputeMu + modulus
<1> DEFINE D == 128 * P * P
           mu == D \div modulus
<1>1. /\ W \in Nat /\ modulus \in Nat /\ P \in Nat /\ P > 0 /\ 2 * P <= modulus
      /\ Pow[2 * K + 3] = D /\ 64 * P <= W /\ (modulus = 2 * P => 64 * P < W)
  BY Bits
<1>2. D \in Nat BY <1>1, SMT
<1>3. mu \in Nat /\ D % modulus \in 0 .. modulus - 1 /\ D = modulus * mu + (D % modulus)
  <2> HIDE DEF D
  <2> QED BY <1>1, <1>2, Quotient, NatQuotient
<1>4. modulus * mu <= D /\ D < modulus * mu + modulus
  <2> HIDE DEF D, mu
  <2> QED BY <1>1, <1>2, <1>3, SMT
<1> HIDE DEF mu
<1>5. mu < W
  <2>1. (2 * P) * mu <= (2 * P) * (64 * P) BY <1>1, <1>3, <1>4, SMT
  <2>2. mu <= 64 * P BY <1>1, <1>3, <2>1, SMT
  <2>3. CASE modulus = 2 * P BY <1>1, <1>3, <2>2, <2>3
  <2>4. CASE modulus > 2 * P
    <3>1. ASSUME mu = 64 * P
          PROVE  FALSE
      <4>1. modulus * (64 * P) > (2 * P) * (64 * P) BY <1>1, <2>4, SMT
      <4> QED BY <1>1, <1>4, <3>1, <4>1, SMT
    <3> QED BY <1>1, <1>3, <2>2, <3>1
  <2> QED BY <1>1, <2>3, <2>4
<1>6. mu % W = mu
  <2>1. mu = W * 0 + mu /\ mu \in 0 .. W - 1 BY <1>1, <1>3, <1>5
  <2> QED BY <1>1, <1>3, <2>1, DivisionIsUnique
<1>7. ComputeMu = mu BY <1>1, <1>6 DEF ComputeMu, K, mu
<1> QED BY <1>3, <1>4, <1>7

\* The residues v can stand for: a word that is r, or the modulus where r is 0.
Stands(v, r) == v = r \/ (r = 0 /\ v = modulus)

\* The estimate misses the quotient by one at most.
LEMMA RemainderIsClose ==
  ASSUME modulus \in Moduli, wide, NEW x \in Nat, x < 64 * P * P
  PROVE  \E q \in Nat : /\ q * modulus <= x /\ x < q * modulus + 2 * modulus
                         /\ Remainder(Split(x)) = x - q * modulus
<1> DEFINE ql == x \div P
           mu == ComputeMu
           q == (ql * mu) \div (128 * P)
<1>1. /\ K \in 3 .. w - 4 /\ W \in Nat /\ modulus \in Nat /\ P \in Nat /\ P > 0
      /\ 2 * P <= modulus /\ modulus < 4 * P /\ Pow[K + 5] = 128 * P /\ 64 * P <= W
  BY Bits
<1>2. RShiftD(Split(x), K - 2) = ql /\ ql \in Nat BY ShiftDivides
<1>3. mu \in Nat /\ modulus * mu <= 128 * P * P /\ 128 * P * P < modulus * mu + modulus
  BY MuFits
<1>4. ql * P <= x /\ x < ql * P + P
  <2>1. x = P * ql + (x % P) /\ x % P \in 0 .. P - 1 BY <1>1, Quotient
  <2> HIDE DEF ql
  <2> QED BY <1>1, <1>2, <2>1, SMT
<1>5. ql * mu \in Nat
  <2> HIDE DEF ql, mu
  <2> QED BY <1>2, <1>3, SMT
<1>6. q \in Nat /\ 128 * P * q <= ql * mu /\ ql * mu < 128 * P * q + 128 * P
  <2> DEFINE d == ql * mu
             e == 128 * P
  <2>1. d \in Nat /\ e \in Nat /\ e > 0 BY <1>1, <1>5
  <2> HIDE DEF d, e
  <2>2. d = e * (d \div e) + (d % e) /\ d % e \in 0 .. e - 1 /\ d \div e \in Nat
    BY <2>1, Quotient, NatQuotient
  <2>3. e * (d \div e) <= d /\ d < e * (d \div e) + e BY <2>1, <2>2, SMT
  <2> QED BY <2>2, <2>3 DEF d, e
<1>7. Remainder(Split(x)) = (x - q * modulus) % W
  <2>1. Estimate(Split(x)) = Split(ql * mu) BY <1>2 DEF Estimate, MultD, K
  <2>2. GetD(Estimate(Split(x))) = ql * mu BY <1>5, <2>1, SplitKeeps
  <2>3. Pow[GetMSB(modulus) + 5] = 128 * P BY <1>1 DEF K
  <2>4. GetD(Split(x)) = x BY SplitKeeps
  <2> QED BY <2>2, <2>3, <2>4 DEF Remainder
<1> HIDE DEF ql, mu, q
<1>8. q * modulus <= x /\ x < q * modulus + 2 * modulus
  BY <1>1, <1>2, <1>3, <1>4, <1>6, EstimateIsClose
<1> DEFINE r == x - q * modulus
<1>9. r \in 0 .. W - 1 BY <1>1, <1>6, <1>8, SMT
<1>10. r % W = r
  <2> HIDE DEF r
  <2>1. r = W * 0 + r BY <1>1, <1>9
  <2> QED BY <1>1, <1>9, <2>1, DivisionIsUnique
<1> QED BY <1>6, <1>7, <1>8, <1>10

\* Barrett's reduction is right, up to the modulus in the place of 0.
LEMMA BarrettReduces ==
  ASSUME modulus \in Moduli, wide, NEW x \in Nat, x < 64 * P * P
  PROVE  /\ Stands(Barrett(Split(x)), x % modulus)
         /\ x = 0 \/ x % modulus # 0 => Barrett(Split(x)) = x % modulus
<1>1. modulus \in Nat /\ modulus > 0 BY Bits
<1>2. PICK q \in Nat : /\ q * modulus <= x /\ x < q * modulus + 2 * modulus
                       /\ Remainder(Split(x)) = x - q * modulus
  BY RemainderIsClose
<1>3. q * modulus \in Nat /\ q * modulus = modulus * q /\ modulus * (q + 1) = modulus * q + modulus
      /\ modulus * (q + 2) = modulus * q + 2 * modulus
  BY <1>1, SMT
<1> DEFINE r == Remainder(Split(x))
<1>4. r \in Nat /\ r < 2 * modulus /\ x = modulus * q + r BY <1>1, <1>2, <1>3
<1>5. Barrett(Split(x)) = IF r > modulus THEN r - modulus ELSE r BY DEF Barrett
<1> HIDE DEF r
<1>6. CASE r < modulus
  <2>0. r \in 0 .. modulus - 1 /\ q \in Int /\ x \in Int BY <1>1, <1>4, <1>6
  <2>1. x % modulus = r BY <1>1, <1>4, <2>0, DivisionIsUnique
  <2> QED BY <1>1, <1>4, <1>5, <1>6, <2>1 DEF Stands
<1>7. CASE r = modulus
  <2>1. x = modulus * (q + 1) + 0 /\ 0 \in 0 .. modulus - 1 /\ q + 1 \in Int
    BY <1>1, <1>3, <1>4, <1>7
  <2>2. x % modulus = 0 BY <1>1, <2>1, DivisionIsUnique
  <2>3. x # 0 BY <1>1, <1>3, <1>4, <1>7
  <2> QED BY <1>1, <1>4, <1>5, <1>7, <2>2, <2>3 DEF Stands
<1>8. CASE r > modulus
  <2>1. x = modulus * (q + 1) + (r - modulus) /\ r - modulus \in 0 .. modulus - 1 /\ q + 1 \in Int
    BY <1>1, <1>3, <1>4, <1>8
  <2> DEFINE s == r - modulus
  <2>2. s \in 0 .. modulus - 1 /\ x = modulus * (q + 1) + s BY <2>1
  <2> HIDE DEF s
  <2> DEFINE k == q + 1
  <2>4. k \in Int /\ x \in Int /\ x = modulus * k + s BY <2>2
  <2> HIDE DEF k
  <2>3. (modulus * k + s) % modulus = s BY <1>1, <2>2, <2>4, ResidueOf
  <2>5. x % modulus = s BY <2>3, <2>4
  <2> QED BY <1>1, <1>4, <1>5, <1>8, <2>5 DEF Stands, s
<1> QED BY <1>1, <1>4, <1>6, <1>7, <1>8

-----------------------------------------------------------------------------
\* Residues of sums, differences and products.
LEMMA Congruent ==
  ASSUME NEW m \in Nat, m > 0, NEW a \in Int, NEW b \in Int, NEW k \in Int, a = b + m * k
  PROVE  a % m = b % m
<1> DEFINE d == b \div m
           e == b % m
<1>1. d \in Int /\ e \in 0 .. m - 1 /\ b = m * d + e BY Quotient
<1> HIDE DEF d, e
<1>2. a = m * (d + k) + e BY <1>1, SMT
<1> DEFINE c == d + k
<1>3. c \in Int /\ a = m * c + e BY <1>1, <1>2
<1> HIDE DEF c
<1>4. (m * c + e) % m = e BY <1>1, <1>3, ResidueOf
<1> QED BY <1>3, <1>4 DEF e

\* A number below the modulus is its own residue.
LEMMA ResidueOfSmall ==
  ASSUME NEW m \in Nat, m > 0, NEW a \in 0 .. m - 1
  PROVE  a % m = a
<1>1. (m * 0 + a) % m = a BY ResidueOf
<1>2. m * 0 + a = a BY SMT
<1> QED BY <1>1, <1>2

\* The modulus has residue 0.
LEMMA ResidueOfModulus ==
  ASSUME NEW m \in Nat, m > 0
  PROVE  m % m = 0
<1>1. (m * 1 + 0) % m = 0 BY ResidueOf, SMT
<1>2. m * 1 + 0 = m BY SMT
<1> QED BY <1>1, <1>2

\* A summand may be reduced before a sum or a difference is.
LEMMA ResidueOfSum ==
  ASSUME NEW m \in Nat, m > 0, NEW a \in Int, NEW b \in Int
  PROVE  (a + (b % m)) % m = (a + b) % m /\ (a - (b % m)) % m = (a - b) % m
         /\ ((b % m) - a) % m = (b - a) % m
<1> DEFINE d == b \div m
           e == b % m
           f == -d
<1>1. d \in Int /\ e \in Int /\ b = m * d + e BY Quotient
<1>2. f \in Int /\ m * f = -(m * d)
  <2> HIDE DEF d
  <2> QED BY <1>1, SMT
<1> HIDE DEF d, e, f
<1>3. (a + b) % m = (a + e) % m
  <2> DEFINE u == a + b
             v == a + e
  <2>1. u \in Int /\ v \in Int /\ u = v + m * d BY <1>1, SMT
  <2> HIDE DEF u, v
  <2>2. u % m = v % m BY <1>1, <2>1, Congruent
  <2> QED BY <2>2 DEF u, v
<1>4. (a - b) % m = (a - e) % m
  <2> DEFINE u == a - b
             v == a - e
  <2>1. u \in Int /\ v \in Int /\ u = v + m * f BY <1>1, <1>2, SMT
  <2> HIDE DEF u, v
  <2>2. u % m = v % m BY <1>2, <2>1, Congruent
  <2> QED BY <2>2 DEF u, v
<1>5. (b - a) % m = (e - a) % m
  <2> DEFINE u == b - a
             v == e - a
  <2>1. u \in Int /\ v \in Int /\ u = v + m * d BY <1>1, SMT
  <2> HIDE DEF u, v
  <2>2. u % m = v % m BY <1>1, <2>1, Congruent
  <2> QED BY <2>2 DEF u, v
<1> QED BY <1>3, <1>4, <1>5 DEF e

\* A factor may be reduced before a product is.
LEMMA ResidueOfProduct ==
  ASSUME NEW m \in Nat, m > 0, NEW a \in Int, NEW b \in Int
  PROVE  (a * (b % m)) % m = (a * b) % m /\ ((b % m) * a) % m = (a * b) % m
<1> DEFINE d == b \div m
           e == b % m
<1>1. d \in Int /\ e \in Int /\ b = m * d + e BY Quotient
<1> HIDE DEF d, e
<1>2. a * b = a * e + m * (a * d) /\ a * b \in Int /\ a * e \in Int /\ a * d \in Int
      /\ e * a = a * e
  BY <1>1, SMT
<1>3. (a * b) % m = (a * e) % m BY <1>2, Congruent
<1> QED BY <1>2, <1>3 DEF e

\* The fast addition of what stands for two residues stands for their sum.
LEMMA SumStands ==
  ASSUME modulus \in Nat, modulus > 0, NEW r \in 0 .. modulus - 1, NEW s \in 0 .. modulus - 1,
         NEW a, NEW b, Stands(a, r), Stands(b, s)
  PROVE  /\ Stands(ModAddFast(a, b, modulus), (r + s) % modulus)
         /\ a = r /\ b = s => ModAddFast(a, b, modulus) = (r + s) % modulus
<1>1. CASE r + s < modulus
  <2>1. (r + s) % modulus = r + s BY <1>1, ResidueOfSmall
  <2> QED BY <1>1, <2>1 DEF Stands, ModAddFast
<1>2. CASE r + s >= modulus
  <2> DEFINE c == r + s - modulus
  <2>1. c \in 0 .. modulus - 1 /\ r + s = modulus * 1 + c BY <1>2
  <2> HIDE DEF c
  <2>2. (modulus * 1 + c) % modulus = c BY <2>1, ResidueOf
  <2>3. (r + s) % modulus = c BY <2>1, <2>2
  <2> QED BY <1>2, <2>3 DEF Stands, ModAddFast, c
<1> QED BY <1>1, <1>2

\* The fast subtraction of what stands for two residues stands for their difference.
LEMMA DifferenceStands ==
  ASSUME modulus \in Nat, modulus > 0, NEW r \in 0 .. modulus - 1, NEW s \in 0 .. modulus - 1,
         NEW a, NEW b, Stands(a, r), Stands(b, s)
  PROVE  /\ Stands(ModSubFast(a, b, modulus), (r - s) % modulus)
         /\ a = r /\ b = s => ModSubFast(a, b, modulus) = (r - s) % modulus
<1>1. CASE r >= s
  <2>1. (r - s) % modulus = r - s BY <1>1, ResidueOfSmall
  <2> QED BY <1>1, <2>1 DEF Stands, ModSubFast
<1>2. CASE r < s
  <2> DEFINE c == r + (modulus - s)
  <2>1. c \in 0 .. modulus - 1 /\ r - s = modulus * (-1) + c BY <1>2
  <2> HIDE DEF c
  <2>2. (modulus * (-1) + c) % modulus = c BY <2>1, ResidueOf
  <2>3. (r - s) % modulus = c BY <2>1, <2>2
  <2> QED BY <1>2, <2>3 DEF Stands, ModSubFast, c
<1> QED BY <1>1, <1>2

-----------------------------------------------------------------------------
\* What the methods do to an operand before they compute.
LEMMA StandsFor ==
  ASSUME modulus \in Moduli, NEW r \in 0 .. modulus - 1, NEW a, Stands(a, r)
  PROVE  a \in 0 .. modulus /\ a % modulus = r /\ a < W /\ a < 64 * P * P
<1>1. /\ modulus \in Nat /\ P \in Nat /\ P > 0 /\ W \in Nat /\ modulus < 4 * P
      /\ 64 * P <= W /\ modulus > 0
  BY Bits
<1>2. a \in 0 .. modulus BY <1>1 DEF Stands
<1>3. a % modulus = r BY <1>1, ResidueOfSmall, ResidueOfModulus DEF Stands
<1>4. 64 * P <= 64 * P * P BY <1>1, SMT
<1>5. 64 * P * P \in Nat BY <1>1, SMT
<1> QED BY <1>1, <1>2, <1>3, <1>4, <1>5

\* Reduction by division is exact.
LEMMA ReducedIsResidue ==
  ASSUME modulus \in Moduli, NEW x \in Nat
  PROVE  Reduced(x) = x % modulus /\ Stands(Lowered(x), x % modulus) /\ x % modulus \in 0 .. modulus - 1
<1>1. modulus \in Nat /\ modulus > 0 BY Bits
<1>2. x % modulus \in 0 .. modulus - 1 BY <1>1, Quotient
<1>3. x < modulus => x % modulus = x BY <1>1, ResidueOfSmall
<1>4. x = modulus => x % modulus = 0 BY <1>1, ResidueOfModulus
<1> QED BY <1>1, <1>2, <1>3, <1>4 DEF Reduced, Lowered, Mod, Stands

\* Reduction by Barrett stands for the residue, exactly if it is not 0.
LEMMA ReducedMuStands ==
  ASSUME modulus \in Moduli, wide, NEW x \in Nat, x < W, x < 64 * P * P
  PROVE  /\ Stands(ModMu(x), x % modulus) /\ Stands(ReducedMu(x), x % modulus)
         /\ Stands(LoweredMu(x), x % modulus)
         /\ x % modulus # 0 => ModMu(x) = x % modulus
         /\ x < modulus \/ x % modulus # 0 => ReducedMu(x) = x % modulus
         /\ x = 0 => ModMu(x) = x % modulus
<1>1. modulus \in Nat /\ modulus > 0 /\ W \in Nat BY Bits
<1>2. ModMu(x) = Barrett(Split(x))
  <2>1. x % W = x BY <1>1, ResidueOfSmall
  <2>2. x \div W = 0
    <3>1. x = W * 0 + x /\ x \in 0 .. W - 1 /\ x \in Int BY <1>1
    <3> QED BY <1>1, <3>1, DivisionIsUnique
  <2> QED BY <2>1, <2>2 DEF ModMu, Split
<1>3. Stands(ModMu(x), x % modulus) /\ (x = 0 \/ x % modulus # 0 => ModMu(x) = x % modulus)
  BY <1>2, BarrettReduces
<1>4. x < modulus => x % modulus = x BY <1>1, ResidueOfSmall
<1>5. x = modulus => x % modulus = 0 BY <1>1, ResidueOfModulus
<1> QED BY <1>1, <1>3, <1>4, <1>5 DEF ReducedMu, LoweredMu, Stands

\* A product of what stands for two residues is one of theirs, within Barrett's range.
LEMMA ProductStands ==
  ASSUME modulus \in Moduli, NEW r \in 0 .. modulus - 1, NEW s \in 0 .. modulus - 1,
         NEW a, NEW b, Stands(a, r), Stands(b, s)
  PROVE  a * b \in Nat /\ a * b < 64 * P * P /\ (a * b) % modulus = (r * s) % modulus
<1>1. modulus \in Nat /\ P \in Nat /\ P > 0 /\ modulus < 4 * P /\ modulus > 0 BY Bits
<1>2. a \in 0 .. modulus /\ a % modulus = r /\ b \in 0 .. modulus /\ b % modulus = s
  BY StandsFor
<1>3. a * b \in Nat /\ a * b <= (4 * P) * (4 * P) BY <1>1, <1>2, Product
<1>4. (4 * P) * (4 * P) = 16 * P * P /\ 16 * P * P < 64 * P * P /\ 64 * P * P \in Nat
      /\ 16 * P * P \in Nat
  BY <1>1, SMT
<1>5. (a * s) % modulus = (a * b) % modulus BY <1>1, <1>2, ResidueOfProduct
<1>6. (r * s) % modulus = (s * a) % modulus
  <2>1. s \in Int /\ a \in Int BY <1>1, <1>2
  <2>2. ((a % modulus) * s) % modulus = (s * a) % modulus BY <1>1, <2>1, ResidueOfProduct
  <2> QED BY <1>2, <2>2
<1>7. s * a = a * s BY <1>1, <1>2, SMT
<1> QED BY <1>3, <1>4, <1>5, <1>6, <1>7

\* Multiplications that end in Barrett's reduction of the product.
LEMMA BarrettProduct ==
  ASSUME modulus \in Moduli, wide, NEW r \in 0 .. modulus - 1, NEW s \in 0 .. modulus - 1,
         NEW a, NEW b, Stands(a, r), Stands(b, s)
  PROVE  /\ Stands(Barrett(MultD(a, b)), (r * s) % modulus)
         /\ a * b = 0 \/ (a * b) % modulus # 0 => Barrett(MultD(a, b)) = (r * s) % modulus
<1>1. a * b \in Nat /\ a * b < 64 * P * P /\ (a * b) % modulus = (r * s) % modulus
  BY ProductStands
<1>2. MultD(a, b) = Split(a * b) BY DEF MultD
<1> DEFINE p == a * b
<1>3. p \in Nat /\ p < 64 * P * P BY <1>1
<1> HIDE DEF p
<1>4. /\ Stands(Barrett(Split(p)), p % modulus)
      /\ p = 0 \/ p % modulus # 0 => Barrett(Split(p)) = p % modulus
  BY <1>3, BarrettReduces
<1> QED BY <1>1, <1>2, <1>4 DEF p

-----------------------------------------------------------------------------
\* Shoup's multiplication: the estimated quotient is one too small at most.
LEMMA ShoupIsClose ==
  ASSUME NEW V \in Nat, V > 0, NEW m \in Nat, NEW x \in Nat, x < V, NEW y \in Nat,
         NEW prep \in Nat, NEW s \in 0 .. m - 1, y * V = m * prep + s,
         NEW q \in Nat, NEW t \in 0 .. V - 1, x * prep = V * q + t
  PROVE  q * m <= x * y /\ x * y < q * m + 2 * m
<1>1. x * (y * V) = m * (x * prep) + x * s BY SMT
<1>2. m * (x * prep) = V * (q * m) + m * t BY SMT
<1>3. x * (y * V) = V * (x * y) BY SMT
<1>4. x * s <= V * m /\ m * t <= V * m /\ 0 <= x * s /\ 0 <= m * t
  <2>1. x * s <= V * m /\ t * m <= V * m /\ 0 <= x * s /\ 0 <= t * m BY Product, SMT
  <2>2. m * t = t * m BY SMT
  <2> QED BY <2>1, <2>2
<1>5. x * s < V * m
  <2>1. x * s <= V * s /\ V * s <= V * (m - 1) /\ V * (m - 1) = V * m - V BY SMT
  <2> QED BY <2>1, SMT
<1>6. V * (q * m) <= V * (x * y) BY <1>1, <1>2, <1>3, <1>4, SMT
<1>7. V * (x * y) < V * (q * m + 2 * m)
  <2>1. V * (q * m + 2 * m) = V * (q * m) + 2 * (V * m) BY SMT
  <2> QED BY <1>1, <1>2, <1>3, <1>4, <1>5, <2>1, SMT
<1> QED BY <1>6, <1>7, SMT

\* Shoup's multiplication gives the residue of the product, never the modulus.
LEMMA FastConstIsExact ==
  ASSUME modulus \in Moduli, wide, NEW x \in Nat, x < W, NEW y \in 0 .. modulus - 1
  PROVE  ModMulFastConst(x, y) = (x * y) % modulus
<1> DEFINE prep == (y * W) \div modulus
           s == (y * W) % modulus
           q == (x * prep) \div W
           t == (x * prep) % W
           yprime == x * y - q * modulus
<1>1. /\ modulus \in Nat /\ modulus > 0 /\ W \in Nat /\ W > 0 /\ P \in Nat /\ P > 0
      /\ modulus < 4 * P /\ 64 * P <= W
  BY Bits
<1>2. 2 * Pow[w - 1] = W /\ Pow[w - 1] \in Nat
  <2>1. w - 1 \in 0 .. 2 * w /\ 1 \in 0 .. 2 * w /\ (w - 1) + 1 = w /\ w <= 2 * w BY PowAssumption
  <2>2. Pow[(w - 1) + 1] = Pow[w - 1] * Pow[1] /\ Pow[w - 1] \in Nat BY <2>1, Powers
  <2> QED BY <2>1, <2>2, PowAssumption DEF W
<1>3. y * W \in Nat BY <1>1, Product
<1>4. y * W = modulus * prep + s /\ s \in 0 .. modulus - 1 /\ prep \in Nat
  <2> DEFINE d == y * W
  <2>1. d \in Nat BY <1>3
  <2> HIDE DEF d
  <2>2. d = modulus * (d \div modulus) + (d % modulus) /\ d % modulus \in 0 .. modulus - 1
        /\ d \div modulus \in Nat
    BY <1>1, <2>1, Quotient, NatQuotient
  <2> QED BY <2>2 DEF d
<1> HIDE DEF prep, s
<1>5. x * prep \in Nat BY <1>4, Product
<1>6. x * prep = W * q + t /\ t \in 0 .. W - 1 /\ q \in Nat
  <2> DEFINE d == x * prep
  <2>1. d \in Nat BY <1>5
  <2> HIDE DEF d
  <2>2. d = W * (d \div W) + (d % W) /\ d % W \in 0 .. W - 1 /\ d \div W \in Nat
    BY <1>1, <2>1, Quotient, NatQuotient
  <2> QED BY <2>2 DEF d
<1>7. PrepModMulConst(y) = prep
  <2>1. prep < W
    <3>1. modulus * prep <= y * W BY <1>1, <1>4, SMT
    <3>2. y * W < modulus * W BY <1>1, SMT
    <3>3. modulus * prep < modulus * W BY <1>1, <1>3, <1>4, <3>1, <3>2, SMT
    <3> QED BY <1>1, <1>4, <3>3, SMT
  <2>2. prep % W = prep BY <1>1, <1>4, <2>1, ResidueOfSmall
  <2> QED BY <2>2 DEF PrepModMulConst, prep
<1>8. MultD(x, PrepModMulConst(y)).hi = q BY <1>7 DEF MultD, Split
<1> HIDE DEF q, t
<1>9. q * modulus <= x * y /\ x * y < q * modulus + 2 * modulus
  BY <1>1, <1>4, <1>6, ShoupIsClose
<1>10. x * y \in Nat /\ q * modulus \in Nat /\ q * modulus = modulus * q
       /\ modulus * (q + 1) = modulus * q + modulus
  BY <1>1, <1>6, SMT
<1>11. yprime \in Nat /\ yprime < 2 * modulus /\ x * y = modulus * q + yprime BY <1>9, <1>10, <1>1
<1> HIDE DEF yprime
<1>12. yprime % W = yprime /\ Signed(yprime) = yprime /\ Signed(modulus) = modulus
  <2>1. yprime \in 0 .. W - 1 /\ yprime < Pow[w - 1] /\ modulus < Pow[w - 1]
    BY <1>1, <1>2, <1>11
  <2>2. yprime % W = yprime BY <1>1, <2>1, ResidueOfSmall
  <2> QED BY <2>1, <2>2 DEF Signed
<1>13. ModMulFastConst(x, y) = IF yprime - modulus >= 0 THEN yprime - modulus ELSE yprime
  <2>1. (x * y - q * modulus) % W = yprime BY <1>12 DEF yprime
  <2> QED BY <1>8, <1>12, <2>1 DEF ModMulFastConst
<1>14. CASE yprime < modulus
  <2>1. yprime \in 0 .. modulus - 1 BY <1>1, <1>11, <1>14
  <2>2. (modulus * q + yprime) % modulus = yprime BY <1>1, <1>6, <2>1, ResidueOf
  <2> QED BY <1>1, <1>11, <1>13, <1>14, <2>2
<1>15. CASE yprime >= modulus
  <2> DEFINE c == yprime - modulus
             k == q + 1
  <2>1. c \in 0 .. modulus - 1 /\ k \in Int /\ x * y = modulus * k + c
    BY <1>1, <1>6, <1>10, <1>11, <1>15
  <2> HIDE DEF c, k
  <2>2. (modulus * k + c) % modulus = c BY <1>1, <2>1, ResidueOf
  <2>3. (x * y) % modulus = c BY <2>1, <2>2
  <2> QED BY <1>1, <1>11, <1>13, <1>15, <2>3 DEF c
<1> QED BY <1>1, <1>11, <1>14, <1>15

-----------------------------------------------------------------------------
\* The invariant of a build whose double type is wider than a word.
IInv == modulus \in Moduli /\ wide /\ NativeIsRight

\* A step keeps the invariant if its word stands for the residue wanted, exactly when clean.
LEMMA BecomesKeeps ==
  ASSUME IInv, NEW v, NEW r \in Int, NEW given, Becomes(v, r, given),
         Stands(v, r % modulus),
         clean /\ (\A x \in given : x = 0 \/ x % modulus # 0) => v = r % modulus
  PROVE  IInv'
<1>1. modulus \in Nat /\ modulus > 0 BY Bits DEF IInv
<1>2. m_value' = v /\ want' = r % modulus /\ modulus' = modulus /\ wide' = wide BY DEF Becomes
<1>3. want' \in 0 .. modulus' - 1 BY <1>1, <1>2, Quotient
<1>4. clean' => m_value' = want' BY <1>2 DEF Becomes
<1>5. m_value' = want' \/ (want' = 0 /\ m_value' = modulus') BY <1>2 DEF Stands
<1> QED BY <1>2, <1>3, <1>4, <1>5 DEF IInv, NativeIsRight

\* What a step may use of the word and of its operand.
LEMMA Operand ==
  ASSUME IInv, NEW z \in Operands
  PROVE  /\ modulus \in Moduli /\ wide /\ modulus \in Nat /\ modulus > 0
         /\ want \in 0 .. modulus - 1 /\ Stands(m_value, want) /\ m_value \in 0 .. modulus
         /\ m_value % modulus = want /\ m_value < W /\ m_value < 64 * P * P
         /\ clean => m_value = want
         /\ z \in Nat /\ z < W /\ z % modulus \in 0 .. modulus - 1
         /\ Fits(z) => z < 64 * P * P
         /\ z <= modulus => Stands(z, z % modulus) /\ z < 64 * P * P
         /\ z < modulus => z % modulus = z
<1>1. modulus \in Moduli /\ modulus \in Nat /\ modulus > 0 /\ W \in Nat /\ Pow[2 * K + 2] = 64 * P * P
  BY Bits DEF IInv
<1>2. want \in 0 .. modulus - 1 /\ Stands(m_value, want) BY DEF IInv, NativeIsRight, Stands
<1>3. m_value \in 0 .. modulus /\ m_value % modulus = want /\ m_value < W /\ m_value < 64 * P * P
  BY <1>1, <1>2, StandsFor
<1>4. z \in Nat /\ z < W BY <1>1, OperandsAssumption DEF W
<1>5. z % modulus \in 0 .. modulus - 1 BY <1>1, <1>4, Quotient
<1>6. Fits(z) => z < 64 * P * P BY <1>1 DEF Fits, K
<1>7. z < modulus => z % modulus = z BY <1>1, <1>4, ResidueOfSmall
<1>8. z = modulus => z % modulus = 0 BY <1>1, ResidueOfModulus
<1>9. z <= modulus => Stands(z, z % modulus) BY <1>1, <1>4, <1>7, <1>8 DEF Stands
<1>10. z <= modulus => z < 64 * P * P BY <1>1, <1>5, <1>9, StandsFor
<1> QED BY <1>1, <1>2, <1>3, <1>4, <1>5, <1>6, <1>7, <1>9, <1>10 DEF IInv, NativeIsRight

\* Reductions keep the invariant.
LEMMA ModKeeps ==
  ASSUME IInv, NEW z \in Operands, ModStep(z)
  PROVE  IInv'
<1> USE Operand
<1>1. CASE Becomes(Mod(z), z, {})
  <2>1. Mod(z) = z % modulus BY DEF Mod
  <2>2. z \in Int /\ Stands(Mod(z), z % modulus) BY <2>1 DEF Stands
  <2> QED BY <1>1, <2>1, <2>2, BecomesKeeps
<1>2. CASE Fits(z) /\ Becomes(ModMu(z), z, {z})
  <2>1. /\ z \in Int /\ Stands(ModMu(z), z % modulus)
        /\ z = 0 \/ z % modulus # 0 => ModMu(z) = z % modulus
    BY <1>2, ReducedMuStands
  <2> QED BY <1>2, <2>1, BecomesKeeps
<1> QED BY <1>1, <1>2 DEF ModStep

\* An operand that is not a multiple of the modulus, 0 excepted, is left by reduction as it should be.
LEMMA AboveIsNoMultiple ==
  ASSUME IInv, NEW x \in Nat, x < W, x < 64 * P * P, \A y \in Above(x) : y = 0 \/ y % modulus # 0
  PROVE  ReducedMu(x) = x % modulus /\ (x <= modulus => x = x % modulus)
<1>1. modulus \in Moduli /\ wide /\ modulus \in Nat /\ modulus > 0 BY Bits DEF IInv
<1>2. x < modulus \/ x % modulus # 0
  <2>1. CASE x >= modulus
    <3>1. x # 0 /\ x \in Above(x) BY <1>1, <2>1 DEF Above
    <3> QED BY <3>1
  <2> QED BY <1>1, <2>1
<1>3. ReducedMu(x) = x % modulus BY <1>1, <1>2, ReducedMuStands
<1>4. x < modulus => x % modulus = x BY <1>1, ResidueOfSmall
<1>5. x = modulus => x % modulus = 0 BY <1>1, ResidueOfModulus
<1> QED BY <1>1, <1>2, <1>3, <1>4, <1>5

\* Additions keep the invariant.
LEMMA AddKeeps ==
  ASSUME IInv, NEW z \in Operands, AddStep(z)
  PROVE  IInv'
<1> DEFINE s == z % modulus
           r == want + z
<1>1. /\ modulus \in Moduli /\ wide /\ modulus \in Nat /\ modulus > 0
      /\ want \in 0 .. modulus - 1 /\ Stands(m_value, want) /\ m_value \in Nat
      /\ m_value % modulus = want /\ m_value < W /\ m_value < 64 * P * P
      /\ clean => m_value = want
      /\ z \in Nat /\ z < W /\ s \in 0 .. modulus - 1
      /\ Fits(z) => z < 64 * P * P
      /\ z <= modulus => Stands(z, s) /\ z < 64 * P * P
  BY Operand
<1>2. r \in Int /\ (want + s) % modulus = r % modulus
  <2>1. want \in Int /\ z \in Int BY <1>1
  <2>2. (want + (z % modulus)) % modulus = (want + z) % modulus BY <1>1, <2>1, ResidueOfSum
  <2> QED BY <2>1, <2>2
<1> HIDE DEF s, r
<1>3. ASSUME NEW a, NEW b, Stands(a, want), Stands(b, s)
      PROVE  /\ Stands(ModAddFast(a, b, modulus), r % modulus)
             /\ a = want /\ b = s => ModAddFast(a, b, modulus) = r % modulus
  <2>1. /\ Stands(ModAddFast(a, b, modulus), (want + s) % modulus)
        /\ a = want /\ b = s => ModAddFast(a, b, modulus) = (want + s) % modulus
    BY <1>1, <1>3, SumStands
  <2> QED BY <1>2, <2>1
<1>4. CASE Becomes(ModAdd(m_value, z), r, {})
  <2>1. Reduced(m_value) = want /\ Reduced(z) = s BY <1>1, ReducedIsResidue DEF s
  <2>2. Stands(want, want) /\ Stands(s, s) BY DEF Stands
  <2>3. Stands(ModAdd(m_value, z), r % modulus) /\ ModAdd(m_value, z) = r % modulus
    BY <1>3, <2>1, <2>2 DEF ModAdd
  <2> QED BY <1>2, <1>4, <2>3, BecomesKeeps
<1>5. CASE z <= modulus /\ Becomes(ModAddFast(m_value, z, modulus), r, Above(z))
  <2>1. Stands(z, s) /\ z < 64 * P * P BY <1>1, <1>5
  <2>2. (\A x \in Above(z) : x = 0 \/ x % modulus # 0) => z = s
    BY <1>1, <1>5, <2>1, AboveIsNoMultiple DEF s
  <2>3. /\ Stands(ModAddFast(m_value, z, modulus), r % modulus)
        /\ m_value = want /\ z = s => ModAddFast(m_value, z, modulus) = r % modulus
    BY <1>1, <1>3, <2>1
  <2> QED BY <1>1, <1>2, <1>5, <2>2, <2>3, BecomesKeeps
<1>6. CASE Fits(z) /\ Becomes(ModAddMu(m_value, z), r, Above(z) \cup Above(m_value))
  <2>1. Stands(ReducedMu(m_value), want) /\ Stands(ReducedMu(z), s)
    BY <1>1, <1>6, ReducedMuStands DEF s
  <2>2. (\A x \in Above(z) \cup Above(m_value) : x = 0 \/ x % modulus # 0)
          => ReducedMu(m_value) = want /\ ReducedMu(z) = s
    BY <1>1, <1>6, AboveIsNoMultiple DEF s
  <2>3. /\ Stands(ModAddMu(m_value, z), r % modulus)
        /\ ReducedMu(m_value) = want /\ ReducedMu(z) = s => ModAddMu(m_value, z) = r % modulus
    BY <1>3, <2>1 DEF ModAddMu
  <2> QED BY <1>2, <1>6, <2>2, <2>3, BecomesKeeps
<1> QED BY <1>4, <1>5, <1>6 DEF AddStep, r

\* Subtractions, in either order, keep the invariant.
LEMMA SubKeeps ==
  ASSUME IInv, NEW z \in Operands, SubStep(z)
  PROVE  IInv'
<1> DEFINE s == z % modulus
           r == want - z
           t == z - want
<1>1. /\ modulus \in Moduli /\ wide /\ modulus \in Nat /\ modulus > 0
      /\ want \in 0 .. modulus - 1 /\ Stands(m_value, want) /\ m_value \in Nat
      /\ m_value % modulus = want /\ m_value < W /\ m_value < 64 * P * P
      /\ clean => m_value = want
      /\ z \in Nat /\ z < W /\ s \in 0 .. modulus - 1
      /\ Fits(z) => z < 64 * P * P
      /\ z <= modulus => Stands(z, s) /\ z < 64 * P * P
  BY Operand
<1>2. /\ r \in Int /\ (want - s) % modulus = r % modulus
      /\ t \in Int /\ (s - want) % modulus = t % modulus
  <2>1. want \in Int /\ z \in Int BY <1>1
  <2>2. /\ (want - (z % modulus)) % modulus = (want - z) % modulus
        /\ ((z % modulus) - want) % modulus = (z - want) % modulus
    BY <1>1, <2>1, ResidueOfSum
  <2> QED BY <2>1, <2>2
<1> HIDE DEF s, r, t
<1>3. ASSUME NEW a, NEW b, Stands(a, want), Stands(b, s)
      PROVE  /\ Stands(ModSubFast(a, b, modulus), r % modulus)
             /\ Stands(ModSubFast(b, a, modulus), t % modulus)
             /\ a = want /\ b = s => /\ ModSubFast(a, b, modulus) = r % modulus
                                     /\ ModSubFast(b, a, modulus) = t % modulus
  <2>1. /\ Stands(ModSubFast(a, b, modulus), (want - s) % modulus)
        /\ a = want /\ b = s => ModSubFast(a, b, modulus) = (want - s) % modulus
    BY <1>1, <1>3, DifferenceStands
  <2>2. /\ Stands(ModSubFast(b, a, modulus), (s - want) % modulus)
        /\ b = s /\ a = want => ModSubFast(b, a, modulus) = (s - want) % modulus
    BY <1>1, <1>3, DifferenceStands
  <2> QED BY <1>2, <2>1, <2>2
<1>4. CASE Becomes(ModSub(m_value, z), r, {}) \/ Becomes(ModSub(z, m_value), t, {})
  <2>1. Reduced(m_value) = want /\ Reduced(z) = s BY <1>1, ReducedIsResidue DEF s
  <2>2. Stands(want, want) /\ Stands(s, s) BY DEF Stands
  <2>3. /\ Stands(ModSub(m_value, z), r % modulus) /\ ModSub(m_value, z) = r % modulus
        /\ Stands(ModSub(z, m_value), t % modulus) /\ ModSub(z, m_value) = t % modulus
    BY <1>3, <2>1, <2>2 DEF ModSub
  <2>4. CASE Becomes(ModSub(m_value, z), r, {}) BY <1>2, <2>3, <2>4, BecomesKeeps
  <2>5. CASE Becomes(ModSub(z, m_value), t, {}) BY <1>2, <2>3, <2>5, BecomesKeeps
  <2> QED BY <1>4, <2>4, <2>5
<1>5. CASE z <= modulus /\ (\/ Becomes(ModSubFast(m_value, z, modulus), r, Above(z))
                            \/ Becomes(ModSubFast(z, m_value, modulus), t, Above(z)))
  <2>1. Stands(z, s) /\ z < 64 * P * P BY <1>1, <1>5
  <2>2. (\A x \in Above(z) : x = 0 \/ x % modulus # 0) => z = s
    BY <1>1, <1>5, <2>1, AboveIsNoMultiple DEF s
  <2>3. /\ Stands(ModSubFast(m_value, z, modulus), r % modulus)
        /\ Stands(ModSubFast(z, m_value, modulus), t % modulus)
        /\ m_value = want /\ z = s => /\ ModSubFast(m_value, z, modulus) = r % modulus
                                      /\ ModSubFast(z, m_value, modulus) = t % modulus
    BY <1>1, <1>3, <2>1
  <2>4. CASE Becomes(ModSubFast(m_value, z, modulus), r, Above(z))
    BY <1>1, <1>2, <2>2, <2>3, <2>4, BecomesKeeps
  <2>5. CASE Becomes(ModSubFast(z, m_value, modulus), t, Above(z))
    BY <1>1, <1>2, <2>2, <2>3, <2>5, BecomesKeeps
  <2> QED BY <1>5, <2>4, <2>5
<1>6. CASE Fits(z) /\ (\/ Becomes(ModSubMu(m_value, z), r, Above(z) \cup Above(m_value))
                       \/ Becomes(ModSubMu(z, m_value), t, Above(z) \cup Above(m_value)))
  <2>1. Stands(ReducedMu(m_value), want) /\ Stands(ReducedMu(z), s)
    BY <1>1, <1>6, ReducedMuStands DEF s
  <2>2. (\A x \in Above(z) \cup Above(m_value) : x = 0 \/ x % modulus # 0)
          => ReducedMu(m_value) = want /\ ReducedMu(z) = s
    BY <1>1, <1>6, AboveIsNoMultiple DEF s
  <2>3. /\ Stands(ModSubMu(m_value, z), r % modulus)
        /\ Stands(ModSubMu(z, m_value), t % modulus)
        /\ ReducedMu(m_value) = want /\ ReducedMu(z) = s
             => ModSubMu(m_value, z) = r % modulus /\ ModSubMu(z, m_value) = t % modulus
    BY <1>3, <2>1 DEF ModSubMu
  <2>4. CASE Becomes(ModSubMu(m_value, z), r, Above(z) \cup Above(m_value))
    BY <1>2, <2>2, <2>3, <2>4, BecomesKeeps
  <2>5. CASE Becomes(ModSubMu(z, m_value), t, Above(z) \cup Above(m_value))
    BY <1>2, <2>2, <2>3, <2>5, BecomesKeeps
  <2> QED BY <1>6, <2>4, <2>5
<1> QED BY <1>4, <1>5, <1>6 DEF SubStep, r, t

\* Multiplications keep the invariant.
LEMMA MulKeeps ==
  ASSUME IInv, NEW z \in Operands, MulStep(z)
  PROVE  IInv'
<1> DEFINE s == z % modulus
           r == want * z
<1>1. /\ modulus \in Moduli /\ wide /\ modulus \in Nat /\ modulus > 0
      /\ want \in 0 .. modulus - 1 /\ Stands(m_value, want) /\ m_value \in Nat
      /\ m_value % modulus = want /\ m_value < W /\ m_value < 64 * P * P
      /\ clean => m_value = want
      /\ z \in Nat /\ z < W /\ s \in 0 .. modulus - 1
      /\ Fits(z) => z < 64 * P * P
      /\ z <= modulus => Stands(z, s)
      /\ z < modulus => s = z
  BY Operand
<1>2. r \in Int /\ (want * s) % modulus = r % modulus /\ (s * want) % modulus = r % modulus
  <2>1. want \in Int /\ z \in Int /\ want * z \in Int BY <1>1, SMT
  <2>2. /\ (want * (z % modulus)) % modulus = (want * z) % modulus
        /\ ((z % modulus) * want) % modulus = (want * z) % modulus
    BY <1>1, <2>1, ResidueOfProduct
  <2> QED BY <2>1, <2>2
<1> HIDE DEF s, r
<1>3. ASSUME NEW a, NEW b, Stands(a, want), Stands(b, s)
      PROVE  /\ (a * b) % modulus = r % modulus /\ (b * a) % modulus = r % modulus
             /\ Stands(Barrett(MultD(a, b)), r % modulus) /\ Stands(Barrett(MultD(b, a)), r % modulus)
             /\ a * b = 0 \/ (a * b) % modulus # 0 => Barrett(MultD(a, b)) = r % modulus
             /\ b * a = 0 \/ (b * a) % modulus # 0 => Barrett(MultD(b, a)) = r % modulus
  <2>1. (a * b) % modulus = (want * s) % modulus /\ (b * a) % modulus = (s * want) % modulus
    BY <1>1, <1>3, ProductStands
  <2>2. /\ Stands(Barrett(MultD(a, b)), (want * s) % modulus)
        /\ a * b = 0 \/ (a * b) % modulus # 0 => Barrett(MultD(a, b)) = (want * s) % modulus
    BY <1>1, <1>3, BarrettProduct
  <2>3. /\ Stands(Barrett(MultD(b, a)), (s * want) % modulus)
        /\ b * a = 0 \/ (b * a) % modulus # 0 => Barrett(MultD(b, a)) = (s * want) % modulus
    BY <1>1, <1>3, BarrettProduct
  <2> QED BY <1>2, <2>1, <2>2, <2>3
<1>4. Stands(r % modulus, r % modulus) BY DEF Stands
<1>5. CASE Becomes(ModMul(m_value, z), r, {})
  <2>1. Stands(Lowered(m_value), want) /\ Stands(Lowered(z), s)
    BY <1>1, ReducedIsResidue DEF s
  <2>2. ModMul(m_value, z) = r % modulus BY <1>1, <1>3, <2>1 DEF ModMul
  <2> QED BY <1>2, <1>4, <1>5, <2>2, BecomesKeeps
<1>6. CASE z <= modulus /\ Becomes(ModMulFast(m_value, z), r, {})
  <2>1. ModMulFast(m_value, z) = r % modulus BY <1>1, <1>3, <1>6 DEF ModMulFast
  <2> QED BY <1>2, <1>4, <1>6, <2>1, BecomesKeeps
<1>7. CASE z <= modulus /\ Becomes(ModMulFastMu(m_value, z), r, {m_value * z})
  <2>1. /\ Stands(ModMulFastMu(m_value, z), r % modulus)
        /\ m_value * z = 0 \/ (m_value * z) % modulus # 0 => ModMulFastMu(m_value, z) = r % modulus
    BY <1>1, <1>3, <1>7 DEF ModMulFastMu
  <2> QED BY <1>2, <1>7, <2>1, BecomesKeeps
<1>8. CASE Fits(z) /\ Becomes(ModMulMu(z, m_value), r, Above(z) \cup {LoweredMu(z) * m_value})
  <2>1. Stands(LoweredMu(z), s) BY <1>1, <1>8, ReducedMuStands DEF s
  <2>2. /\ Stands(ModMulMu(z, m_value), r % modulus)
        /\ LoweredMu(z) * m_value = 0 \/ (LoweredMu(z) * m_value) % modulus # 0
             => ModMulMu(z, m_value) = r % modulus
    BY <1>1, <1>3, <2>1 DEF ModMulMu
  <2> QED BY <1>2, <1>8, <2>2, BecomesKeeps
<1>9. CASE z < modulus /\ Becomes(ModMulFastConst(m_value, z), r, {})
  <2>1. z \in 0 .. modulus - 1 /\ Stands(z, s) BY <1>1, <1>9 DEF Stands
  <2>2. ModMulFastConst(m_value, z) = (m_value * z) % modulus BY <1>1, <2>1, FastConstIsExact
  <2>3. ModMulFastConst(m_value, z) = r % modulus BY <1>1, <1>3, <2>1, <2>2
  <2> QED BY <1>2, <1>4, <1>9, <2>3, BecomesKeeps
<1>10. CASE m_value < modulus /\ Becomes(ModMulFastConst(z, m_value), r, {})
  <2>1. m_value \in 0 .. modulus - 1 BY <1>1, <1>10
  <2>2. ModMulFastConst(z, m_value) = (z * m_value) % modulus BY <1>1, <2>1, FastConstIsExact
  <2>3. m_value = want BY <1>1, <2>1, ResidueOfSmall
  <2>4. z * want = want * z BY <1>1, SMT
  <2>5. ModMulFastConst(z, m_value) = r % modulus BY <2>2, <2>3, <2>4 DEF r
  <2> QED BY <1>2, <1>4, <1>10, <2>5, BecomesKeeps
<1> QED BY <1>1, <1>5, <1>6, <1>7, <1>8, <1>9, <1>10 DEF MulStep, r

\* A program starts from 0.
LEMMA InitIsRight ==
  ASSUME NativeInit, wide
  PROVE  IInv
<1>1. modulus \in Moduli BY DEF NativeInit
<1>2. modulus \in Nat /\ modulus > 0 BY <1>1, Bits
<1> QED BY <1>1, <1>2 DEF NativeInit, IInv, NativeIsRight

\* Whatever methods a program applies in whatever order, with operands in their ranges, a build
\* with a wider double type keeps the residue, and the exact number as long as no operand that
\* was not reduced and no product that is a multiple of the modulus came in.
THEOREM NativeArithmeticIsRight == ArithmeticSpec /\ wide => []NativeIsRight
<1>1. NativeInit /\ wide => IInv BY InitIsRight
<1>2. IInv /\ [ArithmeticStep]_nativeVars => IInv'
  <2> SUFFICES ASSUME IInv, [ArithmeticStep]_nativeVars
               PROVE  IInv'
    OBVIOUS
  <2>1. ASSUME NEW z \in Operands, ModStep(z) \/ AddStep(z) \/ SubStep(z) \/ MulStep(z)
        PROVE  IInv'
    BY <2>1, ModKeeps, AddKeeps, SubKeeps, MulKeeps
  <2>2. CASE UNCHANGED nativeVars BY <2>2 DEF nativeVars, IInv, NativeIsRight
  <2> QED BY <2>1, <2>2 DEF ArithmeticStep
<1>3. IInv => NativeIsRight BY DEF IInv
<1> QED BY <1>1, <1>2, <1>3, PTL DEF ArithmeticSpec
=============================================================================
