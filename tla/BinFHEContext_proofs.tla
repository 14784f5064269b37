------------------------ MODULE BinFHEContext_proofs ------------------------
(***************************************************************************)
(* Every object of BinFHEContext stays reduced, whatever is sampled; its   *)
(* error is small when the samples of its last gate fit, whatever its      *)
(* operands were; and it decrypts to its circuit's bit when all of its     *)
(* samples fitted: for all dimensions, moduli, digit bases and keys.       *)
(***************************************************************************)
EXTENDS BinFHEContext, NaturalsInduction, WellFoundedInduction, TLAPS

-----------------------------------------------------------------------------
(***************************************************************************)
(* Natural numbers.                                                        *)
(***************************************************************************)

\* A set of natural numbers has a least one.
LEMMA LeastNumber ==
  ASSUME NEW S, S \subseteq Nat, S # {}
  PROVE  \E x \in S : \A y \in S : x <= y
<1> DEFINE R == OpToRel(<, Nat)
<1>1. IsWellFoundedOn(R, Nat) BY NatLessThanWellFounded
<1>2. PICK x \in S : \A y \in S : ~ (<<y, x>> \in R)
  <2> HIDE DEF R
  <2> QED BY <1>1, WFMin
<1>3. \A y \in S : x <= y
  <2> SUFFICES ASSUME NEW y \in S, ~ (x <= y) PROVE FALSE
    OBVIOUS
  <2>1. y \in Nat /\ x \in Nat /\ y < x OBVIOUS
  <2>2. <<y, x>> \in R BY <2>1 DEF OpToRel
  <2> QED BY <1>2, <2>2
<1> QED BY <1>3

\* A set with 0 and every number's successor has all of them.
LEMMA SetInduction ==
  ASSUME NEW S, 0 \in S, \A k \in Nat : k \in S => k + 1 \in S
  PROVE  \A k \in Nat : k \in S
<1> SUFFICES ASSUME NEW m \in Nat, m \notin S PROVE FALSE
  OBVIOUS
<1> DEFINE T == {k \in Nat : k \notin S}
<1>1. PICK k \in T : \A y \in T : k <= y
  <2>1. T \subseteq Nat /\ T # {} OBVIOUS
  <2> QED BY <2>1, LeastNumber
<1>2. k \in Nat \ {0} BY <1>1
<1>3. k - 1 \in Nat /\ ~(k <= k - 1) /\ (k - 1) + 1 = k BY <1>2
<1>4. k - 1 \in S BY <1>1, <1>3
<1> QED BY <1>1, <1>3, <1>4

\* The parameters, as multiples of q / 8.
LEMMA Parameters ==
  /\ n \in Nat \ {0} /\ q \in Nat /\ Q \in Nat /\ N \in Nat
  /\ q >= 32 /\ q < Q
  /\ q \div 8 \in Nat /\ q \div 8 >= 4 /\ q = 8 * (q \div 8)
  /\ q \div 4 = 2 * (q \div 8) /\ q \div 2 = 4 * (q \div 8)
BY LWEAssumption, RingAssumption

-----------------------------------------------------------------------------
(***************************************************************************)
(* Inner products.                                                         *)
(***************************************************************************)

\* What f must be to be the function of partial sums that Dot defines.
PartialSums(f, a, s, m) ==
  f = [i \in 0 .. m |-> IF i = 0 THEN 0 ELSE f[i - 1] + a[i] * s[i]]

LEMMA PartialSumsExist ==
  ASSUME NEW a, NEW s
  PROVE  \A m \in Nat : \E f : PartialSums(f, a, s, m)
<1> DEFINE S == {m \in Nat : \E f : PartialSums(f, a, s, m)}
<1>1. 0 \in S
  <2>1. PartialSums([i \in 0 .. 0 |-> 0], a, s, 0) BY DEF PartialSums
  <2> QED BY <2>1
<1>2. ASSUME NEW m \in Nat, m \in S PROVE m + 1 \in S
  <2>1. PICK f : PartialSums(f, a, s, m) BY <1>2
  <2> DEFINE g == [i \in 0 .. m + 1 |-> IF i = m + 1 THEN f[m] + a[m + 1] * s[m + 1] ELSE f[i]]
  <2>2. ASSUME NEW i \in 0 .. m + 1
        PROVE  g[i] = IF i = 0 THEN 0 ELSE g[i - 1] + a[i] * s[i]
    <3>1. CASE i = m + 1
      <4>1. i - 1 = m /\ m \in 0 .. m + 1 /\ m # m + 1 /\ i # 0 BY <3>1
      <4> QED BY <3>1, <4>1
    <3>2. CASE i # m + 1
      <4>1. i \in 0 .. m BY <3>2
      <4>2. f[i] = IF i = 0 THEN 0 ELSE f[i - 1] + a[i] * s[i] BY <2>1, <4>1 DEF PartialSums
      <4>3. i # 0 => i - 1 \in 0 .. m + 1 /\ i - 1 # m + 1 BY <4>1
      <4> QED BY <3>2, <4>2, <4>3
    <3> QED BY <3>1, <3>2
  <2>3. PartialSums(g, a, s, m + 1) BY <2>2 DEF PartialSums
  <2> QED BY <2>3
<1> HIDE DEF S
<1>3. \A m \in Nat : m \in S BY <1>1, <1>2, SetInduction
<1> QED BY <1>3 DEF S

\* The product with an entry of a private key.
LEMMA SignTimes == \A y \in Int : \A t \in -1 .. 1 : y * t \in Int
OBVIOUS

LEMMA DotSums ==
  ASSUME NEW a \in [1 .. n -> Int], NEW s \in Secrets
  PROVE  \E f \in [0 .. n -> Int] :
           /\ f[0] = 0
           /\ \A i \in 1 .. n : f[i] = f[i - 1] + a[i] * s[i]
           /\ Dot(a, s) = f[n]
<1> DEFINE F == CHOOSE f : PartialSums(f, a, s, n)
<1>1. PartialSums(F, a, s, n)
  <2>1. \E f : PartialSums(f, a, s, n) BY PartialSumsExist, Parameters
  <2> QED BY <2>1
<1>2. Dot(a, s) = F[n] BY DEF Dot, PartialSums
<1> HIDE DEF F
<1>3. DOMAIN F = 0 .. n /\ F[0] = 0 /\ \A i \in 1 .. n : F[i] = F[i - 1] + a[i] * s[i]
  <2>1. F = [i \in 0 .. n |-> IF i = 0 THEN 0 ELSE F[i - 1] + a[i] * s[i]]
    BY <1>1 DEF PartialSums
  <2>2. 0 \in 0 .. n /\ \A i \in 1 .. n : i \in 0 .. n /\ i # 0 BY Parameters
  <2> HIDE DEF PartialSums
  <2> QED BY <2>1, <2>2
<1> DEFINE S == {m \in Nat : m <= n => F[m] \in Int}
<1>4. 0 \in S BY <1>3
<1>5. ASSUME NEW m \in Nat, m \in S PROVE m + 1 \in S
  <2> SUFFICES ASSUME m + 1 <= n PROVE F[m + 1] \in Int
    OBVIOUS
  <2>1. m + 1 \in 1 .. n /\ (m + 1) - 1 = m /\ m <= n BY Parameters
  <2>2. a[m + 1] \in Int /\ s[m + 1] \in -1 .. 1 BY <2>1 DEF Secrets
  <2>3. a[m + 1] * s[m + 1] \in Int BY <2>2, SignTimes
  <2>4. F[m + 1] = F[m] + a[m + 1] * s[m + 1] BY <1>3, <2>1
  <2> QED BY <1>5, <2>1, <2>3, <2>4
<1> HIDE DEF S
<1>6. \A m \in Nat : m \in S BY <1>4, <1>5, SetInduction
<1>7. F \in [0 .. n -> Int]
  <2>1. \A i \in 0 .. n : F[i] \in Int BY <1>6, Parameters DEF S
  <2>2. F = [i \in 0 .. n |-> F[i]] BY <1>1, <1>3 DEF PartialSums
  <2> QED BY <2>1, <2>2
<1> QED BY <1>2, <1>3, <1>7

\* A times c is B times a plus b plus M times k, entry by entry.
Combined(A, c, B, a, b, M, k) ==
  /\ a \in [1 .. n -> Int] /\ b \in [1 .. n -> Int]
  /\ c \in [1 .. n -> Int] /\ k \in [1 .. n -> Int]
  /\ A \in Int /\ B \in Int /\ M \in Int
  /\ \A i \in 1 .. n : A * c[i] = B * a[i] + b[i] + M * k[i]

LEMMA DotLinear ==
  ASSUME NEW s \in Secrets,
         NEW A, NEW c, NEW B, NEW a, NEW b, NEW M, NEW k,
         Combined(A, c, B, a, b, M, k)
  PROVE  /\ Dot(a, s) \in Int /\ Dot(b, s) \in Int /\ Dot(c, s) \in Int /\ Dot(k, s) \in Int
         /\ A * Dot(c, s) = B * Dot(a, s) + Dot(b, s) + M * Dot(k, s)
<1> USE DEF Combined
<1>1. PICK fa \in [0 .. n -> Int] :
        fa[0] = 0 /\ (\A i \in 1 .. n : fa[i] = fa[i - 1] + a[i] * s[i]) /\ Dot(a, s) = fa[n]
  BY DotSums
<1>2. PICK fb \in [0 .. n -> Int] :
        fb[0] = 0 /\ (\A i \in 1 .. n : fb[i] = fb[i - 1] + b[i] * s[i]) /\ Dot(b, s) = fb[n]
  BY DotSums
<1>3. PICK fc \in [0 .. n -> Int] :
        fc[0] = 0 /\ (\A i \in 1 .. n : fc[i] = fc[i - 1] + c[i] * s[i]) /\ Dot(c, s) = fc[n]
  BY DotSums
<1>4. PICK fk \in [0 .. n -> Int] :
        fk[0] = 0 /\ (\A i \in 1 .. n : fk[i] = fk[i - 1] + k[i] * s[i]) /\ Dot(k, s) = fk[n]
  BY DotSums
<1> DEFINE Holds(m) == A * fc[m] = B * fa[m] + fb[m] + M * fk[m]
           S == {m \in Nat : m <= n => Holds(m)}
<1>5. 0 \in S
  <2>1. A * 0 = 0 /\ B * 0 = 0 /\ M * 0 = 0 OBVIOUS
  <2> QED BY <1>1, <1>2, <1>3, <1>4, <2>1
<1>6. ASSUME NEW m \in Nat, m \in S PROVE m + 1 \in S
  <2> SUFFICES ASSUME m + 1 <= n PROVE Holds(m + 1)
    OBVIOUS
  <2> DEFINE i == m + 1
             t == s[i]
  <2>1. i \in 1 .. n /\ i - 1 = m /\ m <= n /\ m \in 0 .. n BY Parameters
  <2>2. t \in -1 .. 1 /\ a[i] \in Int /\ b[i] \in Int /\ c[i] \in Int /\ k[i] \in Int
    BY <2>1 DEF Secrets
  <2>3. fa[m] \in Int /\ fb[m] \in Int /\ fc[m] \in Int /\ fk[m] \in Int BY <2>1
  <2>4. /\ fa[i] = fa[m] + a[i] * t /\ fb[i] = fb[m] + b[i] * t
        /\ fc[i] = fc[m] + c[i] * t /\ fk[i] = fk[m] + k[i] * t
    BY <1>1, <1>2, <1>3, <1>4, <2>1
  <2>5. A * c[i] = B * a[i] + b[i] + M * k[i] BY <2>1
  <2>6. Holds(m) BY <1>6, <2>1
  <2>7. A * (fc[m] + c[i] * t)
        = B * (fa[m] + a[i] * t) + (fb[m] + b[i] * t) + M * (fk[m] + k[i] * t)
    <3> HIDE DEF i, t, S
    <3>1. A * fc[m] = B * fa[m] + fb[m] + M * fk[m] BY <2>6
    <3> DEFINE x == fa[m]
               y == fb[m]
               z == fc[m]
               w == fk[m]
               aa == a[i]
               bb == b[i]
               cc == c[i]
               kk == k[i]
    <3>2. /\ x \in Int /\ y \in Int /\ z \in Int /\ w \in Int
          /\ aa \in Int /\ bb \in Int /\ cc \in Int /\ kk \in Int /\ t \in -1 .. 1
          /\ A * cc = B * aa + bb + M * kk /\ A * z = B * x + y + M * w
      BY <2>2, <2>3, <2>5, <3>1
    <3> HIDE DEF Holds, x, y, z, w, aa, bb, cc, kk
    <3>3. A * (z + cc * t) = B * (x + aa * t) + (y + bb * t) + M * (w + kk * t)
      <4>1. t = -1 \/ t = 0 \/ t = 1 BY <3>2
      <4>2. /\ A * (z + cc) = A * z + A * cc /\ A * (z - cc) = A * z - A * cc
            /\ B * (x + aa) = B * x + B * aa /\ B * (x - aa) = B * x - B * aa
            /\ M * (w + kk) = M * w + M * kk /\ M * (w - kk) = M * w - M * kk
        BY <3>2
      <4>3. /\ A * z \in Int /\ A * cc \in Int /\ B * x \in Int /\ B * aa \in Int
            /\ M * w \in Int /\ M * kk \in Int
        BY <3>2
      <4>4. CASE t = -1
        <5>1. /\ z + cc * t = z - cc /\ x + aa * t = x - aa
              /\ y + bb * t = y - bb /\ w + kk * t = w - kk
          BY <3>2, <4>4
        <5>2. A * z - A * cc = (B * x - B * aa) + (y - bb) + (M * w - M * kk)
          BY <3>2, <4>3
        <5>3. A * (z - cc) = B * (x - aa) + (y - bb) + M * (w - kk)
          BY <4>2, <5>2, Zenon
        <5> QED BY <5>1, <5>3, Zenon
      <4>5. CASE t = 0
        <5>1. /\ z + cc * t = z /\ x + aa * t = x /\ y + bb * t = y /\ w + kk * t = w
          BY <3>2, <4>5
        <5> QED BY <3>2, <5>1
      <4>6. CASE t = 1
        <5>1. /\ z + cc * t = z + cc /\ x + aa * t = x + aa
              /\ y + bb * t = y + bb /\ w + kk * t = w + kk
          BY <3>2, <4>6
        <5>2. A * z + A * cc = (B * x + B * aa) + (y + bb) + (M * w + M * kk)
          BY <3>2, <4>3
        <5>3. A * (z + cc) = B * (x + aa) + (y + bb) + M * (w + kk)
          BY <4>2, <5>2, Zenon
        <5> QED BY <5>1, <5>3, Zenon
      <4> QED BY <3>2, <4>1, <4>4, <4>5, <4>6
    <3> QED BY <3>3 DEF x, y, z, w, aa, bb, cc, kk
  <2> QED BY <2>4, <2>7
<1> HIDE DEF S, Holds
<1>7. \A m \in Nat : m \in S BY <1>5, <1>6, SetInduction
<1>8. Holds(n) /\ n \in 0 .. n BY <1>7, Parameters DEF S
<1> QED BY <1>1, <1>2, <1>3, <1>4, <1>8 DEF Holds

\* Vectors of the ciphertexts that a program has.
Entries == [1 .. n -> 0 .. q]

LEMMA DotIsInt == \A a \in [1 .. n -> Int] : \A s \in Secrets : Dot(a, s) \in Int
<1> SUFFICES ASSUME NEW a \in [1 .. n -> Int], NEW s \in Secrets PROVE Dot(a, s) \in Int
  OBVIOUS
<1>1. PICK f \in [0 .. n -> Int] : Dot(a, s) = f[n] BY DotSums
<1> QED BY <1>1, Parameters

LEMMA DotCongruent ==
  ASSUME NEW s \in Secrets,
         NEW a \in [1 .. n -> Int], NEW b \in [1 .. n -> Int], NEW c \in [1 .. n -> Int],
         \A i \in 1 .. n : \E k \in Int : c[i] = a[i] + b[i] + k * q
  PROVE  \E k \in Int : Dot(c, s) = Dot(a, s) + Dot(b, s) + k * q
<1> DEFINE v == [i \in 1 .. n |-> CHOOSE k \in Int : c[i] = a[i] + b[i] + k * q]
<1>1. v \in [1 .. n -> Int] /\ \A i \in 1 .. n : c[i] = a[i] + b[i] + v[i] * q
  OBVIOUS
<1> HIDE DEF v
<1> DEFINE one == 1
<1>2. Combined(one, c, one, a, b, q, v)
  <2>1. \A i \in 1 .. n : one * c[i] = one * a[i] + b[i] + q * v[i] BY <1>1, Parameters
  <2>2. one \in Int /\ q \in Int BY Parameters
  <2> HIDE DEF one
  <2> QED BY <1>1, <2>1, <2>2 DEF Combined
<1>3. one \in Int /\ q \in Int BY Parameters
<1> HIDE DEF one
<1>4. one * Dot(c, s) = one * Dot(a, s) + Dot(b, s) + q * Dot(v, s)
  BY <1>2, DotLinear
<1>5. Dot(a, s) \in Int /\ Dot(b, s) \in Int /\ Dot(c, s) \in Int /\ Dot(v, s) \in Int
  BY <1>1, DotIsInt
<1>6. Dot(c, s) = Dot(a, s) + Dot(b, s) + Dot(v, s) * q
  BY <1>3, <1>4, <1>5 DEF one
<1> QED BY <1>5, <1>6

LEMMA DotZero == \A s \in Secrets : Dot([i \in 1 .. n |-> 0], s) = 0
<1> SUFFICES ASSUME NEW s \in Secrets PROVE Dot([i \in 1 .. n |-> 0], s) = 0
  OBVIOUS
<1> DEFINE z == [i \in 1 .. n |-> 0]
           one == 1
           zero == 0
<1>1. z \in [1 .. n -> Int] /\ Combined(one, z, one, z, z, zero, z)
  BY DEF Combined
<1> HIDE DEF z, one, zero
<1>2. Dot(z, s) \in Int BY <1>1, DotIsInt
<1>3. one * Dot(z, s) = one * Dot(z, s) + Dot(z, s) + zero * Dot(z, s)
  BY <1>1, DotLinear
<1>4. \A x \in Int : one * x = x /\ zero * x = 0 BY DEF one, zero
<1>5. Dot(z, s) = Dot(z, s) + Dot(z, s) + 0 BY <1>2, <1>3, <1>4
<1>6. \A x \in Int : x = x + x + 0 => x = 0 OBVIOUS
<1>7. Dot(z, s) = 0 BY <1>2, <1>5, <1>6, Zenon
<1> QED BY <1>7 DEF z

\* Entries up to q may be added, subtracted and negated; the results are such again.
LEMMA VectorAddDot ==
  ASSUME NEW a \in Entries, NEW c \in Entries, NEW s \in Secrets
  PROVE  /\ VectorAdd(a, c) \in Entries
         /\ \E k \in Int : Dot(VectorAdd(a, c), s) = Dot(a, s) + Dot(c, s) + k * q
<1> DEFINE r == VectorAdd(a, c)
<1>1. ASSUME NEW i \in 1 .. n
      PROVE  r[i] \in 0 .. q /\ \E k \in Int : r[i] = a[i] + c[i] + k * q
  <2>1. a[i] \in 0 .. q /\ c[i] \in 0 .. q BY DEF Entries
  <2>2. r[i] = IF a[i] + c[i] >= q THEN a[i] + c[i] - q ELSE a[i] + c[i]
    BY DEF VectorAdd, ModAddFast
  <2> HIDE DEF r
  <2>3. CASE a[i] + c[i] >= q
    <3>1. r[i] = a[i] + c[i] + (-1) * q /\ -1 \in Int BY <2>1, <2>2, <2>3, Parameters
    <3>2. r[i] \in 0 .. q BY <2>1, <2>2, <2>3, Parameters
    <3> QED BY <3>1, <3>2
  <2>4. CASE ~(a[i] + c[i] >= q)
    <3>1. r[i] = a[i] + c[i] + 0 * q /\ 0 \in Int BY <2>1, <2>2, <2>4, Parameters
    <3>2. r[i] \in 0 .. q BY <2>1, <2>2, <2>4, Parameters
    <3> QED BY <3>1, <3>2
  <2> QED BY <2>3, <2>4
<1>2. r \in Entries BY <1>1 DEF VectorAdd, Entries
<1> HIDE DEF r
<1>3. r \in [1 .. n -> Int] /\ a \in [1 .. n -> Int] /\ c \in [1 .. n -> Int]
  BY <1>2, Parameters DEF Entries
<1>4. \E k \in Int : Dot(r, s) = Dot(a, s) + Dot(c, s) + k * q
  BY <1>1, <1>3, DotCongruent
<1> QED BY <1>2, <1>4 DEF r

LEMMA VectorSubDot ==
  ASSUME NEW a \in Entries, NEW c \in Entries, NEW s \in Secrets
  PROVE  /\ VectorSub(a, c) \in Entries
         /\ \E k \in Int : Dot(VectorSub(a, c), s) = Dot(a, s) - Dot(c, s) + k * q
<1> DEFINE r == VectorSub(a, c)
<1>1. ASSUME NEW i \in 1 .. n
      PROVE  r[i] \in 0 .. q /\ \E k \in Int : a[i] = r[i] + c[i] + k * q
  <2>1. a[i] \in 0 .. q /\ c[i] \in 0 .. q BY DEF Entries
  <2>2. r[i] = IF a[i] >= c[i] THEN a[i] - c[i] ELSE a[i] + (q - c[i])
    BY DEF VectorSub, ModSubFast
  <2> HIDE DEF r
  <2>3. CASE a[i] >= c[i]
    <3>1. a[i] = r[i] + c[i] + 0 * q /\ 0 \in Int BY <2>1, <2>2, <2>3, Parameters
    <3>2. r[i] \in 0 .. q BY <2>1, <2>2, <2>3, Parameters
    <3> QED BY <3>1, <3>2
  <2>4. CASE ~(a[i] >= c[i])
    <3>1. a[i] = r[i] + c[i] + (-1) * q /\ -1 \in Int BY <2>1, <2>2, <2>4, Parameters
    <3>2. r[i] \in 0 .. q BY <2>1, <2>2, <2>4, Parameters
    <3> QED BY <3>1, <3>2
  <2> QED BY <2>3, <2>4
<1>2. r \in Entries BY <1>1 DEF VectorSub, Entries
<1> HIDE DEF r
<1>3. r \in [1 .. n -> Int] /\ a \in [1 .. n -> Int] /\ c \in [1 .. n -> Int]
  BY <1>2, Parameters DEF Entries
<1>4. PICK k \in Int : Dot(a, s) = Dot(r, s) + Dot(c, s) + k * q
  BY <1>1, <1>3, DotCongruent
<1>5. Dot(a, s) \in Int /\ Dot(r, s) \in Int /\ Dot(c, s) \in Int BY <1>3, DotIsInt
<1>6. Dot(r, s) = Dot(a, s) - Dot(c, s) + (-k) * q /\ -k \in Int
  BY <1>4, <1>5, Parameters
<1> QED BY <1>2, <1>6 DEF r

LEMMA NegatedDot ==
  ASSUME NEW a \in Entries, NEW s \in Secrets
  PROVE  /\ [i \in 1 .. n |-> q - a[i]] \in Entries
         /\ \E k \in Int : Dot([i \in 1 .. n |-> q - a[i]], s) = k * q - Dot(a, s)
<1> DEFINE r == [i \in 1 .. n |-> q - a[i]]
           z == [i \in 1 .. n |-> 0]
<1>1. ASSUME NEW i \in 1 .. n
      PROVE  r[i] \in 0 .. q /\ \E k \in Int : z[i] = r[i] + a[i] + k * q
  <2>1. a[i] \in 0 .. q /\ r[i] = q - a[i] /\ z[i] = 0 BY DEF Entries
  <2> HIDE DEF r, z
  <2>2. z[i] = r[i] + a[i] + (-1) * q /\ -1 \in Int BY <2>1, Parameters
  <2> QED BY <2>1, <2>2, Parameters
<1>2. r \in Entries BY <1>1 DEF Entries
<1>3. z \in [1 .. n -> Int] OBVIOUS
<1>4. Dot(z, s) = 0 BY DotZero
<1> HIDE DEF r, z
<1>5. r \in [1 .. n -> Int] /\ a \in [1 .. n -> Int]
  BY <1>2, Parameters DEF Entries
<1>6. PICK k \in Int : Dot(z, s) = Dot(r, s) + Dot(a, s) + k * q
  BY <1>1, <1>3, <1>5, DotCongruent
<1>7. Dot(a, s) \in Int /\ Dot(r, s) \in Int BY <1>5, DotIsInt
<1> DEFINE x == Dot(r, s)
           y == Dot(a, s)
           w == k * q
<1>8. q \in Int /\ -k \in Int /\ w \in Int /\ (-k) * q = -w BY Parameters
<1>9. x \in Int /\ y \in Int /\ 0 = x + y + w BY <1>4, <1>6, <1>7
<1> HIDE DEF x, y, w
<1>10. x = -w - y BY <1>8, <1>9
<1>11. x = (-k) * q - y BY <1>8, <1>10
<1> QED BY <1>2, <1>8, <1>11 DEF r, x, y

-----------------------------------------------------------------------------
(***************************************************************************)
(* Numbers modulo q, in units h of q / 8.                                  *)
(***************************************************************************)
h == q \div 8

\* The remainder of what is near 0.
LEMMA Remainder ==
  ASSUME NEW m \in Nat, m > 0, NEW x \in 0 .. m - 1, NEW y \in Int, NEW k \in Int,
         x = y + k * m, -m < y, y < m
  PROVE  x = y \/ x = y + m
<1>1. CASE k >= 2
  <2>1. k * m >= 2 * m BY <1>1
  <2> QED BY <2>1
<1>2. CASE k < 0
  <2>1. k * m <= -m BY <1>2
  <2> QED BY <2>1
<1>3. CASE k = 0 BY <1>3
<1>4. CASE k = 1 BY <1>4
<1> QED BY <1>1, <1>2, <1>3, <1>4

\* Two numbers below m that differ by a multiple of m are equal.
LEMMA SameRemainder ==
  ASSUME NEW m \in Nat, m > 0, NEW x \in 0 .. m - 1, NEW y \in 0 .. m - 1, NEW k \in Int,
         x = y + k * m
  PROVE  x = y
<1>1. -m < y /\ y < m OBVIOUS
<1>2. x = y \/ x = y + m BY <1>1, Remainder
<1> QED BY <1>2

LEMMA ModIs ==
  ASSUME NEW m \in Nat, m > 0, NEW x \in Int
  PROVE  x % m \in 0 .. m - 1 /\ \E k \in Int : x % m = x + k * m
<1>1. x = m * (x \div m) + (x % m) /\ x % m \in 0 .. m - 1 /\ x \div m \in Int OBVIOUS
<1>2. x % m = x + (-(x \div m)) * m /\ -(x \div m) \in Int
  <2> DEFINE d == x \div m
             r == x % m
  <2>1. x = m * d + r /\ d \in Int /\ r \in Int BY <1>1
  <2> HIDE DEF d, r
  <2>2. r = x + (-d) * m /\ -d \in Int BY <2>1
  <2> QED BY <2>2 DEF d, r
<1> QED BY <1>1, <1>2

\* The half of the circle that a gate maps to Q / 8 and the other one.
Upper(gate) ==
  CASE gate \in {"OR", "XOR_FAST"} -> h .. 5 * h - 1
    [] gate = "AND" -> 3 * h .. 7 * h - 1
    [] gate \in {"NOR", "XNOR_FAST"} -> (0 .. q - 1) \ (h .. 5 * h - 1)
    [] gate = "NAND" -> (0 .. q - 1) \ (3 * h .. 7 * h - 1)

LEMMA GateTable ==
  ASSUME NEW gate \in Gates, NEW x \in 0 .. q - 1
  PROVE  GateValue(gate, x) = IF x \in Upper(gate) THEN Q8 ELSE Q - Q8
<1> DEFINE q1 == GateConst(gate)
           q2 == ModAddFast(q1, q \div 2, q)
<1>1. h \in Nat /\ h >= 4 /\ q = 8 * h /\ q \div 2 = 4 * h /\ x \in Int
  BY Parameters DEF h
<1>2. GateValue(gate, x) = IF q1 < q2 THEN IF x >= q1 /\ x < q2 THEN Q - Q8 ELSE Q8
                           ELSE IF x >= q2 /\ x < q1 THEN Q8 ELSE Q - Q8
  BY DEF GateValue
<1>3. CASE gate \in {"OR", "XOR_FAST"}
  <2>1. q1 = 5 * h BY <1>1, <1>3 DEF GateConst, h
  <2> HIDE DEF q1
  <2>2. q2 = h BY <1>1, <2>1 DEF ModAddFast
  <2> HIDE DEF q2
  <2>3. Upper(gate) = h .. 5 * h - 1 BY <1>3 DEF Upper
  <2> QED BY <1>1, <1>2, <2>1, <2>2, <2>3
<1>4. CASE gate = "AND"
  <2>1. q1 = 7 * h BY <1>1, <1>4 DEF GateConst, h
  <2> HIDE DEF q1
  <2>2. q2 = 3 * h BY <1>1, <2>1 DEF ModAddFast
  <2> HIDE DEF q2
  <2>3. Upper(gate) = 3 * h .. 7 * h - 1 BY <1>4 DEF Upper
  <2> QED BY <1>1, <1>2, <2>1, <2>2, <2>3
<1>5. CASE gate \in {"NOR", "XNOR_FAST"}
  <2>1. q1 = h BY <1>1, <1>5 DEF GateConst, h
  <2> HIDE DEF q1
  <2>2. q2 = 5 * h BY <1>1, <2>1 DEF ModAddFast
  <2> HIDE DEF q2
  <2>3. Upper(gate) = (0 .. q - 1) \ (h .. 5 * h - 1) BY <1>5 DEF Upper
  <2> QED BY <1>1, <1>2, <2>1, <2>2, <2>3
<1>6. CASE gate = "NAND"
  <2>1. q1 = 3 * h BY <1>1, <1>6 DEF GateConst, h
  <2> HIDE DEF q1
  <2>2. q2 = 7 * h BY <1>1, <2>1 DEF ModAddFast
  <2> HIDE DEF q2
  <2>3. Upper(gate) = (0 .. q - 1) \ (3 * h .. 7 * h - 1) BY <1>6 DEF Upper
  <2> QED BY <1>1, <1>2, <2>1, <2>2, <2>3
<1> QED BY <1>3, <1>4, <1>5, <1>6 DEF Gates

LEMMA InUpper ==
  ASSUME NEW x \in 0 .. q - 1
  PROVE  /\ x \in Upper("OR") <=> h <= x /\ x < 5 * h
         /\ x \in Upper("XOR_FAST") <=> h <= x /\ x < 5 * h
         /\ x \in Upper("AND") <=> 3 * h <= x /\ x < 7 * h
         /\ x \in Upper("NOR") <=> x < h \/ 5 * h <= x
         /\ x \in Upper("XNOR_FAST") <=> x < h \/ 5 * h <= x
         /\ x \in Upper("NAND") <=> x < 3 * h \/ 7 * h <= x
<1>1. h \in Nat /\ q = 8 * h /\ x \in Int BY Parameters DEF h
<1>2. Upper("OR") = h .. 5 * h - 1 /\ Upper("XOR_FAST") = h .. 5 * h - 1 BY DEF Upper
<1>3. Upper("AND") = 3 * h .. 7 * h - 1 BY DEF Upper
<1>4. /\ Upper("NOR") = (0 .. q - 1) \ (h .. 5 * h - 1)
      /\ Upper("XNOR_FAST") = (0 .. q - 1) \ (h .. 5 * h - 1)
  BY DEF Upper
<1>5. Upper("NAND") = (0 .. q - 1) \ (3 * h .. 7 * h - 1) BY DEF Upper
<1>6. /\ x \in h .. 5 * h - 1 <=> h <= x /\ x < 5 * h
      /\ x \in 3 * h .. 7 * h - 1 <=> 3 * h <= x /\ x < 7 * h
  BY <1>1
<1>7. /\ x \in Upper("OR") <=> h <= x /\ x < 5 * h
      /\ x \in Upper("XOR_FAST") <=> h <= x /\ x < 5 * h
      /\ x \in Upper("AND") <=> 3 * h <= x /\ x < 7 * h
  BY <1>2, <1>3, <1>6
<1>8. /\ x \in Upper("NOR") <=> x < h \/ 5 * h <= x
      /\ x \in Upper("XNOR_FAST") <=> x < h \/ 5 * h <= x
      /\ x \in Upper("NAND") <=> x < 3 * h \/ 7 * h <= x
  <2>1. /\ x \in Upper("NOR") <=> ~(h <= x /\ x < 5 * h)
        /\ x \in Upper("XNOR_FAST") <=> ~(h <= x /\ x < 5 * h)
        /\ x \in Upper("NAND") <=> ~(3 * h <= x /\ x < 7 * h)
    BY <1>4, <1>5, <1>6
  <2> QED BY <1>1, <2>1
<1> QED BY <1>7, <1>8

\* Half a turn changes the half.
LEMMA UpperTurns ==
  ASSUME NEW gate \in Gates, NEW x \in 0 .. q - 1
  PROVE  /\ (x + 4 * h) % q \in 0 .. q - 1
         /\ x \in Upper(gate) <=> (x + 4 * h) % q \notin Upper(gate)
<1>1. h \in Nat /\ h >= 4 /\ q = 8 * h /\ x \in Int
  BY Parameters DEF h
<1> DEFINE y == (x + 4 * h) % q
<1>2. y \in 0 .. q - 1 /\ (x < 4 * h => y = x + 4 * h) /\ (x >= 4 * h => y = x - 4 * h)
  <2>1. PICK k \in Int : y \in 0 .. q - 1 /\ y = (x + 4 * h) + k * q
    BY <1>1, ModIs
  <2> HIDE DEF y
  <2>2. CASE x < 4 * h
    <3>1. x + 4 * h \in 0 .. q - 1 BY <1>1, <2>2
    <3>2. y = x + 4 * h BY <1>1, <2>1, <3>1, SameRemainder
    <3> QED BY <1>1, <2>1, <2>2, <3>2
  <2>3. CASE x >= 4 * h
    <3>1. x - 4 * h \in 0 .. q - 1 /\ k + 1 \in Int /\ y = (x - 4 * h) + (k + 1) * q
      BY <1>1, <2>1, <2>3
    <3>2. y = x - 4 * h BY <1>1, <2>1, <3>1, SameRemainder
    <3> QED BY <1>1, <2>1, <2>3, <3>2
  <2> QED BY <1>1, <2>2, <2>3
<1> HIDE DEF y
<1>3. x \in Upper(gate) <=> y \notin Upper(gate)
  <2>1. \A g \in {"OR", "XOR_FAST", "NOR", "XNOR_FAST"} : x \in Upper(g) <=> y \notin Upper(g)
    <3>1. h <= x /\ x < 5 * h <=> ~(h <= y /\ y < 5 * h) BY <1>1, <1>2
    <3>2. ~(h <= x /\ x < 5 * h) <=> (x < h \/ 5 * h <= x) BY <1>1
    <3>3. ~(h <= y /\ y < 5 * h) <=> (y < h \/ 5 * h <= y) BY <1>1, <1>2
    <3> QED BY <1>2, <3>1, <3>2, <3>3, InUpper
  <2>2. \A g \in {"AND", "NAND"} : x \in Upper(g) <=> y \notin Upper(g)
    <3>1. 3 * h <= x /\ x < 7 * h <=> ~(3 * h <= y /\ y < 7 * h) BY <1>1, <1>2
    <3>2. ~(3 * h <= x /\ x < 7 * h) <=> (x < 3 * h \/ 7 * h <= x) BY <1>1
    <3>3. ~(3 * h <= y /\ y < 7 * h) <=> (y < 3 * h \/ 7 * h <= y) BY <1>1, <1>2
    <3> QED BY <1>2, <3>1, <3>2, <3>3, InUpper
  <2> QED BY <2>1, <2>2 DEF Gates
<1> QED BY <1>2, <1>3 DEF y

-----------------------------------------------------------------------------
(***************************************************************************)
(* From modulus Q back to q.                                               *)
(***************************************************************************)

LEMMA Rounded ==
  ASSUME NEW v \in 0 .. Q - 1
  PROVE  /\ RoundqQ(v) \in 0 .. q - 1
         /\ RoundedBy(v) \in Int /\ -Q < RoundedBy(v) /\ RoundedBy(v) <= Q
         /\ \E k \in Int : (2 * Q) * RoundqQ(v) = (2 * q) * v + RoundedBy(v) + (2 * Q * q) * k
<1> DEFINE X == 2 * v * q + Q
           D == 2 * Q
           d == X \div D
           r == X % D
<1>1. /\ q \in Nat /\ Q \in Nat /\ q > 0 /\ Q > 0 /\ D \in Nat /\ D > 0 /\ v \in Int
      /\ v * q \in Int /\ X \in Int /\ X = 2 * (v * q) + Q
  BY Parameters
<1>2. d \in Int /\ r \in 0 .. D - 1 /\ X = D * d + r
  <2> HIDE DEF X, D
  <2> QED BY <1>1
<1>3. RoundqQ(v) = d % q /\ RoundedBy(v) = Q - r
  BY DEF RoundqQ, RoundedBy
<1> HIDE DEF X, d, r
<1>4. PICK k \in Int : d % q \in 0 .. q - 1 /\ d % q = d + k * q
  BY <1>1, <1>2, ModIs
<1>5. D * (d + k * q) = D * d + (D * q) * k
  <2> HIDE DEF D
  <2> QED BY <1>1, <1>2, <1>4
<1>6. D * (d % q) = 2 * (v * q) + (Q - r) + (D * q) * k
  <2>1. D * d \in Int /\ (D * q) * k \in Int BY <1>1, <1>2, <1>4
  <2>2. D * (d % q) = D * d + (D * q) * k BY <1>4, <1>5
  <2>3. D * d = 2 * (v * q) + Q - r BY <1>1, <1>2, <2>1
  <2> HIDE DEF D
  <2> QED BY <1>1, <1>2, <2>1, <2>2, <2>3
<1>7. (2 * Q) * RoundqQ(v) = (2 * q) * v + RoundedBy(v) + (2 * Q * q) * k
  <2>1. 2 * (v * q) = (2 * q) * v BY <1>1
  <2> QED BY <1>3, <1>6, <2>1
<1>8. r \in Int /\ 0 <= r /\ r < 2 * Q BY <1>1, <1>2
<1>9. RoundedBy(v) \in Int /\ -Q < RoundedBy(v) /\ RoundedBy(v) <= Q
  BY <1>1, <1>3, <1>8
<1> QED BY <1>3, <1>4, <1>7, <1>9

\* Rounding the entries of a vector rounds its inner product by RoundedBy's.
LEMMA SwitchedDot ==
  ASSUME NEW u \in [1 .. n -> 0 .. Q - 1], NEW s \in Secrets
  PROVE  LET w == [i \in 1 .. n |-> RoundqQ(u[i])]
             r == [i \in 1 .. n |-> RoundedBy(u[i])]
         IN  /\ w \in Entries
             /\ Dot(u, s) \in Int /\ Dot(w, s) \in Int /\ Dot(r, s) \in Int
             /\ \E k \in Int :
                  (2 * Q) * Dot(w, s) = (2 * q) * Dot(u, s) + Dot(r, s) + (2 * Q * q) * k
<1> DEFINE w == [i \in 1 .. n |-> RoundqQ(u[i])]
           r == [i \in 1 .. n |-> RoundedBy(u[i])]
           A == 2 * Q
           B == 2 * q
           M == 2 * Q * q
           v == [i \in 1 .. n |-> CHOOSE k \in Int : A * w[i] = B * u[i] + r[i] + M * k]
<1>1. ASSUME NEW i \in 1 .. n
      PROVE  /\ w[i] \in 0 .. q - 1 /\ r[i] \in Int
             /\ \E k \in Int : A * w[i] = B * u[i] + r[i] + M * k
  <2>1. u[i] \in 0 .. Q - 1 /\ w[i] = RoundqQ(u[i]) /\ r[i] = RoundedBy(u[i]) OBVIOUS
  <2> HIDE DEF w, r
  <2> QED BY <2>1, Rounded
<1>2. w \in [1 .. n -> 0 .. q - 1] /\ r \in [1 .. n -> Int] BY <1>1
<1>3. v \in [1 .. n -> Int] /\ \A i \in 1 .. n : A * w[i] = B * u[i] + r[i] + M * v[i]
  <2> HIDE DEF w, r, A, B, M
  <2> QED BY <1>1
<1>4. A \in Int /\ B \in Int /\ M \in Int BY Parameters
<1> HIDE DEF w, r, A, B, M, v
<1>5. w \in [1 .. n -> Int] /\ u \in [1 .. n -> Int] /\ w \in Entries
  BY <1>2, Parameters DEF Entries
<1>6. Combined(A, w, B, u, r, M, v) BY <1>2, <1>3, <1>4, <1>5 DEF Combined
<1>7. /\ Dot(u, s) \in Int /\ Dot(w, s) \in Int /\ Dot(r, s) \in Int /\ Dot(v, s) \in Int
      /\ A * Dot(w, s) = B * Dot(u, s) + Dot(r, s) + M * Dot(v, s)
  BY <1>6, DotLinear
<1> QED BY <1>5, <1>7 DEF w, r, A, B, M

\* The phase of a bit, without its error.
Level(bit) == IF bit = 1 THEN 2 * h ELSE 0

\* What the Fast methods expect, of a vector up to q itself.
Reduced(c) == c.a \in Entries /\ c.b \in 0 .. q - 1

\* A ciphertext of the bit under s whose error is below q / 32.
Carries(c, s, bit) ==
  /\ Reduced(c)
  /\ \E noise, k \in Int : /\ 32 * noise < q /\ -32 * noise < q
                           /\ c.b = Dot(c.a, s) + Level(bit) + noise + k * q

\* Twice Q8 is scaled down to a quarter of q, and at most 4 / (2 * Q) of q more.
LEMMA EighthFits ==
  /\ Q8 \in Nat /\ 0 < Q8 /\ 2 * Q8 < Q
  /\ 2 * (q * (2 * Q8)) - 2 * (Q * (2 * h)) \in 0 .. 4 * q
<1>1. /\ h \in Nat /\ h >= 4 /\ q = 8 * h /\ Q \in Nat /\ Q > 32
  BY Parameters DEF h
<1> DEFINE d == Q \div 8
           r == Q % 8
<1>2. d \in Nat /\ r \in 0 .. 7 /\ Q = 8 * d + r /\ Q8 = d + 1 /\ d >= 4
  BY <1>1 DEF Q8
<1> HIDE DEF d, r
<1>3. 2 * (q * (2 * Q8)) = 32 * (h * d) + 32 * h
  BY <1>1, <1>2
<1>4. 2 * (Q * (2 * h)) = 32 * (h * d) + 4 * (h * r)
  BY <1>1, <1>2
<1>5. h * r \in 0 .. 7 * h
  <2>1. r = 0 \/ r = 1 \/ r = 2 \/ r = 3 \/ r = 4 \/ r = 5 \/ r = 6 \/ r = 7 BY <1>2
  <2> QED BY <1>1, <2>1
<1>6. 2 * (q * (2 * Q8)) - 2 * (Q * (2 * h)) = 32 * h - 4 * (h * r)
  <2>1. h * d \in Int BY <1>1, <1>2
  <2> QED BY <1>1, <1>3, <1>4, <1>5, <2>1
<1> QED BY <1>1, <1>2, <1>5, <1>6

\* A common positive factor.
LEMMA Cancel ==
  ASSUME NEW x \in Int, NEW y \in Int, NEW m \in Nat, m > 0, x * m < y * m
  PROVE  x < y
<1> SUFFICES ASSUME x >= y PROVE FALSE
  OBVIOUS
<1>1. x - y >= 0 /\ (x - y) * m >= 0 OBVIOUS
<1>2. (x - y) * m = x * m - y * m OBVIOUS
<1>3. x * m \in Int /\ y * m \in Int OBVIOUS
<1> QED BY <1>1, <1>2, <1>3

(***************************************************************************)
(* What is left of the errors: 2 * Q times the new one is 2 * q times the  *)
(* error e of the keys, with what the roundings of the vector (D), of the  *)
(* other part (r) and of Q / 8 add.                                        *)
(***************************************************************************)
Switched(bit, e, D, dw, du, kw, b, r, kb, bQ, kQ) ==
  /\ bit \in Bits /\ e \in Int /\ D \in Int /\ dw \in Int /\ du \in Int /\ kw \in Int
  /\ b \in Int /\ r \in Int /\ kb \in Int /\ bQ \in Int /\ kQ \in Int
  /\ (2 * Q) * b = (2 * q) * bQ + r + (2 * Q * q) * kb
  /\ bQ = du + (IF bit = 1 THEN 2 * Q8 ELSE 0) + e + kQ * Q
  /\ (2 * Q) * dw = (2 * q) * du + D + (2 * Q * q) * kw
  /\ -Q < r /\ r <= Q
  /\ 16 * ((2 * q * e - D) + Q + 4 * q) < q * Q /\ 16 * (Q - (2 * q * e - D)) < q * Q

LEMMA NoiseShrinks ==
  ASSUME NEW bit, NEW e, NEW D, NEW dw, NEW du, NEW kw, NEW b, NEW r, NEW kb, NEW bQ, NEW kQ,
         Switched(bit, e, D, dw, du, kw, b, r, kb, bQ, kQ)
  PROVE  \E noise, k \in Int : /\ 32 * noise < q /\ -32 * noise < q
                               /\ b = dw + Level(bit) + noise + k * q
<1>0. /\ bit \in Bits /\ e \in Int /\ D \in Int /\ dw \in Int /\ du \in Int /\ kw \in Int
      /\ b \in Int /\ r \in Int /\ kb \in Int /\ bQ \in Int /\ kQ \in Int
      /\ (2 * Q) * b = (2 * q) * bQ + r + (2 * Q * q) * kb
      /\ bQ = du + (IF bit = 1 THEN 2 * Q8 ELSE 0) + e + kQ * Q
      /\ (2 * Q) * dw = (2 * q) * du + D + (2 * Q * q) * kw
      /\ -Q < r /\ r <= Q
      /\ 16 * ((2 * q * e - D) + Q + 4 * q) < q * Q /\ 16 * (Q - (2 * q * e - D)) < q * Q
  BY DEF Switched
<1> DEFINE P == IF bit = 1 THEN 2 * Q8 ELSE 0
           L == Level(bit)
           W == q * Q
           k == kb - kw + kQ
           noise == b - dw - L - k * q
<1>1. /\ q \in Nat /\ Q \in Nat /\ q > 0 /\ Q > 0 /\ h \in Nat /\ P \in Int /\ L \in Int
      /\ W \in Int /\ k \in Int /\ noise \in Int
  BY <1>0, Parameters, EighthFits DEF h, Level
<1>2. 2 * (q * P) - 2 * (Q * L) \in 0 .. 4 * q
  <2>1. CASE bit = 1
    <3>1. P = 2 * Q8 /\ L = 2 * h BY <1>0, <2>1 DEF Level
    <3> QED BY <1>0, <3>1, EighthFits
  <2>2. CASE bit # 1
    <3>1. P = 0 /\ L = 0 BY <1>0, <2>2 DEF Level
    <3>2. q * 0 = 0 /\ Q * 0 = 0 BY <1>0, <1>1
    <3> HIDE DEF P, L
    <3> QED BY <1>0, <1>1, <3>1, <3>2
  <2> QED BY <1>0, <2>1, <2>2
<1>3. bQ = du + P + e + kQ * Q BY <1>0
<1>4. b = dw + L + noise + k * q
  <2>1. k * q \in Int BY <1>0, <1>1
  <2> HIDE DEF k, L
  <2> QED BY <1>0, <1>1, <2>1
<1> HIDE DEF P, L
<1>5. 2 * (Q * b) = 2 * (q * bQ) + r + 2 * (W * kb)
  BY <1>0, <1>1
<1>6. 2 * (Q * dw) = 2 * (q * du) + D + 2 * (W * kw)
  BY <1>0, <1>1
<1>7. q * bQ = q * du + q * P + q * e + W * kQ
  <2> DEFINE z == kQ * Q
  <2>1. z \in Int /\ bQ = du + P + e + z BY <1>0, <1>1, <1>3
  <2>2. q * z = W * kQ BY <1>0, <1>1
  <2> HIDE DEF z, W
  <2>3. q * (du + P) = q * du + q * P BY <1>0, <1>1
  <2>4. q * ((du + P) + e) = q * (du + P) + q * e
    <3>1. \A x \in Int : q * (x + e) = q * x + q * e BY <1>0, <1>1
    <3>2. du + P \in Int BY <1>0, <1>1
    <3> QED BY <1>0, <3>1, <3>2, Zenon
  <2>5. q * (((du + P) + e) + z) = q * ((du + P) + e) + q * z
    <3>1. \A x \in Int : q * (x + z) = q * x + q * z BY <1>0, <1>1, <2>1
    <3>2. (du + P) + e \in Int BY <1>0, <1>1
    <3> QED BY <1>0, <3>1, <3>2, Zenon
  <2> QED BY <1>0, <2>1, <2>2, <2>3, <2>4, <2>5, Zenon
<1>8. W * k = W * kb - W * kw + W * kQ
  BY <1>0, <1>1
<1>9. Q * b = Q * dw + Q * L + Q * noise + W * k
  <2> HIDE DEF k, noise
  <2> QED BY <1>0, <1>1, <1>4
<1>10. /\ Q * b \in Int /\ Q * dw \in Int /\ Q * L \in Int /\ Q * noise \in Int /\ W * k \in Int
       /\ q * bQ \in Int /\ q * du \in Int /\ q * P \in Int /\ q * e \in Int
       /\ W * kb \in Int /\ W * kw \in Int /\ W * kQ \in Int
  BY <1>0, <1>1
<1>11. 2 * q * e = 2 * (q * e) BY <1>0, <1>1
<1> HIDE DEF k, noise, W
<1>12. 2 * (Q * noise) = (2 * (q * P) - 2 * (Q * L)) + (2 * (q * e) - D) + r
  <2> DEFINE x1 == Q * b
             x2 == Q * dw
             x3 == Q * L
             x4 == Q * noise
             x5 == q * bQ
             x6 == q * du
             x7 == q * P
             x8 == q * e
             y0 == W * k
             y1 == W * kb
             y2 == W * kw
             y3 == W * kQ
  <2>1. /\ x1 \in Int /\ x2 \in Int /\ x3 \in Int /\ x4 \in Int /\ x5 \in Int /\ x6 \in Int
        /\ x7 \in Int /\ x8 \in Int /\ y0 \in Int /\ y1 \in Int /\ y2 \in Int /\ y3 \in Int
    BY <1>0, <1>10
  <2>2. /\ 2 * x1 = 2 * x5 + r + 2 * y1 /\ 2 * x2 = 2 * x6 + D + 2 * y2
        /\ x5 = x6 + x7 + x8 + y3 /\ y0 = y1 - y2 + y3 /\ x1 = x2 + x3 + x4 + y0
    BY <1>0, <1>5, <1>6, <1>7, <1>8, <1>9
  <2> HIDE DEF x1, x2, x3, x4, x5, x6, x7, x8, y0, y1, y2, y3
  <2>3. 2 * x4 = (2 * x7 - 2 * x3) + (2 * x8 - D) + r
    BY <1>0, <2>1, <2>2
  <2> QED BY <1>0, <2>3 DEF x3, x4, x7, x8
<1>13. 32 * (Q * noise) < W /\ -32 * (Q * noise) < W
  <2>1. 16 * ((2 * (q * e) - D) + Q + 4 * q) < W /\ 16 * (Q - (2 * (q * e) - D)) < W
    BY <1>0, <1>11 DEF W
  <2> QED BY <1>0, <1>1, <1>2, <1>10, <1>12, <2>1
<1>14. 32 * noise < q /\ -32 * noise < q
  <2>1. (32 * noise) * Q = 32 * (Q * noise) /\ (-32 * noise) * Q = -32 * (Q * noise) /\ q * Q = W
    BY <1>0, <1>1 DEF W
  <2>2. 32 * noise \in Int /\ -32 * noise \in Int BY <1>0, <1>1
  <2> QED BY <1>0, <1>1, <1>13, <2>1, <2>2, Cancel
<1> QED BY <1>0, <1>1, <1>4, <1>14 DEF L

-----------------------------------------------------------------------------
(***************************************************************************)
(* Polynomials modulo X^N + 1 and Q.                                       *)
(***************************************************************************)
Polynomials == [0 .. N - 1 -> 0 .. Q - 1]

\* p's coefficients continued to all integers: N further on, the sign changes.
Ext(p, j) ==
  LET m == j % (2 * N) IN IF m < N THEN p[m] ELSE (-p[m - N]) % Q

\* The minus sign modulo Q.
LEMMA Opposite ==
  /\ \A x \in 0 .. Q - 1 : (-x) % Q \in 0 .. Q - 1 /\ (-((-x) % Q)) % Q = x
  /\ \A x \in 1 .. Q - 1 : (-x) % Q = Q - x
<1>1. Q \in Nat /\ Q > 0 BY Parameters
<1>2. ASSUME NEW x \in 1 .. Q - 1 PROVE (-x) % Q = Q - x
  <2>1. PICK k \in Int : (-x) % Q \in 0 .. Q - 1 /\ (-x) % Q = -x + k * Q
    <3>1. -x \in Int OBVIOUS
    <3> QED BY <1>1, <3>1, ModIs
  <2>2. Q - x \in 0 .. Q - 1 /\ (-x) % Q = (Q - x) + (k - 1) * Q /\ k - 1 \in Int
    BY <1>1, <2>1
  <2> DEFINE y == (-x) % Q
             z == Q - x
             j == k - 1
  <2>3. y \in 0 .. Q - 1 /\ z \in 0 .. Q - 1 /\ j \in Int /\ y = z + j * Q BY <2>1, <2>2
  <2> HIDE DEF y, z, j
  <2>4. y = z BY <1>1, <2>3, SameRemainder
  <2> QED BY <2>4 DEF y, z
<1>3. (-0) % Q = 0 BY <1>1
<1>4. ASSUME NEW x \in 0 .. Q - 1
      PROVE  (-x) % Q \in 0 .. Q - 1 /\ (-((-x) % Q)) % Q = x
  <2>1. CASE x = 0 BY <1>1, <1>3, <2>1
  <2>2. CASE x # 0
    <3>1. x \in 1 .. Q - 1 /\ Q - x \in 1 .. Q - 1 /\ Q - (Q - x) = x BY <1>1, <2>2
    <3>2. (-x) % Q = Q - x BY <1>2, <3>1
    <3>3. (-(Q - x)) % Q = Q - (Q - x) BY <1>2, <3>1
    <3> QED BY <1>1, <3>1, <3>2, <3>3
  <2> QED BY <2>1, <2>2
<1> QED BY <1>2, <1>4

LEMMA ExtIsCoefficient ==
  ASSUME NEW p \in Polynomials, NEW j \in Int
  PROVE  Ext(p, j) \in 0 .. Q - 1 /\ (j \in 0 .. N - 1 => Ext(p, j) = p[j])
<1> DEFINE m == j % (2 * N)
<1>1. N \in Nat /\ N > 0 /\ 2 * N \in Nat /\ 2 * N > 0 BY RingAssumption
<1>2. m \in 0 .. 2 * N - 1 /\ \E k \in Int : m = j + k * (2 * N)
  BY <1>1, ModIs
<1>3. Ext(p, j) = IF m < N THEN p[m] ELSE (-p[m - N]) % Q BY DEF Ext
<1> HIDE DEF m
<1>4. CASE m < N
  <2>1. m \in 0 .. N - 1 BY <1>1, <1>2, <1>4
  <2>2. Ext(p, j) \in 0 .. Q - 1 BY <1>3, <1>4, <2>1 DEF Polynomials
  <2>3. j \in 0 .. N - 1 => m = j
    <3> SUFFICES ASSUME j \in 0 .. N - 1 PROVE m = j
      OBVIOUS
    <3>1. j \in 0 .. 2 * N - 1 BY <1>1
    <3> QED BY <1>1, <1>2, <3>1, SameRemainder
  <2> QED BY <1>3, <1>4, <2>2, <2>3
<1>5. CASE ~(m < N)
  <2>1. m - N \in 0 .. N - 1 BY <1>1, <1>2, <1>5
  <2>2. Ext(p, j) \in 0 .. Q - 1 BY <1>3, <1>5, <2>1, Opposite DEF Polynomials
  <2>3. j \notin 0 .. N - 1
    <3> SUFFICES ASSUME j \in 0 .. N - 1 PROVE FALSE
      OBVIOUS
    <3>1. j \in 0 .. 2 * N - 1 BY <1>1
    <3>2. m = j BY <1>1, <1>2, <3>1, SameRemainder
    <3> QED BY <1>1, <1>5, <3>2
  <2> QED BY <2>2, <2>3
<1> QED BY <1>4, <1>5

LEMMA SameMod ==
  ASSUME NEW m \in Nat, m > 0, NEW x \in Int, NEW y \in Int, NEW k \in Int, x = y + k * m
  PROVE  x % m = y % m
<1>1. PICK i \in Int : x % m \in 0 .. m - 1 /\ x % m = x + i * m BY ModIs
<1>2. PICK j \in Int : y % m \in 0 .. m - 1 /\ y % m = y + j * m BY ModIs
<1> DEFINE u == x % m
           v == y % m
           d == i + k - j
<1>3. u \in 0 .. m - 1 /\ v \in 0 .. m - 1 /\ u = x + i * m /\ v = y + j * m BY <1>1, <1>2
<1> HIDE DEF u, v
<1>4. d * m = i * m + k * m - j * m /\ d \in Int OBVIOUS
<1>5. i * m \in Int /\ k * m \in Int /\ j * m \in Int OBVIOUS
<1> HIDE DEF d
<1>6. u = v + d * m BY <1>3, <1>4, <1>5
<1>7. u = v BY <1>3, <1>4, <1>6, SameRemainder
<1> QED BY <1>7 DEF u, v

LEMMA ExtTurns ==
  ASSUME NEW p, NEW i \in Int, NEW j \in Int, NEW k \in Int, i = j + k * (2 * N)
  PROVE  Ext(p, i) = Ext(p, j)
<1>1. 2 * N \in Nat /\ 2 * N > 0 BY RingAssumption
<1>2. i % (2 * N) = j % (2 * N) BY <1>1, SameMod
<1> QED BY <1>2 DEF Ext

LEMMA ExtHalfTurn ==
  ASSUME NEW p \in Polynomials, NEW j \in Int
  PROVE  Ext(p, j + N) = (-Ext(p, j)) % Q
<1> DEFINE m == j % (2 * N)
           w == (j + N) % (2 * N)
<1>1. N \in Nat /\ N > 0 /\ 2 * N \in Nat /\ 2 * N > 0 /\ j + N \in Int BY RingAssumption
<1>2. PICK k \in Int : m \in 0 .. 2 * N - 1 /\ m = j + k * (2 * N) BY <1>1, ModIs
<1>3. PICK l \in Int : w \in 0 .. 2 * N - 1 /\ w = (j + N) + l * (2 * N) BY <1>1, ModIs
<1>4. /\ Ext(p, j) = IF m < N THEN p[m] ELSE (-p[m - N]) % Q
      /\ Ext(p, j + N) = IF w < N THEN p[w] ELSE (-p[w - N]) % Q
  BY DEF Ext
<1> HIDE DEF m, w
<1>5. w = m + N + (l - k) * (2 * N) /\ l - k \in Int
  <2>1. (l - k) * (2 * N) = l * (2 * N) - k * (2 * N) BY <1>1
  <2>2. l * (2 * N) \in Int /\ k * (2 * N) \in Int BY <1>1
  <2> QED BY <1>1, <1>2, <1>3, <2>1, <2>2
<1>6. CASE m < N
  <2>1. m + N \in 0 .. 2 * N - 1 BY <1>1, <1>2, <1>6
  <2>2. w = m + N
    <3> DEFINE d == l - k
               y == m + N
    <3>1. d \in Int /\ y \in 0 .. 2 * N - 1 /\ w = y + d * (2 * N) BY <1>1, <1>5, <2>1
    <3> HIDE DEF d, y
    <3>2. w = y BY <1>1, <1>3, <3>1, SameRemainder
    <3> QED BY <3>2 DEF y
  <2>3. ~(w < N) /\ w - N = m BY <1>1, <1>2, <2>2
  <2> QED BY <1>4, <1>6, <2>3
<1>7. CASE ~(m < N)
  <2>1. m - N \in 0 .. 2 * N - 1 /\ w = (m - N) + (l - k + 1) * (2 * N) /\ l - k + 1 \in Int
    <3>1. (l - k + 1) * (2 * N) = (l - k) * (2 * N) + 2 * N BY <1>1, <1>5
    <3>2. (l - k) * (2 * N) \in Int BY <1>1, <1>5
    <3> QED BY <1>1, <1>2, <1>5, <1>7, <3>1, <3>2
  <2>2. w = m - N BY <1>1, <1>3, <2>1, SameRemainder
  <2>3. w < N /\ m - N \in 0 .. N - 1 BY <1>1, <1>2, <1>7, <2>2
  <2>4. p[m - N] \in 0 .. Q - 1 BY <2>3 DEF Polynomials
  <2> QED BY <1>4, <1>7, <2>2, <2>3, <2>4, Opposite
<1> QED BY <1>6, <1>7

\* The product with a monomial continues to a shift.
LEMMA ShiftIs ==
  ASSUME NEW p \in Polynomials, NEW k \in Int
  PROVE  /\ TimesMonomial(p, k) = [i \in 0 .. N - 1 |-> Ext(p, i - k)]
         /\ TimesMonomial(p, k) \in Polynomials
         /\ \A j \in Int : Ext(TimesMonomial(p, k), j) = Ext(p, j - k)
<1> DEFINE t == TimesMonomial(p, k)
<1>1. t = [i \in 0 .. N - 1 |-> Ext(p, i - k)] BY DEF TimesMonomial, Ext
<1> HIDE DEF t
<1>2. t \in Polynomials
  <2>1. \A i \in 0 .. N - 1 : i - k \in Int BY RingAssumption
  <2>2. \A i \in 0 .. N - 1 : Ext(p, i - k) \in 0 .. Q - 1 BY <2>1, ExtIsCoefficient
  <2> QED BY <1>1, <2>2 DEF Polynomials
<1>3. ASSUME NEW j \in Int PROVE Ext(t, j) = Ext(p, j - k)
  <2> DEFINE m == j % (2 * N)
  <2>1. N \in Nat /\ N > 0 /\ 2 * N \in Nat /\ 2 * N > 0 BY RingAssumption
  <2>2. PICK l \in Int : m \in 0 .. 2 * N - 1 /\ m = j + l * (2 * N) BY <2>1, ModIs
  <2>3. Ext(t, j) = IF m < N THEN t[m] ELSE (-t[m - N]) % Q BY DEF Ext
  <2> HIDE DEF m
  <2>4. Ext(p, m - k) = Ext(p, j - k)
    <3>1. m - k \in Int /\ j - k \in Int /\ m - k = (j - k) + l * (2 * N) BY <2>1, <2>2
    <3> QED BY <3>1, ExtTurns
  <2>5. CASE m < N
    <3>1. m \in 0 .. N - 1 BY <2>1, <2>2, <2>5
    <3> QED BY <1>1, <2>3, <2>4, <2>5, <3>1
  <2>6. CASE ~(m < N)
    <3>1. m - N \in 0 .. N - 1 /\ (m - N) - k \in Int /\ ((m - N) - k) + N = m - k
      BY <2>1, <2>2, <2>6
    <3>2. t[m - N] = Ext(p, (m - N) - k) BY <1>1, <3>1
    <3>3. Ext(p, m - k) = (-Ext(p, (m - N) - k)) % Q BY <3>1, ExtHalfTurn
    <3> QED BY <2>3, <2>4, <2>6, <3>2, <3>3
  <2> QED BY <2>5, <2>6
<1> QED BY <1>1, <1>2, <1>3 DEF t

LEMMA ShiftTwice ==
  ASSUME NEW p \in Polynomials, NEW k \in Int, NEW l \in Int
  PROVE  TimesMonomial(TimesMonomial(p, k), l) = TimesMonomial(p, k + l)
<1> DEFINE t == TimesMonomial(p, k)
<1>1. t \in Polynomials /\ \A j \in Int : Ext(t, j) = Ext(p, j - k) BY ShiftIs
<1> HIDE DEF t
<1>2. TimesMonomial(t, l) = [i \in 0 .. N - 1 |-> Ext(t, i - l)] BY <1>1, ShiftIs
<1>3. TimesMonomial(p, k + l) = [i \in 0 .. N - 1 |-> Ext(p, i - (k + l))]
  <2>1. k + l \in Int OBVIOUS
  <2> QED BY <2>1, ShiftIs
<1>4. \A i \in 0 .. N - 1 : Ext(t, i - l) = Ext(p, i - (k + l))
  <2>1. \A i \in 0 .. N - 1 : i - l \in Int /\ (i - l) - k = i - (k + l) BY RingAssumption
  <2> QED BY <1>1, <2>1
<1>5. TimesMonomial(t, l) = TimesMonomial(p, k + l) BY <1>2, <1>3, <1>4
<1> QED BY <1>5 DEF t

LEMMA ShiftTurns ==
  ASSUME NEW p \in Polynomials, NEW k \in Int, NEW l \in Int, NEW m \in Int,
         k = l + m * (2 * N)
  PROVE  TimesMonomial(p, k) = TimesMonomial(p, l)
<1>1. /\ TimesMonomial(p, k) = [i \in 0 .. N - 1 |-> Ext(p, i - k)]
      /\ TimesMonomial(p, l) = [i \in 0 .. N - 1 |-> Ext(p, i - l)]
  BY ShiftIs
<1>2. \A i \in 0 .. N - 1 : Ext(p, i - k) = Ext(p, i - l)
  <2> SUFFICES ASSUME NEW i \in 0 .. N - 1 PROVE Ext(p, i - k) = Ext(p, i - l)
    OBVIOUS
  <2>1. N \in Nat /\ i - k \in Int /\ i - l \in Int /\ -m \in Int BY RingAssumption
  <2>2. (-m) * (2 * N) = -(m * (2 * N)) /\ m * (2 * N) \in Int BY <2>1
  <2>3. i - k = (i - l) + (-m) * (2 * N) BY <2>1, <2>2
  <2> DEFINE x == i - k
             y == i - l
             z == -m
  <2>4. x \in Int /\ y \in Int /\ z \in Int /\ x = y + z * (2 * N) BY <2>1, <2>3
  <2> HIDE DEF x, y, z
  <2>5. Ext(p, x) = Ext(p, y) BY <2>4, ExtTurns
  <2> QED BY <2>5 DEF x, y
<1> QED BY <1>1, <1>2

LEMMA ShiftByZero == \A p \in Polynomials : TimesMonomial(p, 0) = p
<1> SUFFICES ASSUME NEW p \in Polynomials PROVE TimesMonomial(p, 0) = p
  OBVIOUS
<1>1. TimesMonomial(p, 0) = [i \in 0 .. N - 1 |-> Ext(p, i - 0)] BY ShiftIs
<1>2. \A i \in 0 .. N - 1 : i - 0 = i /\ i \in Int BY RingAssumption
<1>3. \A i \in 0 .. N - 1 : Ext(p, i - 0) = p[i] BY <1>2, ExtIsCoefficient
<1> QED BY <1>1, <1>3 DEF Polynomials

-----------------------------------------------------------------------------
(***************************************************************************)
(* Both accumulators turn the polynomial by the product of an entry of the *)
(* vector and one of the private key.                                      *)
(***************************************************************************)

LEMMA FactorIs ==
  /\ Factor \in Nat /\ Factor > 0 /\ Factor * q = 2 * N /\ Factor * (4 * h) = N
  /\ \A x, k \in Int : Factor * (x + k * q) = Factor * x + k * (2 * N)
<1>1. 2 * N \in Nat /\ 2 * N > 0 /\ q \in Nat /\ q > 0 /\ (2 * N) % q = 0 /\ h \in Nat /\ q = 8 * h
  BY RingAssumption, Parameters DEF h
<1>2. Factor \in Int /\ 2 * N = q * Factor
  <2> DEFINE x == 2 * N
  <2>1. x \in Nat /\ x % q = 0 BY <1>1
  <2> HIDE DEF x
  <2>2. x = q * (x \div q) + (x % q) /\ x \div q \in Int BY <1>1, <2>1
  <2>3. x = q * (x \div q) BY <1>1, <2>1, <2>2
  <2> QED BY <2>2, <2>3 DEF x, Factor
<1> DEFINE F == Factor
<1>3. F \in Int /\ 2 * N = q * F BY <1>2
<1> HIDE DEF F
<1>4. F > 0
  <2> SUFFICES ASSUME F <= 0 PROVE FALSE
    BY <1>3
  <2>1. q * F <= 0 BY <1>1, <1>3
  <2> QED BY <1>1, <1>3, <2>1
<1>5. F * q = 2 * N /\ F * (4 * h) = N
  <2>1. F * h \in Int /\ q * F = 8 * (F * h) /\ F * (4 * h) = 4 * (F * h) BY <1>1, <1>3
  <2> QED BY <1>1, <1>3, <2>1, RingAssumption
<1>6. ASSUME NEW x \in Int, NEW k \in Int PROVE F * (x + k * q) = F * x + k * (2 * N)
  <2>1. F * (k * q) = k * (F * q) BY <1>1, <1>3
  <2>2. k * q \in Int BY <1>1
  <2>3. F * (x + k * q) = F * x + F * (k * q)
    <3> DEFINE y == k * q
    <3> HIDE DEF y
    <3>1. F * (x + y) = F * x + F * y BY <1>3, <2>2 DEF y
    <3> QED BY <3>1 DEF y
  <2> QED BY <1>5, <2>1, <2>3
<1> QED BY <1>3, <1>4, <1>5, <1>6 DEF F

\* A product modulo q is as good as the product.
LEMMA ShiftByProduct ==
  ASSUME NEW p \in Polynomials, NEW x \in Int
  PROVE  /\ TimesMonomial(p, (x % q) * Factor) = TimesMonomial(p, Factor * x)
         /\ Factor * x \in Int
<1>0. q \in Nat /\ q > 0 BY Parameters
<1>1. PICK k \in Int : x % q = x + k * q BY <1>0, ModIs
<1>2. x % q \in Int BY <1>0
<1> DEFINE y == x % q
<1>3. y \in Int /\ y = x + k * q BY <1>1, <1>2
<1> HIDE DEF y
<1>4. Factor * y = Factor * x + k * (2 * N) BY <1>3, FactorIs
<1>5. Factor \in Int /\ Factor * y \in Int /\ Factor * x \in Int /\ y * Factor = Factor * y
  BY <1>3, FactorIs
<1>6. TimesMonomial(p, Factor * y) = TimesMonomial(p, Factor * x)
  BY <1>4, <1>5, ShiftTurns
<1> QED BY <1>5, <1>6 DEF y

LEMMA AccumulatesGINX ==
  ASSUME NEW acc \in Polynomials, NEW si \in -1 .. 1, NEW ai \in 0 .. q - 1
  PROVE  AddToACCGINX(acc, si, ai) = TimesMonomial(acc, Factor * (si * ai))
<1> DEFINE tp == TimesMonomial(acc, ai * Factor)
           tm == TimesMonomial(acc, ((q - ai) % q) * Factor)
           plus == [i \in 0 .. N - 1 |-> IF si = 1 THEN tp[i] - acc[i] ELSE 0]
           minus == [i \in 0 .. N - 1 |-> IF si = -1 THEN tm[i] - acc[i] ELSE 0]
<1>1. AddToACCGINX(acc, si, ai) = [i \in 0 .. N - 1 |-> (acc[i] + plus[i] + minus[i]) % Q]
  BY DEF AddToACCGINX
<1>2. ai \in Int /\ q \in Int /\ Factor \in Int /\ ai * Factor \in Int /\ ai * Factor = Factor * ai
  BY FactorIs, Parameters
<1>3. tp \in Polynomials /\ tp = TimesMonomial(acc, Factor * ai) BY <1>2, ShiftIs
<1>4. tm = TimesMonomial(acc, Factor * (-ai)) /\ tm \in Polynomials
  <2>1. q - ai \in Int /\ -ai \in Int BY <1>2
  <2>2. tm = TimesMonomial(acc, Factor * (q - ai)) /\ Factor * (q - ai) \in Int
    BY <2>1, ShiftByProduct
  <2>3. Factor * (-ai + 1 * q) = Factor * (-ai) + 1 * (2 * N)
    <3>1. 1 \in Int OBVIOUS
    <3> QED BY <2>1, <3>1, FactorIs, Zenon
  <2>4. Factor * (q - ai) = Factor * (-ai) + 1 * (2 * N)
    <3>1. -ai + 1 * q = q - ai BY <1>2
    <3> QED BY <2>3, <3>1
  <2>5. Factor * (-ai) \in Int BY <1>2
  <2>6. TimesMonomial(acc, Factor * (q - ai)) = TimesMonomial(acc, Factor * (-ai))
    <3> DEFINE x == Factor * (q - ai)
               y == Factor * (-ai)
               one == 1
    <3>1. x \in Int /\ y \in Int /\ one \in Int /\ x = y + one * (2 * N) BY <2>2, <2>4, <2>5
    <3> HIDE DEF x, y, one
    <3>2. TimesMonomial(acc, x) = TimesMonomial(acc, y) BY <3>1, ShiftTurns
    <3> QED BY <3>2 DEF x, y
  <2> QED BY <2>2, <2>5, <2>6, ShiftIs
<1> HIDE DEF tp, tm
<1>5. \A i \in 0 .. N - 1 : acc[i] \in 0 .. Q - 1 /\ tp[i] \in 0 .. Q - 1 /\ tm[i] \in 0 .. Q - 1
  BY <1>3, <1>4 DEF Polynomials
<1>6. Q \in Nat /\ Q > 0 /\ \A x \in 0 .. Q - 1 : x % Q = x BY Parameters
<1>7. CASE si = 1
  <2>1. \A i \in 0 .. N - 1 : (acc[i] + plus[i] + minus[i]) % Q = tp[i]
    <3> SUFFICES ASSUME NEW i \in 0 .. N - 1 PROVE (acc[i] + plus[i] + minus[i]) % Q = tp[i]
      OBVIOUS
    <3>1. acc[i] + plus[i] + minus[i] = tp[i] BY <1>5, <1>7, <1>6
    <3> QED BY <1>5, <1>6, <3>1
  <2>2. AddToACCGINX(acc, si, ai) = tp BY <1>1, <1>3, <2>1 DEF Polynomials
  <2>3. si * ai = ai BY <1>2, <1>7
  <2> QED BY <1>3, <2>2, <2>3
<1>8. CASE si = -1
  <2>1. \A i \in 0 .. N - 1 : (acc[i] + plus[i] + minus[i]) % Q = tm[i]
    <3> SUFFICES ASSUME NEW i \in 0 .. N - 1 PROVE (acc[i] + plus[i] + minus[i]) % Q = tm[i]
      OBVIOUS
    <3>1. acc[i] + plus[i] + minus[i] = tm[i] BY <1>5, <1>8, <1>6
    <3> QED BY <1>5, <1>6, <3>1
  <2>2. AddToACCGINX(acc, si, ai) = tm BY <1>1, <1>4, <2>1 DEF Polynomials
  <2>3. si * ai = -ai BY <1>2, <1>8
  <2> QED BY <1>4, <2>2, <2>3
<1>9. CASE si = 0
  <2>1. \A i \in 0 .. N - 1 : (acc[i] + plus[i] + minus[i]) % Q = acc[i]
    <3> SUFFICES ASSUME NEW i \in 0 .. N - 1 PROVE (acc[i] + plus[i] + minus[i]) % Q = acc[i]
      OBVIOUS
    <3>1. acc[i] + plus[i] + minus[i] = acc[i] BY <1>5, <1>9, <1>6
    <3> QED BY <1>5, <1>6, <3>1
  <2>2. AddToACCGINX(acc, si, ai) = acc BY <1>1, <2>1 DEF Polynomials
  <2>3. si * ai = 0 /\ Factor * 0 = 0 BY <1>2, <1>9
  <2> QED BY <2>2, <2>3, ShiftByZero
<1> QED BY <1>7, <1>8, <1>9

-----------------------------------------------------------------------------
(***************************************************************************)
(* The functions that the accumulators define by recursion.                *)
(***************************************************************************)

\* The step from i - 1 to i is g[i].
Recursion(X, x, last, g) == x \in X /\ last \in Nat /\ g \in [1 .. last -> [X -> X]]

\* What a definition by that recursion chooses.
Iterates(f, X, x, last, g) ==
  f \in [0 .. last -> X] /\ f = [i \in 0 .. last |-> IF i = 0 THEN x ELSE g[i][f[i - 1]]]

LEMMA RecursionExists ==
  ASSUME NEW X, NEW x, NEW last, NEW g, Recursion(X, x, last, g)
  PROVE  \E f : Iterates(f, X, x, last, g)
<1>0. x \in X /\ last \in Nat /\ g \in [1 .. last -> [X -> X]] BY DEF Recursion
<1> DEFINE Fits(f, m) == f = [i \in 0 .. m |-> IF i = 0 THEN x ELSE g[i][f[i - 1]]]
           S == {m \in Nat : m <= last => \E f \in [0 .. m -> X] : Fits(f, m)}
<1>1. 0 \in S
  <2> DEFINE f == [i \in 0 .. 0 |-> x]
  <2>1. f \in [0 .. 0 -> X] /\ Fits(f, 0) BY <1>0
  <2> QED BY <2>1
<1>2. ASSUME NEW m \in Nat, m \in S PROVE m + 1 \in S
  <2> SUFFICES ASSUME m + 1 <= last PROVE \E f \in [0 .. m + 1 -> X] : Fits(f, m + 1)
    OBVIOUS
  <2>1. PICK f \in [0 .. m -> X] : Fits(f, m)
    <3>1. m <= last BY <1>0
    <3> QED BY <1>2, <3>1
  <2> DEFINE e == [i \in 0 .. m + 1 |-> IF i = m + 1 THEN g[m + 1][f[m]] ELSE f[i]]
  <2>2. m + 1 \in 1 .. last /\ m \in 0 .. m BY <1>0
  <2>3. e \in [0 .. m + 1 -> X]
    <3>1. f[m] \in X /\ g[m + 1] \in [X -> X] BY <1>0, <2>1, <2>2
    <3>2. g[m + 1][f[m]] \in X BY <3>1
    <3>3. \A i \in 0 .. m + 1 : i # m + 1 => i \in 0 .. m OBVIOUS
    <3> QED BY <2>1, <3>2, <3>3
  <2>4. ASSUME NEW i \in 0 .. m + 1
        PROVE  e[i] = IF i = 0 THEN x ELSE g[i][e[i - 1]]
    <3>1. CASE i = m + 1
      <4>1. i - 1 = m /\ m \in 0 .. m + 1 /\ m # m + 1 /\ i # 0 BY <3>1
      <4>2. e[m] = f[m] /\ e[i] = g[m + 1][f[m]] BY <3>1, <4>1
      <4> QED BY <3>1, <4>1, <4>2
    <3>2. CASE i # m + 1
      <4>1. i \in 0 .. m BY <3>2
      <4>2. f[i] = IF i = 0 THEN x ELSE g[i][f[i - 1]] BY <2>1, <4>1
      <4>3. i # 0 => i - 1 \in 0 .. m + 1 /\ i - 1 # m + 1 BY <4>1
      <4> QED BY <3>2, <4>2, <4>3
    <3> QED BY <3>1, <3>2
  <2>5. Fits(e, m + 1) BY <2>4
  <2> HIDE DEF e, Fits
  <2> QED BY <2>3, <2>5
<1> HIDE DEF S
<1>3. \A m \in Nat : m \in S BY <1>1, <1>2, SetInduction
<1>4. \E f \in [0 .. last -> X] : Fits(f, last) BY <1>0, <1>3 DEF S
<1> QED BY <1>4 DEF Iterates

\* The powers of baseR up to the k-th.
PowersTo(f, k) ==
  f \in [0 .. k -> Nat] /\ f[0] = 1 /\ \A i \in 1 .. k : f[i] = baseR * f[i - 1]

LEMMA PowersAreUnique ==
  ASSUME NEW k \in Nat, NEW f, PowersTo(f, k), NEW g, PowersTo(g, k)
  PROVE  f[k] = g[k]
<1> DEFINE S == {m \in Nat : m <= k => f[m] = g[m]}
<1>1. 0 \in S BY DEF PowersTo
<1>2. ASSUME NEW m \in Nat, m \in S PROVE m + 1 \in S
  <2> SUFFICES ASSUME m + 1 <= k PROVE f[m + 1] = g[m + 1]
    OBVIOUS
  <2>1. m + 1 \in 1 .. k /\ (m + 1) - 1 = m /\ f[m] = g[m] BY <1>2
  <2> QED BY <2>1 DEF PowersTo
<1> HIDE DEF S
<1>3. \A m \in Nat : m \in S BY <1>1, <1>2, SetInduction
<1> QED BY <1>3 DEF S

LEMMA PowersExist ==
  \E p \in [Nat -> Nat] : p = [k \in Nat |-> IF k = 0 THEN 1 ELSE baseR * p[k - 1]]
<1>1. ASSUME NEW k \in Nat PROVE \E f : PowersTo(f, k)
  <2> DEFINE g == [i \in 1 .. k |-> [y \in Nat |-> baseR * y]]
             one == 1
  <2>1. g \in [1 .. k -> [Nat -> Nat]] /\ one \in Nat BY RingAssumption
  <2>2. PICK f \in [0 .. k -> Nat] :
          f = [i \in 0 .. k |-> IF i = 0 THEN one ELSE g[i][f[i - 1]]]
    <3>1. Recursion(Nat, one, k, g) BY <2>1 DEF Recursion
    <3> HIDE DEF g, one
    <3>2. \E f : Iterates(f, Nat, one, k, g) BY <3>1, RecursionExists
    <3> QED BY <3>2 DEF Iterates
  <2>3. \A i \in 1 .. k : i \in 0 .. k /\ i # 0 /\ i - 1 \in 0 .. k OBVIOUS
  <2>4. f[0] = 1 BY <2>2
  <2>5. \A i \in 1 .. k : f[i] = baseR * f[i - 1]
    <3> SUFFICES ASSUME NEW i \in 1 .. k PROVE f[i] = baseR * f[i - 1]
      OBVIOUS
    <3>1. f[i] = g[i][f[i - 1]] /\ f[i - 1] \in Nat BY <2>2, <2>3
    <3> QED BY <3>1
  <2> QED BY <2>4, <2>5 DEF PowersTo
<1> DEFINE P(k) == CHOOSE f : PowersTo(f, k)
           p == [k \in Nat |-> P(k)[k]]
<1>2. \A k \in Nat : PowersTo(P(k), k) BY <1>1
<1> HIDE DEF P
<1>3. ASSUME NEW k \in Nat, k # 0 PROVE P(k)[k] = baseR * P(k - 1)[k - 1]
  <2> DEFINE f == P(k)
             g == P(k - 1)
             r == [i \in 0 .. k - 1 |-> f[i]]
  <2>1. k - 1 \in Nat /\ k \in 1 .. k /\ k - 1 \in 0 .. k - 1 BY <1>3
  <2>2. PowersTo(f, k) /\ PowersTo(g, k - 1) BY <1>2, <2>1
  <2> HIDE DEF f, g
  <2>3. PowersTo(r, k - 1)
    <3>1. \A i \in 0 .. k - 1 : i \in 0 .. k /\ r[i] = f[i] BY <2>1
    <3>2. r \in [0 .. k - 1 -> Nat] /\ r[0] = 1 BY <2>1, <2>2, <3>1 DEF PowersTo
    <3>3. \A i \in 1 .. k - 1 : i \in 0 .. k - 1 /\ i - 1 \in 0 .. k - 1 /\ i \in 1 .. k
      BY <2>1
    <3>4. \A i \in 1 .. k - 1 : r[i] = baseR * r[i - 1]
      BY <2>2, <3>1, <3>3 DEF PowersTo
    <3> HIDE DEF r
    <3> QED BY <3>2, <3>4 DEF PowersTo
  <2>4. r[k - 1] = g[k - 1]
    <3> HIDE DEF r
    <3> QED BY <2>1, <2>2, <2>3, PowersAreUnique
  <2>5. f[k] = baseR * f[k - 1] BY <2>1, <2>2 DEF PowersTo
  <2> QED BY <2>1, <2>4, <2>5 DEF f, g
<1>4. P(0)[0] = 1 BY <1>2 DEF PowersTo
<1>5. \A k \in Nat : P(k)[k] \in Nat
  <2>1. \A k \in Nat : k \in 0 .. k OBVIOUS
  <2> QED BY <1>2, <2>1 DEF PowersTo
<1>6. p \in [Nat -> Nat] BY <1>5
<1>7. \A k \in Nat : p[k] = IF k = 0 THEN 1 ELSE baseR * p[k - 1]
  <2>1. \A k \in Nat : k # 0 => k - 1 \in Nat OBVIOUS
  <2> QED BY <1>3, <1>4, <2>1
<1>8. p = [k \in Nat |-> IF k = 0 THEN 1 ELSE baseR * p[k - 1]]
  BY <1>7
<1> HIDE DEF p
<1> QED BY <1>6, <1>8

\* What DigitsR lists: the powers below q, the next of which is not.
LEMMA DigitsAre ==
  \E p \in [Nat -> Nat], count \in 1 .. q :
    /\ p[0] = 1 /\ \A k \in Nat : p[k + 1] = baseR * p[k] /\ p[k] > 0
    /\ q <= p[count]
    /\ DigitsR = [k \in 1 .. count |-> p[k - 1]]
<1> DEFINE power == CHOOSE p : p = [k \in Nat |-> IF k = 0 THEN 1 ELSE baseR * p[k - 1]]
           count == CHOOSE k \in 1 .. q : power[k] >= q /\ power[k - 1] < q
<1>1. power = [k \in Nat |-> IF k = 0 THEN 1 ELSE baseR * power[k - 1]]
  BY PowersExist
<1>2. DigitsR = [k \in 1 .. count |-> power[k - 1]] BY DEF DigitsR
<1> HIDE DEF power
<1>3. power[0] = 1 /\ \A k \in Nat : power[k + 1] = baseR * power[k]
  <2>1. power[0] = 1
    <3>1. 0 \in Nat OBVIOUS
    <3> QED BY <1>1, <3>1
  <2>2. ASSUME NEW k \in Nat PROVE power[k + 1] = baseR * power[k]
    <3>1. k + 1 \in Nat /\ k + 1 # 0 /\ (k + 1) - 1 = k OBVIOUS
    <3> QED BY <1>1, <3>1
  <2> QED BY <2>1, <2>2
<1> DEFINE S == {k \in Nat : power[k] \in Nat /\ power[k] > k}
<1>4. 0 \in S BY <1>3
<1>5. ASSUME NEW k \in Nat, k \in S PROVE k + 1 \in S
  <2> DEFINE y == power[k]
  <2>1. y \in Nat /\ y > k /\ power[k + 1] = baseR * y BY <1>3, <1>5
  <2> HIDE DEF y
  <2>2. baseR \in Nat /\ baseR >= 2 BY RingAssumption
  <2>3. baseR * y \in Nat /\ baseR * y >= 2 * y
    <3>1. (baseR - 2) * y >= 0 /\ (baseR - 2) * y = baseR * y - 2 * y BY <2>1, <2>2
    <3>2. baseR * y \in Nat BY <2>1, <2>2
    <3> QED BY <2>1, <3>1, <3>2
  <2> QED BY <2>1, <2>3
<1> HIDE DEF S
<1>6. \A k \in Nat : k \in S BY <1>4, <1>5, SetInduction
<1>7. \A k \in Nat : power[k] \in Nat /\ power[k] > 0 /\ power[k] > k BY <1>6 DEF S
<1>8. power \in [Nat -> Nat]
  <2>1. power = [k \in Nat |-> power[k]] BY <1>1
  <2> QED BY <1>7, <2>1
<1>9. \E k \in 1 .. q : power[k] >= q /\ power[k - 1] < q
  <2> DEFINE T == {k \in Nat : power[k] >= q}
  <2>1. q \in Nat /\ q > 1 BY Parameters
  <2>2. q \in T
    <3>1. power[q] > q /\ power[q] \in Nat BY <1>7, <2>1
    <3> QED BY <2>1, <3>1
  <2>3. PICK k \in T : \A y \in T : k <= y
    <3>1. T \subseteq Nat /\ T # {} BY <2>2
    <3> HIDE DEF T
    <3> QED BY <3>1, LeastNumber
  <2>4. k \in Nat /\ power[k] >= q /\ k <= q BY <2>2, <2>3
  <2>5. k # 0 BY <1>3, <2>1, <2>4
  <2>6. k - 1 \in Nat /\ ~(k <= k - 1) BY <2>4, <2>5
  <2>7. power[k - 1] < q
    <3>1. power[k - 1] \in Nat BY <1>7, <2>6
    <3>2. ~(power[k - 1] >= q) BY <2>3, <2>6
    <3> QED BY <2>1, <3>1, <3>2
  <2>8. k \in 1 .. q BY <2>1, <2>4, <2>5
  <2> QED BY <2>4, <2>7, <2>8
<1>10. count \in 1 .. q /\ power[count] >= q BY <1>9
<1> HIDE DEF count
<1>11. q <= power[count]
  <2>1. power[count] \in Nat /\ q \in Nat BY <1>7, <1>10, Parameters
  <2> QED BY <1>10, <2>1
<1> QED BY <1>2, <1>3, <1>7, <1>8, <1>10, <1>11

\* One more digit of x.
LEMMA DigitStep ==
  ASSUME NEW x \in Nat, NEW P \in Nat, P > 0, NEW D \in Nat, D = (x \div P) % baseR
  PROVE  /\ x % (baseR * P) = (x % P) + D * P
         /\ x % P \in Nat /\ D * P \in Nat
<1> DEFINE B == baseR
           d == x \div P
           r == x % P
           M == B * P
<1>1. B \in Nat /\ B >= 2 BY RingAssumption
<1>2. d \in Nat /\ r \in 0 .. P - 1 /\ x = P * d + r OBVIOUS
<1> HIDE DEF B, d, r
<1>3. D = d % B BY DEF d, B
<1> DEFINE e == d \div B
<1>4. e \in Nat /\ D \in 0 .. B - 1 /\ d = B * e + D BY <1>1, <1>2, <1>3
<1> HIDE DEF e
<1>5. M \in Nat /\ M > 0 /\ M >= P
  <2>1. (B - 1) * P >= 0 /\ (B - 1) * P = B * P - P /\ B * P \in Nat BY <1>1
  <2> QED BY <2>1
<1>6. D * P \in Nat /\ D * P <= M - P
  <2> DEFINE y == (B - 1) - D
  <2>1. y \in Nat /\ B = y + D + 1 BY <1>1, <1>4
  <2> HIDE DEF y
  <2>2. (y + D + 1) * P = y * P + D * P + P BY <2>1
  <2>3. y * P \in Nat /\ D * P \in Nat BY <2>1
  <2>4. B * P = y * P + D * P + P BY <2>1, <2>2
  <2> QED BY <2>3, <2>4
<1>7. P * d = M * e + D * P
  <2>1. P * (B * e + D) = (B * P) * e + D * P BY <1>1, <1>4
  <2> QED BY <1>4, <2>1
<1> HIDE DEF M
<1>8. D * P + r \in 0 .. M - 1 BY <1>2, <1>5, <1>6
<1>9. x % M = D * P + r
  <2>1. PICK k \in Int : x % M \in 0 .. M - 1 /\ x % M = x + k * M
    <3>1. x \in Int OBVIOUS
    <3> QED BY <1>5, <3>1, ModIs
  <2> DEFINE y == x % M
             z == D * P + r
             j == e + k
  <2>2. j \in Int /\ z \in 0 .. M - 1 /\ y \in 0 .. M - 1 BY <1>4, <1>8, <2>1
  <2>3. x = M * e + z
    <3>1. M * e \in Int BY <1>4, <1>5
    <3> QED BY <1>2, <1>6, <1>7, <3>1
  <2>4. j * M = e * M + k * M /\ e * M = M * e /\ M * e \in Int /\ k * M \in Int
    BY <1>4, <1>5
  <2>5. y = z + j * M
    <3>1. y = x + k * M BY <2>1
    <3> HIDE DEF y, z, j
    <3> QED BY <2>2, <2>3, <2>4, <3>1
  <2> HIDE DEF y, z, j
  <2>6. y = z BY <1>5, <2>2, <2>5, SameRemainder
  <2> QED BY <2>6 DEF y, z
<1> QED BY <1>2, <1>6, <1>9 DEF M, B, r

LEMMA AccumulatesAP ==
  ASSUME NEW acc \in Polynomials, NEW si \in -1 .. 1, NEW ai \in 0 .. q - 1
  PROVE  AddToACCAP(acc, si, ai) = TimesMonomial(acc, Factor * (si * ai))
<1>1. PICK p \in [Nat -> Nat], count \in 1 .. q :
        /\ p[0] = 1 /\ \A k \in Nat : p[k + 1] = baseR * p[k] /\ p[k] > 0
        /\ q <= p[count]
        /\ DigitsR = [k \in 1 .. count |-> p[k - 1]]
  BY DigitsAre
<1> DEFINE Digit(k) == (ai \div DigitsR[k]) % baseR
           Turn(k) == ((si * Digit(k) * DigitsR[k]) % q) * Factor
           IsSum(f) ==
             f = [k \in 0 .. Len(DigitsR) |->
                    IF k = 0 THEN acc
                    ELSE IF Digit(k) = 0 THEN f[k - 1] ELSE TimesMonomial(f[k - 1], Turn(k))]
           sum == CHOOSE f : IsSum(f)
<1>2. AddToACCAP(acc, si, ai) = sum[Len(DigitsR)] BY DEF AddToACCAP
<1>3. Len(DigitsR) = count /\ count \in Nat
  <2>1. count \in Nat /\ DigitsR \in Seq(Nat)
    <3>1. \A k \in 1 .. count : p[k - 1] \in Nat BY Parameters
    <3>2. count \in Nat BY Parameters
    <3> QED BY <1>1, <3>1, <3>2
  <2>2. DOMAIN DigitsR = 1 .. count BY <1>1
  <2> QED BY <2>1, <2>2
<1>4. /\ ai \in Nat /\ ai < q /\ q \in Nat /\ q > 0 /\ baseR \in Nat /\ baseR > 0
      /\ si \in Int /\ Factor \in Nat
  BY Parameters, RingAssumption, FactorIs
<1>5. ASSUME NEW k \in 1 .. count
      PROVE  DigitsR[k] = p[k - 1] /\ p[k - 1] \in Nat /\ p[k - 1] > 0 /\ Digit(k) \in Nat
  <2>1. k - 1 \in Nat /\ DigitsR[k] = p[k - 1] BY <1>1, <1>3
  <2>2. p[k - 1] \in Nat /\ p[k - 1] > 0 BY <1>1, <2>1
  <2> DEFINE P == p[k - 1]
  <2>3. Digit(k) = (ai \div P) % baseR BY <2>1
  <2> HIDE DEF P, Digit
  <2>4. P \in Nat /\ P > 0 BY <2>2 DEF P
  <2>5. Digit(k) \in Nat BY <1>4, <2>3, <2>4
  <2> QED BY <2>1, <2>2, <2>5
<1>6. \A k \in 1 .. count : Turn(k) \in Int
  <2> SUFFICES ASSUME NEW k \in 1 .. count PROVE Turn(k) \in Int
    OBVIOUS
  <2> DEFINE x == si * Digit(k) * DigitsR[k]
  <2>1. x \in Int BY <1>4, <1>5, SignTimes
  <2> HIDE DEF x
  <2>2. (x % q) * Factor \in Int BY <1>4, <2>1
  <2> QED BY <2>2 DEF x
<1> DEFINE g == [k \in 1 .. count |->
                   [y \in Polynomials |->
                      IF Digit(k) = 0 THEN y ELSE TimesMonomial(y, Turn(k))]]
<1> HIDE DEF Digit, Turn
<1>7. IsSum(sum)
  <2>1. Recursion(Polynomials, acc, count, g)
    <3>1. \A k \in 1 .. count : \A y \in Polynomials : TimesMonomial(y, Turn(k)) \in Polynomials
      BY <1>6, ShiftIs
    <3> QED BY <1>3, <3>1 DEF Recursion
  <2>2. PICK f : Iterates(f, Polynomials, acc, count, g)
    <3> HIDE DEF g
    <3> QED BY <2>1, RecursionExists
  <2>3. IsSum(f)
    <3>1. f \in [0 .. count -> Polynomials] BY <2>2 DEF Iterates
    <3>2. f = [i \in 0 .. count |-> IF i = 0 THEN acc ELSE g[i][f[i - 1]]]
      BY <2>2 DEF Iterates
    <3>3. ASSUME NEW k \in 0 .. count, k # 0
          PROVE  g[k][f[k - 1]] = IF Digit(k) = 0 THEN f[k - 1]
                                  ELSE TimesMonomial(f[k - 1], Turn(k))
      <4>1. k \in 1 .. count /\ k - 1 \in 0 .. count BY <1>3, <3>3
      <4>2. f[k - 1] \in Polynomials BY <3>1, <4>1
      <4> QED BY <4>1, <4>2
    <3> HIDE DEF g
    <3> QED BY <1>3, <3>2, <3>3
  <2> HIDE DEF IsSum
  <2> QED BY <2>3
<1> HIDE DEF sum, g
<1>8. /\ sum[0] = acc
      /\ \A k \in 1 .. count : sum[k] = IF Digit(k) = 0 THEN sum[k - 1]
                                        ELSE TimesMonomial(sum[k - 1], Turn(k))
  <2>1. 0 \in 0 .. count /\ \A k \in 1 .. count : k \in 0 .. count /\ k # 0 BY <1>3
  <2> QED BY <1>3, <1>7, <2>1
<1> HIDE DEF IsSum
<1> DEFINE Shift(m) == Factor * (si * (ai % p[m]))
           S == {m \in Nat : m <= count => sum[m] = TimesMonomial(acc, Shift(m))}
<1>9. \A m \in Nat : ai % p[m] \in Nat /\ si * (ai % p[m]) \in Int /\ Shift(m) \in Int
  <2> SUFFICES ASSUME NEW m \in Nat
               PROVE  ai % p[m] \in Nat /\ si * (ai % p[m]) \in Int /\ Shift(m) \in Int
    OBVIOUS
  <2>1. p[m] \in Nat /\ p[m] > 0 BY <1>1
  <2> DEFINE P == p[m]
             y == ai % P
  <2>2. y \in Nat
    <3> HIDE DEF P
    <3>1. P \in Nat /\ P > 0 BY <2>1 DEF P
    <3> QED BY <1>4, <3>1
  <2> HIDE DEF y
  <2>3. si * y \in Int BY <1>4, <2>2
  <2>4. Factor * (si * y) \in Int BY <1>4, <2>3
  <2> QED BY <2>2, <2>3, <2>4 DEF y
<1>10. 0 \in S
  <2>1. ai % p[0] = 0 BY <1>1, <1>4
  <2>2. Shift(0) = 0 BY <1>4, <2>1
  <2> QED BY <1>8, <2>2, ShiftByZero
<1>11. ASSUME NEW m \in Nat, m \in S PROVE m + 1 \in S
  <2> SUFFICES ASSUME m + 1 <= count PROVE sum[m + 1] = TimesMonomial(acc, Shift(m + 1))
    OBVIOUS
  <2> DEFINE k == m + 1
             P == p[m]
             D == Digit(k)
             r == ai % P
             x == si * r
             y == si * D * P
  <2>1. k \in 1 .. count /\ k - 1 = m /\ m <= count BY <1>3
  <2>2. sum[m] = TimesMonomial(acc, Shift(m)) BY <1>11, <2>1
  <2>3. DigitsR[k] = P /\ P \in Nat /\ P > 0 /\ D \in Nat BY <1>5, <2>1
  <2>4. sum[k] = IF D = 0 THEN sum[m] ELSE TimesMonomial(sum[m], Turn(k)) BY <1>8, <2>1
  <2>5. p[k] = baseR * P BY <1>1
  <2>6. D = (ai \div P) % baseR BY <2>3 DEF Digit
  <2>7. Turn(k) = (y % q) * Factor BY <2>3 DEF Turn
  <2>8. Shift(m) = Factor * x /\ x \in Int /\ r \in Nat /\ Shift(m) \in Int BY <1>9
  <2>9. Shift(k) = Factor * (si * (ai % (baseR * P))) BY <2>5
  <2> HIDE DEF k, P, D, S, Shift
  <2>10. ai % (baseR * P) = r + D * P /\ D * P \in Nat
    <3>1. ai \in Nat /\ P \in Nat /\ P > 0 /\ D \in Nat BY <1>4, <2>3
    <3>2. ai % (baseR * P) = (ai % P) + D * P /\ D * P \in Nat
      BY <2>6, <3>1, DigitStep, Zenon
    <3> QED BY <3>2 DEF r
  <2> HIDE DEF r
  <2>11. Shift(k) = Factor * (si * (r + D * P)) BY <2>9, <2>10
  <2>12. y = si * (D * P) /\ y \in Int BY <1>4, <2>3, <2>10
  <2> HIDE DEF y
  <2>13. sum[m] \in Polynomials BY <2>2, <2>8, ShiftIs
  <2>14. Shift(k) = Shift(m) + Factor * y /\ Factor * y \in Int
    <3> DEFINE z == D * P
    <3>1. z \in Int BY <2>10
    <3> HIDE DEF z
    <3>2. si * (r + z) = si * r + si * z BY <1>4, <2>8, <3>1
    <3>3. y = si * z BY <2>12 DEF z
    <3>4. Factor * (x + y) = Factor * x + Factor * y BY <1>4, <2>8, <2>12
    <3>5. Shift(k) = Factor * (x + y) BY <2>11, <3>2, <3>3 DEF z
    <3>6. Factor * y \in Int BY <1>4, <2>12
    <3> QED BY <2>8, <3>4, <3>5, <3>6
  <2>15. CASE D = 0
    <3>1. y = 0 /\ Factor * 0 = 0 BY <1>4, <2>3, <2>12, <2>15
    <3>2. Shift(k) = Shift(m) BY <2>8, <2>14, <3>1
    <3> QED BY <2>2, <2>4, <2>15, <3>2 DEF k
  <2>16. CASE D # 0
    <3>1. sum[k] = TimesMonomial(sum[m], (y % q) * Factor) BY <2>4, <2>7, <2>16
    <3>2. sum[k] = TimesMonomial(sum[m], Factor * y) BY <2>12, <2>13, <3>1, ShiftByProduct
    <3> DEFINE u == Shift(m)
               v == Factor * y
    <3>3. u \in Int /\ v \in Int BY <2>8, <2>14
    <3> HIDE DEF u, v
    <3>4. TimesMonomial(TimesMonomial(acc, u), v) = TimesMonomial(acc, u + v)
      BY <3>3, ShiftTwice
    <3> QED BY <2>2, <2>14, <3>2, <3>4 DEF u, v, k
  <2> QED BY <2>15, <2>16
<1> HIDE DEF S
<1>12. \A m \in Nat : m \in S BY <1>10, <1>11, SetInduction
<1>13. sum[count] = TimesMonomial(acc, Shift(count)) BY <1>3, <1>12 DEF S
<1>14. ai % p[count] = ai
  <2>1. p[count] \in Nat /\ ai < p[count] BY <1>1, <1>3, <1>4
  <2> DEFINE P == p[count]
  <2>2. P \in Nat /\ ai < P BY <2>1
  <2> HIDE DEF P
  <2>3. ai % P = ai BY <1>4, <2>2
  <2> QED BY <2>3 DEF P
<1> QED BY <1>2, <1>3, <1>13, <1>14

-----------------------------------------------------------------------------
(***************************************************************************)
(* The accumulator ends with the gate's value of the phase.                *)
(***************************************************************************)

LEMMA GateValueFits ==
  ASSUME NEW gate \in Gates, NEW x \in 0 .. q - 1
  PROVE  /\ GateValue(gate, x) \in 0 .. Q - 1
         /\ GateValue(gate, x) = (-GateValue(gate, (x + 4 * h) % q)) % Q
<1>1. Q \in Nat /\ Q8 \in 1 .. Q - 1 /\ Q - Q8 \in 1 .. Q - 1 /\ Q - (Q - Q8) = Q8
  BY EighthFits, Parameters
<1>2. (-Q8) % Q = Q - Q8 /\ (-(Q - Q8)) % Q = Q8 BY <1>1, Opposite
<1> DEFINE y == (x + 4 * h) % q
<1>3. y \in 0 .. q - 1 /\ (x \in Upper(gate) <=> y \notin Upper(gate)) BY UpperTurns
<1> HIDE DEF y
<1>4. /\ GateValue(gate, x) = IF x \in Upper(gate) THEN Q8 ELSE Q - Q8
      /\ GateValue(gate, y) = IF y \in Upper(gate) THEN Q8 ELSE Q - Q8
  BY <1>3, GateTable
<1>5. GateValue(gate, x) = (-GateValue(gate, y)) % Q
  <2>1. CASE x \in Upper(gate) BY <1>2, <1>3, <1>4, <2>1
  <2>2. CASE x \notin Upper(gate) BY <1>2, <1>3, <1>4, <2>2
  <2> QED BY <2>1, <2>2
<1>6. GateValue(gate, x) \in 0 .. Q - 1 BY <1>1, <1>4
<1> QED BY <1>5, <1>6 DEF y

LEMMA TestPolynomialIs ==
  ASSUME NEW gate \in Gates, NEW b \in 0 .. q - 1
  PROVE  /\ TestPolynomial(gate, b) \in Polynomials
         /\ \A x \in 0 .. 4 * h - 1 :
              Ext(TestPolynomial(gate, b), Factor * x) = GateValue(gate, (b - x) % q)
<1> DEFINE T == TestPolynomial(gate, b)
<1>1. /\ q \in Nat /\ q > 0 /\ N \in Nat /\ N > 0 /\ Factor \in Nat /\ Factor > 0
      /\ h \in Nat /\ Factor * (4 * h) = N /\ Q \in Nat /\ Q > 0 /\ q \div 2 = 4 * h /\ b \in Int
  BY Parameters, FactorIs, RingAssumption DEF h
<1>2. T = [i \in 0 .. N - 1 |->
             IF i % Factor = 0 /\ i \div Factor < q \div 2
             THEN GateValue(gate, (b - i \div Factor) % q) ELSE 0]
  BY DEF TestPolynomial
<1> HIDE DEF T
<1>3. \A y \in Int : (b - y) % q \in 0 .. q - 1 BY <1>1
<1>4. T \in Polynomials
  <2>1. ASSUME NEW i \in 0 .. N - 1 PROVE T[i] \in 0 .. Q - 1
    <3> DEFINE y == i \div Factor
               z == (b - y) % q
    <3>1. y \in Int BY <1>1
    <3>2. z \in 0 .. q - 1 BY <1>3, <3>1
    <3>3. T[i] = IF i % Factor = 0 /\ y < q \div 2 THEN GateValue(gate, z) ELSE 0 BY <1>2
    <3> HIDE DEF y, z
    <3>4. GateValue(gate, z) \in 0 .. Q - 1 BY <3>2, GateValueFits
    <3> QED BY <1>1, <3>3, <3>4
  <2> QED BY <1>2, <2>1 DEF Polynomials
<1>5. ASSUME NEW x \in 0 .. 4 * h - 1
      PROVE  Ext(T, Factor * x) = GateValue(gate, (b - x) % q)
  <2> DEFINE i == Factor * x
  <2>1. x \in Nat /\ x < 4 * h BY <1>1
  <2>2. i \in 0 .. N - 1
    <3> DEFINE d == 4 * h - x
    <3>1. d \in Nat /\ d > 0 /\ x = 4 * h - d BY <1>1, <2>1
    <3>2. Factor * (4 * h - d) = Factor * (4 * h) - Factor * d BY <1>1, <3>1
    <3>3. Factor * d > 0 /\ Factor * d \in Int
      <4>1. (Factor - 1) * d >= 0 /\ (Factor - 1) * d = Factor * d - d BY <1>1, <3>1
      <4>2. Factor * d \in Int BY <1>1, <3>1
      <4> QED BY <3>1, <4>1, <4>2
    <3>4. i \in Int /\ i >= 0 BY <1>1, <2>1
    <3>5. i = N - Factor * d BY <1>1, <3>1, <3>2
    <3> HIDE DEF i, d
    <3> QED BY <1>1, <3>3, <3>4, <3>5
  <2>3. i % Factor = 0 /\ i \div Factor = x
    <3> DEFINE r == i % Factor
               d == i \div Factor
               F == Factor
    <3>1. i \in Nat /\ F \in Nat /\ F > 0 /\ i = F * x BY <1>1, <2>2
    <3> HIDE DEF i, F
    <3>2. i = F * d + r /\ r \in 0 .. F - 1 /\ d \in Int BY <3>1 DEF F
    <3> HIDE DEF r, d
    <3>3. r = 0 + (x - d) * F /\ x - d \in Int /\ 0 \in 0 .. F - 1
      <4>1. (x - d) * F = F * x - F * d BY <2>1, <3>1, <3>2
      <4>2. F * x \in Int /\ F * d \in Int BY <2>1, <3>1, <3>2
      <4> QED BY <2>1, <3>1, <3>2, <4>1, <4>2
    <3>4. r = 0
      <4> DEFINE k == x - d
                 z == 0
      <4>1. k \in Int /\ z \in 0 .. F - 1 /\ r = z + k * F BY <3>3
      <4> HIDE DEF k, z
      <4>2. r = z BY <3>1, <3>2, <4>1, SameRemainder
      <4> QED BY <4>2 DEF z
    <3>5. d = x
      <4>1. F * x = F * d BY <3>1, <3>2, <3>4
      <4>2. CASE x < d
        <5>1. d * F = F * d /\ x * F = F * x BY <2>1, <3>1, <3>2
        <5>2. (d - x) * F = d * F - x * F /\ (d - x) * F >= F BY <2>1, <3>1, <3>2, <4>2
        <5>3. F * x \in Int BY <2>1, <3>1
        <5> QED BY <3>1, <4>1, <5>1, <5>2, <5>3
      <4>3. CASE d < x
        <5>1. d * F = F * d /\ x * F = F * x BY <2>1, <3>1, <3>2
        <5>2. (x - d) * F = x * F - d * F /\ (x - d) * F >= F BY <2>1, <3>1, <3>2, <4>3
        <5>3. F * x \in Int BY <2>1, <3>1
        <5> QED BY <3>1, <4>1, <5>1, <5>2, <5>3
      <4> QED BY <2>1, <3>2, <4>2, <4>3
    <3> QED BY <3>4, <3>5 DEF r, d, F
  <2>4. T[i] = GateValue(gate, (b - x) % q)
    <3> HIDE DEF i
    <3> QED BY <1>1, <1>2, <2>1, <2>2, <2>3
  <2>5. i \in Int BY <1>1, <2>2
  <2> HIDE DEF i
  <2>6. Ext(T, i) = T[i] BY <1>4, <2>2, <2>5, ExtIsCoefficient
  <2> QED BY <2>4, <2>6 DEF i
<1> QED BY <1>4, <1>5 DEF T

LEMMA TestPolynomialTurned ==
  ASSUME NEW gate \in Gates, NEW b \in 0 .. q - 1, NEW D \in Int
  PROVE  Ext(TestPolynomial(gate, b), Factor * D) = GateValue(gate, (b - D) % q)
<1> DEFINE T == TestPolynomial(gate, b)
           x == D % q
<1>1. /\ T \in Polynomials
      /\ \A y \in 0 .. 4 * h - 1 : Ext(T, Factor * y) = GateValue(gate, (b - y) % q)
  BY TestPolynomialIs
<1> HIDE DEF T
<1>2. /\ q \in Nat /\ q > 0 /\ Factor \in Int /\ h \in Nat /\ q = 8 * h
      /\ Factor * (4 * h) = N /\ b \in Int
  BY Parameters, FactorIs DEF h
<1>3. PICK k \in Int : x \in 0 .. q - 1 /\ x = D + k * q BY <1>2, ModIs
<1> HIDE DEF x
<1>4. x \in Int /\ -k \in Int /\ D = x + (-k) * q
  <2>1. k * q \in Int /\ (-k) * q = -(k * q) BY <1>2
  <2> QED BY <1>2, <1>3, <2>1
<1>5. Ext(T, Factor * D) = Ext(T, Factor * x)
  <2> DEFINE l == -k
             u == Factor * D
             v == Factor * x
  <2>1. l \in Int /\ D = x + l * q BY <1>4
  <2>2. u \in Int /\ v \in Int BY <1>2, <1>4
  <2> HIDE DEF l
  <2>3. Factor * (x + l * q) = Factor * x + l * (2 * N) BY <1>4, <2>1, FactorIs
  <2>4. u = v + l * (2 * N) BY <2>1, <2>3
  <2> HIDE DEF u, v
  <2>5. Ext(T, u) = Ext(T, v) BY <2>1, <2>2, <2>4, ExtTurns
  <2> QED BY <2>5 DEF u, v
<1> DEFINE y == (b - x) % q
<1>6. y = (b - D) % q
  <2> DEFINE u == b - x
             v == b - D
             l == -k
  <2>1. u \in Int /\ v \in Int /\ l \in Int /\ u = v + l * q
    <3>1. k * q \in Int /\ (-k) * q = -(k * q) BY <1>2
    <3> QED BY <1>2, <1>3, <1>4, <3>1
  <2>2. q \in Nat /\ q > 0 BY <1>2
  <2> HIDE DEF u, v, l
  <2>3. u % q = v % q BY <2>1, <2>2, SameMod
  <2> QED BY <2>3 DEF u, v
<1>7. y \in 0 .. q - 1 BY <1>2, <1>4
<1>8. CASE x < 4 * h
  <2>1. x \in 0 .. 4 * h - 1 BY <1>2, <1>3, <1>8
  <2>2. Ext(T, Factor * x) = GateValue(gate, y) BY <1>1, <2>1
  <2> HIDE DEF y
  <2> QED BY <1>5, <1>6, <2>2 DEF T
<1>9. CASE ~(x < 4 * h)
  <2> DEFINE z == x - 4 * h
  <2>1. z \in 0 .. 4 * h - 1 /\ x = z + 4 * h /\ z \in Int BY <1>2, <1>3, <1>9
  <2>2. (b - z) % q = (y + 4 * h) % q
    <3>1. PICK l \in Int : y = (b - x) + l * q
      <4>1. b - x \in Int BY <1>2, <1>4
      <4> QED BY <1>2, <4>1, ModIs
    <3> DEFINE u == y + 4 * h
               v == b - z
    <3>2. u \in Int /\ v \in Int /\ u = v + l * q
      <4>1. y \in Int /\ l * q \in Int BY <1>2, <1>7
      <4> HIDE DEF y
      <4> QED BY <1>2, <1>4, <2>1, <3>1, <4>1
    <3> HIDE DEF u, v
    <3>3. u % q = v % q BY <1>2, <3>2, SameMod
    <3> QED BY <3>3 DEF u, v
  <2> HIDE DEF y, z
  <2>3. Ext(T, Factor * z) = GateValue(gate, (y + 4 * h) % q) BY <1>1, <2>1, <2>2
  <2>4. GateValue(gate, y) = (-GateValue(gate, (y + 4 * h) % q)) % Q
    BY <1>7, GateValueFits
  <2>5. Factor * x = Factor * z + N /\ Factor * z \in Int
    <3>1. Factor * (z + 4 * h) = Factor * z + Factor * (4 * h) BY <1>2, <2>1
    <3>2. Factor * z \in Int BY <1>2, <2>1
    <3> QED BY <1>2, <2>1, <3>1, <3>2
  <2>6. Ext(T, Factor * z + N) = (-Ext(T, Factor * z)) % Q BY <1>1, <2>5, ExtHalfTurn
  <2> QED BY <1>5, <1>6, <2>3, <2>4, <2>5, <2>6 DEF T
<1> QED BY <1>8, <1>9

LEMMA BootstrapCoreIs ==
  ASSUME NEW method \in {"AP", "GINX"}, NEW gate \in Gates, NEW s \in Secrets,
         NEW a \in Entries, NEW b \in 0 .. q - 1
  PROVE  /\ Dot(a, s) \in Int
         /\ BootstrapCore(method, gate, s, a, b) = GateValue(gate, (b - Dot(a, s)) % q)
<1> DEFINE T == TestPolynomial(gate, b)
           Left(i) == (q - a[i]) % q
           Step(y, i) == IF method = "AP" THEN AddToACCAP(y, s[i], Left(i))
                         ELSE AddToACCGINX(y, s[i], Left(i))
           Turn(i) == Factor * (s[i] * Left(i))
           IsAcc(f) == f = [i \in 0 .. n |-> IF i = 0 THEN T ELSE Step(f[i - 1], i)]
           acc == CHOOSE f : IsAcc(f)
<1>1. BootstrapCore(method, gate, s, a, b) = acc[n][0] BY DEF BootstrapCore
<1>2. T \in Polynomials BY TestPolynomialIs
<1>3. n \in Nat /\ q \in Nat /\ q > 0 /\ Factor \in Nat /\ N \in Nat BY Parameters, FactorIs
<1>4. ASSUME NEW i \in 1 .. n
      PROVE  /\ a[i] \in Int /\ s[i] \in -1 .. 1 /\ Left(i) \in 0 .. q - 1
             /\ \E k \in Int : Left(i) = -a[i] + k * q
  <2>1. a[i] \in 0 .. q /\ s[i] \in -1 .. 1 BY DEF Entries, Secrets
  <2> DEFINE x == q - a[i]
  <2>2. x \in Int BY <1>3, <2>1
  <2> HIDE DEF x
  <2>3. PICK k \in Int : x % q \in 0 .. q - 1 /\ x % q = x + k * q BY <1>3, <2>2, ModIs
  <2> DEFINE l == k + 1
  <2>4. x % q = -a[i] + l * q /\ l \in Int
    <3>1. (k + 1) * q = k * q + q /\ k * q \in Int BY <1>3
    <3>2. x = q - a[i] BY DEF x
    <3> QED BY <1>3, <2>1, <2>3, <3>1, <3>2
  <2> QED BY <2>1, <2>3, <2>4 DEF x
<1> HIDE DEF T, Left
<1>5. ASSUME NEW i \in 1 .. n, NEW y \in Polynomials
      PROVE  /\ Step(y, i) = TimesMonomial(y, Turn(i)) /\ Turn(i) \in Int
             /\ TimesMonomial(y, Turn(i)) \in Polynomials
  <2>1. s[i] \in -1 .. 1 /\ Left(i) \in 0 .. q - 1 BY <1>4
  <2>2. /\ AddToACCAP(y, s[i], Left(i)) = TimesMonomial(y, Turn(i))
        /\ AddToACCGINX(y, s[i], Left(i)) = TimesMonomial(y, Turn(i))
    BY <2>1, AccumulatesAP, AccumulatesGINX
  <2>3. Turn(i) \in Int
    <3> DEFINE x == s[i] * Left(i)
    <3>1. x \in Int BY <1>3, <2>1, SignTimes
    <3> HIDE DEF x
    <3>2. Factor * x \in Int BY <1>3, <3>1
    <3> QED BY <3>2 DEF x
  <2> HIDE DEF Turn
  <2>4. TimesMonomial(y, Turn(i)) \in Polynomials BY <2>3, ShiftIs
  <2> QED BY <2>2, <2>3, <2>4
<1> HIDE DEF Turn, Step
<1> DEFINE g == [i \in 1 .. n |-> [y \in Polynomials |-> Step(y, i)]]
<1>6. IsAcc(acc)
  <2>1. Recursion(Polynomials, T, n, g)
    <3>1. \A i \in 1 .. n : \A y \in Polynomials : Step(y, i) \in Polynomials BY <1>5
    <3> QED BY <1>2, <1>3, <3>1 DEF Recursion
  <2>2. PICK f : Iterates(f, Polynomials, T, n, g)
    <3> HIDE DEF g
    <3> QED BY <2>1, RecursionExists
  <2>3. IsAcc(f)
    <3>1. f \in [0 .. n -> Polynomials] BY <2>2 DEF Iterates
    <3>2. f = [i \in 0 .. n |-> IF i = 0 THEN T ELSE g[i][f[i - 1]]]
      BY <2>2 DEF Iterates
    <3>3. ASSUME NEW i \in 0 .. n, i # 0
          PROVE  g[i][f[i - 1]] = Step(f[i - 1], i)
      <4>1. i \in 1 .. n /\ i - 1 \in 0 .. n BY <1>3, <3>3
      <4>2. f[i - 1] \in Polynomials BY <3>1, <4>1
      <4> QED BY <4>1, <4>2
    <3> HIDE DEF g
    <3> QED BY <3>2, <3>3
  <2> HIDE DEF IsAcc
  <2> QED BY <2>3
<1> HIDE DEF acc, g
<1>7. acc[0] = T /\ \A i \in 1 .. n : acc[i] = Step(acc[i - 1], i)
  <2>1. 0 \in 0 .. n /\ \A i \in 1 .. n : i \in 0 .. n /\ i # 0 BY <1>3
  <2> QED BY <1>6, <2>1
<1> HIDE DEF IsAcc
<1>8. a \in [1 .. n -> Int] BY <1>3 DEF Entries
<1>9. PICK F \in [0 .. n -> Int] :
        F[0] = 0 /\ (\A i \in 1 .. n : F[i] = F[i - 1] + a[i] * s[i]) /\ Dot(a, s) = F[n]
  BY <1>8, DotSums
<1> DEFINE S == {m \in Nat : m <= n => acc[m] = TimesMonomial(T, -(Factor * F[m]))}
<1>10. 0 \in S
  <2>1. -(Factor * 0) = 0 BY <1>3
  <2> QED BY <1>2, <1>7, <1>9, <2>1, ShiftByZero
<1>11. ASSUME NEW m \in Nat, m \in S PROVE m + 1 \in S
  <2> SUFFICES ASSUME m + 1 <= n PROVE acc[m + 1] = TimesMonomial(T, -(Factor * F[m + 1]))
    OBVIOUS
  <2> DEFINE i == m + 1
             x == F[m]
             y == F[i]
             ai == a[i]
             si == s[i]
             t == Left(i)
  <2>1. i \in 1 .. n /\ i - 1 = m /\ m \in 0 .. n /\ m <= n /\ i \in 0 .. n BY <1>3
  <2>2. acc[m] = TimesMonomial(T, -(Factor * x)) BY <1>11, <2>1
  <2>3. x \in Int /\ y \in Int /\ y = x + ai * si BY <1>9, <2>1
  <2>4. PICK k \in Int : ai \in Int /\ si \in -1 .. 1 /\ t = -ai + k * q BY <1>4, <2>1
  <2>5. Turn(i) = Factor * (si * t) /\ Turn(i) \in Int BY <1>2, <1>5, <2>1 DEF Turn
  <2>6. acc[i] = Step(acc[m], i) BY <1>7, <2>1
  <2> HIDE DEF i, x, y, ai, si, t, S
  <2> DEFINE u == -(Factor * x)
             z == ai * si
             v == -(Factor * z)
             l == si * k
  <2>7. /\ z \in Int /\ l \in Int /\ u \in Int /\ v \in Int
        /\ Factor * (-z) \in Int /\ Factor * (-z) = v
    <3>1. z \in Int /\ l \in Int BY <2>4, SignTimes
    <3> HIDE DEF z, l
    <3>2. Factor * (-z) \in Int /\ Factor * (-z) = -(Factor * z) /\ Factor * z \in Int
      BY <1>3, <3>1
    <3>3. Factor * x \in Int BY <1>3, <2>3
    <3> QED BY <3>1, <3>2, <3>3
  <2>8. si * t = -z + l * q
    <3>1. si = -1 \/ si = 0 \/ si = 1 BY <2>4
    <3>2. k * q \in Int /\ t \in Int BY <1>3, <2>4
    <3>3. CASE si = -1
      <4>1. z = -ai /\ l = -k /\ (-k) * q = -(k * q) /\ si * t = -t BY <1>3, <2>4, <3>2, <3>3
      <4> DEFINE w == k * q
      <4>2. w \in Int /\ l * q = -w /\ t = -ai + w BY <2>4, <3>2, <4>1
      <4> HIDE DEF w, l, z
      <4>3. -t = -z + -w BY <2>4, <4>1, <4>2
      <4> QED BY <4>1, <4>2, <4>3
    <3>4. CASE si = 0
      <4>1. z = 0 /\ l = 0 /\ l * q = 0 /\ si * t = 0 BY <1>3, <2>4, <3>2, <3>4
      <4> QED BY <4>1
    <3>5. CASE si = 1
      <4>1. z = ai /\ l = k /\ si * t = t BY <1>3, <2>4, <3>2, <3>5
      <4> QED BY <2>4, <3>2, <4>1
    <3> QED BY <3>1, <3>3, <3>4, <3>5
  <2>9. Turn(i) = v + l * (2 * N)
    <3> DEFINE mz == -z
    <3>1. mz \in Int BY <2>7
    <3>2. Factor * (si * t) = Factor * (mz + l * q) BY <2>8
    <3>3. Factor * mz = v BY <2>7
    <3> HIDE DEF mz, l, v
    <3>4. Factor * (mz + l * q) = Factor * mz + l * (2 * N) BY <2>7, <3>1, FactorIs
    <3> QED BY <2>5, <3>2, <3>3, <3>4
  <2>10. -(Factor * y) = u + v
    <3> DEFINE w == z
    <3>1. w \in Int /\ y = x + w BY <2>3, <2>7
    <3> HIDE DEF w
    <3>2. Factor * (x + w) = Factor * x + Factor * w BY <1>3, <2>3, <3>1
    <3>3. Factor * x \in Int /\ Factor * w \in Int BY <1>3, <2>3, <3>1
    <3>4. -(Factor * y) = -(Factor * x) + -(Factor * w) BY <3>1, <3>2, <3>3
    <3> QED BY <3>4 DEF w
  <2>11. u \in Int /\ v \in Int /\ l \in Int /\ acc[m] = TimesMonomial(T, u) BY <2>2, <2>7
  <2> HIDE DEF u, v, l
  <2>12. acc[m] \in Polynomials BY <1>2, <2>11, ShiftIs
  <2>13. acc[i] = TimesMonomial(acc[m], Turn(i)) BY <1>5, <2>1, <2>6, <2>12
  <2>14. TimesMonomial(acc[m], Turn(i)) = TimesMonomial(acc[m], v)
    BY <2>5, <2>9, <2>11, <2>12, ShiftTurns
  <2>15. TimesMonomial(TimesMonomial(T, u), v) = TimesMonomial(T, u + v)
    BY <1>2, <2>11, ShiftTwice
  <2>16. acc[i] = TimesMonomial(T, -(Factor * y)) BY <2>10, <2>11, <2>13, <2>14, <2>15
  <2> QED BY <2>16 DEF i, y
<1> HIDE DEF S
<1>12. \A m \in Nat : m \in S BY <1>10, <1>11, SetInduction
<1> DEFINE D == Dot(a, s)
<1>13. D \in Int /\ acc[n] = TimesMonomial(T, -(Factor * D))
  <2>1. n \in 0 .. n BY <1>3
  <2> QED BY <1>3, <1>9, <1>12, <2>1 DEF S
<1> HIDE DEF D
<1>14. acc[n][0] = Ext(T, Factor * D)
  <2> DEFINE k == -(Factor * D)
  <2>1. Factor * D \in Int /\ k \in Int /\ 0 - k = Factor * D BY <1>3, <1>13
  <2>2. acc[n] = TimesMonomial(T, k) BY <1>13
  <2> HIDE DEF k
  <2>3. acc[n] = [i \in 0 .. N - 1 |-> Ext(T, i - k)] BY <1>2, <2>1, <2>2, ShiftIs
  <2>4. 0 \in 0 .. N - 1 BY RingAssumption
  <2>5. acc[n][0] = Ext(T, 0 - k) BY <2>3, <2>4
  <2> QED BY <2>1, <2>5
<1>15. Ext(T, Factor * D) = GateValue(gate, (b - D) % q)
  BY <1>13, TestPolynomialTurned DEF T
<1> QED BY <1>1, <1>13, <1>14, <1>15 DEF D

-----------------------------------------------------------------------------
(***************************************************************************)
(* What a bootstrapping returns.                                           *)
(***************************************************************************)

\* A reduced ciphertext that u and e leave with a small error when they fit.
Fresh(c, k, u, e) ==
  /\ Reduced(c)
  /\ SamplesFit(k, u, e) => \E m \in Bits : Carries(c, SecretOf[k], m)

LEMMA RefreshedCarries ==
  ASSUME NEW k \in Keys, NEW method \in {"AP", "GINX"}, NEW gate \in Gates,
         NEW a \in Entries, NEW b \in 0 .. q - 1, NEW u \in VectorsQ, NEW e \in Errors,
         NEW bit \in Bits, NEW x \in 0 .. q - 1, NEW j \in Int,
         x = b - Dot(a, SecretOf[k]) + j * q,
         x \in Upper(gate) <=> bit = 1
  PROVE  /\ Reduced(Refreshed(method, gate, SecretOf[k], a, b, u, e))
         /\ SamplesFit(k, u, e) =>
              Carries(Refreshed(method, gate, SecretOf[k], a, b, u, e), SecretOf[k], bit)
<1> DEFINE s == SecretOf[k]
           value == BootstrapCore(method, gate, s, a, b)
           P == IF bit = 1 THEN 2 * Q8 ELSE 0
           du == Dot(u, s)
           bQ == (Inner(u, s, Q) + P + e) % Q
           w == [i \in 1 .. n |-> RoundqQ(u[i])]
           D == Dot([i \in 1 .. n |-> RoundedBy(u[i])], s)
<1>1. s \in Secrets /\ e \in Int /\ u \in [1 .. n -> 0 .. Q - 1] BY SampleAssumption
<1>2. q \in Nat /\ q > 0 /\ Q \in Nat /\ Q > 0 /\ b \in Int BY Parameters
<1>3. (b - Dot(a, s)) % q = x
  <2> DEFINE d == b - Dot(a, s)
             y == d % q
  <2>1. d \in Int /\ x = d + j * q BY <1>1, <1>2, BootstrapCoreIs
  <2> HIDE DEF d
  <2>2. PICK l \in Int : y \in 0 .. q - 1 /\ y = d + l * q BY <1>2, <2>1, ModIs
  <2> HIDE DEF y
  <2> DEFINE m == j - l
  <2>3. m \in Int /\ m * q = j * q - l * q /\ j * q \in Int /\ l * q \in Int BY <1>2
  <2> HIDE DEF m
  <2>4. x = y + m * q BY <2>1, <2>2, <2>3
  <2>5. x = y BY <1>2, <2>2, <2>3, <2>4, SameRemainder
  <2> QED BY <2>5 DEF y, d
<1>4. value = IF bit = 1 THEN Q8 ELSE Q - Q8
  <2>1. value = GateValue(gate, x) BY <1>1, <1>3, BootstrapCoreIs
  <2> QED BY <2>1, GateTable
<1> HIDE DEF value, s
<1>5. ModAddFast(Q8, value, Q) = P
  <2>1. Q8 \in Nat /\ 0 < Q8 /\ 2 * Q8 < Q BY EighthFits
  <2> QED BY <1>2, <1>4, <2>1 DEF ModAddFast
<1>6. Refreshed(method, gate, s, a, b, u, e) = [a |-> w, b |-> RoundqQ(bQ)]
  <2>1. Refreshed(method, gate, s, a, b, u, e) = ModSwitch(KeySwitchLWE(s, P, u, e))
    BY <1>5 DEF Refreshed, value
  <2>2. KeySwitchLWE(s, P, u, e) = [a |-> u, b |-> bQ] BY DEF KeySwitchLWE
  <2> HIDE DEF P, bQ
  <2> QED BY <2>1, <2>2 DEF ModSwitch
<1>7. P \in Int BY EighthFits
<1>8. /\ w \in Entries /\ du \in Int /\ Dot(w, s) \in Int /\ D \in Int
      /\ \E kw \in Int : (2 * Q) * Dot(w, s) = (2 * q) * du + D + (2 * Q * q) * kw
  BY <1>1, SwitchedDot
<1>9. bQ \in 0 .. Q - 1 /\ \E kQ \in Int : bQ = du + P + e + kQ * Q
  <2> DEFINE I == du % Q
             t == I + P + e
  <2>1. PICK l \in Int : I = du + l * Q /\ I \in Int
    <3>1. du \in Int BY <1>8
    <3> HIDE DEF du
    <3>2. du % Q \in Int BY <1>2, <3>1
    <3>3. \E l \in Int : du % Q = du + l * Q BY <1>2, <3>1, ModIs
    <3> QED BY <3>2, <3>3
  <2>2. bQ = t % Q /\ t \in Int
    <3>1. bQ = t % Q BY DEF Inner
    <3> HIDE DEF I, P
    <3> QED BY <1>1, <1>7, <2>1, <3>1
  <2>3. t = I + P + e OBVIOUS
  <2>0. du \in Int BY <1>8
  <2> HIDE DEF bQ, t, I, P, du
  <2>4. PICK m \in Int : t % Q \in 0 .. Q - 1 /\ t % Q = t + m * Q BY <1>2, <2>2, ModIs
  <2> DEFINE kQ == l + m
  <2>5. kQ \in Int /\ kQ * Q = l * Q + m * Q /\ l * Q \in Int /\ m * Q \in Int BY <1>2
  <2> HIDE DEF kQ
  <2>6. bQ = du + P + e + kQ * Q
    <3>1. du \in Int /\ P \in Int /\ e \in Int BY <1>1, <1>7, <2>0
    <3>2. bQ = t + m * Q /\ I = du + l * Q /\ kQ * Q = l * Q + m * Q
      BY <2>1, <2>2, <2>4, <2>5
    <3>3. t = (du + l * Q) + P + e BY <2>3, <3>2
    <3> DEFINE lQ == l * Q
               mQ == m * Q
               kQQ == kQ * Q
    <3>4. /\ lQ \in Int /\ mQ \in Int /\ kQQ = lQ + mQ /\ t = (du + lQ) + P + e
          /\ bQ = t + mQ
      BY <2>5, <3>2, <3>3
    <3> HIDE DEF lQ, mQ, kQQ
    <3>5. bQ = du + P + e + kQQ BY <3>1, <3>4
    <3> QED BY <3>5 DEF kQQ
  <2> QED BY <2>2, <2>4, <2>5, <2>6
<1> HIDE DEF w, bQ
<1>10. /\ RoundqQ(bQ) \in 0 .. q - 1
       /\ RoundedBy(bQ) \in Int /\ -Q < RoundedBy(bQ) /\ RoundedBy(bQ) <= Q
       /\ \E kb \in Int : (2 * Q) * RoundqQ(bQ) = (2 * q) * bQ + RoundedBy(bQ) + (2 * Q * q) * kb
  BY <1>9, Rounded
<1>11. SamplesFit(k, u, e) =>
         16 * ((2 * q * e - D) + Q + 4 * q) < q * Q /\ 16 * (Q - (2 * q * e - D)) < q * Q
  BY DEF s, SamplesFit
<1> DEFINE dw == Dot(w, s)
           bq == RoundqQ(bQ)
           r == RoundedBy(bQ)
<1>12. PICK kw \in Int : (2 * Q) * dw = (2 * q) * du + D + (2 * Q * q) * kw BY <1>8
<1>13. PICK kQ \in Int : bQ = du + (IF bit = 1 THEN 2 * Q8 ELSE 0) + e + kQ * Q BY <1>9
<1>14. PICK kb \in Int : (2 * Q) * bq = (2 * q) * bQ + r + (2 * Q * q) * kb BY <1>10
<1>15. /\ bQ \in Int /\ bq \in Int /\ bq \in 0 .. q - 1 /\ r \in Int /\ -Q < r /\ r <= Q
       /\ D \in Int /\ dw \in Int /\ du \in Int /\ e \in Int
  BY <1>1, <1>2, <1>8, <1>9, <1>10
<1> HIDE DEF dw, bq, r, du, D
<1> HIDE DEF P
<1>16. Reduced([a |-> w, b |-> bq]) BY <1>8, <1>15 DEF Reduced
<1>17. ASSUME SamplesFit(k, u, e) PROVE Carries([a |-> w, b |-> bq], s, bit)
  <2>1. Switched(bit, e, D, dw, du, kw, bq, r, kb, bQ, kQ)
    BY <1>11, <1>12, <1>13, <1>14, <1>15, <1>17 DEF Switched
  <2>2. \E noise, l \in Int : /\ 32 * noise < q /\ -32 * noise < q
                              /\ bq = dw + Level(bit) + noise + l * q
    BY <2>1, NoiseShrinks
  <2> QED BY <1>16, <2>2 DEF Carries, dw
<1> QED BY <1>6, <1>16, <1>17 DEF bq, s

\* Whatever the phase is: the new error depends on the new samples alone.
LEMMA RefreshedIsFresh ==
  ASSUME NEW k \in Keys, NEW method \in {"AP", "GINX"}, NEW gate \in Gates,
         NEW a \in Entries, NEW b \in 0 .. q - 1, NEW u \in VectorsQ, NEW e \in Errors
  PROVE  Fresh(Refreshed(method, gate, SecretOf[k], a, b, u, e), k, u, e)
<1> DEFINE d == Dot(a, SecretOf[k])
           y == b - d
           x == y % q
           bit == IF x \in Upper(gate) THEN 1 ELSE 0
<1>1. q \in Nat /\ q > 0 /\ b \in Int BY Parameters
<1>2. d \in Int BY SampleAssumption, BootstrapCoreIs
<1>3. y \in Int BY <1>1, <1>2
<1>4. y = b - d OBVIOUS
<1> HIDE DEF y
<1>5. PICK j \in Int : x \in 0 .. q - 1 /\ x = y + j * q BY <1>1, <1>3, ModIs
<1> HIDE DEF x
<1>6. bit \in Bits /\ (x \in Upper(gate) <=> bit = 1) BY DEF Bits
<1>7. x = b - Dot(a, SecretOf[k]) + j * q BY <1>4, <1>5
<1> HIDE DEF bit, d
<1> QED BY <1>5, <1>6, <1>7, RefreshedCarries DEF Fresh

\* The multiples of q / 4 that a gate maps to Q / 8.
Maps(gate, l) ==
  CASE gate \in {"OR", "XOR_FAST"} -> l # 0
    [] gate = "AND" -> l \in {-2, 2}
    [] gate \in {"NOR", "XNOR_FAST"} -> l = 0
    [] gate = "NAND" -> l \notin {-2, 2}

\* An error below q / 8 does no harm.
LEMMA GateMaps ==
  ASSUME NEW gate \in Gates, NEW l \in {-2, 0, 1, 2}, NEW noise \in Int, -h < noise, noise < h,
         NEW k \in Int, NEW x \in 0 .. q - 1, x = l * (2 * h) + noise + k * q
  PROVE  x \in Upper(gate) <=> Maps(gate, l)
<1>1. h \in Nat /\ h >= 4 /\ q = 8 * h /\ q \in Nat /\ q > 0 /\ x \in Int BY Parameters DEF h
<1> DEFINE y == l * (2 * h) + noise
<1>2. y \in Int /\ x = y + k * q /\ -q < y /\ y < q BY <1>1
<1>3. /\ l = -2 => y = noise - 4 * h
      /\ l = 0 => y = noise
      /\ l = 1 => y = noise + 2 * h
      /\ l = 2 => y = noise + 4 * h
  BY <1>1
<1> HIDE DEF y
<1>4. x = y \/ x = y + q BY <1>1, <1>2, Remainder
<1>5. /\ l = 0 => x < h \/ 7 * h <= x
      /\ l = 1 => h <= x /\ x < 3 * h
      /\ l \in {-2, 2} => 3 * h <= x /\ x < 5 * h
  BY <1>1, <1>3, <1>4
<1>6. \A g \in {"OR", "XOR_FAST"} : x \in Upper(g) <=> Maps(g, l)
  <2>1. (h <= x /\ x < 5 * h) <=> l # 0 BY <1>1, <1>5
  <2> QED BY <2>1, InUpper DEF Maps
<1>7. \A g \in {"NOR", "XNOR_FAST"} : x \in Upper(g) <=> Maps(g, l)
  <2>1. (x < h \/ 5 * h <= x) <=> l = 0 BY <1>1, <1>5
  <2> QED BY <2>1, InUpper DEF Maps
<1>8. x \in Upper("AND") <=> Maps("AND", l)
  <2>1. (3 * h <= x /\ x < 7 * h) <=> l \in {-2, 2} BY <1>1, <1>5
  <2> QED BY <2>1, InUpper DEF Maps
<1>9. x \in Upper("NAND") <=> Maps("NAND", l)
  <2>1. (x < 3 * h \/ 7 * h <= x) <=> l \notin {-2, 2} BY <1>1, <1>5
  <2> QED BY <2>1, InUpper DEF Maps
<1> QED BY <1>6, <1>7, <1>8, <1>9 DEF Gates

-----------------------------------------------------------------------------
(***************************************************************************)
(* Gates return ciphertexts of their truth tables.                         *)
(***************************************************************************)

\* An inner product is an integer, also of vectors with entries q.
LEMMA EntriesDot == \A a \in Entries : \A s \in Secrets : Dot(a, s) \in Int
<1>1. \A a \in Entries : a \in [1 .. n -> Int] BY Parameters DEF Entries
<1> QED BY <1>1, DotIsInt

\* The gate that (a, b) is mapped by, where b is the phase l * q / 4 and an error.
LEMMA RefreshedByPhase ==
  ASSUME NEW k \in Keys, NEW method \in {"AP", "GINX"}, NEW gate \in Gates,
         NEW a \in Entries, NEW b \in 0 .. q - 1, NEW u \in VectorsQ, NEW e \in Errors,
         NEW bit \in Bits, NEW l \in {-2, 0, 1, 2}, NEW noise \in Int, NEW j \in Int,
         -h < noise, noise < h,
         b = Dot(a, SecretOf[k]) + l * (2 * h) + noise + j * q,
         Maps(gate, l) <=> bit = 1, SamplesFit(k, u, e)
  PROVE  Carries(Refreshed(method, gate, SecretOf[k], a, b, u, e), SecretOf[k], bit)
<1> DEFINE d == Dot(a, SecretOf[k])
           y == b - d
           x == y % q
<1>1. q \in Nat /\ q > 0 /\ h \in Nat BY Parameters DEF h
<1>2. d \in Int BY SampleAssumption, EntriesDot
<1>3. b = d + l * (2 * h) + noise + j * q OBVIOUS
<1> HIDE DEF d
<1>4. y \in Int /\ y = l * (2 * h) + noise + j * q BY <1>1, <1>2, <1>3
<1>5. y = b - d OBVIOUS
<1> HIDE DEF y
<1>6. PICK i \in Int : x \in 0 .. q - 1 /\ x = y + i * q BY <1>1, <1>4, ModIs
<1> HIDE DEF x
<1> DEFINE m == j + i
<1>7. m \in Int /\ x = l * (2 * h) + noise + m * q
  <2>1. m \in Int /\ m * q = j * q + i * q /\ j * q \in Int /\ i * q \in Int BY <1>1
  <2> HIDE DEF m
  <2> QED BY <1>1, <1>4, <1>6, <2>1
<1> HIDE DEF m
<1>8. x \in Upper(gate) <=> bit = 1 BY <1>6, <1>7, GateMaps
<1>9. x = b - Dot(a, SecretOf[k]) + i * q BY <1>5, <1>6 DEF d
<1> QED BY <1>6, <1>8, <1>9, RefreshedCarries

\* The error of the bit that c carries.
LEMMA CarriedNoise ==
  ASSUME NEW c, NEW s \in Secrets, NEW bit \in Bits, Carries(c, s, bit)
  PROVE  /\ c.a \in Entries /\ c.b \in 0 .. q - 1 /\ c.b \in Int /\ Dot(c.a, s) \in Int
         /\ \E noise, k \in Int : /\ 4 * noise < h /\ -h < 4 * noise
                                  /\ c.b = Dot(c.a, s) + bit * (2 * h) + noise + k * q
<1>1. PICK noise, k \in Int : /\ 32 * noise < q /\ -32 * noise < q
                              /\ c.b = Dot(c.a, s) + Level(bit) + noise + k * q
  BY DEF Carries
<1>2. q = 8 * h /\ h \in Nat /\ q \in Nat BY Parameters DEF h
<1>3. 4 * noise < h /\ -h < 4 * noise BY <1>1, <1>2
<1>4. Level(bit) = bit * (2 * h) BY <1>2 DEF Level, Bits
<1>5. c.a \in Entries /\ c.b \in 0 .. q - 1 BY DEF Carries, Reduced
<1>6. Dot(c.a, s) \in Int BY <1>5, EntriesDot
<1> QED BY <1>1, <1>2, <1>3, <1>4, <1>5, <1>6

\* The Fast methods give the sum and the difference modulo q.
LEMMA FastSums ==
  ASSUME NEW x \in 0 .. q - 1, NEW y \in 0 .. q - 1
  PROVE  /\ ModAddFast(x, y, q) \in 0 .. q - 1 /\ ModSubFast(x, y, q) \in 0 .. q - 1
         /\ \E k \in Int : ModAddFast(x, y, q) = x + y + k * q
         /\ \E k \in Int : ModSubFast(x, y, q) = x - y + k * q
<1>1. q \in Nat /\ q > 0 /\ x \in Int /\ y \in Int BY Parameters
<1>2. /\ ModAddFast(x, y, q) = IF x + y >= q THEN x + y - q ELSE x + y
      /\ ModSubFast(x, y, q) = IF x >= y THEN x - y ELSE x + (q - y)
  BY DEF ModAddFast, ModSubFast
<1>3. ModAddFast(x, y, q) \in 0 .. q - 1 /\ ModSubFast(x, y, q) \in 0 .. q - 1
  BY <1>1, <1>2
<1>4. /\ x + y - q = x + y + (-1) * q /\ x + y = x + y + 0 * q
      /\ x - y = x - y + 0 * q /\ x + (q - y) = x - y + 1 * q
      /\ -1 \in Int /\ 0 \in Int /\ 1 \in Int
  BY <1>1
<1>5. \E k \in Int : ModAddFast(x, y, q) = x + y + k * q BY <1>2, <1>4
<1>6. \E k \in Int : ModSubFast(x, y, q) = x - y + k * q BY <1>2, <1>4
<1> QED BY <1>3, <1>5, <1>6

LEMMA SumCarries ==
  ASSUME NEW k \in Keys, NEW method \in {"AP", "GINX"}, NEW gate \in {"OR", "AND", "NOR", "NAND"},
         NEW c1, NEW c2, NEW bit1 \in Bits, NEW bit2 \in Bits, NEW u \in VectorsQ, NEW e \in Errors,
         Carries(c1, SecretOf[k], bit1), Carries(c2, SecretOf[k], bit2),
         SamplesFit(k, u, e)
  PROVE  /\ Truth(gate, bit1, bit2) \in Bits
         /\ Carries(SimpleGate(method, gate, SecretOf[k], c1, c2, u, e), SecretOf[k],
                    Truth(gate, bit1, bit2))
<1> DEFINE s == SecretOf[k]
           a == VectorAdd(c1.a, c2.a)
           b == ModAddFast(c1.b, c2.b, q)
           d1 == Dot(c1.a, s)
           d2 == Dot(c2.a, s)
           d == Dot(a, s)
           l == bit1 + bit2
<1>1. s \in Secrets /\ gate \in Gates BY SampleAssumption DEF Gates
<1>2. SimpleGate(method, gate, s, c1, c2, u, e) = Refreshed(method, gate, s, a, b, u, e)
  BY DEF SimpleGate
<1> HIDE DEF s
<1>3. PICK n1, k1 \in Int :
        /\ c1.a \in Entries /\ c1.b \in 0 .. q - 1 /\ c1.b \in Int /\ d1 \in Int
        /\ 4 * n1 < h /\ -h < 4 * n1 /\ c1.b = d1 + bit1 * (2 * h) + n1 + k1 * q
  BY <1>1, CarriedNoise DEF s
<1>4. PICK n2, k2 \in Int :
        /\ c2.a \in Entries /\ c2.b \in 0 .. q - 1 /\ c2.b \in Int /\ d2 \in Int
        /\ 4 * n2 < h /\ -h < 4 * n2 /\ c2.b = d2 + bit2 * (2 * h) + n2 + k2 * q
  BY <1>1, CarriedNoise DEF s
<1>5. PICK k3 \in Int : a \in Entries /\ d = d1 + d2 + k3 * q
  BY <1>1, <1>3, <1>4, VectorAddDot
<1>6. PICK k4 \in Int : b \in 0 .. q - 1 /\ b = c1.b + c2.b + k4 * q
  BY <1>3, <1>4, FastSums
<1>7. d \in Int BY <1>1, <1>5, EntriesDot
<1> HIDE DEF a, b, d, d1, d2
<1> DEFINE noise == n1 + n2
           j == k1 + k2 + k4 - k3
<1>8. q \in Nat /\ h \in Nat /\ h > 0 BY Parameters DEF h
<1>9. noise \in Int /\ -h < noise /\ noise < h /\ j \in Int BY <1>3, <1>4, <1>8
<1>10. l \in {-2, 0, 1, 2} /\ l \in Int /\ l * (2 * h) = bit1 * (2 * h) + bit2 * (2 * h)
       /\ bit1 * (2 * h) \in Int /\ bit2 * (2 * h) \in Int
  BY <1>8 DEF Bits
<1>11. b = d + l * (2 * h) + noise + j * q
  <2>1. /\ j * q = k1 * q + k2 * q + k4 * q - k3 * q
        /\ k1 * q \in Int /\ k2 * q \in Int /\ k3 * q \in Int /\ k4 * q \in Int
    BY <1>8
  <2> DEFINE x1 == k1 * q
             x2 == k2 * q
             x3 == k3 * q
             x4 == k4 * q
             y1 == bit1 * (2 * h)
             y2 == bit2 * (2 * h)
             z == j * q
             y == l * (2 * h)
  <2>2. /\ z = x1 + x2 + x4 - x3 /\ y = y1 + y2
        /\ x1 \in Int /\ x2 \in Int /\ x3 \in Int /\ x4 \in Int /\ y1 \in Int /\ y2 \in Int
        /\ c1.b = d1 + y1 + n1 + x1 /\ c2.b = d2 + y2 + n2 + x2
        /\ d = d1 + d2 + x3 /\ b = c1.b + c2.b + x4
    BY <1>3, <1>4, <1>5, <1>6, <1>10, <2>1
  <2> HIDE DEF x1, x2, x3, x4, y1, y2, z, y, j, l
  <2>3. b = d + y + noise + z BY <1>3, <1>4, <2>2
  <2> QED BY <2>3 DEF y, z
<1>12. /\ Truth(gate, bit1, bit2) \in Bits
       /\ Maps(gate, l) <=> Truth(gate, bit1, bit2) = 1
  <2>1. gate = "OR" \/ gate = "AND" \/ gate = "NOR" \/ gate = "NAND" OBVIOUS
  <2>2. (bit1 = 0 \/ bit1 = 1) /\ (bit2 = 0 \/ bit2 = 1) BY DEF Bits
  <2>3. CASE gate = "OR" BY <2>2, <2>3 DEF Truth, Maps, Bits
  <2>4. CASE gate = "AND" BY <2>2, <2>4 DEF Truth, Maps, Bits
  <2>5. CASE gate = "NOR" BY <2>2, <2>5 DEF Truth, Maps, Bits
  <2>6. CASE gate = "NAND" BY <2>2, <2>6 DEF Truth, Maps, Bits
  <2> QED BY <2>1, <2>3, <2>4, <2>5, <2>6
<1> DEFINE bit == Truth(gate, bit1, bit2)
<1>13. bit \in Bits /\ (Maps(gate, l) <=> bit = 1) BY <1>12
<1> HIDE DEF noise, j, l, bit
<1>14. b = Dot(a, SecretOf[k]) + l * (2 * h) + noise + j * q BY <1>11 DEF d, s
<1>15. Carries(Refreshed(method, gate, SecretOf[k], a, b, u, e), SecretOf[k], bit)
  BY <1>1, <1>5, <1>6, <1>9, <1>10, <1>13, <1>14, RefreshedByPhase
<1> QED BY <1>2, <1>12, <1>15 DEF s, bit

LEMMA DifferenceCarries ==
  ASSUME NEW k \in Keys, NEW method \in {"AP", "GINX"}, NEW gate \in {"XOR_FAST", "XNOR_FAST"},
         NEW c1, NEW c2, NEW bit1 \in Bits, NEW bit2 \in Bits, NEW u \in VectorsQ, NEW e \in Errors,
         Carries(c1, SecretOf[k], bit1), Carries(c2, SecretOf[k], bit2),
         SamplesFit(k, u, e)
  PROVE  /\ Truth(gate, bit1, bit2) \in Bits
         /\ Carries(SimpleGate(method, gate, SecretOf[k], c1, c2, u, e), SecretOf[k],
                    Truth(gate, bit1, bit2))
<1> DEFINE s == SecretOf[k]
           a0 == VectorSub(c1.a, c2.a)
           b0 == ModSubFast(c1.b, c2.b, q)
           a == VectorAdd(a0, a0)
           b == ModAddFast(b0, b0, q)
           d1 == Dot(c1.a, s)
           d2 == Dot(c2.a, s)
           d0 == Dot(a0, s)
           d == Dot(a, s)
           l == 2 * (bit1 - bit2)
<1>1. s \in Secrets /\ gate \in Gates BY SampleAssumption DEF Gates
<1>2. SimpleGate(method, gate, s, c1, c2, u, e) = Refreshed(method, gate, s, a, b, u, e)
  BY DEF SimpleGate
<1> HIDE DEF s
<1>3. PICK n1, k1 \in Int :
        /\ c1.a \in Entries /\ c1.b \in 0 .. q - 1 /\ c1.b \in Int /\ d1 \in Int
        /\ 4 * n1 < h /\ -h < 4 * n1 /\ c1.b = d1 + bit1 * (2 * h) + n1 + k1 * q
  BY <1>1, CarriedNoise DEF s
<1>4. PICK n2, k2 \in Int :
        /\ c2.a \in Entries /\ c2.b \in 0 .. q - 1 /\ c2.b \in Int /\ d2 \in Int
        /\ 4 * n2 < h /\ -h < 4 * n2 /\ c2.b = d2 + bit2 * (2 * h) + n2 + k2 * q
  BY <1>1, CarriedNoise DEF s
<1>5. PICK k3 \in Int : a0 \in Entries /\ d0 = d1 - d2 + k3 * q
  BY <1>1, <1>3, <1>4, VectorSubDot
<1>6. PICK k4 \in Int : b0 \in 0 .. q - 1 /\ b0 = c1.b - c2.b + k4 * q
  BY <1>3, <1>4, FastSums
<1> HIDE DEF a0, b0
<1>7. PICK k5 \in Int : a \in Entries /\ d = d0 + d0 + k5 * q
  BY <1>1, <1>5, VectorAddDot
<1>8. PICK k6 \in Int : b \in 0 .. q - 1 /\ b = b0 + b0 + k6 * q
  BY <1>6, FastSums
<1>9. d \in Int /\ d0 \in Int BY <1>1, <1>5, <1>7, EntriesDot
<1> HIDE DEF a, b, d, d0, d1, d2
<1> DEFINE noise == 2 * (n1 - n2)
           j == 2 * (k1 - k2 + k4 - k3) + k6 - k5
<1>10. q \in Nat /\ h \in Nat /\ h > 0 BY Parameters DEF h
<1>11. noise \in Int /\ -h < noise /\ noise < h /\ j \in Int BY <1>3, <1>4, <1>10
<1>12. l \in {-2, 0, 1, 2} /\ l \in Int
       /\ l * (2 * h) = 2 * (bit1 * (2 * h) - bit2 * (2 * h))
       /\ bit1 * (2 * h) \in Int /\ bit2 * (2 * h) \in Int
  BY <1>10 DEF Bits
<1>13. b = d + l * (2 * h) + noise + j * q
  <2>1. /\ j * q = 2 * (k1 * q - k2 * q + k4 * q - k3 * q) + k6 * q - k5 * q
        /\ k1 * q \in Int /\ k2 * q \in Int /\ k3 * q \in Int /\ k4 * q \in Int
        /\ k5 * q \in Int /\ k6 * q \in Int
    BY <1>10
  <2> DEFINE x1 == k1 * q
             x2 == k2 * q
             x3 == k3 * q
             x4 == k4 * q
             x5 == k5 * q
             x6 == k6 * q
             y1 == bit1 * (2 * h)
             y2 == bit2 * (2 * h)
             z == j * q
             y == l * (2 * h)
  <2>2. /\ z = 2 * (x1 - x2 + x4 - x3) + x6 - x5 /\ y = 2 * (y1 - y2)
        /\ x1 \in Int /\ x2 \in Int /\ x3 \in Int /\ x4 \in Int /\ x5 \in Int /\ x6 \in Int
        /\ y1 \in Int /\ y2 \in Int
        /\ c1.b = d1 + y1 + n1 + x1 /\ c2.b = d2 + y2 + n2 + x2
        /\ d0 = d1 - d2 + x3 /\ b0 = c1.b - c2.b + x4
        /\ d = d0 + d0 + x5 /\ b = b0 + b0 + x6
    BY <1>3, <1>4, <1>5, <1>6, <1>7, <1>8, <1>12, <2>1
  <2> HIDE DEF x1, x2, x3, x4, x5, x6, y1, y2, z, y, j, l
  <2>3. b = d + y + noise + z BY <1>3, <1>4, <2>2
  <2> QED BY <2>3 DEF y, z
<1>14. /\ Truth(gate, bit1, bit2) \in Bits
       /\ Maps(gate, l) <=> Truth(gate, bit1, bit2) = 1
  <2>1. gate = "XOR_FAST" \/ gate = "XNOR_FAST" OBVIOUS
  <2>2. (bit1 = 0 \/ bit1 = 1) /\ (bit2 = 0 \/ bit2 = 1) BY DEF Bits
  <2>3. CASE gate = "XOR_FAST" BY <2>2, <2>3 DEF Truth, Maps, Bits
  <2>4. CASE gate = "XNOR_FAST" BY <2>2, <2>4 DEF Truth, Maps, Bits
  <2> QED BY <2>1, <2>3, <2>4
<1> DEFINE bit == Truth(gate, bit1, bit2)
<1>15. bit \in Bits /\ (Maps(gate, l) <=> bit = 1) BY <1>14
<1> HIDE DEF noise, j, l, bit
<1>16. b = Dot(a, SecretOf[k]) + l * (2 * h) + noise + j * q BY <1>13 DEF d, s
<1>17. Carries(Refreshed(method, gate, SecretOf[k], a, b, u, e), SecretOf[k], bit)
  BY <1>1, <1>7, <1>8, <1>11, <1>12, <1>15, <1>16, RefreshedByPhase
<1> QED BY <1>2, <1>14, <1>17 DEF s, bit

LEMMA SimpleGateCarries ==
  ASSUME NEW k \in Keys, NEW method \in {"AP", "GINX"}, NEW gate \in Gates,
         NEW c1, NEW c2, NEW bit1 \in Bits, NEW bit2 \in Bits, NEW u \in VectorsQ, NEW e \in Errors,
         Carries(c1, SecretOf[k], bit1), Carries(c2, SecretOf[k], bit2), SamplesFit(k, u, e)
  PROVE  /\ Truth(gate, bit1, bit2) \in Bits
         /\ Carries(SimpleGate(method, gate, SecretOf[k], c1, c2, u, e), SecretOf[k],
                    Truth(gate, bit1, bit2))
<1>1. CASE gate \in {"OR", "AND", "NOR", "NAND"} BY <1>1, SumCarries
<1>2. CASE gate \in {"XOR_FAST", "XNOR_FAST"} BY <1>2, DifferenceCarries
<1> QED BY <1>1, <1>2 DEF Gates

\* Of operands with any error.
LEMMA SimpleGateIsFresh ==
  ASSUME NEW k \in Keys, NEW method \in {"AP", "GINX"}, NEW gate \in Gates,
         NEW c1, NEW c2, NEW u \in VectorsQ, NEW e \in Errors, Reduced(c1), Reduced(c2)
  PROVE  Fresh(SimpleGate(method, gate, SecretOf[k], c1, c2, u, e), k, u, e)
<1>1. c1.a \in Entries /\ c2.a \in Entries /\ c1.b \in 0 .. q - 1 /\ c2.b \in 0 .. q - 1
  BY DEF Reduced
<1>2. SecretOf[k] \in Secrets BY SampleAssumption
<1>3. CASE gate \in {"XOR_FAST", "XNOR_FAST"}
  <2> DEFINE a0 == VectorSub(c1.a, c2.a)
             b0 == ModSubFast(c1.b, c2.b, q)
             a == VectorAdd(a0, a0)
             b == ModAddFast(b0, b0, q)
  <2>1. SimpleGate(method, gate, SecretOf[k], c1, c2, u, e)
          = Refreshed(method, gate, SecretOf[k], a, b, u, e)
    BY <1>3 DEF SimpleGate
  <2>2. a0 \in Entries /\ b0 \in 0 .. q - 1 BY <1>1, <1>2, VectorSubDot, FastSums
  <2> HIDE DEF a0, b0
  <2>3. a \in Entries /\ b \in 0 .. q - 1 BY <1>2, <2>2, VectorAddDot, FastSums
  <2> HIDE DEF a, b
  <2> QED BY <2>1, <2>3, RefreshedIsFresh
<1>4. CASE gate \notin {"XOR_FAST", "XNOR_FAST"}
  <2> DEFINE a == VectorAdd(c1.a, c2.a)
             b == ModAddFast(c1.b, c2.b, q)
  <2>1. SimpleGate(method, gate, SecretOf[k], c1, c2, u, e)
          = Refreshed(method, gate, SecretOf[k], a, b, u, e)
    BY <1>4 DEF SimpleGate
  <2>2. a \in Entries /\ b \in 0 .. q - 1 BY <1>1, <1>2, VectorAddDot, FastSums
  <2> HIDE DEF a, b
  <2> QED BY <2>1, <2>2, RefreshedIsFresh
<1> QED BY <1>3, <1>4

LEMMA EvalNOTReduced ==
  ASSUME NEW c, Reduced(c)
  PROVE  Reduced(EvalNOT(c))
<1> DEFINE quarter == q \div 4
           a == [i \in 1 .. n |-> q - c.a[i]]
           b == ModSubFast(quarter, c.b, q)
           s == [i \in 1 .. n |-> 0]
<1>1. EvalNOT(c) = [a |-> a, b |-> b] BY DEF EvalNOT
<1>2. c.a \in Entries /\ c.b \in 0 .. q - 1 BY DEF Reduced
<1>3. s \in Secrets BY DEF Secrets
<1> HIDE DEF s
<1>4. a \in Entries BY <1>2, <1>3, NegatedDot
<1>5. quarter \in 0 .. q - 1
  <2>1. q \in Nat /\ q = 8 * h /\ h \in Nat /\ h >= 4 /\ q \div 4 = 2 * h BY Parameters DEF h
  <2> QED BY <2>1
<1> HIDE DEF quarter
<1>6. b \in 0 .. q - 1 BY <1>2, <1>5, FastSums
<1> HIDE DEF a, b
<1> QED BY <1>1, <1>4, <1>6 DEF Reduced

LEMMA EvalNOTCarries ==
  ASSUME NEW s \in Secrets, NEW c, NEW bit \in Bits, Carries(c, s, bit)
  PROVE  1 - bit \in Bits /\ Carries(EvalNOT(c), s, 1 - bit)
<1> DEFINE a == [i \in 1 .. n |-> q - c.a[i]]
           b == ModSubFast(q \div 4, c.b, q)
           d0 == Dot(c.a, s)
           d == Dot(a, s)
<1>1. EvalNOT(c) = [a |-> a, b |-> b] BY DEF EvalNOT
<1>2. PICK n0, k0 \in Int : /\ 32 * n0 < q /\ -32 * n0 < q
                            /\ c.b = d0 + Level(bit) + n0 + k0 * q
  BY DEF Carries
<1>3. c.a \in Entries /\ c.b \in 0 .. q - 1 BY DEF Carries, Reduced
<1>4. PICK k1 \in Int : a \in Entries /\ d = k1 * q - d0 BY <1>3, NegatedDot
<1>5. q \in Nat /\ q = 8 * h /\ h \in Nat /\ h >= 4 /\ q \div 4 = 2 * h BY Parameters DEF h
<1>6. q \div 4 \in 0 .. q - 1 BY <1>5
<1>7. PICK k2 \in Int : b \in 0 .. q - 1 /\ b = 2 * h - c.b + k2 * q
  <2> DEFINE quarter == q \div 4
  <2>1. quarter \in 0 .. q - 1 /\ quarter = 2 * h /\ b = ModSubFast(quarter, c.b, q)
    BY <1>5, <1>6
  <2> HIDE DEF quarter, b
  <2>2. b \in 0 .. q - 1 /\ \E k2 \in Int : b = quarter - c.b + k2 * q
    BY <1>3, <2>1, FastSums
  <2> QED BY <2>1, <2>2
<1>8. d0 \in Int BY <1>3, EntriesDot
<1> HIDE DEF a, b, d, d0
<1>9. 1 - bit \in Bits /\ Level(1 - bit) = 2 * h - Level(bit) /\ Level(bit) \in Int
  BY <1>5 DEF Bits, Level
<1> DEFINE noise == -n0
           j == k2 - k0 - k1
<1>10. noise \in Int /\ j \in Int /\ 32 * noise < q /\ -32 * noise < q BY <1>2, <1>5
<1>11. b = d + Level(1 - bit) + noise + j * q
  <2>1. /\ j * q = k2 * q - k0 * q - k1 * q
        /\ k0 * q \in Int /\ k1 * q \in Int /\ k2 * q \in Int
    BY <1>5
  <2> DEFINE x0 == k0 * q
             x1 == k1 * q
             x2 == k2 * q
             z == j * q
             L == Level(bit)
             M == Level(1 - bit)
  <2>2. /\ z = x2 - x0 - x1 /\ x0 \in Int /\ x1 \in Int /\ x2 \in Int /\ L \in Int /\ M = 2 * h - L
        /\ c.b = d0 + L + n0 + x0 /\ d = x1 - d0 /\ b = 2 * h - c.b + x2
    BY <1>2, <1>4, <1>7, <1>9, <2>1
  <2> HIDE DEF x0, x1, x2, z, j, L, M
  <2>3. b = d + M + noise + z BY <1>2, <1>5, <1>8, <2>2
  <2> QED BY <2>3 DEF z, M
<1> HIDE DEF noise, j
<1>12. Carries([a |-> a, b |-> b], s, 1 - bit)
  BY <1>4, <1>7, <1>10, <1>11 DEF Carries, Reduced, d
<1> QED BY <1>1, <1>9, <1>12

LEMMA CompositeCarries ==
  ASSUME NEW k \in Keys, NEW method \in {"AP", "GINX"}, NEW gate \in Composite,
         NEW c1, NEW c2, NEW bit1 \in Bits, NEW bit2 \in Bits,
         NEW u \in [1 .. 3 -> VectorsQ], NEW e \in [1 .. 3 -> Errors],
         Carries(c1, SecretOf[k], bit1), Carries(c2, SecretOf[k], bit2),
         \A i \in 1 .. 3 : SamplesFit(k, u[i], e[i])
  PROVE  /\ Truth(gate, bit1, bit2) \in Bits
         /\ Carries(CompositeGate(method, gate, SecretOf[k], c1, c2, u, e), SecretOf[k],
                    Truth(gate, bit1, bit2))
<1> DEFINE s == SecretOf[k]
           and1 == SimpleGate(method, "AND", s, c1, EvalNOT(c2), u[1], e[1])
           and2 == SimpleGate(method, "AND", s, EvalNOT(c1), c2, u[2], e[2])
           or == SimpleGate(method, "OR", s, and1, and2, u[3], e[3])
           x1 == Truth("AND", bit1, 1 - bit2)
           x2 == Truth("AND", 1 - bit1, bit2)
           x == Truth("OR", x1, x2)
<1>1. s \in Secrets /\ "AND" \in Gates /\ "OR" \in Gates BY SampleAssumption DEF Gates
<1>2. /\ u[1] \in VectorsQ /\ u[2] \in VectorsQ /\ u[3] \in VectorsQ
      /\ e[1] \in Errors /\ e[2] \in Errors /\ e[3] \in Errors
      /\ SamplesFit(k, u[1], e[1]) /\ SamplesFit(k, u[2], e[2]) /\ SamplesFit(k, u[3], e[3])
  OBVIOUS
<1>3. /\ 1 - bit1 \in Bits /\ Carries(EvalNOT(c1), s, 1 - bit1)
      /\ 1 - bit2 \in Bits /\ Carries(EvalNOT(c2), s, 1 - bit2)
  BY <1>1, EvalNOTCarries
<1>4. x1 \in Bits /\ Carries(and1, s, x1) BY <1>1, <1>2, <1>3, SimpleGateCarries
<1>5. x2 \in Bits /\ Carries(and2, s, x2) BY <1>1, <1>2, <1>3, SimpleGateCarries
<1> HIDE DEF and1, and2, x1, x2
<1>6. x \in Bits /\ Carries(or, s, x) BY <1>1, <1>2, <1>4, <1>5, SimpleGateCarries
<1> HIDE DEF or, x
<1>7. 1 - x \in Bits /\ Carries(EvalNOT(or), s, 1 - x) BY <1>1, <1>6, EvalNOTCarries
<1>8. CompositeGate(method, gate, s, c1, c2, u, e) = IF gate = "XOR" THEN or ELSE EvalNOT(or)
  BY DEF CompositeGate, or, and1, and2
<1>9. Truth(gate, bit1, bit2) = IF gate = "XOR" THEN x ELSE 1 - x
  <2>1. gate = "XOR" \/ gate = "XNOR" BY DEF Composite
  <2>2. (bit1 = 0 \/ bit1 = 1) /\ (bit2 = 0 \/ bit2 = 1) BY DEF Bits
  <2>3. x = (bit1 + bit2) % 2
    <3>1. x1 = bit1 * (1 - bit2) /\ x2 = (1 - bit1) * bit2 BY DEF x1, x2, Truth
    <3>2. x = IF x1 + x2 > 0 THEN 1 ELSE 0 BY DEF x, Truth
    <3> QED BY <2>2, <3>1, <3>2
  <2>4. CASE gate = "XOR" BY <2>3, <2>4 DEF Truth
  <2>5. CASE gate = "XNOR"
    <3>1. Truth(gate, bit1, bit2) = (bit1 + bit2 + 1) % 2 BY <2>5 DEF Truth
    <3> QED BY <2>2, <2>3, <2>5, <3>1
  <2> QED BY <2>1, <2>4, <2>5
<1>10. CASE gate = "XOR" BY <1>6, <1>8, <1>9, <1>10
<1>11. CASE gate # "XOR" BY <1>7, <1>8, <1>9, <1>11
<1> QED BY <1>10, <1>11

\* The last of the three gates decides about the error.
LEMMA CompositeIsFresh ==
  ASSUME NEW k \in Keys, NEW method \in {"AP", "GINX"}, NEW gate \in Composite,
         NEW c1, NEW c2, NEW u \in [1 .. 3 -> VectorsQ], NEW e \in [1 .. 3 -> Errors],
         Reduced(c1), Reduced(c2)
  PROVE  Fresh(CompositeGate(method, gate, SecretOf[k], c1, c2, u, e), k, u[3], e[3])
<1> DEFINE s == SecretOf[k]
           and1 == SimpleGate(method, "AND", s, c1, EvalNOT(c2), u[1], e[1])
           and2 == SimpleGate(method, "AND", s, EvalNOT(c1), c2, u[2], e[2])
           or == SimpleGate(method, "OR", s, and1, and2, u[3], e[3])
<1>1. s \in Secrets /\ "AND" \in Gates /\ "OR" \in Gates BY SampleAssumption DEF Gates
<1>2. /\ u[1] \in VectorsQ /\ u[2] \in VectorsQ /\ u[3] \in VectorsQ
      /\ e[1] \in Errors /\ e[2] \in Errors /\ e[3] \in Errors
  OBVIOUS
<1>3. Reduced(EvalNOT(c1)) /\ Reduced(EvalNOT(c2)) BY EvalNOTReduced
<1>4. Reduced(and1) /\ Reduced(and2) BY <1>1, <1>2, <1>3, SimpleGateIsFresh DEF Fresh
<1> HIDE DEF and1, and2
<1>5. Fresh(or, k, u[3], e[3]) BY <1>1, <1>2, <1>4, SimpleGateIsFresh
<1> HIDE DEF or
<1>6. Fresh(EvalNOT(or), k, u[3], e[3])
  <2>1. Reduced(EvalNOT(or)) BY <1>5, EvalNOTReduced DEF Fresh
  <2>2. ASSUME SamplesFit(k, u[3], e[3]) PROVE \E m \in Bits : Carries(EvalNOT(or), s, m)
    <3>1. PICK m \in Bits : Carries(or, s, m) BY <1>5, <2>2 DEF Fresh
    <3>2. 1 - m \in Bits /\ Carries(EvalNOT(or), s, 1 - m) BY <1>1, <3>1, EvalNOTCarries
    <3> QED BY <3>2
  <2> QED BY <2>1, <2>2 DEF Fresh
<1>7. CompositeGate(method, gate, s, c1, c2, u, e) = IF gate = "XOR" THEN or ELSE EvalNOT(or)
  BY DEF CompositeGate, or, and1, and2
<1>8. CASE gate = "XOR" BY <1>5, <1>7, <1>8
<1>9. CASE gate # "XOR" BY <1>6, <1>7, <1>9
<1> QED BY <1>8, <1>9

LEMMA BootstrapCarries ==
  ASSUME NEW k \in Keys, NEW method \in {"AP", "GINX"}, NEW c, NEW bit \in Bits,
         NEW u \in VectorsQ, NEW e \in Errors, Carries(c, SecretOf[k], bit), SamplesFit(k, u, e)
  PROVE  Carries(Bootstrap(method, SecretOf[k], c, u, e), SecretOf[k], bit)
<1> DEFINE s == SecretOf[k]
           a == c.a
           b == ModAddFast(c.b, q \div 4, q)
           d == Dot(a, s)
           l == bit + 1
<1>1. s \in Secrets /\ "AND" \in Gates BY SampleAssumption DEF Gates
<1>2. Bootstrap(method, s, c, u, e) = Refreshed(method, "AND", s, a, b, u, e) BY DEF Bootstrap
<1> HIDE DEF s
<1>3. PICK n1, k1 \in Int :
        /\ a \in Entries /\ c.b \in 0 .. q - 1 /\ c.b \in Int /\ d \in Int
        /\ 4 * n1 < h /\ -h < 4 * n1 /\ c.b = d + bit * (2 * h) + n1 + k1 * q
  BY <1>1, CarriedNoise DEF s
<1>4. q \in Nat /\ q = 8 * h /\ h \in Nat /\ h >= 4 /\ q \div 4 = 2 * h BY Parameters DEF h
<1>5. q \div 4 \in 0 .. q - 1 BY <1>4
<1>6. PICK k2 \in Int : b \in 0 .. q - 1 /\ b = c.b + 2 * h + k2 * q
  <2> DEFINE quarter == q \div 4
  <2>1. quarter \in 0 .. q - 1 /\ quarter = 2 * h /\ b = ModAddFast(c.b, quarter, q)
    BY <1>4, <1>5
  <2> HIDE DEF quarter, b
  <2>2. b \in 0 .. q - 1 /\ \E k2 \in Int : b = c.b + quarter + k2 * q
    BY <1>3, <2>1, FastSums
  <2> QED BY <2>1, <2>2
<1> HIDE DEF a, b, d
<1> DEFINE j == k1 + k2
<1>7. n1 \in Int /\ -h < n1 /\ n1 < h /\ j \in Int BY <1>3, <1>4
<1>8. l \in {-2, 0, 1, 2} /\ l \in Int /\ l * (2 * h) = bit * (2 * h) + 2 * h
      /\ bit * (2 * h) \in Int
  BY <1>4 DEF Bits
<1>9. b = d + l * (2 * h) + n1 + j * q
  <2>1. j * q = k1 * q + k2 * q /\ k1 * q \in Int /\ k2 * q \in Int
    BY <1>4
  <2> DEFINE x1 == k1 * q
             x2 == k2 * q
             y1 == bit * (2 * h)
             z == j * q
             y == l * (2 * h)
  <2>2. /\ z = x1 + x2 /\ y = y1 + 2 * h /\ x1 \in Int /\ x2 \in Int /\ y1 \in Int
        /\ c.b = d + y1 + n1 + x1 /\ b = c.b + 2 * h + x2
    BY <1>3, <1>6, <1>8, <2>1
  <2> HIDE DEF x1, x2, y1, z, y, j, l
  <2>3. b = d + y + n1 + z BY <1>3, <1>4, <2>2
  <2> QED BY <2>3 DEF y, z
<1>10. Maps("AND", l) <=> bit = 1 BY DEF Maps, Bits
<1> HIDE DEF j, l
<1>11. b = Dot(a, SecretOf[k]) + l * (2 * h) + n1 + j * q BY <1>9 DEF d, s
<1>12. Carries(Refreshed(method, "AND", SecretOf[k], a, b, u, e), SecretOf[k], bit)
  BY <1>1, <1>3, <1>6, <1>7, <1>8, <1>10, <1>11, RefreshedByPhase
<1> QED BY <1>2, <1>12 DEF s

LEMMA BootstrapIsFresh ==
  ASSUME NEW k \in Keys, NEW method \in {"AP", "GINX"}, NEW c,
         NEW u \in VectorsQ, NEW e \in Errors, Reduced(c)
  PROVE  Fresh(Bootstrap(method, SecretOf[k], c, u, e), k, u, e)
<1> DEFINE quarter == q \div 4
           b == ModAddFast(c.b, quarter, q)
<1>1. Bootstrap(method, SecretOf[k], c, u, e) = Refreshed(method, "AND", SecretOf[k], c.a, b, u, e)
  BY DEF Bootstrap
<1>2. quarter \in 0 .. q - 1
  <2>1. q \in Nat /\ q = 8 * h /\ h \in Nat /\ h >= 4 /\ q \div 4 = 2 * h BY Parameters DEF h
  <2> QED BY <2>1
<1> HIDE DEF quarter
<1>3. c.a \in Entries /\ b \in 0 .. q - 1 BY <1>2, FastSums DEF Reduced
<1>4. "AND" \in Gates BY DEF Gates
<1> HIDE DEF b
<1> QED BY <1>1, <1>3, <1>4, RefreshedIsFresh

LEMMA EncryptLWEReduced ==
  ASSUME NEW s \in Secrets, NEW m \in Bits, NEW a \in Vectors, NEW e \in FreshErrors
  PROVE  Reduced(EncryptLWE(s, m, a, e))
<1> DEFINE x == (m % 4) * (q \div 4)
           t == x + e + Inner(a, s, q)
<1>1. q \in Nat /\ q > 0 /\ h \in Nat /\ q \div 4 = 2 * h BY Parameters DEF h
<1>2. a \in Entries /\ e \in Int
  <2>1. a \in [1 .. n -> 0 .. q - 1] /\ e \in Int BY SampleAssumption
  <2> QED BY <1>1, <2>1 DEF Entries
<1>3. x \in Int BY <1>1 DEF Bits
<1>4. Inner(a, s, q) \in Int
  <2> DEFINE d == Dot(a, s)
  <2>1. d \in Int BY <1>2, EntriesDot
  <2> HIDE DEF d
  <2>2. d % q \in Int BY <1>1, <2>1
  <2> QED BY <2>2 DEF Inner, d
<1> HIDE DEF x
<1>5. t \in Int BY <1>2, <1>3, <1>4
<1>6. EncryptLWE(s, m, a, e) = [a |-> a, b |-> t % q] BY DEF EncryptLWE, x
<1> HIDE DEF t
<1>7. t % q \in 0 .. q - 1 BY <1>1, <1>5, ModIs
<1> QED BY <1>2, <1>6, <1>7 DEF Reduced

LEMMA EncryptLWECarries ==
  ASSUME NEW s \in Secrets, NEW m \in Bits, NEW a \in Vectors, NEW e \in FreshErrors, Small(e)
  PROVE  Carries(EncryptLWE(s, m, a, e), s, m)
<1> DEFINE d == Dot(a, s)
           t == (m % 4) * (q \div 4) + e + Inner(a, s, q)
           b == t % q
           I == d % q
<1>1. q \in Nat /\ q > 0 /\ h \in Nat /\ q \div 4 = 2 * h BY Parameters DEF h
<1>2. a \in Entries /\ e \in Int /\ 32 * e < q /\ -32 * e < q
  <2>1. a \in [1 .. n -> 0 .. q - 1] /\ e \in Int BY SampleAssumption
  <2>2. a \in Entries BY <1>1, <2>1 DEF Entries
  <2> QED BY <2>1, <2>2 DEF Small
<1>3. d \in Int BY <1>2, EntriesDot
<1>4. EncryptLWE(s, m, a, e) = [a |-> a, b |-> b] BY DEF EncryptLWE
<1>5. t = Level(m) + e + I /\ Level(m) \in Int
  <2>1. (m % 4) * (2 * h) = Level(m) /\ Level(m) \in Int BY <1>1 DEF Bits, Level
  <2> HIDE DEF d
  <2> QED BY <1>1, <2>1 DEF Inner, d
<1> HIDE DEF d, t
<1>6. PICK k1 \in Int : I \in 0 .. q - 1 /\ I = d + k1 * q BY <1>1, <1>3, ModIs
<1> HIDE DEF I
<1>7. t \in Int BY <1>1, <1>2, <1>5, <1>6
<1>8. PICK k2 \in Int : b \in 0 .. q - 1 /\ b = t + k2 * q BY <1>1, <1>7, ModIs
<1> HIDE DEF b
<1> DEFINE k == k1 + k2
<1>9. k \in Int /\ b = d + Level(m) + e + k * q
  <2>1. k \in Int /\ k * q = k1 * q + k2 * q /\ k1 * q \in Int /\ k2 * q \in Int BY <1>1
  <2> DEFINE x1 == k1 * q
             x2 == k2 * q
             z == k * q
             L == Level(m)
  <2>2. /\ z = x1 + x2 /\ x1 \in Int /\ x2 \in Int /\ L \in Int /\ I = d + x1
        /\ t = L + e + I /\ b = t + x2
    BY <1>5, <1>6, <1>8, <2>1
  <2> HIDE DEF x1, x2, z, L
  <2>3. b = d + L + e + z BY <1>2, <1>3, <2>2
  <2> QED BY <2>1, <2>3 DEF z, L
<1> HIDE DEF k
<1>10. Carries([a |-> a, b |-> b], s, m) BY <1>2, <1>8, <1>9 DEF Carries, Reduced, d
<1> QED BY <1>4, <1>10

LEMMA NoiselessEmbeddingCarries ==
  ASSUME NEW s \in Secrets, NEW m \in Bits
  PROVE  Carries(NoiselessEmbedding(m), s, m)
<1> DEFINE z == [i \in 1 .. n |-> 0]
           b == m * (q \div 4)
<1>1. q \in Nat /\ q > 0 /\ q = 8 * h /\ h \in Nat /\ h >= 4 /\ q \div 4 = 2 * h
  BY Parameters DEF h
<1>2. NoiselessEmbedding(m) = [a |-> z, b |-> b] BY DEF NoiselessEmbedding
<1>3. z \in Entries BY <1>1 DEF Entries
<1>4. Dot(z, s) = 0 BY DotZero
<1>5. b = Level(m) /\ b \in 0 .. q - 1 BY <1>1 DEF Bits, Level
<1>6. b = Dot(z, s) + Level(m) + 0 + 0 * q /\ 0 \in Int /\ 32 * 0 < q /\ -32 * 0 < q
  BY <1>1, <1>4, <1>5
<1> HIDE DEF z, b
<1>7. Carries([a |-> z, b |-> b], s, m) BY <1>3, <1>5, <1>6 DEF Carries, Reduced
<1> QED BY <1>2, <1>7

-----------------------------------------------------------------------------
(***************************************************************************)
(* Decryption.                                                             *)
(***************************************************************************)

LEMMA DecryptsCarried ==
  ASSUME NEW c, NEW s \in Secrets, NEW bit \in Bits, Carries(c, s, bit)
  PROVE  DecryptLWE(s, c) = bit
<1> DEFINE d == Dot(c.a, s)
           I == d % q
           y == ModSubFast(c.b, I, q)
           z == ModAddFast(y, q \div 8, q)
           w == bit * (2 * h) + h
<1>1. PICK noise, k \in Int :
        /\ c.a \in Entries /\ c.b \in 0 .. q - 1 /\ c.b \in Int /\ d \in Int
        /\ 4 * noise < h /\ -h < 4 * noise /\ c.b = d + bit * (2 * h) + noise + k * q
  BY CarriedNoise
<1>2. q \in Nat /\ q > 0 /\ q = 8 * h /\ h \in Nat /\ h >= 4 /\ h = q \div 8
  BY Parameters DEF h
<1>3. DecryptLWE(s, c) = (4 * z) \div q BY DEF DecryptLWE, Inner
<1> HIDE DEF d
<1>4. PICK k1 \in Int : I \in 0 .. q - 1 /\ I = d + k1 * q BY <1>1, <1>2, ModIs
<1> HIDE DEF I
<1>5. PICK k2 \in Int : y \in 0 .. q - 1 /\ y = c.b - I + k2 * q BY <1>1, <1>4, FastSums
<1>6. z = ModAddFast(y, h, q) /\ h \in 0 .. q - 1 BY <1>2
<1> HIDE DEF y, z
<1>7. PICK k3 \in Int : z \in 0 .. q - 1 /\ z = y + h + k3 * q BY <1>5, <1>6, FastSums
<1> DEFINE j == k - k1 + k2 + k3
           v == w + noise
<1>8. w \in Int /\ w = (IF bit = 1 THEN 3 * h ELSE h) BY <1>2 DEF Bits
<1>9. z = v + j * q /\ j \in Int
  <2>1. /\ j * q = k * q - k1 * q + k2 * q + k3 * q
        /\ k * q \in Int /\ k1 * q \in Int /\ k2 * q \in Int /\ k3 * q \in Int
    BY <1>2
  <2> DEFINE x0 == k * q
             x1 == k1 * q
             x2 == k2 * q
             x3 == k3 * q
             u == j * q
             L == bit * (2 * h)
  <2>2. /\ u = x0 - x1 + x2 + x3 /\ x0 \in Int /\ x1 \in Int /\ x2 \in Int
        /\ x3 \in Int /\ L \in Int
        /\ c.b = d + L + noise + x0 /\ I = d + x1 /\ y = c.b - I + x2 /\ z = y + h + x3
    <3>1. bit * (2 * h) \in Int BY <1>2 DEF Bits
    <3> QED BY <1>1, <1>2, <1>4, <1>5, <1>7, <2>1, <3>1
  <2>3. j \in Int /\ v = (L + h) + noise OBVIOUS
  <2> HIDE DEF x0, x1, x2, x3, u, L, j, v, w
  <2>4. z = v + u BY <1>1, <1>2, <2>2, <2>3
  <2> QED BY <2>3, <2>4 DEF u
<1> HIDE DEF w
<1>10. v \in 0 .. q - 1 BY <1>1, <1>2, <1>8
<1> HIDE DEF j, v
<1>11. z = v BY <1>2, <1>7, <1>9, <1>10, SameRemainder
<1>12. v = w + noise BY DEF v
<1>13. CASE bit = 1
  <2>1. z \in Int /\ 4 * z >= 8 * h /\ 4 * z < 16 * h BY <1>1, <1>2, <1>8, <1>11, <1>12, <1>13
  <2>2. (4 * z) \div q = 1 BY <1>2, <2>1
  <2> QED BY <1>3, <1>13, <2>2
<1>14. CASE bit = 0
  <2>1. z \in Int /\ 4 * z >= 0 /\ 4 * z < 8 * h BY <1>1, <1>2, <1>8, <1>11, <1>12, <1>14
  <2>2. (4 * z) \div q = 0 BY <1>2, <2>1
  <2> QED BY <1>3, <1>14, <2>2
<1> QED BY <1>13, <1>14 DEF Bits

LEMMA NoiseOfCarried ==
  ASSUME NEW c, c.under \in Keys, NEW bit \in Bits, Carries(c, SecretOf[c.under], bit)
  PROVE  Small(NoiseOf(c, bit))
<1> DEFINE s == SecretOf[c.under]
           d == Dot(c.a, s)
           I == d % q
           t == c.b - I - bit * (q \div 4)
           e == t % q
<1>1. s \in Secrets /\ bit \in Bits BY SampleAssumption
<1>2. NoiseOf(c, bit) = IF e > q \div 2 THEN e - q ELSE e BY DEF NoiseOf, Inner
<1>3. PICK noise, k \in Int : /\ 32 * noise < q /\ -32 * noise < q
                              /\ c.b = d + Level(bit) + noise + k * q
  BY DEF Carries
<1>4. c.a \in Entries /\ c.b \in 0 .. q - 1 BY DEF Carries, Reduced
<1>5. d \in Int BY <1>1, <1>4, EntriesDot
<1>6. /\ q \in Nat /\ q > 0 /\ q = 8 * h /\ h \in Nat /\ h >= 4 /\ q \div 2 = 4 * h
      /\ q \div 4 = 2 * h /\ c.b \in Int
  BY <1>4, Parameters DEF h
<1> HIDE DEF d
<1>7. PICK k1 \in Int : I \in 0 .. q - 1 /\ I = d + k1 * q BY <1>5, <1>6, ModIs
<1> HIDE DEF I
<1>8. t \in Int /\ t = c.b - I - Level(bit) /\ Level(bit) \in Int
  <2>1. bit * (q \div 4) = Level(bit) /\ Level(bit) \in Int BY <1>1, <1>6 DEF Level, Bits
  <2> QED BY <1>6, <1>7, <2>1
<1> HIDE DEF t
<1>9. PICK k2 \in Int : e \in 0 .. q - 1 /\ e = t + k2 * q BY <1>6, <1>8, ModIs
<1> HIDE DEF e
<1> DEFINE j == k - k1 + k2
<1>10. j \in Int /\ e = noise + j * q
  <2>1. /\ j \in Int /\ j * q = k * q - k1 * q + k2 * q
        /\ k * q \in Int /\ k1 * q \in Int /\ k2 * q \in Int
    BY <1>6
  <2> DEFINE x0 == k * q
             x1 == k1 * q
             x2 == k2 * q
             u == j * q
             L == Level(bit)
  <2>2. /\ u = x0 - x1 + x2 /\ x0 \in Int /\ x1 \in Int /\ x2 \in Int /\ L \in Int
        /\ c.b = d + L + noise + x0 /\ I = d + x1 /\ t = c.b - I - L /\ e = t + x2
    BY <1>3, <1>7, <1>8, <1>9, <2>1
  <2> HIDE DEF x0, x1, x2, u, L, j
  <2>3. e = noise + u BY <1>5, <1>6, <2>2
  <2> QED BY <2>1, <2>3 DEF u
<1> HIDE DEF j
<1>11. -q < noise /\ noise < q BY <1>3, <1>6
<1>12. e = noise \/ e = noise + q BY <1>6, <1>9, <1>10, <1>11, Remainder
<1>13. NoiseOf(c, bit) = noise BY <1>2, <1>3, <1>6, <1>9, <1>12
<1> QED BY <1>3, <1>13 DEF Small

-----------------------------------------------------------------------------
(***************************************************************************)
(* The inductive invariant: an object that was made is reduced, carries    *)
(* its bit under its key with an error below q / 32 when it is sound, and  *)
(* some bit with such an error when its own samples fitted.  That it       *)
(* decrypts to its bit says nothing of the sum of two such objects, and    *)
(* that its error is small nothing of its entries, which a gate corrects   *)
(* once only.                                                              *)
(***************************************************************************)
Holds(c, s, bit, fits, sound) ==
  /\ sound => Carries(c, s, bit)
  /\ fits => \E m \in Bits : Carries(c, s, m)

ObjectsCarry ==
  \A o \in Made : Holds(ct[o], SecretOf[ct[o].under], ct[o].bit, ct[o].fits, ct[o].sound)

IInv == TypeOK /\ ObjectsCarry

\* What a made object is.
LEMMA MadeObject ==
  ASSUME IInv, NEW o \in Objects, ct[o] # NoCiphertext
  PROVE  /\ ct[o].under \in Keys /\ ct[o].bit \in Bits /\ Reduced(ct[o])
         /\ ct[o].fits \in BOOLEAN /\ ct[o].sound \in BOOLEAN
         /\ Holds(ct[o], SecretOf[ct[o].under], ct[o].bit, ct[o].fits, ct[o].sound)
<1>1. ct[o] \in LWECiphertexts BY DEF IInv, TypeOK
<1>2. /\ ct[o].under \in Keys /\ ct[o].bit \in Bits /\ Reduced(ct[o])
      /\ ct[o].fits \in BOOLEAN /\ ct[o].sound \in BOOLEAN
  BY <1>1 DEF LWECiphertexts, Reduced, Entries
<1>3. Holds(ct[o], SecretOf[ct[o].under], ct[o].bit, ct[o].fits, ct[o].sound)
  BY DEF IInv, ObjectsCarry, Made
<1> QED BY <1>2, <1>3

\* What a usable object is.
LEMMA UsableObject ==
  ASSUME IInv, NEW o \in Objects, Usable(o)
  PROVE  /\ m_BTKey \in Keys /\ ct[o].bit \in Bits /\ Reduced(ct[o])
         /\ ct[o].sound \in BOOLEAN
         /\ ct[o].sound => Carries(ct[o], SecretOf[m_BTKey], ct[o].bit)
<1>1. m_BTKey \in Keys /\ ct[o].under = m_BTKey BY DEF IInv, TypeOK, Usable
<1>2. ct[o] # NoCiphertext BY <1>1, SampleAssumption DEF NoCiphertext
<1> QED BY <1>1, <1>2, MadeObject DEF Holds

LEMMA NewCiphertextKeeps ==
  ASSUME IInv, NEW o \in Objects, NEW c, NEW k \in Keys, NEW bit \in Bits,
         NEW fits \in BOOLEAN, NEW sound \in BOOLEAN,
         Reduced(c), Holds(c, SecretOf[k], bit, fits, sound),
         NewCiphertext(o, c, k, bit, fits, sound)
  PROVE  IInv'
<1> DEFINE kept == IF sound THEN bit ELSE 0
           x == [a |-> c.a, b |-> c.b, under |-> k, bit |-> kept,
                 fits |-> fits, sound |-> sound]
<1>1. ct' = [ct EXCEPT ![o] = x] /\ m_method' = m_method /\ m_BTKey' = m_BTKey
  BY DEF NewCiphertext
<1>2. kept \in Bits /\ (sound => kept = bit) BY DEF Bits
<1> HIDE DEF kept
<1>3. x \in LWECiphertexts BY <1>2 DEF Reduced, Entries, LWECiphertexts
<1>4. /\ x.a = c.a /\ x.b = c.b /\ x.under = k /\ x.bit = kept
      /\ x.fits = fits /\ x.sound = sound
  OBVIOUS
<1> HIDE DEF x
<1>5. \A s, m : Carries(x, s, m) <=> Carries(c, s, m) BY <1>4 DEF Carries, Reduced
<1>6. Holds(x, SecretOf[x.under], x.bit, x.fits, x.sound) BY <1>2, <1>4, <1>5 DEF Holds
<1>7. ct \in [Objects -> LWECiphertexts \cup {NoCiphertext}] BY DEF IInv, TypeOK
<1>8. TypeOK' BY <1>1, <1>3, <1>7 DEF IInv, TypeOK
<1>9. ASSUME NEW p \in Objects, ct'[p] # NoCiphertext
      PROVE  Holds(ct'[p], SecretOf[ct'[p].under], ct'[p].bit, ct'[p].fits, ct'[p].sound)
  <2>1. CASE p = o
    <3>1. ct'[p] = x BY <1>1, <1>7, <2>1
    <3> QED BY <1>6, <3>1
  <2>2. CASE p # o
    <3>1. ct'[p] = ct[p] BY <1>1, <1>7, <2>2
    <3> QED BY <1>9, <3>1, MadeObject
  <2> QED BY <2>1, <2>2
<1>10. ObjectsCarry' BY <1>9 DEF ObjectsCarry, Made
<1> QED BY <1>8, <1>10 DEF IInv

LEMMA InitCarries == Init => IInv
<1> SUFFICES ASSUME Init PROVE IInv
  OBVIOUS
<1>1. TypeOK BY DEF Init, TypeOK
<1>2. Made = {} BY DEF Init, Made
<1>3. ObjectsCarry BY <1>2 DEF ObjectsCarry
<1> QED BY <1>1, <1>3 DEF IInv

\* Fresh says what Holds asks of fits.
LEMMA FreshHolds ==
  ASSUME NEW c, NEW k, NEW u, NEW e, NEW bit, NEW sound,
         Fresh(c, k, u, e), sound => Carries(c, SecretOf[k], bit)
  PROVE  Reduced(c) /\ Holds(c, SecretOf[k], bit, SamplesFit(k, u, e), sound)
BY DEF Fresh, Holds

LEMMA TruthIsBit ==
  ASSUME NEW gate \in Gates \cup Composite, NEW x \in Bits, NEW y \in Bits
  PROVE  Truth(gate, x, y) \in Bits
<1>1. gate \in {"OR", "AND", "NOR", "NAND", "XOR_FAST", "XNOR_FAST", "XOR", "XNOR"}
  BY DEF Gates, Composite
<1>2. (x = 0 \/ x = 1) /\ (y = 0 \/ y = 1) BY DEF Bits
<1>3. CASE gate = "OR" BY <1>2, <1>3 DEF Truth, Bits
<1>4. CASE gate = "AND" BY <1>2, <1>4 DEF Truth, Bits
<1>5. CASE gate = "NOR" BY <1>2, <1>5 DEF Truth, Bits
<1>6. CASE gate = "NAND" BY <1>2, <1>6 DEF Truth, Bits
<1>7. CASE gate \in {"XOR", "XOR_FAST"} BY <1>2, <1>7 DEF Truth, Bits
<1>8. CASE gate \in {"XNOR", "XNOR_FAST"} BY <1>2, <1>8 DEF Truth, Bits
<1> QED BY <1>1, <1>3, <1>4, <1>5, <1>6, <1>7, <1>8

LEMMA BinGateKeeps ==
  ASSUME IInv, NEW o \in Objects, NEW x \in Objects, NEW y \in Objects,
         NEW gate \in Gates \cup Composite, EvalBinGate(o, gate, x, y)
  PROVE  IInv'
<1> DEFINE k == m_BTKey
           s == SecretOf[k]
           bit == Truth(gate, ct[x].bit, ct[y].bit)
           both == ct[x].sound /\ ct[y].sound
           simple(u, e) == SimpleGate(m_method, gate, s, ct[x], ct[y], u, e)
           composite(u, e) == CompositeGate(m_method, gate, s, ct[x], ct[y], u, e)
<1>1. /\ Usable(x) /\ Usable(y)
      /\ \/ /\ gate \in Gates
            /\ \E u \in VectorsQ, e \in Errors :
                 NewCiphertext(o, simple(u, e), k, bit,
                               SamplesFit(k, u, e), both /\ SamplesFit(k, u, e))
         \/ /\ gate \in Composite
            /\ \E u \in [1 .. 3 -> VectorsQ], e \in [1 .. 3 -> Errors] :
                 NewCiphertext(o, composite(u, e), k, bit, SamplesFit(k, u[3], e[3]),
                               both /\ \A i \in 1 .. 3 : SamplesFit(k, u[i], e[i]))
  BY DEF EvalBinGate
<1>2. m_method \in {"AP", "GINX"} BY DEF IInv, TypeOK
<1>3. /\ k \in Keys /\ both \in BOOLEAN
      /\ ct[x].bit \in Bits /\ Reduced(ct[x]) /\ (both => Carries(ct[x], s, ct[x].bit))
      /\ ct[y].bit \in Bits /\ Reduced(ct[y]) /\ (both => Carries(ct[y], s, ct[y].bit))
  BY <1>1, UsableObject
<1>4. bit \in Bits BY <1>3, TruthIsBit
<1> HIDE DEF both
<1>5. CASE gate \in Gates /\ \E u \in VectorsQ, e \in Errors :
             NewCiphertext(o, simple(u, e), k, bit,
                           SamplesFit(k, u, e), both /\ SamplesFit(k, u, e))
  <2>1. PICK u \in VectorsQ, e \in Errors :
          NewCiphertext(o, simple(u, e), k, bit,
                        SamplesFit(k, u, e), both /\ SamplesFit(k, u, e))
    BY <1>5
  <2> DEFINE fits == SamplesFit(k, u, e)
  <2>2. fits \in BOOLEAN /\ (both /\ fits) \in BOOLEAN BY <1>3 DEF SamplesFit
  <2>3. Fresh(simple(u, e), k, u, e) BY <1>2, <1>3, <1>5, SimpleGateIsFresh
  <2>4. both /\ fits => Carries(simple(u, e), s, bit)
    BY <1>2, <1>3, <1>5, SimpleGateCarries
  <2> HIDE DEF simple, bit
  <2>5. Reduced(simple(u, e)) /\ Holds(simple(u, e), s, bit, fits, both /\ fits)
    BY <2>3, <2>4, FreshHolds
  <2> HIDE DEF fits
  <2>6. NewCiphertext(o, simple(u, e), k, bit, fits, both /\ fits) BY <2>1 DEF fits
  <2> QED BY <1>3, <1>4, <2>2, <2>5, <2>6, NewCiphertextKeeps
<1>6. CASE gate \in Composite /\ \E u \in [1 .. 3 -> VectorsQ], e \in [1 .. 3 -> Errors] :
             NewCiphertext(o, composite(u, e), k, bit, SamplesFit(k, u[3], e[3]),
                           both /\ \A i \in 1 .. 3 : SamplesFit(k, u[i], e[i]))
  <2>1. PICK u \in [1 .. 3 -> VectorsQ], e \in [1 .. 3 -> Errors] :
          NewCiphertext(o, composite(u, e), k, bit, SamplesFit(k, u[3], e[3]),
                        both /\ \A i \in 1 .. 3 : SamplesFit(k, u[i], e[i]))
    BY <1>6
  <2> DEFINE fits == SamplesFit(k, u[3], e[3])
             all == \A i \in 1 .. 3 : SamplesFit(k, u[i], e[i])
  <2>2. fits \in BOOLEAN /\ (both /\ all) \in BOOLEAN BY <1>3 DEF SamplesFit
  <2>3. Fresh(composite(u, e), k, u[3], e[3]) BY <1>2, <1>3, <1>6, CompositeIsFresh
  <2>4. both /\ all => Carries(composite(u, e), s, bit)
    BY <1>2, <1>3, <1>6, CompositeCarries
  <2> HIDE DEF composite, bit, all
  <2>5. Reduced(composite(u, e)) /\ Holds(composite(u, e), s, bit, fits, both /\ all)
    BY <2>3, <2>4, FreshHolds
  <2> HIDE DEF fits
  <2>6. NewCiphertext(o, composite(u, e), k, bit, fits, both /\ all) BY <2>1 DEF fits, all
  <2> QED BY <1>3, <1>4, <2>2, <2>5, <2>6, NewCiphertextKeeps
<1> QED BY <1>1, <1>5, <1>6

LEMMA NextCarries == IInv /\ [Next]_vars => IInv'
<1> SUFFICES ASSUME IInv, [Next]_vars PROVE IInv'
  OBVIOUS
<1>1. /\ m_method \in {"AP", "GINX"} /\ m_BTKey \in Keys \cup {NULL}
      /\ SecretOf \in [Keys -> Secrets]
  BY SampleAssumption DEF IInv, TypeOK
<1>2. CASE UNCHANGED vars
  BY <1>2 DEF vars, IInv, TypeOK, ObjectsCarry, Made
<1>3. CASE KeyStep
  <2>1. ct' = ct /\ m_method' = m_method /\ m_BTKey' \in Keys \cup {NULL}
    BY <1>3 DEF KeyStep, BTKeyGen, ClearBTKeys
  <2> QED BY <2>1 DEF IInv, TypeOK, ObjectsCarry, Made
<1>4. ASSUME NEW o \in Objects, NEW k \in Keys, EncryptFresh(o, k) PROVE IInv'
  <2>1. PICK m \in Bits, a \in Vectors, e \in FreshErrors :
          NewCiphertext(o, EncryptLWE(SecretOf[k], m, a, e), k, m, Small(e), Small(e))
    BY <1>4 DEF EncryptFresh
  <2> DEFINE c == EncryptLWE(SecretOf[k], m, a, e)
             fits == Small(e)
  <2>2. Reduced(c) /\ fits \in BOOLEAN BY <1>1, EncryptLWEReduced DEF Small
  <2>3. fits => Carries(c, SecretOf[k], m) BY <1>1, EncryptLWECarries
  <2> HIDE DEF c, fits
  <2>4. Holds(c, SecretOf[k], m, fits, fits) BY <2>3 DEF Holds
  <2>5. NewCiphertext(o, c, k, m, fits, fits) BY <2>1 DEF c, fits
  <2> QED BY <2>2, <2>4, <2>5, NewCiphertextKeeps
<1>5. ASSUME NEW o \in Objects, NEW k \in Keys, EvalConstant(o, k) PROVE IInv'
  <2>1. PICK m \in Bits : NewCiphertext(o, NoiselessEmbedding(m), k, m, TRUE, TRUE)
    BY <1>5 DEF EvalConstant
  <2>2. Carries(NoiselessEmbedding(m), SecretOf[k], m) BY <1>1, NoiselessEmbeddingCarries
  <2>3. Reduced(NoiselessEmbedding(m)) BY <2>2 DEF Carries
  <2>4. Holds(NoiselessEmbedding(m), SecretOf[k], m, TRUE, TRUE) BY <2>2 DEF Holds
  <2> QED BY <2>1, <2>3, <2>4, NewCiphertextKeeps
<1>6. ASSUME NEW o \in Objects, EncryptBootstrapped(o) PROVE IInv'
  <2> DEFINE k == m_BTKey
             s == SecretOf[k]
  <2>1. PICK m \in Bits, a \in Vectors, e \in FreshErrors, u \in VectorsQ, f \in Errors :
          /\ k # NULL
          /\ NewCiphertext(o, Bootstrap(m_method, s, EncryptLWE(s, m, a, e), u, f), k, m,
                           SamplesFit(k, u, f), SamplesFit(k, u, f) /\ Small(e))
    BY <1>6 DEF EncryptBootstrapped
  <2>2. k \in Keys /\ s \in Secrets BY <1>1, <2>1
  <2> DEFINE c == EncryptLWE(s, m, a, e)
             fits == SamplesFit(k, u, f)
             sound == fits /\ Small(e)
             r == Bootstrap(m_method, s, c, u, f)
  <2>3. fits \in BOOLEAN /\ sound \in BOOLEAN BY DEF SamplesFit, Small
  <2>4. Reduced(c) BY <2>2, EncryptLWEReduced
  <2>5. sound => Carries(c, s, m) BY <2>2, EncryptLWECarries
  <2>6. NewCiphertext(o, r, k, m, fits, sound) BY <2>1
  <2> HIDE DEF c
  <2>7. Fresh(r, k, u, f) BY <1>1, <2>2, <2>4, BootstrapIsFresh
  <2>8. sound => Carries(r, s, m) BY <1>1, <2>2, <2>5, BootstrapCarries
  <2> HIDE DEF r, sound
  <2>9. Reduced(r) /\ Holds(r, s, m, fits, sound) BY <2>7, <2>8, FreshHolds
  <2> HIDE DEF fits
  <2> QED BY <2>2, <2>3, <2>6, <2>9, NewCiphertextKeeps
<1>7. ASSUME NEW o \in Objects, NEW x \in Objects, BootstrapObject(o, x) PROVE IInv'
  <2> DEFINE k == m_BTKey
             s == SecretOf[k]
             m == ct[x].bit
  <2>1. PICK u \in VectorsQ, e \in Errors :
          /\ Usable(x)
          /\ NewCiphertext(o, Bootstrap(m_method, s, ct[x], u, e), k, m,
                           SamplesFit(k, u, e), ct[x].sound /\ SamplesFit(k, u, e))
    BY <1>7 DEF BootstrapObject
  <2> DEFINE fits == SamplesFit(k, u, e)
             sound == ct[x].sound /\ fits
             r == Bootstrap(m_method, s, ct[x], u, e)
  <2>2. k \in Keys /\ m \in Bits /\ Reduced(ct[x]) /\ (sound => Carries(ct[x], s, m))
    BY <2>1, UsableObject
  <2>3. fits \in BOOLEAN /\ sound \in BOOLEAN BY DEF SamplesFit
  <2>4. NewCiphertext(o, r, k, m, fits, sound) BY <2>1
  <2>5. Fresh(r, k, u, e) BY <1>1, <2>2, BootstrapIsFresh
  <2>6. sound => Carries(r, s, m) BY <1>1, <2>2, BootstrapCarries
  <2> HIDE DEF r, sound, m
  <2>7. Reduced(r) /\ Holds(r, s, m, fits, sound) BY <2>5, <2>6, FreshHolds
  <2> HIDE DEF fits
  <2> QED BY <2>2, <2>3, <2>4, <2>7, NewCiphertextKeeps
<1>8. ASSUME NEW o \in Objects, NEW x \in Objects, EvalNOTObject(o, x) PROVE IInv'
  <2> DEFINE k == ct[x].under
             s == SecretOf[k]
             bit == ct[x].bit
             fits == ct[x].fits
             sound == ct[x].sound
             c == EvalNOT(ct[x])
  <2>1. ct[x] # NoCiphertext /\ NewCiphertext(o, c, k, 1 - bit, fits, sound)
    BY <1>8 DEF EvalNOTObject
  <2>2. /\ k \in Keys /\ bit \in Bits /\ Reduced(ct[x])
        /\ fits \in BOOLEAN /\ sound \in BOOLEAN /\ Holds(ct[x], s, bit, fits, sound)
    BY <2>1, MadeObject
  <2>3. Reduced(c) /\ 1 - bit \in Bits BY <2>2, EvalNOTReduced DEF Bits
  <2>4. \A m \in Bits : Carries(ct[x], s, m) => Carries(c, s, 1 - m) /\ 1 - m \in Bits
    BY <1>1, <2>2, EvalNOTCarries
  <2> HIDE DEF c, s, bit, fits, sound
  <2>5. Holds(c, s, 1 - bit, fits, sound) BY <2>2, <2>4 DEF Holds
  <2> HIDE DEF k
  <2>6. Holds(c, SecretOf[k], 1 - bit, fits, sound) BY <2>5 DEF s
  <2> QED BY <2>1, <2>2, <2>3, <2>6, NewCiphertextKeeps
<1>9. CASE ObjectStep
  BY <1>4, <1>5, <1>6, <1>7, <1>8, <1>9, BinGateKeeps DEF ObjectStep
<1> QED BY <1>2, <1>3, <1>9 DEF Next

LEMMA AlwaysCarries == Spec => []IInv
BY InitCarries, NextCarries, PTL DEF Spec

(***************************************************************************)
(* Whatever gates, encryptions, constants and changes of bootstrapping     *)
(* keys a program asks for, and whatever is sampled, the vectors of its    *)
(* ciphertexts stay within 0 .. q and their other parts below q.           *)
(***************************************************************************)
THEOREM CiphertextsStayReduced == Spec => []TypeOK
<1>1. IInv => TypeOK BY DEF IInv
<1> QED BY <1>1, AlwaysCarries, PTL

(***************************************************************************)
(* A circuit's output decrypts to the circuit's bit if all the samples     *)
(* that went into it fit the moduli: for every dimension, modulus, digit   *)
(* base and private key, with both methods, and in programs that also      *)
(* compute with ciphertexts whose samples did not.                         *)
(***************************************************************************)
THEOREM CircuitsDecrypt == Spec => []DecryptsToBit
<1>1. IInv => DecryptsToBit
  <2> SUFFICES ASSUME IInv, NEW o \in Made, ct[o].sound
               PROVE  DecryptLWE(SecretOf[ct[o].under], ct[o]) = ct[o].bit
    BY DEF DecryptsToBit
  <2>1. /\ ct[o].under \in Keys /\ ct[o].bit \in Bits
        /\ Carries(ct[o], SecretOf[ct[o].under], ct[o].bit)
    BY MadeObject DEF Made, Holds
  <2>2. SecretOf[ct[o].under] \in Secrets BY <2>1, SampleAssumption
  <2> QED BY <2>1, <2>2, DecryptsCarried
<1> QED BY <1>1, AlwaysCarries, PTL

(***************************************************************************)
(* Errors do not grow with the circuit: the error of what a gate returns   *)
(* is below q / 32 whenever the gate's own samples fit, however large the  *)
(* errors of its operands were; with sound operands it is the error of the *)
(* circuit's bit.                                                          *)
(***************************************************************************)
THEOREM ErrorsDoNotGrow == Spec => []NoiseIsFit
<1>1. IInv => NoiseIsFit
  <2> SUFFICES ASSUME IInv, NEW o \in Made
               PROVE  /\ ct[o].sound => Small(NoiseOf(ct[o], ct[o].bit))
                      /\ ct[o].fits => \E m \in Bits : Small(NoiseOf(ct[o], m))
    BY DEF NoiseIsFit
  <2>1. /\ ct[o].under \in Keys /\ ct[o].bit \in Bits
        /\ Holds(ct[o], SecretOf[ct[o].under], ct[o].bit, ct[o].fits, ct[o].sound)
    BY MadeObject DEF Made
  <2>2. \A m \in Bits : Carries(ct[o], SecretOf[ct[o].under], m) => Small(NoiseOf(ct[o], m))
    BY <2>1, NoiseOfCarried
  <2> QED BY <2>1, <2>2 DEF Holds
<1> QED BY <1>1, AlwaysCarries, PTL
=============================================================================
