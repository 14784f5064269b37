------------------------- MODULE RingGSWAccumulator -------------------------
(***************************************************************************)
(* RingGSWAccumulatorScheme: gates on encrypted bits.  A gate adds its     *)
(* operands, maps the phase of the sum through a table that is a           *)
(* polynomial rotated by the phase, and returns to modulus q.              *)
(*                                                                         *)
(* The accumulator is its phase, a polynomial modulo X^N + 1 and Q; that   *)
(* it is encrypted, and that its products go by signed digits, is left     *)
(* out.  Their errors only add up: they are part of the one error e that   *)
(* Refreshed adds.                                                         *)
(***************************************************************************)
EXTENDS LWEScheme, Sequences

CONSTANTS N,     \* ring dimension
          baseR  \* digit base of the AP keys

ASSUME RingAssumption == N \in Nat \ {0} /\ (2 * N) % q = 0 /\ baseR \in Nat /\ baseR >= 2

Factor == (2 * N) \div q
Q8 == Q \div 8 + 1

Gates == {"OR", "AND", "NOR", "NAND", "XOR_FAST", "XNOR_FAST"}
Composite == {"XOR", "XNOR"}

\* Mutant: the constants of NOR and NAND are swapped.
GateConst_Swapped(gate) ==
  (q \div 8) * CASE gate = "OR" -> 5
                 [] gate = "AND" -> 7
                 [] gate = "NOR" -> 3
                 [] gate = "NAND" -> 1
                 [] gate = "XOR_FAST" -> 5
                 [] gate = "XNOR_FAST" -> 1

\* Where the half of the circle begins that the gate maps to one value.
GateConst(gate) ==
  (q \div 8) * CASE gate = "OR" -> 5
                 [] gate = "AND" -> 7
                 [] gate = "NOR" -> 1
                 [] gate = "NAND" -> 3
                 [] gate = "XOR_FAST" -> 5
                 [] gate = "XNOR_FAST" -> 1

\* Q/8 or -Q/8: the gate's value of the phase x.
GateValue(gate, x) ==
  LET q1 == GateConst(gate)
      q2 == ModAddFast(q1, q \div 2, q)
  IN  IF q1 < q2 THEN IF x >= q1 /\ x < q2 THEN Q - Q8 ELSE Q8
      ELSE IF x >= q2 /\ x < q1 THEN Q8 ELSE Q - Q8

\* The polynomial of the values, which rotations bring to coefficient 0.
TestPolynomial(gate, b) ==
  [i \in 0 .. N - 1 |->
     IF i % Factor = 0 /\ i \div Factor < q \div 2
     THEN GateValue(gate, (b - i \div Factor) % q) ELSE 0]

\* p times X^k modulo X^N + 1.
TimesMonomial(p, k) ==
  [i \in 0 .. N - 1 |->
     LET j == (i - k) % (2 * N) IN IF j < N THEN p[j] ELSE (-p[j - N]) % Q]

(***************************************************************************)
(* AddToACCGINX adds two terms, one for each sign of the private element;  *)
(* the keys are encryptions of whether it has that sign.                   *)
(***************************************************************************)
AddToACCGINX(acc, si, ai) ==
  LET Term(has, k) == [i \in 0 .. N - 1 |->
                         IF has THEN TimesMonomial(acc, k)[i] - acc[i] ELSE 0]
      plus == Term(si = 1, ai * Factor)
      minus == Term(si = -1, ((q - ai) % q) * Factor)
  IN  [i \in 0 .. N - 1 |-> (acc[i] + plus[i] + minus[i]) % Q]

\* The powers of baseR below q; m_digitsR.
DigitsR ==
  LET power[k \in Nat] == IF k = 0 THEN 1 ELSE baseR * power[k - 1]
      count == CHOOSE k \in 1 .. q : power[k] >= q /\ power[k - 1] < q
  IN  [k \in 1 .. count |-> power[k - 1]]

\* AddToACCAP for each digit of ai that is not zero; EncryptAP reduces the exponent.
AddToACCAP(acc, si, ai) ==
  LET Digit(k) == (ai \div DigitsR[k]) % baseR
      sum[k \in 0 .. Len(DigitsR)] ==
        IF k = 0 THEN acc
        ELSE IF Digit(k) = 0 THEN sum[k - 1]
        ELSE TimesMonomial(sum[k - 1], ((si * Digit(k) * DigitsR[k]) % q) * Factor)
  IN  sum[Len(DigitsR)]

\* The value the accumulator ends with: coefficient 0 of its phase.
BootstrapCore(method, gate, s, a, b) ==
  LET acc[i \in 0 .. n] ==
        IF i = 0 THEN TestPolynomial(gate, b)
        ELSE LET ai == (q - a[i]) % q
             IN  IF method = "AP" THEN AddToACCAP(acc[i - 1], s[i], ai)
                 ELSE AddToACCGINX(acc[i - 1], s[i], ai)
  IN  acc[n][0]

\* A new ciphertext of the gate's value of the phase of (a, b); u and e are samples.
Refreshed(method, gate, s, a, b, u, e) ==
  ModSwitch(KeySwitchLWE(s, ModAddFast(Q8, BootstrapCore(method, gate, s, a, b), Q), u, e))

\* Mutant: the difference is brought above zero and not reduced.
EvalNOT_Unreduced(c) == [a |-> [i \in 1 .. n |-> q - c.a[i]], b |-> (q \div 4) + (q - c.b)]

\* An entry 0 of the vector becomes q, which is not reduced.
EvalNOT(c) == [a |-> [i \in 1 .. n |-> q - c.a[i]], b |-> ModSubFast(q \div 4, c.b, q)]

\* The gates with a constant of their own.
SimpleGate(method, gate, s, c1, c2, u, e) ==
  IF gate \in {"XOR_FAST", "XNOR_FAST"}
  THEN LET a == VectorSub(c1.a, c2.a)
           b == ModSubFast(c1.b, c2.b, q)
       IN  Refreshed(method, gate, s, VectorAdd(a, a), ModAddFast(b, b, q), u, e)
  ELSE Refreshed(method, gate, s, VectorAdd(c1.a, c2.a), ModAddFast(c1.b, c2.b, q), u, e)

\* XOR and XNOR are made of three gates, which take a sample each.
CompositeGate(method, gate, s, c1, c2, u, e) ==
  LET and1 == SimpleGate(method, "AND", s, c1, EvalNOT(c2), u[1], e[1])
      and2 == SimpleGate(method, "AND", s, EvalNOT(c1), c2, u[2], e[2])
      or == SimpleGate(method, "OR", s, and1, and2, u[3], e[3])
  IN  IF gate = "XOR" THEN or ELSE EvalNOT(or)

\* Bootstrap of one ciphertext: a quarter is added and AND maps the sum.
Bootstrap(method, s, c, u, e) ==
  Refreshed(method, "AND", s, c.a, ModAddFast(c.b, q \div 4, q), u, e)
=============================================================================
