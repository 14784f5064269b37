---------------------------- MODULE RLWEFormulas ----------------------------
(***************************************************************************)
(* What PKEBase, KeySwitchBV, LeveledSHEBase and MultipartyBase compute.   *)
(*                                                                         *)
(* The ring that keys, plaintexts and the elements of ciphertexts belong   *)
(* to is any commutative ring with automorphisms.  DCRTPoly is Z_Q[x]      *)
(* modulo a cyclotomic polynomial; an automorphism substitutes a power of  *)
(* x.  Errors are left out: every sample that the code scales by the noise *)
(* scale (ns * e) is zero here, so what a formula yields is its message    *)
(* exactly.  The values that are uniform or secret are kept.               *)
(*                                                                         *)
(* A public or evaluation key is a pair b, a.  The elements of a           *)
(* ciphertext are a sequence of two to four: the code has no limit, four   *)
(* is the product of three fresh ones and stands for the longer.           *)
(* Key switching decomposes into digits and adds up what each digit gives; *)
(* here there is one digit.                                                *)
(***************************************************************************)
EXTENDS Integers, Sequences

CONSTANTS Ring,           \* all elements
          Zero,
          Plus(_, _), Minus(_), Times(_, _),
          Indices,        \* the automorphism indices, odd numbers modulo 2N
          ModInverse(_),  \* the inverse of an index modulo 2N
          Sigma(_, _)     \* Sigma(i, x) is x.AutomorphismTransform(i)

ASSUME AdditionAssumption ==
  /\ Zero \in Ring
  /\ \A x \in Ring :
       /\ Minus(x) \in Ring
       /\ Plus(x, Zero) = x
       /\ Plus(x, Minus(x)) = Zero
  /\ \A x, y \in Ring : Plus(x, y) \in Ring /\ Plus(x, y) = Plus(y, x)
  /\ \A x, y, z \in Ring : Plus(Plus(x, y), z) = Plus(x, Plus(y, z))

ASSUME MultiplicationAssumption ==
  /\ \A x, y \in Ring : Times(x, y) \in Ring /\ Times(x, y) = Times(y, x)
  /\ \A x, y, z \in Ring :
       /\ Times(Times(x, y), z) = Times(x, Times(y, z))
       /\ Times(x, Plus(y, z)) = Plus(Times(x, y), Times(x, z))

ASSUME AutomorphismAssumption ==
  \A i \in Indices :
    /\ ModInverse(i) \in Indices
    /\ \A x \in Ring :
         /\ Sigma(i, x) \in Ring
         /\ Sigma(i, Sigma(ModInverse(i), x)) = x
    /\ \A x, y \in Ring :
         /\ Sigma(i, Plus(x, y)) = Plus(Sigma(i, x), Sigma(i, y))
         /\ Sigma(i, Times(x, y)) = Times(Sigma(i, x), Sigma(i, y))

a \oplus b == Plus(a, b)
a \ominus b == Plus(a, Minus(b))
a \otimes b == Times(a, b)

-----------------------------------------------------------------------------

MaxElements == 4
Pairs == [b : Ring, a : Ring]
Elements == {els \in Seq(Ring) : Len(els) \in 2 .. MaxElements}

\* cv[i - 1], or zero past the end.
At(els, i) == IF i \in 1 .. Len(els) THEN els[i] ELSE Zero

Square(s) == s \otimes s
Cube(s) == Square(s) \otimes s

\* DecryptCore, before decoding.
DecryptCore(els, s) ==
  ((At(els, 1) \oplus (At(els, 2) \otimes s))
     \oplus (At(els, 3) \otimes Square(s)))
     \oplus (At(els, 4) \otimes Cube(s))

\* An encryption of zero, or a public key, under the private element s.
ZeroUnder(s, a) == [b |-> Zero \ominus (a \otimes s), a |-> a]

\* EncryptZeroCore with a public key.
ZeroUnderPublic(pk, v) == [b |-> pk.b \otimes v, a |-> pk.a \otimes v]

Encrypted(zero, m) == <<zero.b \oplus m, zero.a>>

-----------------------------------------------------------------------------
\* KeySwitchGen for two private elements.
SwitchKey(old, new, a) == [b |-> old \ominus (a \otimes new), a |-> a]

\* KeySwitchGen for a private element and a public key.
SwitchKeyToPublic(old, pk, u) ==
  [b |-> (pk.b \otimes u) \oplus old, a |-> pk.a \otimes u]

\* KeySwitchCore of c, added to the first two elements.
Absorbed(els, c, key) ==
  <<els[1] \oplus (c \otimes key.b), els[2] \oplus (c \otimes key.a)>>

\* KeySwitchInPlace: a third element is absorbed, otherwise the second is replaced.
KeySwitched(els, key) ==
  IF Len(els) = 2 THEN <<els[1] \oplus (els[2] \otimes key.b), els[2] \otimes key.a>>
                  ELSE Absorbed(els, els[3], key)

\* Mutant: the key for the cube of the private element is used for the square too.
Relinearized_OneKey(els, keys) ==
  LET three == Absorbed(els, els[3], keys[Len(els) - 2])
  IN  IF Len(els) = 2 THEN els
      ELSE IF Len(els) = 3 THEN three ELSE Absorbed(three, els[4], keys[2])

\* RelinearizeInPlace: element j + 2 with key j.
Relinearized(els, keys) ==
  LET three == Absorbed(els, els[3], keys[1])
  IN  IF Len(els) = 2 THEN els
      ELSE IF Len(els) = 3 THEN three ELSE Absorbed(three, els[4], keys[2])

\* EvalAutomorphism: the key leads to the permuted private element, which Sigma restores.
Rotated(els, i, key) ==
  LET switched == KeySwitched(els, key)
  IN  <<Sigma(i, switched[1]), Sigma(i, switched[2])>>

\* The private element that the rotation key of index i is for.
Permuted(s, i) == Sigma(ModInverse(i), s)

-----------------------------------------------------------------------------
Longer(x, y) == IF Len(x) < Len(y) THEN Len(y) ELSE Len(x)

\* EvalAddCoreInPlace: the elements only the second has are appended.
EvalAddCore(x, y) ==
  [i \in 1 .. Longer(x, y) |->
     IF i > Len(y) THEN x[i] ELSE IF i > Len(x) THEN y[i] ELSE x[i] \oplus y[i]]

\* EvalSubCoreInPlace: they are appended negated.
EvalSubCore(x, y) ==
  [i \in 1 .. Longer(x, y) |->
     IF i > Len(y) THEN x[i] ELSE IF i > Len(x) THEN Minus(y[i]) ELSE x[i] \ominus y[i]]

\* EvalMultCore: the convolution, for products of at most four elements.
EvalMultCore(x, y) ==
  LET c1 == At(x, 1) \otimes At(y, 1)
      c2 == (At(x, 1) \otimes At(y, 2)) \oplus (At(x, 2) \otimes At(y, 1))
      c3 == ((At(x, 1) \otimes At(y, 3)) \oplus (At(x, 2) \otimes At(y, 2)))
              \oplus (At(x, 3) \otimes At(y, 1))
      c4 == (At(x, 2) \otimes At(y, 3)) \oplus (At(x, 3) \otimes At(y, 2))
  IN  IF Len(x) + Len(y) = 4 THEN <<c1, c2, c3>> ELSE <<c1, c2, c3, c4>>

\* Mutant: the last element is forgotten.
Negated_AllButLast(els) == [i \in 1 .. Len(els) - 1 |-> Minus(els[i])]

Negated(els) == [i \in 1 .. Len(els) |-> Minus(els[i])]

\* EvalMultInPlace with a plaintext.
Scaled(els, p) == [i \in 1 .. Len(els) |-> els[i] \otimes p]

\* EvalAddInPlace and EvalSubInPlace with a plaintext.
Shifted(els, p) == [els EXCEPT ![1] = els[1] \oplus p]
=============================================================================
