------------------------- MODULE HybridCoefficients -------------------------
(***************************************************************************)
(* BGV and CKKS on one coefficient, down to the residues: encryption at    *)
(* any level, a product, relinearization by hybrid key switching, and the  *)
(* two ways to lose a tower, in any order.  The ring has dimension 1, the  *)
(* moduli are small, random elements come from the sample Masks.           *)
(*                                                                         *)
(* The phase of a ciphertext is what it decrypts to before decoding:       *)
(* message plus noise, as the integer nearest zero.  Each operation says   *)
(* which phase an exact one would have given (a fraction) and how far the  *)
(* computed one may be from it.                                            *)
(***************************************************************************)
EXTENDS HybridTables

CONSTANTS SampleMasks, SampleErrors,
          HybridSetups, \* records: BGV or CKKS, wide integers or not, the secret s
          MaxSquares    \* the multiplicative depth of the program

VARIABLES hybrid,       \* one of HybridSetups
          switchingKey, \* pairs of elements of basis QP, one per digit, from s^2 to s
          elements,     \* the elements of the object's ciphertext; none before encryption
          plain,        \* the message, for BGV
          squares,      \* products so far
          wanted        \* the exact phase num / den, and how far from it (off / 2)

hybridVars == <<hybrid, switchingKey, elements, plain, squares, wanted>>

NoiseScale == IF hybrid.bgv THEN ModulusT ELSE 1
SizeQl == Len(elements[1])
Towers(size) == SubSeq(TowersQ, 1, size)
BasisQl == Towers(SizeQl)
Abs(n) == IF n < 0 THEN -n ELSE n

\* c1 + c2 s + c3 s^2, in the towers that the ciphertext still has.
DecryptedPoly(c) ==
  LET q == Towers(Len(c[1]))
      s == Residues(hybrid.s, q)
  IN  FoldRight(LAMBDA ci, rest : Plus(ci, Times(s, rest, q), q), c, Residues(0, q))

Phase(c) ==
  LET q == Towers(Len(c[1]))
  IN  Signed(CRTInterpolate(DecryptedPoly(c), q), Modulus(q))
-----------------------------------------------------------------------------
\* KeySwitchGen from s^2 to s; the new key is extended to P from its first tower.
HybridKeySwitchGen(setting, a, e) ==
  LET all == TowersQ \o TowersP
      ns == IF setting.bgv THEN ModulusT ELSE 1
      sNewExt == Residues(setting.s, TowersQ)
                   \o [j \in Basis(TowersP) |->
                         SwitchModulus(setting.s % TowersQ[1], TowersQ[1], TowersP[j])]
      Hidden(part) == [i \in Basis(all) |->
                         IF i <= SizeOfTowers
                         THEN PModq[i] * PartQHatModq[part][i] * setting.s * setting.s
                         ELSE 0]
  IN  [part \in Digits |->
         [b |-> [i \in Basis(all) |-> (Hidden(part)[i] + ns * e - a * sNewExt[i]) % all[i]],
          a |-> Residues(a, all)]]

(***************************************************************************)
(* The digits of an element, each extended to the element's own towers and *)
(* to P: its residues stay where the digit has towers, and the basis       *)
(* conversion fills the others.                                            *)
(***************************************************************************)
EvalKeySwitchPrecomputeCore(c) ==
  LET size == Len(c)
      Extended(part) ==
        LET start == NumPerPartQ * (part - 1)
            q == PartQl(size, part)
            partCt == [i \in Basis(q) |-> (c[start + i] * PartQHatInvModq[part][i]) % q[i]]
            compl == ApproxSwitchCRTBasis(hybrid.wide, partCt, ParamsPartQ[part],
                                          ComplPartQ(size, part),
                                          PartQlHatInvModq[size][part],
                                          PartQlHatModp[size][part])
        IN  SubSeq(compl, 1, start) \o partCt \o SubSeq(compl, start + 1, Len(compl))
  IN  [part \in 1 .. NumPartQl(size) |-> Extended(part)]

EvalFastKeySwitchCore(digits, size) ==
  LET qlp == Towers(size) \o TowersP
      Used(k) == SubSeq(k, 1, size) \o SubSeq(k, SizeOfTowers + 1, Len(k))
      cTilda(row(_)) ==
        FoldLeft(LAMBDA sum, j : Plus(sum, Times(digits[j], Used(row(switchingKey[j])), qlp), qlp),
                 Residues(0, qlp), [j \in DOMAIN digits |-> j])
      Down(x) == ApproxModDown(hybrid.wide, x, Towers(size), TowersP, PInvModq, PHatInvModp,
                               PHatModq, tInvModp, IF hybrid.bgv THEN ModulusT ELSE 0)
  IN  <<Down(cTilda(LAMBDA pair : pair.b)), Down(cTilda(LAMBDA pair : pair.a))>>
-----------------------------------------------------------------------------
\* An exact operation would leave the phase num / den; the computed one is at most off / 2 away.
HybridBecomes(c, num, den, off) ==
  /\ elements' = c
  /\ wanted' = [num |-> num, den |-> den, off |-> off]
  /\ UNCHANGED <<hybrid, switchingKey>>

HybridEncrypt ==
  /\ elements = <<>>
  /\ \E m \in -(ModulusT \div 2) .. ModulusT \div 2, a \in SampleMasks, e \in SampleErrors,
        size \in Sizes :
       LET q == Towers(size)
           noisy == m + NoiseScale * e
       IN  /\ HybridBecomes(<<Residues(a * hybrid.s + noisy, q), Residues(-a, q)>>, noisy, 1, 0)
           /\ plain' = m
  /\ UNCHANGED squares

(***************************************************************************)
(* That the modulus has room for the result is what the program chose its  *)
(* multiplicative depth for.                                               *)
(***************************************************************************)
HasRoom(phase, factor) == phase < Modulus(BasisQl) \div (4 * factor)

\* The product of the object with itself.
HybridSquare ==
  /\ Len(elements) = 2 /\ squares < MaxSquares
  /\ HasRoom(Abs(Phase(elements)), 1 + Abs(Phase(elements)))
  /\ LET q == BasisQl
         c == elements
         cross == Times(c[1], c[2], q)
     IN  HybridBecomes(<<Times(c[1], c[1], q), Plus(cross, cross, q), Times(c[2], c[2], q)>>,
                           Phase(c) * Phase(c), 1, 0)
  /\ plain' = plain * plain /\ squares' = squares + 1

\* What the key's errors and the two divisions by P may add to the phase.
KeySwitchNoise(size) ==
  LET digit(part) == NumPerPartQ * Modulus(ParamsPartQ[part])
      fromKey == FoldLeft(LAMBDA sum, part : sum + digit(part), 0,
                          [part \in 1 .. NumPartQl(size) |-> part])
  IN  (NoiseScale * fromKey) \div Modulus(TowersP) + 1
        + NoiseScale * Len(TowersP) * (1 + Abs(hybrid.s))

HybridRelinearize ==
  /\ Len(elements) = 3
  /\ HasRoom(Abs(Phase(elements)) + KeySwitchNoise(SizeQl), 1)
  /\ LET ba == EvalFastKeySwitchCore(EvalKeySwitchPrecomputeCore(elements[3]), SizeQl)
     IN  HybridBecomes(<<Plus(elements[1], ba[1], BasisQl),
                         Plus(elements[2], ba[2], BasisQl)>>,
                       Phase(elements), 1, 2 * KeySwitchNoise(SizeQl))
  /\ UNCHANGED <<plain, squares>>

(***************************************************************************)
(* ModReduceInternalInPlace by one level.  Each element is off by half a   *)
(* unit (CKKS) or half of t (BGV), times a power of the secret.            *)
(***************************************************************************)
Reduced(x) ==
  LET size == Len(x)
      k == SizeOfTowers - size
  IN  IF hybrid.bgv
      THEN PolyModReduce(x, Towers(size), ModulusT, negtInvModq[size], qlInvModqBGV[size])
      ELSE DropLastElementAndScale(x, Towers(size), QlQlInvModqlDivqlModq[k], qlInvModq[k])

HybridModReduce ==
  /\ elements # <<>> /\ SizeQl > 1
  /\ HybridBecomes([i \in DOMAIN elements |-> Reduced(elements[i])],
                   Phase(elements), TowersQ[SizeQl], NoiseScale * Len(elements))
  /\ UNCHANGED <<plain, squares>>

HybridLevelReduce ==
  /\ elements # <<>> /\ SizeQl > 1
  /\ 4 * Abs(Phase(elements)) < Modulus(Towers(SizeQl - 1))
  /\ HybridBecomes([i \in DOMAIN elements |-> DropLastElements(elements[i], 1)],
                   Phase(elements), 1, 0)
  /\ UNCHANGED <<plain, squares>>

HybridInit ==
  /\ hybrid \in HybridSetups
  /\ \E a \in SampleMasks, e \in SampleErrors : switchingKey = HybridKeySwitchGen(hybrid, a, e)
  /\ elements = <<>> /\ plain = 0 /\ squares = 0
  /\ wanted = [num |-> 0, den |-> 1, off |-> 0]

HybridNext ==
  \/ HybridEncrypt \/ HybridSquare \/ HybridRelinearize
  \/ HybridModReduce \/ HybridLevelReduce

HybridSpec == HybridInit /\ [][HybridNext]_hybridVars
-----------------------------------------------------------------------------
\* Decrypt of BGV: the towers are taken off one by one, and what is left is reduced modulo t.
DecryptBGV(c) ==
  LET b == DecryptedPoly(c)
      one == FoldLeft(LAMBDA x, k : Reduced(x), b, [k \in 1 .. Len(b) - 1 |-> k])
  IN  Signed(one[1], TowersQ[1]) % ModulusT

(***************************************************************************)
(* Whatever the level, the order of the operations and the width of the    *)
(* compiler's integers, an operation leaves the phase that it promises, up *)
(* to its own rounding: the basis conversions inside never lose a multiple *)
(* of the modulus.  And a BGV ciphertext decrypts to its message, modulo   *)
(* t, for all that is added and subtracted on the way.                     *)
(***************************************************************************)
PhaseIsKept ==
  elements # <<>> =>
    /\ 2 * Abs(wanted.den * Phase(elements) - wanted.num) <= wanted.den * wanted.off
    /\ hybrid.bgv => DecryptBGV(elements) = plain % ModulusT
=============================================================================
