--------------------------- MODULE BFVCoefficients ---------------------------
(***************************************************************************)
(* BFV on one coefficient, down to the residues: a program encrypts,       *)
(* adds, subtracts, multiplies by either method, relinearizes by the       *)
(* digits of KeySwitchBV and decrypts.  Nothing is abstracted but the ring *)
(* (dimension 1, where it is the integers) and the size of the moduli.     *)
(*                                                                         *)
(* Random elements come from BFVMasks, a sample with the extremes of the   *)
(* modulus; errors and ternary randomness from BFVErrors.  One object is   *)
(* computed on; second operands are fresh ciphertexts and plaintexts.  One *)
(* product and MaxSums sums keep the noise within what the moduli are      *)
(* sized for.  The secret is 1 or -1, since with 0 no element but the      *)
(* first would matter.                                                     *)
(***************************************************************************)
EXTENDS BFVTables

CONSTANTS BFVMasks, BFVErrors,
          BFVSetups,  \* records: plaintext modulus t, BEHZ or HPS, the secret s, and
                      \* the relinearization window in bits, 0 for whole towers
          BFVSlacks,  \* what rounding may do to a sum of doubles
          MaxSums

VARIABLES setup,     \* plaintext modulus, method, secret and digit size
          publicKey, \* an encryption of zero
          relinKey,  \* pairs of elements of basis Q, one per digit
          cv,        \* the elements of the object's ciphertext; none before encryption
          message,   \* what the object should decrypt to
          sums, multiplied

keys == <<setup, publicKey, relinKey>>
bfvVars == <<keys, cv, message, sums, multiplied>>

Secret == Residues(setup.s, ModuliQ)
Messages == {Signed(m, setup.t) : m \in 0 .. setup.t - 1}
Add(x, y) == Plus(x, y, ModuliQ)
Sub(x, y) == Minus(x, y, ModuliQ)
Mul(x, y) == Times(x, y, ModuliQ)
Element(v) == Residues(v, ModuliQ)
Scaled(m) == Mul(Element(m), QDivtModq[setup.t])

\* Sizes may differ: the shorter ciphertext has no element there.
ElementAt(x, i) == IF i \in DOMAIN x THEN x[i] ELSE Element(0)
CVSum(x, y) ==
  [i \in DOMAIN x \cup DOMAIN y |-> Add(ElementAt(x, i), ElementAt(y, i))]
CVDifference(x, y) ==
  [i \in DOMAIN x \cup DOMAIN y |-> Sub(ElementAt(x, i), ElementAt(y, i))]
-----------------------------------------------------------------------------
\* EncryptZeroCore with the private key (which also makes the public one) and with the public key.
ZeroWithPrivateKey(a, e) ==
  <<Add(Mul(Element(a), Secret), Element(e)), Element(-a)>>

ZeroWithPublicKey(v, e0, e1) ==
  <<Add(Mul(publicKey[1], Element(v)), Element(e0)),
    Add(Mul(publicKey[2], Element(v)), Element(e1))>>

EncryptionOf(m, zero) == <<Add(zero[1], Scaled(m)), zero[2]>>

\* From s^2 to s: digit w of tower i hides 2^(window * (w - 1)) * s^2 in that tower only.
KeySwitchGen(s, window, a, e) ==
  LET old == Element(s * s)
      Filtered(i, w) ==
        [k \in Basis(ModuliQ) |->
           IF k = i THEN (2 ^ (window * (w - 1)) * old[k]) % ModuliQ[k] ELSE 0]
      Pair(i, w) ==
        [b |-> Add(Sub(Filtered(i, w), Mul(Element(a), Element(s))), Element(e)),
         a |-> Element(a)]
  IN  FlattenSeq([i \in Basis(ModuliQ) |->
                    [w \in 1 .. Windows(ModuliQ[i], window) |-> Pair(i, w)]])

KeySwitchCore(c) ==
  LET digits == CRTDecompose(c, ModuliQ, setup.window)
      SumOf(part(_)) == FoldLeft(LAMBDA acc, k : Add(acc, Mul(digits[k], part(relinKey[k]))),
                                 Element(0), [k \in 1 .. Len(digits) |-> k])
  IN  <<SumOf(LAMBDA pair : pair.b), SumOf(LAMBDA pair : pair.a)>>
-----------------------------------------------------------------------------
\* An element in the basis in which products are formed.
Expanded(x, slack) ==
  IF setup.behz
  THEN FastBaseConvqToBskMontgomery(x, ModuliQ, ModuliBsk, MTilde, ToBskTables)
  ELSE ExpandCRTBasis(x, ModuliQ, ModuliR, QHatInvModq, QHatModr, alphaQModr, slack)

ExpandedBasis == IF setup.behz THEN ModuliQ \o ModuliBsk ELSE ModuliQR

\* The product of two elements, or a sum of products, times t/Q, back in basis Q.
ScaledBack(x, slack) ==
  LET t == setup.t
  IN  IF setup.behz
      THEN FastBaseConvSK(FastRNSFloorq(x, ModuliQ, ModuliBsk, tQHatInvModq[t], qInvModbsk,
                                        tQInvModbsk[t]),
                          ModuliQ, ModuliBsk, BHatInvModb, BHatModmsk, BInvModmsk, BHatModq,
                          BModq)
      ELSE SwitchCRTBasis(ScaleAndRoundToP(x, ModuliQ, ModuliR, tRSHatInvModsDivsModr[t],
                                           tRSHatInvModsDivsFrac[t], slack),
                          ModuliR, ModuliQ, RHatInvModr, RHatModq, alphaRModq, slack)

EvalMultBFV(x, y, slack) ==
  LET ex == [i \in DOMAIN x |-> Expanded(x[i], slack)]
      ey == [i \in DOMAIN y |-> Expanded(y[i], slack)]
      wide == ExpandedBasis
      Tensor(k) == FoldLeft(LAMBDA acc, i : Plus(acc, Times(ex[i], ey[k + 1 - i], wide), wide),
                            Residues(0, wide),
                            SelectSeq([i \in DOMAIN x |-> i], LAMBDA i : k + 1 - i \in DOMAIN y))
  IN  [k \in 1 .. Len(x) + Len(y) - 1 |-> ScaledBack(Tensor(k), slack)]
-----------------------------------------------------------------------------
\* The sum of c[i + 1] times the i-th power of the secret.
DecryptCore(c) == FoldRight(LAMBDA ci, rest : Add(ci, Mul(Secret, rest)), c, Element(0))

\* What the program reads: Decrypt, then the decoding that maps t, like 0, to 0.
Decrypted(c, slack) ==
  LET t == setup.t
      b == DecryptCore(c)
      plain == IF setup.behz
               THEN ScaleAndRoundByGamma(b, ModuliQ, t * Gamma, Gamma, tgammaQHatInvModq[t],
                                         negInvqModtgamma[t])
               ELSE ScaleAndRoundToT(b, ModuliQ, t, tQHatInvModqDivqModt[t],
                                     tQHatInvModqDivqFrac[t], slack)
  IN  IF plain > t \div 2 THEN plain - t ELSE plain
-----------------------------------------------------------------------------
FreshCiphertexts(m) ==
  {EncryptionOf(m, ZeroWithPrivateKey(a, e)) : a \in BFVMasks, e \in BFVErrors}

BFVEncrypt ==
  /\ cv = <<>>
  /\ \E m \in Messages :
       /\ \/ cv' \in FreshCiphertexts(m)
          \/ \E v \in BFVErrors, e0 \in BFVErrors, e1 \in BFVErrors :
               cv' = EncryptionOf(m, ZeroWithPublicKey(v, e0, e1))
       /\ message' = m
  /\ UNCHANGED <<keys, sums, multiplied>>

Becomes(elements, m) ==
  /\ cv' = elements
  /\ message' = Signed(m % setup.t, setup.t)
  /\ UNCHANGED keys

\* Sums and differences with a fresh ciphertext, and with a plaintext, of message m.
BFVAdd(m) ==
  /\ cv # <<>> /\ sums < MaxSums
  /\ sums' = sums + 1
  /\ \/ \E fresh \in FreshCiphertexts(m) :
          \/ Becomes(CVSum(cv, fresh), message + m)
          \/ Becomes(CVDifference(cv, fresh), message - m)
     \/ Becomes([cv EXCEPT ![1] = Add(@, Scaled(m))], message + m)
     \/ Becomes([cv EXCEPT ![1] = Sub(@, Scaled(m))], message - m)
  /\ UNCHANGED multiplied

BFVMult(m) ==
  /\ Len(cv) = 2 /\ ~multiplied
  /\ multiplied' = TRUE
  /\ \E fresh \in FreshCiphertexts(m), slack \in BFVSlacks :
       Becomes(EvalMultBFV(cv, fresh, slack), message * m)
  /\ UNCHANGED sums

BFVRelinearize ==
  /\ Len(cv) = 3
  /\ LET ba == KeySwitchCore(cv[3])
     IN  cv' = <<Add(cv[1], ba[1]), Add(cv[2], ba[2])>>
  /\ UNCHANGED <<keys, message, sums, multiplied>>

BFVInit ==
  /\ setup \in BFVSetups
  /\ \E a \in BFVMasks, e \in BFVErrors :
       /\ publicKey = ZeroWithPrivateKey(a, e)
       /\ relinKey = KeySwitchGen(setup.s, setup.window, a, e)
  /\ cv = <<>> /\ message = 0 /\ sums = 0 /\ multiplied = FALSE

BFVNext ==
  \/ BFVEncrypt
  \/ \E m \in Messages : BFVAdd(m) \/ BFVMult(m)
  \/ BFVRelinearize

BFVSpec == BFVInit /\ [][BFVNext]_bfvVars
-----------------------------------------------------------------------------
(***************************************************************************)
(* Every ciphertext that a program can reach decrypts to the message that  *)
(* the operations make of the encrypted ones, whichever method             *)
(* multiplies, whatever the digit size, and however the doubles round.     *)
(* The conversions between bases that neither form the integer nor are     *)
(* exact, the unreduced residues between them and the rounding up to t     *)
(* itself all cancel out.                                                  *)
(***************************************************************************)
BFVDecrypts == cv # <<>> => \A slack \in BFVSlacks : Decrypted(cv, slack) = message
=============================================================================
