----------------------------- MODULE BFVTables -----------------------------
(***************************************************************************)
(* The tables that CryptoParametersBFVRNS::PrecomputeCRTTables computes    *)
(* for multiplication after Halevi, Polyakov and Shoup (HPS) and after     *)
(* Bajard et al. (BEHZ), and the fractions and integers for encryption and *)
(* decryption.  Rows and columns count from 1; a fraction is its numerator *)
(* over the modulus of its column.                                         *)
(***************************************************************************)
EXTENDS DCRTPoly

CONSTANTS
  ModuliQ,            \* the ciphertext modulus, as a basis
  ModuliR,            \* the auxiliary basis of HPS: one prime more than ModuliQ
  ModuliB, Msk,       \* the auxiliary bases of BEHZ
  MTilde, Gamma,      \* powers of two: 2^16 and 2^26 in the code
  PlaintextModuli     \* the plaintext moduli that are tried

Q == Modulus(ModuliQ)
R == Modulus(ModuliR)
B == Modulus(ModuliB)
ModuliQR == ModuliQ \o ModuliR
ModuliBsk == Append(ModuliB, Msk)
SizeOfQ == Len(ModuliQ)

(***************************************************************************)
(* What parameter generation sees to: different primes, none of which      *)
(* divides a plaintext modulus, and for BEHZ room for the scaled product   *)
(* (the code enlarges msk until there is).  HPS takes SizeOfQ + 1 primes   *)
(* and does not check that there is room.                                  *)
(***************************************************************************)
ASSUME BasesAssumption ==
  /\ Len(ModuliR) = SizeOfQ + 1 /\ Len(ModuliB) = SizeOfQ
  /\ \A m \in {ModuliQR, ModuliQ \o ModuliBsk} :
       /\ IsInjective(m)
       /\ \A i \in DOMAIN m : \A d \in 2 .. m[i] - 1 : m[i] % d # 0
  /\ \A t \in PlaintextModuli :
       /\ \A i \in Basis(ModuliQ) : ModuliQ[i] % t # 0 /\ t < ModuliQ[i]
       /\ B * Msk >= 2 * Q * t

-----------------------------------------------------------------------------
QDivtModq == [t \in PlaintextModuli |-> Residues(Q \div t, ModuliQ)]

\* The hats of basis q: their inverses, and their residues modulo p, row j for p[j].
HatInvMod(q) == [i \in Basis(q) |-> InverseMod(Hat(q, i), q[i])]
HatModRows(q, p) == [j \in Basis(p) |-> [i \in Basis(q) |-> Hat(q, i) % p[j]]]

\* Row alpha: alpha times the modulus of q, as residues for p.
AlphaMod(q, p) == [alpha \in 0 .. Len(q) |-> Residues(Modulus(q) * alpha, p)]

QHatInvModq == HatInvMod(ModuliQ)
QHatModr == HatModRows(ModuliQ, ModuliR)
alphaQModr == AlphaMod(ModuliQ, ModuliR)
RHatInvModr == HatInvMod(ModuliR)
RHatModq == HatModRows(ModuliR, ModuliQ)
alphaRModq == AlphaMod(ModuliR, ModuliQ)

\* t * R * (S / s)^-1, to be divided by s, where S is QR and s one of its primes.
tRSHatInvMods(t, s) == t * R * InverseMod((Q * R) \div s, s)

tRSHatInvModsDivsFrac ==
  [t \in PlaintextModuli |->
     [i \in Basis(ModuliQ) |-> tRSHatInvMods(t, ModuliQ[i]) % ModuliQ[i]]]

tRSHatInvModsDivsModr ==
  [t \in PlaintextModuli |->
     [j \in Basis(ModuliR) |->
        [i \in 1 .. SizeOfQ + 1 |->
           LET s == IF i <= SizeOfQ THEN ModuliQ[i] ELSE ModuliR[j]
           IN  (tRSHatInvMods(t, s) \div s) % ModuliR[j]]]]

tQHatInvModqDivqModt ==
  [t \in PlaintextModuli |->
     [i \in Basis(ModuliQ) |-> ((QHatInvModq[i] * t) \div ModuliQ[i]) % t]]

tQHatInvModqDivqFrac ==
  [t \in PlaintextModuli |->
     [i \in Basis(ModuliQ) |-> (QHatInvModq[i] * t) % ModuliQ[i]]]
-----------------------------------------------------------------------------
tQHatInvModq == tQHatInvModqDivqFrac
QHatModbsk ==
  [i \in Basis(ModuliQ) |-> [j \in Basis(ModuliBsk) |-> Hat(ModuliQ, i) % ModuliBsk[j]]]
QHatModmtilde == [i \in Basis(ModuliQ) |-> Hat(ModuliQ, i) % MTilde]
qInvModbsk ==
  [i \in Basis(ModuliQ) |->
     [j \in Basis(ModuliBsk) |-> InverseMod(ModuliQ[i], ModuliBsk[j])]]
mtildeQHatInvModq == [i \in Basis(ModuliQ) |-> (QHatInvModq[i] * MTilde) % ModuliQ[i]]
negQInvModmtilde == ((MTilde - 1) * InverseMod(Q, MTilde)) % MTilde
QModbsk == Residues(Q, ModuliBsk)
mtildeInvModbsk == [j \in Basis(ModuliBsk) |-> InverseMod(MTilde, ModuliBsk[j])]
ToBskTables ==
  [mtildeQHatInvModq |-> mtildeQHatInvModq, QHatModbsk |-> QHatModbsk,
   QHatModmtilde |-> QHatModmtilde, QModbsk |-> QModbsk,
   negQInvModmtilde |-> negQInvModmtilde, mtildeInvModbsk |-> mtildeInvModbsk]

tQInvModbsk ==
  [t \in PlaintextModuli |->
     [j \in Basis(ModuliBsk) |-> (InverseMod(Q, ModuliBsk[j]) * t) % ModuliBsk[j]]]

BHatInvModb == HatInvMod(ModuliB)
BHatModq ==
  [i \in Basis(ModuliB) |-> [j \in Basis(ModuliQ) |-> Hat(ModuliB, i) % ModuliQ[j]]]
BHatModmsk == [i \in Basis(ModuliB) |-> Hat(ModuliB, i) % Msk]
BInvModmsk == InverseMod(B, Msk)
BModq == Residues(B, ModuliQ)

negInvqModtgamma ==
  [t \in PlaintextModuli |->
     [i \in Basis(ModuliQ) |->
        LET tgamma == t * Gamma
        IN  ((tgamma - 1) * InverseMod(ModuliQ[i], tgamma)) % tgamma]]
tgammaQHatInvModq ==
  [t \in PlaintextModuli |->
     [i \in Basis(ModuliQ) |->
        (((QHatInvModq[i] * Gamma) % ModuliQ[i]) * t) % ModuliQ[i]]]
=============================================================================
