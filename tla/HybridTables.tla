---------------------------- MODULE HybridTables ----------------------------
(***************************************************************************)
(* The tables of CryptoParametersRNS for hybrid key switching, and those   *)
(* of CryptoParametersCKKSRNS and CryptoParametersBGVRNS for modulus       *)
(* switching.  Towers and digits count from 1; a table that depends on the *)
(* level is indexed by the number of towers, size, unless the code's index *)
(* is kept (k).                                                            *)
(***************************************************************************)
EXTENDS DCRTPoly

CONSTANTS
  TowersQ,   \* the ciphertext modulus at level 0, as a basis
  TowersP,   \* the special primes
  NumPartQ,  \* the number of digits at level 0
  ModulusT   \* BGV's plaintext modulus

SizeOfTowers == Len(TowersQ)
Sizes == 1 .. SizeOfTowers
CeilDiv(a, b) == (a + b - 1) \div b

\* Towers per digit.
NumPerPartQ == CeilDiv(SizeOfTowers, NumPartQ)

Digits == 1 .. NumPartQ
Smaller(a, b) == IF a < b THEN a ELSE b
ParamsPartQ == [j \in Digits |-> SubSeq(TowersQ, NumPerPartQ * (j - 1) + 1,
                                        Smaller(NumPerPartQ * j, SizeOfTowers))]

(***************************************************************************)
(* Parameter generation sees to different primes, none dividing t, to      *)
(* special primes that together exceed every digit, and for BGV to moduli  *)
(* that are 1 modulo t; the code rejects a number of digits that leaves    *)
(* the last one empty.                                                     *)
(***************************************************************************)
ASSUME TowersAssumption ==
  /\ IsInjective(TowersQ \o TowersP)
  /\ \A i \in Basis(TowersQ \o TowersP) :
       LET m == (TowersQ \o TowersP)[i]
       IN  m % ModulusT # 0 /\ \A d \in 2 .. m - 1 : m % d # 0
  /\ \A i \in Basis(TowersQ) : TowersQ[i] % ModulusT = 1
  /\ SizeOfTowers > NumPerPartQ * (NumPartQ - 1)
  /\ \A j \in Digits : Modulus(ParamsPartQ[j]) < Modulus(TowersP)
-----------------------------------------------------------------------------
PartQHat(j) == Modulus(TowersQ) \div Modulus(ParamsPartQ[j])
PartQHatModq == [j \in Digits |-> Residues(PartQHat(j), TowersQ)]

\* Column i counts the towers of digit j only.
PartQHatInvModq ==
  [j \in Digits |->
     [i \in Basis(ParamsPartQ[j]) |-> InverseMod(PartQHat(j), ParamsPartQ[j][i])]]

PModq == Residues(Modulus(TowersP), TowersQ)
PInvModq == [i \in Basis(TowersQ) |-> InverseMod(Modulus(TowersP), TowersQ[i])]
PHatInvModp == [j \in Basis(TowersP) |-> InverseMod(Hat(TowersP, j), TowersP[j])]
PHatModq == [j \in Basis(TowersP) |-> Residues(Hat(TowersP, j), TowersQ)]
tInvModp == [j \in Basis(TowersP) |-> InverseMod(ModulusT, TowersP[j])]

\* The digits of an element with size towers: the last one may have lost some.
NumPartQl(size) == Smaller(CeilDiv(size, NumPerPartQ), NumPartQ)
PartQl(size, j) ==
  SubSeq(ParamsPartQ[j], 1, Smaller(Len(ParamsPartQ[j]), size - NumPerPartQ * (j - 1)))

\* The towers that digit j has to be extended by: the other digits', and the special primes.
ComplPartQ(size, j) ==
  LET Other(k) == LET digit == (k - 1) \div NumPerPartQ + 1
                  IN  ParamsPartQ[IF digit >= j THEN digit + 1 ELSE digit]
                                 [((k - 1) % NumPerPartQ) + 1]
  IN  [k \in 1 .. size - Len(PartQl(size, j)) |-> Other(k)] \o TowersP

PartQlHatInvModq ==
  [size \in Sizes |->
     [j \in 1 .. NumPartQl(size) |->
        [i \in Basis(PartQl(size, j)) |->
           InverseMod(Hat(PartQl(size, j), i), PartQl(size, j)[i])]]]

PartQlHatModp ==
  [size \in Sizes |->
     [j \in 1 .. NumPartQl(size) |->
        [i \in Basis(PartQl(size, j)) |->
           Residues(Hat(PartQl(size, j), i), ComplPartQ(size, j))]]]
-----------------------------------------------------------------------------
(***************************************************************************)
(* CKKS: row k is for an element that has lost k towers already.           *)
(***************************************************************************)
CKKSRows == 0 .. SizeOfTowers - 2
qlInvModq ==
  [k \in CKKSRows |->
     LET l == SizeOfTowers - k
     IN  [i \in 1 .. l - 1 |-> InverseMod(TowersQ[l], TowersQ[i])]]

QlQlInvModqlDivqlModq ==
  [k \in CKKSRows |->
     LET l == SizeOfTowers - k
         modulusQ == Modulus(SubSeq(TowersQ, 1, l - 1))
         result == (InverseMod(modulusQ, TowersQ[l]) * modulusQ) \div TowersQ[l]
     IN  Residues(result, SubSeq(TowersQ, 1, l - 1))]

\* BGV: row l is for dropping tower l.
negtInvModq == [l \in Sizes |-> TowersQ[l] - InverseMod(ModulusT, TowersQ[l])]
qlInvModqBGV == [l \in Sizes |-> [j \in 1 .. l - 1 |-> InverseMod(TowersQ[l], TowersQ[j])]]
=============================================================================
