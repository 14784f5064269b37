--------------------------- MODULE RNSCiphertext ---------------------------
(***************************************************************************)
(* The book-keeping a ciphertext of an RNS scheme carries, and the         *)
(* operations on it that CKKS and BGV share.                               *)
(*                                                                         *)
(* Scaling factors are written as logarithms: a product of factors is a    *)
(* sum, a quotient a difference.  LogQ[i] stands for log q_i, LogP for the *)
(* plaintext bits of the FIXED techniques, SF[l] for the precomputed       *)
(* scaling factor of level l.  Only linear relations between the logs are  *)
(* used, so the values given to LogQ need not be real logarithms.          *)
(***************************************************************************)
EXTENDS Integers

CONSTANTS SizeQ,      \* number of RNS moduli q_0 .. q_{SizeQ-1} of a fresh ciphertext
          LogQ,       \* log q_i
          LogP,       \* log of m_approxSF, the nominal factor of the FIXED techniques
          SF,         \* m_scalingFactorsReal, one entry per level
          Technique,  \* m_rsTechnique
          Scheme      \* the concrete LeveledSHE class: "CKKS" or "BGV"

Levels == 0 .. SizeQ - 1

(***************************************************************************)
(* The table is filled by m_scalingFactorsReal[0] = q_{L-1} and            *)
(* m_scalingFactorsReal[k] = m_scalingFactorsReal[k-1]^2 / q_{L-k}.        *)
(***************************************************************************)
IsScalingFactorTable(table) ==
  /\ table \in [Levels -> Int]
  /\ table[0] = LogQ[SizeQ - 1]
  /\ \A k \in Levels \ {0} : table[k] = 2 * table[k - 1] - LogQ[SizeQ - k]

ASSUME SizeQAssumption == SizeQ \in Nat \ {0}
ASSUME LogAssumption == LogQ \in [Levels -> Int] /\ LogP \in Int
ASSUME TableAssumption == IsScalingFactorTable(SF)
ASSUME TechniqueAssumption ==
  Technique \in {"FIXEDMANUAL", "FIXEDAUTO", "FLEXIBLEAUTO"}
ASSUME SchemeAssumption == Scheme \in {"CKKS", "BGV"}

Errors == {"none", "thrown", "overrun"}

(***************************************************************************)
(* towers, level, depth and sf are the fields of CiphertextImpl and of its *)
(* first element; a depth below zero stands for the wrapped size_t.        *)
(* scale is the factor the encrypted message really carries, and mixed     *)
(* says that two elements of different scale were added.                   *)
(* err is "none" unless the operation that produced the record threw       *)
(* ("thrown"), or indexed a table or vector past its end or looped without *)
(* end ("overrun").                                                        *)
(***************************************************************************)
Ciphertext == [towers : 0 .. SizeQ, level : Nat, depth : Int, sf : Int,
               scale : Int, mixed : BOOLEAN, err : Errors]

GetScalingFactorReal(l) == IF Technique = "FLEXIBLEAUTO" THEN SF[l] ELSE LogP

\* The factor that dropping tower i divides by.
GetModReduceFactor(i) == IF Technique = "FLEXIBLEAUTO" THEN LogQ[i] ELSE LogP

(***************************************************************************)
(* The BGV parameter generation takes every q_i congruent to 1 modulo the  *)
(* plaintext modulus, so all integer scaling factors of BGV are 1.         *)
(***************************************************************************)
EncodingFactor(l) == IF Scheme = "BGV" THEN 0 ELSE GetScalingFactorReal(l)

\* Encoding at depth d raises the scaling factor to the power d.
Encoded(l, d) ==
  [towers |-> SizeQ - l, level |-> l, depth |-> d,
   sf |-> d * EncodingFactor(l), scale |-> d * EncodingFactor(l),
   mixed |-> FALSE, err |-> "none"]

Failed(c, e) == [c EXCEPT !.err = e]

\* Mutants: the level is lowered, or not counted.
LevelReduce_WrongWay(c, n) ==
  IF n > c.towers THEN Failed(c, "thrown")
  ELSE [c EXCEPT !.towers = @ - n, !.level = @ - n]
LevelReduce_StaleLevel(c, n) ==
  IF n > c.towers THEN Failed(c, "thrown") ELSE [c EXCEPT !.towers = @ - n]

\* DropLastElements refuses only to drop more towers than there are.
LevelReduceInternal(c, n) ==
  IF c.err # "none" THEN c
  ELSE IF n > c.towers THEN Failed(c, "thrown")
  ELSE [c EXCEPT !.towers = @ - n, !.level = @ + n]

(***************************************************************************)
(* DCRTPoly addition loops over the towers of its left operand and reads   *)
(* the right operand's at the same indices, with no check of their number: *)
(* a longer right operand is read modulo the shorter modulus, a shorter    *)
(* one past its end.  The result is the left operand with its fields.      *)
(***************************************************************************)
EvalAddCore(c1, c2) ==
  IF c1.err # "none" THEN c1
  ELSE IF c2.err # "none" THEN Failed(c1, c2.err)
  ELSE IF c1.towers > c2.towers THEN Failed(c1, "overrun")
  ELSE [c1 EXCEPT !.mixed = @ \/ c2.mixed \/ c1.scale # c2.scale]

\* operator* of DCRTPoly throws on operands of different tower counts.
EvalMultCore(c1, c2) ==
  IF c1.err # "none" THEN c1
  ELSE IF c2.err # "none" THEN Failed(c1, c2.err)
  ELSE IF c1.towers # c2.towers THEN Failed(c1, "thrown")
  ELSE [c1 EXCEPT !.depth = @ + c2.depth, !.sf = @ + c2.sf,
                  !.scale = @ + c2.scale, !.mixed = @ \/ c2.mixed]

\* Mutant: only the second operand is ever reduced.
AdjustLevels_SecondOnly(c1, c2) ==
  IF c1.towers < c2.towers
  THEN <<c1, LevelReduceInternal(c2, c2.towers - c1.towers)>> ELSE <<c1, c2>>

\* The FIXEDMANUAL alignment: the longer operand loses towers.
AdjustLevels(c1, c2) ==
  IF c1.towers < c2.towers
  THEN <<c1, LevelReduceInternal(c2, c2.towers - c1.towers)>>
  ELSE <<LevelReduceInternal(c1, c1.towers - c2.towers), c2>>
=============================================================================
