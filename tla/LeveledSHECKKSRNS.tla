------------------------- MODULE LeveledSHECKKSRNS -------------------------
(***************************************************************************)
(* The methods LeveledSHECKKSRNS overrides: multiplication by a constant,  *)
(* rescaling, compression, and the alignment of two operands that the AUTO *)
(* techniques perform before an addition or a multiplication.              *)
(***************************************************************************)
EXTENDS RNSCiphertext

(***************************************************************************)
(* Multiplies by round(2^k * SF[level]).  A constant the user asks for has *)
(* k = 0: it changes the message, not the scale.                           *)
(***************************************************************************)
CKKSEvalMultCore(c, k) ==
  IF c.err # "none" THEN c
  ELSE [c EXCEPT !.depth = @ + 1,
                 !.sf = @ + GetScalingFactorReal(c.level),
                 !.scale = @ + k + GetScalingFactorReal(c.level)]

\* Mutants: the bound of the tables forgotten, one too strict, the factor left stale.
CKKSModReduce_Unbounded(c) ==
  IF c.err # "none" THEN c
  ELSE [c EXCEPT !.towers = @ - 1, !.level = @ + 1, !.depth = @ - 1,
                 !.sf = @ - GetModReduceFactor(c.towers - 1),
                 !.scale = @ - GetModReduceFactor(c.towers - 1)]
CKKSModReduce_Strict(c) ==
  IF c.towers < 3 THEN Failed(c, "overrun") ELSE CKKSModReduce_Unbounded(c)
CKKSModReduce_StaleFactor(c) ==
  IF c.towers < 2 THEN Failed(c, "overrun")
  ELSE [CKKSModReduce_Unbounded(c) EXCEPT !.sf = c.sf]
CKKSModReduce_StaleLevel(c) ==
  IF c.towers < 2 THEN Failed(c, "overrun")
  ELSE [CKKSModReduce_Unbounded(c) EXCEPT !.level = c.level]

(***************************************************************************)
(* Drops the last tower and divides by it.  The precomputed tables have    *)
(* SizeQ - 1 entries, so the last tower cannot be divided away.            *)
(***************************************************************************)
CKKSModReduceInternal(c) ==
  IF c.err # "none" THEN c
  ELSE IF c.towers < 2 THEN Failed(c, "overrun")
  ELSE [c EXCEPT !.towers = @ - 1, !.level = @ + 1, !.depth = @ - 1,
                 !.sf = @ - GetModReduceFactor(c.towers - 1),
                 !.scale = @ - GetModReduceFactor(c.towers - 1)]

\* m_scalingFactorsRealBig is filled under FLEXIBLEAUTO only.
HasBigTable(technique) == technique = "FLEXIBLEAUTO"

\* Mutant: the constant that compensates for the dropped modulus is lost.
Rescaled_Unscaled(c, k) == CKKSModReduceInternal(CKKSEvalMultCore(c, 0))

Rescaled(c, k) == CKKSModReduceInternal(CKKSEvalMultCore(c, k))

\* Mutant: the recorded factor is not overwritten.
Adopted_Kept(r, d) == r

Adopted(r, d) == [r EXCEPT !.sf = d.sf]

(***************************************************************************)
(* Brings c, which has the lower level, to the level and depth of d.  Every *)
(* branch ends by copying d's scaling factor, except the one that only     *)
(* rescales.                                                               *)
(***************************************************************************)
CKKSRaise(c, d) ==
  LET scf == GetScalingFactorReal(c.level)
      q   == GetModReduceFactor(c.towers - 1)
      gap == d.level - c.level
      big == 2 * SF[d.level - 1]
  IN  CASE c.depth = 2 /\ d.depth = 2 ->
             Adopted(LevelReduceInternal(Rescaled(c, (d.sf + q) - c.sf - scf), gap - 1), d)
        [] c.depth = 2 /\ d.depth # 2 /\ gap = 1 ->
             CKKSModReduceInternal(c)
        [] c.depth = 2 /\ d.depth # 2 /\ gap > 1 ->
             IF HasBigTable(Technique)
             THEN Adopted(CKKSModReduceInternal(
                    LevelReduceInternal(Rescaled(c, (big + q) - c.sf - scf), gap - 2)), d)
             ELSE Failed(c, "overrun")
        [] c.depth # 2 /\ d.depth = 2 ->
             Adopted(LevelReduceInternal(CKKSEvalMultCore(c, d.sf - c.sf - scf), gap), d)
        [] c.depth # 2 /\ d.depth # 2 ->
             IF HasBigTable(Technique)
             THEN Adopted(CKKSModReduceInternal(
                    LevelReduceInternal(CKKSEvalMultCore(c, big - c.sf - scf), gap - 1)), d)
             ELSE Failed(c, "overrun")

\* Mutant: operands of one level are taken to agree.
CKKSAdjust_LevelsOnly(c1, c2) ==
  CASE c1.level < c2.level -> <<CKKSRaise(c1, c2), c2>>
    [] c1.level > c2.level -> <<c1, CKKSRaise(c2, c1)>>
    [] OTHER -> <<c1, c2>>

CKKSAdjustLevelsAndDepth(c1, c2) ==
  CASE c1.level < c2.level -> <<CKKSRaise(c1, c2), c2>>
    [] c1.level > c2.level -> <<c1, CKKSRaise(c2, c1)>>
    [] c1.level = c2.level /\ c1.depth < c2.depth -> <<CKKSEvalMultCore(c1, 0), c2>>
    [] c1.level = c2.level /\ c1.depth > c2.depth -> <<c1, CKKSEvalMultCore(c2, 0)>>
    [] OTHER -> <<c1, c2>>

\* The public constant multiplication rescales a depth-2 operand first.
CKKSEvalMultConst(c) ==
  IF Technique # "FIXEDMANUAL" /\ c.depth = 2
  THEN CKKSEvalMultCore(CKKSModReduceInternal(c), 0)
  ELSE CKKSEvalMultCore(c, 0)

(***************************************************************************)
(* The constant is encoded at SF[level]^depth and added to the first       *)
(* element.  The factors are multiplied depth - 1 times, which wraps for   *)
(* an object without depth: the loop does not end.                         *)
(***************************************************************************)
CKKSEvalAddConst(c) ==
  IF c.depth < 1 THEN Failed(c, "overrun")
  ELSE [c EXCEPT !.mixed = @ \/ c.scale # c.depth * GetScalingFactorReal(c.level)]
=============================================================================
