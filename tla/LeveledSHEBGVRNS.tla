-------------------------- MODULE LeveledSHEBGVRNS --------------------------
(***************************************************************************)
(* The methods LeveledSHEBGVRNS overrides.  The constants it multiplies by *)
(* are products and quotients of integer scaling factors, all 1 for the    *)
(* moduli its parameter generation takes (see EncodingFactor), so a        *)
(* multiplication by one changes the recorded depth only.                  *)
(***************************************************************************)
EXTENDS RNSCiphertext

BGVEvalMultCore(c) == IF c.err # "none" THEN c ELSE [c EXCEPT !.depth = @ + 1]

\* Mutant: the dropped tower is not counted as a level.
BGVModReduce_StaleLevel(c) ==
  IF c.towers < 2 THEN Failed(c, "overrun")
  ELSE [c EXCEPT !.towers = @ - 1, !.depth = @ - 1]

(***************************************************************************)
(* Drops the last tower.  The unsigned counter of its loop must get below  *)
(* the tower's index to end it: for the only tower, 0, it wraps and goes   *)
(* on past the tables.                                                     *)
(***************************************************************************)
BGVModReduceInternal(c) ==
  IF c.err # "none" THEN c
  ELSE IF c.towers < 2 THEN Failed(c, "overrun")
  ELSE [c EXCEPT !.towers = @ - 1, !.level = @ + 1, !.depth = @ - 1]

\* m_scalingFactorsInt and m_scalingFactorsIntBig are filled under FLEXIBLEAUTO only.
BGVHasBigTable(technique) == technique = "FLEXIBLEAUTO"

\* Mutant: the rescaling's own tower is not subtracted.
BGVDrop_OffByOne(c, n) == BGVModReduceInternal(LevelReduceInternal(BGVEvalMultCore(c), n + 1))

BGVDrop(c, n) == BGVModReduceInternal(LevelReduceInternal(BGVEvalMultCore(c), n))

(***************************************************************************)
(* The two branches of the alignment are not mirror images.  With equal    *)
(* depths of 2 the second operand is multiplied by EvalMultInPlace, which  *)
(* this class does not override: the inherited method throws.  With equal  *)
(* depths of 1 only the second branch reads the big table.                 *)
(***************************************************************************)
BGVRaise(c, d, second) ==
  LET gap == d.level - c.level
  IN  CASE c.depth = 2 /\ d.depth = 2 ->
             IF second THEN Failed(c, "thrown")
             ELSE LevelReduceInternal(BGVModReduceInternal(BGVEvalMultCore(c)), gap - 1)
        [] c.depth = 2 /\ d.depth # 2 /\ gap = 1 ->
             BGVModReduceInternal(c)
        [] c.depth = 2 /\ d.depth # 2 /\ gap > 1 ->
             IF BGVHasBigTable(Technique)
             THEN BGVModReduceInternal(
                    LevelReduceInternal(BGVModReduceInternal(BGVEvalMultCore(c)), gap - 2))
             ELSE Failed(c, "overrun")
        [] c.depth # 2 /\ d.depth = 2 ->
             LevelReduceInternal(BGVEvalMultCore(c), gap)
        [] c.depth # 2 /\ d.depth # 2 ->
             IF second /\ ~BGVHasBigTable(Technique) THEN Failed(c, "overrun")
             ELSE BGVDrop(c, gap - 1)

BGVAdjustLevelsAndDepth(c1, c2) ==
  CASE c1.level < c2.level -> <<BGVRaise(c1, c2, FALSE), c2>>
    [] c1.level > c2.level -> <<c1, BGVRaise(c2, c1, TRUE)>>
    [] c1.level = c2.level /\ c1.depth < c2.depth -> <<[c1 EXCEPT !.depth = 2], c2>>
    [] c1.level = c2.level /\ c1.depth > c2.depth -> <<c1, [c2 EXCEPT !.depth = 2]>>
    [] OTHER -> <<c1, c2>>
=============================================================================
