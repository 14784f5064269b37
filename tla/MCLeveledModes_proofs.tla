------------------------ MODULE MCLeveledModes_proofs ------------------------
(***************************************************************************)
(* What run leveled_modes checks of the objects of a program under         *)
(* FIXEDMANUAL and under BGV, from the theorems about one machine of each. *)
(* The modes do not touch each other's variables.                          *)
(***************************************************************************)
EXTENDS MCLeveledModes, TLAPS

\* The machine of the mode has its invariant.
ModeInv ==
  /\ mode = "manual" => Manual!ManualInv
  /\ mode = "bgv" => BGV!BGVInv

\* The variables of MCSpec.
allVars == <<mode, Scales, OtherScales, bfvVars, hybridVars>>

\* The assumptions of LeveledSHERNS hold of the two machines.
LEMMA Instances ==
  /\ Manual!IsCKKSManual /\ BGV!IsBGVFlexible
  /\ SizeQ \in Nat \ {0} /\ LogP \in Int
  /\ LogQ \in [Manual!Levels -> Int] /\ Manual!IsScalingFactorTable(SF)
  /\ LogQ \in [BGV!Levels -> Int] /\ BGV!IsScalingFactorTable(SF)
BY SizeQAssumption, LogAssumption, TableAssumption
   DEF Manual!IsCKKSManual, BGV!IsBGVFlexible, Levels, Manual!Levels, BGV!Levels,
       IsScalingFactorTable, Manual!IsScalingFactorTable, BGV!IsScalingFactorTable

LEMMA MCInitInv == MCInit => ModeInv
BY Instances, MaxDepthAssumption, Manual!ManualStart, BGV!BGVStart DEF MCInit, ModeInv

LEMMA MCNextInv == ModeInv /\ [MCNext]_allVars => ModeInv'
<1> SUFFICES ASSUME ModeInv, [MCNext]_allVars PROVE ModeInv'
  OBVIOUS
<1>1. mode' = mode
  BY DEF MCNext, allVars
<1>2. CASE mode = "manual"
  <2>1. [Manual!Next]_(Manual!vars)
    BY <1>2 DEF MCNext, allVars, OtherScales, Manual!vars
  <2> QED BY <1>1, <1>2, <2>1, Instances, MaxDepthAssumption, Manual!ManualStep DEF ModeInv
<1>3. CASE mode = "bgv"
  <2>1. [BGV!CoreNext]_(BGV!vars)
    BY <1>3 DEF MCNext, allVars, OtherScales, BGV!vars
  <2> QED BY <1>1, <1>3, <2>1, Instances, MaxDepthAssumption, BGV!BGVStep DEF ModeInv
<1> QED BY <1>1, <1>2, <1>3 DEF ModeInv

(***************************************************************************)
(* For every chain of moduli and every pool of objects, and whatever the   *)
(* program does: the books of its objects are true and its additions       *)
(* succeed when rescaling is left to it (LeveledSHECKKSRNS under           *)
(* FIXEDMANUAL), and the two branches of LeveledSHEBGVRNS's                *)
(* AdjustLevelsAndDepth give equal operands under FLEXIBLEAUTO.            *)
(***************************************************************************)
THEOREM ModesKeepTheirBooks ==
  MCSpec => [](ManualScaleIsCanonical /\ ManualAdditionIsTotal /\ BGVAlignmentAgrees)
<1>1. ModeInv => ManualScaleIsCanonical /\ ManualAdditionIsTotal
  BY Instances, MaxDepthAssumption, Manual!ManualBooks DEF ModeInv, ManualScaleIsCanonical, ManualAdditionIsTotal
<1>2. ModeInv => BGVAlignmentAgrees
  BY Instances, MaxDepthAssumption, BGV!BGVBooks DEF ModeInv, BGVAlignmentAgrees
<1> QED BY <1>1, <1>2, MCInitInv, MCNextInv, PTL DEF MCSpec, allVars
=============================================================================
