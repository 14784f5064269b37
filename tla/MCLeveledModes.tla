--------------------------- MODULE MCLeveledModes ---------------------------
(***************************************************************************)
(* The leveled operations as one machine that first picks its mode.  Three *)
(* modes keep track of scales, levels and towers: CKKS with rescaling done *)
(* by the library ("flexible"), which is LeveledSHERNS extended here; CKKS *)
(* with rescaling left to the program, every operation allowed; and BGV    *)
(* with rescaling done by the library.  The objects of the last two are    *)
(* ctOther.  The modes "bfv" and "hybrid" compute on residues.             *)
(***************************************************************************)
EXTENDS MCLeveledSHERNS, BFVCoefficients, HybridCoefficients

CONSTANT ManualSlots  \* the objects of a program in mode "manual"

VARIABLES mode, ctOther, outcomeOther

Manual == INSTANCE LeveledSHERNS_proofs WITH
            Scheme <- "CKKS", Technique <- "FIXEDMANUAL", Slots <- ManualSlots, MaxDepth <- 3,
            ct <- ctOther, outcome <- outcomeOther

BGV == INSTANCE LeveledSHERNS_proofs WITH
         Scheme <- "BGV", Technique <- "FLEXIBLEAUTO",
         ct <- ctOther, outcome <- outcomeOther

BFVIsIdle ==
  /\ setup = 0 /\ publicKey = <<>> /\ relinKey = <<>>
  /\ cv = <<>> /\ message = 0 /\ sums = 0 /\ multiplied = FALSE

HybridIsIdle ==
  /\ hybrid = 0 /\ switchingKey = <<>> /\ elements = <<>>
  /\ plain = 0 /\ squares = 0 /\ wanted = 0

MCInit ==
  /\ mode \in {"flexible", "manual", "bgv", "bfv", "hybrid"}
  /\ Init
  /\ IF mode = "bgv" THEN BGV!Init ELSE Manual!Init
  /\ IF mode = "bfv" THEN BFVInit ELSE BFVIsIdle
  /\ IF mode = "hybrid" THEN HybridInit ELSE HybridIsIdle

Scales == <<ct, outcome>>
OtherScales == <<ctOther, outcomeOther>>

MCNext ==
  \/ /\ mode = "flexible" /\ CoreNext
     /\ UNCHANGED <<mode, OtherScales, bfvVars, hybridVars>>
  \/ /\ mode = "manual" /\ Manual!Next
     /\ UNCHANGED <<mode, Scales, bfvVars, hybridVars>>
  \/ /\ mode = "bgv" /\ BGV!CoreNext
     /\ UNCHANGED <<mode, Scales, bfvVars, hybridVars>>
  \/ /\ mode = "bfv" /\ BFVNext
     /\ UNCHANGED <<mode, Scales, OtherScales, hybridVars>>
  \/ /\ mode = "hybrid" /\ HybridNext
     /\ UNCHANGED <<mode, Scales, OtherScales, bfvVars>>

MCSpec ==
  MCInit /\ [][MCNext]_<<mode, Scales, OtherScales, bfvVars, hybridVars>>

-----------------------------------------------------------------------------
(***************************************************************************)
(* A program that rescales when it likes, and mixes plaintexts, constants  *)
(* and compressed objects, still finds the factor of an object's level, to *)
(* the power of its depth, on every object, and towers that match levels.  *)
(***************************************************************************)
ManualScaleIsCanonical == mode = "manual" => Manual!ScaleIsCanonical /\ Manual!TowersMatchLevel

\* No addition fails when rescaling is left to the program, whatever it did before.
ManualAdditionIsTotal == mode = "manual" => Manual!AdditionIsTotal

(***************************************************************************)
(* Whatever BGV's two unequal branches do, depths stay 1 or 2, levels      *)
(* match towers, no object loses its only tower, and an alignment that     *)
(* ends normally gives both operands one level, the higher of the two, one *)
(* depth and equal towers.                                                 *)
(***************************************************************************)
BGVAlignmentAgrees ==
  mode = "bgv" => /\ BGV!DepthIsOneOrTwo /\ BGV!TowersMatchLevel
                   /\ BGV!SomeTowerRemains /\ BGV!AlignmentAgrees
=============================================================================
