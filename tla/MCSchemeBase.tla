--------------------------- MODULE MCSchemeBase ---------------------------
(***************************************************************************)
(* Two programs of a scheme, as one machine that first picks its part:     *)
(* one that makes keys of all kinds and uses them, SchemeBase over the     *)
(* ring of MCRLWERing, where each key pair may sample one private and one  *)
(* uniform element; and one that sums and rotates slots, AdvancedSHE.      *)
(***************************************************************************)
EXTENDS SchemeBase, AdvancedSHE, MCRLWERing

MCSecrets == [t \in Tags |-> {MCSecret(t)}]
MCUniforms == [t \in Tags |-> {MCUniform(t)}]

VARIABLE part

SumsAreIdle == SumsInit /\ m = 8 /\ scheme = "CKKSRNS" /\ batchSize = 1

PartInit ==
  /\ part \in {"keys", "sums"}
  /\ Init
  /\ IF part = "sums" THEN SumsInit ELSE SumsAreIdle

PartNext ==
  /\ \/ part = "keys" /\ Next /\ UNCHANGED sumsVars
     \/ part = "sums" /\ SumsNext /\ UNCHANGED vars
  /\ UNCHANGED part

PartSpec == PartInit /\ [][PartNext]_<<part, vars, sumsVars>>
=============================================================================
