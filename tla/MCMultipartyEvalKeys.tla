----------------------- MODULE MCMultipartyEvalKeys -----------------------
(***************************************************************************)
(* MultipartyEvalKeys over the ring of MCRLWERing.                         *)
(***************************************************************************)
EXTENDS MultipartyEvalKeys, MCRLWERing

MCSecrets == [t \in Tags |-> {MCSecret(t)}]
MCUniforms == [t \in Tags |-> {MCUniform(t)}]

\* The keys of both parties get the same uniform element, as MultiKeySwitchGen intends.
MCSameUniforms == [t \in Tags |-> {MCUniform(Lead)}]
=============================================================================
