------------------------ MODULE MCCryptoContextKeys ------------------------
(***************************************************************************)
(* Instances of CryptoContextKeys for TLC: room for two copies of one      *)
(* context and one of another.  MCTold compares all of a parameter set,    *)
(* MCUntold the part that two sets of other moduli have in common.         *)
(***************************************************************************)
EXTENDS CryptoContextKeys, TLC

CONSTANTS a1, a2, b1, p, q

MCParamsOf == a1 :> p @@ a2 :> p @@ b1 :> q

MCTold == p :> p @@ q :> q

MCUntold == p :> p @@ q :> p
=============================================================================
