-------------------------- MODULE MCNativeInteger --------------------------
(***************************************************************************)
(* Words of twelve bits.  Two moduli are just above a power of two, where  *)
(* the estimate is worst, one is composite, one a power of two, and one    *)
(* has all the bits a modulus may have.                                    *)
(***************************************************************************)
EXTENDS NativeInteger

MCPow == [i \in 0 .. 24 |-> 2 ^ i]
MCModuli == {5, 12, 16, 33, 58, 191}
MCOperands == (0 .. 34) \cup {57, 58, 59, 116, 190, 191, 192, 255, 1023, 2071, 2899, 4094, 4095}
=============================================================================
