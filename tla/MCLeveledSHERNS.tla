-------------------------- MODULE MCLeveledSHERNS --------------------------
(***************************************************************************)
(* LeveledSHERNS with four moduli of unrelated size; and the small primes  *)
(* of the instances of BFVCoefficients and HybridCoefficients.             *)
(***************************************************************************)
EXTENDS LeveledSHERNS

\* Powers of a large base, so that no relation between factors holds by chance.
MCLogQ == [i \in 0 .. 3 |-> <<1000000, 10000, 100, 1>>[i + 1]]

\* SF[0] = q3, SF[1] = q3, SF[2] = 2*q3 - q2, SF[3] = 2*SF[2] - q1
MCSF == [l \in 0 .. 3 |-> <<1, 1, 2 - 100, 2 * (2 - 100) - 10000>>[l + 1]]

-----------------------------------------------------------------------------
MCModuliQ == <<37, 31>>
MCModuliR == <<29, 23, 19>>
MCModuliB == <<29, 23>>
MCSigns == {-1, 1}

\* Both methods, both ways of rounding modulo t, whole towers and windows of three bits.
MCSetups ==
  LET Setup(t, behz, window) ==
        {[t |-> t, behz |-> behz, window |-> window, s |-> s] : s \in MCSigns}
  IN  Setup(3, FALSE, 0) \cup Setup(3, TRUE, 3) \cup Setup(4, FALSE, 3) \cup Setup(4, TRUE, 0)

\* Digits of two towers, the first as large as the special primes allow.
MCTowersQ == <<127, 13, 19, 31>>
MCTowersP == <<43, 47>>
MCHybridSetups == [bgv : BOOLEAN, wide : BOOLEAN, s : MCSigns]
=============================================================================
