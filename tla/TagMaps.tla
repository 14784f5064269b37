------------------------------ MODULE TagMaps ------------------------------
(***************************************************************************)
(* std::map as a function on the keys it has, with the operations the key  *)
(* maps use: m[t] = e, erase, clear, and assigning one map's entries into  *)
(* another.                                                                *)
(***************************************************************************)
EXTENDS Functions

Nothing == Restrict(<<>>, {})

Single(t, e) == [u \in {t} |-> e]

\* The entries of m, and those of n whose keys m has not.
Over(m, n) ==
  [t \in DOMAIN m \cup DOMAIN n |-> IF t \in DOMAIN m THEN m[t] ELSE n[t]]

With(m, t, e) == Over(Single(t, e), m)

Without(m, T) == Restrict(m, DOMAIN m \ T)

\* The maps with keys in K and values in S.
Maps(K, S) == UNION {[T -> S] : T \in SUBSET K}
=============================================================================
