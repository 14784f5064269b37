------------------------------ MODULE KeyStore ------------------------------
(***************************************************************************)
(* What a program may expect of a map of evaluation keys: keys are filed   *)
(* under the tag of their private key, each has an owner (a parameter      *)
(* set), and it stays filed until it is replaced or cleared.  A copy of    *)
(* the store, or of part of it, can be saved; loading it back replaces the *)
(* keys of matching tags only, and it survives the end of the process.     *)
(***************************************************************************)
EXTENDS TagMaps

CONSTANTS Tags, Owners, Contents

VARIABLES store,  \* the entry of each tag that has keys
          saved   \* the copy made last, in the same form

Entry == [params : Owners, contents : Contents]

OwnedBy(s, o) == {t \in DOMAIN s : s[t].params = o}

Init == store = Nothing /\ saved = Nothing

Put(t, e) == store' = With(store, t, e) /\ UNCHANGED saved

Clear(T) == store' = Without(store, T) /\ UNCHANGED saved

Save(T) == saved' = Restrict(store, T) /\ UNCHANGED store

Load == store' = Over(saved, store) /\ UNCHANGED saved

\* All the keys, those of one tag, or those of one owner.
Selections ==
  {DOMAIN store} \cup {{t} : t \in DOMAIN store} \cup {OwnedBy(store, o) : o \in Owners}

Next ==
  \/ \E t \in Tags, e \in Entry : Put(t, e)
  \/ \E T \in Selections : Clear(T) \/ Save(T)
  \/ Load

Spec == Init /\ [][Next]_<<store, saved>>
=============================================================================
