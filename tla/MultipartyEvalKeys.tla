------------------------ MODULE MultipartyEvalKeys ------------------------
(***************************************************************************)
(* Two parties make evaluation keys for their joint key, call by call as   *)
(* UnitTestMultiparty.cpp:217-244 does: Lead has a key pair of its own,    *)
(* Main joins it, and the joint public key carries Main's tag.  A call     *)
(* waits for the keys it is given; the calls are otherwise in any order.   *)
(***************************************************************************)
EXTENDS SchemeBase

CONSTANTS Lead, Main,  \* two different tags
          Wanted       \* what the keys are for: "products" or "rotations"

VARIABLE parts  \* [Parts -> pair]: the evaluation keys that the parties exchange

Parts == {"lead", "main", "sum", "leadTimesSum", "mainTimesSum"}
jointVars == <<vars, parts>>

Has(part) == parts[part] # NoPair
Exchange(part, pair) ==
  /\ ~Has(part)
  /\ parts' = [parts EXCEPT ![part] = pair]
  /\ UNCHANGED vars

-----------------------------------------------------------------------------
(***************************************************************************)
(* MultiKeySwitchGen(old, new, evalKey) should reuse the uniform elements  *)
(* of evalKey.  The wrapper it goes through, KeySwitchGen of three         *)
(* arguments (base-scheme.h:309), checks evalKey for null and does not     *)
(* pass it on: new uniform elements are sampled.                           *)
(***************************************************************************)
MultiKeySwitchGen(old, new, evalKey, a) == SwitchKey(old, new, a)

\* MultiAddEvalKeys keeps the uniform elements of the first key.
AddedEvalKeys(k, l) == [b |-> k.b \oplus l.b, a |-> k.a]

\* MultiMultEvalKey.
MultipliedEvalKey(k, s) == [b |-> k.b \otimes s, a |-> k.a \otimes s]

\* MultiAddEvalMultKeys.
AddedEvalMultKeys(k, l) == [b |-> k.b \oplus l.b, a |-> k.a \oplus l.a]

-----------------------------------------------------------------------------
\* Keys for products: from s to s for each party, added, times each s, added.
KeySwitchGenLead ==
  \E a \in Uniforms[Lead] :
    /\ privateKey[Lead] # NULL
    /\ Exchange("lead", SwitchKey(privateKey[Lead], privateKey[Lead], a))

MultiKeySwitchGenMain ==
  \E a \in Uniforms[Main] :
    /\ Has("lead") /\ privateKey[Main] # NULL
    /\ Exchange("main", MultiKeySwitchGen(privateKey[Main], privateKey[Main], parts["lead"], a))

MultiAddEvalKeys ==
  /\ Has("lead") /\ Has("main")
  /\ Exchange("sum", AddedEvalKeys(parts["lead"], parts["main"]))

MultiMultEvalKey ==
  /\ Has("sum")
  /\ \/ Exchange("leadTimesSum", MultipliedEvalKey(parts["sum"], privateKey[Lead]))
     \/ Exchange("mainTimesSum", MultipliedEvalKey(parts["sum"], privateKey[Main]))

\* MultiAddEvalMultKeys and InsertEvalMultKey, under the joint key's tag.
InsertJointMultKey ==
  /\ Has("leadTimesSum") /\ Has("mainTimesSum")
  /\ multKeys' = [multKeys EXCEPT ![Main] =
                    <<AddedEvalMultKeys(parts["leadTimesSum"], parts["mainTimesSum"])>>]
  /\ UNCHANGED <<keyPairs, autoKeys, switchKeys, objects, parts>>

ProductStep ==
  \/ KeySwitchGenLead \/ MultiKeySwitchGenMain \/ MultiAddEvalKeys \/ MultiMultEvalKey
  \/ InsertJointMultKey
  \/ \E x, y \in Linear : x.tag = Main /\ EvalMult(x, y) /\ UNCHANGED parts

-----------------------------------------------------------------------------
(***************************************************************************)
(* Keys for rotations.  EvalAutomorphismKeyGen makes Lead's, from s to the *)
(* permuted s; MultiEvalAutomorphismKeyGen (base-multiparty.cpp:183) gives *)
(* the two to MultiKeySwitchGen the other way round.                       *)
(***************************************************************************)
MultiEvalAutomorphismKey(s, i, evalKey, a) == MultiKeySwitchGen(Permuted(s, i), s, evalKey, a)

LeadRotations == {i \in Indices : autoKeys[Lead][i] # NoPair}

\* The result has the indices that both maps have; it is filed under the joint key's tag.
InsertJointAutoKeys ==
  \E a \in Uniforms[Main] :
    /\ LeadRotations # {} /\ privateKey[Main] # NULL
    /\ autoKeys' = [autoKeys EXCEPT ![Main] =
                      [i \in Indices |->
                         IF i \in LeadRotations
                         THEN AddedEvalKeys(autoKeys[Lead][i],
                                MultiEvalAutomorphismKey(privateKey[Main], i, autoKeys[Lead][i], a))
                         ELSE NoPair]]
    /\ UNCHANGED <<keyPairs, multKeys, switchKeys, objects, parts>>

RotationStep ==
  \/ \E i \in Indices : EvalAutomorphismKeyGen(Lead, i) /\ UNCHANGED parts
  \/ InsertJointAutoKeys
  \/ \E x \in Linear, i \in Indices : x.tag = Main /\ EvalAutomorphism(x, i) /\ UNCHANGED parts

-----------------------------------------------------------------------------
JointInit == Init /\ parts = [p \in Parts |-> NoPair]

JointNext ==
  /\ Made < MaxMade
  /\ \/ (KeyGen(Lead) \/ MultipartyKeyGen(Main, Lead) \/ Encrypt(Main)) /\ UNCHANGED parts
     \/ Wanted = "products" /\ ProductStep
     \/ Wanted = "rotations" /\ RotationStep

JointSpec == JointInit /\ [][JointNext]_jointVars

-----------------------------------------------------------------------------
(***************************************************************************)
(* What the parties compute with their joint evaluation keys decrypts, by  *)
(* Lead's and Main's parts, to what the plaintexts give: what              *)
(* UnitTestMultiparty.cpp checks of products and rotations.                *)
(***************************************************************************)
JointResultsDecrypt == FusionAgrees
=============================================================================
