---------------------------- MODULE SchemeBase ----------------------------
(***************************************************************************)
(* Keys, ciphertexts and tags as one program sees them through the         *)
(* wrappers of SchemeBase: key generation of one party and of several,     *)
(* encryption, the homomorphic operations that need keys or combine        *)
(* ciphertexts, proxy re-encryption and threshold decryption.              *)
(*                                                                         *)
(* A tag is what GenerateUniqueKeyID gives a key pair; the parts of the    *)
(* pair, its ciphertexts and its evaluation keys carry it.  Three things   *)
(* are kept that the program does not have: ideal[t], the private element  *)
(* that what is encrypted under public key t decrypts with; members[t],    *)
(* the parties whose private elements add up to it; and, of a ciphertext,  *)
(* the message it should carry (msg) and the tag it should have (under).   *)
(***************************************************************************)
EXTENDS RLWEFormulas, FiniteSets, Folds

CONSTANTS Tags,        \* key pairs
          NULL,
          Secrets,     \* [Tags -> the private elements its owner may sample]
          Masks,       \* the small elements that may be sampled to encrypt
          Uniforms,    \* [Tags -> the uniform elements that may be sampled for keys of it]
          Plaintexts,  \* encoded plaintexts
          MaxDepth,    \* GetMaxDepth(): EvalMultKeysGen makes MaxDepth - 1 keys
          MaxMade      \* bound: key pairs, evaluation keys and ciphertexts the program makes

ASSUME SampleAssumption ==
  /\ NULL \notin Ring
  /\ Secrets \in [Tags -> SUBSET Ring] /\ Uniforms \in [Tags -> SUBSET Ring]
  /\ Masks \subseteq Ring /\ Plaintexts \subseteq Ring
ASSUME DepthAssumption == MaxDepth \in 2 .. 3
ASSUME BoundAssumption == MaxMade \in Nat

VARIABLES privateKey,  \* [Tags -> a private element or NULL]
          publicKey,   \* [Tags -> a pair or NULL]
          ideal, members,
          multKeys,    \* [Tags -> sequence of pairs]: s_evalMultKeyMap
          autoKeys,    \* [Tags -> [Indices -> pair or NULL]]: the map of rotation keys
          switchKeys,  \* results of KeySwitchGen and ReKeyGen
          objects      \* the ciphertexts made so far

keyPairs == <<privateKey, publicKey, ideal, members>>
evalKeys == <<multKeys, autoKeys, switchKeys>>
vars == <<privateKey, publicKey, ideal, members, multKeys, autoKeys, switchKeys, objects>>

NoPair == [b |-> NULL, a |-> NULL]
Ciphertexts == [els : Elements, tag : Tags, under : Tags, switched : BOOLEAN, msg : Ring]
SwitchKeys == [b : Ring, a : Ring, old : Tags, new : Tags]

Init ==
  /\ privateKey = [t \in Tags |-> NULL]
  /\ publicKey = [t \in Tags |-> NoPair]
  /\ ideal = [t \in Tags |-> NULL]
  /\ members = [t \in Tags |-> {}]
  /\ multKeys = [t \in Tags |-> <<>>]
  /\ autoKeys = [t \in Tags |-> [i \in Indices |-> NoPair]]
  /\ switchKeys = {}
  /\ objects = <<>>

\* What the program has made so far; a map or vector of evaluation keys counts once.
Made ==
  LET pairs == {t \in Tags : ideal[t] # NULL}
      files == {t \in Tags : multKeys[t] # <<>>}
      rotations == {t \in Tags : \E i \in Indices : autoKeys[t][i] # NoPair}
  IN  Cardinality(pairs) + Cardinality(files) + Cardinality(rotations)
        + Cardinality(switchKeys) + Len(objects)

-----------------------------------------------------------------------------
\* A new key pair of tag t: private element s, public key pk, and what the two promise.
NewKeyPair(t, s, pk, joint, parties) ==
  /\ ideal[t] = NULL
  /\ privateKey' = [privateKey EXCEPT ![t] = s]
  /\ publicKey' = [publicKey EXCEPT ![t] = pk]
  /\ ideal' = [ideal EXCEPT ![t] = joint]
  /\ members' = [members EXCEPT ![t] = parties]
  /\ UNCHANGED <<evalKeys, objects>>

KeyGen(t) ==
  \E s \in Secrets[t], a \in Uniforms[t] : NewKeyPair(t, s, ZeroUnder(s, a), s, {t})

\* Mutant: the flag fresh is taken the other way round.
JoinedKey_Fresh(pk, s) == ZeroUnder(s, pk.a)

\* The public key of a party that joins the parties of pk; it keeps their uniform element.
JoinedKey(pk, s) == [b |-> ZeroUnder(s, pk.a).b \oplus pk.b, a |-> pk.a]

\* MultipartyKeyGen with the public key of earlier parties, not fresh: a joint key.
MultipartyKeyGen(t, u) ==
  \E s \in Secrets[t] :
    /\ ideal[u] # NULL
    /\ NewKeyPair(t, s, JoinedKey(publicKey[u], s), ideal[u] \oplus s, members[u] \cup {t})

\* The same, fresh: a key of this party alone, to be added by MultiAddPubKeys.
MultipartyKeyGenFresh(t, u) ==
  \E s \in Secrets[t] :
    /\ ideal[u] # NULL
    /\ NewKeyPair(t, s, ZeroUnder(s, publicKey[u].a), s, {t})

\* MultipartyKeyGen with a vector of two private keys.
MultipartyKeyGenOfShares(t, u, v) ==
  \E a \in Uniforms[t] :
    /\ privateKey[u] # NULL /\ privateKey[v] # NULL
    /\ LET s == privateKey[u] \oplus privateKey[v]
       IN  NewKeyPair(t, s, ZeroUnder(s, a), s, {t})

\* MultiAddPubKeys.
AddedPubKeys(p, q) == [b |-> p.b \oplus q.b, a |-> p.a]

\* The parties are distinct and share a uniform element, as the protocol has them.
MultiAddPubKeys(t, u, v) ==
  /\ ideal[u] # NULL /\ ideal[v] # NULL
  /\ members[u] \cap members[v] = {}
  /\ publicKey[u].a = publicKey[v].a
  /\ NewKeyPair(t, NULL, AddedPubKeys(publicKey[u], publicKey[v]),
                ideal[u] \oplus ideal[v], members[u] \cup members[v])

-----------------------------------------------------------------------------
\* EvalMultKeyGen replaces the vector of the tag by one key.
EvalMultKeyGen(t) ==
  \E a \in Uniforms[t] :
    /\ privateKey[t] # NULL
    /\ LET s == privateKey[t]
       IN  multKeys' = [multKeys EXCEPT ![t] = <<SwitchKey(Square(s), s, a)>>]
    /\ UNCHANGED <<keyPairs, autoKeys, switchKeys, objects>>

\* EvalMultKeysGen: one key for each power that a product of MaxDepth factors has.
EvalMultKeysGen(t) ==
  \E as \in [1 .. MaxDepth - 1 -> Uniforms[t]] :
    /\ privateKey[t] # NULL
    /\ LET s == privateKey[t]
           Power(j) == IF j = 1 THEN Square(s) ELSE Cube(s)
       IN  multKeys' = [multKeys EXCEPT ![t] =
                          [j \in 1 .. MaxDepth - 1 |-> SwitchKey(Power(j), s, as[j])]]
    /\ UNCHANGED <<keyPairs, autoKeys, switchKeys, objects>>

\* EvalAutomorphismKeyGen for one index; the caller files the new map in place of the old.
EvalAutomorphismKeyGen(t, i) ==
  \E a \in Uniforms[t] :
    /\ privateKey[t] # NULL
    /\ LET s == privateKey[t]
       IN  autoKeys' = [autoKeys EXCEPT ![t] =
                          [j \in Indices |-> IF j = i THEN SwitchKey(s, Permuted(s, i), a) ELSE NoPair]]
    /\ UNCHANGED <<keyPairs, multKeys, switchKeys, objects>>

NewSwitchKey(pair, u, t) ==
  /\ switchKeys' = switchKeys \cup {[b |-> pair.b, a |-> pair.a, old |-> u, new |-> t]}
  /\ UNCHANGED <<keyPairs, multKeys, autoKeys, objects>>

\* A party whose key pair is its own: its private key opens what its public key closes.
Alone(t) == members[t] = {t}

\* KeySwitchGen between two private keys.
KeySwitchGen(u, t) ==
  \E a \in Uniforms[t] :
    /\ Alone(u) /\ Alone(t)
    /\ NewSwitchKey(SwitchKey(privateKey[u], privateKey[t], a), u, t)

\* ReKeyGen, to any public key, a joint one included.
ReKeyGen(u, t) ==
  \E r \in Masks :
    /\ Alone(u) /\ ideal[t] # NULL
    /\ NewSwitchKey(SwitchKeyToPublic(privateKey[u], publicKey[t], r), u, t)

-----------------------------------------------------------------------------
\* The program makes a ciphertext.
NewObject(els, tag, under, switched, msg) ==
  /\ objects' = Append(objects, [els |-> els, tag |-> tag, under |-> under,
                                 switched |-> switched, msg |-> msg])
  /\ UNCHANGED <<keyPairs, evalKeys>>

\* A ciphertext that takes the tag of x.
Result(x, els, msg) == NewObject(els, x.tag, x.tag, FALSE, msg)

Encrypt(t) ==
  \E m \in Plaintexts, v \in Masks :
    /\ ideal[t] # NULL
    /\ NewObject(Encrypted(ZeroUnderPublic(publicKey[t], v), m), t, t, FALSE, m)

\* Encrypt with a private key; the other parties of a joint key could not take part.
EncryptPrivate(t) ==
  \E m \in Plaintexts, a \in Uniforms[t] :
    /\ Alone(t)
    /\ NewObject(Encrypted(ZeroUnder(privateKey[t], a), m), t, t, FALSE, m)

Objects == {objects[i] : i \in 1 .. Len(objects)}

\* KeySwitch leaves the old tag on its result; the program then only decrypts it.
Tagged == {x \in Objects : ~x.switched}
Linear == {x \in Tagged : Len(x.els) = 2}

\* Those whose evaluation keys, filed under their tag, are for the key they are under.
Own == {x \in Tagged : Alone(x.tag)}

EvalAdd(x, y) ==
  /\ x.tag = y.tag
  /\ Result(x, EvalAddCore(x.els, y.els), x.msg \oplus y.msg)

EvalSub(x, y) ==
  /\ x.tag = y.tag
  /\ Result(x, EvalSubCore(x.els, y.els), x.msg \ominus y.msg)

EvalNegate(x) == Result(x, Negated(x.els), Minus(x.msg))

EvalAddPlain(x) == \E p \in Plaintexts : Result(x, Shifted(x.els, p), x.msg \oplus p)
EvalSubPlain(x) ==
  \E p \in Plaintexts : Result(x, Shifted(x.els, Minus(p)), x.msg \ominus p)
EvalMultPlain(x) == \E p \in Plaintexts : Result(x, Scaled(x.els, p), x.msg \otimes p)

\* EvalMult without a key; at most MaxElements.
EvalMultNoRelin(x, y) ==
  /\ x.tag = y.tag
  /\ Len(x.els) + Len(y.els) <= MaxElements + 1
  /\ Result(x, EvalMultCore(x.els, y.els), x.msg \otimes y.msg)

\* EvalMult with the first key: the third element is absorbed, what is beyond it is dropped.
EvalMult(x, y) ==
  /\ x.tag = y.tag
  /\ multKeys[x.tag] # <<>>
  /\ LET els == EvalMultCore(x.els, y.els)
     IN  Result(x, Absorbed(els, els[3], multKeys[x.tag][1]), x.msg \otimes y.msg)

\* ComposedEvalMult, which goes through KeySwitchInPlace.
ComposedEvalMult(x, y) ==
  /\ x.tag = y.tag
  /\ multKeys[x.tag] # <<>>
  /\ Result(x, KeySwitched(EvalMultCore(x.els, y.els), multKeys[x.tag][1]), x.msg \otimes y.msg)

\* It throws when the tag has fewer keys than elements to absorb.  It does not compare the
\* tags; the program does.
EvalMultAndRelinearize(x, y) ==
  /\ x.tag = y.tag
  /\ Len(x.els) + Len(y.els) <= MaxElements + 1
  /\ Len(multKeys[x.tag]) >= Len(x.els) + Len(y.els) - 3
  /\ Result(x, Relinearized(EvalMultCore(x.els, y.els), multKeys[x.tag]), x.msg \otimes y.msg)

Relinearize(x) ==
  /\ multKeys[x.tag] # <<>>
  /\ Len(multKeys[x.tag]) >= Len(x.els) - 2
  /\ Result(x, Relinearized(x.els, multKeys[x.tag]), x.msg)

\* EvalAutomorphism and, on digits computed before, EvalFastRotation.
EvalAutomorphism(x, i) ==
  /\ autoKeys[x.tag][i] # NoPair
  /\ Result(x, Rotated(x.els, i, autoKeys[x.tag][i]), Sigma(i, x.msg))

\* KeySwitch: the result has the new key's elements and the old key's tag.
KeySwitch(x, k) ==
  /\ k.old = x.tag
  /\ NewObject(KeySwitched(x.els, k), x.tag, k.new, TRUE, x.msg)

\* Mutant: the tag is left as KeySwitch leaves it.
ReEncryptedTag_Old(x, k) == x.tag

\* The wrapper of ReEncrypt gives the result the tag of the key.
ReEncryptedTag(x, k) == k.new

\* ReEncrypt; given a public key, the old one's encryption of zero is added first.
ReEncrypt(x, k) ==
  /\ k.old = x.tag
  /\ \/ NewObject(KeySwitched(x.els, k), ReEncryptedTag(x, k), k.new, FALSE, x.msg)
     \/ \E v \in Masks :
          LET zero == ZeroUnderPublic(publicKey[x.tag], v)
              els == <<x.els[1] \oplus zero.b, x.els[2] \oplus zero.a>>
          IN  NewObject(KeySwitched(els, k), ReEncryptedTag(x, k), k.new, FALSE, x.msg)

-----------------------------------------------------------------------------
KeyPairStep ==
  \E t \in Tags :
    \/ KeyGen(t)
    \/ \E u \in Tags : MultipartyKeyGen(t, u) \/ MultipartyKeyGenFresh(t, u)
    \/ \E u, v \in Tags : MultipartyKeyGenOfShares(t, u, v) \/ MultiAddPubKeys(t, u, v)

EvalKeyStep ==
  \E t \in Tags :
    \/ EvalMultKeyGen(t)
    \/ EvalMultKeysGen(t)
    \/ \E i \in Indices : EvalAutomorphismKeyGen(t, i)
    \/ \E u \in Tags : KeySwitchGen(u, t) \/ ReKeyGen(u, t)

EncryptStep == \E t \in Tags : Encrypt(t) \/ EncryptPrivate(t)

\* Products with a key are of two elements each; see EvalMult for what it does to longer ones.
EvalStep ==
  \/ \E x, y \in Tagged : EvalAdd(x, y) \/ EvalSub(x, y) \/ EvalMultNoRelin(x, y)
  \/ \E x \in Tagged : EvalNegate(x) \/ EvalAddPlain(x) \/ EvalSubPlain(x) \/ EvalMultPlain(x)
  \/ \E x, y \in Own \cap Linear : EvalMult(x, y) \/ ComposedEvalMult(x, y)
  \/ \E x, y \in Own : EvalMultAndRelinearize(x, y)
  \/ \E x \in Own : Relinearize(x)
  \/ \E x \in Own \cap Linear :
       \/ \E i \in Indices : EvalAutomorphism(x, i)
       \/ \E k \in switchKeys : KeySwitch(x, k) \/ ReEncrypt(x, k)

Next == Made < MaxMade /\ (KeyPairStep \/ EvalKeyStep \/ EncryptStep \/ EvalStep)

Spec == Init /\ [][Next]_vars

-----------------------------------------------------------------------------
\* The state keeps its type; a ciphertext has two to four elements of the ring.
TypeOK ==
  /\ privateKey \in [Tags -> Ring \cup {NULL}]
  /\ publicKey \in [Tags -> Pairs \cup {NoPair}]
  /\ ideal \in [Tags -> Ring \cup {NULL}]
  /\ members \in [Tags -> SUBSET Tags]
  /\ multKeys \in [Tags -> Seq(Pairs)]
  /\ autoKeys \in [Tags -> [Indices -> Pairs \cup {NoPair}]]
  /\ switchKeys \subseteq SwitchKeys
  /\ objects \in Seq(Ciphertexts)

(***************************************************************************)
(* Whatever was done to it, and with whichever keys, a ciphertext decrypts *)
(* to the value the same operations give on the plaintexts.  It is what    *)
(* the library is for, and a key made for another power, another index or  *)
(* another order of its two private elements breaks it some calls later.   *)
(***************************************************************************)
DecryptsToMessage == \A x \in Objects : DecryptCore(x.els, ideal[x.under]) = x.msg

(***************************************************************************)
(* The tag of a ciphertext, by which its evaluation keys are found, is the *)
(* tag of the key it is under; only KeySwitch makes ciphertexts whose tag  *)
(* is of another key.                                                      *)
(***************************************************************************)
TagsAreTrue == \A x \in Objects : ~x.switched => x.tag = x.under

\* MultipartyDecryptLead, of a ciphertext of two elements.
PartialLead(els, s) == els[1] \oplus (s \otimes els[2])

\* MultipartyDecryptMain.
PartialMain(els, s) == s \otimes els[2]

\* MultipartyDecryptFusion: the sum of the parts.
Fusion(S, part) ==
  MapThenFoldSet(Plus, Zero, LAMBDA p : part[p], LAMBDA T : CHOOSE p \in T : TRUE, S)

(***************************************************************************)
(* The parties of a key, whichever of them leads, decrypt together what    *)
(* was encrypted under it, in whatever way the key was put together.       *)
(***************************************************************************)
FusionAgrees ==
  \A x \in Linear : \A lead \in members[x.under] :
    LET part == [p \in members[x.under] |->
                   IF p = lead THEN PartialLead(x.els, privateKey[p])
                               ELSE PartialMain(x.els, privateKey[p])]
    IN  Fusion(members[x.under], part) = x.msg
=============================================================================
