---------------------- MODULE CryptoContextKeys_proofs ----------------------
(***************************************************************************)
(* For every set of contexts, parameters and tags: contexts are not        *)
(* duplicated in memory; if operator== tells all parameter sets apart,     *)
(* every key fits its context and its tag; and then the maps of sum and    *)
(* automorphism keys implement KeyStore.                                   *)
(*                                                                         *)
(* The invariant that carries them is that every live object belongs to a  *)
(* registered context, and that no two registered contexts compare equal.  *)
(***************************************************************************)
EXTENDS CryptoContextKeys, TLAPS

\* operator== distinguishes parameter sets that are not the same.
ComparedTellsApart == \A p, q \in Params : Compared[p] = Compared[q] => p = q

-----------------------------------------------------------------------------
(* Maps. *)

LEMMA MapsAreFunctions ==
  ASSUME NEW K, NEW S, NEW m
  PROVE  m \in Maps(K, S) <=> m \in [DOMAIN m -> S] /\ DOMAIN m \subseteq K
BY DEF Maps

LEMMA NothingIsEmpty == DOMAIN Nothing = {} /\ \A K, S : Nothing \in Maps(K, S)
<1>1. DOMAIN Nothing = {} /\ Nothing = [t \in {} |-> <<>>[t]]
  BY DEF Nothing, Restrict
<1>2. \A K, S : Nothing \in [{} -> S] /\ {} \subseteq K
  BY <1>1
<1> QED BY <1>1, <1>2, MapsAreFunctions

\* Assigning one map's entries into another takes each tag's entry from one of the two.
LEMMA OverIsAMap ==
  ASSUME NEW K, NEW S, NEW m \in Maps(K, S), NEW n \in Maps(K, S)
  PROVE  /\ Over(m, n) \in Maps(K, S)
         /\ DOMAIN Over(m, n) = DOMAIN m \cup DOMAIN n
         /\ \A t \in DOMAIN Over(m, n) :
              Over(m, n)[t] = IF t \in DOMAIN m THEN m[t] ELSE n[t]
<1>1. /\ m \in [DOMAIN m -> S] /\ DOMAIN m \subseteq K
      /\ n \in [DOMAIN n -> S] /\ DOMAIN n \subseteq K
  BY MapsAreFunctions
<1>2. /\ DOMAIN Over(m, n) = DOMAIN m \cup DOMAIN n
      /\ \A t \in DOMAIN Over(m, n) :
           Over(m, n)[t] = IF t \in DOMAIN m THEN m[t] ELSE n[t]
  BY DEF Over
<1>3. Over(m, n) \in [DOMAIN Over(m, n) -> S] /\ DOMAIN Over(m, n) \subseteq K
  BY <1>1, <1>2 DEF Over
<1> QED BY <1>2, <1>3, MapsAreFunctions

\* Filing an entry touches no other tag.
LEMMA WithIsAMap ==
  ASSUME NEW K, NEW S, NEW m \in Maps(K, S), NEW t \in K, NEW e \in S
  PROVE  /\ With(m, t, e) \in Maps(K, S)
         /\ DOMAIN With(m, t, e) = DOMAIN m \cup {t}
         /\ \A u \in DOMAIN With(m, t, e) : With(m, t, e)[u] = IF u = t THEN e ELSE m[u]
<1>1. DOMAIN Single(t, e) = {t} /\ Single(t, e) \in [{t} -> S] /\ Single(t, e)[t] = e
  BY DEF Single
<1>2. Single(t, e) \in Maps(K, S)
  BY <1>1, MapsAreFunctions
<1> QED BY <1>1, <1>2, OverIsAMap DEF With

\* Erasing tags leaves the entries of the others.
LEMMA WithoutIsAMap ==
  ASSUME NEW K, NEW S, NEW m \in Maps(K, S), NEW T
  PROVE  /\ Without(m, T) \in Maps(K, S)
         /\ DOMAIN Without(m, T) = DOMAIN m \ T
         /\ \A t \in DOMAIN Without(m, T) : Without(m, T)[t] = m[t]
<1>1. m \in [DOMAIN m -> S] /\ DOMAIN m \subseteq K
  BY MapsAreFunctions
<1>2. /\ DOMAIN Without(m, T) = DOMAIN m \ T
      /\ \A t \in DOMAIN Without(m, T) : Without(m, T)[t] = m[t]
      /\ Without(m, T) \in [DOMAIN m \ T -> S]
  BY <1>1 DEF Without, Restrict
<1> QED BY <1>1, <1>2, MapsAreFunctions

-----------------------------------------------------------------------------
(* Contexts are shared. *)

Registered ==
  /\ handles \subseteq AllContexts
  /\ \A t \in DOMAIN privateKeys : privateKeys[t].cc \in AllContexts
  /\ \A t \in DOMAIN evalKeys : evalKeys[t].cc \in AllContexts

Canonical ==
  \A c, d \in AllContexts : Compared[ParamsOf[c]] = Compared[ParamsOf[d]] => c = d

Inv == TypeOK /\ Registered /\ Canonical

\* Restated with the domains of the maps in place of a choice of tags.
LEMMA TypeOKFacts ==
  ASSUME TypeOK
  PROVE  /\ \A t \in DOMAIN privateKeys : t \in Tags /\ privateKeys[t] \in PrivateKey
         /\ \A t \in DOMAIN evalKeys : t \in Tags /\ evalKeys[t] \in FiledKeys
         /\ \A t \in DOMAIN keyFile : t \in Tags /\ keyFile[t] \in Params
         /\ \A t \in DOMAIN evalFile : t \in Tags /\ evalFile[t] \in WrittenKeys
<1>1. /\ privateKeys \in [DOMAIN privateKeys -> PrivateKey] /\ DOMAIN privateKeys \subseteq Tags
      /\ evalKeys \in [DOMAIN evalKeys -> FiledKeys] /\ DOMAIN evalKeys \subseteq Tags
      /\ keyFile \in [DOMAIN keyFile -> Params] /\ DOMAIN keyFile \subseteq Tags
      /\ evalFile \in [DOMAIN evalFile -> WrittenKeys] /\ DOMAIN evalFile \subseteq Tags
  BY MapsAreFunctions DEF TypeOK
<1> QED BY <1>1

\* What GetContext promises: a registered context that compares equal, and no new duplicate.
LEMMA RegistersKeepsCanonical ==
  ASSUME NEW ps \in SUBSET Params, NEW f \in [ps -> Contexts],
         AllContexts \subseteq Contexts, Canonical, Registers(ps, f)
  PROVE  /\ AllContexts' \subseteq Contexts
         /\ AllContexts \subseteq AllContexts'
         /\ \A p \in ps : f[p] \in AllContexts' /\ Compared[ParamsOf[f[p]]] = Compared[p]
         /\ Canonical'
<1>1. /\ AllContexts' = AllContexts \cup Range(f)
      /\ \A p \in ps : Matches(f[p], p)
      /\ \A p, q \in ps : Compared[p] = Compared[q] => f[p] = f[q]
      /\ \A p \in ps : f[p] \in AllContexts \/ \A c \in AllContexts : ~Matches(c, p)
  BY DEF Registers
<1>2. Range(f) = {f[p] : p \in ps}
  BY DEF Range
<1>3. \A p \in ps : f[p] \in AllContexts' /\ Compared[ParamsOf[f[p]]] = Compared[p]
  BY <1>1, <1>2 DEF Matches
<1>4. ASSUME NEW c \in AllContexts', NEW d \in AllContexts',
             Compared[ParamsOf[c]] = Compared[ParamsOf[d]]
      PROVE  c = d
  <2>1. CASE c \in AllContexts /\ d \in AllContexts
    BY <1>4, <2>1 DEF Canonical
  <2>2. ASSUME NEW p \in ps, NEW q \in ps, c = f[p], d = f[q]
        PROVE  c = d
    BY <1>1, <1>3, <1>4, <2>2
  <2>3. ASSUME NEW p \in ps, c = f[p], d \in AllContexts
        PROVE  c = d
    BY <1>1, <1>3, <1>4, <2>3 DEF Canonical, Matches
  <2>4. ASSUME NEW q \in ps, d = f[q], c \in AllContexts
        PROVE  c = d
    BY <1>1, <1>3, <1>4, <2>4 DEF Canonical, Matches
  <2> QED BY <1>1, <1>2, <2>1, <2>2, <2>3, <2>4
<1>5. Canonical'
  BY <1>4, ParamsAssumption DEF Canonical
<1>6. AllContexts' \subseteq Contexts
  BY <1>1, <1>2
<1> QED BY <1>1, <1>3, <1>5, <1>6

\* Filing keys made from a private key in memory keeps the invariant.
LEMMA FileKeepsInv ==
  ASSUME Inv, NEW t \in DOMAIN privateKeys, NEW v \in Contents, File(t, privateKeys[t], v)
  PROVE  Inv'
<1> DEFINE e == [cc |-> privateKeys[t].cc, params |-> privateKeys[t].params, contents |-> v]
<1>1. /\ t \in Tags /\ e \in FiledKeys /\ e.cc \in AllContexts
      /\ evalKeys' = With(evalKeys, t, e)
      /\ UNCHANGED <<AllContexts, handles, privateKeys, keyFile, evalFile>>
  BY TypeOKFacts DEF Inv, Registered, PrivateKey, FiledKeys, File
<1> HIDE DEF e
<1>2. /\ evalKeys' \in Maps(Tags, FiledKeys)
      /\ \A u \in DOMAIN evalKeys' : u = t \/ u \in DOMAIN evalKeys
      /\ \A u \in DOMAIN evalKeys' : evalKeys'[u] = IF u = t THEN e ELSE evalKeys[u]
  <2>1. evalKeys \in Maps(Tags, FiledKeys)
    BY DEF Inv, TypeOK
  <2>2. /\ With(evalKeys, t, e) \in Maps(Tags, FiledKeys)
        /\ DOMAIN With(evalKeys, t, e) = DOMAIN evalKeys \cup {t}
        /\ \A u \in DOMAIN With(evalKeys, t, e) :
             With(evalKeys, t, e)[u] = IF u = t THEN e ELSE evalKeys[u]
    BY <1>1, <2>1, WithIsAMap
  <2> QED BY <1>1, <2>2
<1>3. TypeOK'
  BY <1>1, <1>2 DEF Inv, TypeOK
<1>4. Registered'
  BY <1>1, <1>2 DEF Inv, Registered
<1> QED BY <1>1, <1>3, <1>4 DEF Inv, Canonical

\* After reading, a tag's keys are those read or those that were there.
LEMMA LoadedIsAMap ==
  ASSUME TypeOK, NEW r \in Maps(Tags, FiledKeys)
  PROVE  /\ Loaded(r) \in Maps(Tags, FiledKeys)
         /\ \A t \in DOMAIN Loaded(r) :
              \/ t \in DOMAIN r /\ Loaded(r)[t] = r[t]
              \/ t \in DOMAIN evalKeys /\ Loaded(r)[t] = evalKeys[t]
<1>1. CASE Kind = "mult"
  BY <1>1 DEF Loaded
<1>2. CASE Kind # "mult"
  <2>1. Loaded(r) = Over(r, evalKeys)
    BY <1>2 DEF Loaded
  <2>2. evalKeys \in Maps(Tags, FiledKeys)
    BY DEF TypeOK
  <2>3. Over(r, evalKeys) \in Maps(Tags, FiledKeys)
    BY <2>2, OverIsAMap
  <2>4. \A t \in DOMAIN Over(r, evalKeys) :
          \/ t \in DOMAIN r /\ Over(r, evalKeys)[t] = r[t]
          \/ t \in DOMAIN evalKeys /\ Over(r, evalKeys)[t] = evalKeys[t]
    BY DEF Over
  <2> QED BY <2>1, <2>3, <2>4
<1> QED BY <1>1, <1>2

\* Every step of Spec keeps the invariant.
LEMMA InvIsInductive ==
  ASSUME Inv, [Next]_vars
  PROVE  Inv'
<1> USE DEF Inv
<1>1. ASSUME NEW p \in Params, NEW c \in Contexts, GetContext(p, c)
      PROVE  Inv'
  <2>1. /\ {p} \in SUBSET Params /\ Single(p, c) \in [{p} -> Contexts]
        /\ Single(p, c)[p] = c
    BY DEF Single
  <2>2. /\ AllContexts' \subseteq Contexts /\ AllContexts \subseteq AllContexts'
        /\ c \in AllContexts' /\ Canonical'
    BY <1>1, <2>1, RegistersKeepsCanonical DEF GetContext, TypeOK
  <2> QED BY <1>1, <2>2 DEF GetContext, TypeOK, Registered
<1>2. ASSUME NEW c \in handles, DropContext(c)
      PROVE  Inv'
  BY <1>2 DEF DropContext, TypeOK, Registered, Canonical
<1>3. ASSUME Quiet, ReleaseAllContexts
      PROVE  Inv'
  BY <1>3, NothingIsEmpty DEF Quiet, ReleaseAllContexts, TypeOK, Registered, Canonical
<1>4. ASSUME NEW c \in handles, NEW t \in Tags, KeyGen(c, t)
      PROVE  Inv'
  <2> DEFINE k == [cc |-> c, params |-> ParamsOf[c]]
  <2>1. /\ k \in PrivateKey /\ k.cc \in AllContexts
        /\ privateKeys \in Maps(Tags, PrivateKey) /\ privateKeys' = With(privateKeys, t, k)
        /\ UNCHANGED <<AllContexts, handles, evalKeys, keyFile, evalFile>>
    BY <1>4, ParamsAssumption DEF KeyGen, TypeOK, PrivateKey
  <2> HIDE DEF k
  <2>2. /\ privateKeys' \in Maps(Tags, PrivateKey)
        /\ DOMAIN privateKeys' = DOMAIN privateKeys \cup {t}
        /\ \A u \in DOMAIN privateKeys' : privateKeys'[u] = IF u = t THEN k ELSE privateKeys[u]
    <3>1. /\ With(privateKeys, t, k) \in Maps(Tags, PrivateKey)
          /\ DOMAIN With(privateKeys, t, k) = DOMAIN privateKeys \cup {t}
          /\ \A u \in DOMAIN With(privateKeys, t, k) :
               With(privateKeys, t, k)[u] = IF u = t THEN k ELSE privateKeys[u]
      <4>1. k \in PrivateKey /\ privateKeys \in Maps(Tags, PrivateKey)
        BY <2>1
      <4> HIDE DEF Inv
      <4> QED BY <4>1, WithIsAMap
    <3> QED BY <2>1, <3>1
  <2> QED BY <2>1, <2>2 DEF TypeOK, Registered, Canonical
<1>5. ASSUME NEW c \in handles, NEW t \in Tags, NEW v \in Contents, EvalKeyGen(c, t, v)
      PROVE  Inv'
  BY <1>5, FileKeepsInv DEF EvalKeyGen
<1>6. ASSUME NEW t \in Tags, NEW v \in Contents, InsertEvalKey(t, v)
      PROVE  Inv'
  BY <1>6, FileKeepsInv DEF InsertEvalKey
<1>7. ASSUME NEW t \in DOMAIN privateKeys, DropKey(t)
      PROVE  Inv'
  <2>1. /\ privateKeys' = Without(privateKeys, {t}) /\ privateKeys \in Maps(Tags, PrivateKey)
        /\ UNCHANGED <<AllContexts, handles, evalKeys, keyFile, evalFile>>
    BY <1>7 DEF DropKey, TypeOK
  <2>2. /\ privateKeys' \in Maps(Tags, PrivateKey)
        /\ DOMAIN privateKeys' \subseteq DOMAIN privateKeys
        /\ \A u \in DOMAIN privateKeys' : privateKeys'[u] = privateKeys[u]
    <3>1. /\ Without(privateKeys, {t}) \in Maps(Tags, PrivateKey)
          /\ DOMAIN Without(privateKeys, {t}) = DOMAIN privateKeys \ {t}
          /\ \A u \in DOMAIN Without(privateKeys, {t}) : Without(privateKeys, {t})[u] = privateKeys[u]
      BY <2>1, WithoutIsAMap
    <3> QED BY <2>1, <3>1
  <2> QED BY <2>1, <2>2 DEF TypeOK, Registered, Canonical
<1>8. ASSUME NEW t \in DOMAIN privateKeys, SerializeKey(t)
      PROVE  Inv'
  <2>1. /\ t \in Tags /\ privateKeys[t].params \in Params
        /\ keyFile \in Maps(Tags, Params)
        /\ keyFile' = With(keyFile, t, privateKeys[t].params)
        /\ UNCHANGED <<AllContexts, handles, privateKeys, evalKeys, evalFile>>
    BY <1>8, TypeOKFacts DEF SerializeKey, TypeOK, PrivateKey
  <2>2. keyFile' \in Maps(Tags, Params)
    BY <2>1, WithIsAMap
  <2> QED BY <2>1, <2>2 DEF TypeOK, Registered, Canonical
<1>9. ASSUME NEW T, ClearEvalKeys(T)
      PROVE  Inv'
  <2>1. /\ evalKeys' = Without(evalKeys, T) /\ evalKeys \in Maps(Tags, FiledKeys)
        /\ UNCHANGED <<AllContexts, handles, privateKeys, keyFile, evalFile>>
    BY <1>9 DEF ClearEvalKeys, TypeOK
  <2>2. /\ evalKeys' \in Maps(Tags, FiledKeys)
        /\ DOMAIN evalKeys' \subseteq DOMAIN evalKeys
        /\ \A u \in DOMAIN evalKeys' : evalKeys'[u] = evalKeys[u]
    <3>1. /\ Without(evalKeys, T) \in Maps(Tags, FiledKeys)
          /\ DOMAIN Without(evalKeys, T) = DOMAIN evalKeys \ T
          /\ \A u \in DOMAIN Without(evalKeys, T) : Without(evalKeys, T)[u] = evalKeys[u]
      BY <2>1, WithoutIsAMap
    <3> QED BY <2>1, <3>1
  <2> QED BY <2>1, <2>2 DEF TypeOK, Registered, Canonical
<1>10. ASSUME NEW T \in Selections, SerializeEvalKeys(T)
       PROVE  Inv'
  <2>1. /\ T \subseteq DOMAIN evalKeys /\ DOMAIN evalKeys \subseteq Tags
        /\ \A t \in T : Written(evalKeys[t]) \in WrittenKeys
    BY TypeOKFacts DEF Selections, FiledFor, Written, FiledKeys, WrittenKeys
  <2>2. /\ evalFile' = [t \in T |-> Written(evalKeys[t])]
        /\ UNCHANGED <<AllContexts, handles, privateKeys, evalKeys, keyFile>>
    BY <1>10 DEF SerializeEvalKeys
  <2>3. evalFile' \in Maps(Tags, WrittenKeys)
    BY <2>1, <2>2, MapsAreFunctions
  <2> QED BY <2>2, <2>3 DEF TypeOK, Registered, Canonical
<1>11. CASE DeserializeEvalKeys
  <2> DEFINE ps == {evalFile[t].params : t \in DOMAIN evalFile}
             read(f) == [t \in DOMAIN evalFile |->
                          [cc |-> f[evalFile[t].params], params |-> evalFile[t].params,
                           contents |-> evalFile[t].contents]]
  <2>1. PICK f \in [ps -> Contexts] :
          /\ Registers(ps, f)
          /\ evalKeys' = Loaded(read(f))
          /\ UNCHANGED <<handles, privateKeys, keyFile, evalFile>>
    BY <1>11 DEF DeserializeEvalKeys
  <2>2. /\ ps \in SUBSET Params
        /\ \A t \in DOMAIN evalFile :
             t \in Tags /\ evalFile[t] \in WrittenKeys /\ evalFile[t].params \in ps
    BY TypeOKFacts DEF WrittenKeys
  <2>3. /\ AllContexts' \subseteq Contexts /\ AllContexts \subseteq AllContexts'
        /\ \A p \in ps : f[p] \in AllContexts' /\ f[p] \in Contexts
        /\ Canonical'
    BY <2>1, <2>2, RegistersKeepsCanonical DEF TypeOK
  <2>4. /\ DOMAIN read(f) = DOMAIN evalFile
        /\ \A t \in DOMAIN read(f) : read(f)[t] \in FiledKeys /\ read(f)[t].cc \in AllContexts'
    BY <2>2, <2>3 DEF FiledKeys, WrittenKeys
  <2>5. read(f) \in Maps(Tags, FiledKeys)
    BY <2>2, <2>4, MapsAreFunctions
  <2>6. /\ evalKeys \in Maps(Tags, FiledKeys)
        /\ \A t \in DOMAIN evalKeys : evalKeys[t].cc \in AllContexts
    BY DEF TypeOK, Registered
  <2> DEFINE r == read(f)
  <2>7. /\ r \in Maps(Tags, FiledKeys)
        /\ \A t \in DOMAIN r : r[t].cc \in AllContexts'
        /\ evalKeys' = Loaded(r)
    BY <2>1, <2>4, <2>5
  <2> HIDE DEF r
  <2>8. /\ Loaded(r) \in Maps(Tags, FiledKeys)
        /\ \A t \in DOMAIN Loaded(r) :
             \/ t \in DOMAIN r /\ Loaded(r)[t] = r[t]
             \/ t \in DOMAIN evalKeys /\ Loaded(r)[t] = evalKeys[t]
    BY <2>7, LoadedIsAMap
  <2>9. \A t \in DOMAIN evalKeys' : evalKeys'[t].cc \in AllContexts'
    BY <2>3, <2>6, <2>7, <2>8
  <2> QED BY <2>1, <2>3, <2>7, <2>8, <2>9 DEF TypeOK, Registered
<1>12. ASSUME NEW t \in Tags, NEW c \in Contexts, DeserializeKey(t, c)
       PROVE  Inv'
  <2> DEFINE p == keyFile[t]
             k == [cc |-> c, params |-> p]
  <2>1. /\ p \in Params /\ Registers({p}, Single(p, c))
        /\ privateKeys' = With(privateKeys, t, k)
        /\ UNCHANGED <<handles, evalKeys, keyFile, evalFile>>
    BY <1>12, TypeOKFacts DEF DeserializeKey
  <2>2. /\ {p} \in SUBSET Params /\ Single(p, c) \in [{p} -> Contexts]
        /\ Single(p, c)[p] = c
    BY <2>1 DEF Single
  <2>3. k \in PrivateKey /\ k.cc = c /\ privateKeys \in Maps(Tags, PrivateKey)
    BY <2>1 DEF PrivateKey, TypeOK
  <2> HIDE DEF p, k
  <2>4. /\ AllContexts' \subseteq Contexts /\ AllContexts \subseteq AllContexts'
        /\ c \in AllContexts' /\ Canonical'
    BY <2>1, <2>2, RegistersKeepsCanonical DEF TypeOK
  <2>5. /\ privateKeys' \in Maps(Tags, PrivateKey)
        /\ DOMAIN privateKeys' = DOMAIN privateKeys \cup {t}
        /\ \A u \in DOMAIN privateKeys' : privateKeys'[u] = IF u = t THEN k ELSE privateKeys[u]
    <3>1. /\ With(privateKeys, t, k) \in Maps(Tags, PrivateKey)
          /\ DOMAIN With(privateKeys, t, k) = DOMAIN privateKeys \cup {t}
          /\ \A u \in DOMAIN With(privateKeys, t, k) :
               With(privateKeys, t, k)[u] = IF u = t THEN k ELSE privateKeys[u]
      BY <2>3, WithIsAMap
    <3> QED BY <2>1, <3>1
  <2> QED BY <2>1, <2>3, <2>4, <2>5 DEF TypeOK, Registered
<1>13. CASE Restart
  BY <1>13, NothingIsEmpty DEF Restart, TypeOK, Registered, Canonical
<1>14. CASE UNCHANGED vars
  BY <1>14 DEF vars, TypeOK, Registered, Canonical
<1> QED BY <1>1, <1>2, <1>3, <1>4, <1>5, <1>6, <1>7, <1>8, <1>9, <1>10, <1>11, <1>12, <1>13, <1>14
     DEF Next, ContextStep, KeyStep, MapStep

LEMMA InvHoldsInitially == Init => Inv
BY NothingIsEmpty DEF Init, Inv, TypeOK, Registered, Canonical

LEMMA InvImpliesSharing == Inv => OneContextPerParams
<1>1. ASSUME Inv PROVE Live \subseteq AllContexts
  BY <1>1 DEF Inv, Registered, Live
<1> QED BY <1>1 DEF Inv, Canonical, OneContextPerParams

(***************************************************************************)
(* GetContext, load and the files never leave two copies of one context in *)
(* memory, as long as the program lets go of the contexts it releases.     *)
(***************************************************************************)
THEOREM ContextsAreShared == Spec => [](TypeOK /\ OneContextPerParams)
<1>1. Init => Inv
  BY InvHoldsInitially
<1>2. Inv /\ [Next]_vars => Inv'
  BY InvIsInductive
<1>3. Inv => TypeOK /\ OneContextPerParams
  BY InvImpliesSharing DEF Inv
<1> QED BY <1>1, <1>2, <1>3, PTL DEF Spec

-----------------------------------------------------------------------------
(* Keys fit their context and their tag. *)

OwnerIs(t, o) ==
  /\ t \in DOMAIN privateKeys => privateKeys[t].params = o
  /\ t \in DOMAIN evalKeys => evalKeys[t].params = o
  /\ t \in DOMAIN keyFile => keyFile[t] = o
  /\ t \in DOMAIN evalFile => evalFile[t].params = o

Owned == \A t \in Tags : \E o : OwnerIs(t, o)

LEMMA OwnedNamesOneOwner == Owned => TagNamesOneOwner
<1> SUFFICES ASSUME Owned, NEW t \in Tags
             PROVE  \A p, q \in {privateKeys[u].params : u \in DOMAIN privateKeys \cap {t}}
                                  \cup {evalKeys[u].params : u \in DOMAIN evalKeys \cap {t}}
                                  \cup {keyFile[u] : u \in DOMAIN keyFile \cap {t}}
                                  \cup {evalFile[u].params : u \in DOMAIN evalFile \cap {t}} :
                      p = q
  BY DEF TagNamesOneOwner
<1>1. PICK o : OwnerIs(t, o)
  BY DEF Owned
<1> QED BY <1>1 DEF OwnerIs

\* A step that takes every entry from the tag's entries before it leaves the owners alone.
LEMMA OwnersAreKept ==
  ASSUME Owned, \A t \in Tags : \A o : OwnerIs(t, o) => OwnerIs(t, o)'
  PROVE  Owned'
BY DEF Owned

\* Filing keys made from a private key in memory.
LEMMA FileFits ==
  ASSUME TypeOK, Owned, KeysFitTheirContext, NEW t \in DOMAIN privateKeys, NEW v \in Contents,
         File(t, privateKeys[t], v)
  PROVE  Owned' /\ KeysFitTheirContext'
<1> DEFINE e == [cc |-> privateKeys[t].cc, params |-> privateKeys[t].params, contents |-> v]
<1>1. /\ t \in Tags /\ e.params = privateKeys[t].params /\ ParamsOf[e.cc] = e.params
      /\ evalKeys' = With(evalKeys, t, e)
      /\ UNCHANGED <<AllContexts, handles, privateKeys, keyFile, evalFile>>
  BY TypeOKFacts DEF File, KeysFitTheirContext
<1> HIDE DEF e
<1>2. /\ DOMAIN evalKeys' = DOMAIN evalKeys \cup {t}
      /\ \A u \in DOMAIN evalKeys' : evalKeys'[u] = IF u = t THEN e ELSE evalKeys[u]
  BY <1>1 DEF With, Over, Single
<1>3. \A u \in Tags : \A o : OwnerIs(u, o) => OwnerIs(u, o)'
  BY <1>1, <1>2 DEF OwnerIs
<1>4. KeysFitTheirContext'
  BY <1>1, <1>2 DEF KeysFitTheirContext
<1> QED BY <1>3, <1>4, OwnersAreKept

\* Every step keeps keys with their contexts and tags with their owners.
LEMMA FitIsInductive ==
  ASSUME ComparedTellsApart, Inv, Owned, KeysFitTheirContext, [Next]_vars
  PROVE  Owned' /\ KeysFitTheirContext'
<1>1. TypeOK
  BY DEF Inv
<1>2. ASSUME NEW p \in Params, NEW c \in Contexts, GetContext(p, c)
      PROVE  Owned' /\ KeysFitTheirContext'
  BY <1>2 DEF GetContext, Owned, OwnerIs, KeysFitTheirContext
<1>3. ASSUME NEW c, DropContext(c)
      PROVE  Owned' /\ KeysFitTheirContext'
  BY <1>3 DEF DropContext, Owned, OwnerIs, KeysFitTheirContext
<1>4. ASSUME ReleaseAllContexts
      PROVE  Owned' /\ KeysFitTheirContext'
  BY <1>4 DEF ReleaseAllContexts, Owned, OwnerIs, KeysFitTheirContext
<1>5. ASSUME NEW c \in handles, NEW t \in Tags, KeyGen(c, t)
      PROVE  Owned' /\ KeysFitTheirContext'
  <2> DEFINE k == [cc |-> c, params |-> ParamsOf[c]]
  <2>1. /\ k.params \in Params /\ k.params = ParamsOf[k.cc]
        /\ t \notin DOMAIN privateKeys \cup DOMAIN evalKeys \cup DOMAIN keyFile \cup DOMAIN evalFile
        /\ privateKeys' = With(privateKeys, t, k)
        /\ UNCHANGED <<AllContexts, handles, evalKeys, keyFile, evalFile>>
    BY <1>1, <1>5, ParamsAssumption DEF KeyGen, TypeOK
  <2> HIDE DEF k
  <2>2. /\ DOMAIN privateKeys' = DOMAIN privateKeys \cup {t}
        /\ \A u \in DOMAIN privateKeys' : privateKeys'[u] = IF u = t THEN k ELSE privateKeys[u]
    BY <2>1 DEF With, Over, Single
  <2>3. OwnerIs(t, k.params)'
    BY <2>1, <2>2 DEF OwnerIs
  <2>4. \A u \in Tags \ {t} : \A o : OwnerIs(u, o) => OwnerIs(u, o)'
    BY <2>1, <2>2 DEF OwnerIs
  <2>5. Owned'
    BY <2>1, <2>3, <2>4 DEF Owned
  <2> QED BY <2>1, <2>2, <2>5 DEF KeysFitTheirContext
<1>6. ASSUME NEW c, NEW t \in Tags, NEW v \in Contents, EvalKeyGen(c, t, v)
      PROVE  Owned' /\ KeysFitTheirContext'
  BY <1>1, <1>6, FileFits DEF EvalKeyGen
<1>7. ASSUME NEW t \in Tags, NEW v \in Contents, InsertEvalKey(t, v)
      PROVE  Owned' /\ KeysFitTheirContext'
  BY <1>1, <1>7, FileFits DEF InsertEvalKey
<1>8. ASSUME NEW t, DropKey(t)
      PROVE  Owned' /\ KeysFitTheirContext'
  <2>1. /\ DOMAIN privateKeys' \subseteq DOMAIN privateKeys
        /\ \A u \in DOMAIN privateKeys' : privateKeys'[u] = privateKeys[u]
        /\ UNCHANGED <<evalKeys, keyFile, evalFile>>
    BY <1>8 DEF DropKey, Without, Restrict
  <2>2. \A u \in Tags : \A o : OwnerIs(u, o) => OwnerIs(u, o)'
    BY <2>1 DEF OwnerIs
  <2> QED BY <2>1, <2>2, OwnersAreKept DEF KeysFitTheirContext
<1>9. ASSUME NEW t, SerializeKey(t)
      PROVE  Owned' /\ KeysFitTheirContext'
  <2>1. /\ t \in DOMAIN privateKeys
        /\ DOMAIN keyFile' = DOMAIN keyFile \cup {t}
        /\ \A u \in DOMAIN keyFile' :
             keyFile'[u] = IF u = t THEN privateKeys[t].params ELSE keyFile[u]
        /\ UNCHANGED <<privateKeys, evalKeys, evalFile>>
    BY <1>9 DEF SerializeKey, With, Over, Single
  <2>2. \A u \in Tags : \A o : OwnerIs(u, o) => OwnerIs(u, o)'
    BY <2>1 DEF OwnerIs
  <2> QED BY <2>1, <2>2, OwnersAreKept DEF KeysFitTheirContext
<1>10. ASSUME NEW T, ClearEvalKeys(T)
       PROVE  Owned' /\ KeysFitTheirContext'
  <2>1. /\ DOMAIN evalKeys' \subseteq DOMAIN evalKeys
        /\ \A u \in DOMAIN evalKeys' : evalKeys'[u] = evalKeys[u]
        /\ UNCHANGED <<privateKeys, keyFile, evalFile>>
    BY <1>10 DEF ClearEvalKeys, Without, Restrict
  <2>2. \A u \in Tags : \A o : OwnerIs(u, o) => OwnerIs(u, o)'
    BY <2>1 DEF OwnerIs
  <2> QED BY <2>1, <2>2, OwnersAreKept DEF KeysFitTheirContext
<1>11. ASSUME NEW T \in Selections, SerializeEvalKeys(T)
       PROVE  Owned' /\ KeysFitTheirContext'
  <2>1. T \subseteq DOMAIN evalKeys
    BY DEF Selections, FiledFor
  <2>2. /\ DOMAIN evalFile' = T
        /\ \A u \in T : evalFile'[u].params = evalKeys[u].params
        /\ UNCHANGED <<privateKeys, evalKeys, keyFile>>
    BY <1>11 DEF SerializeEvalKeys, Written
  <2>3. \A u \in Tags : \A o : OwnerIs(u, o) => OwnerIs(u, o)'
    BY <2>1, <2>2 DEF OwnerIs
  <2> QED BY <2>2, <2>3, OwnersAreKept DEF KeysFitTheirContext
<1>12. CASE DeserializeEvalKeys
  <2> DEFINE ps == {evalFile[t].params : t \in DOMAIN evalFile}
             read(f) == [t \in DOMAIN evalFile |->
                          [cc |-> f[evalFile[t].params], params |-> evalFile[t].params,
                           contents |-> evalFile[t].contents]]
  <2>1. PICK f \in [ps -> Contexts] :
          /\ Registers(ps, f)
          /\ evalKeys' = Loaded(read(f))
          /\ UNCHANGED <<handles, privateKeys, keyFile, evalFile>>
    BY <1>12 DEF DeserializeEvalKeys
  <2>2. /\ ps \in SUBSET Params
        /\ \A t \in DOMAIN evalFile :
             /\ t \in Tags /\ evalFile[t].params \in ps
             /\ f[evalFile[t].params] \in Contexts
             /\ evalFile[t].contents \in Contents
    BY <1>1, TypeOKFacts DEF WrittenKeys
  <2>3. \A p \in ps : ParamsOf[f[p]] = p
    <3>1. \A p \in ps : Compared[ParamsOf[f[p]]] = Compared[p] /\ ParamsOf[f[p]] \in Params
      BY <2>1, <2>2, ParamsAssumption DEF Registers, Matches
    <3> QED BY <2>2, <3>1 DEF ComparedTellsApart
  <2> DEFINE r == read(f)
  <2>4. /\ DOMAIN r = DOMAIN evalFile
        /\ \A t \in DOMAIN r : r[t].params = evalFile[t].params /\ ParamsOf[r[t].cc] = r[t].params
    BY <2>2, <2>3
  <2>5. r \in Maps(Tags, FiledKeys)
    <3>1. \A t \in DOMAIN r : t \in Tags /\ r[t] \in FiledKeys
      BY <2>2 DEF FiledKeys
    <3> QED BY <3>1, MapsAreFunctions
  <2>6. evalKeys' = Loaded(r)
    BY <2>1
  <2> HIDE DEF r, read, ps
  <2>7. \A t \in DOMAIN evalKeys' :
             \/ t \in DOMAIN r /\ evalKeys'[t] = r[t]
             \/ t \in DOMAIN evalKeys /\ evalKeys'[t] = evalKeys[t]
    <3>1. \A t \in DOMAIN Loaded(r) :
             \/ t \in DOMAIN r /\ Loaded(r)[t] = r[t]
             \/ t \in DOMAIN evalKeys /\ Loaded(r)[t] = evalKeys[t]
      BY <1>1, <2>5, LoadedIsAMap
    <3> QED BY <2>6, <3>1
  <2>8. \A u \in Tags : \A o : OwnerIs(u, o) => OwnerIs(u, o)'
    BY <2>1, <2>4, <2>7 DEF OwnerIs
  <2>9. KeysFitTheirContext'
    BY <2>1, <2>4, <2>7 DEF KeysFitTheirContext
  <2> QED BY <2>8, <2>9, OwnersAreKept
<1>13. ASSUME NEW t \in Tags, NEW c \in Contexts, DeserializeKey(t, c)
       PROVE  Owned' /\ KeysFitTheirContext'
  <2> DEFINE p == keyFile[t]
             k == [cc |-> c, params |-> p]
  <2>1. /\ t \in DOMAIN keyFile /\ p \in Params /\ Registers({p}, Single(p, c))
        /\ privateKeys' = With(privateKeys, t, k)
        /\ UNCHANGED <<evalKeys, keyFile, evalFile>>
    BY <1>1, <1>13, TypeOKFacts DEF DeserializeKey
  <2>2. Single(p, c)[p] = c
    BY DEF Single
  <2>3. ParamsOf[c] = p
    <3>1. Compared[ParamsOf[c]] = Compared[p] /\ ParamsOf[c] \in Params
      BY <2>1, <2>2, ParamsAssumption DEF Registers, Matches
    <3> QED BY <2>1, <3>1 DEF ComparedTellsApart
  <2>4. /\ DOMAIN privateKeys' = DOMAIN privateKeys \cup {t}
        /\ \A u \in DOMAIN privateKeys' : privateKeys'[u] = IF u = t THEN k ELSE privateKeys[u]
    BY <2>1 DEF With, Over, Single
  <2>5. k.params = keyFile[t] /\ ParamsOf[k.cc] = k.params
    BY <2>3
  <2> HIDE DEF p, k
  <2>6. \A u \in Tags : \A o : OwnerIs(u, o) => OwnerIs(u, o)'
    BY <2>1, <2>4, <2>5 DEF OwnerIs
  <2> QED BY <2>1, <2>4, <2>5, <2>6, OwnersAreKept DEF KeysFitTheirContext
<1>14. CASE Restart
  <2>1. \A u \in Tags : \A o : OwnerIs(u, o) => OwnerIs(u, o)'
    BY <1>14, NothingIsEmpty DEF Restart, OwnerIs
  <2> QED BY <1>14, <2>1, OwnersAreKept, NothingIsEmpty DEF Restart, KeysFitTheirContext
<1>15. CASE UNCHANGED vars
  BY <1>15 DEF vars, Owned, OwnerIs, KeysFitTheirContext
<1> QED BY <1>2, <1>3, <1>4, <1>5, <1>6, <1>7, <1>8, <1>9, <1>10, <1>11, <1>12, <1>13, <1>14, <1>15
     DEF Next, ContextStep, KeyStep, MapStep

(***************************************************************************)
(* If operator== tells parameter sets apart, whatever was restored, in     *)
(* whatever order, a key belongs to a context of its own parameters and    *)
(* shares its tag only with keys of those parameters.                      *)
(***************************************************************************)
THEOREM KeysFit ==
  ASSUME ComparedTellsApart
  PROVE  Spec => [](KeysFitTheirContext /\ TagNamesOneOwner)
<1> DEFINE Fit == Inv /\ Owned /\ KeysFitTheirContext
<1>1. Init => Fit
  BY InvHoldsInitially, NothingIsEmpty DEF Init, Owned, OwnerIs, KeysFitTheirContext
<1>2. Fit /\ [Next]_vars => Fit'
  BY InvIsInductive, FitIsInductive
<1>3. Fit => KeysFitTheirContext /\ TagNamesOneOwner
  BY OwnedNamesOneOwner
<1> QED BY <1>1, <1>2, <1>3, PTL DEF Spec

-----------------------------------------------------------------------------
(* The map keeps what was filed. *)

\* The map a program sees: KeyStore's store under the refinement mapping.
Seen == [t \in DOMAIN evalKeys |-> Written(evalKeys[t])]

\* Writing a changed map is changing what was written.
LEMMA SeenOfMaps ==
  /\ \A m, t, e : [u \in DOMAIN With(m, t, e) |-> Written(With(m, t, e)[u])] =
                     With([u \in DOMAIN m |-> Written(m[u])], t, Written(e))
  /\ \A m, T : [u \in DOMAIN Without(m, T) |-> Written(Without(m, T)[u])] =
                  Without([u \in DOMAIN m |-> Written(m[u])], T)
  /\ \A n, m : [u \in DOMAIN Over(n, m) |-> Written(Over(n, m)[u])] =
                  Over([u \in DOMAIN n |-> Written(n[u])], [u \in DOMAIN m |-> Written(m[u])])
<1>1. ASSUME NEW m, NEW T
      PROVE  [u \in DOMAIN Without(m, T) |-> Written(Without(m, T)[u])] =
               Without([u \in DOMAIN m |-> Written(m[u])], T)
  BY DEF Without, Restrict
<1>2. ASSUME NEW n, NEW m
      PROVE  [u \in DOMAIN Over(n, m) |-> Written(Over(n, m)[u])] =
               Over([u \in DOMAIN n |-> Written(n[u])], [u \in DOMAIN m |-> Written(m[u])])
  BY DEF Over
<1>3. ASSUME NEW m, NEW t, NEW e
      PROVE  [u \in DOMAIN With(m, t, e) |-> Written(With(m, t, e)[u])] =
               With([u \in DOMAIN m |-> Written(m[u])], t, Written(e))
  <2>1. [u \in DOMAIN Single(t, e) |-> Written(Single(t, e)[u])] = Single(t, Written(e))
    BY DEF Single
  <2> QED BY <1>2, <2>1 DEF With
<1> QED BY <1>1, <1>2, <1>3

\* The operations of the store are those of the maps.
LEMMA StoreOperations ==
  /\ \A m, t, e : Promised!With(m, t, e) = With(m, t, e)
  /\ \A m, T : Promised!Without(m, T) = Without(m, T)
  /\ \A m, n : Promised!Over(m, n) = Over(m, n)
  /\ \A m, T : Promised!Restrict(m, T) = Restrict(m, T)
  /\ Promised!Nothing = Nothing
BY DEF Promised!With, Promised!Without, Promised!Over, Promised!Restrict, Promised!Nothing,
       Promised!Single, With, Without, Over, Restrict, Nothing, Single

\* The tags of a context, by pointer, are the tags of its owner in the store.
LEMMA FiledForIsOwnedBy ==
  ASSUME Inv, KeysFitTheirContext, NEW c \in handles
  PROVE  FiledFor(c) = Promised!OwnedBy(Seen, ParamsOf[c])
<1>1. \A t \in DOMAIN evalKeys : Seen[t].params = ParamsOf[evalKeys[t].cc]
  BY DEF Seen, Written, KeysFitTheirContext
<1>2. DOMAIN Seen = DOMAIN evalKeys
  BY DEF Seen
<1>3. \A t \in DOMAIN evalKeys : ParamsOf[evalKeys[t].cc] = ParamsOf[c] <=> evalKeys[t].cc = c
  BY InvImpliesSharing DEF OneContextPerParams, Live
<1> QED BY <1>1, <1>2, <1>3 DEF FiledFor, Promised!OwnedBy

\* What Clear and Serialize choose is what the store lets a client choose.
LEMMA SelectionsAreClients ==
  ASSUME Inv, KeysFitTheirContext, NEW T \in Selections
  PROVE  T \in Promised!Selections
<1>1. DOMAIN Seen = DOMAIN evalKeys
  BY DEF Seen
<1>2. ASSUME NEW c \in handles, T = FiledFor(c)
      PROVE  T \in {Promised!OwnedBy(Seen, o) : o \in Params}
  <2>1. ParamsOf[c] \in Params
    BY ParamsAssumption DEF Inv, TypeOK
  <2> QED BY <1>2, <2>1, FiledForIsOwnedBy
<1>3. \/ T = DOMAIN evalKeys
      \/ \E t \in DOMAIN evalKeys : T = {t}
      \/ \E c \in handles : T = FiledFor(c)
  BY DEF Selections
<1> QED BY <1>1, <1>2, <1>3 DEF Promised!Selections, Seen


\* Filing keys puts what would be written of them into the store.
LEMMA FilePuts ==
  ASSUME Inv, NEW t \in DOMAIN privateKeys, NEW v \in Contents, File(t, privateKeys[t], v)
  PROVE  Promised!Next
<1> DEFINE e == [cc |-> privateKeys[t].cc, params |-> privateKeys[t].params, contents |-> v]
<1>1. /\ evalKeys' = With(evalKeys, t, e) /\ evalFile' = evalFile
      /\ t \in Tags /\ Written(e) \in Promised!Entry
  BY TypeOKFacts DEF File, Inv, PrivateKey, Written, Promised!Entry
<1> HIDE DEF e
<1>2. Seen' = [u \in DOMAIN With(evalKeys, t, e) |-> Written(With(evalKeys, t, e)[u])]
  BY <1>1 DEF Seen, Written
<1>3. Seen' = With(Seen, t, Written(e))
  BY <1>2, SeenOfMaps DEF Seen
<1>4. Promised!Put(t, Written(e))
  BY <1>1, <1>3, StoreOperations DEF Promised!Put, Seen
<1> QED BY <1>1, <1>4 DEF Promised!Next

\* Erasing tags clears them.
LEMMA ErasingClears ==
  ASSUME NEW T \in Promised!Selections, evalKeys' = Without(evalKeys, T), evalFile' = evalFile
  PROVE  Promised!Next
<1>1. Seen' = [u \in DOMAIN Without(evalKeys, T) |-> Written(Without(evalKeys, T)[u])]
  BY DEF Seen, Written
<1>2. Seen' = Without(Seen, T)
  BY <1>1, SeenOfMaps DEF Seen
<1>3. Promised!Clear(T)
  BY <1>2, StoreOperations DEF Promised!Clear, Seen
<1> QED BY <1>3 DEF Promised!Next

\* Writing the entries of some tags saves them.
LEMMA WritingSaves ==
  ASSUME NEW T \in Promised!Selections, T \subseteq DOMAIN evalKeys, SerializeEvalKeys(T)
  PROVE  Promised!Next
<1>1. /\ evalFile' = [t \in T |-> Written(evalKeys[t])]
      /\ evalKeys' = evalKeys
  BY DEF SerializeEvalKeys
<1>2. evalFile' = Restrict(Seen, T)
  BY <1>1 DEF Restrict, Seen
<1>3. Seen' = Seen
  BY <1>1 DEF Seen, Written
<1>4. Promised!Save(T)
  BY <1>2, <1>3, StoreOperations DEF Promised!Save, Seen
<1> QED BY <1>4 DEF Promised!Next

\* Reading maps of the kinds that are merged loads the copy over the store.
LEMMA ReadingLoads ==
  ASSUME Kind # "mult", TypeOK, DeserializeEvalKeys
  PROVE  Promised!Next
<1> DEFINE ps == {evalFile[t].params : t \in DOMAIN evalFile}
           read(f) == [t \in DOMAIN evalFile |->
                        [cc |-> f[evalFile[t].params], params |-> evalFile[t].params,
                         contents |-> evalFile[t].contents]]
<1>1. PICK f \in [ps -> Contexts] : evalKeys' = Loaded(read(f)) /\ evalFile' = evalFile
  BY DEF DeserializeEvalKeys
<1> DEFINE r == read(f)
<1>2. [t \in DOMAIN r |-> Written(r[t])] = evalFile
  <2>1. \A t \in DOMAIN evalFile : evalFile[t] \in WrittenKeys
    BY TypeOKFacts
  <2>2. \A t \in DOMAIN evalFile :
          evalFile[t] = [params |-> evalFile[t].params, contents |-> evalFile[t].contents]
    BY <2>1 DEF WrittenKeys
  <2>3. evalFile = [t \in DOMAIN evalFile |-> evalFile[t]]
    <3>1. evalFile \in [DOMAIN evalFile -> WrittenKeys]
      BY MapsAreFunctions DEF TypeOK
    <3> QED BY <3>1
  <2>4. DOMAIN r = DOMAIN evalFile /\ \A t \in DOMAIN evalFile : Written(r[t]) = evalFile[t]
    BY <2>2 DEF Written
  <2> HIDE DEF r, read
  <2> QED BY <2>3, <2>4
<1>3. evalKeys' = Over(r, evalKeys)
  BY <1>1 DEF Loaded
<1> HIDE DEF r, read, ps
<1>4. Seen' = [u \in DOMAIN Over(r, evalKeys) |-> Written(Over(r, evalKeys)[u])]
  BY <1>3 DEF Seen, Written
<1>5. Seen' = Over([u \in DOMAIN r |-> Written(r[u])], Seen)
  BY <1>4, SeenOfMaps DEF Seen
<1>6. Promised!Load
  BY <1>1, <1>2, <1>5, StoreOperations DEF Promised!Load, Seen
<1> QED BY <1>6 DEF Promised!Next

\* Every step is a step of the store or leaves it alone.
LEMMA StepsKeepKeys ==
  ASSUME Kind # "mult", Inv, KeysFitTheirContext, [Next]_vars
  PROVE  Promised!Next \/ UNCHANGED <<Seen, evalFile>>
<1>1. ASSUME UNCHANGED <<evalKeys, evalFile>>
      PROVE  UNCHANGED <<Seen, evalFile>>
  BY <1>1 DEF Seen, Written
<1>2. CASE ContextStep
  BY <1>1, <1>2 DEF ContextStep, GetContext, DropContext, ReleaseAllContexts
<1>3. CASE KeyStep
  <2>1. ASSUME NEW c \in handles, NEW t \in Tags, KeyGen(c, t)
        PROVE  UNCHANGED <<evalKeys, evalFile>>
    BY <2>1 DEF KeyGen
  <2>2. ASSUME NEW c \in handles, NEW t \in Tags, NEW v \in Contents, EvalKeyGen(c, t, v)
        PROVE  Promised!Next
    BY <2>2, FilePuts DEF EvalKeyGen
  <2>3. ASSUME NEW t \in Tags, NEW v \in Contents, InsertEvalKey(t, v)
        PROVE  Promised!Next
    BY <2>3, FilePuts DEF InsertEvalKey
  <2>4. ASSUME NEW t, DropKey(t) \/ SerializeKey(t)
        PROVE  UNCHANGED <<evalKeys, evalFile>>
    BY <2>4 DEF DropKey, SerializeKey
  <2> QED BY <1>1, <1>3, <2>1, <2>2, <2>3, <2>4 DEF KeyStep
<1>4. CASE MapStep
  <2>1. ASSUME NEW T \in Selections, ClearEvalKeys(T)
        PROVE  Promised!Next
    BY <2>1, SelectionsAreClients, ErasingClears DEF ClearEvalKeys
  <2>2. ASSUME NEW T \in Selections, SerializeEvalKeys(T)
        PROVE  Promised!Next
    <3>1. T \subseteq DOMAIN evalKeys
      BY DEF Selections, FiledFor
    <3> QED BY <2>2, <3>1, SelectionsAreClients, WritingSaves
  <2>3. CASE DeserializeEvalKeys
    BY <2>3, ReadingLoads DEF Inv
  <2>4. ASSUME NEW t, NEW c, DeserializeKey(t, c)
        PROVE  UNCHANGED <<evalKeys, evalFile>>
    BY <2>4 DEF DeserializeKey
  <2> QED BY <1>1, <1>4, <2>1, <2>2, <2>3, <2>4 DEF MapStep
<1>5. CASE Restart
  <2>1. DOMAIN evalKeys \in Promised!Selections
    BY DEF Promised!Selections
  <2>2. evalKeys' = Without(evalKeys, DOMAIN evalKeys)
    BY <1>5 DEF Restart, Without, Nothing, Restrict
  <2> QED BY <1>5, <2>1, <2>2, ErasingClears DEF Restart
<1>6. CASE UNCHANGED vars
  BY <1>1, <1>6 DEF vars
<1> QED BY <1>2, <1>3, <1>4, <1>5, <1>6 DEF Next

(***************************************************************************)
(* The maps of sum and automorphism keys do what KeyStore promises of a    *)
(* map of keys: a tag's keys change only when they are filed, cleared or   *)
(* loaded, by tag or by owner, and what was saved comes back whole.        *)
(***************************************************************************)
THEOREM MapKeepsKeys ==
  ASSUME ComparedTellsApart, Kind # "mult"
  PROVE  Spec => KeysAreKept
<1> DEFINE Fit == Inv /\ Owned /\ KeysFitTheirContext
<1>1. Init => Fit
  BY InvHoldsInitially, NothingIsEmpty DEF Init, Owned, OwnerIs, KeysFitTheirContext
<1>2. Fit /\ [Next]_vars => Fit'
  BY InvIsInductive, FitIsInductive
<1>3. Init => Promised!Init
  <2>1. ASSUME Init PROVE Seen = Nothing
    BY <2>1, NothingIsEmpty DEF Init, Seen, Nothing, Restrict
  <2> QED BY <2>1, StoreOperations DEF Init, Promised!Init, Seen
<1>4. Fit /\ [Next]_vars => [Promised!Next]_<<Seen, evalFile>>
  BY StepsKeepKeys
<1> QED BY <1>1, <1>2, <1>3, <1>4, PTL DEF Spec, KeysAreKept, Promised!Spec, Seen

=============================================================================
