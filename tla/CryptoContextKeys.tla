------------------------- MODULE CryptoContextKeys -------------------------
(***************************************************************************)
(* The registry of crypto contexts (CryptoContextFactory::AllContexts) and *)
(* one of the static maps in which CryptoContextImpl files evaluation keys *)
(* by key tag, as a program sees them that also writes keys to files and   *)
(* may be started again.                                                   *)
(*                                                                         *)
(* A context is an object with an identity: Mismatched, Clear...(cc) and   *)
(* Serialize...(cc) compare pointers, while the registry compares values.  *)
(* The library relies on both coming to the same.                          *)
(***************************************************************************)
EXTENDS TagMaps

CONSTANTS Contexts,   \* identities of CryptoContextImpl objects, reused when one is destroyed
          Params,     \* parameter sets, scheme included
          ParamsOf,   \* the parameters an object has for as long as it lives
          Compared,   \* the part of a parameter set that operator== looks at
          Tags,       \* 128-bit random tags of private keys
          Contents,   \* what a filed object holds: one key, or keys by index
          Kind        \* which of the three static maps this is

ASSUME ParamsAssumption == ParamsOf \in [Contexts -> Params] /\ DOMAIN Compared = Params
ASSUME KindAssumption == Kind \in {"mult", "sum", "automorphism"}

VARIABLES AllContexts,  \* the registry
          handles,      \* contexts the program holds a CryptoContext of
          privateKeys,  \* by tag, the private keys the program holds
          evalKeys,     \* by tag, the evaluation keys filed: the static map
          keyFile,      \* by tag, the parameters of private keys in files
          evalFile      \* by tag, the evaluation keys in the file written last

vars == <<AllContexts, handles, privateKeys, evalKeys, keyFile, evalFile>>

\* The contexts some shared_ptr refers to; the others have been destroyed.
Live ==
  AllContexts \cup handles \cup {privateKeys[t].cc : t \in DOMAIN privateKeys}
    \cup {evalKeys[t].cc : t \in DOMAIN evalKeys}

-----------------------------------------------------------------------------
(* The registry. *)

\* Mutants: pointers are compared in place of values; only the scheme is compared.
Matches_Never(c, p) == c \notin AllContexts /\ ParamsOf[c] = p
Matches_SchemeOnly(c, p) == TRUE

Matches(c, p) == Compared[ParamsOf[c]] = Compared[p]

(***************************************************************************)
(* GetContext for each parameter set in ps, in some order: f gives the     *)
(* contexts found or made.  One is made when none matches, and what is     *)
(* made for the first of two equal parameter sets is found for the second. *)
(***************************************************************************)
Registers(ps, f) ==
  /\ \A p \in ps : Matches(f[p], p)
  /\ \A p, q \in ps : Compared[p] = Compared[q] => f[p] = f[q]
  /\ \A p \in ps :
       \/ f[p] \in AllContexts
       \/ /\ \A c \in AllContexts : ~Matches(c, p)
          /\ f[p] \notin Live
          /\ ParamsOf[f[p]] \in ps
  /\ AllContexts' = AllContexts \cup Range(f)

\* A context is generated, or read from a file.
GetContext(p, c) ==
  /\ Registers({p}, Single(p, c))
  /\ handles' = handles \cup {c}
  /\ UNCHANGED <<privateKeys, evalKeys, keyFile, evalFile>>

ReleaseAllContexts ==
  /\ AllContexts' = {}
  /\ UNCHANGED <<handles, privateKeys, evalKeys, keyFile, evalFile>>

-----------------------------------------------------------------------------
(* Keys. *)

\* A released context finds no pointer to itself: the scheme is given a null one.
KeyGen(c, t) ==
  /\ c \in handles \cap AllContexts
  /\ t \notin DOMAIN privateKeys \cup DOMAIN evalKeys \cup DOMAIN keyFile \cup DOMAIN evalFile
  /\ privateKeys' = With(privateKeys, t, [cc |-> c, params |-> ParamsOf[c]])
  /\ UNCHANGED <<AllContexts, handles, evalKeys, keyFile, evalFile>>

\* Files keys made from private key k, replacing what the tag had.
File(t, k, v) ==
  /\ evalKeys' = With(evalKeys, t, [cc |-> k.cc, params |-> k.params, contents |-> v])
  /\ UNCHANGED <<AllContexts, handles, privateKeys, keyFile, evalFile>>

\* Mutant: the context is not compared, and signs the keys it makes.
EvalKeyGen_Unchecked(c, t, v) ==
  /\ c \in handles
  /\ t \in DOMAIN privateKeys
  /\ File(t, [cc |-> c, params |-> ParamsOf[c]], v)

\* Throws when the private key belongs to another context object.
EvalKeyGen(c, t, v) ==
  /\ c \in handles
  /\ t \in DOMAIN privateKeys
  /\ privateKeys[t].cc = c
  /\ File(t, privateKeys[t], v)

\* Keys made without being filed: rows and columns, or the parties' keys combined.
InsertEvalKey(t, v) == t \in DOMAIN privateKeys /\ File(t, privateKeys[t], v)

DropContext(c) ==
  /\ handles' = handles \ {c}
  /\ UNCHANGED <<AllContexts, privateKeys, evalKeys, keyFile, evalFile>>

DropKey(t) ==
  /\ privateKeys' = Without(privateKeys, {t})
  /\ UNCHANGED <<AllContexts, handles, evalKeys, keyFile, evalFile>>

-----------------------------------------------------------------------------
(* The static map. *)

\* The tags of one context, by pointer.
FiledFor(c) == {t \in DOMAIN evalKeys : evalKeys[t].cc = c}

\* What the three overloads of Clear and Serialize choose: all, a tag, a context.
Selections ==
  {DOMAIN evalKeys} \cup {{t} : t \in DOMAIN evalKeys} \cup {FiledFor(c) : c \in handles}

ClearEvalKeys(T) ==
  /\ evalKeys' = Without(evalKeys, T)
  /\ UNCHANGED <<AllContexts, handles, privateKeys, keyFile, evalFile>>

\* Mutant: the entry is written as it is in memory.
Written_Pointer(e) == e

Written(e) == [params |-> e.params, contents |-> e.contents]

\* A context without keys in the map has nothing written.
SerializeEvalKeys(T) ==
  /\ T = {} => evalKeys = Nothing
  /\ evalFile' = [t \in T |-> Written(evalKeys[t])]
  /\ UNCHANGED <<AllContexts, handles, privateKeys, evalKeys, keyFile>>

\* Mutant: what deserialising a map of multiplication keys does, for the other maps too.
Loaded_Replaces(m) == m

\* Multiplication keys are read into the static map itself, and reading clears it.
Loaded(m) == IF Kind = "mult" THEN m ELSE Over(m, evalKeys)

\* Each key read gives up the context it was written with for the registered one.
DeserializeEvalKeys ==
  LET ps == {evalFile[t].params : t \in DOMAIN evalFile}
  IN  \E f \in [ps -> Contexts] :
        /\ Registers(ps, f)
        /\ evalKeys' = Loaded([t \in DOMAIN evalFile |->
                         [cc |-> f[evalFile[t].params], params |-> evalFile[t].params,
                          contents |-> evalFile[t].contents]])
        /\ UNCHANGED <<handles, privateKeys, keyFile, evalFile>>

SerializeKey(t) ==
  /\ t \in DOMAIN privateKeys
  /\ keyFile' = With(keyFile, t, privateKeys[t].params)
  /\ UNCHANGED <<AllContexts, handles, privateKeys, evalKeys, evalFile>>

DeserializeKey(t, c) ==
  /\ t \in DOMAIN keyFile
  /\ Registers({keyFile[t]}, Single(keyFile[t], c))
  /\ privateKeys' = With(privateKeys, t, [cc |-> c, params |-> keyFile[t]])
  /\ UNCHANGED <<handles, evalKeys, keyFile, evalFile>>

\* The process ends, by itself or not, and another one finds the files.
Restart ==
  /\ AllContexts' = {}
  /\ handles' = {}
  /\ privateKeys' = Nothing
  /\ evalKeys' = Nothing
  /\ UNCHANGED <<keyFile, evalFile>>

-----------------------------------------------------------------------------
Init ==
  /\ AllContexts = {}
  /\ handles = {}
  /\ privateKeys = Nothing
  /\ evalKeys = Nothing
  /\ keyFile = Nothing
  /\ evalFile = Nothing

\* The program released every object of the contexts it releases.
Quiet == handles = {} /\ privateKeys = Nothing /\ evalKeys = Nothing

ContextStep ==
  \/ \E p \in Params, c \in Contexts : GetContext(p, c)
  \/ \E c \in handles : DropContext(c)
  \/ Quiet /\ ReleaseAllContexts

KeyStep ==
  \/ \E c \in handles, t \in Tags : KeyGen(c, t)
  \/ \E c \in handles, t \in Tags, v \in Contents : EvalKeyGen(c, t, v)
  \/ \E t \in Tags, v \in Contents : InsertEvalKey(t, v)
  \/ \E t \in DOMAIN privateKeys : DropKey(t) \/ SerializeKey(t)

MapStep ==
  \/ \E T \in Selections : ClearEvalKeys(T) \/ SerializeEvalKeys(T)
  \/ DeserializeEvalKeys
  \/ \E t \in Tags, c \in Contexts : DeserializeKey(t, c)

Next == ContextStep \/ KeyStep \/ MapStep \/ Restart

Spec == Init /\ [][Next]_vars

-----------------------------------------------------------------------------
PrivateKey == [cc : Contexts, params : Params]
FiledKeys == [cc : Contexts, params : Params, contents : Contents]
WrittenKeys == [params : Params, contents : Contents]

TypeOK ==
  /\ AllContexts \subseteq Contexts
  /\ handles \subseteq Contexts
  /\ privateKeys \in Maps(Tags, PrivateKey)
  /\ evalKeys \in Maps(Tags, FiledKeys)
  /\ keyFile \in Maps(Tags, Params)
  /\ evalFile \in Maps(Tags, WrittenKeys)

(***************************************************************************)
(* No two objects in memory belong to different copies of one context,     *)
(* however they came to be: generated, restored from a file, filed before  *)
(* or after a restart.  The comparisons of pointers mean what they say     *)
(* only as long as this holds.                                             *)
(***************************************************************************)
OneContextPerParams == \A c, d \in Live : ParamsOf[c] = ParamsOf[d] => c = d

(***************************************************************************)
(* A key belongs to a context of the key's own parameters, also after the  *)
(* registry chose the context for a key read from a file.                  *)
(***************************************************************************)
KeysFitTheirContext ==
  /\ \A t \in DOMAIN privateKeys : ParamsOf[privateKeys[t].cc] = privateKeys[t].params
  /\ \A t \in DOMAIN evalKeys : ParamsOf[evalKeys[t].cc] = evalKeys[t].params

(***************************************************************************)
(* Everything that carries one tag, in memory and in files, is of one      *)
(* parameter set: the keys an operation finds by its ciphertext's tag are  *)
(* keys of the ciphertext's parameters.                                    *)
(***************************************************************************)
TagNamesOneOwner ==
  \A t \in Tags :
    LET owners == {privateKeys[u].params : u \in DOMAIN privateKeys \cap {t}}
                    \cup {evalKeys[u].params : u \in DOMAIN evalKeys \cap {t}}
                    \cup {keyFile[u] : u \in DOMAIN keyFile \cap {t}}
                    \cup {evalFile[u].params : u \in DOMAIN evalFile \cap {t}}
    IN  \A p, q \in owners : p = q

(***************************************************************************)
(* The static map keeps what was filed: see KeyStore.  Clearing and saving *)
(* by context there go by owner, here by pointer; loading there replaces   *)
(* the keys of matching tags only.                                         *)
(***************************************************************************)
Promised == INSTANCE KeyStore
  WITH Owners <- Params, saved <- evalFile,
       store <- [t \in DOMAIN evalKeys |-> Written(evalKeys[t])]

KeysAreKept == Promised!Spec
=============================================================================
