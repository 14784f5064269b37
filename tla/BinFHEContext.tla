--------------------------- MODULE BinFHEContext ---------------------------
(***************************************************************************)
(* BinFHEContext as a program uses it: a context that holds one            *)
(* bootstrapping key, private keys, and a few ciphertext objects from      *)
(* which the program computes others, over and over.                       *)
(*                                                                         *)
(* Four things are kept that the program does not have: the private key a  *)
(* ciphertext is under, whether the samples of its last encryption or gate *)
(* fit the moduli, whether all of those fitted that went into it (sound),  *)
(* and if so the bit it should carry.                                      *)
(***************************************************************************)
EXTENDS RingGSWAccumulator

CONSTANTS Keys,        \* names of private keys
          NULL,
          SecretOf,    \* [Keys -> Secrets]
          Vectors,     \* uniform vectors modulo q that Encrypt may sample
          VectorsQ,    \* uniform vectors modulo Q that end up in a switched ciphertext
          FreshErrors, \* errors that Encrypt may sample
          Errors,      \* errors of accumulator and key switching together
          Objects      \* the program's ciphertext objects

ASSUME SampleAssumption ==
  /\ SecretOf \in [Keys -> Secrets] /\ NULL \notin Keys
  /\ Vectors \subseteq [1 .. n -> 0 .. q - 1]
  /\ VectorsQ \subseteq [1 .. n -> 0 .. Q - 1]
  /\ FreshErrors \subseteq Int /\ Errors \subseteq Int

\* What is added to 2 * Q times the quotient when v * q / Q is rounded.
RoundedBy(v) == Q - ((2 * v * q + Q) % (2 * Q))

\* An error of which a gate may double the difference of two.
Small(e) == 32 * e < q /\ -32 * e < q

(***************************************************************************)
(* Samples of a gate fit: the errors of the keys, scaled down to q, and    *)
(* the roundings of the vector's entries, of the other part and of Q / 8   *)
(* stay below q / 32 together.  The code does not look for samples that do *)
(* not, and its parameter sets do not exclude them.                        *)
(***************************************************************************)
SamplesFit(k, u, e) ==
  LET noise == 2 * q * e - Dot([i \in 1 .. n |-> RoundedBy(u[i])], SecretOf[k])
  IN  16 * (noise + Q + 4 * q) < q * Q /\ 16 * (Q - noise) < q * Q

VARIABLES m_method,  \* "AP" or "GINX"
          m_BTKey,   \* the private key the bootstrapping key is for, or NULL
          ct         \* [Objects -> a ciphertext or NoCiphertext]

vars == <<m_method, m_BTKey, ct>>

Bits == 0 .. 1
LWECiphertexts == [a : [1 .. n -> 0 .. q], b : 0 .. q - 1, under : Keys, bit : Bits,
                   fits : BOOLEAN, sound : BOOLEAN]
NoCiphertext == [a |-> [i \in 1 .. n |-> 0], b |-> 0, under |-> NULL, bit |-> 0,
                 fits |-> FALSE, sound |-> FALSE]

Init ==
  /\ m_method \in {"AP", "GINX"}
  /\ m_BTKey = NULL
  /\ ct = [o \in Objects |-> NoCiphertext]

NewCiphertext(o, c, k, bit, fits, sound) ==
  /\ ct' = [ct EXCEPT ![o] = [a |-> c.a, b |-> c.b, under |-> k,
                              bit |-> IF sound THEN bit ELSE 0, fits |-> fits, sound |-> sound]]
  /\ UNCHANGED <<m_method, m_BTKey>>

\* Encrypt with output FRESH.
EncryptFresh(o, k) ==
  \E m \in Bits, a \in Vectors, e \in FreshErrors :
    NewCiphertext(o, EncryptLWE(SecretOf[k], m, a, e), k, m, Small(e), Small(e))

\* Encrypt with the default output; without a bootstrapping key it throws.
EncryptBootstrapped(o) ==
  \E m \in Bits, a \in Vectors, e \in FreshErrors,
     u \in VectorsQ, f \in Errors :
    /\ m_BTKey # NULL
    /\ LET s == SecretOf[m_BTKey]
           fits == SamplesFit(m_BTKey, u, f)
       IN  NewCiphertext(o, Bootstrap(m_method, s, EncryptLWE(s, m, a, e), u, f), m_BTKey, m,
                         fits, fits /\ Small(e))

\* BTKeyGen, or BTKeyLoad of a key that another context made.
BTKeyGen(k) == m_BTKey' = k /\ UNCHANGED <<m_method, ct>>

ClearBTKeys == m_BTKey' = NULL /\ UNCHANGED <<m_method, ct>>

\* Nothing compares keys: the program bootstraps what is under the key it loaded.
Usable(x) == m_BTKey # NULL /\ ct[x].under = m_BTKey

Truth(gate, x, y) ==
  CASE gate = "OR" -> IF x + y > 0 THEN 1 ELSE 0
    [] gate = "AND" -> x * y
    [] gate = "NOR" -> IF x + y > 0 THEN 0 ELSE 1
    [] gate = "NAND" -> 1 - x * y
    [] gate \in {"XOR", "XOR_FAST"} -> (x + y) % 2
    [] gate \in {"XNOR", "XNOR_FAST"} -> (x + y + 1) % 2

\* Two objects: a gate of an object with itself throws.
EvalBinGate(o, gate, x, y) ==
  /\ Usable(x) /\ Usable(y) /\ x # y
  /\ LET s == SecretOf[m_BTKey]
         bit == Truth(gate, ct[x].bit, ct[y].bit)
         sound == ct[x].sound /\ ct[y].sound
     IN  \/ /\ gate \in Gates
            /\ \E u \in VectorsQ, e \in Errors :
                 NewCiphertext(o, SimpleGate(m_method, gate, s, ct[x], ct[y], u, e), m_BTKey, bit,
                               SamplesFit(m_BTKey, u, e), sound /\ SamplesFit(m_BTKey, u, e))
         \/ /\ gate \in Composite
            /\ \E u \in [1 .. 3 -> VectorsQ], e \in [1 .. 3 -> Errors] :
                 NewCiphertext(o, CompositeGate(m_method, gate, s, ct[x], ct[y], u, e),
                               m_BTKey, bit, SamplesFit(m_BTKey, u[3], e[3]),
                               sound /\ \A i \in 1 .. 3 : SamplesFit(m_BTKey, u[i], e[i]))

BootstrapObject(o, x) ==
  \E u \in VectorsQ, e \in Errors :
    /\ Usable(x)
    /\ NewCiphertext(o, Bootstrap(m_method, SecretOf[m_BTKey], ct[x], u, e), m_BTKey, ct[x].bit,
                     SamplesFit(m_BTKey, u, e), ct[x].sound /\ SamplesFit(m_BTKey, u, e))

\* It needs no key.
EvalNOTObject(o, x) ==
  /\ ct[x] # NoCiphertext
  /\ NewCiphertext(o, EvalNOT(ct[x]), ct[x].under, 1 - ct[x].bit, ct[x].fits, ct[x].sound)

\* Noiseless, and so under any key; the program means it for key k.
EvalConstant(o, k) ==
  \E value \in Bits : NewCiphertext(o, NoiselessEmbedding(value), k, value, TRUE, TRUE)

KeyStep == (\E k \in Keys : BTKeyGen(k)) \/ ClearBTKeys

ObjectStep ==
  \E o \in Objects :
    \/ \E k \in Keys : EncryptFresh(o, k) \/ EvalConstant(o, k)
    \/ EncryptBootstrapped(o)
    \/ \E x \in Objects : BootstrapObject(o, x) \/ EvalNOTObject(o, x)
    \/ \E x, y \in Objects, gate \in Gates \cup Composite : EvalBinGate(o, gate, x, y)

Next == KeyStep \/ ObjectStep

Spec == Init /\ [][Next]_vars

-----------------------------------------------------------------------------
Made == {o \in Objects : ct[o] # NoCiphertext}

\* Vectors stay below or at the modulus and the other part below it, which the Fast methods need.
TypeOK ==
  /\ m_method \in {"AP", "GINX"}
  /\ m_BTKey \in Keys \cup {NULL}
  /\ ct \in [Objects -> LWECiphertexts \cup {NoCiphertext}]

(***************************************************************************)
(* Whatever circuit was evaluated, with whichever method and through any   *)
(* change of bootstrapping keys, an object decrypts to the circuit's bit   *)
(* if all the samples that went into it fitted.                            *)
(***************************************************************************)
DecryptsToBit ==
  \A o \in Made : ct[o].sound => DecryptLWE(SecretOf[ct[o].under], ct[o]) = ct[o].bit

\* The error of c as a ciphertext of m: its phase without m, between -q/2 and q/2.
NoiseOf(c, m) ==
  LET e == (c.b - Inner(c.a, SecretOf[c.under], q) - m * (q \div 4)) % q
  IN  IF e > q \div 2 THEN e - q ELSE e

(***************************************************************************)
(* Errors do not grow with the circuit: what a gate returns depends on the *)
(* errors of its operands in its bit alone.  It is a ciphertext of some    *)
(* bit with an error below q / 32 whenever the gate's own samples fit,     *)
(* however large the errors of its operands were, and a ciphertext of the  *)
(* circuit's bit when all samples fitted.  XOR_FAST doubles the difference *)
(* of two such errors, and the mapping bears less than q / 8.              *)
(***************************************************************************)
NoiseIsFit ==
  \A o \in Made :
    /\ ct[o].sound => Small(NoiseOf(ct[o], ct[o].bit))
    /\ ct[o].fits => \E m \in Bits : Small(NoiseOf(ct[o], m))
=============================================================================
