----------------------------- MODULE LWEScheme -----------------------------
(***************************************************************************)
(* LWEEncryptionScheme: ciphertexts of a bit as pairs of a vector and a    *)
(* number modulo q, and the way from modulus Q back to q that ends a       *)
(* bootstrapping.                                                          *)
(*                                                                         *)
(* A private element is -1, 0 or 1; that the code keeps -1 as modulus - 1  *)
(* and converts it from one modulus to the other is left out.  Samples (a  *)
(* uniform vector, an error) are arguments.                                *)
(***************************************************************************)
EXTENDS NativeFast

CONSTANTS n,  \* dimension of the vectors
          q,  \* modulus of the ciphertexts a program has
          Q   \* modulus of the accumulator, which key switching starts from

ASSUME LWEAssumption ==
  /\ n \in Nat \ {0} /\ q \in Nat /\ Q \in Nat
  /\ q >= 32 /\ q % 8 = 0 /\ q < Q

Secrets == [1 .. n -> -1 .. 1]

VectorAdd(a, c) == [i \in 1 .. n |-> ModAddFast(a[i], c[i], q)]
VectorSub(a, c) == [i \in 1 .. n |-> ModSubFast(a[i], c[i], q)]

\* The inner product of a vector with a private key.
Dot(a, s) ==
  LET sum[i \in 0 .. n] == IF i = 0 THEN 0 ELSE sum[i - 1] + a[i] * s[i]
  IN  sum[n]

Inner(a, s, modulus) == Dot(a, s) % modulus

EncryptLWE(s, m, a, e) ==
  [a |-> a, b |-> ((m % 4) * (q \div 4) + e + Inner(a, s, q)) % q]

\* Rounded to the nearest multiple of q / 4.
DecryptLWE(s, c) ==
  (4 * ModAddFast(ModSubFast(c.b, Inner(c.a, s, q), q), q \div 8, q)) \div q

NoiselessEmbedding(m) == [a |-> [i \in 1 .. n |-> 0], b |-> m * (q \div 4)]

\* Mutant: the value is cut off instead of rounded.
RoundqQ_Cut(v) == ((v * q) \div Q) % q

RoundqQ(v) == ((2 * v * q + Q) \div (2 * Q)) % q

ModSwitch(cQ) == [a |-> [i \in 1 .. n |-> RoundqQ(cQ.a[i])], b |-> RoundqQ(cQ.b)]

(***************************************************************************)
(* KeySwitch of a ciphertext modulo Q under the accumulator's key: the     *)
(* digits of its vector select entries of the key, and what is left is the *)
(* same phase under s, with a vector that is the sum of uniform ones and   *)
(* with the errors of the entries.                                         *)
(***************************************************************************)
KeySwitchLWE(s, phase, a, e) == [a |-> a, b |-> (Inner(a, s, Q) + phase + e) % Q]
=============================================================================
