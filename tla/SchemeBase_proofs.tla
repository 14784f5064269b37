-------------------------- MODULE SchemeBase_proofs --------------------------
(***************************************************************************)
(* Every ciphertext of SchemeBase decrypts to its message: for every ring, *)
(* set of tags and choice of samples, and however many keys and            *)
(* ciphertexts the program makes.                                          *)
(*                                                                         *)
(* The property is not inductive: what an operation yields depends on the  *)
(* keys it is given.  Inv adds, for each kind of key, the equation that    *)
(* its maker promises (KeyFits), and which key pairs may make which.       *)
(*                                                                         *)
(* At the end, AdvancedSHE: the keys that programs generate for sums and   *)
(* rotations of slots suffice for them, and the sums and rotations are     *)
(* what they are documented to be, in rings of every order.                *)
(***************************************************************************)
EXTENDS SchemeBase, AdvancedSHE, FiniteSetTheorems, TLAPS

-----------------------------------------------------------------------------
(***************************************************************************)
(* Lemmas about the formulas of RLWEFormulas over any commutative ring     *)
(* with automorphisms: what each operation on the elements of ciphertexts  *)
(* does to the value that they decrypt to.                                 *)
(***************************************************************************)

(***************************************************************************)
(* The ring, with the infix operators.                                     *)
(***************************************************************************)
LEMMA Closed ==
  /\ Zero \in Ring
  /\ \A x \in Ring : Minus(x) \in Ring
  /\ \A x, y \in Ring : x \oplus y \in Ring /\ x \otimes y \in Ring /\ x \ominus y \in Ring
BY AdditionAssumption, MultiplicationAssumption DEF \oplus, \otimes, \ominus

LEMMA AddZero == \A x \in Ring : x \oplus Zero = x /\ Zero \oplus x = x
BY AdditionAssumption DEF \oplus

LEMMA AddMinus ==
  \A x \in Ring : x \oplus Minus(x) = Zero /\ Minus(x) \oplus x = Zero
BY AdditionAssumption DEF \oplus

LEMMA AddComm == \A x, y \in Ring : x \oplus y = y \oplus x
BY AdditionAssumption DEF \oplus

LEMMA AddAssoc == \A x, y, z \in Ring : (x \oplus y) \oplus z = x \oplus (y \oplus z)
BY AdditionAssumption DEF \oplus

LEMMA MultComm == \A x, y \in Ring : x \otimes y = y \otimes x
BY MultiplicationAssumption DEF \otimes

LEMMA MultAssoc == \A x, y, z \in Ring : (x \otimes y) \otimes z = x \otimes (y \otimes z)
BY MultiplicationAssumption DEF \otimes

LEMMA Distributes ==
  \A x, y, z \in Ring :
    /\ x \otimes (y \oplus z) = (x \otimes y) \oplus (x \otimes z)
    /\ (y \oplus z) \otimes x = (y \otimes x) \oplus (z \otimes x)
<1>1. \A x, y, z \in Ring : x \otimes (y \oplus z) = (x \otimes y) \oplus (x \otimes z)
  BY MultiplicationAssumption DEF \otimes, \oplus
<1> QED BY <1>1, MultComm, Closed

-----------------------------------------------------------------------------
(***************************************************************************)
(* Consequences.                                                           *)
(***************************************************************************)
LEMMA Cancels == \A x, y, z \in Ring : x \oplus z = y \oplus z => x = y
<1> SUFFICES ASSUME NEW x \in Ring, NEW y \in Ring, NEW z \in Ring, x \oplus z = y \oplus z
             PROVE  x = y
  OBVIOUS
<1>1. Minus(z) \in Ring BY Closed
<1>2. (x \oplus z) \oplus Minus(z) = x BY <1>1, AddAssoc, AddMinus, AddZero
<1>3. (y \oplus z) \oplus Minus(z) = y BY <1>1, AddAssoc, AddMinus, AddZero
<1> QED BY <1>2, <1>3

LEMMA MultZero == \A x \in Ring : x \otimes Zero = Zero /\ Zero \otimes x = Zero
<1> SUFFICES ASSUME NEW x \in Ring PROVE x \otimes Zero = Zero
  BY MultComm, Closed
<1>1. x \otimes Zero \in Ring BY Closed
<1>2. x \otimes (Zero \oplus Zero) = (x \otimes Zero) \oplus (x \otimes Zero)
  BY Distributes, Closed
<1>3. (x \otimes Zero) \oplus (x \otimes Zero) = Zero \oplus (x \otimes Zero)
  BY <1>1, <1>2, AddZero, Closed
<1> QED BY <1>1, <1>3, Cancels, Closed

LEMMA MinusIsUnique == \A x, y \in Ring : y \oplus x = Zero => y = Minus(x)
BY Cancels, AddMinus, Closed

LEMMA MinusMult == \A x, y \in Ring : Minus(x) \otimes y = Minus(x \otimes y)
<1> SUFFICES ASSUME NEW x \in Ring, NEW y \in Ring
             PROVE  Minus(x) \otimes y = Minus(x \otimes y)
  OBVIOUS
<1>1. Minus(x) \in Ring /\ Minus(x) \otimes y \in Ring /\ x \otimes y \in Ring BY Closed
<1>2. (Minus(x) \otimes y) \oplus (x \otimes y) = (Minus(x) \oplus x) \otimes y
  BY <1>1, Distributes
<1>3. (Minus(x) \oplus x) \otimes y = Zero BY AddMinus, MultZero
<1> QED BY <1>1, <1>2, <1>3, MinusIsUnique

\* Sums of two sums, element by element.
LEMMA Exchange ==
  \A w, x, y, z \in Ring : (w \oplus x) \oplus (y \oplus z) = (w \oplus y) \oplus (x \oplus z)
<1> SUFFICES ASSUME NEW w \in Ring, NEW x \in Ring, NEW y \in Ring, NEW z \in Ring
             PROVE  (w \oplus x) \oplus (y \oplus z) = (w \oplus y) \oplus (x \oplus z)
  OBVIOUS
<1>1. /\ x \oplus y \in Ring /\ y \oplus z \in Ring /\ x \oplus z \in Ring
      /\ w \oplus x \in Ring /\ w \oplus y \in Ring
  BY Closed
<1>2. (w \oplus x) \oplus (y \oplus z) = w \oplus (x \oplus (y \oplus z)) BY <1>1, AddAssoc
<1>3. x \oplus (y \oplus z) = (x \oplus y) \oplus z BY AddAssoc
<1>4. x \oplus y = y \oplus x BY AddComm
<1>5. (y \oplus x) \oplus z = y \oplus (x \oplus z) BY AddAssoc
<1>6. w \oplus (y \oplus (x \oplus z)) = (w \oplus y) \oplus (x \oplus z) BY <1>1, AddAssoc
<1> QED BY <1>2, <1>3, <1>4, <1>5, <1>6

LEMMA MinusAdds == \A x, y \in Ring : Minus(x) \oplus Minus(y) = Minus(x \oplus y)
<1> SUFFICES ASSUME NEW x \in Ring, NEW y \in Ring
             PROVE  Minus(x) \oplus Minus(y) = Minus(x \oplus y)
  OBVIOUS
<1>1. /\ Minus(x) \in Ring /\ Minus(y) \in Ring /\ x \oplus y \in Ring
      /\ Minus(x) \oplus Minus(y) \in Ring
  BY Closed
<1>2. (Minus(x) \oplus Minus(y)) \oplus (x \oplus y)
        = (Minus(x) \oplus x) \oplus (Minus(y) \oplus y)
  BY <1>1, Exchange
<1>3. @ = Zero BY AddMinus, AddZero, Closed
<1> QED BY <1>1, <1>2, <1>3, MinusIsUnique

\* A factor may be moved to the other side of the middle one.
LEMMA MultSwap == \A x, y, z \in Ring : (x \otimes y) \otimes z = (x \otimes z) \otimes y
<1> SUFFICES ASSUME NEW x \in Ring, NEW y \in Ring, NEW z \in Ring
             PROVE  (x \otimes y) \otimes z = (x \otimes z) \otimes y
  OBVIOUS
<1>1. (x \otimes y) \otimes z = x \otimes (y \otimes z) BY MultAssoc
<1>2. (x \otimes z) \otimes y = x \otimes (z \otimes y) BY MultAssoc
<1> QED BY <1>1, <1>2, MultComm

-----------------------------------------------------------------------------
(***************************************************************************)
(* DecryptCore is linear in the elements.  Elements are compared position  *)
(* by position, with zero for those that are not there.                    *)
(***************************************************************************)
InRing(x) == At(x, 1) \in Ring /\ At(x, 2) \in Ring /\ At(x, 3) \in Ring /\ At(x, 4) \in Ring

LEMMA ElementsInRing ==
  ASSUME NEW x \in Elements
  PROVE  InRing(x) /\ Len(x) \in 2 .. 4 /\ x[1] \in Ring /\ x[2] \in Ring
           /\ At(x, 1) = x[1] /\ At(x, 2) = x[2]
BY Closed DEF Elements, MaxElements, InRing, At

LEMMA PowersInRing == \A s \in Ring : Square(s) \in Ring /\ Cube(s) \in Ring
BY Closed DEF Square, Cube

LEMMA ValueInRing ==
  ASSUME NEW x, InRing(x), NEW s \in Ring
  PROVE  DecryptCore(x, s) \in Ring
<1> DEFINE a == At(x, 1)
           b == At(x, 2)
           c == At(x, 3)
           d == At(x, 4)
<1>1. a \in Ring /\ b \in Ring /\ c \in Ring /\ d \in Ring BY DEF InRing
<1> HIDE DEF a, b, c, d
<1>2. Square(s) \in Ring /\ Cube(s) \in Ring BY PowersInRing
<1>3. b \otimes s \in Ring /\ c \otimes Square(s) \in Ring /\ d \otimes Cube(s) \in Ring
  BY <1>1, <1>2, Closed
<1>4. a \oplus (b \otimes s) \in Ring BY <1>1, <1>3, Closed
<1>5. (a \oplus (b \otimes s)) \oplus (c \otimes Square(s)) \in Ring BY <1>3, <1>4, Closed
<1> QED BY <1>3, <1>5, Closed DEF DecryptCore, a, b, c, d

LEMMA ValueAdds ==
  ASSUME NEW x, NEW y, NEW z, NEW s \in Ring, InRing(x), InRing(y),
         \A i \in 1 .. 4 : At(z, i) = At(x, i) \oplus At(y, i)
  PROVE  DecryptCore(z, s) = DecryptCore(x, s) \oplus DecryptCore(y, s)
<1> DEFINE a == At(x, 1)
           b == At(x, 2)
           c == At(x, 3)
           d == At(x, 4)
           e == At(y, 1)
           f == At(y, 2)
           g == At(y, 3)
           h == At(y, 4)
           q == Square(s)
           r == Cube(s)
<1>1. /\ a \in Ring /\ b \in Ring /\ c \in Ring /\ d \in Ring
      /\ e \in Ring /\ f \in Ring /\ g \in Ring /\ h \in Ring
      /\ q \in Ring /\ r \in Ring
  BY PowersInRing DEF InRing
<1>2. DecryptCore(z, s) = (((a \oplus e) \oplus ((b \oplus f) \otimes s)) \oplus ((c \oplus g) \otimes q))
                              \oplus ((d \oplus h) \otimes r)
  BY DEF DecryptCore
<1>3. /\ DecryptCore(x, s) = ((a \oplus (b \otimes s)) \oplus (c \otimes q)) \oplus (d \otimes r)
      /\ DecryptCore(y, s) = ((e \oplus (f \otimes s)) \oplus (g \otimes q)) \oplus (h \otimes r)
  BY DEF DecryptCore
<1> HIDE DEF a, b, c, d, e, f, g, h, q, r
<1>4. /\ b \otimes s \in Ring /\ c \otimes q \in Ring /\ d \otimes r \in Ring
      /\ f \otimes s \in Ring /\ g \otimes q \in Ring /\ h \otimes r \in Ring
  BY <1>1, Closed
<1>5. /\ a \oplus (b \otimes s) \in Ring /\ e \oplus (f \otimes s) \in Ring
  BY <1>1, <1>4, Closed
<1>6. /\ (a \oplus (b \otimes s)) \oplus (c \otimes q) \in Ring
      /\ (e \oplus (f \otimes s)) \oplus (g \otimes q) \in Ring
  BY <1>4, <1>5, Closed
<1>7. /\ (b \oplus f) \otimes s = (b \otimes s) \oplus (f \otimes s)
      /\ (c \oplus g) \otimes q = (c \otimes q) \oplus (g \otimes q)
      /\ (d \oplus h) \otimes r = (d \otimes r) \oplus (h \otimes r)
  BY <1>1, Distributes
<1>8. (a \oplus e) \oplus ((b \otimes s) \oplus (f \otimes s))
        = (a \oplus (b \otimes s)) \oplus (e \oplus (f \otimes s))
  BY <1>1, <1>4, Exchange
<1>9. ((a \oplus (b \otimes s)) \oplus (e \oplus (f \otimes s))) \oplus ((c \otimes q) \oplus (g \otimes q))
        = ((a \oplus (b \otimes s)) \oplus (c \otimes q)) \oplus ((e \oplus (f \otimes s)) \oplus (g \otimes q))
  BY <1>4, <1>5, Exchange
<1>10. (((a \oplus (b \otimes s)) \oplus (c \otimes q)) \oplus ((e \oplus (f \otimes s)) \oplus (g \otimes q)))
          \oplus ((d \otimes r) \oplus (h \otimes r))
         = (((a \oplus (b \otimes s)) \oplus (c \otimes q)) \oplus (d \otimes r))
             \oplus (((e \oplus (f \otimes s)) \oplus (g \otimes q)) \oplus (h \otimes r))
  BY <1>4, <1>6, Exchange
<1> QED BY <1>2, <1>3, <1>7, <1>8, <1>9, <1>10

LEMMA ValueScales ==
  ASSUME NEW x, NEW z, NEW p \in Ring, NEW s \in Ring, InRing(x),
         \A i \in 1 .. 4 : At(z, i) = At(x, i) \otimes p
  PROVE  DecryptCore(z, s) = DecryptCore(x, s) \otimes p
<1> DEFINE a == At(x, 1)
           b == At(x, 2)
           c == At(x, 3)
           d == At(x, 4)
           q == Square(s)
           r == Cube(s)
<1>1. /\ a \in Ring /\ b \in Ring /\ c \in Ring /\ d \in Ring
      /\ q \in Ring /\ r \in Ring
  BY PowersInRing DEF InRing
<1>2. DecryptCore(z, s) = (((a \otimes p) \oplus ((b \otimes p) \otimes s)) \oplus ((c \otimes p) \otimes q))
                              \oplus ((d \otimes p) \otimes r)
  BY DEF DecryptCore
<1>3. DecryptCore(x, s) = ((a \oplus (b \otimes s)) \oplus (c \otimes q)) \oplus (d \otimes r)
  BY DEF DecryptCore
<1> HIDE DEF a, b, c, d, q, r
<1>4. b \otimes s \in Ring /\ c \otimes q \in Ring /\ d \otimes r \in Ring BY <1>1, Closed
<1>5. a \oplus (b \otimes s) \in Ring BY <1>1, <1>4, Closed
<1>6. (a \oplus (b \otimes s)) \oplus (c \otimes q) \in Ring BY <1>4, <1>5, Closed
<1>7. /\ (b \otimes p) \otimes s = (b \otimes s) \otimes p
      /\ (c \otimes p) \otimes q = (c \otimes q) \otimes p
      /\ (d \otimes p) \otimes r = (d \otimes r) \otimes p
  BY <1>1, MultSwap
<1>8. (a \otimes p) \oplus ((b \otimes s) \otimes p) = (a \oplus (b \otimes s)) \otimes p
  BY <1>1, <1>4, Distributes
<1>9. ((a \oplus (b \otimes s)) \otimes p) \oplus ((c \otimes q) \otimes p)
        = ((a \oplus (b \otimes s)) \oplus (c \otimes q)) \otimes p
  BY <1>4, <1>5, Distributes
<1>10. (((a \oplus (b \otimes s)) \oplus (c \otimes q)) \otimes p) \oplus ((d \otimes r) \otimes p)
         = (((a \oplus (b \otimes s)) \oplus (c \otimes q)) \oplus (d \otimes r)) \otimes p
  BY <1>4, <1>6, Distributes
<1> QED BY <1>2, <1>3, <1>7, <1>8, <1>9, <1>10

\* Of two elements, the first is the message plus what the second hides.
LEMMA ValueOfTwo ==
  ASSUME NEW a \in Ring, NEW b \in Ring, NEW s \in Ring
  PROVE  /\ <<a, b>> \in Elements
         /\ DecryptCore(<<a, b>>, s) = a \oplus (b \otimes s)
<1>1. b \otimes s \in Ring /\ Square(s) \in Ring /\ Cube(s) \in Ring BY Closed, PowersInRing
<1>2. a \oplus (b \otimes s) \in Ring BY <1>1, Closed
<1>3. At(<<a, b>>, 1) = a /\ At(<<a, b>>, 2) = b /\ At(<<a, b>>, 3) = Zero /\ At(<<a, b>>, 4) = Zero
  BY DEF At
<1>4. DecryptCore(<<a, b>>, s) = a \oplus (b \otimes s)
  BY <1>1, <1>2, <1>3, MultZero, AddZero DEF DecryptCore
<1>5. <<a, b>> \in Elements BY DEF Elements, MaxElements
<1> QED BY <1>4, <1>5

LEMMA ValueMinus ==
  ASSUME NEW x, NEW z, NEW s \in Ring, InRing(x), InRing(z),
         \A i \in 1 .. 4 : At(z, i) = Minus(At(x, i))
  PROVE  DecryptCore(z, s) = Minus(DecryptCore(x, s))
<1> DEFINE w == <<Zero, Zero>>
<1>1. Zero \in Ring BY Closed
<1>2. DecryptCore(w, s) = Zero BY <1>1, ValueOfTwo, MultZero, AddZero
<1>3. \A i \in 1 .. 4 : At(w, i) = Zero BY DEF At
<1>4. \A i \in 1 .. 4 : At(w, i) = At(z, i) \oplus At(x, i)
  BY <1>3, AddMinus DEF InRing
<1> HIDE DEF w
<1>5. DecryptCore(w, s) = DecryptCore(z, s) \oplus DecryptCore(x, s) BY <1>4, ValueAdds
<1>6. DecryptCore(x, s) \in Ring /\ DecryptCore(z, s) \in Ring BY ValueInRing
<1> QED BY <1>2, <1>5, <1>6, MinusIsUnique

-----------------------------------------------------------------------------
(***************************************************************************)
(* A key fits when it leads from the element old to the element new: what  *)
(* it hides under new is old.  A public key of s, like any encryption of   *)
(* zero, leads from zero to s.                                             *)
(***************************************************************************)
KeyFits(key, old, new) ==
  key.b \in Ring /\ key.a \in Ring /\ key.b \oplus (key.a \otimes new) = old

LEMMA SwitchKeyFits ==
  ASSUME NEW old \in Ring, NEW new \in Ring, NEW a \in Ring
  PROVE  SwitchKey(old, new, a) \in Pairs /\ KeyFits(SwitchKey(old, new, a), old, new)
<1>1. a \otimes new \in Ring /\ Minus(a \otimes new) \in Ring BY Closed
<1>2. old \ominus (a \otimes new) = old \oplus Minus(a \otimes new)
  BY DEF \ominus, \oplus
<1>3. (old \oplus Minus(a \otimes new)) \oplus (a \otimes new) = old
  BY <1>1, AddAssoc, AddMinus, AddZero
<1>4. old \ominus (a \otimes new) \in Ring BY <1>1, Closed
<1> QED BY <1>2, <1>3, <1>4 DEF SwitchKey, Pairs, KeyFits

LEMMA ZeroUnderFits ==
  ASSUME NEW s \in Ring, NEW a \in Ring
  PROVE  ZeroUnder(s, a) \in Pairs /\ KeyFits(ZeroUnder(s, a), Zero, s)
<1>1. ZeroUnder(s, a) = SwitchKey(Zero, s, a) BY DEF ZeroUnder, SwitchKey
<1> QED BY <1>1, SwitchKeyFits, Closed

\* Both parts of a pair are multiplied by one element.
LEMMA MaskedFits ==
  ASSUME NEW key, NEW new \in Ring, NEW v \in Ring, KeyFits(key, Zero, new)
  PROVE  (key.b \otimes v) \oplus ((key.a \otimes v) \otimes new) = Zero
<1>1. key.b \in Ring /\ key.a \in Ring /\ key.a \otimes new \in Ring BY Closed DEF KeyFits
<1>2. (key.a \otimes v) \otimes new = (key.a \otimes new) \otimes v BY <1>1, MultSwap
<1>3. (key.b \otimes v) \oplus ((key.a \otimes new) \otimes v)
        = (key.b \oplus (key.a \otimes new)) \otimes v
  BY <1>1, Distributes
<1>4. key.b \oplus (key.a \otimes new) = Zero BY DEF KeyFits
<1> QED BY <1>2, <1>3, <1>4, MultZero

LEMMA ZeroUnderPublicFits ==
  ASSUME NEW pk, NEW s \in Ring, NEW v \in Ring, KeyFits(pk, Zero, s)
  PROVE  KeyFits(ZeroUnderPublic(pk, v), Zero, s)
<1>1. pk.b \otimes v \in Ring /\ pk.a \otimes v \in Ring BY Closed DEF KeyFits
<1>2. (pk.b \otimes v) \oplus ((pk.a \otimes v) \otimes s) = Zero BY MaskedFits
<1> QED BY <1>1, <1>2 DEF KeyFits, ZeroUnderPublic

LEMMA SwitchKeyToPublicFits ==
  ASSUME NEW pk, NEW new \in Ring, NEW old \in Ring, NEW v \in Ring, KeyFits(pk, Zero, new)
  PROVE  /\ SwitchKeyToPublic(old, pk, v) \in Pairs
         /\ KeyFits(SwitchKeyToPublic(old, pk, v), old, new)
<1> DEFINE b == pk.b \otimes v
           a == pk.a \otimes v
<1>1. b \in Ring /\ a \in Ring BY Closed DEF KeyFits
<1>2. b \oplus (a \otimes new) = Zero BY MaskedFits
<1>3. SwitchKeyToPublic(old, pk, v) = [b |-> b \oplus old, a |-> a] BY DEF SwitchKeyToPublic
<1> HIDE DEF b, a
<1>4. a \otimes new \in Ring /\ b \oplus old \in Ring BY <1>1, Closed
<1>5. (b \oplus old) \oplus (a \otimes new) = (old \oplus b) \oplus (a \otimes new)
  BY <1>1, AddComm
<1>6. @ = old \oplus (b \oplus (a \otimes new)) BY <1>1, <1>4, AddAssoc
<1>7. @ = old BY <1>2, AddZero
<1> QED BY <1>1, <1>3, <1>4, <1>5, <1>6, <1>7 DEF KeyFits, Pairs

LEMMA EncryptedDecrypts ==
  ASSUME NEW zero, NEW s \in Ring, NEW text \in Ring, KeyFits(zero, Zero, s)
  PROVE  Encrypted(zero, text) \in Elements /\ DecryptCore(Encrypted(zero, text), s) = text
<1>1. zero.b \in Ring /\ zero.a \in Ring /\ zero.a \otimes s \in Ring BY Closed DEF KeyFits
<1>2. zero.b \oplus text \in Ring BY <1>1, Closed
<1>3. DecryptCore(Encrypted(zero, text), s) = (zero.b \oplus text) \oplus (zero.a \otimes s)
  BY <1>1, <1>2, ValueOfTwo DEF Encrypted
<1>4. (zero.b \oplus text) \oplus (zero.a \otimes s) = (text \oplus zero.b) \oplus (zero.a \otimes s)
  BY <1>1, AddComm
<1>5. @ = text \oplus (zero.b \oplus (zero.a \otimes s)) BY <1>1, AddAssoc
<1>6. @ = text BY AddZero DEF KeyFits
<1> QED BY <1>1, <1>2, <1>3, <1>4, <1>5, <1>6, ValueOfTwo DEF Encrypted

\* An absorbed element is worth its multiple of what the key leads from.
LEMMA AbsorbedDecrypts ==
  ASSUME NEW x, x[1] \in Ring, x[2] \in Ring, NEW c \in Ring, NEW key,
         NEW old, NEW s \in Ring, KeyFits(key, old, s)
  PROVE  /\ Absorbed(x, c, key) \in Elements
         /\ Len(Absorbed(x, c, key)) = 2
         /\ DecryptCore(Absorbed(x, c, key), s) = (x[1] \oplus (x[2] \otimes s)) \oplus (c \otimes old)
<1> DEFINE b == key.b
           a == key.a
<1>1. b \in Ring /\ a \in Ring /\ b \oplus (a \otimes s) = old BY DEF KeyFits
<1>2. Absorbed(x, c, key) = <<x[1] \oplus (c \otimes b), x[2] \oplus (c \otimes a)>>
  BY DEF Absorbed
<1> HIDE DEF b, a
<1>3. c \otimes b \in Ring /\ c \otimes a \in Ring /\ a \otimes s \in Ring /\ x[2] \otimes s \in Ring
  BY <1>1, Closed
<1>4. x[1] \oplus (c \otimes b) \in Ring /\ x[2] \oplus (c \otimes a) \in Ring BY <1>3, Closed
<1>5. DecryptCore(Absorbed(x, c, key), s)
        = (x[1] \oplus (c \otimes b)) \oplus ((x[2] \oplus (c \otimes a)) \otimes s)
  BY <1>2, <1>4, ValueOfTwo
<1>6. (x[2] \oplus (c \otimes a)) \otimes s = (x[2] \otimes s) \oplus ((c \otimes a) \otimes s)
  BY <1>3, Distributes
<1>7. (c \otimes a) \otimes s = c \otimes (a \otimes s) BY <1>1, MultAssoc
<1>8. c \otimes (a \otimes s) \in Ring BY <1>3, Closed
<1>9. (x[1] \oplus (c \otimes b)) \oplus ((x[2] \otimes s) \oplus (c \otimes (a \otimes s)))
        = (x[1] \oplus (x[2] \otimes s)) \oplus ((c \otimes b) \oplus (c \otimes (a \otimes s)))
  BY <1>3, <1>8, Exchange
<1>10. (c \otimes b) \oplus (c \otimes (a \otimes s)) = c \otimes old
  BY <1>1, <1>3, Distributes
<1>11. Absorbed(x, c, key) \in Elements BY <1>2, <1>4, ValueOfTwo
<1> QED BY <1>2, <1>5, <1>6, <1>7, <1>9, <1>10, <1>11

\* KeySwitchInPlace of two elements: what old decrypted, new decrypts.
LEMMA KeySwitchedDecrypts ==
  ASSUME NEW x \in Elements, Len(x) = 2, NEW key, NEW old \in Ring, NEW new \in Ring,
         KeyFits(key, old, new)
  PROVE  /\ KeySwitched(x, key) \in Elements
         /\ KeySwitched(x, key)[1] \in Ring /\ KeySwitched(x, key)[2] \in Ring
         /\ KeySwitched(x, key) = <<KeySwitched(x, key)[1], KeySwitched(x, key)[2]>>
         /\ DecryptCore(KeySwitched(x, key), new) = DecryptCore(x, old)
<1> DEFINE y == <<x[1], Zero>>
<1>1. x[1] \in Ring /\ x[2] \in Ring /\ x = <<x[1], x[2]>>
  BY ElementsInRing DEF Elements
<1>2. DecryptCore(x, old) = x[1] \oplus (x[2] \otimes old) BY <1>1, ValueOfTwo
<1>3. x[2] \otimes key.b \in Ring /\ x[2] \otimes key.a \in Ring BY <1>1, Closed DEF KeyFits
<1>4. KeySwitched(x, key) = <<x[1] \oplus (x[2] \otimes key.b), x[2] \otimes key.a>>
  BY DEF KeySwitched
<1>5. y[1] = x[1] /\ y[2] = Zero OBVIOUS
<1>6. Absorbed(y, x[2], key) = KeySwitched(x, key) BY <1>3, <1>4, <1>5, AddZero DEF Absorbed
<1>7. Zero \in Ring BY Closed
<1> HIDE DEF y
<1>8. /\ Absorbed(y, x[2], key) \in Elements
      /\ DecryptCore(Absorbed(y, x[2], key), new) = (y[1] \oplus (y[2] \otimes new)) \oplus (x[2] \otimes old)
  BY <1>1, <1>5, <1>7, AbsorbedDecrypts
<1>9. y[1] \oplus (y[2] \otimes new) = x[1] BY <1>1, <1>5, MultZero, AddZero
<1>10. x[1] \oplus (x[2] \otimes key.b) \in Ring BY <1>1, <1>3, Closed
<1> QED BY <1>2, <1>3, <1>4, <1>6, <1>8, <1>9, <1>10

-----------------------------------------------------------------------------
(***************************************************************************)
(* Relinearization: key j leads from the power j + 1 of s to s.            *)
(***************************************************************************)
KeysFitPowers(keys, n, s) ==
  /\ n >= 1 => KeyFits(keys[1], Square(s), s)
  /\ n >= 2 => KeyFits(keys[2], Cube(s), s)

\* What is beyond the elements of x counts nothing.
LEMMA ValueOfShort ==
  ASSUME NEW x \in Elements, NEW s \in Ring
  PROVE  /\ Len(x) = 2 => DecryptCore(x, s) = x[1] \oplus (x[2] \otimes s)
         /\ Len(x) = 3 => DecryptCore(x, s) = (x[1] \oplus (x[2] \otimes s)) \oplus (x[3] \otimes Square(s))
<1>1. x[1] \in Ring /\ x[2] \in Ring /\ At(x, 1) = x[1] /\ At(x, 2) = x[2] BY ElementsInRing
<1>2. Len(x) \in {2, 3} => At(x, 4) = Zero BY DEF At
<1>3. Square(s) \in Ring /\ Cube(s) \in Ring BY PowersInRing
<1>4. x[1] \oplus (x[2] \otimes s) \in Ring BY <1>1, Closed
<1>5. Zero \otimes Cube(s) = Zero /\ Zero \otimes Square(s) = Zero BY <1>3, MultZero
<1>6. CASE Len(x) = 2
  <2>1. At(x, 3) = Zero BY <1>6 DEF At
  <2> QED BY <1>1, <1>2, <1>4, <1>5, <1>6, <2>1, AddZero DEF DecryptCore
<1>7. CASE Len(x) = 3
  <2>1. At(x, 3) = x[3] /\ x[3] \in Ring BY <1>7, ElementsInRing DEF At, InRing
  <2>2. x[3] \otimes Square(s) \in Ring BY <1>3, <2>1, Closed
  <2>3. (x[1] \oplus (x[2] \otimes s)) \oplus (x[3] \otimes Square(s)) \in Ring
    BY <1>4, <2>2, Closed
  <2> QED BY <1>1, <1>2, <1>5, <1>7, <2>1, <2>3, AddZero DEF DecryptCore
<1> QED BY <1>6, <1>7

LEMMA RelinearizedDecrypts ==
  ASSUME NEW x \in Elements, NEW keys, NEW n \in Nat, n >= Len(x) - 2, NEW s \in Ring,
         KeysFitPowers(keys, n, s)
  PROVE  /\ Relinearized(x, keys) \in Elements
         /\ DecryptCore(Relinearized(x, keys), s) = DecryptCore(x, s)
<1> DEFINE three == Absorbed(x, x[3], keys[1])
<1>1. Len(x) \in 2 .. 4 /\ x[1] \in Ring /\ x[2] \in Ring BY ElementsInRing
<1>2. Square(s) \in Ring /\ Cube(s) \in Ring BY PowersInRing
<1>3. CASE Len(x) = 2 BY <1>3 DEF Relinearized
<1>4. ASSUME Len(x) \in {3, 4}
      PROVE  /\ three \in Elements /\ Len(three) = 2
             /\ DecryptCore(three, s) = (x[1] \oplus (x[2] \otimes s)) \oplus (x[3] \otimes Square(s))
  <2>1. x[3] \in Ring BY <1>4, ElementsInRing DEF At, InRing
  <2>2. KeyFits(keys[1], Square(s), s) BY <1>4, SMTT(60) DEF KeysFitPowers
  <2> QED BY <1>1, <2>1, <2>2, AbsorbedDecrypts
<1>5. CASE Len(x) = 3
  <2>1. Relinearized(x, keys) = three BY <1>5 DEF Relinearized
  <2> QED BY <1>4, <1>5, <2>1, ValueOfShort
<1>6. CASE Len(x) = 4
  <2> DEFINE four == Absorbed(three, x[4], keys[2])
  <2>1. Relinearized(x, keys) = four BY <1>6 DEF Relinearized
  <2>2. x[4] \in Ring /\ At(x, 1) = x[1] /\ At(x, 2) = x[2] /\ At(x, 3) = x[3] /\ At(x, 4) = x[4]
    BY <1>6, ElementsInRing DEF At, InRing
  <2>3. KeyFits(keys[2], Cube(s), s) BY <1>6 DEF KeysFitPowers
  <2>4. three \in Elements /\ Len(three) = 2 BY <1>4, <1>6
  <2>5. DecryptCore(three, s) = (x[1] \oplus (x[2] \otimes s)) \oplus (x[3] \otimes Square(s))
    BY <1>4, <1>6
  <2> HIDE DEF three
  <2>6. three[1] \in Ring /\ three[2] \in Ring BY <2>4, ElementsInRing
  <2>7. /\ four \in Elements
        /\ DecryptCore(four, s) = (three[1] \oplus (three[2] \otimes s)) \oplus (x[4] \otimes Cube(s))
    BY <2>2, <2>3, <2>6, AbsorbedDecrypts
  <2>8. DecryptCore(three, s) = three[1] \oplus (three[2] \otimes s) BY <2>4, ValueOfShort
  <2>9. DecryptCore(x, s) = ((x[1] \oplus (x[2] \otimes s)) \oplus (x[3] \otimes Square(s)))
                              \oplus (x[4] \otimes Cube(s))
    BY <2>2 DEF DecryptCore
  <2> QED BY <2>1, <2>5, <2>7, <2>8, <2>9
<1> QED BY <1>1, <1>3, <1>5, <1>6

(***************************************************************************)
(* Automorphisms.                                                          *)
(***************************************************************************)
LEMMA SigmaInRing ==
  \A i \in Indices, x \in Ring : Sigma(i, x) \in Ring /\ Permuted(x, i) \in Ring
                                   /\ Sigma(i, Permuted(x, i)) = x
BY AutomorphismAssumption DEF Permuted

LEMMA SigmaIsHomomorphic ==
  \A i \in Indices : \A x, y \in Ring :
    /\ Sigma(i, x \oplus y) = Sigma(i, x) \oplus Sigma(i, y)
    /\ Sigma(i, x \otimes y) = Sigma(i, x) \otimes Sigma(i, y)
BY AutomorphismAssumption DEF \oplus, \otimes

LEMMA RotatedDecrypts ==
  ASSUME NEW x \in Elements, Len(x) = 2, NEW i \in Indices, NEW key, NEW s \in Ring,
         KeyFits(key, s, Permuted(s, i))
  PROVE  /\ Rotated(x, i, key) \in Elements
         /\ DecryptCore(Rotated(x, i, key), s) = Sigma(i, DecryptCore(x, s))
<1> DEFINE u == KeySwitched(x, key)
           p == Permuted(s, i)
<1>1. p \in Ring /\ Sigma(i, p) = s BY SigmaInRing
<1>2. /\ u[1] \in Ring /\ u[2] \in Ring /\ u = <<u[1], u[2]>>
      /\ DecryptCore(u, p) = DecryptCore(x, s)
  BY <1>1, KeySwitchedDecrypts
<1>3. Rotated(x, i, key) = <<Sigma(i, u[1]), Sigma(i, u[2])>> BY DEF Rotated
<1> HIDE DEF u, p
<1>4. DecryptCore(u, p) = u[1] \oplus (u[2] \otimes p) BY <1>1, <1>2, ValueOfTwo
<1>5. Sigma(i, u[1]) \in Ring /\ Sigma(i, u[2]) \in Ring /\ u[2] \otimes p \in Ring
  BY <1>1, <1>2, SigmaInRing, Closed
<1>6. DecryptCore(Rotated(x, i, key), s) = Sigma(i, u[1]) \oplus (Sigma(i, u[2]) \otimes s)
  BY <1>3, <1>5, ValueOfTwo
<1>7. Sigma(i, u[2] \otimes p) = Sigma(i, u[2]) \otimes s
  BY <1>1, <1>2, SigmaIsHomomorphic
<1>8. Sigma(i, u[1] \oplus (u[2] \otimes p)) = Sigma(i, u[1]) \oplus Sigma(i, u[2] \otimes p)
  BY <1>2, <1>5, SigmaIsHomomorphic
<1> QED BY <1>2, <1>3, <1>4, <1>5, <1>6, <1>7, <1>8, ValueOfTwo

-----------------------------------------------------------------------------
(***************************************************************************)
(* Operations element by element.                                          *)
(***************************************************************************)

\* An element is of the ring where there is one, and zero elsewhere.
LEMMA AtOf ==
  ASSUME NEW x \in Elements, NEW i \in 1 .. 4
  PROVE  /\ At(x, i) \in Ring
         /\ i <= Len(x) => At(x, i) = x[i] /\ x[i] \in Ring
         /\ i > Len(x) => At(x, i) = Zero
BY Closed DEF Elements, MaxElements, At

\* A function on 1 .. n is a sequence of elements, and At reads it.
LEMMA MadeElements ==
  ASSUME NEW n \in 2 .. 4, NEW f, f = [i \in 1 .. n |-> f[i]], \A i \in 1 .. n : f[i] \in Ring
  PROVE  /\ f \in Elements
         /\ Len(f) = n
         /\ \A i \in 1 .. 4 : At(f, i) = IF i <= n THEN f[i] ELSE Zero
<1>1. f \in Seq(Ring) /\ Len(f) = n
  <2>1. [i \in 1 .. n |-> f[i]] \in Seq(Ring) OBVIOUS
  <2>2. Len([i \in 1 .. n |-> f[i]]) = n OBVIOUS
  <2> QED BY <2>1, <2>2
<1> QED BY <1>1 DEF Elements, MaxElements, At

LEMMA LongerOf ==
  ASSUME NEW x \in Elements, NEW y \in Elements
  PROVE  /\ Longer(x, y) \in 2 .. 4 /\ Longer(x, y) >= Len(x) /\ Longer(x, y) >= Len(y)
         /\ Longer(x, y) = Len(x) \/ Longer(x, y) = Len(y)
BY ElementsInRing DEF Longer

LEMMA EvalAddCoreDecrypts ==
  ASSUME NEW x \in Elements, NEW y \in Elements, NEW s \in Ring
  PROVE  /\ EvalAddCore(x, y) \in Elements
         /\ DecryptCore(EvalAddCore(x, y), s) = DecryptCore(x, s) \oplus DecryptCore(y, s)
<1> DEFINE n == Longer(x, y)
           z == EvalAddCore(x, y)
<1>1. /\ n \in 2 .. 4 /\ n >= Len(x) /\ n >= Len(y) /\ Len(x) \in Nat /\ Len(y) \in Nat
      /\ n = Len(x) \/ n = Len(y)
  BY LongerOf, ElementsInRing
<1>2. z = [i \in 1 .. n |-> z[i]] BY DEF EvalAddCore
<1>3. ASSUME NEW i \in 1 .. n PROVE z[i] = At(x, i) \oplus At(y, i)
  <2>1. i \in 1 .. 4 BY <1>1
  <2>2. z[i] = IF i > Len(y) THEN x[i] ELSE IF i > Len(x) THEN y[i] ELSE x[i] \oplus y[i]
    BY DEF EvalAddCore
  <2>3. CASE i > Len(y)
    <3>1. i <= Len(x) BY <1>1, <2>3
    <3> QED BY <2>1, <2>2, <2>3, <3>1, AtOf, AddZero
  <2>4. CASE i <= Len(y) /\ i > Len(x) BY <1>1, <2>1, <2>2, <2>4, AtOf, AddZero
  <2>5. CASE i <= Len(y) /\ i <= Len(x) BY <1>1, <2>1, <2>2, <2>5, AtOf
  <2> QED BY <1>1, <2>3, <2>4, <2>5
<1>4. \A i \in 1 .. n : z[i] \in Ring
  <2> TAKE i \in 1 .. n
  <2>1. At(x, i) \in Ring /\ At(y, i) \in Ring BY <1>1, AtOf
  <2> QED BY <1>3, <2>1, Closed
<1> HIDE DEF z, n
<1>5. z \in Elements /\ \A i \in 1 .. 4 : At(z, i) = IF i <= n THEN z[i] ELSE Zero
  BY <1>1, <1>2, <1>4, MadeElements
<1>6. \A i \in 1 .. 4 : At(z, i) = At(x, i) \oplus At(y, i)
  <2> TAKE i \in 1 .. 4
  <2>1. CASE i <= n BY <1>3, <1>5, <2>1
  <2>2. CASE i > n
    <3>1. At(x, i) = Zero /\ At(y, i) = Zero BY <1>1, <2>2, AtOf
    <3> QED BY <1>1, <1>5, <2>2, <3>1, AddZero, Closed
  <2> QED BY <1>1, <2>1, <2>2
<1>7. InRing(x) /\ InRing(y) BY ElementsInRing
<1>8. DecryptCore(z, s) = DecryptCore(x, s) \oplus DecryptCore(y, s) BY <1>6, <1>7, ValueAdds
<1> QED BY <1>5, <1>8 DEF z

LEMMA NegatedDecrypts ==
  ASSUME NEW x \in Elements, NEW s \in Ring
  PROVE  /\ Negated(x) \in Elements
         /\ Len(Negated(x)) = Len(x)
         /\ \A i \in 1 .. 4 : At(Negated(x), i) = Minus(At(x, i))
         /\ DecryptCore(Negated(x), s) = Minus(DecryptCore(x, s))
<1> DEFINE n == Len(x)
           z == Negated(x)
<1>1. n \in 2 .. 4 BY ElementsInRing
<1>2. z = [i \in 1 .. n |-> z[i]] BY DEF Negated
<1>3. \A i \in 1 .. n : z[i] = Minus(x[i]) /\ x[i] = At(x, i) /\ x[i] \in Ring
  BY <1>1, AtOf DEF Negated
<1>4. \A i \in 1 .. n : z[i] \in Ring BY <1>3, Closed
<1> HIDE DEF z, n
<1>5. z \in Elements /\ Len(z) = n /\ \A i \in 1 .. 4 : At(z, i) = IF i <= n THEN z[i] ELSE Zero
  BY <1>1, <1>2, <1>4, MadeElements
<1>6. Minus(Zero) = Zero BY AddMinus, AddZero, Closed
<1>7. \A i \in 1 .. 4 : At(z, i) = Minus(At(x, i))
  <2> TAKE i \in 1 .. 4
  <2>1. CASE i <= n BY <1>3, <1>5, <2>1
  <2>2. CASE i > n BY <1>1, <1>5, <1>6, <2>2, AtOf DEF n
  <2> QED BY <1>1, <2>1, <2>2
<1>8. InRing(x) /\ InRing(z) BY <1>5, ElementsInRing
<1>9. DecryptCore(z, s) = Minus(DecryptCore(x, s)) BY <1>7, <1>8, ValueMinus
<1> QED BY <1>5, <1>7, <1>9 DEF z, n

\* A difference is the sum with the negated.
LEMMA EvalSubCoreDecrypts ==
  ASSUME NEW x \in Elements, NEW y \in Elements, NEW s \in Ring
  PROVE  /\ EvalSubCore(x, y) \in Elements
         /\ DecryptCore(EvalSubCore(x, y), s) = DecryptCore(x, s) \ominus DecryptCore(y, s)
<1> DEFINE v == Negated(y)
<1>1. v \in Elements /\ Len(v) = Len(y) /\ DecryptCore(v, s) = Minus(DecryptCore(y, s))
  BY NegatedDecrypts
<1>2. Longer(x, v) = Longer(x, y) BY <1>1 DEF Longer
<1>3. Longer(x, y) \in 2 .. 4 /\ Len(x) \in Nat /\ Len(y) \in Nat BY LongerOf, ElementsInRing
<1>4. \A i \in 1 .. Len(y) : v[i] = Minus(y[i]) BY DEF Negated
<1> HIDE DEF v
<1>5. EvalSubCore(x, y) = EvalAddCore(x, v)
  <2>1. \A i \in 1 .. Longer(x, y) :
          (IF i > Len(y) THEN x[i] ELSE IF i > Len(x) THEN Minus(y[i]) ELSE x[i] \ominus y[i])
            = (IF i > Len(v) THEN x[i] ELSE IF i > Len(x) THEN v[i] ELSE x[i] \oplus v[i])
    BY <1>1, <1>3, <1>4 DEF \ominus, \oplus
  <2> QED BY <1>2, <2>1 DEF EvalSubCore, EvalAddCore
<1>6. DecryptCore(x, s) \in Ring BY ElementsInRing, ValueInRing
<1> QED BY <1>1, <1>5, EvalAddCoreDecrypts DEF \ominus, \oplus

LEMMA ScaledDecrypts ==
  ASSUME NEW x \in Elements, NEW p \in Ring, NEW s \in Ring
  PROVE  Scaled(x, p) \in Elements /\ DecryptCore(Scaled(x, p), s) = DecryptCore(x, s) \otimes p
<1> DEFINE n == Len(x)
           z == Scaled(x, p)
<1>1. n \in 2 .. 4 BY ElementsInRing
<1>2. z = [i \in 1 .. n |-> z[i]] BY DEF Scaled
<1>3. \A i \in 1 .. n : z[i] = x[i] \otimes p /\ x[i] = At(x, i) /\ x[i] \in Ring
  BY <1>1, AtOf DEF Scaled
<1>4. \A i \in 1 .. n : z[i] \in Ring BY <1>3, Closed
<1> HIDE DEF z, n
<1>5. z \in Elements /\ \A i \in 1 .. 4 : At(z, i) = IF i <= n THEN z[i] ELSE Zero
  BY <1>1, <1>2, <1>4, MadeElements
<1>6. \A i \in 1 .. 4 : At(z, i) = At(x, i) \otimes p
  <2> TAKE i \in 1 .. 4
  <2>1. CASE i <= n BY <1>3, <1>5, <2>1
  <2>2. CASE i > n BY <1>1, <1>5, <2>2, AtOf, MultZero DEF n
  <2> QED BY <1>1, <2>1, <2>2
<1>7. InRing(x) BY ElementsInRing
<1>8. DecryptCore(z, s) = DecryptCore(x, s) \otimes p BY <1>6, <1>7, ValueScales
<1> QED BY <1>5, <1>8 DEF z

LEMMA ShiftedDecrypts ==
  ASSUME NEW x \in Elements, NEW p \in Ring, NEW s \in Ring
  PROVE  Shifted(x, p) \in Elements /\ DecryptCore(Shifted(x, p), s) = DecryptCore(x, s) \oplus p
<1> DEFINE z == Shifted(x, p)
           b == At(x, 2) \otimes s
           c == At(x, 3) \otimes Square(s)
           d == At(x, 4) \otimes Cube(s)
<1>1. x \in Seq(Ring) /\ Len(x) \in 2 .. 4 BY DEF Elements, MaxElements
<1>2. x[1] \oplus p \in Ring BY ElementsInRing, Closed
<1>3. z \in Seq(Ring) /\ Len(z) = Len(x)
  BY <1>1, <1>2 DEF Shifted
<1>4. z \in Elements BY <1>1, <1>3 DEF Elements, MaxElements
<1>5. At(z, 1) = At(x, 1) \oplus p /\ \A i \in 2 .. 4 : At(z, i) = At(x, i)
  <2>1. z[1] = x[1] \oplus p /\ \A i \in 2 .. 4 : i \in 1 .. Len(x) => z[i] = x[i]
    BY <1>1 DEF Shifted
  <2> QED BY <1>1, <1>3, <2>1 DEF At
<1>6. At(x, 1) \in Ring /\ b \in Ring /\ c \in Ring /\ d \in Ring
  BY ElementsInRing, PowersInRing, Closed DEF InRing
<1>7. DecryptCore(x, s) = ((At(x, 1) \oplus b) \oplus c) \oplus d BY DEF DecryptCore
<1>8. DecryptCore(z, s) = (((At(x, 1) \oplus p) \oplus b) \oplus c) \oplus d
  BY <1>5 DEF DecryptCore
<1> HIDE DEF b, c, d
<1> DEFINE e == At(x, 1)
<1>9. e \in Ring BY <1>6
<1> HIDE DEF e
<1>10. \A u, v \in Ring : (u \oplus p) \oplus v = (u \oplus v) \oplus p
  <2> TAKE u \in Ring, v \in Ring
  <2>1. (u \oplus p) \oplus v = u \oplus (p \oplus v) BY AddAssoc
  <2>2. (u \oplus v) \oplus p = u \oplus (v \oplus p) BY AddAssoc
  <2> QED BY <2>1, <2>2, AddComm
<1>11. (((e \oplus p) \oplus b) \oplus c) \oplus d = (((e \oplus b) \oplus c) \oplus d) \oplus p
  <2>1. (e \oplus p) \oplus b = (e \oplus b) \oplus p /\ e \oplus b \in Ring
    BY <1>6, <1>9, <1>10, Closed
  <2>2. ((e \oplus b) \oplus p) \oplus c = ((e \oplus b) \oplus c) \oplus p /\ (e \oplus b) \oplus c \in Ring
    BY <1>6, <1>10, <2>1, Closed
  <2> QED BY <1>6, <1>10, <2>1, <2>2
<1> QED BY <1>4, <1>7, <1>8, <1>11 DEF e, z

LEMMA MultExchange ==
  \A w, x, y, z \in Ring : (w \otimes x) \otimes (y \otimes z) = (w \otimes y) \otimes (x \otimes z)
<1> SUFFICES ASSUME NEW w \in Ring, NEW x \in Ring, NEW y \in Ring, NEW z \in Ring
             PROVE  (w \otimes x) \otimes (y \otimes z) = (w \otimes y) \otimes (x \otimes z)
  OBVIOUS
<1>1. w \otimes x \in Ring /\ w \otimes y \in Ring BY Closed
<1>2. (w \otimes x) \otimes (y \otimes z) = ((w \otimes x) \otimes y) \otimes z BY <1>1, MultAssoc
<1>3. (w \otimes y) \otimes (x \otimes z) = ((w \otimes y) \otimes x) \otimes z BY <1>1, MultAssoc
<1> QED BY <1>2, <1>3, MultSwap

\* Nine products of three terms by three, in rows and by their degrees.
LEMMA RowsAreDegrees ==
  ASSUME NEW P, \A i, j \in 1 .. 3 : P[i][j] \in Ring, P[3][3] = Zero
  PROVE  (((P[1][1] \oplus P[1][2]) \oplus P[1][3]) \oplus ((P[2][1] \oplus P[2][2]) \oplus P[2][3]))
            \oplus ((P[3][1] \oplus P[3][2]) \oplus P[3][3])
         = ((P[1][1] \oplus (P[1][2] \oplus P[2][1]))
              \oplus ((P[1][3] \oplus P[2][2]) \oplus P[3][1])) \oplus (P[2][3] \oplus P[3][2])
<1> DEFINE a == P[1][1]
           b == P[1][2]
           c == P[1][3]
           d == P[2][1]
           e == P[2][2]
           f == P[2][3]
           g == P[3][1]
           h == P[3][2]
           D == a \oplus (b \oplus d)
           E == c \oplus e
<1>1. /\ a \in Ring /\ b \in Ring /\ c \in Ring /\ d \in Ring
      /\ e \in Ring /\ f \in Ring /\ g \in Ring /\ h \in Ring
  OBVIOUS
<1>2. (g \oplus h) \oplus P[3][3] = g \oplus h BY <1>1, AddZero, Closed
<1> HIDE DEF a, b, c, d, e, f, g, h
<1>3. D \in Ring /\ E \in Ring /\ a \oplus b \in Ring /\ d \oplus e \in Ring BY <1>1, Closed
<1>4. ((a \oplus b) \oplus c) \oplus ((d \oplus e) \oplus f) = ((a \oplus b) \oplus (d \oplus e)) \oplus (c \oplus f)
  BY <1>1, <1>3, Exchange
<1>5. (a \oplus b) \oplus (d \oplus e) = D \oplus e
  <2>1. (a \oplus b) \oplus (d \oplus e) = ((a \oplus b) \oplus d) \oplus e BY <1>1, <1>3, AddAssoc
  <2> QED BY <1>1, <2>1, AddAssoc
<1> HIDE DEF D
<1>6. (D \oplus e) \oplus (c \oplus f) = (D \oplus E) \oplus f
  <2>1. (D \oplus e) \oplus (c \oplus f) = (D \oplus c) \oplus (e \oplus f) BY <1>1, <1>3, Exchange
  <2>2. (D \oplus c) \oplus (e \oplus f) = ((D \oplus c) \oplus e) \oplus f
    BY <1>1, <1>3, AddAssoc, Closed
  <2>3. (D \oplus c) \oplus e = D \oplus E BY <1>1, <1>3, AddAssoc
  <2> QED BY <2>1, <2>2, <2>3
<1> HIDE DEF E
<1>7. ((D \oplus E) \oplus f) \oplus (g \oplus h) = (D \oplus (E \oplus g)) \oplus (f \oplus h)
  <2> DEFINE DE == D \oplus E
  <2>0. DE \in Ring BY <1>3, Closed
  <2>1. (DE \oplus f) \oplus (g \oplus h) = (DE \oplus g) \oplus (f \oplus h)
    <3> HIDE DEF DE
    <3> QED BY <1>1, <2>0, Exchange
  <2>2. (D \oplus E) \oplus g = D \oplus (E \oplus g) BY <1>1, <1>3, AddAssoc
  <2> QED BY <2>1, <2>2
<1> QED BY <1>2, <1>4, <1>5, <1>6, <1>7 DEF a, b, c, d, e, f, g, h, D, E

\* The convolution of two ciphertexts decrypts to the product of what they decrypt to.
LEMMA EvalMultCoreDecrypts ==
  ASSUME NEW x \in Elements, NEW y \in Elements, NEW s \in Ring, Len(x) + Len(y) <= MaxElements + 1
  PROVE  /\ EvalMultCore(x, y) \in Elements
         /\ Len(EvalMultCore(x, y)) = Len(x) + Len(y) - 1
         /\ DecryptCore(EvalMultCore(x, y), s) = DecryptCore(x, s) \otimes DecryptCore(y, s)
<1> DEFINE S == Square(s)
           x1 == At(x, 1)
           x2 == At(x, 2)
           x3 == At(x, 3)
           y1 == At(y, 1)
           y2 == At(y, 2)
           y3 == At(y, 3)
           c1 == x1 \otimes y1
           c2 == (x1 \otimes y2) \oplus (x2 \otimes y1)
           c3 == ((x1 \otimes y3) \oplus (x2 \otimes y2)) \oplus (x3 \otimes y1)
           c4 == (x2 \otimes y3) \oplus (x3 \otimes y2)
           z == EvalMultCore(x, y)
<1>1. Len(x) \in 2 .. 4 /\ Len(y) \in 2 .. 4 /\ Len(x) + Len(y) \in 4 .. 5
  BY ElementsInRing DEF MaxElements
<1>2. /\ x1 \in Ring /\ x2 \in Ring /\ x3 \in Ring /\ y1 \in Ring /\ y2 \in Ring /\ y3 \in Ring
      /\ S \in Ring
  BY ElementsInRing, PowersInRing DEF InRing
<1>3. At(x, 4) = Zero /\ At(y, 4) = Zero /\ (x3 = Zero \/ y3 = Zero)
  <2>1. At(x, 4) = Zero /\ At(y, 4) = Zero BY <1>1, 4 \in 1 .. 4, AtOf
  <2>2. (Len(x) < 3 => x3 = Zero) /\ (Len(y) < 3 => y3 = Zero) BY <1>1, 3 \in 1 .. 4, AtOf
  <2>3. Len(x) < 3 \/ Len(y) < 3 BY <1>1
  <2> QED BY <2>1, <2>2, <2>3
<1>4. Len(x) + Len(y) = 4 => x3 = Zero /\ y3 = Zero
  <2>1. (Len(x) < 3 => x3 = Zero) /\ (Len(y) < 3 => y3 = Zero) BY <1>1, 3 \in 1 .. 4, AtOf
  <2>2. Len(x) + Len(y) = 4 => Len(x) < 3 /\ Len(y) < 3 BY <1>1
  <2> QED BY <2>1, <2>2
<1>5. z = IF Len(x) + Len(y) = 4 THEN <<c1, c2, c3>> ELSE <<c1, c2, c3, c4>> BY DEF EvalMultCore
<1> HIDE DEF S, x1, x2, x3, y1, y2, y3
<1>6. c1 \in Ring /\ c2 \in Ring /\ c3 \in Ring /\ c4 \in Ring BY <1>2, Closed
<1>7. Len(x) + Len(y) = 4 => c4 = Zero BY <1>2, <1>4, MultZero, AddZero, Closed
<1> HIDE DEF z, c1, c2, c3, c4
<1>8. z \in Elements /\ Len(z) = Len(x) + Len(y) - 1
  <2>1. <<c1, c2, c3>> \in Seq(Ring) /\ <<c1, c2, c3, c4>> \in Seq(Ring) BY <1>6
  <2> QED BY <1>1, <1>5, <2>1 DEF Elements, MaxElements
<1>9. At(z, 1) = c1 /\ At(z, 2) = c2 /\ At(z, 3) = c3 /\ At(z, 4) = c4
  BY <1>1, <1>5, <1>7 DEF At
<1>10. DecryptCore(z, s) = ((c1 \oplus (c2 \otimes s)) \oplus (c3 \otimes S)) \oplus (c4 \otimes (S \otimes s))
  BY <1>9 DEF DecryptCore, Cube, S
<1> DEFINE X2 == x2 \otimes s
           X3 == x3 \otimes S
           Y2 == y2 \otimes s
           Y3 == y3 \otimes S
           P == <<<<x1 \otimes y1, x1 \otimes Y2, x1 \otimes Y3>>,
                  <<X2 \otimes y1, X2 \otimes Y2, X2 \otimes Y3>>,
                  <<X3 \otimes y1, X3 \otimes Y2, X3 \otimes Y3>>>>
<1>11. X2 \in Ring /\ X3 \in Ring /\ Y2 \in Ring /\ Y3 \in Ring BY <1>2, Closed
<1>12. c2 \otimes s = (x1 \otimes Y2) \oplus (X2 \otimes y1)
  <2>1. c2 \otimes s = ((x1 \otimes y2) \otimes s) \oplus ((x2 \otimes y1) \otimes s)
    BY <1>2, Distributes, Closed DEF c2
  <2> QED BY <1>2, <2>1, MultAssoc, MultSwap
<1>13. c3 \otimes S = ((x1 \otimes Y3) \oplus (X2 \otimes Y2)) \oplus (X3 \otimes y1)
  <2>1. c3 \otimes S = (((x1 \otimes y3) \oplus (x2 \otimes y2)) \otimes S) \oplus ((x3 \otimes y1) \otimes S)
    <3> DEFINE u == (x1 \otimes y3) \oplus (x2 \otimes y2)
               v == x3 \otimes y1
    <3>1. u \in Ring /\ v \in Ring BY <1>2, Closed
    <3>2. c3 = u \oplus v BY DEF c3
    <3> HIDE DEF u, v
    <3>3. c3 \otimes S = (u \otimes S) \oplus (v \otimes S) BY <1>2, <3>1, <3>2, Distributes
    <3> QED BY <3>3 DEF u, v
  <2>2. ((x1 \otimes y3) \oplus (x2 \otimes y2)) \otimes S
          = ((x1 \otimes y3) \otimes S) \oplus ((x2 \otimes y2) \otimes S)
    BY <1>2, Distributes, Closed
  <2>3. (x2 \otimes y2) \otimes S = X2 \otimes Y2
    BY <1>2, MultExchange DEF S, Square
  <2> QED BY <1>2, <2>1, <2>2, <2>3, MultAssoc, MultSwap
<1>14. c4 \otimes (S \otimes s) = (X2 \otimes Y3) \oplus (X3 \otimes Y2)
  <2>1. c4 \otimes (S \otimes s)
          = ((x2 \otimes y3) \otimes (S \otimes s)) \oplus ((x3 \otimes y2) \otimes (S \otimes s))
    <3> DEFINE u == x2 \otimes y3
               v == x3 \otimes y2
               w == S \otimes s
    <3>1. u \in Ring /\ v \in Ring /\ w \in Ring BY <1>2, Closed
    <3>2. c4 = u \oplus v BY DEF c4
    <3> HIDE DEF u, v, w
    <3>3. c4 \otimes w = (u \otimes w) \oplus (v \otimes w) BY <3>1, <3>2, Distributes
    <3> QED BY <3>3 DEF u, v, w
  <2>2. (x3 \otimes y2) \otimes (S \otimes s) = X3 \otimes Y2 BY <1>2, MultExchange
  <2>3. (x2 \otimes y3) \otimes (S \otimes s) = X2 \otimes Y3
    BY <1>2, MultExchange, MultComm
  <2> QED BY <2>1, <2>2, <2>3
<1>15. DecryptCore(x, s) = (x1 \oplus X2) \oplus X3 /\ DecryptCore(y, s) = (y1 \oplus Y2) \oplus Y3
  <2>1. Zero \otimes Cube(s) = Zero BY PowersInRing, MultZero
  <2>2. (x1 \oplus X2) \oplus X3 \in Ring /\ (y1 \oplus Y2) \oplus Y3 \in Ring BY <1>2, <1>11, Closed
  <2> QED BY <1>3, <2>1, <2>2, AddZero DEF DecryptCore, S, x1, x2, x3, y1, y2, y3
<1>16. X3 = Zero \/ Y3 = Zero BY <1>2, <1>3, MultZero
<1> HIDE DEF X2, X3, Y2, Y3
<1>17. /\ P[1][1] = x1 \otimes y1 /\ P[1][2] = x1 \otimes Y2 /\ P[1][3] = x1 \otimes Y3
       /\ P[2][1] = X2 \otimes y1 /\ P[2][2] = X2 \otimes Y2 /\ P[2][3] = X2 \otimes Y3
       /\ P[3][1] = X3 \otimes y1 /\ P[3][2] = X3 \otimes Y2 /\ P[3][3] = X3 \otimes Y3
  OBVIOUS
<1> HIDE DEF P
<1>18. /\ P[1][1] \in Ring /\ P[1][2] \in Ring /\ P[1][3] \in Ring
       /\ P[2][1] \in Ring /\ P[2][2] \in Ring /\ P[2][3] \in Ring
       /\ P[3][1] \in Ring /\ P[3][2] \in Ring /\ P[3][3] = Zero
  BY <1>2, <1>11, <1>16, <1>17, MultZero, Closed, SMTT(60)
<1>19. \A i, j \in 1 .. 3 : P[i][j] \in Ring
  <2> TAKE i \in 1 .. 3, j \in 1 .. 3
  <2>1. i \in {1, 2, 3} /\ j \in {1, 2, 3} OBVIOUS
  <2> QED BY <1>18, <2>1, Closed
<1>20. DecryptCore(z, s)
         = ((P[1][1] \oplus (P[1][2] \oplus P[2][1]))
              \oplus ((P[1][3] \oplus P[2][2]) \oplus P[3][1])) \oplus (P[2][3] \oplus P[3][2])
  BY <1>10, <1>12, <1>13, <1>14, <1>17 DEF c1
<1>21. \A u \in Ring : u \otimes ((y1 \oplus Y2) \oplus Y3)
                         = ((u \otimes y1) \oplus (u \otimes Y2)) \oplus (u \otimes Y3)
  BY <1>2, <1>11, Distributes, Closed
<1>22. ((x1 \oplus X2) \oplus X3) \otimes ((y1 \oplus Y2) \oplus Y3)
         = (((P[1][1] \oplus P[1][2]) \oplus P[1][3]) \oplus ((P[2][1] \oplus P[2][2]) \oplus P[2][3]))
             \oplus ((P[3][1] \oplus P[3][2]) \oplus P[3][3])
  <2> DEFINE Y == (y1 \oplus Y2) \oplus Y3
  <2>1. Y \in Ring /\ x1 \oplus X2 \in Ring BY <1>2, <1>11, Closed
  <2>2. x1 \otimes Y = (P[1][1] \oplus P[1][2]) \oplus P[1][3] BY <1>2, <1>17, <1>21
  <2>3. X2 \otimes Y = (P[2][1] \oplus P[2][2]) \oplus P[2][3] BY <1>11, <1>17, <1>21
  <2>4. X3 \otimes Y = (P[3][1] \oplus P[3][2]) \oplus P[3][3] BY <1>11, <1>17, <1>21
  <2> HIDE DEF Y
  <2>5. ((x1 \oplus X2) \oplus X3) \otimes Y = ((x1 \oplus X2) \otimes Y) \oplus (X3 \otimes Y)
    BY <1>11, <2>1, Distributes
  <2>6. (x1 \oplus X2) \otimes Y = (x1 \otimes Y) \oplus (X2 \otimes Y)
    BY <1>2, <1>11, <2>1, Distributes
  <2> QED BY <2>2, <2>3, <2>4, <2>5, <2>6 DEF Y
<1> QED BY <1>8, <1>15, <1>18, <1>19, <1>20, <1>22, RowsAreDegrees DEF z

-----------------------------------------------------------------------------
(***************************************************************************)
(* The inductive invariant.                                                *)
(***************************************************************************)

\* What is encrypted under a public key decrypts with the ideal private element.
PublicKeysFit == \A t \in Tags : ideal[t] # NULL => KeyFits(publicKey[t], Zero, ideal[t])

\* A key pair has parties, all of them made; one of a single party has its private key.
PairsAreMade ==
  /\ \A t \in Tags : ideal[t] # NULL => members[t] # {}
  /\ \A t \in Tags : ideal[t] = NULL => privateKey[t] = NULL
  /\ \A t \in Tags : \A u \in members[t] : ideal[u] # NULL
  /\ \A t \in Tags : Alone(t) => privateKey[t] = ideal[t]

\* The keys filed under a tag are for the private key of its pair.
MultKeysFit ==
  \A t \in Tags :
    /\ Len(multKeys[t]) <= 2
    /\ multKeys[t] # <<>> => privateKey[t] # NULL
    /\ KeysFitPowers(multKeys[t], Len(multKeys[t]), privateKey[t])

AutoKeysFit ==
  \A t \in Tags, i \in Indices :
    autoKeys[t][i] # NoPair =>
      /\ privateKey[t] # NULL
      /\ KeyFits(autoKeys[t][i], privateKey[t], Permuted(privateKey[t], i))

SwitchKeysFit ==
  \A k \in switchKeys : /\ Alone(k.old) /\ ideal[k.new] # NULL
                        /\ KeyFits(k, ideal[k.old], ideal[k.new])

ObjectsAreRight ==
  \A n \in 1 .. Len(objects) :
    LET x == objects[n]
    IN  /\ ideal[x.under] # NULL
        /\ DecryptCore(x.els, ideal[x.under]) = x.msg
        /\ ~x.switched => x.tag = x.under

Inv == /\ TypeOK
       /\ PublicKeysFit /\ PairsAreMade
       /\ MultKeysFit /\ AutoKeysFit /\ SwitchKeysFit
       /\ ObjectsAreRight

LEMMA InitInv == Init => Inv
<1> SUFFICES ASSUME Init PROVE Inv
  OBVIOUS
<1> USE DEF Init
<1>1. TypeOK BY DEF TypeOK
<1>2. PublicKeysFit BY DEF PublicKeysFit
<1>3. PairsAreMade BY DEF PairsAreMade, Alone
<1>4. MultKeysFit BY DEF MultKeysFit, KeysFitPowers
<1>5. AutoKeysFit BY DEF AutoKeysFit
<1>6. SwitchKeysFit BY DEF SwitchKeysFit
<1>7. ObjectsAreRight BY DEF ObjectsAreRight
<1> QED BY <1>1, <1>2, <1>3, <1>4, <1>5, <1>6, <1>7 DEF Inv

-----------------------------------------------------------------------------
(***************************************************************************)
(* Key pairs.                                                              *)
(***************************************************************************)

\* The equations of two public keys with the same uniform element add up.
LEMMA PublicKeysAdd ==
  ASSUME NEW p, NEW q, NEW s \in Ring, NEW u \in Ring,
         KeyFits(p, Zero, s), KeyFits(q, Zero, u), p.a = q.a
  PROVE  (p.b \oplus q.b) \oplus (p.a \otimes (s \oplus u)) = Zero
<1>1. p.b \in Ring /\ q.b \in Ring /\ p.a \in Ring BY DEF KeyFits
<1>2. p.b \oplus (p.a \otimes s) = Zero /\ q.b \oplus (p.a \otimes u) = Zero BY DEF KeyFits
<1>3. p.a \otimes (s \oplus u) = (p.a \otimes s) \oplus (p.a \otimes u) BY <1>1, Distributes
<1>4. p.a \otimes s \in Ring /\ p.a \otimes u \in Ring BY <1>1, Closed
<1>5. (p.b \oplus q.b) \oplus ((p.a \otimes s) \oplus (p.a \otimes u))
        = (p.b \oplus (p.a \otimes s)) \oplus (q.b \oplus (p.a \otimes u))
  BY <1>1, <1>4, Exchange
<1> QED BY <1>2, <1>3, <1>5, AddZero, Closed

LEMMA AddedPubKeysFit ==
  ASSUME NEW p, NEW q, NEW s \in Ring, NEW u \in Ring,
         KeyFits(p, Zero, s), KeyFits(q, Zero, u), p.a = q.a
  PROVE  AddedPubKeys(p, q) \in Pairs /\ KeyFits(AddedPubKeys(p, q), Zero, s \oplus u)
<1>1. p.b \oplus q.b \in Ring /\ p.a \in Ring BY Closed DEF KeyFits
<1>2. (p.b \oplus q.b) \oplus (p.a \otimes (s \oplus u)) = Zero BY PublicKeysAdd
<1> QED BY <1>1, <1>2 DEF AddedPubKeys, Pairs, KeyFits

LEMMA JoinedKeyFits ==
  ASSUME NEW pk, NEW s \in Ring, NEW u \in Ring, KeyFits(pk, Zero, u)
  PROVE  JoinedKey(pk, s) \in Pairs /\ KeyFits(JoinedKey(pk, s), Zero, u \oplus s)
<1> DEFINE own == ZeroUnder(s, pk.a)
<1>1. pk.a \in Ring /\ pk.b \in Ring BY DEF KeyFits
<1>2. own \in Pairs /\ KeyFits(own, Zero, s) BY <1>1, ZeroUnderFits
<1>3. own.a = pk.a BY DEF ZeroUnder
<1>4. own.b \in Ring BY <1>2 DEF KeyFits
<1>5. JoinedKey(pk, s) = [b |-> own.b \oplus pk.b, a |-> pk.a] BY DEF JoinedKey
<1> HIDE DEF own
<1>6. (own.b \oplus pk.b) \oplus (own.a \otimes (s \oplus u)) = Zero BY <1>2, <1>3, PublicKeysAdd
<1>7. own.b \oplus pk.b \in Ring /\ s \oplus u = u \oplus s BY <1>1, <1>4, AddComm, Closed
<1> QED BY <1>1, <1>3, <1>5, <1>6, <1>7 DEF Pairs, KeyFits

\* A new pair keeps the invariant: nothing has been made for its tag yet.
LEMMA NewKeyPairKeepsInv ==
  ASSUME Inv, NEW t \in Tags, NEW s \in Ring \cup {NULL}, NEW pk \in Pairs, NEW joint \in Ring,
         NEW parties \in SUBSET Tags,
         KeyFits(pk, Zero, joint),
         parties # {}, \A u \in parties : u = t \/ ideal[u] # NULL,
         parties = {t} => s = joint,
         NewKeyPair(t, s, pk, joint, parties)
  PROVE  Inv'
<1>1. TypeOK /\ PublicKeysFit /\ PairsAreMade /\ MultKeysFit /\ AutoKeysFit /\ SwitchKeysFit
        /\ ObjectsAreRight
  BY DEF Inv
<1>2. /\ ideal[t] = NULL /\ privateKey[t] = NULL
      /\ privateKey' = [privateKey EXCEPT ![t] = s]
      /\ publicKey' = [publicKey EXCEPT ![t] = pk]
      /\ ideal' = [ideal EXCEPT ![t] = joint]
      /\ members' = [members EXCEPT ![t] = parties]
      /\ multKeys' = multKeys /\ autoKeys' = autoKeys /\ switchKeys' = switchKeys
      /\ objects' = objects
  BY <1>1 DEF NewKeyPair, evalKeys, PairsAreMade
<1>3. joint # NULL /\ NULL \notin Ring BY SampleAssumption
<1>4. TypeOK' BY <1>1, <1>2 DEF TypeOK
<1>5. /\ privateKey'[t] = s /\ publicKey'[t] = pk /\ ideal'[t] = joint /\ members'[t] = parties
      /\ \A u \in Tags : u # t => /\ privateKey'[u] = privateKey[u] /\ publicKey'[u] = publicKey[u]
                                  /\ ideal'[u] = ideal[u] /\ members'[u] = members[u]
  BY <1>1, <1>2 DEF TypeOK
<1>6. PublicKeysFit' BY <1>1, <1>5 DEF PublicKeysFit
<1>7. PairsAreMade'
  <2>1. \A u \in Tags : ideal'[u] # NULL => members'[u] # {} BY <1>1, <1>5 DEF PairsAreMade
  <2>2. \A u \in Tags : ideal'[u] = NULL => privateKey'[u] = NULL
    BY <1>1, <1>3, <1>5 DEF PairsAreMade
  <2>3. \A u \in Tags : \A v \in members'[u] : ideal'[v] # NULL
    <3> TAKE u \in Tags
    <3> TAKE v \in members'[u]
    <3>1. CASE u = t BY <1>3, <1>5, <3>1
    <3>2. CASE u # t
      <4>1. v \in members[u] /\ v \in Tags BY <1>1, <1>5, <3>2 DEF TypeOK
      <4>2. ideal[v] # NULL BY <1>1, <4>1 DEF PairsAreMade
      <4> QED BY <1>2, <1>5, <4>1, <4>2
    <3> QED BY <3>1, <3>2
  <2>4. \A u \in Tags : Alone(u)' => privateKey'[u] = ideal'[u]
    BY <1>1, <1>5 DEF PairsAreMade, Alone
  <2> QED BY <2>1, <2>2, <2>3, <2>4 DEF PairsAreMade
<1>8. MultKeysFit'
  <2> SUFFICES ASSUME NEW u \in Tags
               PROVE  /\ Len(multKeys[u]) <= 2
                      /\ multKeys[u] # <<>> => privateKey'[u] # NULL
                      /\ KeysFitPowers(multKeys[u], Len(multKeys[u]), privateKey'[u])
    BY <1>2 DEF MultKeysFit
  <2>1. CASE u # t BY <1>1, <1>5, <2>1 DEF MultKeysFit
  <2>2. CASE u = t
    <3>1. multKeys[u] = <<>> BY <1>1, <1>2, <2>2 DEF MultKeysFit
    <3> QED BY <3>1 DEF KeysFitPowers
  <2> QED BY <2>1, <2>2
<1>9. AutoKeysFit'
  <2> SUFFICES ASSUME NEW u \in Tags, NEW i \in Indices, autoKeys[u][i] # NoPair
               PROVE  /\ privateKey'[u] # NULL
                      /\ KeyFits(autoKeys[u][i], privateKey'[u], Permuted(privateKey'[u], i))
    BY <1>2 DEF AutoKeysFit
  <2>1. /\ privateKey[u] # NULL
        /\ KeyFits(autoKeys[u][i], privateKey[u], Permuted(privateKey[u], i))
    BY <1>1 DEF AutoKeysFit
  <2> QED BY <1>2, <1>5, <2>1
<1>10. SwitchKeysFit'
  <2> SUFFICES ASSUME NEW k \in switchKeys
               PROVE  /\ members'[k.old] = {k.old} /\ ideal'[k.new] # NULL
                      /\ KeyFits(k, ideal'[k.old], ideal'[k.new])
    BY <1>2 DEF SwitchKeysFit, Alone
  <2>1. k.old \in Tags /\ k.new \in Tags BY <1>1 DEF TypeOK, SwitchKeys
  <2>2. Alone(k.old) /\ ideal[k.new] # NULL /\ KeyFits(k, ideal[k.old], ideal[k.new])
    BY <1>1 DEF SwitchKeysFit
  <2>3. ideal[k.old] # NULL BY <1>1, <2>1, <2>2 DEF PairsAreMade, Alone
  <2>4. k.old # t /\ k.new # t BY <1>2, <2>2, <2>3
  <2> QED BY <1>5, <2>1, <2>2, <2>4 DEF Alone
<1>11. ObjectsAreRight'
  <2> SUFFICES ASSUME NEW n \in 1 .. Len(objects)
               PROVE  LET x == objects[n]
                      IN  /\ ideal'[x.under] # NULL
                          /\ DecryptCore(x.els, ideal'[x.under]) = x.msg
                          /\ ~x.switched => x.tag = x.under
    BY <1>2 DEF ObjectsAreRight
  <2> DEFINE x == objects[n]
  <2>1. x.under \in Tags
    <3>1. x \in Ciphertexts BY <1>1 DEF TypeOK
    <3> QED BY <3>1 DEF Ciphertexts
  <2>2. /\ ideal[x.under] # NULL
        /\ DecryptCore(x.els, ideal[x.under]) = x.msg
        /\ ~x.switched => x.tag = x.under
    BY <1>1 DEF ObjectsAreRight
  <2>3. ideal'[x.under] = ideal[x.under] BY <1>2, <1>5, <2>1, <2>2
  <2> QED BY <2>2, <2>3
<1> QED BY <1>4, <1>6, <1>7, <1>8, <1>9, <1>10, <1>11 DEF Inv

LEMMA KeyPairStepKeepsInv ==
  ASSUME Inv, KeyPairStep
  PROVE  Inv'
<1>1. TypeOK /\ PublicKeysFit /\ PairsAreMade BY DEF Inv
<1>2. \A u \in Tags : /\ ideal[u] # NULL => ideal[u] \in Ring
                      /\ privateKey[u] # NULL => privateKey[u] \in Ring
                      /\ members[u] \in SUBSET Tags
  BY <1>1 DEF TypeOK
<1>3. PICK t \in Tags :
        \/ KeyGen(t)
        \/ \E u \in Tags : MultipartyKeyGen(t, u) \/ MultipartyKeyGenFresh(t, u)
        \/ \E u, v \in Tags : MultipartyKeyGenOfShares(t, u, v) \/ MultiAddPubKeys(t, u, v)
  BY DEF KeyPairStep
<1>4. Secrets[t] \subseteq Ring /\ Uniforms[t] \subseteq Ring BY SampleAssumption
<1>5. ASSUME NEW s \in Ring, NEW a \in Ring, NewKeyPair(t, s, ZeroUnder(s, a), s, {t})
      PROVE  Inv'
  <2>1. ZeroUnder(s, a) \in Pairs /\ KeyFits(ZeroUnder(s, a), Zero, s) BY ZeroUnderFits
  <2> QED BY <1>5, <2>1, NewKeyPairKeepsInv
<1>6. CASE KeyGen(t) BY <1>4, <1>5, <1>6 DEF KeyGen
<1>7. ASSUME NEW u \in Tags, MultipartyKeyGen(t, u) PROVE Inv'
  <2>1. PICK s \in Secrets[t] :
          /\ ideal[u] # NULL
          /\ NewKeyPair(t, s, JoinedKey(publicKey[u], s), ideal[u] \oplus s, members[u] \cup {t})
    BY <1>7 DEF MultipartyKeyGen
  <2>2. s \in Ring /\ ideal[u] \in Ring /\ KeyFits(publicKey[u], Zero, ideal[u])
    BY <1>1, <1>2, <1>4, <2>1 DEF PublicKeysFit
  <2>3. /\ JoinedKey(publicKey[u], s) \in Pairs
        /\ KeyFits(JoinedKey(publicKey[u], s), Zero, ideal[u] \oplus s)
    BY <2>2, JoinedKeyFits
  <2>4. ideal[u] \oplus s \in Ring BY <2>2, Closed
  <2>5. ideal[t] = NULL BY <2>1 DEF NewKeyPair
  <2>6. /\ members[u] \cup {t} \in SUBSET Tags /\ members[u] \cup {t} # {}
        /\ \A v \in members[u] \cup {t} : v = t \/ ideal[v] # NULL
        /\ members[u] \cup {t} # {t}
    BY <1>1, <1>2, <2>1, <2>5 DEF PairsAreMade
  <2> QED BY <2>1, <2>2, <2>3, <2>4, <2>6, NewKeyPairKeepsInv
<1>8. ASSUME NEW u \in Tags, MultipartyKeyGenFresh(t, u) PROVE Inv'
  <2>1. PICK s \in Secrets[t] :
          ideal[u] # NULL /\ NewKeyPair(t, s, ZeroUnder(s, publicKey[u].a), s, {t})
    BY <1>8 DEF MultipartyKeyGenFresh
  <2>2. publicKey[u].a \in Ring BY <1>1, <2>1 DEF PublicKeysFit, KeyFits
  <2> QED BY <1>4, <1>5, <2>1, <2>2
<1>9. ASSUME NEW u \in Tags, NEW v \in Tags, MultipartyKeyGenOfShares(t, u, v) PROVE Inv'
  <2>1. privateKey[u] \oplus privateKey[v] \in Ring
    BY <1>2, <1>9, Closed DEF MultipartyKeyGenOfShares
  <2> QED BY <1>4, <1>5, <1>9, <2>1 DEF MultipartyKeyGenOfShares
<1>10. ASSUME NEW u \in Tags, NEW v \in Tags, MultiAddPubKeys(t, u, v) PROVE Inv'
  <2>1. /\ ideal[u] # NULL /\ ideal[v] # NULL /\ members[u] \cap members[v] = {}
        /\ publicKey[u].a = publicKey[v].a
        /\ NewKeyPair(t, NULL, AddedPubKeys(publicKey[u], publicKey[v]),
                      ideal[u] \oplus ideal[v], members[u] \cup members[v])
    BY <1>10 DEF MultiAddPubKeys
  <2>2. /\ ideal[u] \in Ring /\ ideal[v] \in Ring
        /\ KeyFits(publicKey[u], Zero, ideal[u]) /\ KeyFits(publicKey[v], Zero, ideal[v])
    BY <1>1, <1>2, <2>1 DEF PublicKeysFit
  <2>3. /\ AddedPubKeys(publicKey[u], publicKey[v]) \in Pairs
        /\ KeyFits(AddedPubKeys(publicKey[u], publicKey[v]), Zero, ideal[u] \oplus ideal[v])
    BY <2>1, <2>2, AddedPubKeysFit
  <2>4. ideal[u] \oplus ideal[v] \in Ring BY <2>2, Closed
  <2>5. ideal[t] = NULL BY <2>1 DEF NewKeyPair
  <2>6. /\ members[u] \cup members[v] \in SUBSET Tags /\ members[u] \cup members[v] # {}
        /\ \A w \in members[u] \cup members[v] : ideal[w] # NULL
        /\ members[u] \cup members[v] # {t}
    BY <1>1, <1>2, <2>1, <2>5 DEF PairsAreMade
  <2> QED BY <2>1, <2>3, <2>4, <2>6, NewKeyPairKeepsInv
<1> QED BY <1>3, <1>6, <1>7, <1>8, <1>9, <1>10

-----------------------------------------------------------------------------
(***************************************************************************)
(* Evaluation keys.                                                        *)
(***************************************************************************)
LEMMA EvalMultKeyGenKeepsInv ==
  ASSUME Inv, NEW t \in Tags, NEW keys \in Seq(Pairs), Len(keys) <= 2,
         privateKey[t] # NULL, KeysFitPowers(keys, Len(keys), privateKey[t]),
         multKeys' = [multKeys EXCEPT ![t] = keys],
         UNCHANGED <<keyPairs, autoKeys, switchKeys, objects>>
  PROVE  Inv'
<1>1. TypeOK /\ PublicKeysFit /\ PairsAreMade /\ MultKeysFit /\ AutoKeysFit /\ SwitchKeysFit
        /\ ObjectsAreRight
  BY DEF Inv
<1> USE DEF keyPairs
<1>2. TypeOK' BY <1>1 DEF TypeOK
<1>3. PublicKeysFit' BY <1>1 DEF PublicKeysFit
<1>4. PairsAreMade' BY <1>1 DEF PairsAreMade, Alone
<1>5. MultKeysFit'
  <2>1. /\ multKeys'[t] = keys
        /\ \A u \in Tags : u # t => multKeys'[u] = multKeys[u]
    BY <1>1 DEF TypeOK
  <2>2. privateKey' = privateKey OBVIOUS
  <2> SUFFICES ASSUME NEW u \in Tags
               PROVE  /\ Len(multKeys'[u]) <= 2
                      /\ multKeys'[u] # <<>> => privateKey[u] # NULL
                      /\ KeysFitPowers(multKeys'[u], Len(multKeys'[u]), privateKey[u])
    BY <2>2 DEF MultKeysFit
  <2>3. CASE u = t BY <2>1, <2>3
  <2>4. CASE u # t BY <1>1, <2>1, <2>4 DEF MultKeysFit
  <2> QED BY <2>3, <2>4
<1>6. AutoKeysFit' BY <1>1 DEF AutoKeysFit
<1>7. SwitchKeysFit' BY <1>1 DEF SwitchKeysFit, Alone
<1>8. ObjectsAreRight' BY <1>1 DEF ObjectsAreRight
<1> QED BY <1>2, <1>3, <1>4, <1>5, <1>6, <1>7, <1>8 DEF Inv

LEMMA EvalAutomorphismKeyGenKeepsInv ==
  ASSUME Inv, NEW t \in Tags, NEW i \in Indices, EvalAutomorphismKeyGen(t, i)
  PROVE  Inv'
<1>1. TypeOK /\ PublicKeysFit /\ PairsAreMade /\ MultKeysFit /\ AutoKeysFit /\ SwitchKeysFit
        /\ ObjectsAreRight
  BY DEF Inv
<1> DEFINE s == privateKey[t]
<1>2. PICK a \in Uniforms[t] :
        /\ s # NULL
        /\ autoKeys' = [autoKeys EXCEPT ![t] =
             [j \in Indices |-> IF j = i THEN SwitchKey(s, Permuted(s, i), a) ELSE NoPair]]
        /\ UNCHANGED <<keyPairs, multKeys, switchKeys, objects>>
  BY DEF EvalAutomorphismKeyGen
<1> DEFINE key == SwitchKey(s, Permuted(s, i), a)
           file == [j \in Indices |-> IF j = i THEN key ELSE NoPair]
<1>3. a \in Ring /\ s \in Ring BY <1>1, <1>2, SampleAssumption DEF TypeOK
<1>4. key \in Pairs /\ KeyFits(key, s, Permuted(s, i)) BY <1>3, SigmaInRing, SwitchKeyFits
<1>5. file \in [Indices -> Pairs \cup {NoPair}]
  <2> HIDE DEF key
  <2> QED BY <1>4
<1>6. /\ autoKeys'[t] = file
      /\ autoKeys' \in [Tags -> [Indices -> Pairs \cup {NoPair}]]
      /\ \A u \in Tags : u # t => autoKeys'[u] = autoKeys[u]
  <2>1. autoKeys' = [autoKeys EXCEPT ![t] = file] BY <1>2
  <2> HIDE DEF file
  <2> QED BY <1>1, <1>5, <2>1 DEF TypeOK
<1>7. /\ privateKey' = privateKey /\ publicKey' = publicKey /\ ideal' = ideal /\ members' = members
      /\ multKeys' = multKeys /\ switchKeys' = switchKeys /\ objects' = objects
  BY <1>2 DEF keyPairs
<1>8. AutoKeysFit'
  <2> SUFFICES ASSUME NEW u \in Tags, NEW j \in Indices, autoKeys'[u][j] # NoPair
               PROVE  /\ privateKey[u] # NULL
                      /\ KeyFits(autoKeys'[u][j], privateKey[u], Permuted(privateKey[u], j))
    BY <1>7 DEF AutoKeysFit
  <2>1. CASE u = t
    <3>1. file[j] # NoPair BY <1>6, <2>1
    <3>2. j = i /\ file[j] = key BY <3>1
    <3> HIDE DEF key, file
    <3> QED BY <1>2, <1>4, <1>6, <2>1, <3>2
  <2>2. CASE u # t BY <1>1, <1>6, <2>2 DEF AutoKeysFit
  <2> QED BY <2>1, <2>2
<1> HIDE DEF s, key, file
<1>9. TypeOK' BY <1>1, <1>6, <1>7 DEF TypeOK
<1>10. PublicKeysFit' BY <1>1, <1>7 DEF PublicKeysFit
<1>11. PairsAreMade' BY <1>1, <1>7 DEF PairsAreMade, Alone
<1>12. MultKeysFit' BY <1>1, <1>7 DEF MultKeysFit
<1>13. SwitchKeysFit' BY <1>1, <1>7 DEF SwitchKeysFit, Alone
<1>14. ObjectsAreRight' BY <1>1, <1>7 DEF ObjectsAreRight
<1> QED BY <1>8, <1>9, <1>10, <1>11, <1>12, <1>13, <1>14 DEF Inv

LEMMA NewSwitchKeyKeepsInv ==
  ASSUME Inv, NEW pair \in Pairs, NEW u \in Tags, NEW t \in Tags,
         Alone(u), ideal[t] # NULL, KeyFits(pair, ideal[u], ideal[t]),
         NewSwitchKey(pair, u, t)
  PROVE  Inv'
<1>1. TypeOK /\ PublicKeysFit /\ PairsAreMade /\ MultKeysFit /\ AutoKeysFit /\ SwitchKeysFit
        /\ ObjectsAreRight
  BY DEF Inv
<1> DEFINE key == [b |-> pair.b, a |-> pair.a, old |-> u, new |-> t]
<1>2. /\ switchKeys' = switchKeys \cup {key}
      /\ privateKey' = privateKey /\ publicKey' = publicKey /\ ideal' = ideal /\ members' = members
      /\ multKeys' = multKeys /\ autoKeys' = autoKeys /\ objects' = objects
  BY DEF NewSwitchKey, keyPairs
<1>3. key \in SwitchKeys BY DEF Pairs, SwitchKeys
<1>4. key.old = u /\ key.new = t /\ KeyFits(key, ideal[u], ideal[t]) BY DEF KeyFits
<1> HIDE DEF key
<1>5. TypeOK' BY <1>1, <1>2, <1>3 DEF TypeOK
<1>6. SwitchKeysFit' BY <1>1, <1>2, <1>4 DEF SwitchKeysFit, Alone
<1>7. PublicKeysFit' BY <1>1, <1>2 DEF PublicKeysFit
<1>8. PairsAreMade' BY <1>1, <1>2 DEF PairsAreMade, Alone
<1>9. MultKeysFit' BY <1>1, <1>2 DEF MultKeysFit
<1>10. AutoKeysFit' BY <1>1, <1>2 DEF AutoKeysFit
<1>11. ObjectsAreRight' BY <1>1, <1>2 DEF ObjectsAreRight
<1> QED BY <1>5, <1>6, <1>7, <1>8, <1>9, <1>10, <1>11 DEF Inv

LEMMA MadeKeys ==
  ASSUME NEW n \in 1 .. 2, NEW keys, keys = [j \in 1 .. n |-> keys[j]],
         \A j \in 1 .. n : keys[j] \in Pairs
  PROVE  keys \in Seq(Pairs) /\ Len(keys) = n
<1>1. [j \in 1 .. n |-> keys[j]] \in Seq(Pairs) OBVIOUS
<1>2. Len([j \in 1 .. n |-> keys[j]]) = n OBVIOUS
<1> QED BY <1>1, <1>2

LEMMA EvalKeyStepKeepsInv ==
  ASSUME Inv, EvalKeyStep
  PROVE  Inv'
<1>1. TypeOK /\ PublicKeysFit /\ PairsAreMade BY DEF Inv
<1>2. PICK t \in Tags :
        \/ EvalMultKeyGen(t)
        \/ EvalMultKeysGen(t)
        \/ \E i \in Indices : EvalAutomorphismKeyGen(t, i)
        \/ \E u \in Tags : KeySwitchGen(u, t) \/ ReKeyGen(u, t)
  BY DEF EvalKeyStep
<1> DEFINE s == privateKey[t]
<1>3. Uniforms[t] \subseteq Ring /\ Masks \subseteq Ring /\ (s # NULL => s \in Ring)
  BY <1>1, SampleAssumption DEF TypeOK
<1>4. CASE EvalMultKeyGen(t)
  <2>1. PICK a \in Uniforms[t] :
          /\ s # NULL
          /\ multKeys' = [multKeys EXCEPT ![t] = <<SwitchKey(Square(s), s, a)>>]
          /\ UNCHANGED <<keyPairs, autoKeys, switchKeys, objects>>
    BY <1>4 DEF EvalMultKeyGen
  <2> DEFINE key == SwitchKey(Square(s), s, a)
  <2>2. a \in Ring /\ s \in Ring BY <1>3, <2>1
  <2>3. key \in Pairs /\ KeyFits(key, Square(s), s) BY <2>2, PowersInRing, SwitchKeyFits
  <2> HIDE DEF key
  <2>4. /\ <<key>> \in Seq(Pairs) /\ Len(<<key>>) = 1 /\ Len(<<key>>) <= 2
        /\ KeysFitPowers(<<key>>, Len(<<key>>), s)
    BY <2>3 DEF KeysFitPowers
  <2> QED BY <2>1, <2>4, EvalMultKeyGenKeepsInv DEF key
<1>5. CASE EvalMultKeysGen(t)
  <2> DEFINE Power(j) == IF j = 1 THEN Square(s) ELSE Cube(s)
             Keys(as) == [j \in 1 .. MaxDepth - 1 |-> SwitchKey(Power(j), s, as[j])]
  <2>1. PICK as \in [1 .. MaxDepth - 1 -> Uniforms[t]] :
          /\ s # NULL
          /\ multKeys' = [multKeys EXCEPT ![t] = Keys(as)]
          /\ UNCHANGED <<keyPairs, autoKeys, switchKeys, objects>>
    BY <1>5 DEF EvalMultKeysGen
  <2>2. s \in Ring BY <1>3, <2>1
  <2>3. MaxDepth - 1 \in 1 .. 2 BY DepthAssumption
  <2>4. \A j \in 1 .. MaxDepth - 1 : /\ SwitchKey(Power(j), s, as[j]) \in Pairs
                                     /\ KeyFits(SwitchKey(Power(j), s, as[j]), Power(j), s)
    <3> TAKE j \in 1 .. MaxDepth - 1
    <3>1. as[j] \in Ring BY <1>3
    <3>2. Power(j) \in Ring BY <2>2, PowersInRing
    <3> QED BY <2>2, <3>1, <3>2, SwitchKeyFits
  <2> DEFINE keys == Keys(as)
  <2>5. \A j \in 1 .. MaxDepth - 1 : keys[j] \in Pairs /\ KeyFits(keys[j], Power(j), s)
    BY <2>4
  <2>6. keys \in Seq(Pairs) /\ Len(keys) = MaxDepth - 1
    <3>1. keys = [j \in 1 .. MaxDepth - 1 |-> keys[j]] OBVIOUS
    <3> HIDE DEF keys
    <3> QED BY <2>3, <2>5, <3>1, MadeKeys
  <2>7. KeysFitPowers(keys, Len(keys), s)
    <3>1. 1 \in 1 .. MaxDepth - 1 /\ (MaxDepth - 1 >= 2 => 2 \in 1 .. MaxDepth - 1) BY <2>3
    <3>2. Power(1) = Square(s) /\ Power(2) = Cube(s) OBVIOUS
    <3> HIDE DEF keys, Power
    <3> QED BY <2>5, <2>6, <3>1, <3>2 DEF KeysFitPowers
  <2>8. multKeys' = [multKeys EXCEPT ![t] = keys] BY <2>1
  <2>9. Len(keys) <= 2 BY <2>3, <2>6
  <2> HIDE DEF keys
  <2> QED BY <2>1, <2>6, <2>7, <2>8, <2>9, EvalMultKeyGenKeepsInv
<1>6. ASSUME NEW u \in Tags, KeySwitchGen(u, t) PROVE Inv'
  <2>1. PICK a \in Uniforms[t] : /\ Alone(u) /\ Alone(t)
                                 /\ NewSwitchKey(SwitchKey(privateKey[u], privateKey[t], a), u, t)
    BY <1>6 DEF KeySwitchGen
  <2>2. /\ ideal[u] # NULL /\ ideal[t] # NULL
        /\ privateKey[u] = ideal[u] /\ privateKey[t] = ideal[t]
        /\ ideal[u] \in Ring /\ ideal[t] \in Ring
    BY <1>1, <2>1 DEF PairsAreMade, Alone, TypeOK
  <2>3. /\ SwitchKey(ideal[u], ideal[t], a) \in Pairs
        /\ KeyFits(SwitchKey(ideal[u], ideal[t], a), ideal[u], ideal[t])
    BY <1>3, <2>2, SwitchKeyFits
  <2> QED BY <2>1, <2>2, <2>3, NewSwitchKeyKeepsInv
<1>7. ASSUME NEW u \in Tags, ReKeyGen(u, t) PROVE Inv'
  <2>1. PICK r \in Masks :
          /\ Alone(u) /\ ideal[t] # NULL
          /\ NewSwitchKey(SwitchKeyToPublic(privateKey[u], publicKey[t], r), u, t)
    BY <1>7 DEF ReKeyGen
  <2>2. /\ ideal[u] # NULL /\ privateKey[u] = ideal[u] /\ ideal[u] \in Ring /\ ideal[t] \in Ring
        /\ KeyFits(publicKey[t], Zero, ideal[t])
    BY <1>1, <2>1 DEF PairsAreMade, PublicKeysFit, Alone, TypeOK
  <2>3. r \in Ring BY <1>3
  <2>4. /\ SwitchKeyToPublic(ideal[u], publicKey[t], r) \in Pairs
        /\ KeyFits(SwitchKeyToPublic(ideal[u], publicKey[t], r), ideal[u], ideal[t])
    BY <2>2, <2>3, SwitchKeyToPublicFits
  <2> QED BY <2>1, <2>2, <2>4, NewSwitchKeyKeepsInv
<1> QED BY <1>2, <1>4, <1>5, <1>6, <1>7, EvalAutomorphismKeyGenKeepsInv

-----------------------------------------------------------------------------
(***************************************************************************)
(* Ciphertexts.                                                            *)
(***************************************************************************)

\* What the invariant says of one ciphertext.
LEMMA ObjectIsRight ==
  ASSUME Inv, NEW x \in Objects
  PROVE  /\ x.els \in Elements /\ x.tag \in Tags /\ x.under \in Tags /\ x.msg \in Ring
         /\ ideal[x.under] \in Ring /\ ideal[x.under] # NULL
         /\ DecryptCore(x.els, ideal[x.under]) = x.msg
         /\ ~x.switched => x.tag = x.under
<1>1. PICK n \in 1 .. Len(objects) : x = objects[n] BY DEF Objects
<1>2. objects \in Seq(Ciphertexts) BY DEF Inv, TypeOK
<1>3. x \in Ciphertexts BY <1>1, <1>2
<1>4. /\ ideal[x.under] # NULL /\ DecryptCore(x.els, ideal[x.under]) = x.msg
      /\ ~x.switched => x.tag = x.under
  BY <1>1 DEF Inv, ObjectsAreRight
<1>5. ideal[x.under] \in Ring BY <1>3, <1>4 DEF Ciphertexts, Inv, TypeOK
<1> QED BY <1>3, <1>4, <1>5 DEF Ciphertexts

\* One that is tagged and whose key pair is of one party.
LEMMA OwnIsRight ==
  ASSUME Inv, NEW x \in Own
  PROVE  /\ x \in Objects /\ x.tag = x.under
         /\ privateKey[x.tag] = ideal[x.tag]
         /\ multKeys[x.tag] \in Seq(Pairs)
         /\ KeysFitPowers(multKeys[x.tag], Len(multKeys[x.tag]), ideal[x.tag])
<1>1. x \in Objects /\ ~x.switched /\ Alone(x.tag) BY DEF Own, Tagged
<1>2. x.tag \in Tags /\ x.tag = x.under BY <1>1, ObjectIsRight
<1> QED BY <1>1, <1>2 DEF Inv, TypeOK, PairsAreMade, MultKeysFit

LEMMA NewObjectKeepsInv ==
  ASSUME Inv, NEW els \in Elements, NEW tag \in Tags, NEW under \in Tags,
         NEW switched \in BOOLEAN, NEW msg \in Ring,
         ideal[under] # NULL, DecryptCore(els, ideal[under]) = msg, ~switched => tag = under,
         NewObject(els, tag, under, switched, msg)
  PROVE  Inv'
<1>1. TypeOK /\ PublicKeysFit /\ PairsAreMade /\ MultKeysFit /\ AutoKeysFit /\ SwitchKeysFit
        /\ ObjectsAreRight
  BY DEF Inv
<1> DEFINE x == [els |-> els, tag |-> tag, under |-> under, switched |-> switched, msg |-> msg]
<1>2. /\ objects' = Append(objects, x)
      /\ privateKey' = privateKey /\ publicKey' = publicKey /\ ideal' = ideal /\ members' = members
      /\ multKeys' = multKeys /\ autoKeys' = autoKeys /\ switchKeys' = switchKeys
  BY DEF NewObject, keyPairs, evalKeys
<1>3. x \in Ciphertexts BY DEF Ciphertexts
<1>4. /\ ideal[x.under] # NULL /\ DecryptCore(x.els, ideal[x.under]) = x.msg
      /\ ~x.switched => x.tag = x.under
  OBVIOUS
<1> HIDE DEF x
<1>5. objects \in Seq(Ciphertexts) BY <1>1 DEF TypeOK
<1>6. TypeOK' BY <1>1, <1>2, <1>3, <1>5 DEF TypeOK
<1>7. ObjectsAreRight'
  <2> SUFFICES ASSUME NEW n \in 1 .. Len(objects')
               PROVE  LET y == objects'[n]
                      IN  /\ ideal[y.under] # NULL
                          /\ DecryptCore(y.els, ideal[y.under]) = y.msg
                          /\ ~y.switched => y.tag = y.under
    BY <1>2 DEF ObjectsAreRight
  <2>1. (n \in 1 .. Len(objects) /\ objects'[n] = objects[n]) \/ objects'[n] = x
    BY <1>2, <1>5
  <2>2. CASE objects'[n] = x BY <1>4, <2>2
  <2>3. CASE n \in 1 .. Len(objects) /\ objects'[n] = objects[n]
    BY <1>1, <2>3 DEF ObjectsAreRight
  <2> QED BY <2>1, <2>2, <2>3
<1>8. PublicKeysFit' BY <1>1, <1>2 DEF PublicKeysFit
<1>9. PairsAreMade' BY <1>1, <1>2 DEF PairsAreMade, Alone
<1>10. MultKeysFit' BY <1>1, <1>2 DEF MultKeysFit
<1>11. AutoKeysFit' BY <1>1, <1>2 DEF AutoKeysFit
<1>12. SwitchKeysFit' BY <1>1, <1>2 DEF SwitchKeysFit, Alone
<1> QED BY <1>6, <1>7, <1>8, <1>9, <1>10, <1>11, <1>12 DEF Inv

\* A result that takes the tag of a tagged ciphertext.
LEMMA ResultKeepsInv ==
  ASSUME Inv, NEW x \in Tagged, NEW els \in Elements, NEW msg \in Ring,
         DecryptCore(els, ideal[x.under]) = msg, Result(x, els, msg)
  PROVE  Inv'
<1>1. x \in Objects /\ ~x.switched BY DEF Tagged
<1>2. x.tag \in Tags /\ x.tag = x.under /\ ideal[x.under] # NULL BY <1>1, ObjectIsRight
<1> QED BY <1>2, NewObjectKeepsInv DEF Result

LEMMA EncryptStepKeepsInv ==
  ASSUME Inv, EncryptStep
  PROVE  Inv'
<1>1. TypeOK /\ PublicKeysFit /\ PairsAreMade BY DEF Inv
<1>2. PICK t \in Tags : Encrypt(t) \/ EncryptPrivate(t) BY DEF EncryptStep
<1>3. Uniforms[t] \subseteq Ring /\ Masks \subseteq Ring /\ Plaintexts \subseteq Ring
  BY SampleAssumption
<1>4. ASSUME NEW zero, NEW text \in Ring, ideal[t] # NULL, KeyFits(zero, Zero, ideal[t]),
             NewObject(Encrypted(zero, text), t, t, FALSE, text)
      PROVE  Inv'
  <2>1. ideal[t] \in Ring BY <1>1, <1>4 DEF TypeOK
  <2>2. Encrypted(zero, text) \in Elements /\ DecryptCore(Encrypted(zero, text), ideal[t]) = text
    BY <1>4, <2>1, EncryptedDecrypts
  <2> QED BY <1>4, <2>2, NewObjectKeepsInv
<1>5. CASE Encrypt(t)
  <2>1. PICK text \in Plaintexts, v \in Masks :
          /\ ideal[t] # NULL
          /\ NewObject(Encrypted(ZeroUnderPublic(publicKey[t], v), text), t, t, FALSE, text)
    BY <1>5 DEF Encrypt
  <2>2. ideal[t] \in Ring /\ v \in Ring /\ text \in Ring /\ KeyFits(publicKey[t], Zero, ideal[t])
    BY <1>1, <1>3, <2>1 DEF TypeOK, PublicKeysFit
  <2>3. KeyFits(ZeroUnderPublic(publicKey[t], v), Zero, ideal[t]) BY <2>2, ZeroUnderPublicFits
  <2> QED BY <1>4, <2>1, <2>2, <2>3
<1>6. CASE EncryptPrivate(t)
  <2>1. PICK text \in Plaintexts, a \in Uniforms[t] :
          /\ Alone(t)
          /\ NewObject(Encrypted(ZeroUnder(privateKey[t], a), text), t, t, FALSE, text)
    BY <1>6 DEF EncryptPrivate
  <2>2. ideal[t] # NULL /\ privateKey[t] = ideal[t] /\ ideal[t] \in Ring
    BY <1>1, <2>1 DEF PairsAreMade, Alone, TypeOK
  <2>3. a \in Ring /\ text \in Ring BY <1>3
  <2>4. KeyFits(ZeroUnder(ideal[t], a), Zero, ideal[t]) BY <2>2, <2>3, ZeroUnderFits
  <2> QED BY <1>4, <2>1, <2>2, <2>3, <2>4
<1> QED BY <1>2, <1>5, <1>6

-----------------------------------------------------------------------------
(***************************************************************************)
(* Homomorphic operations.                                                 *)
(***************************************************************************)

\* A product of two elements each, its third absorbed.
LEMMA ProductDecrypts ==
  ASSUME NEW x \in Elements, NEW y \in Elements, Len(x) = 2, Len(y) = 2, NEW s \in Ring,
         NEW keys, KeysFitPowers(keys, 1, s)
  PROVE  LET z == EvalMultCore(x, y)
         IN  /\ KeySwitched(z, keys[1]) = Absorbed(z, z[3], keys[1])
             /\ Absorbed(z, z[3], keys[1]) \in Elements
             /\ DecryptCore(Absorbed(z, z[3], keys[1]), s) = DecryptCore(x, s) \otimes DecryptCore(y, s)
<1> DEFINE z == EvalMultCore(x, y)
<1>1. Len(x) + Len(y) <= MaxElements + 1 BY DEF MaxElements
<1>2. /\ z \in Elements /\ Len(z) = 3
      /\ DecryptCore(z, s) = DecryptCore(x, s) \otimes DecryptCore(y, s)
  <2>1. /\ EvalMultCore(x, y) \in Elements
        /\ Len(EvalMultCore(x, y)) = Len(x) + Len(y) - 1
        /\ DecryptCore(EvalMultCore(x, y), s) = DecryptCore(x, s) \otimes DecryptCore(y, s)
    BY <1>1, EvalMultCoreDecrypts
  <2> QED BY <2>1
<1> HIDE DEF z
<1>3. z[1] \in Ring /\ z[2] \in Ring /\ z[3] \in Ring
  <2>1. 3 \in 1 .. 4 /\ 3 <= Len(z) BY <1>2
  <2>2. z[3] \in Ring BY <1>2, <2>1, AtOf
  <2> QED BY <1>2, <2>2, ElementsInRing
<1>4. KeyFits(keys[1], Square(s), s) BY DEF KeysFitPowers
<1>5. /\ Absorbed(z, z[3], keys[1]) \in Elements
      /\ DecryptCore(Absorbed(z, z[3], keys[1]), s)
           = (z[1] \oplus (z[2] \otimes s)) \oplus (z[3] \otimes Square(s))
  BY <1>3, <1>4, AbsorbedDecrypts
<1>6. DecryptCore(z, s) = (z[1] \oplus (z[2] \otimes s)) \oplus (z[3] \otimes Square(s))
  BY <1>2, ValueOfShort
<1>7. KeySwitched(z, keys[1]) = Absorbed(z, z[3], keys[1]) BY <1>2 DEF KeySwitched
<1> QED BY <1>2, <1>5, <1>6, <1>7 DEF z

\* An encryption of zero changes nothing.
LEMMA RefreshedDecrypts ==
  ASSUME NEW x \in Elements, Len(x) = 2, NEW zero, NEW s \in Ring, KeyFits(zero, Zero, s)
  PROVE  LET els == <<x[1] \oplus zero.b, x[2] \oplus zero.a>>
         IN  els \in Elements /\ Len(els) = 2 /\ DecryptCore(els, s) = DecryptCore(x, s)
<1> DEFINE p == x[1]
           q == x[2]
           b == zero.b
           a == zero.a
           els == <<p \oplus b, q \oplus a>>
<1>1. p \in Ring /\ q \in Ring /\ b \in Ring /\ a \in Ring BY ElementsInRing DEF KeyFits
<1>2. b \oplus (a \otimes s) = Zero BY DEF KeyFits
<1>3. DecryptCore(x, s) = p \oplus (q \otimes s) BY ValueOfShort
<1> HIDE DEF p, q, b, a
<1>4. p \oplus b \in Ring /\ q \oplus a \in Ring /\ q \otimes s \in Ring /\ a \otimes s \in Ring
  BY <1>1, Closed
<1>5. els \in Elements /\ DecryptCore(els, s) = (p \oplus b) \oplus ((q \oplus a) \otimes s)
  BY <1>4, ValueOfTwo
<1>6. (q \oplus a) \otimes s = (q \otimes s) \oplus (a \otimes s) BY <1>1, Distributes
<1>7. (p \oplus b) \oplus ((q \otimes s) \oplus (a \otimes s))
        = (p \oplus (q \otimes s)) \oplus (b \oplus (a \otimes s))
  BY <1>1, <1>4, Exchange
<1>8. p \oplus (q \otimes s) \in Ring BY <1>1, <1>4, Closed
<1> QED BY <1>2, <1>3, <1>5, <1>6, <1>7, <1>8, AddZero DEF p, q, b, a

\* The operations that need no key.
LEMMA KeylessStepKeepsInv ==
  ASSUME Inv, NEW x \in Tagged, NEW y \in Tagged,
         \/ EvalAdd(x, y) \/ EvalSub(x, y) \/ EvalMultNoRelin(x, y)
         \/ EvalNegate(x) \/ EvalAddPlain(x) \/ EvalSubPlain(x) \/ EvalMultPlain(x)
  PROVE  Inv'
<1> DEFINE s == ideal[x.under]
<1>1. /\ x \in Objects /\ x.els \in Elements /\ x.msg \in Ring /\ s \in Ring
      /\ DecryptCore(x.els, s) = x.msg
  BY ObjectIsRight DEF Tagged
<1>2. /\ y.els \in Elements /\ y.msg \in Ring
      /\ x.tag = y.tag => DecryptCore(y.els, s) = y.msg
  BY ObjectIsRight DEF Tagged
<1>3. Plaintexts \subseteq Ring BY SampleAssumption
<1> HIDE DEF s
<1>4. CASE EvalAdd(x, y)
  <2>1. x.msg \oplus y.msg \in Ring BY <1>1, <1>2, Closed
  <2>2. /\ EvalAddCore(x.els, y.els) \in Elements
        /\ DecryptCore(EvalAddCore(x.els, y.els), s) = x.msg \oplus y.msg
    BY <1>1, <1>2, <1>4, EvalAddCoreDecrypts DEF EvalAdd
  <2> QED BY <1>4, <2>1, <2>2, ResultKeepsInv DEF EvalAdd, s
<1>5. CASE EvalSub(x, y)
  <2>1. x.msg \ominus y.msg \in Ring BY <1>1, <1>2, Closed
  <2>2. /\ EvalSubCore(x.els, y.els) \in Elements
        /\ DecryptCore(EvalSubCore(x.els, y.els), s) = x.msg \ominus y.msg
    BY <1>1, <1>2, <1>5, EvalSubCoreDecrypts DEF EvalSub
  <2> QED BY <1>5, <2>1, <2>2, ResultKeepsInv DEF EvalSub, s
<1>6. CASE EvalMultNoRelin(x, y)
  <2>1. x.msg \otimes y.msg \in Ring BY <1>1, <1>2, Closed
  <2>2. /\ EvalMultCore(x.els, y.els) \in Elements
        /\ DecryptCore(EvalMultCore(x.els, y.els), s) = x.msg \otimes y.msg
    <3>1. x.tag = y.tag /\ Len(x.els) + Len(y.els) <= MaxElements + 1
      BY <1>6 DEF EvalMultNoRelin
    <3>2. DecryptCore(EvalMultCore(x.els, y.els), s) = DecryptCore(x.els, s) \otimes DecryptCore(y.els, s)
          /\ EvalMultCore(x.els, y.els) \in Elements
      BY <1>1, <1>2, <3>1, EvalMultCoreDecrypts
    <3> QED BY <1>1, <1>2, <3>1, <3>2
  <2> QED BY <1>6, <2>1, <2>2, ResultKeepsInv DEF EvalMultNoRelin, s
<1>7. CASE EvalNegate(x)
  <2>1. Minus(x.msg) \in Ring BY <1>1, Closed
  <2>2. Negated(x.els) \in Elements /\ DecryptCore(Negated(x.els), s) = Minus(x.msg)
    BY <1>1, NegatedDecrypts
  <2> QED BY <1>7, <2>1, <2>2, ResultKeepsInv DEF EvalNegate, s
<1>8. ASSUME NEW p \in Ring, Result(x, Shifted(x.els, p), x.msg \oplus p) PROVE Inv'
  <2>1. x.msg \oplus p \in Ring BY <1>1, Closed
  <2>2. Shifted(x.els, p) \in Elements /\ DecryptCore(Shifted(x.els, p), s) = x.msg \oplus p
    BY <1>1, ShiftedDecrypts
  <2> QED BY <1>8, <2>1, <2>2, ResultKeepsInv DEF s
<1>9. CASE EvalAddPlain(x) BY <1>3, <1>8, <1>9 DEF EvalAddPlain
<1>10. CASE EvalSubPlain(x)
  <2>1. PICK p \in Plaintexts : Result(x, Shifted(x.els, Minus(p)), x.msg \ominus p)
    BY <1>10 DEF EvalSubPlain
  <2>2. x.msg \ominus p = x.msg \oplus Minus(p) BY DEF \ominus, \oplus
  <2>3. Minus(p) \in Ring BY <1>3, Closed
  <2> QED BY <1>8, <2>1, <2>2, <2>3
<1>11. CASE EvalMultPlain(x)
  <2>1. PICK p \in Plaintexts : Result(x, Scaled(x.els, p), x.msg \otimes p)
    BY <1>11 DEF EvalMultPlain
  <2>2. p \in Ring /\ x.msg \otimes p \in Ring BY <1>1, <1>3, Closed
  <2>3. Scaled(x.els, p) \in Elements /\ DecryptCore(Scaled(x.els, p), s) = x.msg \otimes p
    BY <1>1, <2>2, ScaledDecrypts
  <2> QED BY <2>1, <2>2, <2>3, ResultKeepsInv DEF s
<1> QED BY <1>4, <1>5, <1>6, <1>7, <1>9, <1>10, <1>11

\* The operations whose key is filed under the tag, for pairs of one party.
LEMMA KeyedStepKeepsInv ==
  ASSUME Inv, NEW x \in Own, NEW y \in Own,
         \/ x \in Linear /\ y \in Linear /\ (EvalMult(x, y) \/ ComposedEvalMult(x, y))
         \/ EvalMultAndRelinearize(x, y)
         \/ Relinearize(x)
  PROVE  Inv'
<1> DEFINE s == ideal[x.under]
           keys == multKeys[x.tag]
<1>1. /\ x \in Tagged /\ x.els \in Elements /\ x.msg \in Ring /\ s \in Ring
      /\ DecryptCore(x.els, s) = x.msg
  BY OwnIsRight, ObjectIsRight DEF Own
<1>2. y.els \in Elements /\ y.msg \in Ring /\ (x.tag = y.tag => DecryptCore(y.els, s) = y.msg)
  BY OwnIsRight, ObjectIsRight
<1>3. KeysFitPowers(keys, Len(keys), s) /\ Len(keys) \in Nat BY OwnIsRight
<1>4. x.msg \otimes y.msg \in Ring BY <1>1, <1>2, Closed
<1>5. keys # <<>> => KeysFitPowers(keys, 1, s)
  <2>1. keys \in Seq(Pairs) BY OwnIsRight
  <2>2. keys # <<>> => Len(keys) >= 1 BY <2>1
  <2> QED BY <1>3, <2>2 DEF KeysFitPowers
<1> DEFINE z == EvalMultCore(x.els, y.els)
<1>6. CASE x \in Linear /\ y \in Linear /\ (EvalMult(x, y) \/ ComposedEvalMult(x, y))
  <2>1. x.tag = y.tag /\ keys # <<>> /\ Len(x.els) = 2 /\ Len(y.els) = 2
    BY <1>6 DEF EvalMult, ComposedEvalMult, Linear
  <2>2. /\ KeySwitched(z, keys[1]) = Absorbed(z, z[3], keys[1])
        /\ Absorbed(z, z[3], keys[1]) \in Elements
        /\ DecryptCore(Absorbed(z, z[3], keys[1]), s) = DecryptCore(x.els, s) \otimes DecryptCore(y.els, s)
    <3> HIDE DEF s, keys
    <3> QED BY <1>1, <1>2, <1>5, <2>1, ProductDecrypts
  <2>3. Result(x, Absorbed(z, z[3], keys[1]), x.msg \otimes y.msg)
    <3>1. CASE EvalMult(x, y) BY <3>1 DEF EvalMult
    <3>2. CASE ComposedEvalMult(x, y) BY <2>2, <3>2 DEF ComposedEvalMult
    <3> QED BY <1>6, <3>1, <3>2
  <2>4. DecryptCore(Absorbed(z, z[3], keys[1]), s) = x.msg \otimes y.msg BY <1>1, <1>2, <2>1, <2>2
  <2> HIDE DEF z, keys
  <2> QED BY <1>1, <1>4, <2>2, <2>3, <2>4, ResultKeepsInv
<1>7. CASE EvalMultAndRelinearize(x, y)
  <2>1. /\ x.tag = y.tag /\ Len(x.els) + Len(y.els) <= MaxElements + 1
        /\ Len(keys) >= Len(x.els) + Len(y.els) - 3
        /\ Result(x, Relinearized(z, keys), x.msg \otimes y.msg)
    BY <1>7 DEF EvalMultAndRelinearize
  <2>2. /\ z \in Elements /\ Len(z) = Len(x.els) + Len(y.els) - 1
        /\ DecryptCore(z, s) = DecryptCore(x.els, s) \otimes DecryptCore(y.els, s)
    <3> HIDE DEF s
    <3> QED BY <1>1, <1>2, <2>1, EvalMultCoreDecrypts
  <2>3. Len(keys) >= Len(z) - 2
    <3>1. Len(x.els) \in 2 .. 4 /\ Len(y.els) \in 2 .. 4 BY <1>1, <1>2, ElementsInRing
    <3> DEFINE a == Len(x.els)
               b == Len(y.els)
               c == Len(keys)
    <3>2. a \in Int /\ b \in Int BY <3>1
    <3>3. c \in Int BY <1>3
    <3>4. Len(z) = a + b - 1 BY <2>2
    <3>5. c >= a + b - 3 BY <2>1
    <3> HIDE DEF a, b, c, z
    <3>6. c >= Len(z) - 2 BY <3>2, <3>3, <3>4, <3>5
    <3> QED BY <3>6 DEF c
  <2> HIDE DEF z, keys
  <2>4. /\ Relinearized(z, keys) \in Elements
        /\ DecryptCore(Relinearized(z, keys), s) = DecryptCore(z, s)
    BY <1>1, <1>3, <2>2, <2>3, RelinearizedDecrypts
  <2>5. DecryptCore(Relinearized(z, keys), s) = x.msg \otimes y.msg BY <1>1, <1>2, <2>1, <2>2, <2>4
  <2> QED BY <1>1, <1>4, <2>1, <2>4, <2>5, ResultKeepsInv
<1>8. CASE Relinearize(x)
  <2>1. Len(keys) >= Len(x.els) - 2 /\ Result(x, Relinearized(x.els, keys), x.msg)
    BY <1>8 DEF Relinearize
  <2> HIDE DEF keys
  <2>2. /\ Relinearized(x.els, keys) \in Elements
        /\ DecryptCore(Relinearized(x.els, keys), s) = DecryptCore(x.els, s)
    BY <1>1, <1>3, <2>1, RelinearizedDecrypts
  <2> QED BY <1>1, <2>1, <2>2, ResultKeepsInv
<1> QED BY <1>6, <1>7, <1>8

LEMMA EvalAutomorphismKeepsInv ==
  ASSUME Inv, NEW x \in Own \cap Linear, NEW i \in Indices, EvalAutomorphism(x, i)
  PROVE  Inv'
<1> DEFINE s == ideal[x.under]
           key == autoKeys[x.tag][i]
<1>1. x \in Own /\ x \in Tagged /\ Len(x.els) = 2 BY DEF Own, Linear
<1>2. x.tag \in Tags /\ x.tag = x.under /\ privateKey[x.tag] = s
  BY <1>1, OwnIsRight, ObjectIsRight
<1>3. x.els \in Elements /\ x.msg \in Ring /\ s \in Ring /\ DecryptCore(x.els, s) = x.msg
  BY <1>1, OwnIsRight, ObjectIsRight
<1>4. key # NoPair /\ Result(x, Rotated(x.els, i, key), Sigma(i, x.msg)) BY DEF EvalAutomorphism
<1>5. KeyFits(key, s, Permuted(s, i)) BY <1>2, <1>4 DEF Inv, AutoKeysFit
<1> HIDE DEF key
<1>6. /\ Rotated(x.els, i, key) \in Elements
      /\ DecryptCore(Rotated(x.els, i, key), s) = Sigma(i, x.msg)
  <2> HIDE DEF s
  <2> QED BY <1>1, <1>3, <1>5, RotatedDecrypts
<1>7. Sigma(i, x.msg) \in Ring BY <1>3, SigmaInRing
<1> QED BY <1>1, <1>4, <1>6, <1>7, ResultKeepsInv

\* A switched ciphertext is under the key that the switch key leads to.
LEMMA SwitchedStepKeepsInv ==
  ASSUME Inv, NEW x \in Own \cap Linear, NEW k \in switchKeys, KeySwitch(x, k) \/ ReEncrypt(x, k)
  PROVE  Inv'
<1>1. x \in Own /\ Len(x.els) = 2 BY DEF Own, Linear
<1>2. x.tag \in Tags /\ x.tag = x.under /\ x.els \in Elements /\ x.msg \in Ring
  BY <1>1, OwnIsRight, ObjectIsRight
<1>3. k.old = x.tag BY DEF KeySwitch, ReEncrypt
<1>4. /\ k.new \in Tags /\ ideal[k.new] # NULL
      /\ KeyFits(k, ideal[x.tag], ideal[k.new])
  BY <1>3 DEF Inv, SwitchKeysFit, TypeOK, SwitchKeys
<1>5. /\ ideal[x.tag] \in Ring /\ ideal[x.tag] # NULL /\ ideal[k.new] \in Ring
      /\ DecryptCore(x.els, ideal[x.tag]) = x.msg
      /\ KeyFits(publicKey[x.tag], Zero, ideal[x.tag])
  <2>1. /\ ideal[x.tag] \in Ring /\ ideal[x.tag] # NULL
        /\ DecryptCore(x.els, ideal[x.tag]) = x.msg
    BY <1>1, <1>2, OwnIsRight, ObjectIsRight
  <2> QED BY <1>2, <1>4, <2>1 DEF Inv, TypeOK, PublicKeysFit
<1>6. ASSUME NEW els \in Elements, Len(els) = 2, DecryptCore(els, ideal[x.tag]) = x.msg
      PROVE  /\ KeySwitched(els, k) \in Elements
             /\ DecryptCore(KeySwitched(els, k), ideal[k.new]) = x.msg
  BY <1>4, <1>5, <1>6, KeySwitchedDecrypts
<1>7. CASE KeySwitch(x, k)
  <2>1. NewObject(KeySwitched(x.els, k), x.tag, k.new, TRUE, x.msg) BY <1>7 DEF KeySwitch
  <2> QED BY <1>1, <1>2, <1>4, <1>5, <1>6, <2>1, NewObjectKeepsInv
<1>8. ASSUME NEW els \in Elements, Len(els) = 2, DecryptCore(els, ideal[x.tag]) = x.msg,
             NewObject(KeySwitched(els, k), ReEncryptedTag(x, k), k.new, FALSE, x.msg)
      PROVE  Inv'
  <2>1. ReEncryptedTag(x, k) = k.new BY DEF ReEncryptedTag
  <2>2. KeySwitched(els, k) \in Elements /\ DecryptCore(KeySwitched(els, k), ideal[k.new]) = x.msg
    BY <1>6, <1>8
  <2> QED BY <1>2, <1>4, <1>8, <2>1, <2>2, NewObjectKeepsInv
<1>9. ASSUME NEW v \in Masks,
             LET zero == ZeroUnderPublic(publicKey[x.tag], v)
                 els == <<x.els[1] \oplus zero.b, x.els[2] \oplus zero.a>>
             IN  NewObject(KeySwitched(els, k), ReEncryptedTag(x, k), k.new, FALSE, x.msg)
      PROVE  Inv'
  <2> DEFINE zero == ZeroUnderPublic(publicKey[x.tag], v)
             els == <<x.els[1] \oplus zero.b, x.els[2] \oplus zero.a>>
  <2>1. v \in Ring BY SampleAssumption
  <2>2. KeyFits(zero, Zero, ideal[x.tag]) BY <1>5, <2>1, ZeroUnderPublicFits
  <2>3. NewObject(KeySwitched(els, k), ReEncryptedTag(x, k), k.new, FALSE, x.msg) BY <1>9
  <2> HIDE DEF zero
  <2>4. els \in Elements /\ Len(els) = 2 /\ DecryptCore(els, ideal[x.tag]) = x.msg
    BY <1>1, <1>2, <1>5, <2>2, RefreshedDecrypts
  <2> HIDE DEF els
  <2> QED BY <1>8, <2>3, <2>4
<1>10. CASE ReEncrypt(x, k) BY <1>1, <1>2, <1>5, <1>8, <1>9, <1>10 DEF ReEncrypt
<1> QED BY <1>7, <1>10

LEMMA EvalStepKeepsInv ==
  ASSUME Inv, EvalStep
  PROVE  Inv'
<1>1. CASE \E x, y \in Tagged : EvalAdd(x, y) \/ EvalSub(x, y) \/ EvalMultNoRelin(x, y)
  BY <1>1, KeylessStepKeepsInv
<1>2. CASE \E x \in Tagged : EvalNegate(x) \/ EvalAddPlain(x) \/ EvalSubPlain(x) \/ EvalMultPlain(x)
  BY <1>2, KeylessStepKeepsInv
<1>3. CASE \E x, y \in Own \cap Linear : EvalMult(x, y) \/ ComposedEvalMult(x, y)
  BY <1>3, KeyedStepKeepsInv
<1>4. CASE \E x, y \in Own : EvalMultAndRelinearize(x, y) BY <1>4, KeyedStepKeepsInv
<1>5. CASE \E x \in Own : Relinearize(x) BY <1>5, KeyedStepKeepsInv
<1>6. CASE \E x \in Own \cap Linear :
             \/ \E i \in Indices : EvalAutomorphism(x, i)
             \/ \E k \in switchKeys : KeySwitch(x, k) \/ ReEncrypt(x, k)
  BY <1>6, EvalAutomorphismKeepsInv, SwitchedStepKeepsInv
<1> QED BY <1>1, <1>2, <1>3, <1>4, <1>5, <1>6 DEF EvalStep

-----------------------------------------------------------------------------
LEMMA NextInv == Inv /\ [Next]_vars => Inv'
<1> SUFFICES ASSUME Inv, [Next]_vars PROVE Inv'
  OBVIOUS
<1>1. CASE Next
  BY <1>1, KeyPairStepKeepsInv, EvalKeyStepKeepsInv, EncryptStepKeepsInv, EvalStepKeepsInv DEF Next
<1>2. CASE UNCHANGED vars
  <2>1. /\ privateKey' = privateKey /\ publicKey' = publicKey /\ ideal' = ideal /\ members' = members
        /\ multKeys' = multKeys /\ autoKeys' = autoKeys /\ switchKeys' = switchKeys
        /\ objects' = objects
    BY <1>2 DEF vars
  <2> QED BY <2>1 DEF Inv, TypeOK, PublicKeysFit, PairsAreMade, MultKeysFit, AutoKeysFit,
                      SwitchKeysFit, ObjectsAreRight, Alone
<1> QED BY <1>1, <1>2

THEOREM Invariance == Spec => []Inv
<1> QED BY InitInv, NextInv, PTL DEF Spec

LEMMA InvImplies == Inv => TypeOK /\ DecryptsToMessage /\ TagsAreTrue
BY ObjectIsRight DEF Inv, DecryptsToMessage, TagsAreTrue

\* Keys, maps and ciphertexts keep their types whatever the ring and the samples are.
THEOREM TypeCorrectness == Spec => []TypeOK
<1> QED BY Invariance, InvImplies, PTL

(***************************************************************************)
(* What a program computes on ciphertexts, with keys of one party or of    *)
(* several, is what it would compute on the messages.                      *)
(***************************************************************************)
THEOREM DecryptionIsRight == Spec => []DecryptsToMessage
<1> QED BY Invariance, InvImplies, PTL

(***************************************************************************)
(* The tag by which a ciphertext's keys are looked up is that of the key   *)
(* it is under, re-encryption included and KeySwitch excepted.             *)
(***************************************************************************)
THEOREM TagsNameTheKey == Spec => []TagsAreTrue
<1> QED BY Invariance, InvImplies, PTL

-----------------------------------------------------------------------------
(***************************************************************************)
(* Threshold decryption.  The parts of the parties are added by            *)
(* MapThenFoldSet over a set of parties; what it computes for every finite *)
(* set follows from the least element of a set of numbers.                 *)
(***************************************************************************)

\* A set of natural numbers has a least element.
LEMMA LeastNumber ==
  ASSUME NEW S, S \subseteq Nat, S # {}
  PROVE  \E x \in S : \A y \in S : x <= y
<1> DEFINE R == OpToRel(<, Nat)
<1>1. IsWellFoundedOn(R, Nat) BY NatLessThanWellFounded
<1>2. PICK x \in S : \A y \in S : ~ (<<y, x>> \in R)
  <2> HIDE DEF R
  <2> QED BY <1>1, WFMin
<1>3. \A y \in S : x <= y
  <2> SUFFICES ASSUME NEW y \in S, ~ (x <= y) PROVE FALSE
    OBVIOUS
  <2>1. y \in Nat /\ x \in Nat /\ y < x OBVIOUS
  <2>2. <<y, x>> \in R BY <2>1 DEF OpToRel
  <2> QED BY <2>2, <1>2
<1> QED BY <1>3

\* Among subsets of a finite set there is one from which no element can be removed.
LEMMA SmallestSet ==
  ASSUME NEW S, IsFiniteSet(S), NEW B, B \subseteq SUBSET S, B # {}
  PROVE  \E s \in B : \A x \in s : s \ {x} \notin B
<1> DEFINE Sizes == {Cardinality(s) : s \in B}
<1>1. \A s \in B : IsFiniteSet(s) /\ Cardinality(s) \in Nat BY FS_Subset, FS_CardinalityType
<1>2. Sizes \subseteq Nat /\ Sizes # {} BY <1>1
<1>3. PICK n \in Sizes : \A other \in Sizes : n <= other BY <1>2, LeastNumber
<1>4. PICK s \in B : Cardinality(s) = n BY <1>3
<1>5. ASSUME NEW x \in s, s \ {x} \in B PROVE FALSE
  <2>1. Cardinality(s \ {x}) = n - 1 BY <1>1, <1>4, FS_RemoveElement
  <2>2. n <= n - 1 /\ n \in Nat BY <1>2, <1>3, <1>5, <2>1
  <2> QED BY <2>2
<1> QED BY <1>5

\* The element that a sum takes first.
First(s) == CHOOSE p \in s : TRUE

\* What a sum is, given the sums of smaller sets.
SumOf(part, f, s) == IF s = {} THEN Zero ELSE part[First(s)] \oplus f[s \ {First(s)}]

IsSum(f, part, S) ==
  /\ f = [s \in SUBSET S |-> f[s]]
  /\ \A s \in SUBSET S : f[s] = SumOf(part, f, s)

LEMMA FirstIsIn == \A s : s # {} => First(s) \in s
BY DEF First

\* The sums of the subsets of a finite set exist.
LEMMA SumExists ==
  ASSUME NEW S, IsFiniteSet(S), NEW part
  PROVE  \E f : IsSum(f, part, S)
<1> DEFINE Small(n) == {s \in SUBSET S : Cardinality(s) <= n}
           Sums(f, n) == /\ f = [s \in Small(n) |-> f[s]]
                         /\ \A s \in Small(n) : f[s] = SumOf(part, f, s)
           Missing == {n \in Nat : ~ \E f : Sums(f, n)}
<1>1. \A s \in SUBSET S : IsFiniteSet(s) /\ Cardinality(s) \in Nat BY FS_Subset, FS_CardinalityType
<1>2. Missing = {}
  <2> SUFFICES ASSUME Missing # {} PROVE FALSE
    OBVIOUS
  <2>1. Missing \subseteq Nat OBVIOUS
  <2>2. PICK n \in Missing : \A other \in Missing : n <= other
    <3> HIDE DEF Missing
    <3> QED BY <2>1, LeastNumber
  <2>3. CASE n = 0
    <3> DEFINE f == [s \in Small(0) |-> Zero]
    <3>1. \A s \in Small(0) : s = {} BY <1>1, FS_EmptySet
    <3>2. Sums(f, 0)
      <4>1. \A s \in Small(0) : f[s] = SumOf(part, f, s) BY <3>1 DEF SumOf
      <4> QED BY <4>1
    <3> HIDE DEF f
    <3> QED BY <2>2, <2>3, <3>2
  <2>4. CASE n # 0
    <3>1. n \in Nat /\ n - 1 \in Nat /\ n - 1 \notin Missing
      <4>1. n \in Nat /\ n - 1 \in Nat BY <2>2, <2>4
      <4> HIDE DEF Missing
      <4> QED BY <2>2, <4>1
    <3>2. PICK f : Sums(f, n - 1) BY <3>1
    <3> DEFINE g == [s \in Small(n) |-> IF s \in Small(n - 1) THEN f[s] ELSE SumOf(part, f, s)]
    <3>3. \A s \in Small(n - 1) : s \in Small(n) BY <1>1, <3>1
    <3>4. \A s \in Small(n - 1) : g[s] = f[s] BY <3>3
    <3>5. \A s \in Small(n) : s # {} => s \ {First(s)} \in Small(n - 1)
      <4> SUFFICES ASSUME NEW s \in Small(n), s # {} PROVE s \ {First(s)} \in Small(n - 1)
        OBVIOUS
      <4>1. First(s) \in s BY FirstIsIn
      <4>2. Cardinality(s \ {First(s)}) = Cardinality(s) - 1 BY <1>1, <4>1, FS_RemoveElement
      <4> QED BY <1>1, <3>1, <4>2
    <3>6. \A s \in Small(n) : g[s] = SumOf(part, f, s)
      <4> SUFFICES ASSUME NEW s \in Small(n) PROVE g[s] = SumOf(part, f, s)
        OBVIOUS
      <4>1. CASE s \in Small(n - 1) BY <3>2, <3>4, <4>1
      <4>2. CASE s \notin Small(n - 1) BY <4>2
      <4> QED BY <4>1, <4>2
    <3>7. g = [s \in Small(n) |-> g[s]] OBVIOUS
    <3> HIDE DEF g, Small
    <3>8. \A s \in Small(n) : SumOf(part, f, s) = SumOf(part, g, s) BY <3>4, <3>5 DEF SumOf
    <3>9. Sums(g, n) BY <3>6, <3>7, <3>8
    <3> QED BY <2>2, <3>9
  <2> QED BY <2>3, <2>4
<1>3. Cardinality(S) \in Nat BY FS_CardinalityType
<1>4. PICK f : Sums(f, Cardinality(S)) BY <1>2, <1>3
<1>5. Small(Cardinality(S)) = SUBSET S BY <1>1, FS_Subset
<1> HIDE DEF Small
<1>6. IsSum(f, part, S) BY <1>4, <1>5 DEF IsSum
<1> QED BY <1>6

\* They are determined by the parts.
LEMMA SumIsUnique ==
  ASSUME NEW S, IsFiniteSet(S), NEW part, NEW T, T \subseteq S, NEW f, NEW g,
         IsSum(f, part, S), IsSum(g, part, T)
  PROVE  \A s \in SUBSET T : f[s] = g[s]
<1> DEFINE B == {s \in SUBSET T : f[s] # g[s]}
<1> SUFFICES ASSUME B # {} PROVE FALSE
  OBVIOUS
<1>1. B \subseteq SUBSET S OBVIOUS
<1>2. PICK s \in B : \A x \in s : s \ {x} \notin B
  <2> HIDE DEF B
  <2> QED BY <1>1, SmallestSet
<1>3. f[s] = SumOf(part, f, s) /\ g[s] = SumOf(part, g, s) BY DEF IsSum
<1>4. s # {} BY <1>3 DEF SumOf
<1>5. First(s) \in s /\ s \ {First(s)} \in SUBSET T BY <1>4, FirstIsIn
<1>6. f[s \ {First(s)}] = g[s \ {First(s)}] BY <1>2, <1>5
<1> QED BY <1>2, <1>3, <1>4, <1>6 DEF SumOf

LEMMA FusionIsSum ==
  ASSUME NEW S, IsFiniteSet(S), NEW part
  PROVE  \E f : IsSum(f, part, S) /\ Fusion(S, part) = f[S]
<1> DEFINE Body(h) == [s \in SUBSET S |-> IF s = {} THEN Zero
                                          ELSE part[First(s)] \oplus h[s \ {First(s)}]]
           f == CHOOSE h : h = Body(h)
<1>1. Fusion(S, part) = f[S] BY DEF Fusion, MapThenFoldSet, First, \oplus
<1>2. PICK h : IsSum(h, part, S) BY SumExists
<1>3. h = Body(h) BY <1>2 DEF IsSum, SumOf
<1>4. f = Body(f) BY <1>3
<1> HIDE DEF f
<1>5. IsSum(f, part, S) BY <1>4 DEF IsSum, SumOf
<1> QED BY <1>1, <1>5

\* A sum begins with any of its parts that First chooses.
LEMMA FusionUnfolds ==
  ASSUME NEW S, IsFiniteSet(S), NEW part
  PROVE  /\ S = {} => Fusion(S, part) = Zero
         /\ S # {} => /\ First(S) \in S
                      /\ Fusion(S, part) = part[First(S)] \oplus Fusion(S \ {First(S)}, part)
<1>1. PICK f : IsSum(f, part, S) /\ Fusion(S, part) = f[S] BY FusionIsSum
<1>2. f[S] = SumOf(part, f, S) BY <1>1 DEF IsSum
<1>3. CASE S = {} BY <1>1, <1>2, <1>3 DEF SumOf
<1>4. CASE S # {}
  <2> DEFINE T == S \ {First(S)}
  <2>1. First(S) \in S BY <1>4, FirstIsIn
  <2>2. IsFiniteSet(T) BY FS_RemoveElement
  <2>3. PICK g : IsSum(g, part, T) /\ Fusion(T, part) = g[T] BY <2>2, FusionIsSum
  <2>4. f[T] = g[T] BY <1>1, <2>3, SumIsUnique
  <2> QED BY <1>1, <1>2, <1>4, <2>1, <2>3, <2>4 DEF SumOf
<1> QED BY <1>3, <1>4

LEMMA AddSwap == \A x, y, z \in Ring : x \oplus (y \oplus z) = y \oplus (x \oplus z)
<1> SUFFICES ASSUME NEW x \in Ring, NEW y \in Ring, NEW z \in Ring
             PROVE  x \oplus (y \oplus z) = y \oplus (x \oplus z)
  OBVIOUS
<1>1. x \oplus (y \oplus z) = (x \oplus y) \oplus z BY AddAssoc
<1>2. y \oplus (x \oplus z) = (y \oplus x) \oplus z BY AddAssoc
<1>3. x \oplus y = y \oplus x BY AddComm
<1> QED BY <1>1, <1>2, <1>3

\* A finite sum of ring elements is in the ring.
LEMMA FusionInRing ==
  ASSUME NEW S, IsFiniteSet(S), NEW part, \A p \in S : part[p] \in Ring
  PROVE  Fusion(S, part) \in Ring
<1> DEFINE B == {s \in SUBSET S : Fusion(s, part) \notin Ring}
<1> SUFFICES ASSUME B # {} PROVE FALSE
  OBVIOUS
<1>1. PICK s \in B : \A x \in s : s \ {x} \notin B
  <2>1. B \subseteq SUBSET S OBVIOUS
  <2> HIDE DEF B
  <2> QED BY <2>1, SmallestSet
<1>2. IsFiniteSet(s) BY FS_Subset
<1>3. s # {} BY <1>2, FusionUnfolds, Closed
<1>4. First(s) \in s /\ Fusion(s, part) = part[First(s)] \oplus Fusion(s \ {First(s)}, part)
  BY <1>2, <1>3, FusionUnfolds
<1>5. Fusion(s \ {First(s)}, part) \in Ring BY <1>1, <1>4
<1>6. part[First(s)] \in Ring BY <1>4
<1> QED BY <1>1, <1>4, <1>5, <1>6, Closed

\* Any part can be taken out of a sum.
LEMMA FusionTakesOut ==
  ASSUME NEW S, IsFiniteSet(S), NEW part, \A p \in S : part[p] \in Ring, NEW x \in S
  PROVE  Fusion(S, part) = part[x] \oplus Fusion(S \ {x}, part)
<1> DEFINE B == {s \in SUBSET S : \E y \in s : Fusion(s, part) # part[y] \oplus Fusion(s \ {y}, part)}
<1> SUFFICES ASSUME B # {} PROVE FALSE
  OBVIOUS
<1>1. PICK s \in B : \A y \in s : s \ {y} \notin B
  <2>1. B \subseteq SUBSET S OBVIOUS
  <2> HIDE DEF B
  <2> QED BY <2>1, SmallestSet
<1>2. PICK y \in s : Fusion(s, part) # part[y] \oplus Fusion(s \ {y}, part) BY <1>1
<1> DEFINE z == First(s)
           rest == (s \ {y}) \ {z}
<1>3. IsFiniteSet(s) /\ IsFiniteSet(s \ {y}) /\ IsFiniteSet(rest) BY FS_Subset, FS_RemoveElement
<1>4. z \in s /\ Fusion(s, part) = part[z] \oplus Fusion(s \ {z}, part)
  BY <1>2, <1>3, FusionUnfolds
<1> HIDE DEF z
<1>5. y # z BY <1>2, <1>4
<1>6. s \ {y} \notin B /\ s \ {z} \notin B BY <1>1, <1>2, <1>4
<1>7. Fusion(s \ {y}, part) = part[z] \oplus Fusion(rest, part) BY <1>4, <1>5, <1>6
<1>8. Fusion(s \ {z}, part) = part[y] \oplus Fusion(rest, part)
  <2>1. (s \ {z}) \ {y} = rest OBVIOUS
  <2>2. y \in s \ {z} BY <1>2, <1>5
  <2> QED BY <1>6, <2>1, <2>2
<1>9. part[y] \in Ring /\ part[z] \in Ring /\ Fusion(rest, part) \in Ring
  <2>1. \A p \in rest : part[p] \in Ring OBVIOUS
  <2> QED BY <1>2, <1>3, <1>4, <2>1, FusionInRing
<1> HIDE DEF rest
<1>10. part[z] \oplus (part[y] \oplus Fusion(rest, part))
         = part[y] \oplus (part[z] \oplus Fusion(rest, part))
  BY <1>9, AddSwap
<1> QED BY <1>2, <1>4, <1>7, <1>8, <1>10

\* A sum depends on its parts only.
LEMMA FusionOfSameParts ==
  ASSUME NEW S, IsFiniteSet(S), NEW f, NEW g, \A p \in S : f[p] = g[p]
  PROVE  Fusion(S, f) = Fusion(S, g)
<1> DEFINE B == {s \in SUBSET S : Fusion(s, f) # Fusion(s, g)}
<1> SUFFICES ASSUME B # {} PROVE FALSE
  OBVIOUS
<1>1. PICK s \in B : \A x \in s : s \ {x} \notin B
  <2>1. B \subseteq SUBSET S OBVIOUS
  <2> HIDE DEF B
  <2> QED BY <2>1, SmallestSet
<1>2. IsFiniteSet(s) BY FS_Subset
<1>3. s # {} BY <1>1, <1>2, FusionUnfolds
<1>4. /\ First(s) \in s
      /\ Fusion(s, f) = f[First(s)] \oplus Fusion(s \ {First(s)}, f)
      /\ Fusion(s, g) = g[First(s)] \oplus Fusion(s \ {First(s)}, g)
  BY <1>2, <1>3, FusionUnfolds
<1>5. Fusion(s \ {First(s)}, f) = Fusion(s \ {First(s)}, g) BY <1>1, <1>4
<1>6. f[First(s)] = g[First(s)] BY <1>4
<1> QED BY <1>1, <1>4, <1>5, <1>6

\* The sum of one part, and of one more part.
LEMMA FusionOfOne ==
  ASSUME NEW x, NEW part, part[x] \in Ring
  PROVE  Fusion({x}, part) = part[x]
<1>1. IsFiniteSet({x}) /\ IsFiniteSet({}) BY FS_Singleton, FS_EmptySet
<1>2. Fusion({}, part) = Zero BY <1>1, FusionUnfolds
<1>3. {x} \ {x} = {} OBVIOUS
<1>4. Fusion({x}, part) = part[x] \oplus Fusion({}, part)
  <2>1. \A p \in {x} : part[p] \in Ring OBVIOUS
  <2> QED BY <1>1, <1>3, <2>1, FusionTakesOut
<1> QED BY <1>2, <1>4, AddZero

LEMMA FusionAddsOne ==
  ASSUME NEW S, IsFiniteSet(S), NEW x, x \notin S, NEW part, \A p \in S \cup {x} : part[p] \in Ring
  PROVE  Fusion(S \cup {x}, part) = part[x] \oplus Fusion(S, part)
<1>1. IsFiniteSet(S \cup {x}) BY FS_AddElement
<1>2. (S \cup {x}) \ {x} = S OBVIOUS
<1> QED BY <1>1, <1>2, FusionTakesOut

\* The sum over two sets of parties that have none in common.
LEMMA FusionOfUnion ==
  ASSUME NEW S, IsFiniteSet(S), NEW T, IsFiniteSet(T), S \cap T = {}, NEW part,
         \A p \in S \cup T : part[p] \in Ring
  PROVE  IsFiniteSet(S \cup T) /\ Fusion(S \cup T, part) = Fusion(S, part) \oplus Fusion(T, part)
<1> DEFINE Right(s) == /\ IsFiniteSet(S \cup s)
                       /\ Fusion(S \cup s, part) = Fusion(S, part) \oplus Fusion(s, part)
           B == {s \in SUBSET T : ~ Right(s)}
<1> SUFFICES ASSUME B # {} PROVE FALSE
  OBVIOUS
<1>1. PICK s \in B : \A x \in s : s \ {x} \notin B
  <2>1. B \subseteq SUBSET T OBVIOUS
  <2> HIDE DEF B
  <2> QED BY <2>1, SmallestSet
<1>2. IsFiniteSet(s) BY FS_Subset
<1>3. Fusion(S, part) \in Ring BY FusionInRing
<1>4. s # {}
  <2> SUFFICES ASSUME s = {} PROVE FALSE
    OBVIOUS
  <2>1. Fusion(s, part) = Zero /\ S \cup s = S BY <1>2, FusionUnfolds
  <2> QED BY <1>1, <1>3, <2>1, AddZero
<1>5. PICK x \in s : TRUE BY <1>4
<1> DEFINE rest == s \ {x}
<1>6. Right(rest) BY <1>1, <1>5
<1>7. IsFiniteSet(rest) /\ (\A p \in rest : part[p] \in Ring) BY <1>2, FS_RemoveElement
<1>8. x \notin S \cup rest /\ (S \cup rest) \cup {x} = S \cup s /\ part[x] \in Ring BY <1>5
<1>9. Fusion(S \cup s, part) = part[x] \oplus Fusion(S \cup rest, part)
  <2>1. \A p \in (S \cup rest) \cup {x} : part[p] \in Ring OBVIOUS
  <2> HIDE DEF rest
  <2> QED BY <1>6, <1>8, <2>1, FusionAddsOne
<1>10. Fusion(s, part) = part[x] \oplus Fusion(rest, part)
  <2>1. \A p \in s : part[p] \in Ring OBVIOUS
  <2> QED BY <1>2, <1>5, <2>1, FusionTakesOut
<1>11. IsFiniteSet(S \cup s)
  <2> HIDE DEF rest
  <2> QED BY <1>6, <1>8, FS_AddElement
<1>12. Fusion(rest, part) \in Ring
  <2> HIDE DEF rest
  <2> QED BY <1>7, FusionInRing
<1> HIDE DEF rest
<1>13. part[x] \oplus (Fusion(S, part) \oplus Fusion(rest, part))
         = Fusion(S, part) \oplus (part[x] \oplus Fusion(rest, part))
  BY <1>3, <1>8, <1>12, AddSwap
<1>14. Right(s) BY <1>6, <1>9, <1>10, <1>11, <1>13
<1> QED BY <1>1, <1>14

\* A factor common to the parts can be taken out.
LEMMA FusionScales ==
  ASSUME NEW S, IsFiniteSet(S), NEW part, NEW e \in Ring, NEW scaled,
         \A p \in S : part[p] \in Ring /\ scaled[p] = part[p] \otimes e
  PROVE  Fusion(S, scaled) = Fusion(S, part) \otimes e
<1> DEFINE B == {s \in SUBSET S : Fusion(s, scaled) # Fusion(s, part) \otimes e}
<1> SUFFICES ASSUME B # {} PROVE FALSE
  OBVIOUS
<1>1. PICK s \in B : \A x \in s : s \ {x} \notin B
  <2>1. B \subseteq SUBSET S OBVIOUS
  <2> HIDE DEF B
  <2> QED BY <2>1, SmallestSet
<1>2. IsFiniteSet(s) BY FS_Subset
<1>3. s # {} BY <1>1, <1>2, FusionUnfolds, MultZero
<1> DEFINE x == First(s)
<1>4. /\ x \in s
      /\ Fusion(s, scaled) = scaled[x] \oplus Fusion(s \ {x}, scaled)
      /\ Fusion(s, part) = part[x] \oplus Fusion(s \ {x}, part)
  BY <1>2, <1>3, FusionUnfolds
<1> HIDE DEF x
<1>5. Fusion(s \ {x}, scaled) = Fusion(s \ {x}, part) \otimes e BY <1>1, <1>4
<1>6. part[x] \in Ring /\ scaled[x] = part[x] \otimes e BY <1>4
<1>7. Fusion(s \ {x}, part) \in Ring
  <2>1. IsFiniteSet(s \ {x}) /\ \A p \in s \ {x} : part[p] \in Ring BY <1>2, FS_RemoveElement
  <2> QED BY <2>1, FusionInRing
<1>8. (part[x] \oplus Fusion(s \ {x}, part)) \otimes e
        = (part[x] \otimes e) \oplus (Fusion(s \ {x}, part) \otimes e)
  BY <1>6, <1>7, Distributes
<1> QED BY <1>1, <1>4, <1>5, <1>6, <1>8

-----------------------------------------------------------------------------
(***************************************************************************)
(* The private elements of the parties of a key add up to its ideal one.   *)
(***************************************************************************)
SharesAddUp ==
  \A t \in Tags :
    ideal[t] # NULL =>
      /\ IsFiniteSet(members[t])
      /\ \A p \in members[t] : privateKey[p] \in Ring
      /\ Fusion(members[t], privateKey) = ideal[t]

\* A new pair disturbs no earlier one: it is a party of none of them.
LEMMA NewKeyPairAddsUp ==
  ASSUME Inv, SharesAddUp, NEW t \in Tags, NEW s, NEW pk, NEW joint,
         NEW parties \in SUBSET Tags, NewKeyPair(t, s, pk, joint, parties),
         IsFiniteSet(parties),
         \A p \in parties : (p # t => privateKey[p] \in Ring) /\ (p = t => s \in Ring),
         NEW shares, \A p \in parties : shares[p] = IF p = t THEN s ELSE privateKey[p],
         Fusion(parties, shares) = joint
  PROVE  SharesAddUp'
<1>1. TypeOK /\ PairsAreMade BY DEF Inv
<1>2. /\ ideal[t] = NULL
      /\ privateKey'[t] = s /\ ideal'[t] = joint /\ members'[t] = parties
      /\ \A u \in Tags : u # t => /\ privateKey'[u] = privateKey[u]
                                  /\ ideal'[u] = ideal[u] /\ members'[u] = members[u]
  BY <1>1 DEF NewKeyPair, TypeOK
<1> SUFFICES ASSUME NEW u \in Tags, ideal'[u] # NULL
             PROVE  /\ IsFiniteSet(members'[u])
                    /\ \A p \in members'[u] : privateKey'[p] \in Ring
                    /\ Fusion(members'[u], privateKey') = ideal'[u]
  BY DEF SharesAddUp
<1>3. CASE u = t
  <2>1. \A p \in parties : privateKey'[p] = shares[p] /\ privateKey'[p] \in Ring BY <1>2
  <2>2. Fusion(parties, privateKey') = Fusion(parties, shares) BY <2>1, FusionOfSameParts
  <2> QED BY <1>2, <1>3, <2>1, <2>2
<1>4. CASE u # t
  <2>1. ideal[u] # NULL /\ members'[u] = members[u] /\ ideal'[u] = ideal[u] BY <1>2, <1>4
  <2>2. \A p \in members[u] : p \in Tags /\ p # t BY <1>1, <1>2 DEF TypeOK, PairsAreMade
  <2>3. /\ IsFiniteSet(members[u]) /\ Fusion(members[u], privateKey) = ideal[u]
        /\ \A p \in members[u] : privateKey[p] \in Ring
    BY <2>1 DEF SharesAddUp
  <2>4. \A p \in members[u] : privateKey'[p] = privateKey[p] BY <1>2, <2>2
  <2>5. Fusion(members[u], privateKey') = Fusion(members[u], privateKey)
    BY <2>3, <2>4, FusionOfSameParts
  <2> QED BY <2>1, <2>3, <2>4, <2>5
<1> QED BY <1>3, <1>4

\* A pair of one party, whichever of the key generations makes it.
LEMMA OwnPairAddsUp ==
  ASSUME Inv, SharesAddUp, NEW t \in Tags, NEW s \in Ring, NEW pk,
         NewKeyPair(t, s, pk, s, {t})
  PROVE  SharesAddUp'
<1> DEFINE shares == [p \in {t} |-> s]
<1>1. Fusion({t}, shares) = s BY FusionOfOne
<1>2. IsFiniteSet({t}) BY FS_Singleton
<1>3. \A p \in {t} : shares[p] = IF p = t THEN s ELSE privateKey[p] OBVIOUS
<1> HIDE DEF shares
<1> QED BY <1>1, <1>2, <1>3, NewKeyPairAddsUp

LEMMA KeyPairStepAddsUp ==
  ASSUME Inv, SharesAddUp, KeyPairStep
  PROVE  SharesAddUp'
<1>1. TypeOK /\ PairsAreMade BY DEF Inv
<1>2. \A u \in Tags : /\ ideal[u] # NULL => ideal[u] \in Ring
                      /\ privateKey[u] # NULL => privateKey[u] \in Ring
                      /\ members[u] \in SUBSET Tags
  BY <1>1 DEF TypeOK
<1>3. PICK t \in Tags :
        \/ KeyGen(t)
        \/ \E u \in Tags : MultipartyKeyGen(t, u) \/ MultipartyKeyGenFresh(t, u)
        \/ \E u, v \in Tags : MultipartyKeyGenOfShares(t, u, v) \/ MultiAddPubKeys(t, u, v)
  BY DEF KeyPairStep
<1>4. Secrets[t] \subseteq Ring BY SampleAssumption
<1>5. CASE KeyGen(t) BY <1>4, <1>5, OwnPairAddsUp DEF KeyGen
<1>6. ASSUME NEW u \in Tags, MultipartyKeyGenFresh(t, u) PROVE SharesAddUp'
  BY <1>4, <1>6, OwnPairAddsUp DEF MultipartyKeyGenFresh
<1>7. ASSUME NEW u \in Tags, NEW v \in Tags, MultipartyKeyGenOfShares(t, u, v) PROVE SharesAddUp'
  <2>1. privateKey[u] \oplus privateKey[v] \in Ring
    BY <1>2, <1>7, Closed DEF MultipartyKeyGenOfShares
  <2> QED BY <1>7, <2>1, OwnPairAddsUp DEF MultipartyKeyGenOfShares
<1>8. ASSUME NEW u \in Tags, MultipartyKeyGen(t, u) PROVE SharesAddUp'
  <2>1. PICK s \in Secrets[t] :
          /\ ideal[u] # NULL
          /\ NewKeyPair(t, s, JoinedKey(publicKey[u], s), ideal[u] \oplus s, members[u] \cup {t})
    BY <1>8 DEF MultipartyKeyGen
  <2>2. /\ IsFiniteSet(members[u]) /\ Fusion(members[u], privateKey) = ideal[u]
        /\ \A p \in members[u] : privateKey[p] \in Ring
    BY <2>1 DEF SharesAddUp
  <2>3. t \notin members[u] /\ members[u] \cup {t} \in SUBSET Tags
    BY <1>1, <1>2, <2>1 DEF NewKeyPair, PairsAreMade
  <2>4. s \in Ring /\ ideal[u] \in Ring BY <1>2, <1>4, <2>1
  <2> DEFINE shares == [p \in Tags |-> IF p = t THEN s ELSE privateKey[p]]
  <2>5. /\ \A p \in members[u] \cup {t} : shares[p] = IF p = t THEN s ELSE privateKey[p]
        /\ \A p \in members[u] \cup {t} : shares[p] \in Ring
        /\ \A p \in members[u] : shares[p] = privateKey[p]
        /\ shares[t] = s
    BY <2>2, <2>3, <2>4
  <2> HIDE DEF shares
  <2>6. Fusion(members[u] \cup {t}, shares) = shares[t] \oplus Fusion(members[u], shares)
    BY <2>2, <2>3, <2>5, FusionAddsOne
  <2>7. Fusion(members[u], shares) = Fusion(members[u], privateKey)
    BY <2>2, <2>5, FusionOfSameParts
  <2>8. Fusion(members[u] \cup {t}, shares) = ideal[u] \oplus s
    BY <2>2, <2>4, <2>5, <2>6, <2>7, AddComm
  <2>9. IsFiniteSet(members[u] \cup {t}) BY <2>2, FS_AddElement
  <2>10. \A p \in members[u] \cup {t} : (p # t => privateKey[p] \in Ring) /\ (p = t => s \in Ring)
    BY <2>2, <2>4
  <2> QED BY <2>1, <2>3, <2>5, <2>8, <2>9, <2>10, NewKeyPairAddsUp
<1>9. ASSUME NEW u \in Tags, NEW v \in Tags, MultiAddPubKeys(t, u, v) PROVE SharesAddUp'
  <2>1. /\ ideal[u] # NULL /\ ideal[v] # NULL /\ members[u] \cap members[v] = {}
        /\ NewKeyPair(t, NULL, AddedPubKeys(publicKey[u], publicKey[v]),
                      ideal[u] \oplus ideal[v], members[u] \cup members[v])
    BY <1>9 DEF MultiAddPubKeys
  <2>2. /\ IsFiniteSet(members[u]) /\ Fusion(members[u], privateKey) = ideal[u]
        /\ IsFiniteSet(members[v]) /\ Fusion(members[v], privateKey) = ideal[v]
        /\ \A p \in members[u] \cup members[v] : privateKey[p] \in Ring
    BY <2>1 DEF SharesAddUp
  <2>3. t \notin members[u] \cup members[v] /\ members[u] \cup members[v] \in SUBSET Tags
    BY <1>1, <1>2, <2>1 DEF NewKeyPair, PairsAreMade
  <2>4. /\ IsFiniteSet(members[u] \cup members[v])
        /\ Fusion(members[u] \cup members[v], privateKey) = ideal[u] \oplus ideal[v]
    BY <2>1, <2>2, FusionOfUnion
  <2>5. \A p \in members[u] \cup members[v] :
          /\ (p # t => privateKey[p] \in Ring) /\ (p = t => NULL \in Ring)
          /\ privateKey[p] = IF p = t THEN NULL ELSE privateKey[p]
    BY <2>2, <2>3
  <2> QED BY <2>1, <2>3, <2>4, <2>5, NewKeyPairAddsUp
<1> QED BY <1>3, <1>5, <1>6, <1>7, <1>8, <1>9

\* Only the generation of key pairs touches the shares.
LEMMA SharesAreInvariant == Inv /\ SharesAddUp /\ [Next]_vars => SharesAddUp'
<1> SUFFICES ASSUME Inv, SharesAddUp, [Next]_vars PROVE SharesAddUp'
  OBVIOUS
<1>1. ASSUME UNCHANGED keyPairs PROVE SharesAddUp'
  BY <1>1 DEF keyPairs, SharesAddUp
<1>2. CASE KeyPairStep BY <1>2, KeyPairStepAddsUp
<1>3. CASE EvalKeyStep
  BY <1>1, <1>3 DEF EvalKeyStep, EvalMultKeyGen, EvalMultKeysGen, EvalAutomorphismKeyGen,
                    KeySwitchGen, ReKeyGen, NewSwitchKey
<1>4. CASE EncryptStep BY <1>1, <1>4 DEF EncryptStep, Encrypt, EncryptPrivate, NewObject
<1>5. CASE EvalStep
  BY <1>1, <1>5 DEF EvalStep, EvalAdd, EvalSub, EvalMultNoRelin, EvalNegate, EvalAddPlain,
                    EvalSubPlain, EvalMultPlain, EvalMult, ComposedEvalMult,
                    EvalMultAndRelinearize, Relinearize, EvalAutomorphism, KeySwitch, ReEncrypt,
                    Result, NewObject
<1>6. CASE UNCHANGED vars BY <1>1, <1>6 DEF vars, keyPairs
<1> QED BY <1>2, <1>3, <1>4, <1>5, <1>6 DEF Next

\* The parts of the parties add up to what the ideal private element decrypts.
LEMMA PartsAddUp ==
  ASSUME NEW M, IsFiniteSet(M), NEW lead \in M, NEW a \in Ring, NEW b \in Ring,
         NEW shares, \A p \in M : shares[p] \in Ring
  PROVE  Fusion(M, [p \in M |-> IF p = lead THEN PartialLead(<<a, b>>, shares[p])
                                            ELSE PartialMain(<<a, b>>, shares[p])])
           = DecryptCore(<<a, b>>, Fusion(M, shares))
<1> DEFINE part == [p \in M |-> IF p = lead THEN PartialLead(<<a, b>>, shares[p])
                                            ELSE PartialMain(<<a, b>>, shares[p])]
           others == M \ {lead}
<1>1. /\ part[lead] = a \oplus (shares[lead] \otimes b)
      /\ \A p \in others : part[p] = shares[p] \otimes b
  BY DEF PartialLead, PartialMain
<1>2. shares[lead] \in Ring /\ shares[lead] \otimes b \in Ring BY Closed
<1>3. \A p \in M : part[p] \in Ring
  BY <1>1, <1>2, Closed
<1> HIDE DEF part
<1>4. Fusion(M, part) = part[lead] \oplus Fusion(others, part) BY <1>3, FusionTakesOut
<1>5. Fusion(M, shares) = shares[lead] \oplus Fusion(others, shares) BY FusionTakesOut
<1>6. IsFiniteSet(others) BY FS_RemoveElement
<1> DEFINE rest == Fusion(others, shares)
<1>7. rest \in Ring BY <1>6, FusionInRing
<1>8. Fusion(others, part) = rest \otimes b
  <2>1. \A p \in others : shares[p] \in Ring /\ part[p] = shares[p] \otimes b BY <1>1
  <2> HIDE DEF others
  <2> QED BY <1>6, <2>1, FusionScales
<1> HIDE DEF rest
<1>9. rest \otimes b \in Ring /\ shares[lead] \oplus rest \in Ring BY <1>2, <1>7, Closed
<1>10. (a \oplus (shares[lead] \otimes b)) \oplus (rest \otimes b)
         = a \oplus ((shares[lead] \otimes b) \oplus (rest \otimes b))
  BY <1>2, <1>9, AddAssoc
<1>11. (shares[lead] \otimes b) \oplus (rest \otimes b) = (shares[lead] \oplus rest) \otimes b
  BY <1>2, <1>7, Distributes
<1>12. (shares[lead] \oplus rest) \otimes b = b \otimes (shares[lead] \oplus rest)
  BY <1>9, MultComm
<1>13. DecryptCore(<<a, b>>, shares[lead] \oplus rest) = a \oplus (b \otimes (shares[lead] \oplus rest))
  BY <1>9, ValueOfTwo
<1>14. Fusion(M, part) = DecryptCore(<<a, b>>, Fusion(M, shares))
  BY <1>1, <1>4, <1>5, <1>8, <1>10, <1>11, <1>12, <1>13 DEF rest
<1> QED BY <1>14 DEF part

(***************************************************************************)
(* MultipartyDecryptFusion of the parts of a key's parties, whichever      *)
(* leads, gives the message, for every ring, set of parties and way the    *)
(* key was put together.                                                   *)
(***************************************************************************)
THEOREM PartiesDecryptTogether == Spec => []FusionAgrees
<1>1. Init => SharesAddUp BY DEF Init, SharesAddUp
<1>2. Inv /\ SharesAddUp => FusionAgrees
  <2> SUFFICES ASSUME Inv, SharesAddUp, NEW x \in Linear, NEW lead \in members[x.under]
               PROVE  Fusion(members[x.under],
                             [p \in members[x.under] |->
                                IF p = lead THEN PartialLead(x.els, privateKey[p])
                                            ELSE PartialMain(x.els, privateKey[p])]) = x.msg
    BY DEF FusionAgrees
  <2>1. x \in Objects /\ Len(x.els) = 2 BY DEF Linear, Tagged
  <2>2. /\ x.els \in Elements /\ x.under \in Tags /\ ideal[x.under] # NULL
        /\ DecryptCore(x.els, ideal[x.under]) = x.msg
    BY <2>1, ObjectIsRight DEF Inv
  <2>3. x.els[1] \in Ring /\ x.els[2] \in Ring /\ x.els = <<x.els[1], x.els[2]>>
    BY <2>1, <2>2 DEF Elements
  <2>4. /\ IsFiniteSet(members[x.under]) /\ \A p \in members[x.under] : privateKey[p] \in Ring
        /\ Fusion(members[x.under], privateKey) = ideal[x.under]
    BY <2>2 DEF SharesAddUp
  <2> QED BY <2>2, <2>3, <2>4, PartsAddUp
<1> QED BY <1>1, <1>2, InitInv, NextInv, SharesAreInvariant, PTL DEF Spec
-----------------------------------------------------------------------------
(***************************************************************************)
(* The sums of slots (AdvancedSHE).  The keys for a sum are made for the   *)
(* automorphisms by g, its square, the square of that and so on, and the   *)
(* sum applies such a row of automorphisms; that one row holds the other   *)
(* needs powers of two, powers modulo the ring's order, and what a loop of *)
(* doublings applies.                                                      *)
(***************************************************************************)

\* A set with 0 and every number's successor has all of them.
LEMMA SetInduction ==
  ASSUME NEW S, 0 \in S, \A k \in Nat : k \in S => k + 1 \in S
  PROVE  \A k \in Nat : k \in S
<1> SUFFICES ASSUME NEW k0 \in Nat, k0 \notin S PROVE FALSE
  OBVIOUS
<1> DEFINE T == {k \in Nat : k \notin S}
<1>1. PICK k \in T : \A y \in T : k <= y
  <2>1. T \subseteq Nat /\ T # {} OBVIOUS
  <2> QED BY <2>1, LeastNumber
<1>2. k \in Nat \ {0} BY <1>1
<1>3. k - 1 \in Nat /\ ~(k <= k - 1) /\ (k - 1) + 1 = k BY <1>2
<1>4. k - 1 \in S BY <1>1, <1>3
<1> QED BY <1>1, <1>3, <1>4

-----------------------------------------------------------------------------
(***************************************************************************)
(* Powers of two.                                                          *)
(***************************************************************************)

\* Powers of two up to the k-th.
DoublesTo(f, k) == f \in [0 .. k -> Nat] /\ f[0] = 1 /\ \A i \in 1 .. k : f[i] = 2 * f[i - 1]

LEMMA DoublesAreUnique ==
  ASSUME NEW k \in Nat, NEW f, DoublesTo(f, k), NEW g, DoublesTo(g, k)
  PROVE  f[k] = g[k]
<1> DEFINE S == {x \in Nat : x <= k => f[x] = g[x]}
<1>1. 0 \in S BY DEF DoublesTo
<1>2. ASSUME NEW x \in Nat, x \in S PROVE x + 1 \in S
  <2> SUFFICES ASSUME x + 1 <= k PROVE f[x + 1] = g[x + 1]
    OBVIOUS
  <2>1. x + 1 \in 1 .. k /\ (x + 1) - 1 = x /\ f[x] = g[x] BY <1>2
  <2> QED BY <2>1 DEF DoublesTo
<1> HIDE DEF S
<1>3. \A x \in Nat : x \in S BY <1>1, <1>2, SetInduction
<1> QED BY <1>3 DEF S

LEMMA DoublesExist == \A k \in Nat : \E f : DoublesTo(f, k)
<1> DEFINE S == {k \in Nat : \E f : DoublesTo(f, k)}
<1>1. 0 \in S
  <2>1. DoublesTo([i \in 0 .. 0 |-> 1], 0) BY DEF DoublesTo
  <2> QED BY <2>1
<1>2. ASSUME NEW k \in Nat, k \in S PROVE k + 1 \in S
  <2>1. PICK f : DoublesTo(f, k) BY <1>2
  <2> DEFINE g == [i \in 0 .. k + 1 |-> IF i = k + 1 THEN 2 * f[k] ELSE f[i]]
  <2>2. f[k] \in Nat BY <2>1 DEF DoublesTo
  <2>3. \A i \in 0 .. k + 1 : i # k + 1 => i \in 0 .. k OBVIOUS
  <2>4. g \in [0 .. k + 1 -> Nat] /\ g[0] = 1 BY <2>1, <2>2, <2>3 DEF DoublesTo
  <2>5. ASSUME NEW i \in 1 .. k + 1 PROVE g[i] = 2 * g[i - 1]
    <3>1. CASE i = k + 1
      <4>1. i - 1 = k /\ k \in 0 .. k + 1 /\ k # k + 1 BY <3>1
      <4> QED BY <3>1, <4>1
    <3>2. CASE i # k + 1
      <4>1. i \in 1 .. k /\ i \in 0 .. k + 1 /\ i - 1 \in 0 .. k + 1 /\ i - 1 # k + 1 BY <3>2
      <4> QED BY <2>1, <3>2, <4>1 DEF DoublesTo
    <3> QED BY <3>1, <3>2
  <2> HIDE DEF g
  <2>6. DoublesTo(g, k + 1) BY <2>4, <2>5 DEF DoublesTo
  <2> QED BY <2>6
<1> HIDE DEF S
<1>3. \A k \in Nat : k \in S BY <1>1, <1>2, SetInduction
<1> QED BY <1>3 DEF S

LEMMA TwoToIs ==
  /\ TwoTo \in [Nat -> Nat] /\ TwoTo[0] = 1
  /\ \A k \in Nat : TwoTo[k + 1] = 2 * TwoTo[k]
<1> DEFINE P(k) == CHOOSE f : DoublesTo(f, k)
           p == [k \in Nat |-> P(k)[k]]
<1>1. \A k \in Nat : DoublesTo(P(k), k) BY DoublesExist
<1> HIDE DEF P
<1>2. ASSUME NEW k \in Nat, k # 0 PROVE P(k)[k] = 2 * P(k - 1)[k - 1]
  <2> DEFINE f == P(k)
             g == P(k - 1)
             r == [i \in 0 .. k - 1 |-> f[i]]
  <2>1. k - 1 \in Nat /\ k \in 1 .. k /\ k - 1 \in 0 .. k - 1 BY <1>2
  <2>2. DoublesTo(f, k) /\ DoublesTo(g, k - 1) BY <1>1, <2>1
  <2> HIDE DEF f, g
  <2>3. DoublesTo(r, k - 1)
    <3>1. \A i \in 0 .. k - 1 : i \in 0 .. k /\ r[i] = f[i] BY <2>1
    <3>2. r \in [0 .. k - 1 -> Nat] /\ r[0] = 1 BY <2>1, <2>2, <3>1 DEF DoublesTo
    <3>3. \A i \in 1 .. k - 1 : i \in 0 .. k - 1 /\ i - 1 \in 0 .. k - 1 /\ i \in 1 .. k
      BY <2>1
    <3>4. \A i \in 1 .. k - 1 : r[i] = 2 * r[i - 1]
      BY <2>2, <3>1, <3>3 DEF DoublesTo
    <3> HIDE DEF r
    <3> QED BY <3>2, <3>4 DEF DoublesTo
  <2>4. r[k - 1] = g[k - 1]
    <3> HIDE DEF r
    <3> QED BY <2>1, <2>2, <2>3, DoublesAreUnique
  <2>5. f[k] = 2 * f[k - 1] BY <2>1, <2>2 DEF DoublesTo
  <2> QED BY <2>1, <2>4, <2>5 DEF f, g
<1>3. P(0)[0] = 1 BY <1>1 DEF DoublesTo
<1>4. \A k \in Nat : P(k)[k] \in Nat
  <2>1. \A k \in Nat : k \in 0 .. k OBVIOUS
  <2> QED BY <1>1, <2>1 DEF DoublesTo
<1>5. p \in [Nat -> Nat] BY <1>4
<1>6. \A k \in Nat : p[k] = IF k = 0 THEN 1 ELSE 2 * p[k - 1]
  <2>1. \A k \in Nat : k # 0 => k - 1 \in Nat OBVIOUS
  <2> QED BY <1>2, <1>3, <2>1
<1>7. p = [k \in Nat |-> IF k = 0 THEN 1 ELSE 2 * p[k - 1]]
  BY <1>6
<1> HIDE DEF p
<1> DEFINE Q == CHOOSE t : t = [k \in Nat |-> IF k = 0 THEN 1 ELSE 2 * t[k - 1]]
<1>8. Q = [k \in Nat |-> IF k = 0 THEN 1 ELSE 2 * Q[k - 1]]
  <2>1. \E t : t = [k \in Nat |-> IF k = 0 THEN 1 ELSE 2 * t[k - 1]] BY <1>7
  <2> QED BY <2>1
<1>9. TwoTo = Q BY DEF TwoTo
<1> HIDE DEF Q
<1>10. \A k \in Nat : Q[k] = IF k = 0 THEN 1 ELSE 2 * Q[k - 1] BY <1>8
<1>11. Q[0] = 1 /\ \A k \in Nat : Q[k + 1] = 2 * Q[k]
  <2>1. \A k \in Nat : k + 1 \in Nat /\ k + 1 # 0 /\ (k + 1) - 1 = k OBVIOUS
  <2> QED BY <1>10, <2>1
<1> DEFINE S == {k \in Nat : Q[k] \in Nat}
<1>12. \A k \in Nat : k \in S
  <2>1. 0 \in S BY <1>11
  <2>2. \A k \in Nat : k \in S => k + 1 \in S BY <1>11
  <2> HIDE DEF S
  <2> QED BY <2>1, <2>2, SetInduction
<1>13. Q \in [Nat -> Nat] BY <1>8, <1>12
<1> QED BY <1>9, <1>11, <1>13

LEMMA TwoToPositive == \A k \in Nat : TwoTo[k] \in Nat /\ TwoTo[k] > k
<1> DEFINE S == {k \in Nat : TwoTo[k] > k}
<1>1. 0 \in S BY TwoToIs
<1>2. ASSUME NEW k \in Nat, k \in S PROVE k + 1 \in S
  <2>1. TwoTo[k] \in Nat /\ TwoTo[k] > k /\ TwoTo[k + 1] = 2 * TwoTo[k] BY <1>2, TwoToIs
  <2> QED BY <2>1
<1> HIDE DEF S
<1>3. \A k \in Nat : k \in S BY <1>1, <1>2, SetInduction
<1> QED BY <1>3, TwoToIs DEF S

LEMMA TwoToSum == \A i, j \in Nat : TwoTo[i + j] = TwoTo[i] * TwoTo[j]
<1> SUFFICES ASSUME NEW i \in Nat PROVE \A j \in Nat : TwoTo[i + j] = TwoTo[i] * TwoTo[j]
  OBVIOUS
<1> DEFINE S == {j \in Nat : TwoTo[i + j] = TwoTo[i] * TwoTo[j]}
<1>1. 0 \in S
  <2>1. i + 0 = i /\ TwoTo[i] \in Nat /\ TwoTo[0] = 1 BY TwoToIs
  <2>2. TwoTo[i] * 1 = TwoTo[i] BY <2>1
  <2> QED BY <2>1, <2>2
<1>2. ASSUME NEW j \in Nat, j \in S PROVE j + 1 \in S
  <2> DEFINE x == TwoTo[i]
             y == TwoTo[j]
  <2>1. x \in Nat /\ y \in Nat /\ TwoTo[i + j] = x * y BY <1>2, TwoToIs
  <2>2. TwoTo[j + 1] = 2 * y /\ TwoTo[(i + j) + 1] = 2 * TwoTo[i + j] BY TwoToIs
  <2>3. (i + j) + 1 = i + (j + 1) OBVIOUS
  <2> HIDE DEF x, y
  <2>4. 2 * (x * y) = x * (2 * y) BY <2>1
  <2>5. TwoTo[i + (j + 1)] = x * TwoTo[j + 1] BY <2>1, <2>2, <2>3, <2>4
  <2> QED BY <2>5 DEF x
<1> HIDE DEF S
<1>3. \A j \in Nat : j \in S BY <1>1, <1>2, SetInduction
<1> QED BY <1>3 DEF S

LEMMA TwoToGrows == \A i, j \in Nat : i < j => TwoTo[i] < TwoTo[j]
<1> SUFFICES ASSUME NEW i \in Nat, NEW j \in Nat, i < j PROVE TwoTo[i] < TwoTo[j]
  OBVIOUS
<1> DEFINE S == {d \in Nat : TwoTo[i] < TwoTo[i + (d + 1)]}
<1>0. TwoTo[i] \in Nat /\ TwoTo[i] > 0 BY TwoToPositive
<1>1. 0 \in S
  <2>1. TwoTo[i + 1] = 2 * TwoTo[i] /\ 0 + 1 = 1 BY TwoToIs
  <2> QED BY <1>0, <2>1
<1>2. ASSUME NEW d \in Nat, d \in S PROVE d + 1 \in S
  <2>1. i + (d + 1) \in Nat /\ i + ((d + 1) + 1) = (i + (d + 1)) + 1 OBVIOUS
  <2>2. TwoTo[i + ((d + 1) + 1)] = 2 * TwoTo[i + (d + 1)] /\ TwoTo[i + (d + 1)] \in Nat
    BY <2>1, TwoToIs
  <2> QED BY <1>0, <1>2, <2>2
<1> HIDE DEF S
<1>3. \A d \in Nat : d \in S BY <1>1, <1>2, SetInduction
<1>4. (j - i) - 1 \in Nat /\ i + (((j - i) - 1) + 1) = j OBVIOUS
<1>5. (j - i) - 1 \in S BY <1>3, <1>4
<1> QED BY <1>4, <1>5 DEF S

LEMMA TwoToOrder ==
  ASSUME NEW i \in Nat, NEW j \in Nat
  PROVE  (TwoTo[i] <= TwoTo[j] <=> i <= j) /\ (TwoTo[i] = TwoTo[j] <=> i = j)
<1>1. TwoTo[i] \in Nat /\ TwoTo[j] \in Nat BY TwoToIs
<1>2. (i < j => TwoTo[i] < TwoTo[j]) /\ (j < i => TwoTo[j] < TwoTo[i]) BY TwoToGrows
<1> QED BY <1>1, <1>2

LEMMA TwoToQuotient ==
  ASSUME NEW i \in Nat, NEW j \in Nat, j <= i
  PROVE  TwoTo[i] \div TwoTo[j] = TwoTo[i - j]
<1> DEFINE x == TwoTo[i - j]
           y == TwoTo[j]
<1>1. i - j \in Nat /\ (i - j) + j = i OBVIOUS
<1>2. TwoTo[i] = x * y /\ x \in Nat /\ y \in Nat /\ y > 0
  <2>1. TwoTo[(i - j) + j] = TwoTo[i - j] * TwoTo[j] BY <1>1, TwoToSum
  <2>2. x \in Nat /\ y \in Nat /\ y > 0 BY <1>1, TwoToPositive
  <2> QED BY <1>1, <2>1, <2>2
<1> HIDE DEF x, y
<1>3. (x * y) \div y = x BY <1>2
<1> QED BY <1>2, <1>3 DEF x, y

LEMMA LogOfTwoTo == \A k \in Nat : Log2Up(TwoTo[k]) = k
<1> SUFFICES ASSUME NEW k \in Nat PROVE Log2Up(TwoTo[k]) = k
  OBVIOUS
<1> DEFINE b == TwoTo[k]
           Fits(x) == TwoTo[x] >= b /\ \A i \in 0 .. x - 1 : TwoTo[i] < b
<1>1. b \in Nat /\ k \in 0 .. b BY TwoToPositive
<1>2. Fits(k)
  <2>1. \A i \in 0 .. k - 1 : i \in Nat /\ i < k OBVIOUS
  <2>2. \A i \in 0 .. k - 1 : TwoTo[i] < b BY <2>1, TwoToGrows
  <2> QED BY <1>1, <2>2
<1>3. ASSUME NEW x \in 0 .. b, Fits(x) PROVE x = k
  <2>1. x \in Nat BY <1>1
  <2>2. ~(x < k)
    <3>1. x < k => TwoTo[x] < b BY <2>1, TwoToGrows
    <3>2. TwoTo[x] \in Nat BY <2>1, TwoToIs
    <3> QED BY <1>1, <1>3, <3>1, <3>2
  <2>3. ~(k < x)
    <3>1. k < x => k \in 0 .. x - 1 BY <2>1
    <3> QED BY <1>1, <1>3, <3>1
  <2> QED BY <2>1, <2>2, <2>3
<1>4. Log2Up(b) = CHOOSE x \in 0 .. b : Fits(x) BY DEF Log2Up
<1> HIDE DEF b, Fits
<1>5. Log2Up(b) = k BY <1>1, <1>2, <1>3, <1>4
<1> QED BY <1>5 DEF b

LEMMA PowersOfTwoAre ==
  ASSUME NEW bound \in Nat
  PROVE  /\ \A b \in PowersOfTwo(bound) : b \in 1 .. bound /\ \E k \in Nat : b = TwoTo[k]
         /\ \A k \in Nat : TwoTo[k] <= bound => TwoTo[k] \in PowersOfTwo(bound)
<1>1. \A b \in PowersOfTwo(bound) : b \in 1 .. bound /\ \E k \in Nat : b = TwoTo[k]
  BY DEF PowersOfTwo
<1>2. ASSUME NEW k \in Nat, TwoTo[k] <= bound PROVE TwoTo[k] \in PowersOfTwo(bound)
  <2>1. TwoTo[k] \in 1 .. bound /\ k \in 0 .. TwoTo[k] BY <1>2, TwoToPositive
  <2> QED BY <2>1 DEF PowersOfTwo
<1> QED BY <1>1, <1>2

\* The order of a ring is a power of two with an exponent of 3 or more.
LEMMA OrderIs ==
  \A order \in CyclotomicOrders :
    \E k \in Nat : /\ order = TwoTo[k + 3] /\ order \div 2 = TwoTo[k + 2]
                   /\ order \div 4 = TwoTo[k + 1]
<1> SUFFICES ASSUME NEW order \in CyclotomicOrders
             PROVE  \E k \in Nat : /\ order = TwoTo[k + 3] /\ order \div 2 = TwoTo[k + 2]
                                   /\ order \div 4 = TwoTo[k + 1]
  OBVIOUS
<1>1. PICK k \in Nat : order = TwoTo[k] /\ order \in Nat /\ order >= 8 BY OrdersAssumption
<1>2. TwoTo[0] = 1 /\ TwoTo[1] = 2 /\ TwoTo[2] = 4
  <2>1. TwoTo[0] = 1 /\ TwoTo[0 + 1] = 2 * TwoTo[0] /\ TwoTo[1 + 1] = 2 * TwoTo[1] BY TwoToIs
  <2>2. 0 + 1 = 1 /\ 1 + 1 = 2 OBVIOUS
  <2> QED BY <2>1, <2>2
<1>3. k # 0 /\ k # 1 /\ k # 2 BY <1>1, <1>2
<1>4. k - 3 \in Nat /\ (k - 3) + 3 = k /\ k - 2 = (k - 3) + 1 /\ k - 1 = (k - 3) + 2
  BY <1>3
<1>5. order \div 2 = TwoTo[k - 1] /\ order \div 4 = TwoTo[k - 2]
  <2>1. 1 \in Nat /\ 2 \in Nat /\ 1 <= k /\ 2 <= k BY <1>1, <1>3
  <2>2. TwoTo[k] \div TwoTo[1] = TwoTo[k - 1] BY <2>1, TwoToQuotient
  <2>3. TwoTo[k] \div TwoTo[2] = TwoTo[k - 2] BY <2>1, TwoToQuotient
  <2> QED BY <1>1, <1>2, <2>2, <2>3
<1> QED BY <1>1, <1>4, <1>5

-----------------------------------------------------------------------------
(***************************************************************************)
(* Powers modulo an order.                                                 *)
(***************************************************************************)

LEMMA DividedInto ==
  ASSUME NEW o \in Nat, o > 0, NEW x \in Int
  PROVE  x % o \in 0 .. o - 1 /\ x \div o \in Int /\ x = (x \div o) * o + (x % o)
<1> DEFINE d == x \div o
           r == x % o
<1>1. x = o * d + r /\ r \in 0 .. o - 1 /\ d \in Int OBVIOUS
<1> HIDE DEF d, r
<1>2. o * d = d * o BY <1>1
<1>3. x = d * o + r BY <1>1, <1>2
<1> QED BY <1>1, <1>3 DEF d, r

LEMMA SmallMod ==
  ASSUME NEW o \in Nat, NEW x \in Nat, x < o
  PROVE  x % o = x
OBVIOUS

LEMMA SameMod ==
  ASSUME NEW o \in Nat, o > 0, NEW x \in Int, NEW y \in Int, NEW k \in Int, x = y + k * o
  PROVE  x % o = y % o
<1> DEFINE rx == x % o
           ry == y % o
           dx == x \div o
           dy == y \div o
           t == (k + dy) - dx
<1>1. /\ rx \in 0 .. o - 1 /\ ry \in 0 .. o - 1 /\ dx \in Int /\ dy \in Int
      /\ x = dx * o + rx /\ y = dy * o + ry
  BY DividedInto
<1>2. t \in Int BY <1>1
<1> HIDE DEF rx, ry, dx, dy
<1>3. t * o = k * o + dy * o - dx * o BY <1>1
<1>4. k * o \in Int /\ dy * o \in Int /\ dx * o \in Int BY <1>1
<1>5. rx = ry + t * o BY <1>1, <1>3, <1>4
<1> HIDE DEF t
<1>6. ~(t >= 1)
  <2>1. t >= 1 => t * o >= o BY <1>2
  <2> QED BY <1>1, <1>2, <1>5, <2>1
<1>7. ~(t <= -1)
  <2>1. t <= -1 => t * o <= -o BY <1>2
  <2> QED BY <1>1, <1>2, <1>5, <2>1
<1>8. t = 0 BY <1>2, <1>6, <1>7
<1>9. rx = ry BY <1>1, <1>5, <1>8
<1> QED BY <1>9 DEF rx, ry

LEMMA ModOfProduct ==
  ASSUME NEW o \in Nat, o > 0, NEW x \in Int, NEW y \in Int
  PROVE  ((x % o) * y) % o = (x * y) % o /\ (x * (y % o)) % o = (x * y) % o
<1>1. ASSUME NEW u \in Int, NEW v \in Int PROVE ((u % o) * v) % o = (u * v) % o
  <2> DEFINE d == u \div o
             r == u % o
  <2>1. r \in Int /\ d \in Int /\ u = d * o + r BY DividedInto
  <2> HIDE DEF d, r
  <2>2. u * v = r * v + (d * v) * o BY <2>1
  <2>3. u * v \in Int /\ r * v \in Int /\ d * v \in Int BY <2>1
  <2>4. (u * v) % o = (r * v) % o
    <3> DEFINE a == u * v
               b == r * v
               c == d * v
    <3>1. a = b + c * o /\ a \in Int /\ b \in Int /\ c \in Int BY <2>2, <2>3
    <3> HIDE DEF a, b, c
    <3>2. a % o = b % o BY <3>1, SameMod
    <3> QED BY <3>2 DEF a, b
  <2> QED BY <2>4 DEF r
<1>2. ((y % o) * x) % o = (y * x) % o BY <1>1
<1>3. y % o \in Int
  <2>1. y % o \in 0 .. o - 1 BY DividedInto
  <2> QED BY <2>1
<1>4. \A a, b \in Int : a * b = b * a OBVIOUS
<1>5. (y % o) * x = x * (y % o) /\ y * x = x * y BY <1>3, <1>4
<1>6. (x * (y % o)) % o = (x * y) % o BY <1>2, <1>5
<1> QED BY <1>1, <1>6

\* What the function that PowerMod defines must be.
PowersMod(f, g, k, order) ==
  f = [i \in 0 .. k |-> IF i = 0 THEN 1 ELSE (f[i - 1] * g) % order]

LEMMA PowersModExist ==
  ASSUME NEW g, NEW order
  PROVE  \A k \in Nat : \E f : PowersMod(f, g, k, order)
<1> DEFINE S == {k \in Nat : \E f : PowersMod(f, g, k, order)}
<1>1. 0 \in S
  <2>1. PowersMod([i \in 0 .. 0 |-> 1], g, 0, order) BY DEF PowersMod
  <2> QED BY <2>1
<1>2. ASSUME NEW k \in Nat, k \in S PROVE k + 1 \in S
  <2>1. PICK f : PowersMod(f, g, k, order) BY <1>2
  <2> DEFINE e == [i \in 0 .. k + 1 |-> IF i = k + 1 THEN (f[k] * g) % order ELSE f[i]]
  <2>2. ASSUME NEW i \in 0 .. k + 1
        PROVE  e[i] = IF i = 0 THEN 1 ELSE (e[i - 1] * g) % order
    <3>1. CASE i = k + 1
      <4>1. i - 1 = k /\ k \in 0 .. k + 1 /\ k # k + 1 /\ i # 0 BY <3>1
      <4>2. e[k] = f[k] /\ e[i] = (f[k] * g) % order BY <3>1, <4>1
      <4> HIDE DEF e
      <4> QED BY <4>1, <4>2
    <3>2. CASE i # k + 1
      <4>1. i \in 0 .. k BY <3>2
      <4>2. f[i] = IF i = 0 THEN 1 ELSE (f[i - 1] * g) % order BY <2>1, <4>1 DEF PowersMod
      <4>3. i # 0 => i - 1 \in 0 .. k + 1 /\ i - 1 # k + 1 BY <4>1
      <4>4. e[i] = f[i] /\ (i # 0 => e[i - 1] = f[i - 1]) BY <3>2, <4>3
      <4> HIDE DEF e
      <4> QED BY <4>2, <4>4
    <3> QED BY <3>1, <3>2
  <2>3. e = [i \in 0 .. k + 1 |-> e[i]] OBVIOUS
  <2> HIDE DEF e
  <2>4. PowersMod(e, g, k + 1, order) BY <2>2, <2>3 DEF PowersMod
  <2> QED BY <2>4
<1> HIDE DEF S
<1>3. \A k \in Nat : k \in S BY <1>1, <1>2, SetInduction
<1> QED BY <1>3 DEF S

LEMMA PowersModUnique ==
  ASSUME NEW g, NEW order, NEW k \in Nat, NEW l \in Nat, k <= l,
         NEW e, PowersMod(e, g, k, order), NEW f, PowersMod(f, g, l, order)
  PROVE  e[k] = f[k]
<1> DEFINE S == {x \in Nat : x <= k => e[x] = f[x]}
<1>1. 0 \in S
  <2>1. 0 \in 0 .. k /\ 0 \in 0 .. l OBVIOUS
  <2> QED BY <2>1 DEF PowersMod
<1>2. ASSUME NEW x \in Nat, x \in S PROVE x + 1 \in S
  <2> SUFFICES ASSUME x + 1 <= k PROVE e[x + 1] = f[x + 1]
    OBVIOUS
  <2>1. x + 1 \in 0 .. k /\ x + 1 \in 0 .. l /\ (x + 1) - 1 = x /\ x + 1 # 0 /\ e[x] = f[x]
    BY <1>2
  <2>2. e[x + 1] = (e[x] * g) % order BY <2>1 DEF PowersMod
  <2>3. f[x + 1] = (f[x] * g) % order BY <2>1 DEF PowersMod
  <2> QED BY <2>1, <2>2, <2>3
<1> HIDE DEF S
<1>3. \A x \in Nat : x \in S BY <1>1, <1>2, SetInduction
<1> QED BY <1>3 DEF S

LEMMA PowerModStep ==
  ASSUME NEW g, NEW order
  PROVE  /\ PowerMod(g, 0, order) = 1
         /\ \A k \in Nat : PowerMod(g, k + 1, order) = (PowerMod(g, k, order) * g) % order
<1> DEFINE P(k) == CHOOSE f : PowersMod(f, g, k, order)
<1>1. \A k \in Nat : PowersMod(P(k), g, k, order) BY PowersModExist
<1>2. \A k \in Nat : PowerMod(g, k, order) = P(k)[k] BY DEF PowerMod, PowersMod
<1> HIDE DEF P
<1>3. P(0)[0] = 1
  <2>1. PowersMod(P(0), g, 0, order) /\ 0 \in 0 .. 0 BY <1>1
  <2> QED BY <2>1 DEF PowersMod
<1>4. ASSUME NEW k \in Nat PROVE P(k + 1)[k + 1] = (P(k)[k] * g) % order
  <2>1. PowersMod(P(k + 1), g, k + 1, order) /\ PowersMod(P(k), g, k, order) BY <1>1
  <2>2. k + 1 \in Nat /\ k <= k + 1 /\ k + 1 \in 0 .. k + 1 /\ k + 1 # 0 /\ (k + 1) - 1 = k
    OBVIOUS
  <2>3. P(k)[k] = P(k + 1)[k] BY <2>1, <2>2, PowersModUnique
  <2>4. P(k + 1)[k + 1] = (P(k + 1)[k] * g) % order BY <2>1, <2>2 DEF PowersMod
  <2> QED BY <2>3, <2>4
<1> QED BY <1>2, <1>3, <1>4

LEMMA PowerModType ==
  ASSUME NEW g \in Int, NEW order \in Nat, order > 1
  PROVE  \A k \in Nat : PowerMod(g, k, order) \in 0 .. order - 1
<1> DEFINE S == {k \in Nat : PowerMod(g, k, order) \in 0 .. order - 1}
<1>1. 0 \in S BY PowerModStep
<1>2. ASSUME NEW k \in Nat, k \in S PROVE k + 1 \in S
  <2> DEFINE x == PowerMod(g, k, order)
  <2>1. x \in Int BY <1>2
  <2>2. PowerMod(g, k + 1, order) = (x * g) % order BY PowerModStep
  <2> HIDE DEF x
  <2> DEFINE y == x * g
  <2>3. y \in Int BY <2>1
  <2> HIDE DEF y
  <2>4. y % order \in 0 .. order - 1 BY <2>3, DividedInto
  <2> QED BY <2>2, <2>4 DEF y
<1> HIDE DEF S
<1>3. \A k \in Nat : k \in S BY <1>1, <1>2, SetInduction
<1> QED BY <1>3 DEF S

LEMMA PowerModSum ==
  ASSUME NEW g \in Int, NEW order \in Nat, order > 1, NEW i \in Nat
  PROVE  \A j \in Nat :
           PowerMod(g, i + j, order) = (PowerMod(g, i, order) * PowerMod(g, j, order)) % order
<1> DEFINE P(k) == PowerMod(g, k, order)
           S == {j \in Nat : P(i + j) = (P(i) * P(j)) % order}
<1>0. \A k \in Nat : P(k) \in 0 .. order - 1 /\ P(k + 1) = (P(k) * g) % order
  BY PowerModType, PowerModStep
<1>1. P(0) = 1 BY PowerModStep
<1> HIDE DEF P
<1>2. 0 \in S
  <2>1. P(i) \in 0 .. order - 1 /\ i + 0 = i BY <1>0
  <2>2. P(i) * 1 = P(i) BY <2>1
  <2>3. P(i) % order = P(i) BY <2>1
  <2> QED BY <1>1, <2>1, <2>2, <2>3
<1>3. ASSUME NEW j \in Nat, j \in S PROVE j + 1 \in S
  <2> DEFINE x == P(i)
             y == P(j)
  <2>1. x \in Int /\ y \in Int /\ P(i + j) = (x * y) % order BY <1>0, <1>3
  <2>2. P(j + 1) = (y * g) % order /\ P((i + j) + 1) = (P(i + j) * g) % order BY <1>0
  <2>3. (i + j) + 1 = i + (j + 1) OBVIOUS
  <2> HIDE DEF x, y
  <2> DEFINE xy == x * y
             yg == y * g
  <2>4. xy \in Int /\ yg \in Int /\ xy * g = x * yg BY <2>1
  <2>5. P(i + j) = xy % order /\ P(j + 1) = yg % order BY <2>1, <2>2
  <2> HIDE DEF xy, yg
  <2>9. order > 0 OBVIOUS
  <2>6. ((xy % order) * g) % order = (xy * g) % order BY <2>4, <2>9, ModOfProduct, Zenon
  <2>7. (x * (yg % order)) % order = (x * yg) % order BY <2>1, <2>4, <2>9, ModOfProduct, Zenon
  <2>8. P(i + (j + 1)) = (x * P(j + 1)) % order BY <2>2, <2>3, <2>4, <2>5, <2>6, <2>7
  <2> QED BY <2>8 DEF x
<1> HIDE DEF S
<1>4. \A j \in Nat : j \in S BY <1>2, <1>3, SetInduction
<1> QED BY <1>4 DEF S, P

LEMMA PowerModProduct ==
  ASSUME NEW g \in Int, NEW order \in Nat, order > 1, NEW i \in Nat
  PROVE  \A j \in Nat : PowerMod(PowerMod(g, i, order), j, order) = PowerMod(g, i * j, order)
<1> DEFINE x == PowerMod(g, i, order)
           S == {j \in Nat : PowerMod(x, j, order) = PowerMod(g, i * j, order)}
<1>1. x \in Int BY PowerModType
<1>2. 0 \in S
  <2>1. i * 0 = 0 OBVIOUS
  <2> QED BY <2>1, PowerModStep
<1>3. ASSUME NEW j \in Nat, j \in S PROVE j + 1 \in S
  <2>1. i * j \in Nat /\ i * (j + 1) = i * j + i OBVIOUS
  <2>2. PowerMod(g, i * (j + 1), order) = (PowerMod(g, i * j, order) * x) % order
    BY <2>1, PowerModSum
  <2>3. PowerMod(x, j + 1, order) = (PowerMod(x, j, order) * x) % order BY PowerModStep
  <2> QED BY <1>3, <2>2, <2>3
<1> HIDE DEF S
<1>4. \A j \in Nat : j \in S BY <1>2, <1>3, SetInduction
<1> QED BY <1>4 DEF S

-----------------------------------------------------------------------------
(***************************************************************************)
(* The automorphisms that a sum applies are those that keys are made for.  *)
(***************************************************************************)

\* What the function that Doubled defines must be.
Doublings(f, r, g, k, order) ==
  f = [j \in 0 .. k |-> IF j = 0 THEN r
                        ELSE AddAutomorphism(f[j - 1], PowerMod(g, TwoTo[j - 1], order))]

LEMMA DoublingsExist ==
  ASSUME NEW r, NEW g, NEW order
  PROVE  \A k \in Nat : \E f : Doublings(f, r, g, k, order)
<1> DEFINE After(x, j) == AddAutomorphism(x, PowerMod(g, TwoTo[j - 1], order))
           S == {k \in Nat : \E f : Doublings(f, r, g, k, order)}
<1>1. 0 \in S
  <2>1. Doublings([i \in 0 .. 0 |-> r], r, g, 0, order) BY DEF Doublings
  <2> QED BY <2>1
<1>2. ASSUME NEW k \in Nat, k \in S PROVE k + 1 \in S
  <2>1. PICK f : Doublings(f, r, g, k, order) BY <1>2
  <2>2. f = [j \in 0 .. k |-> IF j = 0 THEN r ELSE After(f[j - 1], j)]
    BY <2>1 DEF Doublings
  <2> HIDE DEF After
  <2> DEFINE e == [i \in 0 .. k + 1 |-> IF i = k + 1 THEN After(f[k], k + 1) ELSE f[i]]
  <2>3. ASSUME NEW i \in 0 .. k + 1
        PROVE  e[i] = IF i = 0 THEN r ELSE After(e[i - 1], i)
    <3>1. CASE i = k + 1
      <4>1. i - 1 = k /\ k \in 0 .. k + 1 /\ k # k + 1 /\ i # 0 BY <3>1
      <4>2. e[k] = f[k] /\ e[i] = After(f[k], i) BY <3>1, <4>1
      <4> HIDE DEF e
      <4> QED BY <4>1, <4>2
    <3>2. CASE i # k + 1
      <4>1. i \in 0 .. k BY <3>2
      <4>2. f[i] = IF i = 0 THEN r ELSE After(f[i - 1], i) BY <2>2, <4>1
      <4>3. i # 0 => i - 1 \in 0 .. k + 1 /\ i - 1 # k + 1 BY <4>1
      <4>4. e[i] = f[i] /\ (i # 0 => e[i - 1] = f[i - 1]) BY <3>2, <4>3
      <4> HIDE DEF e
      <4> QED BY <4>2, <4>4
    <3> QED BY <3>1, <3>2
  <2>4. e = [i \in 0 .. k + 1 |-> e[i]] OBVIOUS
  <2> HIDE DEF e
  <2>5. e = [i \in 0 .. k + 1 |-> IF i = 0 THEN r ELSE After(e[i - 1], i)] BY <2>3, <2>4
  <2>6. Doublings(e, r, g, k + 1, order) BY <2>5 DEF Doublings, After
  <2> QED BY <2>6
<1> HIDE DEF S
<1>3. \A k \in Nat : k \in S BY <1>1, <1>2, SetInduction
<1> QED BY <1>3 DEF S

LEMMA DoublingsUnique ==
  ASSUME NEW r, NEW g, NEW order, NEW k \in Nat, NEW l \in Nat, k <= l,
         NEW e, Doublings(e, r, g, k, order), NEW f, Doublings(f, r, g, l, order)
  PROVE  e[k] = f[k]
<1> DEFINE After(x, j) == AddAutomorphism(x, PowerMod(g, TwoTo[j - 1], order))
           S == {x \in Nat : x <= k => e[x] = f[x]}
<1>0. /\ \A j \in 0 .. k : e[j] = IF j = 0 THEN r ELSE After(e[j - 1], j)
      /\ \A j \in 0 .. l : f[j] = IF j = 0 THEN r ELSE After(f[j - 1], j)
  BY DEF Doublings
<1> HIDE DEF After
<1>1. 0 \in S
  <2>1. 0 \in 0 .. k /\ 0 \in 0 .. l OBVIOUS
  <2> QED BY <1>0, <2>1
<1>2. ASSUME NEW x \in Nat, x \in S PROVE x + 1 \in S
  <2> SUFFICES ASSUME x + 1 <= k PROVE e[x + 1] = f[x + 1]
    OBVIOUS
  <2>1. x + 1 \in 0 .. k /\ x + 1 \in 0 .. l /\ (x + 1) - 1 = x /\ x + 1 # 0 /\ e[x] = f[x]
    BY <1>2
  <2> QED BY <1>0, <2>1
<1> HIDE DEF S
<1>3. \A x \in Nat : x \in S BY <1>1, <1>2, SetInduction
<1> QED BY <1>3 DEF S

\* No doubling, and one more.
LEMMA DoubledStep ==
  ASSUME NEW r, NEW g, NEW order, NEW n \in Nat
  PROVE  /\ Doubled(r, g, 0, order) = r
         /\ Doubled(r, g, n + 1, order)
              = AddAutomorphism(Doubled(r, g, n, order), PowerMod(g, TwoTo[n], order))
<1> DEFINE P(k) == CHOOSE f : Doublings(f, r, g, k, order)
<1>1. \A k \in Nat : Doublings(P(k), r, g, k, order) BY DoublingsExist
<1>2. \A k \in Nat : Doubled(r, g, k, order) = P(k)[k] BY DEF Doubled, Doublings
<1> HIDE DEF P
<1>3. P(0)[0] = r
  <2>1. Doublings(P(0), r, g, 0, order) /\ 0 \in 0 .. 0 BY <1>1
  <2> QED BY <2>1 DEF Doublings
<1>4. ASSUME NEW k \in Nat
      PROVE  P(k + 1)[k + 1] = AddAutomorphism(P(k)[k], PowerMod(g, TwoTo[k], order))
  <2>1. Doublings(P(k + 1), r, g, k + 1, order) /\ Doublings(P(k), r, g, k, order) BY <1>1
  <2>2. k + 1 \in Nat /\ k <= k + 1 /\ k + 1 \in 0 .. k + 1 /\ k + 1 # 0 /\ (k + 1) - 1 = k
    OBVIOUS
  <2>3. P(k)[k] = P(k + 1)[k] BY <2>1, <2>2, DoublingsUnique
  <2>4. P(k + 1)[k + 1] = AddAutomorphism(P(k + 1)[k], PowerMod(g, TwoTo[k], order))
    <3> DEFINE After(x, j) == AddAutomorphism(x, PowerMod(g, TwoTo[j - 1], order))
    <3>1. \A j \in 0 .. k + 1 : P(k + 1)[j] = IF j = 0 THEN r ELSE After(P(k + 1)[j - 1], j)
      BY <2>1 DEF Doublings
    <3> HIDE DEF After
    <3>2. P(k + 1)[k + 1] = After(P(k + 1)[k], k + 1) BY <2>2, <3>1
    <3>3. After(P(k + 1)[k], k + 1)
          = AddAutomorphism(P(k + 1)[k], PowerMod(g, TwoTo[(k + 1) - 1], order))
      BY DEF After
    <3> QED BY <2>2, <3>2, <3>3
  <2> QED BY <2>3, <2>4
<1> HIDE DEF P
<1>5. 0 \in Nat /\ n + 1 \in Nat OBVIOUS
<1>6. Doubled(r, g, 0, order) = r BY <1>2, <1>3, <1>5
<1>7. Doubled(r, g, n + 1, order) = P(n + 1)[n + 1] BY <1>2, <1>5
<1>8. Doubled(r, g, n, order) = P(n)[n] BY <1>2
<1> QED BY <1>4, <1>6, <1>7, <1>8

LEMMA AddAutomorphismUses == \A r, k : AddAutomorphism(r, k).used = r.used \cup {k}
BY DEF AddAutomorphism

LEMMA DoubledUses ==
  ASSUME NEW r, NEW g, NEW order, NEW n \in Nat
  PROVE  Doubled(r, g, n, order).used = r.used \cup Squarings(g, n, order)
<1> DEFINE S == {k \in Nat : Doubled(r, g, k, order).used = r.used \cup Squarings(g, k, order)}
<1>1. 0 \in S
  <2>1. Squarings(g, 0, order) = {} BY DEF Squarings
  <2> QED BY <2>1, DoubledStep
<1>2. ASSUME NEW k \in Nat, k \in S PROVE k + 1 \in S
  <2>1. Doubled(r, g, k + 1, order)
          = AddAutomorphism(Doubled(r, g, k, order), PowerMod(g, TwoTo[k], order))
    BY DoubledStep
  <2>2. Doubled(r, g, k + 1, order).used
          = Doubled(r, g, k, order).used \cup {PowerMod(g, TwoTo[k], order)}
    BY <2>1, AddAutomorphismUses
  <2>3. Squarings(g, k + 1, order) = Squarings(g, k, order) \cup {PowerMod(g, TwoTo[k], order)}
    <3>1. 0 .. (k + 1) - 1 = (0 .. k - 1) \cup {k} OBVIOUS
    <3> QED BY <3>1 DEF Squarings
  <2> QED BY <1>2, <2>2, <2>3
<1> HIDE DEF S
<1>3. \A k \in Nat : k \in S BY <1>1, <1>2, SetInduction
<1> QED BY <1>3 DEF S

LEMMA SquaringsGrow ==
  ASSUME NEW g, NEW order, NEW i \in Int, NEW j \in Int, i <= j
  PROVE  Squarings(g, i, order) \subseteq Squarings(g, j, order)
<1>1. 0 .. i - 1 \subseteq 0 .. j - 1 OBVIOUS
<1> QED BY <1>1 DEF Squarings

LEMMA LogGrows ==
  ASSUME NEW bound \in Nat, NEW b \in PowersOfTwo(bound), NEW c \in PowersOfTwo(bound)
  PROVE  /\ Log2Up(b) \in Nat /\ b = TwoTo[Log2Up(b)]
         /\ b <= c => Log2Up(b) <= Log2Up(c)
         /\ b < c => Log2Up(b) < Log2Up(c)
<1>1. PICK i \in Nat : b = TwoTo[i] BY PowersOfTwoAre
<1>2. PICK j \in Nat : c = TwoTo[j] BY PowersOfTwoAre
<1>3. Log2Up(b) = i /\ Log2Up(c) = j BY <1>1, <1>2, LogOfTwoTo
<1>4. (b <= c <=> i <= j) /\ (b = c <=> i = j) BY <1>1, <1>2, TwoToOrder
<1>5. b \in Nat /\ c \in Nat BY <1>1, <1>2, TwoToIs
<1> QED BY <1>1, <1>3, <1>4, <1>5

\* The context's order and the slots that batches take.
ContextFits ==
  /\ m \in CyclotomicOrders /\ scheme \in {"CKKSRNS", "BGVRNS"}
  /\ batchSize \in PowersOfTwo(Slots)

LEMMA ContextIs ==
  ASSUME ContextFits
  PROVE  /\ m \in Nat /\ m >= 8 /\ Slots \in Nat /\ Slots <= m \div 2
         /\ \A b \in PowersOfTwo(Slots) : b \in Nat /\ b >= 1 /\ b <= m \div 2
         /\ \A order \in Subrings : order \in Nat /\ order >= 8
<1>1. \A order \in CyclotomicOrders : order \in Nat /\ order >= 8 BY OrdersAssumption
<1>2. m \in Nat /\ m >= 8 /\ m \div 4 \in Nat /\ m \div 2 \in Nat /\ m \div 4 <= m \div 2
  BY <1>1 DEF ContextFits
<1>3. Slots \in Nat /\ Slots <= m \div 2 BY <1>2 DEF Slots
<1>4. \A b \in PowersOfTwo(Slots) : b \in 1 .. Slots BY DEF PowersOfTwo
<1>5. \A order \in Subrings : order \in Nat /\ order >= 8 BY <1>1 DEF Subrings
<1> QED BY <1>2, <1>3, <1>4, <1>5

LEMMA InputUsesNone == \A order : Input(order).used = {}
BY DEF Input

\* EvalSum of CKKS, and the sums of EvalSumCols.
LEMMA ComplexSumHasKeys ==
  ASSUME ContextFits, NEW b \in PowersOfTwo(Slots), b <= batchSize, NEW r, r.used = {}
  PROVE  /\ EvalSum2nComplex(r, b).used \subseteq GenerateIndices2nComplex(batchSize)
         /\ EvalSum2nComplexCols(r, b).used \subseteq GenerateIndices2nComplexCols(batchSize)
<1>1. /\ Log2Up(b) \in Nat /\ Log2Up(batchSize) \in Nat /\ Log2Up(b) <= Log2Up(batchSize)
  BY ContextIs, LogGrows DEF ContextFits
<1>2. ASSUME NEW g
      PROVE  Doubled(r, g, Log2Up(b), m).used \subseteq Squarings(g, Log2Up(batchSize), m)
  <2>1. Doubled(r, g, Log2Up(b), m).used = r.used \cup Squarings(g, Log2Up(b), m)
    BY <1>1, DoubledUses
  <2>2. Squarings(g, Log2Up(b), m) \subseteq Squarings(g, Log2Up(batchSize), m)
    BY <1>1, SquaringsGrow
  <2> QED BY <2>1, <2>2
<1> QED
  BY <1>2 DEF EvalSum2nComplex, GenerateIndices2nComplex, EvalSum2nComplexCols,
              GenerateIndices2nComplexCols

\* EvalSum of the others, whose last automorphism depends on the batch.
LEMMA SumHasKeys ==
  ASSUME ContextFits, NEW b \in PowersOfTwo(Slots), b <= batchSize, NEW r, r.used = {}
  PROVE  EvalSum_2n(r, b).used \subseteq GenerateIndices_2n(batchSize)
<1>1. /\ Log2Up(b) \in Nat /\ Log2Up(batchSize) \in Nat
      /\ b = TwoTo[Log2Up(b)] /\ batchSize = TwoTo[Log2Up(batchSize)]
      /\ b < batchSize => Log2Up(b) < Log2Up(batchSize)
  BY ContextIs, LogGrows DEF ContextFits
<1>2. b \in Nat /\ b >= 1 /\ batchSize \in Nat /\ batchSize <= m \div 2 /\ m \in Nat
  BY ContextIs DEF ContextFits
<1>3. CASE ~(b > 1)
  BY <1>3 DEF EvalSum_2n
<1>4. CASE b > 1
  <2> DEFINE k == Log2Up(b) - 1
             l == Log2Up(batchSize) - 1
  <2>1. Log2Up(b) # 0 BY <1>1, <1>4, TwoToIs
  <2>2. k \in Nat /\ batchSize > 1 BY <1>1, <1>2, <1>4, <2>1
  <2>3. l \in Int /\ (b < batchSize => k < l) BY <1>1
  <2>4. EvalSum_2n(r, b) = AddAutomorphism(Doubled(r, 5, k, m), Last2n(b))
    BY <1>4 DEF EvalSum_2n
  <2>5. Doubled(r, 5, k, m).used = Squarings(5, k, m) BY <2>2, DoubledUses
  <2>6. EvalSum_2n(r, b).used = Squarings(5, k, m) \cup {Last2n(b)}
    BY <2>4, <2>5 DEF AddAutomorphism
  <2>7. GenerateIndices_2n(batchSize) = Squarings(5, l, m) \cup {Last2n(batchSize)}
    BY <2>2 DEF GenerateIndices_2n
  <2>8. Last2n(b) = IF 2 * b < m THEN PowerMod(5, TwoTo[k], m) ELSE m - 1
    BY DEF Last2n
  <2> HIDE DEF k, l
  <2>9. CASE b = batchSize
    <3>1. k = l BY <2>9 DEF k, l
    <3> QED BY <2>6, <2>7, <2>9, <3>1
  <2>10. CASE b < batchSize
    <3>1. k < l /\ 2 * b < m BY <1>2, <2>3, <2>10
    <3>2. Squarings(5, k, m) \subseteq Squarings(5, l, m) BY <2>2, <2>3, <3>1, SquaringsGrow
    <3>3. k \in 0 .. l - 1 BY <2>2, <2>3, <3>1
    <3>4. PowerMod(5, TwoTo[k], m) \in Squarings(5, l, m) BY <3>3 DEF Squarings
    <3> QED BY <2>6, <2>7, <2>8, <3>1, <3>2, <3>4
  <2> QED BY <1>2, <2>9, <2>10
<1> QED BY <1>2, <1>3, <1>4

\* The rows that an order has room for.
LEMMA RowsAre ==
  ASSUME NEW order \in CyclotomicOrders, NEW x \in PowersOfTwo(order \div 4)
  PROVE  \E k \in Nat, i \in Nat :
           /\ order = TwoTo[k + 3] /\ x = TwoTo[i] /\ i <= k + 1
           /\ Log2Up(order \div (4 * x)) = (k + 1) - i
<1>1. PICK k \in Nat : order = TwoTo[k + 3] /\ order \div 4 = TwoTo[k + 1] BY OrderIs
<1>2. order \div 4 \in Nat BY <1>1, TwoToIs
<1>3. PICK i \in Nat : x = TwoTo[i] /\ x <= order \div 4 BY <1>2, PowersOfTwoAre
<1>4. i <= k + 1 BY <1>1, <1>3, TwoToOrder
<1>5. 4 * x = TwoTo[i + 2]
  <2>1. TwoTo[i + 1] = 2 * TwoTo[i] /\ TwoTo[(i + 1) + 1] = 2 * TwoTo[i + 1] BY TwoToIs
  <2>2. (i + 1) + 1 = i + 2 /\ TwoTo[i] \in Nat BY TwoToIs
  <2> QED BY <1>3, <2>1, <2>2
<1>6. order \div (4 * x) = TwoTo[(k + 1) - i]
  <2>1. i + 2 \in Nat /\ k + 3 \in Nat /\ i + 2 <= k + 3 /\ (k + 3) - (i + 2) = (k + 1) - i
    BY <1>4
  <2>2. TwoTo[k + 3] \div TwoTo[i + 2] = TwoTo[(k + 3) - (i + 2)] BY <2>1, TwoToQuotient
  <2> QED BY <1>1, <1>5, <2>1, <2>2
<1>7. (k + 1) - i \in Nat BY <1>4
<1>8. Log2Up(order \div (4 * x)) = (k + 1) - i BY <1>6, <1>7, LogOfTwoTo
<1> QED BY <1>1, <1>3, <1>4, <1>8

LEMMA PowersOfFive ==
  ASSUME NEW order \in Nat, order > 1, NEW z \in Nat, NEW e \in Nat
  PROVE  PowerMod(PowerMod(5, z, order), e, order) = PowerMod(5, z * e, order)
<1>1. \A j \in Nat : PowerMod(PowerMod(5, z, order), j, order) = PowerMod(5, z * j, order)
  BY PowerModProduct
<1> QED BY <1>1

\* EvalSumRows: rows that are multiples of those that keys were made for.
LEMMA RowsHaveKeys ==
  ASSUME NEW order \in CyclotomicOrders, NEW x \in PowersOfTwo(order \div 4),
         NEW y \in PowersOfTwo(order \div 4), y % x = 0, NEW r, r.used = {}
  PROVE  EvalSum2nComplexRows(r, y, order).used \subseteq GenerateIndices2nComplexRows(x, order)
<1>0. order \in Nat /\ order > 1 BY OrdersAssumption
<1>1. PICK k \in Nat, i \in Nat :
        order = TwoTo[k + 3] /\ x = TwoTo[i] /\ i <= k + 1
          /\ Log2Up(order \div (4 * x)) = (k + 1) - i
  BY RowsAre
<1>2. PICK k2 \in Nat, j \in Nat :
        order = TwoTo[k2 + 3] /\ y = TwoTo[j] /\ j <= k2 + 1
          /\ Log2Up(order \div (4 * y)) = (k2 + 1) - j
  BY RowsAre
<1>3. k2 = k
  <2>1. k + 3 \in Nat /\ k2 + 3 \in Nat OBVIOUS
  <2>2. TwoTo[k + 3] = TwoTo[k2 + 3] BY <1>1, <1>2
  <2>3. k + 3 = k2 + 3
    <3> DEFINE c == k + 3
               d == k2 + 3
    <3>1. c \in Nat /\ d \in Nat /\ TwoTo[c] = TwoTo[d] BY <2>1, <2>2
    <3> HIDE DEF c, d
    <3>2. c = d BY <3>1, TwoToOrder
    <3> QED BY <3>2 DEF c, d
  <2> QED BY <2>3
<1>4. i <= j
  <2>1. x \in Nat /\ y \in Nat /\ x > 0 /\ y > 0 BY <1>1, <1>2, TwoToPositive
  <2>2. ~(y < x)
    <3>1. y < x => y % x = y BY <2>1
    <3> QED BY <2>1, <3>1
  <2>3. x <= y BY <2>1, <2>2
  <2> QED BY <1>1, <1>2, <2>3, TwoToOrder
<1> DEFINE gx == PowerMod(5, x, order)
           gy == PowerMod(5, y, order)
           a == (k + 1) - i
           b == (k + 1) - j
<1>5. a \in Nat /\ b \in Nat BY <1>1, <1>2, <1>3
<1>6. EvalSum2nComplexRows(r, y, order) = Doubled(r, gy, b, order)
  BY <1>2, <1>3 DEF EvalSum2nComplexRows
<1>7. GenerateIndices2nComplexRows(x, order) = Squarings(gx, a, order)
  BY <1>1 DEF GenerateIndices2nComplexRows
<1>8. EvalSum2nComplexRows(r, y, order).used = Squarings(gy, b, order)
  <2> HIDE DEF gx, gy, a, b
  <2>1. \A g : \A n \in Nat : Doubled(r, g, n, order).used = r.used \cup Squarings(g, n, order)
    BY DoubledUses, ZenonT(60)
  <2>2. Doubled(r, gy, b, order).used = r.used \cup Squarings(gy, b, order)
    BY <1>5, <2>1
  <2> QED BY <1>6, <2>2
<1>9. ASSUME NEW c \in 0 .. b - 1
      PROVE  PowerMod(gy, TwoTo[c], order) \in Squarings(gx, a, order)
  <2> DEFINE d == (j - i) + c
  <2>1. c \in Nat /\ d \in Nat /\ d \in 0 .. a - 1 /\ j + c = i + d BY <1>4, <1>5
  <2>2. TwoTo[j + c] = TwoTo[j] * TwoTo[c] /\ TwoTo[i + d] = TwoTo[i] * TwoTo[d]
    BY <2>1, TwoToSum
  <2>3. y * TwoTo[c] = x * TwoTo[d] BY <1>1, <1>2, <2>1, <2>2
  <2>4. 5 \in Int /\ TwoTo[c] \in Nat /\ TwoTo[d] \in Nat /\ x \in Nat /\ y \in Nat
    BY <1>1, <1>2, <2>1, TwoToIs
  <2>5. PowerMod(gy, TwoTo[c], order) = PowerMod(5, y * TwoTo[c], order)
    BY <1>0, <2>4, PowersOfFive
  <2>6. PowerMod(gx, TwoTo[d], order) = PowerMod(5, x * TwoTo[d], order)
    BY <1>0, <2>4, PowersOfFive, ZenonT(60)
  <2>7. PowerMod(gy, TwoTo[c], order) = PowerMod(gx, TwoTo[d], order)
    BY <2>3, <2>5, <2>6
  <2> HIDE DEF gx, gy, a, d
  <2> QED BY <2>1, <2>7 DEF Squarings
<1>10. \A z \in Squarings(gy, b, order) : \E c \in 0 .. b - 1 : z = PowerMod(gy, TwoTo[c], order)
  BY DEF Squarings
<1> HIDE DEF gx, gy, a, b
<1> QED BY <1>7, <1>8, <1>9, <1>10

\* The only sums without keys are those of one slot.
LEMMA NoSquarings ==
  ASSUME NEW g, NEW order, NEW n \in Nat
  PROVE  Squarings(g, n, order) = {} <=> n = 0
<1>1. 0 .. n - 1 = {} <=> n = 0
  <2>1. n # 0 => 0 \in 0 .. n - 1 OBVIOUS
  <2> QED BY <2>1
<1> QED BY <1>1 DEF Squarings

LEMMA NoSumKeys ==
  ASSUME ContextFits
  PROVE  /\ GenerateIndices2nComplex(batchSize) = {} <=> batchSize = 1
         /\ GenerateIndices2nComplexCols(batchSize) = {} <=> batchSize = 1
         /\ GenerateIndices_2n(batchSize) = {} <=> batchSize = 1
<1>1. Log2Up(batchSize) \in Nat /\ batchSize = TwoTo[Log2Up(batchSize)]
  BY ContextIs, LogGrows DEF ContextFits
<1>2. Log2Up(batchSize) = 0 <=> batchSize = 1
  <2>1. TwoTo[Log2Up(batchSize)] = TwoTo[0] <=> Log2Up(batchSize) = 0 BY <1>1, TwoToOrder
  <2> QED BY <1>1, <2>1, TwoToIs
<1>3. batchSize \in Nat /\ batchSize >= 1 BY ContextIs DEF ContextFits
<1>4. \A g : Squarings(g, Log2Up(batchSize), m) = {} <=> batchSize = 1
  BY <1>1, <1>2, NoSquarings
<1> QED BY <1>3, <1>4 DEF GenerateIndices2nComplex, GenerateIndices2nComplexCols,
                          GenerateIndices_2n

LEMMA NoRowKeys ==
  ASSUME NEW order \in CyclotomicOrders, NEW x \in PowersOfTwo(order \div 4)
  PROVE  GenerateIndices2nComplexRows(x, order) = {} <=> 4 * x = order
<1>1. PICK k \in Nat, i \in Nat :
        order = TwoTo[k + 3] /\ x = TwoTo[i] /\ i <= k + 1
          /\ Log2Up(order \div (4 * x)) = (k + 1) - i
  BY RowsAre
<1>2. (k + 1) - i \in Nat BY <1>1
<1>3. GenerateIndices2nComplexRows(x, order) = {} <=> (k + 1) - i = 0
  BY <1>1, <1>2, NoSquarings DEF GenerateIndices2nComplexRows
<1>4. 4 * x = TwoTo[i + 2]
  <2>1. TwoTo[i + 1] = 2 * TwoTo[i] /\ TwoTo[(i + 1) + 1] = 2 * TwoTo[i + 1] BY TwoToIs
  <2>2. (i + 1) + 1 = i + 2 /\ TwoTo[i] \in Nat BY TwoToIs
  <2> QED BY <1>1, <2>1, <2>2
<1>5. 4 * x = order <=> i + 2 = k + 3
  <2> DEFINE c == i + 2
             d == k + 3
  <2>1. c \in Nat /\ d \in Nat OBVIOUS
  <2>2. 4 * x = TwoTo[c] /\ order = TwoTo[d] BY <1>1, <1>4
  <2> HIDE DEF c, d
  <2>3. TwoTo[c] = TwoTo[d] <=> c = d BY <2>1, TwoToOrder
  <2>4. 4 * x = order <=> c = d BY <2>2, <2>3
  <2> QED BY <2>4 DEF c, d
<1> QED BY <1>3, <1>5

-----------------------------------------------------------------------------
(***************************************************************************)
(* The invariant: the keys are those of one call of a generator, for this  *)
(* context.                                                                *)
(***************************************************************************)
SumIndices ==
  IF scheme = "CKKSRNS" THEN GenerateIndices2nComplex(batchSize) ELSE GenerateIndices_2n(batchSize)

MadeForSums == evalKeyMap = [call |-> Call("EvalSum", batchSize, m), indices |-> SumIndices]

MadeForRows ==
  \E order \in Subrings : \E x \in PowersOfTwo(order \div 4) :
    evalKeyMap = [call |-> Call("EvalSumRows", x, order),
                  indices |-> GenerateIndices2nComplexRows(x, order)]

MadeForShifts ==
  \E i \in Shifts :
    evalKeyMap = [call |-> Call("EvalAtIndex", i, m),
                  indices |-> {FindAutomorphismIndex(i), FindAutomorphismIndex(-i)}]

KeysMade == evalKeyMap = NoKeys \/ MadeForSums \/ MadeForRows \/ MadeForShifts

ColumnKeysMade == evalSumColsKeyMap \in {{}, GenerateIndices2nComplexCols(batchSize)}

SumsInv == ContextFits /\ KeysMade /\ ColumnKeysMade /\ KeysSuffice

LEMMA CallIs ==
  \A op, size, order : /\ Call(op, size, order).op = op
                       /\ Call(op, size, order).size = size
                       /\ Call(op, size, order).order = order
BY DEF Call

\* What the keys of a call are, by the name of the call.
LEMMA KeysByName ==
  ASSUME KeysMade
  PROVE  /\ evalKeyMap.call.op = "EvalSum" =>
              MadeForSums /\ evalKeyMap.call.size = batchSize /\ evalKeyMap.indices = SumIndices
         /\ evalKeyMap.call.op = "EvalSumRows" => MadeForRows
         /\ evalKeyMap.call.op = "EvalAtIndex" => MadeForShifts
<1>1. CASE evalKeyMap = NoKeys BY <1>1, CallIs DEF NoKeys
<1>2. CASE MadeForSums
  <2>1. /\ evalKeyMap.call = Call("EvalSum", batchSize, m)
        /\ evalKeyMap.indices = SumIndices
    BY <1>2 DEF MadeForSums
  <2>2. evalKeyMap.call.op = "EvalSum" /\ evalKeyMap.call.size = batchSize BY <2>1, CallIs
  <2> QED BY <1>2, <2>1, <2>2
<1>3. CASE MadeForRows
  <2>1. evalKeyMap.call.op = "EvalSumRows" BY <1>3, CallIs DEF MadeForRows
  <2> QED BY <1>3, <2>1
<1>4. CASE MadeForShifts
  <2>1. evalKeyMap.call.op = "EvalAtIndex" BY <1>4, CallIs DEF MadeForShifts
  <2> QED BY <1>4, <2>1
<1> QED BY <1>1, <1>2, <1>3, <1>4 DEF KeysMade

\* Generating keys forgets the result.
LEMMA NewKeysKeepInv ==
  ASSUME SumsInv, UNCHANGED context, result' = NoResult, KeysMade', ColumnKeysMade'
  PROVE  SumsInv'
<1>1. ContextFits' BY DEF SumsInv, ContextFits, context, Slots
<1>2. result'.call.op = "none" BY CallIs DEF NoResult
<1>3. KeysSuffice' BY <1>2 DEF KeysSuffice, Covers
<1> QED BY <1>1, <1>3 DEF SumsInv

LEMMA KeyGenKeepsInv ==
  ASSUME SumsInv, KeyGenStep
  PROVE  SumsInv'
<1>1. ASSUME NEW call, NEW indices, NewKeys(call, indices)
      PROVE  /\ evalKeyMap' = [call |-> call, indices |-> indices]
             /\ UNCHANGED context /\ m' = m /\ scheme' = scheme /\ batchSize' = batchSize
             /\ result' = NoResult /\ ColumnKeysMade'
  <2>1. /\ evalKeyMap' = [call |-> call, indices |-> indices]
        /\ m' = m /\ scheme' = scheme /\ batchSize' = batchSize
        /\ result' = NoResult /\ evalSumColsKeyMap' = evalSumColsKeyMap
    BY <1>1 DEF NewKeys, context
  <2>2. ColumnKeysMade'
    BY <2>1 DEF SumsInv, ColumnKeysMade, GenerateIndices2nComplexCols, Squarings, InverseMod,
                Units
  <2> QED BY <2>1, <2>2 DEF context
<1>2. CASE EvalSumKeyGen
  <2>1. MadeForSums'
    BY <1>1, <1>2 DEF EvalSumKeyGen, MadeForSums, SumIndices, GenerateIndices2nComplex,
                      GenerateIndices_2n, Squarings, Last2n
  <2> QED BY <1>1, <1>2, <2>1, NewKeysKeepInv DEF EvalSumKeyGen, KeysMade
<1>3. CASE EvalSumColsKeyGen
  <2>1. ColumnKeysMade'
    BY <1>3 DEF EvalSumColsKeyGen, ColumnKeysMade, context, GenerateIndices2nComplexCols,
                Squarings, InverseMod, Units
  <2>2. KeysMade'
    BY <1>3 DEF EvalSumColsKeyGen, SumsInv, KeysMade, context, MadeForSums, MadeForRows,
                MadeForShifts, SumIndices, GenerateIndices2nComplex, GenerateIndices_2n, Squarings,
                Last2n, Subrings, Shifts, Slots, FindAutomorphismIndex, FindAutomorphismIndex2n,
                FindAutomorphismIndex2nComplex, InverseMod, Units
  <2> QED BY <1>3, <2>1, <2>2, NewKeysKeepInv DEF EvalSumColsKeyGen
<1>4. ASSUME NEW order \in Subrings, NEW x \in PowersOfTwo(order \div 4),
             EvalSumRowsKeyGen(x, order)
      PROVE  SumsInv'
  <2>1. order \in Subrings' BY <1>1, <1>4 DEF EvalSumRowsKeyGen, Subrings
  <2>2. MadeForRows'
    BY <1>1, <1>4, <2>1 DEF EvalSumRowsKeyGen, MadeForRows
  <2> QED BY <1>1, <1>4, <2>2, NewKeysKeepInv DEF EvalSumRowsKeyGen, KeysMade
<1>5. ASSUME NEW i \in Shifts, EvalAtIndexKeyGen(i)
      PROVE  SumsInv'
  <2>1. MadeForShifts'
    BY <1>1, <1>5 DEF EvalAtIndexKeyGen, MadeForShifts, Shifts, Slots, FindAutomorphismIndex,
                      FindAutomorphismIndex2n, FindAutomorphismIndex2nComplex, InverseMod, Units
  <2> QED BY <1>1, <1>5, <2>1, NewKeysKeepInv DEF EvalAtIndexKeyGen, KeysMade
<1> QED BY <1>2, <1>3, <1>4, <1>5 DEF KeyGenStep

\* A call is fine if it finds every key whenever it is covered, in maps that are empty
\* for the sums of one slot only.
LEMMA ReturnsKeepInv ==
  ASSUME SumsInv, NEW call, NEW value, NEW maps, NEW hasKeys \in BOOLEAN,
         Returns(call, value, maps, hasKeys),
         Covers(evalKeyMap.call, call) => hasKeys /\ ({} \in maps <=> SumsOneSlot(evalKeyMap.call))
  PROVE  SumsInv'
<1>1. /\ m' = m /\ scheme' = scheme /\ batchSize' = batchSize
      /\ evalKeyMap' = evalKeyMap /\ evalSumColsKeyMap' = evalSumColsKeyMap
  BY DEF Returns, context
<1>2. ContextFits' BY <1>1 DEF SumsInv, ContextFits, Slots
<1>3. KeysMade'
  BY <1>1 DEF SumsInv, KeysMade, MadeForSums, MadeForRows,
              MadeForShifts, SumIndices, GenerateIndices2nComplex, GenerateIndices_2n, Squarings,
              Last2n, Subrings, Shifts, Slots, FindAutomorphismIndex, FindAutomorphismIndex2n,
              FindAutomorphismIndex2nComplex, InverseMod, Units
<1>4. ColumnKeysMade'
  BY <1>1 DEF SumsInv, ColumnKeysMade, GenerateIndices2nComplexCols, Squarings, InverseMod, Units
<1>5. KeysSuffice'
  <2> DEFINE status == IF {} \in maps THEN "config_error"
                       ELSE IF hasKeys THEN "ok" ELSE "out_of_range"
  <2>1. result'.call = call /\ result'.status = status BY DEF Returns
  <2>2. Covers(evalKeyMap.call, call)' => Covers(evalKeyMap.call, call)
    BY <1>1 DEF Covers
  <2>3. SUFFICES ASSUME Covers(evalKeyMap.call, result.call)'
                 PROVE  result'.status = IF SumsOneSlot(evalKeyMap.call) THEN "config_error"
                                         ELSE "ok"
    BY <1>1 DEF KeysSuffice, SumsOneSlot
  <2>4. Covers(evalKeyMap.call, call) BY <1>1, <2>1, <2>3 DEF Covers
  <2> QED BY <2>1, <2>4
<1> QED BY <1>2, <1>3, <1>4, <1>5 DEF SumsInv

\* A doubled element still has the automorphisms that were applied to it.
LEMMA DoubledIsRecord ==
  ASSUME NEW r, "used" \in DOMAIN r, NEW g, NEW order, NEW n \in Nat
  PROVE  "used" \in DOMAIN Doubled(r, g, n, order)
<1>1. CASE n = 0
  <2>1. Doubled(r, g, 0, order) = r BY DoubledStep
  <2> QED BY <1>1, <2>1
<1>2. CASE n # 0
  <2> DEFINE k == n - 1
  <2>1. k \in Nat /\ n = k + 1 BY <1>2
  <2> HIDE DEF k
  <2>2. Doubled(r, g, k + 1, order)
          = AddAutomorphism(Doubled(r, g, k, order), PowerMod(g, TwoTo[k], order))
    BY <2>1, DoubledStep
  <2> QED BY <2>1, <2>2 DEF AddAutomorphism
<1> QED BY <1>1, <1>2

LEMMA MaskedUsesNone ==
  ASSUME ContextFits, NEW b \in PowersOfTwo(Slots)
  PROVE  [Masked(EvalSum2nComplex(Input(m), b), b) EXCEPT !.used = {}].used = {}
<1>1. "used" \in DOMAIN Input(m) BY DEF Input
<1>2. Log2Up(b) \in Nat BY ContextIs, LogGrows
<1>3. "used" \in DOMAIN EvalSum2nComplex(Input(m), b)
  BY <1>1, <1>2, DoubledIsRecord DEF EvalSum2nComplex
<1>4. "used" \in DOMAIN Masked(EvalSum2nComplex(Input(m), b), b)
  BY <1>3 DEF Masked
<1> QED BY <1>4

LEMMA CallKeepsInv ==
  ASSUME SumsInv, CallStep
  PROVE  SumsInv'
<1> DEFINE made == evalKeyMap.call
           keys == evalKeyMap.indices
<1>0. ContextFits /\ KeysMade /\ ColumnKeysMade BY DEF SumsInv
<1>1. ASSUME NEW b \in PowersOfTwo(Slots), EvalSum(b) PROVE SumsInv'
  <2> DEFINE call == Call("EvalSum", b, m)
             sum == IF scheme = "CKKSRNS" THEN EvalSum2nComplex(Input(m), b)
                    ELSE EvalSum_2n(Input(m), b)
  <2>1. Returns(call, sum.value, {keys}, sum.used \subseteq keys) BY <1>1 DEF EvalSum, ReturnsSum
  <2>2. ASSUME Covers(made, call)
        PROVE  sum.used \subseteq keys /\ ({} \in {keys} <=> SumsOneSlot(made))
    <3>1. made.op = "EvalSum" /\ b <= made.size BY <2>2, CallIs DEF Covers
    <3>2. b <= batchSize /\ keys = SumIndices BY <1>0, <3>1, KeysByName
    <3>3. EvalSum2nComplex(Input(m), b).used \subseteq GenerateIndices2nComplex(batchSize)
      BY <1>0, <3>2, ComplexSumHasKeys, InputUsesNone
    <3>4. EvalSum_2n(Input(m), b).used \subseteq GenerateIndices_2n(batchSize)
      BY <1>0, <3>2, SumHasKeys, InputUsesNone
    <3>5. sum.used \subseteq keys BY <3>2, <3>3, <3>4 DEF SumIndices
    <3>6. keys = {} <=> batchSize = 1 BY <1>0, <3>2, NoSumKeys DEF SumIndices
    <3>7. made.size = batchSize BY <1>0, <3>1, KeysByName
    <3>8. SumsOneSlot(made) <=> batchSize = 1 BY <3>1, <3>7 DEF SumsOneSlot
    <3> QED BY <3>5, <3>6, <3>8
  <2> HIDE DEF call, sum, made, keys
  <2> QED BY <2>1, <2>2, ReturnsKeepInv DEF made
<1>2. ASSUME NEW b \in PowersOfTwo(Slots), EvalSumCols(b) PROVE SumsInv'
  <2> DEFINE call == Call("EvalSumCols", b, m)
             sums == EvalSum2nComplex(Input(m), b)
             cols == EvalSum2nComplexCols([Masked(sums, b) EXCEPT !.used = {}], b)
             found == sums.used \subseteq keys /\ cols.used \subseteq evalSumColsKeyMap
             maps == {keys, evalSumColsKeyMap}
  <2>1. scheme = "CKKSRNS" /\ Returns(call, cols.value, maps, found) BY <1>2 DEF EvalSumCols
  <2>2. ASSUME Covers(made, call) PROVE found /\ ({} \in maps <=> SumsOneSlot(made))
    <3>1. made.op = "EvalSum" /\ b <= made.size /\ evalSumColsKeyMap # {}
      BY <2>2, CallIs DEF Covers
    <3>2. b <= batchSize /\ keys = GenerateIndices2nComplex(batchSize)
      BY <1>0, <2>1, <3>1, KeysByName DEF SumIndices
    <3>3. evalSumColsKeyMap = GenerateIndices2nComplexCols(batchSize)
      BY <1>0, <3>1 DEF ColumnKeysMade
    <3>4. sums.used \subseteq GenerateIndices2nComplex(batchSize)
      BY <1>0, <3>2, ComplexSumHasKeys, InputUsesNone
    <3>5. [Masked(sums, b) EXCEPT !.used = {}].used = {} BY <1>0, MaskedUsesNone
    <3>6. cols.used \subseteq GenerateIndices2nComplexCols(batchSize)
      BY <1>0, <3>2, <3>5, ComplexSumHasKeys
    <3>7. keys # {} /\ batchSize # 1 BY <1>0, <3>1, <3>2, <3>3, NoSumKeys
    <3>8. ~SumsOneSlot(made)
      <4>1. made.size = batchSize BY <1>0, <3>1, KeysByName
      <4> QED BY <3>1, <3>7, <4>1 DEF SumsOneSlot
    <3> QED BY <3>1, <3>2, <3>3, <3>4, <3>6, <3>7, <3>8
  <2>3. found \in BOOLEAN OBVIOUS
  <2> HIDE DEF call, sums, cols, maps, found, made, keys
  <2> QED BY <2>1, <2>2, <2>3, ReturnsKeepInv DEF made
<1>3. ASSUME NEW order \in Subrings, NEW y \in PowersOfTwo(order \div 4), EvalSumRows(y, order)
      PROVE  SumsInv'
  <2> DEFINE call == Call("EvalSumRows", y, order)
             sum == EvalSum2nComplexRows(Input(order), y, order)
  <2>1. Returns(call, sum.value, {keys}, sum.used \subseteq keys)
    BY <1>3 DEF EvalSumRows, ReturnsSum
  <2>2. ASSUME Covers(made, call)
        PROVE  sum.used \subseteq keys /\ ({} \in {keys} <=> SumsOneSlot(made))
    <3>1. made.op = "EvalSumRows" /\ made.order = order /\ y % made.size = 0
      BY <2>2, CallIs DEF Covers
    <3>2. PICK given \in Subrings : \E x \in PowersOfTwo(given \div 4) :
            evalKeyMap = [call |-> Call("EvalSumRows", x, given),
                          indices |-> GenerateIndices2nComplexRows(x, given)]
      BY <1>0, <3>1, KeysByName DEF MadeForRows
    <3>6. PICK x \in PowersOfTwo(given \div 4) :
            evalKeyMap = [call |-> Call("EvalSumRows", x, given),
                          indices |-> GenerateIndices2nComplexRows(x, given)]
      BY <3>2
    <3>3. made.order = given /\ made.size = x /\ keys = GenerateIndices2nComplexRows(x, given)
      BY <3>6, CallIs
    <3>4. given = order /\ y % x = 0 BY <3>1, <3>3
    <3>5. order \in CyclotomicOrders /\ x \in PowersOfTwo(order \div 4) BY <3>4 DEF Subrings
    <3>7. sum.used \subseteq keys BY <3>3, <3>4, <3>5, RowsHaveKeys, InputUsesNone
    <3>8. keys = {} <=> 4 * x = order BY <3>3, <3>4, <3>5, NoRowKeys
    <3>9. SumsOneSlot(made) <=> 4 * x = order BY <3>1, <3>3 DEF SumsOneSlot
    <3> QED BY <3>7, <3>8, <3>9
  <2> HIDE DEF call, sum, made, keys
  <2> QED BY <2>1, <2>2, ReturnsKeepInv DEF made
<1>4. ASSUME NEW i \in Shifts, EvalAtIndex(i) PROVE SumsInv'
  <2> DEFINE call == Call("EvalAtIndex", i, m)
             k == FindAutomorphismIndex(i)
             moved == [e \in Units(m) |-> Input(m).value[(e * k) % m]]
             maps == IF i = 0 THEN {} ELSE {keys}
             found == i = 0 \/ k \in keys
  <2>1. Returns(call, moved, maps, found) BY <1>4 DEF EvalAtIndex
  <2>2. ASSUME Covers(made, call) PROVE found /\ ({} \in maps <=> SumsOneSlot(made))
    <3>1. made.op = "EvalAtIndex" /\ i \in {made.size, -made.size}
      BY <2>2, CallIs DEF Covers
    <3>2. PICK s \in Shifts :
            evalKeyMap = [call |-> Call("EvalAtIndex", s, m),
                          indices |-> {FindAutomorphismIndex(s), FindAutomorphismIndex(-s)}]
      BY <1>0, <3>1, KeysByName DEF MadeForShifts
    <3>3. made.size = s /\ keys = {FindAutomorphismIndex(s), FindAutomorphismIndex(-s)}
      BY <3>2, CallIs
    <3>4. i = s \/ i = -s BY <3>1, <3>3
    <3>5. found BY <3>3, <3>4
    <3>6. {} \notin maps BY <3>3
    <3>7. ~SumsOneSlot(made) BY <3>1 DEF SumsOneSlot
    <3> QED BY <3>5, <3>6, <3>7
  <2>3. found \in BOOLEAN OBVIOUS
  <2> HIDE DEF call, k, moved, maps, found, made, keys
  <2> QED BY <2>1, <2>2, <2>3, ReturnsKeepInv DEF made
<1>5. ASSUME AddMany PROVE SumsInv'
  <2>1. ASSUME NEW op \in {"EvalAddMany", "EvalAddManyInPlace"}, NEW size, NEW order, NEW value,
               Returns(Call(op, size, order), value, {}, TRUE)
        PROVE  SumsInv'
    <3>1. ~Covers(made, Call(op, size, order)) BY <2>1, CallIs DEF Covers
    <3> HIDE DEF made
    <3> QED BY <2>1, <3>1, ReturnsKeepInv DEF made
  <2> QED BY <1>5, <2>1 DEF AddMany
<1> QED BY <1>1, <1>2, <1>3, <1>4, <1>5 DEF CallStep

(***************************************************************************)
(* The keys a program generated for a call are enough for it, in rings and *)
(* subrings of every order and for batches of every size: EvalSum,         *)
(* EvalSumRows, EvalSumCols and EvalAtIndex use no automorphism that their *)
(* generators of indices left out.  The calls refused are exactly the sums *)
(* of one slot, for which the generators make an empty map (KeysSuffice).  *)
(***************************************************************************)
THEOREM GeneratedKeysSuffice == SumsSpec => []KeysSuffice
<1>1. SumsInit => SumsInv
  <2> SUFFICES ASSUME SumsInit PROVE SumsInv OBVIOUS
  <2>1. result.call.op = "none" BY CallIs DEF SumsInit, NoResult
  <2>2. KeysSuffice BY <2>1 DEF KeysSuffice, Covers
  <2> QED BY <2>2 DEF SumsInit, SumsInv, ContextFits, KeysMade, ColumnKeysMade
<1>2. SumsInv /\ [SumsNext]_sumsVars => SumsInv'
  <2> SUFFICES ASSUME SumsInv, [SumsNext]_sumsVars PROVE SumsInv' OBVIOUS
  <2>1. CASE SumsNext BY <2>1, KeyGenKeepsInv, CallKeepsInv DEF SumsNext
  <2>2. CASE UNCHANGED sumsVars
    BY <2>2 DEF sumsVars, SumsInv, ContextFits, KeysMade, ColumnKeysMade, KeysSuffice, Covers,
                SumsOneSlot, MadeForSums, MadeForRows, MadeForShifts, SumIndices, GenerateIndices2nComplex,
                GenerateIndices2nComplexCols, GenerateIndices_2n, Squarings, Last2n, Subrings,
                Shifts, Slots, FindAutomorphismIndex, FindAutomorphismIndex2n,
                FindAutomorphismIndex2nComplex, InverseMod, Units
  <2> QED BY <2>1, <2>2
<1>3. SumsInv => KeysSuffice BY DEF SumsInv
<1> QED BY <1>1, <1>2, <1>3, PTL DEF SumsSpec

-----------------------------------------------------------------------------
(***************************************************************************)
(* What the sums are.  The odd numbers modulo a power of two are, up to    *)
(* the sign, the powers of 5: the rows of slots.                           *)
(***************************************************************************)
LEMMA ModOfMod ==
  ASSUME NEW p \in Nat, p > 0, NEW q \in Nat, q > 0, NEW x \in Int
  PROVE  (x % (q * p)) % p = x % p
<1> DEFINE o == q * p
           d == x \div o
           r == x % o
<1>1. o \in Nat /\ o > 0
  <2>1. q >= 1 /\ p >= 1 => q * p >= 1 OBVIOUS
  <2> QED BY <2>1
<1> HIDE DEF o
<1>2. r \in Int /\ d \in Int /\ x = d * o + r BY <1>1, DividedInto
<1> HIDE DEF d, r
<1>3. d * o = (d * q) * p BY <1>2 DEF o
<1>4. x = r + (d * q) * p /\ d * q \in Int BY <1>1, <1>2, <1>3
<1>5. x % p = r % p BY <1>2, <1>4, SameMod
<1> QED BY <1>5 DEF r, o

LEMMA LowMod ==
  ASSUME NEW i \in Nat, NEW j \in Nat, i <= j, NEW x \in Int
  PROVE  (x % TwoTo[j]) % TwoTo[i] = x % TwoTo[i]
<1>1. j - i \in Nat /\ (j - i) + i = j OBVIOUS
<1>2. TwoTo[j] = TwoTo[j - i] * TwoTo[i] BY <1>1, TwoToSum
<1>3. TwoTo[j - i] \in Nat /\ TwoTo[j - i] > 0 /\ TwoTo[i] \in Nat /\ TwoTo[i] > 0
  BY <1>1, TwoToPositive
<1> DEFINE q == TwoTo[j - i]
           p == TwoTo[i]
<1>4. TwoTo[j] = q * p /\ q \in Nat /\ q > 0 /\ p \in Nat /\ p > 0 BY <1>2, <1>3
<1> HIDE DEF q, p
<1>5. (x % (q * p)) % p = x % p BY <1>4, ModOfMod
<1> QED BY <1>4, <1>5 DEF p

LEMMA SameProduct ==
  ASSUME NEW o \in Nat, o > 0, NEW x \in Int, NEW y \in Int, NEW u \in Int, NEW v \in Int,
         x % o = u % o, y % o = v % o
  PROVE  (x * y) % o = (u * v) % o
<1>1. (x * y) % o = ((x % o) * y) % o BY ModOfProduct
<1>2. (u * y) % o = ((u % o) * y) % o BY ModOfProduct
<1>3. (u * y) % o = (u * (y % o)) % o BY ModOfProduct
<1>4. (u * v) % o = (u * (v % o)) % o BY ModOfProduct
<1> QED BY <1>1, <1>2, <1>3, <1>4

LEMMA SameDifference ==
  ASSUME NEW o \in Nat, o > 0, NEW x \in Int, NEW y \in Int
  PROVE  (x - y) % o = 0 <=> x % o = y % o
<1> DEFINE rx == x % o
           ry == y % o
           dx == x \div o
           dy == y \div o
           rz == (x - y) % o
           dz == (x - y) \div o
<1>1. rx \in 0 .. o - 1 /\ dx \in Int /\ x = dx * o + rx BY DividedInto
<1>2. ry \in 0 .. o - 1 /\ dy \in Int /\ y = dy * o + ry BY DividedInto
<1>3. rz \in 0 .. o - 1 /\ dz \in Int /\ x - y = dz * o + rz BY DividedInto
<1> HIDE DEF rx, ry, dx, dy, rz, dz
<1>4. rz = 0 => rx = ry
  <2> SUFFICES ASSUME rz = 0 PROVE rx = ry OBVIOUS
  <2>1. x = y + dz * o BY <1>3
  <2>2. x % o = y % o BY <1>3, <2>1, SameMod
  <2> QED BY <2>2 DEF rx, ry
<1>5. rx = ry => rz = 0
  <2> SUFFICES ASSUME rx = ry PROVE rz = 0 OBVIOUS
  <2>1. x - y = 0 + (dx - dy) * o BY <1>1, <1>2
  <2>2. (x - y) % o = 0 % o BY <1>1, <1>2, <2>1, SameMod
  <2> QED BY <2>2 DEF rz
<1> QED BY <1>4, <1>5 DEF rx, ry, rz

LEMMA Multiples ==
  ASSUME NEW o \in Nat, o > 0, NEW x \in Int
  PROVE  /\ (x * o) % o = 0
         /\ x % o = 0 => \E k \in Int : x = k * o
<1>1. (x * o) % o = 0
  <2>1. x * o = 0 + x * o /\ x * o \in Int /\ 0 \in Int /\ 0 % o = 0 OBVIOUS
  <2> QED BY <2>1, SameMod
<1>2. ASSUME x % o = 0 PROVE x = (x \div o) * o /\ x \div o \in Int
  <2> DEFINE d == x \div o
             r == x % o
  <2>1. d \in Int /\ x = d * o + r /\ r = 0 BY <1>2, DividedInto
  <2> HIDE DEF d, r
  <2>2. x = d * o BY <2>1
  <2> QED BY <2>1, <2>2 DEF d
<1> QED BY <1>1, <1>2

LEMMA OddTimes ==
  ASSUME NEW x \in Int, NEW y \in Int
  PROVE  /\ x % 2 = 1 /\ y % 2 = 1 => (x * y) % 2 = 1
         /\ x % 2 = 1 /\ (x * y) % 2 = 0 => y % 2 = 0
<1>1. ASSUME x % 2 = 1, y % 2 = 1 PROVE (x * y) % 2 = 1
  <2> DEFINE h == x \div 2
             c == h * y
             z == x * y
  <2>1. h \in Int /\ x = 2 * h + 1 BY <1>1
  <2> HIDE DEF h
  <2>2. z = y + c * 2 /\ c \in Int /\ z \in Int BY <2>1
  <2> HIDE DEF c, z
  <2>3. z % 2 = y % 2 BY <2>2
  <2> USE DEF z
  <2> QED BY <1>1, <2>3
<1>2. y % 2 \in {0, 1} OBVIOUS
<1> QED BY <1>1, <1>2

\* An odd factor can be cancelled.
LEMMA OddCancels ==
  ASSUME NEW e \in Int, e % 2 = 1, NEW k \in Nat, NEW x \in Int, NEW y \in Int,
         (e * x) % TwoTo[k] = (e * y) % TwoTo[k]
  PROVE  x % TwoTo[k] = y % TwoTo[k]
<1> DEFINE S == {n \in Nat : \A z \in Int : (e * z) % TwoTo[n] = 0 => z % TwoTo[n] = 0}
<1>1. 0 \in S
  <2>1. TwoTo[0] = 1 /\ \A z \in Int : z % 1 = 0 BY TwoToIs
  <2> QED BY <2>1
<1>2. ASSUME NEW n \in Nat, n \in S PROVE n + 1 \in S
  <2> SUFFICES ASSUME NEW z \in Int, (e * z) % TwoTo[n + 1] = 0 PROVE z % TwoTo[n + 1] = 0
    OBVIOUS
  <2> DEFINE p == TwoTo[n]
             d == (e * z) \div TwoTo[n + 1]
             h == z \div 2
  <2>1. p \in Nat /\ p > 0 /\ TwoTo[n + 1] = 2 * p BY TwoToIs, TwoToPositive
  <2>2. e * z \in Int /\ TwoTo[n + 1] \in Nat /\ TwoTo[n + 1] > 0 BY <2>1
  <2>3. d \in Int /\ e * z = d * (2 * p)
    <3>1. d \in Int /\ e * z = d * TwoTo[n + 1] + ((e * z) % TwoTo[n + 1]) BY <2>2, DividedInto
    <3>2. d * TwoTo[n + 1] \in Int BY <2>2, <3>1
    <3> QED BY <2>1, <3>1, <3>2
  <2> HIDE DEF d, p
  <2>4. e * z = 0 + (d * p) * 2 BY <2>1, <2>3
  <2>5. (e * z) % 2 = 0
    <3>1. d * p \in Int BY <2>1, <2>3
    <3> QED BY <2>4, <3>1
  <2>6. z = 2 * h /\ h \in Int
    <3>1. z % 2 = 0 BY <2>5, OddTimes
    <3> QED BY <3>1
  <2> HIDE DEF h
  <2>7. e * h = d * p
    <3>1. e * z = 2 * (e * h) BY <2>6
    <3>2. 2 * (e * h) = 2 * (d * p) BY <2>1, <2>3, <2>4, <3>1
    <3>3. e * h \in Int /\ d * p \in Int BY <2>1, <2>3, <2>6
    <3> QED BY <3>2, <3>3
  <2>8. (e * h) % p = 0 BY <2>1, <2>3, <2>7, Multiples
  <2>9. h % p = 0 BY <1>2, <2>6, <2>8 DEF p
  <2>10. \E c \in Int : h = c * p BY <2>1, <2>6, <2>9, Multiples
  <2>11. PICK c \in Int : h = c * p BY <2>10
  <2>12. z = c * TwoTo[n + 1] BY <2>1, <2>6, <2>11
  <2> QED BY <2>2, <2>12, Multiples
<1> HIDE DEF S
<1>3. k \in S BY <1>1, <1>2, SetInduction
<1>4. TwoTo[k] \in Nat /\ TwoTo[k] > 0 BY TwoToPositive
<1>5. e * (x - y) = e * x - e * y /\ x - y \in Int /\ e * x \in Int /\ e * y \in Int OBVIOUS
<1>6. (e * x - e * y) % TwoTo[k] = 0 BY <1>4, <1>5, SameDifference
<1>7. (x - y) % TwoTo[k] = 0 BY <1>3, <1>5, <1>6 DEF S
<1> QED BY <1>4, <1>7, SameDifference

\* Powers of 5 modulo powers of two.
Five(j, n) == PowerMod(5, j, TwoTo[n])

LEMMA FiveIs ==
  ASSUME NEW n \in Nat, n >= 1
  PROVE  /\ Five(0, n) = 1
         /\ \A j \in Nat : /\ Five(j, n) \in 0 .. TwoTo[n] - 1
                           /\ Five(j + 1, n) = (Five(j, n) * 5) % TwoTo[n]
         /\ \A i, j \in Nat : Five(i + j, n) = (Five(i, n) * Five(j, n)) % TwoTo[n]
<1>1. TwoTo[n] \in Nat /\ TwoTo[n] > 1 /\ 5 \in Int BY TwoToPositive
<1>2. /\ Five(0, n) = 1
      /\ \A j \in Nat : Five(j + 1, n) = (Five(j, n) * 5) % TwoTo[n]
  BY PowerModStep DEF Five
<1>3. \A j \in Nat : Five(j, n) \in 0 .. TwoTo[n] - 1 BY <1>1, PowerModType DEF Five
<1>4. \A i, j \in Nat : Five(i + j, n) = (Five(i, n) * Five(j, n)) % TwoTo[n]
  BY <1>1, PowerModSum DEF Five
<1> QED BY <1>2, <1>3, <1>4

LEMMA FiveType ==
  ASSUME NEW n \in Nat, n >= 1, NEW j \in Nat
  PROVE  Five(j, n) \in Nat /\ Five(j, n) < TwoTo[n] /\ TwoTo[n] \in Nat /\ TwoTo[n] > 1
<1>1. \A i \in Nat : Five(i, n) \in 0 .. TwoTo[n] - 1 BY FiveIs
<1>2. Five(j, n) \in 0 .. TwoTo[n] - 1 BY <1>1
<1>3. TwoTo[n] \in Nat /\ TwoTo[n] > 1 BY TwoToPositive
<1> QED BY <1>2, <1>3

LEMMA FiveLow ==
  ASSUME NEW n \in Nat, NEW i \in Nat, 1 <= i, i <= n
  PROVE  \A j \in Nat : Five(j, n) % TwoTo[i] = Five(j, i)
<1> DEFINE S == {j \in Nat : Five(j, n) % TwoTo[i] = Five(j, i)}
<1>0. /\ n >= 1 /\ TwoTo[i] \in Nat /\ TwoTo[i] > 1 /\ TwoTo[n] \in Nat /\ TwoTo[n] > 1
  BY TwoToPositive
<1>1. 0 \in S
  <2>1. Five(0, n) = 1 /\ Five(0, i) = 1 BY <1>0, FiveIs
  <2> QED BY <1>0, <2>1
<1>2. ASSUME NEW j \in Nat, j \in S PROVE j + 1 \in S
  <2> DEFINE x == Five(j, n)
             y == Five(j, i)
  <2>1. x \in Int /\ y \in Int /\ x % TwoTo[i] = y BY <1>0, <1>2, FiveIs
  <2>2. Five(j + 1, n) = (x * 5) % TwoTo[n] /\ Five(j + 1, i) = (y * 5) % TwoTo[i]
    BY <1>0, FiveIs
  <2> HIDE DEF x, y
  <2>3. ((x * 5) % TwoTo[n]) % TwoTo[i] = (x * 5) % TwoTo[i]
    <3>1. x * 5 \in Int BY <2>1
    <3> QED BY <3>1, LowMod
  <2>4. (x * 5) % TwoTo[i] = ((x % TwoTo[i]) * 5) % TwoTo[i]
    <3> DEFINE f == 5
               o == TwoTo[i]
    <3>1. f \in Int /\ o \in Nat /\ o > 0 BY <1>0
    <3> HIDE DEF f, o
    <3>2. ((x % o) * f) % o = (x * f) % o BY <2>1, <3>1, ModOfProduct
    <3> QED BY <3>2 DEF f, o
  <2> QED BY <2>1, <2>2, <2>3, <2>4
<1> HIDE DEF S
<1>3. \A j \in Nat : j \in S BY <1>1, <1>2, SetInduction
<1> QED BY <1>3 DEF S

LEMMA SmallPowersOfTwo == TwoTo[1] = 2 /\ TwoTo[2] = 4 /\ TwoTo[3] = 8
<1>1. TwoTo[0 + 1] = 2 * TwoTo[0] /\ TwoTo[1 + 1] = 2 * TwoTo[1] /\ TwoTo[2 + 1] = 2 * TwoTo[2]
  BY TwoToIs
<1> QED BY <1>1, TwoToIs

LEMMA FiveIsOdd ==
  ASSUME NEW n \in Nat, n >= 2, NEW j \in Nat
  PROVE  Five(j, n) % 4 = 1 /\ Five(j, n) % 2 = 1 /\ Five(j, n) \in Nat
<1> DEFINE S == {i \in Nat : Five(i, 2) = 1}
<1>1. 0 \in S BY FiveIs
<1>2. ASSUME NEW i \in Nat, i \in S PROVE i + 1 \in S
  <2>1. Five(i + 1, 2) = (Five(i, 2) * 5) % TwoTo[2] BY FiveIs
  <2> QED BY <1>2, <2>1, SmallPowersOfTwo
<1> HIDE DEF S
<1>3. j \in S BY <1>1, <1>2, SetInduction
<1>4. Five(j, n) % TwoTo[2] = 1
  <2>1. 2 \in Nat /\ 1 <= 2 OBVIOUS
  <2>2. Five(j, n) % TwoTo[2] = Five(j, 2) BY <2>1, FiveLow
  <2> QED BY <1>3, <2>2 DEF S
<1>5. Five(j, n) \in Nat
  <2>1. n >= 1 OBVIOUS
  <2> QED BY <2>1, FiveType
<1>6. Five(j, n) \in Nat /\ Five(j, n) % 4 = 1 BY <1>4, <1>5, SmallPowersOfTwo
<1> QED BY <1>6

\* 5 to the power of 2^n is 1 + 2^(n + 2), up to multiples of 2^(n + 3).
LEMMA FiveSquared == \A n \in Nat : Five(TwoTo[n], n + 3) = 1 + TwoTo[n + 2]
<1> DEFINE S == {n \in Nat : Five(TwoTo[n], n + 3) = 1 + TwoTo[n + 2]}
<1>1. 0 \in S
  <2>1. Five(0 + 1, 3) = (Five(0, 3) * 5) % TwoTo[3] /\ Five(0, 3) = 1 BY FiveIs
  <2>2. 0 + 1 = 1 /\ 0 + 3 = 3 /\ 0 + 2 = 2 /\ TwoTo[0] = 1 BY TwoToIs
  <2> QED BY <2>1, <2>2, SmallPowersOfTwo
<1>2. ASSUME NEW n \in Nat, n \in S PROVE n + 1 \in S
  <2> DEFINE x == Five(TwoTo[n], n + 4)
             p == TwoTo[n + 2]
             h == TwoTo[n]
             c == x \div (2 * p)
             t == 1 + 2 * c
             d == c + h * (t * t)
             z == x * x
  <2>1. h \in Nat /\ h > 0 /\ p = 4 * h /\ TwoTo[n + 3] = 2 * p /\ TwoTo[n + 4] = 4 * p
    <3>1. /\ TwoTo[n + 1] = 2 * TwoTo[n] /\ TwoTo[(n + 1) + 1] = 2 * TwoTo[n + 1]
          /\ TwoTo[(n + 2) + 1] = 2 * TwoTo[n + 2] /\ TwoTo[(n + 3) + 1] = 2 * TwoTo[n + 3]
      BY TwoToIs
    <3>2. (n + 1) + 1 = n + 2 /\ (n + 2) + 1 = n + 3 /\ (n + 3) + 1 = n + 4 OBVIOUS
    <3>3. TwoTo[n] \in Nat /\ TwoTo[n] > 0 BY TwoToPositive
    <3> QED BY <3>1, <3>2, <3>3
  <2>2. x \in Nat
    <3>1. n + 4 \in Nat /\ n + 4 >= 1 OBVIOUS
    <3> QED BY <2>1, <3>1, FiveType
  <2>3. x % (2 * p) = 1 + p
    <3>1. n + 4 \in Nat /\ n + 3 \in Nat /\ 1 <= n + 3 /\ n + 3 <= n + 4 OBVIOUS
    <3>2. x % TwoTo[n + 3] = Five(TwoTo[n], n + 3) BY <2>1, <3>1, FiveLow
    <3> QED BY <1>2, <2>1, <3>2
  <2>4. Five(TwoTo[n + 1], n + 4) = z % (4 * p)
    <3>1. TwoTo[n + 1] = TwoTo[n] + TwoTo[n] /\ TwoTo[n] \in Nat BY TwoToIs
    <3>2. n + 4 \in Nat /\ n + 4 >= 1 OBVIOUS
    <3>3. Five(TwoTo[n] + TwoTo[n], n + 4) = (x * x) % TwoTo[n + 4] BY <3>1, <3>2, FiveIs
    <3> QED BY <2>1, <3>1, <3>3
  <2>5. c \in Int /\ x = c * (2 * p) + (1 + p)
    <3> DEFINE o == 2 * p
    <3>1. o \in Nat /\ o > 0 /\ x \in Int BY <2>1, <2>2
    <3> HIDE DEF o
    <3>2. x \div o \in Int /\ x = (x \div o) * o + (x % o) BY <3>1, DividedInto
    <3> QED BY <2>3, <3>2 DEF o
  <2> HIDE DEF x, p, h, c
  <2>6. p \in Nat /\ t \in Int /\ x = 1 + p * t BY <2>1, <2>5
  <2>7. z = (1 + 2 * p) + d * (4 * p)
    <3> HIDE DEF t
    <3>1. z = 1 + 2 * (p * t) + (p * t) * (p * t) BY <2>6
    <3>2. (p * t) * (p * t) = (h * (t * t)) * (4 * p) BY <2>1, <2>6
    <3>3. 2 * (p * t) = 2 * p + c * (4 * p) BY <2>5, <2>6 DEF t
    <3>4. d * (4 * p) = c * (4 * p) + (h * (t * t)) * (4 * p)
      <4> DEFINE u == h * (t * t)
                 v == 4 * p
      <4>1. u \in Int /\ v \in Int BY <2>1, <2>6
      <4> HIDE DEF u, v
      <4>2. (c + u) * v = c * v + u * v BY <2>5, <4>1
      <4> QED BY <4>2 DEF u, v
    <3> DEFINE u == p * t
               v == u * u
               w == c * (4 * p)
               y == (h * (t * t)) * (4 * p)
    <3>5. z = 1 + 2 * u + v /\ v = y /\ 2 * u = 2 * p + w /\ d * (4 * p) = w + y
      BY <3>1, <3>2, <3>3, <3>4
    <3>6. u \in Int /\ v \in Int /\ w \in Int /\ y \in Int BY <2>1, <2>5, <2>6
    <3> HIDE DEF u, v, w, y, z, d
    <3> QED BY <2>6, <3>5, <3>6
  <2>8. d \in Int /\ z \in Int BY <2>1, <2>2, <2>5, <2>6
  <2> HIDE DEF d, z
  <2>9. z % (4 * p) = (1 + 2 * p) % (4 * p)
    <3>1. 4 * p \in Nat /\ 4 * p > 0 /\ 1 + 2 * p \in Int BY <2>1
    <3> QED BY <2>7, <2>8, <3>1, SameMod
  <2>10. (1 + 2 * p) % (4 * p) = 1 + 2 * p BY <2>1
  <2>11. (n + 1) + 3 = n + 4 /\ (n + 1) + 2 = n + 3 OBVIOUS
  <2> QED BY <2>1, <2>4, <2>9, <2>10, <2>11
<1> HIDE DEF S
<1>3. \A n \in Nat : n \in S BY <1>1, <1>2, SetInduction
<1> QED BY <1>3 DEF S

\* The same for an order that is given by its name.
LEMMA OddFactors ==
  ASSUME NEW k \in Nat, NEW o, o = TwoTo[k]
  PROVE  \A e, x, y \in Int : e % 2 = 1 /\ (e * x) % o = (e * y) % o => x % o = y % o
BY OddCancels

LEMMA RowPeriod == \A n \in Nat : Five(TwoTo[n], n + 2) = 1
<1> SUFFICES ASSUME NEW n \in Nat PROVE Five(TwoTo[n], n + 2) = 1
  OBVIOUS
<1> DEFINE p == TwoTo[n + 2]
<1>1. n + 2 \in Nat /\ n + 3 \in Nat /\ 1 <= n + 2 /\ n + 2 <= n + 3 /\ TwoTo[n] \in Nat BY TwoToIs
<1>2. Five(TwoTo[n], n + 3) % p = Five(TwoTo[n], n + 2) BY <1>1, FiveLow
<1>3. Five(TwoTo[n], n + 3) = 1 + p BY FiveSquared
<1>4. p \in Nat /\ p > 1 BY <1>1, TwoToPositive
<1>5. (1 + p) % p = 1 BY <1>4
<1> QED BY <1>2, <1>3, <1>5

\* No smaller power is 1.
LEMMA FiveIsNotOne == \A n \in Nat : \A d \in Nat : 0 < d /\ d < TwoTo[n] => Five(d, n + 2) # 1
<1> DEFINE S == {n \in Nat : \A d \in Nat : 0 < d /\ d < TwoTo[n] => Five(d, n + 2) # 1}
<1>1. 0 \in S BY TwoToIs
<1>2. ASSUME NEW n \in Nat, n \in S PROVE n + 1 \in S
  <2> SUFFICES ASSUME NEW d \in Nat, 0 < d, d < TwoTo[n + 1], Five(d, n + 3) = 1 PROVE FALSE
    BY (n + 1) + 2 = n + 3
  <2> DEFINE h == TwoTo[n]
             p == TwoTo[n + 2]
  <2>1. h \in Nat /\ d < 2 * h /\ p \in Nat /\ p > 1 /\ n + 2 \in Nat /\ n + 3 \in Nat
    BY TwoToIs, TwoToPositive
  <2>2. Five(d, n + 2) = 1
    <3>1. Five(d, n + 3) % p = Five(d, n + 2)
      <4>1. 1 <= n + 2 /\ n + 2 <= n + 3 OBVIOUS
      <4> QED BY <2>1, <4>1, FiveLow
    <3>2. 1 % p = 1 BY <2>1
    <3> QED BY <3>1, <3>2
  <2>3. \A x \in Nat : 0 < x /\ x < h => Five(x, n + 2) # 1 BY <1>2
  <2>4. CASE d < h BY <2>2, <2>3, <2>4
  <2>5. CASE d = h
    <3>1. Five(d, n + 3) = 1 + p BY <2>5, FiveSquared
    <3> QED BY <2>1, <3>1
  <2>6. CASE d > h
    <3> DEFINE c == d - h
               x == Five(h, n + 2)
               y == Five(c, n + 2)
    <3>1. c \in Nat /\ 0 < c /\ c < h /\ d = h + c BY <2>1, <2>6
    <3>2. y \in Nat /\ y < p
      <4>1. n + 2 >= 1 OBVIOUS
      <4> QED BY <2>1, <3>1, <4>1, FiveType
    <3>3. Five(h + c, n + 2) = (x * y) % p
      <4>1. n + 2 >= 1 OBVIOUS
      <4> QED BY <2>1, <3>1, <4>1, FiveIs
    <3>4. x = 1 BY RowPeriod
    <3>5. y # 1 BY <2>3, <3>1
    <3> HIDE DEF c, x, y, p
    <3>6. (x * y) % p = y BY <2>1, <3>2, <3>4
    <3> QED BY <2>2, <3>1, <3>3, <3>5, <3>6
  <2> QED BY <2>1, <2>4, <2>5, <2>6
<1> HIDE DEF S
<1>3. \A n \in Nat : n \in S BY <1>1, <1>2, SetInduction
<1> QED BY <1>3 DEF S

\* The slots of a row are at different exponents, wherever the row starts.
LEMMA RowIsInjective ==
  ASSUME NEW n \in Nat, NEW e \in Int, e % 2 = 1,
         NEW a \in 0 .. TwoTo[n] - 1, NEW b \in 0 .. TwoTo[n] - 1,
         (e * Five(a, n + 2)) % TwoTo[n + 2] = (e * Five(b, n + 2)) % TwoTo[n + 2]
  PROVE  a = b
<1> DEFINE o == TwoTo[n + 2]
           F(j) == Five(j, n + 2)
<1>1. n + 2 \in Nat /\ n + 2 >= 1 /\ n + 2 >= 2 /\ TwoTo[n] \in Nat BY TwoToIs
<1>2. o \in Nat /\ o > 1 BY <1>1, TwoToPositive
<1>3. ASSUME NEW j \in Nat PROVE F(j) \in Nat /\ F(j) < o /\ F(j) % 2 = 1
  BY <1>1, FiveType, FiveIsOdd
<1>4. ASSUME NEW x \in 0 .. TwoTo[n] - 1, NEW y \in 0 .. TwoTo[n] - 1, x < y,
             (e * F(x)) % o = (e * F(y)) % o
      PROVE  FALSE
  <2> DEFINE d == y - x
  <2>1. x \in Nat /\ y \in Nat /\ d \in Nat /\ 0 < d /\ d < TwoTo[n] /\ y = x + d BY <1>1, <1>4
  <2> HIDE DEF d
  <2>2. F(x + d) = (F(x) * F(d)) % o BY <1>1, <2>1, FiveIs
  <2> DEFINE fx == F(x)
             fd == F(d)
             fy == F(y)
  <2>3. fx \in Int /\ fd \in Int /\ fy \in Int /\ fx % 2 = 1 /\ fd \in Nat /\ fd < o /\ fx < o
    BY <1>3, <2>1
  <2>4. fd # 1 BY <2>1, FiveIsNotOne
  <2>5. (e * fx) % o = (e * fy) % o BY <1>4
  <2>6. fy = (fx * fd) % o BY <2>1, <2>2
  <2> HIDE DEF fx, fy, fd, F
  <2>0. \A u, x1, y1 \in Int : u % 2 = 1 /\ (u * x1) % o = (u * y1) % o => x1 % o = y1 % o
    BY <1>1, OddFactors
  <2> HIDE DEF o
  <2>7. fx % o = fy % o BY <2>0, <2>3, <2>5
  <2>8. fy % o = fy
    <3>1. fx * fd \in Int BY <2>3
    <3>2. fy \in 0 .. o - 1 BY <1>2, <2>6, <3>1
    <3> QED BY <1>2, <3>2
  <2>9. (fx * 1) % o = (fx * fd) % o BY <2>3, <2>6, <2>7, <2>8
  <2>10. 1 % o = fd % o
    <3> DEFINE one == 1
    <3>1. one \in Int /\ (fx * one) % o = (fx * fd) % o BY <2>9
    <3> HIDE DEF one
    <3>2. one % o = fd % o BY <2>0, <2>3, <3>1
    <3> QED BY <3>2 DEF one
  <2> QED BY <1>2, <2>3, <2>4, <2>10
<1> QED BY <1>1, <1>4

\* The powers are all that are 1 modulo 4.
LEMMA RowIsOnto ==
  \A n \in Nat : \A u \in Int :
    u % 4 = 1 => \E j \in 0 .. TwoTo[n] - 1 : Five(j, n + 2) = u % TwoTo[n + 2]
<1> DEFINE Reached(n) == \A u \in Int :
             u % 4 = 1 => \E j \in 0 .. TwoTo[n] - 1 : Five(j, n + 2) = u % TwoTo[n + 2]
           S == {n \in Nat : Reached(n)}
<1>1. 0 \in S
  <2>1. Five(0, 2) = 1 /\ 0 + 2 = 2 BY FiveIs
  <2>2. 0 \in 0 .. TwoTo[0] - 1 BY TwoToIs
  <2> QED BY <2>1, <2>2, SmallPowersOfTwo
<1>2. ASSUME NEW n \in Nat, n \in S PROVE n + 1 \in S
  <2> SUFFICES ASSUME NEW u \in Int, u % 4 = 1
               PROVE  \E j \in 0 .. TwoTo[n + 1] - 1 : Five(j, n + 3) = u % TwoTo[n + 3]
    BY (n + 1) + 2 = n + 3
  <2>1. PICK j \in 0 .. TwoTo[n] - 1 : Five(j, n + 2) = u % TwoTo[n + 2] BY <1>2
  <2> DEFINE h == TwoTo[n]
             p == TwoTo[n + 2]
             f == Five(j, n + 3)
             v == u % TwoTo[n + 3]
  <2>2. h \in Nat /\ h > 0 /\ p \in Nat /\ p > 1 /\ TwoTo[n + 3] = 2 * p /\ TwoTo[n + 1] = 2 * h
    <3>1. TwoTo[(n + 2) + 1] = 2 * TwoTo[n + 2] /\ (n + 2) + 1 = n + 3 BY TwoToIs
    <3> QED BY <3>1, TwoToIs, TwoToPositive
  <2>3. j \in Nat /\ j < h /\ n + 3 \in Nat /\ n + 3 >= 1 /\ n + 3 >= 2 /\ n + 2 \in Nat BY <2>2
  <2>4. f \in Nat /\ f < 2 * p /\ f % 2 = 1
    <3>1. f \in Nat /\ f < TwoTo[n + 3] BY <2>3, FiveType
    <3>2. f % 2 = 1 BY <2>3, FiveIsOdd
    <3> HIDE DEF f, p
    <3> QED BY <2>2, <3>1, <3>2
  <2>5. v \in Nat /\ v < 2 * p BY <2>2
  <2>6. f % p = v % p
    <3>1. 1 <= n + 2 /\ n + 2 <= n + 3 OBVIOUS
    <3>2. f % p = Five(j, n + 2) BY <2>3, <3>1, FiveLow
    <3>3. v % p = u % p BY <2>3, <3>1, LowMod
    <3> QED BY <2>1, <3>2, <3>3
  <2>7. Five(j + h, n + 3) = (f * (1 + p)) % (2 * p)
    <3>1. Five(j + h, n + 3) = (Five(j, n + 3) * Five(h, n + 3)) % TwoTo[n + 3]
      BY <2>2, <2>3, FiveIs
    <3>2. Five(h, n + 3) = 1 + p BY FiveSquared
    <3> QED BY <2>2, <3>1, <3>2
  <2> HIDE DEF f, v, p
  <2>8. (f * (1 + p)) % (2 * p) = (f + p) % (2 * p)
    <3> DEFINE g == f \div 2
               o == 2 * p
               x == f * (1 + p)
    <3>1. g \in Int /\ f = 2 * g + 1 BY <2>4
    <3>2. o \in Nat /\ o > 0 /\ f + p \in Int /\ x \in Int BY <2>2, <2>4
    <3> HIDE DEF g
    <3>3. x = (f + p) + g * o
      <4>1. x = f + f * p BY <2>2, <2>4
      <4>2. f * p = p + g * (2 * p) BY <2>2, <3>1
      <4> DEFINE y == f * p
                 z == g * (2 * p)
      <4>3. y \in Int /\ z \in Int /\ x = f + y /\ y = p + z /\ z = g * o BY <2>2, <2>4, <3>1, <4>1, <4>2
      <4> HIDE DEF x, y, z, o
      <4> QED BY <2>2, <2>4, <4>3
    <3> HIDE DEF o, x
    <3>4. x % o = (f + p) % o BY <3>1, <3>2, <3>3, SameMod
    <3> QED BY <3>4 DEF x, o
  <2>9. v = f \/ v = (f + p) % (2 * p)
    <3> DEFINE a == f \div p
               b == v \div p
               r == f % p
    <3>1. f = a * p + r /\ a \in Int /\ r \in 0 .. p - 1 BY <2>2, <2>4, DividedInto
    <3>2. v = b * p + r /\ b \in Int BY <2>2, <2>5, <2>6, DividedInto
    <3>3. a \in {0, 1} /\ b \in {0, 1} BY <2>2, <2>4, <2>5
    <3> HIDE DEF a, b, r
    <3>4. (f = r \/ f = p + r) /\ (v = r \/ v = p + r) BY <2>2, <3>1, <3>2, <3>3
    <3>5. CASE f = r /\ v = p + r BY <2>2, <3>1, <3>5
    <3>6. CASE f = p + r /\ v = r
      <4>1. f + p = r + 2 * p BY <2>2, <3>1, <3>6
      <4> QED BY <2>2, <3>1, <3>6, <4>1
    <3> QED BY <3>4, <3>5, <3>6
  <2>10. CASE v = f
    <3>1. j \in 0 .. TwoTo[n + 1] - 1 BY <2>2, <2>3
    <3> QED BY <2>10, <3>1 DEF f, v
  <2>11. CASE v = (f + p) % (2 * p)
    <3>1. j + h \in 0 .. TwoTo[n + 1] - 1 BY <2>2, <2>3
    <3> QED BY <2>7, <2>8, <2>11, <3>1 DEF v
  <2> QED BY <2>9, <2>10, <2>11
<1> HIDE DEF S
<1>3. \A n \in Nat : n \in S BY <1>1, <1>2, SetInduction
<1> QED BY <1>3 DEF S

\* Exponents: odd numbers below the order.
LEMMA UnitsTimes ==
  ASSUME NEW n \in Nat, n >= 1, NEW o, o = TwoTo[n], NEW e \in Int, e % 2 = 1,
         NEW x \in Int, x % 2 = 1
  PROVE  (e * x) % o \in Units(o)
<1>1. o \in Nat /\ o > 1 BY TwoToPositive
<1> DEFINE y == e * x
<1>2. y \in Int /\ y % 2 = 1 BY OddTimes
<1>3. (y % o) % 2 = y % 2
  <2>1. 1 \in Nat /\ 1 <= n OBVIOUS
  <2>2. (y % o) % TwoTo[1] = y % TwoTo[1] BY <1>2, <2>1, LowMod
  <2> QED BY <2>2, SmallPowersOfTwo
<1> HIDE DEF y
<1>4. y % o \in 0 .. o - 1 BY <1>1, <1>2
<1>5. y % o # 0 BY <1>2, <1>3
<1>6. y % o \in 1 .. o - 1 BY <1>1, <1>4, <1>5
<1> QED BY <1>2, <1>3, <1>6 DEF Units, y

LEMMA UnitsAre ==
  ASSUME NEW n \in Nat, n >= 1, NEW o, o = TwoTo[n]
  PROVE  \A e \in Units(o) : e \in Nat /\ e > 0 /\ e < o /\ e % 2 = 1 /\ e % o = e
<1>1. o \in Nat /\ o > 1 BY TwoToPositive
<1> QED BY <1>1 DEF Units

\* Powers of 5 repeat after a row.
LEMMA FiveRepeats ==
  ASSUME NEW n \in Nat
  PROVE  \A a, c \in Nat : Five(a + TwoTo[n] * c, n + 2) = Five(a, n + 2)
<1> SUFFICES ASSUME NEW a \in Nat
             PROVE  \A c \in Nat : Five(a + TwoTo[n] * c, n + 2) = Five(a, n + 2)
  OBVIOUS
<1> DEFINE M == TwoTo[n]
           o == TwoTo[n + 2]
           F(j) == Five(j, n + 2)
           S == {c \in Nat : F(a + M * c) = F(a)}
<1>0. M \in Nat /\ n + 2 \in Nat /\ n + 2 >= 1 BY TwoToIs
<1>1. 0 \in S
  <2>1. a + M * 0 = a BY <1>0
  <2> QED BY <2>1
<1>2. ASSUME NEW c \in Nat, c \in S PROVE c + 1 \in S
  <2> DEFINE b == a + M * c
             x == F(b)
  <2>1. b \in Nat /\ a + M * (c + 1) = b + M
    <3>1. M * c \in Nat /\ M * (c + 1) = M * c + M BY <1>0
    <3> QED BY <1>0, <3>1
  <2>2. F(b + M) = (F(b) * F(M)) % o
    <3> HIDE DEF b
    <3> QED BY <1>0, <2>1, FiveIs
  <2>3. F(M) = 1 BY RowPeriod
  <2>4. x \in Nat /\ x < o /\ o \in Nat /\ o > 1
    <3> HIDE DEF b
    <3> QED BY <1>0, <2>1, FiveType
  <2>5. x = F(a) BY <1>2
  <2> HIDE DEF x, b, o
  <2>6. (x * 1) % o = x BY <2>4
  <2> QED BY <2>1, <2>2, <2>3, <2>5, <2>6 DEF x
<1> HIDE DEF S
<1>3. \A c \in Nat : c \in S BY <1>1, <1>2, SetInduction
<1> QED BY <1>3 DEF S

LEMMA NegativeMod ==
  ASSUME NEW o \in Nat, o > 0, NEW x \in Int, NEW y \in Int
  PROVE  (x % o = y % o => (-x) % o = (-y) % o) /\ (x * (o - 1)) % o = (-x) % o
<1>1. ASSUME x % o = y % o PROVE (-x) % o = (-y) % o
  <2>1. (y - x) % o = 0 BY <1>1, SameDifference
  <2>2. y - x = (-x) - (-y) /\ -x \in Int /\ -y \in Int OBVIOUS
  <2> QED BY <2>1, <2>2, SameDifference
<1>2. (x * (o - 1)) % o = (-x) % o
  <2> DEFINE z == x * (o - 1)
  <2>1. z = -x + x * o /\ z \in Int /\ -x \in Int
    <3>1. z = x * o - x /\ x * o \in Int OBVIOUS
    <3> QED BY <3>1
  <2> HIDE DEF z
  <2>2. z % o = (-x) % o BY <2>1, SameMod
  <2> QED BY <2>2 DEF z
<1> QED BY <1>1, <1>2

\* Every odd number has an inverse.
LEMMA OddHasInverse ==
  ASSUME NEW n \in Nat, NEW o, o = TwoTo[n + 2], NEW e \in Int, e % 2 = 1
  PROVE  \E x \in Int : (e * x) % o = 1
<1> DEFINE M == TwoTo[n]
           F(j) == Five(j, n + 2)
<1>1. /\ o \in Nat /\ o > 1 /\ o % 4 = 0 /\ M \in Nat /\ M > 0 /\ n + 2 \in Nat /\ n + 2 >= 1
      /\ o = 4 * M
  <2>1. TwoTo[n + 1] = 2 * TwoTo[n] /\ TwoTo[(n + 1) + 1] = 2 * TwoTo[n + 1] /\ (n + 1) + 1 = n + 2
    BY TwoToIs
  <2>2. o = 4 * M /\ M \in Nat /\ M > 0 BY <2>1, TwoToPositive
  <2> QED BY <2>2
<1>2. ASSUME NEW u \in Int, u % 4 = 1 PROVE \E x \in Int : (u * x) % o = 1
  <2>1. PICK j \in 0 .. M - 1 : F(j) = u % o BY <1>2, RowIsOnto
  <2>2. j \in Nat /\ M - j \in Nat /\ j + (M - j) = M BY <1>1
  <2> DEFINE x == F(M - j)
             f == F(j)
  <2>3. x \in Int /\ f \in Int
    <3> DEFINE i == M - j
    <3>1. i \in Nat BY <2>2
    <3> HIDE DEF i
    <3>2. F(i) \in Nat /\ F(j) \in Nat BY <1>1, <2>2, <3>1, FiveType
    <3> QED BY <3>2 DEF i
  <2>4. (f * x) % o = 1
    <3>1. F(j + (M - j)) = (F(j) * F(M - j)) % TwoTo[n + 2]
      <4> DEFINE i == M - j
      <4>1. i \in Nat BY <2>2
      <4> HIDE DEF i
      <4> QED BY <1>1, <2>2, <4>1, FiveIs
    <3>2. F(M) = 1 BY RowPeriod
    <3> QED BY <2>2, <3>1, <3>2
  <2>5. f = u % o BY <2>1
  <2> HIDE DEF x, f
  <2>6. ((u % o) * x) % o = (u * x) % o
    <3>1. o \in Nat /\ o > 0 BY <1>1
    <3> HIDE DEF M, F
    <3> QED BY <2>3, <3>1, ModOfProduct
  <2> QED BY <2>3, <2>4, <2>5, <2>6
<1>3. CASE e % 4 = 1 BY <1>2, <1>3
<1>4. CASE e % 4 # 1
  <2>1. (-e) % 4 = 1 /\ -e \in Int BY <1>4
  <2>2. PICK x \in Int : ((-e) * x) % o = 1 BY <1>2, <2>1
  <2>3. (-e) * x = e * (-x) /\ -x \in Int OBVIOUS
  <2> QED BY <2>2, <2>3
<1> QED BY <1>3, <1>4

LEMMA InverseOfFive ==
  ASSUME NEW n \in Nat, NEW o, o = TwoTo[n + 2]
  PROVE  InverseMod(5, o) = Five(TwoTo[n] - 1, n + 2)
<1> DEFINE i == TwoTo[n] - 1
           f == Five(i, n + 2)
<1>1. i \in Nat /\ i + 1 = TwoTo[n] /\ n + 2 \in Nat /\ n + 2 >= 1 /\ n + 2 >= 2
  <2>1. TwoTo[n] \in Nat /\ TwoTo[n] > 0 BY TwoToPositive
  <2> QED BY <2>1
<1> HIDE DEF i
<1>2. f \in Nat /\ f < o /\ o \in Nat /\ o > 1 BY <1>1, FiveType
<1>3. f % 2 = 1 BY <1>1, FiveIsOdd
<1>4. (f * 5) % o = 1
  <2>1. Five(i + 1, n + 2) = (f * 5) % o BY <1>1, FiveIs
  <2> QED BY <1>1, <2>1, RowPeriod
<1> HIDE DEF f
<1>5. f \in Units(o)
  <2>1. f # 0 BY <1>3
  <2> QED BY <1>2, <1>3, <2>1 DEF Units
<1>6. (5 * f) % o = 1 BY <1>2, <1>4
<1>7. ASSUME NEW x \in Units(o), (5 * x) % o = 1 PROVE x = f
  <2>1. x \in Int /\ x % o = x BY <1>2 DEF Units
  <2>2. f \in Int /\ f % o = f BY <1>2
  <2>3. \A e, u, v \in Int : e % 2 = 1 /\ (e * u) % o = (e * v) % o => u % o = v % o
    BY <1>1, OddFactors
  <2> DEFINE five == 5
  <2>4. five \in Int /\ five % 2 = 1 /\ (five * x) % o = (five * f) % o BY <1>6, <1>7
  <2> HIDE DEF five
  <2>5. x % o = f % o BY <2>1, <2>2, <2>3, <2>4
  <2> QED BY <2>1, <2>2, <2>5
<1> QED BY <1>5, <1>6, <1>7 DEF InverseMod, f, i

\* A bag of the exponents of an order: each of them once, or not at all.
Indicator(order, A) == [i \in Units(order) |-> IF i \in A THEN 1 ELSE 0]

LEMMA DisjointAdd ==
  ASSUME NEW order, NEW A, NEW B, A \cap B = {}
  PROVE  Added(Indicator(order, A), Indicator(order, B)) = Indicator(order, A \cup B)
<1>1. DOMAIN Indicator(order, A) = Units(order) BY DEF Indicator
<1>2. ASSUME NEW i \in Units(order)
      PROVE  Indicator(order, A)[i] + Indicator(order, B)[i]
               = IF i \in A \cup B THEN 1 ELSE 0
  <2>1. ~(i \in A /\ i \in B) OBVIOUS
  <2>2. /\ Indicator(order, A)[i] = IF i \in A THEN 1 ELSE 0
        /\ Indicator(order, B)[i] = IF i \in B THEN 1 ELSE 0
    BY DEF Indicator
  <2> QED BY <2>1, <2>2
<1>3. Added(Indicator(order, A), Indicator(order, B))
        = [i \in Units(order) |-> Indicator(order, A)[i] + Indicator(order, B)[i]]
  BY <1>1 DEF Added
<1>4. Indicator(order, A \cup B) = [i \in Units(order) |-> IF i \in A \cup B THEN 1 ELSE 0]
  BY DEF Indicator
<1> HIDE DEF Indicator
<1> QED BY <1>2, <1>3, <1>4

LEMMA DoubledValue ==
  ASSUME NEW r, NEW g, NEW order, NEW n \in Nat
  PROVE  Doubled(r, g, n + 1, order).value
           = [e \in Units(m) |->
                Added(Doubled(r, g, n, order).value[e],
                      Doubled(r, g, n, order).value[(e * PowerMod(g, TwoTo[n], order)) % m])]
<1>1. Doubled(r, g, n + 1, order)
        = AddAutomorphism(Doubled(r, g, n, order), PowerMod(g, TwoTo[n], order))
  BY DoubledStep
<1>2. \A u, k : AddAutomorphism(u, k).value
                  = [e \in Units(m) |-> Added(u.value[e], u.value[(e * k) % m])]
  BY DEF AddAutomorphism
<1> QED BY <1>1, <1>2

\* Every s-th of count slots, from e on, in a subring of order 2^(l + 2).
RowFrom(e, s, count, l) == {(e * Five(s * j, l + 2)) % TwoTo[l + 2] : j \in 0 .. count - 1}

\* 2^n of the slots that are s apart are no more than a row.
FitsRow(s, n, l) == s * TwoTo[n] <= TwoTo[l]

\* A subring of order 2^(l + 2).
IsSubring(l) == \E k \in Nat : l <= k /\ m = TwoTo[k + 2]

\* Where the row goes on after 2^n of them.
NextInRow(e, s, n, l) == (e * Five(s * TwoTo[n], l + 2)) % m

\* A row twice as long is the row, and the one that begins after it.
LEMMA RowTwice ==
  ASSUME NEW l \in Nat, IsSubring(l), NEW s \in Nat, s > 0, NEW n \in Nat,
         NEW n1, n1 = n + 1, FitsRow(s, n1, l), NEW e \in Int, e % 2 = 1,
         NEW next, next = NextInRow(e, s, n, l)
  PROVE  \A order : Added(Indicator(order, RowFrom(e, s, TwoTo[n], l)),
                           Indicator(order, RowFrom(next, s, TwoTo[n], l)))
                       = Indicator(order, RowFrom(e, s, TwoTo[n1], l))
<1> DEFINE h == TwoTo[n]
           o == TwoTo[l + 2]
           M == TwoTo[l]
           F(j) == Five(j, l + 2)
<1>0. PICK k \in Nat : l <= k /\ m = TwoTo[k + 2] BY DEF IsSubring
<1>1. /\ h \in Nat /\ h > 0 /\ TwoTo[n + 1] = 2 * h /\ M \in Nat
      /\ l + 2 \in Nat /\ l + 2 >= 1 /\ l + 2 >= 2 /\ k + 2 \in Nat /\ l + 2 <= k + 2
  BY <1>0, TwoToIs, TwoToPositive
<1>2. o \in Nat /\ o > 1 /\ o > 0 BY <1>1, TwoToPositive
<1>3. ASSUME NEW j \in Nat PROVE F(j) \in Nat BY <1>1, FiveType
<1>4. ASSUME NEW j \in 0 .. h - 1
      PROVE  /\ j \in Nat /\ s * j \in Nat /\ s * (h + j) \in Nat
             /\ (next * F(s * j)) % o = (e * F(s * (h + j))) % o
  <2> DEFINE x == F(s * h)
             y == F(s * j)
             z == F(s * (h + j))
  <2>1. j \in Nat /\ s * j \in Nat /\ s * h \in Nat /\ s * (h + j) = s * h + s * j
    BY <1>1
  <2>2. s * (h + j) \in Nat BY <2>1
  <2>3. F(s * h + s * j) = (x * y) % o
    <3> DEFINE a == s * h
               b == s * j
    <3>1. a \in Nat /\ b \in Nat BY <2>1
    <3> HIDE DEF a, b
    <3>2. F(a + b) = (F(a) * F(b)) % o BY <1>1, <3>1, FiveIs
    <3> QED BY <3>2 DEF a, b
  <2>4. x \in Int /\ y \in Int
    <3> DEFINE a == s * h
               b == s * j
    <3>1. a \in Nat /\ b \in Nat BY <2>1
    <3> HIDE DEF a, b
    <3>2. F(a) \in Nat /\ F(b) \in Nat BY <1>3, <3>1
    <3> QED BY <3>2 DEF a, b
  <2>5. z = (x * y) % o BY <2>1, <2>3
  <2>6. next % o = (e * x) % o
    <3> DEFINE c == e * x
    <3>1. c \in Int BY <2>4
    <3> HIDE DEF c
    <3>2. (c % TwoTo[k + 2]) % TwoTo[l + 2] = c % TwoTo[l + 2] BY <1>1, <3>1, LowMod
    <3> QED BY <1>0, <3>2 DEF c, NextInRow
  <2>7. next \in Int
    <3> DEFINE c == e * x
               p == TwoTo[k + 2]
    <3>1. c \in Int /\ p \in Nat /\ p > 0 BY <1>1, <2>4, TwoToPositive
    <3>2. next = c % p BY <1>0 DEF NextInRow
    <3> HIDE DEF c, p
    <3> QED BY <3>1, <3>2
  <2> HIDE DEF x, y, z, o, F
  <2>8. (next * y) % o = ((e * x) * y) % o
    <3> DEFINE c == e * x
    <3>1. c \in Int BY <2>4
    <3>2. next % o = c % o BY <2>6
    <3> HIDE DEF c
    <3>3. (next * y) % o = ((next % o) * y) % o BY <1>2, <2>4, <2>7, ModOfProduct
    <3>4. (c * y) % o = ((c % o) * y) % o BY <1>2, <2>4, <3>1, ModOfProduct
    <3> QED BY <3>2, <3>3, <3>4 DEF c
  <2>9. (e * z) % o = (e * (x * y)) % o
    <3> DEFINE c == x * y
    <3>1. c \in Int BY <2>4
    <3>2. z = c % o BY <2>5
    <3> HIDE DEF c
    <3>3. (e * (c % o)) % o = (e * c) % o BY <1>2, <3>1, ModOfProduct
    <3> QED BY <3>2, <3>3 DEF c
  <2>10. (e * x) * y = e * (x * y) BY <2>4
  <2> QED BY <2>1, <2>2, <2>8, <2>9, <2>10 DEF y, z
<1> DEFINE T(j) == (e * F(s * j)) % o
<1>5. RowFrom(e, s, h, l) = {T(j) : j \in 0 .. h - 1} BY DEF RowFrom
<1>6. RowFrom(next, s, h, l) = {T(h + j) : j \in 0 .. h - 1} BY <1>4 DEF RowFrom
<1>7. RowFrom(e, s, TwoTo[n + 1], l) = {T(j) : j \in 0 .. (2 * h) - 1} BY <1>1 DEF RowFrom
<1>8. ASSUME NEW a \in 0 .. h - 1, NEW b \in 0 .. h - 1, T(a) = T(h + b) PROVE FALSE
  <2> DEFINE u == s * a
             v == s * (h + b)
  <2>1. s * (2 * h) <= M BY <1>1 DEF FitsRow
  <2>2. u \in Nat /\ v \in Nat BY <1>4
  <2>3. u < s * h
    <3>1. a \in Nat /\ a < h BY <1>1
    <3> QED BY <1>1, <3>1
  <2>4. v < s * (2 * h)
    <3>1. h + b \in Nat /\ h + b < 2 * h BY <1>1
    <3> QED BY <1>1, <3>1
  <2>5. v >= s * h
    <3>1. h + b \in Nat /\ h + b >= h BY <1>1
    <3> QED BY <1>1, <3>1
  <2>6. s * h <= s * (2 * h) /\ s * h \in Nat /\ s * (2 * h) \in Nat BY <1>1
  <2>7. u \in 0 .. M - 1 /\ v \in 0 .. M - 1 /\ u # v
    <3> DEFINE x == s * h
               y == s * (2 * h)
    <3>1. x \in Nat /\ y \in Nat /\ u < x /\ v < y /\ v >= x /\ x <= y /\ y <= M
      BY <2>1, <2>3, <2>4, <2>5, <2>6
    <3> HIDE DEF x, y, u, v, M
    <3> QED BY <1>1, <2>2, <3>1 DEF M
  <2>8. (e * F(u)) % o = (e * F(v)) % o BY <1>8
  <2> HIDE DEF u, v
  <2> QED BY <2>7, <2>8, RowIsInjective
<1> HIDE DEF T
<1>9. 0 .. (2 * h) - 1 = (0 .. h - 1) \cup {h + j : j \in 0 .. h - 1}
  <2>1. ASSUME NEW j \in 0 .. (2 * h) - 1, j \notin 0 .. h - 1 PROVE j \in {h + i : i \in 0 .. h - 1}
    <3>1. j - h \in 0 .. h - 1 /\ h + (j - h) = j BY <1>1, <2>1
    <3> QED BY <3>1
  <2>2. (0 .. h - 1) \cup {h + j : j \in 0 .. h - 1} \subseteq 0 .. (2 * h) - 1 BY <1>1
  <2> QED BY <2>1, <2>2
<1>10. {T(j) : j \in 0 .. (2 * h) - 1} = {T(j) : j \in 0 .. h - 1} \cup {T(h + j) : j \in 0 .. h - 1}
  BY <1>9
<1> HIDE DEF h
<1>11. {T(j) : j \in 0 .. h - 1} \cap {T(h + j) : j \in 0 .. h - 1} = {} BY <1>8
<1>12. RowFrom(e, s, TwoTo[n1], l) = RowFrom(e, s, h, l) \cup RowFrom(next, s, h, l)
  BY <1>5, <1>6, <1>7, <1>10
<1>13. RowFrom(e, s, h, l) \cap RowFrom(next, s, h, l) = {} BY <1>5, <1>6, <1>11
<1> QED BY <1>12, <1>13, DisjointAdd DEF h

LEMMA RowOfOne ==
  ASSUME NEW l \in Nat, NEW s \in Nat, NEW e \in Int
  PROVE  RowFrom(e, s, 1, l) = {e % TwoTo[l + 2]}
<1>1. l + 2 \in Nat /\ l + 2 >= 1 OBVIOUS
<1>2. Five(0, l + 2) = 1 BY <1>1, FiveIs
<1>3. s * 0 = 0 /\ e * 1 = e /\ 0 .. 1 - 1 = {0} OBVIOUS
<1>4. (e * Five(s * 0, l + 2)) % TwoTo[l + 2] = e % TwoTo[l + 2] BY <1>2, <1>3
<1> QED BY <1>3, <1>4 DEF RowFrom

\* Doubling sums a row of the subring, from every exponent of the ring on.
LEMMA RowSums ==
  ASSUME NEW l \in Nat, IsSubring(l), NEW s \in Nat, s > 0, NEW order, order = TwoTo[l + 2],
         NEW g, \A j \in Nat : PowerMod(g, TwoTo[j], order) = Five(s * TwoTo[j], l + 2)
  PROVE  \A n \in Nat : FitsRow(s, n, l) =>
           \A e \in Units(m) :
             Doubled(Input(order), g, n, order).value[e]
               = Indicator(order, RowFrom(e, s, TwoTo[n], l))
<1> DEFINE D(i) == Doubled(Input(order), g, i, order)
           Sums(i) == \A e \in Units(m) :
                        D(i).value[e] = Indicator(order, RowFrom(e, s, TwoTo[i], l))
           S == {i \in Nat : FitsRow(s, i, l) => Sums(i)}
<1>9. PICK k \in Nat : m = TwoTo[k + 2] BY DEF IsSubring
<1>0. \A e \in Units(m) : e \in Nat /\ e % 2 = 1
  <2>1. k + 2 \in Nat /\ k + 2 >= 1 OBVIOUS
  <2> QED BY <1>9, <2>1, UnitsAre
<1>1. 0 \in S
  <2>1. D(0) = Input(order)
    <3>1. 0 \in Nat OBVIOUS
    <3> QED BY <3>1, DoubledStep
  <2>2. ASSUME NEW e \in Units(m)
        PROVE  Input(order).value[e] = Indicator(order, RowFrom(e, s, TwoTo[0], l))
    <3>1. TwoTo[0] = 1 /\ e \in Int BY <1>0, TwoToIs
    <3>2. RowFrom(e, s, TwoTo[0], l) = {e % order} BY <3>1, RowOfOne
    <3>3. Input(order).value[e] = [i \in Units(order) |-> IF e % order = i THEN 1 ELSE 0]
      BY DEF Input
    <3> QED BY <3>2, <3>3 DEF Indicator
  <2> QED BY <2>1, <2>2
<1>2. ASSUME NEW i \in Nat, i \in S PROVE i + 1 \in S
  <2> SUFFICES ASSUME FitsRow(s, i + 1, l) PROVE Sums(i + 1)
    OBVIOUS
  <2>1. TwoTo[i] \in Nat /\ TwoTo[i + 1] = 2 * TwoTo[i] /\ TwoTo[l] \in Nat BY TwoToIs
  <2>2. FitsRow(s, i, l)
    <3> DEFINE h == TwoTo[i]
    <3>1. s * h <= s * (2 * h) /\ s * h \in Nat /\ s * (2 * h) \in Nat BY <2>1
    <3> QED BY <2>1, <3>1 DEF FitsRow
  <2>3. Sums(i) BY <1>2, <2>2
  <2> SUFFICES ASSUME NEW e \in Units(m)
               PROVE  D(i + 1).value[e] = Indicator(order, RowFrom(e, s, TwoTo[i + 1], l))
    OBVIOUS
  <2> DEFINE x == Five(s * TwoTo[i], l + 2)
             next == (e * x) % m
  <2>4. x \in Int /\ x % 2 = 1
    <3> DEFINE j == s * TwoTo[i]
    <3>1. j \in Nat /\ l + 2 \in Nat /\ l + 2 >= 2 BY <2>1
    <3> HIDE DEF j
    <3>2. Five(j, l + 2) \in Nat /\ Five(j, l + 2) % 2 = 1 BY <3>1, FiveIsOdd
    <3> QED BY <3>2 DEF j
  <2>5. e \in Int /\ e % 2 = 1 BY <1>0
  <2>6. next \in Units(m)
    <3> HIDE DEF x
    <3>1. k + 2 \in Nat /\ k + 2 >= 1 OBVIOUS
    <3> QED BY <1>9, <2>4, <2>5, <3>1, UnitsTimes
  <2>7. D(i + 1).value[e] = Added(D(i).value[e], D(i).value[next])
    <3>1. D(i + 1).value
            = [f \in Units(m) |-> Added(D(i).value[f],
                                        D(i).value[(f * PowerMod(g, TwoTo[i], order)) % m])]
      BY DoubledValue
    <3>2. PowerMod(g, TwoTo[i], order) = x OBVIOUS
    <3> HIDE DEF D, x
    <3> QED BY <3>1, <3>2
  <2> HIDE DEF D
  <2>8. next = NextInRow(e, s, i, l) BY DEF NextInRow
  <2> HIDE DEF next, x
  <2>9. Added(Indicator(order, RowFrom(e, s, TwoTo[i], l)),
              Indicator(order, RowFrom(next, s, TwoTo[i], l)))
          = Indicator(order, RowFrom(e, s, TwoTo[i + 1], l))
    <3> DEFINE i1 == i + 1
    <3>1. i1 = i + 1 /\ FitsRow(s, i1, l) OBVIOUS
    <3> HIDE DEF i1, S, Sums
    <3>2. Added(Indicator(order, RowFrom(e, s, TwoTo[i], l)),
                Indicator(order, RowFrom(next, s, TwoTo[i], l)))
            = Indicator(order, RowFrom(e, s, TwoTo[i1], l))
      BY <2>5, <2>8, <3>1, RowTwice, SMTT(60)
    <3> QED BY <3>2 DEF i1
  <2>10. /\ D(i).value[e] = Indicator(order, RowFrom(e, s, TwoTo[i], l))
         /\ D(i).value[next] = Indicator(order, RowFrom(next, s, TwoTo[i], l))
    BY <2>3, <2>6
  <2> QED BY <2>7, <2>9, <2>10
<1> HIDE DEF S
<1>3. \A i \in Nat : i \in S BY <1>1, <1>2, SetInduction
<1> QED BY <1>3 DEF S

\* The generator of the rows of a matrix, and that of its slots.
LEMMA RowGenerators ==
  ASSUME NEW l \in Nat, NEW order, order = TwoTo[l + 2], NEW s \in Nat, NEW j \in Nat
  PROVE  /\ PowerMod(PowerMod(5, s, order), TwoTo[j], order) = Five(s * TwoTo[j], l + 2)
         /\ PowerMod(5, TwoTo[j], order) = Five(1 * TwoTo[j], l + 2)
<1>1. order \in Nat /\ order > 1 /\ TwoTo[j] \in Nat /\ l + 2 \in Nat BY TwoToPositive
<1>2. PowerMod(PowerMod(5, s, order), TwoTo[j], order) = PowerMod(5, s * TwoTo[j], order)
  BY <1>1, PowersOfFive
<1>3. 1 * TwoTo[j] = TwoTo[j] BY <1>1
<1> QED BY <1>2, <1>3 DEF Five

\* What the sums of a batch, and of the rows of a matrix, hold.
LEMMA BatchSums ==
  ASSUME NEW k \in Nat, m = TwoTo[k + 2], NEW n \in Nat, n <= k, NEW e \in Units(m)
  PROVE  Doubled(Input(m), 5, n, m).value[e]
           = Indicator(m, {(e * PowerMod(5, i, m)) % m : i \in 0 .. TwoTo[n] - 1})
<1>1. \A j \in Nat : PowerMod(5, TwoTo[j], m) = Five(1 * TwoTo[j], k + 2)
  <2>1. 1 \in Nat OBVIOUS
  <2> QED BY <2>1, RowGenerators
<1>2. FitsRow(1, n, k)
  <2>1. TwoTo[n] \in Nat /\ TwoTo[n] <= TwoTo[k] BY TwoToIs, TwoToOrder
  <2> QED BY <2>1 DEF FitsRow
<1>3. \A f \in Units(m) :
        Doubled(Input(m), 5, n, m).value[f] = Indicator(m, RowFrom(f, 1, TwoTo[n], k))
  <2> DEFINE s == 1
             g == 5
             order == m
  <2>1. order = TwoTo[k + 2] /\ s \in Nat /\ s > 0 /\ IsSubring(k) /\ FitsRow(s, n, k) BY <1>2 DEF IsSubring
  <2>2. \A j \in Nat : PowerMod(g, TwoTo[j], order) = Five(s * TwoTo[j], k + 2) BY <1>1
  <2> HIDE DEF s, g, order
  <2>3. \A f \in Units(m) :
          Doubled(Input(order), g, n, order).value[f] = Indicator(order, RowFrom(f, s, TwoTo[n], k))
    BY <2>1, <2>2, RowSums
  <2> QED BY <2>3 DEF s, g, order
<1>4. RowFrom(e, 1, TwoTo[n], k) = {(e * PowerMod(5, i, m)) % m : i \in 0 .. TwoTo[n] - 1}
  <2>1. \A i \in 0 .. TwoTo[n] - 1 : 1 * i = i BY TwoToIs
  <2> QED BY <2>1 DEF RowFrom, Five
<1> QED BY <1>3, <1>4

\* The slots of a column, from e on.
Column(e, s, count, order) == {(e * PowerMod(5, s * i, order)) % order : i \in 0 .. count - 1}

LEMMA MatrixSums ==
  ASSUME NEW l \in Nat, NEW k \in Nat, l <= k, m = TwoTo[k + 2], NEW order, order = TwoTo[l + 2],
         NEW s \in Nat, s > 0, NEW n \in Nat, FitsRow(s, n, l), NEW e \in Units(m)
  PROVE  Doubled(Input(order), PowerMod(5, s, order), n, order).value[e]
           = Indicator(order, Column(e, s, TwoTo[n], order))
<1> DEFINE g == PowerMod(5, s, order)
<1>1. \A j \in Nat : PowerMod(g, TwoTo[j], order) = Five(s * TwoTo[j], l + 2) BY RowGenerators
<1>4. IsSubring(l) BY DEF IsSubring
<1> HIDE DEF g
<1>2. \A f \in Units(m) :
        Doubled(Input(order), g, n, order).value[f] = Indicator(order, RowFrom(f, s, TwoTo[n], l))
  BY <1>1, <1>4, RowSums
<1>3. RowFrom(e, s, TwoTo[n], l)
        = Column(e, s, TwoTo[n], order)
  BY DEF RowFrom, Five, Column
<1> QED BY <1>2, <1>3 DEF g

\* The slots of a row: all powers of 5, from e on.
Row(e, k) == {(e * Five(i, k + 2)) % TwoTo[k + 2] : i \in 0 .. TwoTo[k] - 1}

\* A row is the exponents that are e modulo 4.
LEMMA RowModFour ==
  ASSUME NEW k \in Nat, NEW e \in Int, NEW x \in Row(e, k)
  PROVE  x % 4 = e % 4
<1> DEFINE o == TwoTo[k + 2]
<1>1. PICK i \in 0 .. TwoTo[k] - 1 : x = (e * Five(i, k + 2)) % o BY DEF Row
<1>2. i \in Nat /\ k + 2 \in Nat /\ k + 2 >= 2 /\ 2 \in Nat /\ TwoTo[2] = 4 BY TwoToIs, SmallPowersOfTwo
<1> DEFINE f == Five(i, k + 2)
           z == e * f
<1>3. f \in Int /\ f % 4 = 1 BY <1>2, FiveIsOdd
<1> HIDE DEF o, f
<1>4. z \in Int BY <1>3
<1>5. z % 4 = e % 4
  <2> DEFINE d == 4
  <2>0. d \in Nat /\ d > 0 OBVIOUS
  <2> HIDE DEF d
  <2>1. (e * (f % d)) % d = (e * f) % d BY <1>3, <2>0, ModOfProduct
  <2>2. f % d = 1 BY <1>3 DEF d
  <2>3. e * 1 = e OBVIOUS
  <2> QED BY <2>1, <2>2, <2>3 DEF d
<1> HIDE DEF z
<1>6. (z % o) % 4 = z % 4 BY <1>2, <1>4, LowMod DEF o
<1> QED BY <1>1, <1>5, <1>6 DEF z, f

LEMMA RowHasAll ==
  ASSUME NEW k \in Nat, NEW e \in Int, e % 2 = 1, NEW u \in Nat, u < TwoTo[k + 2], u % 4 = e % 4
  PROVE  u \in Row(e, k)
<1> DEFINE o == TwoTo[k + 2]
<1>1. k + 2 \in Nat /\ o \in Nat /\ o > 0 /\ o > 1 BY TwoToPositive
<1>2. PICK x \in Int : (e * x) % o = 1 BY OddHasInverse
<1> HIDE DEF o
<1> DEFINE y == x * u
           p == e * x
           q == e * y
<1>3. y \in Int /\ p \in Int /\ q \in Int /\ p * u = q
  <2>1. (e * x) * u = e * (x * u) OBVIOUS
  <2>2. p \in Int /\ x * u \in Int /\ e * (x * u) \in Int OBVIOUS
  <2> QED BY <2>1, <2>2
<1>4. q % o = u
  <2>1. ((p % o) * u) % o = (p * u) % o BY <1>1, <1>3, ModOfProduct
  <2>2. p % o = 1 BY <1>2
  <2>3. (1 * u) % o = u BY <1>1 DEF o
  <2> QED BY <1>3, <2>1, <2>2, <2>3
<1>5. q % 4 = u % 4
  <2>1. 2 \in Nat /\ 2 <= k + 2 /\ TwoTo[2] = 4 BY SmallPowersOfTwo
  <2> HIDE DEF q
  <2>2. (q % o) % 4 = q % 4 BY <1>1, <1>3, <2>1, LowMod DEF o
  <2> QED BY <1>4, <2>2
<1>6. y % 4 = 1
  <2> DEFINE d == 4
             one == 1
  <2>1. (e * y) % d = (e * one) % d
    <3>1. e * one = e OBVIOUS
    <3> HIDE DEF y
    <3> QED BY <1>5, <3>1
  <2> HIDE DEF y
  <2>2. d = TwoTo[2] /\ one \in Int /\ 2 \in Nat BY SmallPowersOfTwo
  <2> HIDE DEF d, one
  <2>3. \A v, w, z \in Int : v % 2 = 1 /\ (v * w) % d = (v * z) % d => w % d = z % d
    BY <2>2, OddFactors
  <2>4. y % d = one % d BY <1>3, <2>1, <2>2, <2>3
  <2> QED BY <2>4 DEF d, one
<1> HIDE DEF y, q, p
<1>7. PICK j \in 0 .. TwoTo[k] - 1 : Five(j, k + 2) = y % o BY <1>3, <1>6, RowIsOnto DEF o
<1>8. (e * (y % o)) % o = (e * y) % o BY <1>1, <1>3, ModOfProduct
<1>9. u = (e * Five(j, k + 2)) % o BY <1>4, <1>7, <1>8 DEF q
<1> QED BY <1>9 DEF Row, o

\* The two rows are all of the slots, and have none in common.
LEMMA BothRows ==
  ASSUME NEW k \in Nat, m = TwoTo[k + 2], NEW e \in Units(m), NEW f, f = (e * (m - 1)) % m
  PROVE  /\ f \in Units(m)
         /\ \A u \in Units(m) : (u \in Row(e, k)) # (u \in Row(f, k))
<1>1. k + 2 \in Nat /\ k + 2 >= 1 /\ m \in Nat /\ m > 1 /\ m > 0 BY TwoToPositive
<1>2. \A u \in Units(m) : u \in Nat /\ u < m /\ u % 2 = 1 /\ u % m = u BY <1>1, UnitsAre
<1>0. e \in Int /\ e % 2 = 1 BY <1>2
<1>3. f % 4 = (-e) % 4
  <2>0. (e * (m - 1)) % m = (-e) % m
    <3>1. \A o \in Nat : o > 0 => \A x \in Int, y \in Int : (x * (o - 1)) % o = (-x) % o BY NegativeMod
    <3>2. \A x \in Int : (x * (m - 1)) % m = (-x) % m BY <1>1, <3>1
    <3> QED BY <1>0, <3>2
  <2>1. f = (-e) % m /\ -e \in Int BY <1>0, <2>0
  <2>2. TwoTo[2] = 4 /\ 2 \in Nat /\ 2 <= k + 2 BY SmallPowersOfTwo
  <2>3. ((-e) % TwoTo[k + 2]) % TwoTo[2] = (-e) % TwoTo[2] BY <1>1, <2>1, <2>2, LowMod
  <2> QED BY <2>1, <2>2, <2>3
<1>4. f \in Units(m)
  <2> DEFINE x == m - 1
  <2>1. x \in Int /\ x % 2 = 1
    <3>1. m = 2 * TwoTo[k + 1] /\ TwoTo[k + 1] \in Nat BY TwoToIs
    <3> QED BY <3>1
  <2> HIDE DEF x
  <2>2. (e * x) % m \in Units(m) BY <1>0, <1>1, <2>1, UnitsTimes
  <2> QED BY <2>2 DEF x
<1>5. e \in Int /\ f \in Int /\ e % 2 = 1 /\ f % 2 = 1 /\ f % 4 # e % 4
  <2>1. e \in Int /\ f \in Int /\ e % 2 = 1 /\ f % 2 = 1 BY <1>2, <1>4
  <2>2. (-e) % 4 # e % 4 BY <2>1
  <2> QED BY <1>3, <2>1, <2>2
<1>6. ASSUME NEW u \in Units(m) PROVE (u \in Row(e, k)) # (u \in Row(f, k))
  <2>1. u \in Nat /\ u < TwoTo[k + 2] /\ u % 2 = 1 BY <1>2
  <2>2. u \in Row(e, k) => u % 4 = e % 4 BY <1>5, RowModFour
  <2>3. u \in Row(f, k) => u % 4 = f % 4 BY <1>5, RowModFour
  <2>4. u % 4 = e % 4 => u \in Row(e, k) BY <1>5, <2>1, RowHasAll
  <2>5. u % 4 = f % 4 => u \in Row(f, k) BY <1>5, <2>1, RowHasAll
  <2>6. u % 4 = e % 4 \/ u % 4 = f % 4
    <3>1. u % 4 = e % 4 \/ u % 4 = (-e) % 4 BY <1>5, <2>1
    <3> QED BY <1>3, <3>1
  <2>7. f % 4 # e % 4 BY <1>5
  <2> QED BY <2>2, <2>3, <2>4, <2>5, <2>6, <2>7
<1> QED BY <1>4, <1>6

LEMMA OnceOf ==
  ASSUME NEW order, NEW A
  PROVE  Once(Indicator(order, A), A)
BY DEF Once, Indicator

\* The rings of OrderIs, by the length 2^k of a row of slots.
RingIs(k) == k \in Nat /\ m = TwoTo[k + 2] /\ m \div 4 = TwoTo[k] /\ m \div 2 = TwoTo[k + 1]

LEMMA RingOf == ContextFits => \E k \in Nat : RingIs(k)
<1> SUFFICES ASSUME ContextFits PROVE \E k \in Nat : RingIs(k) OBVIOUS
<1>1. PICK k \in Nat : m = TwoTo[k + 3] /\ m \div 2 = TwoTo[k + 2] /\ m \div 4 = TwoTo[k + 1]
  BY OrderIs DEF ContextFits
<1>2. k + 1 \in Nat /\ (k + 1) + 2 = k + 3 /\ (k + 1) + 1 = k + 2 OBVIOUS
<1>3. RingIs(k + 1) BY <1>1, <1>2 DEF RingIs
<1> QED BY <1>2, <1>3

\* A batch that is no more than a row.
LEMMA ShortBatch ==
  ASSUME NEW k \in Nat, RingIs(k), NEW n \in Nat, n <= k, NEW b, b = TwoTo[n], Log2Up(b) = n
  PROVE  /\ EvalSum2nComplex(Input(m), b) = Doubled(Input(m), 5, n, m)
         /\ EvalSum_2n(Input(m), b) = Doubled(Input(m), 5, n, m)
<1>1. EvalSum2nComplex(Input(m), b) = Doubled(Input(m), 5, n, m) BY DEF EvalSum2nComplex
<1>2. CASE n = 0
  <2>1. b = 1 BY <1>2, TwoToIs
  <2>2. Doubled(Input(m), 5, n, m) = Input(m) BY <1>2, DoubledStep
  <2>3. EvalSum_2n(Input(m), b) = Input(m) BY <2>1 DEF EvalSum_2n
  <2> QED BY <1>1, <2>2, <2>3
<1>3. CASE n > 0
  <2> DEFINE p == n - 1
  <2>1. p \in Nat /\ n = p + 1 BY <1>3
  <2> HIDE DEF p
  <2>2. b > 1 /\ 2 * b < m
    <3>1. b > n /\ n + 1 \in Nat /\ 2 * b = TwoTo[n + 1] BY TwoToPositive, TwoToIs
    <3>2. n + 1 < k + 2 /\ k + 2 \in Nat OBVIOUS
    <3>3. TwoTo[n + 1] < TwoTo[k + 2] BY <3>1, <3>2, TwoToGrows
    <3> QED BY <1>3, <3>1, <3>3, TwoToPositive DEF RingIs
  <2>3. Doubled(Input(m), 5, p + 1, m)
          = AddAutomorphism(Doubled(Input(m), 5, p, m), PowerMod(5, TwoTo[p], m))
    BY <2>1, DoubledStep
  <2>4. Log2Up(b) - 1 = p BY <2>1
  <2>5. EvalSum_2n(Input(m), b)
          = AddAutomorphism(Doubled(Input(m), 5, p, m), PowerMod(5, TwoTo[p], m))
    BY <2>2, <2>4 DEF EvalSum_2n, Last2n
  <2> QED BY <1>1, <2>1, <2>3, <2>5
<1> QED BY <1>2, <1>3

\* A batch of all slots of both rows.
LEMMA FullBatch ==
  ASSUME NEW k \in Nat, RingIs(k), NEW b, b = TwoTo[k + 1], Log2Up(b) = k + 1, NEW e \in Units(m)
  PROVE  Once(EvalSum_2n(Input(m), b).value[e], Units(m))
<1> DEFINE D == Doubled(Input(m), 5, k, m)
           f == (e * (m - 1)) % m
<1>1. b > 1 /\ ~(2 * b < m)
  <2> DEFINE p == k + 1
  <2>1. p \in Nat /\ p >= 1 /\ p + 1 = k + 2 OBVIOUS
  <2> HIDE DEF p
  <2>2. TwoTo[p] \in Nat /\ TwoTo[p] > p /\ TwoTo[p + 1] = 2 * TwoTo[p]
    BY <2>1, TwoToPositive, TwoToIs
  <2>3. m = TwoTo[p + 1] /\ b = TwoTo[p] BY <2>1 DEF RingIs, p
  <2> QED BY <2>1, <2>2, <2>3
<1>2. EvalSum_2n(Input(m), b) = AddAutomorphism(D, m - 1)
  <2>1. Log2Up(b) - 1 = k OBVIOUS
  <2> QED BY <1>1, <2>1 DEF EvalSum_2n, Last2n
<1>3. EvalSum_2n(Input(m), b).value[e] = Added(D.value[e], D.value[f])
  <2> HIDE DEF D
  <2>1. AddAutomorphism(D, m - 1).value
          = [g \in Units(m) |-> Added(D.value[g], D.value[(g * (m - 1)) % m])]
    BY DEF AddAutomorphism
  <2> QED BY <1>2, <2>1
<1>4. m = TwoTo[k + 2] BY DEF RingIs
<1>5. \A g \in Units(m) : D.value[g] = Indicator(m, Row(g, k))
  <2> SUFFICES ASSUME NEW g \in Units(m) PROVE D.value[g] = Indicator(m, Row(g, k)) OBVIOUS
  <2>1. k <= k OBVIOUS
  <2>2. D.value[g] = Indicator(m, {(g * PowerMod(5, i, m)) % m : i \in 0 .. TwoTo[k] - 1})
    BY <1>4, <2>1, BatchSums
  <2>3. Row(g, k) = {(g * PowerMod(5, i, m)) % m : i \in 0 .. TwoTo[k] - 1}
    BY <1>4 DEF Row, Five
  <2> QED BY <2>2, <2>3
<1> HIDE DEF D
<1>6. f \in Units(m) /\ \A u \in Units(m) : (u \in Row(e, k)) # (u \in Row(f, k))
  BY <1>4, BothRows
<1> HIDE DEF f
<1>7. Row(e, k) \cap Row(f, k) \cap Units(m) = {} BY <1>6
<1> DEFINE A == Row(e, k) \cap Units(m)
           B == Row(f, k) \cap Units(m)
<1>8. Indicator(m, Row(e, k)) = Indicator(m, A) /\ Indicator(m, Row(f, k)) = Indicator(m, B)
  BY DEF Indicator
<1>9. A \cap B = {} /\ A \cup B = Units(m) BY <1>6
<1>10. Added(D.value[e], D.value[f]) = Added(Indicator(m, A), Indicator(m, B))
  BY <1>5, <1>6, <1>8
<1> HIDE DEF A, B
<1>11. Added(Indicator(m, A), Indicator(m, B)) = Indicator(m, Units(m)) BY <1>9, DisjointAdd
<1> QED BY <1>3, <1>10, <1>11, OnceOf

LEMMA BatchIsRight ==
  ASSUME ContextFits, NEW b \in PowersOfTwo(Slots), NEW call, call.op = "EvalSum", call.size = b,
         NEW value, value = (IF scheme = "CKKSRNS" THEN EvalSum2nComplex(Input(m), b)
                             ELSE EvalSum_2n(Input(m), b)).value
  PROVE  BatchIsSummed(call, value)
<1>1. PICK k \in Nat : RingIs(k) BY RingOf
<1>2. Slots \in Nat BY ContextIs
<1>3. PICK n \in Nat : b = TwoTo[n] /\ Log2Up(b) = n BY <1>2, LogGrows
<1>4. b <= Slots BY <1>2, PowersOfTwoAre
<1> SUFFICES ASSUME NEW e \in Units(m)
             PROVE  Once(value[e], IF b <= m \div 4
                                   THEN {(e * PowerMod(5, i, m)) % m : i \in 0 .. b - 1}
                                   ELSE Units(m))
  BY DEF BatchIsSummed
<1>5. CASE b <= m \div 4
  <2>1. n <= k BY <1>1, <1>3, <1>5, TwoToOrder DEF RingIs
  <2>2. value = Doubled(Input(m), 5, n, m).value BY <1>1, <1>3, <2>1, ShortBatch
  <2>3. Doubled(Input(m), 5, n, m).value[e]
          = Indicator(m, {(e * PowerMod(5, i, m)) % m : i \in 0 .. TwoTo[n] - 1})
    BY <1>1, <2>1, BatchSums DEF RingIs
  <2> QED BY <1>3, <1>5, <2>2, <2>3, OnceOf
<1>6. CASE ~(b <= m \div 4)
  <2>1. scheme # "CKKSRNS" /\ b <= m \div 2 BY <1>4, <1>6 DEF Slots
  <2>2. n = k + 1
    <3>1. k + 1 \in Nat /\ TwoTo[n] <= TwoTo[k + 1] /\ ~(TwoTo[n] <= TwoTo[k])
      BY <1>1, <1>3, <1>6, <2>1 DEF RingIs
    <3>2. n <= k + 1 /\ ~(n <= k) BY <3>1, TwoToOrder
    <3> QED BY <3>2
  <2>3. Once(EvalSum_2n(Input(m), b).value[e], Units(m)) BY <1>1, <1>3, <2>2, FullBatch
  <2> QED BY <1>6, <2>1, <2>3
<1> QED BY <1>5, <1>6

LEMMA RowsOf ==
  ASSUME NEW l \in Nat, IsSubring(l), NEW order, order = TwoTo[l + 2]
  PROVE  \A s, n \in Nat : s > 0 /\ FitsRow(s, n, l) => \A e \in Units(m) :
           Doubled(Input(order), PowerMod(5, s, order), n, order).value[e]
             = Indicator(order, Column(e, s, TwoTo[n], order))
<1>1. PICK k \in Nat : l <= k /\ m = TwoTo[k + 2] BY DEF IsSubring
<1> SUFFICES ASSUME NEW s \in Nat, s > 0, NEW n \in Nat, FitsRow(s, n, l), NEW e \in Units(m)
             PROVE  Doubled(Input(order), PowerMod(5, s, order), n, order).value[e]
                      = Indicator(order, Column(e, s, TwoTo[n], order))
  OBVIOUS
<1> QED BY <1>1, MatrixSums

LEMMA RowsAreRight ==
  ASSUME ContextFits, NEW order \in Subrings, NEW x \in PowersOfTwo(order \div 4),
         NEW call, call.op = "EvalSumRows", call.size = x, call.order = order,
         NEW value, value = EvalSum2nComplexRows(Input(order), x, order).value
  PROVE  RowsAreSummed(call, value)
<1>1. PICK k \in Nat : RingIs(k) BY RingOf
<1>2. order \in CyclotomicOrders /\ order <= m BY DEF Subrings
<1>3. PICK l \in Nat, i \in Nat :
        order = TwoTo[l + 2] /\ x = TwoTo[i] /\ i <= l /\ Log2Up(order \div (4 * x)) = l - i
  <2>1. PICK j \in Nat, i \in Nat :
          order = TwoTo[j + 3] /\ x = TwoTo[i] /\ i <= j + 1
            /\ Log2Up(order \div (4 * x)) = (j + 1) - i
    BY <1>2, RowsAre
  <2> DEFINE l == j + 1
  <2>2. l \in Nat /\ j + 3 = l + 2 /\ j + 1 = l OBVIOUS
  <2> HIDE DEF l
  <2>3. order = TwoTo[l + 2] /\ i <= l /\ Log2Up(order \div (4 * x)) = l - i BY <2>1, <2>2
  <2> QED BY <2>1, <2>2, <2>3
<1> DEFINE n == l - i
<1>4. n \in Nat /\ i + n = l BY <1>3
<1> HIDE DEF n
<1>5. l <= k
  <2>1. l + 2 \in Nat /\ k + 2 \in Nat /\ TwoTo[l + 2] <= TwoTo[k + 2]
    BY <1>1, <1>2, <1>3 DEF RingIs
  <2>2. l + 2 <= k + 2 BY <2>1, TwoToOrder
  <2> QED BY <2>2
<1>6. x * TwoTo[n] = TwoTo[l]
  <2>1. TwoTo[i + n] = TwoTo[i] * TwoTo[n] BY <1>4, TwoToSum
  <2> QED BY <1>3, <1>4, <2>1
<1>7. x \in Nat /\ x > 0 /\ TwoTo[l] \in Nat BY <1>3, TwoToPositive
<1>8. FitsRow(x, n, l) BY <1>6, <1>7 DEF FitsRow
<1>9. order \div (4 * x) = TwoTo[n]
  <2>1. 4 * x = TwoTo[i + 2]
    <3>1. TwoTo[i + 2] = TwoTo[i] * TwoTo[2] /\ 2 \in Nat BY TwoToSum
    <3> QED BY <1>3, <1>7, <3>1, SmallPowersOfTwo
  <2>2. i + 2 \in Nat /\ l + 2 \in Nat /\ i + 2 <= l + 2 /\ (l + 2) - (i + 2) = n BY <1>3, <1>4
  <2>3. TwoTo[l + 2] \div TwoTo[i + 2] = TwoTo[(l + 2) - (i + 2)] BY <2>2, TwoToQuotient
  <2> QED BY <1>3, <2>1, <2>2, <2>3
<1>10. value = Doubled(Input(order), PowerMod(5, x, order), n, order).value
  <2>1. Log2Up(order \div (4 * x)) = n BY <1>3 DEF n
  <2> QED BY <2>1 DEF EvalSum2nComplexRows
<1> SUFFICES ASSUME NEW e \in Units(m)
             PROVE  Once(value[e], {(e * PowerMod(5, x * j, order)) % order :
                                      j \in 0 .. order \div (4 * x) - 1})
  BY DEF RowsAreSummed
<1>11. m = TwoTo[k + 2] BY <1>1 DEF RingIs
<1>12. value[e]
         = Indicator(order, Column(e, x, TwoTo[n], order))
  <2>1. order = TwoTo[l + 2] BY <1>3
  <2>3. IsSubring(l) BY <1>5, <1>11 DEF IsSubring
  <2>2. Doubled(Input(order), PowerMod(5, x, order), n, order).value[e]
          = Indicator(order, Column(e, x, TwoTo[n], order))
    BY <1>4, <1>7, <1>8, <2>1, <2>3, RowsOf
  <2> QED BY <1>10, <2>2
<1> QED BY <1>9, <1>12, OnceOf DEF Column

\* The powers of the inverse of 5 undo those of 5.
Back(a, k) == Five((TwoTo[k] - 1) * a, k + 2)

LEMMA BackUndoes ==
  ASSUME NEW k \in Nat, NEW a \in Nat
  PROVE  /\ Back(a, k) \in Nat /\ Back(a, k) % 2 = 1 /\ Back(a, k) < TwoTo[k + 2]
         /\ (Five(a, k + 2) * Back(a, k)) % TwoTo[k + 2] = 1
<1> DEFINE M == TwoTo[k]
           b == (M - 1) * a
<1>1. M \in Nat /\ M > 0 /\ k + 2 \in Nat /\ k + 2 >= 1 /\ k + 2 >= 2 BY TwoToPositive
<1>2. b \in Nat /\ a + b = 0 + M * a
  <2>1. b = M * a - a /\ M * a \in Int BY <1>1
  <2>2. M - 1 \in Nat BY <1>1
  <2> DEFINE h == M - 1
  <2>3. h * a \in Nat
    <3> HIDE DEF h
    <3>1. h \in Nat BY <2>2 DEF h
    <3> QED BY <3>1
  <2>4. b \in Nat BY <2>3
  <2> HIDE DEF b
  <2> QED BY <2>1, <2>4
<1> HIDE DEF b
<1>3. Five(a + b, k + 2) = (Five(a, k + 2) * Five(b, k + 2)) % TwoTo[k + 2] BY <1>1, <1>2, FiveIs
<1>4. Five(0 + M * a, k + 2) = Five(0, k + 2)
  <2>1. 0 \in Nat OBVIOUS
  <2> QED BY <2>1, FiveRepeats
<1>5. Five(0, k + 2) = 1 BY <1>1, FiveIs
<1>6. Five(b, k + 2) \in Nat /\ Five(b, k + 2) % 2 = 1 BY <1>1, <1>2, FiveIsOdd
<1>7. Five(b, k + 2) < TwoTo[k + 2] BY <1>1, <1>2, FiveType
<1>8. Five(b, k + 2) = Back(a, k) BY DEF b, Back
<1> QED BY <1>2, <1>3, <1>4, <1>5, <1>6, <1>7, <1>8

\* The power of 5, or of its inverse, that moves a row by i.
Moves(i, k) == IF i < 0 THEN Back(-i, k) ELSE Five(i, k + 2)

LEMMA MovesAre ==
  ASSUME NEW k \in Nat, RingIs(k), NEW i \in Int, NEW a \in Nat
  PROVE  PowerMod(IF i < 0 THEN InverseMod(5, m) ELSE 5, a, m)
           = (IF i < 0 THEN Back(a, k) ELSE Five(a, k + 2))
<1>1. m = TwoTo[k + 2] /\ m \in Nat /\ m > 1 BY TwoToPositive DEF RingIs
<1>2. PowerMod(5, a, m) = Five(a, k + 2) BY <1>1 DEF Five
<1>3. PowerMod(InverseMod(5, m), a, m) = Back(a, k)
  <2>1. InverseMod(5, m) = PowerMod(5, TwoTo[k] - 1, m) BY <1>1, InverseOfFive DEF Five
  <2>2. TwoTo[k] - 1 \in Nat BY TwoToPositive
  <2> DEFINE h == TwoTo[k] - 1
  <2> HIDE DEF h
  <2>3. PowerMod(PowerMod(5, h, m), a, m) = PowerMod(5, h * a, m)
    BY <1>1, <2>2, PowersOfFive DEF h
  <2> QED BY <1>1, <2>1, <2>3 DEF Back, Five, h
<1> QED BY <1>2, <1>3

\* Either way of finding the automorphism, for a shift that has a slot to come from.
LEMMA AutomorphismIs ==
  ASSUME ContextFits, NEW k \in Nat, RingIs(k), NEW i \in Shifts
  PROVE  LET a == IF i < 0 THEN -i ELSE i
             P(n) == IF i < 0 THEN Back(n, k) ELSE Five(n, k + 2)
         IN  /\ a \in Nat /\ a < 2 * TwoTo[k]
             /\ a < TwoTo[k] => FindAutomorphismIndex(i) = P(a)
             /\ a >= TwoTo[k] => /\ scheme # "CKKSRNS"
                                 /\ FindAutomorphismIndex(i) = ((m - 1) * P(a - TwoTo[k])) % m
<1> DEFINE a == IF i < 0 THEN -i ELSE i
           P(n) == IF i < 0 THEN Back(n, k) ELSE Five(n, k + 2)
           f1 == IF i < 0 THEN InverseMod(5, m) ELSE 5
           M == TwoTo[k]
<1>1. M \in Nat /\ m \div 4 = M /\ m = 4 * M /\ m \div 2 = 2 * M /\ m \in Nat /\ m >= 8
  <2>1. M \in Nat /\ TwoTo[k + 1] = 2 * M BY TwoToIs
  <2>2. m \in Nat /\ m >= 8 BY ContextIs
  <2>3. TwoTo[k + 2] = TwoTo[k] * TwoTo[2] /\ TwoTo[2] = 4
    <3>1. 2 \in Nat OBVIOUS
    <3> QED BY <3>1, TwoToSum, SmallPowersOfTwo
  <2> QED BY <2>1, <2>2, <2>3 DEF RingIs
<1>2. i \in Int /\ a \in Nat /\ a < Slots /\ Slots = (IF scheme = "CKKSRNS" THEN M ELSE 2 * M)
  BY <1>1 DEF Shifts, Slots
<1>3. \A n \in Nat : PowerMod(f1, n, m) = P(n) BY <1>2, MovesAre
<1>4. i = 0 => P(a) = 1
  <2>1. k + 2 \in Nat /\ k + 2 >= 1 OBVIOUS
  <2> QED BY <2>1, FiveIs
<1> HIDE DEF M, P
<1>5. CASE scheme = "CKKSRNS"
  <2>1. a < M /\ i # m - 1 BY <1>1, <1>2, <1>5
  <2>2. FindAutomorphismIndex(i) = FindAutomorphismIndex2nComplex(i)
    BY <1>5 DEF FindAutomorphismIndex
  <2>3. i # 0 => FindAutomorphismIndex2nComplex(i)
                   = IF i < 0 THEN PowerMod(InverseMod(5, m), -i, m) ELSE PowerMod(5, i, m)
    BY <2>1 DEF FindAutomorphismIndex2nComplex
  <2>4. i # 0 => FindAutomorphismIndex2nComplex(i) = PowerMod(f1, a, m) BY <2>3
  <2>5. i = 0 => FindAutomorphismIndex2nComplex(i) = 1 BY <2>1 DEF FindAutomorphismIndex2nComplex
  <2>6. FindAutomorphismIndex(i) = P(a) BY <1>2, <1>3, <1>4, <2>2, <2>4, <2>5
  <2> QED BY <1>1, <1>2, <2>1, <2>6 DEF P, M
<1>6. CASE scheme # "CKKSRNS"
  <2>1. FindAutomorphismIndex(i) = FindAutomorphismIndex2n(i) BY <1>6 DEF FindAutomorphismIndex
  <2>2. i = 0 => FindAutomorphismIndex2n(i) = 1 BY DEF FindAutomorphismIndex2n
  <2>3. i # 0 /\ a < M => FindAutomorphismIndex2n(i) = PowerMod(f1, a, m)
    <3> SUFFICES ASSUME i # 0, a < m \div 4 PROVE FindAutomorphismIndex2n(i) = PowerMod(f1, a, m)
      BY <1>1
    <3>1. ~(a >= m \div 4) BY <1>1, <1>2
    <3> QED BY <3>1 DEF FindAutomorphismIndex2n
  <2>4. i # 0 /\ a >= M => FindAutomorphismIndex2n(i) = ((m - 1) * PowerMod(f1, a - M, m)) % m
    BY <1>1, <1>2 DEF FindAutomorphismIndex2n
  <2>5. a >= M => i # 0 /\ a - M \in Nat BY <1>1, <1>2
  <2>6. a < M => FindAutomorphismIndex(i) = P(a) BY <1>2, <1>3, <1>4, <2>1, <2>2, <2>3
  <2>7. a >= M => FindAutomorphismIndex(i) = ((m - 1) * P(a - M)) % m
    BY <1>3, <2>1, <2>4, <2>5
  <2> QED BY <1>1, <1>2, <1>6, <2>6, <2>7 DEF P, M
<1> QED BY <1>5, <1>6

\* The exponent that x times y stands for does not depend on the signs.
LEMMA NegativeProduct ==
  ASSUME NEW o \in Nat, o > 1, NEW x \in Nat, NEW y \in Nat, x < o
  PROVE  ((o - x) * (((o - 1) * y) % o)) % o = (x * y) % o
<1> DEFINE z == (o - 1) * y
           u == o - x
           p == u * z
           q == x * y
<1>1. z \in Int /\ u \in Int /\ o > 0 OBVIOUS
<1>2. (u * (z % o)) % o = (u * z) % o
  <2> HIDE DEF u, z
  <2> QED BY <1>1, ModOfProduct
<1>3. \E c \in Int : p = q + c * o
  <2>1. u * z = u * (y * o) - u * y
    <3> DEFINE v == y * o
    <3>1. v \in Int /\ z = v - y OBVIOUS
    <3> HIDE DEF v, z, u
    <3>2. u * (v - y) = u * v - u * y BY <1>1, <3>1
    <3> QED BY <3>1, <3>2 DEF v
  <2>2. u * y = y * o - x * y OBVIOUS
  <2>3. u * (y * o) = (u * y) * o OBVIOUS
  <2> DEFINE h == u * y
  <2>4. h \in Int /\ y \in Int /\ q \in Int OBVIOUS
  <2>5. p = h * o - h /\ h = y * o - q BY <2>1, <2>2, <2>3
  <2> HIDE DEF h, p, q
  <2>6. h * o \in Int /\ y * o \in Int /\ (h - y) * o = h * o - y * o BY <2>4
  <2>7. p = q + (h - y) * o BY <2>4, <2>5, <2>6
  <2> QED BY <2>4, <2>7
<1>4. p \in Int /\ q \in Int BY <1>1
<1> HIDE DEF p, q
<1>5. p % o = q % o
  <2>1. PICK c \in Int : p = q + c * o BY <1>3
  <2> QED BY <1>1, <1>4, <2>1, SameMod
<1> QED BY <1>2, <1>5 DEF p, q, u, z

\* The automorphism brings slot i to slot 0, and that of -i takes slot 0 to slot i.
LEMMA AutomorphismMoves ==
  ASSUME ContextFits, NEW i \in Shifts
  PROVE  LET f == FindAutomorphismIndex(i)
         IN  /\ f \in Units(m)
             /\ i >= 0 => SlotExponent(i) = f
             /\ i < 0 => SlotExponent(-i) \in Units(m) /\ (SlotExponent(-i) * f) % m = 1
<1> DEFINE f == FindAutomorphismIndex(i)
           a == IF i < 0 THEN -i ELSE i
<1>1. PICK k \in Nat : RingIs(k) BY RingOf
<1> DEFINE M == TwoTo[k]
           x(n) == Five(n, k + 2)
           y(n) == IF i < 0 THEN Back(n, k) ELSE Five(n, k + 2)
<1>2. /\ a \in Nat /\ a < 2 * M
      /\ a < M => f = y(a)
      /\ a >= M => f = ((m - 1) * y(a - M)) % m
  BY <1>1, AutomorphismIs
<1>3. /\ m = TwoTo[k + 2] /\ m \div 4 = M /\ m \in Nat /\ m > 1 /\ m > 0 /\ M \in Nat
      /\ k + 2 \in Nat /\ k + 2 >= 1 /\ k + 2 >= 2 /\ m % 2 = 0
  <2>1. m = 2 * TwoTo[k + 1] /\ TwoTo[k + 1] \in Nat
    <3>1. k + 1 \in Nat /\ (k + 1) + 1 = k + 2 OBVIOUS
    <3> QED BY <1>1, <3>1, TwoToIs DEF RingIs
  <2> QED BY <1>1, <2>1, TwoToPositive DEF RingIs
<1>4. i \in Int /\ (i < 0 => a = -i) /\ (i >= 0 => a = i)
  <2>1. Slots \in Int BY ContextIs
  <2> QED BY <2>1 DEF Shifts
<1> HIDE DEF f, a, M
<1>5. \A n \in Nat : x(n) \in Nat /\ x(n) % 2 = 1 /\ x(n) < m
  BY <1>3, FiveIsOdd, FiveType
<1>6. \A n \in Nat : /\ y(n) \in Nat /\ y(n) % 2 = 1 /\ y(n) < m
                     /\ i < 0 => (x(n) * y(n)) % m = 1
                     /\ i >= 0 => y(n) = x(n)
  <2> SUFFICES ASSUME NEW n \in Nat
               PROVE  /\ y(n) \in Nat /\ y(n) % 2 = 1 /\ y(n) < m
                      /\ i < 0 => (x(n) * y(n)) % m = 1
                      /\ i >= 0 => y(n) = x(n)
    OBVIOUS
  <2>1. /\ Back(n, k) \in Nat /\ Back(n, k) % 2 = 1 /\ Back(n, k) < m
        /\ (x(n) * Back(n, k)) % m = 1
    BY <1>3, BackUndoes
  <2>2. CASE i < 0
    <3>1. y(n) = Back(n, k) BY <2>2
    <3> HIDE DEF x, y
    <3> QED BY <1>4, <2>1, <2>2, <3>1
  <2>3. CASE ~(i < 0)
    <3>1. y(n) = x(n) BY <2>3
    <3> HIDE DEF x, y
    <3> QED BY <1>5, <2>3, <3>1
  <2> QED BY <2>2, <2>3
<1>7. SlotExponent(a) = IF a < M THEN x(a) ELSE m - x(a - M)
  <2>1. \A n : PowerMod(5, n, m) = x(n) BY <1>3 DEF Five
  <2> QED BY <1>3, <2>1 DEF SlotExponent
<1> HIDE DEF x, y
<1> SUFFICES /\ f \in Units(m)
             /\ i >= 0 => SlotExponent(a) = f
             /\ i < 0 => SlotExponent(a) \in Units(m) /\ (SlotExponent(a) * f) % m = 1
  BY <1>4 DEF f
<1>8. ASSUME NEW u \in Nat, u % 2 = 1, u < m PROVE u \in Units(m) /\ m - u \in Units(m) /\ u > 0
  <2>1. u > 0 BY <1>8
  <2>2. (m - u) % 2 = 1 BY <1>3, <1>8
  <2> QED BY <1>3, <1>8, <2>1, <2>2 DEF Units
<1>9. CASE a < M
  <2>1. f = y(a) /\ SlotExponent(a) = x(a) BY <1>2, <1>7, <1>9
  <2> QED BY <1>2, <1>5, <1>6, <1>8, <2>1
<1>10. CASE ~(a < M)
  <2> DEFINE n == a - M
             xn == x(n)
             yn == y(n)
  <2>1. n \in Nat BY <1>2, <1>3, <1>10
  <2>2. f = ((m - 1) * yn) % m /\ SlotExponent(a) = m - xn BY <1>2, <1>3, <1>7, <1>10
  <2>3. /\ xn \in Nat /\ xn % 2 = 1 /\ xn < m /\ yn \in Nat /\ yn % 2 = 1 /\ yn < m
        /\ i < 0 => (xn * yn) % m = 1
        /\ i >= 0 => yn = xn
    BY <1>5, <1>6, <2>1
  <2> HIDE DEF xn, yn, n
  <2>4. f = m - yn
    <3>1. (yn * (m - 1)) % m = (-yn) % m
      <4>1. \A o \in Nat : o > 0 => \A v \in Int, w \in Int : (v * (o - 1)) % o = (-v) % o
        BY NegativeMod
      <4>2. \A v, w \in Int : (v * (m - 1)) % m = (-v) % m BY <1>3, <4>1
      <4>3. yn \in Int BY <2>3
      <4> QED BY <4>2, <4>3
    <3>2. yn * (m - 1) = (m - 1) * yn BY <1>3, <2>3
    <3>3. (-yn) % m = m - yn
      <4>1. yn > 0 BY <1>8, <2>3
      <4> DEFINE minus == -yn
                 rest == m - yn
                 back == -1
      <4>2. /\ minus \in Int /\ rest \in Int /\ back \in Int /\ minus = rest + back * m
            /\ rest \in Nat /\ rest < m
        BY <1>3, <2>3, <4>1
      <4> HIDE DEF minus, rest, back
      <4>3. \A d \in Int : minus = rest + d * m => minus % m = rest % m
        BY <1>3, <4>2, SameMod, ZenonT(60)
      <4>4. minus % m = rest % m BY <4>2, <4>3
      <4>5. m \in Nat BY <1>3
      <4>6. rest % m = rest BY <4>2, <4>5, SmallMod
      <4> QED BY <4>4, <4>6 DEF minus, rest
    <3> QED BY <2>2, <3>1, <3>2, <3>3
  <2>5. i < 0 => ((m - xn) * f) % m = 1
    <3>1. ((m - xn) * (((m - 1) * yn) % m)) % m = (xn * yn) % m
      BY <1>3, <2>3, NegativeProduct, ZenonT(60)
    <3> QED BY <2>2, <2>3, <3>1
  <2> QED BY <1>8, <2>2, <2>3, <2>4, <2>5
<1> QED BY <1>9, <1>10

\* What an input holds at the exponent u is the input u.
LEMMA InputAt ==
  ASSUME NEW k \in Nat, RingIs(k), NEW u \in Units(m)
  PROVE  Input(m).value[u] = Indicator(m, {u})
<1>1. m = TwoTo[k + 2] /\ k + 2 \in Nat /\ k + 2 >= 1 BY DEF RingIs
<1>2. u % m = u BY <1>1, UnitsAre
<1>3. Input(m).value[u] = [i \in Units(m) |-> IF u % m = i THEN 1 ELSE 0] BY DEF Input
<1> QED BY <1>2, <1>3 DEF Indicator

LEMMA SingleAt ==
  \A order, z : \A i \in Units(order) : Indicator(order, {z})[i] = IF i = z THEN 1 ELSE 0
BY DEF Indicator

\* Whether x is f times further is the same for all slots of a row.
Alike(e, f, x, g, o) == (((e * g) % o) * f) % o = (x * g) % o <=> (e * f) % o = x % o

LEMMA MovesAlike ==
  ASSUME NEW n \in Nat, n >= 1, NEW o, o = TwoTo[n]
  PROVE  \A e, f, x, g \in Int : g % 2 = 1 => Alike(e, f, x, g, o)
<1> SUFFICES ASSUME NEW e \in Int, NEW f \in Int, NEW x \in Int, NEW g \in Int, g % 2 = 1
             PROVE  (((e * g) % o) * f) % o = (x * g) % o <=> (e * f) % o = x % o
  BY DEF Alike
<1>1. o \in Nat /\ o > 0 BY TwoToPositive
<1> DEFINE p == e * g
           q == e * f
<1>2. p \in Int /\ q \in Int /\ p * f = g * q /\ x * g = g * x
  <2>1. (e * g) * f = g * (e * f) /\ x * g = g * x /\ e * g \in Int /\ e * f \in Int OBVIOUS
  <2> QED BY <2>1
<1> HIDE DEF p, q
<1>3. ((p % o) * f) % o = (p * f) % o BY <1>1, <1>2, ModOfProduct
<1>4. (g * q) % o = (g * x) % o => q % o = x % o
  <2>1. \A v, w, z \in Int : v % 2 = 1 /\ (v * w) % o = (v * z) % o => w % o = z % o
    BY OddFactors
  <2> QED BY <1>2, <2>1
<1>5. q % o = x % o => (g * q) % o = (g * x) % o
  <2>1. (g * (q % o)) % o = (g * q) % o /\ (g * (x % o)) % o = (g * x) % o
    BY <1>1, <1>2, ModOfProduct
  <2> QED BY <2>1
<1> QED BY <1>2, <1>3, <1>4, <1>5 DEF p, q

LEMMA RotationIsRight ==
  ASSUME ContextFits, NEW i \in Shifts, NEW call, call.op = "EvalAtIndex", call.size = i,
         NEW value, value = [e \in Units(m) |->
                               Input(m).value[(e * FindAutomorphismIndex(i)) % m]]
  PROVE  SlotsRotate(call, value)
<1> DEFINE f == FindAutomorphismIndex(i)
<1>1. PICK k \in Nat : RingIs(k) BY RingOf
<1>2. m = TwoTo[k + 2] /\ k + 2 \in Nat /\ k + 2 >= 1 /\ m \in Nat /\ m > 1 /\ m > 0 /\ m >= 8
  BY <1>1, TwoToPositive, ContextIs DEF RingIs
<1>3. /\ f \in Units(m)
      /\ i >= 0 => SlotExponent(i) = f
      /\ i < 0 => SlotExponent(-i) \in Units(m) /\ (SlotExponent(-i) * f) % m = 1
  BY AutomorphismMoves
<1>4. value = [e \in Units(m) |-> Input(m).value[(e * f) % m]] OBVIOUS
<1>5. \A e \in Units(m) : e \in Int /\ e % 2 = 1 /\ e % m = e BY <1>2, UnitsAre
<1> HIDE DEF f
<1>6. \A e, g \in Int : e % 2 = 1 /\ g % 2 = 1 => (e * g) % m \in Units(m) BY <1>2, UnitsTimes
<1>7. \A e \in Units(m) : value[e] = Indicator(m, {(e * f) % m})
  <2> SUFFICES ASSUME NEW e \in Units(m) PROVE value[e] = Indicator(m, {(e * f) % m}) OBVIOUS
  <2>1. (e * f) % m \in Units(m) BY <1>3, <1>5, <1>6
  <2>2. value[e] = Input(m).value[(e * f) % m] BY <1>4
  <2> QED BY <1>1, <2>1, <2>2, InputAt
<1>8. 1 \in Units(m) /\ (1 * f) % m = f
  <2>1. 1 * f = f /\ 1 % 2 = 1 BY <1>3, <1>5
  <2> QED BY <1>2, <1>3, <1>5, <2>1 DEF Units
<1>9. i >= 0 => Once(value[1], {SlotExponent(i)})
  <2>1. value[1] = Indicator(m, {(1 * f) % m}) BY <1>7, <1>8
  <2>2. value[1] = Indicator(m, {f}) BY <1>8, <2>1
  <2> QED BY <1>3, <2>2, OnceOf
<1>10. i < 0 => Once(value[SlotExponent(-i)], {1}) BY <1>3, <1>7, OnceOf
<1>11. ASSUME NEW e \in Units(m), NEW g \in {5, m - 1}, NEW x \in Units(m)
       PROVE  value[(e * g) % m][(x * g) % m] = value[e][x]
  <2>1. g \in Int /\ g % 2 = 1
    <3>1. m = 2 * TwoTo[k + 1] /\ TwoTo[k + 1] \in Nat
      <4>1. k + 1 \in Nat /\ (k + 1) + 1 = k + 2 OBVIOUS
      <4> QED BY <1>2, <4>1, TwoToIs
    <3> QED BY <1>2, <3>1
  <2>2. e \in Int /\ x \in Int /\ f \in Int /\ x % m = x /\ e % 2 = 1 /\ x % 2 = 1 BY <1>3, <1>5
  <2> DEFINE eg == (e * g) % m
             xg == (x * g) % m
  <2>3. eg \in Units(m) /\ xg \in Units(m) BY <1>6, <2>1, <2>2
  <2>4. (eg * f) % m = xg <=> (e * f) % m = x
    <3>1. Alike(e, f, x, g, m) BY <1>2, <2>1, <2>2, MovesAlike
    <3> QED BY <2>2, <3>1 DEF Alike
  <2> HIDE DEF eg, xg
  <2> DEFINE y == (eg * f) % m
             z == (e * f) % m
  <2>5. value[eg] = Indicator(m, {y}) /\ value[e] = Indicator(m, {z}) BY <1>7, <2>3
  <2>6. y = xg <=> z = x BY <2>4
  <2> HIDE DEF y, z
  <2>7. value[eg][xg] = (IF xg = y THEN 1 ELSE 0) /\ value[e][x] = (IF x = z THEN 1 ELSE 0)
    <3>1. \A w : \A u \in Units(m) : Indicator(m, {w})[u] = IF u = w THEN 1 ELSE 0 BY SingleAt
    <3>2. \A u \in Units(m) : Indicator(m, {y})[u] = IF u = y THEN 1 ELSE 0 BY <3>1
    <3>3. \A u \in Units(m) : Indicator(m, {z})[u] = IF u = z THEN 1 ELSE 0 BY <3>1
    <3>4. Indicator(m, {y})[xg] = IF xg = y THEN 1 ELSE 0 BY <2>3, <3>2
    <3>5. Indicator(m, {z})[x] = IF x = z THEN 1 ELSE 0 BY x \in Units(m), <3>3
    <3> QED BY <2>5, <3>4, <3>5
  <2> QED BY <2>6, <2>7 DEF eg, xg
<1> QED BY <1>9, <1>10, <1>11 DEF SlotsRotate

-----------------------------------------------------------------------------
(* Sums of many ciphertexts. *)

\* What the loop of EvalAddMany reads: an input, or one of the sums so far.
SumEntry(f, i, count) == IF i < count THEN OneOf(i, count) ELSE f[i - count]

ManySums(f, k, count) ==
  f = [j \in 0 .. k |-> Added(SumEntry(f, 2 * j, count), SumEntry(f, 2 * j + 1, count))]

LEMMA ManySumsExist ==
  ASSUME NEW count \in Nat, count >= 2
  PROVE  \A k \in Nat : k <= count - 2 => \E f : ManySums(f, k, count)
<1> DEFINE S == {k \in Nat : k <= count - 2 => \E f : ManySums(f, k, count)}
           Next2(f, j) == Added(SumEntry(f, 2 * j, count), SumEntry(f, 2 * j + 1, count))
<1>1. 0 \in S
  <2> DEFINE f == [j \in 0 .. 0 |-> Added(OneOf(0, count), OneOf(1, count))]
  <2>1. \A j \in 0 .. 0 : 2 * j < count /\ 2 * j + 1 < count /\ 2 * j = 0 /\ 2 * j + 1 = 1 OBVIOUS
  <2> HIDE DEF f
  <2>2. \A j \in 0 .. 0 : Next2(f, j) = Added(OneOf(0, count), OneOf(1, count))
    BY <2>1 DEF SumEntry
  <2>3. f = [j \in 0 .. 0 |-> Next2(f, j)] BY <2>2 DEF f
  <2> QED BY <2>3 DEF ManySums
<1>2. ASSUME NEW k \in Nat, k \in S PROVE k + 1 \in S
  <2> SUFFICES ASSUME k + 1 <= count - 2 PROVE \E f : ManySums(f, k + 1, count) OBVIOUS
  <2>1. PICK f : ManySums(f, k, count) BY <1>2
  <2> DEFINE g == [j \in 0 .. k + 1 |-> IF j = k + 1 THEN Next2(f, j) ELSE f[j]]
  <2>2. ASSUME NEW i \in Nat, i < count + k + 1 PROVE SumEntry(g, i, count) = SumEntry(f, i, count)
    <3>1. CASE i < count BY <3>1 DEF SumEntry
    <3>2. CASE ~(i < count)
      <4>1. i - count \in 0 .. k + 1 /\ i - count # k + 1 BY <2>2, <3>2
      <4>2. g[i - count] = f[i - count] BY <4>1
      <4> HIDE DEF g
      <4> QED BY <3>2, <4>2 DEF SumEntry
    <3> QED BY <3>1, <3>2
  <2>3. ASSUME NEW j \in 0 .. k + 1 PROVE g[j] = Next2(g, j)
    <3>1. /\ 2 * j \in Nat /\ 2 * j < count + k + 1
          /\ 2 * j + 1 \in Nat /\ 2 * j + 1 < count + k + 1
      OBVIOUS
    <3>2. Next2(g, j) = Next2(f, j)
      <4>1. SumEntry(g, 2 * j, count) = SumEntry(f, 2 * j, count) BY <2>2, <3>1
      <4>2. SumEntry(g, 2 * j + 1, count) = SumEntry(f, 2 * j + 1, count) BY <2>2, <3>1
      <4> HIDE DEF g
      <4> QED BY <4>1, <4>2
    <3>3. CASE j = k + 1
      <4>1. g[j] = Next2(f, j) BY <3>3
      <4> QED BY <3>2, <4>1
    <3>4. CASE j # k + 1
      <4>1. g[j] = f[j] /\ j \in 0 .. k BY <3>4
      <4>2. f[j] = Next2(f, j) BY <2>1, <4>1 DEF ManySums
      <4> QED BY <3>2, <4>1, <4>2
    <3> QED BY <3>3, <3>4
  <2>4. g = [j \in 0 .. k + 1 |-> g[j]] OBVIOUS
  <2> HIDE DEF g
  <2>5. ManySums(g, k + 1, count) BY <2>3, <2>4 DEF ManySums
  <2> QED BY <2>5
<1> HIDE DEF S
<1>3. \A k \in Nat : k \in S BY <1>1, <1>2, SetInduction
<1> QED BY <1>3 DEF S

\* Of the entries that are still to be added, one holds input x, and it holds it once.
HoldOnce(f, j, x, count) ==
  \E w \in 2 * j .. count + j - 1 :
    \A v \in 2 * j .. count + j - 1 : SumEntry(f, v, count)[x] = IF v = w THEN 1 ELSE 0

ManyInv(f, j, count) ==
  /\ \A v \in 0 .. count + j - 1 : DOMAIN SumEntry(f, v, count) = 0 .. count - 1
  /\ \A x \in 0 .. count - 1 : HoldOnce(f, j, x, count)

LEMMA ManyStep ==
  ASSUME NEW count \in Nat, count >= 2, NEW f, ManySums(f, count - 2, count),
         NEW j \in Nat, j + 1 <= count - 1, ManyInv(f, j, count)
  PROVE  ManyInv(f, j + 1, count)
<1> DEFINE n == count + j
           E(v) == SumEntry(f, v, count)
           a == 2 * j
           b == 2 * j + 1
<1>1. n \in Nat /\ a \in Nat /\ b \in Nat /\ a < n /\ b < n /\ a # b /\ a + 1 = b OBVIOUS
<1>2. E(n) = Added(E(a), E(b))
  <2>1. E(n) = f[j]
    <3>1. ~(n < count) /\ n - count = j OBVIOUS
    <3> QED BY <3>1 DEF SumEntry
  <2>2. j \in 0 .. count - 2 OBVIOUS
  <2>3. f[j] = Added(SumEntry(f, 2 * j, count), SumEntry(f, 2 * j + 1, count))
    BY <2>2 DEF ManySums
  <2> QED BY <2>1, <2>3
<1>3. DOMAIN E(a) = 0 .. count - 1 BY <1>1 DEF ManyInv
<1> HIDE DEF E
<1>4. DOMAIN E(n) = 0 .. count - 1 BY <1>2, <1>3 DEF Added
<1>5. \A x \in 0 .. count - 1 : E(n)[x] = E(a)[x] + E(b)[x] BY <1>2, <1>3 DEF Added
<1>6. ASSUME NEW v \in 0 .. count + (j + 1) - 1 PROVE DOMAIN E(v) = 0 .. count - 1
  <2>1. v = n \/ v \in 0 .. count + j - 1 OBVIOUS
  <2>2. CASE v = n BY <1>4, <2>2
  <2>3. CASE v \in 0 .. count + j - 1 BY <2>3 DEF ManyInv, E
  <2> QED BY <2>1, <2>2, <2>3
<1>7. ASSUME NEW x \in 0 .. count - 1 PROVE HoldOnce(f, j + 1, x, count)
  <2>1. PICK w \in a .. n - 1 : \A v \in a .. n - 1 : E(v)[x] = IF v = w THEN 1 ELSE 0
    <3>1. HoldOnce(f, j, x, count) BY DEF ManyInv
    <3> QED BY <3>1 DEF HoldOnce, E
  <2>2. a \in a .. n - 1 /\ b \in a .. n - 1 BY <1>1
  <2>3. /\ E(a)[x] = IF a = w THEN 1 ELSE 0
        /\ E(b)[x] = IF b = w THEN 1 ELSE 0
    BY <2>1, <2>2
  <2>4. E(n)[x] = IF w \in {a, b} THEN 1 ELSE 0 BY <1>1, <1>5, <2>3
  <2> DEFINE z == IF w \in {a, b} THEN n ELSE w
  <2>5. z \in a + 2 .. n BY <1>1
  <2>6. ASSUME NEW v \in a + 2 .. n PROVE E(v)[x] = IF v = z THEN 1 ELSE 0
    <3>1. CASE v = n
      <4>1. w # n BY <1>1
      <4>2. v = z <=> w \in {a, b} BY <3>1, <4>1
      <4> HIDE DEF z
      <4> QED BY <2>4, <3>1, <4>2
    <3>2. CASE v # n
      <4>1. v \in a .. n - 1 /\ v # a /\ v # b BY <1>1, <3>2
      <4>2. v = z <=> v = w BY <3>2, <4>1
      <4> HIDE DEF z
      <4> QED BY <2>1, <4>1, <4>2
    <3> QED BY <3>1, <3>2
  <2>7. a + 2 = 2 * (j + 1) /\ count + (j + 1) - 1 = n OBVIOUS
  <2> HIDE DEF z, a, n
  <2>8. \E c \in a + 2 .. n : \A v \in a + 2 .. n : E(v)[x] = IF v = c THEN 1 ELSE 0
    BY <2>5, <2>6
  <2> QED BY <2>7, <2>8 DEF HoldOnce, E
<1> QED BY <1>6, <1>7 DEF ManyInv, E

LEMMA ManyStart ==
  ASSUME NEW count \in Nat, count >= 2, NEW f
  PROVE  ManyInv(f, 0, count)
<1>1. \A v \in 0 .. count + 0 - 1 : SumEntry(f, v, count) = OneOf(v, count) BY DEF SumEntry
<1>2. \A v \in 0 .. count + 0 - 1 : DOMAIN SumEntry(f, v, count) = 0 .. count - 1
  BY <1>1 DEF OneOf
<1>3. ASSUME NEW x \in 0 .. count - 1 PROVE HoldOnce(f, 0, x, count)
  <2>1. 2 * 0 = 0 /\ count + 0 - 1 = count - 1 OBVIOUS
  <2>2. \A v \in 0 .. count - 1 : SumEntry(f, v, count)[x] = IF v = x THEN 1 ELSE 0
    BY <1>1 DEF OneOf
  <2> QED BY <2>1, <2>2 DEF HoldOnce
<1> QED BY <1>2, <1>3 DEF ManyInv

LEMMA EvalAddManyIs ==
  ASSUME NEW count \in Nat, count >= 2
  PROVE  Once(EvalAddMany(count), 0 .. count - 1)
<1> DEFINE f == CHOOSE g : ManySums(g, count - 2, count)
           S == {j \in Nat : j <= count - 1 => ManyInv(f, j, count)}
<1>1. count - 2 \in Nat /\ count - 1 \in Nat OBVIOUS
<1>2. ManySums(f, count - 2, count) BY <1>1, ManySumsExist
<1>3. EvalAddMany(count) = f[count - 2] BY DEF EvalAddMany, ManySums, SumEntry
<1> HIDE DEF f
<1>4. 0 \in S BY ManyStart
<1>5. ASSUME NEW j \in Nat, j \in S PROVE j + 1 \in S
  <2> SUFFICES ASSUME j + 1 <= count - 1 PROVE ManyInv(f, j + 1, count) OBVIOUS
  <2>1. ManyInv(f, j, count) BY <1>5
  <2> QED BY <1>2, <2>1, ManyStep
<1> HIDE DEF S
<1>6. \A j \in Nat : j \in S BY <1>4, <1>5, SetInduction
<1>7. ManyInv(f, count - 1, count) BY <1>1, <1>6 DEF S
<1> DEFINE e == 2 * (count - 1)
<1>8. e \in Nat /\ count + (count - 1) - 1 = e /\ ~(e < count) /\ e - count = count - 2 OBVIOUS
<1> HIDE DEF e
<1>9. SumEntry(f, e, count) = EvalAddMany(count) BY <1>3, <1>8 DEF SumEntry
<1>10. ASSUME NEW x \in 0 .. count - 1 PROVE EvalAddMany(count)[x] = 1
  <2>1. HoldOnce(f, count - 1, x, count) BY <1>7 DEF ManyInv
  <2>2. \E w \in e .. e : \A v \in e .. e : SumEntry(f, v, count)[x] = IF v = w THEN 1 ELSE 0
    BY <1>8, <2>1 DEF HoldOnce, e
  <2>3. e \in e .. e /\ \A w \in e .. e : w = e BY <1>8
  <2> QED BY <1>9, <2>2, <2>3
<1>11. DOMAIN EvalAddMany(count) = 0 .. count - 1
  <2>1. e \in 0 .. count + (count - 1) - 1 BY <1>8
  <2> QED BY <1>7, <1>9, <2>1 DEF ManyInv
<1> QED BY <1>10, <1>11 DEF Once

\* The logarithm of any length.
LEMMA Log2UpIs ==
  ASSUME NEW b \in Nat
  PROVE  Log2Up(b) \in Nat /\ TwoTo[Log2Up(b)] >= b
<1> DEFINE Fits(k) == TwoTo[k] >= b /\ \A i \in 0 .. k - 1 : TwoTo[i] < b
           S == {k \in Nat : \A i \in 0 .. k : TwoTo[i] < b}
<1>1. \E k \in Nat : Fits(k)
  <2> SUFFICES ASSUME \A k \in Nat : ~Fits(k) PROVE FALSE OBVIOUS
  <2>1. 0 \in S
    <3>1. ~Fits(0) /\ TwoTo[0] \in Nat BY TwoToPositive
    <3> QED BY <3>1
  <2>2. ASSUME NEW k \in Nat, k \in S PROVE k + 1 \in S
    <3>1. \A i \in 0 .. (k + 1) - 1 : TwoTo[i] < b BY <2>2
    <3>2. k + 1 \in Nat /\ TwoTo[k + 1] \in Nat BY TwoToPositive
    <3>3. ~(TwoTo[k + 1] >= b) BY <3>1, <3>2
    <3>4. \A i \in 0 .. k + 1 : i = k + 1 \/ i \in 0 .. (k + 1) - 1 OBVIOUS
    <3>5. TwoTo[k + 1] < b BY <3>2, <3>3
    <3> QED BY <3>1, <3>4, <3>5
  <2> HIDE DEF S
  <2>3. b \in S BY <2>1, <2>2, SetInduction
  <2>4. TwoTo[b] < b /\ TwoTo[b] \in Nat BY <2>3, TwoToPositive DEF S
  <2> QED BY <2>4, TwoToPositive
<1>2. PICK k \in Nat : Fits(k) BY <1>1
<1>3. k \in 0 .. b
  <2> SUFFICES ASSUME k > b PROVE FALSE OBVIOUS
  <2>1. b \in 0 .. k - 1 OBVIOUS
  <2>2. TwoTo[b] < b BY <1>2, <2>1
  <2> QED BY <2>2, TwoToPositive
<1>4. Log2Up(b) = CHOOSE c \in 0 .. b : Fits(c) BY DEF Log2Up
<1>5. Log2Up(b) \in 0 .. b /\ Fits(Log2Up(b)) BY <1>2, <1>3, <1>4
<1> QED BY <1>5

\* What a pass of EvalAddManyInPlace stores.
Merged(u, v) == IF u = NoCiphertext THEN v ELSE IF v = NoCiphertext THEN u ELSE Added(u, v)

Given(count, present) ==
  [i \in 0 .. count - 1 |-> IF i \in present THEN OneOf(i, count) ELSE NoCiphertext]

Passed(vec, j, count) ==
  [i \in 0 .. count - 1 |->
     IF i % (2 * j) = 0 /\ i + j < count THEN Merged(vec[i], vec[i + j]) ELSE vec[i]]

Passes(f, k, count, present) ==
  f = [p \in 0 .. k |-> IF p = 0 THEN Given(count, present)
                        ELSE Passed(f[p - 1], TwoTo[p - 1], count)]

LEMMA PassesExist ==
  ASSUME NEW count, NEW present
  PROVE  \A k \in Nat : \E f : Passes(f, k, count, present)
<1> DEFINE S == {k \in Nat : \E f : Passes(f, k, count, present)}
           After(u, p) == Passed(u, TwoTo[p - 1], count)
<1>1. 0 \in S
  <2>1. Passes([i \in 0 .. 0 |-> Given(count, present)], 0, count, present) BY DEF Passes
  <2> QED BY <2>1
<1>2. ASSUME NEW k \in Nat, k \in S PROVE k + 1 \in S
  <2>1. PICK f : Passes(f, k, count, present) BY <1>2
  <2>5. f = [p \in 0 .. k |-> IF p = 0 THEN Given(count, present) ELSE After(f[p - 1], p)]
    BY <2>1 DEF Passes
  <2> HIDE DEF After
  <2> DEFINE e == [p \in 0 .. k + 1 |-> IF p = k + 1 THEN After(f[k], p) ELSE f[p]]
  <2>2. ASSUME NEW p \in 0 .. k + 1
        PROVE  e[p] = IF p = 0 THEN Given(count, present) ELSE After(e[p - 1], p)
    <3>1. CASE p = k + 1
      <4>1. p - 1 = k /\ k \in 0 .. k + 1 /\ k # k + 1 /\ p # 0 BY <3>1
      <4>2. e[k] = f[k] /\ e[p] = After(f[k], p) BY <3>1, <4>1
      <4> HIDE DEF e
      <4> QED BY <4>1, <4>2
    <3>2. CASE p # k + 1
      <4>1. p \in 0 .. k BY <3>2
      <4>2. f[p] = IF p = 0 THEN Given(count, present) ELSE After(f[p - 1], p) BY <2>5, <4>1
      <4>3. p # 0 => p - 1 \in 0 .. k + 1 /\ p - 1 # k + 1 BY <4>1
      <4>4. e[p] = f[p] /\ (p # 0 => e[p - 1] = f[p - 1]) BY <3>2, <4>3
      <4> HIDE DEF e
      <4> QED BY <4>2, <4>4
    <3> QED BY <3>1, <3>2
  <2>3. e = [p \in 0 .. k + 1 |-> e[p]] OBVIOUS
  <2> HIDE DEF e
  <2>4. Passes(e, k + 1, count, present)
    <3>1. e = [p \in 0 .. k + 1 |-> IF p = 0 THEN Given(count, present) ELSE After(e[p - 1], p)]
      BY <2>2, <2>3
    <3> QED BY <3>1 DEF Passes, After
  <2> QED BY <2>4
<1> HIDE DEF S
<1>3. \A k \in Nat : k \in S BY <1>1, <1>2, SetInduction
<1> QED BY <1>3 DEF S

\* The inputs that are there among the j from i on, added up.
Present(i, j, present) == {x \in present : i <= x /\ x < i + j}

Held(A, count) ==
  IF A = {} THEN NoCiphertext ELSE [x \in 0 .. count - 1 |-> IF x \in A THEN 1 ELSE 0]

LEMMA MergedAre ==
  ASSUME NEW count \in 2 .. MaxMany, NEW A, NEW B, A \cap B = {}
  PROVE  Merged(Held(A, count), Held(B, count)) = Held(A \cup B, count)
<1> DEFINE I(C) == [x \in 0 .. count - 1 |-> IF x \in C THEN 1 ELSE 0]
<1>1. \A C : I(C) # NoCiphertext
  <2>1. \A C : I(C) \in [0 .. count - 1 -> {0, 1}] OBVIOUS
  <2> QED BY <2>1, ManyAssumption
<1>2. Added(I(A), I(B)) = I(A \cup B)
  <2>1. Added(I(A), I(B)) = [x \in 0 .. count - 1 |-> I(A)[x] + I(B)[x]] BY DEF Added
  <2>2. \A x \in 0 .. count - 1 : I(A)[x] + I(B)[x] = IF x \in A \cup B THEN 1 ELSE 0 OBVIOUS
  <2> QED BY <2>1, <2>2
<1>3. \A C : Held(C, count) = IF C = {} THEN NoCiphertext ELSE I(C) BY DEF Held
<1> HIDE DEF I
<1>4. CASE A = {}
  <2>1. A \cup B = B BY <1>4
  <2>2. Held(A, count) = NoCiphertext BY <1>3, <1>4
  <2> QED BY <2>1, <2>2 DEF Merged
<1>5. CASE A # {} /\ B = {}
  <2>1. A \cup B = A BY <1>5
  <2>2. Held(B, count) = NoCiphertext BY <1>3, <1>5
  <2> QED BY <2>1, <2>2 DEF Merged
<1>6. CASE A # {} /\ B # {}
  <2>1. A \cup B # {} BY <1>6
  <2>2. Held(A, count) = I(A) /\ Held(B, count) = I(B) /\ Held(A \cup B, count) = I(A \cup B)
    BY <1>3, <1>6, <2>1
  <2> QED BY <1>1, <1>2, <2>2 DEF Merged
<1> QED BY <1>4, <1>5, <1>6

\* After passes over blocks of j, an entry at the start of a block holds the block.
BlocksHold(vec, j, count, present) ==
  \A i \in 0 .. count - 1 : i % j = 0 => vec[i] = Held(Present(i, j, present), count)

LEMMA PassDoubles ==
  ASSUME NEW count \in 2 .. MaxMany, NEW present \in SUBSET (0 .. count - 1), NEW j \in Nat, j > 0,
         NEW vec, BlocksHold(vec, j, count, present)
  PROVE  BlocksHold(Passed(vec, j, count), 2 * j, count, present)
<1> SUFFICES ASSUME NEW i \in 0 .. count - 1, i % (2 * j) = 0
             PROVE  Passed(vec, j, count)[i] = Held(Present(i, 2 * j, present), count)
  BY DEF BlocksHold
<1>0. count \in Nat /\ i \in Nat /\ i < count BY ManyAssumption
<1>1. i % j = 0 /\ (i + j) % j = 0
  <2>1. PICK c \in Int : i = c * (2 * j)
    <3>1. 2 * j \in Nat /\ 2 * j > 0 /\ i \in Int OBVIOUS
    <3> DEFINE o == 2 * j
    <3> HIDE DEF o
    <3>2. o \in Nat /\ o > 0 /\ i % o = 0 BY <3>1 DEF o
    <3>3. \E c \in Int : i = c * o BY <3>1, <3>2, Multiples
    <3> QED BY <3>3 DEF o
  <2>2. i = (2 * c) * j /\ i + j = (2 * c + 1) * j /\ 2 * c \in Int /\ 2 * c + 1 \in Int
    <3>1. c * (2 * j) = (2 * c) * j /\ (2 * c + 1) * j = (2 * c) * j + j OBVIOUS
    <3> QED BY <2>1, <3>1
  <2>3. \A d \in Int : (d * j) % j = 0 BY Multiples
  <2> QED BY <2>2, <2>3
<1>5. \A x \in present : x \in Int /\ x < count BY <1>0
<1>6. i \in Int /\ j \in Int /\ j > 0 /\ 2 * j = j + j BY <1>0
<1>2. vec[i] = Held(Present(i, j, present), count) BY <1>1 DEF BlocksHold
<1>3. CASE i + j < count
  <2>1. i + j \in 0 .. count - 1 BY <1>0, <1>3
  <2>2. vec[i + j] = Held(Present(i + j, j, present), count) BY <1>1, <2>1 DEF BlocksHold
  <2>3. Passed(vec, j, count)[i] = Merged(vec[i], vec[i + j]) BY <1>3 DEF Passed
  <2>4. Present(i, j, present) \cap Present(i + j, j, present) = {}
    <3>1. \A x \in present : ~(x < i + j /\ i + j <= x) BY <1>5, <1>6
    <3> QED BY <3>1 DEF Present
  <2>5. Present(i, j, present) \cup Present(i + j, j, present) = Present(i, 2 * j, present)
    <3>1. \A x \in present : (i <= x /\ x < i + j) \/ (i + j <= x /\ x < i + j + j)
                              <=> i <= x /\ x < i + 2 * j
      BY <1>5, <1>6
    <3> QED BY <3>1 DEF Present
  <2> QED BY <1>2, <2>2, <2>3, <2>4, <2>5, MergedAre
<1>4. CASE ~(i + j < count)
  <2>1. Passed(vec, j, count)[i] = vec[i] BY <1>4 DEF Passed
  <2>2. Present(i, 2 * j, present) = Present(i, j, present)
    <3>1. \A x \in present : i <= x /\ x < i + 2 * j <=> i <= x /\ x < i + j
      BY <1>0, <1>4, <1>5, <1>6
    <3> QED BY <3>1 DEF Present
  <2> QED BY <1>2, <2>1, <2>2
<1> QED BY <1>3, <1>4

LEMMA EvalAddManyInPlaceIs ==
  ASSUME NEW count \in 2 .. MaxMany, NEW present \in SUBSET (0 .. count - 1), 0 \in present
  PROVE  Once(EvalAddManyInPlace(count, present), present)
<1> DEFINE l == Log2Up(count)
           f == CHOOSE g : Passes(g, l, count, present)
           S == {p \in Nat : p <= l => BlocksHold(f[p], TwoTo[p], count, present)}
<1>0. count \in Nat /\ count >= 2 BY ManyAssumption
<1>1. l \in Nat /\ TwoTo[l] >= count BY <1>0, Log2UpIs
<1>3. EvalAddManyInPlace(count, present) = f[l][0]
  BY DEF EvalAddManyInPlace, Passes, Given, Passed, Merged
<1> HIDE DEF l
<1>2. Passes(f, l, count, present) BY <1>1, PassesExist
<1> HIDE DEF f
<1>4. 0 \in S
  <2>1. f[0] = Given(count, present) /\ TwoTo[0] = 1 BY <1>1, <1>2, TwoToIs DEF Passes
  <2>2. ASSUME NEW i \in 0 .. count - 1 PROVE f[0][i] = Held(Present(i, 1, present), count)
    <3>1. f[0][i] = IF i \in present THEN OneOf(i, count) ELSE NoCiphertext BY <2>1 DEF Given
    <3>2. \A x \in present : i <= x /\ x < i + 1 <=> x = i BY <1>0
    <3>3. CASE i \in present
      <4>1. Present(i, 1, present) = {i} BY <3>2, <3>3 DEF Present
      <4>2. Held({i}, count) = OneOf(i, count) BY DEF Held, OneOf
      <4> QED BY <3>1, <3>3, <4>1, <4>2
    <3>4. CASE i \notin present
      <4>1. Present(i, 1, present) = {} BY <3>2, <3>4 DEF Present
      <4> QED BY <3>1, <3>4, <4>1 DEF Held
    <3> QED BY <3>3, <3>4
  <2> QED BY <2>1, <2>2 DEF BlocksHold
<1>5. ASSUME NEW p \in Nat, p \in S PROVE p + 1 \in S
  <2> SUFFICES ASSUME p + 1 <= l PROVE BlocksHold(f[p + 1], TwoTo[p + 1], count, present) OBVIOUS
  <2>1. BlocksHold(f[p], TwoTo[p], count, present) BY <1>1, <1>5
  <2>2. f[p + 1] = Passed(f[p], TwoTo[p], count)
    <3>1. p + 1 \in 0 .. l /\ p + 1 # 0 /\ (p + 1) - 1 = p BY <1>1
    <3> QED BY <1>2, <3>1 DEF Passes
  <2>3. TwoTo[p + 1] = 2 * TwoTo[p] /\ TwoTo[p] \in Nat /\ TwoTo[p] > 0 BY TwoToIs, TwoToPositive
  <2> QED BY <2>1, <2>2, <2>3, PassDoubles
<1> HIDE DEF S
<1>6. \A p \in Nat : p \in S BY <1>4, <1>5, SetInduction
<1>7. BlocksHold(f[l], TwoTo[l], count, present) BY <1>1, <1>6 DEF S
<1>8. f[l][0] = Held(Present(0, TwoTo[l], present), count)
  <2>1. 0 \in 0 .. count - 1 /\ TwoTo[l] \in Nat /\ TwoTo[l] > 0 BY <1>0, <1>1, TwoToPositive
  <2>2. 0 % TwoTo[l] = 0 BY <2>1
  <2> QED BY <1>7, <2>1, <2>2 DEF BlocksHold
<1>9. Present(0, TwoTo[l], present) = present
  <2>1. TwoTo[l] \in Nat BY <1>1, TwoToPositive
  <2>2. \A x \in present : x \in Int /\ 0 <= x /\ x < 0 + TwoTo[l] BY <1>0, <1>1, <2>1
  <2> QED BY <2>2 DEF Present
<1> QED BY <1>3, <1>8, <1>9 DEF Held, Once

-----------------------------------------------------------------------------
(* Sums of columns: a matrix of C rows of b slots. *)

Cell(c, r, b, k) == Five(c * b + r, k + 2)
InRow(c, b, k) == {Cell(c, i, b, k) : i \in 0 .. b - 1}

\* The cells of every row that are less than h from its start hold the row, and no other does.
ColumnsHold(v, h, b, C, k) ==
  \A c \in 0 .. C - 1, r \in 0 .. b - 1 :
    v[Cell(c, r, b, k)] = Indicator(m, IF r < h THEN InRow(c, b, k) ELSE {})

\* Back by h slots, where the first slot follows the last.
LEMMA BackMoves ==
  ASSUME NEW k \in Nat, NEW a \in Nat, NEW h \in Nat, NEW x, x = Five(a, k + 2)
  PROVE  /\ h <= a => (x * Back(h, k)) % TwoTo[k + 2] = Five(a - h, k + 2)
         /\ 0 < h /\ a < h /\ h <= a + TwoTo[k] =>
              (x * Back(h, k)) % TwoTo[k + 2] = Five((a - h) + TwoTo[k], k + 2)
<1> DEFINE M == TwoTo[k]
           d == (M - 1) * h
<1>1. M \in Nat /\ M > 0 /\ k + 2 \in Nat /\ k + 2 >= 1 BY TwoToPositive
<1>2. M * h \in Nat /\ M * (h - 1) = M * h - M /\ d = M * h - h BY <1>1
<1>3. d \in Nat
  <2> DEFINE g == M - 1
  <2>1. g \in Nat BY <1>1
  <2> HIDE DEF g
  <2>2. g * h \in Nat BY <2>1
  <2> QED BY <2>2 DEF g
<1>4. Back(h, k) = Five(d, k + 2) BY DEF Back
<1> HIDE DEF d, M
<1>5. (x * Back(h, k)) % TwoTo[k + 2] = Five(a + d, k + 2) BY <1>1, <1>3, <1>4, FiveIs
<1>6. \A p, q \in Nat : Five(p + M * q, k + 2) = Five(p, k + 2) BY FiveRepeats DEF M
<1>7. ASSUME h <= a PROVE Five(a + d, k + 2) = Five(a - h, k + 2)
  <2>1. a - h \in Nat /\ a + d = (a - h) + M * h BY <1>2, <1>7
  <2> QED BY <1>6, <2>1
<1>8. ASSUME 0 < h, a < h, h <= a + M PROVE Five(a + d, k + 2) = Five((a - h) + M, k + 2)
  <2> DEFINE p == (a - h) + M
             q == h - 1
  <2>1. p \in Nat /\ q \in Nat BY <1>1, <1>8
  <2>2. a + d = p + M * q BY <1>1, <1>2
  <2> HIDE DEF p, q
  <2>3. Five(p + M * q, k + 2) = Five(p, k + 2) BY <1>6, <2>1
  <2> QED BY <2>2, <2>3 DEF p
<1> QED BY <1>5, <1>7, <1>8 DEF M

\* A matrix of b columns fills a row of the ring.
Fills(b, C, k) == b \in Nat /\ b > 0 /\ C \in Nat /\ C > 0 /\ C * b = TwoTo[k]

LEMMA CellsAre ==
  ASSUME NEW k \in Nat, NEW b, NEW C, Fills(b, C, k), NEW c \in 0 .. C - 1, NEW r \in 0 .. b - 1
  PROVE  /\ c * b + r \in 0 .. TwoTo[k] - 1 /\ c * b \in Nat
         /\ (c * b + r) % b = r
<1> DEFINE p == c * b
<1>1. b \in Nat /\ C \in Nat /\ c \in Nat /\ r \in Nat /\ r < b /\ C * b = TwoTo[k] BY DEF Fills
<1>2. p \in Nat BY <1>1
<1>3. p + b <= C * b
  <2> DEFINE d == (C - 1) - c
  <2>1. d \in Nat BY <1>1
  <2>2. C * b = p + d * b + b /\ d * b \in Int BY <1>1
  <2> HIDE DEF d, p
  <2>3. d * b \in Nat BY <1>1, <2>1
  <2> DEFINE x == d * b
             y == C * b
  <2>4. x \in Nat /\ y = p + x + b BY <2>2, <2>3
  <2> HIDE DEF x, y
  <2>5. p + b <= y BY <1>1, <1>2, <2>4
  <2> QED BY <2>5 DEF y
<1>4. (p + r) % b = r
  <2>1. p + r = r + c * b /\ p + r \in Int /\ r \in Int /\ c \in Int BY <1>1, <1>2
  <2> DEFINE x == p + r
  <2>2. x \in Int /\ x = r + c * b BY <2>1
  <2> HIDE DEF x
  <2>3. \A d \in Int : x = r + d * b => x % b = r % b BY <1>1, <2>1, <2>2, SameMod
  <2>4. x % b = r % b BY <2>1, <2>2, <2>3
  <2> QED BY <1>1, <2>4 DEF x
<1> HIDE DEF p
<1>5. p + r \in 0 .. TwoTo[k] - 1
  <2> DEFINE y == C * b
  <2>1. y = TwoTo[k] /\ p + b <= y /\ y \in Int BY <1>1, <1>3
  <2> HIDE DEF y
  <2> QED BY <1>1, <1>2, <2>1
<1> QED BY <1>2, <1>4, <1>5 DEF p

\* The cell h before another is in its row, or one of the last h of a row.
LEMMA CellBefore ==
  ASSUME NEW k \in Nat, NEW b, NEW C, Fills(b, C, k), NEW c \in 0 .. C - 1, NEW r \in 0 .. b - 1,
         NEW h \in Nat, 0 < h, h <= b
  PROVE  LET z == (Cell(c, r, b, k) * Back(h, k)) % TwoTo[k + 2]
         IN  /\ r >= h => z = Cell(c, r - h, b, k)
             /\ r < h => \E d \in 0 .. C - 1 : z = Cell(d, (r - h) + b, b, k)
<1> DEFINE z == (Cell(c, r, b, k) * Back(h, k)) % TwoTo[k + 2]
           p == c * b
           a == p + r
           M == TwoTo[k]
<1>1. b \in Nat /\ C \in Nat /\ C > 0 /\ c \in Nat /\ r \in Nat /\ r < b /\ C * b = M BY DEF Fills
<1>2. a \in Nat /\ p \in Nat BY CellsAre
<1>3. M \in Nat /\ b <= M
  <2>1. (C - 1) * b \in Nat
    <3> DEFINE g == C - 1
    <3>1. g \in Nat BY <1>1
    <3> HIDE DEF g
    <3>2. g * b \in Nat BY <1>1, <3>1
    <3> QED BY <3>2 DEF g
  <2>2. M = (C - 1) * b + b BY <1>1
  <2> QED BY <1>1, <2>1, <2>2
<1>4. /\ h <= a => z = Five(a - h, k + 2)
      /\ a < h /\ h <= a + M => z = Five((a - h) + M, k + 2)
  <2> DEFINE x == Cell(c, r, b, k)
  <2>1. x = Five(a, k + 2) BY DEF Cell
  <2>2. z = (x * Back(h, k)) % TwoTo[k + 2] OBVIOUS
  <2> HIDE DEF a, x, z
  <2>3. /\ h <= a => (x * Back(h, k)) % TwoTo[k + 2] = Five(a - h, k + 2)
        /\ 0 < h /\ a < h /\ h <= a + TwoTo[k] =>
             (x * Back(h, k)) % TwoTo[k + 2] = Five((a - h) + TwoTo[k], k + 2)
    BY <1>2, <2>1, BackMoves, SMTT(60)
  <2> QED BY <2>2, <2>3
<1> HIDE DEF z
<1>5. ASSUME r >= h PROVE z = Cell(c, r - h, b, k)
  <2>1. h <= a /\ a - h = p + (r - h) BY <1>1, <1>2, <1>5
  <2> QED BY <1>4, <2>1 DEF Cell
<1>6. ASSUME r < h, c > 0 PROVE \E d \in 0 .. C - 1 : z = Cell(d, (r - h) + b, b, k)
  <2>1. c - 1 \in 0 .. C - 1 /\ (c - 1) * b = p - b BY <1>1, <1>6
  <2>2. p >= b
    <3> DEFINE g == c - 1
    <3>1. g \in Nat BY <1>1, <1>6
    <3> HIDE DEF g
    <3>2. g * b \in Nat BY <1>1, <3>1
    <3> QED BY <1>1, <1>2, <2>1, <3>2 DEF g
  <2>3. h <= a /\ a - h = (c - 1) * b + ((r - h) + b) BY <1>1, <1>2, <2>1, <2>2
  <2>4. z = Cell(c - 1, (r - h) + b, b, k) BY <1>4, <2>3 DEF Cell
  <2> QED BY <2>1, <2>4
<1>7. ASSUME r < h, c = 0 PROVE \E d \in 0 .. C - 1 : z = Cell(d, (r - h) + b, b, k)
  <2>1. p = 0 /\ C - 1 \in 0 .. C - 1 /\ (C - 1) * b = M - b BY <1>1, <1>7
  <2>2. a < h /\ h <= a + M BY <1>1, <1>2, <1>3, <1>7, <2>1
  <2>3. (a - h) + M = (C - 1) * b + ((r - h) + b) BY <1>1, <1>3, <2>1
  <2>4. z = Cell(C - 1, (r - h) + b, b, k) BY <1>4, <2>2, <2>3 DEF Cell
  <2> QED BY <2>1, <2>4
<1> QED BY <1>1, <1>5, <1>6, <1>7 DEF z

\* Adding what is h before makes the parts that hold the row twice as long.
LEMMA ColumnsDouble ==
  ASSUME NEW k \in Nat, RingIs(k), NEW b, NEW C, Fills(b, C, k), NEW h \in Nat, 0 < h, 2 * h <= b,
         NEW v, ColumnsHold(v, h, b, C, k),
         NEW w, \A e \in Units(m) : w[e] = Added(v[e], v[(e * Back(h, k)) % m])
  PROVE  ColumnsHold(w, 2 * h, b, C, k)
<1> SUFFICES ASSUME NEW c \in 0 .. C - 1, NEW r \in 0 .. b - 1
             PROVE  w[Cell(c, r, b, k)]
                      = Indicator(m, IF r < 2 * h THEN InRow(c, b, k) ELSE {})
  BY DEF ColumnsHold
<1> DEFINE e == Cell(c, r, b, k)
           z == (e * Back(h, k)) % m
           Z == Indicator(m, {})
           I == Indicator(m, InRow(c, b, k))
<1>1. /\ m = TwoTo[k + 2] /\ k + 2 \in Nat /\ k + 2 >= 1 /\ k + 2 >= 2
      /\ b \in Nat /\ C \in Nat /\ r \in Nat /\ r < b /\ h <= b /\ c * b + r \in Nat
  BY CellsAre DEF RingIs, Fills
<1>2. e \in Units(m)
  <2> DEFINE a == c * b + r
  <2> HIDE DEF a
  <2>1. Five(a, k + 2) \in Nat /\ Five(a, k + 2) % 2 = 1 BY <1>1, FiveIsOdd DEF a
  <2>2. Five(a, k + 2) < m /\ m \in Nat /\ m > 1 BY <1>1, FiveType DEF a
  <2>3. Five(a, k + 2) \in Units(m) BY <2>1, <2>2 DEF Units
  <2> QED BY <2>3 DEF Cell, a
<1>3. w[e] = Added(v[e], v[z]) BY <1>2
<1>4. v[e] = IF r < h THEN I ELSE Z BY DEF ColumnsHold
<1>5. /\ r >= h => z = Cell(c, r - h, b, k)
      /\ r < h => \E d \in 0 .. C - 1 : z = Cell(d, (r - h) + b, b, k)
  <2> DEFINE y == (e * Back(h, k)) % TwoTo[k + 2]
  <2>1. h <= b BY <1>1
  <2>2. /\ r >= h => y = Cell(c, r - h, b, k)
        /\ r < h => \E d \in 0 .. C - 1 : y = Cell(d, (r - h) + b, b, k)
    BY <2>1, CellBefore
  <2>3. y = z BY <1>1
  <2> HIDE DEF y, z
  <2> QED BY <2>2, <2>3
<1> HIDE DEF z, e
<1>6. v[z] = IF r >= h /\ r < 2 * h THEN I ELSE Z
  <2>1. CASE r >= h
    <3>1. r - h \in 0 .. b - 1 /\ (r - h < h <=> r < 2 * h) BY <1>1, <2>1
    <3>2. v[Cell(c, r - h, b, k)] = Indicator(m, IF r - h < h THEN InRow(c, b, k) ELSE {})
      BY <3>1 DEF ColumnsHold
    <3>3. v[z] = Indicator(m, IF r - h < h THEN InRow(c, b, k) ELSE {}) BY <1>5, <2>1, <3>2
    <3> QED BY <2>1, <3>1, <3>3
  <2>2. CASE r < h
    <3>1. (r - h) + b \in 0 .. b - 1 /\ ~((r - h) + b < h) BY <1>1, <2>2
    <3>2. PICK d \in 0 .. C - 1 : z = Cell(d, (r - h) + b, b, k) BY <1>5, <2>2
    <3> DEFINE s == (r - h) + b
    <3>3. s \in 0 .. b - 1 /\ ~(s < h) /\ z = Cell(d, s, b, k) BY <3>1, <3>2
    <3> HIDE DEF s
    <3>4. v[Cell(d, s, b, k)] = Indicator(m, {}) BY <3>3 DEF ColumnsHold
    <3>5. ~(r >= h) BY <1>1, <2>2
    <3> QED BY <3>3, <3>4, <3>5
  <2> QED BY <1>1, <2>1, <2>2
<1>7. Added(I, Z) = I /\ Added(Z, I) = I /\ Added(Z, Z) = Z
  <2>1. \A A, B : A \cap B = {} => Added(Indicator(m, A), Indicator(m, B)) = Indicator(m, A \cup B)
    BY DisjointAdd
  <2> DEFINE A == InRow(c, b, k)
  <2> HIDE DEF A
  <2>2. A \cap {} = {} /\ {} \cap A = {} /\ {} \cap {} = {} /\ A \cup {} = A /\ {} \cup A = A
          /\ {} \cup {} = {}
    OBVIOUS
  <2>3. /\ Added(Indicator(m, A), Indicator(m, {})) = Indicator(m, A \cup {})
        /\ Added(Indicator(m, {}), Indicator(m, A)) = Indicator(m, {} \cup A)
        /\ Added(Indicator(m, {}), Indicator(m, {})) = Indicator(m, {} \cup {})
    BY <2>1, <2>2
  <2> QED BY <2>2, <2>3 DEF A
<1> HIDE DEF I, Z
<1>8. w[e] = IF r < 2 * h THEN I ELSE Z
  <2>1. CASE r < h BY <1>1, <1>3, <1>4, <1>6, <1>7, <2>1
  <2>2. CASE r >= h /\ r < 2 * h BY <1>1, <1>3, <1>4, <1>6, <1>7, <2>2
  <2>3. CASE ~(r < 2 * h)
    <3>1. ~(r < h) BY <1>1, <2>3
    <3> QED BY <1>3, <1>4, <1>6, <1>7, <2>3, <3>1
  <2> QED BY <1>1, <2>1, <2>2, <2>3
<1> QED BY <1>8 DEF e, I, Z

\* The exponents that the mask keeps.
FirstSlots(b) == {SlotExponent(j) : j \in {i \in 0 .. m \div 4 - 1 : i % b = 0}}

LEMMA MaskKeepsFirst ==
  ASSUME NEW k \in Nat, RingIs(k), NEW b, NEW C, Fills(b, C, k),
         NEW c \in 0 .. C - 1, NEW r \in 0 .. b - 1, NEW e, e = Cell(c, r, b, k)
  PROVE  {e, m - e} \cap FirstSlots(b) # {} <=> r = 0
<1> DEFINE p == c * b + r
           F(j) == Five(j, k + 2)
           o == TwoTo[k + 2]
<1>1. /\ m = o /\ m \div 4 = TwoTo[k] /\ TwoTo[k] \in Nat /\ o \in Nat
      /\ k + 2 \in Nat /\ k + 2 >= 2 /\ k + 2 >= 1 /\ o % 4 = 0
  <2>1. TwoTo[k + 2] = TwoTo[k] * TwoTo[2] /\ TwoTo[2] = 4 /\ TwoTo[k] \in Nat
    <3>1. 2 \in Nat OBVIOUS
    <3> QED BY <3>1, TwoToSum, TwoToIs, SmallPowersOfTwo
  <2> QED BY <2>1 DEF RingIs
<1>2. p \in 0 .. TwoTo[k] - 1 /\ p % b = r BY CellsAre
<1>3. e = F(p) BY DEF Cell
<1>4. \A j : j \in 0 .. m \div 4 - 1 => SlotExponent(j) = F(j)
  BY <1>1 DEF SlotExponent, Five
<1>5. FirstSlots(b) = {F(j) : j \in {i \in 0 .. TwoTo[k] - 1 : i % b = 0}}
  BY <1>1, <1>4 DEF FirstSlots
<1> HIDE DEF p, o
<1>6. \A j \in Nat : F(j) % 4 = 1 /\ F(j) \in Nat /\ F(j) < o BY <1>1, FiveIsOdd, FiveType DEF o
<1>7. \A j \in 0 .. TwoTo[k] - 1 : F(p) = F(j) => p = j
  <2> SUFFICES ASSUME NEW j \in 0 .. TwoTo[k] - 1, F(p) = F(j) PROVE p = j OBVIOUS
  <2> DEFINE one == 1
  <2>1. one \in Int /\ one % 2 = 1 /\ (one * F(p)) % o = (one * F(j)) % o OBVIOUS
  <2> HIDE DEF one
  <2> QED BY <1>2, <2>1, RowIsInjective DEF o
<1>8. m - e \notin FirstSlots(b)
  <2> SUFFICES ASSUME NEW j \in 0 .. TwoTo[k] - 1, m - e = F(j) PROVE FALSE BY <1>5
  <2>1. j \in Nat /\ p \in Nat BY <1>1, <1>2
  <2>2. e % 4 = 1 /\ e \in Nat /\ (m - e) % 4 = 1 BY <1>3, <1>6, <2>1
  <2> HIDE DEF F
  <2> QED BY <1>1, <2>2
<1> HIDE DEF F
<1>9. e \in FirstSlots(b) <=> r = 0 BY <1>2, <1>3, <1>5, <1>7
<1> QED BY <1>8, <1>9

LEMMA DoubledHasValue ==
  ASSUME NEW g, NEW n \in Nat
  PROVE  "value" \in DOMAIN Doubled(Input(m), g, n, m)
<1>1. CASE n = 0
  <2>1. Doubled(Input(m), g, n, m) = Input(m) BY <1>1, DoubledStep
  <2> QED BY <2>1 DEF Input
<1>2. CASE n # 0
  <2> DEFINE p == n - 1
  <2>1. p \in Nat /\ n = p + 1 BY <1>2
  <2> HIDE DEF p
  <2>2. Doubled(Input(m), g, n, m)
          = AddAutomorphism(Doubled(Input(m), g, p, m), PowerMod(g, TwoTo[p], m))
    BY <2>1, DoubledStep
  <2> QED BY <2>2 DEF AddAutomorphism
<1> QED BY <1>1, <1>2

\* What the mask leaves of a record.
LEMMA MaskedIs ==
  ASSUME NEW r, "value" \in DOMAIN r, NEW b
  PROVE  [Masked(r, b) EXCEPT !.used = {}].value
           = [e \in Units(m) |-> IF {e, m - e} \cap FirstSlots(b) # {} THEN r.value[e]
                                 ELSE [i \in DOMAIN r.value[e] |-> 0]]
BY DEF Masked, FirstSlots

\* The batch from the first cell of a row is that row.
LEMMA BatchIsRow ==
  ASSUME NEW k \in Nat, RingIs(k), NEW b, NEW C, Fills(b, C, k), NEW c \in 0 .. C - 1,
         NEW e, e = Cell(c, 0, b, k)
  PROVE  {(e * PowerMod(5, i, m)) % m : i \in 0 .. b - 1} = InRow(c, b, k)
<1> DEFINE p == c * b
<1>1. m = TwoTo[k + 2] /\ k + 2 \in Nat /\ k + 2 >= 1 /\ b \in Nat /\ b > 0 BY DEF RingIs, Fills
<1>2. p \in Nat
  <2>1. 0 \in 0 .. b - 1 BY <1>1
  <2> QED BY <2>1, CellsAre
<1>3. e = Five(p, k + 2)
  <2>1. c * b + 0 = p BY <1>2
  <2> QED BY <2>1 DEF Cell
<1> HIDE DEF p
<1>4. \A i \in 0 .. b - 1 : (e * PowerMod(5, i, m)) % m = Five(p + i, k + 2)
  <2> SUFFICES ASSUME NEW i \in 0 .. b - 1
               PROVE  (e * PowerMod(5, i, m)) % m = Five(p + i, k + 2)
    OBVIOUS
  <2>1. i \in Nat BY <1>1
  <2>2. Five(p + i, k + 2) = (Five(p, k + 2) * Five(i, k + 2)) % TwoTo[k + 2]
    BY <1>1, <1>2, <2>1, FiveIs
  <2>3. PowerMod(5, i, m) = Five(i, k + 2) BY <1>1 DEF Five
  <2> QED BY <1>1, <1>3, <2>2, <2>3
<1>5. {(e * PowerMod(5, i, m)) % m : i \in 0 .. b - 1} = {Five(p + i, k + 2) : i \in 0 .. b - 1}
  BY <1>4
<1>6. InRow(c, b, k) = {Five(p + i, k + 2) : i \in 0 .. b - 1} BY DEF InRow, Cell, p
<1> QED BY <1>5, <1>6

\* The first slot of every row holds the row after the mask, and no other slot anything.
LEMMA ColumnsStart ==
  ASSUME NEW k \in Nat, RingIs(k), NEW n \in Nat, n <= k, NEW b, b = TwoTo[n],
         NEW C, Fills(b, C, k), NEW s, s = Doubled(Input(m), 5, n, m)
  PROVE  ColumnsHold([Masked(s, b) EXCEPT !.used = {}].value, 1, b, C, k)
<1> DEFINE v == [Masked(s, b) EXCEPT !.used = {}].value
<1>1. v = [e \in Units(m) |-> IF {e, m - e} \cap FirstSlots(b) # {} THEN s.value[e]
                              ELSE [i \in DOMAIN s.value[e] |-> 0]]
  BY DoubledHasValue, MaskedIs
<1> HIDE DEF v
<1>2. ASSUME NEW c \in 0 .. C - 1, NEW r \in 0 .. b - 1
      PROVE  v[Cell(c, r, b, k)] = Indicator(m, IF r < 1 THEN InRow(c, b, k) ELSE {})
  <2> DEFINE e == Cell(c, r, b, k)
  <2>1. m = TwoTo[k + 2] /\ k + 2 \in Nat /\ k + 2 >= 1 /\ k + 2 >= 2 /\ c * b + r \in Nat
          /\ b \in Nat /\ r \in Nat
    <3>1. c * b + r \in 0 .. TwoTo[k] - 1 /\ TwoTo[k] \in Nat BY CellsAre, TwoToIs
    <3>2. b \in Nat BY DEF Fills
    <3> QED BY <3>1, <3>2 DEF RingIs
  <2>2. e \in Units(m)
    <3> DEFINE a == c * b + r
    <3> HIDE DEF a
    <3>1. Five(a, k + 2) \in Nat /\ Five(a, k + 2) % 2 = 1 BY <2>1, FiveIsOdd DEF a
    <3>2. Five(a, k + 2) < m /\ m \in Nat /\ m > 1 BY <2>1, FiveType DEF a
    <3>3. Five(a, k + 2) \in Units(m) BY <3>1, <3>2 DEF Units
    <3> QED BY <3>3 DEF Cell, a
  <2>3. {e, m - e} \cap FirstSlots(b) # {} <=> r = 0 BY MaskKeepsFirst
  <2>4. s.value[e] = Indicator(m, {(e * PowerMod(5, i, m)) % m : i \in 0 .. b - 1})
    BY <2>1, <2>2, BatchSums
  <2>5. DOMAIN s.value[e] = Units(m) BY <2>4 DEF Indicator
  <2>6. CASE r = 0
    <3>1. {(e * PowerMod(5, i, m)) % m : i \in 0 .. b - 1} = InRow(c, b, k) BY <2>6, BatchIsRow
    <3> HIDE DEF e
    <3>2. v[e] = s.value[e] BY <1>1, <2>2, <2>3, <2>6
    <3>3. r < 1 BY <2>6
    <3> QED BY <2>4, <3>1, <3>2, <3>3 DEF e
  <2>7. CASE r # 0
    <3> HIDE DEF e
    <3>1. v[e] = [i \in Units(m) |-> 0] BY <1>1, <2>2, <2>3, <2>5, <2>7
    <3>2. ~(r < 1) BY <2>1, <2>7
    <3>3. Indicator(m, {}) = [i \in Units(m) |-> 0] BY DEF Indicator
    <3> QED BY <3>1, <3>2, <3>3 DEF e
  <2> QED BY <2>6, <2>7
<1> QED BY <1>2 DEF ColumnsHold, v

\* The columns' doublings fill the rows.
LEMMA ColumnsFill ==
  ASSUME NEW k \in Nat, RingIs(k), NEW n \in Nat, NEW b, b = TwoTo[n],
         NEW C, Fills(b, C, k), NEW r, ColumnsHold(r.value, 1, b, C, k)
  PROVE  ColumnsHold(Doubled(r, InverseMod(5, m), n, m).value, b, b, C, k)
<1> DEFINE D(q) == Doubled(r, InverseMod(5, m), q, m)
           S == {q \in Nat : q <= n => ColumnsHold(D(q).value, TwoTo[q], b, C, k)}
<1>1. 0 \in S
  <2>1. D(0) = r
    <3>1. 0 \in Nat OBVIOUS
    <3> QED BY <3>1, DoubledStep
  <2>2. TwoTo[0] = 1 BY TwoToIs
  <2> QED BY <2>1, <2>2
<1>2. ASSUME NEW q \in Nat, q \in S PROVE q + 1 \in S
  <2> SUFFICES ASSUME q + 1 <= n PROVE ColumnsHold(D(q + 1).value, TwoTo[q + 1], b, C, k)
    OBVIOUS
  <2> DEFINE h == TwoTo[q]
             v == D(q).value
             w == D(q + 1).value
  <2>1. ColumnsHold(v, h, b, C, k) BY <1>2
  <2>2. h \in Nat /\ 0 < h /\ TwoTo[q + 1] = 2 * h /\ 2 * h <= b
    <3>1. q + 1 \in Nat /\ TwoTo[q + 1] <= TwoTo[n] BY TwoToOrder
    <3> QED BY <3>1, TwoToIs, TwoToPositive
  <2>3. PowerMod(InverseMod(5, m), h, m) = Back(h, k)
    <3> DEFINE i == -1
    <3>1. i \in Int /\ i < 0 OBVIOUS
    <3> HIDE DEF i, h
    <3>2. PowerMod(IF i < 0 THEN InverseMod(5, m) ELSE 5, h, m)
            = (IF i < 0 THEN Back(h, k) ELSE Five(h, k + 2))
      BY <2>2, <3>1, MovesAre
    <3> QED BY <3>1, <3>2
  <2>4. w = [e \in Units(m) |->
               Added(v[e], v[(e * PowerMod(InverseMod(5, m), h, m)) % m])]
    BY DoubledValue
  <2> HIDE DEF v, w, h
  <2>5. \A e \in Units(m) : w[e] = Added(v[e], v[(e * Back(h, k)) % m]) BY <2>3, <2>4
  <2>6. ColumnsHold(w, 2 * h, b, C, k) BY <2>1, <2>2, <2>5, ColumnsDouble
  <2> QED BY <2>2, <2>6 DEF w
<1> HIDE DEF S, D
<1>3. \A q \in Nat : q \in S BY <1>1, <1>2, SetInduction
<1>4. n <= n OBVIOUS
<1> QED BY <1>3, <1>4 DEF S, D

LEMMA ColumnsAreRight ==
  ASSUME ContextFits, scheme = "CKKSRNS", NEW b \in PowersOfTwo(Slots),
         NEW call, call.op = "EvalSumCols", call.size = b, NEW value,
         value = EvalSum2nComplexCols(
                   [Masked(EvalSum2nComplex(Input(m), b), b) EXCEPT !.used = {}], b).value
  PROVE  ColumnsAreSummed(call, value)
<1>1. PICK k \in Nat : RingIs(k) BY RingOf
<1>2. Slots \in Nat /\ Slots = TwoTo[k] /\ m \div 4 = TwoTo[k] /\ m = TwoTo[k + 2]
  BY <1>1, ContextIs DEF Slots, RingIs
<1>3. PICK n \in Nat : b = TwoTo[n] /\ Log2Up(b) = n BY <1>2, LogGrows
<1>4. n <= k
  <2>1. b <= Slots BY <1>2, PowersOfTwoAre
  <2> QED BY <1>2, <1>3, <2>1, TwoToOrder
<1> DEFINE C == TwoTo[k - n]
<1>5. Fills(b, C, k)
  <2> DEFINE d == k - n
  <2>1. d \in Nat /\ d + n = k BY <1>4
  <2> HIDE DEF d
  <2>2. TwoTo[d + n] = TwoTo[d] * TwoTo[n] BY <2>1, TwoToSum
  <2>3. TwoTo[d] \in Nat /\ TwoTo[d] > 0 /\ TwoTo[n] \in Nat /\ TwoTo[n] > 0 BY <2>1, TwoToPositive
  <2> QED BY <1>3, <2>1, <2>2, <2>3 DEF Fills, d
<1> HIDE DEF C
<1> DEFINE s == Doubled(Input(m), 5, n, m)
           r == [Masked(s, b) EXCEPT !.used = {}]
<1>6. value = Doubled(r, InverseMod(5, m), n, m).value
  BY <1>3 DEF EvalSum2nComplexCols, EvalSum2nComplex
<1>7. ColumnsHold(r.value, 1, b, C, k) BY <1>1, <1>3, <1>4, <1>5, ColumnsStart
<1> HIDE DEF r
<1>8. ColumnsHold(value, b, b, C, k) BY <1>1, <1>3, <1>5, <1>6, <1>7, ColumnsFill
<1> SUFFICES ASSUME NEW j \in 0 .. m \div 4 - 1
             PROVE  Once(value[SlotExponent(j)],
                         {SlotExponent(b * (j \div b) + i) : i \in 0 .. b - 1})
  BY DEF ColumnsAreSummed
<1> DEFINE c == j \div b
           x == j % b
<1>9. b \in Nat /\ b > 0 /\ C \in Nat /\ C > 0 /\ C * b = TwoTo[k] BY <1>5 DEF Fills
<1>10. j \in Nat /\ j < C * b BY <1>2, <1>9
<1>11. x \in 0 .. b - 1 /\ c \in Int /\ j = c * b + x BY <1>9, <1>10, DividedInto
<1>12. c \in 0 .. C - 1
  <2> HIDE DEF c, x
  <2>1. c >= 0
    <3> SUFFICES ASSUME c < 0 PROVE FALSE BY <1>11
    <3> DEFINE g == -c - 1
    <3>1. g \in Nat /\ c = -g - 1 BY <1>11
    <3> HIDE DEF g
    <3>2. g * b \in Nat /\ c * b = -(g * b) - b BY <1>9, <3>1
    <3> QED BY <1>9, <1>10, <1>11, <3>2
  <2>2. c < C
    <3> SUFFICES ASSUME c >= C PROVE FALSE BY <1>9, <1>11
    <3> DEFINE g == c - C
    <3>1. g \in Nat /\ c = g + C BY <1>9, <1>11
    <3> HIDE DEF g
    <3>2. g * b \in Nat /\ c * b = g * b + C * b /\ C * b \in Nat BY <1>9, <3>1
    <3> QED BY <1>9, <1>10, <1>11, <3>2
  <2> QED BY <1>9, <1>11, <2>1, <2>2
<1> HIDE DEF c, x
<1>13. \A i \in 0 .. TwoTo[k] - 1 : SlotExponent(i) = Five(i, k + 2)
  BY <1>2 DEF SlotExponent, Five
<1>14. SlotExponent(j) = Cell(c, x, b, k) BY <1>2, <1>11, <1>13 DEF Cell
<1>15. value[SlotExponent(j)] = Indicator(m, InRow(c, b, k))
  <2>1. x < b BY <1>9, <1>11
  <2> QED BY <1>8, <1>11, <1>12, <1>14, <2>1 DEF ColumnsHold
<1>16. {SlotExponent(b * c + i) : i \in 0 .. b - 1} = InRow(c, b, k)
  <2>1. \A i \in 0 .. b - 1 : SlotExponent(b * c + i) = Cell(c, i, b, k)
    <3> SUFFICES ASSUME NEW i \in 0 .. b - 1 PROVE SlotExponent(b * c + i) = Cell(c, i, b, k)
      OBVIOUS
    <3>1. c * b + i \in 0 .. TwoTo[k] - 1 BY <1>5, <1>12, CellsAre
    <3>2. b * c = c * b BY <1>9, <1>12
    <3> QED BY <1>13, <3>1, <3>2 DEF Cell
  <2> QED BY <2>1 DEF InRow
<1> QED BY <1>15, <1>16, OnceOf DEF c

-----------------------------------------------------------------------------
RightFor(call, value) ==
  /\ BatchIsSummed(call, value)
  /\ RowsAreSummed(call, value)
  /\ ColumnsAreSummed(call, value)
  /\ SlotsRotate(call, value)
  /\ ManyAreAdded(call, value)

LEMMA RightByName ==
  ASSUME NEW call, NEW value
  PROVE  /\ call.op = "EvalSum" /\ BatchIsSummed(call, value) => RightFor(call, value)
         /\ call.op = "EvalSumRows" /\ RowsAreSummed(call, value) => RightFor(call, value)
         /\ call.op = "EvalSumCols" /\ ColumnsAreSummed(call, value) => RightFor(call, value)
         /\ call.op = "EvalAtIndex" /\ SlotsRotate(call, value) => RightFor(call, value)
         /\ call.op = "EvalAddMany" /\ Once(value, 0 .. call.size - 1) => RightFor(call, value)
         /\ call.op = "EvalAddManyInPlace" /\ Once(value, call.order) => RightFor(call, value)
<1>1. call.op # "EvalSum" => BatchIsSummed(call, value) BY DEF BatchIsSummed
<1>2. call.op # "EvalSumRows" => RowsAreSummed(call, value) BY DEF RowsAreSummed
<1>3. call.op # "EvalSumCols" => ColumnsAreSummed(call, value) BY DEF ColumnsAreSummed
<1>4. call.op # "EvalAtIndex" => SlotsRotate(call, value) BY DEF SlotsRotate
<1>5. /\ call.op \notin {"EvalAddMany", "EvalAddManyInPlace"} => ManyAreAdded(call, value)
      /\ call.op = "EvalAddMany" /\ Once(value, 0 .. call.size - 1) => ManyAreAdded(call, value)
      /\ call.op = "EvalAddManyInPlace" /\ Once(value, call.order) => ManyAreAdded(call, value)
  BY DEF ManyAreAdded
<1> QED BY <1>1, <1>2, <1>3, <1>4, <1>5 DEF RightFor

\* Only the order of the ring decides what is right.
LEMMA RightForResult ==
  ASSUME NEW r, RightFor(r.call, r.value), m' = m, result' = r
  PROVE  RightFor(result.call, result.value)'
<1>1. /\ BatchIsSummed(r.call, r.value) /\ RowsAreSummed(r.call, r.value)
      /\ ColumnsAreSummed(r.call, r.value) /\ SlotsRotate(r.call, r.value)
      /\ ManyAreAdded(r.call, r.value)
  BY DEF RightFor
<1>2. BatchIsSummed(result.call, result.value)' BY <1>1 DEF BatchIsSummed
<1>3. RowsAreSummed(result.call, result.value)'
  <2>1. r.call.op = "EvalSumRows" =>
          \A e \in Units(m) :
            Once(r.value[e],
                 {(e * PowerMod(5, r.call.size * i, r.call.order)) % r.call.order :
                    i \in 0 .. r.call.order \div (4 * r.call.size) - 1})
    BY <1>1 DEF RowsAreSummed
  <2> QED BY <2>1, ZenonT(60) DEF RowsAreSummed
<1>4. ColumnsAreSummed(result.call, result.value)'
  <2>1. \A j : SlotExponent(j)' = SlotExponent(j) BY DEF SlotExponent
  <2>2. /\ r.call.op = "EvalSumCols" =>
             \A j \in 0 .. m \div 4 - 1 :
               Once(r.value[SlotExponent(j)],
                    {SlotExponent(r.call.size * (j \div r.call.size) + i) :
                       i \in 0 .. r.call.size - 1})
    BY <1>1 DEF ColumnsAreSummed
  <2> QED BY <2>1, <2>2 DEF ColumnsAreSummed
<1>5. SlotsRotate(result.call, result.value)' BY <1>1 DEF SlotsRotate, SlotExponent
<1>6. ManyAreAdded(result.call, result.value)' BY <1>1 DEF ManyAreAdded
<1> QED BY <1>2, <1>3, <1>4, <1>5, <1>6 DEF RightFor

RightInv == ContextFits /\ SumsAreRight

LEMMA ReturnsKeepRight ==
  ASSUME RightInv, NEW call, NEW value, NEW maps, NEW hasKeys \in BOOLEAN,
         Returns(call, value, maps, hasKeys), RightFor(call, value)
  PROVE  RightInv'
<1>1. m' = m /\ scheme' = scheme /\ batchSize' = batchSize BY DEF Returns, context
<1>2. ContextFits' BY <1>1 DEF RightInv, ContextFits, Slots
<1>3. RightFor(call, value) OBVIOUS
<1>5. (result.status)' = "ok" => result' = [call |-> call, status |-> "ok", value |-> value]
  BY DEF Returns
<1>6. SumsAreRight'
  <2> SUFFICES ASSUME (result.status)' = "ok"
               PROVE  RightFor(result.call, result.value)'
    BY DEF SumsAreRight, RightFor
  <2> DEFINE r == [call |-> call, status |-> "ok", value |-> value]
  <2>1. result' = r /\ r.call = call /\ r.value = value BY <1>5
  <2> HIDE DEF r
  <2>2. RightFor(r.call, r.value) BY <1>3, <2>1
  <2> QED BY <1>1, <2>1, <2>2, RightForResult
<1> QED BY <1>2, <1>6 DEF RightInv

LEMMA NewKeysKeepRight ==
  ASSUME RightInv, KeyGenStep
  PROVE  RightInv'
<1>1. m' = m /\ scheme' = scheme /\ batchSize' = batchSize /\ result' = NoResult
  BY DEF KeyGenStep, EvalSumKeyGen, EvalSumColsKeyGen, EvalSumRowsKeyGen, EvalAtIndexKeyGen,
         NewKeys, context
<1>2. ContextFits' BY <1>1 DEF RightInv, ContextFits, Slots
<1>3. SumsAreRight' BY <1>1 DEF SumsAreRight, NoResult
<1> QED BY <1>2, <1>3 DEF RightInv

LEMMA CallKeepsRight ==
  ASSUME RightInv, CallStep
  PROVE  RightInv'
<1> DEFINE keys == evalKeyMap.indices
<1>0. ContextFits BY DEF RightInv
<1>1. ASSUME NEW b \in PowersOfTwo(Slots), EvalSum(b) PROVE RightInv'
  <2> DEFINE call == Call("EvalSum", b, m)
             sum == IF scheme = "CKKSRNS" THEN EvalSum2nComplex(Input(m), b)
                    ELSE EvalSum_2n(Input(m), b)
             value == sum.value
             found == sum.used \subseteq keys
  <2>1. Returns(call, value, {keys}, found) BY <1>1 DEF EvalSum, ReturnsSum
  <2>2. call.op = "EvalSum" /\ call.size = b BY CallIs
  <2>3. found \in BOOLEAN OBVIOUS
  <2>5. value = (IF scheme = "CKKSRNS" THEN EvalSum2nComplex(Input(m), b)
                 ELSE EvalSum_2n(Input(m), b)).value
    OBVIOUS
  <2> HIDE DEF call, sum, value, found
  <2>4. RightFor(call, value)
    <3>1. BatchIsSummed(call, value) BY <1>0, <2>2, <2>5, BatchIsRight
    <3> QED BY <2>2, <3>1, RightByName
  <2> QED BY <2>1, <2>3, <2>4, ReturnsKeepRight
<1>2. ASSUME NEW b \in PowersOfTwo(Slots), EvalSumCols(b) PROVE RightInv'
  <2> DEFINE call == Call("EvalSumCols", b, m)
             sums == EvalSum2nComplex(Input(m), b)
             cols == EvalSum2nComplexCols([Masked(sums, b) EXCEPT !.used = {}], b)
             value == cols.value
             found == sums.used \subseteq keys /\ cols.used \subseteq evalSumColsKeyMap
  <2>1. scheme = "CKKSRNS" /\ Returns(call, value, {keys, evalSumColsKeyMap}, found)
    BY <1>2 DEF EvalSumCols
  <2>2. call.op = "EvalSumCols" /\ call.size = b BY CallIs
  <2>3. found \in BOOLEAN OBVIOUS
  <2>5. value = EvalSum2nComplexCols(
                  [Masked(EvalSum2nComplex(Input(m), b), b) EXCEPT !.used = {}], b).value
    OBVIOUS
  <2> HIDE DEF call, sums, cols, value, found
  <2>4. RightFor(call, value)
    <3>1. ColumnsAreSummed(call, value) BY <1>0, <2>1, <2>2, <2>5, ColumnsAreRight
    <3> QED BY <2>2, <3>1, RightByName
  <2> QED BY <2>1, <2>3, <2>4, ReturnsKeepRight
<1>3. ASSUME NEW order \in Subrings, NEW y \in PowersOfTwo(order \div 4), EvalSumRows(y, order)
      PROVE  RightInv'
  <2> DEFINE call == Call("EvalSumRows", y, order)
             sum == EvalSum2nComplexRows(Input(order), y, order)
             value == sum.value
             found == sum.used \subseteq keys
  <2>1. Returns(call, value, {keys}, found) BY <1>3 DEF EvalSumRows, ReturnsSum
  <2>2. call.op = "EvalSumRows" /\ call.size = y /\ call.order = order BY CallIs
  <2>3. found \in BOOLEAN OBVIOUS
  <2>5. value = EvalSum2nComplexRows(Input(order), y, order).value OBVIOUS
  <2> HIDE DEF call, sum, value, found
  <2>4. RightFor(call, value)
    <3>1. RowsAreSummed(call, value) BY <1>0, <2>2, <2>5, RowsAreRight
    <3> QED BY <2>2, <3>1, RightByName
  <2> QED BY <2>1, <2>3, <2>4, ReturnsKeepRight
<1>4. ASSUME NEW i \in Shifts, EvalAtIndex(i) PROVE RightInv'
  <2> DEFINE call == Call("EvalAtIndex", i, m)
             k == FindAutomorphismIndex(i)
             value == [e \in Units(m) |-> Input(m).value[(e * k) % m]]
             found == i = 0 \/ k \in keys
  <2>1. Returns(call, value, IF i = 0 THEN {} ELSE {keys}, found) BY <1>4 DEF EvalAtIndex
  <2>2. call.op = "EvalAtIndex" /\ call.size = i BY CallIs
  <2>3. found \in BOOLEAN OBVIOUS
  <2>5. value = [e \in Units(m) |-> Input(m).value[(e * FindAutomorphismIndex(i)) % m]] OBVIOUS
  <2> HIDE DEF call, k, value, found
  <2>4. RightFor(call, value)
    <3>1. SlotsRotate(call, value) BY <1>0, <2>2, <2>5, RotationIsRight
    <3> QED BY <2>2, <3>1, RightByName
  <2> QED BY <2>1, <2>3, <2>4, ReturnsKeepRight
<1>5. ASSUME AddMany PROVE RightInv'
  <2>1. PICK count \in 2 .. MaxMany :
          \/ Returns(Call("EvalAddMany", count, 0), EvalAddMany(count), {}, TRUE)
          \/ \E present \in SUBSET (0 .. count - 1) :
               /\ 0 \in present
               /\ Returns(Call("EvalAddManyInPlace", count, present),
                          EvalAddManyInPlace(count, present), {}, TRUE)
    BY <1>5 DEF AddMany
  <2>2. count \in Nat /\ count >= 2 BY ManyAssumption
  <2>3. ASSUME Returns(Call("EvalAddMany", count, 0), EvalAddMany(count), {}, TRUE) PROVE RightInv'
    <3> DEFINE call == Call("EvalAddMany", count, 0)
               value == EvalAddMany(count)
               found == TRUE
    <3>1. Returns(call, value, {}, found) /\ found \in BOOLEAN BY <2>3
    <3>2. call.op = "EvalAddMany" /\ call.size = count BY CallIs
    <3>3. Once(value, 0 .. count - 1) BY <2>2, EvalAddManyIs
    <3> HIDE DEF call, value, found
    <3>4. RightFor(call, value) BY <3>2, <3>3, RightByName
    <3> QED BY <3>1, <3>4, ReturnsKeepRight
  <2>4. ASSUME NEW present \in SUBSET (0 .. count - 1), 0 \in present,
               Returns(Call("EvalAddManyInPlace", count, present),
                       EvalAddManyInPlace(count, present), {}, TRUE)
        PROVE  RightInv'
    <3> DEFINE call == Call("EvalAddManyInPlace", count, present)
               value == EvalAddManyInPlace(count, present)
               found == TRUE
    <3>1. Returns(call, value, {}, found) /\ found \in BOOLEAN BY <2>4
    <3>2. call.op = "EvalAddManyInPlace" /\ call.order = present BY CallIs
    <3>3. Once(value, present) BY <2>4, EvalAddManyInPlaceIs
    <3> HIDE DEF call, value, found
    <3>4. RightFor(call, value) BY <3>2, <3>3, RightByName
    <3> QED BY <3>1, <3>4, ReturnsKeepRight
  <2> QED BY <2>1, <2>3, <2>4
<1> QED BY <1>1, <1>2, <1>3, <1>4, <1>5 DEF CallStep

(***************************************************************************)
(* Whatever a sum or a rotation returns is what it is documented to be, in *)
(* rings and subrings of every order and for batches, matrices, shifts and *)
(* vectors of every size: EvalSum, EvalSumRows and EvalSumCols add every   *)
(* slot of the batch, of the column or of the row exactly once, EvalAtIndex*)
(* moves all slots of a row alike, and EvalAddMany and EvalAddManyInPlace  *)
(* add every ciphertext exactly once (SumsAreRight).                       *)
(***************************************************************************)
THEOREM SumsAreAlwaysRight == SumsSpec => []SumsAreRight
<1>1. SumsInit => RightInv
  <2> SUFFICES ASSUME SumsInit PROVE RightInv OBVIOUS
  <2>1. SumsAreRight BY DEF SumsInit, NoResult, SumsAreRight
  <2> QED BY <2>1 DEF SumsInit, RightInv, ContextFits
<1>2. RightInv /\ [SumsNext]_sumsVars => RightInv'
  <2> SUFFICES ASSUME RightInv, [SumsNext]_sumsVars PROVE RightInv' OBVIOUS
  <2>1. CASE SumsNext BY <2>1, NewKeysKeepRight, CallKeepsRight DEF SumsNext
  <2>2. CASE UNCHANGED sumsVars
    <3>1. m' = m /\ scheme' = scheme /\ batchSize' = batchSize /\ result' = result
      BY <2>2 DEF sumsVars
    <3>2. ContextFits' BY <3>1 DEF RightInv, ContextFits, Slots
    <3>3. SumsAreRight'
      <4> SUFFICES ASSUME result.status = "ok" PROVE RightFor(result.call, result.value)'
        BY <3>1 DEF SumsAreRight, RightFor
      <4>1. RightFor(result.call, result.value) BY DEF RightInv, SumsAreRight, RightFor
      <4> DEFINE r == result
      <4>2. result' = r /\ RightFor(r.call, r.value) BY <3>1, <4>1
      <4> HIDE DEF r
      <4> QED BY <3>1, <4>2, RightForResult
    <3> QED BY <3>2, <3>3 DEF RightInv
  <2> QED BY <2>1, <2>2
<1>3. RightInv => SumsAreRight BY DEF RightInv
<1> QED BY <1>1, <1>2, <1>3, PTL DEF SumsSpec
=============================================================================
