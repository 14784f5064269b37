--------------------------- MODULE LeveledSHERNS ---------------------------
(***************************************************************************)
(* LeveledSHERNS as a program uses it: a pool of ciphertext objects and    *)
(* one action per public operation.  A const operand is cloned before it   *)
(* is aligned, so the operation changes its result only; a Mutable one is  *)
(* aligned in place.  An in-place operation is the action whose result     *)
(* slot is its first operand; subtraction keeps the same books as addition.*)
(***************************************************************************)
EXTENDS LeveledSHECKKSRNS, LeveledSHEBGVRNS

CONSTANTS Slots,     \* the ciphertext objects of the program
          MaxDepth   \* bound of exploration: under FIXEDMANUAL depth grows and falls without limit

ASSUME MaxDepthAssumption == MaxDepth \in Nat \ {0}

VARIABLES ct,        \* the object in each slot
          outcome    \* how the last operation ended

vars == <<ct, outcome>>

-----------------------------------------------------------------------------
(* The virtual methods, by scheme. *)

ModReduceInternal(c) ==
  IF Scheme = "CKKS" THEN CKKSModReduceInternal(c) ELSE BGVModReduceInternal(c)

AdjustLevelsAndDepth(c1, c2) ==
  IF Scheme = "CKKS" THEN CKKSAdjustLevelsAndDepth(c1, c2)
  ELSE BGVAdjustLevelsAndDepth(c1, c2)

\* Both operands are rescaled when the first has depth 2 after the alignment.
AdjustLevelsAndDepthToOne(c1, c2) ==
  LET p == AdjustLevelsAndDepth(c1, c2)
  IN  IF p[1].depth = 2 THEN <<ModReduceInternal(p[1]), ModReduceInternal(p[2])>>
      ELSE p

AlignedForAdd(c1, c2) ==
  IF Technique = "FIXEDMANUAL" THEN AdjustLevels(c1, c2)
  ELSE AdjustLevelsAndDepth(c1, c2)

AlignedForMult(c1, c2) ==
  IF Technique = "FIXEDMANUAL" THEN AdjustLevels(c1, c2)
  ELSE AdjustLevelsAndDepthToOne(c1, c2)

Sum(p) == EvalAddCore(p[1], p[2])
Product(p) == EvalMultCore(p[1], p[2])

-----------------------------------------------------------------------------
(* Operations with a plaintext p.  The AUTO alignment with a plaintext is   *)
(* an empty function in both schemes.                                       *)

AlignedWithPlain(c, p) ==
  IF Technique = "FIXEDMANUAL" THEN AdjustLevels(c, p) ELSE <<c, p>>

SumWithPlain(c, p) == Sum(AlignedWithPlain(c, p))

(***************************************************************************)
(* Under the AUTO techniques the factor recorded for the plaintext is that *)
(* of the ciphertext's level, whatever the plaintext was encoded with.  It *)
(* comes from the table of real factors, which BGV never fills.            *)
(***************************************************************************)
ProductWithPlain(c, p) ==
  LET a == AlignedWithPlain(c, p)
      Scaled(r) == [r EXCEPT !.scale = @ + p.scale]
  IN  IF a[1].err # "none" THEN a[1]
      ELSE IF a[1].towers > a[2].towers THEN Failed(c, "overrun")
      ELSE IF Technique = "FIXEDMANUAL"
      THEN Scaled([a[1] EXCEPT !.depth = @ + p.depth, !.sf = @ + p.sf])
      ELSE IF Scheme = "BGV" /\ Technique = "FLEXIBLEAUTO" THEN Failed(c, "thrown")
      ELSE Scaled([c EXCEPT !.depth = @ + 1, !.sf = @ + EncodingFactor(c.level)])

(***************************************************************************)
(* Rescales to depth 1, then drops towers; the AUTO adjustment of the      *)
(* factor is disabled.  A depth that wrapped is large: the loop runs out   *)
(* of towers.                                                              *)
(***************************************************************************)
Compressed(c, towersLeft) ==
  LET reduced[n \in Nat] == IF n = 0 THEN c ELSE CKKSModReduceInternal(reduced[n - 1])
      times == CASE c.depth < 0 -> SizeQ
                 [] c.depth \in 0 .. 1 -> 0
                 [] c.depth > 1 -> c.depth - 1
      r == reduced[times]
  IN  IF towersLeft >= r.towers THEN r
      ELSE LevelReduceInternal(r, r.towers - towersLeft)

-----------------------------------------------------------------------------
(* An exception leaves the objects as they were; an overrun ends the run. *)

Settle(r, objects) ==
  /\ outcome # "overrun"
  /\ r.depth \in -MaxDepth .. MaxDepth
  /\ outcome' = r.err
  /\ ct' = IF r.err = "none" THEN objects ELSE ct

Return(d, r) == Settle(r, [ct EXCEPT ![d] = r])

\* The fields of the ciphertext are those of the encoded plaintext.
Encrypt(d, p) == Return(d, p)

EvalAdd(d, x, y) == Return(d, Sum(AlignedForAdd(ct[x], ct[y])))

EvalMult(d, x, y) == Return(d, Product(AlignedForMult(ct[x], ct[y])))

\* The AUTO techniques align the operands themselves; FIXEDMANUAL aligns clones.
EvalAddMutable(d, x, y) ==
  LET p == AlignedForAdd(ct[x], ct[y])
  IN  IF Technique = "FIXEDMANUAL" THEN EvalAdd(d, x, y)
      ELSE Settle(Sum(p), [ct EXCEPT ![x] = p[1], ![y] = p[2], ![d] = Sum(p)])

(***************************************************************************)
(* When both arguments are one object it is already aligned with itself,   *)
(* and is then rescaled once for each argument.                            *)
(***************************************************************************)
AlignedWithItself(c) ==
  IF c.depth = 2 THEN ModReduceInternal(ModReduceInternal(c)) ELSE c

EvalMultMutable(d, x, y) ==
  LET p == IF x = y THEN <<AlignedWithItself(ct[x]), AlignedWithItself(ct[x])>>
           ELSE AlignedForMult(ct[x], ct[y])
  IN  IF Technique = "FIXEDMANUAL" THEN EvalMult(d, x, y)
      ELSE Settle(Product(p), [ct EXCEPT ![x] = p[1], ![y] = p[2], ![d] = Product(p)])

\* The base class throws for a scheme that has no real constants.
EvalAddConst(d, x) ==
  Return(d, IF Scheme = "CKKS" THEN CKKSEvalAddConst(ct[x]) ELSE Failed(ct[x], "thrown"))

EvalMultConst(d, x) ==
  Return(d, IF Scheme = "CKKS" THEN CKKSEvalMultConst(ct[x]) ELSE Failed(ct[x], "thrown"))

EvalAddPlain(d, x, p) == Return(d, SumWithPlain(ct[x], p))

EvalMultPlain(d, x, p) == Return(d, ProductWithPlain(ct[x], p))

\* In place, the exception comes after the elements were multiplied and the depth counted.
EvalMultPlainInPlace(x, p) ==
  LET r == ProductWithPlain(ct[x], p)
  IN  IF r.err # "thrown" THEN Return(x, r)
      ELSE /\ outcome # "overrun"
           /\ ct[x].depth < MaxDepth
           /\ ct' = [ct EXCEPT ![x].depth = @ + 1]
           /\ outcome' = "thrown"

\* EvalAddMutable with a plaintext aligns the ciphertext itself, also under FIXEDMANUAL.
EvalAddMutablePlain(d, x, p) ==
  LET r == SumWithPlain(ct[x], p)
  IN  Settle(r, [ct EXCEPT ![x] = AlignedWithPlain(ct[x], p)[1], ![d] = r])

\* Rescaling and level reduction on request do nothing under the AUTO techniques.
ModReduce(d, x) ==
  Return(d, IF Technique = "FIXEDMANUAL" THEN ModReduceInternal(ct[x]) ELSE ct[x])

LevelReduce(d, x, n) ==
  Return(d, IF Technique = "FIXEDMANUAL" /\ n > 0 THEN LevelReduceInternal(ct[x], n)
            ELSE ct[x])

Compress(d, x, towersLeft) ==
  Return(d, IF Scheme = "CKKS" THEN Compressed(ct[x], towersLeft) ELSE Failed(ct[x], "thrown"))

-----------------------------------------------------------------------------
\* A plaintext may be encoded at any level and as if it had been multiplied before.
Plaintexts(depths) == {Encoded(l, n) : l \in Levels, n \in depths}

Init ==
  /\ ct \in [Slots -> {Encoded(0, 1)}]
  /\ outcome = "none"

EncryptStep == \E d \in Slots, p \in Plaintexts(1 .. 2) : Encrypt(d, p)

CiphertextStep ==
  \E d, x, y \in Slots :
    \/ EvalAdd(d, x, y)
    \/ EvalMult(d, x, y)
    \/ EvalAddMutable(d, x, y)

MultMutableStep(aliasing) ==
  \E d, x, y \in Slots : (aliasing \/ x # y) /\ EvalMultMutable(d, x, y)

ConstantStep == \E d, x \in Slots : EvalAddConst(d, x) \/ EvalMultConst(d, x)

PlaintextStep ==
  \E d, x \in Slots, p \in Plaintexts(1 .. 2) :
    \/ EvalAddPlain(d, x, p)
    \/ EvalMultPlain(d, x, p)
    \/ EvalMultPlainInPlace(x, p)
    \/ EvalAddMutablePlain(d, x, p)

LevelStep ==
  \E d, x \in Slots :
    \/ ModReduce(d, x)
    \/ \E n \in Levels : LevelReduce(d, x, n)

CompressStep == \E d, x \in Slots, n \in 1 .. SizeQ : Compress(d, x, n)

\* Every operation, on every pair of objects.
Next ==
  \/ EncryptStep
  \/ CiphertextStep
  \/ MultMutableStep(TRUE)
  \/ ConstantStep
  \/ PlaintextStep
  \/ LevelStep
  \/ CompressStep

Spec == Init /\ [][Next]_vars

\* The operations among ciphertexts and with constants, on distinct mutable factors.
CoreNext ==
  \/ EncryptStep
  \/ CiphertextStep
  \/ MultMutableStep(FALSE)
  \/ ConstantStep
  \/ LevelStep

CoreSpec == Init /\ [][CoreNext]_vars

-----------------------------------------------------------------------------
\* The objects stay records of their type, and no failed operation's result is ever stored.
TypeOK ==
  /\ ct \in [Slots -> {c \in Ciphertext : c.err = "none"}]
  /\ outcome \in Errors

(***************************************************************************)
(* The factor an object records is the factor its message carries.  Every  *)
(* branch of the alignment overwrites the recorded factor, so the constant *)
(* it multiplied by must make the overwritten value true; decryption       *)
(* divides by the recorded one.                                            *)
(***************************************************************************)
ScaleIsDeclared == \A s \in Slots : ct[s].scale = ct[s].sf

(***************************************************************************)
(* An object's factor is the table's factor of its level, to the power of  *)
(* its depth.  Adding a constant, multiplying by one and the branch of the *)
(* alignment for equal levels all rely on it without looking at the        *)
(* recorded factor.                                                        *)
(***************************************************************************)
ScaleIsCanonical ==
  \A s \in Slots : ct[s].sf = ct[s].depth * EncodingFactor(ct[s].level)

\* No sum was ever taken of two elements, or an element and a constant, of different scale.
SumsAgree == \A s \in Slots : ~ct[s].mixed

(***************************************************************************)
(* The automatic techniques keep every object at depth 1 or 2: the case    *)
(* analysis of the alignment has no other case.                            *)
(***************************************************************************)
DepthIsOneOrTwo == \A s \in Slots : ct[s].depth \in 1 .. 2

\* A level is a dropped tower, however the drop was made.
TowersMatchLevel == \A s \in Slots : ct[s].towers + ct[s].level = SizeQ

\* Rescaling never takes an object's last tower.
SomeTowerRemains == \A s \in Slots : ct[s].towers > 0

(***************************************************************************)
(* The alignment before an addition gives both operands the same level,    *)
(* depth and towers, and the level is the higher of the two: an addition   *)
(* costs no level.                                                         *)
(***************************************************************************)
AlignmentAgrees ==
  \A x, y \in Slots :
    LET p == AdjustLevelsAndDepth(ct[x], ct[y])
    IN  p[1].err = "none" /\ p[2].err = "none" =>
          /\ p[1].level = p[2].level
          /\ p[1].towers = p[2].towers
          /\ p[1].depth = p[2].depth
          /\ p[1].level = IF ct[x].level > ct[y].level THEN ct[x].level ELSE ct[y].level

\* Any two objects can be added: EvalAdd neither throws nor reads past a table.
AdditionIsTotal == \A x, y \in Slots : Sum(AlignedForAdd(ct[x], ct[y])).err = "none"
=============================================================================
