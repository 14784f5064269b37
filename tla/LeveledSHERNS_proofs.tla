----------------------- MODULE LeveledSHERNS_proofs -----------------------
(***************************************************************************)
(* For every chain of moduli, every number of levels and every pool of     *)
(* objects, the books of an object are true in the three modes that the    *)
(* runs check: CKKS under FLEXIBLEAUTO with the operations of CoreSpec,    *)
(* CKKS under FIXEDMANUAL with all operations, and BGV under FLEXIBLEAUTO. *)
(***************************************************************************)
EXTENDS LeveledSHERNS, NaturalsInduction, WellFoundedInduction, TLAPS

\* CKKS with rescaling done by the library.
IsCKKSFlexible == Scheme = "CKKS" /\ Technique = "FLEXIBLEAUTO"

\* An object whose levels are in order; nothing is said of its factor.
Shaped(c) ==
  /\ c \in Ciphertext
  /\ c.err = "none"
  /\ c.mixed = FALSE
  /\ c.level \in Levels
  /\ c.towers = SizeQ - c.level

(***************************************************************************)
(* One object's share of the inductive invariant.  No part is inductive    *)
(* alone: the factor a rescaling leaves is right only if the dropped tower *)
(* is the one of the object's level, and the tower exists only if the      *)
(* depth was 2 and the level below the last.                               *)
(***************************************************************************)
Sound(c) ==
  /\ Shaped(c)
  /\ c.depth \in 1 .. 2
  /\ c.sf = c.depth * SF[c.level]
  /\ c.scale = c.sf

Inv ==
  /\ ct \in [Slots -> Ciphertext]
  /\ outcome \in Errors
  /\ \A s \in Slots : Sound(ct[s])

-----------------------------------------------------------------------------
(* What each operation on one object does to its fields *)

\* The entries of the factor table are integers related by the recurrence.
LEMMA Table ==
  /\ SizeQ \in Nat /\ SizeQ > 0
  /\ \A l \in Levels : SF[l] \in Int /\ LogQ[l] \in Int
  /\ \A l \in Levels \ {0} : SF[l] = 2 * SF[l - 1] - LogQ[SizeQ - l]
BY SizeQAssumption, LogAssumption, TableAssumption DEF IsScalingFactorTable, Levels

\* The types of the fields of an object in order.
LEMMA ShapedFields ==
  ASSUME NEW c, Shaped(c)
  PROVE  /\ c.level \in Nat /\ c.towers \in Nat /\ c.towers > 0
         /\ c.depth \in Int /\ c.sf \in Int /\ c.scale \in Int
         /\ SF[c.level] \in Int
         /\ c.towers - 1 \in Levels /\ LogQ[c.towers - 1] \in Int
BY Table DEF Shaped, Ciphertext, Levels

\* Multiplying by a constant adds a depth and the factor of the level.
LEMMA MultiplyByConstant ==
  ASSUME NEW c, Shaped(c), IsCKKSFlexible, NEW k \in Int
  PROVE  LET r == CKKSEvalMultCore(c, k)
         IN  /\ Shaped(r)
             /\ r.level = c.level
             /\ r.depth = c.depth + 1
             /\ r.sf = c.sf + SF[c.level]
             /\ r.scale = c.scale + k + SF[c.level]
<1> DEFINE r == CKKSEvalMultCore(c, k)
<1>1. r = [c EXCEPT !.depth = @ + 1, !.sf = @ + SF[c.level],
                    !.scale = @ + k + SF[c.level]]
  BY DEF CKKSEvalMultCore, GetScalingFactorReal, IsCKKSFlexible, Shaped
<1>2. /\ c.depth + 1 \in Int /\ c.sf + SF[c.level] \in Int
      /\ c.scale + k + SF[c.level] \in Int
  BY ShapedFields
<1> QED BY <1>1, <1>2 DEF Shaped, Ciphertext

\* The constant that makes the message carry the factor t.
LEMMA MultiplyTo ==
  ASSUME NEW c, Shaped(c), c.scale = c.sf, IsCKKSFlexible, NEW t \in Int
  PROVE  LET r == CKKSEvalMultCore(c, t - c.sf - SF[c.level])
         IN  /\ Shaped(r)
             /\ r.level = c.level /\ r.towers = c.towers
             /\ r.depth = c.depth + 1
             /\ r.scale = t
<1> DEFINE k == t - c.sf - SF[c.level]
           r == CKKSEvalMultCore(c, k)
<1>1. k \in Int /\ c.sf + k + SF[c.level] = t
  BY ShapedFields
<1>2. /\ Shaped(r) /\ r.level = c.level /\ r.depth = c.depth + 1
      /\ r.scale = c.scale + k + SF[c.level]
  <2> HIDE DEF k
  <2> QED BY <1>1, MultiplyByConstant
<1> QED BY <1>1, <1>2 DEF Shaped

\* Rescaling moves the object one level on, as long as there is one.
LEMMA Rescale ==
  ASSUME NEW c, Shaped(c), IsCKKSFlexible, c.level + 1 \in Levels
  PROVE  LET r == CKKSModReduceInternal(c)
         IN  /\ Shaped(r)
             /\ r.level = c.level + 1
             /\ r.depth = c.depth - 1
             /\ r.sf = c.sf - LogQ[c.towers - 1]
             /\ r.scale = c.scale - LogQ[c.towers - 1]
<1> DEFINE r == CKKSModReduceInternal(c)
<1>1. r = [c EXCEPT !.towers = @ - 1, !.level = @ + 1, !.depth = @ - 1,
                    !.sf = @ - LogQ[c.towers - 1], !.scale = @ - LogQ[c.towers - 1]]
  BY Table DEF CKKSModReduceInternal, GetModReduceFactor, IsCKKSFlexible, Shaped, Levels
<1>2. /\ c.depth - 1 \in Int
      /\ c.sf - LogQ[c.towers - 1] \in Int /\ c.scale - LogQ[c.towers - 1] \in Int
  BY ShapedFields
<1>3. /\ c.towers - 1 \in 0 .. SizeQ /\ c.level + 1 \in Nat
      /\ c.towers - 1 = SizeQ - (c.level + 1)
  BY Table DEF Shaped, Levels
<1> QED BY <1>1, <1>2, <1>3 DEF Shaped, Ciphertext

\* Without a level left there is no table entry to rescale with.
LEMMA NoLevelToRescale ==
  ASSUME NEW c, Shaped(c), c.level + 1 \notin Levels
  PROVE  CKKSModReduceInternal(c).err = "overrun"
<1>1. c.towers < 2
  BY ShapedFields, Table DEF Shaped, Levels
<1> QED BY <1>1 DEF CKKSModReduceInternal, Failed, Shaped, Ciphertext

\* Dropping n towers keeps depth and factor.
LEMMA Reduce ==
  ASSUME NEW c, Shaped(c), NEW n \in Nat, c.level + n \in Levels
  PROVE  LET r == LevelReduceInternal(c, n)
         IN  /\ Shaped(r)
             /\ r.level = c.level + n
             /\ r.depth = c.depth /\ r.sf = c.sf /\ r.scale = c.scale
<1> DEFINE r == LevelReduceInternal(c, n)
<1>1. /\ c.towers - n \in 0 .. SizeQ /\ c.level + n \in Nat
      /\ c.towers - n = SizeQ - (c.level + n) /\ ~(n > c.towers)
  BY ShapedFields, Table DEF Shaped, Levels
<1>2. r = [c EXCEPT !.towers = @ - n, !.level = @ + n]
  BY <1>1 DEF LevelReduceInternal, Shaped
<1> QED BY <1>1, <1>2 DEF Shaped, Ciphertext

\* Taking over a factor changes nothing else.
LEMMA Adopt ==
  ASSUME NEW c, Shaped(c), NEW d, Shaped(d)
  PROVE  LET r == Adopted(c, d)
         IN  /\ Shaped(r)
             /\ r.level = c.level /\ r.depth = c.depth
             /\ r.sf = d.sf /\ r.scale = c.scale
BY ShapedFields DEF Adopted, Shaped, Ciphertext

-----------------------------------------------------------------------------
(* The alignment *)

\* Rescaling a sound object of depth 2 gives a sound object of the next level.
LEMMA RescaleIsSound ==
  ASSUME NEW c, Sound(c), IsCKKSFlexible, c.depth = 2, c.level + 1 \in Levels
  PROVE  LET r == CKKSModReduceInternal(c)
         IN  Sound(r) /\ r.level = c.level + 1 /\ r.depth = 1
<1> DEFINE r == CKKSModReduceInternal(c)
<1>1. Shaped(c) /\ c.sf = 2 * SF[c.level] /\ c.scale = c.sf
  BY DEF Sound
<1>2. /\ Shaped(r) /\ r.level = c.level + 1 /\ r.depth = 1
      /\ r.sf = c.sf - LogQ[c.towers - 1] /\ r.scale = r.sf
  BY <1>1, Rescale
<1>3. SF[c.level + 1] = 2 * SF[c.level] - LogQ[c.towers - 1]
  <2>1. /\ SizeQ - (c.level + 1) = c.towers - 1 /\ (c.level + 1) - 1 = c.level
        /\ c.level + 1 \in Levels \ {0}
    BY <1>1, Table DEF Shaped, Levels
  <2> QED BY <2>1, Table
<1>4. r.sf = SF[r.level] /\ SF[r.level] \in Int
  BY <1>1, <1>2, <1>3, Table
<1> QED BY <1>2, <1>4 DEF Sound

\* A multiplication by one is what an object of depth 1 needs to become one of depth 2.
LEMMA MultiplyByOneIsSound ==
  ASSUME NEW c, Sound(c), c.depth = 1, IsCKKSFlexible
  PROVE  LET r == CKKSEvalMultCore(c, 0)
         IN  Sound(r) /\ r.level = c.level /\ r.depth = 2
<1> DEFINE r == CKKSEvalMultCore(c, 0)
<1>1. Shaped(c) /\ c.sf = SF[c.level] /\ c.scale = SF[c.level] /\ SF[c.level] \in Int
  BY ShapedFields DEF Sound
<1>2. /\ Shaped(r) /\ r.level = c.level /\ r.depth = c.depth + 1
      /\ r.sf = c.sf + SF[c.level] /\ r.scale = c.scale + 0 + SF[c.level]
  BY <1>1, 0 \in Int, MultiplyByConstant
<1>3. r.depth = 2 /\ r.sf = 2 * SF[r.level] /\ r.scale = r.sf
  BY <1>1, <1>2
<1> QED BY <1>2, <1>3 DEF Sound

(***************************************************************************)
(* The alignment raises an object to the level and depth of another one,   *)
(* and its message then carries the factor the other one records.          *)
(***************************************************************************)
LEMMA RaiseIsSound ==
  ASSUME NEW c, Sound(c), NEW d, Sound(d), IsCKKSFlexible, c.level < d.level
  PROVE  LET r == CKKSRaise(c, d)
         IN  Sound(r) /\ r.level = d.level /\ r.depth = d.depth
<1> DEFINE r == CKKSRaise(c, d)
           scf == SF[c.level]
           q == LogQ[c.towers - 1]
           gap == d.level - c.level
           big == 2 * SF[d.level - 1]
<1>1. /\ Shaped(c) /\ Shaped(d) /\ c.scale = c.sf /\ d.sf = d.depth * SF[d.level]
      /\ c.depth \in 1 .. 2 /\ d.depth \in 1 .. 2
  BY DEF Sound
<1>2. /\ c.level \in Nat /\ d.level \in Nat /\ gap \in Nat /\ gap >= 1
      /\ c.sf \in Int /\ d.sf \in Int /\ scf \in Int /\ q \in Int
      /\ c.level + 1 \in Levels /\ d.level \in Levels \ {0} /\ d.level - 1 \in Levels
  <2>1. c.sf \in Int /\ d.sf \in Int /\ scf \in Int /\ q \in Int
    BY <1>1, ShapedFields
  <2>2. /\ c.level + 1 \in Levels /\ d.level \in Levels \ {0} /\ d.level - 1 \in Levels
        /\ c.level \in Nat /\ d.level \in Nat /\ gap \in Nat /\ gap >= 1
    BY <1>1, Table DEF Levels, Shaped
  <2> QED BY <2>1, <2>2
<1>3. big \in Int /\ SF[d.level] \in Int /\ SF[d.level] = big - LogQ[SizeQ - d.level]
  BY <1>2, Table
<1>4. HasBigTable(Technique)
  BY DEF HasBigTable, IsCKKSFlexible
<1>5. scf = GetScalingFactorReal(c.level) /\ q = GetModReduceFactor(c.towers - 1)
  BY DEF GetScalingFactorReal, GetModReduceFactor, IsCKKSFlexible
<1>6. \A x : Shaped(x) /\ x.level = d.level /\ x.depth = d.depth /\ x.scale = d.sf
             /\ r = Adopted(x, d) => Sound(r) /\ r.level = d.level /\ r.depth = d.depth
  BY <1>1, Adopt DEF Sound
<1>7. CASE c.depth = 2 /\ d.depth = 2
  <2> DEFINE t == d.sf + q
             a == CKKSEvalMultCore(c, t - c.sf - scf)
             b == CKKSModReduceInternal(a)
             e == LevelReduceInternal(b, gap - 1)
  <2>1. r = Adopted(e, d)
    BY <1>5, <1>7 DEF CKKSRaise, Rescaled
  <2>2. t \in Int
    BY <1>2
  <2>3. /\ Shaped(a) /\ a.level = c.level /\ a.towers = c.towers
        /\ a.depth = c.depth + 1 /\ a.scale = t
    <3> HIDE DEF t
    <3> QED BY <1>1, <2>2, MultiplyTo
  <2>4. Shaped(b) /\ b.level = a.level + 1 /\ b.depth = a.depth - 1 /\ b.scale = a.scale - q
    BY <1>2, <2>3, Rescale
  <2>5. b.level = c.level + 1 /\ b.depth = 2 /\ b.scale = d.sf
    BY <1>2, <1>7, <2>3, <2>4
  <2>6. gap - 1 \in Nat /\ b.level + (gap - 1) = d.level
    BY <1>2, <2>5
  <2>7. Shaped(e) /\ e.level = d.level /\ e.depth = 2 /\ e.scale = d.sf
    BY <1>2, <2>4, <2>5, <2>6, Reduce
  <2> QED BY <1>6, <1>7, <2>1, <2>7
<1>8. CASE c.depth = 2 /\ d.depth # 2 /\ gap = 1
  <2>1. r = CKKSModReduceInternal(c)
    BY <1>8 DEF CKKSRaise
  <2>2. d.level = c.level + 1 /\ d.depth = 1
    BY <1>1, <1>2, <1>8
  <2> QED BY <1>2, <1>8, <2>1, <2>2, RescaleIsSound
<1>9. CASE c.depth = 2 /\ d.depth # 2 /\ gap > 1
  <2> DEFINE t == big + q
             a == CKKSEvalMultCore(c, t - c.sf - scf)
             b == CKKSModReduceInternal(a)
             e == LevelReduceInternal(b, gap - 2)
             f == CKKSModReduceInternal(e)
  <2>1. r = Adopted(f, d)
    BY <1>4, <1>5, <1>9 DEF CKKSRaise, Rescaled
  <2>2. t \in Int
    BY <1>2, <1>3
  <2>3. /\ Shaped(a) /\ a.level = c.level /\ a.towers = c.towers
        /\ a.depth = c.depth + 1 /\ a.scale = t
    <3> HIDE DEF t
    <3> QED BY <1>1, <2>2, MultiplyTo
  <2>4. Shaped(b) /\ b.level = a.level + 1 /\ b.depth = a.depth - 1 /\ b.scale = a.scale - q
    BY <1>2, <2>3, Rescale
  <2>5. b.level = c.level + 1 /\ b.depth = 2 /\ b.scale = big
    BY <1>2, <1>3, <1>9, <2>3, <2>4
  <2>6. gap - 2 \in Nat /\ b.level + (gap - 2) = d.level - 1
    BY <1>2, <1>9, <2>5
  <2>7. Shaped(e) /\ e.level = d.level - 1 /\ e.depth = 2 /\ e.scale = big
    BY <1>2, <2>4, <2>5, <2>6, Reduce
  <2>8. e.towers - 1 = SizeQ - d.level /\ e.level + 1 = d.level
    <3>1. e.towers = SizeQ - (d.level - 1) /\ e.level = d.level - 1
      BY <2>7 DEF Shaped
    <3> QED BY <1>2, <3>1, Table
  <2>9. Shaped(f) /\ f.level = d.level /\ f.depth = 1 /\ f.scale = SF[d.level]
    BY <1>2, <1>3, <2>7, <2>8, Rescale
  <2>10. d.depth = 1 /\ d.sf = SF[d.level]
    BY <1>1, <1>3, <1>9
  <2> QED BY <1>6, <2>1, <2>9, <2>10
<1>10. CASE c.depth # 2 /\ d.depth = 2
  <2> DEFINE a == CKKSEvalMultCore(c, d.sf - c.sf - scf)
             e == LevelReduceInternal(a, gap)
  <2>1. r = Adopted(e, d)
    BY <1>5, <1>10 DEF CKKSRaise
  <2>2. c.depth + 1 = 2
    BY <1>1, <1>10
  <2>3. Shaped(a) /\ a.level = c.level /\ a.depth = 2 /\ a.scale = d.sf
    BY <1>1, <1>2, <2>2, MultiplyTo
  <2>4. a.level + gap = d.level
    BY <1>2, <2>3
  <2>5. Shaped(e) /\ e.level = d.level /\ e.depth = 2 /\ e.scale = d.sf
    BY <1>2, <2>3, <2>4, Reduce
  <2> QED BY <1>6, <1>10, <2>1, <2>5
<1>11. CASE c.depth # 2 /\ d.depth # 2
  <2> DEFINE a == CKKSEvalMultCore(c, big - c.sf - scf)
             e == LevelReduceInternal(a, gap - 1)
             f == CKKSModReduceInternal(e)
  <2>1. r = Adopted(f, d)
    BY <1>4, <1>5, <1>11 DEF CKKSRaise
  <2>2. c.depth + 1 = 2
    BY <1>1, <1>11
  <2>3. Shaped(a) /\ a.level = c.level /\ a.depth = 2 /\ a.scale = big
    BY <1>1, <1>3, <2>2, MultiplyTo
  <2>4. gap - 1 \in Nat /\ a.level + (gap - 1) = d.level - 1
    BY <1>2, <2>3
  <2>5. Shaped(e) /\ e.level = d.level - 1 /\ e.depth = 2 /\ e.scale = big
    BY <1>2, <2>3, <2>4, Reduce
  <2>6. e.towers - 1 = SizeQ - d.level /\ e.level + 1 = d.level
    BY <1>2, <2>5, Table DEF Shaped
  <2>7. Shaped(f) /\ f.level = d.level /\ f.depth = 1 /\ f.scale = SF[d.level]
    BY <1>2, <1>3, <2>5, <2>6, Rescale
  <2>8. d.depth = 1 /\ d.sf = SF[d.level]
    BY <1>1, <1>3, <1>11
  <2> QED BY <1>6, <2>1, <2>7, <2>8
<1>12. gap = 1 \/ gap > 1
  BY <1>2
<1> QED BY <1>7, <1>8, <1>9, <1>10, <1>11, <1>12

\* After the alignment the operands are sound and agree.
LEMMA AdjustIsSound ==
  ASSUME NEW c1, Sound(c1), NEW c2, Sound(c2), IsCKKSFlexible
  PROVE  \E a, b : /\ CKKSAdjustLevelsAndDepth(c1, c2) = <<a, b>>
                  /\ Sound(a) /\ Sound(b)
                  /\ a.level = b.level /\ a.depth = b.depth
                  /\ a.level \in {c1.level, c2.level}
                  /\ c1.level <= a.level /\ c2.level <= a.level
<1> DEFINE p == CKKSAdjustLevelsAndDepth(c1, c2)
<1>1. /\ c1.level \in Nat /\ c2.level \in Nat
      /\ c1.depth \in 1 .. 2 /\ c2.depth \in 1 .. 2
  BY ShapedFields DEF Sound
<1>3. CASE c1.level < c2.level
  <2>1. p = <<CKKSRaise(c1, c2), c2>>
    BY <1>1, <1>3 DEF CKKSAdjustLevelsAndDepth
  <2>2. LET r == CKKSRaise(c1, c2) IN Sound(r) /\ r.level = c2.level /\ r.depth = c2.depth
    BY <1>3, RaiseIsSound
  <2> QED BY <1>1, <1>3, <2>1, <2>2
<1>4. CASE c1.level > c2.level
  <2>1. p = <<c1, CKKSRaise(c2, c1)>>
    BY <1>1, <1>4 DEF CKKSAdjustLevelsAndDepth
  <2>2. c2.level < c1.level
    BY <1>1, <1>4
  <2>3. LET r == CKKSRaise(c2, c1) IN Sound(r) /\ r.level = c1.level /\ r.depth = c1.depth
    BY <2>2, RaiseIsSound
  <2> QED BY <1>1, <1>4, <2>1, <2>3
<1>5. CASE c1.level = c2.level /\ c1.depth < c2.depth
  <2>1. p = <<CKKSEvalMultCore(c1, 0), c2>>
    BY <1>1, <1>5 DEF CKKSAdjustLevelsAndDepth
  <2>2. c1.depth = 1 /\ c2.depth = 2
    BY <1>1, <1>5
  <2>3. LET r == CKKSEvalMultCore(c1, 0) IN Sound(r) /\ r.level = c1.level /\ r.depth = 2
    BY <2>2, MultiplyByOneIsSound
  <2> QED BY <1>1, <1>5, <2>1, <2>2, <2>3
<1>6. CASE c1.level = c2.level /\ c1.depth > c2.depth
  <2>1. p = <<c1, CKKSEvalMultCore(c2, 0)>>
    BY <1>1, <1>6 DEF CKKSAdjustLevelsAndDepth
  <2>2. c1.depth = 2 /\ c2.depth = 1
    BY <1>1, <1>6
  <2>3. LET r == CKKSEvalMultCore(c2, 0) IN Sound(r) /\ r.level = c2.level /\ r.depth = 2
    BY <2>2, MultiplyByOneIsSound
  <2> QED BY <1>1, <1>6, <2>1, <2>2, <2>3
<1>7. CASE c1.level = c2.level /\ c1.depth = c2.depth
  <2>1. p = <<c1, c2>>
    BY <1>1, <1>7 DEF CKKSAdjustLevelsAndDepth
  <2> QED BY <1>1, <1>7, <2>1
<1> QED BY <1>1, <1>3, <1>4, <1>5, <1>6, <1>7

-----------------------------------------------------------------------------
(* Sums and products *)

\* The sum of two sound objects that agree is sound.
LEMMA SumIsSound ==
  ASSUME NEW a, Sound(a), NEW b, Sound(b), a.level = b.level, a.depth = b.depth
  PROVE  Sound(EvalAddCore(a, b))
<1>1. /\ a.scale = b.scale /\ a.towers = b.towers
      /\ a.err = "none" /\ b.err = "none" /\ a.mixed = FALSE /\ b.mixed = FALSE
  BY DEF Sound, Shaped
<1>2. ~(a.towers > b.towers)
  BY <1>1, ShapedFields DEF Sound
<1>3. EvalAddCore(a, b) = [a EXCEPT !.mixed = a.mixed \/ b.mixed \/ a.scale # b.scale]
  BY <1>1, <1>2 DEF EvalAddCore
<1>4. (a.mixed \/ b.mixed \/ a.scale # b.scale) = FALSE
  BY <1>1
<1>5. EvalAddCore(a, b) = [a EXCEPT !.mixed = FALSE]
  BY <1>3, <1>4, Zenon
<1> QED BY <1>5 DEF Sound, Shaped, Ciphertext

\* The product of two sound objects of depth 1 and one level is sound.
LEMMA ProductIsSound ==
  ASSUME NEW a, Sound(a), NEW b, Sound(b), a.level = b.level, a.depth = 1, b.depth = 1
  PROVE  Sound(EvalMultCore(a, b))
<1> DEFINE r == EvalMultCore(a, b)
           f == SF[a.level]
<1>1. /\ a.towers = b.towers /\ a.err = "none" /\ b.err = "none"
      /\ a.mixed = FALSE /\ b.mixed = FALSE
  BY DEF Sound, Shaped
<1>2. f \in Int /\ a.sf = f /\ b.sf = f /\ a.scale = f /\ b.scale = f
  BY ShapedFields DEF Sound
<1>3. r = [a EXCEPT !.depth = a.depth + b.depth, !.sf = a.sf + b.sf,
                    !.scale = a.scale + b.scale, !.mixed = a.mixed \/ b.mixed]
  BY <1>1 DEF EvalMultCore
<1>4. /\ (a.mixed \/ b.mixed) = FALSE /\ a.depth + b.depth = 2
      /\ a.sf + b.sf = 2 * f /\ a.scale + b.scale = 2 * f
  BY <1>1, <1>2
<1>5. r = [a EXCEPT !.depth = 2, !.sf = 2 * f, !.scale = 2 * f, !.mixed = FALSE]
  BY <1>3, <1>4, Zenon
<1> DEFINE g == 2 * f
<1>6. g \in Int /\ a \in Ciphertext
  BY <1>2 DEF Sound, Shaped
<1>7. r = [a EXCEPT !.depth = 2, !.sf = g, !.scale = g, !.mixed = FALSE]
  BY <1>5
<1> HIDE DEF r, g
<1>8. r \in Ciphertext
  <2> DEFINE h == [a EXCEPT !.depth = 2, !.sf = g, !.scale = g]
  <2>1. h \in Ciphertext
    <3>1. h = [a EXCEPT !.depth = 2, !.sf = g, !.scale = g] /\ 2 \in Int
      OBVIOUS
    <3> HIDE DEF h
    <3> QED BY <3>1, <1>6 DEF Ciphertext
  <2>2. r = [h EXCEPT !.mixed = FALSE]
    BY <1>7
  <2> HIDE DEF h
  <2> QED BY <2>1, <2>2 DEF Ciphertext
<1>9. /\ r.level = a.level /\ r.depth = 2 /\ r.sf = g /\ r.scale = g
      /\ r.towers = a.towers /\ r.err = a.err /\ r.mixed = FALSE
  BY <1>6, <1>7 DEF Ciphertext
<1>10. r.sf = r.depth * SF[r.level]
  BY <1>2, <1>9 DEF g
<1>11. r.depth \in 1 .. 2 /\ Shaped(r)
  BY <1>8, <1>9 DEF Sound, Shaped
<1> QED BY <1>9, <1>10, <1>11 DEF Sound, r

-----------------------------------------------------------------------------
(* The public operations *)

\* Freshly encoded and encrypted objects are sound.
LEMMA EncodedIsSound ==
  ASSUME NEW l \in Levels, NEW n \in 1 .. 2, IsCKKSFlexible
  PROVE  Sound(Encoded(l, n))
<1> DEFINE r == Encoded(l, n)
<1>1. EncodingFactor(l) = SF[l] /\ SF[l] \in Int
  BY Table DEF EncodingFactor, GetScalingFactorReal, IsCKKSFlexible
<1>2. n * SF[l] \in Int /\ SizeQ - l \in 0 .. SizeQ /\ l \in Nat /\ n \in Int
  <2>1. CASE n = 1
    BY <1>1, <2>1, Table DEF Levels
  <2>2. CASE n = 2
    BY <1>1, <2>2, Table DEF Levels
  <2> QED BY <2>1, <2>2
<1>3. r = [towers |-> SizeQ - l, level |-> l, depth |-> n, sf |-> n * SF[l],
           scale |-> n * SF[l], mixed |-> FALSE, err |-> "none"]
  BY <1>1 DEF Encoded
<1>4. r \in Ciphertext
  BY <1>2, <1>3 DEF Ciphertext, Errors
<1> QED BY <1>3, <1>4 DEF Sound, Shaped

\* EvalAdd: the operands aligned for an addition and their sum are sound.
LEMMA AdditionIsSound ==
  ASSUME NEW c1, Sound(c1), NEW c2, Sound(c2), IsCKKSFlexible
  PROVE  LET p == AlignedForAdd(c1, c2)
         IN  Sound(p[1]) /\ Sound(p[2]) /\ Sound(Sum(p)) /\ Sum(p).err = "none"
<1>1. AlignedForAdd(c1, c2) = CKKSAdjustLevelsAndDepth(c1, c2)
  BY DEF AlignedForAdd, AdjustLevelsAndDepth, IsCKKSFlexible
<1>2. PICK a, b : /\ AlignedForAdd(c1, c2) = <<a, b>>
                  /\ Sound(a) /\ Sound(b)
                  /\ a.level = b.level /\ a.depth = b.depth
  BY <1>1, AdjustIsSound
<1>3. Sum(<<a, b>>) = EvalAddCore(a, b)
  BY DEF Sum
<1>4. Sound(EvalAddCore(a, b))
  BY <1>2, SumIsSound
<1>5. EvalAddCore(a, b).err = "none"
  BY <1>4 DEF Sound, Shaped
<1> QED BY <1>2, <1>3, <1>4, <1>5

(***************************************************************************)
(* EvalMult: unless the operands have no level left to rescale to, in      *)
(* which case the product fails, they and the product are sound.           *)
(***************************************************************************)
LEMMA MultiplicationIsSound ==
  ASSUME NEW c1, Sound(c1), NEW c2, Sound(c2), IsCKKSFlexible
  PROVE  LET p == AlignedForMult(c1, c2)
         IN  \/ Product(p).err = "overrun"
             \/ /\ Sound(p[1]) /\ Sound(p[2]) /\ Sound(Product(p))
                /\ Product(p).err = "none"
<1>1. AlignedForMult(c1, c2) = AdjustLevelsAndDepthToOne(c1, c2)
  BY DEF AlignedForMult, IsCKKSFlexible
<1>2. PICK a, b : /\ AdjustLevelsAndDepth(c1, c2) = <<a, b>>
                  /\ Sound(a) /\ Sound(b)
                  /\ a.level = b.level /\ a.depth = b.depth
  BY AdjustIsSound DEF AdjustLevelsAndDepth, IsCKKSFlexible
<1>3. \A x, y : Product(<<x, y>>) = EvalMultCore(x, y)
  BY DEF Product
<1>4. \A x : Sound(x) => x.err = "none"
  BY DEF Sound, Shaped
<1>5. CASE a.depth = 2
  <2> DEFINE x == CKKSModReduceInternal(a)
             y == CKKSModReduceInternal(b)
  <2>1. AlignedForMult(c1, c2) = <<x, y>>
    BY <1>1, <1>2, <1>5 DEF AdjustLevelsAndDepthToOne, ModReduceInternal, IsCKKSFlexible
  <2>2. CASE a.level + 1 \notin Levels
    <3>1. x.err = "overrun"
      BY <1>2, <2>2, NoLevelToRescale DEF Sound
    <3>2. EvalMultCore(x, y) = x
      BY <3>1 DEF EvalMultCore
    <3> QED BY <1>3, <2>1, <3>1, <3>2
  <2>3. CASE a.level + 1 \in Levels
    <3>1. /\ Sound(x) /\ x.level = a.level + 1 /\ x.depth = 1
          /\ Sound(y) /\ y.level = a.level + 1 /\ y.depth = 1
      BY <1>2, <1>5, <2>3, RescaleIsSound
    <3>2. Sound(EvalMultCore(x, y))
      BY <3>1, ProductIsSound
    <3> QED BY <1>3, <1>4, <2>1, <3>1, <3>2
  <2> QED BY <2>2, <2>3
<1>6. CASE a.depth # 2
  <2>1. AlignedForMult(c1, c2) = <<a, b>>
    BY <1>1, <1>2, <1>6 DEF AdjustLevelsAndDepthToOne
  <2>2. a.depth = 1 /\ b.depth = 1
    BY <1>2, <1>6 DEF Sound
  <2>3. Sound(EvalMultCore(a, b))
    BY <1>2, <2>2, ProductIsSound
  <2> QED BY <1>2, <1>3, <1>4, <2>1, <2>3
<1> QED BY <1>5, <1>6

\* EvalMult with a constant: the result is sound unless there is no level left.
LEMMA ConstantProductIsSound ==
  ASSUME NEW c, Sound(c), IsCKKSFlexible
  PROVE  LET r == CKKSEvalMultConst(c)
         IN  r.err = "overrun" \/ (Sound(r) /\ r.err = "none")
<1>1. \A x : Sound(x) => x.err = "none"
  BY DEF Sound, Shaped
<1>2. CASE c.depth = 2
  <2> DEFINE x == CKKSModReduceInternal(c)
  <2>1. CKKSEvalMultConst(c) = CKKSEvalMultCore(x, 0)
    BY <1>2 DEF CKKSEvalMultConst, IsCKKSFlexible
  <2>2. CASE c.level + 1 \notin Levels
    <3>1. x.err = "overrun"
      BY <2>2, NoLevelToRescale DEF Sound
    <3>2. CKKSEvalMultCore(x, 0) = x
      BY <3>1 DEF CKKSEvalMultCore
    <3> QED BY <2>1, <3>1, <3>2
  <2>3. CASE c.level + 1 \in Levels
    <3>1. Sound(x) /\ x.depth = 1
      BY <1>2, <2>3, RescaleIsSound
    <3> QED BY <1>1, <2>1, <3>1, MultiplyByOneIsSound
  <2> QED BY <2>2, <2>3
<1>3. CASE c.depth # 2
  <2>1. CKKSEvalMultConst(c) = CKKSEvalMultCore(c, 0)
    BY <1>3 DEF CKKSEvalMultConst
  <2>2. c.depth = 1
    BY <1>3 DEF Sound
  <2> QED BY <1>1, <2>1, <2>2, MultiplyByOneIsSound
<1> QED BY <1>2, <1>3

\* EvalAdd with a constant encodes it at the factor the object carries.
LEMMA ConstantSumIsSound ==
  ASSUME NEW c, Sound(c), IsCKKSFlexible
  PROVE  Sound(CKKSEvalAddConst(c))
<1>1. c.scale = c.depth * GetScalingFactorReal(c.level) /\ c.mixed = FALSE
  BY DEF Sound, Shaped, GetScalingFactorReal, IsCKKSFlexible
<1>2. (c.mixed \/ c.scale # c.depth * GetScalingFactorReal(c.level)) = FALSE
  BY <1>1
<1>3. CKKSEvalAddConst(c) =
        [c EXCEPT !.mixed = c.mixed \/ c.scale # c.depth * GetScalingFactorReal(c.level)]
  <2>1. ~(c.depth < 1) BY DEF Sound, Shaped
  <2> QED BY <2>1 DEF CKKSEvalAddConst
<1>4. CKKSEvalAddConst(c) = [c EXCEPT !.mixed = FALSE]
  BY <1>2, <1>3, Zenon
<1> QED BY <1>4 DEF Sound, Shaped, Ciphertext

-----------------------------------------------------------------------------
(* The inductive invariant *)

\* Storing a sound result, or failing, keeps every object sound.
LEMMA ReturnKeepsInv ==
  ASSUME Inv, NEW d \in Slots, NEW r, r.err = "none" => Sound(r), r.err \in Errors,
         Return(d, r)
  PROVE  Inv'
<1>1. outcome' = r.err /\ ct' = IF r.err = "none" THEN [ct EXCEPT ![d] = r] ELSE ct
  BY DEF Return, Settle
<1>2. CASE r.err = "none"
  BY <1>1, <1>2 DEF Inv, Sound, Shaped
<1>3. CASE r.err # "none"
  BY <1>1, <1>3 DEF Inv, Sound, Shaped
<1> QED BY <1>2, <1>3

\* Storing sound objects, or failing, keeps every object sound.
LEMMA SettleKeepsInv ==
  ASSUME Inv, NEW objects, objects \in [Slots -> Ciphertext], NEW r, r.err \in Errors,
         r.err = "none" => \A s \in Slots : Sound(objects[s]),
         Settle(r, objects)
  PROVE  Inv'
<1>1. outcome' = r.err /\ ct' = IF r.err = "none" THEN objects ELSE ct
  BY DEF Settle
<1>2. CASE r.err = "none"
  BY <1>1, <1>2 DEF Inv, Sound, Shaped
<1>3. CASE r.err # "none"
  BY <1>1, <1>3 DEF Inv, Sound, Shaped
<1> QED BY <1>2, <1>3

\* Every step of CoreSpec keeps the invariant.
LEMMA InvIsInductive ==
  ASSUME IsCKKSFlexible, Inv, [CoreNext]_vars
  PROVE  Inv'
<1>1. \A s \in Slots : Sound(ct[s]) /\ ct[s].err = "none"
  BY DEF Inv, Sound, Shaped
<1>2. {"none", "overrun"} \subseteq Errors
  BY DEF Errors
<1>3. ASSUME NEW d \in Slots, NEW p \in Plaintexts(1 .. 2), Encrypt(d, p)
      PROVE  Inv'
  <2>1. PICK l \in Levels, n \in 1 .. 2 : p = Encoded(l, n)
    BY DEF Plaintexts
  <2>2. Sound(p) /\ p.err = "none"
    BY <2>1, EncodedIsSound DEF Sound, Shaped
  <2> QED BY <1>2, <1>3, <2>2, ReturnKeepsInv DEF Encrypt
<1>4. ASSUME NEW d \in Slots, NEW x \in Slots, NEW y \in Slots, EvalAdd(d, x, y)
      PROVE  Inv'
  <2> DEFINE r == Sum(AlignedForAdd(ct[x], ct[y]))
  <2>1. Sound(r) /\ r.err = "none"
    BY <1>1, AdditionIsSound
  <2>2. Return(d, r)
    BY <1>4 DEF EvalAdd
  <2> QED BY <1>2, <2>1, <2>2, ReturnKeepsInv
<1>5. ASSUME NEW d \in Slots, NEW x \in Slots, NEW y \in Slots, EvalMult(d, x, y)
      PROVE  Inv'
  <2> DEFINE r == Product(AlignedForMult(ct[x], ct[y]))
  <2>1. r.err = "overrun" \/ (Sound(r) /\ r.err = "none")
    BY <1>1, MultiplicationIsSound
  <2>2. Return(d, r)
    BY <1>5 DEF EvalMult
  <2> QED BY <1>2, <2>1, <2>2, ReturnKeepsInv
<1>6. ASSUME NEW d \in Slots, NEW x \in Slots, NEW y \in Slots, EvalAddMutable(d, x, y)
      PROVE  Inv'
  <2> DEFINE p == AlignedForAdd(ct[x], ct[y])
             r == Sum(p)
             objects == [ct EXCEPT ![x] = p[1], ![y] = p[2], ![d] = r]
  <2>1. r.err = "overrun" \/ (Sound(p[1]) /\ Sound(p[2]) /\ Sound(r) /\ r.err = "none")
    BY <1>1, AdditionIsSound
  <2>2. Settle(r, objects)
    BY <1>6 DEF EvalAddMutable, IsCKKSFlexible
  <2> HIDE DEF p, r
  <2>3. CASE r.err = "none"
    <3>1. Sound(p[1]) /\ Sound(p[2]) /\ Sound(r)
      BY <2>1, <2>3
    <3>2. p[1] \in Ciphertext /\ p[2] \in Ciphertext /\ r \in Ciphertext
      BY <3>1 DEF Sound, Shaped
    <3>3. objects \in [Slots -> Ciphertext]
      BY <3>2 DEF Inv
    <3>4. ASSUME NEW s \in Slots
          PROVE  Sound(objects[s])
      <4>1. objects[s] \in {p[1], p[2], r, ct[s]}
        BY DEF Inv
      <4> QED BY <1>1, <3>1, <4>1
    <3> HIDE DEF objects
    <3> QED BY <1>2, <2>2, <2>3, <3>3, <3>4, SettleKeepsInv
  <2>4. CASE r.err # "none"
    <3>1. outcome' = "overrun" /\ ct' = ct
      BY <2>1, <2>2, <2>4 DEF Settle
    <3> QED BY <1>2, <3>1 DEF Inv, Sound, Shaped
  <2> QED BY <2>3, <2>4
<1>7. ASSUME NEW d \in Slots, NEW x \in Slots, NEW y \in Slots, x # y, EvalMultMutable(d, x, y)
      PROVE  Inv'
  <2> DEFINE p == AlignedForMult(ct[x], ct[y])
             r == Product(p)
             objects == [ct EXCEPT ![x] = p[1], ![y] = p[2], ![d] = r]
  <2>1. r.err = "overrun" \/ (Sound(p[1]) /\ Sound(p[2]) /\ Sound(r) /\ r.err = "none")
    BY <1>1, MultiplicationIsSound
  <2>2. Settle(r, objects)
    BY <1>7 DEF EvalMultMutable, IsCKKSFlexible
  <2> HIDE DEF p, r
  <2>3. CASE r.err = "none"
    <3>1. Sound(p[1]) /\ Sound(p[2]) /\ Sound(r)
      BY <2>1, <2>3
    <3>2. p[1] \in Ciphertext /\ p[2] \in Ciphertext /\ r \in Ciphertext
      BY <3>1 DEF Sound, Shaped
    <3>3. objects \in [Slots -> Ciphertext]
      BY <3>2 DEF Inv
    <3>4. ASSUME NEW s \in Slots
          PROVE  Sound(objects[s])
      <4>1. objects[s] \in {p[1], p[2], r, ct[s]}
        BY DEF Inv
      <4> QED BY <1>1, <3>1, <4>1
    <3> HIDE DEF objects
    <3> QED BY <1>2, <2>2, <2>3, <3>3, <3>4, SettleKeepsInv
  <2>4. CASE r.err # "none"
    <3>1. outcome' = "overrun" /\ ct' = ct
      BY <2>1, <2>2, <2>4 DEF Settle
    <3> QED BY <1>2, <3>1 DEF Inv, Sound, Shaped
  <2> QED BY <2>3, <2>4
<1>8. ASSUME NEW d \in Slots, NEW x \in Slots, EvalAddConst(d, x)
      PROVE  Inv'
  <2> DEFINE r == CKKSEvalAddConst(ct[x])
  <2>1. Sound(r) /\ r.err = "none"
    BY <1>1, ConstantSumIsSound DEF Sound, Shaped
  <2>2. Return(d, r)
    BY <1>8 DEF EvalAddConst, IsCKKSFlexible
  <2> QED BY <1>2, <2>1, <2>2, ReturnKeepsInv
<1>9. ASSUME NEW d \in Slots, NEW x \in Slots, EvalMultConst(d, x)
      PROVE  Inv'
  <2> DEFINE r == CKKSEvalMultConst(ct[x])
  <2>1. r.err = "overrun" \/ (Sound(r) /\ r.err = "none")
    BY <1>1, ConstantProductIsSound
  <2>2. Return(d, r)
    BY <1>9 DEF EvalMultConst, IsCKKSFlexible
  <2> QED BY <1>2, <2>1, <2>2, ReturnKeepsInv
<1>10. ASSUME NEW d \in Slots, NEW x \in Slots, Return(d, ct[x])
       PROVE  Inv'
  BY <1>1, <1>2, <1>10, ReturnKeepsInv
<1>11. ASSUME LevelStep
       PROVE  Inv'
  BY <1>10, <1>11 DEF LevelStep, ModReduce, LevelReduce, IsCKKSFlexible
<1>12. CASE CoreNext
  BY <1>3, <1>4, <1>5, <1>6, <1>7, <1>8, <1>9, <1>11, <1>12
     DEF CoreNext, EncryptStep, CiphertextStep, MultMutableStep, ConstantStep
<1>13. CASE UNCHANGED vars
  BY <1>13 DEF Inv, vars
<1> QED BY <1>12, <1>13

\* The invariant holds of the fresh objects a program starts from.
LEMMA InvHoldsInitially ==
  ASSUME IsCKKSFlexible, Init
  PROVE  Inv
<1>1. Sound(Encoded(0, 1))
  BY EncodedIsSound, Table DEF Levels
<1> QED BY <1>1 DEF Init, Inv, Sound, Shaped, Errors

-----------------------------------------------------------------------------
(***************************************************************************)
(* Under FLEXIBLEAUTO a CKKS object's recorded factor is the one its       *)
(* message carries and the table's factor of its level and depth, no sum   *)
(* mixes scales, depths stay 1 or 2, and no object loses its last tower.   *)
(***************************************************************************)
THEOREM FlexibleBookkeeping ==
  ASSUME IsCKKSFlexible
  PROVE  CoreSpec => [](/\ TypeOK /\ ScaleIsDeclared /\ ScaleIsCanonical /\ SumsAgree
                         /\ DepthIsOneOrTwo /\ TowersMatchLevel /\ SomeTowerRemains)
<1>1. Init => Inv
  BY InvHoldsInitially
<1>2. Inv /\ [CoreNext]_vars => Inv'
  BY InvIsInductive
<1>3. Inv => TypeOK /\ ScaleIsDeclared /\ SumsAgree /\ DepthIsOneOrTwo
  BY DEF Inv, Sound, Shaped, TypeOK, ScaleIsDeclared, SumsAgree, DepthIsOneOrTwo
<1>4. Inv => ScaleIsCanonical
  BY DEF Inv, Sound, ScaleIsCanonical, EncodingFactor, GetScalingFactorReal, IsCKKSFlexible
<1>5. Inv => TowersMatchLevel /\ SomeTowerRemains
  BY Table DEF Inv, Sound, Shaped, Levels, TowersMatchLevel, SomeTowerRemains
<1> QED BY <1>1, <1>2, <1>3, <1>4, <1>5, PTL DEF CoreSpec

\* Under FLEXIBLEAUTO any two reachable CKKS objects can be added.
THEOREM FlexibleAdditionIsTotal ==
  ASSUME IsCKKSFlexible
  PROVE  CoreSpec => []AdditionIsTotal
<1>1. Init => Inv
  BY InvHoldsInitially
<1>2. Inv /\ [CoreNext]_vars => Inv'
  BY InvIsInductive
<1>3. Inv => AdditionIsTotal
  BY AdditionIsSound DEF Inv, AdditionIsTotal
<1> QED BY <1>1, <1>2, <1>3, PTL DEF CoreSpec

(***************************************************************************)
(* Under FLEXIBLEAUTO the alignment of any two reachable CKKS objects      *)
(* agrees on level, towers and depth, at the higher of their levels.       *)
(***************************************************************************)
THEOREM FlexibleAlignmentAgrees ==
  ASSUME IsCKKSFlexible
  PROVE  CoreSpec => []AlignmentAgrees
<1>1. Init => Inv
  BY InvHoldsInitially
<1>2. Inv /\ [CoreNext]_vars => Inv'
  BY InvIsInductive
<1>3. Inv => AlignmentAgrees
  <2> SUFFICES ASSUME Inv, NEW x \in Slots, NEW y \in Slots
               PROVE  LET p == AdjustLevelsAndDepth(ct[x], ct[y])
                      IN  /\ p[1].level = p[2].level
                          /\ p[1].towers = p[2].towers
                          /\ p[1].depth = p[2].depth
                          /\ p[1].level = IF ct[x].level > ct[y].level
                                         THEN ct[x].level ELSE ct[y].level
    BY DEF AlignmentAgrees
  <2>1. Sound(ct[x]) /\ Sound(ct[y])
    BY DEF Inv
  <2>2. PICK a, b : /\ AdjustLevelsAndDepth(ct[x], ct[y]) = <<a, b>>
                    /\ Sound(a) /\ Sound(b)
                    /\ a.level = b.level /\ a.depth = b.depth
                    /\ a.level \in {ct[x].level, ct[y].level}
                    /\ ct[x].level <= a.level /\ ct[y].level <= a.level
    BY <2>1, AdjustIsSound DEF AdjustLevelsAndDepth, IsCKKSFlexible
  <2>3. a.towers = b.towers
    BY <2>2 DEF Sound, Shaped
  <2>4. ct[x].level \in Nat /\ ct[y].level \in Nat
    BY <2>1, ShapedFields DEF Sound
  <2>5. a.level = IF ct[x].level > ct[y].level THEN ct[x].level ELSE ct[y].level
    BY <2>2, <2>4
  <2> DEFINE p == AdjustLevelsAndDepth(ct[x], ct[y])
  <2>6. p[1] = a /\ p[2] = b
    BY <2>2
  <2> QED BY <2>2, <2>3, <2>5, <2>6
<1> QED BY <1>1, <1>2, <1>3, PTL DEF CoreSpec

-----------------------------------------------------------------------------
(***************************************************************************)
(* CKKS with rescaling left to the program ("FIXEDMANUAL"), which rescales, *)
(* reduces levels and compresses when it likes, and multiplies as often as *)
(* it likes: every operation, in any order.                                *)
(***************************************************************************)
IsCKKSManual == Scheme = "CKKS" /\ Technique = "FIXEDMANUAL"

(***************************************************************************)
(* One object's share of the inductive invariant.  Unlike under            *)
(* FLEXIBLEAUTO the depth is any number, zero and below included, and an   *)
(* object may have lost all its towers.                                    *)
(***************************************************************************)
Booked(c) ==
  /\ c \in Ciphertext
  /\ c.err = "none"
  /\ c.towers + c.level = SizeQ
  /\ c.sf = c.depth * LogP
  /\ c.scale = c.sf

\* The result of an operation: an object in order, or an error.
Good(r) == Booked(r) \/ r.err \in {"thrown", "overrun"}

ManualInv ==
  /\ ct \in [Slots -> Ciphertext]
  /\ outcome \in Errors
  /\ \A s \in Slots : Booked(ct[s])

-----------------------------------------------------------------------------
(* The operations on objects *)

LEMMA Constants == SizeQ \in Nat /\ SizeQ > 0 /\ LogP \in Int
BY SizeQAssumption, LogAssumption

\* Factors of products: the one place where depths are multiplied out.
LEMMA Distribute ==
  /\ \A d, e \in Int : (d + e) * LogP = d * LogP + e * LogP
  /\ \A d \in Int : (d + 1) * LogP = d * LogP + LogP
  /\ \A d \in Int : (d - 1) * LogP = d * LogP - LogP
  /\ \A d \in Int : d * LogP \in Int
BY Constants

\* The types of an object's fields.
LEMMA BookedFields ==
  ASSUME NEW c, Booked(c)
  PROVE  /\ c = [towers |-> c.towers, level |-> c.level, depth |-> c.depth, sf |-> c.sf,
                 scale |-> c.scale, mixed |-> c.mixed, err |-> c.err]
         /\ c.towers \in 0 .. SizeQ /\ c.level \in Nat /\ c.depth \in Int
         /\ c.sf \in Int /\ c.scale \in Int /\ c.mixed \in BOOLEAN
BY DEF Booked, Ciphertext

\* Dropping no more towers than there are.
LEMMA ReduceManual ==
  ASSUME NEW c, Booked(c), NEW k \in Nat, k <= c.towers
  PROVE  /\ Booked(LevelReduceInternal(c, k))
         /\ LevelReduceInternal(c, k).towers = c.towers - k
<1> DEFINE r == [c EXCEPT !.towers = @ - k, !.level = @ + k]
<1>1. LevelReduceInternal(c, k) = r
  BY BookedFields DEF LevelReduceInternal, Booked
<1>2. /\ c.towers - k \in 0 .. SizeQ /\ c.level + k \in Nat
      /\ (c.towers - k) + (c.level + k) = SizeQ
  BY BookedFields, Constants DEF Booked
<1>3. r \in Ciphertext
  BY <1>2 DEF Booked, Ciphertext
<1>4. /\ r.towers = c.towers - k /\ r.level = c.level + k
      /\ r.err = c.err /\ r.sf = c.sf /\ r.depth = c.depth /\ r.scale = c.scale
  BY DEF Booked, Ciphertext
<1> HIDE DEF r
<1> QED BY <1>1, <1>2, <1>3, <1>4 DEF Booked

\* Dropping any number.
LEMMA ReduceManualGood ==
  ASSUME NEW c, Booked(c), NEW k \in Nat
  PROVE  Good(LevelReduceInternal(c, k))
<1>1. CASE k <= c.towers
  BY <1>1, ReduceManual DEF Good
<1>2. CASE ~(k <= c.towers)
  <2>1. LevelReduceInternal(c, k) = [c EXCEPT !.err = "thrown"]
    BY <1>2, BookedFields DEF LevelReduceInternal, Failed, Booked
  <2> QED BY <2>1 DEF Good, Booked, Ciphertext
<1> QED BY <1>1, <1>2

\* The alignment of FIXEDMANUAL never fails and leaves equal towers.
LEMMA AlignManual ==
  ASSUME NEW c1, NEW c2, Booked(c1), Booked(c2)
  PROVE  LET p == AdjustLevels(c1, c2)
         IN  Booked(p[1]) /\ Booked(p[2]) /\ p[1].towers = p[2].towers
<1>1. c1.towers \in Nat /\ c2.towers \in Nat
  BY BookedFields, Constants
<1>2. CASE c1.towers < c2.towers
  <2> DEFINE k == c2.towers - c1.towers
  <2>1. k \in Nat /\ k <= c2.towers /\ c2.towers - k = c1.towers
    BY <1>1, <1>2
  <2>2. AdjustLevels(c1, c2) = <<c1, LevelReduceInternal(c2, k)>>
    BY <1>2 DEF AdjustLevels
  <2> HIDE DEF k
  <2>3. Booked(LevelReduceInternal(c2, k)) /\ LevelReduceInternal(c2, k).towers = c1.towers
    BY <2>1, ReduceManual
  <2> QED BY <2>2, <2>3
<1>3. CASE ~(c1.towers < c2.towers)
  <2> DEFINE k == c1.towers - c2.towers
  <2>1. k \in Nat /\ k <= c1.towers /\ c1.towers - k = c2.towers
    BY <1>1, <1>3
  <2>2. AdjustLevels(c1, c2) = <<LevelReduceInternal(c1, k), c2>>
    BY <1>3 DEF AdjustLevels
  <2> HIDE DEF k
  <2>3. Booked(LevelReduceInternal(c1, k)) /\ LevelReduceInternal(c1, k).towers = c2.towers
    BY <2>1, ReduceManual
  <2> QED BY <2>2, <2>3
<1> QED BY <1>2, <1>3

\* A sum of aligned operands, which may carry different factors.
LEMMA SumManual ==
  ASSUME NEW c1, NEW c2, Booked(c1), Booked(c2), c1.towers = c2.towers
  PROVE  Booked(EvalAddCore(c1, c2))
<1> DEFINE r == [c1 EXCEPT !.mixed = @ \/ c2.mixed \/ c1.scale # c2.scale]
<1>1. EvalAddCore(c1, c2) = r
  BY BookedFields, Constants DEF EvalAddCore, Booked
<1>2. (c1.mixed \/ c2.mixed \/ c1.scale # c2.scale) \in BOOLEAN
  OBVIOUS
<1>3. r \in Ciphertext
  BY <1>2 DEF Booked, Ciphertext
<1>4. /\ r.towers = c1.towers /\ r.level = c1.level
      /\ r.err = c1.err /\ r.sf = c1.sf /\ r.depth = c1.depth /\ r.scale = c1.scale
  BY DEF Booked, Ciphertext
<1> HIDE DEF r
<1> QED BY <1>1, <1>3, <1>4 DEF Booked

\* A product of aligned operands: depths and factors add up.
LEMMA ProductManual ==
  ASSUME NEW c1, NEW c2, Booked(c1), Booked(c2), c1.towers = c2.towers
  PROVE  Booked(EvalMultCore(c1, c2))
<1> DEFINE r == [c1 EXCEPT !.depth = @ + c2.depth, !.sf = @ + c2.sf,
                           !.scale = @ + c2.scale, !.mixed = @ \/ c2.mixed]
<1>1. EvalMultCore(c1, c2) = r
  BY DEF EvalMultCore, Booked
<1>2. /\ c1.depth + c2.depth \in Int /\ c1.sf + c2.sf \in Int /\ c1.scale + c2.scale \in Int
      /\ (c1.mixed \/ c2.mixed) \in BOOLEAN
  BY BookedFields
<1>3. r \in Ciphertext
  BY <1>2 DEF Booked, Ciphertext
<1>4. /\ r.towers = c1.towers /\ r.level = c1.level /\ r.err = c1.err
      /\ r.sf = c1.sf + c2.sf /\ r.depth = c1.depth + c2.depth /\ r.scale = c1.scale + c2.scale
  BY DEF Booked, Ciphertext
<1>5. c1.sf + c2.sf = (c1.depth + c2.depth) * LogP
  BY Distribute, BookedFields DEF Booked
<1> HIDE DEF r
<1> QED BY <1>1, <1>3, <1>4, <1>5 DEF Booked

\* Rescaling, as long as the table has an entry for the tower.
LEMMA RescaleManual ==
  ASSUME NEW c, Booked(c), IsCKKSManual
  PROVE  Good(CKKSModReduceInternal(c))
<1>1. CASE c.towers < 2
  <2>1. CKKSModReduceInternal(c) = [c EXCEPT !.err = "overrun"]
    BY <1>1 DEF CKKSModReduceInternal, Failed, Booked
  <2> QED BY <2>1 DEF Good, Booked, Ciphertext
<1>2. CASE ~(c.towers < 2)
  <2> DEFINE r == [c EXCEPT !.towers = @ - 1, !.level = @ + 1, !.depth = @ - 1,
                            !.sf = @ - LogP, !.scale = @ - LogP]
  <2>1. CKKSModReduceInternal(c) = r
    BY <1>2 DEF CKKSModReduceInternal, GetModReduceFactor, IsCKKSManual, Booked
  <2>2. /\ c.towers - 1 \in 0 .. SizeQ /\ c.level + 1 \in Nat /\ c.depth - 1 \in Int
        /\ c.sf - LogP \in Int /\ c.scale - LogP \in Int
        /\ (c.towers - 1) + (c.level + 1) = SizeQ
    BY <1>2, BookedFields, Constants DEF Booked
  <2>3. r \in Ciphertext
    BY <2>2 DEF Booked, Ciphertext
  <2>4. /\ r.towers = c.towers - 1 /\ r.level = c.level + 1 /\ r.err = c.err
        /\ r.sf = c.sf - LogP /\ r.depth = c.depth - 1 /\ r.scale = c.scale - LogP
    BY DEF Booked, Ciphertext
  <2>5. c.sf - LogP = (c.depth - 1) * LogP
    BY Distribute, BookedFields DEF Booked
  <2> HIDE DEF r
  <2> QED BY <2>1, <2>2, <2>3, <2>4, <2>5 DEF Booked, Good
<1> QED BY <1>1, <1>2

\* A constant: multiplying counts a depth, adding changes no field or does not end.
LEMMA ConstantsManual ==
  ASSUME NEW c, Booked(c), IsCKKSManual
  PROVE  Booked(CKKSEvalMultConst(c)) /\ Good(CKKSEvalAddConst(c))
<1> DEFINE r == [c EXCEPT !.depth = @ + 1, !.sf = @ + LogP, !.scale = @ + LogP]
           t == [c EXCEPT !.mixed = @ \/ c.scale # c.depth * LogP]
<1>1. CKKSEvalMultConst(c) = [c EXCEPT !.depth = @ + 1, !.sf = @ + LogP, !.scale = @ + 0 + LogP]
  BY DEF CKKSEvalMultConst, CKKSEvalMultCore, GetScalingFactorReal, IsCKKSManual, Booked
<1>2. c.scale + 0 + LogP = c.scale + LogP
  BY BookedFields, Constants
<1>3. CKKSEvalMultConst(c) = r
  BY <1>1, <1>2
<1>4. CKKSEvalAddConst(c) = IF c.depth < 1 THEN Failed(c, "overrun") ELSE t
  BY DEF CKKSEvalAddConst, GetScalingFactorReal, IsCKKSManual
<1>5. /\ c.depth + 1 \in Int /\ c.sf + LogP \in Int /\ c.scale + LogP \in Int
      /\ (c.mixed \/ c.scale # c.depth * LogP) \in BOOLEAN
  BY BookedFields, Constants
<1>6. r \in Ciphertext /\ t \in Ciphertext
  BY <1>5 DEF Booked, Ciphertext
<1>7. /\ r.towers = c.towers /\ r.level = c.level /\ r.err = c.err
      /\ r.sf = c.sf + LogP /\ r.depth = c.depth + 1 /\ r.scale = c.scale + LogP
      /\ t.towers = c.towers /\ t.level = c.level /\ t.err = c.err
      /\ t.sf = c.sf /\ t.depth = c.depth /\ t.scale = c.scale
  BY DEF Booked, Ciphertext
<1>8. c.sf + LogP = (c.depth + 1) * LogP
  BY Distribute, BookedFields DEF Booked
<1>9. Failed(c, "overrun").err = "overrun" BY DEF Booked, Failed, Ciphertext
<1> HIDE DEF r, t
<1>10. Booked(r) /\ Booked(t) BY <1>6, <1>7, <1>8 DEF Booked
<1> QED BY <1>3, <1>4, <1>9, <1>10 DEF Good

\* What encryption stores.
LEMMA EncodedManual ==
  ASSUME IsCKKSManual, NEW l \in Levels, NEW n \in Int
  PROVE  Booked(Encoded(l, n))
<1>1. EncodingFactor(l) = LogP
  BY DEF EncodingFactor, GetScalingFactorReal, IsCKKSManual
<1>2. SizeQ - l \in 0 .. SizeQ /\ l \in Nat /\ (SizeQ - l) + l = SizeQ
  BY Constants DEF Levels
<1>3. n * LogP \in Int
  BY Distribute
<1> QED BY <1>1, <1>2, <1>3 DEF Encoded, Booked, Ciphertext, Errors

LEMMA PlaintextsManual == IsCKKSManual => \A p \in Plaintexts(1 .. 2) : Booked(p)
BY EncodedManual DEF Plaintexts

\* The operations that align their operands first, with a ciphertext or a plaintext c2.
LEMMA BinaryManual ==
  ASSUME IsCKKSManual, NEW c1, NEW c2, Booked(c1), Booked(c2)
  PROVE  /\ Booked(Sum(AlignedForAdd(c1, c2)))
         /\ Booked(Product(AlignedForMult(c1, c2)))
         /\ Booked(SumWithPlain(c1, c2))
         /\ Booked(AlignedWithPlain(c1, c2)[1])
<1> DEFINE p == AdjustLevels(c1, c2)
<1>1. Booked(p[1]) /\ Booked(p[2]) /\ p[1].towers = p[2].towers
  BY AlignManual
<1>2. AlignedForAdd(c1, c2) = p /\ AlignedForMult(c1, c2) = p /\ AlignedWithPlain(c1, c2) = p
  BY DEF AlignedForAdd, AlignedForMult, AlignedWithPlain, IsCKKSManual
<1> HIDE DEF p
<1>3. Booked(Sum(p)) /\ Booked(Product(p))
  BY <1>1, SumManual, ProductManual DEF Sum, Product
<1> QED BY <1>1, <1>2, <1>3 DEF SumWithPlain

\* The plaintext's own depth and factor are added: the product never throws.
LEMMA PlainProductManual ==
  ASSUME IsCKKSManual, NEW c, NEW p, Booked(c), Booked(p)
  PROVE  Booked(ProductWithPlain(c, p))
<1> DEFINE a == AdjustLevels(c, p)
<1>1. Booked(a[1]) /\ a[1].towers = a[2].towers
  BY AlignManual
<1>2. AlignedWithPlain(c, p) = a
  BY DEF AlignedWithPlain, IsCKKSManual
<1> HIDE DEF a
<1> DEFINE e == a[1]
           half == [e EXCEPT !.depth = @ + p.depth, !.sf = @ + p.sf]
           r == [half EXCEPT !.scale = @ + p.scale]
<1>3. Booked(e) /\ ~(e.towers > a[2].towers) /\ e.err = "none"
  BY <1>1, BookedFields, Constants DEF Booked
<1>4. ProductWithPlain(c, p) = r
  BY <1>2, <1>3 DEF ProductWithPlain, IsCKKSManual
<1> HIDE DEF e
<1>5. /\ e.depth + p.depth \in Int /\ e.sf + p.sf \in Int /\ e.scale + p.scale \in Int
  BY <1>3, BookedFields
<1>6. half \in Ciphertext
  BY <1>3, <1>5 DEF Booked, Ciphertext
<1>7. /\ half.towers = e.towers /\ half.level = e.level /\ half.err = e.err
      /\ half.sf = e.sf + p.sf /\ half.depth = e.depth + p.depth /\ half.scale = e.scale
  BY <1>3 DEF Booked, Ciphertext
<1> HIDE DEF half
<1>8. r \in Ciphertext
  BY <1>5, <1>6, <1>7 DEF Ciphertext
<1>9. /\ r.towers = e.towers /\ r.level = e.level /\ r.err = e.err
      /\ r.sf = e.sf + p.sf /\ r.depth = e.depth + p.depth /\ r.scale = e.scale + p.scale
  BY <1>6, <1>7 DEF Ciphertext
<1>10. e.sf + p.sf = (e.depth + p.depth) * LogP
  BY <1>3, Distribute, BookedFields DEF Booked
<1> HIDE DEF r
<1> QED BY <1>3, <1>4, <1>8, <1>9, <1>10 DEF Booked

-----------------------------------------------------------------------------
(* Compress: a loop of rescalings, then the levels are reduced *)

\* A set of natural numbers has a least element.
LEMMA LeastNumber ==
  ASSUME NEW S, S \subseteq Nat, S # {}
  PROVE  \E x \in S : \A y \in S : x <= y
<1> DEFINE R == OpToRel(<, Nat)
<1>1. IsWellFoundedOn(R, Nat) BY NatLessThanWellFounded
<1>2. PICK x \in S : \A y \in S : ~ (<<y, x>> \in R)
  <2> HIDE DEF R
  <2> QED BY <1>1, WFMin
<1>3. \A y \in S : x <= y
  <2> SUFFICES ASSUME NEW y \in S, ~ (x <= y) PROVE FALSE
    OBVIOUS
  <2>1. y \in Nat /\ x \in Nat /\ y < x OBVIOUS
  <2>2. <<y, x>> \in R BY <2>1 DEF OpToRel
  <2> QED BY <2>2, <1>2
<1> QED BY <1>3

\* k rescalings of an object that has the towers for them.
Dropped(c, k) ==
  [c EXCEPT !.towers = c.towers - k, !.level = c.level + k, !.depth = c.depth - k,
            !.sf = c.sf - k * LogP, !.scale = c.scale - k * LogP]

\* Rescaling over and over: what Compress's loop has after k of its rounds.
Rescalings(c, k) ==
  LET last == IF c.towers > 0 THEN c.towers - 1 ELSE 0
  IN  IF k <= last THEN Dropped(c, k) ELSE Failed(Dropped(c, last), "overrun")

LEMMA DroppedIsBooked ==
  ASSUME NEW c, Booked(c), NEW k \in Nat, k <= c.towers
  PROVE  /\ Booked(Dropped(c, k))
         /\ Dropped(c, k).towers = c.towers - k
         /\ Dropped(c, k).err = "none"
<1> DEFINE r == Dropped(c, k)
<1>1. /\ c.towers - k \in 0 .. SizeQ /\ c.level + k \in Nat /\ c.depth - k \in Int
      /\ (c.towers - k) + (c.level + k) = SizeQ
  BY BookedFields, Constants DEF Booked
<1>2. k * LogP \in Int /\ c.sf - k * LogP \in Int /\ c.scale - k * LogP \in Int
  BY Distribute, BookedFields, Constants
<1>3. r \in Ciphertext
  BY <1>1, <1>2 DEF Booked, Ciphertext, Dropped
<1>4. /\ r.towers = c.towers - k /\ r.level = c.level + k /\ r.err = c.err
      /\ r.sf = c.sf - k * LogP /\ r.depth = c.depth - k /\ r.scale = c.scale - k * LogP
  BY DEF Booked, Ciphertext, Dropped
<1>5. c.sf - k * LogP = (c.depth - k) * LogP
  BY <1>2, BookedFields, Constants, SMT DEF Booked
<1> HIDE DEF r
<1>6. Booked(r) /\ r.towers = c.towers - k /\ r.err = "none"
  BY <1>1, <1>3, <1>4, <1>5 DEF Booked
<1> QED BY <1>6 DEF r

LEMMA DropOneMore ==
  ASSUME NEW c, Booked(c), IsCKKSManual, NEW k \in Nat, k + 1 < c.towers
  PROVE  CKKSModReduceInternal(Dropped(c, k)) = Dropped(c, k + 1)
<1> DEFINE r == Dropped(c, k)
<1>1. Booked(r) /\ r.towers = c.towers - k /\ r.err = "none"
  BY DroppedIsBooked, BookedFields, Constants
<1>2. ~(r.towers < 2)
  BY <1>1, BookedFields, Constants
<1>3. CKKSModReduceInternal(r) = [r EXCEPT !.towers = @ - 1, !.level = @ + 1, !.depth = @ - 1,
                                           !.sf = @ - LogP, !.scale = @ - LogP]
  BY <1>1, <1>2 DEF CKKSModReduceInternal, GetModReduceFactor, IsCKKSManual
<1>4. /\ (c.towers - k) - 1 = c.towers - (k + 1) /\ (c.level + k) + 1 = c.level + (k + 1)
      /\ (c.depth - k) - 1 = c.depth - (k + 1)
      /\ (c.sf - k * LogP) - LogP = c.sf - (k + 1) * LogP
      /\ (c.scale - k * LogP) - LogP = c.scale - (k + 1) * LogP
  <2> DEFINE kP == k * LogP
             kP1 == (k + 1) * LogP
  <2>1. kP \in Int /\ kP1 = kP + LogP
    BY Distribute
  <2>2. c.towers \in Int /\ c.level \in Int /\ c.depth \in Int /\ c.sf \in Int
        /\ c.scale \in Int /\ LogP \in Int
    BY BookedFields, Constants
  <2> HIDE DEF kP, kP1
  <2>3. (c.sf - kP) - LogP = c.sf - kP1 /\ (c.scale - kP) - LogP = c.scale - kP1
    BY <2>1, <2>2
  <2>4. /\ (c.towers - k) - 1 = c.towers - (k + 1) /\ (c.level + k) + 1 = c.level + (k + 1)
        /\ (c.depth - k) - 1 = c.depth - (k + 1)
    BY <2>2
  <2> QED BY <2>3, <2>4 DEF kP, kP1
<1> QED BY <1>3, <1>4 DEF Dropped, Booked, Ciphertext

\* One more rescaling, whatever has become of the object.
LEMMA RescaleAgain ==
  ASSUME NEW c, Booked(c), IsCKKSManual, NEW k \in Nat
  PROVE  Rescalings(c, k + 1) = CKKSModReduceInternal(Rescalings(c, k))
<1> DEFINE last == IF c.towers > 0 THEN c.towers - 1 ELSE 0
<1>1. c.towers \in Nat /\ last \in Nat /\ last <= c.towers /\ c.towers - last < 2
  BY BookedFields, Constants
<1>2. CASE k + 1 <= last
  <2>1. k + 1 < c.towers /\ k <= last BY <1>1, <1>2
  <2>2. CKKSModReduceInternal(Dropped(c, k)) = Dropped(c, k + 1) BY <2>1, DropOneMore
  <2> QED BY <1>2, <2>1, <2>2 DEF Rescalings
<1>3. CASE k = last
  <2>1. Booked(Dropped(c, k)) /\ Dropped(c, k).towers < 2 /\ Dropped(c, k).err = "none"
    BY <1>1, <1>3, DroppedIsBooked
  <2>2. CKKSModReduceInternal(Dropped(c, k)) = Failed(Dropped(c, k), "overrun")
    BY <2>1 DEF CKKSModReduceInternal
  <2>3. k <= last /\ ~(k + 1 <= last) BY <1>1, <1>3
  <2> QED BY <1>3, <2>2, <2>3 DEF Rescalings
<1>4. CASE k > last
  <2>1. ~(k <= last) /\ ~(k + 1 <= last) BY <1>1, <1>4
  <2> DEFINE r == Failed(Dropped(c, last), "overrun")
  <2>2. Rescalings(c, k) = r /\ Rescalings(c, k + 1) = r BY <2>1 DEF Rescalings
  <2>3. r.err = "overrun"
    BY <1>1, DroppedIsBooked DEF Failed, Booked, Ciphertext
  <2>4. CKKSModReduceInternal(r) = r
    <3> HIDE DEF r
    <3> QED BY <2>3 DEF CKKSModReduceInternal
  <2> QED BY <2>2, <2>4
<1> QED BY <1>1, <1>2, <1>3, <1>4

\* The loop of Compress is defined for every number of rounds.
LEMMA RescalingsExist ==
  ASSUME NEW c, Booked(c), IsCKKSManual
  PROVE  \E f : f = [k \in Nat |-> IF k = 0 THEN c ELSE CKKSModReduceInternal(f[k - 1])]
<1> DEFINE f == [k \in Nat |-> Rescalings(c, k)]
<1>1. Rescalings(c, 0) = c
  <2>1. 0 * LogP = 0 BY Constants
  <2>2. /\ c.towers - 0 = c.towers /\ c.level + 0 = c.level /\ c.depth - 0 = c.depth
        /\ c.sf - 0 * LogP = c.sf /\ c.scale - 0 * LogP = c.scale
    BY <2>1, BookedFields, Constants
  <2>3. Dropped(c, 0) = [c EXCEPT !.towers = c.towers, !.level = c.level, !.depth = c.depth,
                                  !.sf = c.sf, !.scale = c.scale]
    BY <2>2 DEF Dropped
  <2>4. [c EXCEPT !.towers = c.towers, !.level = c.level, !.depth = c.depth,
                  !.sf = c.sf, !.scale = c.scale] = c
    BY DEF Booked, Ciphertext
  <2> QED BY <2>3, <2>4, BookedFields, Constants DEF Rescalings
<1>2. ASSUME NEW k \in Nat
      PROVE  f[k] = IF k = 0 THEN c ELSE CKKSModReduceInternal(f[k - 1])
  <2>1. CASE k = 0 BY <1>1, <2>1
  <2>2. CASE k # 0
    <3>1. k - 1 \in Nat /\ (k - 1) + 1 = k BY <2>2
    <3>2. Rescalings(c, k) = CKKSModReduceInternal(Rescalings(c, k - 1)) BY <3>1, RescaleAgain
    <3> QED BY <2>2, <3>1, <3>2
  <2> QED BY <2>1, <2>2
<1>3. f = [k \in Nat |-> f[k]] OBVIOUS
<1> HIDE DEF f
<1>4. f = [k \in Nat |-> IF k = 0 THEN c ELSE CKKSModReduceInternal(f[k - 1])] BY <1>2, <1>3
<1> QED BY <1>4

\* However often it is applied, rescaling ends with an object in order or with an error.
LEMMA RescalingsAreGood ==
  ASSUME NEW c, Booked(c), IsCKKSManual, NEW f,
         f = [k \in Nat |-> IF k = 0 THEN c ELSE CKKSModReduceInternal(f[k - 1])]
  PROVE  \A k \in Nat : Good(f[k])
<1> DEFINE Bad == {k \in Nat : ~ Good(f[k])}
<1>1. Bad \subseteq Nat OBVIOUS
<1>2. f[0] = c /\ \A k \in Nat : k # 0 => f[k] = CKKSModReduceInternal(f[k - 1]) OBVIOUS
<1> SUFFICES ASSUME Bad # {} PROVE FALSE
  OBVIOUS
<1>3. PICK k \in Bad : \A j \in Bad : k <= j
  <2> HIDE DEF Bad
  <2> QED BY <1>1, LeastNumber
<1>4. k \in Nat /\ k # 0 BY <1>2 DEF Good
<1>5. k - 1 \in Nat /\ ~(k <= k - 1) BY <1>4
<1>6. Good(f[k - 1]) BY <1>3, <1>5
<1>7. Good(CKKSModReduceInternal(f[k - 1]))
  <2>1. CASE Booked(f[k - 1]) BY <2>1, RescaleManual
  <2>2. CASE f[k - 1].err \in {"thrown", "overrun"}
    BY <2>2 DEF CKKSModReduceInternal, Good
  <2> QED BY <1>6, <2>1, <2>2 DEF Good
<1> QED BY <1>2, <1>4, <1>7

\* Compress: the rescalings, then the reduction of levels.
LEMMA CompressManual ==
  ASSUME NEW c, Booked(c), IsCKKSManual, NEW m \in Nat
  PROVE  Good(Compressed(c, m))
<1> DEFINE reduced == CHOOSE f : f = [k \in Nat |-> IF k = 0 THEN c
                                                ELSE CKKSModReduceInternal(f[k - 1])]
           times == CASE c.depth < 0 -> SizeQ
                      [] c.depth \in 0 .. 1 -> 0
                      [] c.depth > 1 -> c.depth - 1
           r == reduced[times]
<1>1. reduced = [k \in Nat |-> IF k = 0 THEN c ELSE CKKSModReduceInternal(reduced[k - 1])]
  BY RescalingsExist
<1>2. times \in Nat BY BookedFields, Constants
<1>3. Compressed(c, m) = IF m >= r.towers THEN r ELSE LevelReduceInternal(r, r.towers - m)
  BY DEF Compressed
<1> HIDE DEF reduced, times
<1>4. Good(r) BY <1>1, <1>2, RescalingsAreGood
<1> HIDE DEF r
<1>5. CASE Booked(r)
  <2>1. ~(m >= r.towers) => r.towers - m \in Nat BY <1>5, BookedFields, Constants
  <2> QED BY <1>3, <1>4, <1>5, <2>1, ReduceManualGood
<1>6. CASE r.err \in {"thrown", "overrun"}
  <2>1. LevelReduceInternal(r, r.towers - m) = r BY <1>6 DEF LevelReduceInternal
  <2> QED BY <1>3, <1>4, <2>1
<1> QED BY <1>4, <1>5, <1>6 DEF Good

-----------------------------------------------------------------------------
(* The invariant is inductive *)

\* An operation that ends with an error leaves the objects alone.
LEMMA SettleManual ==
  ASSUME ManualInv, NEW r, NEW objects, Good(r), Settle(r, objects),
         r.err = "none" => objects \in [Slots -> Ciphertext] /\ \A s \in Slots : Booked(objects[s])
  PROVE  ManualInv'
<1>1. r.err \in Errors
  BY DEF Good, Booked, Errors
<1> QED BY <1>1 DEF Settle, ManualInv, Booked

LEMMA ReturnManual ==
  ASSUME ManualInv, NEW d \in Slots, NEW r, Good(r), Return(d, r)
  PROVE  ManualInv'
<1> DEFINE objects == [ct EXCEPT ![d] = r]
<1>1. ASSUME r.err = "none"
      PROVE  objects \in [Slots -> Ciphertext] /\ \A s \in Slots : Booked(objects[s])
  BY <1>1 DEF Good, ManualInv, Booked
<1>2. Settle(r, objects)
  BY DEF Return
<1> HIDE DEF objects
<1> QED BY <1>1, <1>2, SettleManual

LEMMA ManualStart == IsCKKSManual /\ Init => ManualInv
<1> SUFFICES ASSUME IsCKKSManual, Init PROVE ManualInv
  OBVIOUS
<1>1. Booked(Encoded(0, 1))
  BY EncodedManual, Constants DEF Levels
<1> QED BY <1>1 DEF Init, ManualInv, Booked, Errors

LEMMA ManualStep ==
  ASSUME IsCKKSManual, ManualInv, [Next]_vars
  PROVE  ManualInv'
<1>1. CASE EncryptStep
  <2>1. PICK d \in Slots, p \in Plaintexts(1 .. 2) : Encrypt(d, p)
    BY <1>1 DEF EncryptStep
  <2> QED BY <2>1, PlaintextsManual, ReturnManual DEF Encrypt, Good
<1>2. ASSUME NEW d \in Slots, NEW x \in Slots, NEW y \in Slots,
             EvalAdd(d, x, y) \/ EvalMult(d, x, y)
      PROVE  ManualInv'
  <2>1. Good(Sum(AlignedForAdd(ct[x], ct[y]))) /\ Good(Product(AlignedForMult(ct[x], ct[y])))
    BY BinaryManual DEF ManualInv, Good
  <2> QED BY <1>2, <2>1, ReturnManual DEF EvalAdd, EvalMult
<1>3. CASE CiphertextStep
  BY <1>2, <1>3 DEF CiphertextStep, EvalAddMutable, IsCKKSManual
<1>4. CASE MultMutableStep(TRUE)
  BY <1>2, <1>4 DEF MultMutableStep, EvalMultMutable, IsCKKSManual
<1>5. CASE ConstantStep
  <2>1. PICK d \in Slots, x \in Slots : EvalAddConst(d, x) \/ EvalMultConst(d, x)
    BY <1>5 DEF ConstantStep
  <2>2. Good(CKKSEvalMultConst(ct[x])) /\ Good(CKKSEvalAddConst(ct[x]))
    BY ConstantsManual DEF ManualInv, Good
  <2> QED BY <2>1, <2>2, ReturnManual DEF EvalAddConst, EvalMultConst, IsCKKSManual
<1>6. CASE PlaintextStep
  <2>1. PICK d \in Slots, x \in Slots, p \in Plaintexts(1 .. 2) :
          \/ EvalAddPlain(d, x, p)
          \/ EvalMultPlain(d, x, p)
          \/ EvalMultPlainInPlace(x, p)
          \/ EvalAddMutablePlain(d, x, p)
    BY <1>6 DEF PlaintextStep
  <2> DEFINE sum == SumWithPlain(ct[x], p)
             product == ProductWithPlain(ct[x], p)
             aligned == AlignedWithPlain(ct[x], p)[1]
  <2>2. Booked(sum) /\ Booked(product) /\ Booked(aligned)
    BY PlaintextsManual, BinaryManual, PlainProductManual DEF ManualInv
  <2>3. CASE EvalAddPlain(d, x, p)
    <3>1. Return(d, sum)
      BY <2>3 DEF EvalAddPlain
    <3> HIDE DEF sum
    <3> QED BY <2>2, <3>1, ReturnManual DEF Good
  <2>4. CASE EvalMultPlain(d, x, p)
    <3>1. Return(d, product)
      BY <2>4 DEF EvalMultPlain
    <3> HIDE DEF product
    <3> QED BY <2>2, <3>1, ReturnManual DEF Good
  <2>5. CASE EvalMultPlainInPlace(x, p)
    <3>1. product.err # "thrown"
      BY <2>2 DEF Booked
    <3>2. Return(x, product)
      BY <2>5, <3>1 DEF EvalMultPlainInPlace
    <3> HIDE DEF product
    <3> QED BY <2>2, <3>2, ReturnManual DEF Good
  <2>6. CASE EvalAddMutablePlain(d, x, p)
    <3> DEFINE objects == [ct EXCEPT ![x] = aligned, ![d] = sum]
    <3>1. Settle(sum, objects)
      BY <2>6 DEF EvalAddMutablePlain
    <3> HIDE DEF sum, aligned
    <3>2. objects \in [Slots -> Ciphertext] /\ \A s \in Slots : Booked(objects[s])
      BY <2>2 DEF ManualInv, Booked
    <3> HIDE DEF objects
    <3> QED BY <2>2, <3>1, <3>2, SettleManual DEF Good
  <2> QED BY <2>1, <2>3, <2>4, <2>5, <2>6
<1>7. CASE LevelStep
  <2>1. PICK d \in Slots, x \in Slots : ModReduce(d, x) \/ \E n \in Levels : LevelReduce(d, x, n)
    BY <1>7 DEF LevelStep
  <2>2. Booked(ct[x])
    BY DEF ManualInv
  <2>3. CASE ModReduce(d, x)
    <3>1. Good(CKKSModReduceInternal(ct[x]))
      BY <2>2, RescaleManual
    <3> QED BY <2>3, <3>1, ReturnManual DEF ModReduce, ModReduceInternal, IsCKKSManual
  <2>4. ASSUME NEW n \in Levels, LevelReduce(d, x, n) PROVE ManualInv'
    <3>1. Good(LevelReduceInternal(ct[x], n)) /\ Good(ct[x])
      BY <2>2, ReduceManualGood DEF Good, Levels
    <3> QED BY <2>4, <3>1, ReturnManual DEF LevelReduce
  <2> QED BY <2>1, <2>3, <2>4
<1>8. CASE CompressStep
  <2>1. PICK d \in Slots, x \in Slots, m \in 1 .. SizeQ : Compress(d, x, m)
    BY <1>8 DEF CompressStep
  <2>2. Good(Compressed(ct[x], m))
    BY Constants, CompressManual DEF ManualInv
  <2> QED BY <2>1, <2>2, ReturnManual DEF Compress, IsCKKSManual
<1>9. CASE UNCHANGED vars
  BY <1>9 DEF vars, ManualInv, Booked
<1> QED BY <1>1, <1>3, <1>4, <1>5, <1>6, <1>7, <1>8, <1>9 DEF Next

LEMMA ManualAlways == ASSUME IsCKKSManual PROVE Spec => []ManualInv
<1>1. Init => ManualInv
  BY ManualStart
<1>2. ManualInv /\ [Next]_vars => ManualInv'
  BY ManualStep
<1> QED BY <1>1, <1>2, PTL DEF Spec

\* What the invariant says of the objects.
LEMMA ManualBooks ==
  ASSUME IsCKKSManual, ManualInv
  PROVE  /\ TypeOK /\ ScaleIsDeclared /\ ScaleIsCanonical
         /\ TowersMatchLevel /\ AdditionIsTotal
<1>1. TypeOK /\ ScaleIsDeclared /\ ScaleIsCanonical
  BY DEF ManualInv, Booked, TypeOK, ScaleIsDeclared, ScaleIsCanonical, EncodingFactor,
         GetScalingFactorReal, IsCKKSManual
<1>2. TowersMatchLevel
  BY DEF ManualInv, Booked, TowersMatchLevel
<1>3. AdditionIsTotal
  BY BinaryManual DEF ManualInv, Booked, AdditionIsTotal
<1> QED BY <1>1, <1>2, <1>3

-----------------------------------------------------------------------------
(* The theorems *)

(***************************************************************************)
(* However the program orders its rescalings, an object's factor is the    *)
(* nominal one to the power of its depth: what EvalAdd of a constant       *)
(* assumes, and Decode divides by.  ModReduceInternal takes one power off  *)
(* and one depth, and a product adds both.                                 *)
(***************************************************************************)
THEOREM ManualBookkeeping ==
  ASSUME IsCKKSManual
  PROVE  Spec => [](TypeOK /\ ScaleIsDeclared /\ ScaleIsCanonical)
BY ManualBooks, ManualAlways, PTL

\* A level is a dropped tower, though three operations drop them and each counts for itself.
THEOREM ManualLevelsAreDrops ==
  ASSUME IsCKKSManual
  PROVE  Spec => []TowersMatchLevel
BY ManualBooks, ManualAlways, PTL

(***************************************************************************)
(* Any two objects can be added, those without a tower left included:      *)
(* AdjustLevels never asks for more towers than there are, and leaves the  *)
(* operands the equal numbers that the addition does not check.            *)
(***************************************************************************)
THEOREM ManualSumsSucceed ==
  ASSUME IsCKKSManual
  PROVE  Spec => []AdditionIsTotal
BY ManualBooks, ManualAlways, PTL

-----------------------------------------------------------------------------
(***************************************************************************)
(* BGV with rescaling done by the library.  Every object keeps a tower:    *)
(* rescaling the only one does not end, and returns nothing.               *)
(***************************************************************************)
IsBGVFlexible == Scheme = "BGV" /\ Technique = "FLEXIBLEAUTO"

\* An object whose level counts its dropped towers; nothing is said of its depth.
Leveled(c) ==
  /\ c \in Ciphertext
  /\ c.err = "none"
  /\ c.level \in 0 .. SizeQ - 1
  /\ c.towers = SizeQ - c.level

\* One object's share of the invariant, and the result of an operation.
BGVSound(c) == Leveled(c) /\ c.depth \in 1 .. 2

BGVGood(r) == BGVSound(r) \/ r.err \in {"thrown", "overrun"}

BGVInv ==
  /\ ct \in [Slots -> Ciphertext]
  /\ outcome \in Errors
  /\ \A s \in Slots : BGVSound(ct[s])

LEMMA LeveledFields ==
  ASSUME NEW c, Leveled(c)
  PROVE  /\ SizeQ \in Nat /\ SizeQ > 0
         /\ c.level \in Nat /\ c.level < SizeQ /\ c.towers \in Nat /\ c.towers = SizeQ - c.level
         /\ c.depth \in Int /\ c.sf \in Int /\ c.scale \in Int /\ c.mixed \in BOOLEAN
BY SizeQAssumption DEF Leveled, Ciphertext

\* A multiplication by one counts a depth and nothing else.
LEMMA BGVMultiply ==
  ASSUME NEW c, Leveled(c)
  PROVE  LET r == BGVEvalMultCore(c)
         IN  Leveled(r) /\ r.level = c.level /\ r.depth = c.depth + 1
<1> DEFINE r == BGVEvalMultCore(c)
<1>1. r = [c EXCEPT !.depth = @ + 1] BY DEF BGVEvalMultCore, Leveled
<1>2. c.depth + 1 \in Int BY LeveledFields
<1> QED BY <1>1, <1>2 DEF Leveled, Ciphertext

\* Rescaling takes any tower but the only one.
LEMMA BGVRescale ==
  ASSUME NEW c, Leveled(c), c.level + 1 < SizeQ
  PROVE  LET r == BGVModReduceInternal(c)
         IN  Leveled(r) /\ r.level = c.level + 1 /\ r.depth = c.depth - 1
<1> DEFINE r == BGVModReduceInternal(c)
<1>1. ~(c.towers < 2) BY LeveledFields
<1>2. r = [c EXCEPT !.towers = @ - 1, !.level = @ + 1, !.depth = @ - 1]
  BY <1>1 DEF BGVModReduceInternal, Leveled
<1>3. /\ c.towers - 1 \in 0 .. SizeQ /\ c.level + 1 \in Nat /\ c.level + 1 \in 0 .. SizeQ - 1
      /\ c.depth - 1 \in Int /\ c.towers - 1 = SizeQ - (c.level + 1)
  BY LeveledFields
<1> QED BY <1>2, <1>3 DEF Leveled, Ciphertext

LEMMA BGVReduce ==
  ASSUME NEW c, Leveled(c), NEW k \in Nat, c.level + k < SizeQ
  PROVE  LET r == LevelReduceInternal(c, k)
         IN  Leveled(r) /\ r.level = c.level + k /\ r.depth = c.depth
<1> DEFINE r == LevelReduceInternal(c, k)
<1>1. /\ c.towers - k \in 0 .. SizeQ /\ c.level + k \in Nat /\ c.level + k \in 0 .. SizeQ - 1
      /\ c.towers - k = SizeQ - (c.level + k) /\ ~(k > c.towers)
  BY LeveledFields
<1>2. r = [c EXCEPT !.towers = @ - k, !.level = @ + k]
  BY <1>1 DEF LevelReduceInternal, Leveled
<1> QED BY <1>1, <1>2 DEF Leveled, Ciphertext

(***************************************************************************)
(* Either branch of the alignment raises an object to the level and depth  *)
(* of the other one; only the second branch, for equal depths of 2, throws.*)
(***************************************************************************)
LEMMA BGVRaiseAgrees ==
  ASSUME NEW c, NEW d, BGVSound(c), BGVSound(d), IsBGVFlexible, c.level < d.level,
         NEW second \in BOOLEAN
  PROVE  LET r == BGVRaise(c, d, second)
         IN  \/ second /\ r.err = "thrown"
             \/ BGVSound(r) /\ r.level = d.level /\ r.depth = d.depth
<1> DEFINE r == BGVRaise(c, d, second)
           gap == d.level - c.level
<1>1. /\ Leveled(c) /\ Leveled(d) /\ c.depth \in 1 .. 2 /\ d.depth \in 1 .. 2
      /\ c.level \in Nat /\ d.level \in Nat /\ d.level < SizeQ /\ c.level + 1 < SizeQ
      /\ gap \in Nat /\ gap >= 1 /\ SizeQ \in Nat
  BY LeveledFields DEF BGVSound
<1>2. BGVHasBigTable(Technique) BY DEF BGVHasBigTable, IsBGVFlexible
<1>3. \A x : Leveled(x) /\ x.level = d.level /\ x.depth = d.depth /\ r = x
             => BGVSound(r) /\ r.level = d.level /\ r.depth = d.depth
  BY <1>1 DEF BGVSound
<1>4. CASE c.depth = 2 /\ d.depth = 2
  <2>1. CASE second
    <3>1. r = Failed(c, "thrown") BY <1>4, <2>1 DEF BGVRaise
    <3> QED BY <1>1, <2>1, <3>1 DEF Failed, Leveled, Ciphertext
  <2>2. CASE ~second
    <3> DEFINE a == BGVEvalMultCore(c)
               b == BGVModReduceInternal(a)
               e == LevelReduceInternal(b, gap - 1)
    <3>1. r = e BY <1>4, <2>2 DEF BGVRaise
    <3>2. Leveled(a) /\ a.level = c.level /\ a.depth = 3 BY <1>1, <1>4, BGVMultiply
    <3>3. Leveled(b) /\ b.level = c.level + 1 /\ b.depth = 2 BY <1>1, <3>2, BGVRescale
    <3>4. gap - 1 \in Nat /\ b.level + (gap - 1) = d.level BY <1>1, <3>3
    <3>5. Leveled(e) /\ e.level = d.level /\ e.depth = 2 BY <1>1, <3>3, <3>4, BGVReduce
    <3> QED BY <1>3, <1>4, <3>1, <3>5
  <2> QED BY <2>1, <2>2
<1>5. CASE c.depth = 2 /\ d.depth # 2 /\ gap = 1
  <2> DEFINE b == BGVModReduceInternal(c)
  <2>1. r = b BY <1>5 DEF BGVRaise
  <2>2. Leveled(b) /\ b.level = c.level + 1 /\ b.depth = 1 BY <1>1, <1>5, BGVRescale
  <2>3. d.level = c.level + 1 /\ d.depth = 1 BY <1>1, <1>5
  <2> QED BY <1>3, <2>1, <2>2, <2>3
<1>6. CASE c.depth = 2 /\ d.depth # 2 /\ gap > 1
  <2> DEFINE a == BGVEvalMultCore(c)
             b == BGVModReduceInternal(a)
             e == LevelReduceInternal(b, gap - 2)
             f == BGVModReduceInternal(e)
  <2>1. r = f BY <1>2, <1>6 DEF BGVRaise
  <2>2. Leveled(a) /\ a.level = c.level /\ a.depth = 3 BY <1>1, <1>6, BGVMultiply
  <2>3. Leveled(b) /\ b.level = c.level + 1 /\ b.depth = 2 BY <1>1, <2>2, BGVRescale
  <2>4. gap - 2 \in Nat /\ b.level + (gap - 2) = d.level - 1 BY <1>1, <1>6, <2>3
  <2>5. Leveled(e) /\ e.level = d.level - 1 /\ e.depth = 2 BY <1>1, <2>3, <2>4, BGVReduce
  <2>6. Leveled(f) /\ f.level = d.level /\ f.depth = 1 BY <1>1, <2>5, BGVRescale
  <2> QED BY <1>1, <1>3, <1>6, <2>1, <2>6
<1>7. CASE c.depth # 2 /\ d.depth = 2
  <2> DEFINE a == BGVEvalMultCore(c)
             e == LevelReduceInternal(a, gap)
  <2>1. r = e BY <1>7 DEF BGVRaise
  <2>2. Leveled(a) /\ a.level = c.level /\ a.depth = 2 BY <1>1, <1>7, BGVMultiply
  <2>3. a.level + gap = d.level BY <1>1, <2>2
  <2>4. Leveled(e) /\ e.level = d.level /\ e.depth = 2 BY <1>1, <2>2, <2>3, BGVReduce
  <2> QED BY <1>3, <1>7, <2>1, <2>4
<1>8. CASE c.depth # 2 /\ d.depth # 2
  <2> DEFINE a == BGVEvalMultCore(c)
             e == LevelReduceInternal(a, gap - 1)
             f == BGVModReduceInternal(e)
  <2>1. r = f BY <1>2, <1>8 DEF BGVRaise, BGVDrop
  <2>2. Leveled(a) /\ a.level = c.level /\ a.depth = 2 BY <1>1, <1>8, BGVMultiply
  <2>3. gap - 1 \in Nat /\ a.level + (gap - 1) = d.level - 1 BY <1>1, <2>2
  <2>4. Leveled(e) /\ e.level = d.level - 1 /\ e.depth = 2 BY <1>1, <2>2, <2>3, BGVReduce
  <2>5. Leveled(f) /\ f.level = d.level /\ f.depth = 1 BY <1>1, <2>4, BGVRescale
  <2> QED BY <1>1, <1>3, <1>8, <2>1, <2>5
<1>9. gap = 1 \/ gap > 1 BY <1>1
<1> QED BY <1>4, <1>5, <1>6, <1>7, <1>8, <1>9

\* The alignment: the operands agree, or the second one could not be raised.
LEMMA BGVAdjustAgrees ==
  ASSUME NEW c1, NEW c2, BGVSound(c1), BGVSound(c2), IsBGVFlexible
  PROVE  \E a, b : /\ BGVAdjustLevelsAndDepth(c1, c2) = <<a, b>>
                  /\ BGVSound(a)
                  /\ \/ b.err = "thrown"
                     \/ /\ BGVSound(b) /\ a.level = b.level /\ a.depth = b.depth
                        /\ a.level = IF c1.level > c2.level THEN c1.level ELSE c2.level
<1> DEFINE p == BGVAdjustLevelsAndDepth(c1, c2)
<1>1. /\ Leveled(c1) /\ Leveled(c2) /\ c1.level \in Nat /\ c2.level \in Nat
      /\ c1.depth \in 1 .. 2 /\ c2.depth \in 1 .. 2
  BY LeveledFields DEF BGVSound
<1>2. CASE c1.level < c2.level
  <2> DEFINE r == BGVRaise(c1, c2, FALSE)
  <2>1. p = <<r, c2>>
    <3>1. ~(c1.level > c2.level) /\ c1.level # c2.level BY <1>1, <1>2
    <3> QED BY <1>2, <3>1, Zenon DEF BGVAdjustLevelsAndDepth
  <2>2. BGVSound(r) /\ r.level = c2.level /\ r.depth = c2.depth BY <1>2, BGVRaiseAgrees
  <2> HIDE DEF r
  <2> QED BY <1>1, <1>2, <2>1, <2>2
<1>3. CASE c1.level > c2.level
  <2> DEFINE r == BGVRaise(c2, c1, TRUE)
  <2>1. p = <<c1, r>>
    <3>1. ~(c1.level < c2.level) /\ c1.level # c2.level BY <1>1, <1>3
    <3> QED BY <1>3, <3>1, Zenon DEF BGVAdjustLevelsAndDepth
  <2>2. r.err = "thrown" \/ (BGVSound(r) /\ r.level = c1.level /\ r.depth = c1.depth)
    BY <1>1, <1>3, BGVRaiseAgrees
  <2> HIDE DEF r
  <2> QED BY <1>1, <1>3, <2>1, <2>2
<1>4. CASE c1.level = c2.level /\ c1.depth < c2.depth
  <2> DEFINE r == [c1 EXCEPT !.depth = 2]
  <2>1. p = <<r, c2>>
    <3>1. ~(c1.level < c2.level) /\ ~(c1.level > c2.level) /\ ~(c1.depth > c2.depth)
      BY <1>1, <1>4
    <3> QED BY <1>4, <3>1, Zenon DEF BGVAdjustLevelsAndDepth
  <2>2. BGVSound(r) /\ r.level = c2.level /\ r.depth = 2
    BY <1>1, <1>4 DEF BGVSound, Leveled, Ciphertext
  <2>3. c2.depth = 2 BY <1>1, <1>4
  <2> HIDE DEF r
  <2> QED BY <1>1, <1>4, <2>1, <2>2, <2>3
<1>5. CASE c1.level = c2.level /\ c1.depth > c2.depth
  <2> DEFINE r == [c2 EXCEPT !.depth = 2]
  <2>1. p = <<c1, r>>
    <3>1. ~(c1.level < c2.level) /\ ~(c1.level > c2.level) /\ ~(c1.depth < c2.depth)
      BY <1>1, <1>5
    <3> QED BY <1>5, <3>1, Zenon DEF BGVAdjustLevelsAndDepth
  <2>2. BGVSound(r) /\ r.level = c1.level /\ r.depth = 2
    BY <1>1, <1>5 DEF BGVSound, Leveled, Ciphertext
  <2>3. c1.depth = 2 BY <1>1, <1>5
  <2> HIDE DEF r
  <2> QED BY <1>1, <1>5, <2>1, <2>2, <2>3
<1>6. CASE c1.level = c2.level /\ c1.depth = c2.depth
  <2>1. p = <<c1, c2>> BY <1>1, <1>6 DEF BGVAdjustLevelsAndDepth
  <2> QED BY <1>1, <1>6, <2>1
<1> QED BY <1>1, <1>2, <1>3, <1>4, <1>5, <1>6

\* Rescaling an object of depth 2, or what could not be aligned.
LEMMA BGVRescaleToOne ==
  ASSUME NEW c, (BGVSound(c) /\ c.depth = 2) \/ c.err = "thrown"
  PROVE  LET r == BGVModReduceInternal(c)
         IN  \/ BGVSound(r) /\ r.depth = 1
             \/ r.err \in {"thrown", "overrun"}
<1>1. CASE c.err = "thrown" BY <1>1 DEF BGVModReduceInternal
<1>2. CASE BGVSound(c) /\ c.depth = 2 /\ c.level + 1 < SizeQ
  BY <1>2, BGVRescale DEF BGVSound
<1>3. CASE BGVSound(c) /\ c.depth = 2 /\ ~(c.level + 1 < SizeQ)
  <2>1. c.towers < 2 BY <1>3, LeveledFields DEF BGVSound
  <2> QED BY <1>3, <2>1 DEF BGVModReduceInternal, Failed, BGVSound, Leveled, Ciphertext
<1> QED BY <1>1, <1>2, <1>3

\* A sum of aligned operands.
LEMMA BGVSumIsGood ==
  ASSUME NEW c1, NEW c2, BGVSound(c1), c2.err = "thrown" \/ (BGVSound(c2) /\ c1.level = c2.level)
  PROVE  /\ BGVGood(EvalAddCore(c1, c2))
         /\ EvalAddCore(c1, c2).err = "none" => BGVSound(c2)
<1>0. c1.err = "none" BY DEF BGVSound, Leveled
<1>1. CASE c2.err = "thrown"
  <2>1. EvalAddCore(c1, c2) = Failed(c1, "thrown") BY <1>0, <1>1 DEF EvalAddCore
  <2>2. Failed(c1, "thrown").err = "thrown" BY DEF Failed, BGVSound, Leveled, Ciphertext
  <2> QED BY <2>1, <2>2 DEF BGVGood
<1>2. CASE BGVSound(c2) /\ c1.level = c2.level
  <2> DEFINE r == [c1 EXCEPT !.mixed = @ \/ c2.mixed \/ c1.scale # c2.scale]
  <2>1. c1.towers = c2.towers /\ c1.towers \in Nat /\ c2.err = "none"
    BY <1>2, LeveledFields DEF BGVSound, Leveled
  <2>2. EvalAddCore(c1, c2) = r BY <1>0, <2>1 DEF EvalAddCore
  <2>3. (c1.mixed \/ c2.mixed \/ c1.scale # c2.scale) \in BOOLEAN OBVIOUS
  <2>4. BGVSound(r) BY <2>3 DEF BGVSound, Leveled, Ciphertext
  <2> HIDE DEF r
  <2> QED BY <1>2, <2>2, <2>4 DEF BGVGood
<1> QED BY <1>1, <1>2

\* A product of rescaled operands.
LEMMA BGVProductIsGood ==
  ASSUME NEW c1, NEW c2,
         (BGVSound(c1) /\ c1.depth = 1) \/ c1.err \in {"thrown", "overrun"},
         (BGVSound(c2) /\ c2.depth = 1) \/ c2.err \in {"thrown", "overrun"}
  PROVE  /\ BGVGood(EvalMultCore(c1, c2))
         /\ EvalMultCore(c1, c2).err = "none" => BGVSound(c1) /\ BGVSound(c2)
<1>1. CASE c1.err \in {"thrown", "overrun"}
  BY <1>1 DEF EvalMultCore, BGVGood
<1>2. CASE BGVSound(c1) /\ c1.depth = 1 /\ c2.err \in {"thrown", "overrun"}
  <2>1. c1.err = "none" BY <1>2 DEF BGVSound, Leveled
  <2>2. EvalMultCore(c1, c2) = Failed(c1, c2.err) BY <1>2, <2>1 DEF EvalMultCore
  <2>3. Failed(c1, c2.err).err = c2.err BY <1>2 DEF Failed, BGVSound, Leveled, Ciphertext
  <2> QED BY <1>2, <2>2, <2>3 DEF BGVGood
<1>3. CASE BGVSound(c1) /\ c1.depth = 1 /\ BGVSound(c2) /\ c2.depth = 1
  <2>1. c1.err = "none" /\ c2.err = "none" BY <1>3 DEF BGVSound, Leveled
  <2>2. CASE c1.towers # c2.towers
    <3>1. EvalMultCore(c1, c2) = Failed(c1, "thrown") BY <2>1, <2>2 DEF EvalMultCore
    <3>2. Failed(c1, "thrown").err = "thrown" BY <1>3 DEF Failed, BGVSound, Leveled, Ciphertext
    <3> QED BY <3>1, <3>2 DEF BGVGood
  <2>3. CASE c1.towers = c2.towers
    <3> DEFINE r == [c1 EXCEPT !.depth = @ + c2.depth, !.sf = @ + c2.sf,
                               !.scale = @ + c2.scale, !.mixed = @ \/ c2.mixed]
    <3>1. EvalMultCore(c1, c2) = r BY <2>1, <2>3 DEF EvalMultCore
    <3>2. /\ c1.depth + c2.depth = 2 /\ c1.depth + c2.depth \in Int /\ c1.sf + c2.sf \in Int /\ c1.scale + c2.scale \in Int
          /\ (c1.mixed \/ c2.mixed) \in BOOLEAN
      BY <1>3, LeveledFields DEF BGVSound
    <3>3. r \in Ciphertext
      <4>1. c1 \in Ciphertext BY <1>3 DEF BGVSound, Leveled
      <4> QED BY <3>2, <4>1 DEF Ciphertext
    <3>4. r.towers = c1.towers /\ r.level = c1.level /\ r.err = c1.err /\ r.depth = 2
      BY <1>3, <3>2 DEF BGVSound, Leveled, Ciphertext
    <3> HIDE DEF r
    <3>5. BGVSound(r) BY <1>3, <3>3, <3>4 DEF BGVSound, Leveled
    <3> QED BY <1>3, <3>1, <3>5 DEF BGVGood
  <2> QED BY <2>2, <2>3
<1> QED BY <1>1, <1>2, <1>3

\* Alignment and operation together, and the operands that the operation leaves.
LEMMA BGVBinary ==
  ASSUME NEW c1, NEW c2, BGVSound(c1), BGVSound(c2), IsBGVFlexible
  PROVE  /\ LET p == AlignedForAdd(c1, c2)
            IN  BGVGood(Sum(p)) /\ (Sum(p).err = "none" => BGVSound(p[1]) /\ BGVSound(p[2]))
         /\ LET p == AlignedForMult(c1, c2)
            IN  BGVGood(Product(p)) /\ (Product(p).err = "none" => BGVSound(p[1]) /\ BGVSound(p[2]))
<1>1. PICK a, b : /\ BGVAdjustLevelsAndDepth(c1, c2) = <<a, b>>
                  /\ BGVSound(a)
                  /\ \/ b.err = "thrown"
                     \/ /\ BGVSound(b) /\ a.level = b.level /\ a.depth = b.depth
                        /\ a.level = IF c1.level > c2.level THEN c1.level ELSE c2.level
  BY BGVAdjustAgrees
<1>2. AlignedForAdd(c1, c2) = <<a, b>>
  BY <1>1 DEF AlignedForAdd, AdjustLevelsAndDepth, IsBGVFlexible
<1>3. AlignedForMult(c1, c2) =
        IF a.depth = 2 THEN <<BGVModReduceInternal(a), BGVModReduceInternal(b)>> ELSE <<a, b>>
  BY <1>1 DEF AlignedForMult, AdjustLevelsAndDepthToOne, AdjustLevelsAndDepth,
              ModReduceInternal, IsBGVFlexible
<1>4. /\ BGVGood(Sum(<<a, b>>))
      /\ Sum(<<a, b>>).err = "none" => BGVSound(a) /\ BGVSound(b)
  <2>1. b.err = "thrown" \/ (BGVSound(b) /\ a.level = b.level) BY <1>1
  <2>2. BGVGood(EvalAddCore(a, b)) /\ (EvalAddCore(a, b).err = "none" => BGVSound(b))
    BY <1>1, <2>1, BGVSumIsGood
  <2>3. Sum(<<a, b>>) = EvalAddCore(a, b) BY DEF Sum
  <2> QED BY <1>1, <2>2, <2>3
<1>5. CASE a.depth = 2
  <2> DEFINE x == BGVModReduceInternal(a)
             y == BGVModReduceInternal(b)
  <2>1. /\ (BGVSound(x) /\ x.depth = 1) \/ x.err \in {"thrown", "overrun"}
        /\ (BGVSound(y) /\ y.depth = 1) \/ y.err \in {"thrown", "overrun"}
    BY <1>1, <1>5, BGVRescaleToOne
  <2>2. AlignedForMult(c1, c2) = <<x, y>> BY <1>3, <1>5
  <2> HIDE DEF x, y
  <2>3. /\ BGVGood(Product(<<x, y>>))
        /\ Product(<<x, y>>).err = "none" => BGVSound(x) /\ BGVSound(y)
    BY <2>1, BGVProductIsGood DEF Product
  <2> QED BY <1>2, <1>4, <2>2, <2>3
<1>6. CASE a.depth # 2
  <2>1. BGVSound(a) /\ a.depth = 1 BY <1>1, <1>6 DEF BGVSound
  <2>2. (BGVSound(b) /\ b.depth = 1) \/ b.err \in {"thrown", "overrun"} BY <1>1, <2>1
  <2>3. /\ BGVGood(Product(<<a, b>>))
        /\ Product(<<a, b>>).err = "none" => BGVSound(a) /\ BGVSound(b)
    BY <2>1, <2>2, BGVProductIsGood DEF Product
  <2> QED BY <1>2, <1>3, <1>4, <1>6, <2>3
<1> QED BY <1>5, <1>6

LEMMA SettleBGV ==
  ASSUME BGVInv, NEW r, NEW objects, BGVGood(r), Settle(r, objects),
         r.err = "none" => objects \in [Slots -> Ciphertext] /\ \A s \in Slots : BGVSound(objects[s])
  PROVE  BGVInv'
<1>1. r.err \in Errors BY DEF BGVGood, BGVSound, Leveled, Errors
<1> QED BY <1>1 DEF Settle, BGVInv, BGVSound, Leveled

LEMMA ReturnBGV ==
  ASSUME BGVInv, NEW d \in Slots, NEW r, BGVGood(r), Return(d, r)
  PROVE  BGVInv'
<1> DEFINE objects == [ct EXCEPT ![d] = r]
<1>1. ASSUME r.err = "none"
      PROVE  objects \in [Slots -> Ciphertext] /\ \A s \in Slots : BGVSound(objects[s])
  BY <1>1 DEF BGVGood, BGVInv, BGVSound, Leveled
<1>2. Settle(r, objects) BY DEF Return
<1> HIDE DEF objects
<1> QED BY <1>1, <1>2, SettleBGV

\* A mutable operation, which leaves its aligned operands behind.
LEMMA SettlePairBGV ==
  ASSUME BGVInv, NEW d \in Slots, NEW x \in Slots, NEW y \in Slots, NEW p, NEW r, BGVGood(r),
         r.err = "none" => BGVSound(p[1]) /\ BGVSound(p[2]),
         Settle(r, [ct EXCEPT ![x] = p[1], ![y] = p[2], ![d] = r])
  PROVE  BGVInv'
<1> DEFINE objects == [ct EXCEPT ![x] = p[1], ![y] = p[2], ![d] = r]
<1>1. ASSUME r.err = "none"
      PROVE  objects \in [Slots -> Ciphertext] /\ \A s \in Slots : BGVSound(objects[s])
  BY <1>1 DEF BGVGood, BGVInv, BGVSound, Leveled
<1> HIDE DEF objects
<1>2. Settle(r, objects) BY DEF objects
<1> QED BY <1>1, <1>2, SettleBGV

\* What encryption stores.
LEMMA EncodedBGV ==
  ASSUME IsBGVFlexible, NEW l \in Levels, NEW k \in 1 .. 2
  PROVE  BGVSound(Encoded(l, k))
<1>1. EncodingFactor(l) = 0 /\ k * 0 = 0 BY DEF EncodingFactor, IsBGVFlexible
<1>2. SizeQ - l \in 0 .. SizeQ /\ l \in Nat /\ l \in 0 .. SizeQ - 1 /\ l \in 0 .. SizeQ
  BY SizeQAssumption DEF Levels
<1> QED BY <1>1, <1>2 DEF Encoded, BGVSound, Leveled, Ciphertext, Errors

LEMMA BGVStart == IsBGVFlexible /\ Init => BGVInv
<1> SUFFICES ASSUME IsBGVFlexible, Init PROVE BGVInv
  OBVIOUS
<1>1. 0 \in Levels BY SizeQAssumption DEF Levels
<1>2. BGVSound(Encoded(0, 1)) BY <1>1, EncodedBGV
<1> QED BY <1>2 DEF Init, BGVInv, BGVSound, Leveled, Errors

LEMMA BGVStep ==
  ASSUME IsBGVFlexible, BGVInv, [CoreNext]_vars
  PROVE  BGVInv'
<1>1. \A s \in Slots : BGVSound(ct[s]) BY DEF BGVInv
<1>2. Technique # "FIXEDMANUAL" /\ Scheme # "CKKS" BY DEF IsBGVFlexible
<1>3. CASE EncryptStep
  <2>1. PICK d \in Slots, p \in Plaintexts(1 .. 2) : Encrypt(d, p) BY <1>3 DEF EncryptStep
  <2>2. BGVGood(p) BY EncodedBGV DEF Plaintexts, BGVGood
  <2> QED BY <2>1, <2>2, ReturnBGV DEF Encrypt
<1>4. CASE CiphertextStep
  <2>1. PICK d \in Slots, x \in Slots, y \in Slots :
          EvalAdd(d, x, y) \/ EvalMult(d, x, y) \/ EvalAddMutable(d, x, y)
    BY <1>4 DEF CiphertextStep
  <2> DEFINE p == AlignedForAdd(ct[x], ct[y])
  <2>2. /\ BGVGood(Sum(p)) /\ (Sum(p).err = "none" => BGVSound(p[1]) /\ BGVSound(p[2]))
        /\ BGVGood(Product(AlignedForMult(ct[x], ct[y])))
    BY <1>1, BGVBinary
  <2>3. CASE EvalAdd(d, x, y) BY <2>2, <2>3, ReturnBGV DEF EvalAdd
  <2>4. CASE EvalMult(d, x, y) BY <2>2, <2>4, ReturnBGV DEF EvalMult
  <2>5. CASE EvalAddMutable(d, x, y)
    <3>1. Settle(Sum(p), [ct EXCEPT ![x] = p[1], ![y] = p[2], ![d] = Sum(p)])
      BY <1>2, <2>5 DEF EvalAddMutable
    <3> QED BY <2>2, <3>1, SettlePairBGV
  <2> QED BY <2>1, <2>3, <2>4, <2>5
<1>5. CASE MultMutableStep(FALSE)
  <2>1. PICK d \in Slots, x \in Slots, y \in Slots : x # y /\ EvalMultMutable(d, x, y)
    BY <1>5 DEF MultMutableStep
  <2> DEFINE p == AlignedForMult(ct[x], ct[y])
  <2>2. BGVGood(Product(p)) /\ (Product(p).err = "none" => BGVSound(p[1]) /\ BGVSound(p[2]))
    BY <1>1, BGVBinary
  <2>3. Settle(Product(p), [ct EXCEPT ![x] = p[1], ![y] = p[2], ![d] = Product(p)])
    BY <1>2, <2>1 DEF EvalMultMutable
  <2> QED BY <2>2, <2>3, SettlePairBGV
<1>6. CASE ConstantStep
  <2>1. PICK d \in Slots, x \in Slots : EvalAddConst(d, x) \/ EvalMultConst(d, x)
    BY <1>6 DEF ConstantStep
  <2>2. BGVGood(Failed(ct[x], "thrown"))
    BY <1>1 DEF Failed, BGVGood, BGVSound, Leveled, Ciphertext
  <2> QED BY <1>2, <2>1, <2>2, ReturnBGV DEF EvalAddConst, EvalMultConst
<1>7. CASE LevelStep
  <2>1. PICK d \in Slots, x \in Slots : Return(d, ct[x])
    BY <1>2, <1>7 DEF LevelStep, ModReduce, LevelReduce
  <2>2. BGVGood(ct[x]) BY <1>1 DEF BGVGood
  <2> QED BY <2>1, <2>2, ReturnBGV
<1>8. CASE UNCHANGED vars BY <1>8 DEF vars, BGVInv, BGVSound, Leveled
<1> QED BY <1>3, <1>4, <1>5, <1>6, <1>7, <1>8 DEF CoreNext

\* What the invariant says of the objects, and of the alignment of any two.
LEMMA BGVBooks ==
  ASSUME IsBGVFlexible, BGVInv
  PROVE  TypeOK /\ DepthIsOneOrTwo /\ TowersMatchLevel /\ SomeTowerRemains /\ AlignmentAgrees
<1>1. TypeOK /\ DepthIsOneOrTwo /\ TowersMatchLevel /\ SomeTowerRemains
  <2>1. \A s \in Slots : /\ ct[s] \in Ciphertext /\ ct[s].err = "none"
                         /\ ct[s].depth \in 1 .. 2 /\ ct[s].towers + ct[s].level = SizeQ
                         /\ ct[s].towers > 0
    BY LeveledFields DEF BGVInv, BGVSound, Leveled
  <2> QED BY <2>1 DEF BGVInv, TypeOK, DepthIsOneOrTwo, TowersMatchLevel, SomeTowerRemains
<1>2. AlignmentAgrees
  <2> SUFFICES ASSUME NEW x \in Slots, NEW y \in Slots
               PROVE  LET p == AdjustLevelsAndDepth(ct[x], ct[y])
                      IN  p[1].err = "none" /\ p[2].err = "none" =>
                            /\ p[1].level = p[2].level
                            /\ p[1].towers = p[2].towers
                            /\ p[1].depth = p[2].depth
                            /\ p[1].level = IF ct[x].level > ct[y].level THEN ct[x].level
                                            ELSE ct[y].level
    BY DEF AlignmentAgrees
  <2>1. BGVSound(ct[x]) /\ BGVSound(ct[y]) BY DEF BGVInv
  <2>2. PICK a, b : /\ BGVAdjustLevelsAndDepth(ct[x], ct[y]) = <<a, b>>
                    /\ BGVSound(a)
                    /\ \/ b.err = "thrown"
                       \/ /\ BGVSound(b) /\ a.level = b.level /\ a.depth = b.depth
                          /\ a.level = IF ct[x].level > ct[y].level THEN ct[x].level
                                       ELSE ct[y].level
    BY <2>1, BGVAdjustAgrees
  <2>3. AdjustLevelsAndDepth(ct[x], ct[y]) = <<a, b>>
    BY <2>2 DEF AdjustLevelsAndDepth, IsBGVFlexible
  <2> QED BY <2>2, <2>3 DEF BGVSound, Leveled
<1> QED BY <1>1, <1>2

(***************************************************************************)
(* Whatever BGV's two unequal branches of the alignment do: depths stay 1  *)
(* or 2, levels count dropped towers, no object loses its only tower, and  *)
(* an alignment that ends normally gives both operands one level, the      *)
(* higher of the two, one depth and equal towers.                          *)
(***************************************************************************)
THEOREM BGVOperandsAgree ==
  ASSUME IsBGVFlexible
  PROVE  CoreSpec => [](TypeOK /\ DepthIsOneOrTwo /\ TowersMatchLevel /\ SomeTowerRemains
                      /\ AlignmentAgrees)
<1>1. Init => BGVInv BY BGVStart
<1>2. BGVInv /\ [CoreNext]_vars => BGVInv' BY BGVStep
<1> QED BY <1>1, <1>2, BGVBooks, PTL DEF CoreSpec
=============================================================================
