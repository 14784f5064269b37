---------------------------- MODULE AdvancedSHE ----------------------------
(***************************************************************************)
(* The sums and rotations of slots that AdvancedSHEBase and LeveledSHEBase *)
(* compose of additions and automorphisms, in a ring whose cyclotomic      *)
(* order m is a power of two, and the keys that programs generate for      *)
(* them.                                                                   *)
(*                                                                         *)
(* An element is given by its values at the odd powers of a root of unity, *)
(* a function of the exponents.  Slot j is at exponent 5^j; the slots of   *)
(* BGV and BFV go on at -5^j, where CKKS has the conjugates.  A value is a *)
(* bag of the inputs that were added up in it, so that an input that is    *)
(* missing or added twice is seen.                                         *)
(***************************************************************************)
EXTENDS Integers, FiniteSets

CONSTANTS CyclotomicOrders,  \* the orders to look at: powers of two from 8 on
          MaxMany,           \* the longest vector of ciphertexts to add up
          NoCiphertext       \* a null pointer

\* 2 to the power of k.
TwoTo[k \in Nat] == IF k = 0 THEN 1 ELSE 2 * TwoTo[k - 1]

ASSUME OrdersAssumption ==
  \A order \in CyclotomicOrders :
    order \in Nat /\ order >= 8 /\ \E k \in 0 .. order : order = TwoTo[k]

\* A null pointer is no ciphertext.
ASSUME ManyAssumption ==
  MaxMany \in Nat /\ \A count \in 2 .. MaxMany : NoCiphertext \notin [0 .. count - 1 -> {0, 1}]

VARIABLES m,                  \* the cyclotomic order of the context's ring
          scheme,             \* "CKKSRNS" or another
          batchSize,          \* of the context's encoding parameters
          evalKeyMap,         \* the keys the program generated last, and by which call
          evalSumColsKeyMap,  \* those of EvalSumColsKeyGen: a set of automorphisms
          result              \* what the last call returned

context == <<m, scheme, batchSize>>
sumsVars == <<m, scheme, batchSize, evalKeyMap, evalSumColsKeyMap, result>>

Units(order) == {e \in 1 .. order - 1 : e % 2 = 1}
PowersOfTwo(bound) == {b \in 1 .. bound : \E k \in 0 .. b : b = TwoTo[k]}

\* g to the power of k, reduced after each factor.
PowerMod(g, k, order) ==
  LET power[i \in 0 .. k] == IF i = 0 THEN 1 ELSE (power[i - 1] * g) % order IN power[k]

InverseMod(g, order) == CHOOSE x \in Units(order) : (g * x) % order = 1

\* ceil(log2(b)), of a positive number.
Log2Up(b) == CHOOSE k \in 0 .. b : TwoTo[k] >= b /\ \A i \in 0 .. k - 1 : TwoTo[i] < b

\* Where the packed encodings put slot j.
SlotExponent(j) ==
  IF j < m \div 4 THEN PowerMod(5, j, m) ELSE m - PowerMod(5, j - m \div 4, m)

-----------------------------------------------------------------------------
(* The automorphisms. *)

\* That rotates by i slots; from m/4 on, the rows are swapped as well.
FindAutomorphismIndex2n(i) ==
  LET f1 == IF i < 0 THEN InverseMod(5, m) ELSE 5
      size == IF i < 0 THEN -i ELSE i
  IN  CASE i = 0 -> 1
        [] i # 0 /\ size < m \div 4 -> PowerMod(f1, size, m)
        [] i # 0 /\ size >= m \div 4 -> ((m - 1) * PowerMod(f1, size - m \div 4, m)) % m

\* The same among the slots of CKKS; m - 1 asks for the conjugation.
FindAutomorphismIndex2nComplex(i) ==
  CASE i = 0 -> 1
    [] i = m - 1 -> m - 1
    [] i \notin {0, m - 1} -> IF i < 0 THEN PowerMod(InverseMod(5, m), -i, m)
                              ELSE PowerMod(5, i, m)

FindAutomorphismIndex(i) ==
  IF scheme = "CKKSRNS" THEN FindAutomorphismIndex2nComplex(i) ELSE FindAutomorphismIndex2n(i)

\* g, its square, the square of that and so on, modulo order.
Squarings(g, count, order) == {PowerMod(g, TwoTo[j], order) : j \in 0 .. count - 1}

\* The last automorphism of EvalSum_2n: a batch of all slots has to swap the rows.
Last2n(b) == IF 2 * b < m THEN PowerMod(5, TwoTo[Log2Up(b) - 1], m) ELSE m - 1

\* Mutant: keys for the squarings alone.
GenerateIndices_2n_Squares(b) == IF b > 1 THEN Squarings(5, Log2Up(b), m) ELSE {}

GenerateIndices_2n(b) ==
  IF b > 1 THEN Squarings(5, Log2Up(b) - 1, m) \cup {Last2n(b)} ELSE {}

GenerateIndices2nComplex(b) == Squarings(5, Log2Up(b), m)

\* order is the subring's dimension, or m.
GenerateIndices2nComplexRows(rowSize, order) ==
  Squarings(PowerMod(5, rowSize, order), Log2Up(order \div (4 * rowSize)), order)

GenerateIndices2nComplexCols(b) == Squarings(InverseMod(5, m), Log2Up(b), m)

-----------------------------------------------------------------------------
(* Evaluation, of a record of the element so far and of the automorphisms  *)
(* that were applied to it.                                                *)

Added(u, v) == [i \in DOMAIN u |-> u[i] + v[i]]

\* EvalAdd of a ciphertext and its EvalAutomorphism: exponent e holds what e * k held.
AddAutomorphism(r, k) ==
  [value |-> [e \in Units(m) |-> Added(r.value[e], r.value[(e * k) % m])],
   used |-> r.used \cup {k}]

\* The loops that add the automorphism by g, by its square and so on.
Doubled(r, g, count, order) ==
  LET step[j \in 0 .. count] ==
        IF j = 0 THEN r ELSE AddAutomorphism(step[j - 1], PowerMod(g, TwoTo[j - 1], order))
  IN  step[count]

EvalSum_2n(r, b) ==
  IF b > 1 THEN AddAutomorphism(Doubled(r, 5, Log2Up(b) - 1, m), Last2n(b)) ELSE r

EvalSum2nComplex(r, b) == Doubled(r, 5, Log2Up(b), m)

EvalSum2nComplexRows(r, rowSize, order) ==
  Doubled(r, PowerMod(5, rowSize, order), Log2Up(order \div (4 * rowSize)), order)

EvalSum2nComplexCols(r, b) == Doubled(r, InverseMod(5, m), Log2Up(b), m)

\* The product with a plaintext that is 1 in the first slot of every b and 0 elsewhere.
Masked(r, b) ==
  LET first == {SlotExponent(j) : j \in {i \in 0 .. m \div 4 - 1 : i % b = 0}}
  IN  [r EXCEPT !.value = [e \in Units(m) |->
         IF {e, m - e} \cap first # {} THEN @[e] ELSE [i \in DOMAIN @[e] |-> 0]]]

\* An input that has a value of its own at every exponent modulo order.
Input(order) ==
  [value |-> [e \in Units(m) |-> [i \in Units(order) |-> IF e % order = i THEN 1 ELSE 0]],
   used |-> {}]

-----------------------------------------------------------------------------
(* Sums of many ciphertexts, numbered from 0: a value is a bag of numbers. *)

OneOf(i, count) == [j \in 0 .. count - 1 |-> IF j = i THEN 1 ELSE 0]

\* Entry i of the inputs followed by the intermediate sums, of which the last is returned.
EvalAddMany(count) ==
  LET sum[j \in 0 .. count - 2] ==
        LET Entry(i) == IF i < count THEN OneOf(i, count) ELSE sum[i - count]
        IN  Added(Entry(2 * j), Entry(2 * j + 1))
  IN  sum[count - 2]

\* Mutant: an entry that is null stays null.
EvalAddManyInPlace_NullStays(count, present) ==
  LET Merged(u, v) == IF u = NoCiphertext \/ v = NoCiphertext THEN u ELSE Added(u, v)
      vec[pass \in 0 .. Log2Up(count)] ==
        IF pass = 0
        THEN [i \in 0 .. count - 1 |-> IF i \in present THEN OneOf(i, count) ELSE NoCiphertext]
        ELSE LET j == TwoTo[pass - 1]
             IN  [i \in 0 .. count - 1 |->
                    IF i % (2 * j) = 0 /\ i + j < count
                    THEN Merged(vec[pass - 1][i], vec[pass - 1][i + j]) ELSE vec[pass - 1][i]]
  IN  vec[Log2Up(count)][0]

\* A pass adds entry i + 2^pass to entry i, for every i that is a multiple of 2^(pass + 1).
EvalAddManyInPlace(count, present) ==
  LET Merged(u, v) == IF u = NoCiphertext THEN v ELSE IF v = NoCiphertext THEN u ELSE Added(u, v)
      vec[pass \in 0 .. Log2Up(count)] ==
        IF pass = 0
        THEN [i \in 0 .. count - 1 |-> IF i \in present THEN OneOf(i, count) ELSE NoCiphertext]
        ELSE LET j == TwoTo[pass - 1]
             IN  [i \in 0 .. count - 1 |->
                    IF i % (2 * j) = 0 /\ i + j < count
                    THEN Merged(vec[pass - 1][i], vec[pass - 1][i + j]) ELSE vec[pass - 1][i]]
  IN  vec[Log2Up(count)][0]

-----------------------------------------------------------------------------
\* order is that of the subring; for a vector, the entries that are not null.
Call(op, size, order) == [op |-> op, size |-> size, order |-> order]
NoKeys == [call |-> Call("none", 0, 0), indices |-> {}]
NoResult == [call |-> Call("none", 0, 0), status |-> "none", value |-> NoCiphertext]

Slots == IF scheme = "CKKSRNS" THEN m \div 4 ELSE m \div 2
Subrings == {order \in CyclotomicOrders : order <= m}

SumsInit ==
  /\ m \in CyclotomicOrders
  /\ scheme \in {"CKKSRNS", "BGVRNS"}
  /\ batchSize \in PowersOfTwo(Slots)
  /\ evalKeyMap = NoKeys
  /\ evalSumColsKeyMap = {}
  /\ result = NoResult

NewKeys(call, indices) ==
  /\ evalKeyMap' = [call |-> call, indices |-> indices]
  /\ UNCHANGED <<context, evalSumColsKeyMap>>
  /\ result' = NoResult

EvalSumKeyGen ==
  NewKeys(Call("EvalSum", batchSize, m),
          IF scheme = "CKKSRNS" THEN GenerateIndices2nComplex(batchSize)
          ELSE GenerateIndices_2n(batchSize))

\* Rows and columns are for CKKS only.
EvalSumRowsKeyGen(rowSize, order) ==
  /\ scheme = "CKKSRNS"
  /\ NewKeys(Call("EvalSumRows", rowSize, order), GenerateIndices2nComplexRows(rowSize, order))

EvalSumColsKeyGen ==
  /\ scheme = "CKKSRNS"
  /\ evalSumColsKeyMap' = GenerateIndices2nComplexCols(batchSize)
  /\ UNCHANGED <<context, evalKeyMap>>
  /\ result' = NoResult

\* With a list of i and -i.
EvalAtIndexKeyGen(i) ==
  NewKeys(Call("EvalAtIndex", i, m), {FindAutomorphismIndex(i), FindAutomorphismIndex(-i)})

\* SchemeBase refuses an empty map among maps; later a call ends at the first automorphism
\* that has no key, where std::map::at throws.
Returns(call, value, maps, hasKeys) ==
  LET status == IF {} \in maps THEN "config_error" ELSE IF hasKeys THEN "ok" ELSE "out_of_range"
  IN  /\ result' = [call |-> call, status |-> status,
                    value |-> IF status = "ok" THEN value ELSE NoCiphertext]
      /\ UNCHANGED <<context, evalKeyMap, evalSumColsKeyMap>>

ReturnsSum(call, r) ==
  Returns(call, r.value, {evalKeyMap.indices}, r.used \subseteq evalKeyMap.indices)

EvalSum(b) ==
  ReturnsSum(Call("EvalSum", b, m),
             IF scheme = "CKKSRNS" THEN EvalSum2nComplex(Input(m), b) ELSE EvalSum_2n(Input(m), b))

\* The input is an element of the subring.
EvalSumRows(rowSize, order) ==
  /\ scheme = "CKKSRNS"
  /\ ReturnsSum(Call("EvalSumRows", rowSize, order),
                EvalSum2nComplexRows(Input(order), rowSize, order))

\* It takes two maps of keys.
EvalSumCols(b) ==
  /\ scheme = "CKKSRNS"
  /\ LET sums == EvalSum2nComplex(Input(m), b)
         cols == EvalSum2nComplexCols([Masked(sums, b) EXCEPT !.used = {}], b)
     IN  Returns(Call("EvalSumCols", b, m), cols.value, {evalKeyMap.indices, evalSumColsKeyMap},
                 sums.used \subseteq evalKeyMap.indices /\ cols.used \subseteq evalSumColsKeyMap)

\* By 0 it is a copy, made before the map is looked for.
EvalAtIndex(i) ==
  LET k == FindAutomorphismIndex(i)
  IN  Returns(Call("EvalAtIndex", i, m),
              [e \in Units(m) |-> Input(m).value[(e * k) % m]],
              IF i = 0 THEN {} ELSE {evalKeyMap.indices},
              i = 0 \/ k \in evalKeyMap.indices)

\* Two ciphertexts or more; the first is there.
AddMany ==
  \E count \in 2 .. MaxMany :
    \/ Returns(Call("EvalAddMany", count, 0), EvalAddMany(count), {}, TRUE)
    \/ \E present \in SUBSET (0 .. count - 1) :
         /\ 0 \in present
         /\ Returns(Call("EvalAddManyInPlace", count, present),
                    EvalAddManyInPlace(count, present), {}, TRUE)

\* The shifts that have a slot to come from.
Shifts == 1 - Slots .. Slots - 1

KeyGenStep ==
  \/ EvalSumKeyGen
  \/ EvalSumColsKeyGen
  \/ \E order \in Subrings : \E r \in PowersOfTwo(order \div 4) : EvalSumRowsKeyGen(r, order)
  \/ \E i \in Shifts : EvalAtIndexKeyGen(i)

CallStep ==
  \/ \E b \in PowersOfTwo(Slots) : EvalSum(b) \/ EvalSumCols(b)
  \/ \E order \in Subrings : \E r \in PowersOfTwo(order \div 4) : EvalSumRows(r, order)
  \/ \E i \in Shifts : EvalAtIndex(i)
  \/ AddMany

\* The program looks at a result before its next call.
SumsNext == KeyGenStep \/ (result = NoResult /\ CallStep)

SumsSpec == SumsInit /\ [][SumsNext]_sumsVars

-----------------------------------------------------------------------------
\* The calls that keys were made for: the sums of any smaller batch, of rows that are
\* multiples of the rows keys were made for, and the rotation both ways.
Covers(made, call) ==
  \/ made.op = "EvalSum" /\ call.op = "EvalSum" /\ call.size <= made.size
  \/ /\ made.op = "EvalSum" /\ call.op = "EvalSumCols"
     /\ call.size <= made.size /\ evalSumColsKeyMap # {}
  \/ /\ made.op = "EvalSumRows" /\ call.op = "EvalSumRows"
     /\ call.order = made.order /\ call.size % made.size = 0
  \/ made.op = "EvalAtIndex" /\ call.op = "EvalAtIndex" /\ call.size \in {made.size, -made.size}

\* A batch or a column of one slot: its sum needs no automorphism, so no key is made for it.
SumsOneSlot(made) ==
  \/ made.op = "EvalSum" /\ made.size = 1
  \/ made.op = "EvalSumRows" /\ 4 * made.size = made.order

(***************************************************************************)
(* What was generated for a call is enough for it.  The code computes the  *)
(* indices twice, once where it makes the keys and once where it uses      *)
(* them.  The exception is the call that needs no key: SchemeBase refuses  *)
(* the empty map that its own key generation made for a sum of one slot,   *)
(* and refuses nothing else.                                               *)
(***************************************************************************)
KeysSuffice ==
  Covers(evalKeyMap.call, result.call) =>
    result.status = IF SumsOneSlot(evalKeyMap.call) THEN "config_error" ELSE "ok"

\* The values at the exponents in wanted, added up once each.
Once(value, wanted) == \A i \in DOMAIN value : value[i] = (IF i \in wanted THEN 1 ELSE 0)

\* A batch: the next slots of the row, or all slots of both rows.
BatchIsSummed(call, value) ==
  call.op = "EvalSum" =>
    \A e \in Units(m) :
      Once(value[e], IF call.size <= m \div 4
                     THEN {(e * PowerMod(5, i, m)) % m : i \in 0 .. call.size - 1}
                     ELSE Units(m))

\* The slots of a matrix that are in one column, which repeats outside the subring.
RowsAreSummed(call, value) ==
  call.op = "EvalSumRows" =>
    \A e \in Units(m) :
      Once(value[e], {(e * PowerMod(5, call.size * i, call.order)) % call.order :
                        i \in 0 .. call.order \div (4 * call.size) - 1})

\* The slots of a matrix that are in one row.
ColumnsAreSummed(call, value) ==
  call.op = "EvalSumCols" =>
    \A j \in 0 .. m \div 4 - 1 :
      Once(value[SlotExponent(j)],
           {SlotExponent(call.size * (j \div call.size) + i) : i \in 0 .. call.size - 1})

\* i brings slot i to slot 0, -i takes slot 0 to slot i, and all slots of a row move alike.
SlotsRotate(call, value) ==
  call.op = "EvalAtIndex" =>
    /\ call.size >= 0 => Once(value[1], {SlotExponent(call.size)})
    /\ call.size < 0 => Once(value[SlotExponent(-call.size)], {1})
    /\ \A e \in Units(m), k \in {5, m - 1}, i \in Units(m) :
         value[(e * k) % m][(i * k) % m] = value[e][i]

\* Every ciphertext of the vector that is there, once.
ManyAreAdded(call, value) ==
  /\ call.op = "EvalAddMany" => Once(value, 0 .. call.size - 1)
  /\ call.op = "EvalAddManyInPlace" => Once(value, call.order)

(***************************************************************************)
(* What a call returns holds the slots it is documented to sum or to move, *)
(* each of them once, in every slot.                                       *)
(***************************************************************************)
SumsAreRight ==
  result.status = "ok" =>
    /\ BatchIsSummed(result.call, result.value)
    /\ RowsAreSummed(result.call, result.value)
    /\ ColumnsAreSummed(result.call, result.value)
    /\ SlotsRotate(result.call, result.value)
    /\ ManyAreAdded(result.call, result.value)
=============================================================================
