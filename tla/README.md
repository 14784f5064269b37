# Verification of the PALISADE library

TLA+ models of the library's state, books and arithmetic, the TLC runs that
check them on small instances, and TLAPS proofs of the properties that matter
most for every value of the constants. `pke`, `core` and `binfhe` stand for
`src/src/pke`, `src/src/core` and `src/src/binfhe`.

PALISADE computes on encrypted data. What unit tests reach is that one
operation on one fresh ciphertext gives the right plaintext. What they hardly
reach is the rest: the factor, level and depth a ciphertext has after fifty
operations; which key a tag finds after a restart; which list a block of memory
returns to; whether two threads read a table that a third is filling; the
residue that is not reduced, the row of a table that is used at one level only,
the quotient that is off by one in one case of a billion. The models are about
that.

## 1. Inventory

| Component | State | Operations | What must hold | Model |
|---|---|---|---|---|
| Leveled operations, RNS (`pke/lib/schemerns/rns-leveledshe.cpp`, `pke/lib/scheme/{ckksrns,bgvrns}`) | per ciphertext: towers, level, depth, factor; tables of factors | add, multiply, constants, plaintexts, rescale, level reduce, compress | recorded factor is the true one; operands agree before they are added; tables and towers are never overrun | partly |
| Context registry (`pke/lib/cryptocontextfactory.cpp`) | static vector of contexts | GetContext, ReleaseAllContexts | one object per parameter set | partly |
| Evaluation-key maps and files (`pke/lib/cryptocontext.cpp`, `cryptoobject.h`) | three static maps from key tag to keys; files | generate, insert, clear, serialize, deserialize | keys stay filed until replaced or cleared; a key belongs to a context of its parameters | partly |
| Fixed-block allocator (`core/lib/utils/blockAllocator`) | array of `Allocator`s with a free list and counters each; a header in each block | xmalloc, xfree, xrealloc, destroy | a block is in one pair of hands; its header names its list; copies fit | partly |
| Transform and encoding tables (`transformnat-impl.h`, `dftransform.cpp`, `packedencoding.cpp`) | static maps, filled on first use | precompute, transform, encode | a transform reads complete tables of its own size; nobody waits for ever | partly |
| Random engines (`distributiongenerator.h`) | one engine per thread, made on first use | GetPRNG | no thread waits for itself | partly |
| Encryption, proxy re-encryption (`base-pke.cpp`, `base-pre.cpp`) | key pairs, tags | KeyGen, Encrypt, Decrypt, ReKeyGen, ReEncrypt | what was encrypted decrypts | partly |
| Threshold and multiparty (`base-multiparty.cpp`) | shares, joint keys | joint key generation, partial decryption, fusion | the parties of a joint key together decrypt what is under it | partly |
| Key switching (`keyswitch-bv.cpp`, `keyswitch-hybrid.cpp`) | keys of digits | generation, switch | a switch keeps the phase up to its noise, at every level | partly |
| Rotations, relinearization (`base-leveledshe.cpp`) | keys by index | EvalAutomorphism, Relinearize | the key used is for the pair it is used on | partly |
| Scheme wrappers (`base-scheme.h`) | none | forward and tag | tags name the right key | partly |
| Advanced operations (`base-advancedshe.cpp`) | none | sums, rows, columns, many | the keys generated suffice wherever any are needed; each slot is summed once | partly |
| BFV (`pke/lib/scheme/bfvrns`) | none | encrypt, add, multiply (HPS, BEHZ), decrypt | what was encrypted decrypts after products and sums | partly |
| Lattice elements (`dcrtpoly.cpp`) | residues of an integer | base conversion, division by a modulus, rounding | never a wrong multiple of a modulus | partly |
| Parameter tables (`*-cryptoparameters.cpp`) | tables by level, digit and tower | PrecomputeCRTTables | the row that is read is the row that was meant | partly |
| FHEW (`binfhe`) | bootstrapping keys | gates, bootstrap | every circuit gives its truth table, within the noise bound | partly |
| Integer back ends (`ubintnat.h`, `ubintdyn.cpp`, `ubintfxd.cpp`) | limbs and the place of the highest bit | arithmetic, division, modular arithmetic | results are the numbers and residues wanted, in the representation that the next call expects | partly |
| Plaintexts and encodings | encoded data | encode, decode | | not modelled |
| Serialization framework, utilities | none | | | not modelled |

`components` in PROJECT.json says of each what is and what is not in the model.

**How they interact.** A program asks `CryptoContextFactory` for a
`CryptoContext`; all calls go through it. It checks that its arguments carry a
pointer to itself, looks up evaluation keys by the tag of the ciphertext, and
forwards to `SchemeBase`, which forwards to one class per feature and tags
results. The leveled class aligns its operands and computes on the residues
(towers) of each coefficient; relinearization and rotation end with a key
switch, which moves residues between bases. Schemes read tables that parameter
generation filled, and transforms read static tables that are filled on first
use. Objects refer to their context by `shared_ptr`; files hold a copy of it,
and reading one asks the registry for the shared object. The allocator serves
containers and is called from any thread; random engines are thread-local but
made inside the one lock that all tables share.

**What is hard.** Long sequences of legal calls (alignment branches by level
and depth; digits and tables by level); one object passed for two parameters;
pointers compared where values are meant, across files and restarts; keys that
only fit together if they share a sample; a word that is a header or a link
depending on who has the block, read without the lock; tables filled on first
use by several threads under one non-recursive lock; approximate arithmetic
whose errors must cancel. `hazards` in PROJECT.json lists each at its line, with
the properties that watch it or the reason why none does.

## 2. Modules

Names are the source's where they exist. A definition named `X_Something`
before an `X` is a mutant: a plausible bug, used by nothing but the mutation
runs that show that each property can fail. `MC*` modules give TLC its values;
`*_proofs` hold theorems.

**Books of the leveled operations.** `RNSCiphertext` has the fields of a
ciphertext that the operations read and write, and the operations the schemes
share. Factors are logarithms, so that products are sums; `SF` is the table
`m_scalingFactorsReal`, assumed to satisfy the recurrence by which
`PrecomputeCRTTables` fills it. Besides the recorded factor `sf` a record has
`scale`, the factor its message really carries: each operation changes it by
what is done to the polynomials, and `sf` by what is written to the field.
`LeveledSHECKKSRNS` and `LeveledSHEBGVRNS` are the overriding methods of the two
classes; `CKKSRaise` and `BGVRaise` are the branches of
`AdjustLevelsAndDepthInPlace`. `LeveledSHERNS` is the machine: `ct` is the
program's pool of objects, each public operation an action that writes its
result to any slot. Const operands are cloned, so only mutable overloads change
them. An exception leaves the objects alone; an index past a table ends the run
(`outcome = "overrun"`).

**Residues.** `DCRTPoly` is the arithmetic of `DCRTPolyImpl` on one coefficient:
a basis is a sequence of moduli, an element the sequence of its residues, and
each base conversion, rounding and division of `dcrtpoly.cpp` is an operator
that takes the code's tables as parameters. `BFVTables` and `HybridTables`
compute those tables from the moduli as `PrecomputeCRTTables` of the schemes do.
`BFVCoefficients` and `HybridCoefficients` are programs over them: BFV with
either method of multiplication and key switching by digits of towers or bits;
BGV and CKKS with hybrid key switching, rescaling and dropped towers in any
order. The ring has dimension 1, where it is the integers; all that the ring
product would add is more terms of the same kind. A double that counts overflows
is the exact fraction plus a slack of either sign.

**Keys and contexts.** `TagMaps` is `std::map` as a partial function, `KeyStore`
what a map of keys promises. `CryptoContextKeys` has the registry, handles,
private keys, one of the three key maps (`Kind`), files and restarts. A context
is an identity with parameters; `Compared` is the part of the parameters that
`operator==` looks at.

**Keys and what they decrypt.** `RLWEFormulas` assumes a commutative ring with
automorphisms, nothing more, and writes the formulas of the classes under
`SchemeBase` over it; `SchemeBase` is the machine of key pairs, joint
keys, evaluation keys, re-encryption keys and ciphertexts, with tags as the
wrappers give them; `MultipartyEvalKeys` the protocol by which two parties make
evaluation keys for a joint key. Errors are zero here (the machines on residues
have them), and key switching has one digit.

**Sums of slots.** `AdvancedSHE` computes the indices for which keys are made,
and those the evaluation looks for, on slots whose values are bags of what was
added: a slot counted twice is seen. A call given an empty map of keys is refused, as
`SchemeBase` refuses it.

**Threads.** `TransformTables` has the static tables by the size they are
complete for, the unnamed OpenMP critical section as one lock, and the engine
each thread creates inside it at its first random number. A call is: test (a transform twice), wait,
draw, fill field by field, unlock, read. `MemoryBlocks` is what a memory manager
promises; `Xallocator` the lists, one action per section of `xmalloc`, `xfree`,
`xrealloc` that another thread can separate (`xfree` reads the header before it
locks); `XallocatorSizes` the size classes on words of a given width.

**FHEW.** `LWEScheme` has ciphertexts of bits, key and modulus switching;
`RingGSWAccumulator` the test polynomial, both accumulators on the phase, and
the gates; `BinFHEContext` the machine of objects and bootstrapping keys. A gate
takes any samples. Whether they fit the moduli, which is that the errors and
roundings they bring in stay below q/32, is recorded in the ciphertext (`fits`, for
the last gate), and so is whether all samples of its circuit did (`sound`). The code knows
neither, and its parameters leave room for samples that do not fit: for STD128 (n = q =
512, ternary secrets) the rounding of the modulus switch alone has a standard
deviation of about 5.3 against q/32 = 16, three sigma, so that some 0.3 % of
bootstrappings are outside. `DecryptsToBit` is promised to sound objects only.
`NoiseIsFit` says that what returns from a gate with fitting samples has a small
error again, though an operand's was large and its bit is lost.

**Integers.** `NativeInteger` has every modular operation of `NativeIntegerT`
for any word size, with the double words under them and the three texts that
the width of the double type selects; `NativeFast` the unchecked variants.
`BigIntegerDyn` (`ubint`) and `BigIntegerFxd` (`BigIntegerFixedT`) are the big
integers limb by limb, in-place and other variants apart where their texts differ:
schoolbook sums and products, Knuth's long division and division by shifted
multiples, Barrett's reduction, Euclid's inverse. `BigInteger` is the type the
library was built with, one of the two, and the machine of one integer to which
methods are applied in any order. The words that the code may read though they
belong to no number hold `stray`.

| Machine | Its state is | in the code |
|---|---|---|
| `LeveledSHERNS` | `ct`, `outcome` | fields of `CiphertextImpl` and its tower count |
| `BFVCoefficients` | `cv`, `publicKey`, `relinKey` | elements of the ciphertext and of the keys |
| `HybridCoefficients` | `elements`, `switchingKey` | the same, with the basis extended by P |
| `CryptoContextKeys` | registry, key map, handles, files | `AllContexts`, `evalMultKeyMap()` and its like |
| `SchemeBase` | key pairs, evaluation keys, ciphertexts | `KeyPair`, `EvalKey`, `Ciphertext` |
| `TransformTables` | `table`, `lock`, `engine`, `isInit`, `pc` | static maps, `omp critical`, `m_prng`, threads |
| `Xallocator` | lists, headers, counters, calls in progress | `_allocators`, `Allocator`, threads |
| `BinFHEContext` | objects, loaded key | `LWECiphertext`, `m_BTKey` |
| `NativeInteger` | `value`, what it should hold | `m_value` |
| `BigInteger` | `big`; the number `want` it should be | `m_value` and `m_MSB` |

## 3. Abstract specifications

* `KeysAreKept`: `CryptoContextKeys` implements `KeyStore` under the mapping
  that forgets which context object an entry points to. `KeyStore` clears and
  saves *by owner*, the code *by pointer*; `KeyStore` loads by replacing the tags
  in the file, the code by three different functions. Both gaps are what the
  refinement is about.
* `ManagesMemory`: `Xallocator` implements `MemoryBlocks`, where blocks have no
  headers, lists or locks.
* Where the abstract object is a value and not a machine, it is kept beside the
  concrete one: `scale` beside `sf`, `message` beside `cv`, `wanted` beside
  `elements`, `msg` and `under` beside a ciphertext, `want` beside a word and beside the
  limbs of a big integer.

## 4. Runs

| Run | Instance | Shows |
|---|---|---|
| `leveled_modes` | five programs, see below | books, alignment and residues of the leveled operations |
| `ckks_fixedauto_add` | CKKS, FIXEDAUTO | violation: addition reads an empty table |
| `keys_automorphism` | 3 context objects of 2 parameter sets, 2 tags, 2 contents | sharing, fit, one owner per tag, `KeyStore` |
| `keys_mult` | the same, `Kind = "mult"` | violation: loading drops other tags' keys |
| `keys_untold` | parameter sets that compare equal | violation: a key gets a context of other parameters |
| `xalloc` | 2 threads, 3 blocks, requests of 24, 100 and 300 bytes, array of 2, a heap that may refuse, assertions on | every promise of the allocator until it stops, `MemoryBlocks` |
| `tables` | main thread and two workers, four programs | readers find complete tables; every program ends |
| `scheme_keys` | 3 key pairs, a ring of 81 elements, depth 3, six artefacts; sums in orders 8, 16 and 32 | every ciphertext decrypts to its message, fusion agrees, sums are right |
| `joint_products`, `joint_rotations` | two parties, eight artefacts | violations: joint evaluation keys that are keys for nothing |
| `gates` | q = 128 = N, Q = 769, n = 2, base 4, two objects, two keys; native words of 12 bits; limbs of three bits | circuits whose samples fit give their truth table, and errors do not add up; native and big integers hold the number wanted |
| `native_modmul` | words of 12 bits | violation: an operand above the modulus gives a wrong product |

**The five programs of `leveled_modes`.** *flexible*: CKKS, FLEXIBLEAUTO, four
moduli, three objects. *manual*: CKKS, FIXEDMANUAL, two objects, every
operation. *bgv*: BGV, FLEXIBLEAUTO, three objects. *bfv*: Q = 37*31, auxiliary
bases 29*23*19 (HPS) and 29*23 with msk 19 (BEHZ), mtilde 16, gamma 32, t = 3 and
4, whole towers or windows of three bits, a mask near Q/2 and errors of either
sign, doubles rounded either way, one product and one sum. *hybrid*:
Q = 127*13*19*31 in two digits, P = 43*47, t = 3, with 128-bit integers or without,
encryption at any level and two squarings.

**The three programs of `gates`.** *gates*: circuits, encryptions and changes of
bootstrapping keys. *integers*: native words of 12 bits. *big integers*: limbs of
three bits, fixed numbers of eleven words, moduli 2, 12 and 331, operands 0, 1, 6,
8, 73 and 456, either back end. The objects of *gates* are interchangeable: no
operation and no property tells them apart, so the run takes them up to symmetry.
A fresh error of -3 fits and 7 does not. The uniform vector's entries round by
nearly one half; with it, of the errors -18, 13 and 18 of a gate 13 fits
under both keys, -18 under one and 18 under the other. The programs share a run because they
share nothing else; each starts where the others stay idle.

**Bounds.** The alignment depends on which of two levels is higher, on whether
the gap is 1 or more, and on two depths: four moduli give gaps 0 to 3, and three
objects let two be aligned while a third keeps its level. `MCLogQ` takes powers
of 100, so that no factor equals another by chance. `MaxDepth` binds under
FIXEDMANUAL only. The moduli on residues are the smallest for which one product
(BFV) or two (hybrid) leave room for the noise, and the small size is an
advantage: an error of one multiple of a modulus, or a wrong row of a table,
cannot hide in a margin. The two digits of *hybrid* have two towers each, so that
levels exist where the last digit has lost one, and a level with one digit.
`HasRoom` lets a product or switch happen only where an exact one would fit the
modulus: the program's choice of its multiplicative depth. Three context objects
are two of one parameter set, enough for a duplicate, and one of another; two
tags let a file hold one and memory the other. Three blocks give a list with an
inside; three sizes for an array of two let the array overflow. The size classes
are evaluated for every request that fits half of an 11-bit word, which holds
both tuned ranges. Three key pairs let a joint key have a third party and
re-encryption a chain; the ring Z_3^4 has automorphisms that are not the identity
on any element that matters, and six artefacts (`MaxMade`) are two keys, an
evaluation key and three ciphertexts. Native words of 12 bits with moduli 5, 12,
16, 33, 58 and 191 have moduli just above a power of two, where the estimated
quotient is worst, composites, a power of two and the longest modulus. Limbs of
three bits make the rare cases of 32-bit limbs common: estimates of a digit that
must be corrected, the divisor added back, carries and borrows through several
limbs. The operands have one limb to three, a power of two and a number above all
moduli among them; numbers up to `Limit` (130) are kept, while products and
dividends reach many more limbs. The moduli are the one with a text of its own,
one of two limbs and one of three.

**CHECK_DEADLOCK** is off where a program does stop: it has overrun a table, hit
an assertion, exited, or used a bound of depth, artefacts or sums. The key runs
and `tables` check it.

**What CoreSpec leaves out, and why.** *flexible* and *bgv* run `CoreSpec`.
Plaintext operands: under the automatic techniques their alignment is an empty
function with a TODO (`ckksrns-leveledshe.cpp:747-756`), so a sum with a
plaintext of another level is simply wrong, and nothing says what the finished
function would do. `Compress`: documented as the last step before decryption, and
it leaves a factor that is not the level's. One object as both mutable factors:
it is rescaled twice and ends with depth 0. All of these are actions of `Spec`,
which *manual* runs.

**Disciplines.** `ReleaseAllContexts` is a step only when the program holds
nothing (`Quiet`): the library cannot know of objects it handed out. In
`TransformTables` a program is `disciplined` if what its parallel region shares
is what the library can bear (tables built before, or of one size); readers are
promised complete tables for those, and all others are promised only to end. In
`SchemeBase` the evaluation keys of a tag are used on ciphertexts of that owner
alone (`Own`, `Alone`): a joint public key has the tag of one party's share. The
program bootstraps only what is under the key it loaded. In `BigInteger` the
dividends of Barrett's reduction are below 2^(2n+2), for n bits of the modulus
(`Fits`), and the dynamic one's estimated quotient is not 0; the guards of
`ShiftStep`, `BinaryStep`, `MulModStep` and `ExpModStep` leave out the inputs that
section 5 lists.

**Fairness.** `FairSpec` of `TransformTables` is the only one:
`WF_vars(Fork) /\ \A t : WF_vars(Step(t))`. The operating system runs every
thread that can run, which is all that weak fairness says; fairness of the lock
itself is not needed, because each program makes finitely many calls and a waiting
thread is enabled again whenever the lock is free. `ProgramsEnd` is checked under
it. Everywhere else calls run to completion in the caller's thread, and whether
a program makes another is the program's choice: no liveness is stated.

## 5. Findings

Six runs end in a violation; `findings` in PROJECT.json quotes the lines.

1. `ckks_fixedauto_add`: the alignment reads `m_scalingFactorsRealBig`, which is
   filled under FLEXIBLEAUTO only.
2. `keys_mult`: `DeserializeEvalMultKey` reads into the static map itself and
   loses every tag that is not in the file.
3. `keys_untold`: `CryptoParametersRNS::operator==` starts from the wrong base
   class and compares no modulus.
4. `joint_products`: the three-argument `KeySwitchGen` of `SchemeBase` drops its
   third argument, so that the parties' keys share no uniform element.
5. `joint_rotations`: `MultiEvalAutomorphismKeyGen` switches from the permuted
   element to the plain one; the keys it is added to lead the other way.
6. `native_modmul`: `ModMulEq` with mu reduces a copy of its operand that nothing
   reads.

Known by reading and stated by no run, because no text of the repository
contradicts them plainly or the models exclude the input:

* Leveled: BGV's alignment throws in one order of its operands
  (`base-leveledshe.h:435`); an object as both mutable factors; the sixteenth
  block size of the allocator. `Compress` under FLEXIBLEAUTO. The
  loops that count unsigned down to 0 or up to depth - 1 wrap for an object of one
  tower (BGV's `ModReduceInternalInPlace`) or of depth 0 (the constants of
  `EvalAdd` under CKKS): both are an overrun in the models.
* Calls: `EvalSum` of a batch of 1 and `EvalSumRows` of rows as long as the ring
  allows are refused with the keys made for them, an empty map
  (`base-scheme.h:1405`, `1420`); `EvalMultMany` is documented to relinearize (`cryptocontext.h:1934-1937`)
  and multiplies without keys (`base-advancedshe.cpp:127`); `EvalAddMany` and
  `EvalMultMany` of one ciphertext return the last entry of an empty vector;
  `EvalMultKeysGen` with a depth of 1 or less reads one too
  (`base-leveledshe.cpp:186-188`); `Encrypt` does not compare the key's context
  (`cryptocontext.h:985`); `binfhecontext.h:273-276` declares two scheme pointers
  that one constructor path leaves null; nobody calls `InitPRNG`, so a thread whose
  first random number is drawn in `SetParams` waits for itself.
* BFV: `PrecomputeCRTTables` is called with zero digits
  (`bfvrns-parametergeneration.cpp:332`), so that HYBRID divides by zero and BFV
  works with BV only; HPSPOVERQ and HPSPOVERQLEVELED fall into the BEHZ branch
  with empty tables; HPS does not check that its auxiliary basis is large enough.
* Integers: `Mod(m, m, mu)` returns m; the comment at `ubintnat.h:1445` claims
  dividends up to 2^(2n+3), but one correction is enough below 2^(2n+2) only
  (modulus 17, dividend 6087 gives 18); `ModInverse` with a common divisor divides
  by zero; the ARM text of `MultD` has `&&` for `&` (line 2208). In `ubintdyn`,
  `RShiftEq` goes on after it has zeroed (1446) and takes limbs from a vector of
  one, which Barrett's `Mod` meets when its estimated quotient is 0; `ModMul` by one
  returns its operand unreduced (1012); `ModExp` compares with `>` (1223), so that
  2^3 modulo 8 is 8, as in `ubintfxd` (1279); `FromBinaryString` loses the highest
  limb of a string whose length is a multiple of the limb's (1613); `Compare` may
  read past the end of a shorter vector (1505), and the run shows that no result
  depends on what is there. In `ubintfxd` the loops over words count down in
  `size_t` and do not end for an operand that uses the highest word (453).

## 6. Proofs

Eight modules hold theorems. They rest on the named assumptions of the modules, each
evaluated by TLC in some run, and on what a theorem's own ASSUME says; nothing
else. `IInv`, `Inv` and their like are the inductive invariants.

* `LeveledSHERNS_proofs`, in three parts.
  *CKKS, FLEXIBLEAUTO* (`CoreSpec`; any number of moduli, any moduli, any pool):
  `FlexibleBookkeeping`, `FlexibleAdditionIsTotal`, `FlexibleAlignmentAgrees`.
  `Inv` says of every object that level and towers match, depth is 1 or 2, and
  `sf = depth * SF[level] = scale`. No part stands alone: rescaling divides by the
  modulus of the last tower, which is the right divisor only if towers match the
  level; the result is canonical only by the recurrence of the table; and the
  tower exists only if a lower level was left. One lemma per primitive says what
  it does to the fields, `RaiseIsSound` has a step for each branch of the
  alignment, and the induction a step per action.
  *CKKS, FIXEDMANUAL* (`Spec`, every operation): `ManualBookkeeping`,
  `ManualLevelsAreDrops`, `ManualSumsSucceed`. The same books without bounds on
  depth, for objects that may have lost every tower. `Compress` rescales in a
  loop; `Rescalings(c, k)` says in closed form what k rescalings leave, and
  `RescaleAgain` that one more is what the loop's body does.
  *BGV, FLEXIBLEAUTO* (`CoreSpec`): `BGVOperandsAgree`. The two directions of the
  alignment are separate texts in the code and have separate lemmas; both end with
  one level, one depth and equal towers, or throw. Every object keeps a tower, so
  that the rescalings of an alignment end; a rescaling before a product that would
  take the only tower is an overrun and returns no object.
* `MCLeveledModes_proofs`: `ModesKeepTheirBooks` carries the invariants of *manual*
  and *bgv* to the machine that the run checks. The instances' parameters are
  shown to satisfy the lemmas' assumptions, and every other program leaves the
  objects alone.
* `CryptoContextKeys_proofs` (any contexts, parameters, tags):
  `ContextsAreShared` needs nothing of `operator==`: all live objects belong to
  registered contexts (`Registered`), and no two registered contexts compare equal
  (`Canonical`). `KeysFit` assumes `ComparedTellsApart` and adds that each tag has
  one owner over memory and files (`Owned`): without the files a load could give
  it a second. `MapKeepsKeys` is the refinement of `KeyStore` for the two kinds of
  map that merge: comparison by pointer and by owner choose the same tags because
  of the other two invariants.
* `Xallocator_proofs` (any threads, requests, array length, build; a finite heap,
  `HeapAssumption`, which counting needs): `ExclusiveOwnership`,
  `HeadersAreStable`, `CopiesFit`, `ListsAreComplete`, `CountsAreRight`,
  `ExitGivesBack`, `HeapOnlyWhenListsAreEmpty`, `ManagesMemoryThroughout`.
  `IInv` reasons about single links instead of whole lists: every free block is
  named by at most one pointer (`PointersUnique`), free blocks point to free
  blocks of their size (`ListsOK`), and what a call in progress remembers still
  holds (`JobsOK`), which is what makes the unlocked read of the header safe.
  `FullInv` adds what makes links lists: no free blocks form a ring of their own
  (`Linked`: each is a head, or is linked from one of less depth), so that a walk
  from the heads meets them all; the array has one Allocator of a size (`ArrayOK`);
  and the counters are the cardinalities they stand for (`CountsOK`). With it the
  refinement of `MemoryBlocks` covers `xalloc_destroy` too. Two theorems except a
  Release build whose array overflowed: there the code does lose lists (section 5).
* `TransformTables_proofs` (any threads and programs): `TablesTypeOK`,
  `OneThreadInside`, `ReadersAreServed`. The invariant follows each table through
  a fill: what is in the lock's hands, what a reader has still to read, and that a
  disciplined program's tables are only ever replaced by the same.
* `SchemeBase_proofs` (any commutative ring with automorphisms, any tags and
  samples, any number of keys and ciphertexts): `TypeCorrectness`,
  `DecryptionIsRight`, `TagsNameTheKey`, `PartiesDecryptTogether`, and for the sums of
  slots `GeneratedKeysSuffice` and `SumsAreAlwaysRight`. `Inv` adds to
  the type that public keys are encryptions of zero (`PublicKeysFit`), that
  evaluation keys exist only for pairs that were made (`PairsAreMade`), that each
  kind of key satisfies its maker's equation (`MultKeysFit`, `AutoKeysFit`,
  `SwitchKeysFit`) and that every object decrypts to its message under the key it
  is under (`ObjectsAreRight`). The lemmas are ring identities, proved without a
  prover for rings: each rewrites one operation's effect on what its operands
  decrypt to. Threshold decryption is a sum over a set of parties: `SharesAddUp`
  says that the parties' private elements add up to the joint key's ideal one, and
  the sum is taken apart one party at a time. The keys of a sum
  (`GeneratedKeysSuffice`: every power-of-two order, batch, row size and shift) are a
  row of squarings, and so is what the sum applies (`DoubledUses`, by induction on the
  number of doublings). A smaller batch applies a shorter row, and where its last
  automorphism is not the swap of the rows it is the next squaring (`SumHasKeys`);
  a map is empty exactly for the sums of one slot, which `SchemeBase` then refuses
  (`NoSumKeys`, `NoRowKeys`);
  larger rows start the same squarings later, since both start from a power of two of
  the same generator (`RowsHaveKeys`). `SumsInv` says that the keys at hand are those
  of one generator for this context, which is what makes the property inductive.
  What the sums are (`SumsAreAlwaysRight`) is arithmetic of the odd numbers modulo
  m = 2^(k+2), built from nothing but the definition of `%`. The powers of 5 repeat
  after 2^k and not before (`RowPeriod`, `FiveIsNotOne`: 5^(2^k) is 1 + 2^(k+2) modulo
  2^(k+3), `FiveSquared`), so a row has no slot twice (`RowIsInjective`); every number
  that is 1 modulo 4 is one of them (`RowIsOnto`), so the two rows are the numbers that
  are 1 and 3 modulo 4, and a batch of all slots has each once (`BothRows`). A doubling
  adds a row of slots to the one that begins after it (`RowTwice`), which are disjoint
  as long as they fit; `RowSums` does this in a subring, so that batches and matrices
  are instances of it. Columns double backwards from the slots that the mask kept
  (`ColumnsHold`: after the doublings by h, the first h cells of each row hold the row
  and all others nothing), around the end of the last row (`CellBefore`). The way an
  automorphism moves slots commutes with the ring's own, which shows that all slots of
  a row move alike (`MovesAlike`). For many ciphertexts the invariant is that of the
  entries still to be added exactly one holds a given input, once (`ManyInv`), and that
  an entry at the start of a block holds what is there of the block (`BlocksHold`).
  These two theorems assume that orders are powers of two from 8 on
  (`OrdersAssumption`), and the second that a null pointer is no ciphertext
  (`ManyAssumption`).
* `NativeInteger_proofs` (any word size, modulus, operands, order of methods, for
  builds whose double type is wider than a word): `NativeArithmeticIsRight`.
  `EstimateIsClose` and `ShoupIsClose` bound the estimated quotients' error by one,
  and the invariant says what a word may be between two methods: the residue, or
  the modulus in the place of zero.
* `BinFHEContext_proofs` (any dimensions, moduli, digit base, keys and samples):
  `CiphertextsStayReduced`, `CircuitsDecrypt`, `ErrorsDoNotGrow`. The invariant is
  `TypeOK /\ ObjectsCarry`: a `sound` object carries its circuit's bit under its
  key with an error below q/32, and one that `fits` some bit with such an error.
  That is what makes it inductive: a gate adds two errors or
  doubles a difference of two, and still lands in the right quarter of the circle;
  and whatever quarter it lands in, its error is that of its own samples.
  The bootstrap is followed step by step. A polynomial's coefficients are continued
  to all integers with the sign of X^N = -1, where `TimesMonomial` is a shift; so
  both accumulators, by the digits of a times s (AP) or by the
  two indicators of a ternary s (GINX), turn the
  test polynomial by the phase, and its constant term, with Q/8 + 1 added, is the
  gate's bit times Q/4, up to that one. Key switching keeps a phase
  up to its error, modulus switching divides the error by Q/q and adds the
  roundings. Nothing is assumed of the samples: `SamplesFit` and `Small` are
  conditions that an object records (section 3). q >= 32, q divisible by 8, q < Q and 2N divisible by q are assumed of the
  parameters (`LWEAssumption`, `RingAssumption`).

Facts about sums and shifts hold for every length, and the induction rules of the
library are out of reach (they take an operator as a parameter). Where they are
needed, the set of the numbers for which a fact holds is written down, and
`SetInduction`, which follows from the order of the natural numbers being
well-founded, says that it is all of them.

**Only model-checked.** `ProgramsEnd`: liveness is out of the provers' reach.
`BigIsRight` is about recursive operators over limbs and bits, `ModExp`,
`ModInverse` and the schoolbook double words about recursion as well;
`BFVDecrypts` and `PhaseIsKept` are about sums over towers, whose errors are
bounded for the moduli at hand and by no formula yet. For these TLC's instances
are what there is. The invariants proved were all checked by TLC first, and the
runs that check the properties use the same modules.

## 7. Not modelled

* *Noise and security in rings.* Errors are zero in `SchemeBase`; the machines on
  residues have them in dimension 1, with the extremes of their ranges.
* *Larger rings on residues.* The ring product is the transforms' and polynomial
  multiplication's business; basis conversions work on coefficients one by one.
* *Parts of modelled components*: NORESCALE; HPSPOVERQ; ApproxModUp,
  ApproxScaleAndRound; the portable texts of the BFV conversions for builds
  without 128-bit integers, which multiply unreduced operands by methods that
  expect reduced ones; the pool mode and STATIC_POOLS build of the allocator; the
  NTL integers, vectors of big integers and their transforms, decimal strings,
  conversions to doubles, and the 64-bit-limb text of `ubintdyn`'s `Mod`; automorphisms in rings whose order is not a power of
  two; inner products, weighted sums and polynomials, which are formulas over the
  leveled operations; the signed digits of FHEW's accumulator, whose errors only
  add to its one sampled error.
* *Encodings*: conversions of data, present as the level, depth and factor they
  give, as slots of `AdvancedSHE` and as coefficients of `BFVCoefficients`.
* *Parameter generation*: the search for primes and the choice of the ring
  dimension are number theory over 60-bit moduli and security tables. What they
  see to is assumed by name (`IsScalingFactorTable`, `BasesAssumption`,
  `TowersAssumption`).
* *Serialization framework*: input and output through a vendored library; what is
  written of keys and contexts is in `CryptoContextKeys`. Matrices, trapdoors,
  samplers, BLAKE2: pure computations on large values, or statistics. Benchmarks,
  examples and tests are read as documents.
* *Memory model*: shared tables are read in sequentially consistent steps at the
  granularity of a table; a data race on a `std::map` is left to programs that the
  discipline excludes.
