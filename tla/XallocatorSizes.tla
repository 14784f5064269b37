-------------------------- MODULE XallocatorSizes --------------------------
(***************************************************************************)
(* The block size that serves a request: the request and its header,       *)
(* rounded up to a power of two except in two ranges tuned by hand.  The   *)
(* rounding smears the highest bit downwards in a word of Width bits.      *)
(***************************************************************************)
EXTENDS Naturals, Bitwise, Folds

CONSTANT Width     \* bits of size_t

HeaderSize == 8

Word(k) == k % 2 ^ Width

\* The shifts of the loop: powers of two below the width.
Shifts == {2 ^ i : i \in {j \in 0 .. Width : 2 ^ j < Width}}

\* The shifts are taken in increasing order.
nexthigher(k) ==
  LET Smear(i, x) == x | shiftR(x, i)
      Largest(S) == CHOOSE i \in S : \A j \in S : i >= j
      smeared == MapThenFoldSet(Smear, Word(k + 2 ^ Width - 1), LAMBDA i : i, Largest, Shifts)
  IN  Word(smeared + 1)

BlockSizeOf(size) ==
  LET blockSize == Word(size + HeaderSize)
  IN  IF blockSize > 256 /\ blockSize <= 396 THEN 396
      ELSE IF blockSize > 512 /\ blockSize <= 768 THEN 768
      ELSE nexthigher(blockSize)

-----------------------------------------------------------------------------
\* What the smearing computes, for arguments whose rounding fits the word.
LeastPowerOfTwo(k) ==
  LET powers == {2 ^ n : n \in 0 .. Width}
  IN  CHOOSE p \in powers : p >= k /\ \A q \in powers : q >= k => p <= q

RoundsToPowerOfTwo(k) == nexthigher(k) = LeastPowerOfTwo(k)

\* A request gets room for itself and its header, and never twice that.
BlockHasRoom(size) ==
  /\ BlockSizeOf(size) >= size + HeaderSize
  /\ BlockSizeOf(size) < 2 * (size + HeaderSize)
=============================================================================
