--------------------------- MODULE MCXallocator ---------------------------
(***************************************************************************)
(* Instances of Xallocator whose block sizes are those of the source, in a *)
(* word of MCWidth bits.  The assumption checks the sizes of every request *)
(* whose rounding fits such a word: 11 bits hold both tuned ranges.        *)
(***************************************************************************)
EXTENDS Xallocator

CONSTANT MCWidth

Sizes == INSTANCE XallocatorSizes WITH Width <- MCWidth

ASSUME SizesAreRight ==
  \A r \in 0 .. 2 ^ (MCWidth - 1) - Header :
    Sizes!RoundsToPowerOfTwo(r + Header) /\ Sizes!BlockHasRoom(r)

MCBlockSize == [r \in Requests |-> Sizes!BlockSizeOf(r)]
=============================================================================
