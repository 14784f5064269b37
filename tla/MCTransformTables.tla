-------------------------- MODULE MCTransformTables --------------------------
(***************************************************************************)
(* Programs of TransformTables for TLC: a main thread and two workers.     *)
(***************************************************************************)
EXTENDS TransformTables

CONSTANTS main

C(op, key, size) == [op |-> op, key |-> key, size |-> size]
P(alone, m, w) == [alone |-> alone,
                   parallel |-> [t \in Threads |-> IF t = main THEN m ELSE w]]

MCPrograms ==
  { \* CKKS encodings of one ring and first uses of every kind of table
    P(<<C("dft", 0, 4)>>,
      <<C("dft", 0, 8), C("arb", 7, 5), C("dft", 0, 8)>>,
      <<C("dft", 0, 8), C("fft", 3, 8), C("arb", 7, 5)>>),
    P(<<C("fft", 3, 8)>>,
      <<C("fft", 3, 8), C("fft", 2, 4), C("dft", 0, 8)>>,
      <<C("fft", 2, 4), C("dft", 0, 8), C("sample", 0, 1)>>),
    \* one modulus in rings of two sizes, then packed encodings side by side
    P(<<C("ntt", 17, 4), C("ntt", 17, 8), C("pack", 17, 4), C("pack", 17, 8), C("dft", 0, 4)>>,
      <<C("pack", 17, 8), C("ntt", 17, 8), C("dft", 0, 4)>>,
      <<C("ntt", 17, 8), C("pack", 17, 8), C("dft", 0, 4)>>),
    \* tables that the library does not protect: only the end is promised
    P(<< >>,
      <<C("ntt", 17, 8), C("pack", 17, 8), C("dft", 0, 8)>>,
      <<C("sample", 0, 1), C("ntt", 17, 8), C("pack", 41, 8), C("dft", 0, 4)>>) }
=============================================================================
