---------------------------- MODULE MCRLWERing ----------------------------
(***************************************************************************)
(* A ring for RLWEFormulas and its machines: Z_3 at four points, for the   *)
(* values of polynomials at the roots of unity of order 16 with            *)
(* exponents 1, 3, 9 and 11, the powers of 3.  Automorphism 3^k takes each *)
(* value from k positions on, so 3 and 11 are inverses modulo 16.          *)
(***************************************************************************)
EXTENDS Naturals

Values == 0 .. 2
MCRing == Values \X Values \X Values \X Values
MCZero == <<0, 0, 0, 0>>

MCPlus(x, y) ==
  <<(x[1] + y[1]) % 3, (x[2] + y[2]) % 3, (x[3] + y[3]) % 3, (x[4] + y[4]) % 3>>
MCTimes(x, y) ==
  <<(x[1] * y[1]) % 3, (x[2] * y[2]) % 3, (x[3] * y[3]) % 3, (x[4] * y[4]) % 3>>
MCMinus(x) == <<(3 - x[1]) % 3, (3 - x[2]) % 3, (3 - x[3]) % 3, (3 - x[4]) % 3>>

MCIndices == {3, 11}
MCModInverse(i) == CHOOSE j \in MCIndices : (i * j) % 16 = 1
MCSigma(i, x) ==
  IF i = 3 THEN <<x[2], x[3], x[4], x[1]>> ELSE <<x[4], x[1], x[2], x[3]>>

\* Samples of the owner of a tag; none is a sum, product or automorphism of others.
MCSecret(t) ==
  IF t = "k1" THEN <<1, 2, 1, 0>> ELSE IF t = "k2" THEN <<2, 2, 1, 1>> ELSE <<0, 1, 2, 2>>
MCUniform(t) ==
  IF t = "k1" THEN <<2, 1, 1, 0>> ELSE IF t = "k2" THEN <<1, 0, 1, 2>> ELSE <<0, 2, 1, 1>>
MCMasks == {<<1, 1, 2, 2>>}
MCPlaintexts == {<<1, 2, 0, 2>>}
=============================================================================
