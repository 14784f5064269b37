----------------------------- MODULE NativeFast -----------------------------
(***************************************************************************)
(* The two operations of native integers that every vector operation ends  *)
(* in.  They expect operands below the modulus and correct once; operands  *)
(* equal to it, which other operations leave behind, get through as well.  *)
(* Sums stay below the word: a modulus has four bits less.                 *)
(***************************************************************************)
EXTENDS Integers

ModAddFast(x, y, m) == IF x + y >= m THEN x + y - m ELSE x + y
ModSubFast(x, y, m) == IF x >= y THEN x - y ELSE x + (m - y)
=============================================================================
