-------------------------- MODULE MCBinFHEContext --------------------------
(***************************************************************************)
(* BinFHEContext with q = 128 = N and Q = 769: two private keys, and a     *)
(* uniform vector with roundings of nearly one half, which are all added   *)
(* under the first key and subtracted under the second.  Two               *)
(* more programs compute with the integers below: the native ones, which   *)
(* all of its arithmetic is made of, and the big ones, which the tables of *)
(* every scheme are made with.  The machine first picks its program.       *)
(***************************************************************************)
EXTENDS BinFHEContext, MCNativeInteger, TLC

MCSecretOf == [k \in Keys |-> IF k = "k1" THEN <<1, 1>> ELSE <<-1, 0>>]
MCVectors == {<<0, 101>>}

\* Times 128 / 769 its entries are just above 127.5 and 126.5.
MCVectorsQ == {<<766, 760>>}

\* The largest fresh error that fits, and one that turns the bit of a XOR_FAST over.
MCFreshErrors == {-3, 7}

\* 13 fits under both keys, -18 under the second only and 18 under the first only.
MCErrors == {-18, 13, 18}

\* No operation and no property tells the program's objects apart.
MCSymmetry == Permutations(Objects)

VARIABLES program, backend, big, bigWanted, bigModulus, stray

Big == INSTANCE BigInteger WITH
         want <- bigWanted, modulus <- bigModulus,
         limbBits <- 3, nSize <- 11, BigModuli <- {2, 12, 331},
         BigOperands <- {0, 1, 6, 8, 73, 456}, Limit <- 130

BigVars == <<backend, big, bigWanted, bigModulus, stray>>

IsIdle == Init /\ m_method = "AP"
NativeIsIdle == NativeInit /\ modulus = 5 /\ wide
BigIsIdle == Big!BigInit /\ backend = "fixed" /\ bigModulus = 2 /\ stray = 0

MCInit ==
  \/ program = "gates" /\ Init /\ NativeIsIdle /\ BigIsIdle
  \/ program = "integers" /\ NativeInit /\ IsIdle /\ BigIsIdle
  \/ program = "big integers" /\ Big!BigInit /\ IsIdle /\ NativeIsIdle

MCNext ==
  /\ \/ program = "gates" /\ Next /\ UNCHANGED <<nativeVars, BigVars>>
     \/ program = "integers" /\ NativeNext /\ UNCHANGED <<vars, BigVars>>
     \/ program = "big integers" /\ Big!BigNext /\ UNCHANGED <<vars, nativeVars>>
  /\ UNCHANGED program

MCSpec == MCInit /\ [][MCNext]_<<program, vars, nativeVars, BigVars>>

-----------------------------------------------------------------------------
(***************************************************************************)
(* Big integers keep their representation: whatever methods of ubintdyn    *)
(* and ubintfxd are applied, in any order, the words in use are those of   *)
(* the number wanted, the highest of them is not 0, and the MSB is right.  *)
(***************************************************************************)
BigIsRight == program = "big integers" => Big!BigIsRight
=============================================================================
