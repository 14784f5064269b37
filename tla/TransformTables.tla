-------------------------- MODULE TransformTables --------------------------
(***************************************************************************)
(* The lazily built static tables of the transforms and of the packed      *)
(* encoding, and the thread-local random engines, as the threads of an     *)
(* OpenMP program reach them: DiscreteFourierTransform (FFTSpecial and     *)
(* Initialize, FFTForwardTransform), ChineseRemainderTransformFTTNat       *)
(* (PreCompute), ChineseRemainderTransformArbNat (the Bluestein tables),   *)
(* PackedEncoding (SetParams) and PseudoRandomNumberGenerator::GetPRNG.    *)
(* All of them use the unnamed `omp critical`, which is one lock for the   *)
(* whole program and is not recursive.  What they do outside it differs:   *)
(*                                                                         *)
(*   dft    tests m_Nh and m_isInitialized unlocked, refills unconditionally *)
(*   ntt    tests the first table unlocked twice, refills unconditionally  *)
(*   pack   tests m_initRoot unlocked, refills unconditionally, and draws  *)
(*          random numbers inside the critical section                     *)
(*   fft,   test and fill inside the critical section                      *)
(*   arb                                                                   *)
(*   sample tests the thread's own engine, makes it in the critical section *)
(*                                                                         *)
(* Every one of them reads its tables after the section, unlocked.         *)
(*                                                                         *)
(* A program is a main thread that makes some calls alone and then forks a *)
(* parallel region.  A table is abstracted to the size it was built for.   *)
(***************************************************************************)
EXTENDS Naturals, Sequences

CONSTANTS
  Threads,      \* the threads of the parallel region
  Main,         \* the one that runs alone first
  Nobody,       \* the owner of a free lock
  Programs      \* [alone |-> calls of Main, parallel |-> calls of each thread]

(***************************************************************************)
(* A call: what runs, under which key its tables are kept (a modulus or a  *)
(* logarithm; FFTSpecial has one set of tables) and for which ring size.   *)
(***************************************************************************)
Ops == {"dft", "ntt", "pack", "fft", "arb", "sample"}
Call == [op : Ops, key : Nat, size : Nat \ {0}]

ASSUME ThreadsAssumption == Main \in Threads /\ Nobody \notin Threads
ASSUME ProgramsAssumption ==
  Programs \subseteq [alone : Seq(Call), parallel : [Threads -> Seq(Call)]]

VARIABLES
  lock,         \* the owner of the critical section
  engine,       \* the threads whose m_prng is set
  isInit,       \* DiscreteFourierTransform::m_isInitialized
  table,        \* the size each table is built for, 0 where there is none
  pc,           \* where each thread is in its call
  todo,         \* the calls each thread has still to make
  later,        \* the calls of the parallel region, until the fork
  disciplined     \* whether the region shares tables only as the library can bear

vars == <<lock, engine, isInit, table, pc, todo, later, disciplined>>

-----------------------------------------------------------------------------
(***************************************************************************)
(* The tables of a call, in the order in which the critical section writes *)
(* them.  PackedEncoding keys m_initRoot by modulus and order, but its     *)
(* permutations by the order alone.                                        *)
(***************************************************************************)
TablesOf == [dft  |-> <<"Nh", "rotGroup", "ksiPows">>,
             ntt  |-> <<"rootReverse", "others">>,
             pack |-> <<"initRoot", "perm">>,
             fft  |-> <<"cachedM", "cosSin">>,
             arb  |-> <<"root", "powers", "RB">>,
             sample |-> << >>]

Names == {"Nh", "rotGroup", "ksiPows", "rootReverse", "others", "initRoot",
          "perm", "cachedM", "cosSin", "root", "powers", "RB"}

Cell(c, name) == CASE c.op = "dft"      -> <<name, 0, 0>>
                   [] name = "perm"     -> <<name, 0, c.size>>
                   [] name = "initRoot" -> <<name, c.key, c.size>>
                   [] OTHER             -> <<name, c.key, 0>>

CellsOf(c) == {Cell(c, TablesOf[c.op][i]) : i \in DOMAIN TablesOf[c.op]}

Built(tab, c) == \A cell \in CellsOf(c) : tab[cell] = c.size

CallsOf(s) == {s[i] : i \in DOMAIN s}

\* Pack continues with a transform modulo its plaintext modulus.
TransformOf(c) == [c EXCEPT !.op = "ntt"]

AllCalls ==
  LET written == UNION {CallsOf(p.alone) \cup UNION {CallsOf(p.parallel[t]) : t \in Threads}
                          : p \in Programs}
  IN  written \cup {TransformOf(c) : c \in {d \in written : d.op = "pack"}}

\* arb keys its tables by modulus and root of unity: a root has one order.
ASSUME RootAssumption ==
  \A c, d \in AllCalls :
    c.op = "arb" /\ d.op = "arb" /\ c.key = d.key => c.size = d.size

Cells == UNION {CellsOf(c) : c \in AllCalls}

Idle == [at |-> "idle", call |-> [op |-> "sample", key |-> 0, size |-> 1], next |-> 1]
At(t, stage) == pc[t].at = stage
Put(t, stage, next) ==
  pc' = [pc EXCEPT ![t] = [at |-> stage, call |-> pc[t].call, next |-> next]]
Move(t, stage) == Put(t, stage, pc[t].next)

Init ==
  /\ lock = Nobody
  /\ engine = {Main}          \* making the context drew the roots of unity
  /\ isInit = FALSE
  /\ table = [cell \in Cells |-> 0]
  /\ pc = [t \in Threads |-> Idle]
  /\ \E p \in Programs :
       /\ todo = [t \in Threads |-> IF t = Main THEN p.alone ELSE << >>]
       /\ later = p.parallel
  /\ disciplined = TRUE

-----------------------------------------------------------------------------
Skips_AnyLength(t, c) ==
  CASE c.op = "dft"  -> table[Cell(c, "Nh")] = c.size /\ isInit
    [] c.op = "ntt"  -> table[Cell(c, "rootReverse")] # 0
    [] c.op = "pack" -> table[Cell(c, "initRoot")] = c.size
    [] OTHER         -> c.op = "sample" /\ t \in engine
Skips_SizeAlone(t, c) ==
  CASE c.op = "dft"  -> table[Cell(c, "Nh")] = c.size
    [] c.op = "ntt"  -> table[Cell(c, "rootReverse")] = c.size
    [] c.op = "pack" -> table[Cell(c, "initRoot")] = c.size
    [] OTHER         -> c.op = "sample" /\ t \in engine
\* The unlocked test that lets a call skip the critical section.
Skips(t, c) ==
  CASE c.op = "dft"    -> table[Cell(c, "Nh")] = c.size /\ isInit
    [] c.op = "ntt"    -> table[Cell(c, "rootReverse")] = c.size
    [] c.op = "pack"   -> table[Cell(c, "initRoot")] = c.size
    [] c.op = "sample" -> t \in engine
    [] OTHER           -> FALSE

\* A transform that finds its tables missing calls PreCompute.
Entered(t, c) == [at |-> IF Skips(t, c) THEN "read" ELSE IF c.op = "ntt" THEN "test" ELSE "wait",
                  call |-> c, next |-> 1]

Start(t) ==
  /\ At(t, "idle")
  /\ todo[t] # << >>
  /\ pc' = [pc EXCEPT ![t] = Entered(t, Head(todo[t]))]
  /\ todo' = [todo EXCEPT ![t] = Tail(@)]
  /\ UNCHANGED <<lock, engine, isInit, table, later, disciplined>>

\* PreCompute repeats the unlocked test before it waits for the lock.
PreComputeTests(t) ==
  /\ At(t, "test")
  /\ Move(t, IF Skips(t, pc[t].call) THEN "read" ELSE "wait")
  /\ UNCHANGED <<lock, engine, isInit, table, todo, later, disciplined>>

Lock_NeedsEngine(t) ==
  /\ At(t, "wait")
  /\ lock = Nobody
  /\ lock' = t
  /\ Move(t, IF pc[t].call.op \in {"pack", "arb"} THEN "draw" ELSE "fill")
  /\ isInit' = (pc[t].call.op # "dft" /\ isInit)
  /\ UNCHANGED <<engine, table, todo, later, disciplined>>
(***************************************************************************)
(* `omp critical`: wait for the lock.  Who has waited does not look again  *)
(* whether another thread has built the tables meanwhile.                  *)
(***************************************************************************)
Lock(t) ==
  /\ At(t, "wait")
  /\ lock = Nobody
  /\ lock' = t
  /\ Move(t, IF pc[t].call.op = "pack" THEN "draw" ELSE "fill")
  /\ isInit' = (pc[t].call.op # "dft" /\ isInit)
  /\ UNCHANGED <<engine, table, todo, later, disciplined>>

(***************************************************************************)
(* RootOfUnity inside SetParams calls GetPRNG.  A thread without an engine *)
(* would now wait for the lock that it holds: it never leaves this stage.  *)
(***************************************************************************)
DrawRoot(t) ==
  /\ At(t, "draw")
  /\ t \in engine
  /\ Move(t, "fill")
  /\ UNCHANGED <<lock, engine, isInit, table, todo, later, disciplined>>

-----------------------------------------------------------------------------
\* arb fills a table only where it is missing, whatever it was built for.
\* SetParams first empties the permutations it is about to fill.
Filled(c, name) ==
  [cell \in Cells |->
     IF cell = Cell(c, name)
     THEN IF c.op = "arb" /\ table[cell] # 0 THEN table[cell] ELSE c.size
     ELSE IF c.op = "pack" /\ name = "initRoot" /\ cell = Cell(c, "perm") THEN 0
          ELSE table[cell]]

Fill(t) ==
  LET c == pc[t].call IN
  /\ At(t, "fill")
  /\ pc[t].next <= Len(TablesOf[c.op])
  /\ table' = Filled(c, TablesOf[c.op][pc[t].next])
  /\ Put(t, "fill", pc[t].next + 1)
  /\ UNCHANGED <<lock, engine, isInit, todo, later, disciplined>>

Unlock_Rewinds(t) ==
  /\ At(t, "fill")
  /\ pc[t].next = Len(TablesOf[pc[t].call.op]) + 1
  /\ lock' = Nobody
  /\ Put(t, "read", 0)
  /\ UNCHANGED <<engine, isInit, table, todo, later, disciplined>>
\* The end of the critical section.
Unlock(t) ==
  LET c == pc[t].call IN
  /\ At(t, "fill")
  /\ pc[t].next = Len(TablesOf[c.op]) + 1
  /\ lock' = Nobody
  /\ isInit' = (c.op = "dft" \/ isInit)
  /\ engine' = IF c.op = "sample" THEN engine \cup {t} ELSE engine
  /\ Move(t, "read")
  /\ UNCHANGED <<table, todo, later, disciplined>>

\* The tables have been read.  Pack goes on to the transform.
Return(t) ==
  /\ At(t, "read")
  /\ pc' = [pc EXCEPT ![t] = IF pc[t].call.op = "pack" THEN Entered(t, TransformOf(pc[t].call))
                             ELSE Idle]
  /\ UNCHANGED <<lock, engine, isInit, table, todo, later, disciplined>>

-----------------------------------------------------------------------------
(***************************************************************************)
(* The main thread has returned from its calls and opens the region.  The  *)
(* region shares tables as the library can bear when its number-theoretic  *)
(* transforms and encodings find all their tables built and no two of its  *)
(* calls use one table for different sizes: its FFTSpecial calls are for   *)
(* the one number of slots of its ring.                                    *)
(***************************************************************************)
InRegion == UNION {CallsOf(later[t]) : t \in Threads}

Bears ==
  /\ \A c \in InRegion :
       /\ c.op \in {"ntt", "pack"} => Built(table, c)
       /\ c.op = "pack" => Built(table, TransformOf(c))
  /\ \A c, d \in InRegion : CellsOf(c) \cap CellsOf(d) # {} => c.size = d.size

Fork ==
  /\ todo[Main] = << >> /\ At(Main, "idle")
  /\ InRegion # {}
  /\ todo' = later
  /\ later' = [t \in Threads |-> << >>]
  /\ disciplined' = Bears
  /\ UNCHANGED <<lock, engine, isInit, table, pc>>

Ended == /\ InRegion = {}
         /\ \A t \in Threads : todo[t] = << >> /\ At(t, "idle")

\* The program has ended: nothing more happens.
Terminated == Ended /\ UNCHANGED vars

Step(t) == Start(t) \/ PreComputeTests(t) \/ Lock(t) \/ DrawRoot(t)
             \/ Fill(t) \/ Unlock(t) \/ Return(t)

Next == Fork \/ Terminated \/ \E t \in Threads : Step(t)

(***************************************************************************)
(* The operating system runs every thread that can run.  The lock need not *)
(* be fair: a program makes finitely many calls, so that no thread can be  *)
(* overtaken for ever.                                                     *)
(***************************************************************************)
Fairness == WF_vars(Fork) /\ \A t \in Threads : WF_vars(Step(t))

Spec == Init /\ [][Next]_vars
FairSpec == Spec /\ Fairness
-----------------------------------------------------------------------------
(***************************************************************************)
(* The type of the state.                                                  *)
(***************************************************************************)
Stages == {"idle", "test", "wait", "draw", "fill", "read"}
TypeOK ==
  /\ lock \in Threads \cup {Nobody}
  /\ engine \subseteq Threads
  /\ isInit \in BOOLEAN /\ disciplined \in BOOLEAN
  /\ table \in [Cells -> Nat]
  /\ pc \in [Threads -> [at : Stages, call : Call, next : Nat \ {0}]]
  /\ todo \in [Threads -> Seq(Call)] /\ later \in [Threads -> Seq(Call)]

(***************************************************************************)
(* A call that reads tables finds all of them complete and for its own     *)
(* ring, although it decided to read them by one unlocked test and others  *)
(* may refill them meanwhile: m_isInitialized is cleared before the fields *)
(* it vouches for change and set after they are done, the tests of fft and *)
(* arb are made under the lock, and a transform for another length of the  *)
(* same modulus rebuilds its tables.                                       *)
(***************************************************************************)
ReadersFindTheirTables ==
  disciplined => \A t \in Threads : At(t, "read") => Built(table, pc[t].call)

(***************************************************************************)
(* No two threads are inside an `omp critical` at a time.                  *)
(***************************************************************************)
Inside(t) == At(t, "draw") \/ At(t, "fill")
CriticalIsExclusive ==
  \A t, u \in Threads : Inside(t) /\ Inside(u) => t = u

(***************************************************************************)
(* Every call returns and the program ends: nobody waits for ever for the  *)
(* one lock that all the tables and engines share, whatever tables a call  *)
(* finds missing.                                                          *)
(***************************************************************************)
ProgramsEnd == <>[] Ended
=============================================================================
