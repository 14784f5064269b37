----------------------- MODULE TransformTables_proofs -----------------------
(***************************************************************************)
(* The critical section of TransformTables is exclusive, and in a program  *)
(* that shares tables as the library can bear no call ever reads a table   *)
(* that is missing, half built or of another ring: for any number of       *)
(* threads and any programs.                                               *)
(***************************************************************************)
EXTENDS TransformTables, TLAPS

(***************************************************************************)
(* Facts of the tables: which call owns which cell.                        *)
(***************************************************************************)
OwnerOf == [name \in Names |->
              CASE name \in {"Nh", "rotGroup", "ksiPows"} -> "dft"
                [] name \in {"rootReverse", "others"}     -> "ntt"
                [] name \in {"initRoot", "perm"}          -> "pack"
                [] name \in {"cachedM", "cosSin"}         -> "fft"
                [] OTHER                                  -> "arb"]

\* Every table of a call has a name, and the name tells the kind of call.
LEMMA TablesFact ==
  ASSUME NEW op \in Ops
  PROVE  /\ Len(TablesOf[op]) \in Nat
         /\ DOMAIN TablesOf[op] = 1 .. Len(TablesOf[op])
         /\ \A i \in DOMAIN TablesOf[op] :
              TablesOf[op][i] \in Names /\ OwnerOf[TablesOf[op][i]] = op
<1>1. CASE op = "dft"    BY <1>1 DEF TablesOf, Names, OwnerOf
<1>2. CASE op = "ntt"    BY <1>2 DEF TablesOf, Names, OwnerOf
<1>3. CASE op = "pack"   BY <1>3 DEF TablesOf, Names, OwnerOf
<1>4. CASE op = "fft"    BY <1>4 DEF TablesOf, Names, OwnerOf
<1>5. CASE op = "arb"    BY <1>5 DEF TablesOf, Names, OwnerOf
<1>6. CASE op = "sample" BY <1>6 DEF TablesOf, Names, OwnerOf
<1> QED BY <1>1, <1>2, <1>3, <1>4, <1>5, <1>6 DEF Ops

\* A cell carries the name of its table.
LEMMA CellName ==
  ASSUME NEW c \in Call, NEW name \in Names
  PROVE  Cell(c, name)[1] = name
BY DEF Cell

\* Calls that share a cell are of one kind.
LEMMA SharersAreAlike ==
  ASSUME NEW c \in Call, NEW d \in Call, NEW cell \in CellsOf(c), cell \in CellsOf(d)
  PROVE  c.op = d.op
<1>1. c.op \in Ops /\ d.op \in Ops BY DEF Call
<1>2. PICK i \in DOMAIN TablesOf[c.op] : cell = Cell(c, TablesOf[c.op][i]) BY DEF CellsOf
<1>3. PICK j \in DOMAIN TablesOf[d.op] : cell = Cell(d, TablesOf[d.op][j]) BY DEF CellsOf
<1>4. TablesOf[c.op][i] \in Names /\ OwnerOf[TablesOf[c.op][i]] = c.op BY <1>1, TablesFact
<1>5. TablesOf[d.op][j] \in Names /\ OwnerOf[TablesOf[d.op][j]] = d.op BY <1>1, TablesFact
<1>6. cell[1] = TablesOf[c.op][i] BY <1>2, <1>4, CellName
<1>7. cell[1] = TablesOf[d.op][j] BY <1>3, <1>5, CellName
<1> QED BY <1>4, <1>5, <1>6, <1>7

\* The tables of each kind of call that tests a table before the lock.
LEMMA CellsFact ==
  ASSUME NEW c \in Call
  PROVE  /\ c.op = "dft" => CellsOf(c) = {<<"Nh", 0, 0>>, <<"rotGroup", 0, 0>>, <<"ksiPows", 0, 0>>}
                            /\ Cell(c, "Nh") = <<"Nh", 0, 0>>
         /\ c.op = "ntt" => CellsOf(c) = {<<"rootReverse", c.key, 0>>, <<"others", c.key, 0>>}
                            /\ Cell(c, "rootReverse") = <<"rootReverse", c.key, 0>>
         /\ c.op = "pack" => CellsOf(c) = {<<"initRoot", c.key, c.size>>, <<"perm", 0, c.size>>}
                            /\ Cell(c, "initRoot") = <<"initRoot", c.key, c.size>>
                            /\ Cell(c, "perm") = <<"perm", 0, c.size>>
         /\ c.op = "sample" => CellsOf(c) = {}
<1>1. CASE c.op = "dft"
  <2>1. TablesOf[c.op] = <<"Nh", "rotGroup", "ksiPows">> BY <1>1 DEF TablesOf
  <2>2. DOMAIN TablesOf[c.op] = 1..3 BY <2>1
  <2> QED BY <1>1, <2>1, <2>2 DEF CellsOf, Cell
<1>2. CASE c.op = "ntt"
  <2>1. TablesOf[c.op] = <<"rootReverse", "others">> BY <1>2 DEF TablesOf
  <2>2. DOMAIN TablesOf[c.op] = 1..2 BY <2>1
  <2> QED BY <1>2, <2>1, <2>2 DEF CellsOf, Cell
<1>3. CASE c.op = "pack"
  <2>1. TablesOf[c.op] = <<"initRoot", "perm">> BY <1>3 DEF TablesOf
  <2>2. DOMAIN TablesOf[c.op] = 1..2 BY <2>1
  <2> QED BY <1>3, <2>1, <2>2 DEF CellsOf, Cell
<1>4. CASE c.op = "sample"
  <2>1. TablesOf[c.op] = << >> BY <1>4 DEF TablesOf
  <2> QED BY <1>4, <2>1 DEF CellsOf
<1> QED BY <1>1, <1>2, <1>3, <1>4

\* A transform is a call of the same size and key.
LEMMA TransformFact ==
  ASSUME NEW c \in Call
  PROVE  /\ TransformOf(c) \in Call
         /\ TransformOf(c).op = "ntt" /\ TransformOf(c).size = c.size
BY DEF Call, Ops, TransformOf

\* The calls of a sequence are calls, and those of its tail are among them.
LEMMA SequenceFact ==
  ASSUME NEW s \in Seq(Call)
  PROVE  /\ CallsOf(s) \subseteq Call
         /\ s = << >> => CallsOf(s) = {}
         /\ s # << >> => /\ Head(s) \in CallsOf(s)
                         /\ CallsOf(Tail(s)) \subseteq CallsOf(s)
                         /\ Tail(s) \in Seq(Call)
BY DEF CallsOf

LEMMA AllCallsFact ==
  /\ AllCalls \subseteq Call
  /\ \A c \in AllCalls : c.op = "pack" => TransformOf(c) \in AllCalls
  /\ \A c \in AllCalls : CellsOf(c) \subseteq Cells
  /\ \A p \in Programs : /\ CallsOf(p.alone) \subseteq AllCalls
                         /\ \A t \in Threads : CallsOf(p.parallel[t]) \subseteq AllCalls
<1> DEFINE written == UNION {CallsOf(p.alone) \cup UNION {CallsOf(p.parallel[t]) : t \in Threads}
                              : p \in Programs}
<1>0. AllCalls = written \cup {TransformOf(c) : c \in {d \in written : d.op = "pack"}}
  BY DEF AllCalls
<1>1. \A p \in Programs : /\ CallsOf(p.alone) \subseteq written
                          /\ \A t \in Threads : CallsOf(p.parallel[t]) \subseteq written
  OBVIOUS
<1>2. written \subseteq Call
  <2>1. \A p \in Programs : p.alone \in Seq(Call) /\ \A t \in Threads : p.parallel[t] \in Seq(Call)
    BY ProgramsAssumption
  <2> QED BY <2>1, SequenceFact
<1> HIDE DEF written
<1>3. AllCalls \subseteq Call BY <1>0, <1>2, TransformFact
<1>4. \A c \in AllCalls : c.op = "pack" => TransformOf(c) \in AllCalls
  <2> SUFFICES ASSUME NEW c \in AllCalls, c.op = "pack" PROVE TransformOf(c) \in AllCalls
    OBVIOUS
  <2>1. c \in written BY <1>0, <1>2, TransformFact
  <2> QED BY <2>1, <1>0
<1>5. \A c \in AllCalls : CellsOf(c) \subseteq Cells BY DEF Cells
<1> QED BY <1>0, <1>1, <1>3, <1>4, <1>5

-----------------------------------------------------------------------------
(***************************************************************************)
(* The inductive invariant.                                                *)
(***************************************************************************)
Sharing(c, d) == CellsOf(c) \cap CellsOf(d) # {}

\* Only calls of the programs, and their transforms, are made.
Known ==
  \A t \in Threads : /\ CallsOf(todo[t]) \subseteq AllCalls
                     /\ CallsOf(later[t]) \subseteq AllCalls
                     /\ pc[t].call \in AllCalls \cup {Idle.call}
                     /\ pc[t].at \in {"test", "wait", "draw", "fill"} => pc[t].call \in AllCalls
                     /\ At(t, "test") => pc[t].call.op = "ntt"

\* The lock names the thread inside the critical section.
LockNames == \A t \in Threads : Inside(t) <=> lock = t

\* A thread has filled the tables up to the one that is next.
FillProgress ==
  \A t \in Threads :
    /\ pc[t].at \in {"test", "wait", "draw"} => pc[t].next = 1
    /\ At(t, "fill") =>
         /\ pc[t].next <= Len(TablesOf[pc[t].call.op]) + 1
         /\ \A i \in 1 .. (pc[t].next - 1) :
              table[Cell(pc[t].call, TablesOf[pc[t].call.op][i])] = pc[t].call.size

\* A Bluestein table is missing or right.
ArbTables ==
  \A c \in AllCalls : c.op = "arb" => \A cell \in CellsOf(c) : table[cell] \in {0, c.size}

\* m_isInitialized is off while the tables it vouches for change.
DftFillClears == \A t \in Threads : Inside(t) /\ pc[t].call.op = "dft" => ~ isInit

\* Unless somebody is filling its tables, a call whose test succeeds finds them.
Untouched(c) == \A t \in Threads : At(t, "fill") => ~ Sharing(pc[t].call, c)
TestsVouch ==
  \A t \in Threads, c \in AllCalls :
    c.op \in {"dft", "ntt", "pack"} /\ Skips(t, c) /\ Untouched(c) => Built(table, c)

\* Before the fork the main thread is alone.
Solo == \A t \in Threads \ {Main} : At(t, "idle") /\ todo[t] = << >>
ForksOnce == InRegion # {} => Solo

\* After it the calls still to return share tables as the library can bear.
Pending(t) == CallsOf(todo[t]) \cup {c \in {pc[t].call} : ~ At(t, "idle")}
Shared ==
  /\ \A t \in Threads : \A c \in Pending(t) : c.op \in {"ntt", "pack"} =>
       Built(table, c) /\ (c.op = "pack" => Built(table, TransformOf(c)))
  /\ \A t, u \in Threads : \A c \in Pending(t), d \in Pending(u) :
       Sharing(c, d) => c.size = d.size
  /\ \A t \in Threads : pc[t].at \in {"test", "wait", "draw", "fill"} =>
       pc[t].call.op \notin {"ntt", "pack"}
Phases == disciplined => Solo \/ Shared

IInv ==
  /\ TypeOK /\ Known /\ LockNames /\ FillProgress /\ ArbTables /\ DftFillClears
  /\ TestsVouch /\ ForksOnce /\ Phases /\ ReadersFindTheirTables

-----------------------------------------------------------------------------
LEMMA EnteredFact ==
  ASSUME NEW t \in Threads, NEW c \in Call
  PROVE  /\ Entered(t, c) \in [at : Stages, call : Call, next : Nat \ {0}]
         /\ Entered(t, c).call = c /\ Entered(t, c).next = 1
         /\ Entered(t, c).at \in {"read", "test", "wait"}
         /\ Entered(t, c).at = "read" <=> Skips(t, c)
         /\ Entered(t, c).at \in {"test", "wait"} <=> ~ Skips(t, c)
         /\ Entered(t, c).at = "test" => c.op = "ntt"
BY DEF Entered, Stages

LEMMA IdleFact ==
  /\ Idle \in [at : Stages, call : Call, next : Nat \ {0}]
  /\ Idle.at = "idle" /\ Idle.call \in Call /\ Idle.call.op = "sample" /\ Idle.next = 1
BY DEF Idle, Stages, Call, Ops

LEMMA FilledFact ==
  ASSUME NEW c \in Call, NEW name \in Names, table \in [Cells -> Nat]
  PROVE  /\ Filled(c, name) \in [Cells -> Nat]
         /\ \A cell \in Cells :
              /\ cell = Cell(c, name) =>
                   Filled(c, name)[cell] = IF c.op = "arb" /\ table[cell] # 0
                                           THEN table[cell] ELSE c.size
              /\ cell # Cell(c, name) /\ ~ (c.op = "pack" /\ name = "initRoot" /\ cell = Cell(c, "perm"))
                   => Filled(c, name)[cell] = table[cell]
BY DEF Filled, Call, TypeOK

\* The state keeps its type.
LEMMA TypeStep ==
  ASSUME TypeOK, [Next]_vars
  PROVE  TypeOK'
<1> USE ThreadsAssumption
<1>1. CASE Fork
  <2>1. Bears \in BOOLEAN BY DEF Bears
  <2>2. disciplined' \in BOOLEAN BY <1>1, <2>1 DEF Fork
  <2>3. [t \in Threads |-> << >>] \in [Threads -> Seq(Call)] OBVIOUS
  <2>4. later' \in [Threads -> Seq(Call)] BY <1>1, <2>3 DEF Fork
  <2> QED BY <1>1, <2>2, <2>4 DEF Fork, TypeOK
<1>2. CASE UNCHANGED vars BY <1>2 DEF vars, TypeOK
<1>3. ASSUME NEW t \in Threads, Step(t) PROVE TypeOK'
  <2>0. pc[t] \in [at : Stages, call : Call, next : Nat \ {0}] BY DEF TypeOK
  <2>1. CASE Start(t)
    <3>1. Head(todo[t]) \in Call /\ Tail(todo[t]) \in Seq(Call) BY <2>1 DEF Start, TypeOK
    <3>2. Entered(t, Head(todo[t])) \in [at : Stages, call : Call, next : Nat \ {0}]
      BY <3>1, EnteredFact
    <3> QED BY <2>1, <3>1, <3>2 DEF Start, TypeOK
  <2>2. CASE Lock(t) BY <2>0, <2>2 DEF Lock, Move, Put, TypeOK, Stages
  <2>3. CASE PreComputeTests(t) BY <2>0, <2>3 DEF PreComputeTests, Move, Put, TypeOK, Stages
  <2>4. CASE DrawRoot(t) BY <2>0, <2>4 DEF DrawRoot, Move, Put, TypeOK, Stages
  <2>5. CASE Fill(t)
    <3>1. pc[t].call.op \in Ops BY <2>0 DEF Call
    <3>2. pc[t].next \in DOMAIN TablesOf[pc[t].call.op] BY <2>0, <2>5, <3>1, TablesFact DEF Fill
    <3>3. TablesOf[pc[t].call.op][pc[t].next] \in Names BY <3>1, <3>2, TablesFact
    <3>4. table' \in [Cells -> Nat]
      BY <2>0, <2>5, <3>3, FilledFact DEF Fill, TypeOK
    <3> QED BY <2>0, <2>5, <3>4 DEF Fill, Put, TypeOK, Stages
  <2>6. CASE Unlock(t) BY <2>0, <2>6 DEF Unlock, Move, Put, TypeOK, Stages
  <2>7. CASE Return(t)
    <3>1. TransformOf(pc[t].call) \in Call BY <2>0, TransformFact
    <3>2. pc'[t] \in [at : Stages, call : Call, next : Nat \ {0}]
      BY <2>7, <3>1, EnteredFact, IdleFact DEF Return, TypeOK
    <3> QED BY <2>7, <3>2 DEF Return, TypeOK
  <2> QED BY <1>3, <2>1, <2>2, <2>3, <2>4, <2>5, <2>6, <2>7 DEF Step
<1> QED BY <1>1, <1>2, <1>3 DEF Next, Terminated

-----------------------------------------------------------------------------
\* What a step of t leaves to the others.
LEMMA StepFrame ==
  ASSUME TypeOK, NEW t \in Threads, Step(t)
  PROVE  /\ \A u \in Threads \ {t} : pc'[u] = pc[u] /\ todo'[u] = todo[u]
         /\ later' = later /\ disciplined' = disciplined
         /\ table' = table \/ Fill(t)
<1>1. CASE Start(t) BY <1>1 DEF Start, TypeOK
<1>2. CASE Lock(t) BY <1>2 DEF Lock, Move, Put, TypeOK
<1>3. CASE PreComputeTests(t) BY <1>3 DEF PreComputeTests, Move, Put, TypeOK
<1>4. CASE DrawRoot(t) BY <1>4 DEF DrawRoot, Move, Put, TypeOK
<1>5. CASE Fill(t) BY <1>5 DEF Fill, Put, TypeOK
<1>6. CASE Unlock(t) BY <1>6 DEF Unlock, Move, Put, TypeOK
<1>7. CASE Return(t) BY <1>7 DEF Return, TypeOK
<1> QED BY <1>1, <1>2, <1>3, <1>4, <1>5, <1>6, <1>7 DEF Step

\* Where a step takes its own thread.
LEMMA StepOwn ==
  ASSUME TypeOK, NEW t \in Threads
  PROVE  /\ Start(t) => /\ pc[t].at = "idle" /\ pc'[t] = Entered(t, Head(todo[t]))
                        /\ Head(todo[t]) \in Call
                        /\ Head(todo[t]) \in CallsOf(todo[t])
                        /\ CallsOf(todo'[t]) \subseteq CallsOf(todo[t])
         /\ Lock(t) => /\ pc[t].at = "wait" /\ pc'[t].at \in {"draw", "fill"}
                       /\ pc'[t].call = pc[t].call /\ pc'[t].next = pc[t].next
         /\ PreComputeTests(t) => /\ pc[t].at = "test" /\ pc'[t].at \in {"read", "wait"}
                                  /\ pc'[t].at = "read" <=> Skips(t, pc[t].call)
                                  /\ pc'[t].call = pc[t].call /\ pc'[t].next = pc[t].next
         /\ DrawRoot(t) => /\ pc[t].at = "draw" /\ pc'[t].at = "fill"
                           /\ pc'[t].call = pc[t].call /\ pc'[t].next = pc[t].next
         /\ Fill(t) => /\ pc[t].at = "fill" /\ pc'[t].at = "fill"
                       /\ pc'[t].call = pc[t].call /\ pc'[t].next = pc[t].next + 1
         /\ Unlock(t) => /\ pc[t].at = "fill" /\ pc'[t].at = "read"
                         /\ pc'[t].call = pc[t].call
         /\ Return(t) => /\ pc[t].at = "read"
                         /\ pc[t].call.op = "pack" => pc'[t] = Entered(t, TransformOf(pc[t].call))
                         /\ pc[t].call.op # "pack" => pc'[t] = Idle
         /\ ~ Start(t) /\ Step(t) => todo'[t] = todo[t]
<1>0. pc[t] \in [at : Stages, call : Call, next : Nat \ {0}] /\ todo[t] \in Seq(Call) BY DEF TypeOK
<1>1. ASSUME Start(t)
      PROVE  /\ pc[t].at = "idle" /\ pc'[t] = Entered(t, Head(todo[t]))
             /\ Head(todo[t]) \in CallsOf(todo[t]) /\ Head(todo[t]) \in Call
             /\ CallsOf(todo'[t]) \subseteq CallsOf(todo[t])
  <2>1. todo[t] # << >> /\ todo'[t] = Tail(todo[t]) BY <1>1 DEF Start, TypeOK
  <2> QED BY <1>0, <1>1, <2>1, SequenceFact DEF Start, At, TypeOK
<1>2. ASSUME Lock(t)
      PROVE  /\ pc[t].at = "wait" /\ pc'[t].at \in {"draw", "fill"}
             /\ pc'[t].call = pc[t].call /\ pc'[t].next = pc[t].next
  BY <1>2 DEF Lock, Move, Put, TypeOK, At
<1>3. ASSUME PreComputeTests(t)
      PROVE  /\ pc[t].at = "test" /\ pc'[t].at \in {"read", "wait"}
             /\ pc'[t].at = "read" <=> Skips(t, pc[t].call)
             /\ pc'[t].call = pc[t].call /\ pc'[t].next = pc[t].next
  BY <1>3 DEF PreComputeTests, Move, Put, TypeOK, At
<1>4. ASSUME DrawRoot(t)
      PROVE  /\ pc[t].at = "draw" /\ pc'[t].at = "fill"
             /\ pc'[t].call = pc[t].call /\ pc'[t].next = pc[t].next
  BY <1>4 DEF DrawRoot, Move, Put, TypeOK, At
<1>5. ASSUME Fill(t)
      PROVE  /\ pc[t].at = "fill" /\ pc'[t].at = "fill"
             /\ pc'[t].call = pc[t].call /\ pc'[t].next = pc[t].next + 1
  BY <1>5 DEF Fill, Put, TypeOK, At
<1>6. ASSUME Unlock(t)
      PROVE  pc[t].at = "fill" /\ pc'[t].at = "read" /\ pc'[t].call = pc[t].call
  BY <1>6 DEF Unlock, Move, Put, TypeOK, At
<1>7. ASSUME Return(t)
      PROVE  /\ pc[t].at = "read"
             /\ pc[t].call.op = "pack" => pc'[t] = Entered(t, TransformOf(pc[t].call))
             /\ pc[t].call.op # "pack" => pc'[t] = Idle
  BY <1>7 DEF Return, TypeOK, At
<1>8. ASSUME ~ Start(t), Step(t) PROVE todo'[t] = todo[t]
  BY <1>8 DEF Step, Lock, PreComputeTests, DrawRoot, Fill, Unlock, Return
<1> QED BY <1>1, <1>2, <1>3, <1>4, <1>5, <1>6, <1>7, <1>8

\* Only the programs' calls are made.
LEMMA KnownStep ==
  ASSUME TypeOK, Known, [Next]_vars
  PROVE  Known'
<1>1. CASE Fork
  <2> SUFFICES ASSUME NEW u \in Threads
               PROVE  /\ CallsOf(todo'[u]) \subseteq AllCalls
                      /\ CallsOf(later'[u]) \subseteq AllCalls
                      /\ pc'[u].call \in AllCalls \cup {Idle.call}
                      /\ pc'[u].at \in {"test", "wait", "draw", "fill"} => pc'[u].call \in AllCalls
                      /\ pc'[u].at = "test" => pc'[u].call.op = "ntt"
    BY DEF Known, At
  <2>1. todo' = later /\ later'[u] = << >> /\ pc' = pc BY <1>1 DEF Fork
  <2>2. CallsOf(later'[u]) = {} BY <2>1 DEF CallsOf
  <2> QED BY <2>1, <2>2 DEF Known, At
<1>2. CASE UNCHANGED vars BY <1>2 DEF vars, Known, At
<1>3. ASSUME NEW t \in Threads, Step(t) PROVE Known'
  <2>0. \A u \in Threads : /\ CallsOf(todo[u]) \subseteq AllCalls
                           /\ CallsOf(later[u]) \subseteq AllCalls
                           /\ pc[u].call \in AllCalls \cup {Idle.call}
                           /\ pc[u].at \in {"test", "wait", "draw", "fill"} => pc[u].call \in AllCalls
                           /\ pc[u].at = "test" => pc[u].call.op = "ntt"
    BY DEF Known, At
  <2>1. \A u \in Threads \ {t} : pc'[u] = pc[u] /\ todo'[u] = todo[u] BY <1>3, StepFrame
  <2>2. later' = later BY <1>3, StepFrame
  <2>3. CallsOf(todo'[t]) \subseteq AllCalls BY <1>3, <2>0, StepOwn
  <2>4. /\ pc'[t].call \in AllCalls \cup {Idle.call}
        /\ pc'[t].at \in {"test", "wait", "draw", "fill"} => pc'[t].call \in AllCalls
        /\ pc'[t].at = "test" => pc'[t].call.op = "ntt"
    <3>1. CASE Start(t) BY <2>0, <3>1, StepOwn, EnteredFact
    <3>2. CASE Lock(t) BY <2>0, <3>2, StepOwn
    <3>3. CASE PreComputeTests(t) BY <2>0, <3>3, StepOwn
    <3>4. CASE DrawRoot(t) BY <2>0, <3>4, StepOwn
    <3>5. CASE Fill(t) BY <2>0, <3>5, StepOwn
    <3>6. CASE Unlock(t) BY <2>0, <3>6, StepOwn
    <3>7. CASE Return(t)
      <4>1. CASE pc[t].call.op # "pack" BY <3>7, <4>1, StepOwn, IdleFact
      <4>2. CASE pc[t].call.op = "pack"
        <5>1. pc[t].call \in AllCalls BY <2>0, <4>2, IdleFact
        <5>2. TransformOf(pc[t].call) \in AllCalls /\ TransformOf(pc[t].call) \in Call
          BY <4>2, <5>1, AllCallsFact
        <5> QED BY <3>7, <4>2, <5>2, StepOwn, EnteredFact
      <4> QED BY <4>1, <4>2
    <3> QED BY <1>3, <3>1, <3>2, <3>3, <3>4, <3>5, <3>6, <3>7 DEF Step
  <2> QED BY <2>0, <2>1, <2>2, <2>3, <2>4 DEF Known, At
<1> QED BY <1>1, <1>2, <1>3 DEF Next, Terminated

-----------------------------------------------------------------------------
\* The lock names the one thread that is inside.
LEMMA LockStep ==
  ASSUME TypeOK, LockNames, [Next]_vars
  PROVE  LockNames'
<1> USE ThreadsAssumption
<1>0. \A u \in Threads : pc[u].at \in {"draw", "fill"} <=> lock = u BY DEF LockNames, Inside, At
<1>1. CASE Fork BY <1>0, <1>1 DEF Fork, LockNames, Inside, At
<1>2. CASE UNCHANGED vars BY <1>0, <1>2 DEF vars, LockNames, Inside, At
<1>3. ASSUME NEW t \in Threads, Step(t) PROVE LockNames'
  <2>1. \A u \in Threads \ {t} : pc'[u] = pc[u] BY <1>3, StepFrame
  <2>2. SUFFICES \A u \in Threads : pc'[u].at \in {"draw", "fill"} <=> lock' = u
    BY DEF LockNames, Inside, At
  <2>3. CASE Start(t)
    <3>1. lock' = lock BY <2>3 DEF Start
    <3>2. pc[t].at = "idle" /\ pc'[t].at \in {"read", "test", "wait"} BY <2>3, StepOwn, EnteredFact
    <3> QED BY <1>0, <2>1, <3>1, <3>2
  <2>4. CASE Lock(t)
    <3>1. lock = Nobody /\ lock' = t BY <2>4 DEF Lock
    <3> QED BY <1>0, <2>1, <2>4, <3>1, StepOwn
  <2>5. CASE PreComputeTests(t)
    <3>1. lock' = lock BY <2>5 DEF PreComputeTests
    <3> QED BY <1>0, <2>1, <2>5, <3>1, StepOwn
  <2>6. CASE DrawRoot(t)
    <3>1. lock' = lock BY <2>6 DEF DrawRoot
    <3> QED BY <1>0, <2>1, <2>6, <3>1, StepOwn
  <2>7. CASE Fill(t)
    <3>1. lock' = lock BY <2>7 DEF Fill
    <3> QED BY <1>0, <2>1, <2>7, <3>1, StepOwn
  <2>8. CASE Unlock(t)
    <3>1. lock' = Nobody BY <2>8 DEF Unlock
    <3> QED BY <1>0, <2>1, <2>8, <3>1, StepOwn
  <2>9. CASE Return(t)
    <3>1. lock' = lock BY <2>9 DEF Return
    <3>0. TransformOf(pc[t].call) \in Call BY TransformFact DEF TypeOK
    <3>2. pc'[t].at \in {"read", "test", "wait", "idle"} BY <2>9, <3>0, StepOwn, EnteredFact, IdleFact
    <3> QED BY <1>0, <2>1, <2>9, <3>1, <3>2, StepOwn
  <2> QED BY <1>3, <2>3, <2>4, <2>5, <2>6, <2>7, <2>8, <2>9 DEF Step
<1> QED BY <1>1, <1>2, <1>3 DEF Next, Terminated

(***************************************************************************)
(* What Fill writes: the next table of its call, which nobody else is      *)
(* filling, and for an encoding's m_initRoot also the permutations.        *)
(***************************************************************************)
LEMMA FillFact ==
  ASSUME TypeOK, Known, NEW t \in Threads, Fill(t)
  PROVE  LET d == pc[t].call
             cell == Cell(d, TablesOf[d.op][pc[t].next])
         IN  /\ d \in AllCalls /\ d \in Call /\ d.op \in Ops
             /\ pc[t].next \in 1 .. Len(TablesOf[d.op])
             /\ TablesOf[d.op][pc[t].next] \in Names
             /\ cell \in CellsOf(d) /\ cell \in Cells
             /\ d.op # "arb" => table'[cell] = d.size
             /\ d.op = "arb" => table'[cell] = IF table[cell] # 0 THEN table[cell] ELSE d.size
             /\ \A x \in Cells : x \notin CellsOf(d) => table'[x] = table[x]
             /\ d.op # "pack" => \A x \in Cells : x # cell => table'[x] = table[x]
             /\ d.op = "pack" => (pc[t].next = 2 => \A x \in Cells : x # cell => table'[x] = table[x])
<1> DEFINE d == pc[t].call
           name == TablesOf[d.op][pc[t].next]
           cell == Cell(d, name)
<1>0. pc[t] \in [at : Stages, call : Call, next : Nat \ {0}] BY DEF TypeOK
<1>1. d \in Call /\ d.op \in Ops BY <1>0 DEF Call
<1>2. pc[t].at = "fill" BY DEF Fill, At
<1>3. d \in AllCalls BY <1>2 DEF Known
<1>4. pc[t].next \in 1 .. Len(TablesOf[d.op]) BY <1>0, <1>1, TablesFact DEF Fill
<1>5. name \in Names BY <1>1, <1>4, TablesFact
<1>6. cell \in CellsOf(d) BY <1>1, <1>4, TablesFact DEF CellsOf
<1>7. CellsOf(d) \subseteq Cells BY <1>3, AllCallsFact
<1>8. table' = Filled(d, name) BY DEF Fill
<1>9. table \in [Cells -> Nat] BY DEF TypeOK
<1>10. d.op = "pack" => Cell(d, "perm") \in CellsOf(d) BY <1>1, CellsFact
<1>11. d.op = "pack" /\ pc[t].next = 2 => name = "perm" BY DEF TablesOf
<1> HIDE DEF d, name, cell
<1>12. /\ cell \in Cells
       /\ d.op # "arb" => table'[cell] = d.size
       /\ d.op = "arb" => table'[cell] = IF table[cell] # 0 THEN table[cell] ELSE d.size
  BY <1>1, <1>5, <1>6, <1>7, <1>8, <1>9, FilledFact DEF cell
<1>13. \A x \in Cells : x \notin CellsOf(d) => table'[x] = table[x]
  BY <1>1, <1>5, <1>6, <1>8, <1>9, <1>10, FilledFact DEF cell
<1>14. d.op # "pack" \/ name # "initRoot" => \A x \in Cells : x # cell => table'[x] = table[x]
  BY <1>1, <1>5, <1>8, <1>9, FilledFact DEF cell
<1> QED BY <1>1, <1>3, <1>4, <1>5, <1>6, <1>11, <1>12, <1>13, <1>14 DEF d, name, cell

\* A filled table stays filled until the critical section ends.
LEMMA FillStep ==
  ASSUME TypeOK, Known, LockNames, FillProgress, ArbTables, [Next]_vars
  PROVE  FillProgress'
<1>0. \A u \in Threads : pc[u].at \in {"draw", "fill"} <=> lock = u BY DEF LockNames, Inside, At
<1>1. CASE Fork
  <2>1. pc' = pc /\ table' = table BY <1>1 DEF Fork
  <2> QED BY <2>1 DEF FillProgress, At
<1>2. CASE UNCHANGED vars BY <1>2 DEF vars, FillProgress, At
<1>3. ASSUME NEW t \in Threads, Step(t), NEW u \in Threads
      PROVE  /\ pc'[u].at \in {"test", "wait", "draw"} => pc'[u].next = 1
             /\ pc'[u].at = "fill" =>
                  /\ pc'[u].next <= Len(TablesOf[pc'[u].call.op]) + 1
                  /\ \A i \in 1 .. (pc'[u].next - 1) :
                       table'[Cell(pc'[u].call, TablesOf[pc'[u].call.op][i])] = pc'[u].call.size
  <2>0. /\ pc[u].at \in {"test", "wait", "draw"} => pc[u].next = 1
        /\ pc[u].at = "fill" =>
             /\ pc[u].next <= Len(TablesOf[pc[u].call.op]) + 1
             /\ \A i \in 1 .. (pc[u].next - 1) :
                  table[Cell(pc[u].call, TablesOf[pc[u].call.op][i])] = pc[u].call.size
    BY DEF FillProgress, At
  <2>1. CASE u # t
    <3>1. pc'[u] = pc[u] BY <1>3, <2>1, StepFrame
    <3>2. CASE table' = table BY <2>0, <3>1, <3>2
    <3>3. CASE Fill(t)
      <4>1. pc[t].at = "fill" BY <3>3, StepOwn
      <4>2. pc[u].at # "fill" BY <1>0, <2>1, <4>1
      <4> QED BY <2>0, <3>1, <4>2
    <3> QED BY <1>3, <3>2, <3>3, StepFrame
  <2>2. CASE u = t
    <3>0. pc[t].call \in Call /\ pc[t].call.op \in Ops BY DEF TypeOK, Call
    <3>1. CASE Start(t) BY <2>2, <3>1, StepOwn, EnteredFact
    <3>2. CASE Lock(t)
      <4>1. pc'[t].next = 1 BY <2>0, <2>2, <3>2, StepOwn
      <4>2. Len(TablesOf[pc[t].call.op]) \in Nat BY <3>0, TablesFact
      <4>3. pc'[t].call = pc[t].call BY <3>2, StepOwn
      <4> QED BY <2>2, <4>1, <4>2, <4>3
    <3>3. CASE PreComputeTests(t) BY <2>0, <2>2, <3>3, StepOwn
    <3>4. CASE DrawRoot(t)
      <4>1. pc'[t].next = 1 BY <2>0, <2>2, <3>4, StepOwn
      <4>2. Len(TablesOf[pc[t].call.op]) \in Nat BY <3>0, TablesFact
      <4>3. pc'[t].call = pc[t].call BY <3>4, StepOwn
      <4> QED BY <2>2, <3>4, <4>1, <4>2, <4>3, StepOwn
    <3>5. CASE Fill(t)
      <4> DEFINE d == pc[t].call
                 n == pc[t].next
                 cell(i) == Cell(d, TablesOf[d.op][i])
      <4>1. /\ pc'[t].at = "fill" /\ pc'[t].call = d /\ pc'[t].next = n + 1
            /\ pc[t].at = "fill"
        BY <3>5, StepOwn
      <4>2. /\ d \in AllCalls /\ n \in 1 .. Len(TablesOf[d.op])
            /\ cell(n) \in CellsOf(d)
            /\ d.op # "arb" => table'[cell(n)] = d.size
            /\ d.op = "arb" => table'[cell(n)] = IF table[cell(n)] # 0 THEN table[cell(n)] ELSE d.size
            /\ d.op # "pack" \/ n = 2 => \A x \in Cells : x # cell(n) => table'[x] = table[x]
        BY <3>5, FillFact
      <4>3. \A i \in 1 .. (n - 1) : table[cell(i)] = d.size BY <2>0, <2>2, <4>1
      <4>4. d.op = "arb" => table[cell(n)] \in {0, d.size} BY <4>2 DEF ArbTables
      <4>5. table'[cell(n)] = d.size BY <4>2, <4>4
      <4>6. \A i \in 1 .. n : cell(i) \in Cells
        <5>1. Len(TablesOf[d.op]) \in Nat /\ DOMAIN TablesOf[d.op] = 1 .. Len(TablesOf[d.op])
          BY <3>0, TablesFact
        <5>2. CellsOf(d) \subseteq Cells BY <4>2, AllCallsFact
        <5>3. \A i \in 1 .. n : i \in DOMAIN TablesOf[d.op] BY <4>2, <5>1
        <5>4. \A i \in DOMAIN TablesOf[d.op] : cell(i) \in CellsOf(d) BY DEF CellsOf
        <5> QED BY <5>2, <5>3, <5>4
      <4>7. d.op = "pack" => Len(TablesOf[d.op]) = 2 BY DEF TablesOf
      <4>8. Len(TablesOf[d.op]) \in Nat BY <3>0, TablesFact
      <4> HIDE DEF d, n, cell
      <4>9. ASSUME NEW i \in 1 .. n PROVE table'[cell(i)] = d.size
        <5>1. CASE cell(i) = cell(n) BY <4>5, <5>1
        <5>2. CASE cell(i) # cell(n)
          <6>1. i # n BY <5>2
          <6>2. i \in 1 .. (n - 1) BY <4>2, <4>8, <6>1
          <6>3. d.op # "pack" \/ n = 2
            <7>1. n \in 1 .. Len(TablesOf[d.op]) BY <4>2
            <7>2. ASSUME d.op = "pack" PROVE n = 2
              <8>1. n \in 1 .. 2 BY <4>7, <7>1, <7>2
              <8>2. n - 1 # 0 BY <6>2, <8>1
              <8> QED BY <8>1, <8>2
            <7> QED BY <7>2
          <6> QED BY <4>2, <4>3, <4>6, <5>2, <6>2, <6>3
        <5> QED BY <5>1, <5>2
      <4>10. n + 1 <= Len(TablesOf[d.op]) + 1 /\ n \in Nat BY <4>2, <4>8
      <4>11. \A i \in 1 .. (n + 1 - 1) : table'[cell(i)] = d.size BY <4>9, <4>10
      <4> QED BY <2>2, <4>1, <4>10, <4>11 DEF cell
    <3>6. CASE Unlock(t) BY <2>2, <3>6, StepOwn
    <3>7. CASE Return(t)
      <4>1. TransformOf(pc[t].call) \in Call BY <3>0, TransformFact
      <4> QED BY <2>2, <3>7, <4>1, StepOwn, EnteredFact, IdleFact
    <3> QED BY <1>3, <3>1, <3>2, <3>3, <3>4, <3>5, <3>6, <3>7 DEF Step
  <2> QED BY <2>1, <2>2
<1>4. ASSUME NEW t \in Threads, Step(t) PROVE FillProgress'
  BY <1>3, <1>4 DEF FillProgress, At
<1> QED BY <1>1, <1>2, <1>4 DEF Next, Terminated

\* A step of the tables leaves Bluestein's either missing or right.
LEMMA ArbStep ==
  ASSUME TypeOK, Known, ArbTables, [Next]_vars
  PROVE  ArbTables'
<1>1. CASE table' = table BY <1>1 DEF ArbTables
<1>2. ASSUME NEW t \in Threads, Fill(t) PROVE ArbTables'
  <2> SUFFICES ASSUME NEW c \in AllCalls, c.op = "arb", NEW x \in CellsOf(c)
               PROVE  table'[x] \in {0, c.size}
    BY DEF ArbTables
  <2> DEFINE d == pc[t].call
             cell == Cell(d, TablesOf[d.op][pc[t].next])
  <2>1. table[x] \in {0, c.size} BY DEF ArbTables
  <2>2. c \in Call /\ x \in Cells BY AllCallsFact
  <2>3. CASE x \notin CellsOf(d)
    <3>1. table'[x] = table[x] BY <1>2, <2>2, <2>3, FillFact
    <3> QED BY <2>1, <3>1
  <2>4. CASE x \in CellsOf(d)
    <3>1. d \in Call /\ d \in AllCalls BY <1>2, FillFact
    <3>2. d.op = "arb" BY <2>2, <2>4, <3>1, SharersAreAlike
    <3>3. /\ table'[cell] = IF table[cell] # 0 THEN table[cell] ELSE d.size
          /\ x # cell => table'[x] = table[x]
      BY <1>2, <2>2, <3>2, FillFact
    <3>4. c.size = d.size
      <4>1. PICK i \in DOMAIN TablesOf[c.op] : x = Cell(c, TablesOf[c.op][i]) BY DEF CellsOf
      <4>2. PICK j \in DOMAIN TablesOf[d.op] : x = Cell(d, TablesOf[d.op][j]) BY <2>4 DEF CellsOf
      <4>3. TablesOf["arb"] = <<"root", "powers", "RB">> BY DEF TablesOf
      <4>4. TablesOf["arb"][i] \in {"root", "powers", "RB"} /\ TablesOf["arb"][j] \in {"root", "powers", "RB"}
        BY <3>2, <4>3
      <4>5. x[2] = c.key BY <4>1, <4>4 DEF Cell
      <4>6. x[2] = d.key BY <3>2, <4>2, <4>4 DEF Cell
      <4> QED BY <3>1, <3>2, <4>5, <4>6, RootAssumption
    <3> QED BY <2>1, <3>3, <3>4
  <2> QED BY <2>3, <2>4
<1>3. CASE Fork BY <1>1, <1>3 DEF Fork
<1>4. CASE UNCHANGED vars BY <1>1, <1>4 DEF vars
<1>5. ASSUME NEW t \in Threads, Step(t) PROVE ArbTables' BY <1>1, <1>2, <1>5, StepFrame
<1> QED BY <1>3, <1>4, <1>5 DEF Next, Terminated

\* m_isInitialized is cleared when a refill begins and set when it ends.
LEMMA DftStep ==
  ASSUME TypeOK, LockNames, DftFillClears, [Next]_vars
  PROVE  DftFillClears'
<1>0. \A u \in Threads : /\ pc[u].at \in {"draw", "fill"} <=> lock = u
                         /\ pc[u].at \in {"draw", "fill"} /\ pc[u].call.op = "dft" => ~ isInit
  BY DEF LockNames, Inside, At, DftFillClears
<1>1. CASE Fork BY <1>0, <1>1 DEF Fork, DftFillClears, Inside, At
<1>2. CASE UNCHANGED vars BY <1>0, <1>2 DEF vars, DftFillClears, Inside, At
<1>3. ASSUME NEW t \in Threads, Step(t) PROVE DftFillClears'
  <2> SUFFICES ASSUME NEW u \in Threads, pc'[u].at \in {"draw", "fill"}, pc'[u].call.op = "dft"
               PROVE  ~ isInit'
    BY DEF DftFillClears, Inside, At
  <2>0. \A w \in Threads \ {t} : pc'[w] = pc[w] BY <1>3, StepFrame
  <2>1. CASE Start(t)
    <3>1. isInit' = isInit BY <2>1 DEF Start
    <3>2. pc'[t].at \in {"read", "test", "wait"} BY <2>1, StepOwn, EnteredFact
    <3> QED BY <1>0, <2>0, <3>1, <3>2
  <2>2. CASE Lock(t)
    <3>1. isInit' = (pc[t].call.op # "dft" /\ isInit) BY <2>2 DEF Lock
    <3> QED BY <1>0, <2>0, <2>2, <3>1, StepOwn
  <2>3. CASE PreComputeTests(t)
    <3>1. isInit' = isInit BY <2>3 DEF PreComputeTests
    <3> QED BY <1>0, <2>0, <2>3, <3>1, StepOwn
  <2>4. CASE DrawRoot(t)
    <3>1. isInit' = isInit BY <2>4 DEF DrawRoot
    <3> QED BY <1>0, <2>0, <2>4, <3>1, StepOwn
  <2>5. CASE Fill(t)
    <3>1. isInit' = isInit BY <2>5 DEF Fill
    <3> QED BY <1>0, <2>0, <2>5, <3>1, StepOwn
  <2>6. CASE Unlock(t)
    <3>1. u # t /\ pc[u].at \in {"draw", "fill"} /\ pc[t].at = "fill" BY <2>0, <2>6, StepOwn
    <3> QED BY <1>0, <3>1
  <2>7. CASE Return(t)
    <3>1. isInit' = isInit BY <2>7 DEF Return
    <3>2. TransformOf(pc[t].call) \in Call BY TransformFact DEF TypeOK
    <3>3. pc'[t].at \in {"read", "test", "wait", "idle"} BY <2>7, <3>2, StepOwn, EnteredFact, IdleFact
    <3> QED BY <1>0, <2>0, <3>1, <3>3
  <2> QED BY <1>3, <2>1, <2>2, <2>3, <2>4, <2>5, <2>6, <2>7 DEF Step
<1> QED BY <1>1, <1>2, <1>3 DEF Next, Terminated

-----------------------------------------------------------------------------
First(c) == CASE c.op = "dft"  -> <<"Nh", 0, 0>>
              [] c.op = "ntt"  -> <<"rootReverse", c.key, 0>>
              [] OTHER         -> <<"initRoot", c.key, c.size>>

\* The unlocked test looks at the first table alone (and at m_isInitialized).
LEMMA SkipsFact ==
  ASSUME NEW t \in Threads, NEW c \in Call, c.op \in {"dft", "ntt", "pack"}
  PROVE  /\ First(c) \in CellsOf(c)
         /\ Skips(t, c) <=> table[First(c)] = c.size /\ (c.op = "dft" => isInit)
         /\ Skips(t, c)' <=> table'[First(c)] = c.size /\ (c.op = "dft" => isInit')
<1>1. CASE c.op = "dft"
  <2>1. First(c) = <<"Nh", 0, 0>> /\ Cell(c, "Nh") = First(c) BY <1>1, CellsFact DEF First
  <2>2. First(c) \in CellsOf(c) BY <1>1, <2>1, CellsFact
  <2>3. Skips(t, c) <=> table[First(c)] = c.size /\ isInit BY <1>1, <2>1 DEF Skips
  <2>4. Skips(t, c)' <=> table'[First(c)] = c.size /\ isInit' BY <1>1, <2>1 DEF Skips
  <2> QED BY <1>1, <2>2, <2>3, <2>4
<1>2. CASE c.op = "ntt"
  <2>1. First(c) = <<"rootReverse", c.key, 0>> /\ Cell(c, "rootReverse") = First(c)
    BY <1>2, CellsFact DEF First
  <2>2. First(c) \in CellsOf(c) BY <1>2, <2>1, CellsFact
  <2>3. Skips(t, c) <=> table[First(c)] = c.size BY <1>2, <2>1 DEF Skips
  <2>4. Skips(t, c)' <=> table'[First(c)] = c.size BY <1>2, <2>1 DEF Skips
  <2> QED BY <1>2, <2>2, <2>3, <2>4
<1>3. CASE c.op = "pack"
  <2>1. First(c) = <<"initRoot", c.key, c.size>> /\ Cell(c, "initRoot") = First(c)
    BY <1>3, CellsFact DEF First
  <2>2. First(c) \in CellsOf(c) BY <1>3, <2>1, CellsFact
  <2>3. Skips(t, c) <=> table[First(c)] = c.size BY <1>3, <2>1 DEF Skips
  <2>4. Skips(t, c)' <=> table'[First(c)] = c.size BY <1>3, <2>1 DEF Skips
  <2> QED BY <1>3, <2>2, <2>3, <2>4
<1> QED BY <1>1, <1>2, <1>3

\* A call whose first table is right has all of them if a sharer has all of its.
LEMMA SharerVouches ==
  ASSUME NEW c \in Call, NEW d \in Call, c.op \in {"dft", "ntt", "pack"},
         Sharing(c, d), Built(table, d), table[First(c)] = c.size
  PROVE  Built(table, c)
<1>1. PICK x : x \in CellsOf(c) /\ x \in CellsOf(d) BY DEF Sharing
<1>2. c.op = d.op BY <1>1, SharersAreAlike
<1>3. \A y \in CellsOf(d) : table[y] = d.size BY DEF Built
<1>4. CASE c.op = "dft"
  <2>1. CellsOf(c) = CellsOf(d) BY <1>2, <1>4, CellsFact
  <2>2. First(c) \in CellsOf(c) BY <1>4, CellsFact DEF First
  <2> QED BY <1>3, <2>1, <2>2 DEF Built
<1>5. CASE c.op = "ntt"
  <2>1. c.key = d.key
    <3>1. CellsOf(c) = {<<"rootReverse", c.key, 0>>, <<"others", c.key, 0>>} BY <1>5, CellsFact
    <3>2. CellsOf(d) = {<<"rootReverse", d.key, 0>>, <<"others", d.key, 0>>} BY <1>2, <1>5, CellsFact
    <3>3. x[2] = c.key BY <1>1, <3>1
    <3>4. x[2] = d.key BY <1>1, <3>2
    <3> QED BY <3>3, <3>4
  <2>2. CellsOf(c) = CellsOf(d) BY <1>2, <1>5, <2>1, CellsFact
  <2>3. First(c) \in CellsOf(c) BY <1>5, CellsFact DEF First
  <2> QED BY <1>3, <2>2, <2>3 DEF Built
<1>6. CASE c.op = "pack"
  <2>1. c.size = d.size
    <3>1. CellsOf(c) = {<<"initRoot", c.key, c.size>>, <<"perm", 0, c.size>>} BY <1>6, CellsFact
    <3>2. CellsOf(d) = {<<"initRoot", d.key, d.size>>, <<"perm", 0, d.size>>} BY <1>2, <1>6, CellsFact
    <3>3. x[3] = c.size BY <1>1, <3>1
    <3>4. x[3] = d.size BY <1>1, <3>2
    <3> QED BY <3>3, <3>4
  <2>2. table[<<"perm", 0, c.size>>] = c.size BY <1>2, <1>3, <1>6, <2>1, CellsFact
  <2>3. First(c) = <<"initRoot", c.key, c.size>> BY <1>6 DEF First
  <2>4. CellsOf(c) = {<<"initRoot", c.key, c.size>>, <<"perm", 0, c.size>>} BY <1>6, CellsFact
  <2> QED BY <2>2, <2>3, <2>4 DEF Built
<1> QED BY <1>4, <1>5, <1>6

\* A critical section that has filled its last table has built them all.
LEMMA UnlockBuilt ==
  ASSUME TypeOK, FillProgress, NEW t \in Threads, Unlock(t)
  PROVE  Built(table, pc[t].call) /\ table' = table
<1> DEFINE d == pc[t].call
<1>1. pc[t].at = "fill" /\ pc[t].next = Len(TablesOf[d.op]) + 1 /\ table' = table
  BY DEF Unlock, At
<1>2. d.op \in Ops BY DEF TypeOK, Call
<1>3. Len(TablesOf[d.op]) \in Nat /\ DOMAIN TablesOf[d.op] = 1 .. Len(TablesOf[d.op])
  BY <1>2, TablesFact
<1>4. \A i \in 1 .. (pc[t].next - 1) : table[Cell(d, TablesOf[d.op][i])] = d.size
  BY <1>1 DEF FillProgress, At
<1>5. \A i \in DOMAIN TablesOf[d.op] : table[Cell(d, TablesOf[d.op][i])] = d.size
  BY <1>1, <1>3, <1>4
<1> QED BY <1>1, <1>5 DEF Built, CellsOf

\* The unlocked tests go on vouching for the tables.
LEMMA VouchStep ==
  ASSUME TypeOK, Known, FillProgress, DftFillClears, TestsVouch, [Next]_vars
  PROVE  TestsVouch'
<1> SUFFICES ASSUME NEW u \in Threads, NEW c \in AllCalls, c.op \in {"dft", "ntt", "pack"},
                    Skips(u, c)', Untouched(c)'
             PROVE  \A y \in CellsOf(c) : table'[y] = c.size
  BY DEF TestsVouch, Built
<1>0. c \in Call /\ CellsOf(c) \subseteq Cells BY AllCallsFact
<1>1. /\ table'[First(c)] = c.size /\ (c.op = "dft" => isInit')
      /\ First(c) \in CellsOf(c)
  BY <1>0, SkipsFact
<1>2. \A w \in Threads : pc'[w].at = "fill" => ~ Sharing(pc'[w].call, c)
  BY DEF Untouched, At
\* A step that fills none of c's tables and leaves no section that did.
<1>3. ASSUME \A y \in CellsOf(c) : table'[y] = table[y], c.op = "dft" => (isInit' => isInit),
             \A w \in Threads : pc[w].at = "fill" => ~ Sharing(pc[w].call, c)
      PROVE  \A y \in CellsOf(c) : table'[y] = c.size
  <2>1. Skips(u, c) BY <1>0, <1>1, <1>3, SkipsFact
  <2>2. Untouched(c) BY <1>3 DEF Untouched, At
  <2>3. Built(table, c) BY <2>1, <2>2 DEF TestsVouch
  <2> QED BY <1>3, <2>3 DEF Built
<1>4. CASE Fork
  <2>1. table' = table /\ isInit' = isInit /\ pc' = pc BY <1>4 DEF Fork
  <2> QED BY <1>2, <1>3, <2>1
<1>5. CASE UNCHANGED vars
  <2>1. table' = table /\ isInit' = isInit /\ pc' = pc BY <1>5 DEF vars
  <2> QED BY <1>2, <1>3, <2>1
<1>6. ASSUME NEW t \in Threads, Step(t) PROVE \A y \in CellsOf(c) : table'[y] = c.size
  <2>0. \A w \in Threads \ {t} : pc'[w] = pc[w] BY <1>6, StepFrame
  <2>1. CASE Start(t)
    <3>1. isInit' = isInit /\ table' = table BY <2>1 DEF Start
    <3>2. \A w \in Threads : pc[w].at = "fill" => ~ Sharing(pc[w].call, c)
      BY <1>2, <2>0, <2>1, StepOwn
    <3> QED BY <1>3, <3>1, <3>2
  <2>2. CASE Lock(t)
    <3>1. isInit' => isInit BY <2>2 DEF Lock
    <3>2. table' = table BY <2>2 DEF Lock
    <3>3. \A w \in Threads : pc[w].at = "fill" => ~ Sharing(pc[w].call, c)
      BY <1>2, <2>0, <2>2, StepOwn
    <3> QED BY <1>3, <3>1, <3>2, <3>3
  <2>3. CASE PreComputeTests(t)
    <3>1. isInit' = isInit /\ table' = table BY <2>3 DEF PreComputeTests
    <3>2. \A w \in Threads : pc[w].at = "fill" => ~ Sharing(pc[w].call, c)
      BY <1>2, <2>0, <2>3, StepOwn
    <3> QED BY <1>3, <3>1, <3>2
  <2>4. CASE DrawRoot(t)
    <3>1. isInit' = isInit /\ table' = table BY <2>4 DEF DrawRoot
    <3>2. \A w \in Threads : pc[w].at = "fill" => ~ Sharing(pc[w].call, c)
      BY <1>2, <2>0, <2>4, StepOwn
    <3> QED BY <1>3, <3>1, <3>2
  <2>5. CASE Fill(t)
    <3>1. isInit' = isInit BY <2>5 DEF Fill
    <3>2. \A w \in Threads : pc[w].at = "fill" => ~ Sharing(pc[w].call, c)
      BY <1>2, <2>0, <2>5, StepOwn
    <3>3. pc[t].at = "fill" BY <2>5, StepOwn
    <3>4. \A y \in CellsOf(c) : y \notin CellsOf(pc[t].call) BY <3>2, <3>3 DEF Sharing
    <3>5. \A y \in CellsOf(c) : table'[y] = table[y] BY <1>0, <2>5, <3>4, FillFact
    <3> QED BY <1>3, <3>1, <3>2, <3>5
  <2>6. CASE Unlock(t)
    <3> DEFINE d == pc[t].call
    <3>1. Built(table, d) /\ table' = table BY <2>6, UnlockBuilt
    <3>2. d \in Call BY DEF TypeOK
    <3>3. CASE Sharing(c, d)
      <4>1. Built(table, c) BY <1>0, <1>1, <3>1, <3>2, <3>3, SharerVouches
      <4> QED BY <3>1, <4>1 DEF Built
    <3>4. CASE ~ Sharing(c, d)
      <4>1. \A w \in Threads : pc[w].at = "fill" => ~ Sharing(pc[w].call, c)
        <5>1. ~ Sharing(d, c) BY <3>4 DEF Sharing
        <5> QED BY <1>2, <2>0, <5>1
      <4>2. c.op = "dft" => d.op # "dft"
        <5> SUFFICES ASSUME c.op = "dft", d.op = "dft" PROVE FALSE OBVIOUS
        <5>1. CellsOf(c) = CellsOf(d) BY <1>0, <3>2, CellsFact
        <5> QED BY <1>1, <3>4, <5>1 DEF Sharing
      <4>3. isInit' = (d.op = "dft" \/ isInit) BY <2>6 DEF Unlock
      <4> QED BY <1>3, <3>1, <4>1, <4>2, <4>3
    <3> QED BY <3>3, <3>4
  <2>7. CASE Return(t)
    <3>1. isInit' = isInit /\ table' = table BY <2>7 DEF Return
    <3>2. \A w \in Threads : pc[w].at = "fill" => ~ Sharing(pc[w].call, c)
      BY <1>2, <2>0, <2>7, StepOwn
    <3> QED BY <1>3, <3>1, <3>2
  <2> QED BY <1>6, <2>1, <2>2, <2>3, <2>4, <2>5, <2>6, <2>7 DEF Step
<1> QED BY <1>4, <1>5, <1>6 DEF Next, Terminated

-----------------------------------------------------------------------------
\* A call that skips the section finds its tables when nobody fills them.
LEMMA SkipBuilt ==
  ASSUME TypeOK, TestsVouch, NEW t \in Threads, NEW c \in AllCalls,
         Skips(t, c), c.op \in {"dft", "ntt", "pack"} => Untouched(c)
  PROVE  Built(table, c)
<1>0. c \in Call /\ c.op \in Ops BY AllCallsFact DEF Call
<1>1. CASE c.op \in {"dft", "ntt", "pack"} BY <1>1 DEF TestsVouch
<1>2. CASE c.op = "sample" BY <1>0, <1>2, CellsFact DEF Built
<1>3. CASE c.op \in {"fft", "arb"} BY <1>3 DEF Skips
<1> QED BY <1>0, <1>1, <1>2, <1>3 DEF Ops

\* A call whose tables are built skips the section.
LEMMA BuiltSkips ==
  ASSUME NEW t \in Threads, NEW c \in Call, c.op \in {"ntt", "pack"}, Built(table, c)
  PROVE  Skips(t, c)
BY SkipsFact DEF Built

\* Filling the tables of d leaves those of a call built, if they agree on the size.
LEMMA FillKeeps ==
  ASSUME TypeOK, Known, NEW t \in Threads, Fill(t), pc[t].call.op # "pack",
         NEW c \in AllCalls, Built(table, c),
         Sharing(c, pc[t].call) => c.size = pc[t].call.size
  PROVE  Built(table', c)
<1> DEFINE d == pc[t].call
           cell == Cell(d, TablesOf[d.op][pc[t].next])
<1>0. c \in Call /\ c.size # 0 /\ CellsOf(c) \subseteq Cells BY AllCallsFact DEF Call
<1> SUFFICES ASSUME NEW y \in CellsOf(c) PROVE table'[y] = c.size BY DEF Built
<1>1. table[y] = c.size /\ y \in Cells BY <1>0 DEF Built
<1>2. /\ d.op # "arb" => table'[cell] = d.size
      /\ d.op = "arb" => table'[cell] = IF table[cell] # 0 THEN table[cell] ELSE d.size
      /\ cell \in CellsOf(d)
      /\ y # cell => table'[y] = table[y]
  BY <1>1, FillFact
<1>3. CASE y # cell BY <1>1, <1>2, <1>3
<1>4. CASE y = cell
  <2>1. c.size = d.size BY <1>2, <1>4 DEF Sharing
  <2> QED BY <1>0, <1>1, <1>2, <1>4, <2>1
<1> QED BY <1>3, <1>4

\* Before the fork only the main thread moves.
LEMMA SoloStep ==
  ASSUME TypeOK, Solo, NEW t \in Threads, Step(t)
  PROVE  t = Main /\ Solo'
<1>1. t = Main
  <2> SUFFICES ASSUME t # Main PROVE FALSE OBVIOUS
  <2>1. pc[t].at = "idle" /\ todo[t] = << >> BY DEF Solo, At
  <2>2. ~ Start(t) BY <2>1 DEF Start
  <2> QED BY <2>1, <2>2, StepOwn DEF Step
<1>2. \A u \in Threads \ {t} : pc'[u] = pc[u] /\ todo'[u] = todo[u] BY StepFrame
<1> QED BY <1>1, <1>2 DEF Solo, At

LEMMA ForksStep ==
  ASSUME TypeOK, ForksOnce, [Next]_vars
  PROVE  ForksOnce'
<1>1. CASE Fork
  <2>1. \A t \in Threads : later'[t] = << >> BY <1>1 DEF Fork
  <2>2. \A t \in Threads : CallsOf(later'[t]) = {} BY <2>1 DEF CallsOf
  <2>3. InRegion' = {} BY <2>2 DEF InRegion
  <2> QED BY <2>3 DEF ForksOnce
<1>2. CASE UNCHANGED vars BY <1>2 DEF vars, ForksOnce, InRegion, Solo, At
<1>3. ASSUME NEW t \in Threads, Step(t) PROVE ForksOnce'
  <2>1. later' = later BY <1>3, StepFrame
  <2>2. InRegion' = InRegion BY <2>1 DEF InRegion
  <2> QED BY <1>3, <2>2, SoloStep DEF ForksOnce
<1> QED BY <1>1, <1>2, <1>3 DEF Next, Terminated

\* Alone, the main thread reads only what it has found or filled.
LEMMA SoloReads ==
  ASSUME TypeOK, Known, FillProgress, TestsVouch, Solo, ReadersFindTheirTables, disciplined,
         NEW t \in Threads, Step(t)
  PROVE  ReadersFindTheirTables'
<1>1. t = Main /\ Solo' BY SoloStep
<1>2. \A u \in Threads \ {t} : pc'[u].at = "idle" /\ pc[u].at = "idle" BY <1>1 DEF Solo, At
<1>3. SUFFICES ASSUME pc'[t].at = "read" PROVE Built(table', pc'[t].call)
  BY <1>2 DEF ReadersFindTheirTables, At
<1>4. pc[t].at # "fill" => \A c \in AllCalls : Untouched(c) BY <1>2 DEF Untouched, At
<1>5. CASE Start(t)
  <2>1. Head(todo[t]) \in AllCalls /\ Head(todo[t]) \in Call /\ pc[t].at = "idle"
        /\ pc'[t] = Entered(t, Head(todo[t]))
    BY <1>5, StepOwn DEF Known
  <2>2. Skips(t, Head(todo[t])) /\ pc'[t].call = Head(todo[t]) BY <1>3, <2>1, EnteredFact
  <2>3. Built(table, Head(todo[t])) BY <1>4, <2>1, <2>2, SkipBuilt
  <2>4. table' = table BY <1>5 DEF Start
  <2> QED BY <2>2, <2>3, <2>4
<1>6. CASE Lock(t) BY <1>3, <1>6, StepOwn
<1>7. CASE PreComputeTests(t)
  <2>1. pc[t].at = "test" /\ pc'[t].call = pc[t].call BY <1>7, StepOwn
  <2>2. pc[t].call \in AllCalls BY <2>1 DEF Known
  <2>3. Skips(t, pc[t].call) /\ table' = table BY <1>3, <1>7, StepOwn DEF PreComputeTests
  <2>4. Built(table, pc[t].call) BY <1>4, <2>1, <2>2, <2>3, SkipBuilt
  <2> QED BY <2>1, <2>3, <2>4
<1>8. CASE DrawRoot(t) BY <1>3, <1>8, StepOwn
<1>9. CASE Fill(t) BY <1>3, <1>9, StepOwn
<1>10. CASE Unlock(t)
  <2>1. Built(table, pc[t].call) /\ table' = table BY <1>10, UnlockBuilt
  <2>2. pc'[t].call = pc[t].call BY <1>10, StepOwn
  <2> QED BY <2>1, <2>2
<1>11. CASE Return(t)
  <2> DEFINE e == TransformOf(pc[t].call)
  <2>1. pc[t].call.op = "pack" /\ pc'[t] = Entered(t, e) /\ pc[t].at = "read"
    BY <1>3, <1>11, StepOwn, IdleFact
  <2>2. e \in AllCalls /\ e \in Call
    <3>1. pc[t].call \in AllCalls \cup {Idle.call} BY DEF Known
    <3>2. pc[t].call # Idle.call BY <2>1, IdleFact
    <3>3. pc[t].call \in AllCalls BY <3>1, <3>2
    <3> QED BY <2>1, <3>3, AllCallsFact
  <2> HIDE DEF e
  <2>3. Skips(t, e) /\ pc'[t].call = e BY <1>3, <2>1, <2>2, EnteredFact
  <2>4. Built(table, e) BY <1>4, <2>1, <2>2, <2>3, SkipBuilt
  <2>5. table' = table BY <1>11 DEF Return
  <2> QED BY <2>3, <2>4, <2>5
<1> QED BY <1>5, <1>6, <1>7, <1>8, <1>9, <1>10, <1>11 DEF Step

\* The fork of a disciplined program.
LEMMA ForkShares ==
  ASSUME TypeOK, ForksOnce, Fork
  PROVE  (disciplined' => Shared') /\ ReadersFindTheirTables'
<1>1. Solo /\ pc[Main].at = "idle" BY DEF Fork, ForksOnce, At
<1>2. /\ pc' = pc /\ table' = table /\ todo' = later /\ disciplined' = Bears
  BY DEF Fork
<1>3. \A t \in Threads : pc'[t].at = "idle" BY <1>1, <1>2 DEF Solo, At
<1>4. ReadersFindTheirTables' BY <1>3 DEF ReadersFindTheirTables, At
<1>5. ASSUME Bears PROVE Shared'
  <2>1. \A t \in Threads : \A c \in Pending(t)' : c \in InRegion
    BY <1>2, <1>3 DEF Pending, InRegion, At
  <2>2. /\ \A c \in InRegion : /\ c.op \in {"ntt", "pack"} => Built(table, c)
                               /\ c.op = "pack" => Built(table, TransformOf(c))
        /\ \A c, d \in InRegion : CellsOf(c) \cap CellsOf(d) # {} => c.size = d.size
    BY <1>5 DEF Bears
  <2>3. \A t \in Threads : \A c \in Pending(t)' : c.op \in {"ntt", "pack"} =>
          Built(table', c) /\ (c.op = "pack" => Built(table', TransformOf(c)))
    BY <1>2, <2>1, <2>2
  <2>4. \A t, u \in Threads : \A c \in Pending(t)', d \in Pending(u)' :
          Sharing(c, d) => c.size = d.size
    BY <2>1, <2>2 DEF Sharing
  <2> QED BY <1>3, <2>3, <2>4 DEF Shared
<1> QED BY <1>2, <1>4, <1>5

(***************************************************************************)
(* After it every step keeps the discipline: a call that fills tables does *)
(* so for the size that all the others that use them have.                 *)
(***************************************************************************)
LEMMA SharedStep ==
  ASSUME TypeOK, Known, FillProgress, DftFillClears, TestsVouch, Shared,
         ReadersFindTheirTables, disciplined, NEW t \in Threads, Step(t)
  PROVE  Shared' /\ ReadersFindTheirTables'
<1> DEFINE d == pc[t].call
           e == TransformOf(d)
           Packs == Return(t) /\ d.op = "pack"
<1>0. /\ d \in Call /\ d.op \in Ops /\ e \in Call /\ e.op = "ntt"
  BY TransformFact DEF TypeOK, Call
<1>1. \A u \in Threads \ {t} : pc'[u] = pc[u] /\ todo'[u] = todo[u] BY StepFrame
<1>2. /\ \A u \in Threads : \A c \in Pending(u) : c.op \in {"ntt", "pack"} =>
           Built(table, c) /\ (c.op = "pack" => Built(table, TransformOf(c)))
      /\ \A u, w \in Threads : \A b \in Pending(u), c \in Pending(w) :
           Sharing(b, c) => b.size = c.size
      /\ \A u \in Threads : pc[u].at \in {"test", "wait", "draw", "fill"} =>
           pc[u].call.op \notin {"ntt", "pack"}
  BY DEF Shared
<1>3. \A u \in Threads : pc[u].at # "idle" => pc[u].call \in Pending(u) BY DEF Pending, At
<1>4. \A u \in Threads \ {t} : Pending(u)' = Pending(u) BY <1>1 DEF Pending, At
\* What t has still to return from is what it had, or the transform of Pack.
<1>5. \A c \in Pending(t)' : c \in Pending(t) \/ (Packs /\ c = e)
  <2>1. CASE Start(t)
    <3>1. /\ pc'[t] = Entered(t, Head(todo[t])) /\ Head(todo[t]) \in Call
          /\ Head(todo[t]) \in CallsOf(todo[t]) /\ CallsOf(todo'[t]) \subseteq CallsOf(todo[t])
      BY <2>1, StepOwn
    <3>2. pc'[t].call = Head(todo[t]) BY <3>1, EnteredFact
    <3> QED BY <3>1, <3>2 DEF Pending
  <2>2. CASE ~ Start(t) /\ ~ Return(t)
    <3>1. todo'[t] = todo[t] /\ pc'[t].call = pc[t].call /\ pc[t].at # "idle"
      BY <2>2, StepOwn DEF Step
    <3> QED BY <3>1 DEF Pending, At
  <2>3. CASE Return(t)
    <3>1. ~ Start(t) BY <2>3 DEF Start, Return, At
    <3>2. todo'[t] = todo[t] /\ pc[t].at = "read" BY <2>3, <3>1, StepOwn
    <3>3. CASE d.op = "pack"
      <4>1. pc'[t].call = e BY <1>0, <2>3, <3>3, StepOwn, EnteredFact
      <4> QED BY <2>3, <3>2, <3>3, <4>1 DEF Pending
    <3>4. CASE d.op # "pack"
      <4>1. pc'[t].at = "idle" BY <2>3, <3>4, StepOwn, IdleFact
      <4> QED BY <3>2, <4>1 DEF Pending, At
    <3> QED BY <3>3, <3>4
  <2> QED BY <2>1, <2>2, <2>3
<1>6. Packs => Built(table, e) /\ table' = table
  <2> SUFFICES ASSUME Packs PROVE Built(table, e) /\ table' = table OBVIOUS
  <2>1. pc[t].at = "read" BY StepOwn
  <2>2. d \in Pending(t) BY <1>3, <2>1
  <2> QED BY <1>2, <2>2 DEF Return
<1> HIDE DEF e, Packs
\* Every pending call that finds its tables built still finds them.
<1>7. ASSUME NEW u \in Threads, NEW c \in AllCalls, Built(table, c),
             c \in Pending(u) \/ c.op = "ntt"
      PROVE  Built(table', c)
  <2>1. CASE table' = table BY <1>7, <2>1
  <2>2. CASE Fill(t)
    <3>1. pc[t].at = "fill" BY <2>2, StepOwn
    <3>2. d \in Pending(t) /\ d.op \notin {"ntt", "pack"} BY <1>2, <1>3, <3>1
    <3>3. Sharing(c, d) => c.size = d.size
      <4>1. CASE c \in Pending(u) BY <1>2, <3>2, <4>1
      <4>2. CASE c.op = "ntt"
        <5>1. c \in Call BY AllCallsFact
        <5> QED BY <1>0, <3>2, <4>2, <5>1, SharersAreAlike DEF Sharing
      <4> QED BY <1>7, <4>1, <4>2
    <3> QED BY <1>7, <2>2, <3>2, <3>3, FillKeeps
  <2> QED BY <2>1, <2>2, StepFrame
<1>8. \A u \in Threads : \A c \in Pending(u) : c \in AllCalls \/ c = Idle.call
  BY DEF Pending, Known
<1>9. ASSUME NEW u \in Threads, NEW c \in Pending(u), c.op \in {"ntt", "pack"}
      PROVE  /\ c \in AllCalls /\ c \in Call /\ Built(table, c) /\ Built(table', c)
             /\ c.op = "pack" => Built(table', TransformOf(c))
  <2>1. c \in AllCalls /\ c \in Call BY <1>8, <1>9, IdleFact, AllCallsFact
  <2>2. Built(table, c) /\ (c.op = "pack" => Built(table, TransformOf(c))) BY <1>2, <1>9
  <2>3. c.op = "pack" => TransformOf(c) \in AllCalls /\ TransformOf(c).op = "ntt"
    BY <2>1, AllCallsFact, TransformFact
  <2> QED BY <1>7, <2>1, <2>2, <2>3
<1>10. \A u \in Threads : \A c \in Pending(u)' : c \in Pending(u) \/ (Packs /\ c = e)
  BY <1>4, <1>5
<1>11. \A u \in Threads : \A c \in Pending(u)' : c.op \in {"ntt", "pack"} =>
         Built(table', c) /\ (c.op = "pack" => Built(table', TransformOf(c)))
  <2> SUFFICES ASSUME NEW u \in Threads, NEW c \in Pending(u)', c.op \in {"ntt", "pack"}
               PROVE  Built(table', c) /\ (c.op = "pack" => Built(table', TransformOf(c)))
    OBVIOUS
  <2>1. CASE c \in Pending(u) BY <1>9, <2>1
  <2>2. CASE Packs /\ c = e
    <3>1. c.op = "ntt" BY <1>0, <2>2 DEF e
    <3> QED BY <1>6, <2>2, <3>1
  <2> QED BY <1>10, <2>1, <2>2
<1>12. \A u, w \in Threads : \A b \in Pending(u)', c \in Pending(w)' :
         Sharing(b, c) => b.size = c.size
  <2> SUFFICES ASSUME NEW u \in Threads, NEW w \in Threads, NEW b \in Pending(u)',
                      NEW c \in Pending(w)', Sharing(b, c)
               PROVE  b.size = c.size
    OBVIOUS
  <2>1. CASE b \in Pending(u) /\ c \in Pending(w) BY <1>2, <2>1
  <2>2. CASE ~ (b \in Pending(u) /\ c \in Pending(w))
    <3>1. b \in Call /\ c \in Call BY <1>0, <1>8, <1>10, IdleFact, AllCallsFact DEF e
    <3>2. b.op = c.op BY <3>1, SharersAreAlike DEF Sharing
    <3>3. b.op = "ntt" /\ c.op = "ntt" BY <1>0, <1>10, <2>2, <3>2 DEF e
    <3>4. Built(table', b) /\ Built(table', c) BY <1>11, <3>3
    <3> QED BY <3>4 DEF Built, Sharing
  <2> QED BY <2>1, <2>2
<1>13. \A u \in Threads : pc'[u].at \in {"test", "wait", "draw", "fill"} =>
         pc'[u].call.op \notin {"ntt", "pack"}
  <2> SUFFICES ASSUME pc'[t].at \in {"test", "wait", "draw", "fill"}
               PROVE  pc'[t].call.op \notin {"ntt", "pack"}
    BY <1>1, <1>2
  <2>1. CASE Start(t)
    <3> DEFINE c == Head(todo[t])
    <3>1. c \in Call /\ c \in CallsOf(todo[t]) /\ pc'[t] = Entered(t, c) BY <2>1, StepOwn
    <3> HIDE DEF c
    <3>2. ~ Skips(t, c) /\ pc'[t].call = c BY <3>1, EnteredFact
    <3>3. c.op \in {"ntt", "pack"} => Built(table, c) BY <1>2, <3>1 DEF Pending
    <3> QED BY <3>1, <3>2, <3>3, BuiltSkips
  <2>2. CASE Return(t)
    <3>1. d.op = "pack" /\ pc'[t] = Entered(t, e) BY <2>2, StepOwn, IdleFact DEF e
    <3>2. Built(table, e) BY <1>6, <2>2, <3>1 DEF Packs
    <3>3. Skips(t, e) BY <1>0, <3>2, BuiltSkips DEF e
    <3>4. e \in Call BY <1>0 DEF e
    <3> QED BY <3>1, <3>3, <3>4, EnteredFact
  <2>3. CASE ~ Start(t) /\ ~ Return(t)
    <3>1. pc'[t].call = pc[t].call /\ pc[t].at \in {"test", "wait", "draw", "fill"}
      BY <2>3, StepOwn DEF Step
    <3> QED BY <1>2, <3>1
  <2> QED BY <2>1, <2>2, <2>3
<1>14. ReadersFindTheirTables'
  <2> SUFFICES ASSUME NEW u \in Threads, pc'[u].at = "read" PROVE Built(table', pc'[u].call)
    BY DEF ReadersFindTheirTables, At
  <2>1. CASE u # t
    <3>1. pc'[u] = pc[u] BY <1>1, <2>1
    <3>2. Built(table, pc[u].call) BY <3>1 DEF ReadersFindTheirTables, At
    <3>3. pc[u].call \in Pending(u) BY <1>3, <3>1
    <3>4. CASE pc[u].call \in AllCalls BY <1>7, <3>1, <3>2, <3>3, <3>4
    <3>5. CASE pc[u].call = Idle.call BY <3>1, <3>5, IdleFact, CellsFact DEF Built
    <3> QED BY <1>8, <3>3, <3>4, <3>5
  <2>2. CASE u = t /\ Start(t)
    <3> DEFINE c == Head(todo[t])
    <3>1. c \in Call /\ c \in CallsOf(todo[t]) /\ pc'[t] = Entered(t, c) BY <2>2, StepOwn
    <3>2. c \in AllCalls /\ table' = table BY <2>2, <3>1 DEF Known, Start
    <3> HIDE DEF c
    <3>3. Skips(t, c) /\ pc'[t].call = c BY <2>2, <3>1, EnteredFact
    <3>4. CASE c.op \in {"ntt", "pack"} BY <1>2, <2>2, <3>1, <3>2, <3>3, <3>4 DEF Pending
    <3>5. CASE c.op = "dft"
      <4>1. isInit BY <3>1, <3>3, <3>5, SkipsFact
      <4>2. \A w \in Threads : pc[w].at = "fill" => pc[w].call.op # "dft"
        BY <4>1 DEF DftFillClears, Inside, At
      <4>3. \A w \in Threads : pc[w].call \in Call BY DEF TypeOK
      <4>4. Untouched(c) BY <3>1, <3>5, <4>2, <4>3, SharersAreAlike DEF Untouched, Sharing, At
      <4>5. Built(table, c) BY <3>2, <3>3, <4>4, SkipBuilt
      <4> QED BY <2>2, <3>2, <3>3, <4>5
    <3>6. CASE c.op \notin {"ntt", "pack", "dft"}
      <4>1. Built(table, c) BY <3>2, <3>3, <3>6, SkipBuilt
      <4> QED BY <2>2, <3>2, <3>3, <4>1
    <3> QED BY <3>4, <3>5, <3>6
  <2>3. CASE u = t /\ PreComputeTests(t)
    <3>1. pc[t].at = "test" /\ pc[t].call.op = "ntt" BY <2>3 DEF PreComputeTests, At, Known
    <3> QED BY <1>2, <3>1
  <2>4. CASE u = t /\ Unlock(t)
    <3>1. Built(table, pc[t].call) /\ table' = table BY <2>4, UnlockBuilt
    <3> QED BY <2>4, <3>1, StepOwn
  <2>5. CASE u = t /\ Return(t)
    <3>1. d.op = "pack" /\ pc'[t] = Entered(t, e) BY <2>5, StepOwn, IdleFact DEF e
    <3>2. Built(table, e) /\ table' = table BY <1>6, <2>5, <3>1 DEF Packs
    <3>3. e \in Call BY <1>0 DEF e
    <3> QED BY <2>5, <3>1, <3>2, <3>3, EnteredFact
  <2>6. CASE u = t /\ (Lock(t) \/ DrawRoot(t) \/ Fill(t)) BY <2>6, StepOwn
  <2> QED BY <2>1, <2>2, <2>3, <2>4, <2>5, <2>6 DEF Step
<1> QED BY <1>11, <1>12, <1>13, <1>14 DEF Shared

-----------------------------------------------------------------------------
LEMMA InitInvariant == Init => IInv
<1> SUFFICES ASSUME Init PROVE IInv OBVIOUS
<1> USE ThreadsAssumption
<1>1. PICK p \in Programs : /\ todo = [t \in Threads |-> IF t = Main THEN p.alone ELSE << >>]
                            /\ later = p.parallel
  BY DEF Init
<1>2. p.alone \in Seq(Call) /\ p.parallel \in [Threads -> Seq(Call)] BY ProgramsAssumption
<1>3. \A t \in Threads : pc[t] = Idle BY DEF Init
<1>4. \A t \in Threads : pc[t].at = "idle" BY <1>3, IdleFact
<1>5. TypeOK
  <2>1. pc \in [Threads -> [at : Stages, call : Call, next : Nat \ {0}]] BY IdleFact DEF Init
  <2>2. table \in [Cells -> Nat] BY DEF Init
  <2>3. todo \in [Threads -> Seq(Call)] BY <1>1, <1>2
  <2>4. later \in [Threads -> Seq(Call)] BY <1>1, <1>2
  <2>5. /\ lock \in Threads \cup {Nobody} /\ engine \subseteq Threads
        /\ isInit \in BOOLEAN /\ disciplined \in BOOLEAN
    BY DEF Init
  <2> QED BY <2>1, <2>2, <2>3, <2>4, <2>5 DEF TypeOK
<1>6. Known
  <2>1. CallsOf(<< >>) = {} BY DEF CallsOf
  <2>2. /\ CallsOf(p.alone) \subseteq AllCalls
        /\ \A t \in Threads : CallsOf(p.parallel[t]) \subseteq AllCalls
    BY AllCallsFact
  <2>3. \A t \in Threads : CallsOf(todo[t]) \subseteq AllCalls BY <1>1, <2>1, <2>2
  <2>4. \A t \in Threads : CallsOf(later[t]) \subseteq AllCalls BY <1>1, <2>2
  <2> QED BY <1>3, <1>4, <2>3, <2>4 DEF Known, At
<1>7. LockNames BY <1>4 DEF LockNames, Inside, At, Init
<1>8. FillProgress BY <1>4 DEF FillProgress, At
<1>9. ArbTables BY AllCallsFact DEF ArbTables, Init
<1>10. DftFillClears BY DEF DftFillClears, Init
<1>11. TestsVouch
  <2> SUFFICES ASSUME NEW t \in Threads, NEW c \in AllCalls, c.op \in {"dft", "ntt", "pack"},
                      Skips(t, c)
               PROVE  FALSE
    BY DEF TestsVouch
  <2>1. c \in Call /\ c.size # 0 /\ CellsOf(c) \subseteq Cells BY AllCallsFact DEF Call
  <2>2. First(c) \in Cells /\ table[First(c)] = c.size BY <2>1, SkipsFact
  <2> QED BY <2>1, <2>2 DEF Init
<1>12. Solo BY <1>1, <1>4 DEF Solo, At
<1>13. ReadersFindTheirTables BY <1>4 DEF ReadersFindTheirTables, At
<1> QED BY <1>5, <1>6, <1>7, <1>8, <1>9, <1>10, <1>11, <1>12, <1>13 DEF IInv, ForksOnce, Phases

LEMMA StepInvariant == IInv /\ [Next]_vars => IInv'
<1> SUFFICES ASSUME IInv, [Next]_vars PROVE IInv' OBVIOUS
<1>1. TypeOK' BY TypeStep DEF IInv
<1>2. Known' BY KnownStep DEF IInv
<1>3. LockNames' BY LockStep DEF IInv
<1>4. FillProgress' BY FillStep DEF IInv
<1>5. ArbTables' BY ArbStep DEF IInv
<1>6. DftFillClears' BY DftStep DEF IInv
<1>7. TestsVouch' BY VouchStep DEF IInv
<1>8. ForksOnce' BY ForksStep DEF IInv
<1>9. Phases' /\ ReadersFindTheirTables'
  <2>1. CASE Fork BY <2>1, ForkShares DEF IInv, Phases
  <2>2. CASE UNCHANGED vars
    BY <2>2 DEF IInv, vars, Phases, Solo, Shared, Pending, ReadersFindTheirTables, Built, At
  <2>3. ASSUME NEW t \in Threads, Step(t) PROVE Phases' /\ ReadersFindTheirTables'
    <3>1. disciplined' = disciplined BY <2>3, StepFrame DEF IInv
    <3>2. CASE ~ disciplined BY <3>1, <3>2 DEF Phases, ReadersFindTheirTables
    <3>3. CASE disciplined /\ Solo BY <2>3, <3>3, SoloStep, SoloReads DEF IInv, Phases
    <3>4. CASE disciplined /\ Shared BY <2>3, <3>4, SharedStep DEF IInv, Phases
    <3> QED BY <3>2, <3>3, <3>4 DEF IInv, Phases
  <2> QED BY <2>1, <2>2, <2>3 DEF Next, Terminated
<1> QED BY <1>1, <1>2, <1>3, <1>4, <1>5, <1>6, <1>7, <1>8, <1>9 DEF IInv

LEMMA Invariance == Spec => []IInv
BY InitInvariant, StepInvariant, PTL DEF Spec

(***************************************************************************)
(* The state of the tables keeps its type.                                 *)
(***************************************************************************)
THEOREM TablesTypeOK == Spec => []TypeOK
<1>1. IInv => TypeOK BY DEF IInv
<1> QED BY <1>1, Invariance, PTL

(***************************************************************************)
(* The unnamed critical section that every table and engine shares never   *)
(* holds two threads, in any program.                                      *)
(***************************************************************************)
THEOREM OneThreadInside == Spec => []CriticalIsExclusive
<1>1. IInv => CriticalIsExclusive BY DEF IInv, LockNames, CriticalIsExclusive
<1> QED BY <1>1, Invariance, PTL

(***************************************************************************)
(* In a program whose parallel region shares tables as the library can     *)
(* bear, the unlocked tests and reads of the transforms are enough: no     *)
(* call reads a table that is missing, half built or of another ring.      *)
(***************************************************************************)
THEOREM ReadersAreServed == Spec => []ReadersFindTheirTables
<1>1. IInv => ReadersFindTheirTables BY DEF IInv
<1> QED BY <1>1, Invariance, PTL
=============================================================================
