-------------------------- MODULE Xallocator_proofs --------------------------
(***************************************************************************)
(* Proofs about Xallocator, for any threads, blocks, requests, array       *)
(* length, build and behaviour of the heap.  The lists are reasoned about  *)
(* one link at a time: every free block is named by at most one pointer,   *)
(* so a popped block is named by none.  That each list is complete, and    *)
(* that a walk along it ends, is then proved by induction on the walk.     *)
(***************************************************************************)
EXTENDS Xallocator, FiniteSetTheorems, TLAPS

Free == {b \in Blocks : bytes[b] # 0 /\ b \notin Used}

\* The state of the allocators and of the blocks with clients.
BlocksOK ==
  /\ \A a \in 1 .. count : size[a] >= Header
  /\ \A b \in Used : word[b] \in 1 .. count /\ bytes[b] = size[word[b]]

\* A list leads from free block to free block of its size.
ListsOK ==
  /\ \A b \in Free : word[b] \in Free \cup {NULL}
  /\ \A b \in Free : word[b] # NULL => bytes[word[b]] = bytes[b]
  /\ \A a \in Allocators : head[a] \in Free \cup {NULL}
  /\ \A a \in Allocators : head[a] # NULL => a <= count /\ bytes[head[a]] = size[a]

\* No block is named twice.
PointersUnique ==
  /\ \A b, c \in Free : word[b] # NULL /\ word[b] = word[c] => b = c
  /\ \A a, d \in Allocators : head[a] # NULL /\ head[a] = head[d] => a = d
  /\ \A a \in Allocators, b \in Free : head[a] # NULL => head[a] # word[b]

\* What a call in progress remembers is still true.
JobsOK ==
  \A t \in Threads :
    /\ job[t].op = "free" => job[t].allocator = word[job[t].block]
    /\ job[t].op = "copy" => bytes[job[t].new] >= job[t].req + Header

Lists == BlocksOK /\ ListsOK /\ PointersUnique /\ JobsOK

IInv == TypeOK /\ BlocksAreExclusive /\ (phase = "running" => Lists)

-----------------------------------------------------------------------------
\* What is proved of the state holds initially.
LEMMA InitIInv == Init => IInv
  <1> SUFFICES ASSUME Init PROVE IInv
    OBVIOUS
  <1>1. TypeOK
    BY BoundsAssumption DEF Init, TypeOK, Allocators, Jobs
  <1>2. \A t \in Threads : Owned(t) = {}
    BY DEF Init, Owned, BlocksOf, Idle
  <1>3. Used = {}
    BY <1>2 DEF Used
  <1>4. BlocksAreExclusive
    BY <1>2 DEF Init, BlocksAreExclusive, Owned, Idle
  <1>5. Free = {}
    BY DEF Init, Free
  <1>6. Lists
    BY <1>3, <1>5 DEF Init, Lists, BlocksOK, ListsOK, PointersUnique, JobsOK, Idle
  <1> QED
    BY <1>1, <1>4, <1>6 DEF IInv

\* What threads own are blocks.
LEMMA OwnedAreBlocks ==
  ASSUME TypeOK
  PROVE  /\ \A t \in Threads : Owned(t) \subseteq Blocks
         /\ Used \subseteq Blocks
  <1>1. ASSUME NEW t \in Threads PROVE BlocksOf(job[t]) \subseteq Blocks
    <2>1. job[t] \in Jobs
      BY DEF TypeOK
    <2>2. CASE job[t] = Idle
      BY <2>2 DEF Idle, BlocksOf
    <2>3. CASE job[t] \in [op : {"copy"}, old : Blocks, new : Blocks, req : Requests]
      BY <2>3 DEF BlocksOf
    <2>4. CASE job[t] \in [op : {"free"}, block : Blocks, allocator : Allocators]
      BY <2>4 DEF BlocksOf
    <2> QED
      BY <2>1, <2>2, <2>3, <2>4 DEF Jobs
  <1>2. \A t \in Threads : Owned(t) \subseteq Blocks
    BY <1>1 DEF Owned, TypeOK
  <1> QED
    BY <1>2 DEF Used

\* The Allocator that serves a call is in its table, with the sizes of the others untouched.
LEMMA ServingAllocator ==
  ASSUME TypeOK, Lists, NEW r \in Requests, NEW a \in Allocators,
         Serves(a, BlockSize[r]), Created(a, BlockSize[r])
  PROVE  /\ count' \in 0 .. MaxObjects /\ count <= count' /\ a \in 1 .. count'
         /\ size' \in [Allocators -> Nat]
         /\ \A d \in 1 .. count : size'[d] = size[d]
         /\ \A d \in 1 .. count' : size'[d] >= Header
         /\ size'[a] = BlockSize[r]
  <1>1. BlockSize[r] \in Nat /\ BlockSize[r] >= Header /\ r \in Nat
    BY RequestsAssumption DEF Header
  <1>2. CASE Registered(BlockSize[r]) # {}
    <2>1. a \in 1 .. count /\ size[a] = BlockSize[r]
      BY <1>2 DEF Serves, Registered
    <2>2. count' = count /\ size' = size
      BY <2>1 DEF Created, TypeOK, Allocators
    <2> QED
      BY <2>1, <2>2 DEF TypeOK, Lists, BlocksOK
  <1>3. CASE Registered(BlockSize[r]) = {}
    <2>1. a = count + 1 /\ count' = a /\ size' = [size EXCEPT ![a] = BlockSize[r]]
      BY <1>3 DEF Serves, Created, TypeOK, Allocators
    <2> QED
      BY <2>1, <1>1 DEF TypeOK, Lists, BlocksOK, Allocators
  <1> QED
    BY <1>2, <1>3

\* A block xmalloc finds on a list is free, and no other pointer names it.
LEMMA PoppedBlock ==
  ASSUME TypeOK, Lists, NEW r \in Requests, NEW a \in Allocators, NEW b \in Blocks,
         Serves(a, BlockSize[r]), Created(a, BlockSize[r]), PopBlock(a, b)
  PROVE  /\ b \in Free /\ bytes[b] = size'[a]
         /\ \A c \in Free : word[c] # b
         /\ \A d \in Allocators \ {a} : head[d] # b
  <1>1. head[a] = b /\ b # NULL
    BY NullAssumption DEF PopBlock
  <1>2. b \in Free /\ a <= count /\ bytes[b] = size[a]
    BY <1>1 DEF Lists, ListsOK
  <1>3. size'[a] = size[a]
    BY <1>2, ServingAllocator DEF TypeOK, Allocators
  <1> QED
    BY <1>1, <1>2, <1>3 DEF Lists, PointersUnique

\* xmalloc gives a block that nobody had, long enough for the request and its header.
LEMMA TakeGivesFreshBlock ==
  ASSUME TypeOK, Lists, NEW r \in Requests, NEW b \in Blocks, Take(r, b)
  PROVE  /\ b \notin Used
         /\ \A c \in Blocks \ {b} : bytes'[c] = bytes[c] /\ word'[c] = word[c]
         /\ bytes'[b] = bytes[b] \/ bytes[b] = 0
         /\ bytes'[b] >= r + Header
         /\ count <= count'
         /\ \A d \in 1 .. count : size'[d] = size[d]
         /\ word'[b] \in 1 .. count' /\ bytes'[b] = size'[word'[b]]
         /\ count' \in 0 .. MaxObjects
         /\ size' \in [Allocators -> Nat]
         /\ head' \in [Allocators -> Blocks \cup {NULL}]
         /\ blockCnt' \in [Allocators -> Nat]
         /\ inUse' \in [Allocators -> Int]
         /\ word' \in [Blocks -> Blocks \cup {NULL} \cup Allocators]
         /\ bytes' \in [Blocks -> Nat]
  <1>1. PICK a \in Allocators : /\ Serves(a, BlockSize[r])
                                /\ Created(a, BlockSize[r])
                                /\ PopBlock(a, b) \/ NewBlock(a, b, BlockSize[r])
    BY DEF Take
  <1>2. /\ count' \in 0 .. MaxObjects /\ count <= count' /\ a \in 1 .. count'
        /\ size' \in [Allocators -> Nat]
        /\ \A d \in 1 .. count : size'[d] = size[d]
        /\ \A d \in 1 .. count' : size'[d] >= Header
        /\ size'[a] = BlockSize[r]
    BY <1>1, ServingAllocator
  <1>3. BlockSize[r] \in Nat /\ BlockSize[r] >= r + Header /\ r \in Nat
    BY RequestsAssumption
  <1>4. CASE PopBlock(a, b)
    <2>1. b \in Free /\ bytes[b] = size'[a]
      BY <1>1, <1>4, PoppedBlock
    <2>2. b \notin Used /\ bytes' = bytes
      BY <2>1, <1>4 DEF Free, PopBlock
    <2>3. word' = [word EXCEPT ![b] = a]
      BY <1>4 DEF PopBlock
    <2>4. word[b] \in Blocks \cup {NULL}
      BY <2>1 DEF Lists, ListsOK, Free
    <2>5. head' \in [Allocators -> Blocks \cup {NULL}]
      BY <1>4, <2>4 DEF PopBlock, TypeOK
    <2>6. blockCnt' \in [Allocators -> Nat] /\ inUse' \in [Allocators -> Int]
      BY <1>4 DEF PopBlock, TypeOK
    <2>7. word' \in [Blocks -> Blocks \cup {NULL} \cup Allocators] /\ word'[b] = a
      BY <2>3 DEF TypeOK
    <2>8. \A c \in Blocks \ {b} : word'[c] = word[c]
      BY <2>3 DEF TypeOK
    <2> QED
      BY <1>2, <1>3, <2>1, <2>2, <2>5, <2>6, <2>7, <2>8 DEF TypeOK
  <1>5. CASE NewBlock(a, b, BlockSize[r])
    <2>1. b \notin Used
      BY <1>5 DEF NewBlock, Lists, BlocksOK, Header, TypeOK, Allocators
    <2>2. /\ bytes[b] = 0
          /\ bytes' = [bytes EXCEPT ![b] = BlockSize[r]]
          /\ word' = [word EXCEPT ![b] = a]
          /\ head' = head
      BY <1>5 DEF NewBlock
    <2>3. blockCnt' \in [Allocators -> Nat] /\ inUse' \in [Allocators -> Int]
      BY <1>5 DEF NewBlock, TypeOK
    <2>4. /\ word' \in [Blocks -> Blocks \cup {NULL} \cup Allocators] /\ word'[b] = a
          /\ \A c \in Blocks \ {b} : word'[c] = word[c]
      BY <2>2 DEF TypeOK
    <2>5. /\ bytes' \in [Blocks -> Nat] /\ bytes'[b] = BlockSize[r]
          /\ \A c \in Blocks \ {b} : bytes'[c] = bytes[c]
      BY <2>2, <1>3 DEF TypeOK
    <2> QED
      BY <1>2, <1>3, <2>1, <2>2, <2>3, <2>4, <2>5 DEF TypeOK
  <1> QED
    BY <1>1, <1>4, <1>5

\* xmalloc leaves the lists in order, whichever call the block is for.
LEMMA TakeKeepsLists ==
  ASSUME TypeOK, Lists, NEW r \in Requests, NEW b \in Blocks, Take(r, b),
         Used' = Used \cup {b}
  PROVE  BlocksOK' /\ ListsOK' /\ PointersUnique'
  <1>1. PICK a \in Allocators : /\ Serves(a, BlockSize[r])
                                /\ Created(a, BlockSize[r])
                                /\ PopBlock(a, b) \/ NewBlock(a, b, BlockSize[r])
    BY DEF Take
  <1>2. /\ count' \in 0 .. MaxObjects /\ count <= count' /\ a \in 1 .. count'
        /\ size' \in [Allocators -> Nat]
        /\ \A d \in 1 .. count : size'[d] = size[d]
        /\ \A d \in 1 .. count' : size'[d] >= Header
    BY <1>1, ServingAllocator
  <1>3. /\ b \notin Used
        /\ \A c \in Blocks \ {b} : bytes'[c] = bytes[c] /\ word'[c] = word[c]
        /\ word'[b] \in 1 .. count' /\ bytes'[b] = size'[word'[b]]
    BY TakeGivesFreshBlock
  <1>4. Used \subseteq Blocks
    BY OwnedAreBlocks
  <1>5. BlocksOK'
    <2> SUFFICES ASSUME NEW c \in Used'
                 PROVE  word'[c] \in 1 .. count' /\ bytes'[c] = size'[word'[c]]
      BY <1>2 DEF BlocksOK
    <2>1. CASE c = b
      BY <2>1, <1>3
    <2>2. CASE c # b
      <3>1. c \in Used /\ c \in Blocks \ {b}
        BY <2>2, <1>4
      <3>2. word[c] \in 1 .. count /\ bytes[c] = size[word[c]]
        BY <3>1 DEF Lists, BlocksOK
      <3> QED
        BY <3>1, <3>2, <1>2, <1>3 DEF TypeOK
    <2> QED
      BY <2>1, <2>2
  <1>6. Free' = Free \ {b}
    BY <1>3 DEF Free
  <1>7. \A c \in Free' : c # b /\ c \in Free /\ c \in Blocks /\ word'[c] = word[c] /\ bytes'[c] = bytes[c]
    BY <1>6, <1>3 DEF Free
  <1>8. CASE PopBlock(a, b)
    <2>1. /\ b \in Free /\ bytes[b] = size'[a]
          /\ \A c \in Free : word[c] # b
          /\ \A d \in Allocators \ {a} : head[d] # b
      BY <1>1, <1>8, PoppedBlock
    <2>2. /\ head[a] = b /\ b # NULL
          /\ head'[a] = word[b]
          /\ \A d \in Allocators \ {a} : head'[d] = head[d]
      BY <1>8, NullAssumption DEF PopBlock, TypeOK
    <2>3. \A c \in Free' : word'[c] \in Free' \cup {NULL}
      BY <1>6, <1>7, <2>1 DEF Lists, ListsOK
    <2>4. \A c \in Free' : word'[c] # NULL => bytes'[word'[c]] = bytes'[c]
      BY <1>7, <2>3 DEF Lists, ListsOK
    <2>5. \A d \in Allocators : head'[d] \in Free' \cup {NULL}
      BY <1>6, <2>1, <2>2 DEF Lists, ListsOK
    <2>6. ASSUME NEW d \in Allocators, head'[d] # NULL
          PROVE  d <= count' /\ bytes'[head'[d]] = size'[d]
      <3>1. head'[d] \in Free' /\ bytes'[head'[d]] = bytes[head'[d]]
        BY <2>5, <2>6, <1>7
      <3>2. CASE d = a
        <4>1. word[b] # NULL /\ bytes[word[b]] = bytes[b]
          BY <3>2, <2>1, <2>2, <2>6 DEF Lists, ListsOK
        <4> QED
          BY <4>1, <3>1, <3>2, <2>1, <2>2, <1>2 DEF TypeOK
      <3>3. CASE d # a
        <4>1. d <= count /\ bytes[head[d]] = size[d] /\ head'[d] = head[d]
          BY <3>3, <2>2, <2>6 DEF Lists, ListsOK
        <4>2. d \in 1 .. count /\ d <= count'
          BY <4>1, <1>2 DEF TypeOK, Allocators
        <4> QED
          BY <4>1, <4>2, <3>1, <1>2
      <3> QED
        BY <3>2, <3>3
    <2>7. \A c, d \in Free' : word'[c] # NULL /\ word'[c] = word'[d] => c = d
      BY <1>7 DEF Lists, PointersUnique
    <2>8. \A d, e \in Allocators : head'[d] # NULL /\ head'[d] = head'[e] => d = e
      BY <2>1, <2>2 DEF Lists, PointersUnique
    <2>9. \A d \in Allocators, c \in Free' : head'[d] # NULL => head'[d] # word'[c]
      BY <2>1, <2>2, <1>7 DEF Lists, PointersUnique
    <2> QED
      BY <1>5, <2>3, <2>4, <2>5, <2>6, <2>7, <2>8, <2>9 DEF ListsOK, PointersUnique
  <1>9. CASE NewBlock(a, b, BlockSize[r])
    <2>1. b \notin Free /\ head' = head
      BY <1>9 DEF NewBlock, Free
    <2>2. Free' = Free
      BY <2>1, <1>6
    <2>3. ASSUME NEW d \in Allocators, head'[d] # NULL
          PROVE  d <= count' /\ bytes'[head'[d]] = size'[d]
      <3>1. d <= count /\ bytes[head[d]] = size[d] /\ head[d] \in Free
        BY <2>1, <2>3 DEF Lists, ListsOK
      <3>2. d \in 1 .. count /\ d <= count'
        BY <3>1, <1>2 DEF TypeOK, Allocators
      <3> QED
        BY <3>1, <3>2, <2>1, <2>2, <1>7, <1>2
    <2>4. ListsOK'
      BY <1>7, <2>1, <2>2, <2>3 DEF Lists, ListsOK
    <2>5. PointersUnique'
      BY <1>7, <2>1, <2>2 DEF Lists, PointersUnique
    <2> QED
      BY <1>5, <2>4, <2>5
  <1> QED
    BY <1>1, <1>8, <1>9

\* A block given to one thread is added to those in use.
LEMMA UsedGrows ==
  ASSUME NEW t \in Threads, NEW b \in Blocks,
         \A u \in Threads \ {t} : Owned(u)' = Owned(u),
         Owned(t)' = Owned(t) \cup {b}
  PROVE  Used' = Used \cup {b}
  BY DEF Used

\* A refused block is counted, and nothing else changes but perhaps a new, empty list.
LEMMA FailedTake ==
  ASSUME IInv, phase = "running", NEW r \in Requests, TakeFails(r),
         held' = held, job' = job, phase' = phase
  PROVE  IInv'
  <1>1. TypeOK /\ BlocksAreExclusive /\ Lists
    BY DEF IInv
  <1>2. PICK a \in Allocators : /\ Serves(a, BlockSize[r])
                                /\ Created(a, BlockSize[r])
                                /\ blockCnt' = [blockCnt EXCEPT ![a] = @ + 1]
                                /\ UNCHANGED <<head, inUse, word, bytes>>
    BY DEF TakeFails
  <1>3. /\ count' \in 0 .. MaxObjects /\ count <= count'
        /\ size' \in [Allocators -> Nat]
        /\ \A d \in 1 .. count : size'[d] = size[d]
        /\ \A d \in 1 .. count' : size'[d] >= Header
    BY <1>1, <1>2, ServingAllocator
  <1>4. blockCnt' \in [Allocators -> Nat]
    BY <1>1, <1>2 DEF TypeOK
  <1>5. TypeOK'
    BY <1>1, <1>2, <1>3, <1>4 DEF TypeOK
  <1>6. Used' = Used /\ BlocksAreExclusive'
    BY <1>1 DEF Used, Owned, BlocksAreExclusive
  <1>7. Free' = Free
    BY <1>2, <1>6 DEF Free
  <1>8. BlocksOK'
    BY <1>1, <1>2, <1>3, <1>6 DEF Lists, BlocksOK, TypeOK
  <1>9. ASSUME NEW d \in Allocators, head'[d] # NULL
        PROVE  d <= count' /\ bytes'[head'[d]] = size'[d]
    <2>1. d <= count /\ bytes[head[d]] = size[d]
      BY <1>1, <1>2, <1>9 DEF Lists, ListsOK
    <2>2. d \in 1 .. count
      BY <2>1, <1>1 DEF Allocators, TypeOK
    <2> QED
      BY <2>1, <2>2, <1>1, <1>2, <1>3 DEF TypeOK
  <1>10. ListsOK' /\ PointersUnique' /\ JobsOK'
    BY <1>1, <1>2, <1>7, <1>9 DEF Lists, ListsOK, PointersUnique, JobsOK
  <1> QED
    BY <1>5, <1>6, <1>8, <1>10 DEF IInv, Lists

\* xmalloc preserves the invariant.
LEMMA XmallocStep ==
  ASSUME IInv, phase = "running", NEW t \in Threads, NEW r \in Requests, Xmalloc(t, r)
  PROVE  /\ IInv'
         /\ \/ TakeFails(r) /\ Used' = Used
            \/ \E b \in Blocks : Take(r, b) /\ Used' = Used \cup {b}
  <1>1. TypeOK /\ BlocksAreExclusive /\ Lists
    BY DEF IInv
  <1>2. job[t] = Idle /\ job' = job /\ phase' = phase
    BY DEF Xmalloc
  <1>3. ASSUME NEW b \in Blocks, Take(r, b), held' = [held EXCEPT ![t] = @ \cup {b}]
        PROVE  IInv' /\ Used' = Used \cup {b}
    <2>1. /\ Owned(t)' = Owned(t) \cup {b}
          /\ \A u \in Threads \ {t} : Owned(u)' = Owned(u)
      BY <1>1, <1>2, <1>3 DEF Owned, TypeOK
    <2>2. Used' = Used \cup {b}
      BY <2>1, UsedGrows
    <2>3. BlocksOK' /\ ListsOK' /\ PointersUnique'
      BY <1>1, <1>3, <2>2, TakeKeepsLists
    <2>4. b \notin Used /\ \A c \in Blocks \ {b} : bytes'[c] = bytes[c] /\ word'[c] = word[c]
      BY <1>1, <1>3, TakeGivesFreshBlock
    <2>5. \A u \in Threads : b \notin Owned(u)
      BY <2>4 DEF Used
    <2>6. JobsOK'
      <3> SUFFICES ASSUME NEW u \in Threads
                   PROVE /\ job[u].op = "free" => job[u].allocator = word'[job[u].block]
                         /\ job[u].op = "copy" => bytes'[job[u].new] >= job[u].req + Header
        BY <1>2 DEF JobsOK
      <3>1. BlocksOf(job[u]) \subseteq Blocks \ {b}
        BY <1>1, <2>5, OwnedAreBlocks DEF Owned
      <3> QED
        BY <3>1, <2>4, <1>1 DEF Lists, JobsOK, BlocksOf
    <2>7. BlocksAreExclusive'
      BY <1>1, <1>2, <1>3, <2>1, <2>5 DEF BlocksAreExclusive, TypeOK, Owned
    <2>8. TypeOK'
      <3>1. held' \in [Threads -> SUBSET Blocks]
        BY <1>1, <1>3 DEF TypeOK
      <3> QED
        BY <3>1, <1>1, <1>2, <1>3, TakeGivesFreshBlock DEF TypeOK
    <2> QED
      BY <2>2, <2>3, <2>6, <2>7, <2>8 DEF IInv, Lists
  <1>4. ASSUME TakeFails(r), held' = held
        PROVE  IInv' /\ Used' = Used
    BY <1>1, <1>2, <1>4, FailedTake DEF Used, Owned
  <1> QED
    BY <1>3, <1>4 DEF Xmalloc

\* xrealloc, as far as the new block, preserves the invariant.
LEMMA XreallocStep ==
  ASSUME IInv, phase = "running", NEW t \in Threads, NEW old \in Blocks, NEW r \in Requests,
         Xrealloc(t, old, r)
  PROVE  /\ IInv'
         /\ \/ TakeFails(r) /\ Used' = Used
            \/ \E b \in Blocks : Take(r, b) /\ Used' = Used \cup {b}
  <1>1. TypeOK /\ BlocksAreExclusive /\ Lists
    BY DEF IInv
  <1>2. job[t] = Idle /\ old \in held[t] /\ phase' = phase
    BY DEF Xrealloc
  <1>3. ASSUME NEW b \in Blocks, Take(r, b), held' = [held EXCEPT ![t] = @ \ {old}],
               job' = [job EXCEPT ![t] = CopyJob(old, b, r)]
        PROVE  IInv' /\ Used' = Used \cup {b}
    <2>1. /\ Owned(t)' = Owned(t) \cup {b}
          /\ \A u \in Threads \ {t} : Owned(u)' = Owned(u)
      BY <1>1, <1>2, <1>3 DEF Owned, TypeOK, BlocksOf, CopyJob, Idle
    <2>2. Used' = Used \cup {b}
      BY <2>1, UsedGrows
    <2>3. BlocksOK' /\ ListsOK' /\ PointersUnique'
      BY <1>1, <1>3, <2>2, TakeKeepsLists
    <2>4. /\ b \notin Used /\ \A c \in Blocks \ {b} : bytes'[c] = bytes[c] /\ word'[c] = word[c]
          /\ bytes'[b] >= r + Header
      BY <1>1, <1>3, TakeGivesFreshBlock
    <2>5. \A u \in Threads : b \notin Owned(u)
      BY <2>4 DEF Used
    <2>6. JobsOK'
      <3> SUFFICES ASSUME NEW u \in Threads
                   PROVE /\ job'[u].op = "free" => job'[u].allocator = word'[job'[u].block]
                         /\ job'[u].op = "copy" => bytes'[job'[u].new] >= job'[u].req + Header
        BY DEF JobsOK
      <3>1. CASE u = t
        BY <3>1, <1>1, <1>3, <2>4 DEF CopyJob, TypeOK
      <3>2. CASE u # t
        <4>1. job'[u] = job[u]
          BY <3>2, <1>1, <1>3 DEF TypeOK
        <4>2. BlocksOf(job[u]) \subseteq Blocks \ {b}
          BY <1>1, <2>5, OwnedAreBlocks DEF Owned
        <4> QED
          BY <4>1, <4>2, <2>4, <1>1 DEF Lists, JobsOK, BlocksOf
      <3> QED
        BY <3>1, <3>2
    <2>7. BlocksAreExclusive'
      <3>1. old # b /\ b \notin held[t]
        BY <1>2, <2>5 DEF Owned
      <3>2. /\ job'[t] = CopyJob(old, b, r) /\ held'[t] = held[t] \ {old}
            /\ \A u \in Threads \ {t} : job'[u] = job[u] /\ held'[u] = held[u]
        BY <1>1, <1>3 DEF TypeOK
      <3>3. ASSUME NEW u \in Threads
            PROVE  /\ held'[u] \cap BlocksOf(job'[u]) = {}
                   /\ job'[u].op = "copy" => job'[u].old # job'[u].new
        <4>1. CASE u = t
          BY <4>1, <3>1, <3>2 DEF BlocksOf, CopyJob
        <4>2. CASE u # t
          BY <4>2, <3>2, <1>1 DEF BlocksAreExclusive
        <4> QED
          BY <4>1, <4>2
      <3>4. \A u, v \in Threads : u # v => Owned(u)' \cap Owned(v)' = {}
        BY <1>1, <2>1, <2>5 DEF BlocksAreExclusive
      <3> QED
        BY <3>3, <3>4 DEF BlocksAreExclusive
    <2>8. TypeOK'
      <3>1. held' \in [Threads -> SUBSET Blocks]
        BY <1>1, <1>3 DEF TypeOK
      <3>2. CopyJob(old, b, r) \in Jobs
        BY DEF CopyJob, Jobs
      <3>3. job' \in [Threads -> Jobs]
        BY <1>1, <1>3, <3>2 DEF TypeOK
      <3> QED
        BY <3>1, <3>3, <1>1, <1>2, <1>3, TakeGivesFreshBlock DEF TypeOK
    <2> QED
      BY <2>2, <2>3, <2>6, <2>7, <2>8 DEF IInv, Lists
  <1>4. ASSUME TakeFails(r), UNCHANGED <<held, job>>
        PROVE  IInv' /\ Used' = Used
    BY <1>1, <1>2, <1>4, FailedTake DEF Used, Owned
  <1> QED
    BY <1>3, <1>4 DEF Xrealloc

\* The first word of a block in use is an Allocator object.
LEMMA HeaderIsAllocator ==
  ASSUME TypeOK, BlocksOK, NEW b \in Used
  PROVE  word[b] \in Allocators
  <1>1. count \in Nat /\ count <= MaxObjects /\ MaxObjects \in Nat
    BY BoundsAssumption DEF TypeOK
  <1>2. word[b] \in 1 .. count
    BY DEF BlocksOK
  <1> QED
    BY <1>1, <1>2 DEF Allocators

\* A step that moves a block within the hands of clients leaves lists and blocks alone.
LEMMA ListsKept ==
  ASSUME BlocksOK, ListsOK, PointersUnique, UNCHANGED lists, Used' = Used
  PROVE  BlocksOK' /\ ListsOK' /\ PointersUnique'
  <1>1. Free' = Free
    BY DEF Free, lists
  <1> QED
    BY <1>1 DEF BlocksOK, ListsOK, PointersUnique, lists

\* The unlocked read of xfree preserves the invariant: the word read is the block's Allocator.
LEMMA XfreeReadStep ==
  ASSUME IInv, phase = "running", NEW t \in Threads, NEW owner \in Threads, NEW b \in Blocks,
         XfreeRead(t, owner, b)
  PROVE  IInv' /\ Used' = Used
  <1>1. TypeOK /\ BlocksAreExclusive /\ Lists
    BY DEF IInv
  <1>2. /\ job[t] = Idle /\ b \in held[owner]
        /\ held' = [held EXCEPT ![owner] = @ \ {b}]
        /\ job' = [job EXCEPT ![t] = FreeJob(b, word[b])]
        /\ UNCHANGED <<lists, phase>>
    BY DEF XfreeRead
  <1>3. b \in Owned(owner) /\ b \in Used /\ b \notin BlocksOf(job[owner])
    BY <1>1, <1>2 DEF Owned, Used, BlocksAreExclusive
  <1>4. word[b] \in Allocators
    BY <1>1, <1>3, HeaderIsAllocator DEF Lists
  <1>5. /\ job'[t] = FreeJob(b, word[b])
        /\ \A u \in Threads \ {t} : job'[u] = job[u]
        /\ held'[owner] = held[owner] \ {b}
        /\ \A u \in Threads \ {owner} : held'[u] = held[u]
    BY <1>1, <1>2 DEF TypeOK
  <1>6. BlocksOf(job[t]) = {} /\ BlocksOf(job'[t]) = {b}
    BY <1>2, <1>5 DEF BlocksOf, Idle, FreeJob
  <1>7. \A u \in Threads : Owned(u)' \ {b} = Owned(u) \ {b}
    BY <1>5, <1>6 DEF Owned
  <1>8. b \in Owned(t)' /\ \A u \in Threads \ {t} : b \notin Owned(u)'
    BY <1>1, <1>3, <1>5, <1>6 DEF Owned, BlocksAreExclusive
  <1>9. Used' = Used
    BY <1>3, <1>7, <1>8 DEF Used
  <1>10. BlocksOK' /\ ListsOK' /\ PointersUnique'
    BY <1>1, <1>2, <1>9, ListsKept DEF Lists
  <1>11. JobsOK'
    <2>1. word' = word /\ bytes' = bytes
      BY <1>2 DEF lists
    <2>2. job'[t].op = "free" /\ job'[t].allocator = word[b] /\ job'[t].block = b
      BY <1>5 DEF FreeJob
    <2> QED
      BY <1>1, <1>5, <2>1, <2>2 DEF Lists, JobsOK
  <1>12. BlocksAreExclusive'
    <2>1. \A u, v \in Threads : u # v => Owned(u)' \cap Owned(v)' = {}
      BY <1>1, <1>7, <1>8 DEF BlocksAreExclusive
    <2>2. job'[t].op # "copy"
      BY <1>5 DEF FreeJob
    <2>3. \A u \in Threads : held'[u] \cap BlocksOf(job'[u]) = {}
      <3> SUFFICES ASSUME NEW u \in Threads PROVE held'[u] \cap BlocksOf(job'[u]) = {}
        OBVIOUS
      <3>1. CASE u = t
        <4>1. b \notin held'[t]
          BY <1>1, <1>3, <1>5 DEF Owned, BlocksAreExclusive
        <4> QED
          BY <3>1, <4>1, <1>6
      <3>2. CASE u # t
        BY <3>2, <1>1, <1>5 DEF BlocksAreExclusive
      <3> QED
        BY <3>1, <3>2
    <2> QED
      BY <1>1, <1>5, <2>1, <2>2, <2>3 DEF BlocksAreExclusive
  <1>13. TypeOK'
    <2>1. FreeJob(b, word[b]) \in Jobs
      BY <1>4 DEF FreeJob, Jobs
    <2>2. job' \in [Threads -> Jobs] /\ held' \in [Threads -> SUBSET Blocks]
      BY <1>1, <1>2, <2>1 DEF TypeOK
    <2> QED
      BY <2>2, <1>1, <1>2 DEF TypeOK, lists
  <1> QED
    BY <1>9, <1>10, <1>11, <1>12, <1>13 DEF IInv, Lists

\* The copy of xrealloc, and the unlocked read of its xfree, preserve the invariant.
LEMMA XreallocCopyStep ==
  ASSUME IInv, phase = "running", NEW t \in Threads, XreallocCopy(t)
  PROVE  IInv' /\ Used' = Used
  <1> DEFINE j == job[t]
  <1>1. TypeOK /\ BlocksAreExclusive /\ Lists
    BY DEF IInv
  <1>2. /\ j.op = "copy"
        /\ held' = [held EXCEPT ![t] = @ \cup {j.new}]
        /\ job' = [job EXCEPT ![t] = FreeJob(j.old, word[j.old])]
        /\ UNCHANGED <<lists, phase>>
    BY DEF XreallocCopy
  <1>3. BlocksOf(j) = {j.old, j.new} /\ j.old # j.new /\ j.old \in Blocks /\ j.new \in Blocks
    <2>1. BlocksOf(j) = {j.old, j.new}
      BY <1>2 DEF BlocksOf
    <2> QED
      BY <2>1, <1>1, <1>2, OwnedAreBlocks DEF Owned, BlocksAreExclusive
  <1>4. j.old \in Used /\ j.old \notin held[t]
    BY <1>1, <1>3 DEF Owned, Used, BlocksAreExclusive
  <1>5. word[j.old] \in Allocators
    BY <1>1, <1>4, HeaderIsAllocator DEF Lists
  <1>6. /\ job'[t] = FreeJob(j.old, word[j.old])
        /\ \A u \in Threads \ {t} : job'[u] = job[u] /\ held'[u] = held[u]
        /\ held'[t] = held[t] \cup {j.new}
    BY <1>1, <1>2 DEF TypeOK
  <1>7. BlocksOf(job'[t]) = {j.old}
    BY <1>6 DEF BlocksOf, FreeJob
  <1>8. \A u \in Threads : Owned(u)' = Owned(u)
    BY <1>3, <1>6, <1>7 DEF Owned
  <1>9. Used' = Used
    BY <1>8 DEF Used
  <1>10. BlocksOK' /\ ListsOK' /\ PointersUnique'
    BY <1>1, <1>2, <1>9, ListsKept DEF Lists
  <1>11. JobsOK'
    <2>1. word' = word /\ bytes' = bytes
      BY <1>2 DEF lists
    <2>2. job'[t].op = "free" /\ job'[t].allocator = word[j.old] /\ job'[t].block = j.old
      BY <1>6 DEF FreeJob
    <2> QED
      BY <1>1, <1>6, <2>1, <2>2 DEF Lists, JobsOK
  <1>12. BlocksAreExclusive'
    <2>1. job'[t].op # "copy" /\ held'[t] \cap BlocksOf(job'[t]) = {}
      BY <1>3, <1>4, <1>6, <1>7 DEF FreeJob
    <2> QED
      BY <2>1, <1>1, <1>6, <1>8 DEF BlocksAreExclusive
  <1>13. TypeOK'
    <2>1. FreeJob(j.old, word[j.old]) \in Jobs
      BY <1>3, <1>5 DEF FreeJob, Jobs
    <2>2. job' \in [Threads -> Jobs] /\ held' \in [Threads -> SUBSET Blocks]
      BY <1>1, <1>2, <1>3, <2>1 DEF TypeOK
    <2> QED
      BY <2>2, <1>1, <1>2 DEF TypeOK, lists
  <1> QED
    BY <1>9, <1>10, <1>11, <1>12, <1>13 DEF IInv, Lists

\* What Deallocate does to the lists and to those in whose hands blocks are.
LEMMA PushedBlock ==
  ASSUME IInv, phase = "running", NEW t \in Threads, XfreePush(t)
  PROVE  LET b == job[t].block
             a == job[t].allocator
         IN  /\ b \in Blocks /\ b \in Used /\ b \notin Free /\ bytes[b] # 0 /\ b # NULL
             /\ a = word[b] /\ a \in 1 .. count /\ a \in Allocators
             /\ bytes[b] = size[a] /\ size[a] >= Header
             /\ BlocksOf(job[t]) = {b}
             /\ job'[t] = Idle /\ BlocksOf(job'[t]) = {}
             /\ \A u \in Threads \ {t} : job'[u] = job[u]
             /\ Owned(t)' = Owned(t) \ {b}
             /\ \A u \in Threads \ {t} : Owned(u)' = Owned(u) /\ b \notin Owned(u)
             /\ Used' = Used \ {b}
             /\ Free' = Free \cup {b}
             /\ word'[b] = head[a] /\ head'[a] = b
             /\ \A c \in Blocks \ {b} : word'[c] = word[c]
             /\ \A d \in Allocators \ {a} : head'[d] = head[d]
             /\ \A c \in Free : c \in Blocks \ {b} /\ word'[c] = word[c]
  <1> DEFINE b == job[t].block
             a == job[t].allocator
  <1>1. TypeOK /\ BlocksAreExclusive /\ Lists
    BY DEF IInv
  <1>2. /\ job[t].op = "free"
        /\ word' = [word EXCEPT ![b] = head[a]]
        /\ head' = [head EXCEPT ![a] = b]
        /\ inUse' = [inUse EXCEPT ![a] = @ - 1]
        /\ job' = [job EXCEPT ![t] = Idle]
        /\ UNCHANGED <<count, size, blockCnt, bytes, held, phase>>
    BY DEF XfreePush, Deallocate
  <1>3. BlocksOf(job[t]) = {b}
    BY <1>2 DEF BlocksOf
  <1>4. b \in Blocks /\ b \in Used
    BY <1>1, <1>3, OwnedAreBlocks DEF Owned, Used
  <1>5. a = word[b] /\ a \in 1 .. count /\ bytes[b] = size[a] /\ size[a] >= Header
    BY <1>1, <1>2, <1>4 DEF Lists, JobsOK, BlocksOK
  <1>6. a \in Allocators
    BY <1>1, <1>4, <1>5, HeaderIsAllocator DEF Lists
  <1>7. /\ job'[t] = Idle /\ BlocksOf(job'[t]) = {}
        /\ \A u \in Threads \ {t} : job'[u] = job[u]
    BY <1>1, <1>2 DEF TypeOK, BlocksOf, Idle
  <1>8. /\ Owned(t)' = Owned(t) \ {b}
        /\ \A u \in Threads \ {t} : Owned(u)' = Owned(u) /\ b \notin Owned(u)
    BY <1>1, <1>2, <1>3, <1>7 DEF Owned, BlocksAreExclusive
  <1>9. Used' = Used \ {b}
    BY <1>8 DEF Used
  <1>10. bytes[b] # 0 /\ b \notin Free /\ b # NULL
    BY <1>1, <1>4, <1>5, NullAssumption DEF Free, Header, TypeOK
  <1>11. Free' = Free \cup {b}
    BY <1>2, <1>4, <1>9, <1>10 DEF Free
  <1>12. /\ word'[b] = head[a] /\ head'[a] = b
         /\ \A c \in Blocks \ {b} : word'[c] = word[c]
         /\ \A d \in Allocators \ {a} : head'[d] = head[d]
    BY <1>1, <1>2, <1>4, <1>6 DEF TypeOK
  <1>13. \A c \in Free : c \in Blocks \ {b} /\ word'[c] = word[c]
    BY <1>10, <1>12 DEF Free
  <1> QED
    BY <1>3, <1>4, <1>5, <1>6, <1>7, <1>8, <1>9, <1>10, <1>11, <1>12, <1>13

\* Deallocate links the block before the others of its list, and preserves the invariant.
LEMMA XfreePushStep ==
  ASSUME IInv, phase = "running", NEW t \in Threads, XfreePush(t)
  PROVE  IInv' /\ job[t].block \in Blocks \cap Used /\ Used' = Used \ {job[t].block}
  <1> DEFINE b == job[t].block
             a == job[t].allocator
  <1>1. TypeOK /\ BlocksAreExclusive /\ Lists
    BY DEF IInv
  <1>2. /\ job[t].op = "free"
        /\ word' = [word EXCEPT ![b] = head[a]]
        /\ head' = [head EXCEPT ![a] = b]
        /\ inUse' = [inUse EXCEPT ![a] = @ - 1]
        /\ job' = [job EXCEPT ![t] = Idle]
        /\ UNCHANGED <<count, size, blockCnt, bytes, held, phase>>
    BY DEF XfreePush, Deallocate
  <1>4. b \in Blocks /\ b \in Used
    BY PushedBlock
  <1>5. a = word[b] /\ a \in 1 .. count /\ bytes[b] = size[a] /\ size[a] >= Header
    BY PushedBlock
  <1>6. a \in Allocators
    BY PushedBlock
  <1>7. /\ job'[t] = Idle /\ BlocksOf(job'[t]) = {}
        /\ \A u \in Threads \ {t} : job'[u] = job[u]
    BY PushedBlock
  <1>8. /\ Owned(t)' = Owned(t) \ {b}
        /\ \A u \in Threads \ {t} : Owned(u)' = Owned(u) /\ b \notin Owned(u)
    BY PushedBlock
  <1>9. Used' = Used \ {b}
    BY PushedBlock
  <1>10. bytes[b] # 0 /\ b \notin Free /\ b # NULL
    BY PushedBlock
  <1>11. Free' = Free \cup {b}
    BY PushedBlock
  <1>12. /\ word'[b] = head[a] /\ head'[a] = b
         /\ \A c \in Blocks \ {b} : word'[c] = word[c]
         /\ \A d \in Allocators \ {a} : head'[d] = head[d]
    BY PushedBlock
  <1>13. \A c \in Free : c \in Blocks \ {b} /\ word'[c] = word[c]
    BY PushedBlock
  <1>14. BlocksOK'
    <2>1. \A c \in Used' : c \in Used /\ c \in Blocks \ {b}
      BY <1>1, <1>9, OwnedAreBlocks
    <2> QED
      BY <2>1, <1>1, <1>2, <1>12 DEF Lists, BlocksOK
  <1>15. ListsOK'
    <2>1. head[a] \in Free \cup {NULL} /\ (head[a] # NULL => bytes[head[a]] = bytes[b])
      BY <1>1, <1>5, <1>6 DEF Lists, ListsOK
    <2>2. \A c \in Free' : word'[c] \in Free' \cup {NULL}
      BY <2>1, <1>1, <1>11, <1>12, <1>13 DEF Lists, ListsOK
    <2>3. \A c \in Free' : word'[c] # NULL => bytes[word'[c]] = bytes[c]
      BY <2>1, <1>1, <1>11, <1>12, <1>13 DEF Lists, ListsOK
    <2>4. \A d \in Allocators : head'[d] \in Free' \cup {NULL}
      BY <1>1, <1>11, <1>12 DEF Lists, ListsOK
    <2>5. a <= count
      BY <1>1, <1>5 DEF TypeOK
    <2>6. \A d \in Allocators : head'[d] # NULL => d <= count /\ bytes[head'[d]] = size[d]
      BY <2>5, <1>1, <1>5, <1>12 DEF Lists, ListsOK
    <2> QED
      BY <2>2, <2>3, <2>4, <2>6, <1>2 DEF ListsOK
  <1>16. PointersUnique'
    <2>1. \A c \in Free : word[c] # b
      BY <1>1, <1>10 DEF Lists, ListsOK
    <2>2. \A d \in Allocators : head[d] # b
      BY <1>1, <1>10 DEF Lists, ListsOK
    <2>3. \A c, d \in Free' : word'[c] # NULL /\ word'[c] = word'[d] => c = d
      BY <1>1, <1>6, <1>11, <1>12, <1>13 DEF Lists, PointersUnique
    <2>4. \A d, e \in Allocators : head'[d] # NULL /\ head'[d] = head'[e] => d = e
      BY <2>2, <1>1, <1>12 DEF Lists, PointersUnique
    <2>5. \A d \in Allocators, c \in Free' : head'[d] # NULL => head'[d] # word'[c]
      BY <2>1, <2>2, <1>1, <1>6, <1>11, <1>12, <1>13 DEF Lists, PointersUnique
    <2> QED
      BY <2>3, <2>4, <2>5 DEF PointersUnique
  <1>17. JobsOK'
    <2> SUFFICES ASSUME NEW u \in Threads \ {t}
                 PROVE /\ job[u].op = "free" => job[u].allocator = word'[job[u].block]
                       /\ job[u].op = "copy" => bytes[job[u].new] >= job[u].req + Header
      BY <1>2, <1>7 DEF JobsOK, Idle
    <2>1. BlocksOf(job[u]) \subseteq Blocks \ {b}
      BY <1>1, <1>8, OwnedAreBlocks DEF Owned
    <2> QED
      BY <2>1, <1>1, <1>12 DEF Lists, JobsOK, BlocksOf
  <1>18. BlocksAreExclusive'
    <2>1. \A u, v \in Threads : u # v => Owned(u)' \cap Owned(v)' = {}
      BY <1>1, <1>8 DEF BlocksAreExclusive
    <2>2. job'[t].op # "copy"
      BY <1>7 DEF Idle
    <2> QED
      BY <2>1, <2>2, <1>1, <1>2, <1>7 DEF BlocksAreExclusive
  <1>19. TypeOK'
    <2>1. Idle \in Jobs
      BY DEF Jobs
    <2>2. job' \in [Threads -> Jobs]
      BY <2>1, <1>1, <1>2 DEF TypeOK
    <2>3. head' \in [Allocators -> Blocks \cup {NULL}]
      BY <1>1, <1>2, <1>4 DEF TypeOK
    <2>4. inUse' \in [Allocators -> Int]
      <3>1. inUse[a] - 1 \in Int
        BY <1>1, <1>6 DEF TypeOK
      <3> HIDE DEF a
      <3> QED
        BY <3>1, <1>1, <1>2 DEF TypeOK
    <2>5. word' \in [Blocks -> Blocks \cup {NULL} \cup Allocators]
      BY <1>1, <1>2, <1>6 DEF TypeOK
    <2> QED
      BY <2>2, <2>3, <2>4, <2>5, <1>1, <1>2 DEF TypeOK
  <1> QED
    BY <1>4, <1>9, <1>14, <1>15, <1>16, <1>17, <1>18, <1>19 DEF IInv, Lists

\* The exit of the program, by xalloc_destroy or by an assertion.
LEMMA ExitStep ==
  ASSUME IInv, phase = "running",
         XallocDestroy \/ \E t \in Threads, r \in Requests : XmallocAborts(t, r)
  PROVE  IInv'
  <1>1. TypeOK /\ BlocksAreExclusive
    BY DEF IInv
  <1>2. CASE XallocDestroy
    <2>1. bytes' \in [Blocks -> Nat]
      BY <1>1, <1>2 DEF XallocDestroy, TypeOK
    <2>2. head' \in [Allocators -> Blocks \cup {NULL}]
      BY <1>1, <1>2 DEF XallocDestroy, TypeOK
    <2> QED
      BY <1>1, <1>2, <2>1, <2>2
      DEF XallocDestroy, TypeOK, BlocksAreExclusive, Owned, IInv
  <1>3. CASE \E t \in Threads, r \in Requests : XmallocAborts(t, r)
    BY <1>1, <1>3 DEF XmallocAborts, lists, TypeOK, BlocksAreExclusive, Owned, IInv
  <1> QED
    BY <1>2, <1>3

\* Every step preserves the invariant.
LEMMA IInvIsInductive == IInv /\ [Next]_vars => IInv'
  <1> SUFFICES ASSUME IInv, [Next]_vars PROVE IInv'
    OBVIOUS
  <1>1. CASE UNCHANGED vars
    <2>1. Used' = Used /\ Free' = Free
      BY <1>1 DEF vars, Used, Owned, Free
    <2> QED
      BY <1>1, <2>1
      DEF vars, IInv, TypeOK, BlocksAreExclusive, Owned, Lists, BlocksOK, ListsOK,
          PointersUnique, JobsOK
  <1>2. ASSUME phase = "running", XallocDestroy PROVE IInv'
    BY <1>2, ExitStep
  <1>3. ASSUME phase = "running", NEW t \in Threads, ThreadStep(t) PROVE IInv'
    <2>1. ASSUME NEW r \in Requests, Xmalloc(t, r) PROVE IInv'
      BY <1>3, <2>1, XmallocStep
    <2>2. ASSUME NEW r \in Requests, XmallocAborts(t, r) PROVE IInv'
      BY <1>3, <2>2, ExitStep
    <2>3. ASSUME NEW owner \in Threads, NEW b \in Blocks, XfreeRead(t, owner, b) PROVE IInv'
      BY <1>3, <2>3, XfreeReadStep
    <2>4. ASSUME XfreePush(t) PROVE IInv'
      BY <1>3, <2>4, XfreePushStep
    <2>5. ASSUME NEW old \in Blocks, NEW r \in Requests, Xrealloc(t, old, r) PROVE IInv'
      BY <1>3, <2>5, XreallocStep
    <2>6. ASSUME XreallocCopy(t) PROVE IInv'
      BY <1>3, <2>6, XreallocCopyStep
    <2> QED
      BY <1>3, <2>1, <2>2, <2>3, <2>4, <2>5, <2>6 DEF ThreadStep
  <1> QED
    BY <1>1, <1>2, <1>3 DEF Next

-----------------------------------------------------------------------------
(***************************************************************************)
(* xmalloc never hands out a block that a client still has, or that a call *)
(* is still copying from or giving back, whatever the threads do.          *)
(***************************************************************************)
THEOREM ExclusiveOwnership == Spec => [](TypeOK /\ BlocksAreExclusive)
  <1>1. IInv => TypeOK /\ BlocksAreExclusive
    BY DEF IInv
  <1> QED
    BY <1>1, InitIInv, IInvIsInductive, PTL DEF Spec

\* The word that xfree and xrealloc read without the mutex names the block's Allocator.
THEOREM HeadersAreStable == Spec => []HeaderNamesOwner
  <1>1. IInv => HeaderNamesOwner
    BY DEF IInv, Lists, BlocksOK, JobsOK, HeaderNamesOwner
  <1> QED
    BY <1>1, InitIInv, IInvIsInductive, PTL DEF Spec

\* The memcpy of xrealloc stays inside the old block and inside the new one.
THEOREM CopiesFit == Spec => []CopyFits
  <1>1. IInv => CopyFits
    <2> SUFFICES ASSUME IInv, phase = "running", NEW t \in Threads, job[t].op = "copy"
                 PROVE  /\ CopyLength(job[t]) + Header <= bytes[job[t].old]
                        /\ CopyLength(job[t]) + Header <= bytes[job[t].new]
      BY DEF CopyFits
    <2> DEFINE j == job[t]
    <2>1. TypeOK /\ Lists
      BY DEF IInv
    <2>2. BlocksOf(j) = {j.old, j.new}
      BY DEF BlocksOf
    <2>3. j.old \in Used /\ j.old \in Blocks /\ j.new \in Blocks
      BY <2>1, <2>2, OwnedAreBlocks DEF Owned, Used
    <2>4. word[j.old] \in Allocators /\ bytes[j.old] = size[word[j.old]]
      BY <2>1, <2>3, HeaderIsAllocator DEF Lists, BlocksOK
    <2>5. bytes[j.new] >= j.req + Header
      BY <2>1 DEF Lists, JobsOK
    <2>6. j.req \in Nat
      <3>1. j \in Jobs
        BY <2>1 DEF TypeOK
      <3>2. j \in [op : {"copy"}, old : Blocks, new : Blocks, req : Requests]
        BY <3>1 DEF Jobs, Idle
      <3> QED
        BY <3>2, RequestsAssumption
    <2>7. bytes[j.old] \in Nat /\ bytes[j.new] \in Nat
      BY <2>1, <2>3 DEF TypeOK
    <2> QED
      BY <2>4, <2>5, <2>6, <2>7 DEF CopyLength, Header
  <1> QED
    BY <1>1, InitIInv, IInvIsInductive, PTL DEF Spec

-----------------------------------------------------------------------------
Rooms == [b \in Blocks |-> Room(b)]

\* The lists hand out blocks as the memory manager of MemoryBlocks does.
LEMMA TakeAcquires ==
  ASSUME IInv, phase = "running", NEW r \in Requests, NEW b \in Blocks, Take(r, b),
         Used' = Used \cup {b}
  PROVE  Memory!Next
  <1>1. /\ b \notin Used
        /\ \A c \in Blocks \ {b} : bytes'[c] = bytes[c]
        /\ bytes'[b] = bytes[b] \/ bytes[b] = 0
        /\ bytes'[b] >= r + Header
        /\ bytes' \in [Blocks -> Nat] /\ bytes \in [Blocks -> Nat]
    BY TakeGivesFreshBlock DEF IInv, TypeOK
  <1>2. r \in Nat
    BY RequestsAssumption
  <1>3. Rooms'[b] >= r
    BY <1>1, <1>2 DEF Rooms, Room, Header
  <1>4. \A c \in Blocks \ {b} : Rooms'[c] = Rooms[c]
    BY <1>1 DEF Rooms, Room
  <1>5. Rooms' = Rooms \/ Rooms[b] = 0
    <2>1. CASE bytes'[b] = bytes[b]
      BY <2>1, <1>1 DEF Rooms, Room
    <2>2. CASE bytes[b] = 0
      BY <2>2 DEF Rooms, Room
    <2> QED
      BY <2>1, <2>2, <1>1
  <1>6. Memory!Acquire(b, r)
    BY <1>1, <1>3, <1>4, <1>5 DEF Memory!Acquire, Rooms
  <1> QED
    BY <1>6 DEF Memory!Next

\* A step of a thread acquires a block, releases one, or is invisible to the memory manager's clients.
LEMMA ThreadStepRefines ==
  ASSUME IInv, phase = "running", NEW t \in Threads, ThreadStep(t)
  PROVE  Memory!Next \/ UNCHANGED <<Used, Rooms>>
  <1>1. bytes' = bytes => Rooms' = Rooms
    BY DEF Rooms, Room
  <1>2. ASSUME NEW r \in Requests, Xmalloc(t, r)
        PROVE  Memory!Next \/ UNCHANGED <<Used, Rooms>>
    BY <1>1, <1>2, XmallocStep, TakeAcquires DEF TakeFails
  <1>3. ASSUME NEW r \in Requests, XmallocAborts(t, r)
        PROVE  UNCHANGED <<Used, Rooms>>
    BY <1>1, <1>3 DEF XmallocAborts, lists, Used, Owned
  <1>4. ASSUME NEW owner \in Threads, NEW b \in Blocks, XfreeRead(t, owner, b)
        PROVE  UNCHANGED <<Used, Rooms>>
    BY <1>1, <1>4, XfreeReadStep DEF XfreeRead, lists
  <1>5. ASSUME XfreePush(t)
        PROVE  Memory!Next
    <2> DEFINE b == job[t].block
    <2>1. b \in Blocks /\ b \in Used /\ Used' = Used \ {b}
      BY <1>5, XfreePushStep
    <2>2. Rooms' = Rooms
      BY <1>1, <1>5 DEF XfreePush
    <2>3. Memory!Release(b)
      BY <2>1, <2>2 DEF Memory!Release, Rooms
    <2> QED
      BY <2>1, <2>3 DEF Memory!Next
  <1>6. ASSUME NEW old \in Blocks, NEW r \in Requests, Xrealloc(t, old, r)
        PROVE  Memory!Next \/ UNCHANGED <<Used, Rooms>>
    BY <1>1, <1>6, XreallocStep, TakeAcquires DEF TakeFails
  <1>7. ASSUME XreallocCopy(t)
        PROVE  UNCHANGED <<Used, Rooms>>
    BY <1>1, <1>7, XreallocCopyStep DEF XreallocCopy, lists
  <1> QED
    BY <1>2, <1>3, <1>4, <1>5, <1>6, <1>7 DEF ThreadStep

-----------------------------------------------------------------------------
\* A set of natural numbers has a least element: the induction principle of this module.
LEMMA LeastNumber ==
  ASSUME NEW S, S \subseteq Nat, S # {}
  PROVE  \E x \in S : \A y \in S : x <= y
  <1> DEFINE R == OpToRel(<, Nat)
  <1>1. IsWellFoundedOn(R, Nat)
    BY NatLessThanWellFounded
  <1>2. PICK x \in S : \A y \in S : ~ (<<y, x>> \in R)
    <2> HIDE DEF R
    <2> QED
      BY <1>1, WFMin
  <1>3. \A y \in S : x <= y
    <2> SUFFICES ASSUME NEW y \in S, ~ (x <= y) PROVE FALSE
      OBVIOUS
    <2>1. y \in Nat /\ x \in Nat /\ y < x
      OBVIOUS
    <2>2. <<y, x>> \in R
      BY <2>1 DEF OpToRel
    <2> QED
      BY <2>2, <1>2
  <1> QED
    BY <1>3

\* Where the link of a block leads; a walk that has ended stays ended.
Link(b) == IF b \in Blocks THEN word[b] ELSE NULL

\* A walk of n links along the list of an Allocator.
IsWalk(at, a, n) ==
  /\ at = [i \in 0 .. n |-> at[i]]
  /\ at[0] = head[a]
  /\ \A i \in 1 .. n : at[i] = Link(at[i - 1])

\* Walks of every length exist.
LEMMA WalkExists ==
  ASSUME NEW a, NEW n \in Nat
  PROVE  \E at : IsWalk(at, a, n)
  <1> DEFINE Missing == {k \in Nat : ~ \E at : IsWalk(at, a, k)}
  <1> SUFFICES ASSUME Missing # {} PROVE FALSE
    OBVIOUS
  <1>1. PICK k \in Missing : \A m \in Missing : k <= m
    BY LeastNumber
  <1>2. CASE k = 0
    <2> DEFINE at == [i \in 0 .. 0 |-> head[a]]
    <2>1. IsWalk(at, a, 0)
      BY DEF IsWalk
    <2> QED
      BY <1>2, <2>1
  <1>3. CASE k # 0
    <2>1. k \in Nat /\ k - 1 \in Nat /\ k - 1 \notin Missing
      BY <1>1, <1>3
    <2>2. PICK at : IsWalk(at, a, k - 1)
      BY <2>1
    <2> DEFINE longer == [i \in 0 .. k |-> IF i < k THEN at[i] ELSE Link(at[k - 1])]
    <2>3. \A i \in 0 .. k - 1 : longer[i] = at[i]
      BY <2>1
    <2>4. longer[k] = Link(at[k - 1])
      BY <2>1
    <2>5. longer = [i \in 0 .. k |-> longer[i]]
      OBVIOUS
    <2> HIDE DEF longer
    <2>9. at[0] = head[a] /\ \A i \in 1 .. k - 1 : at[i] = Link(at[i - 1])
      BY <2>2 DEF IsWalk
    <2>6. longer[0] = head[a]
      BY <2>1, <2>3, <2>9
    <2>7. ASSUME NEW i \in 1 .. k PROVE longer[i] = Link(longer[i - 1])
      <3>1. CASE i = k
        BY <3>1, <2>1, <2>3, <2>4
      <3>2. CASE i # k
        <4>1. i \in 1 .. k - 1 /\ i - 1 \in 0 .. k - 1 /\ i \in 0 .. k - 1
          BY <3>2, <2>1
        <4> QED
          BY <4>1, <2>3, <2>9
      <3> QED
        BY <3>1, <3>2
    <2>8. IsWalk(longer, a, k)
      BY <2>5, <2>6, <2>7 DEF IsWalk
    <2> QED
      BY <1>1, <2>8
  <1> QED
    BY <1>2, <1>3

\* The blocks of Chain are those on a walk as long as the number of blocks.
LEMMA ChainIsWalk ==
  ASSUME NEW a
  PROVE  \E at : /\ at = Walk(a)
                 /\ IsWalk(at, a, Cardinality(Blocks))
                 /\ Chain(a) = {b \in Blocks : \E n \in 0 .. Cardinality(Blocks) : at[n] = b}
  <1> DEFINE N == Cardinality(Blocks)
             Body(f) == [n \in 0 .. N |-> IF n = 0 THEN head[a]
                                          ELSE IF f[n - 1] \in Blocks THEN word[f[n - 1]] ELSE NULL]
             at == CHOOSE f : f = Body(f)
  <1>1. N \in Nat
    BY HeapAssumption, FS_CardinalityType
  <1>2. PICK f : IsWalk(f, a, N)
    BY <1>1, WalkExists
  <1>3. f = Body(f)
    <2>1. f = [n \in 0 .. N |-> f[n]] /\ f[0] = head[a] /\ \A n \in 1 .. N : f[n] = Link(f[n - 1])
      BY <1>2 DEF IsWalk
    <2>2. ASSUME NEW n \in 0 .. N
          PROVE  f[n] = IF n = 0 THEN head[a]
                        ELSE IF f[n - 1] \in Blocks THEN word[f[n - 1]] ELSE NULL
      <3>1. n # 0 => n \in 1 .. N
        BY <1>1
      <3> HIDE DEF N
      <3> QED
        BY <2>1, <3>1 DEF Link
    <2> HIDE DEF N
    <2> QED
      BY <2>1, <2>2
  <1>4. at = Body(at)
    BY <1>3
  <1>5. Chain(a) = {b \in Blocks : \E n \in 0 .. N : at[n] = b}
    BY DEF Chain, Walk
  <1>6. at = Walk(a)
    BY DEF Walk
  <1>7. IsWalk(at, a, N)
    <2> HIDE DEF at
    <2> HIDE DEF N
    <2>1. at = [n \in 0 .. N |-> at[n]]
      BY <1>4
    <2>2. \A n \in 0 .. N : at[n] = IF n = 0 THEN head[a]
                                   ELSE IF at[n - 1] \in Blocks THEN word[at[n - 1]] ELSE NULL
      BY <1>4
    <2>3. 0 \in 0 .. N /\ \A i \in 1 .. N : i \in 0 .. N /\ i # 0
      BY <1>1
    <2>4. at[0] = head[a]
      BY <2>2, <2>3
    <2>5. \A i \in 1 .. N : at[i] = Link(at[i - 1])
      BY <2>2, <2>3 DEF Link
    <2> QED
      BY <2>1, <2>4, <2>5 DEF IsWalk
  <1> HIDE DEF at
  <1> QED
    BY <1>5, <1>6, <1>7

\* No list is a detached ring: each free block is a head, or is linked from one of less depth.
Linked ==
  \E depth \in [Blocks -> Nat] :
    \A b \in Free : \/ \E a \in Allocators : head[a] = b
                    \/ \E c \in Free : word[c] = b /\ depth[c] < depth[b]

\* A walk meets free blocks of the size of its Allocator, until it ends.
LEMMA WalkMembers ==
  ASSUME TypeOK, Lists, NEW a \in Allocators, NEW n \in Nat, NEW at, IsWalk(at, a, n)
  PROVE  \A i \in 0 .. n : /\ at[i] \in Free \cup {NULL}
                           /\ at[i] # NULL => a <= count /\ bytes[at[i]] = size[a]
  <1> DEFINE OK(i) == /\ at[i] \in Free \cup {NULL}
                      /\ at[i] # NULL => a <= count /\ bytes[at[i]] = size[a]
             Bad == {i \in 0 .. n : ~ OK(i)}
  <1> SUFFICES ASSUME Bad # {} PROVE FALSE
    OBVIOUS
  <1>0. Bad \subseteq Nat
    OBVIOUS
  <1>1. PICK k \in Bad : \A m \in Bad : k <= m
    <2> HIDE DEF Bad
    <2> QED
      BY <1>0, LeastNumber
  <1>2. at[0] = head[a] /\ \A i \in 1 .. n : at[i] = Link(at[i - 1])
    BY DEF IsWalk
  <1>3. CASE k = 0
    BY <1>1, <1>2, <1>3 DEF Lists, ListsOK
  <1>4. CASE k # 0
    <2>1. k \in 1 .. n /\ k - 1 \in 0 .. n /\ k - 1 \notin Bad
      BY <1>1, <1>4
    <2>2. OK(k - 1) /\ at[k] = Link(at[k - 1])
      BY <1>2, <2>1
    <2>3. CASE at[k - 1] = NULL
      BY <1>1, <2>2, <2>3, NullAssumption DEF Link
    <2>4. CASE at[k - 1] # NULL
      <3>1. at[k - 1] \in Free /\ at[k] = word[at[k - 1]]
        BY <2>2, <2>4 DEF Link, Free
      <3>2. a <= count /\ bytes[at[k - 1]] = size[a]
        BY <2>2, <2>4
      <3>3. at[k] \in Free \cup {NULL} /\ (at[k] # NULL => bytes[at[k]] = bytes[at[k - 1]])
        BY <3>1 DEF Lists, ListsOK
      <3>4. OK(k)
        BY <3>2, <3>3
      <3> QED
        BY <1>1, <3>4
    <2> QED
      BY <2>3, <2>4
  <1> QED
    BY <1>3, <1>4

\* Two walks that meet in a block are one walk, at one step.
LEMMA WalksMeet ==
  ASSUME TypeOK, Lists, NEW a \in Allocators, NEW d \in Allocators, NEW n \in Nat,
         NEW at, NEW au, IsWalk(at, a, n), IsWalk(au, d, n)
  PROVE  \A i, j \in 0 .. n : at[i] \in Blocks /\ at[i] = au[j] => a = d /\ i = j
  <1> DEFINE Bad == {i \in 0 .. n : \E j \in 0 .. n : at[i] \in Blocks /\ at[i] = au[j]
                                                      /\ ~ (a = d /\ i = j)}
  <1> SUFFICES ASSUME Bad # {} PROVE FALSE
    OBVIOUS
  <1>0. Bad \subseteq Nat
    OBVIOUS
  <1>1. PICK k \in Bad : \A m \in Bad : k <= m
    <2> HIDE DEF Bad
    <2> QED
      BY <1>0, LeastNumber
  <1>2. PICK j \in 0 .. n : at[k] \in Blocks /\ at[k] = au[j] /\ ~ (a = d /\ k = j)
    BY <1>1
  <1>3. at[0] = head[a] /\ \A i \in 1 .. n : at[i] = Link(at[i - 1])
    BY DEF IsWalk
  <1>4. au[0] = head[d] /\ \A i \in 1 .. n : au[i] = Link(au[i - 1])
    BY DEF IsWalk
  <1>5. \A i \in 0 .. n : at[i] \in Free \cup {NULL} /\ au[i] \in Free \cup {NULL}
    BY WalkMembers
  <1>6. at[k] # NULL /\ NULL \notin Blocks
    BY <1>2, NullAssumption
  <1>7. k \in 0 .. n
    BY <1>1
  <1>8. k # 0 => k - 1 \in 0 .. n /\ at[k - 1] \in Free /\ at[k] = word[at[k - 1]]
    BY <1>3, <1>5, <1>6, <1>7 DEF Link
  <1>9. j # 0 => j - 1 \in 0 .. n /\ au[j - 1] \in Free /\ au[j] = word[au[j - 1]]
    BY <1>2, <1>4, <1>5, <1>6 DEF Link
  <1>10. CASE k = 0 /\ j = 0
    BY <1>2, <1>3, <1>4, <1>6, <1>10 DEF Lists, PointersUnique
  <1>11. CASE k = 0 /\ j # 0
    BY <1>2, <1>3, <1>6, <1>9, <1>11 DEF Lists, PointersUnique
  <1>12. CASE k # 0 /\ j = 0
    BY <1>2, <1>4, <1>6, <1>8, <1>12 DEF Lists, PointersUnique
  <1>13. CASE k # 0 /\ j # 0
    <2>1. at[k - 1] = au[j - 1]
      BY <1>2, <1>6, <1>8, <1>9, <1>13 DEF Lists, PointersUnique
    <2>2. k - 1 \notin Bad
      BY <1>1, <1>7
    <2>3. at[k - 1] \in Blocks
      BY <1>8, <1>13 DEF Free
    <2>4. a = d /\ k - 1 = j - 1
      BY <1>8, <1>9, <1>13, <2>1, <2>2, <2>3
    <2> QED
      BY <1>2, <1>7, <2>4
  <1> QED
    BY <1>10, <1>11, <1>12, <1>13

\* A walk as long as the number of blocks has ended.
LEMMA WalksEnd ==
  ASSUME TypeOK, Lists, NEW a \in Allocators, NEW at, IsWalk(at, a, Cardinality(Blocks))
  PROVE  at[Cardinality(Blocks)] = NULL
  <1> DEFINE N == Cardinality(Blocks)
  <1>1. N \in Nat
    BY HeapAssumption, FS_CardinalityType
  <1> HIDE DEF N
  <1>2. IsWalk(at, a, N)
    BY DEF N
  <1>3. \A i \in 0 .. N : at[i] \in Free \cup {NULL}
    BY <1>1, <1>2, WalkMembers
  <1> SUFFICES ASSUME at[N] # NULL PROVE FALSE
    BY DEF N
  <1>4. \A i \in 0 .. N : at[i] \in Blocks
    <2> SUFFICES ASSUME NEW i \in 0 .. N, at[i] \notin Blocks PROVE FALSE
      OBVIOUS
    <2> DEFINE Later == {k \in i .. N : at[k] \in Blocks}
    <2>1. N \in Later
      BY <1>1, <1>3 DEF Free
    <2>6. Later \subseteq Nat
      OBVIOUS
    <2>2. PICK k \in Later : \A m \in Later : k <= m
      <3> HIDE DEF Later
      <3> QED
        BY <2>1, <2>6, LeastNumber
    <2>7. k \in Nat /\ k - 1 \notin Later /\ k # i
      BY <2>2
    <2>3. k \in 1 .. N /\ k - 1 \in i .. N
      BY <1>1, <2>2, <2>7
    <2>4. at[k] = Link(at[k - 1])
      BY <1>2, <2>3 DEF IsWalk
    <2>5. at[k - 1] \notin Blocks /\ at[k] \in Blocks
      BY <2>2, <2>3, <2>7
    <2> QED
      BY <2>4, <2>5, NullAssumption DEF Link
  <1>5. at \in [0 .. N -> Blocks]
    <2>1. at = [i \in 0 .. N |-> at[i]]
      BY <1>2 DEF IsWalk
    <2> QED
      BY <1>4, <2>1
  <1>6. IsFiniteSet(0 .. N) /\ Cardinality(0 .. N) = N + 1
    BY <1>1, FS_Interval
  <1>7. Cardinality(Blocks) < Cardinality(0 .. N)
    BY <1>1, <1>6 DEF N
  <1>8. PICK i, j \in 0 .. N : i # j /\ at[i] = at[j]
    BY <1>5, <1>6, <1>7, HeapAssumption, FS_PigeonHole
  <1> QED
    BY <1>1, <1>2, <1>4, <1>8, WalksMeet

\* The blocks on a list are free and have the size of its Allocator.
LEMMA ChainMembers ==
  ASSUME TypeOK, Lists, NEW a \in Allocators, NEW b \in Chain(a)
  PROVE  b \in Free /\ a \in 1 .. count /\ bytes[b] = size[a] /\ head[a] # NULL
  <1> DEFINE N == Cardinality(Blocks)
  <1>1. N \in Nat
    BY HeapAssumption, FS_CardinalityType
  <1>2. PICK at : /\ IsWalk(at, a, N)
                  /\ Chain(a) = {c \in Blocks : \E n \in 0 .. N : at[n] = c}
    BY ChainIsWalk
  <1>3. b \in Blocks /\ b # NULL /\ \E n \in 0 .. N : at[n] = b
    BY <1>2, NullAssumption
  <1> HIDE DEF N
  <1>4. b \in Free /\ a <= count /\ bytes[b] = size[a]
    BY <1>1, <1>2, <1>3, WalkMembers
  <1>5. head[a] # NULL
    <2> SUFFICES ASSUME head[a] = NULL PROVE FALSE
      OBVIOUS
    <2> DEFINE On == {n \in 0 .. N : at[n] \in Blocks}
    <2>1. On # {}
      BY <1>3
    <2>6. On \subseteq Nat
      OBVIOUS
    <2>2. PICK k \in On : \A m \in On : k <= m
      <3> HIDE DEF On
      <3> QED
        BY <2>1, <2>6, LeastNumber
    <2>3. at[0] = NULL /\ k # 0
      BY <1>2, <2>2, NullAssumption DEF IsWalk
    <2>7. k \in 0 .. N /\ k - 1 \notin On
      BY <2>2
    <2>4. k \in 1 .. N /\ k - 1 \in 0 .. N /\ k - 1 \notin On
      BY <1>1, <2>3, <2>7
    <2>5. at[k] = Link(at[k - 1])
      BY <1>2, <2>4 DEF IsWalk
    <2> QED
      BY <2>2, <2>4, <2>5, NullAssumption DEF Link
  <1> QED
    BY <1>4, <1>5 DEF Allocators, TypeOK

\* No block is on two lists.
LEMMA ChainsDisjoint ==
  ASSUME TypeOK, Lists, NEW a \in Allocators, NEW d \in Allocators, NEW b \in Chain(a),
         b \in Chain(d)
  PROVE  a = d
  <1> DEFINE N == Cardinality(Blocks)
  <1>1. N \in Nat
    BY HeapAssumption, FS_CardinalityType
  <1>2. PICK at : /\ IsWalk(at, a, N)
                  /\ Chain(a) = {c \in Blocks : \E n \in 0 .. N : at[n] = c}
    BY ChainIsWalk
  <1>3. PICK au : /\ IsWalk(au, d, N)
                  /\ Chain(d) = {c \in Blocks : \E n \in 0 .. N : au[n] = c}
    BY ChainIsWalk
  <1> HIDE DEF N
  <1> QED
    BY <1>1, <1>2, <1>3, WalksMeet

\* Every free block is on a list.
LEMMA ChainsComplete ==
  ASSUME TypeOK, Lists, Linked, NEW b \in Free
  PROVE  \E a \in Allocators : b \in Chain(a)
  <1> DEFINE N == Cardinality(Blocks)
             Listed(c) == \E a \in Allocators : c \in Chain(a)
  <1>1. N \in Nat
    BY HeapAssumption, FS_CardinalityType
  <1>2. PICK depth \in [Blocks -> Nat] :
          \A c \in Free : \/ \E a \in Allocators : head[a] = c
                          \/ \E e \in Free : word[e] = c /\ depth[e] < depth[c]
    BY DEF Linked
  <1> DEFINE Lost == {c \in Free : ~ Listed(c)}
             Depths == {depth[c] : c \in Lost}
  <1> SUFFICES ASSUME Lost # {} PROVE FALSE
    OBVIOUS
  <1>3. \A c \in Lost : c \in Blocks /\ c # NULL /\ c \in Free
    BY NullAssumption DEF Free
  <1>4. Depths \subseteq Nat /\ Depths # {}
    BY <1>2, <1>3
  <1>5. PICK least \in Depths : \A m \in Depths : least <= m
    BY <1>4, LeastNumber
  <1>6. PICK c \in Lost : depth[c] = least
    BY <1>5
  <1>7. ASSUME NEW a \in Allocators, head[a] = c PROVE FALSE
    <2>1. PICK at : /\ IsWalk(at, a, N)
                    /\ Chain(a) = {e \in Blocks : \E n \in 0 .. N : at[n] = e}
      BY ChainIsWalk
    <2>2. at[0] = c /\ 0 \in 0 .. N
      BY <1>1, <1>7, <2>1 DEF IsWalk
    <2>3. c \in Chain(a)
      BY <1>3, <1>6, <2>1, <2>2
    <2> QED
      BY <1>6, <2>3
  <1>8. ASSUME NEW e \in Free, word[e] = c, depth[e] < depth[c] PROVE FALSE
    <2>1. e \in Blocks /\ depth[e] \in Nat
      BY <1>2 DEF Free
    <2>2. e \notin Lost
      <3> SUFFICES ASSUME e \in Lost PROVE FALSE
        OBVIOUS
      <3>1. depth[e] \in Depths
        OBVIOUS
      <3>2. least <= depth[e]
        BY <3>1, <1>5
      <3> QED
        BY <3>2, <2>1, <1>3, <1>6, <1>8, <1>2
    <2>3. PICK a \in Allocators : e \in Chain(a)
      BY <2>2
    <2>4. PICK at : /\ IsWalk(at, a, N)
                    /\ Chain(a) = {g \in Blocks : \E n \in 0 .. N : at[n] = g}
      BY ChainIsWalk
    <2>5. PICK n \in 0 .. N : at[n] = e
      BY <2>3, <2>4
    <2>6. n # N
      <3>1. at[N] = NULL
        BY <2>4, WalksEnd
      <3> QED
        BY <3>1, <2>1, <2>5, NullAssumption
    <2> HIDE DEF N
    <2>7. n + 1 \in 1 .. N /\ n + 1 \in 0 .. N /\ (n + 1) - 1 = n
      BY <1>1, <2>6
    <2>8. at[n + 1] = Link(at[(n + 1) - 1])
      BY <2>4, <2>7 DEF IsWalk
    <2>9. at[n + 1] = c
      BY <1>8, <2>1, <2>5, <2>7, <2>8 DEF Link
    <2>10. c \in Chain(a)
      BY <1>3, <1>6, <2>4, <2>7, <2>9
    <2> QED
      BY <1>6, <2>10
  <1> QED
    BY <1>2, <1>3, <1>6, <1>7, <1>8

-----------------------------------------------------------------------------
\* The blocks of an Allocator that clients have, or that are on their way back to it.
Holders(a) == {b \in Used : word[b] = a}

CountsOK == \A a \in Allocators : inUse[a] = Cardinality(Holders(a))

\* The array has one Allocator of a size, and the assertion keeps every object in it.
ArrayOK ==
  /\ \A a, d \in 1 .. count :
       a <= MaxAllocators /\ d <= MaxAllocators /\ size[a] = size[d] => a = d
  /\ Asserts => count <= MaxAllocators

\* What is left of the heap's blocks after xalloc_destroy.
ExitOK ==
  phase = "destroyed" /\ (Asserts \/ count <= MaxAllocators) =>
    \A b \in Blocks : bytes[b] # 0 => b \in Used

FullInv == IInv /\ ExitOK /\ (phase = "running" => Linked /\ CountsOK /\ ArrayOK)

LEMMA InitFullInv == Init => FullInv
  <1> SUFFICES ASSUME Init PROVE FullInv
    OBVIOUS
  <1>1. \A t \in Threads : Owned(t) = {}
    BY DEF Init, Owned, BlocksOf, Idle
  <1>2. Used = {} /\ Free = {}
    BY <1>1 DEF Init, Used, Free
  <1>3. Linked
    <2>1. [b \in Blocks |-> 0] \in [Blocks -> Nat]
      OBVIOUS
    <2> QED
      BY <1>2, <2>1 DEF Linked
  <1>4. CountsOK
    BY <1>2, FS_EmptySet DEF Init, CountsOK, Holders
  <1>5. ArrayOK /\ ExitOK
    BY BoundsAssumption DEF Init, ArrayOK, ExitOK
  <1> QED
    BY <1>3, <1>4, <1>5, InitIInv DEF FullInv

\* The blocks with clients are finitely many.
LEMMA HoldersFinite ==
  ASSUME TypeOK
  PROVE  \A a \in Allocators : IsFiniteSet(Holders(a))
  <1> SUFFICES ASSUME NEW a \in Allocators PROVE IsFiniteSet(Holders(a))
    OBVIOUS
  <1>1. Holders(a) \in SUBSET Blocks
    BY OwnedAreBlocks DEF Holders
  <1> QED
    BY <1>1, HeapAssumption, FS_Subset

\* xmalloc leaves no free block off the lists.
LEMMA TakeKeepsLinked ==
  ASSUME TypeOK, Lists, Linked, NEW r \in Requests, NEW b \in Blocks, Take(r, b),
         Used' = Used \cup {b}
  PROVE  Linked'
  <1>1. PICK a \in Allocators : /\ Serves(a, BlockSize[r])
                                /\ Created(a, BlockSize[r])
                                /\ PopBlock(a, b) \/ NewBlock(a, b, BlockSize[r])
    BY DEF Take
  <1>2. \A c \in Blocks \ {b} : bytes'[c] = bytes[c] /\ word'[c] = word[c]
    BY TakeGivesFreshBlock
  <1>3. Free' = Free \ {b}
    BY <1>2 DEF Free
  <1>4. PICK depth \in [Blocks -> Nat] :
          \A c \in Free : \/ \E d \in Allocators : head[d] = c
                          \/ \E e \in Free : word[e] = c /\ depth[e] < depth[c]
    BY DEF Linked
  <1>5. ASSUME NEW c \in Free'
        PROVE  \/ \E d \in Allocators : head'[d] = c
               \/ \E e \in Free' : word'[e] = c /\ depth[e] < depth[c]
    <2>1. c \in Free /\ c # b /\ c \in Blocks
      BY <1>3 DEF Free
    <2>2. CASE PopBlock(a, b)
      <3>1. /\ head[a] = b /\ head'[a] = word[b]
            /\ \A d \in Allocators \ {a} : head'[d] = head[d]
        BY <2>2 DEF PopBlock, TypeOK
      <3>2. CASE \E d \in Allocators : head[d] = c
        BY <3>1, <3>2, <2>1
      <3>3. ASSUME NEW e \in Free, word[e] = c, depth[e] < depth[c]
            PROVE  \/ \E d \in Allocators : head'[d] = c
                   \/ \E g \in Free' : word'[g] = c /\ depth[g] < depth[c]
        <4>1. CASE e = b
          BY <3>1, <3>3, <4>1
        <4>2. CASE e # b
          <5>1. e \in Free' /\ word'[e] = word[e]
            BY <1>2, <1>3, <4>2 DEF Free
          <5> QED
            BY <5>1, <3>3
        <4> QED
          BY <4>1, <4>2
      <3> QED
        BY <1>4, <2>1, <3>2, <3>3
    <2>3. CASE NewBlock(a, b, BlockSize[r])
      <3>1. head' = head /\ b \notin Free
        BY <2>3 DEF NewBlock, Free
      <3>2. \A e \in Free : e \in Free' /\ word'[e] = word[e]
        BY <1>2, <1>3, <3>1 DEF Free
      <3> QED
        BY <1>4, <2>1, <3>1, <3>2
    <2> QED
      BY <1>1, <2>2, <2>3
  <1> QED
    BY <1>5 DEF Linked

\* The block xmalloc gives is counted, once and at its Allocator.
LEMMA TakeKeepsCounts ==
  ASSUME TypeOK, Lists, CountsOK, NEW r \in Requests, NEW b \in Blocks, Take(r, b),
         Used' = Used \cup {b}
  PROVE  CountsOK'
  <1>1. PICK a \in Allocators : /\ Serves(a, BlockSize[r])
                                /\ Created(a, BlockSize[r])
                                /\ PopBlock(a, b) \/ NewBlock(a, b, BlockSize[r])
    BY DEF Take
  <1>2. b \notin Used /\ \A c \in Blocks \ {b} : word'[c] = word[c]
    BY TakeGivesFreshBlock
  <1>3. word'[b] = a
    BY <1>1 DEF PopBlock, NewBlock, TypeOK
  <1>4. /\ inUse'[a] = inUse[a] + 1
        /\ \A d \in Allocators \ {a} : inUse'[d] = inUse[d]
    BY <1>1 DEF PopBlock, NewBlock, TypeOK
  <1>5. Used \subseteq Blocks \ {b}
    BY <1>2, OwnedAreBlocks
  <1>6. \A d \in Allocators \ {a} : Holders(d)' = Holders(d)
    BY <1>2, <1>3, <1>5 DEF Holders
  <1>7. Holders(a)' = Holders(a) \cup {b} /\ b \notin Holders(a)
    BY <1>2, <1>3, <1>5 DEF Holders
  <1>8. Cardinality(Holders(a)') = Cardinality(Holders(a)) + 1
    BY <1>7, HoldersFinite, FS_AddElement
  <1> QED
    BY <1>4, <1>6, <1>8 DEF CountsOK

\* A call for a block enters at most one new Allocator of its size.
LEMMA ServingKeepsArray ==
  ASSUME TypeOK, ArrayOK, NEW r \in Requests, NEW a \in Allocators,
         Serves(a, BlockSize[r]), Created(a, BlockSize[r])
  PROVE  ArrayOK'
  <1>1. count \in Nat /\ MaxAllocators \in Nat
    BY BoundsAssumption DEF TypeOK
  <1>2. CASE Registered(BlockSize[r]) # {}
    <2>1. a \in 1 .. count /\ size[a] = BlockSize[r]
      BY <1>2 DEF Serves, Registered
    <2>2. count' = count /\ size' = size
      BY <1>1, <2>1 DEF Created, TypeOK, Allocators
    <2> QED
      BY <2>2 DEF ArrayOK
  <1>3. CASE Registered(BlockSize[r]) = {}
    <2>1. a = count + 1 /\ (Asserts => a <= MaxAllocators)
      BY <1>3 DEF Serves
    <2>2. count' = a /\ size' = [size EXCEPT ![a] = BlockSize[r]]
      BY <1>1, <2>1 DEF Created
    <2>3. size'[a] = BlockSize[r] /\ \A d \in 1 .. count : size'[d] = size[d] /\ d # a
      BY <1>1, <2>1, <2>2 DEF TypeOK, Allocators
    <2>4. \A d \in 1 .. count : d <= MaxAllocators => size[d] # BlockSize[r]
      BY <1>3 DEF Registered
    <2>5. \A d \in 1 .. count' : d = a \/ d \in 1 .. count
      BY <1>1, <2>1, <2>2
    <2> QED
      BY <2>1, <2>2, <2>3, <2>4, <2>5 DEF ArrayOK
  <1> QED
    BY <1>2, <1>3

\* xmalloc and xrealloc preserve the completeness of the lists and the counts.
LEMMA TakeStep ==
  ASSUME FullInv, phase = "running", NEW r \in Requests,
         \/ TakeFails(r) /\ Used' = Used
         \/ \E b \in Blocks : Take(r, b) /\ Used' = Used \cup {b}
  PROVE  Linked' /\ CountsOK' /\ ArrayOK'
  <1>1. TypeOK /\ Lists /\ Linked /\ CountsOK /\ ArrayOK
    BY DEF FullInv, IInv
  <1>2. CASE TakeFails(r) /\ Used' = Used
    <2>1. UNCHANGED <<head, inUse, word, bytes>>
      BY <1>2 DEF TakeFails
    <2>2. Free' = Free /\ \A a \in Allocators : Holders(a)' = Holders(a)
      BY <1>2, <2>1 DEF Free, Holders
    <2>3. Linked' /\ CountsOK'
      BY <1>1, <2>1, <2>2 DEF Linked, CountsOK
    <2> QED
      BY <1>1, <1>2, <2>3, ServingKeepsArray DEF TakeFails
  <1>3. ASSUME NEW b \in Blocks, Take(r, b), Used' = Used \cup {b}
        PROVE  Linked' /\ CountsOK' /\ ArrayOK'
    <2>1. ArrayOK'
      BY <1>1, <1>3, ServingKeepsArray DEF Take
    <2> QED
      BY <1>1, <1>3, <2>1, TakeKeepsLinked, TakeKeepsCounts
  <1> QED
    BY <1>2, <1>3

\* Deallocate puts the block at the head of its list and takes it off the count.
LEMMA PushStep ==
  ASSUME FullInv, phase = "running", NEW t \in Threads, XfreePush(t)
  PROVE  Linked' /\ CountsOK' /\ ArrayOK'
  <1>0. PICK b, a : b = job[t].block /\ a = job[t].allocator
    OBVIOUS
  <1>1. IInv /\ TypeOK /\ Lists /\ Linked /\ CountsOK /\ ArrayOK
    BY DEF FullInv, IInv
  <1>2. /\ b \in Blocks /\ b \in Used /\ b \notin Free
        /\ a = word[b] /\ a \in Allocators
        /\ Used' = Used \ {b}
        /\ Free' = Free \cup {b}
        /\ word'[b] = head[a] /\ head'[a] = b
        /\ \A c \in Blocks \ {b} : word'[c] = word[c]
        /\ \A d \in Allocators \ {a} : head'[d] = head[d]
        /\ \A c \in Free : c \in Blocks \ {b} /\ word'[c] = word[c]
    BY <1>0, <1>1, PushedBlock
  <1>3. inUse' = [inUse EXCEPT ![a] = @ - 1] /\ count' = count /\ size' = size
    BY <1>0 DEF XfreePush, Deallocate
  <1>4. PICK depth \in [Blocks -> Nat] :
          \A c \in Free : \/ \E d \in Allocators : head[d] = c
                          \/ \E e \in Free : word[e] = c /\ depth[e] < depth[c]
    BY <1>1 DEF Linked
  <1> DEFINE deeper == [c \in Blocks |-> IF c = b THEN 0 ELSE depth[c] + 1]
  <1>5. deeper \in [Blocks -> Nat]
    OBVIOUS
  <1>6. /\ deeper[b] = 0
        /\ \A c \in Free : deeper[c] = depth[c] + 1 /\ depth[c] \in Nat
    BY <1>2
  <1> HIDE DEF deeper
  <1>7. ASSUME NEW c \in Free'
        PROVE  \/ \E d \in Allocators : head'[d] = c
               \/ \E e \in Free' : word'[e] = c /\ deeper[e] < deeper[c]
    <2>1. CASE c = b
      BY <1>2, <2>1
    <2>2. CASE c # b
      <3>1. c \in Free
        BY <1>2, <2>2
      <3>2. ASSUME NEW d \in Allocators, head[d] = c
            PROVE  \/ \E g \in Allocators : head'[g] = c
                   \/ \E e \in Free' : word'[e] = c /\ deeper[e] < deeper[c]
        <4>1. CASE d = a
          <5>1. b \in Free' /\ word'[b] = c /\ deeper[b] < deeper[c]
            BY <1>2, <1>6, <3>1, <3>2, <4>1
          <5> QED
            BY <5>1
        <4>2. CASE d # a
          BY <1>2, <3>2, <4>2
        <4> QED
          BY <4>1, <4>2
      <3>3. ASSUME NEW e \in Free, word[e] = c, depth[e] < depth[c]
            PROVE  e \in Free' /\ word'[e] = c /\ deeper[e] < deeper[c]
        BY <1>2, <1>6, <3>1, <3>3
      <3> QED
        BY <1>4, <3>1, <3>2, <3>3
    <2> QED
      BY <2>1, <2>2
  <1>8. Linked'
    BY <1>5, <1>7 DEF Linked
  <1>9. CountsOK'
    <2>1. Used \subseteq Blocks
      BY <1>1, OwnedAreBlocks
    <2>2. \A d \in Allocators \ {a} : Holders(d)' = Holders(d)
      BY <1>2, <2>1 DEF Holders
    <2>3. Holders(a)' = Holders(a) \ {b} /\ b \in Holders(a)
      BY <1>2, <2>1 DEF Holders
    <2>4. Cardinality(Holders(a)') = Cardinality(Holders(a)) - 1
      BY <1>1, <1>2, <2>3, HoldersFinite, FS_RemoveElement
    <2>5. inUse'[a] = inUse[a] - 1 /\ \A d \in Allocators \ {a} : inUse'[d] = inUse[d]
      BY <1>1, <1>2, <1>3 DEF TypeOK
    <2> QED
      BY <1>1, <2>2, <2>4, <2>5 DEF CountsOK
  <1>10. ArrayOK'
    BY <1>1, <1>3 DEF ArrayOK
  <1> QED
    BY <1>8, <1>9, <1>10

\* xalloc_destroy gives back every block that no client has.
LEMMA DestroyStep ==
  ASSUME FullInv, phase = "running", XallocDestroy
  PROVE  /\ ExitOK'
         /\ Used' = Used
         /\ \A b \in Blocks : bytes'[b] = bytes[b] \/ (b \notin Used /\ bytes'[b] = 0)
  <1>1. TypeOK /\ Lists /\ Linked /\ ArrayOK
    BY DEF FullInv, IInv
  <1>2. /\ Used' = Used /\ count' = count
        /\ \A b \in Blocks : bytes'[b] = IF \E a \in Destroyed : b \in Chain(a) THEN 0 ELSE bytes[b]
    BY DEF XallocDestroy, Used, Owned
  <1>3. \A a \in Destroyed : a \in Allocators
    BY <1>1, BoundsAssumption DEF Destroyed, TypeOK, Allocators
  <1>4. ASSUME NEW b \in Blocks, NEW a \in Destroyed, b \in Chain(a)
        PROVE  b \notin Used
    BY <1>1, <1>3, <1>4, ChainMembers DEF Free
  <1>5. ASSUME Asserts \/ count <= MaxAllocators, NEW b \in Blocks, bytes'[b] # 0, b \notin Used
        PROVE  FALSE
    <2>1. b \in Free
      BY <1>2, <1>5 DEF Free
    <2>2. PICK a \in Allocators : b \in Chain(a)
      BY <1>1, <2>1, ChainsComplete
    <2>3. a \in 1 .. count
      BY <1>1, <2>2, ChainMembers
    <2>4. a \in Destroyed
      BY <1>1, <1>5, <2>3, BoundsAssumption DEF Destroyed, ArrayOK, TypeOK
    <2> QED
      BY <1>2, <1>5, <2>2, <2>4
  <1> QED
    BY <1>2, <1>4, <1>5 DEF ExitOK

\* Every step preserves the invariant.
LEMMA FullInvIsInductive == FullInv /\ [Next]_vars => FullInv'
  <1> SUFFICES ASSUME FullInv, [Next]_vars PROVE FullInv'
    OBVIOUS
  <1>1. IInv /\ IInv'
    BY IInvIsInductive DEF FullInv
  <1>2. CASE UNCHANGED vars
    <2>1. /\ Used' = Used /\ Free' = Free
          /\ \A a \in Allocators : Holders(a)' = Holders(a)
      BY <1>2 DEF vars, Used, Owned, Free, Holders
    <2> QED
      BY <1>1, <1>2, <2>1 DEF vars, FullInv, ExitOK, Linked, CountsOK, ArrayOK
  <1>3. ASSUME phase = "running", XallocDestroy PROVE FullInv'
    BY <1>1, <1>3, DestroyStep DEF FullInv, XallocDestroy
  <1>4. ASSUME phase = "running", NEW t \in Threads, ThreadStep(t) PROVE FullInv'
    <2>1. Linked /\ CountsOK /\ ArrayOK
      BY <1>4 DEF FullInv
    <2>2. ASSUME UNCHANGED lists, Used' = Used PROVE Linked' /\ CountsOK' /\ ArrayOK'
      <3>1. Free' = Free /\ \A a \in Allocators : Holders(a)' = Holders(a)
        BY <2>2 DEF lists, Free, Holders
      <3> QED
        BY <2>1, <2>2, <3>1 DEF lists, Linked, CountsOK, ArrayOK
    <2>3. ASSUME NEW r \in Requests, Xmalloc(t, r) PROVE FullInv'
      <3>1. Linked' /\ CountsOK' /\ ArrayOK'
        BY <1>1, <1>4, <2>3, XmallocStep, TakeStep
      <3> QED
        BY <1>1, <1>4, <2>3, <3>1 DEF FullInv, ExitOK, Xmalloc
    <2>4. ASSUME NEW r \in Requests, XmallocAborts(t, r) PROVE FullInv'
      BY <1>1, <2>4 DEF FullInv, ExitOK, XmallocAborts
    <2>5. ASSUME NEW owner \in Threads, NEW b \in Blocks, XfreeRead(t, owner, b) PROVE FullInv'
      BY <1>1, <1>4, <2>2, <2>5, XfreeReadStep DEF FullInv, ExitOK, XfreeRead
    <2>6. ASSUME XfreePush(t) PROVE FullInv'
      BY <1>1, <1>4, <2>6, PushStep DEF FullInv, ExitOK, XfreePush
    <2>7. ASSUME NEW old \in Blocks, NEW r \in Requests, Xrealloc(t, old, r) PROVE FullInv'
      <3>1. Linked' /\ CountsOK' /\ ArrayOK'
        BY <1>1, <1>4, <2>7, XreallocStep, TakeStep
      <3> QED
        BY <1>1, <1>4, <2>7, <3>1 DEF FullInv, ExitOK, Xrealloc
    <2>8. ASSUME XreallocCopy(t) PROVE FullInv'
      BY <1>1, <1>4, <2>2, <2>8, XreallocCopyStep DEF FullInv, ExitOK, XreallocCopy
    <2> QED
      BY <1>4, <2>3, <2>4, <2>5, <2>6, <2>7, <2>8 DEF ThreadStep
  <1> QED
    BY <1>2, <1>3, <1>4 DEF Next

\* A list meets free blocks until NULL, and has come to it after the last of them.
LEMMA WalksOfListsEnd ==
  ASSUME TypeOK, Lists, NEW a \in Allocators
  PROVE  ListEnds(a)
  <1> DEFINE N == Cardinality(Blocks)
  <1>1. N \in Nat
    BY HeapAssumption, FS_CardinalityType
  <1>2. PICK at : at = Walk(a) /\ IsWalk(at, a, N)
    BY ChainIsWalk
  <1>3. at[N] = NULL
    BY <1>2, WalksEnd
  <1> HIDE DEF N
  <1>4. \A n \in 0 .. N : at[n] \in Blocks \cup {NULL}
    BY <1>1, <1>2, WalkMembers DEF Free
  <1> QED
    BY <1>2, <1>3, <1>4 DEF ListEnds, N

(***************************************************************************)
(* Every block the heap gave is with a client or on exactly one list of    *)
(* all the Allocators', the one of its size, and every list ends:          *)
(* Deallocate loses no block and links none twice, whatever calls xmalloc, *)
(* xfree and xrealloc interleave.                                          *)
(***************************************************************************)
THEOREM ListsAreComplete == Spec => []FreeListsComplete
  <1>1. ASSUME FullInv, phase = "running", NEW a \in 1 .. count
        PROVE  ListEnds(a) /\ \A b \in Chain(a) : size[a] = bytes[b]
    <2>1. TypeOK /\ Lists /\ a \in Allocators
      BY <1>1, BoundsAssumption DEF FullInv, IInv, TypeOK, Allocators
    <2> QED
      BY <2>1, WalksOfListsEnd, ChainMembers
  <1>2. ASSUME FullInv, phase = "running", NEW b \in Blocks, bytes[b] # 0
        PROVE  Cardinality({a \in 1 .. count : b \in Chain(a)}) = IF b \in Used THEN 0 ELSE 1
    <2> DEFINE On == {a \in 1 .. count : b \in Chain(a)}
    <2>1. TypeOK /\ Lists /\ Linked
      BY <1>2 DEF FullInv, IInv
    <2>2. 1 .. count \subseteq Allocators
      BY <2>1, BoundsAssumption DEF TypeOK, Allocators
    <2>3. CASE b \in Used
      <3>1. \A a \in On : FALSE
        BY <2>1, <2>2, <2>3, ChainMembers DEF Free
      <3>2. On = {}
        BY <3>1
      <3> HIDE DEF On
      <3> QED
        BY <2>3, <3>2, FS_EmptySet DEF On
    <2>4. CASE b \notin Used
      <3>1. b \in Free
        BY <1>2, <2>4 DEF Free
      <3>2. PICK a \in Allocators : b \in Chain(a)
        BY <2>1, <3>1, ChainsComplete
      <3>3. a \in On
        BY <2>1, <3>2, ChainMembers
      <3>4. \A d \in On : d = a
        BY <2>1, <2>2, <3>2, ChainsDisjoint
      <3>5. On = {a}
        BY <3>3, <3>4
      <3> HIDE DEF On
      <3> QED
        BY <2>4, <3>5, FS_Singleton DEF On
    <2> QED
      BY <2>3, <2>4
  <1>3. FullInv => FreeListsComplete
    BY <1>1, <1>2 DEF FreeListsComplete
  <1> QED
    BY <1>3, InitFullInv, FullInvIsInductive, PTL DEF Spec

\* m_blocksInUse of an Allocator is the number of its blocks that xfree has not yet linked back.
THEOREM CountsAreRight == Spec => []InUseCounts
  <1>1. FullInv => InUseCounts
    <2> SUFFICES ASSUME FullInv, phase = "running", NEW a \in 1 .. count
                 PROVE  inUse[a] = Cardinality(Holders(a))
      BY DEF InUseCounts, Holders
    <2>1. a \in Allocators
      BY BoundsAssumption DEF FullInv, IInv, TypeOK, Allocators
    <2> QED
      BY <2>1 DEF FullInv, CountsOK
  <1> QED
    BY <1>1, InitFullInv, FullInvIsInductive, PTL DEF Spec

(***************************************************************************)
(* After xalloc_destroy only blocks that clients never gave back remain,   *)
(* when assertions are compiled in or the array never overflowed.  (A      *)
(* Release build with more sizes than MAX_ALLOCATORS leaves the lists of   *)
(* the objects past the array's end behind.)                               *)
(***************************************************************************)
THEOREM ExitGivesBack ==
  Spec => []((Asserts \/ count <= MaxAllocators) => NothingLeftBehind)
  <1>1. FullInv => ((Asserts \/ count <= MaxAllocators) => NothingLeftBehind)
    BY DEF FullInv, ExitOK, NothingLeftBehind
  <1> QED
    BY <1>1, InitFullInv, FullInvIsInductive, PTL DEF Spec

\* xmalloc carves a block only when no block of that size is free.
LEMMA TakeIsFrugal ==
  ASSUME FullInv, phase = "running", NEW r \in Requests, NEW b \in Blocks, Take(r, b),
         Asserts \/ count <= MaxAllocators, bytes[b] = 0, bytes'[b] # 0,
         NEW c \in Blocks, bytes[c] = bytes'[b]
  PROVE  c \in Used
  <1> SUFFICES ASSUME c \notin Used PROVE FALSE
    OBVIOUS
  <1>1. TypeOK /\ Lists /\ Linked /\ ArrayOK
    BY DEF FullInv, IInv
  <1>2. PICK a \in Allocators : /\ Serves(a, BlockSize[r])
                                /\ PopBlock(a, b) \/ NewBlock(a, b, BlockSize[r])
    BY DEF Take
  <1>3. head[a] = NULL /\ bytes'[b] = BlockSize[r]
    BY <1>1, <1>2 DEF PopBlock, NewBlock, TypeOK
  <1>4. c \in Free
    BY DEF Free
  <1>5. PICK d \in Allocators : c \in Chain(d)
    BY <1>1, <1>4, ChainsComplete
  <1>6. d \in 1 .. count /\ size[d] = BlockSize[r] /\ head[d] # NULL
    BY <1>1, <1>3, <1>5, ChainMembers
  <1>7. count <= MaxAllocators /\ count \in Nat /\ MaxAllocators \in Nat
    BY <1>1, BoundsAssumption DEF ArrayOK, TypeOK
  <1>8. d \in Registered(BlockSize[r])
    BY <1>6, <1>7 DEF Registered
  <1>9. a \in 1 .. count /\ size[a] = BlockSize[r]
    BY <1>2, <1>8 DEF Serves, Registered
  <1> QED
    BY <1>1, <1>3, <1>6, <1>7, <1>9 DEF ArrayOK

(***************************************************************************)
(* Allocate carves a block from the heap only when no block of that size   *)
(* is free, when assertions are compiled in or the array does not          *)
(* overflow.                                                               *)
(***************************************************************************)
THEOREM HeapOnlyWhenListsAreEmpty ==
  Spec /\ [](Asserts \/ count <= MaxAllocators) => HeapIsLastResort
  <1> DEFINE Frugal == \A b \in Blocks : bytes[b] = 0 /\ bytes'[b] # 0 =>
                         \A c \in Blocks : bytes[c] = bytes'[b] => c \in Used
  <1>1. FullInv /\ (Asserts \/ count <= MaxAllocators) /\ [Next]_vars => [Frugal]_vars
    <2> SUFFICES ASSUME FullInv, Asserts \/ count <= MaxAllocators, Next,
                        NEW b \in Blocks, bytes[b] = 0, bytes'[b] # 0,
                        NEW c \in Blocks, bytes[c] = bytes'[b]
                 PROVE  c \in Used
      OBVIOUS
    <2>1. phase = "running"
      BY DEF Next
    <2>2. ASSUME NEW r \in Requests, NEW e \in Blocks, Take(r, e) PROVE c \in Used
      <3>1. e = b
        BY <2>1, <2>2, TakeGivesFreshBlock DEF FullInv, IInv
      <3> QED
        BY <2>1, <2>2, <3>1, TakeIsFrugal
    <2>3. ~ XallocDestroy
      BY DEF XallocDestroy
    <2>4. PICK t \in Threads : ThreadStep(t)
      BY <2>3 DEF Next
    <2>5. ~ (bytes' = bytes)
      OBVIOUS
    <2>6. CASE \E r \in Requests : Xmalloc(t, r)
      BY <2>2, <2>5, <2>6 DEF Xmalloc, TakeFails
    <2>7. CASE \E old \in Blocks, r \in Requests : Xrealloc(t, old, r)
      BY <2>2, <2>5, <2>7 DEF Xrealloc, TakeFails
    <2>8. \/ \E r \in Requests : Xmalloc(t, r)
          \/ \E old \in Blocks, r \in Requests : Xrealloc(t, old, r)
      BY <2>4, <2>5 DEF ThreadStep, XmallocAborts, XfreeRead, XfreePush, XreallocCopy, lists
    <2> QED
      BY <2>6, <2>7, <2>8
  <1> QED
    BY <1>1, InitFullInv, FullInvIsInductive, PTL DEF Spec, HeapIsLastResort

(***************************************************************************)
(* Xallocator implements the memory manager of MemoryBlocks: each step,    *)
(* xalloc_destroy included, acquires a block, releases one, trims unused   *)
(* ones or changes nothing clients can see.                                *)
(***************************************************************************)
THEOREM ManagesMemoryThroughout == Spec => ManagesMemory
  <1>1. Init => Memory!Init
    <2> SUFFICES ASSUME Init PROVE Memory!Init
      OBVIOUS
    <2>1. Used = {}
      BY DEF Init, Used, Owned, BlocksOf, Idle
    <2>2. \A b \in Blocks : Room(b) = 0
      BY DEF Init, Room
    <2> QED
      BY <2>1, <2>2 DEF Memory!Init
  <1>2. ASSUME FullInv, [Next]_vars PROVE Memory!Next \/ UNCHANGED <<Used, Rooms>>
    <2>1. IInv
      BY <1>2 DEF FullInv
    <2>2. CASE UNCHANGED vars
      BY <2>2 DEF vars, Used, Owned, Rooms, Room
    <2>3. ASSUME phase = "running", XallocDestroy PROVE Memory!Next
      <3>1. \A b \in Blocks : Rooms'[b] = Rooms[b] \/ (b \notin Used /\ Rooms'[b] = 0)
        BY <1>2, <2>3, DestroyStep DEF Rooms, Room
      <3>2. Used' = Used
        BY <1>2, <2>3, DestroyStep
      <3>3. Memory!Trim
        BY <3>1, <3>2 DEF Memory!Trim, Rooms
      <3> QED
        BY <3>3 DEF Memory!Next
    <2> QED
      BY <1>2, <2>1, <2>2, <2>3, ThreadStepRefines DEF Next
  <1>3. FullInv /\ [Next]_vars => [Memory!Next]_<<Used, Rooms>>
    BY <1>2
  <1> QED
    BY <1>1, <1>3, InitFullInv, FullInvIsInductive, PTL DEF Spec, ManagesMemory, Memory!Spec, Rooms
=============================================================================
