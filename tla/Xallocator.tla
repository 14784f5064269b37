----------------------------- MODULE Xallocator -----------------------------
(***************************************************************************)
(* xmalloc, xfree and xrealloc in heap-blocks mode.  An array holds one    *)
(* Allocator for each block size seen; an Allocator keeps a list of free   *)
(* blocks.  The first word of a block is its Allocator while a client has  *)
(* it, and the link to the next free block while it is on a list.  xmalloc *)
(* holds the mutex from start to end; xfree reads the first word before it *)
(* takes the mutex.                                                        *)
(***************************************************************************)
EXTENDS Integers, FiniteSets

CONSTANTS Threads,
          Blocks,          \* addresses the heap can give
          NULL,            \* the null pointer
          Requests,        \* the sizes clients ask for
          BlockSize,       \* the size of the block that serves each request
          MaxAllocators,   \* MAX_ALLOCATORS
          Asserts,         \* assert() is compiled in (TRUE) or out (a Release build)
          HeapCanFail,     \* operator new may throw
          MaxObjects,      \* bound of exploration: Allocator objects ever created
          MaxBlockCnt      \* bound of exploration: value of m_blockCnt

Header == 8                \* sizeof(Allocator*)

ASSUME NullAssumption == NULL \notin Blocks
ASSUME HeapAssumption == IsFiniteSet(Blocks)
ASSUME RequestsAssumption ==
  /\ Requests \subseteq Nat
  /\ BlockSize \in [Requests -> Nat]
  /\ \A r \in Requests : BlockSize[r] >= r + Header
ASSUME BoundsAssumption ==
  MaxAllocators \in Nat /\ MaxObjects \in Nat /\ MaxBlockCnt \in Nat
ASSUME BuildAssumption == Asserts \in BOOLEAN /\ HeapCanFail \in BOOLEAN

Allocators == 1 .. MaxObjects

VARIABLES count,      \* Allocator objects created; the first MaxAllocators are in the array
          size,       \* m_blockSize of each
          head,       \* m_pHead of each
          blockCnt,   \* m_blockCnt of each
          inUse,      \* m_blocksInUse of each
          word,       \* the first word of each block
          bytes,      \* the length each block was allocated with; 0 before
          held,       \* the blocks each thread obtained and nobody has given back
          job,        \* the call each thread is in the middle of
          phase       \* running, aborted by an assertion, or past xalloc_destroy

vars == <<count, size, head, blockCnt, inUse, word, bytes, held, job, phase>>
lists == <<count, size, head, blockCnt, inUse, word, bytes>>

Idle == [op |-> "none"]
CopyJob(old, new, r) == [op |-> "copy", old |-> old, new |-> new, req |-> r]
FreeJob(b, a) == [op |-> "free", block |-> b, allocator |-> a]

BlocksOf(j) == IF j.op = "copy" THEN {j.old, j.new}
               ELSE IF j.op = "free" THEN {j.block} ELSE {}

Owned(t) == held[t] \cup BlocksOf(job[t])

Used == UNION {Owned(t) : t \in Threads}

-----------------------------------------------------------------------------
Init ==
  /\ count = 0
  /\ size = [a \in Allocators |-> 0]
  /\ head = [a \in Allocators |-> NULL]
  /\ blockCnt = [a \in Allocators |-> 0]
  /\ inUse = [a \in Allocators |-> 0]
  /\ word = [b \in Blocks |-> NULL]
  /\ bytes = [b \in Blocks |-> 0]
  /\ held = [t \in Threads |-> {}]
  /\ job = [t \in Threads |-> Idle]
  /\ phase = "running"

\* find_allocator's matches: the array's entries, so never an object past its end.
Registered(s) == {a \in 1 .. count : a <= MaxAllocators /\ size[a] = s}

(***************************************************************************)
(* xallocator_get_allocator: the entry of that size, or a new object.  One *)
(* that finds the array full serves its call and is never found again.     *)
(***************************************************************************)
Serves(a, s) ==
  IF Registered(s) # {} THEN a \in Registered(s)
  ELSE a = count + 1 /\ (Asserts => a <= MaxAllocators)

Created(a, s) ==
  /\ count' = IF a > count THEN a ELSE count
  /\ size' = [size EXCEPT ![a] = s]

\* Mutant: the list keeps the block it gave away.
PopBlock_StaleHead(a, b) ==
  /\ head[a] = b
  /\ word' = [word EXCEPT ![b] = a]
  /\ inUse' = [inUse EXCEPT ![a] = @ + 1]
  /\ UNCHANGED <<head, blockCnt, bytes>>

\* Mutant: the header of a recycled block is not written.
PopBlock_NoHeader(a, b) ==
  /\ head[a] = b
  /\ head' = [head EXCEPT ![a] = word[b]]
  /\ inUse' = [inUse EXCEPT ![a] = @ + 1]
  /\ UNCHANGED <<blockCnt, bytes, word>>

\* Allocate finds a free block, and set_block_allocator overwrites its link.
PopBlock(a, b) ==
  /\ head[a] = b
  /\ head' = [head EXCEPT ![a] = word[b]]
  /\ word' = [word EXCEPT ![b] = a]
  /\ inUse' = [inUse EXCEPT ![a] = @ + 1]
  /\ UNCHANGED <<blockCnt, bytes>>

\* Mutant: the block is carved with the size of the request, without its header.
NewBlock_NoHeader(a, b, s) ==
  /\ head[a] = NULL
  /\ bytes[b] = 0
  /\ blockCnt[a] < MaxBlockCnt
  /\ blockCnt' = [blockCnt EXCEPT ![a] = @ + 1]
  /\ bytes' = [bytes EXCEPT ![b] = s - Header]
  /\ word' = [word EXCEPT ![b] = a]
  /\ inUse' = [inUse EXCEPT ![a] = @ + 1]
  /\ UNCHANGED head

\* Mutant: a block is carved while free ones wait.
NewBlock_IgnoreList(a, b, s) ==
  /\ bytes[b] = 0
  /\ blockCnt[a] < MaxBlockCnt
  /\ blockCnt' = [blockCnt EXCEPT ![a] = @ + 1]
  /\ bytes' = [bytes EXCEPT ![b] = s]
  /\ word' = [word EXCEPT ![b] = a]
  /\ inUse' = [inUse EXCEPT ![a] = @ + 1]
  /\ UNCHANGED head

\* Allocate finds none and carves one from the heap.
NewBlock(a, b, s) ==
  /\ head[a] = NULL
  /\ bytes[b] = 0
  /\ blockCnt[a] < MaxBlockCnt
  /\ blockCnt' = [blockCnt EXCEPT ![a] = @ + 1]
  /\ bytes' = [bytes EXCEPT ![b] = s]
  /\ word' = [word EXCEPT ![b] = a]
  /\ inUse' = [inUse EXCEPT ![a] = @ + 1]
  /\ UNCHANGED head

\* The locked part of xmalloc, when it returns block b.
Take(r, b) ==
  LET s == BlockSize[r]
  IN  \E a \in Allocators :
        /\ Serves(a, s)
        /\ Created(a, s)
        /\ PopBlock(a, b) \/ NewBlock(a, b, s)

\* The heap refuses: the block was counted before it was asked for.
TakeFails(r) ==
  /\ HeapCanFail
  /\ \E a \in Allocators :
       /\ Serves(a, BlockSize[r])
       /\ Created(a, BlockSize[r])
       /\ head[a] = NULL
       /\ blockCnt[a] < MaxBlockCnt
       /\ blockCnt' = [blockCnt EXCEPT ![a] = @ + 1]
       /\ UNCHANGED <<head, inUse, word, bytes>>

Xmalloc(t, r) ==
  /\ job[t] = Idle
  /\ UNCHANGED <<job, phase>>
  /\ \/ \E b \in Blocks : Take(r, b) /\ held' = [held EXCEPT ![t] = @ \cup {b}]
     \/ TakeFails(r) /\ held' = held

\* insert_allocator finds the array full: assert(0).
XmallocAborts(t, r) ==
  /\ job[t] = Idle
  /\ Asserts
  /\ Registered(BlockSize[r]) = {}
  /\ count >= MaxAllocators
  /\ phase' = "aborted"
  /\ UNCHANGED <<lists, held, job>>

\* Any thread may free a block; it reads the first word without the mutex.
XfreeRead(t, owner, b) ==
  /\ job[t] = Idle
  /\ b \in held[owner]
  /\ held' = [held EXCEPT ![owner] = @ \ {b}]
  /\ job' = [job EXCEPT ![t] = FreeJob(b, word[b])]
  /\ UNCHANGED <<lists, phase>>

\* Mutant: the freed block is not linked to the rest of the list.
Deallocate_Unlinked(a, b) ==
  /\ word' = [word EXCEPT ![b] = NULL]
  /\ head' = [head EXCEPT ![a] = b]
  /\ inUse' = [inUse EXCEPT ![a] = @ - 1]

\* Mutant: the block goes to the list that was created last.
Deallocate_WrongList(a, b) ==
  /\ word' = [word EXCEPT ![b] = head[count]]
  /\ head' = [head EXCEPT ![count] = b]
  /\ inUse' = [inUse EXCEPT ![count] = @ - 1]

\* Deallocate, under the mutex.
Deallocate(a, b) ==
  /\ word' = [word EXCEPT ![b] = head[a]]
  /\ head' = [head EXCEPT ![a] = b]
  /\ inUse' = [inUse EXCEPT ![a] = @ - 1]

XfreePush(t) ==
  /\ job[t].op = "free"
  /\ Deallocate(job[t].allocator, job[t].block)
  /\ job' = [job EXCEPT ![t] = Idle]
  /\ UNCHANGED <<count, size, blockCnt, bytes, held, phase>>

\* xrealloc takes the new block first; when that throws the client still has the old one.
Xrealloc(t, old, r) ==
  /\ job[t] = Idle
  /\ old \in held[t]
  /\ UNCHANGED phase
  /\ \/ \E b \in Blocks :
          /\ Take(r, b)
          /\ held' = [held EXCEPT ![t] = @ \ {old}]
          /\ job' = [job EXCEPT ![t] = CopyJob(old, b, r)]
     \/ TakeFails(r) /\ UNCHANGED <<held, job>>

\* The copy, then xfree of the old block as far as its lock.
XreallocCopy(t) ==
  /\ job[t].op = "copy"
  /\ held' = [held EXCEPT ![t] = @ \cup {job[t].new}]
  /\ job' = [job EXCEPT ![t] = FreeJob(job[t].old, word[job[t].old])]
  /\ UNCHANGED <<lists, phase>>

\* Mutant: the header is counted as room of the old block.
CopyLength_WithHeader(j) ==
  LET oldSize == size[word[j.old]]
  IN  IF oldSize < j.req THEN oldSize ELSE j.req

\* The length memcpy is given.
CopyLength(j) ==
  LET oldSize == size[word[j.old]] - Header
  IN  IF oldSize < j.req THEN oldSize ELSE j.req

\* Where m_pHead and then each block's pointer lead, in as many steps as there are blocks.
Walk(a) ==
  LET at[n \in 0 .. Cardinality(Blocks)] ==
        IF n = 0 THEN head[a] ELSE IF at[n - 1] \in Blocks THEN word[at[n - 1]] ELSE NULL
  IN  at

\* The blocks on the list of an Allocator.
Chain(a) == {b \in Blocks : \E n \in 0 .. Cardinality(Blocks) : Walk(a)[n] = b}

\* Mutant: the last entry of the array is forgotten.
Destroyed_AllButLast == {a \in 1 .. count : a < MaxAllocators}

\* Objects xalloc_destroy deletes: the array's, not those that found it full.
Destroyed == {a \in 1 .. count : a <= MaxAllocators}

\* The program ends; every listed block of the array's objects goes back to the heap.
XallocDestroy ==
  /\ \A t \in Threads : job[t] = Idle
  /\ phase' = "destroyed"
  /\ bytes' = [b \in Blocks |-> IF \E a \in Destroyed : b \in Chain(a) THEN 0 ELSE bytes[b]]
  /\ head' = [a \in Allocators |-> IF a \in Destroyed THEN NULL ELSE head[a]]
  /\ UNCHANGED <<count, size, blockCnt, inUse, word, held, job>>

-----------------------------------------------------------------------------
ThreadStep(t) ==
  \/ \E r \in Requests : Xmalloc(t, r) \/ XmallocAborts(t, r)
  \/ \E owner \in Threads, b \in Blocks : XfreeRead(t, owner, b)
  \/ XfreePush(t)
  \/ \E old \in Blocks, r \in Requests : Xrealloc(t, old, r)
  \/ XreallocCopy(t)

Next == phase = "running" /\ (XallocDestroy \/ \E t \in Threads : ThreadStep(t))

Spec == Init /\ [][Next]_vars

-----------------------------------------------------------------------------
Jobs == {Idle} \cup [op : {"copy"}, old : Blocks, new : Blocks, req : Requests]
          \cup [op : {"free"}, block : Blocks, allocator : Allocators]

\* The type of the state; a job's allocator is always an Allocator object, never a link.
TypeOK ==
  /\ count \in 0 .. MaxObjects
  /\ size \in [Allocators -> Nat]
  /\ head \in [Allocators -> Blocks \cup {NULL}]
  /\ blockCnt \in [Allocators -> Nat]
  /\ inUse \in [Allocators -> Int]
  /\ word \in [Blocks -> Blocks \cup {NULL} \cup Allocators]
  /\ bytes \in [Blocks -> Nat]
  /\ held \in [Threads -> SUBSET Blocks]
  /\ job \in [Threads -> Jobs]
  /\ phase \in {"running", "aborted", "destroyed"}

(***************************************************************************)
(* A block is in one pair of hands: no two threads, and no two calls of    *)
(* one thread, have it at once.  It is what the lists exist for, and a     *)
(* list that loses or keeps a link breaks it several calls later.          *)
(***************************************************************************)
BlocksAreExclusive ==
  \A t, u \in Threads :
    /\ t # u => Owned(t) \cap Owned(u) = {}
    /\ held[t] \cap BlocksOf(job[t]) = {}
    /\ job[t].op = "copy" => job[t].old # job[t].new

(***************************************************************************)
(* While anyone has a block, its first word is the Allocator it came from: *)
(* the word xfree and xrealloc read without the mutex is never a link.     *)
(***************************************************************************)
HeaderNamesOwner ==
  phase = "running" =>
    /\ \A b \in Used : word[b] \in 1 .. count /\ bytes[b] = size[word[b]]
    /\ \A t \in Threads : job[t].op = "free" => job[t].allocator = word[job[t].block]

\* memcpy in xrealloc stays inside both blocks, header included.
CopyFits ==
  phase = "running" =>
    \A t \in Threads :
      job[t].op = "copy" =>
        /\ CopyLength(job[t]) + Header <= bytes[job[t].old]
        /\ CopyLength(job[t]) + Header <= bytes[job[t].new]

\* A walk along a list meets blocks only and comes to NULL: no list runs in a ring.
ListEnds(a) ==
  /\ \A n \in 0 .. Cardinality(Blocks) : Walk(a)[n] \in Blocks \cup {NULL}
  /\ Walk(a)[Cardinality(Blocks)] = NULL

(***************************************************************************)
(* Every block the heap gave is either with a client or on exactly one     *)
(* list of all there are, which is its own size's: Deallocate loses none   *)
(* and links none twice.  Every list ends.                                 *)
(***************************************************************************)
FreeListsComplete ==
  phase = "running" =>
    /\ \A a \in 1 .. count : ListEnds(a) /\ \A b \in Chain(a) : size[a] = bytes[b]
    /\ \A b \in Blocks :
         bytes[b] # 0 =>
           Cardinality({a \in 1 .. count : b \in Chain(a)}) = IF b \in Used THEN 0 ELSE 1

\* The in-use count is the number of blocks of that Allocator with clients, or on their way back.
InUseCounts ==
  phase = "running" =>
    \A a \in 1 .. count : inUse[a] = Cardinality({b \in Used : word[b] = a})

(***************************************************************************)
(* The heap is asked only when no free block of that size exists anywhere, *)
(* so the memory taken is bounded by the clients' peak demand.             *)
(***************************************************************************)
HeapIsLastResort ==
  [][\A b \in Blocks :
       bytes[b] = 0 /\ bytes'[b] # 0 =>
         \A c \in Blocks : bytes[c] = bytes'[b] => c \in Used]_vars

\* After xalloc_destroy only blocks that clients never gave back remain.
NothingLeftBehind == phase = "destroyed" => \A b \in Blocks : bytes[b] # 0 => b \in Used

\* The lists implement a memory manager.
Room(b) == IF bytes[b] = 0 THEN 0 ELSE bytes[b] - Header
Memory == INSTANCE MemoryBlocks WITH used <- Used, room <- [b \in Blocks |-> Room(b)]
ManagesMemory == Memory!Spec
=============================================================================
