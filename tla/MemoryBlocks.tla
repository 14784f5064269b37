---------------------------- MODULE MemoryBlocks ----------------------------
(***************************************************************************)
(* What a memory manager promises its clients, whatever its lists: a block *)
(* is handed to one client at a time, it has the room that was asked for,  *)
(* and once carved from the heap its room never changes.                   *)
(***************************************************************************)
EXTENDS Naturals

CONSTANTS Blocks, Requests

VARIABLES used,   \* the blocks in the hands of clients
          room    \* the bytes a client may use in each block; 0 before the block exists

Init == used = {} /\ room = [b \in Blocks |-> 0]

Acquire(b, r) ==
  /\ b \notin used
  /\ used' = used \cup {b}
  /\ room'[b] >= r
  /\ \/ room' = room
     \/ room[b] = 0 /\ \A c \in Blocks \ {b} : room'[c] = room[c]

Release(b) ==
  /\ b \in used
  /\ used' = used \ {b}
  /\ room' = room

\* At exit blocks that nobody uses go back to the heap.
Trim ==
  /\ used' = used
  /\ \A b \in Blocks : room'[b] = room[b] \/ (b \notin used /\ room'[b] = 0)

Next == Trim \/ \E b \in Blocks : Release(b) \/ \E r \in Requests : Acquire(b, r)

Spec == Init /\ [][Next]_<<used, room>>
=============================================================================
