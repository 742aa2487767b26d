----------------------------- MODULE CachedObject -----------------------------
(***************************************************************************)
(* CachedObject: operator new and delete of the nodes of regular           *)
(* expressions.  Chunks of objects are taken from the heap and never given *)
(* back before exit; a deleted object goes to the end of a queue of free   *)
(* objects.                                                                *)
(***************************************************************************)
EXTENDS Integers, Sequences, SequencesExt, FiniteSets

CONSTANTS chunkSize_,   \* 20 in the program
          MaxObjects    \* bound on the objects of the pool

VARIABLES pool_,        \* the objects taken from the heap, in order
          freeQueue_,
          live,         \* history: the objects the program holds
          hasRegDelPool_,
          heap          \* the objects that the heap has given out

vars == <<pool_, freeQueue_, live, hasRegDelPool_, heap>>

Init ==
  /\ pool_ = <<>> /\ freeQueue_ = <<>> /\ live = {}
  /\ hasRegDelPool_ = FALSE /\ heap = {}

Chunk == [i \in 1..chunkSize_ |-> Len(pool_) + i]

\* operator new, and then the constructor, which registers deletePool().
New ==
  LET free == IF freeQueue_ = <<>> THEN Chunk ELSE freeQueue_ IN
  /\ freeQueue_ = <<>> => Len(pool_) + chunkSize_ <= MaxObjects
  /\ pool_' = IF freeQueue_ = <<>> THEN pool_ \o Chunk ELSE pool_
  /\ heap' = IF freeQueue_ = <<>> THEN heap \cup ToSet(Chunk) ELSE heap
  /\ live' = live \cup {Head(free)}
  /\ freeQueue_' = Tail(free)
  /\ hasRegDelPool_' = TRUE

\* operator delete of an object the program holds.
Delete(p) ==
  /\ p \in live
  /\ live' = live \ {p}
  /\ freeQueue_' = Append(freeQueue_, p)
  /\ UNCHANGED <<pool_, hasRegDelPool_, heap>>

\* The end of the program.  The pool is deleted whatever is still held.
deletePool ==
  /\ hasRegDelPool_
  /\ heap' = heap \ ToSet(pool_)
  /\ pool_' = <<>> /\ freeQueue_' = <<>> /\ live' = {} /\ hasRegDelPool_' = FALSE

Next == New \/ deletePool \/ \E p \in live : Delete(p)

-------------------------------------------------------------------------------
(* Properties *)

\* No object is handed out twice or lost: what is held and what is free make up
\* the pool, and the heap has given out exactly the pool.
PoolIsPartitioned ==
  /\ ToSet(freeQueue_) \cap live = {}
  /\ ToSet(freeQueue_) \cup live = ToSet(pool_)
  /\ Len(freeQueue_) + Cardinality(live) = Len(pool_)
  /\ heap = ToSet(pool_)
===============================================================================
