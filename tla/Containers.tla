------------------------------ MODULE Containers ------------------------------
(***************************************************************************)
(* The containers that are proved for every size, side by side: the ring   *)
(* and the stack, union-find, the map of lists, the pool of regex nodes,   *)
(* the objects destroyed at exit and the sets of the simulated cache.      *)
(* They share no state, and each takes its steps when its client calls.    *)
(***************************************************************************)
EXTENDS ArrayContainers, FiniteSets

CONSTANTS
  size_,                                                         \* UnionFind
  bucketSize, Keys, Values,                                      \* SeparateChaining
  chunkSize_, MaxObjects,                                        \* CachedObject
  Longevities, MaxTracked,                                       \* LifetimeTracker
  bits_sets, bits_blocks_per_line, total_lines_per_set,
  AddressBits, Addresses, MaxAccesses                            \* Csim

VARIABLES
  parent_, weight_, classes,                                     \* UnionFind
  buckets,                                                       \* SeparateChaining
  pool_, freeQueue_, live, hasRegDelPool_, objects,              \* CachedObject
  pTrackerArray, pending, exiting, tracked, destroyed,           \* LifetimeTracker
  in_use, free, tag, hit, miss, eviction, lastUse                \* Csim

Forest == INSTANCE UnionFind
Chain  == INSTANCE SeparateChaining
Pool   == INSTANCE CachedObject WITH heap <- objects
Exits  == INSTANCE LifetimeTracker
Cache  == INSTANCE Csim

-------------------------------------------------------------------------------
(* Assumptions *)

\* There is a bucket, and a hash code is a number.
HashesAreNumbers ==
  bucketSize \in Nat \ {0} /\ \A k \in Keys : Chain!HashString(k) \in Nat

PoolSizes == chunkSize_ \in Nat \ {0} /\ MaxObjects \in Nat

LongevitiesAreNumbers == Longevities \subseteq Int

\* The geometry of the cache; what is said of powers holds of all numbers, but the
\* provers know nothing of them.
CacheSizes ==
  /\ 2^bits_sets \in Nat \ {0} /\ 2^bits_blocks_per_line \in Nat \ {0}
  /\ 2^(bits_sets + bits_blocks_per_line) = 2^bits_blocks_per_line * 2^bits_sets
  /\ total_lines_per_set \in Nat \ {0}
  /\ Addresses \in SUBSET Nat /\ IsFiniteSet(Addresses)

ASSUME ContainersAssumption ==
  size_ \in Nat /\ HashesAreNumbers /\ PoolSizes /\ LongevitiesAreNumbers /\ CacheSizes

-------------------------------------------------------------------------------
(* The specification and its properties *)

ContainersSpec ==
  /\ RingSpec
  /\ StackSpec
  /\ Forest!Init /\ [][Forest!Next]_(Forest!vars)
  /\ Chain!Init /\ [][Chain!Next]_buckets
  /\ Pool!Init /\ [][Pool!Next]_(Pool!vars)
  /\ Exits!Init /\ [][Exits!Next]_(Exits!vars)
  /\ Cache!Init /\ [][Cache!Next]_(Cache!vars)

\* However often arrays are doubled and halved, lists relinked, trees compressed
\* and nodes used again, a container holds what was put in and not taken out: a
\* ring is never taken for empty when it is full; the stack's items are in its
\* array unless the array is lost; classes are those that connect() has made, and
\* the trees are flat; each key is in its own bucket once; a node is free or in
\* use, never both; exit destroys each object once; and no line of the simulated
\* cache is lost or found twice.
ContainersHold ==
  /\ FlagsTell
  /\ InBoundsUnlessLost
  /\ Forest!ConnectedIsClass /\ Forest!WeightBoundsDepth
  /\ Chain!KeysAreOnce
  /\ Pool!PoolIsPartitioned
  /\ Exits!OneCallEach
  /\ Cache!ListsPartitionLines /\ Cache!TagsAreUnique

\* The ring is a bounded first-in-first-out queue, the lists of buckets are a
\* dictionary, and the simulator's lists count what a cache with least recently
\* used replacement does; the items of a stack survive every step, and of the
\* objects to be destroyed the one with the greatest longevity goes first.
ContainersImplement ==
  /\ ImplementsQueue
  /\ Chain!ImplementsDictionary
  /\ Cache!CountsLRU
  /\ ItemsSurvive
  /\ Exits!LongestFirst
===============================================================================
