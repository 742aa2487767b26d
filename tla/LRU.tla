--------------------------------- MODULE LRU ---------------------------------
(***************************************************************************)
(* What a cache simulator has to count: hits, misses and evictions of a    *)
(* set-associative cache that replaces the least recently used line.       *)
(* Nothing is stored but when each block was last used.                    *)
(***************************************************************************)
EXTENDS Naturals, FiniteSets

CONSTANTS Blocks, SetOf, LinesPerSet

VARIABLES lastUse,      \* of each block: the hits and misses there were after its
                        \* last use, or 0 if it has not been used
          hit, miss, eviction

lvars == <<lastUse, hit, miss, eviction>>

LInit == lastUse = [b \in Blocks |-> 0] /\ hit = 0 /\ miss = 0 /\ eviction = 0

\* The blocks of b's set that were used after time t.
UsedSince(b, t) == {c \in Blocks : SetOf[c] = SetOf[b] /\ lastUse[c] > t}

\* b hits if fewer than LinesPerSet other blocks of its set were used since b
\* was.  A modify is a load and a store, and the store always hits.
Cached(b) == lastUse[b] > 0 /\ Cardinality(UsedSince(b, lastUse[b])) < LinesPerSet
Full(b) == Cardinality(UsedSince(b, 0)) >= LinesPerSet

Use(b, modify) ==
  /\ hit' = hit + (IF Cached(b) THEN 1 ELSE 0) + (IF modify THEN 1 ELSE 0)
  /\ miss' = miss + (IF Cached(b) THEN 0 ELSE 1)
  /\ eviction' = eviction + (IF ~Cached(b) /\ Full(b) THEN 1 ELSE 0)
  /\ lastUse' = [lastUse EXCEPT ![b] = hit' + miss']

LNext == \E b \in Blocks, modify \in BOOLEAN : Use(b, modify)

LSpec == LInit /\ [][LNext]_lvars
===============================================================================
