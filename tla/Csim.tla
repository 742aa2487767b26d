--------------------------------- MODULE Csim ---------------------------------
(***************************************************************************)
(* The cache simulator csim.c: for each set a list of lines in use, most   *)
(* recently used first, and a list of free lines.  A list of the program   *)
(* has a sentinel at each end; here it is the sequence of what is between  *)
(* them.  One step is one line of the trace.                               *)
(***************************************************************************)
EXTENDS Integers, Sequences, SequencesExt, FiniteSets

CONSTANTS bits_sets, bits_blocks_per_line, total_lines_per_set,
          AddressBits,  \* 64 in the program
          Addresses,    \* the addresses in traces
          MaxAccesses   \* bound on the accesses of a trace

VARIABLES in_use, free, \* the two lists of each set, as sequences of lines
          tag,          \* the tag of each line of each set
          hit, miss, eviction,
          lastUse       \* history: of each block, the hits and misses there were
                        \* after its last use, or 0

vars == <<in_use, free, tag, hit, miss, eviction, lastUse>>

Sets  == 0..(2^bits_sets - 1)
Lines == 1..total_lines_per_set
NoTag == -1             \* what malloc left there

BlockOf(addr) == addr \div 2^bits_blocks_per_line
Blocks == {BlockOf(a) : a \in Addresses}

\* The lines are put into the free list one in front of the other.
Init ==
  /\ in_use = [s \in Sets |-> <<>>]
  /\ free = [s \in Sets |-> [i \in Lines |-> total_lines_per_set + 1 - i]]
  /\ tag = [s \in Sets |-> [l \in Lines |-> NoTag]]
  /\ hit = 0 /\ miss = 0 /\ eviction = 0
  /\ lastUse = [b \in Blocks |-> 0]

\* The bits above the block offset and below the tag.
extract_set_bits(addr) ==
  (addr % 2^(bits_sets + bits_blocks_per_line)) \div 2^bits_blocks_per_line
extract_tag_bits(addr) == addr \div 2^(bits_sets + bits_blocks_per_line)

insert_after_head(line, list) == <<line>> \o list
delete_line(line, list) ==
  IF line \in ToSet(list) THEN RemoveAt(list, CHOOSE i \in DOMAIN list : list[i] = line) ELSE list

\* The lines in use that hold the address.
Holding(addr) ==
  LET s == extract_set_bits(addr)
  IN {l \in ToSet(in_use[s]) : tag[s][l] = extract_tag_bits(addr)}

\* Mutant: the line that was used last is evicted.
ChosenFirst(addr) ==
  LET s == extract_set_bits(addr) IN
  IF Holding(addr) # {} THEN CHOOSE l \in Holding(addr) : TRUE
  ELSE IF free[s] # <<>> THEN Head(free[s]) ELSE Head(in_use[s])

\* The line an access uses: the one that hits, else the first free one, else
\* the last one in use, which is evicted.
Chosen(addr) ==
  LET s == extract_set_bits(addr) IN
  IF Holding(addr) # {} THEN CHOOSE l \in Holding(addr) : TRUE
  ELSE IF free[s] # <<>> THEN Head(free[s]) ELSE Last(in_use[s])

\* The line is taken out of the list it is in and put in front.
MoveToFront(line, list) == insert_after_head(line, delete_line(line, list))

\* One line of the trace: L is a load, S a store, M a load and then a store
\* that always hits; I, an instruction, is skipped.
Access(op, addr) ==
  LET s == extract_set_bits(addr)
      line == Chosen(addr)
      found == Holding(addr) # {}
  IN
  /\ hit + miss < MaxAccesses
  /\ in_use' = [in_use EXCEPT ![s] = MoveToFront(line, @)]
  /\ free' = [free EXCEPT ![s] = delete_line(line, @)]
  /\ tag' = [tag EXCEPT ![s][line] = extract_tag_bits(addr)]
  /\ hit' = hit + (IF found THEN 1 ELSE 0) + (IF op = "M" THEN 1 ELSE 0)
  /\ miss' = miss + (IF found THEN 0 ELSE 1)
  /\ eviction' = eviction + (IF ~found /\ free[s] = <<>> THEN 1 ELSE 0)
  /\ lastUse' = [lastUse EXCEPT ![BlockOf(addr)] = hit' + miss']

Next == \E addr \in Addresses : \E op \in {"L", "S", "M"} : Access(op, addr)

Spec == Init /\ [][Next]_vars

-------------------------------------------------------------------------------
(* Properties *)

\* Every line is in one of the two lists of its set, once: nothing is lost by
\* moving lines about, and free_cache_set() frees each one time.
ListsPartitionLines ==
  \A s \in Sets : LET both == in_use[s] \o free[s] IN
                  ToSet(both) = Lines /\ Len(both) = total_lines_per_set

\* Two lines in use of one set never hold the same block, so that the first
\* one a search finds is the only one.
TagsAreUnique ==
  \A s \in Sets : \A k, l \in ToSet(in_use[s]) : tag[s][k] = tag[s][l] => k = l

\* The counts are those of a cache that replaces the least recently used line.
Reference == INSTANCE LRU WITH SetOf <- [b \in Blocks |-> b % 2^bits_sets],
                               LinesPerSet <- total_lines_per_set
CountsLRU == Reference!LSpec
===============================================================================
