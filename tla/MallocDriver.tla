------------------------------ MODULE MallocDriver ------------------------------
(***************************************************************************)
(* mdriver.c and memlib.c: the driver plays a trace of requests against an *)
(* allocator three times, to check what it returns, to measure how much of *)
(* the heap it uses, and to measure its speed.  The allocator is external  *)
(* and may return anything: telling is the driver's task.                  *)
(*                                                                         *)
(* add_range() looks whether an end of the new payload is within a payload *)
(* it knows: a payload that encloses another one is accepted.              *)
(*                                                                         *)
(* To measure a speed, fcyc.c times the function again and again until the *)
(* kbest smallest times are within epsilon of each other, or maxsamples    *)
(* times.  It shares nothing with the rest.                                *)
(***************************************************************************)
EXTENDS Integers, Sequences, SequencesExt, FiniteSets, FiniteSetsExt, TLC

CONSTANTS Files,        \* the trace files: [num_ids, num_ops, lines]
          ALIGNMENT,    \* 8 in the program
          MAX_HEAP,     \* bytes; 20 MB in the program
          HeapStart,    \* mem_start_brk
          kbest, maxsamples,
          Epsilon,      \* epsilon as [num, den]
          Times         \* what the counter may return

VARIABLES trace, i,     \* the requests, and the next one
          phase,        \* "valid", "util", "speed": eval_mm_*; then "done" or "invalid"
          mem_brk,
          ranges,       \* the range list, the newest payload first
          blocks, block_sizes,
          memory,       \* what the driver has written: an index for each byte
          total_size, max_total_size,
          faults        \* history: what the allocator has done wrong

VARIABLES values,       \* the smallest times so far, at 1..kbest
          samplecount,
          running,
          samples       \* history: all times

vars == <<trace, i, phase, mem_brk, ranges, blocks, block_sizes, memory,
          total_size, max_total_size, faults>>

Null == -1
Unwritten == -1
mem_heap_hi(brk) == brk - 1
HeapPlaces == (HeapStart - ALIGNMENT)..(HeapStart + MAX_HEAP)
Ids == {trace[k].index : k \in DOMAIN trace}
None == [id \in Ids |-> 0]

\* The letters of a trace file; another one ends the driver, as do the assertions
\* on the header.  That of num_ids looks at no line "f": files that free an id
\* beyond num_ids, for which blocks has no entry, are left out.
Letters == "a" :> "ALLOC" @@ "r" :> "REALLOC" @@ "f" :> "FREE"
read_trace(file) ==
  [k \in DOMAIN file.lines |->
     [type |-> Letters[file.lines[k].type], index |-> file.lines[k].index,
      size |-> file.lines[k].size]]
Accepted(file) ==
  /\ \A k \in DOMAIN file.lines : file.lines[k].type \in DOMAIN Letters
  /\ file.num_ops = Len(file.lines)
  /\ file.num_ids - 1 =
       Max({0} \cup {file.lines[k].index : k \in {l \in DOMAIN file.lines : file.lines[l].type # "f"}})

Init ==
  /\ \E file \in Files : Accepted(file) /\ trace = read_trace(file)
  /\ i = 1 /\ phase = "valid"
  /\ mem_brk = HeapStart /\ ranges = <<>>
  /\ blocks = None /\ block_sizes = None
  /\ memory = [a \in HeapPlaces |-> Unwritten]
  /\ total_size = 0 /\ max_total_size = 0
  /\ faults = {}

IS_ALIGNED(p) == p % ALIGNMENT = 0
Within(a, r) == r.lo <= a /\ a <= r.hi
Payload(lo, size) == [lo |-> lo, hi |-> lo + size - 1]

\* Mutant: the start of the payload is not looked for in the others.
FitsAtEnd(r, list, brk) ==
  /\ IS_ALIGNED(r.lo)
  /\ HeapStart <= r.lo /\ r.hi <= mem_heap_hi(brk)
  /\ \A p \in ToSet(list) : ~Within(r.hi, p)

\* add_range() accepts the payload.
Fits(r, list, brk) ==
  /\ IS_ALIGNED(r.lo)
  /\ HeapStart <= r.lo /\ r.hi <= mem_heap_hi(brk)
  /\ \A p \in ToSet(list) : ~Within(r.lo, p) /\ ~Within(r.hi, p)

\* remove_range(): the first range that starts at lo.
remove_range(list, lo) ==
  IF \E k \in DOMAIN list : list[k].lo = lo
  THEN RemoveAt(list, SelectInSeq(list, LAMBDA r : r.lo = lo)) ELSE list

\* What is wrong with a payload an allocator has returned.
Overlapping(r, p) == r.lo <= p.hi /\ p.lo <= r.hi
Encloses(r, p) == r.lo < p.lo /\ p.hi < r.hi
Wrong(r, list, brk) ==
     (IF IS_ALIGNED(r.lo) THEN {} ELSE {"alignment"})
  \cup (IF HeapStart <= r.lo /\ r.hi < brk THEN {} ELSE {"heap"})
  \cup (IF \E p \in ToSet(list) : Overlapping(r, p) THEN {"overlap"} ELSE {})

\* memset(p, index, size)
Filled(mem, r, index) == [a \in DOMAIN mem |-> IF Within(a, r) THEN index ELSE mem[a]]

\* malloc_error() and the return of 0: the trace is invalid.
Invalid == phase' = "invalid" /\ UNCHANGED <<trace, i, ranges, blocks, block_sizes, memory, total_size, max_total_size>>

Remember(index, p, size) ==
  /\ blocks' = [blocks EXCEPT ![index] = p]
  /\ block_sizes' = [block_sizes EXCEPT ![index] = size]

\* mem_sbrk(), called by the allocator as often as it likes.
Brk == mem_brk..(HeapStart + MAX_HEAP)

Op == trace[i]
Request(type) == i <= Len(trace) /\ Op.type = type

\* The allocator returns null.
Refused ==
  /\ phase = "valid" /\ (Request("ALLOC") \/ Request("REALLOC"))
  /\ faults' = faults \cup {"null"}
  /\ mem_brk' \in Brk
  /\ Invalid

ValidAlloc ==
  /\ phase = "valid" /\ Request("ALLOC")
  /\ \E p \in HeapPlaces, brk \in {mem_brk, HeapStart + MAX_HEAP} :
       LET r == Payload(p, Op.size) IN
       /\ mem_brk' = brk
       /\ faults' = faults \cup Wrong(r, ranges, brk)
       /\ IF Fits(r, ranges, brk)
          THEN /\ ranges' = <<r>> \o ranges
               /\ memory' = Filled(memory, r, Op.index)
               /\ Remember(Op.index, p, Op.size)
               /\ i' = i + 1
               /\ UNCHANGED <<trace, phase, total_size, max_total_size>>
          ELSE Invalid

\* mm_realloc() may have copied the data or not.
ValidRealloc ==
  /\ phase = "valid" /\ Request("REALLOC")
  /\ \E p \in HeapPlaces, copied \in BOOLEAN :
       LET old == blocks[Op.index]
           r == Payload(p, Op.size)
           rest == remove_range(ranges, old)
           kept == IF Op.size < block_sizes[Op.index] THEN Op.size ELSE block_sizes[Op.index]
           mem == [a \in DOMAIN memory |->
                     IF copied /\ Within(a, Payload(p, kept)) THEN memory[old + (a - p)] ELSE memory[a]]
           preserved == \A j \in 0..(kept - 1) : p + j \in DOMAIN mem /\ mem[p + j] = Op.index
       IN
       /\ mem_brk' = mem_brk
       /\ faults' = faults \cup Wrong(r, rest, mem_brk)
                      \cup (IF \A j \in 0..(kept - 1) : p + j \in DOMAIN mem /\ mem[p + j] = memory[old + j]
                            THEN {} ELSE {"data"})
       /\ IF Fits(r, rest, mem_brk) /\ preserved
          THEN /\ ranges' = <<r>> \o rest
               /\ memory' = Filled(mem, r, Op.index)
               /\ Remember(Op.index, p, Op.size)
               /\ i' = i + 1
               /\ UNCHANGED <<trace, phase, total_size, max_total_size>>
          ELSE Invalid

ValidFree ==
  /\ phase = "valid" /\ Request("FREE")
  /\ ranges' = remove_range(ranges, blocks[Op.index])
  /\ i' = i + 1
  /\ UNCHANGED <<trace, phase, mem_brk, blocks, block_sizes, memory, total_size, max_total_size, faults>>

\* eval_mm_util() does not look at the payloads.  A block that was freed keeps
\* its size.
UtilStep ==
  /\ phase = "util" /\ i <= Len(trace)
  /\ LET total == CASE Op.type = "ALLOC"   -> total_size + Op.size
                    [] Op.type = "REALLOC" -> total_size + (Op.size - block_sizes[Op.index])
                    [] Op.type = "FREE"    -> total_size - block_sizes[Op.index]
     IN /\ total_size' = total
        /\ max_total_size' = IF total > max_total_size THEN total ELSE max_total_size
  /\ block_sizes' = IF Op.type = "FREE" THEN block_sizes ELSE [block_sizes EXCEPT ![Op.index] = Op.size]
  /\ i' = i + 1
  /\ UNCHANGED <<trace, phase, mem_brk, ranges, blocks, memory, faults>>

\* eval_mm_speed() only makes the calls.
SpeedStep ==
  /\ phase = "speed" /\ i <= Len(trace)
  /\ i' = i + 1
  /\ UNCHANGED <<trace, phase, mem_brk, ranges, blocks, block_sizes, memory, total_size, max_total_size, faults>>

\* main(): a trace that was valid is played again from the start on an empty
\* heap; ranges are cleared only when the next trace begins.
NextPhase ==
  /\ i > Len(trace) /\ phase \in {"valid", "util", "speed"}
  /\ phase' = [valid |-> "util", util |-> "speed", speed |-> "done"][phase]
  /\ i' = 1
  /\ mem_brk' = HeapStart
  /\ UNCHANGED <<trace, ranges, blocks, block_sizes, memory, total_size, max_total_size, faults>>

Next ==
  \/ Refused \/ ValidAlloc \/ ValidRealloc \/ ValidFree
  \/ UtilStep \/ SpeedStep \/ NextPhase

-------------------------------------------------------------------------------
(* Properties *)

\* The ids that the first k requests leave allocated, and their sizes.
LastOf(id, k) == Max({0} \cup {j \in 1..k : trace[j].index = id})
Live(k) == {id \in Ids : LastOf(id, k) > 0 /\ trace[LastOf(id, k)].type # "FREE"}
LiveSizes(k) == [id \in Live(k) |-> trace[LastOf(id, k)].size]
Total(k) == MapThenSumSet(LAMBDA id : LiveSizes(k)[id], Live(k))

\* While a trace is checked, the range list is exactly the blocks allocated.
RangesAreLive ==
  phase = "valid" =>
    /\ ToSet(ranges) = {Payload(blocks[id], LiveSizes(i - 1)[id]) : id \in Live(i - 1)}
    /\ Len(ranges) = Cardinality(Live(i - 1))

\* A trace is never refused without a fault, and accepted only if the allocator has
\* not returned null, a payload that is not aligned or not in the heap, or one that
\* has lost its data.  Line 407 wants that no payloads overlap, which the test of
\* their ends does not achieve: it makes them disjoint, or the newer one enclose
\* the older one.
FaultsAreCaught ==
  /\ phase = "invalid" => faults # {}
  /\ phase # "invalid" => {"null", "alignment", "heap", "data"} \cap faults = {}
  /\ \A newer, older \in DOMAIN ranges :
       newer < older => \/ ~Overlapping(ranges[newer], ranges[older])
                        \/ Encloses(ranges[newer], ranges[older])

\* The high water mark is the largest sum of payloads there was at a time.
HighWaterMark ==
  phase = "util" => /\ total_size = Total(i - 1)
                    /\ max_total_size = Max({Total(k) : k \in 0..(i - 1)})

-------------------------------------------------------------------------------
(* The sampler of fcyc.c *)

\* init_sampler(): calloc() gives zeros.
SamplerInit ==
  /\ values = [k \in 1..kbest |-> 0]
  /\ samplecount = 0 /\ running = TRUE /\ samples = <<>>

\* The insertion sort of add_sample().
RECURSIVE Sunk(_, _)
Sunk(vs, pos) ==
  IF pos > 1 /\ vs[pos - 1] > vs[pos]
  THEN Sunk([vs EXCEPT ![pos - 1] = vs[pos], ![pos] = vs[pos - 1]], pos - 1) ELSE vs

\* A time takes the next free place, or that of the largest time if it is less.
add_sample(val) ==
  IF samplecount < kbest THEN Sunk([values EXCEPT ![samplecount + 1] = val], samplecount + 1)
  ELSE IF val < values[kbest] THEN Sunk([values EXCEPT ![kbest] = val], kbest)
  ELSE values

has_converged(vs, n) ==
  n >= kbest /\ (Epsilon.den + Epsilon.num) * vs[1] >= Epsilon.den * vs[kbest]

\* One round of the loop of fcyc().
Measure ==
  /\ running
  /\ \E val \in Times :
       /\ values' = add_sample(val)
       /\ samples' = Append(samples, val)
  /\ samplecount' = samplecount + 1
  /\ running' = (~has_converged(values', samplecount') /\ samplecount' < maxsamples)

\* The next call starts anew.
Restart ==
  /\ ~running
  /\ running' = TRUE /\ samplecount' = 0 /\ samples' = <<>>
  /\ values' = [k \in 1..kbest |-> 0]

SamplerNext == Measure \/ Restart

-------------------------------------------------------------------------------
(* The sampler: properties *)

Sorted == SortSeq(samples, <)

\* The values are the smallest of all samples, in order; when the loop ends
\* without convergence there is none among as many samples as are allowed.
HoldsKBest ==
  /\ samplecount = Len(samples) /\ samplecount <= maxsamples
  /\ \A k \in 1..kbest : values[k] = IF k <= samplecount THEN Sorted[k] ELSE 0
  /\ ~running => samplecount = maxsamples \/ has_converged(values, samplecount)
===============================================================================
