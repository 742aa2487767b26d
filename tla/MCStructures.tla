----------------------------- MODULE MCStructures -----------------------------
(***************************************************************************)
(* The sequential components that share nothing: containers, the file      *)
(* system, algorithms and the tools of the laboratories.  A behaviour      *)
(* begins with the choice of a component, which is the only one that then  *)
(* takes steps, so that the states of the run are the sum of theirs and    *)
(* not the product.  An algorithm without steps of its own is checked in   *)
(* the initial state, for each input.                                      *)
(*                                                                         *)
(* A variable has the name it has in its component, or a longer one where  *)
(* two components use the same.                                            *)
(***************************************************************************)
EXTENDS Containers, SimpleFS, TLC

CONSTANT NullType

VARIABLES
  part,         \* the component
  input,        \* of an algorithm
  buf_, itemSize_, bag,                                         \* HeapQueue
  table, erased, dict,                                          \* LinearProbing
  trace, request, phase, mem_brk, ranges, blocks, block_sizes,
  memory, total_size, max_total_size, faults,                   \* MallocDriver
  values, samplecount, running, samples,                        \* its sampler
  fn, length, mem, val, begin, end, result,                     \* BinarySearch
  list, from, to, base,                                         \* TypeLists
  test_set, fixed, puzzle, at, cases, case, alarm, terrors,
  points, slow, stray                                           \* DataLab

-------------------------------------------------------------------------------
(* The components on their small instances *)

Heap   == INSTANCE HeapQueue WITH Priorities <- 1..3, MaxItems <- 5
Probing  == INSTANCE LinearProbing WITH Keys <- {1, 3, 4, 7}, Values <- {1}, MaxBuckets <- 15
ChainedKeys == {<<1>>, <<2>>, <<5, 1>>}
\* Short ones, of 6 to 8 characters, of small letters and of others.
HashedStrings ==
  UNION {[1..l -> {97, 98, 122, 64}] : l \in 0..2} \cup UNION {[1..l -> {97, 127}] : l \in {3, 6}}
  \cup {<<c, 97, 127, 98, 99, d>> \o e : c \in {97, 98}, d \in {97, 127}, e \in [1..1 -> {1, 64}]
                                                          \cup [1..2 -> {97, 98}]}
\* The root, a directory of main() and two levels to build in that directory.
Session == {<<>>, <<"hellod1">>, <<"hellod1", "n">>, <<"hellod1", "n", "m">>}
Writings == {<<"x">>, <<"cr">>}
Search == INSTANCE BinarySearch WITH n <- length, Numbers <- {1, 2, 3}, MaxLength <- 4
TypeOps == INSTANCE TypeLists WITH Types <- {1, 2, 3}, MaxList <- 3

\* Requests for which an allocator may go wrong: two blocks that grow and are
\* freed, a small one that a large one may enclose, and an id used again.
a(id, size) == [type |-> "a", index |-> id, size |-> size]
r(id, size) == [type |-> "r", index |-> id, size |-> size]
f(id) == [type |-> "f", index |-> id, size |-> 0]
Traces == {<<a(0, 2), a(1, 3), r(0, 3), f(0), f(1)>>,
           <<a(0, 1), a(1, 4), r(0, 2), f(1), a(1, 2), r(1, 1)>>,
           <<a(0, 1), a(1, 4), f(0), f(1)>>}
\* With the right header and wrong ones.
TraceFiles == {[num_ids |-> ids, num_ops |-> ops, lines |-> t] : ids \in 1..3, ops \in 4..6, t \in Traces}
Driver == INSTANCE MallocDriver WITH Files <- TraceFiles, i <- request, ALIGNMENT <- 2, MAX_HEAP <- 6, HeapStart <- 2,
            kbest <- 3, maxsamples <- 5, Epsilon <- [num |-> 1, den |-> 10], Times <- {10, 11, 15, 20}

\* A puzzle of no argument, of one and of two, that fails in each way at an end
\* of its range, at zero or inside.
Ways(args, range, bad) ==
  {[args |-> args, range |-> range, rating |-> 1, bad |-> bad, how |-> how] :
   how \in {"right", "wrong", "spins"}}
Puzzles == Ways(0, <<0, 0>>, <<>>) \cup Ways(1, <<0, 1>>, <<1>>)
           \cup {p \in Ways(1, <<-27, 27>>, <<27>>) \cup Ways(2, <<0, 1>>, <<1, 1>>) : p.how = "wrong"}
\* The least and greatest values: ranges that fit into the array, one that is
\* larger by one, and larger ones.
Ranges == {p \in {-60, -52, -27, 0, 1, 5} \X {-1, 0, 1, 27, 52, 53} : p[1] <= p[2]}
Lab == INSTANCE DataLab WITH TEST_RANGE <- 4, FloatLimit <- 4,
            FloatMarks <- [smallest_norm |-> 4, one |-> 12, largest_norm |-> 24, inf |-> 28,
                           nan |-> 7, sign |-> 32]

\* Both ways through intro_sort(): depth 0 for few elements, else 1.
DEPTH_LIMIT(k) == IF k <= 5 THEN 0 ELSE 1
Sorts == INSTANCE Sorting WITH HeapBuilt <- 3, INTRO_LEN_THRESHOLD <- 3
\* The last digit tells elements with equal keys apart.
Arrays == UNION {{[p \in 1..l |-> 10 * keys[p] + p] : keys \in [1..l -> 1..3]} : l \in 1..6}

\* k ln k + k ln ln k, cut to a whole number.
PrimeRange == 6 :> 14 @@ 7 :> 18 @@ 8 :> 22 @@ 9 :> 26 @@ 10 :> 31 @@ 20 :> 81 @@ 30 :> 138

Regexes == INSTANCE Regex
RegexChars == {"a", "b", "|", "(", ")", "*", "?"}
Patterns == UNION {[1..l -> RegexChars] : l \in 0..4}
Longer ==
  {<<"(", "a", "|", "b", ")", "*", "a">>, <<"(", "a", "b", ")", "+", "b">>, <<"[", "a", "b", "]", "c">>,
   <<"a", "{", "2", "}", "b">>, <<"a", "{", "1", ",", "2", "}">>, <<"(", "?", ":", "a", "|", "b", ")", "c">>,
   <<".", "*", "b">>, <<"(", "a", "*", ")", "*">>, <<"a", "(", "b", "?", "c", ")", "*">>}
Strings == UNION {[1..l -> {"a", "b", "c"}] : l \in 0..3}

Shell == INSTANCE CommandLine WITH MAXLINE <- 4
Texts == UNION {[1..l -> {"a", " ", "'", "&", Shell!Newline}] : l \in 0..5}
WordLists ==
  UNION {[1..l -> {<<>>, <<"a">>, <<"b", " ", "c">>, <<"&">>, <<"a", "&">>, <<"&", "a">>}] : l \in 1..3}
\* With an empty slot of the list.
Jobs == {[pid |-> 0, jid |-> 0]} \cup {[pid |-> p, jid |-> j] : p \in {1, 2}, j \in {1, 2}}

\* Zero, ones, powers of 2 and their neighbours, words of patterns, what rounds up
\* or down as a float, the floats at the ends of their kinds; and Tmin.
Numbers ==
  {0, 1, 2, 3, 7, 8, 130, 255, 63, 64, 16777215, 16777217, 16777219, 305419896, 1431655765,
   2147483647, 2139095040, 2139095041, 2139095039, 8388608, 8388607, 2147483584,
   -1, -2, -3, -33, -64, -2147483647, -16777217, -16777219, -305419896, -8388608}
Words == {Lab!Word(x) : x \in Numbers} \cup {Lab!Tmin}

-------------------------------------------------------------------------------
(* The system *)

Parts == {"ring", "stack", "heap", "forest", "probing", "chaining", "files", "pool", "exits",
          "cache", "driver", "best", "search", "types", "tester", "sort", "regex", "lines", "bits", "values"}

Inputs == CASE part = "sort" -> Arrays
            [] part = "regex" -> Patterns \cup Longer
            [] part = "lines" -> Texts
            [] part = "bits" -> Words \X Words
            [] OTHER -> {<<>>}

\* The components with many initial states have one when they are not chosen.
Init ==
  /\ part \in Parts
  /\ input \in Inputs
  /\ RingInit /\ (part = "ring" \/ vec = [s \in Slots |-> CHOOSE x \in RingItems : TRUE])
  /\ StackInit
  /\ Heap!Init /\ Forest!Init /\ Probing!Init /\ Chain!Init /\ FsInit /\ Pool!Init /\ Exits!Init
  /\ Cache!Init /\ Driver!SamplerInit
  /\ Driver!Init /\ (part = "driver" \/ Len(trace) = 4)
  /\ IF part = "search" THEN Search!Init
     ELSE /\ fn = "Search" /\ length = 1 /\ mem = <<>> /\ val = 1
          /\ begin = 0 /\ end = 1 /\ result = 0
  /\ IF part = "types" THEN TypeOps!Init
     ELSE list = <<>> /\ from = 1 /\ to = 1 /\ base = <<>>
  /\ IF part = "tester" THEN Lab!TestInit
     ELSE /\ test_set = <<>> /\ fixed = <<>> /\ puzzle = 1 /\ at = "done" /\ cases = <<>>
          /\ case = 1 /\ alarm = 0 /\ terrors = <<>> /\ points = 0 /\ slow = {} /\ stray = {}

\* The step is one of p, and all else stays.
Only(p) ==
  /\ part = p
  /\ UNCHANGED <<part, input, list, from, to, base>>
  /\ IF p = "ring" THEN TRUE ELSE UNCHANGED ringVars
  /\ IF p = "stack" THEN TRUE ELSE UNCHANGED stackVars
  /\ IF p = "heap" THEN TRUE ELSE UNCHANGED <<buf_, itemSize_, bag>>
  /\ IF p = "forest" THEN TRUE ELSE UNCHANGED <<parent_, weight_, classes>>
  /\ IF p = "probing" THEN TRUE ELSE UNCHANGED <<table, erased, dict>>
  /\ IF p = "chaining" THEN TRUE ELSE UNCHANGED buckets
  /\ IF p = "files" THEN TRUE ELSE UNCHANGED fsVars
  /\ IF p = "pool" THEN TRUE ELSE UNCHANGED <<pool_, freeQueue_, live, hasRegDelPool_, objects>>
  /\ IF p = "exits" THEN TRUE ELSE UNCHANGED <<pTrackerArray, pending, exiting, tracked, destroyed>>
  /\ IF p = "cache" THEN TRUE ELSE UNCHANGED <<in_use, free, tag, hit, miss, eviction, lastUse>>
  /\ IF p = "driver" THEN TRUE
     ELSE UNCHANGED <<trace, request, phase, mem_brk, ranges, blocks, block_sizes, memory,
                      total_size, max_total_size, faults>>
  /\ IF p = "best" THEN TRUE ELSE UNCHANGED <<values, samplecount, running, samples>>
  /\ IF p = "search" THEN TRUE ELSE UNCHANGED <<fn, length, mem, val, begin, end, result>>
  /\ IF p = "tester" THEN TRUE
     ELSE UNCHANGED <<test_set, fixed, puzzle, at, cases, case, alarm, terrors, points, slow, stray>>

SearchStep == Only("search") /\ Search!Next
TesterStep == Only("tester") /\ Lab!TestNext

Next ==
  \/ Only("ring") /\ RingNext
  \/ Only("stack") /\ StackNext
  \/ Only("heap") /\ Heap!Next
  \/ Only("forest") /\ Forest!Next
  \/ Only("probing") /\ Probing!Next
  \/ Only("chaining") /\ Chain!Next
  \/ Only("files") /\ FsNext
  \/ Only("pool") /\ Pool!Next
  \/ Only("exits") /\ Exits!Next
  \/ Only("cache") /\ Cache!Next
  \/ Only("driver") /\ Driver!Next
  \/ Only("best") /\ Driver!SamplerNext
  \/ SearchStep
  \/ TesterStep

vars ==
  <<part, input, ringVars, stackVars, buf_, itemSize_, bag, parent_, weight_, classes,
    table, erased, dict, buckets, fsVars, pool_, freeQueue_, live, hasRegDelPool_, objects,
    pTrackerArray, pending, exiting, tracked, destroyed,
    in_use, free, tag, hit, miss, eviction, lastUse,
    trace, request, phase, mem_brk, ranges, blocks, block_sizes, memory, total_size,
    max_total_size, faults, values, samplecount, running, samples,
    fn, length, mem, val, begin, end, result, list, from, to, base,
    test_set, fixed, puzzle, at, cases, case, alarm, terrors, points, slow, stray>>

\* A function that is called runs on.
Spec == Init /\ [][Next]_vars /\ WF_vars(SearchStep) /\ WF_vars(TesterStep)

-------------------------------------------------------------------------------
(* Properties *)

\* Every sort sorts, shuffle() moves every element, the top of the priority queue
\* is its largest item, a table that is probed has room for a new key and keeps its
\* keys in place, the sieve finds the k-th prime, every search finds what its name says, both engines match the strings
\* the pattern's grammar gives it, the shell's words are those of its lines, the
\* puzzles are solved for the words tried, and type lists are edited, ordered and
\* dispatched over as their names promise; each with the exceptions that the
\* component's own properties state.
AlgorithmsAgree ==
  /\ part = "sort" =>
       /\ Sorts!SortsAgree(input) /\ Sorts!SizedSortsAgree(input)
       /\ (\A i \in DOMAIN input : Sorts!Key(input[i]) = 1) => Sorts!ShuffleIsCyclic(input)
  /\ part = "heap" => Heap!HoldsBag /\ Heap!TopIsLargest
  /\ part = "probing" => Probing!RoomForNewKey /\ Probing!KeysAreHeld /\ Probing!ExactUntilErase
  /\ part = "values" => \A k \in DOMAIN PrimeRange : Sorts!KthPrimeIsFound(k, PrimeRange[k])
  /\ part = "search" => Search!ResultIsRight
  /\ part = "regex" =>
       /\ input \in Patterns => Regexes!ParsesByGrammar(input)
       /\ \A parsed \in {Regexes!parse(input)} \ {Regexes!Abort} :
            Regexes!EnginesAgree(parsed.re, Strings) /\ Regexes!SearchIsLeftmost(parsed.re, Strings)
  /\ part = "lines" =>
       /\ Shell!LinesAreTheText(input)
       /\ input # <<>> => Shell!WordsAreTheLine(input)
  /\ part = "values" =>
       /\ Chain!HashIsOfTail(HashedStrings)
       /\ \A words \in WordLists : Shell!ReadAsWritten(words)
       /\ \A jobs \in SUBSET Jobs : Shell!JobIsNamed(jobs)
  /\ part = "bits" =>
       /\ Lab!PairTests(input[1], input[2])
       /\ input[1] = input[2] =>
            /\ Lab!WordTests(input[1]) /\ Lab!FloatTests(input[1]) /\ Lab!FloatTwiceTest(input[1])
            /\ \A n \in 0..31 : Lab!ShiftTests(input[1], n)
       /\ \A n \in {1, 5, 32} : Lab!PointerTests(input[1], input[2], n)
  /\ part = "types" =>
       TypeOps!ListsAreEdited /\ TypeOps!DerivedComesFirst
         /\ TypeOps!DispatchesToMostDerived /\ TypeOps!FieldsAreUnambiguous
         /\ TypeOps!FactoryMakesEach

\* The tools that judge others judge right: the driver refuses no trace without a
\* fault and accepts none with a payload that is misplaced, that has lost its data
\* or that has an end in another; the timer keeps the smallest of all samples; a
\* puzzle's points are earned, with values from the whole range.
ToolsAreExact ==
  /\ part = "driver" => Driver!RangesAreLive /\ Driver!FaultsAreCaught /\ Driver!HighWaterMark
  /\ part = "best" => Driver!HoldsKBest
  /\ part = "tester" => Lab!PointsAreEarned
  /\ part = "values" => Lab!ValuesAreOfRange /\ Lab!FloatRegionsAreTried

\* The searches end, of which FindFirstGT is left out, because it may spin; the test
\* of a set of puzzles comes to its total or crashes, though a puzzle may never
\* answer.
RunsEnd ==
  /\ part = "search" => Search!OthersEnd
  /\ part = "tester" => Lab!RunEnds
===============================================================================
