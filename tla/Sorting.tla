--------------------------------- MODULE Sorting ---------------------------------
(***************************************************************************)
(* BasicSort.hpp, Partition.hpp, Selection.hpp, sort.h, Shuffle.hpp and    *)
(* find_kth_prime.cpp as functions, most of them of sequences.  A loop is  *)
(* a recursive operator or a fold; iterators and byte addresses are        *)
(* indices, from 1 on.  An element is a number of which the last digit is  *)
(* not compared: it tells equal elements apart.  For sort.h, which takes   *)
(* elements of any size, it is a sequence of ints, of which cmp_fn compares*)
(* the first.                                                              *)
(***************************************************************************)
EXTENDS Integers, Sequences, SequencesExt, FiniteSets, TLC

CONSTANTS HeapBuilt,            \* 11 in the program
          INTRO_LEN_THRESHOLD,  \* 16 in the program
          DEPTH_LIMIT(_)        \* 2 * _lg(k) in the program

Key(x) == x \div 10
Less(x, y) == Key(x) < Key(y)

swap(a, i, j) == [a EXCEPT ![i] = a[j], ![j] = a[i]]
From(i, j) == [k \in 1..(j - i + 1) |-> i + k - 1]

-------------------------------------------------------------------------------
(* BasicSort.hpp *)

\* target moves down from i in steps of h to its place.
RECURSIVE Shift(_, _, _, _)
Shift(a, i, target, h) ==
  IF i - h >= 1 /\ Less(target, a[i - h])
  THEN Shift([a EXCEPT ![i] = a[i - h]], i - h, target, h)
  ELSE [a EXCEPT ![i] = target]

InsertAll(a, h) == FoldLeft(LAMBDA b, i : Shift(b, i, b[i], h), a, From(1 + h, Len(a)))

insertionSort(a) == InsertAll(a, 1)

SmallestFrom(a, i) ==
  FoldLeft(LAMBDA s, j : IF Less(a[j], a[s]) THEN j ELSE s, i, From(i + 1, Len(a)))
selectionSort(a) == FoldLeft(LAMBDA b, i : swap(b, i, SmallestFrom(b, i)), a, From(1, Len(a)))

RECURSIVE Gap(_, _), ShellFrom(_, _)
Gap(h, n) == IF h < n \div 3 THEN Gap(3 * h + 1, n) ELSE h
ShellFrom(a, h) == IF h >= 1 THEN ShellFrom(InsertAll(a, h), h \div 3) ELSE a

shellSort(a) == ShellFrom(a, Gap(1, Len(a)))

medianOfThree(a, b, m, e) ==
  IF Less(a[b], a[m])
  THEN IF Less(a[m], a[e]) THEN m ELSE IF Less(a[b], a[e]) THEN e ELSE b
  ELSE IF Less(a[b], a[e]) THEN b ELSE IF Less(a[m], a[e]) THEN e ELSE m

RECURSIVE DownWhileGreater(_, _, _, _), UpWhileLess(_, _, _, _), Holes(_, _, _, _)
DownWhileGreater(a, lo, hi, p) ==
  IF lo < hi /\ Less(p, a[hi]) THEN DownWhileGreater(a, lo, hi - 1, p) ELSE hi
UpWhileLess(a, lo, hi, p) ==
  IF lo < hi /\ Less(a[lo], p) THEN UpWhileLess(a, lo + 1, hi, p) ELSE lo

\* The loop that splits lo..hi around the value p, with a hole at lo.
Holes(a, lo, hi, p) ==
  IF lo >= hi THEN [arr |-> [a EXCEPT ![lo] = p], at |-> lo]
  ELSE LET h1 == DownWhileGreater(a, lo, hi, p)
           a1 == IF lo < h1 THEN [a EXCEPT ![lo] = a[h1]] ELSE a
           l1 == IF lo < h1 THEN lo + 1 ELSE lo
           l2 == UpWhileLess(a1, l1, h1, p)
           a2 == IF l2 < h1 THEN [a1 EXCEPT ![h1] = a1[l2]] ELSE a1
       IN Holes(a2, l2, IF l2 < h1 THEN h1 - 1 ELSE h1, p)

RECURSIVE QuickFrom(_, _, _)
QuickFrom(a, b, e) ==   \* [b, e)
  IF b >= e THEN a
  ELSE LET m == medianOfThree(a, b, b + (e - b) \div 2, e - 1)
           s == Holes([a EXCEPT ![m] = a[b]], b, e - 1, a[m])
       IN QuickFrom(QuickFrom(s.arr, b, s.at), s.at + 1, e)

quickSort(a) == QuickFrom(a, 1, Len(a) + 1)

\* Of equal elements the one of the right half is taken first.
RECURSIVE Merged(_, _)
Merged(s, t) ==
  IF s = <<>> THEN t ELSE IF t = <<>> THEN s
  ELSE IF Less(Head(s), Head(t)) THEN <<Head(s)>> \o Merged(Tail(s), t)
  ELSE <<Head(t)>> \o Merged(s, Tail(t))

\* Merges b..m and m+1..e-1, unless they are in order as they are.
merge(a, b, m, e) ==
  IF ~Less(a[m + 1], a[m]) THEN a
  ELSE SubSeq(a, 1, b - 1) \o Merged(SubSeq(a, b, m), SubSeq(a, m + 1, e - 1)) \o SubSeq(a, e, Len(a))

RECURSIVE MergeHelper(_, _, _)
MergeHelper(a, b, e) == \* [b, e]
  IF b >= e THEN a
  ELSE IF e - b + 1 <= 3
  THEN SubSeq(a, 1, b - 1) \o insertionSort(SubSeq(a, b, e)) \o SubSeq(a, e + 1, Len(a))
  ELSE LET m == b + (e - b) \div 2
       IN merge(MergeHelper(MergeHelper(a, b, m), m + 1, e), b, m, e + 1)

recursiveMergeSort(a) == MergeHelper(a, 1, Len(a))

RECURSIVE MergePass(_, _, _), MergePasses(_, _)
MergePass(a, lo, sz) ==
  LET n == Len(a)
      e == IF lo + 2 * sz < n THEN lo + 2 * sz ELSE n
  IN IF lo >= n - sz THEN a
     ELSE MergePass(merge(a, 1 + lo, lo + sz, 1 + e), lo + 2 * sz, sz)
MergePasses(a, sz) == IF sz < Len(a) THEN MergePasses(MergePass(a, 0, sz), 2 * sz) ELSE a

iterativeMergeSort(a) == MergePasses(a, 1)

-------------------------------------------------------------------------------
(* Partition.hpp and Selection.hpp *)

\* Elements of which the predicate is true go first.
RECURSIVE PartitionFrom(_, _, _, _), ThreeWayFrom(_, _, _, _, _)
PartitionFrom(a, lo, hi, pred) ==
  IF lo > hi THEN a
  ELSE IF pred[a[lo]] THEN PartitionFrom(a, lo + 1, hi, pred)
  ELSE PartitionFrom(swap(a, lo, hi), lo, hi - 1, pred)

partition(a, pred) == PartitionFrom(a, 1, Len(a), pred)

\* Elements with a positive value go first, then those with 0.
ThreeWayFrom(a, lo, mid, hi, pred) ==
  IF mid > hi THEN a
  ELSE IF pred[a[mid]] > 0 THEN ThreeWayFrom(swap(a, lo, mid), lo + 1, mid + 1, hi, pred)
  ELSE IF pred[a[mid]] = 0 THEN ThreeWayFrom(a, lo, mid + 1, hi, pred)
  ELSE ThreeWayFrom(swap(a, mid, hi), lo, mid, hi - 1, pred)

threeWayPartition(a, pred) == ThreeWayFrom(a, 1, 1, Len(a), pred)

RECURSIVE SelectFrom(_, _, _, _)
SelectFrom(a, b, e, k) ==       \* [b, e)
  IF b >= e THEN [arr |-> a, at |-> e]
  ELSE LET s == Holes(a, b, e - 1, a[b]) IN
       IF s.at - 1 = k THEN s
       ELSE IF s.at - 1 < k THEN SelectFrom(s.arr, s.at + 1, e, k)
       ELSE SelectFrom(s.arr, b, s.at, k)

\* The place of the element of rank k, from 0 on, in the rearranged array.
select(a, k) ==
  IF a = <<>> \/ Len(a) < k THEN [arr |-> a, at |-> Len(a) + 1] ELSE SelectFrom(a, 1, Len(a) + 1, k)

-------------------------------------------------------------------------------
(* sort.h, for elements of size ints.  Line 240, in heap_sort(), makes a   *)
(* heap of HeapBuilt ints whatever the length and the size are: ints that  *)
(* belong to one element of a larger size are torn apart.  Of elements of  *)
(* one int the result need not be sorted, but the insertion sort at the    *)
(* end of intro_sort() puts that right.  Failed stands for the assertion   *)
(* of line 46.                                                             *)

Failed == <<>>

cmp_fn(x, y) == Key(y[1]) - Key(x[1])

RECURSIVE Place(_, _, _)
Place(a, j, x) == IF cmp_fn(a[j], x) >= 0 THEN j + 1 ELSE Place(a, j - 1, x)

Moved(a, i, j) ==       \* the element at i is put at j
  SubSeq(a, 1, j - 1) \o <<a[i]>> \o SubSeq(a, j, i - 1) \o SubSeq(a, i + 1, Len(a))

ungarded_insert_sorted_arr(a, i) ==
  IF a = Failed \/ cmp_fn(a[1], a[i]) < 0 THEN Failed ELSE Moved(a, i, Place(a, i - 1, a[i]))

insert_sorted_arr(a, i) ==
  IF cmp_fn(a[1], a[i]) < 0 THEN Moved(a, i, 1) ELSE ungarded_insert_sorted_arr(a, i)

insertion_sort(a, n) == FoldLeft(insert_sorted_arr, a, From(2, n))

qsort_medianOf3(a, lo, mid, hi) ==
  IF cmp_fn(a[lo], a[mid]) >= 0
  THEN IF cmp_fn(a[mid], a[hi]) >= 0 THEN mid ELSE IF cmp_fn(a[lo], a[hi]) >= 0 THEN hi ELSE lo
  ELSE IF cmp_fn(a[mid], a[hi]) <= 0 THEN mid ELSE IF cmp_fn(a[lo], a[hi]) >= 0 THEN lo ELSE hi

\* |... less than ...|... equal ...|... not seen ...|... greater than ...|
RECURSIVE Split(_, _, _, _)
Split(a, lt, eq, gt) ==
  IF eq > gt THEN [arr |-> a, less |-> lt, greater |-> gt]
  ELSE LET c == cmp_fn(a[eq], a[lt]) IN
       IF c = 0 THEN Split(a, lt, eq + 1, gt)
       ELSE IF c < 0 THEN Split(swap(a, eq, gt), lt, eq, gt - 1)
       ELSE Split(swap(a, lt, eq), lt + 1, eq + 1, gt)

qsort_3_way_partition(a, lo, hi) ==
  LET p == qsort_medianOf3(a, lo, lo + (hi - lo) \div 2, hi)
  IN Split(swap(a, p, lo), lo, lo + 1, hi)

RECURSIVE quick_sort_from(_, _, _)
quick_sort_from(a, lo, hi) ==   \* [lo, hi]
  IF hi <= lo THEN a
  ELSE LET s == qsort_3_way_partition(a, lo, hi)
       IN quick_sort_from(quick_sort_from(s.arr, lo, s.less - 1), s.greater + 1, hi)

quick_sort(a) == quick_sort_from(a, 1, Len(a))

\* ele sinks from root, which counts from 0, in a heap of n elements.  It goes
\* on below its equals.
RECURSIVE sink_with_ele(_, _, _, _)
sink_with_ele(a, n, ele, root) ==
  LET left == 2 * root + 1
      c == IF left < n - 1 /\ cmp_fn(a[left + 1], a[left + 2]) > 0 THEN left + 1 ELSE left
  IN IF left >= n \/ cmp_fn(ele, a[c + 1]) < 0 THEN [a EXCEPT ![root + 1] = ele]
     ELSE sink_with_ele([a EXCEPT ![root + 1] = a[c + 1]], n, ele, c)

build_heap(a, n) ==
  IF n = 1 THEN a
  ELSE FoldLeft(LAMBDA b, k : sink_with_ele(b, n, b[k + 1], k), a, Reverse(From(0, (n - 2) \div 2)))

Extracted(a, n) == sink_with_ele([a EXCEPT ![n] = a[1]], n - 1, a[n], 0)

\* The array as elements of one int each, and those as elements of size ints.
AsInts(a) == FoldLeft(LAMBDA ints, x : Append(ints, <<x>>), <<>>, FlattenSeq(a))
AsElements(ints, size) ==
  FoldLeft(LAMBDA a, j : Append(a, FlattenSeq(SubSeq(ints, j * size + 1, (j + 1) * size))),
           <<>>, From(0, Len(ints) \div size - 1))

\* Defined for at least HeapBuilt ints: with less the code reads and writes
\* behind the array.
heap_sort(a, size) ==
  FoldLeft(Extracted, AsElements(build_heap(AsInts(a), HeapBuilt), size), Reverse(From(2, Len(a))))

RECURSIVE intro_qsort(_, _, _, _, _)
intro_qsort(a, lo, hi, size, depth) ==  \* [lo, hi]
  IF hi - lo + 1 <= INTRO_LEN_THRESHOLD THEN a
  ELSE IF depth = 0
  THEN SubSeq(a, 1, lo - 1) \o heap_sort(SubSeq(a, lo, hi), size) \o SubSeq(a, hi + 1, Len(a))
  ELSE LET s == qsort_3_way_partition(a, lo, hi)
       IN intro_qsort(intro_qsort(s.arr, lo, s.less - 1, size, depth - 1), s.greater + 1, hi, size, depth - 1)

intro_insert_sort(a) ==
  IF Len(a) > INTRO_LEN_THRESHOLD
  THEN FoldLeft(ungarded_insert_sorted_arr, insertion_sort(a, INTRO_LEN_THRESHOLD),
                From(INTRO_LEN_THRESHOLD + 1, Len(a)))
  ELSE insertion_sort(a, Len(a))

intro_sort(a, size) ==
  IF Len(a) = 1 THEN a ELSE intro_insert_sort(intro_qsort(a, 1, Len(a), size, DEPTH_LIMIT(Len(a))))

-------------------------------------------------------------------------------
(* Shuffle.hpp and find_kth_prime.cpp *)

\* What shuffle() may give: each element is swapped with one before it, never
\* with itself.
shuffle(a) ==
  FoldLeft(LAMBDA outcomes, i : UNION {{swap(s, i, j) : j \in 1..(i - 1)} : s \in outcomes},
           {a}, From(2, Len(a)))

\* The sieve: the multiples of a prime from its square on are no primes, and the
\* next number that is not struck out is the next prime.
findKthPrime(k, range) ==
  LET Struck(s) == s.notPrime \cup {i \in (s.prime * s.prime)..range : i % s.prime = 0}
      Round(s, count) ==
        LET free == ((s.prime + 1)..range) \ Struck(s)
        IN [notPrime |-> Struck(s),
            prime |-> IF free = {} THEN range + 1 ELSE CHOOSE p \in free : \A q \in free : p <= q]
  IN FoldLeft(Round, [notPrime |-> {}, prime |-> 2], From(1, k - 1)).prime

-------------------------------------------------------------------------------
(* Properties *)

\* Every outcome of shuffle() is one cycle through all elements, each as likely as
\* the others: no element stays where it was, and of n! arrangements all but
\* (n - 1)! never come.
ShuffleIsCyclic(a) ==
  LET PlaceOf(x) == CHOOSE i \in DOMAIN a : a[i] = x
      Reached[s \in shuffle(a), n \in 0..Len(a)] == IF n = 0 THEN 1 ELSE PlaceOf(s[Reached[s, n - 1]])
      Times[n \in 0..Len(a)] == IF n <= 1 THEN 1 ELSE (n - 1) * Times[n - 1]
  IN /\ \A s \in shuffle(a) : a # <<>> => {Reached[s, n] : n \in 1..Len(a)} = DOMAIN a
     /\ Cardinality(shuffle(a)) = Times[Len(a)]

\* The range of the sieve is large enough that the k-th prime is in it.
KthPrimeIsFound(k, range) ==
  LET p == findKthPrime(k, range)
      isPrime(n) == \A d \in 2..(n - 1) : n % d # 0
  IN p <= range /\ isPrime(p) /\ Cardinality({n \in 2..p : isPrime(n)}) = k

\* Every sort of BasicSort.hpp returns the elements in order, and insertionSort()
\* keeps equal ones in the order they came in.  The two merge sorts do not, against
\* the word "stable" at lines 146 and 229: merge() takes the element of the right
\* half first.  select() finds the element of each rank, and the partitions put
\* the elements on the right sides.
SortsAgree(a) ==
  LET stable == SortSeq(a, <)
      Rearranged(s) == Len(s) = Len(a) /\ ToSet(s) = ToSet(a)
      Sorted(s) == Rearranged(s) /\ \A i \in 1..(Len(s) - 1) : ~Less(s[i + 1], s[i])
      small == [x \in ToSet(a) |-> Key(x) < 2]
      balance == [x \in ToSet(a) |-> Key(x) - 2]
      parted == partition(a, small)
      threeWay == threeWayPartition(a, balance)
  IN
  /\ insertionSort(a) = stable
  /\ \A s \in {selectionSort(a), shellSort(a), quickSort(a), recursiveMergeSort(a),
               iterativeMergeSort(a)} : Sorted(s)
  /\ \A rank \in 0..(Len(a) - 1) :
       LET s == select(a, rank)
       IN Rearranged(s.arr) /\ s.at = rank + 1 /\ Key(s.arr[s.at]) = Key(stable[rank + 1])
  /\ Rearranged(parted) /\ Rearranged(threeWay)
  /\ \A i \in 1..(Len(a) - 1) : /\ small[parted[i + 1]] => small[parted[i]]
                              /\ LET sgn(x) == IF balance[x] > 0 THEN 1 ELSE IF balance[x] = 0 THEN 0 ELSE -1
                                 IN sgn(threeWay[i]) >= sgn(threeWay[i + 1])

\* insertion_sort() and quick_sort() sort elements of any size.  intro_sort() does
\* so for elements of one int, as those of sort.c, and for few larger ones.
\* heap_sort() sorts HeapBuilt elements of one int; else it returns them in some
\* order, and of larger ones not the elements but their ints (lines 238, 240).
SizedSortsAgree(a) ==
  LET one == FoldLeft(LAMBDA s, x : Append(s, <<x>>), <<>>, a)
      two == FoldLeft(LAMBDA s, x : Append(s, <<x, 100 - x>>), <<>>, a)
      stable(s) == SortSeq(s, LAMBDA x, y : x[1] < y[1])
      Rearranged(s, of) == Len(s) = Len(of) /\ ToSet(s) = ToSet(of)
      Sorted(s, of) == Rearranged(s, of) /\ \A i \in 1..(Len(s) - 1) : cmp_fn(s[i], s[i + 1]) >= 0
      ints(s) == SortSeq(FlattenSeq(s), <)
  IN
  /\ \A arr \in {one, two} : insertion_sort(arr, Len(a)) = stable(arr) /\ Sorted(quick_sort(arr), arr)
  /\ Sorted(intro_sort(one, 1), one)
  /\ Len(a) <= INTRO_LEN_THRESHOLD => Sorted(intro_sort(two, 2), two)
  /\ Len(a) >= HeapBuilt => Rearranged(heap_sort(one, 1), one)
  /\ Len(a) = HeapBuilt => Sorted(heap_sort(one, 1), one)
  /\ 2 * Len(a) >= HeapBuilt => ints(heap_sort(two, 2)) = ints(two)
===============================================================================
