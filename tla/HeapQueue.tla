------------------------------- MODULE HeapQueue -------------------------------
(***************************************************************************)
(* PriorityQueue: a binary heap in buf_[1..itemSize_], the largest item    *)
(* first.  pop() exchanges buf_[0] with the last item and lets buf_[0]     *)
(* sink: the first exchange takes the largest item out of the heap.        *)
(***************************************************************************)
EXTENDS Integers, Sequences, FiniteSets, Bags, TLC

CONSTANTS Priorities,   \* numbers
          MaxItems      \* bound on the items

VARIABLES buf_, itemSize_,
          bag           \* history: the items pushed and not popped

vars == <<buf_, itemSize_, bag>>

Garbage == -1           \* what realloc() left in new places

Init == buf_ = [i \in 0..0 |-> Garbage] /\ itemSize_ = 0 /\ bag = EmptyBag

bufSize_(b) == Cardinality(DOMAIN b)
realloc(b, n) == [i \in 0..(n - 1) |-> IF i \in DOMAIN b THEN b[i] ELSE Garbage]

swap(b, i, j) == [b EXCEPT ![i] = b[j], ![j] = b[i]]

RECURSIVE swimup(_, _)
swimup(b, k) ==
  IF k > 1 /\ b[k \div 2] < b[k] THEN swimup(swap(b, k, k \div 2), k \div 2) ELSE b

\* Item k is exchanged with the larger one of its children until none is larger.
\* Item 0 is its own left child.
RECURSIVE sinkdown(_, _, _)
sinkdown(b, n, k) ==
  LET j == IF 2 * k < n /\ b[2 * k] < b[2 * k + 1] THEN 2 * k + 1 ELSE 2 * k IN
  IF 2 * k > n \/ b[k] >= b[j] THEN b ELSE sinkdown(swap(b, k, j), n, j)

push(item) ==
  LET n == itemSize_ + 1
      b == IF n = bufSize_(buf_) THEN realloc(buf_, 2 * n + 1) ELSE buf_
  IN
  /\ itemSize_ < MaxItems
  /\ itemSize_' = n
  /\ buf_' = swimup([b EXCEPT ![n] = item], n)
  /\ bag' = bag (+) SetToBag({item})

top == buf_[1]

\* The caller does not pop an empty queue.
pop ==
  LET n == itemSize_ - 1
      b == sinkdown(swap(buf_, 0, itemSize_), n, 0)
  IN
  /\ itemSize_ > 0
  /\ itemSize_' = n
  /\ buf_' = IF n <= (bufSize_(b) - 1) \div 4 THEN realloc(b, bufSize_(b) \div 2) ELSE b
  /\ bag' = bag (-) SetToBag({top})

Next == pop \/ \E item \in Priorities : push(item)

-------------------------------------------------------------------------------
(* Properties *)

Items == [i \in 1..itemSize_ |-> buf_[i]]

\* The queue holds the items pushed and not popped, each as often as it was
\* pushed, and the assertion of push() and pop() holds: there is a place for the
\* next item.
HoldsBag ==
  /\ bag = [x \in {Items[i] : i \in DOMAIN Items} |-> Cardinality({i \in DOMAIN Items : Items[i] = x})]
  /\ itemSize_ < bufSize_(buf_)

\* The top is the largest item.
TopIsLargest == itemSize_ > 0 => \A x \in DOMAIN bag : x <= top
===============================================================================
