---------------------------- MODULE ArrayContainers ----------------------------
(***************************************************************************)
(* The two containers over an array that share nothing but their client.   *)
(*                                                                         *)
(* Queue: a ring of vecSize slots.  The items are in the slots (front_,    *)
(* rear_]; the two indices are equal when there is no item and when there  *)
(* are vecSize, and two flags tell which.                                  *)
(*                                                                         *)
(* Stack: an array that doubles when it is full and halves when a quarter  *)
(* of it is used.  pop() of the only item of an array of 1 place leaves 0  *)
(* places, and doubling 0 places gives 0: from then on every push() writes *)
(* outside of the array.  What is written there is not the stack's any     *)
(* more, and the model drops it.                                           *)
(***************************************************************************)
EXTENDS Integers, Sequences

-------------------------------------------------------------------------------
(* The ring *)

CONSTANTS RingItems, vecSize

ASSUME RingAssumption == vecSize \in Nat \ {0}

VARIABLES vec, front_, rear_, isEmpty_, isFull_

ringVars == <<vec, front_, rear_, isEmpty_, isFull_>>

Slots == 0..(vecSize - 1)

\* The slots start with what malloc left there.
RingInit ==
  /\ vec \in [Slots -> RingItems]
  /\ front_ = 0 /\ rear_ = 0
  /\ isEmpty_ = TRUE /\ isFull_ = FALSE

Next1(i) == (i + 1) % vecSize

\* enqueue(): a full ring is left alone.
enqueue(item) ==
  /\ ~isFull_
  /\ rear_' = Next1(rear_)
  /\ vec' = [vec EXCEPT ![rear_'] = item]
  /\ isEmpty_' = FALSE
  /\ isFull_' = (rear_' = front_)
  /\ UNCHANGED front_

\* dequeue(): an empty ring is left alone.
dequeue ==
  /\ ~isEmpty_
  /\ front_' = Next1(front_)
  /\ isFull_' = FALSE
  /\ isEmpty_' = (front_' = rear_)
  /\ UNCHANGED <<vec, rear_>>

RingNext == dequeue \/ \E item \in RingItems : enqueue(item)

RingSpec == RingInit /\ [][RingNext]_ringVars

front == vec[Next1(front_)]

RingTypeOK ==
  /\ vec \in [Slots -> RingItems]
  /\ front_ \in Slots /\ rear_ \in Slots
  /\ isEmpty_ \in BOOLEAN /\ isFull_ \in BOOLEAN

\* Equal indices mean empty or full, never both or neither; else the ring would
\* refuse items for ever, or overwrite those it holds.
FlagsTell == (front_ = rear_ <=> isEmpty_ \/ isFull_) /\ ~(isEmpty_ /\ isFull_)

Count ==
  IF isEmpty_ THEN 0 ELSE IF isFull_ THEN vecSize ELSE (rear_ - front_) % vecSize

\* The ring seen as a sequence is a first-in-first-out queue of vecSize places,
\* whatever number of times the indices went around.
Sequence == INSTANCE BoundedQueue
  WITH Items <- RingItems, items <- [i \in 1..Count |-> vec[(front_ + i) % vecSize]], Capacity <- vecSize
ImplementsQueue == Sequence!QSpec

-------------------------------------------------------------------------------
(* The stack *)

CONSTANTS StackItems,
          NewPlace,     \* what a new place holds
          MaxStack      \* bound on the number of items

VARIABLES stackSize,    \* vecSize
          stackVec,     \* the array
          usecount

stackVars == <<stackSize, stackVec, usecount>>

StackInit == stackSize = 1 /\ stackVec = <<NewPlace>> /\ usecount = 0

realloc(array, n) == [i \in 1..n |-> IF i \in DOMAIN array THEN array[i] ELSE NewPlace]

Stored(array, i, item) == [k \in DOMAIN array |-> IF k = i THEN item ELSE array[k]]

\* The size of an array of which used places are needed by a push().
Grown(used, size) == IF used > size THEN 2 * size ELSE size

\* The size of an array of which used places are used after a pop().
Shrunk(used, size) == IF used <= size \div 4 THEN size \div 2 ELSE size

push(item) ==
  /\ usecount < MaxStack
  /\ usecount' = usecount + 1
  /\ stackSize' = Grown(usecount', stackSize)
  /\ stackVec' = Stored(realloc(stackVec, stackSize'), usecount', item)

\* The caller does not pop an empty stack: the code has no guard.
pop ==
  /\ usecount > 0
  /\ usecount' = usecount - 1
  /\ stackSize' = Shrunk(usecount', stackSize)
  /\ stackVec' = realloc(stackVec, stackSize')

StackNext == pop \/ \E item \in StackItems : push(item)

StackSpec == StackInit /\ [][StackNext]_stackVars

\* The items are within the array, except in the one way the code leaves open:
\* an array of 0 places, which never grows again.
InBoundsUnlessLost == usecount <= stackSize \/ stackSize = 0

\* As long as the array is not lost, what is below the top survives every push()
\* and pop(), whether or not the array is moved.
ItemsSurvive ==
  [][stackSize' > 0 => \A i \in 1..usecount : i <= usecount' => stackVec'[i] = stackVec[i]]_stackVars
===============================================================================
