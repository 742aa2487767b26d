----------------------------- MODULE StructureProofs -----------------------------
(***************************************************************************)
(* Proofs about the data structures, each for every value of its constants.*)
(* They share nothing: each section has the invariant of one of them, the  *)
(* lemmas on what its operations do to it, and its theorems.               *)
(***************************************************************************)
EXTENDS Containers, SequencesExt, FiniteSetTheorems, SequenceTheorems, WellFoundedInduction, TLAPS

-------------------------------------------------------------------------------
(* The ring, of every size and for every set of items *)

\* What the remainder is for the sums and differences of two slots.
LEMMA Remainder ==
  ASSUME NEW k \in (-vecSize)..(2 * vecSize - 1)
  PROVE k % vecSize = IF k < 0 THEN k + vecSize ELSE IF k < vecSize THEN k ELSE k - vecSize
<1>1. vecSize \in Nat \ {0} /\ k \in Int
  BY RingAssumption
<1>2. CASE k < 0
  BY <1>1, <1>2
<1>3. CASE 0 <= k /\ k < vecSize
  BY <1>1, <1>3
<1>4. CASE vecSize <= k
  BY <1>1, <1>4
<1> QED
  BY <1>1, <1>2, <1>3, <1>4

LEMMA NextOfSlot ==
  ASSUME NEW k \in Slots
  PROVE Next1(k) = (IF k = vecSize - 1 THEN 0 ELSE k + 1) /\ Next1(k) \in Slots
<1>1. vecSize \in Nat \ {0} /\ k \in Int /\ k + 1 \in (-vecSize)..(2 * vecSize - 1)
  BY RingAssumption DEF Slots
<1> QED
  BY <1>1, Remainder DEF Next1, Slots

\* The inductive invariant: the flags tell what equal indices mean.
RInv == RingTypeOK /\ FlagsTell

LEMMA RingStarts == RingInit => RInv
<1> SUFFICES ASSUME RingInit PROVE RInv
  OBVIOUS
<1>1. 0 \in Slots
  BY RingAssumption DEF Slots
<1>2. RingTypeOK
  BY <1>1 DEF RingInit, RingTypeOK
<1>3. FlagsTell
  BY DEF RingInit, FlagsTell
<1> QED
  BY <1>2, <1>3 DEF RInv

LEMMA EnqueueKeeps ==
  ASSUME RInv, NEW item \in RingItems, enqueue(item)
  PROVE RInv'
<1> USE DEF RInv, RingTypeOK, FlagsTell, enqueue
<1>1. Next1(rear_) \in Slots
  BY NextOfSlot
<1>2. RingTypeOK'
  BY <1>1
<1>3. FlagsTell'
  BY <1>1
<1> QED
  BY <1>2, <1>3

LEMMA DequeueKeeps ==
  ASSUME RInv, dequeue
  PROVE RInv'
<1> USE DEF RInv, RingTypeOK, FlagsTell, dequeue
<1>1. Next1(front_) \in Slots
  BY NextOfSlot
<1>2. RingTypeOK'
  BY <1>1
<1>3. FlagsTell'
  BY <1>1
<1> QED
  BY <1>2, <1>3

LEMMA RingKeeps == RInv /\ [RingNext]_ringVars => RInv'
<1> SUFFICES ASSUME RInv, [RingNext]_ringVars PROVE RInv'
  OBVIOUS
<1>1. CASE dequeue
  BY <1>1, DequeueKeeps
<1>2. ASSUME NEW item \in RingItems, enqueue(item) PROVE RInv'
  BY <1>2, EnqueueKeeps
<1>3. CASE UNCHANGED ringVars
  BY <1>3 DEF RInv, RingTypeOK, FlagsTell, ringVars
<1> QED
  BY <1>1, <1>2, <1>3 DEF RingNext

\* Queue: the two indices stay in the array, and are equal only when the ring is
\* empty or full, of which its flags say the one that holds.
THEOREM RingIsTold == RingSpec => [](RingTypeOK /\ FlagsTell)
<1>1. RInv => RingTypeOK /\ FlagsTell
  BY DEF RInv
<1> QED
  BY RingStarts, RingKeeps, <1>1, PTL DEF RingSpec

-------------------------------------------------------------------------------
(* The ring implements the queue *)

\* The place of the i-th item behind f.
Place(f, i) == IF f + i < vecSize THEN f + i ELSE f + i - vecSize

\* The items end at rear_, and the flags are about their number.
CountFacts ==
  /\ Count \in 0..vecSize
  /\ (isEmpty_ <=> Count = 0) /\ (isFull_ <=> Count = vecSize)
  /\ rear_ = Place(front_, Count)

LEMMA CountIs == RInv => CountFacts
<1> SUFFICES ASSUME RInv PROVE CountFacts
  OBVIOUS
<1> USE DEF CountFacts, Place
<1>1. vecSize \in Nat \ {0} /\ front_ \in 0..(vecSize - 1) /\ rear_ \in 0..(vecSize - 1)
  BY RingAssumption DEF RInv, RingTypeOK, Slots
<1>2. (front_ = rear_ <=> isEmpty_ \/ isFull_) /\ ~(isEmpty_ /\ isFull_) /\ isEmpty_ \in BOOLEAN /\ isFull_ \in BOOLEAN
  BY DEF RInv, RingTypeOK, FlagsTell
<1>3. CASE isEmpty_
  <2>1. Count = 0 /\ front_ = rear_ /\ ~isFull_
    BY <1>2, <1>3 DEF Count
  <2> QED
    BY <1>1, <1>3, <2>1
<1>4. CASE ~isEmpty_ /\ isFull_
  <2>1. Count = vecSize /\ front_ = rear_
    BY <1>2, <1>4 DEF Count
  <2> QED
    BY <1>1, <1>4, <2>1
<1>5. CASE ~isEmpty_ /\ ~isFull_
  <2>1. Count = (rear_ - front_) % vecSize /\ front_ # rear_
    BY <1>2, <1>5 DEF Count
  <2>2. rear_ - front_ \in (-vecSize)..(2 * vecSize - 1)
    BY <1>1
  <2>3. Count = IF rear_ - front_ < 0 THEN rear_ - front_ + vecSize ELSE rear_ - front_
    BY <1>1, <2>1, <2>2, Remainder
  <2> QED
    BY <1>1, <1>5, <2>1, <2>3
<1> QED
  BY <1>3, <1>4, <1>5

Contents == [i \in 1..Count |-> vec[(front_ + i) % vecSize]]

LEMMA PlaceIs ==
  ASSUME NEW f \in Slots, NEW i \in 0..vecSize
  PROVE (f + i) % vecSize = Place(f, i) /\ Place(f, i) \in Slots
<1>1. vecSize \in Nat \ {0} /\ f \in 0..(vecSize - 1) /\ f + i \in (-vecSize)..(2 * vecSize - 1)
  BY RingAssumption DEF Slots
<1> QED
  BY <1>1, Remainder DEF Slots, Place

ContentsFacts ==
  /\ Contents \in Seq(RingItems) /\ Len(Contents) = Count
  /\ \A i \in 1..Count : Contents[i] = vec[Place(front_, i)]

LEMMA ContentsAre == RInv => ContentsFacts
<1> SUFFICES ASSUME RInv PROVE ContentsFacts
  OBVIOUS
<1>1. Count \in Nat /\ 1..Count \subseteq 0..vecSize
  BY CountIs, RingAssumption DEF CountFacts
<1>2. \A i \in 1..Count : vec[(front_ + i) % vecSize] = vec[Place(front_, i)] /\ vec[Place(front_, i)] \in RingItems
  BY <1>1, PlaceIs DEF RInv, RingTypeOK
<1> QED
  BY <1>1, <1>2 DEF Contents, ContentsFacts

\* So are they in the next state.
LEMMA NextFacts == RInv' => CountFacts' /\ ContentsFacts'
  BY CountIs, ContentsAre, PTL

\* Two sequences of which one has an item more at its end, or at its beginning.
LEMMA AppendIs ==
  ASSUME NEW S, NEW s \in Seq(S), NEW t \in Seq(S), Len(t) = Len(s) + 1,
         \A i \in 1..Len(s) : t[i] = s[i]
  PROVE t = Append(s, t[Len(t)])
  OBVIOUS

LEMMA TailIs ==
  ASSUME NEW S, NEW s \in Seq(S), NEW t \in Seq(S), Len(s) = Len(t) + 1,
         \A i \in 1..Len(t) : t[i] = s[i + 1]
  PROVE t = Tail(s) /\ s # <<>>
  OBVIOUS

\* An index that moves on by one makes the number one more or one less.
LEMMA OneMore ==
  ASSUME NEW f \in Slots, NEW c \in 0..(vecSize - 1), NEW d \in 1..vecSize,
         Place(f, d) = Next1(Place(f, c))
  PROVE d = c + 1
<1>1. vecSize \in Nat \ {0} /\ f \in 0..(vecSize - 1)
  BY RingAssumption DEF Slots
<1>2. Place(f, c) \in Slots /\ Place(f, c) \in Int
  BY <1>1 DEF Place, Slots
<1>3. Place(f, d) = IF Place(f, c) = vecSize - 1 THEN 0 ELSE Place(f, c) + 1
  BY <1>2, NextOfSlot
<1> QED
  BY <1>1, <1>3 DEF Place

LEMMA OneLess ==
  ASSUME NEW f \in Slots, NEW c \in 1..vecSize, NEW d \in 0..(vecSize - 1),
         Place(f, c) = Place(Next1(f), d)
  PROVE c = d + 1
<1>1. vecSize \in Nat \ {0} /\ f \in 0..(vecSize - 1)
  BY RingAssumption DEF Slots
<1>2. Next1(f) = IF f = vecSize - 1 THEN 0 ELSE f + 1
  BY NextOfSlot
<1>3. CASE f = vecSize - 1
  BY <1>1, <1>2, <1>3 DEF Place
<1>4. CASE f # vecSize - 1
  BY <1>1, <1>2, <1>4 DEF Place
<1> QED
  BY <1>3, <1>4

LEMMA OneUp ==
  ASSUME NEW n \in Nat \ {0}, NEW c \in 1..n, NEW d \in 0..(n - 1), c = d + 1, NEW i \in 1..d
  PROVE i + 1 \in 1..c
  OBVIOUS

LEMMA EnqueuePuts ==
  ASSUME RInv, NEW item \in RingItems, enqueue(item)
  PROVE Len(Contents) < vecSize /\ Contents' = Append(Contents, item)
<1>1. CountFacts /\ ContentsFacts /\ CountFacts' /\ ContentsFacts'
  BY EnqueueKeeps, NextFacts, CountIs, ContentsAre
<1>2. vecSize \in Nat \ {0} /\ front_ \in 0..(vecSize - 1) /\ rear_ \in 0..(vecSize - 1)
  BY RingAssumption DEF RInv, RingTypeOK, Slots
<1>3. rear_' = (IF rear_ = vecSize - 1 THEN 0 ELSE rear_ + 1) /\ rear_' \in Slots
  BY NextOfSlot DEF enqueue, RInv, RingTypeOK
<1>4. Count \in 0..(vecSize - 1) /\ Count' \in 1..vecSize
  BY <1>1, <1>2 DEF CountFacts, enqueue
<1>5. Count' = Count + 1
  <2>1. Place(front_, Count') = Next1(Place(front_, Count))
    BY <1>1 DEF CountFacts, enqueue
  <2>2. front_ \in Slots
    BY DEF RInv, RingTypeOK
  <2> QED
    BY <1>4, <2>1, <2>2, OneMore, Zenon
<1>6. \A i \in 1..Count : Place(front_, i) # rear_' /\ Place(front_, i) \in Slots
  BY <1>1, <1>2, <1>3, <1>4 DEF CountFacts, Place, Slots
<1>7. Place(front_, Count') = rear_'
  BY <1>1, <1>2, <1>3, <1>4, <1>5 DEF CountFacts, Place
<1>8. front_' = front_ /\ vec' = [vec EXCEPT ![rear_'] = item] /\ vec \in [Slots -> RingItems]
  BY DEF enqueue, RInv, RingTypeOK
<1>9. \A i \in 1..Count' : Contents'[i] = vec'[Place(front_', i)]
  BY <1>1 DEF ContentsFacts, Place
<1>10. \A i \in 1..Count : Contents'[i] = Contents[i]
  BY <1>1, <1>4, <1>5, <1>6, <1>8, <1>9 DEF ContentsFacts
<1>11. Contents'[Count'] = item
  BY <1>3, <1>4, <1>7, <1>8, <1>9
<1>12. /\ Contents \in Seq(RingItems) /\ Contents' \in Seq(RingItems)
       /\ Len(Contents) = Count /\ Len(Contents') = Count'
  BY <1>1 DEF ContentsFacts
<1>13. Contents' = Append(Contents, Contents'[Len(Contents')])
  BY <1>5, <1>10, <1>12, AppendIs
<1> QED
  BY <1>2, <1>4, <1>11, <1>12, <1>13

LEMMA DequeueTakes ==
  ASSUME RInv, dequeue
  PROVE Contents # <<>> /\ Contents' = Tail(Contents)
<1>1. CountFacts /\ ContentsFacts /\ CountFacts' /\ ContentsFacts'
  BY DequeueKeeps, NextFacts, CountIs, ContentsAre
<1>2. vecSize \in Nat \ {0} /\ front_ \in 0..(vecSize - 1) /\ rear_ \in 0..(vecSize - 1)
  BY RingAssumption DEF RInv, RingTypeOK, Slots
<1>3. front_' = (IF front_ = vecSize - 1 THEN 0 ELSE front_ + 1)
  BY NextOfSlot DEF dequeue, RInv, RingTypeOK
<1>4. Count \in 1..vecSize /\ Count' \in 0..(vecSize - 1)
  BY <1>1, <1>2 DEF CountFacts, dequeue
<1>5. Count = Count' + 1
  <2>1. Place(front_, Count) = Place(Next1(front_), Count')
    BY <1>1 DEF CountFacts, dequeue
  <2>2. front_ \in Slots
    BY DEF RInv, RingTypeOK
  <2> QED
    BY <1>4, <2>1, <2>2, OneLess, Zenon
<1>6. \A i \in 1..Count' : Place(front_', i) = Place(front_, i + 1)
  BY <1>2, <1>3, <1>4 DEF Place
<1>7. \A i \in 1..Count' : Contents'[i] = vec'[Place(front_', i)]
  BY <1>1 DEF ContentsFacts, Place
<1>8. ASSUME NEW i \in 1..Count' PROVE Contents'[i] = Contents[i + 1]
  <2>1. i + 1 \in 1..Count
    BY <1>2, <1>4, <1>5, OneUp, Zenon
  <2>2. Contents[i + 1] = vec[Place(front_, i + 1)]
    BY <1>1, <2>1 DEF ContentsFacts
  <2>3. vec' = vec
    BY DEF dequeue
  <2> QED
    BY <1>6, <1>7, <2>2, <2>3
<1>9. /\ Contents \in Seq(RingItems) /\ Contents' \in Seq(RingItems)
      /\ Len(Contents) = Count /\ Len(Contents') = Count'
  BY <1>1 DEF ContentsFacts
<1> QED
  BY <1>5, <1>8, <1>9, TailIs

\* Queue: whatever is put into the ring and taken out, however often the indices
\* go around, it is a first-in-first-out queue of vecSize places.
THEOREM RingImplementsQueue == RingSpec => ImplementsQueue
<1>1. RingInit => Sequence!QInit
  <2> SUFFICES ASSUME RingInit PROVE Contents = <<>>
    BY DEF Sequence!QInit, Contents
  <2>1. Count = 0
    BY DEF RingInit, Count
  <2>2. ContentsFacts
    BY RingStarts, ContentsAre
  <2> QED
    BY <2>1, <2>2 DEF ContentsFacts
<1>2. RInv /\ [RingNext]_ringVars => [Sequence!QNext]_Contents
  <2> SUFFICES ASSUME RInv, [RingNext]_ringVars PROVE [Sequence!QNext]_Contents
    OBVIOUS
  <2>1. CASE dequeue
    BY <2>1, DequeueTakes DEF Sequence!QNext, Sequence!Take, Contents
  <2>2. ASSUME NEW item \in RingItems, enqueue(item) PROVE [Sequence!QNext]_Contents
    BY <2>2, EnqueuePuts DEF Sequence!QNext, Sequence!Put, Contents
  <2>3. CASE UNCHANGED ringVars
    BY <2>3 DEF ringVars, Contents, Count
  <2> QED
    BY <2>1, <2>2, <2>3 DEF RingNext
<1> QED
  BY RingStarts, RingKeeps, <1>1, <1>2, PTL DEF RingSpec, ImplementsQueue, Sequence!QSpec, Contents

-------------------------------------------------------------------------------
(* The stack, for every set of items and whatever a new place holds *)

\* The inductive invariant: the items are in the array, or its size is 0.
SInv ==
  /\ stackSize \in Nat /\ usecount \in Nat
  /\ DOMAIN stackVec = 1..stackSize
  /\ InBoundsUnlessLost

LEMMA StackStarts == StackInit => SInv
  BY DEF StackInit, SInv, InBoundsUnlessLost

\* What is in the part of an array that stays is there afterwards.
LEMMA ReallocKeeps ==
  ASSUME NEW v, NEW n \in Nat
  PROVE /\ DOMAIN realloc(v, n) = 1..n
        /\ \A i \in 1..n : i \in DOMAIN v => realloc(v, n)[i] = v[i]
  BY DEF realloc

LEMMA StoredKeeps ==
  ASSUME NEW v, NEW k, NEW item
  PROVE /\ DOMAIN Stored(v, k, item) = DOMAIN v
        /\ \A i \in DOMAIN v : i # k => Stored(v, k, item)[i] = v[i]
  BY DEF Stored

\* An array of which a quarter or less is used is halved, and its items fit.
LEMMA StackKeeps == SInv /\ [StackNext]_stackVars => SInv'
<1> SUFFICES ASSUME SInv, [StackNext]_stackVars PROVE SInv'
  OBVIOUS
<1>1. CASE pop
  <2>1. stackSize' \in Nat /\ usecount' \in Nat /\ InBoundsUnlessLost'
    BY <1>1 DEF pop, SInv, InBoundsUnlessLost, Shrunk
  <2>2. DOMAIN stackVec' = 1..stackSize'
    BY <1>1, <2>1, ReallocKeeps DEF pop
  <2> QED
    BY <2>1, <2>2 DEF SInv
<1>2. ASSUME NEW item \in StackItems, push(item) PROVE SInv'
  <2>1. stackSize' \in Nat /\ usecount' \in Nat /\ InBoundsUnlessLost'
    BY <1>2 DEF push, SInv, InBoundsUnlessLost, Grown
  <2>2. DOMAIN stackVec' = 1..stackSize'
    BY <1>2, <2>1, ReallocKeeps, StoredKeeps DEF push
  <2> QED
    BY <2>1, <2>2 DEF SInv
<1>3. CASE UNCHANGED stackVars
  BY <1>3 DEF stackVars, SInv, InBoundsUnlessLost
<1> QED
  BY <1>1, <1>2, <1>3 DEF StackNext

\* Stack: whatever is pushed and popped, the items are in the array unless it has
\* shrunk to nothing.
THEOREM StackInBounds == StackSpec => []InBoundsUnlessLost
<1>1. SInv => InBoundsUnlessLost
  BY DEF SInv
<1> QED
  BY StackStarts, StackKeeps, <1>1, PTL DEF StackSpec

\* Stack: as long as there is an array, what is below the top survives every
\* push() and pop(), though the array is moved.
THEOREM StackItemsSurvive == StackSpec => ItemsSurvive
<1> DEFINE Survive == stackSize' > 0 => \A i \in 1..usecount : i <= usecount' => stackVec'[i] = stackVec[i]
<1>1. SInv /\ SInv' /\ [StackNext]_stackVars => [Survive]_stackVars
  <2> SUFFICES ASSUME SInv, SInv', StackNext, stackSize' > 0, NEW i \in 1..usecount, i <= usecount'
               PROVE stackVec'[i] = stackVec[i]
    OBVIOUS
  <2>1. usecount \in Nat /\ stackSize \in Nat /\ stackSize' \in Nat /\ i \in Nat
    BY DEF SInv
  <2>2. i \in 1..stackSize'
    BY <2>1 DEF SInv, InBoundsUnlessLost
  <2>3. CASE pop
    <3>1. stackSize > 0
      BY <2>1, <2>3 DEF pop, Shrunk
    <3>2. i \in DOMAIN stackVec
      BY <2>1, <3>1 DEF SInv, InBoundsUnlessLost
    <3> QED
      BY <2>1, <2>2, <2>3, <3>2, ReallocKeeps DEF pop
  <2>4. ASSUME NEW item \in StackItems, push(item) PROVE stackVec'[i] = stackVec[i]
    <3>1. stackSize > 0
      BY <2>1, <2>4 DEF push, Grown
    <3>2. i \in DOMAIN stackVec
      BY <2>1, <3>1 DEF SInv, InBoundsUnlessLost
    <3>3. usecount' = usecount + 1 /\ i # usecount'
      BY <2>1, <2>4 DEF push
    <3>4. stackVec' = Stored(realloc(stackVec, stackSize'), usecount', item)
      BY <2>4 DEF push
    <3>5. realloc(stackVec, stackSize')[i] = stackVec[i] /\ i \in DOMAIN realloc(stackVec, stackSize')
      BY <2>1, <2>2, <3>2, ReallocKeeps
    <3> QED
      BY <3>3, <3>4, <3>5, StoredKeeps
  <2> QED
    BY <2>3, <2>4 DEF StackNext
<1> QED
  BY StackStarts, StackKeeps, <1>1, PTL DEF StackSpec, ItemsSurvive

-------------------------------------------------------------------------------
(* The hash map of lists, for every number of buckets and all keys and values *)

Buckets == 0..(bucketSize - 1)
Nodes == [k : Keys, v : Values]

UniqueKeys(list) == \A i, j \in DOMAIN list : list[i].k = list[j].k => i = j

Among(n, list) == \E i \in DOMAIN list : list[i] = n

\* Each key is in its own bucket, and once.
InPlace(B) ==
  \A b \in Buckets : UniqueKeys(B[b]) /\ \A i \in DOMAIN B[b] : Chain!hash(B[b][i].k) = b

\* The inductive invariant: in addition, the lists are lists of nodes.
ChainInv == buckets \in [Buckets -> Seq(Nodes)] /\ InPlace(buckets)

LEMMA BucketOfKey ==
  ASSUME HashesAreNumbers, NEW k \in Keys
  PROVE  Chain!hash(k) \in Buckets
BY DEF HashesAreNumbers, Chain!hash, Buckets

\* findNodeByKey() finds the one node with the key, or none.
LEMMA PlaceFinds ==
  ASSUME NEW list \in Seq(Nodes), UniqueKeys(list), NEW k
  PROVE  \/ /\ Chain!Place(list, k) \in DOMAIN list /\ Chain!Place(list, k) # 0
            /\ list[Chain!Place(list, k)].k = k
         \/ Chain!Place(list, k) = 0 /\ \A i \in DOMAIN list : list[i].k # k
<1>1. CASE \E i \in DOMAIN list : list[i].k = k
  <2>1. PICK i \in DOMAIN list : list[i].k = k
    BY <1>1
  <2>2. DOMAIN list = 1..Len(list) /\ Len(list) \in Nat
    OBVIOUS
  <2>3. \A j \in 1..(i - 1) : list[j].k # k
    BY <2>1, <2>2 DEF UniqueKeys
  <2>4. Chain!Place(list, k) \in DOMAIN list /\ list[Chain!Place(list, k)].k = k
    BY <1>1, <2>1, <2>3 DEF Chain!Place
  <2> QED
    BY <2>2, <2>4
<1>2. CASE ~\E i \in DOMAIN list : list[i].k = k
  BY <1>2 DEF Chain!Place
<1> QED
  BY <1>1, <1>2

\* A node put at the head of a list, a value changed, and a node taken out.
LEMMA NodePut ==
  ASSUME NEW list \in Seq(Nodes), UniqueKeys(list), NEW n \in Nodes,
         \A i \in DOMAIN list : list[i].k # n.k,
         NEW new, new = <<n>> \o list
  PROVE  /\ new \in Seq(Nodes) /\ UniqueKeys(new)
         /\ \A m : Among(m, new) <=> m = n \/ Among(m, list)
<1>1. new \in Seq(Nodes) /\ Len(new) = Len(list) + 1 /\ Len(list) \in Nat
        /\ DOMAIN new = 1..(Len(list) + 1) /\ DOMAIN list = 1..Len(list)
  OBVIOUS
<1>2. new[1] = n /\ \A i \in 1..Len(list) : new[i + 1] = list[i]
  OBVIOUS
<1>3. \A i \in DOMAIN new : i = 1 \/ (i - 1 \in DOMAIN list /\ new[i] = list[i - 1])
  BY <1>1, <1>2
<1>4. UniqueKeys(new)
  BY <1>1, <1>2, <1>3 DEF UniqueKeys
<1>5. ASSUME NEW m
      PROVE  Among(m, new) <=> m = n \/ Among(m, list)
  <2>1. ASSUME NEW i \in DOMAIN list PROVE i + 1 \in DOMAIN new /\ new[i + 1] = list[i]
    BY <1>1, <1>2
  <2>2. 1 \in DOMAIN new /\ new[1] = n
    BY <1>1, <1>2
  <2>3. ASSUME NEW i \in DOMAIN new, i # 1
        PROVE  i - 1 \in DOMAIN list /\ new[i] = list[i - 1]
    BY <1>3, <2>3
  <2>4. Among(m, new) => m = n \/ Among(m, list)
    BY <2>2, <2>3 DEF Among
  <2>5. m = n \/ Among(m, list) => Among(m, new)
    BY <2>1, <2>2 DEF Among
  <2> QED
    BY <2>4, <2>5
<1> QED
  BY <1>1, <1>4, <1>5

LEMMA ValueSet ==
  ASSUME NEW list \in Seq(Nodes), UniqueKeys(list), NEW p \in DOMAIN list,
         NEW n \in Nodes, n.k = list[p].k, NEW new, new = [list EXCEPT ![p] = n]
  PROVE  /\ new \in Seq(Nodes) /\ UniqueKeys(new)
         /\ \A m : Among(m, new) <=> m = n \/ (m # list[p] /\ Among(m, list))
<1>1. DOMAIN list = 1..Len(list) /\ Len(list) \in Nat /\ \A i \in DOMAIN list : list[i] \in Nodes
  OBVIOUS
<1>2. DOMAIN new = DOMAIN list /\ \A i \in DOMAIN list : new[i] = IF i = p THEN n ELSE list[i]
  OBVIOUS
<1>3. new \in Seq(Nodes)
  <2>1. new \in [1..Len(list) -> Nodes]
    BY <1>1, <1>2
  <2> QED
    BY <1>1, <2>1
<1>4. \A i \in DOMAIN list : new[i].k = list[i].k
  BY <1>2
<1>5. UniqueKeys(new)
  BY <1>2, <1>4 DEF UniqueKeys
<1>6. \A i \in DOMAIN list : list[i] = list[p] => i = p
  BY DEF UniqueKeys
<1> QED
  BY <1>2, <1>3, <1>5, <1>6 DEF Among

LEMMA Joined ==
  ASSUME NEW S, NEW a \in Seq(S), NEW b \in Seq(S), NEW new, new = a \o b
  PROVE  /\ new \in Seq(S) /\ Len(new) = Len(a) + Len(b)
         /\ \A i \in 1..(Len(a) + Len(b)) :
              new[i] = IF i <= Len(a) THEN a[i] ELSE b[i - Len(a)]
OBVIOUS

\* What is left of a list when one place is taken out of it.
Without(list, p) == SubSeq(list, 1, p - 1) \o SubSeq(list, p + 1, Len(list))

LEMMA ItemTaken ==
  ASSUME NEW S, NEW list \in Seq(S), NEW p \in DOMAIN list
  PROVE  /\ Without(list, p) \in Seq(S) /\ Len(Without(list, p)) = Len(list) - 1
         /\ \A i \in 1..(Len(list) - 1) : Without(list, p)[i] = IF i < p THEN list[i] ELSE list[i + 1]
<1>1. /\ DOMAIN list = 1..Len(list) /\ Len(list) \in Nat /\ \A i \in DOMAIN list : list[i] \in S
  OBVIOUS
<1>2. PICK new : new = Without(list, p)
  OBVIOUS
<1>3. PICK before : before = SubSeq(list, 1, p - 1)
  OBVIOUS
<1>4. PICK behind : behind = SubSeq(list, p + 1, Len(list))
  OBVIOUS
<1>5. new = before \o behind
  BY <1>3, <1>4, <1>2 DEF Without
<1>6. /\ before \in Seq(S) /\ Len(before) = p - 1
      /\ \A i \in 1..(p - 1) : before[i] = list[i]
  <2>1. /\ 1 \in Int /\ p - 1 \in Int /\ \A i \in 1..(p - 1) : list[i] \in S
    BY <1>1
  <2>2. /\ SubSeq(list, 1, p - 1) \in Seq(S)
        /\ Len(SubSeq(list, 1, p - 1)) = IF 1 <= p - 1 THEN p - 1 - 1 + 1 ELSE 0
        /\ \A i \in 1..(p - 1 - 1 + 1) : SubSeq(list, 1, p - 1)[i] = list[1 + i - 1]
    BY <2>1, SubSeqProperties
  <2> QED
    BY <1>1, <1>3, <2>2
<1>7. /\ behind \in Seq(S) /\ Len(behind) = Len(list) - p
      /\ \A i \in 1..(Len(list) - p) : behind[i] = list[i + p]
  <2>1. /\ p + 1 \in Int /\ Len(list) \in Int /\ \A i \in (p + 1)..Len(list) : list[i] \in S
    BY <1>1
  <2>2. /\ SubSeq(list, p + 1, Len(list)) \in Seq(S)
        /\ Len(SubSeq(list, p + 1, Len(list))) = IF p + 1 <= Len(list) THEN Len(list) - (p + 1) + 1 ELSE 0
        /\ \A i \in 1..(Len(list) - (p + 1) + 1) : SubSeq(list, p + 1, Len(list))[i] = list[p + 1 + i - 1]
    BY <2>1, SubSeqProperties
  <2> QED
    BY <1>1, <1>4, <2>2
<1>8. /\ new \in Seq(S) /\ Len(new) = Len(before) + Len(behind)
      /\ \A i \in 1..(Len(before) + Len(behind)) :
           new[i] = IF i <= Len(before) THEN before[i] ELSE behind[i - Len(before)]
  <2>1. before \in Seq(S) /\ behind \in Seq(S)
    BY <1>6, <1>7
  <2> QED
    BY <1>5, <2>1, Joined
<1>9. new \in Seq(S) /\ Len(new) = Len(list) - 1 /\ DOMAIN new = 1..(Len(list) - 1)
  <2>1. DOMAIN new = 1..Len(new)
    BY <1>8
  <2>2. Len(new) = Len(list) - 1
    <3>1. Len(new) = (p - 1) + (Len(list) - p)
      BY <1>6, <1>7, <1>8
    <3>2. (p - 1) + (Len(list) - p) = Len(list) - 1
      BY <1>1
    <3> QED
      BY <3>1, <3>2
  <2> QED
    BY <1>8, <2>1, <2>2
<1>10. \A i \in 1..(Len(list) - 1) : new[i] = IF i < p THEN list[i] ELSE list[i + 1]
  <2> SUFFICES ASSUME NEW i \in 1..(Len(list) - 1)
               PROVE  new[i] = IF i < p THEN list[i] ELSE list[i + 1]
    OBVIOUS
  <2>1. i \in 1..(Len(before) + Len(behind)) /\ Len(before) = p - 1
    <3>1. Len(before) + Len(behind) = Len(list) - 1
      BY <1>9, <1>8
    <3> QED
      BY <1>6, <3>1
  <2>2. new[i] = IF i <= p - 1 THEN before[i] ELSE behind[i - (p - 1)]
    BY <1>8, <2>1
  <2>3. CASE i < p
    <3>1. i \in 1..(p - 1) /\ i <= p - 1
      BY <1>1, <2>3
    <3> QED
      BY <1>6, <2>2, <2>3, <3>1
  <2>4. CASE ~(i < p)
    <3>1. /\ i - (p - 1) \in 1..(Len(list) - p) /\ ~(i <= p - 1) /\ i - (p - 1) + p = i + 1
      BY <1>1, <2>4
    <3>2. new[i] = behind[i - (p - 1)]
      BY <2>2, <3>1, Zenon
    <3>3. behind[i - (p - 1)] = list[i - (p - 1) + p]
      BY <1>7, <3>1, Zenon
    <3> QED
      BY <2>4, <3>1, <3>2, <3>3, Zenon
  <2> QED
    BY <2>3, <2>4
<1> QED
  BY <1>9, <1>10, <1>2

LEMMA NodeTaken ==
  ASSUME NEW list \in Seq(Nodes), UniqueKeys(list), NEW p \in DOMAIN list,
         NEW new, new = Chain!RemoveAt(list, p)
  PROVE  /\ new \in Seq(Nodes) /\ UniqueKeys(new)
         /\ \A m : Among(m, new) <=> m # list[p] /\ Among(m, list)
<1>1. /\ DOMAIN list = 1..Len(list) /\ Len(list) \in Nat /\ \A i \in DOMAIN list : list[i] \in Nodes
  OBVIOUS
<1>2. new = Without(list, p)
  BY DEF Chain!RemoveAt, Without
<1>3. /\ new \in Seq(Nodes) /\ Len(new) = Len(list) - 1
      /\ \A i \in 1..(Len(list) - 1) : new[i] = IF i < p THEN list[i] ELSE list[i + 1]
  BY <1>2, ItemTaken
<1>4. new \in Seq(Nodes) /\ Len(new) = Len(list) - 1 /\ DOMAIN new = 1..(Len(list) - 1)
  BY <1>3
<1>5. \A i \in 1..(Len(list) - 1) : new[i] = IF i < p THEN list[i] ELSE list[i + 1]
  BY <1>3
<1>6. UniqueKeys(new)
  <2> SUFFICES ASSUME NEW i \in 1..(Len(list) - 1), NEW j \in 1..(Len(list) - 1), new[i].k = new[j].k
               PROVE  i = j
    BY <1>4 DEF UniqueKeys
  <2>1. PICK x \in DOMAIN list : x = (IF i < p THEN i ELSE i + 1) /\ new[i] = list[x]
    BY <1>1, <1>5
  <2>2. PICK y \in DOMAIN list : y = (IF j < p THEN j ELSE j + 1) /\ new[j] = list[y]
    BY <1>1, <1>5
  <2>3. x = y
    BY <2>1, <2>2 DEF UniqueKeys
  <2> QED
    BY <1>1, <2>1, <2>2, <2>3
<1>7. ASSUME NEW i \in DOMAIN list, i # p
      PROVE  \E j \in DOMAIN new : new[j] = list[i]
  <2>1. CASE i < p
    BY <1>1, <1>4, <1>5, <2>1
  <2>2. CASE i > p
    <3>1. i - 1 \in DOMAIN new /\ new[i - 1] = list[i]
      BY <1>1, <1>4, <1>5, <2>2
    <3> QED
      BY <3>1
  <2> QED
    BY <1>1, <1>7, <2>1, <2>2
<1>8. ASSUME NEW j \in DOMAIN new
      PROVE  \E i \in DOMAIN list : i # p /\ list[i] = new[j]
  <2>1. CASE j < p
    BY <1>1, <1>4, <1>5, <2>1
  <2>2. CASE j >= p
    <3>1. j + 1 \in DOMAIN list /\ j + 1 # p /\ new[j] = list[j + 1]
      BY <1>1, <1>4, <1>5, <2>2
    <3> QED
      BY <3>1
  <2> QED
    BY <1>1, <1>4, <2>1, <2>2
<1>9. \A i \in DOMAIN list : list[i] = list[p] => i = p
  BY DEF UniqueKeys
<1>10. ASSUME NEW m PROVE Among(m, new) <=> Among(m, list) /\ m # list[p]
  <2>1. ASSUME Among(m, new) PROVE Among(m, list) /\ m # list[p]
    BY <1>8, <1>9, <2>1 DEF Among
  <2>2. ASSUME Among(m, list), m # list[p] PROVE Among(m, new)
    BY <1>7, <2>2 DEF Among
  <2> QED
    BY <2>1, <2>2
<1> QED
  BY <1>4, <1>6, <1>10

\* What findNodeByKey() finds of a key depends on the nodes with that key alone.
LEMMA OthersStay ==
  ASSUME NEW list \in Seq(Nodes), UniqueKeys(list), NEW new \in Seq(Nodes), UniqueKeys(new), NEW k,
         \A n : n.k = k => (Among(n, new) <=> Among(n, list))
  PROVE  /\ Chain!Place(new, k) # 0 <=> Chain!Place(list, k) # 0
         /\ Chain!Place(list, k) # 0 => new[Chain!Place(new, k)].v = list[Chain!Place(list, k)].v
<1>1. CASE \E i \in DOMAIN list : list[i].k = k
  <2>1. Chain!Place(list, k) \in DOMAIN list /\ Chain!Place(list, k) # 0 /\ list[Chain!Place(list, k)].k = k
    BY <1>1, PlaceFinds
  <2>2. PICK i \in DOMAIN new : new[i] = list[Chain!Place(list, k)]
    BY <2>1 DEF Among
  <2>3. /\ Chain!Place(new, k) \in DOMAIN new /\ Chain!Place(new, k) # 0
        /\ new[Chain!Place(new, k)].k = k
    BY <2>1, <2>2, PlaceFinds
  <2>4. Chain!Place(new, k) = i
    BY <2>1, <2>2, <2>3 DEF UniqueKeys
  <2> QED
    BY <2>1, <2>2, <2>3, <2>4
<1>2. CASE ~\E i \in DOMAIN list : list[i].k = k
  <2>1. Chain!Place(list, k) = 0
    BY <1>2, PlaceFinds
  <2>2. ASSUME NEW i \in DOMAIN new, new[i].k = k PROVE FALSE
    <3>1. \E j \in DOMAIN list : list[j] = new[i]
      BY <2>2 DEF Among
    <3> QED
      BY <1>2, <2>2, <3>1
  <2>3. Chain!Place(new, k) = 0
    BY <2>2, PlaceFinds
  <2> QED
    BY <2>1, <2>3
<1> QED
  BY <1>1, <1>2

\* The map that lists stand for, of any lists.
MapOf(B) ==
  [k \in {k \in Keys : Chain!Place(B[Chain!hash(k)], k) # 0} |->
     B[Chain!hash(k)][Chain!Place(B[Chain!hash(k)], k)].v]

LEMMA MapIsOfBuckets == Chain!Map = MapOf(buckets)
BY DEF Chain!Map, MapOf, Chain!isKeyExist, Chain!Lookup

\* A step exchanges the list of one key; the nodes of the other keys stay.
Exchanged(B, C, k, new) ==
  /\ B \in [Buckets -> Seq(Nodes)] /\ InPlace(B)
  /\ C = [B EXCEPT ![Chain!hash(k)] = new]
  /\ new \in Seq(Nodes) /\ UniqueKeys(new)
  /\ \A n : n.k # k =>
       (Among(n, new) <=> Among(n, B[Chain!hash(k)]))

LEMMA ExchangeKeeps ==
  ASSUME HashesAreNumbers, NEW B, NEW C, NEW k \in Keys, NEW new, Exchanged(B, C, k, new)
  PROVE  C \in [Buckets -> Seq(Nodes)] /\ InPlace(C)
<1>1. Chain!hash(k) \in Buckets
  BY BucketOfKey
<1>2. C \in [Buckets -> Seq(Nodes)] /\ \A b \in Buckets : C[b] = IF b = Chain!hash(k) THEN new ELSE B[b]
  BY <1>1 DEF Exchanged
<1>3. ASSUME NEW i \in DOMAIN new PROVE Chain!hash(new[i].k) = Chain!hash(k)
  <2>1. CASE new[i].k # k
    <3>1. PICK j \in DOMAIN B[Chain!hash(k)] : B[Chain!hash(k)][j] = new[i]
      BY <2>1 DEF Exchanged, Among
    <3> QED
      BY <1>1, <3>1 DEF Exchanged, InPlace
  <2> QED
    BY <2>1
<1>4. UniqueKeys(new)
  BY DEF Exchanged
<1> QED
  BY <1>1, <1>2, <1>3, <1>4 DEF Exchanged, InPlace

LEMMA ExchangeMaps ==
  ASSUME HashesAreNumbers, NEW B, NEW C, NEW k \in Keys, NEW new, Exchanged(B, C, k, new)
  PROVE  /\ \A j \in Keys \ {k} : /\ j \in DOMAIN MapOf(C) <=> j \in DOMAIN MapOf(B)
                                  /\ j \in DOMAIN MapOf(B) => MapOf(C)[j] = MapOf(B)[j]
         /\ k \in DOMAIN MapOf(C) <=> Chain!Place(new, k) # 0
         /\ Chain!Place(new, k) # 0 => MapOf(C)[k] = new[Chain!Place(new, k)].v
<1>1. Chain!hash(k) \in Buckets
  BY BucketOfKey
<1>2. \A b \in Buckets : C[b] = IF b = Chain!hash(k) THEN new ELSE B[b]
  BY <1>1 DEF Exchanged
<1>3. ASSUME NEW j \in Keys \ {k}
      PROVE  /\ Chain!Place(C[Chain!hash(j)], j) # 0 <=> Chain!Place(B[Chain!hash(j)], j) # 0
             /\ Chain!Place(B[Chain!hash(j)], j) # 0 =>
                  C[Chain!hash(j)][Chain!Place(C[Chain!hash(j)], j)].v
                    = B[Chain!hash(j)][Chain!Place(B[Chain!hash(j)], j)].v
  <2>1. Chain!hash(j) \in Buckets
    BY BucketOfKey
  <2>2. CASE Chain!hash(j) # Chain!hash(k)
    BY <1>2, <2>1, <2>2
  <2>3. CASE Chain!hash(j) = Chain!hash(k)
    <3>1. C[Chain!hash(j)] = new /\ B[Chain!hash(j)] = B[Chain!hash(k)]
      BY <1>2, <2>1, <2>3
    <3>2. PICK list : list = B[Chain!hash(k)]
      OBVIOUS
    <3>3. list \in Seq(Nodes) /\ UniqueKeys(list) /\ new \in Seq(Nodes) /\ UniqueKeys(new)
      BY <1>1, <3>2 DEF Exchanged, InPlace
    <3>4. \A n : n.k = j => (Among(n, new) <=> Among(n, list))
      BY <3>2 DEF Exchanged
    <3>5. /\ Chain!Place(new, j) # 0 <=> Chain!Place(list, j) # 0
          /\ Chain!Place(list, j) # 0 => new[Chain!Place(new, j)].v = list[Chain!Place(list, j)].v
      BY <3>3, <3>4, OthersStay
    <3> QED
      BY <3>1, <3>2, <3>5
  <2> QED
    BY <2>2, <2>3
<1>4. C[Chain!hash(k)] = new
  BY <1>1, <1>2
<1> QED
  BY <1>3, <1>4 DEF MapOf

\* The three changes: a node for a key that has none, another value, a node less.
Added(B, C, k, v) ==
  Chain!Place(B[Chain!hash(k)], k) = 0 /\ C = [B EXCEPT ![Chain!hash(k)] = <<[k |-> k, v |-> v]>> \o @]
WithValue(B, C, k, v) ==
  /\ Chain!Place(B[Chain!hash(k)], k) # 0
  /\ C = [B EXCEPT ![Chain!hash(k)][Chain!Place(B[Chain!hash(k)], k)].v = v]
Taken(B, C, k) == C = [B EXCEPT ![Chain!hash(k)] = Chain!Unlink(@, k)]

LEMMA Adding ==
  ASSUME HashesAreNumbers, NEW B \in [Buckets -> Seq(Nodes)], InPlace(B), NEW k \in Keys, NEW v \in Values,
         NEW C, Added(B, C, k, v)
  PROVE  \E new : /\ Exchanged(B, C, k, new)
                  /\ Chain!Place(new, k) # 0 /\ new[Chain!Place(new, k)].v = v
<1>1. Chain!hash(k) \in Buckets
  BY BucketOfKey
<1>2. PICK list \in Seq(Nodes) : list = B[Chain!hash(k)] /\ UniqueKeys(list)
  BY <1>1 DEF InPlace
<1>3. PICK n \in Nodes : n = [k |-> k, v |-> v]
  BY DEF Nodes
<1>4. PICK new : new = <<n>> \o list
  OBVIOUS
<1>5. n.k = k /\ n.v = v
  BY <1>3
<1>6. \A i \in DOMAIN list : list[i].k # n.k
  BY <1>2, <1>5, PlaceFinds DEF Added
<1>7. /\ new \in Seq(Nodes) /\ UniqueKeys(new)
      /\ \A m : Among(m, new) <=> m = n \/ Among(m, list)
  BY <1>2, <1>4, <1>6, NodePut
<1>8. Exchanged(B, C, k, new)
  <2>1. C = [B EXCEPT ![Chain!hash(k)] = new]
    BY <1>1, <1>2, <1>3, <1>4 DEF Added
  <2>2. \A m : m.k # k => m # n
    BY <1>5
  <2>3. \A m : m.k # k =>
          (Among(m, new) <=> Among(m, B[Chain!hash(k)]))
    BY <1>2, <1>7, <2>2
  <2> QED
    BY <1>7, <2>1, <2>3 DEF Exchanged
<1>9. PICK i \in DOMAIN new : new[i] = n
  BY <1>7 DEF Among
<1>10. /\ Chain!Place(new, k) \in DOMAIN new /\ Chain!Place(new, k) # 0
       /\ new[Chain!Place(new, k)].k = k
  BY <1>5, <1>7, <1>9, PlaceFinds
<1>11. Chain!Place(new, k) = i
  BY <1>5, <1>7, <1>9, <1>10 DEF UniqueKeys
<1> QED
  BY <1>5, <1>8, <1>9, <1>10, <1>11

LEMMA Setting ==
  ASSUME HashesAreNumbers, NEW B \in [Buckets -> Seq(Nodes)], InPlace(B), NEW k \in Keys, NEW v \in Values,
         NEW C, WithValue(B, C, k, v)
  PROVE  \E new : /\ Exchanged(B, C, k, new)
                  /\ Chain!Place(new, k) # 0 /\ new[Chain!Place(new, k)].v = v
<1>1. Chain!hash(k) \in Buckets
  BY BucketOfKey
<1>2. PICK list \in Seq(Nodes) : list = B[Chain!hash(k)] /\ UniqueKeys(list)
  BY <1>1 DEF InPlace
<1>3. PICK p \in DOMAIN list : p = Chain!Place(list, k) /\ list[p].k = k
  BY <1>2, PlaceFinds DEF WithValue
<1>10. PICK n \in Nodes : n = [k |-> k, v |-> v]
  BY DEF Nodes
<1>4. PICK new : new = [list EXCEPT ![p] = n]
  OBVIOUS
<1>5. /\ new \in Seq(Nodes) /\ UniqueKeys(new)
      /\ \A m : Among(m, new) <=> m = n \/ (m # list[p] /\ Among(m, list))
  <2>1. UniqueKeys(list) /\ n.k = list[p].k
    BY <1>2, <1>3, <1>10
  <2> QED
    BY <1>4, <2>1, ValueSet
<1>6. Exchanged(B, C, k, new)
  <2>1. C = [B EXCEPT ![Chain!hash(k)] = new]
    <3>1. list[p] \in Nodes
      OBVIOUS
    <3>2. [list[p] EXCEPT !.v = v] = n
      BY <1>3, <1>10, <3>1 DEF Nodes
    <3> QED
      BY <1>1, <1>2, <1>3, <1>4, <3>2 DEF WithValue
  <2>2. \A m : m.k # k => m # n /\ m # list[p]
    BY <1>3, <1>10
  <2>3. \A m : m.k # k =>
          (Among(m, new) <=> Among(m, B[Chain!hash(k)]))
    BY <1>2, <1>5, <2>2
  <2> QED
    BY <1>5, <2>1, <2>3 DEF Exchanged
<1>7. PICK i \in DOMAIN new : new[i] = n
  BY <1>5 DEF Among
<1>8. /\ Chain!Place(new, k) \in DOMAIN new /\ Chain!Place(new, k) # 0
      /\ new[Chain!Place(new, k)].k = k
  BY <1>5, <1>7, <1>10, PlaceFinds
<1>9. Chain!Place(new, k) = i
  BY <1>5, <1>7, <1>8, <1>10 DEF UniqueKeys
<1> QED
  BY <1>6, <1>7, <1>8, <1>9, <1>10

LEMMA Erasing ==
  ASSUME HashesAreNumbers, NEW B \in [Buckets -> Seq(Nodes)], InPlace(B), NEW k \in Keys,
         NEW C, Taken(B, C, k)
  PROVE  \E new : Exchanged(B, C, k, new) /\ Chain!Place(new, k) = 0
<1>1. Chain!hash(k) \in Buckets
  BY BucketOfKey
<1>2. PICK list \in Seq(Nodes) : list = B[Chain!hash(k)] /\ UniqueKeys(list)
  BY <1>1 DEF InPlace
<1>3. C = [B EXCEPT ![Chain!hash(k)] = Chain!Unlink(list, k)]
  BY <1>1, <1>2 DEF Taken
<1>4. CASE Chain!Place(list, k) = 0
  <2>1. Chain!Unlink(list, k) = list
    BY <1>4 DEF Chain!Unlink
  <2>2. Exchanged(B, C, k, list)
    BY <1>2, <1>3, <2>1 DEF Exchanged
  <2> QED
    BY <1>4, <2>2
<1>5. CASE Chain!Place(list, k) # 0
  <2>1. PICK p \in DOMAIN list : p = Chain!Place(list, k) /\ list[p].k = k
    BY <1>2, <1>5, PlaceFinds
  <2>2. PICK new : new = Chain!RemoveAt(list, p)
    OBVIOUS
  <2>3. /\ new \in Seq(Nodes) /\ UniqueKeys(new)
        /\ \A m : Among(m, new) <=> m # list[p] /\ Among(m, list)
    BY <1>2, <2>2, NodeTaken
  <2>4. p \in 1..Len(list)
    OBVIOUS
  <2>5. Chain!Unlink(list, k) = new
    BY <2>1, <2>2, <2>4 DEF Chain!Unlink
  <2>6. \A m : m.k # k => m # list[p]
    BY <2>1
  <2>7. \A m : m.k # k =>
          (Among(m, new) <=> Among(m, B[Chain!hash(k)]))
    BY <1>2, <2>3, <2>6
  <2>8. Exchanged(B, C, k, new)
    BY <1>2, <1>3, <2>3, <2>5, <2>7 DEF Exchanged
  <2>9. \A i \in DOMAIN new : new[i].k # k
    <3> SUFFICES ASSUME NEW i \in DOMAIN new, new[i].k = k PROVE FALSE
      OBVIOUS
    <3>1. new[i] # list[p] /\ \E j \in DOMAIN list : list[j] = new[i]
      BY <2>3 DEF Among
    <3> QED
      BY <2>1, <3>1, <1>2 DEF UniqueKeys
  <2>10. Chain!Place(new, k) = 0
    BY <2>3, <2>9, PlaceFinds
  <2> QED
    BY <2>8, <2>10
<1> QED
  BY <1>4, <1>5

\* What a step of the lists is for the map that they stand for.
LEMMA AddMaps ==
  ASSUME HashesAreNumbers, ChainInv, NEW k \in Keys, NEW v \in Values,
         ~Chain!isKeyExist(k), Chain!NewNode(k, v)
  PROVE  ChainInv' /\ k \notin DOMAIN Chain!Map /\ Chain!Dict!Assign(k, v)
<1>1. buckets \in [Buckets -> Seq(Nodes)] /\ InPlace(buckets) /\ Chain!Place(buckets[Chain!hash(k)], k) = 0
  BY DEF ChainInv, Chain!isKeyExist
<1>2. PICK C : C = buckets'
  OBVIOUS
<1>3. Added(buckets, C, k, v)
  BY <1>1, <1>2 DEF Chain!NewNode, Added
<1>4. PICK new : /\ Exchanged(buckets, C, k, new)
                 /\ Chain!Place(new, k) # 0 /\ new[Chain!Place(new, k)].v = v
  BY <1>1, <1>3, Adding
<1>5. C \in [Buckets -> Seq(Nodes)] /\ InPlace(C)
  BY <1>4, ExchangeKeeps
<1>6. ChainInv'
  BY <1>2, <1>5 DEF ChainInv, InPlace
<1>7. PICK M, N : M = MapOf(buckets) /\ N = MapOf(C)
  OBVIOUS
<1>8. M = Chain!Map /\ N = (Chain!Map)'
  BY <1>2, <1>7 DEF Chain!Map, MapOf, Chain!isKeyExist, Chain!Lookup
<1>9. /\ \A j \in Keys \ {k} : /\ j \in DOMAIN N <=> j \in DOMAIN M
                               /\ j \in DOMAIN M => N[j] = M[j]
      /\ k \in DOMAIN N /\ N[k] = v
  BY <1>4, <1>7, ExchangeMaps
<1>10. DOMAIN M \subseteq Keys /\ DOMAIN N \subseteq Keys /\ k \notin DOMAIN M
  BY <1>1, <1>7 DEF MapOf
<1>11. N = [j \in DOMAIN M \cup {k} |-> IF j = k THEN v ELSE M[j]]
  <2>1. N = [j \in DOMAIN N |-> N[j]]
    BY <1>7 DEF MapOf
  <2>2. DOMAIN N = DOMAIN M \cup {k}
    BY <1>9, <1>10
  <2>3. \A j \in DOMAIN N : N[j] = IF j = k THEN v ELSE M[j]
    BY <1>9, <1>10, <2>2
  <2> QED
    BY <2>1, <2>2, <2>3
<1> QED
  BY <1>6, <1>8, <1>10, <1>11 DEF Chain!Dict!Assign

LEMMA SetMaps ==
  ASSUME HashesAreNumbers, ChainInv, NEW k \in Keys, NEW v \in Values,
         Chain!isKeyExist(k), Chain!Assign(k, v)
  PROVE  ChainInv' /\ Chain!Dict!Assign(k, v)
<1>1. buckets \in [Buckets -> Seq(Nodes)] /\ InPlace(buckets) /\ Chain!Place(buckets[Chain!hash(k)], k) # 0
  BY DEF ChainInv, Chain!isKeyExist
<1>2. PICK C : C = buckets'
  OBVIOUS
<1>3. WithValue(buckets, C, k, v)
  BY <1>1, <1>2 DEF Chain!Assign, Chain!isKeyExist, WithValue
<1>4. PICK new : /\ Exchanged(buckets, C, k, new)
                 /\ Chain!Place(new, k) # 0 /\ new[Chain!Place(new, k)].v = v
  BY <1>1, <1>3, Setting
<1>5. C \in [Buckets -> Seq(Nodes)] /\ InPlace(C)
  BY <1>4, ExchangeKeeps
<1>6. ChainInv'
  BY <1>2, <1>5 DEF ChainInv, InPlace
<1>7. PICK M, N : M = MapOf(buckets) /\ N = MapOf(C)
  OBVIOUS
<1>8. M = Chain!Map /\ N = (Chain!Map)'
  BY <1>2, <1>7 DEF Chain!Map, MapOf, Chain!isKeyExist, Chain!Lookup
<1>9. /\ \A j \in Keys \ {k} : /\ j \in DOMAIN N <=> j \in DOMAIN M
                               /\ j \in DOMAIN M => N[j] = M[j]
      /\ k \in DOMAIN N /\ N[k] = v
  BY <1>4, <1>7, ExchangeMaps
<1>10. DOMAIN M \subseteq Keys /\ DOMAIN N \subseteq Keys
  BY <1>7 DEF MapOf
<1>11. N = [j \in DOMAIN M \cup {k} |-> IF j = k THEN v ELSE M[j]]
  <2>1. N = [j \in DOMAIN N |-> N[j]]
    BY <1>7 DEF MapOf
  <2>2. DOMAIN N = DOMAIN M \cup {k}
    BY <1>9, <1>10
  <2>3. \A j \in DOMAIN N : N[j] = IF j = k THEN v ELSE M[j]
    BY <1>9, <1>10, <2>2
  <2> QED
    BY <2>1, <2>2, <2>3
<1> QED
  BY <1>6, <1>8, <1>10, <1>11 DEF Chain!Dict!Assign

LEMMA EraseMaps ==
  ASSUME HashesAreNumbers, ChainInv, NEW k \in Keys,
         Chain!EraseKey(k)
  PROVE  ChainInv' /\ Chain!Dict!EraseKey(k)
<1>1. buckets \in [Buckets -> Seq(Nodes)] /\ InPlace(buckets)
  BY DEF ChainInv
<1>2. PICK C : C = buckets'
  OBVIOUS
<1>3. Taken(buckets, C, k)
  BY <1>1, <1>2 DEF Chain!EraseKey, Taken
<1>4. PICK new : Exchanged(buckets, C, k, new) /\ Chain!Place(new, k) = 0
  BY <1>1, <1>3, Erasing
<1>5. C \in [Buckets -> Seq(Nodes)] /\ InPlace(C)
  BY <1>4, ExchangeKeeps
<1>6. ChainInv'
  BY <1>2, <1>5 DEF ChainInv, InPlace
<1>7. PICK M, N : M = MapOf(buckets) /\ N = MapOf(C)
  OBVIOUS
<1>8. M = Chain!Map /\ N = (Chain!Map)'
  BY <1>2, <1>7 DEF Chain!Map, MapOf, Chain!isKeyExist, Chain!Lookup
<1>9. /\ \A j \in Keys \ {k} : /\ j \in DOMAIN N <=> j \in DOMAIN M
                               /\ j \in DOMAIN M => N[j] = M[j]
      /\ k \notin DOMAIN N
  BY <1>4, <1>7, ExchangeMaps
<1>10. DOMAIN M \subseteq Keys /\ DOMAIN N \subseteq Keys
  BY <1>7 DEF MapOf
<1>11. N = [j \in DOMAIN M \ {k} |-> M[j]]
  <2>1. N = [j \in DOMAIN N |-> N[j]]
    BY <1>7 DEF MapOf
  <2>2. DOMAIN N = DOMAIN M \ {k}
    BY <1>9, <1>10
  <2>3. \A j \in DOMAIN N : N[j] = M[j]
    BY <1>9, <1>10, <2>2
  <2> QED
    BY <2>1, <2>2, <2>3
<1> QED
  BY <1>6, <1>8, <1>10, <1>11 DEF Chain!Dict!EraseKey

LEMMA ChainStep ==
  ASSUME HashesAreNumbers, ChainInv, [Chain!Next]_buckets
  PROVE  ChainInv' /\ [Chain!Dict!DNext]_buckets
<1>1. CASE UNCHANGED buckets
  BY <1>1 DEF ChainInv, InPlace
<1>2. ASSUME NEW k \in Keys, Chain!EraseKey(k)
      PROVE  ChainInv' /\ Chain!Dict!DNext
  BY <1>2, EraseMaps DEF Chain!Dict!DNext
<1>3. ASSUME NEW k \in Keys, Chain!Touch(k)
      PROVE  ChainInv' /\ Chain!Dict!DNext
  <2>1. PICK v \in Values : ~Chain!isKeyExist(k) /\ Chain!NewNode(k, v)
    BY <1>3 DEF Chain!Touch
  <2>2. ChainInv' /\ k \notin DOMAIN Chain!Map /\ Chain!Dict!Assign(k, v)
    BY <2>1, AddMaps
  <2>3. Chain!Dict!Touch(k)
    BY <2>2 DEF Chain!Dict!Touch
  <2> QED
    BY <2>2, <2>3 DEF Chain!Dict!DNext
<1>4. ASSUME NEW k \in Keys, NEW v \in Values, Chain!Assign(k, v)
      PROVE  ChainInv' /\ Chain!Dict!DNext
  <2>1. CASE Chain!isKeyExist(k)
    <3>1. ChainInv' /\ Chain!Dict!Assign(k, v)
      BY <1>4, <2>1, SetMaps
    <3> QED
      BY <3>1 DEF Chain!Dict!DNext
  <2>2. CASE ~Chain!isKeyExist(k)
    <3>1. ChainInv' /\ Chain!Dict!Assign(k, v)
      BY <1>4, <2>2, AddMaps DEF Chain!Assign
    <3> QED
      BY <3>1 DEF Chain!Dict!DNext
  <2> QED
    BY <2>1, <2>2
<1>5. CASE Chain!Next
  BY <1>2, <1>3, <1>4, <1>5 DEF Chain!Next
<1> QED
  BY <1>1, <1>5

LEMMA ChainStart ==
  ASSUME HashesAreNumbers, Chain!Init
  PROVE  ChainInv /\ Chain!Dict!DInit
<1>1. buckets = [b \in Buckets |-> <<>>]
  BY DEF Chain!Init, Buckets
<1>2. buckets \in [Buckets -> Seq(Nodes)] /\ \A b \in Buckets : DOMAIN buckets[b] = {}
  BY <1>1
<1>3. ChainInv
  BY <1>2 DEF ChainInv, InPlace, UniqueKeys
<1>4. \A k \in Keys : Chain!Place(buckets[Chain!hash(k)], k) = 0
  BY <1>2, BucketOfKey DEF Chain!Place
<1>5. Chain!Map = <<>>
  <2>1. {k \in Keys : Chain!isKeyExist(k)} = {}
    BY <1>4 DEF Chain!isKeyExist
  <2>2. Chain!Map = [k \in {} |-> Chain!Lookup(k)]
    BY <2>1 DEF Chain!Map
  <2> QED
    BY <2>2
<1> QED
  BY <1>3, <1>5 DEF Chain!Dict!DInit

\* SeparateChainingHashMap: whatever is stored, overwritten and erased, a key is in
\* the list of its own bucket only, and once, so that erasing it cannot bring back an
\* old value.
THEOREM KeysStayOnce ==
  ASSUME HashesAreNumbers
  PROVE  Chain!Init /\ [][Chain!Next]_buckets => []Chain!KeysAreOnce
<1>1. Chain!Init => ChainInv
  BY ChainStart
<1>2. ChainInv /\ [Chain!Next]_buckets => ChainInv'
  BY ChainStep
<1>3. ChainInv => Chain!KeysAreOnce
  BY DEF ChainInv, InPlace, UniqueKeys, Chain!KeysAreOnce
<1> QED
  BY <1>1, <1>2, <1>3, PTL

\* SeparateChainingHashMap: seen through operator[] and isKeyExist(), the lists are at
\* every step what a dictionary is, for every number of buckets, however the hash
\* codes fall together.
THEOREM ListsAreDictionary ==
  ASSUME HashesAreNumbers
  PROVE  Chain!Init /\ [][Chain!Next]_buckets => Chain!ImplementsDictionary
<1>1. Chain!Init => ChainInv /\ Chain!Dict!DInit
  BY ChainStart
<1>2. ChainInv /\ [Chain!Next]_buckets => ChainInv' /\ [Chain!Dict!DNext]_buckets
  BY ChainStep
<1> QED
  BY <1>1, <1>2, PTL DEF Chain!ImplementsDictionary

-------------------------------------------------------------------------------
(* The pool of regex nodes, for every size of its chunks *)

\* The inductive invariant: the objects are numbered in the order in which the heap gave
\* them out; each of them is either held or free, and in the queue once.
PoolInv ==
  /\ pool_ \in Seq(Nat) /\ freeQueue_ \in Seq(Nat) /\ live \in SUBSET Nat
  /\ \A i \in DOMAIN pool_ : pool_[i] = i
  /\ \A i \in DOMAIN freeQueue_ : freeQueue_[i] \in 1..Len(pool_) /\ freeQueue_[i] \notin live
  /\ \A i, j \in DOMAIN freeQueue_ : freeQueue_[i] = freeQueue_[j] => i = j
  /\ live \subseteq 1..Len(pool_)
  /\ \A p \in 1..Len(pool_) : p \in live \/ Among(p, freeQueue_)
  /\ objects = 1..Len(pool_)
  /\ Len(freeQueue_) + Cardinality(live) = Len(pool_)

LEMMA PoolElements ==
  ASSUME PoolInv
  PROVE  Pool!ToSet(pool_) = 1..Len(pool_) /\ IsFiniteSet(live) /\ Cardinality(live) \in Nat
<1>1. DOMAIN pool_ = 1..Len(pool_) /\ Len(pool_) \in Nat
  BY DEF PoolInv
<1>2. Pool!ToSet(pool_) = 1..Len(pool_)
  BY <1>1 DEF PoolInv, Pool!ToSet
<1>3. IsFiniteSet(1..Len(pool_))
  BY <1>1, FS_Interval
<1>4. IsFiniteSet(live)
  BY <1>3, FS_Subset DEF PoolInv
<1> QED
  BY <1>2, <1>4, FS_CardinalityType

\* An object leaves a queue that is not empty, or the first one a new chunk.
LEMMA HeldOneMore ==
  ASSUME PoolInv, NEW o \in Nat, o \notin live, NEW new, new = live \cup {o}
  PROVE  Cardinality(new) = Cardinality(live) + 1
BY PoolElements, FS_AddElement

LEMMA PoolStep ==
  ASSUME PoolSizes, PoolInv, [Pool!Next]_(Pool!vars)
  PROVE  PoolInv'
<1>1. /\ DOMAIN pool_ = 1..Len(pool_) /\ Len(pool_) \in Nat
      /\ DOMAIN freeQueue_ = 1..Len(freeQueue_) /\ Len(freeQueue_) \in Nat
      /\ IsFiniteSet(live) /\ Cardinality(live) \in Nat
  BY PoolElements DEF PoolInv
<1>2. CASE Pool!New /\ freeQueue_ # <<>>
  <2>1. PICK o : o = Head(freeQueue_)
    OBVIOUS
  <2>2. /\ pool_' = pool_ /\ objects' = objects
        /\ live' = live \cup {o} /\ freeQueue_' = Tail(freeQueue_)
    BY <1>2, <2>1 DEF Pool!New
  <2>3. o = freeQueue_[1] /\ 1 \in DOMAIN freeQueue_ /\ o \in Nat /\ o \notin live /\ o \in 1..Len(pool_)
    BY <1>1, <1>2, <2>1 DEF PoolInv
  <2>4. Cardinality(live') = Cardinality(live) + 1
    BY <2>2, <2>3, HeldOneMore
  <2>5. PICK q : q = Tail(freeQueue_)
    OBVIOUS
  <2>6. /\ q \in Seq(Nat) /\ Len(q) = Len(freeQueue_) - 1 /\ DOMAIN q = 1..(Len(freeQueue_) - 1)
        /\ \A i \in 1..(Len(freeQueue_) - 1) : q[i] = freeQueue_[i + 1]
    BY <1>1, <1>2, <2>5 DEF PoolInv
  <2>20. \A i \in DOMAIN q : i + 1 \in DOMAIN freeQueue_ /\ i + 1 # 1 /\ q[i] = freeQueue_[i + 1]
    BY <1>1, <2>6
  <2>21. \A i, j \in DOMAIN freeQueue_ : freeQueue_[i] = freeQueue_[j] => i = j
    BY DEF PoolInv
  <2>7. \A i \in DOMAIN q : q[i] \in 1..Len(pool_) /\ q[i] \notin live /\ q[i] # o
    <3> SUFFICES ASSUME NEW i \in DOMAIN q
                 PROVE  q[i] \in 1..Len(pool_) /\ q[i] \notin live /\ q[i] # o
      OBVIOUS
    <3>1. freeQueue_[i + 1] \in 1..Len(pool_) /\ freeQueue_[i + 1] \notin live
      BY <2>20 DEF PoolInv
    <3>2. freeQueue_[i + 1] # o
      BY <2>3, <2>20, <2>21
    <3> QED
      BY <2>20, <3>1, <3>2
  <2>8. \A i, j \in DOMAIN q : q[i] = q[j] => i = j
    <3> SUFFICES ASSUME NEW i \in DOMAIN q, NEW j \in DOMAIN q, q[i] = q[j]
                 PROVE  i = j
      OBVIOUS
    <3>1. i + 1 = j + 1
      BY <2>20, <2>21
    <3> QED
      BY <1>1, <2>6, <3>1
  <2>9. ASSUME NEW p \in 1..Len(pool_) PROVE p \in live \cup {o} \/ Among(p, q)
    <3>1. CASE \E i \in DOMAIN freeQueue_ : freeQueue_[i] = p
      <4>1. PICK i \in DOMAIN freeQueue_ : freeQueue_[i] = p
        BY <3>1
      <4>2. CASE i = 1
        BY <2>3, <4>1, <4>2
      <4>3. CASE i # 1
        <5>1. i - 1 \in DOMAIN q /\ q[i - 1] = p
          BY <1>1, <2>6, <4>1, <4>3
        <5> QED
          BY <5>1 DEF Among
      <4> QED
        BY <4>2, <4>3
    <3> QED
      BY <3>1 DEF PoolInv, Among
  <2>10. Len(q) + Cardinality(live') = Len(pool_)
    BY <1>1, <2>4, <2>6 DEF PoolInv
  <2>11. live' \in SUBSET Nat /\ live' \subseteq 1..Len(pool_)
    BY <2>2, <2>3 DEF PoolInv
  <2> QED
    BY <2>2, <2>5, <2>6, <2>7, <2>8, <2>9, <2>10, <2>11 DEF PoolInv
<1>3. CASE Pool!New /\ freeQueue_ = <<>>
  <2>1. PICK c : c = Pool!Chunk
    OBVIOUS
  <2>2. /\ c \in Seq(Nat) /\ Len(c) = chunkSize_ /\ DOMAIN c = 1..chunkSize_
        /\ \A i \in 1..chunkSize_ : c[i] = Len(pool_) + i
    BY <1>1, <2>1 DEF Pool!Chunk, PoolSizes
  <2>3. /\ pool_' = pool_ \o c /\ objects' = objects \cup Pool!ToSet(c)
        /\ live' = live \cup {Head(c)} /\ freeQueue_' = Tail(c)
    BY <1>3, <2>1 DEF Pool!New
  <2>4. PICK P, q, o : P = pool_ \o c /\ q = Tail(c) /\ o = Head(c)
    OBVIOUS
  <2>5. /\ P \in Seq(Nat) /\ Len(P) = Len(pool_) + Len(c)
        /\ \A i \in 1..(Len(pool_) + Len(c)) :
             P[i] = IF i <= Len(pool_) THEN pool_[i] ELSE c[i - Len(pool_)]
    <3>1. pool_ \in Seq(Nat)
      BY DEF PoolInv
    <3>2. c \in Seq(Nat) /\ P = pool_ \o c
      BY <2>2, <2>4
    <3> QED
      BY <3>1, <3>2, Joined
  <2>6. \A i \in DOMAIN P : P[i] = i
    <3> SUFFICES ASSUME NEW i \in DOMAIN P PROVE P[i] = i
      OBVIOUS
    <3>1. i \in 1..(Len(pool_) + chunkSize_)
      BY <2>2, <2>5
    <3>2. CASE i <= Len(pool_)
      BY <1>1, <2>2, <2>5, <3>1, <3>2 DEF PoolInv
    <3>3. CASE ~(i <= Len(pool_))
      <4>1. i - Len(pool_) \in 1..chunkSize_ /\ Len(pool_) + (i - Len(pool_)) = i
        BY <1>1, <3>1, <3>3 DEF PoolSizes
      <4> QED
        BY <2>2, <2>5, <3>1, <3>3, <4>1
    <3> QED
      BY <3>2, <3>3
  <2>7. o = Len(pool_) + 1 /\ o \in Nat /\ o \notin live
    BY <1>1, <2>2, <2>4 DEF PoolInv, PoolSizes
  <2>8. Cardinality(live') = Cardinality(live) + 1
    BY <2>3, <2>4, <2>7, HeldOneMore
  <2>9. /\ q \in Seq(Nat) /\ Len(q) = chunkSize_ - 1 /\ DOMAIN q = 1..(chunkSize_ - 1)
        /\ \A i \in 1..(chunkSize_ - 1) : q[i] = Len(pool_) + (i + 1)
    BY <2>2, <2>4 DEF PoolSizes
  <2>10. Len(P) = Len(pool_) + chunkSize_ /\ chunkSize_ \in Nat \ {0}
    BY <2>2, <2>5 DEF PoolSizes
  <2>11. \A i \in DOMAIN q : q[i] \in 1..Len(P) /\ q[i] \notin live /\ q[i] # o
    BY <1>1, <2>7, <2>9, <2>10 DEF PoolInv
  <2>12. \A i, j \in DOMAIN q : q[i] = q[j] => i = j
    BY <1>1, <2>9, <2>10
  <2>13. Len(freeQueue_) = 0 /\ DOMAIN freeQueue_ = {}
    BY <1>3
  <2>14. ASSUME NEW p \in 1..Len(P) PROVE p \in live \cup {o} \/ Among(p, q)
    <3>1. CASE p <= Len(pool_)
      BY <1>1, <2>13, <3>1 DEF PoolInv, Among
    <3>2. CASE p > Len(pool_) + 1
      <4>1. p - Len(pool_) - 1 \in DOMAIN q /\ q[p - Len(pool_) - 1] = p
        BY <1>1, <2>9, <2>10, <3>2
      <4> QED
        BY <4>1 DEF Among
    <3> QED
      BY <1>1, <2>7, <3>1, <3>2
  <2>15. Len(q) + Cardinality(live') = Len(P)
    BY <1>1, <2>8, <2>9, <2>10, <2>13 DEF PoolInv
  <2>16. live' \in SUBSET Nat /\ live' \subseteq 1..Len(P)
    <3>1. live \subseteq 1..Len(pool_)
      BY DEF PoolInv
    <3>2. live' = live \cup {o}
      BY <2>3, <2>4
    <3>3. \A p \in 1..Len(pool_) : p \in 1..Len(P)
      BY <1>1, <2>10
    <3>4. o \in 1..Len(P)
      BY <1>1, <2>7, <2>10
    <3> QED
      BY <2>10, <3>1, <3>2, <3>3, <3>4
  <2>17. objects' = 1..Len(P)
    <3>1. Pool!ToSet(c) = (Len(pool_) + 1)..(Len(pool_) + chunkSize_)
      <4>1. \A p \in (Len(pool_) + 1)..(Len(pool_) + chunkSize_) :
              p - Len(pool_) \in 1..chunkSize_ /\ c[p - Len(pool_)] = p
        BY <1>1, <2>2, <2>10
      <4>2. \A i \in 1..chunkSize_ : Len(pool_) + i \in (Len(pool_) + 1)..(Len(pool_) + chunkSize_)
        BY <1>1, <2>10
      <4>3. \A p : p \in Pool!ToSet(c) <=> \E i \in 1..chunkSize_ : p = c[i]
        BY <2>2 DEF Pool!ToSet
      <4>4. \A p : p \in Pool!ToSet(c) => p \in (Len(pool_) + 1)..(Len(pool_) + chunkSize_)
        BY <2>2, <4>2, <4>3
      <4>5. \A p \in (Len(pool_) + 1)..(Len(pool_) + chunkSize_) : p \in Pool!ToSet(c)
        BY <4>1, <4>3
      <4> QED
        BY <4>4, <4>5
    <3> QED
      BY <1>1, <2>3, <2>10, <3>1 DEF PoolInv
  <2> QED
    BY <2>3, <2>4, <2>5, <2>6, <2>9, <2>11, <2>12, <2>14, <2>15, <2>16, <2>17 DEF PoolInv
<1>4. ASSUME NEW p \in live, Pool!Delete(p)
      PROVE  PoolInv'
  <2>1. /\ pool_' = pool_ /\ objects' = objects
        /\ live' = live \ {p} /\ freeQueue_' = Append(freeQueue_, p)
    BY <1>4 DEF Pool!Delete
  <2>2. p \in Nat /\ p \in 1..Len(pool_)
    BY DEF PoolInv
  <2>3. Cardinality(live') = Cardinality(live) - 1
    BY <1>1, <2>1, FS_RemoveElement
  <2>4. PICK q : q = Append(freeQueue_, p)
    OBVIOUS
  <2>5. /\ q \in Seq(Nat) /\ Len(q) = Len(freeQueue_) + 1 /\ DOMAIN q = 1..(Len(freeQueue_) + 1)
        /\ \A i \in 1..Len(freeQueue_) : q[i] = freeQueue_[i]
        /\ q[Len(freeQueue_) + 1] = p
    BY <1>1, <2>2, <2>4 DEF PoolInv
  <2>6. \A i \in DOMAIN freeQueue_ : freeQueue_[i] # p
    BY DEF PoolInv
  <2>7. \A i \in DOMAIN q : i \in DOMAIN freeQueue_ \/ i = Len(freeQueue_) + 1
    BY <1>1, <2>5
  <2>8. \A i \in DOMAIN q : q[i] \in 1..Len(pool_) /\ q[i] \notin live \ {p}
    BY <1>1, <2>2, <2>5, <2>7 DEF PoolInv
  <2>9. \A i, j \in DOMAIN q : q[i] = q[j] => i = j
    BY <1>1, <2>5, <2>6, <2>7 DEF PoolInv
  <2>10. ASSUME NEW o \in 1..Len(pool_) PROVE o \in live \ {p} \/ Among(o, q)
    <3>1. CASE o = p
      BY <1>1, <2>5, <3>1 DEF Among
    <3>2. CASE Among(o, freeQueue_)
      BY <1>1, <2>5, <3>2 DEF Among
    <3> QED
      BY <3>1, <3>2 DEF PoolInv
  <2>11. Len(q) + Cardinality(live') = Len(pool_)
    BY <1>1, <2>3, <2>5 DEF PoolInv
  <2>12. live' \in SUBSET Nat /\ live' \subseteq 1..Len(pool_)
    BY <2>1 DEF PoolInv
  <2> QED
    BY <2>1, <2>4, <2>5, <2>8, <2>9, <2>10, <2>11, <2>12 DEF PoolInv
<1>5. CASE Pool!deletePool
  <2>1. objects' = objects \ Pool!ToSet(pool_) /\ pool_' = <<>> /\ freeQueue_' = <<>> /\ live' = {}
    BY <1>5 DEF Pool!deletePool
  <2>2. objects' = {}
    BY <2>1, PoolElements DEF PoolInv
  <2>3. Cardinality({}) = 0
    BY FS_EmptySet
  <2>4. 1..0 = {} /\ Len(<<>>) = 0
    OBVIOUS
  <2> QED
    BY <2>1, <2>2, <2>3, <2>4 DEF PoolInv
<1>6. CASE UNCHANGED Pool!vars
  BY <1>6 DEF PoolInv, Pool!vars, Among
<1> QED
  BY <1>2, <1>3, <1>4, <1>5, <1>6 DEF Pool!Next

\* CachedObject: however nodes are made and deleted, and the pool deleted and made again,
\* no object is handed out twice or lost: what is held and what is free make up the pool,
\* and the heap has given out exactly the pool.
THEOREM PoolStaysPartitioned ==
  ASSUME PoolSizes
  PROVE  Pool!Init /\ [][Pool!Next]_(Pool!vars) => []Pool!PoolIsPartitioned
<1>1. Pool!Init => PoolInv
  BY FS_EmptySet DEF Pool!Init, PoolInv, Among
<1>2. PoolInv /\ [Pool!Next]_(Pool!vars) => PoolInv'
  BY PoolStep
<1>3. PoolInv => Pool!PoolIsPartitioned
  <2> SUFFICES ASSUME PoolInv PROVE Pool!PoolIsPartitioned
    OBVIOUS
  <2>1. Pool!ToSet(pool_) = 1..Len(pool_)
    BY PoolElements
  <2>2. \A p : p \in Pool!ToSet(freeQueue_) <=> Among(p, freeQueue_)
    BY DEF Pool!ToSet, Among
  <2>3. \A p : Among(p, freeQueue_) => p \in 1..Len(pool_) /\ p \notin live
    BY DEF PoolInv, Among
  <2> QED
    BY <2>1, <2>2, <2>3 DEF PoolInv, Pool!PoolIsPartitioned, Pool!Cardinality, Cardinality
<1> QED
  BY <1>1, <1>2, <1>3, PTL

-------------------------------------------------------------------------------
(* The binary searches, for every array *)

CONSTANTS Numbers, MaxLength
VARIABLES fn, length, mem, val, begin, end, result

Search == INSTANCE BinarySearch WITH n <- length

SearchSizes == Numbers \subseteq Int /\ MaxLength \in Nat

Ordered == \A i, j \in 0..(length - 1) : i <= j => mem[i] <= mem[j]

SearchTypes ==
  /\ fn \in Search!Functions
  /\ length \in Nat \ {0} /\ mem \in [(-1)..length -> Int] /\ val \in Int
  /\ begin \in Int /\ end \in Int /\ result \in Int

\* What each loop keeps of its two ends.
Ends ==
  /\ fn = "Search" =>
       /\ 0 <= begin /\ begin <= end /\ end <= length
       /\ \A i \in 0..(length - 1) : (i < begin => mem[i] < val) /\ (i >= end => mem[i] > val)
  /\ fn = "FindFirst" =>
       /\ -1 <= begin /\ begin <= end /\ end <= length - 1
       /\ \A i \in 0..(length - 1) : i <= begin => mem[i] < val
       /\ mem[end] = val \/ \A i \in 0..(length - 1) : i > end => mem[i] > val
       /\ end = -1 => \A i \in 0..(length - 1) : mem[i] > val
  /\ fn = "FindLast" =>
       /\ 0 <= begin /\ begin <= end /\ end <= length
       /\ \A i \in 0..(length - 1) : i >= end => mem[i] > val
       /\ (begin < end /\ mem[begin] = val) \/ \A i \in 0..(length - 1) : i < begin => mem[i] < val
  /\ fn = "FindFirstGT" =>
       /\ 0 <= begin /\ begin <= end /\ end <= length
       /\ \A i \in 0..(length - 1) : i < begin => mem[i] <= val
       /\ end = length \/ (1 <= end /\ mem[end - 1] > val)
  /\ fn = "FindFirstGE" =>
       /\ -1 <= begin /\ begin < end /\ end <= length - 1
       /\ \A i \in 0..(length - 1) : i <= begin => mem[i] < val
       /\ end = length - 1 \/ mem[end] >= val

\* The inductive invariant: only the ends move, in an array that is sorted, until the
\* loop is left with a result.
SearchInv ==
  /\ SearchTypes /\ Ordered
  /\ result = Search!Running => Ends
  /\ result # Search!Running => Search!ResultIsRight /\ ~Search!Spins

\* Neighbours in order are enough.
LEMMA NeighboursOrdered ==
  ASSUME SearchTypes, \A i \in 0..(length - 2) : mem[i] <= mem[i + 1]
  PROVE  Ordered
<1> DEFINE Gaps == {d \in Nat : \E i \in 0..(length - 1) : i + d \in 0..(length - 1) /\ mem[i] > mem[i + d]}
<1>1. \A i \in (-1)..length : mem[i] \in Int
  BY DEF SearchTypes
<1>2. Gaps = {}
  <2> SUFFICES ASSUME Gaps # {} PROVE FALSE
    OBVIOUS
  <2>1. PICK d \in Gaps : \A e \in Gaps : <<e, d>> \notin OpToRel(<, Nat)
    <3>1. IsWellFoundedOn(OpToRel(<, Nat), Nat)
      BY NatLessThanWellFounded
    <3>2. Gaps \subseteq Nat
      OBVIOUS
    <3> HIDE DEF Gaps
    <3> QED
      BY <3>1, <3>2, WFMin, Zenon
  <2>2. PICK i \in 0..(length - 1) : i + d \in 0..(length - 1) /\ mem[i] > mem[i + d]
    OBVIOUS
  <2>3. d \in Nat /\ d # 0
    BY <1>1, <2>2 DEF SearchTypes
  <2>4. mem[i + (d - 1)] <= mem[i + d]
    <3>1. i + (d - 1) \in 0..(length - 2) /\ (i + (d - 1)) + 1 = i + d
      BY <2>2, <2>3 DEF SearchTypes
    <3> QED
      BY <3>1
  <2>5. i + (d - 1) \in 0..(length - 1) /\ mem[i] > mem[i + (d - 1)]
    <3>1. i + (d - 1) \in 0..(length - 1)
      BY <2>2, <2>3 DEF SearchTypes
    <3>2. mem[i] \in Int /\ mem[i + d] \in Int /\ mem[i + (d - 1)] \in Int
      BY <1>1, <2>2, <3>1 DEF SearchTypes
    <3> QED
      BY <2>2, <2>4, <3>1, <3>2
  <2>6. d - 1 \in Gaps
    BY <2>3, <2>5
  <2>7. <<d - 1, d>> \in OpToRel(<, Nat)
    BY <2>3 DEF OpToRel
  <2> QED
    BY <2>1, <2>6, <2>7
<1>3. ASSUME NEW i \in 0..(length - 1), NEW j \in 0..(length - 1), i <= j
      PROVE  mem[i] <= mem[j]
  <2>1. j - i \in Nat /\ i + (j - i) = j
    BY <1>3 DEF SearchTypes
  <2>2. ~(mem[i] > mem[j])
    BY <1>2, <2>1
  <2>3. i \in (-1)..length /\ j \in (-1)..length
    BY DEF SearchTypes
  <2> QED
    BY <1>1, <2>2, <2>3
<1> QED
  BY <1>3 DEF Ordered

LEMMA SearchStarts == SearchSizes /\ Search!Init => SearchInv
<1> SUFFICES ASSUME SearchSizes, Search!Init PROVE SearchInv
  OBVIOUS
<1>1. length \in Nat \ {0}
  BY DEF Search!Init, SearchSizes
<1>2. mem \in [(-1)..length -> Int]
  BY DEF Search!Init, SearchSizes
<1>3. begin \in Int /\ end \in Int /\ val \in Int
  BY <1>1 DEF Search!Init, SearchSizes
<1>4. result = Search!Running /\ result \in Int
  BY DEF Search!Init, Search!Running
<1>5. SearchTypes
  BY <1>1, <1>2, <1>3, <1>4 DEF SearchTypes, Search!Init
<1>6. Ordered
  BY <1>5, NeighboursOrdered DEF Search!Init
<1>7. Ends
  BY <1>1 DEF Search!Init, Search!Shifted, Ends
<1> QED
  BY <1>4, <1>5, <1>6, <1>7 DEF SearchInv

\* The place in the middle, while the loop runs.
LEMMA Middle ==
  ASSUME SearchTypes, begin < end - 1
  PROVE  Search!mid \in Int /\ begin + 1 <= Search!mid /\ Search!mid <= end - 1
BY DEF SearchTypes, Search!mid

\* A round keeps what is known of the ends.
LEMMA RoundKeeps ==
  ASSUME SearchInv, Search!Round
  PROVE  SearchInv'
<1>1. /\ fn' = fn /\ length' = length /\ mem' = mem /\ val' = val
      /\ result = Search!Running /\ begin < end - 1
  BY DEF Search!Round
<1>2. SearchTypes /\ Ordered /\ Ends
  BY <1>1 DEF SearchInv
<1>3. PICK m \in Int : m = Search!mid /\ begin + 1 <= m /\ m <= end - 1
  BY <1>1, <1>2, Middle
<1>4. /\ length \in Nat \ {0} /\ begin \in Int /\ end \in Int /\ val \in Int
      /\ \A i \in (-1)..length : mem[i] \in Int
  BY <1>2 DEF SearchTypes
<1>5. m \in 0..(length - 1) /\ mem[m] \in Int
  BY <1>2, <1>3, <1>4 DEF Ends, SearchTypes, Search!Functions
<1>6. \A i \in 0..(length - 1) : mem[i] \in Int /\ (i <= m => mem[i] <= mem[m]) /\ (m <= i => mem[m] <= mem[i])
  BY <1>2, <1>4, <1>5 DEF Ordered
<1>7. CASE Search!SearchRound
  <2>1. fn = "Search"
    BY <1>7 DEF Search!SearchRound
  <2>2. /\ 0 <= begin /\ begin <= end /\ end <= length
        /\ \A i \in 0..(length - 1) : (i < begin => mem[i] < val) /\ (i >= end => mem[i] > val)
    BY <1>2, <2>1 DEF Ends
  <2>3. CASE mem[m] = val
    <3>1. result' = m /\ begin' = begin /\ end' = end
      BY <1>3, <1>7, <2>3 DEF Search!SearchRound
    <3>2. result' \in Int /\ result' # Search!Running
      BY <1>5, <3>1 DEF Search!Running
    <3>3. SearchTypes' /\ Ordered'
      BY <1>1, <1>2, <3>1, <3>2 DEF SearchTypes, Ordered
    <3>4. Search!ResultIsRight' /\ ~Search!Spins'
      BY <1>1, <1>5, <2>1, <2>3, <3>1 DEF Search!ResultIsRight, Search!Places, Search!Wanted, Search!Spins
    <3> QED
      BY <3>2, <3>3, <3>4 DEF SearchInv
  <2>4. CASE mem[m] # val
    <3>1. result' = result /\ begin' \in Int /\ end' \in Int
      BY <1>3, <1>4, <1>7, <2>4 DEF Search!SearchRound
    <3>2. SearchTypes' /\ Ordered'
      BY <1>1, <1>2, <3>1 DEF SearchTypes, Ordered
    <3>3. IF mem[m] < val THEN begin' = m + 1 /\ end' = end ELSE end' = m /\ begin' = begin
      BY <1>3, <1>7, <2>4 DEF Search!SearchRound
    <3>4. Ends'
      <4>1. CASE mem[m] < val
        <5>1. \A i \in 0..(length - 1) : i < m + 1 => mem[i] < val
          BY <1>3, <1>4, <1>5, <1>6, <4>1
        <5> QED
          BY <1>1, <1>3, <1>4, <1>5, <2>1, <2>2, <3>3, <4>1, <5>1 DEF Ends
      <4>2. CASE ~(mem[m] < val)
        <5>1. \A i \in 0..(length - 1) : i >= m => mem[i] > val
          BY <1>3, <1>4, <1>5, <1>6, <2>4, <4>2
        <5> QED
          BY <1>1, <1>3, <1>4, <1>5, <2>1, <2>2, <3>3, <4>2, <5>1 DEF Ends
      <4> QED
        BY <4>1, <4>2
    <3> QED
      BY <1>1, <3>1, <3>2, <3>4 DEF SearchInv
  <2> QED
    BY <2>3, <2>4
<1>8. CASE ~Search!SearchRound
  <2>1. result' = result /\ begin' \in Int /\ end' \in Int
    <3>1. CASE Search!FindFirstRound
      <4>1. mem[m] = val \/ mem[m] < val \/ mem[m] > val
        BY <1>4, <1>5
      <4> QED
        BY <1>3, <1>4, <3>1, <4>1 DEF Search!FindFirstRound
    <3>2. CASE Search!FindLastRound
      <4>1. mem[m] = val \/ mem[m] < val \/ mem[m] > val
        BY <1>4, <1>5
      <4> QED
        BY <1>3, <1>4, <3>2, <4>1 DEF Search!FindLastRound
    <3>3. CASE Search!FindFirstGTRound
      BY <1>3, <1>4, <3>3 DEF Search!FindFirstGTRound
    <3>4. CASE Search!FindFirstGERound
      BY <1>3, <1>4, <3>4 DEF Search!FindFirstGERound
    <3> QED
      BY <1>8, <3>1, <3>2, <3>3, <3>4 DEF Search!Round
  <2>2. SearchTypes' /\ Ordered'
    BY <1>1, <1>2, <2>1 DEF SearchTypes, Ordered
  <2>3. Ends'
    <3>1. CASE Search!FindFirstRound
      <4>1. fn = "FindFirst"
        BY <3>1 DEF Search!FindFirstRound
      <4>2. /\ -1 <= begin /\ begin <= end /\ end <= length - 1
            /\ \A i \in 0..(length - 1) : i <= begin => mem[i] < val
            /\ mem[end] = val \/ \A i \in 0..(length - 1) : i > end => mem[i] > val
            /\ end = -1 => \A i \in 0..(length - 1) : mem[i] > val
        BY <1>2, <4>1 DEF Ends
      <4>3. CASE mem[m] = val
        <5>1. end' = m /\ begin' = begin
          BY <1>3, <1>4, <1>5, <3>1, <4>3 DEF Search!FindFirstRound
        <5> QED
          BY <1>1, <1>3, <1>4, <1>5, <4>1, <4>2, <4>3, <5>1 DEF Ends
      <4>4. CASE mem[m] < val
        <5>1. end' = end /\ begin' = m
          BY <1>3, <1>4, <1>5, <3>1, <4>4 DEF Search!FindFirstRound
        <5>2. \A i \in 0..(length - 1) : i <= m => mem[i] < val
          BY <1>4, <1>5, <1>6, <4>4
        <5> QED
          BY <1>1, <1>3, <1>4, <1>5, <4>1, <4>2, <5>1, <5>2 DEF Ends
      <4>5. CASE mem[m] > val
        <5>1. end' = m - 1 /\ begin' = begin
          BY <1>3, <1>4, <1>5, <3>1, <4>5 DEF Search!FindFirstRound
        <5>2. \A i \in 0..(length - 1) : i > m - 1 => mem[i] > val
          BY <1>3, <1>4, <1>5, <1>6, <4>5
        <5>3. m - 1 = -1 => \A i \in 0..(length - 1) : mem[i] > val
          BY <1>3, <5>2
        <5> QED
          BY <1>1, <1>3, <1>4, <1>5, <4>1, <4>2, <5>1, <5>2, <5>3 DEF Ends
      <4> QED
        BY <1>4, <1>5, <4>3, <4>4, <4>5
    <3>2. CASE Search!FindLastRound
      <4>1. fn = "FindLast"
        BY <3>2 DEF Search!FindLastRound
      <4>2. /\ 0 <= begin /\ begin <= end /\ end <= length
            /\ \A i \in 0..(length - 1) : i >= end => mem[i] > val
            /\ (begin < end /\ mem[begin] = val) \/ \A i \in 0..(length - 1) : i < begin => mem[i] < val
        BY <1>2, <4>1 DEF Ends
      <4>3. CASE mem[m] = val
        <5>1. end' = end /\ begin' = m
          BY <1>3, <1>4, <1>5, <3>2, <4>3 DEF Search!FindLastRound
        <5> QED
          BY <1>1, <1>3, <1>4, <1>5, <4>1, <4>2, <4>3, <5>1 DEF Ends
      <4>4. CASE mem[m] < val
        <5>1. end' = end /\ begin' = m + 1
          BY <1>3, <1>4, <1>5, <3>2, <4>4 DEF Search!FindLastRound
        <5>2. \A i \in 0..(length - 1) : i < m + 1 => mem[i] < val
          BY <1>3, <1>4, <1>5, <1>6, <4>4
        <5> QED
          BY <1>1, <1>3, <1>4, <1>5, <4>1, <4>2, <5>1, <5>2 DEF Ends
      <4>5. CASE mem[m] > val
        <5>1. end' = m /\ begin' = begin
          BY <1>3, <1>4, <1>5, <3>2, <4>5 DEF Search!FindLastRound
        <5>2. \A i \in 0..(length - 1) : i >= m => mem[i] > val
          BY <1>3, <1>4, <1>5, <1>6, <4>5
        <5> QED
          BY <1>1, <1>3, <1>4, <1>5, <4>1, <4>2, <5>1, <5>2 DEF Ends
      <4> QED
        BY <1>4, <1>5, <4>3, <4>4, <4>5
    <3>3. CASE Search!FindFirstGTRound
      <4>1. fn = "FindFirstGT"
        BY <3>3 DEF Search!FindFirstGTRound
      <4>2. /\ 0 <= begin /\ begin <= end /\ end <= length
            /\ \A i \in 0..(length - 1) : i < begin => mem[i] <= val
            /\ end = length \/ (1 <= end /\ mem[end - 1] > val)
        BY <1>2, <4>1 DEF Ends
      <4>3. CASE mem[m] <= val
        <5>1. end' = end /\ begin' = m + 1
          BY <1>3, <3>3, <4>3 DEF Search!FindFirstGTRound
        <5>2. \A i \in 0..(length - 1) : i < m + 1 => mem[i] <= val
          BY <1>3, <1>4, <1>5, <1>6, <4>3
        <5> QED
          BY <1>1, <1>3, <1>4, <1>5, <4>1, <4>2, <5>1, <5>2 DEF Ends
      <4>4. CASE ~(mem[m] <= val)
        <5>1. end' = m + 1 /\ begin' = begin /\ mem[m + 1 - 1] > val
          BY <1>3, <1>4, <1>5, <3>3, <4>4 DEF Search!FindFirstGTRound
        <5> QED
          BY <1>1, <1>3, <1>4, <1>5, <4>1, <4>2, <5>1 DEF Ends
      <4> QED
        BY <4>3, <4>4
    <3>4. CASE Search!FindFirstGERound
      <4>1. fn = "FindFirstGE"
        BY <3>4 DEF Search!FindFirstGERound
      <4>2. /\ -1 <= begin /\ begin < end /\ end <= length - 1
            /\ \A i \in 0..(length - 1) : i <= begin => mem[i] < val
            /\ end = length - 1 \/ mem[end] >= val
        BY <1>2, <4>1 DEF Ends
      <4>3. CASE mem[m] >= val
        <5>1. end' = m /\ begin' = begin
          BY <1>3, <3>4, <4>3 DEF Search!FindFirstGERound
        <5> QED
          BY <1>1, <1>3, <1>4, <1>5, <4>1, <4>2, <4>3, <5>1 DEF Ends
      <4>4. CASE ~(mem[m] >= val)
        <5>1. end' = end /\ begin' = m
          BY <1>3, <1>4, <1>5, <3>4, <4>4 DEF Search!FindFirstGERound
        <5>2. \A i \in 0..(length - 1) : i <= m => mem[i] < val
          BY <1>4, <1>5, <1>6, <4>4
        <5> QED
          BY <1>1, <1>3, <1>4, <1>5, <4>1, <4>2, <5>1, <5>2 DEF Ends
      <4> QED
        BY <4>3, <4>4
    <3> QED
      BY <1>8, <3>1, <3>2, <3>3, <3>4 DEF Search!Round
  <2> QED
    BY <1>1, <2>1, <2>2, <2>3 DEF SearchInv
<1> QED
  BY <1>7, <1>8

\* The last line of each function returns what was asked for.
LEMMA ReturnIsRight ==
  ASSUME SearchInv, Search!Return
  PROVE  SearchInv'
<1>1. /\ fn' = fn /\ length' = length /\ mem' = mem /\ val' = val /\ begin' = begin /\ end' = end
      /\ result = Search!Running /\ begin >= end - 1
  BY DEF Search!Return
<1>2. SearchTypes /\ Ordered /\ Ends
  BY <1>1 DEF SearchInv
<1>3. /\ length \in Nat \ {0} /\ begin \in Int /\ end \in Int /\ val \in Int
      /\ \A i \in (-1)..length : mem[i] \in Int
  BY <1>2 DEF SearchTypes
<1>4. ~Search!Spins'
  BY <1>1, <1>3 DEF Search!Spins
<1> USE DEF Search!Places, Search!Wanted
<1>5. CASE fn = "Search"
  <2>1. /\ 0 <= begin /\ begin <= end /\ end <= length
        /\ \A i \in 0..(length - 1) : (i < begin => mem[i] < val) /\ (i >= end => mem[i] > val)
    BY <1>2, <1>5 DEF Ends
  <2>2. result' = IF mem[begin] = val THEN begin ELSE length
    BY <1>5 DEF Search!Return
  <2>3. Search!ResultIsRight'
    <3>1. CASE mem[begin] = val /\ begin < length
      BY <1>1, <1>3, <1>5, <2>1, <2>2, <3>1 DEF Search!ResultIsRight, Search!Running
    <3>2. CASE ~(mem[begin] = val /\ begin < length)
      <4>1. result' = length
        BY <1>3, <2>1, <2>2, <3>2, <1>1
      <4>2. \A i \in 0..(length - 1) : mem[i] # val
        BY <1>1, <1>3, <2>1, <3>2
      <4> QED
        BY <1>1, <1>5, <4>1, <4>2 DEF Search!ResultIsRight
    <3> QED
      BY <1>3, <3>1, <3>2
  <2>4. result' \in Int /\ result' # Search!Running
    BY <1>3, <2>1, <2>2 DEF Search!Running
  <2> QED
    BY <1>1, <1>2, <1>4, <2>3, <2>4 DEF SearchInv, SearchTypes, Ordered
<1>6. CASE fn = "FindFirst"
  <2>1. /\ -1 <= begin /\ begin <= end /\ end <= length - 1
        /\ \A i \in 0..(length - 1) : i <= begin => mem[i] < val
        /\ mem[end] = val \/ \A i \in 0..(length - 1) : i > end => mem[i] > val
        /\ end = -1 => \A i \in 0..(length - 1) : mem[i] > val
    BY <1>2, <1>6 DEF Ends
  <2>2. result' = IF mem[end] = val THEN end ELSE length
    BY <1>6 DEF Search!Return
  <2>3. Search!ResultIsRight'
    <3>1. CASE mem[end] = val /\ end >= 0
      <4>1. \A i \in 0..(length - 1) : mem[i] = val => end <= i
        BY <1>1, <1>3, <2>1, <3>1
      <4> QED
        BY <1>1, <1>3, <1>6, <2>1, <2>2, <3>1, <4>1 DEF Search!ResultIsRight
    <3>2. CASE mem[end] = val /\ ~(end >= 0)
      <4>1. end = -1
        BY <1>3, <2>1, <3>2
      <4> QED
        BY <1>1, <1>6, <2>1, <2>2, <3>2, <4>1 DEF Search!ResultIsRight
    <3>3. CASE mem[end] # val
      <4>1. \A i \in 0..(length - 1) : mem[i] # val
        BY <1>1, <1>3, <2>1, <3>3
      <4> QED
        BY <1>1, <1>6, <2>2, <3>3, <4>1 DEF Search!ResultIsRight
    <3> QED
      BY <1>3, <3>1, <3>2, <3>3
  <2>4. result' \in Int /\ result' # Search!Running
    BY <1>3, <2>1, <2>2 DEF Search!Running
  <2> QED
    BY <1>1, <1>2, <1>4, <2>3, <2>4 DEF SearchInv, SearchTypes, Ordered
<1>7. CASE fn = "FindLast"
  <2>1. /\ 0 <= begin /\ begin <= end /\ end <= length
        /\ \A i \in 0..(length - 1) : i >= end => mem[i] > val
        /\ (begin < end /\ mem[begin] = val) \/ \A i \in 0..(length - 1) : i < begin => mem[i] < val
    BY <1>2, <1>7 DEF Ends
  <2>2. result' = IF mem[begin] = val THEN begin ELSE length
    BY <1>7 DEF Search!Return
  <2>3. Search!ResultIsRight'
    <3>1. CASE mem[begin] = val /\ begin < length
      <4>1. \A i \in 0..(length - 1) : mem[i] = val => i <= begin
        BY <1>1, <1>3, <2>1, <3>1
      <4> QED
        BY <1>1, <1>3, <1>7, <2>1, <2>2, <3>1, <4>1 DEF Search!ResultIsRight
    <3>2. CASE ~(mem[begin] = val /\ begin < length)
      <4>1. result' = length
        BY <1>3, <2>1, <2>2, <3>2
      <4>2. \A i \in 0..(length - 1) : mem[i] # val
        BY <1>1, <1>3, <2>1, <3>2
      <4> QED
        BY <1>1, <1>7, <4>1, <4>2 DEF Search!ResultIsRight
    <3> QED
      BY <1>3, <3>1, <3>2
  <2>4. result' \in Int /\ result' # Search!Running
    BY <1>3, <2>1, <2>2 DEF Search!Running
  <2> QED
    BY <1>1, <1>2, <1>4, <2>3, <2>4 DEF SearchInv, SearchTypes, Ordered
<1>8. CASE fn = "FindFirstGT"
  <2>1. /\ 0 <= begin /\ begin <= end /\ end <= length
        /\ \A i \in 0..(length - 1) : i < begin => mem[i] <= val
        /\ end = length \/ (1 <= end /\ mem[end - 1] > val)
    BY <1>2, <1>8 DEF Ends
  <2>2. result' = IF mem[begin] > val THEN begin ELSE length
    BY <1>8 DEF Search!Return
  <2>3. Search!ResultIsRight'
    <3>1. CASE mem[begin] > val /\ begin < length
      <4>1. \A i \in 0..(length - 1) : mem[i] > val => begin <= i
        BY <1>3, <2>1
      <4> QED
        BY <1>1, <1>3, <1>8, <2>1, <2>2, <3>1, <4>1 DEF Search!ResultIsRight
    <3>2. CASE ~(mem[begin] > val /\ begin < length)
      <4>1. result' = length
        BY <1>3, <2>1, <2>2, <3>2
      <4>2. end = length
        <5>1. CASE begin = end
          <6>1. CASE end # length
            <7>1. end - 1 \in 0..(length - 1) /\ end - 1 < begin
              BY <1>3, <2>1, <5>1, <6>1
            <7>2. mem[end - 1] <= val /\ mem[end - 1] \in Int
              BY <1>3, <2>1, <7>1
            <7> QED
              BY <1>3, <2>1, <6>1, <7>2
          <6> QED
            BY <6>1
        <5>2. CASE begin = end - 1
          BY <1>3, <2>1, <3>2, <5>2
        <5> QED
          BY <1>1, <1>3, <2>1, <5>1, <5>2
      <4>3. \A i \in 0..(length - 1) : ~(mem[i] > val)
        BY <1>1, <1>3, <2>1, <3>2, <4>2
      <4> QED
        BY <1>1, <1>8, <4>1, <4>3 DEF Search!ResultIsRight
    <3> QED
      BY <1>3, <3>1, <3>2
  <2>4. result' \in Int /\ result' # Search!Running
    BY <1>3, <2>1, <2>2 DEF Search!Running
  <2> QED
    BY <1>1, <1>2, <1>4, <2>3, <2>4 DEF SearchInv, SearchTypes, Ordered
<1>9. CASE fn = "FindFirstGE"
  <2>1. /\ -1 <= begin /\ begin < end /\ end <= length - 1
        /\ \A i \in 0..(length - 1) : i <= begin => mem[i] < val
        /\ end = length - 1 \/ mem[end] >= val
    BY <1>2, <1>9 DEF Ends
  <2>2. result' = IF mem[end] >= val THEN end ELSE length
    BY <1>9 DEF Search!Return
  <2>3. Search!ResultIsRight'
    <3>1. CASE mem[end] >= val
      <4>1. \A i \in 0..(length - 1) : mem[i] >= val => end <= i
        BY <1>1, <1>3, <2>1
      <4> QED
        BY <1>1, <1>3, <1>9, <2>1, <2>2, <3>1, <4>1 DEF Search!ResultIsRight
    <3>2. CASE ~(mem[end] >= val)
      <4>1. \A i \in 0..(length - 1) : ~(mem[i] >= val)
        BY <1>1, <1>3, <2>1, <3>2
      <4> QED
        BY <1>1, <1>9, <2>2, <3>2, <4>1 DEF Search!ResultIsRight
    <3> QED
      BY <1>3, <3>1, <3>2
  <2>4. result' \in Int /\ result' # Search!Running
    BY <1>3, <2>1, <2>2 DEF Search!Running
  <2> QED
    BY <1>1, <1>2, <1>4, <2>3, <2>4 DEF SearchInv, SearchTypes, Ordered
<1> QED
  BY <1>2, <1>5, <1>6, <1>7, <1>8, <1>9 DEF SearchTypes, Search!Functions

LEMMA SearchKeeps == SearchInv /\ [Search!Next]_(Search!vars) => SearchInv'
<1> SUFFICES ASSUME SearchInv, [Search!Next]_(Search!vars) PROVE SearchInv'
  OBVIOUS
<1>1. CASE Search!Round
  BY <1>1, RoundKeeps
<1>2. CASE Search!Return
  BY <1>2, ReturnIsRight
<1>3. CASE UNCHANGED Search!vars
  <2>1. /\ fn' = fn /\ length' = length /\ mem' = mem /\ val' = val
        /\ begin' = begin /\ end' = end /\ result' = result
    BY <1>3 DEF Search!vars
  <2>2. SearchTypes' /\ Ordered'
    BY <2>1 DEF SearchInv, SearchTypes, Ordered
  <2>3. Ends' = Ends
    BY <2>1 DEF Ends
  <2>4. Search!ResultIsRight' = Search!ResultIsRight
    BY <2>1 DEF Search!ResultIsRight, Search!Places, Search!Wanted
  <2>5. Search!Spins' = Search!Spins
    BY <2>1 DEF Search!Spins
  <2> QED
    BY <2>1, <2>2, <2>3, <2>4, <2>5 DEF SearchInv
<1> QED
  BY <1>1, <1>2, <1>3 DEF Search!Next

\* BinarySearch.cpp: in every sorted array and for every value, what a search returns is
\* the first place, or the last, or any, that answers its question, and end_ if there is
\* none; but FindFirst goes by the place before the array when that happens to hold the
\* value.
THEOREM SearchesFind ==
  ASSUME SearchSizes
  PROVE  Search!Spec => []Search!ResultIsRight
<1>1. Search!Init => SearchInv
  BY SearchStarts
<1>2. SearchInv => Search!ResultIsRight
  BY DEF SearchInv, Search!ResultIsRight
<1> QED
  BY <1>1, <1>2, SearchKeeps, PTL DEF Search!Spec

\* While FindFirstGT spins its round puts every variable back where it was.
LEMMA SpinStays ==
  SearchInv /\ Search!Spins /\ [Search!Next]_(Search!vars) => Search!Spins'
<1> SUFFICES ASSUME SearchInv, Search!Spins, [Search!Next]_(Search!vars) PROVE Search!Spins'
  OBVIOUS
<1>1. fn = "FindFirstGT" /\ end = begin + 2 /\ mem[begin + 1] > val
  BY DEF Search!Spins
<1>2. SearchTypes /\ result = Search!Running /\ Ends
  BY DEF SearchInv
<1>3. /\ begin \in Int /\ val \in Int /\ mem[begin + 1] \in Int
  BY <1>1, <1>2 DEF SearchTypes, Ends
<1>4. Search!mid = begin + 1
  BY <1>1, <1>3 DEF Search!mid
<1>5. CASE Search!Round
  <2>1. Search!FindFirstGTRound /\ fn' = fn /\ mem' = mem /\ val' = val
    BY <1>1, <1>5 DEF Search!Round, Search!SearchRound, Search!FindFirstRound, Search!FindLastRound,
       Search!FindFirstGERound
  <2>2. begin' = begin /\ end' = begin + 2
    BY <1>1, <1>3, <1>4, <2>1 DEF Search!FindFirstGTRound
  <2> QED
    BY <1>1, <2>1, <2>2 DEF Search!Spins
<1>6. ~Search!Return
  BY <1>1, <1>3 DEF Search!Return
<1>7. CASE UNCHANGED Search!vars
  BY <1>7 DEF Search!vars, Search!Spins
<1> QED
  BY <1>5, <1>6, <1>7 DEF Search!Next

\* BinarySearch.cpp:69: once FindFirstGT has come to two places of which the second is
\* greater, it never returns.  The asserts of lines 109 to 112 run into that.
THEOREM FindFirstGTSpins ==
  ASSUME SearchSizes
  PROVE  Search!Spec => Search!NeverReturns
<1>1. Search!Init => SearchInv
  BY SearchStarts
<1>2. SearchInv /\ Search!Spins => result = Search!Running
  BY DEF SearchInv
<1> QED
  BY <1>1, <1>2, SearchKeeps, SpinStays, PTL DEF Search!Spec, Search!NeverReturns

-------------------------------------------------------------------------------
(* The objects destroyed at exit, of every number and longevity *)

Tracked == [id : Nat, longevity : Int]

\* The order of destruction, from the last to the first.
Before(p, q) == p.longevity < q.longevity \/ (p.longevity = q.longevity /\ p.id < q.id)
Ascending(array) == \A i, j \in DOMAIN array : i < j => Before(array[i], array[j])

\* The inductive invariant: the array is sorted, the object of equal longevity that came
\* later behind the other; and every object is either there or destroyed.
ExitState(array, gone, count, calls) ==
  /\ array \in Seq(Tracked) /\ gone \in Seq(Tracked) /\ count \in Nat
  /\ calls = Len(array) /\ Len(array) + Len(gone) = count /\ Ascending(array)
  /\ \A m : Among(m, array) \/ Among(m, gone) => m.id < count
  /\ \A t \in 0..(count - 1) : \E m : m.id = t /\ (Among(m, array) \/ Among(m, gone))

ExitInv == ExitState(pTrackerArray, destroyed, tracked, pending)

\* A set of numbers has a smallest one.
LEMMA SmallestOf == ASSUME NEW S \in SUBSET Nat, S # {} PROVE \E m \in S : \A k \in S : m <= k
<1>1. \E m \in S : \A k \in S : ~(<<k, m>> \in OpToRel(<, Nat))
  BY NatLessThanWellFounded, WFMin
<1>2. \A k \in S, m \in S : <<k, m>> \in OpToRel(<, Nat) <=> k < m
  BY DEF OpToRel
<1>3. PICK m \in S : \A k \in S : ~(k < m)
  BY <1>1, <1>2
<1> QED
  BY <1>3

\* std::upper_bound() finds the place between those that are not larger and those that are.
LEMMA UpperBound ==
  ASSUME NEW array \in Seq(Tracked), Ascending(array), NEW l \in Int
  PROVE  \E p \in 1..(Len(array) + 1) :
           /\ p = Len(array) + 1 - Exits!Cardinality({i \in DOMAIN array : array[i].longevity > l})
           /\ \A i \in DOMAIN array : IF i < p THEN array[i].longevity <= l ELSE array[i].longevity > l
<1>1. /\ DOMAIN array = 1..Len(array) /\ Len(array) \in Nat
      /\ \A i \in DOMAIN array : array[i].longevity \in Int
  <2>1. \A i \in DOMAIN array : array[i] \in Tracked
    OBVIOUS
  <2>2. \A i \in DOMAIN array : array[i].longevity \in Int
    BY <2>1 DEF Tracked
  <2> QED
    BY <2>2
<1>2. PICK L : L = {i \in DOMAIN array : array[i].longevity > l}
  OBVIOUS
<1>3. Exits!Cardinality(L) = Cardinality(L)
  BY DEF Exits!Cardinality, Cardinality
<1>4. CASE L = {}
  <2>1. Cardinality(L) = 0
    BY <1>4, FS_EmptySet
  <2>2. \A i \in DOMAIN array : array[i].longevity <= l
    BY <1>1, <1>2, <1>4
  <2>3. Len(array) + 1 \in 1..(Len(array) + 1) /\ Len(array) + 1 = Len(array) + 1 - Exits!Cardinality(L)
    BY <1>1, <1>3, <2>1
  <2>4. \A i \in DOMAIN array : i < Len(array) + 1
    BY <1>1
  <2> QED
    BY <1>2, <2>2, <2>3, <2>4
<1>5. CASE L # {}
  <2>1. PICK p \in L : \A k \in L : p <= k
    <3>1. L \subseteq Nat
      BY <1>1, <1>2
    <3> QED
      BY <1>5, <3>1, SmallestOf
  <2>2. p \in 1..Len(array) /\ array[p].longevity > l
    BY <1>1, <1>2
  <2>3. \A i \in p..Len(array) : array[i].longevity > l
    <3> SUFFICES ASSUME NEW i \in p..Len(array) PROVE array[i].longevity > l
      OBVIOUS
    <3>1. i = p \/ Before(array[p], array[i])
      BY <1>1, <2>2 DEF Ascending
    <3>2. i \in DOMAIN array /\ p \in DOMAIN array
      BY <1>1, <2>2
    <3> QED
      BY <1>1, <2>2, <3>1, <3>2 DEF Before
  <2>4. L = p..Len(array)
    <3>1. \A i \in L : i \in p..Len(array)
      BY <1>1, <1>2, <2>1
    <3>2. \A i \in p..Len(array) : i \in L
      BY <1>1, <1>2, <2>2, <2>3
    <3> QED
      BY <3>1, <3>2
  <2>5. Cardinality(L) = Len(array) - p + 1
    BY <1>1, <2>2, <2>4, FS_Interval
  <2>6. p = Len(array) + 1 - Exits!Cardinality(L) /\ p \in 1..(Len(array) + 1)
    BY <1>1, <1>3, <2>2, <2>5
  <2>7. \A i \in DOMAIN array : IF i < p THEN array[i].longevity <= l ELSE array[i].longevity > l
    <3> SUFFICES ASSUME NEW i \in DOMAIN array
                 PROVE  IF i < p THEN array[i].longevity <= l ELSE array[i].longevity > l
      OBVIOUS
    <3>1. CASE i < p
      <4>1. i \notin L
        BY <1>1, <2>1, <2>2, <3>1
      <4> QED
        BY <1>1, <1>2, <3>1, <4>1
    <3>2. CASE ~(i < p)
      BY <1>1, <2>2, <2>3, <3>2
    <3> QED
      BY <3>1, <3>2
  <2> QED
    BY <1>2, <2>6, <2>7
<1> QED
  BY <1>4, <1>5

LEMMA InsertedKeeps ==
  ASSUME NEW array \in Seq(Tracked), Ascending(array), NEW obj \in Tracked,
         \A i \in DOMAIN array : array[i].id < obj.id,
         NEW new, new = Exits!Inserted(array, obj)
  PROVE  /\ new \in Seq(Tracked) /\ Len(new) = Len(array) + 1 /\ Ascending(new)
         /\ \A m : Among(m, new) <=> m = obj \/ Among(m, array)
<1>1. DOMAIN array = 1..Len(array) /\ Len(array) \in Nat /\ \A i \in DOMAIN array : array[i] \in Tracked
  OBVIOUS
<1>2. obj.longevity \in Int /\ obj.id \in Nat
  BY DEF Tracked
<1>3. PICK p \in 1..(Len(array) + 1) :
        /\ p = Len(array) + 1
                 - Exits!Cardinality({i \in DOMAIN array : array[i].longevity > obj.longevity})
        /\ \A i \in DOMAIN array : IF i < p THEN array[i].longevity <= obj.longevity
                                           ELSE array[i].longevity > obj.longevity
  BY <1>2, UpperBound
<1>4. PICK before, behind, one :
        before = SubSeq(array, 1, p - 1) /\ behind = SubSeq(array, p, Len(array)) /\ one = <<obj>>
  OBVIOUS
<1>5. PICK both : both = before \o one
  OBVIOUS
<1>6. new = both \o behind
  BY <1>3, <1>4, <1>5 DEF Exits!Inserted, Exits!InsertAt
<1>7. /\ before \in Seq(Tracked) /\ Len(before) = p - 1
      /\ \A i \in 1..(p - 1) : before[i] = array[i]
  <2>1. 1 \in Int /\ p - 1 \in Int /\ \A i \in 1..(p - 1) : array[i] \in Tracked
    BY <1>1
  <2>2. /\ SubSeq(array, 1, p - 1) \in Seq(Tracked)
        /\ Len(SubSeq(array, 1, p - 1)) = IF 1 <= p - 1 THEN p - 1 - 1 + 1 ELSE 0
        /\ \A i \in 1..(p - 1 - 1 + 1) : SubSeq(array, 1, p - 1)[i] = array[1 + i - 1]
    BY <2>1, SubSeqProperties
  <2> QED
    BY <1>1, <1>4, <2>2
<1>8. /\ behind \in Seq(Tracked) /\ Len(behind) = Len(array) + 1 - p
      /\ \A i \in 1..(Len(array) + 1 - p) : behind[i] = array[p + i - 1]
  <2>1. p \in Int /\ Len(array) \in Int /\ \A i \in p..Len(array) : array[i] \in Tracked
    BY <1>1
  <2>2. /\ SubSeq(array, p, Len(array)) \in Seq(Tracked)
        /\ Len(SubSeq(array, p, Len(array))) = IF p <= Len(array) THEN Len(array) - p + 1 ELSE 0
        /\ \A i \in 1..(Len(array) - p + 1) : SubSeq(array, p, Len(array))[i] = array[p + i - 1]
    BY <2>1, SubSeqProperties
  <2> QED
    BY <1>1, <1>4, <2>2
<1>9. /\ both \in Seq(Tracked) /\ Len(both) = p
      /\ \A i \in 1..p : both[i] = IF i < p THEN array[i] ELSE obj
  <2>1. one \in Seq(Tracked) /\ Len(one) = 1 /\ one[1] = obj
    BY <1>4
  <2>2. /\ both \in Seq(Tracked) /\ Len(both) = Len(before) + Len(one)
        /\ \A i \in 1..(Len(before) + Len(one)) :
             both[i] = IF i <= Len(before) THEN before[i] ELSE one[i - Len(before)]
    <3>1. before \in Seq(Tracked) /\ one \in Seq(Tracked)
      BY <1>7, <2>1
    <3> QED
      BY <1>5, <3>1, Joined
  <2>3. Len(before) + Len(one) = p
    BY <1>7, <2>1
  <2>4. \A i \in 1..p : both[i] = IF i < p THEN array[i] ELSE obj
    <3> SUFFICES ASSUME NEW i \in 1..p PROVE both[i] = IF i < p THEN array[i] ELSE obj
      OBVIOUS
    <3>1. CASE i < p
      <4>1. i \in 1..(p - 1) /\ i <= p - 1
        BY <3>1
      <4> QED
        BY <1>7, <2>2, <2>3, <3>1, <4>1
    <3>2. CASE i = p
      BY <1>7, <2>1, <2>2, <2>3, <3>2
    <3> QED
      BY <3>1, <3>2
  <2> QED
    BY <2>2, <2>3, <2>4
<1>10. /\ new \in Seq(Tracked) /\ Len(new) = p + (Len(array) + 1 - p)
       /\ \A i \in 1..(p + (Len(array) + 1 - p)) :
            new[i] = IF i <= p THEN both[i] ELSE behind[i - p]
  <2>1. both \in Seq(Tracked) /\ behind \in Seq(Tracked)
    BY <1>8, <1>9
  <2>2. /\ new \in Seq(Tracked) /\ Len(new) = Len(both) + Len(behind)
        /\ \A i \in 1..(Len(both) + Len(behind)) :
             new[i] = IF i <= Len(both) THEN both[i] ELSE behind[i - Len(both)]
    BY <1>6, <2>1, Joined
  <2> QED
    BY <1>8, <1>9, <2>2
<1>11. /\ Len(new) = Len(array) + 1 /\ DOMAIN new = 1..(Len(array) + 1)
       /\ \A i \in 1..(Len(array) + 1) :
            new[i] = IF i < p THEN array[i] ELSE IF i = p THEN obj ELSE array[i - 1]
  <2>1. p + (Len(array) + 1 - p) = Len(array) + 1
    BY <1>1
  <2>2. DOMAIN new = 1..Len(new)
    BY <1>10
  <2>3. ASSUME NEW i \in 1..(Len(array) + 1)
        PROVE  new[i] = IF i < p THEN array[i] ELSE IF i = p THEN obj ELSE array[i - 1]
    <3>1. CASE i <= p
      <4>1. new[i] = both[i] /\ i \in 1..p
        BY <1>10, <2>1, <3>1
      <4> QED
        BY <1>9, <3>1, <4>1
    <3>2. CASE ~(i <= p)
      <4>1. new[i] = behind[i - p] /\ i - p \in 1..(Len(array) + 1 - p) /\ p + (i - p) - 1 = i - 1
        BY <1>1, <1>10, <2>1, <3>2
      <4>2. behind[i - p] = array[p + (i - p) - 1]
        BY <1>8, <4>1, Zenon
      <4> QED
        BY <3>2, <4>1, <4>2
    <3> QED
      BY <3>1, <3>2
  <2> QED
    BY <1>10, <2>1, <2>2, <2>3

<1>12. Ascending(new)
  <2> SUFFICES ASSUME NEW i \in 1..(Len(array) + 1), NEW j \in 1..(Len(array) + 1), i < j
               PROVE  Before(new[i], new[j])
    BY <1>11 DEF Ascending
  <2>1. CASE i # p /\ j # p
    <3>1. PICK x \in DOMAIN array : x = (IF i < p THEN i ELSE i - 1) /\ new[i] = array[x]
      BY <1>1, <1>11, <2>1
    <3>2. PICK y \in DOMAIN array : y = (IF j < p THEN j ELSE j - 1) /\ new[j] = array[y]
      BY <1>1, <1>11, <2>1
    <3>3. x < y
      BY <2>1, <3>1, <3>2
    <3> QED
      BY <3>1, <3>2, <3>3 DEF Ascending
  <2>2. CASE i # p /\ j = p
    <3>1. i \in DOMAIN array /\ i < p /\ new[i] = array[i] /\ new[j] = obj
      BY <1>1, <1>11, <2>2
    <3>2. array[i].longevity <= obj.longevity /\ array[i].id < obj.id
      BY <1>3, <3>1
    <3>3. array[i].longevity \in Int
      BY <1>1, <3>1 DEF Tracked
    <3> QED
      BY <1>2, <3>1, <3>2, <3>3 DEF Before
  <2>3. CASE i = p
    <3>1. j - 1 \in DOMAIN array /\ ~(j - 1 < p) /\ new[i] = obj /\ new[j] = array[j - 1]
      BY <1>1, <1>11, <2>3
    <3>2. array[j - 1].longevity > obj.longevity
      BY <1>3, <3>1
    <3>3. array[j - 1].longevity \in Int
      BY <1>1, <3>1 DEF Tracked
    <3> QED
      BY <1>2, <3>1, <3>2, <3>3 DEF Before
  <2> QED
    BY <2>1, <2>2, <2>3
<1>13. ASSUME NEW m PROVE Among(m, new) <=> m = obj \/ Among(m, array)
  <2>1. ASSUME NEW i \in DOMAIN array PROVE \E j \in DOMAIN new : new[j] = array[i]
    <3>1. CASE i < p
      BY <1>1, <1>11, <3>1
    <3>2. CASE ~(i < p)
      <4>1. i + 1 \in DOMAIN new /\ new[i + 1] = array[i]
        BY <1>1, <1>11, <3>2
      <4> QED
        BY <4>1
    <3> QED
      BY <3>1, <3>2
  <2>2. p \in DOMAIN new /\ new[p] = obj
    BY <1>11
  <2>3. ASSUME NEW j \in DOMAIN new PROVE new[j] = obj \/ \E i \in DOMAIN array : array[i] = new[j]
    <3>1. CASE j < p
      BY <1>1, <1>11, <3>1
    <3>2. CASE j > p
      <4>1. j - 1 \in DOMAIN array /\ new[j] = array[j - 1]
        BY <1>1, <1>11, <3>2
      <4> QED
        BY <4>1
    <3> QED
      BY <1>1, <1>11, <2>2, <3>1, <3>2
  <2> QED
    BY <2>1, <2>2, <2>3 DEF Among
<1> QED
  BY <1>10, <1>11, <1>12, <1>13

\* The last object of the array leaves it.
LEMMA TopTaken ==
  ASSUME NEW array \in Seq(Tracked), Ascending(array), Len(array) # 0,
         NEW rest, rest = SubSeq(array, 1, Len(array) - 1), NEW top, top = Exits!Last(array)
  PROVE  /\ rest \in Seq(Tracked) /\ Len(rest) = Len(array) - 1 /\ Ascending(rest)
         /\ top \in Tracked /\ Among(top, array)
         /\ \A m : Among(m, array) <=> m = top \/ Among(m, rest)
         /\ \A m : Among(m, array) =>
              m.longevity < top.longevity \/ (m.longevity = top.longevity /\ m.id <= top.id)
<1>1. DOMAIN array = 1..Len(array) /\ Len(array) \in Nat \ {0} /\ \A i \in DOMAIN array : array[i] \in Tracked
  OBVIOUS
<1>2. top = array[Len(array)] /\ Len(array) \in DOMAIN array /\ top \in Tracked
  BY <1>1 DEF Exits!Last
<1>3. /\ rest \in Seq(Tracked) /\ Len(rest) = Len(array) - 1 /\ DOMAIN rest = 1..(Len(array) - 1)
      /\ \A i \in 1..(Len(array) - 1) : rest[i] = array[i]
  <2>1. 1 \in Int /\ Len(array) - 1 \in Int /\ \A i \in 1..(Len(array) - 1) : array[i] \in Tracked
    BY <1>1
  <2>2. /\ SubSeq(array, 1, Len(array) - 1) \in Seq(Tracked)
        /\ Len(SubSeq(array, 1, Len(array) - 1)) = IF 1 <= Len(array) - 1 THEN Len(array) - 1 - 1 + 1 ELSE 0
        /\ \A i \in 1..(Len(array) - 1 - 1 + 1) : SubSeq(array, 1, Len(array) - 1)[i] = array[1 + i - 1]
    BY <2>1, SubSeqProperties
  <2> QED
    BY <1>1, <2>2
<1>4. Ascending(rest)
  BY <1>1, <1>3 DEF Ascending
<1>5. ASSUME NEW m PROVE Among(m, array) <=> m = top \/ Among(m, rest)
  <2>1. \A i \in DOMAIN array : i = Len(array) \/ i \in DOMAIN rest
    BY <1>1, <1>3
  <2>2. \A i \in DOMAIN rest : i \in DOMAIN array
    BY <1>1, <1>3
  <2> QED
    BY <1>2, <1>3, <2>1, <2>2 DEF Among
<1>6. ASSUME NEW i \in DOMAIN array
      PROVE  LET m == array[i] IN
             m.longevity < top.longevity \/ (m.longevity = top.longevity /\ m.id <= top.id)
  <2>1. CASE i = Len(array)
    <3>1. top.id \in Nat
      BY <1>2 DEF Tracked
    <3> QED
      BY <1>2, <2>1, <3>1
  <2>2. CASE i # Len(array)
    <3>1. Before(array[i], top)
      BY <1>1, <1>2, <2>2 DEF Ascending
    <3>2. top.id \in Nat /\ array[i].id \in Nat
      BY <1>1, <1>2 DEF Tracked
    <3> QED
      BY <3>1, <3>2 DEF Before
  <2> QED
    BY <2>1, <2>2
<1> QED
  BY <1>2, <1>3, <1>4, <1>5, <1>6 DEF Among

LEMMA ExitStep ==
  ASSUME LongevitiesAreNumbers, ExitInv, [Exits!Next]_(Exits!vars)
  PROVE  /\ ExitInv'
         /\ destroyed' # destroyed =>
              \A o \in Exits!ToSet(pTrackerArray) :
                LET top == Exits!Last(destroyed')
                IN o.longevity < top.longevity \/ (o.longevity = top.longevity /\ o.id <= top.id)
<1>1. /\ pTrackerArray \in Seq(Tracked) /\ destroyed \in Seq(Tracked) /\ tracked \in Nat
      /\ Ascending(pTrackerArray) /\ pending = Len(pTrackerArray)
      /\ Len(pTrackerArray) + Len(destroyed) = tracked
  BY DEF ExitInv, ExitState
<1>2. /\ \A m : Among(m, pTrackerArray) => m.id < tracked
      /\ \A m : Among(m, destroyed) => m.id < tracked
      /\ \A t \in 0..(tracked - 1) : \E m : m.id = t /\ (Among(m, pTrackerArray) \/ Among(m, destroyed))
  BY DEF ExitInv, ExitState
\* An object more, by setLongevity() or in the course of atExitFn().
<1>3. ASSUME NEW l \in Longevities
      PROVE  [id |-> tracked, longevity |-> l] \in Tracked /\ [id |-> tracked, longevity |-> l].id = tracked
  BY <1>1 DEF LongevitiesAreNumbers, Tracked
<1>4. ASSUME NEW l \in Longevities, Exits!setLongevity(l)
      PROVE  ExitInv' /\ destroyed' = destroyed
  <2>1. PICK obj \in Tracked : obj = [id |-> tracked, longevity |-> l] /\ obj.id = tracked
    BY <1>3
  <2>2. PICK new : new = Exits!Inserted(pTrackerArray, obj)
    OBVIOUS
  <2>3. /\ pTrackerArray' = new /\ pending' = pending + 1 /\ tracked' = tracked + 1
        /\ destroyed' = destroyed
    BY <1>4, <2>1, <2>2 DEF Exits!setLongevity
  <2>4. \A i \in DOMAIN pTrackerArray : pTrackerArray[i].id < obj.id
    BY <1>2, <2>1 DEF Among
  <2>5. /\ new \in Seq(Tracked) /\ Len(new) = Len(pTrackerArray) + 1 /\ Ascending(new)
        /\ \A m : Among(m, new) <=> m = obj \/ Among(m, pTrackerArray)
    BY <1>1, <2>2, <2>4, InsertedKeeps
  <2>6. \A m : Among(m, new) \/ Among(m, destroyed) => m.id < tracked + 1
    <3> SUFFICES ASSUME NEW m, Among(m, new) \/ Among(m, destroyed) PROVE m.id < tracked + 1
      OBVIOUS
    <3>1. CASE m = obj
      BY <1>1, <2>1, <3>1
    <3>2. CASE m # obj
      <4>1. m.id < tracked /\ m.id \in Nat
        <5>1. Among(m, pTrackerArray) \/ Among(m, destroyed)
          BY <2>5, <3>2
        <5>2. m \in Tracked
          BY <1>1, <5>1 DEF Among
        <5> QED
          BY <1>2, <5>1, <5>2 DEF Tracked
      <4> QED
        BY <1>1, <4>1
    <3> QED
      BY <3>1, <3>2
  <2>7. \A t \in 0..tracked : \E m : m.id = t /\ (Among(m, new) \/ Among(m, destroyed))
    <3> SUFFICES ASSUME NEW t \in 0..tracked
                 PROVE  \E m : m.id = t /\ (Among(m, new) \/ Among(m, destroyed))
      OBVIOUS
    <3>1. CASE t = tracked
      BY <2>1, <2>5, <3>1
    <3>2. CASE t # tracked
      <4>1. t \in 0..(tracked - 1)
        BY <1>1, <3>2
      <4> QED
        BY <1>2, <2>5, <4>1
    <3> QED
      BY <3>1, <3>2
  <2>8. tracked + 1 \in Nat /\ (tracked + 1) - 1 = tracked /\ Len(new) + Len(destroyed) = tracked + 1
    BY <1>1, <2>5
  <2> QED
    <3>1. ExitState(new, destroyed, tracked + 1, pending + 1)
      BY <1>1, <2>5, <2>6, <2>7, <2>8 DEF ExitState
    <3> QED
      BY <2>3, <3>1 DEF ExitInv
<1>5. CASE Exits!exit
  BY <1>5 DEF Exits!exit, ExitInv
<1>6. CASE Exits!atExitFn
  <2>1. PICK array, gone, top, rest :
          /\ array = pTrackerArray /\ gone = Append(destroyed, top)
          /\ top = Exits!Last(pTrackerArray)
          /\ rest = SubSeq(pTrackerArray, 1, Len(pTrackerArray) - 1)
    OBVIOUS
  <2>2. /\ exiting /\ pending > 0 /\ destroyed' = gone
        /\ \/ pTrackerArray' = rest /\ pending' = pending - 1 /\ tracked' = tracked
           \/ \E l \in Longevities :
                /\ pTrackerArray' = Exits!Inserted(rest, [id |-> tracked, longevity |-> l])
                /\ pending' = pending /\ tracked' = tracked + 1
    BY <1>6, <2>1 DEF Exits!atExitFn, Exits!elements
  <2>3. Len(pTrackerArray) # 0 /\ Len(pTrackerArray) \in Nat
    BY <1>1, <2>2
  <2>4. /\ rest \in Seq(Tracked) /\ Len(rest) = Len(pTrackerArray) - 1 /\ Ascending(rest)
        /\ top \in Tracked /\ Among(top, pTrackerArray)
        /\ \A m : Among(m, pTrackerArray) <=> m = top \/ Among(m, rest)
        /\ \A m : Among(m, pTrackerArray) =>
             m.longevity < top.longevity \/ (m.longevity = top.longevity /\ m.id <= top.id)
    <3>1. /\ array \in Seq(Tracked) /\ Ascending(array) /\ Len(array) # 0
          /\ rest = SubSeq(array, 1, Len(array) - 1) /\ top = Exits!Last(array)
      BY <1>1, <2>1, <2>3
    <3>2. /\ rest \in Seq(Tracked) /\ Len(rest) = Len(array) - 1 /\ Ascending(rest)
          /\ top \in Tracked /\ Among(top, array)
          /\ \A m : Among(m, array) <=> m = top \/ Among(m, rest)
          /\ \A m : Among(m, array) =>
               m.longevity < top.longevity \/ (m.longevity = top.longevity /\ m.id <= top.id)
      BY <3>1, TopTaken
    <3> QED
      BY <2>1, <3>2, Zenon
  <2>5. /\ gone \in Seq(Tracked) /\ Len(gone) = Len(destroyed) + 1 /\ Exits!Last(gone) = top
        /\ \A m : Among(m, gone) <=> m = top \/ Among(m, destroyed)
    <3>1. /\ gone \in Seq(Tracked) /\ Len(gone) = Len(destroyed) + 1 /\ Len(destroyed) \in Nat
          /\ DOMAIN gone = 1..(Len(destroyed) + 1) /\ DOMAIN destroyed = 1..Len(destroyed)
          /\ gone[Len(destroyed) + 1] = top
          /\ \A i \in 1..Len(destroyed) : gone[i] = destroyed[i]
      BY <1>1, <2>1, <2>4
    <3>2. Exits!Last(gone) = top
      BY <3>1 DEF Exits!Last
    <3>3. \A i \in DOMAIN gone : i \in DOMAIN destroyed \/ i = Len(destroyed) + 1
      BY <3>1
    <3>4. ASSUME NEW m PROVE Among(m, gone) <=> m = top \/ Among(m, destroyed)
      BY <3>1, <3>3 DEF Among
    <3> QED
      BY <3>1, <3>2, <3>4
  <2>6. /\ \A m : Among(m, rest) \/ Among(m, gone) => m.id < tracked
        /\ \A t \in 0..(tracked - 1) : \E m : m.id = t /\ (Among(m, rest) \/ Among(m, gone))
    BY <1>2, <2>4, <2>5
  <2>7. Len(rest) + Len(gone) = tracked
    <3>1. Len(pTrackerArray) + Len(destroyed) = tracked /\ Len(destroyed) \in Nat
      BY <1>1
    <3>2. Len(rest) = Len(pTrackerArray) - 1 /\ Len(gone) = Len(destroyed) + 1
      BY <2>4, <2>5
    <3> QED
      BY <2>3, <3>1, <3>2
  <2>8. ExitInv'
    <3>1. CASE pTrackerArray' = rest /\ pending' = pending - 1 /\ tracked' = tracked
      <4>1. Len(pTrackerArray) - 1 = Len(rest) /\ pending - 1 = Len(rest)
        BY <1>1, <2>3, <2>4
      <4>2. ExitState(rest, gone, tracked, pending - 1)
        BY <1>1, <2>4, <2>5, <2>6, <2>7, <4>1 DEF ExitState
      <4> QED
        BY <2>2, <3>1, <4>2 DEF ExitInv
    <3>2. ASSUME NEW l \in Longevities,
                 pTrackerArray' = Exits!Inserted(rest, [id |-> tracked, longevity |-> l]),
                 pending' = pending, tracked' = tracked + 1
          PROVE  ExitInv'
      <4>1. PICK obj \in Tracked : obj = [id |-> tracked, longevity |-> l] /\ obj.id = tracked
        BY <1>3
      <4>2. PICK new : new = Exits!Inserted(rest, obj)
        OBVIOUS
      <4>3. \A i \in DOMAIN rest : rest[i].id < obj.id
        BY <2>6, <4>1 DEF Among
      <4>4. /\ new \in Seq(Tracked) /\ Len(new) = Len(rest) + 1 /\ Ascending(new)
            /\ \A m : Among(m, new) <=> m = obj \/ Among(m, rest)
        BY <2>4, <4>2, <4>3, InsertedKeeps
      <4>5. \A m : Among(m, new) \/ Among(m, gone) => m.id < tracked + 1
        <5> SUFFICES ASSUME NEW m, Among(m, new) \/ Among(m, gone) PROVE m.id < tracked + 1
          OBVIOUS
        <5>1. CASE m = obj
          BY <1>1, <4>1, <5>1
        <5>2. CASE m # obj
          <6>1. Among(m, rest) \/ Among(m, gone)
            BY <4>4, <5>2
          <6>2. m \in Tracked
            BY <2>4, <2>5, <6>1 DEF Among
          <6>3. m.id < tracked /\ m.id \in Nat
            BY <2>6, <6>1, <6>2 DEF Tracked
          <6> QED
            BY <1>1, <6>3
        <5> QED
          BY <5>1, <5>2
      <4>6. \A t \in 0..tracked : \E m : m.id = t /\ (Among(m, new) \/ Among(m, gone))
        <5> SUFFICES ASSUME NEW t \in 0..tracked
                     PROVE  \E m : m.id = t /\ (Among(m, new) \/ Among(m, gone))
          OBVIOUS
        <5>1. CASE t = tracked
          BY <4>1, <4>4, <5>1
        <5>2. CASE t # tracked
          <6>1. t \in 0..(tracked - 1)
            BY <1>1, <5>2
          <6> QED
            BY <2>6, <4>4, <6>1
        <5> QED
          BY <5>1, <5>2
      <4>7. /\ tracked + 1 \in Nat /\ (tracked + 1) - 1 = tracked
            /\ Len(new) + Len(gone) = tracked + 1 /\ pending' = Len(new)
        <5>1. pending' = Len(pTrackerArray) /\ Len(new) = Len(pTrackerArray) - 1 + 1
          BY <1>1, <2>4, <3>2, <4>4
        <5>2. Len(destroyed) \in Nat /\ Len(gone) = Len(destroyed) + 1
          BY <1>1, <2>5
        <5> QED
          BY <1>1, <2>3, <5>1, <5>2
      <4>8. pTrackerArray' = new
        BY <3>2, <4>1, <4>2
      <4> QED
        <5>1. ExitState(new, gone, tracked + 1, pending')
          BY <1>1, <2>5, <4>4, <4>5, <4>6, <4>7 DEF ExitState
        <5> QED
          BY <2>2, <3>2, <4>8, <5>1 DEF ExitInv
    <3> QED
      BY <2>2, <3>1, <3>2
  <2>9. \A o \in Exits!ToSet(pTrackerArray) : Among(o, pTrackerArray)
    BY DEF Exits!ToSet, Among
  <2> QED
    BY <2>2, <2>4, <2>5, <2>8, <2>9
<1>7. CASE UNCHANGED Exits!vars
  BY <1>7 DEF Exits!vars, ExitInv
<1> QED
  BY <1>4, <1>5, <1>6, <1>7 DEF Exits!Next, Exits!exit, Exits!vars

\* LifetimeTracker: whatever the longevities, and although a destroyer may use another
\* tracked object for the first time, the array is never empty when atExitFn() is called,
\* and in the end every object is destroyed: there are as many functions to be called as
\* objects in the array.
THEOREM OneCallForEach ==
  ASSUME LongevitiesAreNumbers
  PROVE  Exits!Init /\ [][Exits!Next]_(Exits!vars) => []Exits!OneCallEach
<1>1. Exits!Init => ExitInv
  BY DEF Exits!Init, ExitInv, ExitState, Ascending, Among
<1>2. ExitInv /\ [Exits!Next]_(Exits!vars) => ExitInv'
  BY ExitStep
<1>3. ExitInv => Exits!OneCallEach
  <2> SUFFICES ASSUME ExitInv PROVE Exits!OneCallEach
    OBVIOUS
  <2>1. PICK ids : ids = {o.id : o \in Exits!ToSet(pTrackerArray) \cup Exits!ToSet(destroyed)}
    OBVIOUS
  <2>2. \A m : m \in Exits!ToSet(pTrackerArray) \cup Exits!ToSet(destroyed)
               <=> Among(m, pTrackerArray) \/ Among(m, destroyed)
    BY DEF Exits!ToSet, Among
  <2>3. \A t : t \in ids <=> \E m : m.id = t /\ (Among(m, pTrackerArray) \/ Among(m, destroyed))
    BY <2>1, <2>2
  <2>4. \A m : Among(m, pTrackerArray) \/ Among(m, destroyed) => m.id \in 0..(tracked - 1)
    <3>1. \A m : Among(m, pTrackerArray) \/ Among(m, destroyed) => m \in Tracked /\ m.id < tracked
      BY DEF ExitInv, ExitState, Among
    <3> QED
      BY <3>1 DEF Tracked, ExitInv, ExitState
  <2>5. \A t \in 0..(tracked - 1) : \E m : m.id = t /\ (Among(m, pTrackerArray) \/ Among(m, destroyed))
    BY DEF ExitInv, ExitState
  <2>6. ids = 0..(tracked - 1)
    BY <2>3, <2>4, <2>5
  <2> QED
    BY <2>1, <2>6 DEF Exits!OneCallEach, Exits!elements, ExitInv, ExitState
<1> QED
  BY <1>1, <1>2, <1>3, PTL

\* LifetimeTracker: the object destroyed has the greatest longevity of those there are,
\* and among equals it is the youngest.
THEOREM LongestGoesFirst ==
  ASSUME LongevitiesAreNumbers
  PROVE  Exits!Init /\ [][Exits!Next]_(Exits!vars) => Exits!LongestFirst
<1>1. Exits!Init => ExitInv
  BY DEF Exits!Init, ExitInv, ExitState, Ascending, Among
<1>2. ExitInv /\ [Exits!Next]_(Exits!vars) =>
        ExitInv' /\ [destroyed' # destroyed =>
                       \A o \in Exits!ToSet(pTrackerArray) :
                         LET top == Exits!Last(destroyed')
                         IN o.longevity < top.longevity \/ (o.longevity = top.longevity /\ o.id <= top.id)]_(Exits!vars)
  BY ExitStep
<1> QED
  BY <1>1, <1>2, PTL DEF Exits!LongestFirst

-------------------------------------------------------------------------------
(* The cache simulator, for every geometry and every trace *)

\* A quotient and a remainder are the only ones.
LEMMA Division ==
  ASSUME NEW d \in Nat \ {0}, NEW k \in Nat, NEW r \in 0..(d - 1), NEW x, x = d * k + r
  PROVE  x \in Nat /\ x \div d = k /\ x % d = r
<1>1. x \in Nat
  OBVIOUS
<1>2. PICK k2, r2 : k2 = x \div d /\ r2 = x % d
  OBVIOUS
<1>3. k2 \in Int /\ r2 \in 0..(d - 1) /\ x = d * k2 + r2
  BY <1>1, <1>2
<1>4. d * (k2 - k) = r - r2
  BY <1>1, <1>3
<1>5. k2 - k = 0
  <2>1. PICK m \in Int : m = k2 - k
    BY <1>3
  <2>2. CASE m >= 1
    <3>1. d * m >= d
      BY <2>2
    <3> QED
      BY <1>3, <1>4, <2>1, <3>1
  <2>3. CASE m <= -1
    <3>1. d * m <= -d
      BY <2>3
    <3> QED
      BY <1>3, <1>4, <2>1, <3>1
  <2> QED
    BY <2>1, <2>2, <2>3
<1> QED
  BY <1>1, <1>2, <1>3, <1>4, <1>5

\* The set and the tag of an address are those of its block, and tell the block.
LEMMA AddressParts ==
  ASSUME CacheSizes, NEW a \in Addresses
  PROVE  /\ Cache!BlockOf(a) \in Nat
         /\ Cache!extract_set_bits(a) \in Cache!Sets /\ Cache!extract_tag_bits(a) \in Nat
         /\ Cache!extract_set_bits(a) = Cache!BlockOf(a) % 2^bits_sets
         /\ Cache!BlockOf(a) = 2^bits_sets * Cache!extract_tag_bits(a) + Cache!extract_set_bits(a)
<1>1. PICK q, p : q = 2^bits_sets /\ p = 2^bits_blocks_per_line
  OBVIOUS
<1>2. /\ q \in Nat \ {0} /\ p \in Nat \ {0} /\ 2^(bits_sets + bits_blocks_per_line) = p * q
      /\ a \in Nat /\ p * q \in Nat \ {0}
  BY <1>1 DEF CacheSizes
<1>3. PICK b, v : b = a \div p /\ v = a % p
  OBVIOUS
<1>4. b \in Nat /\ v \in 0..(p - 1) /\ a = p * b + v
  BY <1>2, <1>3
<1>5. PICK t, s : t = b \div q /\ s = b % q
  OBVIOUS
<1>6. t \in Nat /\ s \in 0..(q - 1) /\ b = q * t + s
  BY <1>2, <1>4, <1>5
<1>7. PICK d, r : d = p * q /\ r = p * s + v
  OBVIOUS
<1>8. d \in Nat \ {0} /\ r \in 0..(d - 1)
  <2>1. p * s <= p * (q - 1)
    BY <1>2, <1>6
  <2>2. p * (q - 1) = p * q - p
    BY <1>2
  <2>3. p * s \in Nat
    BY <1>2, <1>6
  <2> QED
    BY <1>2, <1>4, <1>7, <2>1, <2>2, <2>3
<1>9. a = d * t + r
  <2>1. p * (q * t + s) = (p * q) * t + p * s
    BY <1>2, <1>6
  <2>2. a = p * (q * t + s) + v
    BY <1>4, <1>6
  <2>3. PICK x, y : x = p * s /\ y = (p * q) * t
    OBVIOUS
  <2>4. x \in Int /\ y \in Int
    BY <1>2, <1>6, <2>3
  <2>5. a = (y + x) + v /\ d * t = y /\ r = x + v
    BY <1>7, <2>1, <2>2, <2>3
  <2> QED
    BY <1>4, <2>4, <2>5
<1>10. a \div d = t /\ a % d = r
  BY <1>6, <1>8, <1>9, Division
<1>11. r \div p = s
  <2>1. r = p * s + v
    BY <1>7
  <2>2. s \in Nat
    BY <1>6
  <2> QED
    BY <1>2, <1>4, <2>1, <2>2, Division
<1>12. /\ Cache!BlockOf(a) = b /\ Cache!extract_set_bits(a) = s
       /\ Cache!extract_tag_bits(a) = t /\ Cache!Sets = 0..(q - 1)
  BY <1>1, <1>2, <1>3, <1>7, <1>10, <1>11
  DEF Cache!BlockOf, Cache!extract_set_bits, Cache!extract_tag_bits, Cache!Sets
<1> QED
  BY <1>1, <1>4, <1>5, <1>6, <1>12
\* What one set of lines holds, in the order of its list: n of the blocks B that belong
\* to it, the one used last in front.  A block that has been used and is not held was
\* replaced, when all lines were in use, and everything that is held was used since.
Stacked(h, n, lines, last, B) ==
  /\ \A i \in 1..n : h[i] \in B /\ last[h[i]] > 0
  /\ \A i, j \in 1..n : i < j => last[h[i]] > last[h[j]]
  /\ \A c \in B : last[c] > 0 => \/ \E i \in 1..n : h[i] = c
                                 \/ n = lines /\ \A i \in 1..n : last[h[i]] > last[c]

\* Block b comes to the front: from place p of the list, or in place of the last one if
\* all lines are in use, or from outside.
Brought(h, n, lines, last, B, b, time, p, h2, n2, last2) ==
  /\ n \in Nat /\ n2 \in Nat /\ time \in Nat /\ b \in B /\ p \in 1..(n + 1)
  /\ \A c \in B : last[c] \in Nat /\ last[c] < time /\ last2[c] = IF c = b THEN time ELSE last[c]
  /\ n2 = IF p = n + 1 THEN n + 1 ELSE n
  /\ \A i \in 1..n2 : h2[i] = IF i = 1 THEN b ELSE IF i <= p THEN h[i - 1] ELSE h[i]
  /\ n = lines => p # n + 1
  /\ \A i \in 1..n : h[i] = b => i = p
  /\ p # n + 1 => h[p] = b \/ (n = lines /\ p = n)

LEMMA BroughtToFront ==
  ASSUME NEW h, NEW n, NEW lines, NEW last, NEW B, NEW b, NEW time, NEW p, NEW h2, NEW n2, NEW last2,
         Stacked(h, n, lines, last, B), Brought(h, n, lines, last, B, b, time, p, h2, n2, last2)
  PROVE  Stacked(h2, n2, lines, last2, B)
<1> SUFFICES ASSUME n \in Nat, n2 \in Nat, time \in Nat, b \in B, p \in 1..(n + 1),
                    \A c \in B : last[c] \in Nat /\ last[c] < time,
                    \A c \in B : last2[c] = IF c = b THEN time ELSE last[c],
                    n2 = IF p = n + 1 THEN n + 1 ELSE n,
                    \A i \in 1..n2 : h2[i] = IF i = 1 THEN b ELSE IF i <= p THEN h[i - 1] ELSE h[i],
                    n = lines => p # n + 1,
                    \A i \in 1..n : h[i] = b => i = p,
                    p # n + 1 => h[p] = b \/ (n = lines /\ p = n)
             PROVE  Stacked(h2, n2, lines, last2, B)
  BY DEF Brought
<1>1. \A i \in 1..n : h[i] \in B /\ last[h[i]] \in Nat /\ last[h[i]] > 0 /\ last[h[i]] < time
  BY DEF Stacked
<1>2. \A i \in 1..n : i # p => last2[h[i]] = last[h[i]]
  BY <1>1
<1>3. last2[b] = time /\ time > 0
  OBVIOUS
<1>4. ASSUME NEW i \in 1..n2, i # 1
      PROVE  \E k \in 1..n : /\ h2[i] = h[k] /\ k # p
                             /\ k = IF i <= p THEN i - 1 ELSE i
  <2>1. CASE i <= p
    BY <1>4, <2>1
  <2>2. CASE ~(i <= p)
    BY <1>4, <2>2
  <2> QED
    BY <2>1, <2>2
<1>5. \A i \in 1..n2 : i = 1 => h2[i] = b
  OBVIOUS
<1>6. ASSUME NEW i \in 1..n2 PROVE h2[i] \in B /\ last2[h2[i]] > 0
  BY <1>1, <1>2, <1>3, <1>4, <1>5
<1>7. ASSUME NEW i \in 1..n2, NEW j \in 1..n2, i < j PROVE last2[h2[i]] > last2[h2[j]]
  <2>1. j # 1 /\ i \in Int /\ j \in Int
    BY <1>7
  <2>2. PICK m \in 1..n : h2[j] = h[m] /\ m # p /\ m = IF j <= p THEN j - 1 ELSE j
    BY <1>4, <2>1
  <2>3. last2[h2[j]] = last[h[m]]
    BY <1>2, <2>2
  <2>4. CASE i = 1
    BY <1>1, <1>3, <1>5, <2>2, <2>3, <2>4
  <2>5. CASE i # 1
    <3>1. PICK k \in 1..n : h2[i] = h[k] /\ k # p /\ k = IF i <= p THEN i - 1 ELSE i
      BY <1>4, <2>5
    <3>2. k < m
      BY <1>7, <2>1, <2>2, <3>1
    <3>3. last[h[k]] > last[h[m]]
      BY <3>2 DEF Stacked
    <3> QED
      BY <1>2, <2>3, <3>1, <3>3
  <2> QED
    BY <2>4, <2>5
<1>8. ASSUME NEW k \in 1..n, k # p PROVE \E i \in 1..n2 : i # 1 /\ h2[i] = h[k]
  <2>1. CASE k < p
    <3>1. k + 1 \in 1..n2 /\ k + 1 # 1 /\ k + 1 <= p /\ k + 1 - 1 = k
      BY <2>1
    <3> QED
      BY <3>1
  <2>2. CASE k > p
    <3>1. k \in 1..n2 /\ k # 1 /\ ~(k <= p)
      BY <2>2
    <3> QED
      BY <3>1
  <2> QED
    BY <1>8, <2>1, <2>2
<1>9. ASSUME NEW c \in B, last2[c] > 0, ~ \E i \in 1..n2 : h2[i] = c
      PROVE  n2 = lines /\ \A i \in 1..n2 : last2[h2[i]] > last2[c]
  <2>1. 1 \in 1..n2
    OBVIOUS
  <2>2. c # b /\ last2[c] = last[c] /\ last[c] > 0 /\ last[c] < time /\ last[c] \in Nat
    BY <1>5, <1>9, <2>1
  <2>3. n2 = lines /\ \A k \in 1..n : k # p => last[h[k]] > last[c]
    <3>1. CASE \E k \in 1..n : h[k] = c
      <4>1. PICK k \in 1..n : h[k] = c
        BY <3>1
      <4>2. k = p
        BY <1>8, <1>9, <4>1
      <4>3. n2 = lines /\ n = lines /\ p = n
        BY <2>2, <4>1, <4>2
      <4>4. \A i \in 1..n : i # p => i < k
        BY <4>2, <4>3
      <4> QED
        BY <4>1, <4>3, <4>4 DEF Stacked
    <3>2. CASE ~ \E k \in 1..n : h[k] = c
      BY <2>2, <3>2 DEF Stacked
    <3> QED
      BY <3>1, <3>2
  <2>4. ASSUME NEW i \in 1..n2 PROVE last2[h2[i]] > last2[c]
    <3>1. CASE i = 1
      BY <1>3, <1>5, <2>2, <3>1
    <3>2. CASE i # 1
      <4>1. PICK k \in 1..n : h2[i] = h[k] /\ k # p
        BY <1>4, <3>2
      <4> QED
        BY <1>2, <2>2, <2>3, <4>1
    <3> QED
      BY <3>1, <3>2
  <2> QED
    BY <2>3, <2>4
<1> QED
  BY <1>6, <1>7, <1>9 DEF Stacked

\* The blocks used after a time.
Since(last, B, time) == {c \in B : last[c] > time}

\* The blocks that are held, counted: those that were used since a block was last used
\* are fewer than the lines just if it is held.
LEMMA HeldIsCounted ==
  ASSUME NEW B, IsFiniteSet(B), NEW n \in Nat, NEW h, NEW lines \in Nat, NEW last, Stacked(h, n, lines, last, B),
         \A c \in B : last[c] \in Nat,
         n <= lines, NEW b \in B
  PROVE  /\ (last[b] > 0 /\ Cardinality(Since(last, B, last[b])) < lines) <=> (\E i \in 1..n : h[i] = b)
         /\ (Cardinality(Since(last, B, 0)) >= lines) <=> n = lines
<1>1. \A i \in 1..n : h[i] \in B /\ last[h[i]] \in Nat /\ last[h[i]] > 0
  BY DEF Stacked
<1>2. ASSUME NEW time PROVE IsFiniteSet(Since(last, B, time)) /\ Cardinality(Since(last, B, time)) \in Nat
  <2>1. Since(last, B, time) \in SUBSET B
    BY DEF Since
  <2> QED
    BY <2>1, FS_Subset, FS_CardinalityType
<1>3. ASSUME NEW S, NEW k \in 0..n, \A c \in S : \E i \in 1..k : h[i] = c
      PROVE  Cardinality(S) <= k
  <2>1. PICK place : place = [c \in S |-> CHOOSE i \in 1..k : h[i] = c]
    OBVIOUS
  <2>2. \A c \in S : place[c] \in 1..k /\ h[place[c]] = c
    BY <1>3, <2>1
  <2>3. place \in Injection(S, 1..k)
    <3>1. place \in [S -> 1..k]
      BY <2>1, <2>2
    <3>2. \A c, d \in S : place[c] = place[d] => c = d
      BY <2>2
    <3> QED
      BY <3>1, <3>2 DEF Injection, IsInjective
  <2>4. IsFiniteSet(1..k) /\ Cardinality(1..k) = k
    BY FS_Interval
  <2>5. Cardinality(S) <= Cardinality(1..k)
    BY <2>3, <2>4, FS_Injection
  <2> QED
    BY <2>4, <2>5
<1>4. ASSUME NEW S, IsFiniteSet(S), \A i \in 1..n : h[i] \in S
      PROVE  n <= Cardinality(S)
  <2>1. PICK item : item = [i \in 1..n |-> h[i]]
    OBVIOUS
  <2>2. item \in Injection(1..n, S)
    <3>1. item \in [1..n -> S]
      BY <1>4, <2>1
    <3>2. ASSUME NEW i \in 1..n, NEW j \in 1..n, item[i] = item[j] PROVE i = j
      <4>1. h[i] = h[j]
        BY <2>1, <3>2
      <4>2. ~(i < j) /\ ~(j < i)
        BY <1>1, <4>1 DEF Stacked
      <4> QED
        BY <4>2
    <3> QED
      BY <3>1, <3>2 DEF Injection, IsInjective
  <2>3. Cardinality(1..n) <= Cardinality(S)
    BY <1>4, <2>2, FS_Injection
  <2>4. Cardinality(1..n) = n
    BY FS_Interval
  <2> QED
    BY <2>3, <2>4
<1>5. ASSUME NEW p \in 1..n, h[p] = b
      PROVE  last[b] > 0 /\ Cardinality(Since(last, B, last[b])) < lines
  <2>1. last[b] > 0
    BY <1>1, <1>5
  <2>2. ASSUME NEW c \in Since(last, B, last[b]) PROVE \E i \in 1..(p - 1) : h[i] = c
    <3>1. c \in B /\ last[c] > last[b] /\ last[c] \in Nat /\ last[b] \in Nat
      BY <2>2 DEF Since
    <3>2. last[c] > 0 /\ ~(last[b] > last[c])
      BY <2>1, <3>1
    <3>3. PICK i \in 1..n : h[i] = c
      BY <1>5, <3>1, <3>2 DEF Stacked
    <3>4. i # p /\ ~(p < i)
      BY <1>5, <3>1, <3>2, <3>3 DEF Stacked
    <3>5. i \in 1..(p - 1)
      BY <3>4
    <3> QED
      BY <3>3, <3>5
  <2>3. p - 1 \in 0..n /\ p - 1 < lines
    OBVIOUS
  <2>4. Cardinality(Since(last, B, last[b])) <= p - 1
    BY <1>3, <2>2, <2>3
  <2> QED
    BY <1>2, <2>1, <2>3, <2>4
<1>6. ASSUME ~ \E i \in 1..n : h[i] = b, last[b] > 0
      PROVE  Cardinality(Since(last, B, last[b])) >= lines
  <2>1. n = lines /\ \A i \in 1..n : last[h[i]] > last[b]
    BY <1>6 DEF Stacked
  <2>2. \A i \in 1..n : h[i] \in Since(last, B, last[b])
    BY <1>1, <2>1 DEF Since
  <2> QED
    BY <1>2, <1>4, <2>1, <2>2
<1>7. n = lines => Cardinality(Since(last, B, 0)) >= lines
  <2>1. \A i \in 1..n : h[i] \in Since(last, B, 0)
    BY <1>1 DEF Since
  <2> QED
    BY <1>2, <1>4, <2>1
<1>8. ASSUME n # lines PROVE Cardinality(Since(last, B, 0)) < lines
  <2>1. \A c \in Since(last, B, 0) : \E i \in 1..n : h[i] = c
    BY <1>8 DEF Since, Stacked
  <2>2. Cardinality(Since(last, B, 0)) <= n
    BY <1>3, <2>1
  <2> QED
    BY <1>2, <1>8, <2>2
<1>9. Cardinality(Since(last, B, last[b])) \in Nat /\ Cardinality(Since(last, B, 0)) \in Nat
  BY <1>2
<1> QED
  BY <1>5, <1>6, <1>7, <1>8, <1>9

\* A list in which a line is in one place only.
OnceEach(list) == \A i, j \in DOMAIN list : list[i] = list[j] => i = j

\* The two lists of a set: they have every line, once.
TwoLists(used, rest) ==
  /\ used \in Seq(Cache!Lines) /\ rest \in Seq(Cache!Lines)
  /\ OnceEach(used) /\ OnceEach(rest)
  /\ \A i \in DOMAIN used, j \in DOMAIN rest : used[i] # rest[j]
  /\ \A l \in Cache!Lines : Among(l, used) \/ Among(l, rest)
  /\ Len(used) + Len(rest) = total_lines_per_set

\* A line is put in front; before, it was at place p, or nowhere if p is past the end.
InFront(list, new, p, line) ==
  /\ Len(new) = IF p = Len(list) + 1 THEN Len(list) + 1 ELSE Len(list)
  /\ \A i \in 1..Len(new) :
       new[i] = IF i = 1 THEN line ELSE IF i <= p THEN list[i - 1] ELSE list[i]

LEMMA LineDeleted ==
  ASSUME NEW list \in Seq(Cache!Lines), OnceEach(list)
  PROVE  /\ \A p \in DOMAIN list : Cache!delete_line(list[p], list) = Without(list, p)
         /\ \A l : ~Among(l, list) => Cache!delete_line(l, list) = list
<1>1. \A l : l \in Cache!ToSet(list) <=> Among(l, list)
  BY DEF Cache!ToSet, Among
<1>2. ASSUME NEW p \in DOMAIN list PROVE Cache!delete_line(list[p], list) = Without(list, p)
  <2>1. list[p] \in Cache!ToSet(list)
    BY <1>1 DEF Among
  <2>2. (CHOOSE i \in DOMAIN list : list[i] = list[p]) = p
    BY DEF OnceEach
  <2> QED
    BY <2>1, <2>2 DEF Cache!delete_line, Cache!RemoveAt, Without
<1>3. ASSUME NEW l, ~Among(l, list) PROVE Cache!delete_line(l, list) = list
  BY <1>1, <1>3 DEF Cache!delete_line
<1> QED
  BY <1>2, <1>3

\* A line in use is taken to the front.
LEMMA UsedLineMoved ==
  ASSUME NEW used, NEW rest, TwoLists(used, rest), NEW p \in DOMAIN used
  PROVE  /\ InFront(used, Cache!MoveToFront(used[p], used), p, used[p])
         /\ TwoLists(Cache!MoveToFront(used[p], used), rest)
         /\ Cache!delete_line(used[p], rest) = rest
<1>1. /\ used \in Seq(Cache!Lines) /\ rest \in Seq(Cache!Lines) /\ OnceEach(used) /\ OnceEach(rest)
      /\ DOMAIN used = 1..Len(used) /\ Len(used) \in Nat /\ used[p] \in Cache!Lines
  BY DEF TwoLists
<1>2. PICK left : left = Without(used, p)
  OBVIOUS
<1>3. /\ left \in Seq(Cache!Lines) /\ Len(left) = Len(used) - 1
      /\ \A i \in 1..(Len(used) - 1) : left[i] = IF i < p THEN used[i] ELSE used[i + 1]
  BY <1>1, <1>2, ItemTaken
<1>4. PICK new : new = <<used[p]>> \o left
  OBVIOUS
<1>5. Cache!MoveToFront(used[p], used) = new
  BY <1>1, <1>2, <1>4, LineDeleted DEF Cache!MoveToFront, Cache!insert_after_head
<1>6. /\ new \in Seq(Cache!Lines) /\ Len(new) = Len(used)
      /\ \A i \in 1..Len(used) : new[i] = IF i = 1 THEN used[p] ELSE left[i - 1]
  <2>1. <<used[p]>> \in Seq(Cache!Lines) /\ Len(<<used[p]>>) = 1 /\ <<used[p]>>[1] = used[p]
    BY <1>1
  <2>2. /\ new \in Seq(Cache!Lines) /\ Len(new) = 1 + Len(left)
        /\ \A i \in 1..(1 + Len(left)) : new[i] = IF i <= 1 THEN <<used[p]>>[i] ELSE left[i - 1]
    BY <1>3, <1>4, <2>1, Joined
  <2>3. 1 + Len(left) = Len(used)
    BY <1>1, <1>3
  <2>4. ASSUME NEW i \in 1..Len(used)
        PROVE  new[i] = IF i = 1 THEN used[p] ELSE left[i - 1]
    <3>1. new[i] = IF i <= 1 THEN <<used[p]>>[i] ELSE left[i - 1]
      BY <2>2, <2>3
    <3>2. i <= 1 <=> i = 1
      OBVIOUS
    <3> QED
      BY <2>1, <3>1, <3>2
  <2> QED
    BY <2>2, <2>3, <2>4
<1>7. \A i \in 1..Len(used) :
        new[i] = IF i = 1 THEN used[p] ELSE IF i <= p THEN used[i - 1] ELSE used[i]
  <2> SUFFICES ASSUME NEW i \in 1..Len(used), i # 1
               PROVE  new[i] = IF i <= p THEN used[i - 1] ELSE used[i]
    BY <1>6
  <2>1. i - 1 \in 1..(Len(used) - 1) /\ i - 1 + 1 = i /\ (i - 1 < p <=> i <= p)
    BY <1>1
  <2>2. left[i - 1] = IF i - 1 < p THEN used[i - 1] ELSE used[i - 1 + 1]
    BY <1>3, <2>1
  <2> QED
    BY <1>6, <2>1, <2>2
<1>8. InFront(used, new, p, used[p])
  <2>1. p # Len(used) + 1 /\ Len(new) = Len(used)
    BY <1>1, <1>6
  <2> QED
    BY <1>7, <2>1 DEF InFront
<1>9. OnceEach(new)
  <2> SUFFICES ASSUME NEW i \in 1..Len(used), NEW j \in 1..Len(used), new[i] = new[j]
               PROVE  i = j
    BY <1>6 DEF OnceEach
  <2>1. PICK k \in 1..Len(used) : new[i] = used[k] /\ k = IF i = 1 THEN p ELSE IF i <= p THEN i - 1 ELSE i
    BY <1>1, <1>7
  <2>2. PICK m \in 1..Len(used) : new[j] = used[m] /\ m = IF j = 1 THEN p ELSE IF j <= p THEN j - 1 ELSE j
    BY <1>1, <1>7
  <2>3. k = m
    BY <1>1, <2>1, <2>2 DEF OnceEach
  <2> QED
    BY <1>1, <2>1, <2>2, <2>3
<1>10. \A i \in 1..Len(used) : \E k \in 1..Len(used) : new[i] = used[k]
  BY <1>1, <1>7
<1>11. ASSUME NEW k \in 1..Len(used) PROVE \E i \in 1..Len(used) : new[i] = used[k]
  <2>1. CASE k = p
    BY <1>1, <1>6, <2>1
  <2>2. CASE k < p
    <3>1. k + 1 \in 1..Len(used) /\ k + 1 # 1 /\ k + 1 <= p /\ k + 1 - 1 = k
      BY <1>1, <2>2
    <3> QED
      BY <1>7, <3>1
  <2>3. CASE k > p
    <3>1. k # 1 /\ ~(k <= p)
      BY <1>1, <2>3
    <3> QED
      BY <1>7, <3>1
  <2> QED
    BY <1>1, <2>1, <2>2, <2>3
<1>12. TwoLists(new, rest)
  <2>1. DOMAIN new = 1..Len(used)
    BY <1>6
  <2>2. \A i \in DOMAIN new, j \in DOMAIN rest : new[i] # rest[j]
    BY <1>1, <1>10, <2>1 DEF TwoLists
  <2>3. \A l \in Cache!Lines : Among(l, new) \/ Among(l, rest)
    BY <1>1, <1>11, <2>1 DEF TwoLists, Among
  <2> QED
    BY <1>1, <1>6, <1>9, <2>2, <2>3 DEF TwoLists
<1>13. ~Among(used[p], rest)
  BY DEF TwoLists, Among
<1> QED
  BY <1>1, <1>5, <1>8, <1>12, <1>13, LineDeleted

\* The first free line comes into use.
LEMMA FreeLineMoved ==
  ASSUME NEW used, NEW rest, TwoLists(used, rest), rest # <<>>
  PROVE  /\ Head(rest) \in Cache!Lines /\ ~Among(Head(rest), used)
         /\ InFront(used, Cache!MoveToFront(Head(rest), used), Len(used) + 1, Head(rest))
         /\ TwoLists(Cache!MoveToFront(Head(rest), used), Cache!delete_line(Head(rest), rest))
<1>1. /\ used \in Seq(Cache!Lines) /\ rest \in Seq(Cache!Lines) /\ OnceEach(used) /\ OnceEach(rest)
      /\ DOMAIN used = 1..Len(used) /\ Len(used) \in Nat
      /\ DOMAIN rest = 1..Len(rest) /\ Len(rest) \in Nat \ {0} /\ 1 \in DOMAIN rest
  BY DEF TwoLists
<1>2. PICK l : l = Head(rest)
  OBVIOUS
<1>3. l = rest[1] /\ l \in Cache!Lines /\ ~Among(l, used)
  <2>1. l = rest[1] /\ l \in Cache!Lines
    BY <1>1, <1>2
  <2> QED
    BY <1>1, <2>1 DEF TwoLists, Among
<1>4. PICK left : left = Cache!delete_line(l, rest)
  OBVIOUS
<1>5. /\ left \in Seq(Cache!Lines) /\ Len(left) = Len(rest) - 1
      /\ \A i \in 1..(Len(rest) - 1) : left[i] = rest[i + 1]
  <2>1. left = Without(rest, 1)
    BY <1>1, <1>3, <1>4, LineDeleted
  <2>2. /\ left \in Seq(Cache!Lines) /\ Len(left) = Len(rest) - 1
        /\ \A i \in 1..(Len(rest) - 1) : left[i] = IF i < 1 THEN rest[i] ELSE rest[i + 1]
    BY <1>1, <2>1, ItemTaken
  <2>3. \A i \in 1..(Len(rest) - 1) : ~(i < 1)
    OBVIOUS
  <2> QED
    BY <2>2, <2>3
<1>6. PICK new : new = <<l>> \o used
  OBVIOUS
<1>7. Cache!MoveToFront(l, used) = new
  BY <1>1, <1>3, <1>6, LineDeleted DEF Cache!MoveToFront, Cache!insert_after_head
<1>8. /\ new \in Seq(Cache!Lines) /\ Len(new) = Len(used) + 1
      /\ \A i \in 1..(Len(used) + 1) : new[i] = IF i = 1 THEN l ELSE used[i - 1]
  <2>1. <<l>> \in Seq(Cache!Lines) /\ Len(<<l>>) = 1 /\ <<l>>[1] = l
    BY <1>3
  <2>2. /\ new \in Seq(Cache!Lines) /\ Len(new) = 1 + Len(used)
        /\ \A i \in 1..(1 + Len(used)) : new[i] = IF i <= 1 THEN <<l>>[i] ELSE used[i - 1]
    BY <1>1, <1>6, <2>1, Joined
  <2> QED
    BY <1>1, <2>1, <2>2
<1>9. InFront(used, new, Len(used) + 1, l)
  BY <1>1, <1>8 DEF InFront
<1>10. TwoLists(new, left)
  <2>1. DOMAIN new = 1..(Len(used) + 1) /\ DOMAIN left = 1..(Len(rest) - 1)
    BY <1>1, <1>5, <1>8
  <2>2. OnceEach(new)
    <3> SUFFICES ASSUME NEW i \in 1..(Len(used) + 1), NEW j \in 1..(Len(used) + 1), new[i] = new[j]
                 PROVE  i = j
      BY <2>1 DEF OnceEach
    <3>1. \A k \in 1..(Len(used) + 1) : k # 1 => k - 1 \in DOMAIN used /\ new[k] = used[k - 1] /\ new[k] # l
      BY <1>1, <1>3, <1>8 DEF Among
    <3>2. new[1] = l
      BY <1>1, <1>8
    <3>3. CASE i = 1 \/ j = 1
      BY <3>1, <3>2, <3>3
    <3>4. CASE i # 1 /\ j # 1
      <4>1. i - 1 \in DOMAIN used /\ j - 1 \in DOMAIN used /\ used[i - 1] = used[j - 1]
        BY <3>1, <3>4
      <4>2. i - 1 = j - 1
        BY <1>1, <4>1 DEF OnceEach
      <4> QED
        BY <1>1, <4>2
    <3> QED
      BY <3>3, <3>4
  <2>3. OnceEach(left)
    <3> SUFFICES ASSUME NEW i \in 1..(Len(rest) - 1), NEW j \in 1..(Len(rest) - 1), left[i] = left[j]
                 PROVE  i = j
      BY <2>1 DEF OnceEach
    <3>1. i + 1 \in DOMAIN rest /\ j + 1 \in DOMAIN rest /\ rest[i + 1] = rest[j + 1]
      BY <1>1, <1>5
    <3>2. i + 1 = j + 1
      BY <1>1, <3>1 DEF OnceEach
    <3> QED
      BY <3>2
  <2>4. ASSUME NEW i \in DOMAIN new, NEW j \in DOMAIN left PROVE new[i] # left[j]
    <3>1. j + 1 \in DOMAIN rest /\ left[j] = rest[j + 1] /\ j + 1 # 1
      BY <1>1, <1>5, <2>1
    <3>2. CASE i = 1
      BY <1>1, <1>3, <1>8, <2>1, <3>1, <3>2 DEF OnceEach
    <3>3. CASE i # 1
      <4>1. i - 1 \in DOMAIN used /\ new[i] = used[i - 1]
        BY <1>1, <1>8, <2>1, <3>3
      <4> QED
        BY <3>1, <4>1 DEF TwoLists
    <3> QED
      BY <3>2, <3>3
  <2>5. ASSUME NEW m \in Cache!Lines PROVE Among(m, new) \/ Among(m, left)
    <3>1. CASE Among(m, used)
      <4>1. PICK k \in 1..Len(used) : used[k] = m
        BY <1>1, <3>1 DEF Among
      <4>2. PICK i \in 1..(Len(used) + 1) : i # 1 /\ i - 1 = k
        BY <1>1
      <4>3. i \in DOMAIN new /\ new[i] = m
        BY <1>8, <2>1, <4>1, <4>2
      <4> QED
        BY <4>3 DEF Among
    <3>2. CASE Among(m, rest)
      <4>1. PICK k \in 1..Len(rest) : rest[k] = m
        BY <1>1, <3>2 DEF Among
      <4>2. CASE k = 1
        <5>1. 1 \in DOMAIN new /\ new[1] = m
          BY <1>1, <1>3, <1>8, <2>1, <4>1, <4>2
        <5> QED
          BY <5>1 DEF Among
      <4>3. CASE k # 1
        <5>1. k - 1 \in 1..(Len(rest) - 1) /\ k - 1 + 1 = k
          BY <1>1, <4>3
        <5> QED
          BY <1>5, <2>1, <4>1, <5>1 DEF Among
      <4> QED
        BY <4>2, <4>3
    <3> QED
      BY <3>1, <3>2 DEF TwoLists
  <2>6. Len(new) + Len(left) = total_lines_per_set
    <3>1. Len(used) + Len(rest) = total_lines_per_set
      BY DEF TwoLists
    <3> QED
      BY <1>1, <1>5, <1>8, <3>1
  <2> QED
    BY <1>5, <1>8, <2>2, <2>3, <2>4, <2>5, <2>6 DEF TwoLists
<1> QED
  BY <1>2, <1>3, <1>4, <1>7, <1>9, <1>10

\* The blocks of a set, and those its lines in use hold.
BlocksOf(s) == {b \in Cache!Blocks : b % 2^bits_sets = s}
HeldBlocks(used, tags, s) == [i \in DOMAIN used |-> 2^bits_sets * tags[used[i]] + s]

SetState(used, rest, tags, last, s) ==
  /\ TwoLists(used, rest)
  /\ tags \in [Cache!Lines -> Int] /\ \A i \in DOMAIN used : tags[used[i]] \in Nat
  /\ Stacked(HeldBlocks(used, tags, s), Len(used), total_lines_per_set, last, BlocksOf(s))

\* The inductive invariant: the two lists of a set have every line once, and the used
\* one is in the order of the last uses of the blocks it holds.
CacheInv ==
  /\ in_use \in [Cache!Sets -> Seq(Cache!Lines)] /\ free \in [Cache!Sets -> Seq(Cache!Lines)]
  /\ tag \in [Cache!Sets -> [Cache!Lines -> Int]]
  /\ hit \in Nat /\ miss \in Nat
  /\ lastUse \in [Cache!Blocks -> Nat] /\ \A b \in Cache!Blocks : lastUse[b] <= hit + miss
  /\ \A s \in Cache!Sets : SetState(in_use[s], free[s], tag[s], lastUse, s)

\* Of the blocks of a set, each has one tag.
LEMMA TagTells ==
  ASSUME CacheSizes, NEW s \in Cache!Sets, NEW x \in Nat, NEW y \in Nat,
         2^bits_sets * x + s = 2^bits_sets * y + s
  PROVE  x = y
<1>1. PICK q : q = 2^bits_sets
  OBVIOUS
<1>2. q \in Nat \ {0} /\ s \in 0..(q - 1) /\ q * x + s = q * y + s
  <2>1. q \in Nat \ {0} /\ s \in 0..(q - 1)
    BY <1>1 DEF CacheSizes, Cache!Sets
  <2>2. q * x + s = q * y + s
    BY <1>1, Zenon
  <2> QED
    BY <2>1, <2>2
<1>3. PICK b : b = q * x + s
  OBVIOUS
<1>4. b \div q = x
  BY <1>2, <1>3, Division
<1>5. b = q * y + s
  BY <1>2, <1>3, Zenon
<1>6. b \div q = y
  BY <1>2, <1>5, Division
<1> QED
  BY <1>4, <1>6

LEMMA BlockFacts ==
  ASSUME CacheSizes
  PROVE  /\ IsFiniteSet(Cache!Blocks) /\ Cache!Blocks \in SUBSET Nat
         /\ \A s : IsFiniteSet(BlocksOf(s)) /\ BlocksOf(s) \in SUBSET Cache!Blocks
<1>1. PICK block : block = [a \in Addresses |-> Cache!BlockOf(a)]
  OBVIOUS
<1>2. block \in Surjection(Addresses, Cache!Blocks)
  BY <1>1 DEF Surjection, Cache!Blocks
<1>3. IsFiniteSet(Cache!Blocks)
  BY <1>2, FS_Surjection DEF CacheSizes
<1>4. \A a \in Addresses : Cache!BlockOf(a) \in Nat
  BY AddressParts
<1>5. \A s : BlocksOf(s) \in SUBSET Cache!Blocks
  BY DEF BlocksOf
<1> QED
  BY <1>3, <1>4, <1>5, FS_Subset DEF Cache!Blocks

LEMMA CacheStarts == ASSUME CacheSizes, Cache!Init PROVE CacheInv
<1>1. PICK n : n = total_lines_per_set
  OBVIOUS
<1>2. n \in Nat \ {0} /\ Cache!Lines = 1..n
  BY <1>1 DEF CacheSizes, Cache!Lines
<1>3. PICK rest : rest = [i \in Cache!Lines |-> n + 1 - i]
  OBVIOUS
<1>4. rest \in Seq(Cache!Lines) /\ DOMAIN rest = 1..n /\ Len(rest) = n
  <2>1. rest \in [1..n -> Cache!Lines]
    BY <1>2, <1>3
  <2> QED
    BY <1>2, <2>1
<1>5. TwoLists(<<>>, rest)
  <2>1. OnceEach(rest) /\ OnceEach(<<>>)
    BY <1>2, <1>3 DEF OnceEach
  <2>2. ASSUME NEW l \in Cache!Lines PROVE Among(l, rest)
    <3>1. n + 1 - l \in 1..n /\ n + 1 - (n + 1 - l) = l
      BY <1>2
    <3> QED
      BY <1>2, <1>3, <1>4, <3>1 DEF Among
  <2> QED
    BY <1>1, <1>2, <1>4, <2>1, <2>2 DEF TwoLists
<1>6. \A b \in Cache!Blocks : lastUse[b] = 0
  BY DEF Cache!Init
<1>7. ASSUME NEW s, NEW tags \in [Cache!Lines -> Int] PROVE SetState(<<>>, rest, tags, lastUse, s)
  <2>1. Stacked(HeldBlocks(<<>>, tags, s), Len(<<>>), total_lines_per_set, lastUse, BlocksOf(s))
    BY <1>6 DEF Stacked, BlocksOf
  <2> QED
    BY <1>5, <2>1 DEF SetState
<1>8. /\ in_use = [s \in Cache!Sets |-> <<>>] /\ free = [s \in Cache!Sets |-> rest]
      /\ tag = [s \in Cache!Sets |-> [l \in Cache!Lines |-> -1]]
  BY <1>1, <1>3 DEF Cache!Init, Cache!NoTag
<1>9. ASSUME NEW s \in Cache!Sets PROVE SetState(in_use[s], free[s], tag[s], lastUse, s)
  BY <1>7, <1>8
<1>10. /\ hit = 0 /\ miss = 0 /\ lastUse = [b \in Cache!Blocks |-> 0]
  BY DEF Cache!Init
<1> QED
  BY <1>4, <1>6, <1>8, <1>9, <1>10 DEF CacheInv

\* The place of the line that an access uses: where its block is, or that of the last
\* line if all are in use, or past the end.
AccessPlace(a, s, b, p) ==
  LET used == in_use[s]
      l == Cache!Chosen(a)
      h == HeldBlocks(used, tag[s], s)
  IN
  /\ p \in 1..(Len(used) + 1) /\ l \in Cache!Lines
  /\ InFront(used, Cache!MoveToFront(l, used), p, l)
  /\ TwoLists(Cache!MoveToFront(l, used), Cache!delete_line(l, free[s]))
  /\ p # Len(used) + 1 => used[p] = l
  /\ p = Len(used) + 1 => ~Among(l, used) /\ free[s] # <<>>
  /\ \A i \in 1..Len(used) : h[i] = b => i = p
  /\ p # Len(used) + 1 => h[p] = b \/ (free[s] = <<>> /\ p = Len(used))
  /\ Cache!Holding(a) # {} <=> \E i \in 1..Len(used) : h[i] = b

LEMMA PlaceFound ==
  ASSUME CacheSizes, CacheInv, NEW a \in Addresses
  PROVE  \E p : AccessPlace(a, Cache!extract_set_bits(a), Cache!BlockOf(a), p)
<1>1. PICK s, b, t, l : /\ s = Cache!extract_set_bits(a) /\ b = Cache!BlockOf(a)
                        /\ t = Cache!extract_tag_bits(a) /\ l = Cache!Chosen(a)
  OBVIOUS
<1>2. s \in Cache!Sets /\ t \in Nat /\ b = 2^bits_sets * t + s
  BY <1>1, AddressParts
<1>3. PICK used, rest, tags : used = in_use[s] /\ rest = free[s] /\ tags = tag[s]
  OBVIOUS
<1>4. /\ TwoLists(used, rest) /\ tags \in [Cache!Lines -> Int]
      /\ \A i \in DOMAIN used : tags[used[i]] \in Nat
      /\ Stacked(HeldBlocks(used, tags, s), Len(used), total_lines_per_set, lastUse, BlocksOf(s))
  BY <1>2, <1>3 DEF CacheInv, SetState
<1>5. /\ used \in Seq(Cache!Lines) /\ rest \in Seq(Cache!Lines) /\ OnceEach(used)
      /\ DOMAIN used = 1..Len(used) /\ Len(used) \in Nat /\ \A i \in DOMAIN used : used[i] \in Cache!Lines
      /\ Len(used) + Len(rest) = total_lines_per_set
  BY <1>4 DEF TwoLists
<1>6. PICK h : h = HeldBlocks(used, tags, s)
  OBVIOUS
<1>7. \A i \in 1..Len(used) : h[i] = 2^bits_sets * tags[used[i]] + s
  BY <1>5, <1>6 DEF HeldBlocks
<1>8. ASSUME NEW i \in 1..Len(used) PROVE h[i] = b <=> tags[used[i]] = t
  BY <1>2, <1>4, <1>5, <1>7, TagTells
<1>9. Cache!Holding(a) = {m \in Cache!ToSet(used) : tags[m] = t}
  BY <1>1, <1>3 DEF Cache!Holding
<1>10. \A m : m \in Cache!Holding(a) <=> \E i \in 1..Len(used) : used[i] = m /\ h[i] = b
  BY <1>5, <1>8, <1>9 DEF Cache!ToSet
<1>11. \A i, j \in 1..Len(used) : h[i] = h[j] => i = j
  <2> SUFFICES ASSUME NEW i \in 1..Len(used), NEW j \in 1..Len(used), h[i] = h[j], i < j
               PROVE  FALSE
    BY <1>5
  <2>1. lastUse[h[i]] > lastUse[h[j]] /\ h[j] \in BlocksOf(s)
    BY <1>4, <1>6 DEF Stacked
  <2>2. lastUse[h[j]] \in Nat
    BY <2>1 DEF BlocksOf, CacheInv
  <2> QED
    BY <2>1, <2>2
<1>12. l = IF Cache!Holding(a) # {} THEN CHOOSE m \in Cache!Holding(a) : TRUE
           ELSE IF rest # <<>> THEN Head(rest) ELSE Last(used)
  BY <1>1, <1>3 DEF Cache!Chosen, Cache!Last, Last
<1> DEFINE Usable(p) ==
      /\ p \in 1..(Len(used) + 1) /\ l \in Cache!Lines
      /\ InFront(used, Cache!MoveToFront(l, used), p, l)
      /\ TwoLists(Cache!MoveToFront(l, used), Cache!delete_line(l, rest))
      /\ p # Len(used) + 1 => used[p] = l
      /\ p = Len(used) + 1 => ~Among(l, used) /\ rest # <<>>
      /\ \A i \in 1..Len(used) : h[i] = b => i = p
      /\ p # Len(used) + 1 => h[p] = b \/ (rest = <<>> /\ p = Len(used))
      /\ Cache!Holding(a) # {} <=> \E i \in 1..Len(used) : h[i] = b
<1>13. Cache!Holding(a) # {} <=> \E i \in 1..Len(used) : h[i] = b
  BY <1>10
<1>14. CASE Cache!Holding(a) # {}
  <2>1. l \in Cache!Holding(a)
    BY <1>12, <1>14
  <2>2. PICK p \in 1..Len(used) : used[p] = l /\ h[p] = b
    BY <1>10, <2>1
  <2>3. p \in DOMAIN used /\ p # Len(used) + 1 /\ l \in Cache!Lines
    BY <1>5, <2>2
  <2>4. /\ InFront(used, Cache!MoveToFront(l, used), p, l)
        /\ TwoLists(Cache!MoveToFront(l, used), Cache!delete_line(l, rest))
    BY <1>4, <2>2, <2>3, UsedLineMoved
  <2>5. Usable(p)
    BY <1>5, <1>11, <1>13, <2>2, <2>3, <2>4
  <2> QED
    BY <1>1, <1>3, <1>6, <2>5 DEF AccessPlace
<1>15. CASE Cache!Holding(a) = {} /\ rest # <<>>
  <2>1. l = Head(rest)
    BY <1>12, <1>15
  <2>2. /\ l \in Cache!Lines /\ ~Among(l, used)
        /\ InFront(used, Cache!MoveToFront(l, used), Len(used) + 1, l)
        /\ TwoLists(Cache!MoveToFront(l, used), Cache!delete_line(l, rest))
    BY <1>4, <1>15, <2>1, FreeLineMoved
  <2>3. Usable(Len(used) + 1)
    BY <1>5, <1>13, <1>15, <2>2
  <2> QED
    BY <1>1, <1>3, <1>6, <2>3 DEF AccessPlace
<1>16. CASE Cache!Holding(a) = {} /\ rest = <<>>
  <2>1. PICK p : p = Len(used)
    OBVIOUS
  <2>2. p \in DOMAIN used /\ p # Len(used) + 1
    <3>1. total_lines_per_set \in Nat \ {0}
      BY DEF CacheSizes
    <3>2. Len(rest) = 0
      BY <1>16
    <3>3. Len(used) \in Nat /\ Len(used) + 0 = total_lines_per_set /\ DOMAIN used = 1..Len(used)
      BY <1>5, <3>2
    <3> QED
      BY <2>1, <3>1, <3>3
  <2>3. l = used[p]
    BY <1>12, <1>16, <2>1 DEF Last, Cache!Last
  <2>4. l \in Cache!Lines
    BY <1>5, <2>2, <2>3
  <2>5. /\ InFront(used, Cache!MoveToFront(l, used), p, l)
        /\ TwoLists(Cache!MoveToFront(l, used), Cache!delete_line(l, rest))
    BY <1>4, <2>2, <2>3, UsedLineMoved
  <2>6. /\ p \in 1..(Len(used) + 1)
        /\ \A i \in 1..Len(used) : h[i] # b
    BY <1>5, <1>13, <1>16, <2>2
  <2>7. Usable(p)
    BY <1>13, <1>16, <2>1, <2>2, <2>3, <2>4, <2>5, <2>6
  <2> QED
    BY <1>1, <1>3, <1>6, <2>7 DEF AccessPlace
<1> QED
  BY <1>14, <1>15, <1>16

\* Another set, of whose blocks none was used.
LEMMA OtherSetStays ==
  ASSUME NEW h, NEW n \in Nat, NEW lines, NEW last, NEW last2, NEW B,
         Stacked(h, n, lines, last, B), \A c \in B : last2[c] = last[c]
  PROVE  Stacked(h, n, lines, last2, B)
BY DEF Stacked

\* What the reference asks of a block is what the lists say.
LEMMA CachedIsHeld ==
  ASSUME CacheSizes, CacheInv, NEW a \in Addresses
  PROVE  /\ Cache!Reference!Cached(Cache!BlockOf(a)) <=> Cache!Holding(a) # {}
         /\ Cache!Reference!Full(Cache!BlockOf(a)) <=> free[Cache!extract_set_bits(a)] = <<>>
<1>1. PICK s, b : s = Cache!extract_set_bits(a) /\ b = Cache!BlockOf(a)
  OBVIOUS
<1>2. s \in Cache!Sets /\ b \in BlocksOf(s)
  BY <1>1, AddressParts DEF BlocksOf, Cache!Blocks
<1>3. PICK p : AccessPlace(a, s, b, p)
  BY <1>1, PlaceFound
<1>4. PICK h, n, B : h = HeldBlocks(in_use[s], tag[s], s) /\ n = Len(in_use[s]) /\ B = BlocksOf(s)
  OBVIOUS
<1>5. Cache!Holding(a) # {} <=> \E i \in 1..n : h[i] = b
  BY <1>3, <1>4 DEF AccessPlace
<1>6. /\ n \in Nat /\ n <= total_lines_per_set /\ total_lines_per_set \in Nat
      /\ n = total_lines_per_set <=> free[s] = <<>>
  <2>1. TwoLists(in_use[s], free[s])
    BY <1>2 DEF CacheInv, SetState
  <2>2. /\ in_use[s] \in Seq(Cache!Lines) /\ free[s] \in Seq(Cache!Lines)
        /\ Len(in_use[s]) + Len(free[s]) = total_lines_per_set
    BY <2>1 DEF TwoLists
  <2>3. PICK k : k = Len(free[s])
    OBVIOUS
  <2>4. k \in Nat /\ (k = 0 <=> free[s] = <<>>)
    BY <2>2, <2>3
  <2>5. n = Len(in_use[s])
    BY <1>4
  <2>6. n \in Nat
    BY <2>2, <2>5
  <2>7. k \in Nat /\ n \in Nat /\ n + k = total_lines_per_set /\ (k = 0 <=> free[s] = <<>>)
    BY <2>2, <2>3, <2>4, <2>5, <2>6
  <2> QED
    BY <2>7
<1>7. IsFiniteSet(B) /\ b \in B /\ \A c \in B : lastUse[c] \in Nat
  BY <1>2, <1>4, BlockFacts DEF CacheInv
<1>8. PICK lines : lines = total_lines_per_set
  OBVIOUS
<1>9. Stacked(h, n, lines, lastUse, B) /\ lines \in Nat /\ n <= lines
  BY <1>2, <1>4, <1>6, <1>8 DEF CacheInv, SetState
<1>10. /\ (lastUse[b] > 0 /\ Cardinality(Since(lastUse, B, lastUse[b])) < lines)
            <=> (\E i \in 1..n : h[i] = b)
       /\ (Cardinality(Since(lastUse, B, 0)) >= lines) <=> n = lines
  BY <1>6, <1>7, <1>9, HeldIsCounted
<1>11. ASSUME NEW time PROVE Cache!Reference!UsedSince(b, time) = Since(lastUse, B, time)
  <2>1. b \in Cache!Blocks /\ b % 2^bits_sets = s
    BY <1>2 DEF BlocksOf
  <2> QED
    BY <1>4, <2>1 DEF Cache!Reference!UsedSince, Since, BlocksOf
<1> QED
  BY <1>1, <1>5, <1>6, <1>8, <1>10, <1>11
  DEF Cache!Reference!Cached, Cache!Reference!Full, Cache!Reference!Cardinality, Cardinality

\* An access keeps the invariant.
LEMMA AccessKeeps ==
  ASSUME CacheSizes, CacheInv, NEW a \in Addresses, NEW op \in {"L", "S", "M"}, Cache!Access(op, a)
  PROVE  CacheInv'
<1>1. PICK s, b, t, l : /\ s = Cache!extract_set_bits(a) /\ b = Cache!BlockOf(a)
                        /\ t = Cache!extract_tag_bits(a) /\ l = Cache!Chosen(a)
  OBVIOUS
<1>2. s \in Cache!Sets /\ t \in Nat /\ b = 2^bits_sets * t + s /\ b \in BlocksOf(s) /\ b \in Cache!Blocks
  BY <1>1, AddressParts DEF BlocksOf, Cache!Blocks
<1>3. PICK used, rest, tags : used = in_use[s] /\ rest = free[s] /\ tags = tag[s]
  OBVIOUS
<1>4. /\ TwoLists(used, rest) /\ tags \in [Cache!Lines -> Int]
      /\ \A i \in DOMAIN used : tags[used[i]] \in Nat
      /\ Stacked(HeldBlocks(used, tags, s), Len(used), total_lines_per_set, lastUse, BlocksOf(s))
  BY <1>2, <1>3 DEF CacheInv, SetState
<1>5. /\ used \in Seq(Cache!Lines) /\ rest \in Seq(Cache!Lines) /\ OnceEach(used)
      /\ DOMAIN used = 1..Len(used) /\ Len(used) \in Nat /\ \A i \in DOMAIN used : used[i] \in Cache!Lines
      /\ Len(used) + Len(rest) = total_lines_per_set /\ Len(rest) \in Nat
      /\ Len(rest) = 0 <=> rest = <<>>
  BY <1>4 DEF TwoLists
<1>6. PICK used2, rest2, tags2 : /\ used2 = Cache!MoveToFront(l, used) /\ rest2 = Cache!delete_line(l, rest)
                                 /\ tags2 = [tags EXCEPT ![l] = t]
  OBVIOUS
<1>7. PICK h, h2 : h = HeldBlocks(used, tags, s) /\ h2 = HeldBlocks(used2, tags2, s)
  OBVIOUS
<1>8. PICK p : AccessPlace(a, s, b, p)
  BY <1>1, PlaceFound
<1>9. /\ p \in 1..(Len(used) + 1) /\ l \in Cache!Lines
      /\ InFront(used, used2, p, l) /\ TwoLists(used2, rest2)
      /\ p # Len(used) + 1 => used[p] = l
      /\ p = Len(used) + 1 => ~Among(l, used) /\ rest # <<>>
      /\ \A i \in 1..Len(used) : h[i] = b => i = p
      /\ p # Len(used) + 1 => h[p] = b \/ (rest = <<>> /\ p = Len(used))
  BY <1>1, <1>3, <1>6, <1>7, <1>8 DEF AccessPlace
<1>10. /\ used2 \in Seq(Cache!Lines) /\ rest2 \in Seq(Cache!Lines)
       /\ DOMAIN used2 = 1..Len(used2) /\ Len(used2) \in Nat
       /\ Len(used2) + Len(rest2) = total_lines_per_set /\ Len(rest2) \in Nat
  BY <1>9 DEF TwoLists
<1>11. /\ tags2 \in [Cache!Lines -> Int] /\ tags2[l] = t
       /\ \A m \in Cache!Lines : m # l => tags2[m] = tags[m]
  BY <1>2, <1>4, <1>6, <1>9
<1>12. ASSUME NEW k \in 1..Len(used), k # p PROVE used[k] # l
  <2>1. CASE p = Len(used) + 1
    BY <1>5, <1>9, <2>1 DEF Among
  <2>2. CASE p # Len(used) + 1
    <3>1. p \in 1..(Len(used) + 1) /\ Len(used) \in Nat
      BY <1>5, <1>9
    <3>2. p \in 1..Len(used)
      BY <2>2, <3>1
    <3>3. p \in 1..Len(used) /\ used[p] = l
      BY <1>9, <2>2, <3>2
    <3> QED
      BY <1>5, <1>12, <3>3 DEF OnceEach
  <2> QED
    BY <2>1, <2>2
<1>13. /\ \A i \in 1..Len(used) : h[i] = 2^bits_sets * tags[used[i]] + s
       /\ \A i \in 1..Len(used2) : h2[i] = 2^bits_sets * tags2[used2[i]] + s
  BY <1>5, <1>7, <1>10 DEF HeldBlocks
<1>14. ASSUME NEW i \in 1..Len(used2)
       PROVE  /\ h2[i] = IF i = 1 THEN b ELSE IF i <= p THEN h[i - 1] ELSE h[i]
              /\ tags2[used2[i]] \in Nat
  <2>1. CASE i = 1
    <3>1. used2[i] = l
      BY <1>9, <2>1 DEF InFront
    <3> QED
      BY <1>2, <1>11, <1>13, <2>1, <3>1
  <2>2. CASE i # 1
    <3>1. PICK k : k = IF i <= p THEN i - 1 ELSE i
      OBVIOUS
    <3>2. k \in 1..Len(used) /\ k # p
      <4>1. /\ Len(used2) = IF p = Len(used) + 1 THEN Len(used) + 1 ELSE Len(used)
            /\ p \in 1..(Len(used) + 1) /\ Len(used) \in Nat
        BY <1>5, <1>9 DEF InFront
      <4>2. CASE i <= p
        BY <2>2, <3>1, <4>1, <4>2
      <4>3. CASE ~(i <= p)
        BY <3>1, <4>1, <4>3
      <4> QED
        BY <4>2, <4>3
    <3>3. used2[i] = used[k]
      BY <1>9, <2>2, <3>1 DEF InFront
    <3>4. tags2[used2[i]] = tags[used[k]]
      BY <1>5, <1>11, <1>12, <3>2, <3>3
    <3>5. h2[i] = h[k]
      BY <1>13, <3>2, <3>4
    <3> QED
      BY <1>4, <1>5, <2>2, <3>1, <3>2, <3>4, <3>5
  <2> QED
    BY <2>1, <2>2
<1>15. PICK time : time = hit' + miss'
  OBVIOUS
<1>16. /\ hit' \in Nat /\ miss' \in Nat /\ time \in Nat /\ hit + miss < time
  BY <1>15 DEF Cache!Access, CacheInv
<1>17. /\ in_use' = [in_use EXCEPT ![s] = used2] /\ free' = [free EXCEPT ![s] = rest2]
       /\ tag' = [tag EXCEPT ![s] = tags2] /\ lastUse' = [lastUse EXCEPT ![b] = time]
  BY <1>1, <1>2, <1>3, <1>6, <1>15 DEF Cache!Access, CacheInv
<1>18. /\ lastUse' \in [Cache!Blocks -> Nat]
       /\ \A c \in Cache!Blocks : /\ lastUse'[c] = IF c = b THEN time ELSE lastUse[c]
                                  /\ lastUse[c] \in Nat /\ lastUse[c] < time /\ lastUse'[c] <= time
  BY <1>2, <1>16, <1>17 DEF CacheInv
<1>19. Stacked(h2, Len(used2), total_lines_per_set, lastUse', BlocksOf(s))
  <2>1. PICK B, n, n2, lines, last2 :
          /\ B = BlocksOf(s) /\ n = Len(used) /\ n2 = Len(used2) /\ last2 = lastUse'
          /\ lines = total_lines_per_set
    OBVIOUS
  <2>2. B \in SUBSET Cache!Blocks /\ b \in B
    BY <1>2, <2>1 DEF BlocksOf
  <2>3. Stacked(h, n, lines, lastUse, B) /\ n \in Nat /\ n2 \in Nat
    BY <1>4, <1>5, <1>7, <1>10, <2>1
  <2>4. /\ p \in 1..(n + 1) /\ n2 = IF p = n + 1 THEN n + 1 ELSE n
        /\ \A i \in 1..n2 : h2[i] = IF i = 1 THEN b ELSE IF i <= p THEN h[i - 1] ELSE h[i]
        /\ \A i \in 1..n : h[i] = b => i = p
    BY <1>9, <1>14, <2>1 DEF InFront
  <2>5. PICK k : k = Len(rest)
    OBVIOUS
  <2>6. n + k = lines /\ k \in Nat /\ (k = 0 <=> rest = <<>>)
    BY <1>5, <2>1, <2>5
  <2>7. n = lines => p # n + 1
    <3>1. p = n + 1 => rest # <<>>
      BY <1>9, <2>1
    <3> QED
      BY <2>3, <2>6, <3>1
  <2>8. p # n + 1 => h[p] = b \/ (n = lines /\ p = n)
    <3>1. p # n + 1 => h[p] = b \/ (rest = <<>> /\ p = n)
      BY <1>9, <2>1
    <3> QED
      BY <2>3, <2>6, <3>1
  <2>9. /\ \A c \in B : lastUse[c] \in Nat /\ lastUse[c] < time
        /\ \A c \in B : last2[c] = IF c = b THEN time ELSE lastUse[c]
    BY <1>18, <2>1, <2>2
  <2>10. Brought(h, n, lines, lastUse, B, b, time, p, h2, n2, last2)
    BY <1>16, <2>2, <2>3, <2>4, <2>7, <2>8, <2>9 DEF Brought
  <2>11. Stacked(h2, n2, lines, last2, B)
    BY <2>3, <2>10, BroughtToFront
  <2> QED
    BY <2>1, <2>11
<1>20. SetState(used2, rest2, tags2, lastUse', s)
  BY <1>7, <1>9, <1>10, <1>11, <1>14, <1>19 DEF SetState
<1>21. ASSUME NEW r \in Cache!Sets PROVE SetState(in_use'[r], free'[r], tag'[r], lastUse', r)
  <2>1. CASE r = s
    <3>1. in_use'[r] = used2 /\ free'[r] = rest2 /\ tag'[r] = tags2
      BY <1>2, <1>17, <2>1 DEF CacheInv
    <3> QED
      BY <1>20, <2>1, <3>1
  <2>2. CASE r # s
    <3>1. in_use'[r] = in_use[r] /\ free'[r] = free[r] /\ tag'[r] = tag[r]
      BY <1>17, <2>2 DEF CacheInv
    <3>2. \A c \in BlocksOf(r) : lastUse'[c] = lastUse[c]
      BY <1>2, <1>18, <2>2 DEF BlocksOf
    <3>3. SetState(in_use[r], free[r], tag[r], lastUse, r)
      BY DEF CacheInv
    <3>4. Len(in_use[r]) \in Nat
      BY <3>3 DEF SetState, TwoLists
    <3>5. SetState(in_use[r], free[r], tag[r], lastUse', r)
      BY <3>2, <3>3, <3>4, OtherSetStays DEF SetState
    <3> QED
      BY <3>1, <3>5
  <2> QED
    BY <2>1, <2>2
<1>22. /\ in_use' \in [Cache!Sets -> Seq(Cache!Lines)] /\ free' \in [Cache!Sets -> Seq(Cache!Lines)]
       /\ tag' \in [Cache!Sets -> [Cache!Lines -> Int]]
  BY <1>10, <1>11, <1>17 DEF CacheInv
<1> QED
  BY <1>15, <1>16, <1>18, <1>21, <1>22 DEF CacheInv

LEMMA CacheAlways ==
  ASSUME CacheSizes
  PROVE  Cache!Init /\ [][Cache!Next]_(Cache!vars) => []CacheInv
<1>1. Cache!Init => CacheInv
  BY CacheStarts
<1>2. CacheInv /\ [Cache!Next]_(Cache!vars) => CacheInv'
  <2>1. CASE Cache!Next
    BY <2>1, AccessKeeps DEF Cache!Next
  <2>2. CASE UNCHANGED Cache!vars
    BY <2>2 DEF Cache!vars, CacheInv
  <2> QED
    BY <2>1, <2>2
<1> QED
  BY <1>1, <1>2, PTL

\* csim: whatever the geometry and the trace, a line of a set is in one of its two lists,
\* and once: moving lines about neither loses one nor doubles it.
THEOREM LinesStayPartitioned ==
  ASSUME CacheSizes
  PROVE  Cache!Init /\ [][Cache!Next]_(Cache!vars) => []Cache!ListsPartitionLines
<1>1. CacheInv => Cache!ListsPartitionLines
  <2> SUFFICES ASSUME CacheInv, NEW s \in Cache!Sets
               PROVE  /\ Cache!ToSet(in_use[s] \o free[s]) = Cache!Lines
                      /\ Len(in_use[s] \o free[s]) = total_lines_per_set
    BY DEF Cache!ListsPartitionLines
  <2>1. PICK used, rest : used = in_use[s] /\ rest = free[s]
    OBVIOUS
  <2>2. TwoLists(used, rest)
    BY <2>1 DEF CacheInv, SetState
  <2>3. /\ used \in Seq(Cache!Lines) /\ rest \in Seq(Cache!Lines)
        /\ Len(used) + Len(rest) = total_lines_per_set
        /\ \A l \in Cache!Lines : Among(l, used) \/ Among(l, rest)
    BY <2>2 DEF TwoLists
  <2>4. PICK both : both = used \o rest
    OBVIOUS
  <2>5. /\ both \in Seq(Cache!Lines) /\ Len(both) = Len(used) + Len(rest)
        /\ \A i \in 1..(Len(used) + Len(rest)) :
             both[i] = IF i <= Len(used) THEN used[i] ELSE rest[i - Len(used)]
    BY <2>3, <2>4, Joined
  <2>6. ASSUME NEW l \in Cache!Lines PROVE \E i \in DOMAIN both : both[i] = l
    <3>1. DOMAIN both = 1..(Len(used) + Len(rest)) /\ Len(used) \in Nat /\ Len(rest) \in Nat
      BY <2>3, <2>5
    <3>2. CASE Among(l, used)
      <4>1. PICK i \in 1..Len(used) : used[i] = l
        BY <2>3, <3>2 DEF Among
      <4>2. i \in DOMAIN both /\ i <= Len(used)
        BY <3>1
      <4> QED
        BY <2>5, <3>1, <4>1, <4>2
    <3>3. CASE Among(l, rest)
      <4>1. PICK i \in 1..Len(rest) : rest[i] = l
        BY <2>3, <3>3 DEF Among
      <4>2. PICK k : k = i + Len(used)
        OBVIOUS
      <4>3. k \in DOMAIN both /\ ~(k <= Len(used)) /\ k - Len(used) = i
        BY <3>1, <4>2
      <4> QED
        BY <2>5, <3>1, <4>1, <4>3
    <3> QED
      BY <2>3, <3>2, <3>3
  <2>7. \A i \in DOMAIN both : both[i] \in Cache!Lines
    BY <2>5
  <2>8. Cache!ToSet(both) = Cache!Lines
    BY <2>6, <2>7 DEF Cache!ToSet
  <2>9. Len(both) = total_lines_per_set
    BY <2>3, <2>5
  <2> QED
    BY <2>1, <2>8, <2>9, <2>4
<1> QED
  BY <1>1, CacheAlways, PTL

\* csim: no two lines of a set that are in use hold the same block, so that it does not
\* matter which of them a search comes to first.
THEOREM BlocksAreHeldOnce ==
  ASSUME CacheSizes
  PROVE  Cache!Init /\ [][Cache!Next]_(Cache!vars) => []Cache!TagsAreUnique
<1>1. CacheInv => Cache!TagsAreUnique
  <2> SUFFICES ASSUME CacheInv, NEW s \in Cache!Sets,
                      NEW k \in Cache!ToSet(in_use[s]), NEW l \in Cache!ToSet(in_use[s]),
                      tag[s][k] = tag[s][l]
               PROVE  k = l
    BY DEF Cache!TagsAreUnique
  <2>1. PICK used, tags, h : used = in_use[s] /\ tags = tag[s] /\ h = HeldBlocks(used, tags, s)
    OBVIOUS
  <2>2. /\ used \in Seq(Cache!Lines) /\ DOMAIN used = 1..Len(used) /\ Len(used) \in Nat
        /\ Stacked(h, Len(used), total_lines_per_set, lastUse, BlocksOf(s))
    BY <2>1 DEF CacheInv, SetState, TwoLists
  <2>3. PICK i \in 1..Len(used), j \in 1..Len(used) : k = used[i] /\ l = used[j]
    BY <2>1, <2>2 DEF Cache!ToSet
  <2>4. h[i] = h[j]
    BY <2>1, <2>2, <2>3 DEF HeldBlocks
  <2>5. lastUse[h[i]] \in Nat
    BY <2>2 DEF Stacked, BlocksOf, CacheInv
  <2>6. ~(i < j) /\ ~(j < i)
    BY <2>2, <2>4, <2>5 DEF Stacked
  <2> QED
    BY <2>2, <2>3, <2>6
<1> QED
  BY <1>1, CacheAlways, PTL

\* csim: hits, misses and evictions are those of a cache that replaces the least recently
\* used line, for every geometry and every trace: a block is in the lists just if fewer
\* others of its set than there are lines have been used since.
THEOREM SimulatorCountsLRU ==
  ASSUME CacheSizes
  PROVE  Cache!Init /\ [][Cache!Next]_(Cache!vars) => Cache!CountsLRU
<1>1. Cache!Init => Cache!Reference!LInit
  BY DEF Cache!Init, Cache!Reference!LInit
<1>2. CacheInv /\ [Cache!Next]_(Cache!vars) => [Cache!Reference!LNext]_(Cache!Reference!lvars)
  <2>1. ASSUME CacheInv, NEW a \in Addresses, NEW op \in {"L", "S", "M"}, Cache!Access(op, a)
        PROVE  Cache!Reference!LNext
    <3>1. PICK b, modify : b = Cache!BlockOf(a) /\ modify = (op = "M")
      OBVIOUS
    <3>2. b \in Cache!Blocks /\ modify \in BOOLEAN
      BY <3>1 DEF Cache!Blocks
    <3>3. /\ Cache!Reference!Cached(b) <=> Cache!Holding(a) # {}
          /\ Cache!Reference!Full(b) <=> free[Cache!extract_set_bits(a)] = <<>>
      BY <2>1, <3>1, CachedIsHeld
    <3>4. Cache!Reference!Use(b, modify)
      BY <2>1, <3>1, <3>3 DEF Cache!Access, Cache!Reference!Use
    <3> QED
      BY <3>2, <3>4 DEF Cache!Reference!LNext
  <2> QED
    BY <2>1 DEF Cache!Next, Cache!vars, Cache!Reference!lvars
<1> QED
  BY <1>1, <1>2, CacheAlways, PTL DEF Cache!CountsLRU, Cache!Reference!LSpec
-------------------------------------------------------------------------------
(* The forest of connected elements, for every number of elements *)

Members == Forest!Elements

\* The parents p, the weights w and the classes C, between any two calls and also
\* when one of the two paths of a call has been compressed: weights double at
\* least on the way up, a class is closed under parents and has one root, and the
\* root's weight is the size of the class.  The weights of the others are what
\* they were when they stopped being roots.
ForestInv(p, w, C) ==
  /\ p \in [Members -> Members] /\ w \in [Members -> 1..size_]
  /\ \A i \in Members : p[i] # i => 2 * w[i] <= w[p[i]]
  /\ C \subseteq SUBSET Members /\ \A i \in Members : \E c \in C : i \in c
  /\ \A c, d \in C : \A i \in Members : i \in c /\ i \in d => c = d
  /\ \A c \in C : \A i \in c : p[i] \in c
  /\ \A c \in C : \A i, j \in c : p[i] = i /\ p[j] = j => i = j
  /\ \A c \in C : \A r \in c : p[r] = r => w[r] = Cardinality(c)

LEMMA ElementsAreFinite ==
  ASSUME size_ \in Nat PROVE IsFiniteSet(Members) /\ Cardinality(Members) = size_
<1>1. Members = 0..(size_ - 1) /\ 0 \in Int /\ size_ - 1 \in Int
  BY DEF Members, Forest!Elements
<1>2. IsFiniteSet(0..(size_ - 1)) /\ Cardinality(0..(size_ - 1)) = IF 0 <= size_ - 1 THEN (size_ - 1) - 0 + 1 ELSE 0
  BY <1>1, FS_Interval
<1> QED
  BY <1>1, <1>2

\* Of some elements one has the greatest weight.
LEMMA Heaviest ==
  ASSUME size_ \in Nat, NEW w \in [Members -> 1..size_], NEW S \in SUBSET Members, S # {}
  PROVE  \E h \in S : \A k \in S : w[k] <= w[h]
<1>1. PICK gaps : gaps = {size_ - w[k] : k \in S}
  OBVIOUS
<1>2. \A k \in S : w[k] \in 1..size_ /\ size_ - w[k] \in Nat
  <2>1. \A k \in S : w[k] \in 1..size_
    OBVIOUS
  <2> QED
    BY <2>1
<1>3. gaps \in SUBSET Nat /\ gaps # {}
  BY <1>1, <1>2
<1>4. PICK g \in gaps : \A k \in gaps : g <= k
  BY <1>3, SmallestOf
<1>5. PICK h \in S : g = size_ - w[h]
  BY <1>1
<1>6. \A k \in S : size_ - w[h] <= size_ - w[k]
  BY <1>1, <1>4, <1>5
<1> QED
  BY <1>2, <1>6

\* The elements that lie on the way from i to its root, as the least set that has
\* i and goes on to parents.
Closed(p, S)  == \A k \in S : p[k] \in S
Upward(p, i) == {j \in Members : \A S \in SUBSET Members : i \in S /\ Closed(p, S) => j \in S}

LEMMA UpwardIs ==
  ASSUME NEW p \in [Members -> Members], NEW i \in Members
  PROVE  /\ Upward(p, i) \in SUBSET Members /\ i \in Upward(p, i) /\ Closed(p, Upward(p, i))
         /\ Upward(p, i) = IF p[i] = i THEN {i} ELSE {i} \cup Upward(p, p[i])
<1>1. Upward(p, i) \in SUBSET Members /\ i \in Upward(p, i)
  BY DEF Upward
<1>2. ASSUME NEW a \in Members PROVE Closed(p, Upward(p, a))
  BY DEF Upward, Closed
<1>3. CASE p[i] = i
  <2>1. Closed(p, {i}) /\ {i} \in SUBSET Members
    BY <1>3 DEF Closed
  <2>2. Upward(p, i) \subseteq {i}
    BY <2>1 DEF Upward
  <2> QED
    BY <1>1, <1>2, <1>3, <2>2
<1>4. CASE p[i] # i
  <2>1. PICK a \in Members : a = p[i]
    OBVIOUS
  <2>2. PICK S : S = {i} \cup Upward(p, a)
    OBVIOUS
  <2>3. a \in Upward(p, a) /\ Upward(p, a) \in SUBSET Members
    BY DEF Upward
  <2>4. S \in SUBSET Members /\ i \in S /\ Closed(p, S)
    BY <1>2, <2>1, <2>2, <2>3 DEF Closed
  <2>5. Upward(p, i) \subseteq S
    BY <2>4 DEF Upward
  <2>6. ASSUME NEW j \in Upward(p, a), NEW T \in SUBSET Members, i \in T, Closed(p, T) PROVE j \in T
    <3>1. a \in T
      BY <2>1, <2>6 DEF Closed
    <3> QED
      BY <2>6, <3>1 DEF Upward
  <2>7. Upward(p, a) \subseteq Upward(p, i)
    BY <2>3, <2>6 DEF Upward
  <2> QED
    BY <1>1, <1>2, <1>4, <2>1, <2>2, <2>5, <2>7
<1> QED
  BY <1>3, <1>4

\* Whatever goes on to parents and has i has all the way up.
LEMMA UpwardIsLeast ==
  ASSUME NEW p \in [Members -> Members], NEW i \in Members, NEW S \in SUBSET Members, i \in S, Closed(p, S)
  PROVE  Upward(p, i) \subseteq S
BY DEF Upward

\* root() passes just these, and its recursion is well-defined: weights grow.
PathsOnce(p, f) == [j \in Members |-> IF p[j] = j THEN {j} ELSE {j} \cup f[p[j]]]

LEMMA PathIs ==
  ASSUME size_ \in Nat, NEW p, NEW w, NEW C, ForestInv(p, w, C), NEW i \in Members
  PROVE  Forest!Path(p, i) = Upward(p, i)
<1>1. p \in [Members -> Members] /\ w \in [Members -> 1..size_] /\ \A j \in Members : p[j] # j => 2 * w[j] <= w[p[j]]
  BY DEF ForestInv
<1>2. PICK g : g = [j \in Members |-> Upward(p, j)]
  OBVIOUS
<1>3. g = PathsOnce(p, g)
  <2>1. \A j \in Members : p[j] \in Members /\ g[j] = IF p[j] = j THEN {j} ELSE {j} \cup g[p[j]]
    BY <1>1, <1>2, UpwardIs
  <2> QED
    BY <1>2, <2>1 DEF PathsOnce
<1>4. PICK f : f = CHOOSE h : h = PathsOnce(p, h)
  OBVIOUS
<1>5. Forest!Path(p, i) = f[i]
  BY <1>4 DEF Forest!Path, PathsOnce, Members
<1>6. f = PathsOnce(p, f)
  BY <1>3, <1>4
<1>7. PICK bad : bad = {j \in Members : f[j] # Upward(p, j)}
  OBVIOUS
<1>8. SUFFICES ASSUME bad # {} PROVE FALSE
  BY <1>5, <1>7
<1>9. PICK h \in bad : \A k \in bad : w[k] <= w[h]
  BY <1>1, <1>7, <1>8, Heaviest
<1>10. h \in Members /\ p[h] \in Members
  BY <1>1, <1>7
<1>11. f[h] = IF p[h] = h THEN {h} ELSE {h} \cup f[p[h]]
  BY <1>6, <1>10 DEF PathsOnce
<1>12. p[h] # h => p[h] \notin bad
  <2>1. w[h] \in 1..size_ /\ w[p[h]] \in 1..size_
    BY <1>1, <1>10
  <2>2. p[h] # h => w[h] < w[p[h]]
    BY <1>1, <1>10, <2>1
  <2> QED
    BY <1>9, <2>1, <2>2
<1>13. f[h] = Upward(p, h)
  BY <1>1, <1>7, <1>10, <1>11, <1>12, UpwardIs
<1> QED
  BY <1>7, <1>13

\* What is known of an element i of a class c.
Rooted(p, w, c, i) ==
  LET r == Forest!RootOf(p, i) IN
  /\ r \in c /\ r \in Members /\ p[r] = r /\ r \in Upward(p, i)
  /\ \A j \in c : p[j] = j => j = r
  /\ Upward(p, i) \subseteq c
  /\ \A j \in Upward(p, i) : j # r => p[j] # j /\ 2 * w[j] <= w[r]

LEMMA RootIs ==
  ASSUME size_ \in Nat, NEW p, NEW w, NEW C, ForestInv(p, w, C), NEW c \in C, NEW i \in Members, i \in c
  PROVE  Rooted(p, w, c, i)
<1>1. /\ p \in [Members -> Members] /\ w \in [Members -> 1..size_]
      /\ \A j \in Members : p[j] # j => 2 * w[j] <= w[p[j]]
      /\ c \in SUBSET Members /\ Closed(p, c)
      /\ \A j, k \in c : p[j] = j /\ p[k] = k => j = k
  BY DEF ForestInv, Closed
<1>2. PICK up : up = Upward(p, i)
  OBVIOUS
<1>3. up \in SUBSET Members /\ i \in up /\ Closed(p, up) /\ up \subseteq c
  BY <1>1, <1>2, UpwardIs, UpwardIsLeast
<1>4. PICK h \in up : \A k \in up : w[k] <= w[h]
  BY <1>1, <1>3, Heaviest
<1>5. \A j \in up : p[j] \in up /\ w[j] \in 1..size_
  BY <1>1, <1>3 DEF Closed
<1>6. p[h] = h
  <2>1. p[h] # h => 2 * w[h] <= w[p[h]]
    BY <1>1, <1>3
  <2> QED
    BY <1>4, <1>5, <2>1
<1>7. PICK r : r = Forest!RootOf(p, i)
  OBVIOUS
<1>8. r \in up /\ p[r] = r
  <2>1. r = CHOOSE k \in up : p[k] = k
    BY <1>2, <1>7, PathIs DEF Forest!RootOf
  <2> QED
    BY <1>6, <2>1
<1>9. r = h
  BY <1>1, <1>3, <1>6, <1>8
<1>10. ASSUME NEW j \in up, j # r PROVE p[j] # j /\ 2 * w[j] <= w[r]
  <2>1. p[j] # j
    BY <1>1, <1>3, <1>8, <1>10
  <2>2. 2 * w[j] <= w[p[j]] /\ w[p[j]] <= w[r]
    BY <1>1, <1>3, <1>4, <1>5, <1>9, <2>1
  <2> QED
    BY <1>5, <1>8, <2>1, <2>2
<1> QED
  BY <1>1, <1>2, <1>3, <1>7, <1>8, <1>10 DEF Rooted

\* Compressing a path leaves the roots, the weights and the classes as they are.
LEMMA CompressedKeeps ==
  ASSUME size_ \in Nat, NEW p, NEW w, NEW C, ForestInv(p, w, C), NEW i \in Members
  PROVE  /\ ForestInv(Forest!Compressed(p, i), w, C)
         /\ \A j \in Members : Forest!RootOf(Forest!Compressed(p, i), j) = Forest!RootOf(p, j)
<1>1. PICK q : q = Forest!Compressed(p, i)
  OBVIOUS
<1>2. PICK r : r = Forest!RootOf(p, i)
  OBVIOUS
<1>3. PICK c \in C : i \in c
  BY DEF ForestInv
<1>4. Rooted(p, w, c, i)
  BY <1>3, RootIs
<1>5. p \in [Members -> Members] /\ w \in [Members -> 1..size_]
  BY DEF ForestInv
<1>6. r \in Members /\ r \in c /\ p[r] = r /\ r \in Upward(p, i)
  BY <1>2, <1>4 DEF Rooted
<1>7. q = [j \in Members |-> IF j \in Upward(p, i) THEN r ELSE p[j]]
  BY <1>1, <1>2, PathIs DEF Forest!Compressed, Members
<1>8. \A j \in Members : q[j] = j <=> p[j] = j
  <2>1. \A j \in Upward(p, i) : j # r => p[j] # j
    BY <1>2, <1>4 DEF Rooted
  <2> QED
    BY <1>6, <1>7, <2>1
<1>9. ForestInv(q, w, C)
  <2>1. q \in [Members -> Members]
    BY <1>5, <1>6, <1>7
  <2>2. ASSUME NEW j \in Members, q[j] # j PROVE 2 * w[j] <= w[q[j]]
    <3>1. CASE j \in Upward(p, i)
      <4>1. q[j] = r /\ j # r
        BY <1>7, <2>2, <3>1
      <4> QED
        BY <1>2, <1>4, <3>1, <4>1 DEF Rooted
    <3>2. CASE j \notin Upward(p, i)
      <4>1. q[j] = p[j]
        BY <1>7, <3>2
      <4> QED
        BY <2>2, <4>1 DEF ForestInv
    <3> QED
      BY <3>1, <3>2
  <2>3. ASSUME NEW d \in C, NEW j \in d PROVE q[j] \in d
    <3>1. j \in Members /\ p[j] \in d
      BY DEF ForestInv
    <3>2. CASE j \in Upward(p, i)
      <4>1. j \in c
        BY <1>4, <3>2 DEF Rooted
      <4>2. c = d
        BY <3>1, <4>1 DEF ForestInv
      <4> QED
        BY <1>6, <1>7, <3>1, <3>2, <4>2
    <3>3. CASE j \notin Upward(p, i)
      BY <1>7, <3>1, <3>3
    <3> QED
      BY <3>2, <3>3
  <2>4. C \subseteq SUBSET Members
    BY DEF ForestInv
  <2>5. \A d \in C : \A j, k \in d : q[j] = j /\ q[k] = k => j = k
    BY <1>8, <2>4 DEF ForestInv
  <2>6. \A d \in C : \A j \in d : q[j] = j => w[j] = Cardinality(d)
    BY <1>8, <2>4 DEF ForestInv
  <2>7. /\ \A j \in Members : \E d \in C : j \in d
        /\ \A a, b \in C : \A j \in Members : j \in a /\ j \in b => a = b
    BY DEF ForestInv
  <2> QED
    BY <1>5, <2>1, <2>2, <2>3, <2>4, <2>5, <2>6, <2>7 DEF ForestInv
<1>10. ASSUME NEW j \in Members PROVE Forest!RootOf(q, j) = Forest!RootOf(p, j)
  <2>1. PICK d \in C : j \in d
    BY DEF ForestInv
  <2>2. Rooted(p, w, d, j)
    BY <2>1, RootIs
  <2>3. Rooted(q, w, d, j)
    BY <1>9, <2>1, RootIs
  <2>4. PICK s : s = Forest!RootOf(q, j)
    OBVIOUS
  <2>5. s \in d /\ s \in Members /\ q[s] = s
    BY <2>3, <2>4 DEF Rooted
  <2>6. p[s] = s
    BY <1>8, <2>5
  <2> QED
    BY <2>2, <2>4, <2>5, <2>6 DEF Rooted
<1> QED
  BY <1>1, <1>9, <1>10

\* The lighter of two roots goes below the other one, and their classes are one.
Merge(p, w, C, q, v, D) ==
  \E light, heavy \in Members : \E a, b \in C :
    /\ light # heavy /\ p[light] = light /\ p[heavy] = heavy /\ w[light] <= w[heavy]
    /\ light \in a /\ heavy \in b
    /\ q = [p EXCEPT ![light] = heavy] /\ v = [w EXCEPT ![heavy] = w[heavy] + w[light]]
    /\ D = (C \ {a, b}) \cup {a \cup b}

\* The class that is made has one root, whose weight is its size.
LEMMA MergedKeeps ==
  ASSUME size_ \in Nat, NEW p, NEW w, NEW C, ForestInv(p, w, C),
         NEW q, NEW v, NEW D, Merge(p, w, C, q, v, D)
  PROVE  ForestInv(q, v, D)
<1> PICK light \in Members, heavy \in Members, a \in C, b \in C :
      /\ light # heavy /\ p[light] = light /\ p[heavy] = heavy /\ w[light] <= w[heavy]
      /\ light \in a /\ heavy \in b
      /\ q = [p EXCEPT ![light] = heavy] /\ v = [w EXCEPT ![heavy] = w[heavy] + w[light]]
      /\ D = (C \ {a, b}) \cup {a \cup b}
  BY DEF Merge
<1>1. p \in [Members -> Members] /\ w \in [Members -> 1..size_] /\ C \subseteq SUBSET Members
  BY DEF ForestInv
<1>2. /\ \A j \in Members : p[j] # j => 2 * w[j] <= w[p[j]]
      /\ \A i \in Members : \E c \in C : i \in c
      /\ \A c, d \in C : \A i \in Members : i \in c /\ i \in d => c = d
      /\ \A c \in C : \A i \in c : p[i] \in c
      /\ \A c \in C : \A i, j \in c : p[i] = i /\ p[j] = j => i = j
      /\ \A c \in C : \A r \in c : p[r] = r => w[r] = Cardinality(c)
  BY DEF ForestInv
<1>3. a \cap b = {} /\ a \in SUBSET Members /\ b \in SUBSET Members /\ a # b
  BY <1>1, <1>2
<1>4. w[light] = Cardinality(a) /\ w[heavy] = Cardinality(b)
  BY <1>2
<1>5. Cardinality(a \cup b) = w[heavy] + w[light] /\ w[heavy] + w[light] \in 1..size_
  <2>1. IsFiniteSet(Members) /\ Cardinality(Members) = size_
    BY ElementsAreFinite
  <2>2. IsFiniteSet(a) /\ IsFiniteSet(b)
    BY <1>3, <2>1, FS_Subset
  <2>3. Cardinality(a \cup b) = Cardinality(a) + Cardinality(b) - Cardinality({})
    BY <1>3, <2>2, FS_Union
  <2>4. Cardinality({}) = 0
    BY FS_EmptySet
  <2>5. PICK ab : ab = a \cup b
    OBVIOUS
  <2>6. ab \in SUBSET Members
    BY <1>3, <2>5
  <2>7. Cardinality(ab) <= size_
    BY <2>1, <2>6, FS_Subset
  <2>8. w[light] \in 1..size_ /\ w[heavy] \in 1..size_
    BY <1>1
  <2> QED
    BY <1>4, <2>3, <2>4, <2>5, <2>7, <2>8
<1>6. /\ q \in [Members -> Members] /\ q[light] = heavy
      /\ \A j \in Members : j # light => q[j] = p[j]
  BY <1>1
<1>7. /\ v \in [Members -> 1..size_] /\ v[heavy] = w[heavy] + w[light]
      /\ \A j \in Members : j # heavy => v[j] = w[j]
  BY <1>1, <1>5
<1>8. \A j \in Members : v[j] \in Int /\ w[j] \in Int /\ w[j] <= v[j]
  <2>1. \A j \in Members : w[j] \in 1..size_ /\ v[j] \in 1..size_
    BY <1>1, <1>7
  <2> QED
    BY <1>7, <2>1
<1>9. ASSUME NEW j \in Members, q[j] # j PROVE 2 * v[j] <= v[q[j]]
  <2>1. CASE j = light
    BY <1>6, <1>7, <1>8, <2>1
  <2>2. CASE j # light
    <3>1. q[j] = p[j] /\ p[j] # j /\ j # heavy /\ p[j] \in Members
      BY <1>1, <1>6, <1>9, <2>2
    <3>2. 2 * w[j] <= w[p[j]] /\ v[j] = w[j]
      BY <1>2, <1>7, <3>1
    <3> QED
      BY <1>8, <3>1, <3>2
  <2> QED
    BY <2>1, <2>2
<1>10. D \subseteq SUBSET Members /\ \A i \in Members : \E c \in D : i \in c
  <2>1. a \cup b \in D /\ \A c \in C : c \in D \/ c = a \/ c = b
    OBVIOUS
  <2>2. \A i \in Members : \E c \in D : i \in c
    <3> SUFFICES ASSUME NEW i \in Members PROVE \E c \in D : i \in c
      OBVIOUS
    <3>1. PICK c \in C : i \in c
      BY <1>2
    <3>2. CASE c = a \/ c = b
      <4>1. i \in a \cup b
        BY <3>1, <3>2
      <4> QED
        BY <2>1, <4>1
    <3>3. CASE c \in D
      BY <3>1, <3>3
    <3> QED
      BY <2>1, <3>2, <3>3
  <2>3. D \subseteq SUBSET Members
    BY <1>1, <1>3
  <2> QED
    BY <2>2, <2>3
<1>11. ASSUME NEW c \in D, NEW d \in D, NEW i \in Members, i \in c, i \in d PROVE c = d
  <2>1. CASE c = a \cup b /\ d # a \cup b
    BY <1>2, <1>11, <2>1
  <2>2. CASE c # a \cup b /\ d = a \cup b
    BY <1>2, <1>11, <2>2
  <2>3. CASE c # a \cup b /\ d # a \cup b
    BY <1>2, <1>11, <2>3
  <2> QED
    BY <2>1, <2>2, <2>3
<1>12. ASSUME NEW c \in D, NEW i \in c PROVE q[i] \in c
  <2>1. CASE c = a \cup b
    BY <1>2, <1>3, <1>6, <2>1
  <2>2. CASE c # a \cup b
    <3>1. c \in C /\ i \in Members /\ light \notin c
      BY <1>1, <1>2, <2>2
    <3> QED
      BY <1>2, <1>6, <3>1
  <2> QED
    BY <2>1, <2>2
<1>13. ASSUME NEW c \in D, NEW i \in c, NEW j \in c, q[i] = i, q[j] = j PROVE i = j
  <2>1. i \in Members /\ j \in Members /\ i # light /\ j # light /\ p[i] = i /\ p[j] = j
    BY <1>6, <1>10, <1>13
  <2>2. CASE c = a \cup b
    <3>1. i \in b /\ j \in b
      BY <1>2, <2>1, <2>2
    <3> QED
      BY <1>2, <2>1, <3>1
  <2>3. CASE c # a \cup b
    BY <1>2, <2>1, <2>3
  <2> QED
    BY <2>2, <2>3
<1>14. ASSUME NEW c \in D, NEW r \in c, q[r] = r PROVE v[r] = Cardinality(c)
  <2>1. r \in Members /\ r # light /\ p[r] = r
    BY <1>6, <1>10, <1>14
  <2>2. CASE c = a \cup b
    <3>1. r = heavy
      BY <1>2, <2>1, <2>2
    <3> QED
      BY <1>5, <1>7, <2>2, <3>1
  <2>3. CASE c # a \cup b
    <3>1. c \in C /\ r # heavy
      BY <1>2, <2>3
    <3> QED
      BY <1>2, <1>7, <2>1, <3>1
  <2> QED
    BY <2>2, <2>3
<1>15. /\ \A j \in Members : q[j] # j => 2 * v[j] <= v[q[j]]
       /\ \A c, d \in D : \A i \in Members : i \in c /\ i \in d => c = d
       /\ \A c \in D : \A i \in c : q[i] \in c
  BY <1>9, <1>11, <1>12
<1>16. /\ \A c \in D : \A i, j \in c : q[i] = i /\ q[j] = j => i = j
       /\ \A c \in D : \A r \in c : q[r] = r => v[r] = Cardinality(c)
  BY <1>13, <1>14
<1> QED
  BY <1>6, <1>7, <1>10, <1>15, <1>16 DEF ForestInv

ForestAt == ForestInv(parent_, weight_, classes)

\* What connect() and isConnected() do to the trees is to compress two paths first.
LEMMA TwiceCompressed ==
  ASSUME size_ \in Nat, ForestAt, NEW p \in Members, NEW q \in Members,
         NEW f, f = Forest!Compressed(Forest!Compressed(parent_, p), q)
  PROVE  /\ ForestInv(f, weight_, classes)
         /\ \A j \in Members : Forest!RootOf(f, j) = Forest!RootOf(parent_, j)
<1>1. PICK half : half = Forest!Compressed(parent_, p)
  OBVIOUS
<1>2. ForestInv(half, weight_, classes) /\ \A j \in Members : Forest!RootOf(half, j) = Forest!RootOf(parent_, j)
  BY <1>1, CompressedKeeps DEF ForestAt
<1>3. ForestInv(f, weight_, classes) /\ \A j \in Members : Forest!RootOf(f, j) = Forest!RootOf(half, j)
  BY <1>1, <1>2, CompressedKeeps
<1> QED
  BY <1>2, <1>3

LEMMA ForestKeeps ==
  ASSUME size_ \in Nat, ForestAt, [Forest!Next]_(Forest!vars) PROVE ForestAt'
<1>1. CASE UNCHANGED Forest!vars
  BY <1>1 DEF ForestAt, Forest!vars
<1>2. ASSUME NEW p \in Members, NEW q \in Members, Forest!isConnected(p, q) PROVE ForestAt'
  <2>1. ForestInv(parent_', weight_, classes)
    BY <1>2, TwiceCompressed DEF Forest!isConnected
  <2> QED
    BY <1>2, <2>1 DEF ForestAt, Forest!isConnected
<1>3. ASSUME NEW p \in Members, NEW q \in Members, Forest!connect(p, q) PROVE ForestAt'
  <2>1. PICK f : f = Forest!Compressed(Forest!Compressed(parent_, p), q)
    OBVIOUS
  <2>2. ForestInv(f, weight_, classes) /\ \A j \in Members : Forest!RootOf(f, j) = Forest!RootOf(parent_, j)
    BY <2>1, TwiceCompressed
  <2>3. PICK s, t : s = Forest!RootOf(parent_, p) /\ t = Forest!RootOf(parent_, q)
    OBVIOUS
  <2>4. PICK a \in classes : p \in a
    BY DEF ForestAt, ForestInv
  <2>5. PICK b \in classes : q \in b
    BY DEF ForestAt, ForestInv
  <2>6. s \in a /\ s \in Members /\ f[s] = s
    <3>1. Rooted(f, weight_, a, p)
      BY <2>2, <2>4, RootIs
    <3> QED
      BY <2>2, <2>3, <3>1 DEF Rooted
  <2>7. t \in b /\ t \in Members /\ f[t] = t
    <3>1. Rooted(f, weight_, b, q)
      BY <2>2, <2>5, RootIs
    <3> QED
      BY <2>2, <2>3, <3>1 DEF Rooted
  <2>8. PICK both : both = {c \in classes : p \in c \/ q \in c}
    OBVIOUS
  <2>9. classes' = (classes \ both) \cup {UNION both}
    BY <1>3, <2>8 DEF Forest!connect
  <2>10. both = {a, b}
    BY <2>4, <2>5, <2>8 DEF ForestAt, ForestInv
  <2>11. classes' = (classes \ {a, b}) \cup {a \cup b}
    BY <2>9, <2>10
  <2>12. \/ s = t /\ parent_' = f /\ weight_' = weight_
         \/ s # t /\ weight_[s] > weight_[t] /\ Forest!Union(f, t, s)
         \/ s # t /\ weight_[s] <= weight_[t] /\ Forest!Union(f, s, t)
    BY <1>3, <2>1, <2>3 DEF Forest!connect
  <2>13. CASE s = t /\ parent_' = f /\ weight_' = weight_
    <3>1. a = b
      BY <2>4, <2>5, <2>6, <2>7, <2>13 DEF ForestAt, ForestInv
    <3>2. classes' = classes
      BY <2>4, <2>11, <3>1
    <3> QED
      BY <2>2, <2>13, <3>2 DEF ForestAt
  <2>14. weight_[s] \in Int /\ weight_[t] \in Int
    <3>1. weight_[s] \in 1..size_ /\ weight_[t] \in 1..size_
      BY <2>6, <2>7 DEF ForestAt, ForestInv
    <3> QED
      BY <3>1
  <2>15. CASE s # t /\ weight_[s] > weight_[t] /\ Forest!Union(f, t, s)
    <3>1. parent_' = [f EXCEPT ![t] = s] /\ weight_' = [weight_ EXCEPT ![s] = @ + weight_[t]]
      BY <2>15 DEF Forest!Union
    <3>2. classes' = (classes \ {b, a}) \cup {b \cup a}
      BY <2>11
    <3>3. Merge(f, weight_, classes, parent_', weight_', classes')
      <4>1. weight_[t] <= weight_[s] /\ t # s
        BY <2>14, <2>15
      <4> QED
        BY <2>6, <2>7, <3>1, <3>2, <4>1, Zenon DEF Merge
    <3>4. ForestInv(parent_', weight_', classes')
      BY <2>2, <3>3, MergedKeeps
    <3> QED
      BY <3>4 DEF ForestAt
  <2>16. CASE s # t /\ weight_[s] <= weight_[t] /\ Forest!Union(f, s, t)
    <3>1. parent_' = [f EXCEPT ![s] = t] /\ weight_' = [weight_ EXCEPT ![t] = @ + weight_[s]]
      BY <2>16 DEF Forest!Union
    <3>2. Merge(f, weight_, classes, parent_', weight_', classes')
      BY <2>6, <2>7, <2>11, <2>16, <3>1, Zenon DEF Merge
    <3>3. ForestInv(parent_', weight_', classes')
      BY <2>2, <3>2, MergedKeeps
    <3> QED
      BY <3>3 DEF ForestAt
  <2> QED
    BY <2>12, <2>13, <2>15, <2>16
<1> QED
  BY <1>1, <1>2, <1>3 DEF Forest!Next, Members

LEMMA ForestStarts == ASSUME size_ \in Nat, Forest!Init PROVE ForestAt
<1>1. /\ parent_ = [i \in Members |-> i] /\ weight_ = [i \in Members |-> 1]
      /\ classes = {{i} : i \in Members}
  BY DEF Forest!Init, Members
<1>2. weight_ \in [Members -> 1..size_]
  <2>1. \A i \in Members : 1 \in 1..size_
    BY DEF Members, Forest!Elements
  <2> QED
    BY <1>1, <2>1
<1>3. \A c \in classes : \A r \in c : weight_[r] = Cardinality(c)
  <2>1. \A i \in Members : Cardinality({i}) = 1
    BY FS_Singleton
  <2> QED
    BY <1>1, <2>1
<1>4. /\ classes \subseteq SUBSET Members /\ \A i \in Members : \E c \in classes : i \in c
      /\ \A c, d \in classes : \A i \in Members : i \in c /\ i \in d => c = d
      /\ \A c \in classes : \A i, j \in c : i = j
  <2>1. \A c \in classes : \E i \in Members : c = {i}
    BY <1>1
  <2>2. \A i \in Members : {i} \in classes /\ i \in {i}
    BY <1>1
  <2>3. classes \subseteq SUBSET Members /\ \A c \in classes : \A i, j \in c : i = j
    BY <2>1
  <2>4. \A i \in Members : \E c \in classes : i \in c
    BY <2>2
  <2>5. ASSUME NEW c \in classes, NEW d \in classes, NEW i \in Members, i \in c, i \in d PROVE c = d
    <3>1. PICK j \in Members : c = {j}
      BY <2>1
    <3>2. PICK k \in Members : d = {k}
      BY <2>1
    <3> QED
      BY <2>5, <3>1, <3>2
  <2> QED
    BY <2>3, <2>4, <2>5
<1>5. /\ parent_ \in [Members -> Members] /\ \A i \in Members : parent_[i] = i
      /\ \A c \in classes : \A i \in c : parent_[i] \in c
  BY <1>1, <1>4
<1> QED
  BY <1>2, <1>3, <1>4, <1>5 DEF ForestAt, ForestInv

\* Elements of one class have one root, and of two classes two.
LEMMA ConnectedIs ==
  ASSUME size_ \in Nat, ForestAt, NEW p \in Members, NEW q \in Members
  PROVE  Forest!Connected(p, q) <=> \E c \in classes : {p, q} \subseteq c
<1>1. PICK a \in classes : p \in a
  BY DEF ForestAt, ForestInv
<1>2. PICK b \in classes : q \in b
  BY DEF ForestAt, ForestInv
<1>3. PICK s, t : s = Forest!RootOf(parent_, p) /\ t = Forest!RootOf(parent_, q)
  OBVIOUS
<1>4. s \in a /\ s \in Members /\ parent_[s] = s /\ \A j \in a : parent_[j] = j => j = s
  BY <1>1, <1>3, RootIs DEF ForestAt, Rooted
<1>5. t \in b /\ t \in Members /\ parent_[t] = t
  BY <1>2, <1>3, RootIs DEF ForestAt, Rooted
<1>6. \A c, d \in classes : \A i \in Members : i \in c /\ i \in d => c = d
  BY DEF ForestAt, ForestInv
<1>7. s = t <=> a = b
  BY <1>4, <1>5, <1>6
<1>8. a = b <=> \E c \in classes : {p, q} \subseteq c
  BY <1>1, <1>2, <1>6
<1> QED
  BY <1>3, <1>7, <1>8 DEF Forest!Connected

\* The union-find, for any number of elements: two elements have one root just if
\* calls of connect() lead from one to the other, however paths have been
\* compressed in between.
THEOREM ClassesAreConnected ==
  ASSUME size_ \in Nat
  PROVE  Forest!Init /\ [][Forest!Next]_(Forest!vars) => []Forest!ConnectedIsClass
<1>1. Forest!Init => ForestAt
  BY ForestStarts
<1>2. ForestAt /\ [Forest!Next]_(Forest!vars) => ForestAt'
  BY ForestKeeps
<1>3. ForestAt => Forest!ConnectedIsClass
  BY ConnectedIs DEF Forest!ConnectedIsClass, Members
<1> QED
  BY <1>1, <1>2, <1>3, PTL

\* What is used of powers; the provers know nothing of them.
Powers == 2^0 = 1 /\ \A k \in Nat : 2^k \in Nat /\ 2^(k + 1) = 2 * 2^k

\* An element has, for each step of the way to its root, at most half the weight.
LEMMA WayIsShort ==
  ASSUME size_ \in Nat, Powers, NEW p, NEW w, NEW C, ForestInv(p, w, C), NEW i \in Members
  PROVE  /\ IsFiniteSet(Upward(p, i)) /\ Cardinality(Upward(p, i)) - 1 \in Nat
         /\ 2^(Cardinality(Upward(p, i)) - 1) * w[i] <= w[Forest!RootOf(p, i)]
<1>1. /\ p \in [Members -> Members] /\ w \in [Members -> 1..size_]
      /\ \A j \in Members : p[j] # j => 2 * w[j] <= w[p[j]]
  BY DEF ForestInv
<1>2. ASSUME NEW j \in Members
      PROVE  IsFiniteSet(Upward(p, j)) /\ Cardinality(Upward(p, j)) - 1 \in Nat
  <2>1. Upward(p, j) \in SUBSET Members /\ j \in Upward(p, j)
    BY <1>1, UpwardIs
  <2>2. IsFiniteSet(Upward(p, j))
    BY <2>1, ElementsAreFinite, FS_Subset
  <2>3. PICK up : up = Upward(p, j)
    OBVIOUS
  <2>4. Cardinality(up) \in Nat /\ Cardinality(up) # 0
    BY <2>1, <2>2, <2>3, FS_CardinalityType, FS_EmptySet
  <2> QED
    BY <2>2, <2>3, <2>4
<1>3. PICK root : root = [j \in Members |-> Forest!RootOf(p, j)]
  OBVIOUS
<1>4. PICK steps : steps = [j \in Members |-> Cardinality(Upward(p, j)) - 1]
  OBVIOUS
<1>5. \A j \in Members : steps[j] \in Nat /\ root[j] \in Members /\ w[root[j]] \in Nat /\ w[j] \in Nat
  <2> SUFFICES ASSUME NEW j \in Members
      PROVE steps[j] \in Nat /\ root[j] \in Members /\ w[root[j]] \in Nat /\ w[j] \in Nat
    OBVIOUS
  <2>1. steps[j] \in Nat
    BY <1>2, <1>4
  <2>2. PICK c \in C : j \in c
    BY DEF ForestInv
  <2>3. root[j] \in Members
    BY <1>3, <2>2, RootIs DEF Rooted
  <2>4. w[j] \in 1..size_ /\ w[root[j]] \in 1..size_
    BY <1>1, <2>3
  <2> QED
    BY <2>1, <2>3, <2>4
<1>6. PICK bad : bad = {j \in Members : ~(2^steps[j] * w[j] <= w[root[j]])}
  OBVIOUS
<1>7. ASSUME bad # {} PROVE FALSE
  <2>1. PICK h \in bad : \A k \in bad : w[k] <= w[h]
    BY <1>1, <1>6, <1>7, Heaviest
  <2>2. h \in Members /\ p[h] \in Members
    BY <1>1, <1>6
  <2>3. CASE p[h] = h
    <3>1. Upward(p, h) = {h}
      BY <1>1, <2>2, <2>3, UpwardIs
    <3>2. steps[h] = 0
      BY <1>4, <2>2, <3>1, FS_Singleton
    <3>3. root[h] = h
      <4>1. PICK c \in C : h \in c
        BY <2>2 DEF ForestInv
      <4>2. Rooted(p, w, c, h)
        BY <2>2, <4>1, RootIs
      <4> QED
        BY <1>3, <2>2, <2>3, <4>1, <4>2 DEF Rooted
    <3>4. 2^steps[h] * w[h] = w[h]
      BY <1>5, <2>2, <3>2 DEF Powers
    <3> QED
      BY <1>5, <1>6, <2>2, <3>3, <3>4
  <2>4. CASE p[h] # h
    <3>1. PICK k \in Members : k = p[h]
      BY <2>2
    <3>2. 2 * w[h] <= w[k] /\ w[h] \in 1..size_ /\ w[k] \in 1..size_
      BY <1>1, <2>2, <2>4, <3>1
    <3>3. k \notin bad
      BY <2>1, <3>2
    <3>4. 2^steps[k] * w[k] <= w[root[k]]
      BY <1>6, <3>3
    <3>5. root[h] = root[k]
      <4>1. PICK c \in C : h \in c
        BY <2>2 DEF ForestInv
      <4>2. k \in c
        BY <3>1, <4>1 DEF ForestInv
      <4>3. Rooted(p, w, c, h) /\ Rooted(p, w, c, k)
        BY <2>2, <4>1, <4>2, RootIs
      <4> QED
        BY <1>3, <2>2, <4>3 DEF Rooted
    <3>6. steps[h] = steps[k] + 1
      <4>1. Upward(p, h) = {h} \cup Upward(p, k)
        BY <1>1, <2>2, <2>4, <3>1, UpwardIs
      <4>2. h \notin Upward(p, k)
        <5>1. PICK S : S = {j \in Members : w[k] <= w[j]}
          OBVIOUS
        <5>2. \A j \in Members : w[j] \in Int /\ w[p[j]] \in Int /\ w[j] <= w[p[j]] /\ p[j] \in Members
          <6>1. \A j \in Members : w[j] \in 1..size_ /\ w[p[j]] \in 1..size_ /\ p[j] \in Members
            BY <1>1
          <6> QED
            BY <1>1, <6>1
        <5>3. S \in SUBSET Members /\ k \in S /\ Closed(p, S)
          BY <5>1, <5>2 DEF Closed
        <5>4. Upward(p, k) \subseteq S
          BY <1>1, <5>3, UpwardIsLeast
        <5>5. h \notin S
          BY <3>2, <5>1
        <5> QED
          BY <5>4, <5>5
      <4>3. PICK up : up = Upward(p, k)
        OBVIOUS
      <4>4. IsFiniteSet(up) /\ Cardinality(up) \in Int
        BY <1>2, <4>3, FS_CardinalityType
      <4>5. Cardinality(up \cup {h}) = Cardinality(up) + 1
        BY <4>2, <4>3, <4>4, FS_AddElement
      <4>6. Upward(p, h) = up \cup {h}
        BY <4>1, <4>3
      <4>7. steps[h] = Cardinality(up \cup {h}) - 1
        BY <1>4, <2>2, <4>6
      <4>8. steps[k] = Cardinality(up) - 1
        BY <1>4, <4>3
      <4> QED
        BY <4>4, <4>5, <4>7, <4>8
    <3>7. PICK x \in Nat : x = 2^steps[k]
      BY <1>5 DEF Powers
    <3>8. 2^steps[h] = 2 * x
      BY <1>5, <3>6, <3>7 DEF Powers
    <3>9. PICK u \in Nat : u = w[h]
      BY <3>2
    <3>10. PICK v \in Nat : v = w[k] /\ 2 * u <= v
      BY <3>2, <3>9
    <3>11. (2 * x) * u <= x * v
      <4>1. PICK d \in Nat : v = 2 * u + d
        <5>1. v - 2 * u \in Nat /\ v = 2 * u + (v - 2 * u)
          BY <3>10
        <5> QED
          BY <5>1
      <4>2. x * v = (2 * x) * u + x * d /\ x * d \in Nat
        BY <4>1
      <4>3. (2 * x) * u \in Nat
        OBVIOUS
      <4> QED
        BY <4>2, <4>3
    <3>12. (2 * x) * u \in Nat /\ x * v \in Nat
      OBVIOUS
    <3>13. 2^steps[h] * w[h] <= w[root[h]]
      BY <1>5, <2>2, <3>4, <3>5, <3>7, <3>8, <3>9, <3>10, <3>11, <3>12
    <3> QED
      BY <1>6, <3>13
  <2> QED
    BY <2>3, <2>4
<1>8. 2^steps[i] * w[i] <= w[root[i]]
  BY <1>6, <1>7
<1> QED
  BY <1>2, <1>3, <1>4, <1>8

\* The weight of a root is the size of its class, and no way to a root has more
\* steps than that size can be halved.
LEMMA WeightsBound == ASSUME size_ \in Nat, Powers, ForestAt PROVE Forest!WeightBoundsDepth
<1>0. \A S : Forest!Cardinality(S) = Cardinality(S)
  BY DEF Forest!Cardinality, Cardinality
<1> SUFFICES ASSUME NEW i \in Members
    PROVE LET r == Forest!RootOf(parent_, i)
              n == Cardinality({j \in Members : Forest!Connected(i, j)})
          IN weight_[r] = n /\ 2^(Cardinality(Forest!Path(parent_, i)) - 1) <= n
  BY <1>0 DEF Forest!WeightBoundsDepth, Members
<1>1. PICK r : r = Forest!RootOf(parent_, i)
  OBVIOUS
<1>2. PICK c \in classes : i \in c
  BY DEF ForestAt, ForestInv
<1>3. r \in c /\ r \in Members /\ parent_[r] = r
  BY <1>1, <1>2, RootIs DEF ForestAt, Rooted
<1>4. weight_[r] = Cardinality(c)
  BY <1>3 DEF ForestAt, ForestInv
<1>5. c \in SUBSET Members /\ \A a, b \in classes : \A j \in Members : j \in a /\ j \in b => a = b
  BY DEF ForestAt, ForestInv
<1>6. \A j \in Members : Forest!Connected(i, j) <=> j \in c
  BY <1>2, <1>5, ConnectedIs
<1>7. {j \in Members : Forest!Connected(i, j)} = c
  BY <1>5, <1>6
<1>8. PICK k \in Nat : k = Cardinality(Upward(parent_, i)) - 1
  BY WayIsShort DEF ForestAt
<1>9. 2^k * weight_[i] <= weight_[r]
  BY <1>1, <1>8, WayIsShort DEF ForestAt
<1>10. PICK x \in Nat : x = 2^k
  BY DEF Powers
<1>11. weight_[i] \in 1..size_ /\ weight_[r] \in 1..size_
  BY <1>3 DEF ForestAt, ForestInv
<1>12. PICK u \in Nat : u = weight_[i] /\ u >= 1
  BY <1>11
<1>13. x <= x * u
  <2>1. PICK d \in Nat : u = d + 1
    <3>1. u - 1 \in Nat /\ u = (u - 1) + 1
      BY <1>12
    <3> QED
      BY <3>1
  <2>2. x * u = x * d + x /\ x * d \in Nat
    BY <2>1
  <2> QED
    BY <2>2
<1>14. x * u \in Nat
  OBVIOUS
<1>15. 2^k <= weight_[r]
  BY <1>9, <1>10, <1>11, <1>12, <1>13, <1>14
<1>16. Forest!Path(parent_, i) = Upward(parent_, i)
  BY PathIs DEF ForestAt
<1> QED
  BY <1>1, <1>4, <1>7, <1>8, <1>15, <1>16

\* The union-find: root() never recurs deeper than the logarithm of the size of a
\* class, though weights of compressed trees are not kept up but for roots.
THEOREM TreesStayFlat ==
  ASSUME size_ \in Nat, Powers
  PROVE  Forest!Init /\ [][Forest!Next]_(Forest!vars) => []Forest!WeightBoundsDepth
<1>1. Forest!Init => ForestAt
  BY ForestStarts
<1>2. ForestAt /\ [Forest!Next]_(Forest!vars) => ForestAt'
  BY ForestKeeps
<1>3. ForestAt => Forest!WeightBoundsDepth
  BY WeightsBound
<1> QED
  BY <1>1, <1>2, <1>3, PTL

-------------------------------------------------------------------------------
(* The containers together *)

\* The containers of the repository, for every size, key and number: each holds what was
\* put into it and not taken out, and none loses or doubles a place of its own.
THEOREM ContainersStayWhole ==
  ASSUME Powers
  PROVE  ContainersSpec => []ContainersHold
<1>1. size_ \in Nat /\ HashesAreNumbers /\ PoolSizes /\ LongevitiesAreNumbers /\ CacheSizes
  BY ContainersAssumption
<1>2. Forest!Init /\ [][Forest!Next]_(Forest!vars) => []Forest!ConnectedIsClass
  BY <1>1, ClassesAreConnected
<1>3. Forest!Init /\ [][Forest!Next]_(Forest!vars) => []Forest!WeightBoundsDepth
  BY <1>1, TreesStayFlat
<1>4. Chain!Init /\ [][Chain!Next]_buckets => []Chain!KeysAreOnce
  BY <1>1, KeysStayOnce
<1>5. Pool!Init /\ [][Pool!Next]_(Pool!vars) => []Pool!PoolIsPartitioned
  BY <1>1, PoolStaysPartitioned
<1>6. Exits!Init /\ [][Exits!Next]_(Exits!vars) => []Exits!OneCallEach
  BY <1>1, OneCallForEach
<1>7. Cache!Init /\ [][Cache!Next]_(Cache!vars) => []Cache!ListsPartitionLines
  BY <1>1, LinesStayPartitioned
<1>8. Cache!Init /\ [][Cache!Next]_(Cache!vars) => []Cache!TagsAreUnique
  BY <1>1, BlocksAreHeldOnce
<1> QED
  BY <1>2, <1>3, <1>4, <1>5, <1>6, <1>7, <1>8, RingIsTold, StackInBounds, PTL
  DEF ContainersSpec, ContainersHold

\* Each container that is meant as something simpler implements it, step by step: a queue,
\* a dictionary, a cache with least recently used replacement; the stack keeps its items
\* and exit its order.
THEOREM ContainersRefine == ContainersSpec => ContainersImplement
<1>1. HashesAreNumbers /\ LongevitiesAreNumbers /\ CacheSizes
  BY ContainersAssumption
<1>2. Chain!Init /\ [][Chain!Next]_buckets => Chain!ImplementsDictionary
  BY <1>1, ListsAreDictionary
<1>3. Cache!Init /\ [][Cache!Next]_(Cache!vars) => Cache!CountsLRU
  BY <1>1, SimulatorCountsLRU
<1>4. Exits!Init /\ [][Exits!Next]_(Exits!vars) => Exits!LongestFirst
  BY <1>1, LongestGoesFirst
<1> QED
  BY <1>2, <1>3, <1>4, RingImplementsQueue, StackItemsSurvive, PTL
  DEF ContainersSpec, ContainersImplement
================================================================================
