---------------------------- MODULE LinearProbing ----------------------------
(***************************************************************************)
(* LinearProbingHashMap: an array of slots in which a key is looked for    *)
(* from the place its hash code gives.  A slot is NONAVAILABLE (never      *)
(* used), AVAILABLE (holds a key) or FAKE (its key was erased); the names  *)
(* are the program's.                                                      *)
(*                                                                         *)
(* findNodeIdByKey() does not go on when it meets a FAKE slot, line 36: it *)
(* looks at the same slot until its count of tries is used up, and says    *)
(* that the key is not there.  What is behind an erased slot is therefore  *)
(* hidden until the array is resized, and may be put in a second time.     *)
(***************************************************************************)
EXTENDS Integers, Sequences, FiniteSets, TLC

CONSTANTS Keys,         \* numbers, which are their own hash codes
          Values,
          MaxBuckets    \* bound on the size of the array

VARIABLES table,        \* [slots, use]: the array and usecount
          erased,       \* history: some key has been erased
          dict          \* history: the dictionary the callers mean

vars == <<table, erased, dict>>

Garbage == 0            \* what a new slot holds
Empty == [st |-> "NONAVAILABLE", k |-> Garbage, v |-> Garbage]
NewSlots(n) == [i \in 0..(n - 1) |-> Empty]
Size(t) == Cardinality(DOMAIN t.slots)

Init == table = [slots |-> NewSlots(3), use |-> 0] /\ erased = FALSE /\ dict = <<>>

hash(t, key) == key % Size(t)
Slot(t, key, i) == t.slots[(hash(t, key) + i) % Size(t)]

\* findNodeIdByKey(): the first slot of the probe with the key, if all slots
\* before it are AVAILABLE; -1 else.
Find(t, key) ==
  LET hits == {i \in 0..(Size(t) - 1) :
                 /\ Slot(t, key, i).st = "AVAILABLE" /\ Slot(t, key, i).k = key
                 /\ \A j \in 0..(i - 1) : Slot(t, key, j).st = "AVAILABLE" /\ Slot(t, key, j).k # key}
  IN IF hits = {} THEN -1 ELSE (hash(t, key) + CHOOSE i \in hits : TRUE) % Size(t)

\* findNotAvailableNodeId(): the first slot of the probe that holds no key.
FreeSlot(t, key) ==
  LET frees == {i \in 0..(Size(t) - 1) : Slot(t, key, i).st # "AVAILABLE"}
  IN IF frees = {} THEN -1
     ELSE (hash(t, key) + CHOOSE i \in frees : \A j \in frees : i <= j) % Size(t)

\* loadfactor >= threshold
Overloaded(use, size) == 4 * (use + 1) >= 3 * size

RECURSIVE Resize(_, _), PutAll(_, _, _), Put(_, _)

\* operator[]: the table with a slot for the key.  A new slot keeps the value
\* that was in the memory.
Put(t, key) ==
  IF Find(t, key) >= 0 THEN t
  ELSE LET r == IF Overloaded(t.use, Size(t)) THEN Resize(t, 2 * Size(t) + 1) ELSE t
           i == FreeSlot(r, key)
       IN [slots |-> [r.slots EXCEPT ![i].st = "AVAILABLE", ![i].k = key], use |-> r.use + 1]

\* The loop of resize() over the old slots from i on: operator[] of each key is
\* assigned the old value; it may resize again.
PutAll(t, old, i) ==
  IF i \notin DOMAIN old THEN t
  ELSE IF old[i].st # "AVAILABLE" THEN PutAll(t, old, i + 1)
  ELSE LET r == Put(t, old[i].k)
       IN PutAll([r EXCEPT !.slots[Find(r, old[i].k)].v = old[i].v], old, i + 1)

Resize(t, n) == [PutAll([slots |-> NewSlots(n), use |-> t.use], t.slots, 0) EXCEPT !.use = t.use]

-------------------------------------------------------------------------------
Set(t, key, v) == [t EXCEPT !.slots[Find(t, key)].v = v]

\* map[key] = v
Assign(key, v) ==
  /\ table' = Set(Put(table, key), key, v)
  /\ dict' = (key :> v) @@ dict
  /\ UNCHANGED erased

\* map[key], read
Touch(key) ==
  /\ table' = Put(table, key)
  /\ dict' = (key :> table'.slots[Find(table', key)].v) @@ dict
  /\ UNCHANGED erased

EraseSlot(t, i) == [t EXCEPT !.slots[i].st = "FAKE", !.use = @ - 1]

Half(n) == IF (n \div 2) % 2 = 1 THEN n \div 2 ELSE n \div 2 + 1

\* eraseKey(); a table that is a quarter full or less is halved.
EraseKey(key) ==
  /\ LET i == Find(table, key) IN
     \/ i < 0 /\ UNCHANGED table
     \/ /\ i >= 0
        /\ LET t == EraseSlot(table, i) IN
           table' = IF 4 * t.use <= Size(t) THEN Resize(t, Half(Size(t))) ELSE t
  /\ erased' = TRUE
  /\ dict' = [k \in DOMAIN dict \ {key} |-> dict[k]]

Next == \E k \in Keys :
  /\ Size(table) <= MaxBuckets
  /\ EraseKey(k) \/ Touch(k) \/ \E v \in Values : Assign(k, v)

-------------------------------------------------------------------------------
(* Properties *)

Held == {i \in DOMAIN table.slots : table.slots[i].st = "AVAILABLE"}
isKeyExist(key) == Find(table, key) >= 0

\* The assertion of line 104: when operator[] needs a slot there is one.  It is
\* so because usecount, which a resize restores although it may have merged
\* two slots of one key, is never less than the slots in use, and below the
\* threshold.
RoomForNewKey ==
  /\ table.use >= Cardinality(Held)
  /\ \A k \in Keys : ~isKeyExist(k) =>
       LET r == IF Overloaded(table.use, Size(table)) THEN Resize(table, 2 * Size(table) + 1) ELSE table
       IN FreeSlot(r, k) >= 0

\* A key that is hidden behind an erased slot has not left the array.
KeysAreHeld == \A k \in DOMAIN dict : \E i \in Held : table.slots[i].k = k

\* As long as nothing is erased the map is what its callers think it is.
ExactUntilErase ==
  ~erased => /\ {k \in Keys : isKeyExist(k)} = DOMAIN dict
             /\ \A k \in DOMAIN dict : table.slots[Find(table, k)].v = dict[k]
             /\ table.use = Cardinality(DOMAIN dict)
===============================================================================
