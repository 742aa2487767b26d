--------------------------- MODULE SeparateChaining ---------------------------
(***************************************************************************)
(* SeparateChainingHashMap: an array of lists of nodes with different keys *)
(* that fall into the same bucket.  A key is a string, a sequence of       *)
(* character codes below 128.                                              *)
(***************************************************************************)
EXTENDS Integers, Sequences, SequencesExt, TLC

CONSTANTS bucketSize,   \* 97 in the program
          Keys,         \* strings
          Values

VARIABLE buckets        \* for each bucket, the nodes of its list

\* hash += s[i] + 31 * hash, of which hash() uses the lowest 31 bits: the sum is
\* parted so that no number is larger.
HashString(s) ==
  FoldLeft(LAMBDA h, c : 32 * (((h % 2^26) + (c \div 32)) % 2^26) + (c % 32), 0, s)

\* A string of C ends before its first 0.
HashChars(s) ==
  HashString(IF Contains(s, 0) THEN SubSeq(s, 1, SelectInSeq(s, LAMBDA c : c = 0) - 1) ELSE s)

hash(key) == HashString(key) % bucketSize

Init == buckets = [b \in 0..(bucketSize - 1) |-> <<>>]

\* findNodeByKey(): the place of the first node with the key, or 0.
Place(list, key) ==
  IF \E i \in DOMAIN list : list[i].k = key
  THEN CHOOSE i \in DOMAIN list : list[i].k = key /\ \A j \in 1..(i - 1) : list[j].k # key
  ELSE 0

isKeyExist(key) == Place(buckets[hash(key)], key) # 0
Lookup(key) == LET list == buckets[hash(key)] IN list[Place(list, key)].v

\* operator[] for a key that is missing: a new node at the head of its list.
NewNode(key, v) ==
  buckets' = [buckets EXCEPT ![hash(key)] = <<[k |-> key, v |-> v]>> \o @]

\* map[key] = v
Assign(key, v) ==
  \/ ~isKeyExist(key) /\ NewNode(key, v)
  \/ isKeyExist(key) /\ buckets' = [buckets EXCEPT ![hash(key)][Place(buckets[hash(key)], key)].v = v]

\* map[key] alone; a new node has whatever value the memory held.
Touch(key) == ~isKeyExist(key) /\ \E v \in Values : NewNode(key, v)

\* removeNodeByKey(): the first node with the key is taken out.
Unlink(list, key) == IF Place(list, key) > 0 THEN RemoveAt(list, Place(list, key)) ELSE list

EraseKey(key) == buckets' = [buckets EXCEPT ![hash(key)] = Unlink(@, key)]

Next == \E k \in Keys : EraseKey(k) \/ Touch(k) \/ \E v \in Values : Assign(k, v)

\* The map that the lists stand for.
Map == [k \in {k \in Keys : isKeyExist(k)} |-> Lookup(k)]

\* A key is in the list of its own bucket only, and once: otherwise erasing it
\* would bring back an old value.
KeysAreOnce ==
  \A b \in DOMAIN buckets : \A i \in DOMAIN buckets[b] :
    /\ hash(buckets[b][i].k) = b
    /\ \A j \in DOMAIN buckets[b] : buckets[b][i].k = buckets[b][j].k => i = j

\* The hash codes are numbers of 31 bits.  Of a string only the last 7 characters
\* count, so that all that end alike fall into one bucket; strings of at most 6
\* small letters, as many in each, have different ones.
HashIsOfTail(strings) ==
  \A s, t \in strings :
    /\ HashString(s) \in 0..2147483647
    /\ Len(s) = 7 => HashString(t \o s) = HashString(s)
    /\ s # t /\ Len(s) = Len(t) /\ Len(s) < 7 /\ ToSet(s \o t) \subseteq 97..122 =>
         HashString(s) # HashString(t)
    /\ HashChars(s \o <<0>> \o t) = HashString(s)

\* Seen through operator[] and isKeyExist, the lists are a dictionary.
Dict == INSTANCE Dictionary WITH dict <- Map
ImplementsDictionary == Dict!DInit /\ [][Dict!DNext]_buckets
===============================================================================
