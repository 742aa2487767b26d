---------------------------- MODULE SimpleFSProofs ----------------------------
(***************************************************************************)
(* Proofs about the file system, for any addresses, paths, buffers and     *)
(* sizes: the list of all entries and the lists dirent stay one tree in    *)
(* which a path is there once, the handlers that look see that tree, and   *)
(* each handler does to it what the abstract file tree does.               *)
(***************************************************************************)
EXTENDS SimpleFS, FiniteSetTheorems, SequenceTheorems, WellFoundedInduction, TLAPS

-------------------------------------------------------------------------------
(* Numbers and sequences *)

\* A set of numbers has a smallest one.
LEMMA SmallestOf == ASSUME NEW S \in SUBSET Nat, S # {} PROVE \E m \in S : \A k \in S : m <= k
<1>1. \E m \in S : \A k \in S : ~(<<k, m>> \in OpToRel(<, Nat))
  BY NatLessThanWellFounded, WFMin
<1>2. \A k \in S, m \in S : <<k, m>> \in OpToRel(<, Nat) <=> k < m
  BY DEF OpToRel
<1>3. PICK m \in S : \A k \in S : ~(k < m)
  BY <1>1, <1>2
<1> QED
  BY <1>3

\* A bounded set of numbers has a largest one.
LEMMA LargestOf ==
  ASSUME NEW S \in SUBSET Nat, S # {}, NEW bound \in Nat, \A k \in S : k <= bound
  PROVE  \E m \in S : \A k \in S : k <= m
<1>1. PICK T : T = {bound - k : k \in S}
  OBVIOUS
<1>2. T \in SUBSET Nat /\ T # {}
  <2>1. \A k \in S : k \in Nat /\ k <= bound
    OBVIOUS
  <2>2. \A k \in S : bound - k \in Nat
    BY <2>1
  <2> QED
    BY <1>1, <2>2
<1>3. PICK t \in T : \A k \in T : t <= k
  BY <1>2, SmallestOf
<1>4. PICK m \in S : t = bound - m
  BY <1>1, <1>3
<1>5. \A k \in S : bound - k \in T
  BY <1>1
<1>6. \A k \in S : bound - m <= bound - k
  BY <1>3, <1>4, <1>5
<1>7. \A k \in S : k \in Nat /\ m \in Nat
  OBVIOUS
<1> QED
  BY <1>6, <1>7

LEMMA FrontIs ==
  ASSUME NEW S, NEW s \in Seq(S), s # <<>>
  PROVE  /\ Len(s) \in Nat \ {0} /\ DOMAIN s = 1..Len(s)
         /\ Front(s) \in Seq(S) /\ Len(Front(s)) = Len(s) - 1
         /\ \A i \in 1..(Len(s) - 1) : Front(s)[i] = s[i]
         /\ Last(s) \in S /\ Last(s) = s[Len(s)]
<1>1. Len(s) \in Nat \ {0} /\ DOMAIN s = 1..Len(s) /\ \A i \in 1..Len(s) : s[i] \in S
  BY EmptySeq
<1>2. 1 \in Int /\ Len(s) - 1 \in Int /\ \A i \in 1..(Len(s) - 1) : s[i] \in S
  BY <1>1
<1>3. /\ SubSeq(s, 1, Len(s) - 1) \in Seq(S)
      /\ Len(SubSeq(s, 1, Len(s) - 1)) = IF 1 <= Len(s) - 1 THEN Len(s) - 1 - 1 + 1 ELSE 0
      /\ \A i \in 1..(Len(s) - 1 - 1 + 1) : SubSeq(s, 1, Len(s) - 1)[i] = s[1 + i - 1]
  BY <1>2, SubSeqProperties
<1> QED
  BY <1>1, <1>3 DEF Front, Last

\* The prefix of a path.
LEMMA HeadOf ==
  ASSUME NEW S, NEW s \in Seq(S), NEW n \in 0..Len(s)
  PROVE  /\ SubSeq(s, 1, n) \in Seq(S) /\ Len(SubSeq(s, 1, n)) = n
         /\ \A i \in 1..n : SubSeq(s, 1, n)[i] = s[i]
<1>1. 1 \in Int /\ n \in Int /\ n \in Nat /\ \A i \in 1..n : s[i] \in S
  OBVIOUS
<1>2. /\ SubSeq(s, 1, n) \in Seq(S)
      /\ Len(SubSeq(s, 1, n)) = IF 1 <= n THEN n - 1 + 1 ELSE 0
      /\ \A i \in 1..(n - 1 + 1) : SubSeq(s, 1, n)[i] = s[1 + i - 1]
  BY <1>1, SubSeqProperties
<1> QED
  BY <1>1, <1>2

LEMMA PrefixIs ==
  ASSUME NEW S, NEW s \in Seq(S), NEW t \in Seq(S)
  PROVE  IsPrefix(s, t) <=> Len(s) <= Len(t) /\ \A i \in 1..Len(s) : s[i] = t[i]
<1>1. Len(s) \in Nat /\ Len(t) \in Nat
  OBVIOUS
<1>2. CASE ~(Len(s) <= Len(t))
  BY <1>2 DEF IsPrefix
<1>3. CASE Len(s) <= Len(t)
  <2>1. Len(s) \in 0..Len(s) /\ Len(s) \in 0..Len(t)
    BY <1>1, <1>3
  <2>2. PICK a : a = SubSeq(s, 1, Len(s))
    OBVIOUS
  <2>3. PICK b : b = SubSeq(t, 1, Len(s))
    OBVIOUS
  <2>4. a \in Seq(S) /\ Len(a) = Len(s) /\ \A i \in 1..Len(s) : a[i] = s[i]
    BY <2>1, <2>2, HeadOf
  <2>5. b \in Seq(S) /\ Len(b) = Len(s) /\ \A i \in 1..Len(s) : b[i] = t[i]
    BY <2>1, <2>3, HeadOf
  <2>6. a = b <=> \A i \in 1..Len(s) : s[i] = t[i]
    BY <2>4, <2>5, SeqEqual
  <2> QED
    BY <1>3, <2>2, <2>3, <2>6 DEF IsPrefix
<1> QED
  BY <1>2, <1>3

LEMMA SameFront ==
  ASSUME NEW S, NEW s \in Seq(S), NEW t \in Seq(S), s # <<>>, t # <<>>,
         Front(s) = Front(t), Last(s) = Last(t)
  PROVE  s = t
<1>1. Len(s) = Len(t) /\ Len(s) \in Nat \ {0}
  BY FrontIs
<1>2. \A i \in 1..Len(s) : s[i] = t[i]
  BY <1>1, FrontIs
<1> QED
  BY <1>1, <1>2, SeqEqual

\* What is below something is that, or the directory it is in is below.
LEMMA PrefixOfFront ==
  ASSUME NEW S, NEW s \in Seq(S), NEW t \in Seq(S), t # <<>>
  PROVE  IsPrefix(s, t) <=> s = t \/ IsPrefix(s, Front(t))
<1>1. /\ Len(s) \in Nat /\ Len(t) \in Nat \ {0} /\ Front(t) \in Seq(S) /\ Len(Front(t)) = Len(t) - 1
      /\ \A i \in 1..(Len(t) - 1) : Front(t)[i] = t[i]
  BY FrontIs
<1>2. IsPrefix(s, t) <=> Len(s) <= Len(t) /\ \A i \in 1..Len(s) : s[i] = t[i]
  BY PrefixIs
<1>3. IsPrefix(s, Front(t)) <=> Len(s) <= Len(t) - 1 /\ \A i \in 1..Len(s) : s[i] = Front(t)[i]
  BY <1>1, PrefixIs
<1>4. s = t <=> Len(s) = Len(t) /\ \A i \in 1..Len(s) : s[i] = t[i]
  BY SeqEqual
<1> QED
  BY <1>1, <1>2, <1>3, <1>4

LEMMA PrefixTransitive ==
  ASSUME NEW S, NEW s \in Seq(S), NEW t \in Seq(S), NEW u \in Seq(S), IsPrefix(s, t), IsPrefix(t, u)
  PROVE  IsPrefix(s, u)
<1>1. Len(s) \in Nat /\ Len(t) \in Nat /\ Len(u) \in Nat
  OBVIOUS
<1>2. Len(s) <= Len(t) /\ \A i \in 1..Len(s) : s[i] = t[i]
  BY PrefixIs
<1>3. Len(t) <= Len(u) /\ \A i \in 1..Len(t) : t[i] = u[i]
  BY PrefixIs
<1> QED
  BY <1>1, <1>2, <1>3, PrefixIs

-------------------------------------------------------------------------------
(* What erasing leaves of a list *)

\* The places in L up to i.
UpTo(L, i) == {j \in L : j <= i}

\* The k-th place of a finite set of places is there.
LEMMA PlacesAreCounted ==
  ASSUME NEW n \in Nat, NEW L \in SUBSET (1..n)
  PROVE  /\ IsFiniteSet(L) /\ Cardinality(L) \in Nat
         /\ \A i \in L : Cardinality(UpTo(L, i)) \in 1..Cardinality(L)
         /\ \A i, j \in L : Cardinality(UpTo(L, i)) = Cardinality(UpTo(L, j)) => i = j
         /\ \A k \in 1..Cardinality(L) : \E i \in L : Cardinality(UpTo(L, i)) = k
<1>1. IsFiniteSet(L)
  <2>1. IsFiniteSet(1..n)
    BY FS_Interval
  <2> QED
    BY <2>1, FS_Subset
<1>2. Cardinality(L) \in Nat
  BY <1>1, FS_CardinalityType
<1>3. \A i \in L : Cardinality(UpTo(L, i)) \in 1..Cardinality(L)
  <2> SUFFICES ASSUME NEW i \in L PROVE Cardinality(UpTo(L, i)) \in 1..Cardinality(L)
    OBVIOUS
  <2>1. UpTo(L, i) \in SUBSET L /\ i \in UpTo(L, i)
    BY DEF UpTo
  <2>2. IsFiniteSet(UpTo(L, i)) /\ Cardinality(UpTo(L, i)) <= Cardinality(L)
    BY <1>1, <2>1, FS_Subset
  <2>3. Cardinality(UpTo(L, i)) \in Nat
    BY <2>2, FS_CardinalityType
  <2>4. Cardinality(UpTo(L, i)) # 0
    BY <2>1, <2>2, FS_EmptySet
  <2> QED
    BY <1>2, <2>2, <2>3, <2>4
<1>4. ASSUME NEW i \in L, NEW j \in L, i < j
      PROVE  Cardinality(UpTo(L, i)) < Cardinality(UpTo(L, j))
  <2>1. i \in Nat /\ j \in Nat /\ L \subseteq Nat
    OBVIOUS
  <2>2. UpTo(L, i) \in SUBSET UpTo(L, j) /\ UpTo(L, j) \in SUBSET L
    <3>1. \A k \in L : k <= i => k <= j
      BY <1>4, <2>1
    <3> QED
      BY <3>1 DEF UpTo
  <2>3. j \in UpTo(L, j) /\ j \notin UpTo(L, i)
    BY <1>4, <2>1 DEF UpTo
  <2>4. IsFiniteSet(UpTo(L, j))
    BY <1>1, <2>2, FS_Subset
  <2>5. /\ Cardinality(UpTo(L, i)) <= Cardinality(UpTo(L, j))
        /\ Cardinality(UpTo(L, j)) = Cardinality(UpTo(L, i)) => UpTo(L, j) = UpTo(L, i)
    BY <2>2, <2>4, FS_Subset
  <2>6. Cardinality(UpTo(L, i)) \in Nat /\ Cardinality(UpTo(L, j)) \in Nat
    BY <1>2, <1>3
  <2>7. Cardinality(UpTo(L, i)) # Cardinality(UpTo(L, j))
    BY <2>3, <2>5
  <2> QED
    BY <2>5, <2>6, <2>7
<1>5. \A i, j \in L : Cardinality(UpTo(L, i)) = Cardinality(UpTo(L, j)) => i = j
  <2> SUFFICES ASSUME NEW i \in L, NEW j \in L, Cardinality(UpTo(L, i)) = Cardinality(UpTo(L, j))
               PROVE  i = j
    OBVIOUS
  <2>1. Cardinality(UpTo(L, i)) \in Nat /\ i \in Nat /\ j \in Nat
    BY <1>2, <1>3
  <2>2. ~(i < j) /\ ~(j < i)
    <3>1. CASE i < j
      BY <1>4, <2>1, <3>1
    <3>2. CASE j < i
      BY <1>4, <2>1, <3>2
    <3> QED
      BY <2>1, <3>1, <3>2
  <2> QED
    BY <2>1, <2>2
<1>6. PICK f : f = [i \in L |-> Cardinality(UpTo(L, i))]
  OBVIOUS
<1>7. f \in Injection(L, 1..Cardinality(L))
  <2>1. f \in [L -> 1..Cardinality(L)]
    BY <1>3, <1>6
  <2>2. \A i, j \in L : f[i] = f[j] => i = j
    BY <1>5, <1>6
  <2>3. DOMAIN f = L
    BY <1>6
  <2> QED
    BY <2>1, <2>2, <2>3 DEF Injection, IsInjective
<1>8. f \in Surjection(L, 1..Cardinality(L))
  <2>1. IsFiniteSet(1..Cardinality(L)) /\ Cardinality(1..Cardinality(L)) = Cardinality(L)
    BY <1>2, FS_Interval
  <2> QED
    BY <1>7, <2>1, FS_Injection
<1>9. \A k \in 1..Cardinality(L) : \E i \in L : Cardinality(UpTo(L, i)) = k
  BY <1>6, <1>8 DEF Surjection
<1> QED
  BY <1>1, <1>2, <1>3, <1>5, <1>9

\* What is left of a list are the items that are not gone, each once if it was
\* there once.
LEMMA LeftIs ==
  ASSUME NEW S, NEW list \in Seq(S), NEW gone
  PROVE  /\ Left(list, gone) \in Seq(S)
         /\ \A x : (\E k \in DOMAIN Left(list, gone) : Left(list, gone)[k] = x)
                  <=> x \notin gone /\ \E i \in DOMAIN list : list[i] = x
         /\ (\A i, j \in DOMAIN list : list[i] = list[j] => i = j)
            => \A i, j \in DOMAIN Left(list, gone) : Left(list, gone)[i] = Left(list, gone)[j] => i = j
<1>1. Len(list) \in Nat /\ DOMAIN list = 1..Len(list) /\ \A i \in DOMAIN list : list[i] \in S
  OBVIOUS
<1>2. PICK L : L = {i \in DOMAIN list : list[i] \notin gone}
  OBVIOUS
<1>3. L \in SUBSET (1..Len(list))
  BY <1>1, <1>2
<1>4. /\ Cardinality(L) \in Nat
      /\ \A i \in L : Cardinality(UpTo(L, i)) \in 1..Cardinality(L)
      /\ \A i, j \in L : Cardinality(UpTo(L, i)) = Cardinality(UpTo(L, j)) => i = j
      /\ \A k \in 1..Cardinality(L) : \E i \in L : Cardinality(UpTo(L, i)) = k
  BY <1>1, <1>3, PlacesAreCounted
<1>5. PICK at : at = [k \in 1..Cardinality(L) |-> CHOOSE i \in L : Cardinality(UpTo(L, i)) = k]
  OBVIOUS
<1>6. \A k \in 1..Cardinality(L) : at[k] \in L /\ Cardinality(UpTo(L, at[k])) = k
  BY <1>4, <1>5
<1>7. \A i \in L : at[Cardinality(UpTo(L, i))] = i
  BY <1>4, <1>6
<1>8. PICK new : new = [k \in 1..Cardinality(L) |-> list[at[k]]]
  OBVIOUS
<1>9. Left(list, gone) = new
  <2>1. Left(list, gone) = [k \in 1..Cardinality(L) |-> list[CHOOSE i \in L : Cardinality(UpTo(L, i)) = k]]
    BY <1>2 DEF Left, UpTo
  <2> QED
    BY <1>5, <1>8, <2>1
<1>10. new \in Seq(S) /\ DOMAIN new = 1..Cardinality(L)
  BY <1>1, <1>4, <1>6, <1>8, <1>2
<1>11. ASSUME NEW x
       PROVE  (\E k \in DOMAIN new : new[k] = x) <=> x \notin gone /\ \E i \in DOMAIN list : list[i] = x
  <2>1. ASSUME NEW k \in DOMAIN new, new[k] = x
        PROVE  x \notin gone /\ \E i \in DOMAIN list : list[i] = x
    BY <1>2, <1>6, <1>8, <1>10, <2>1
  <2>2. ASSUME x \notin gone, NEW i \in DOMAIN list, list[i] = x
        PROVE  \E k \in DOMAIN new : new[k] = x
    <3>1. i \in L
      BY <1>2, <2>2
    <3>2. Cardinality(UpTo(L, i)) \in DOMAIN new /\ at[Cardinality(UpTo(L, i))] = i
      BY <1>4, <1>7, <1>10, <3>1
    <3> QED
      BY <1>8, <1>10, <2>2, <3>2
  <2> QED
    BY <2>1, <2>2
<1>12. ASSUME \A i, j \in DOMAIN list : list[i] = list[j] => i = j,
              NEW i \in DOMAIN new, NEW j \in DOMAIN new, new[i] = new[j]
       PROVE  i = j
  <2>1. at[i] \in DOMAIN list /\ at[j] \in DOMAIN list /\ list[at[i]] = list[at[j]]
    BY <1>2, <1>6, <1>8, <1>10, <1>12
  <2>2. at[i] = at[j]
    BY <1>12, <2>1
  <2> QED
    BY <1>6, <1>10, <2>2
<1> QED
  BY <1>9, <1>10, <1>11, <1>12

LEMMA Joined ==
  ASSUME NEW S, NEW a \in Seq(S), NEW b \in Seq(S), NEW new, new = a \o b
  PROVE  /\ new \in Seq(S) /\ Len(new) = Len(a) + Len(b)
         /\ \A i \in 1..(Len(a) + Len(b)) :
              new[i] = IF i <= Len(a) THEN a[i] ELSE b[i - Len(a)]
OBVIOUS

LEMMA ItemTaken ==
  ASSUME NEW S, NEW list \in Seq(S), NEW p \in DOMAIN list
  PROVE  /\ RemoveAt(list, p) \in Seq(S) /\ Len(RemoveAt(list, p)) = Len(list) - 1
         /\ \A i \in 1..(Len(list) - 1) : RemoveAt(list, p)[i] = IF i < p THEN list[i] ELSE list[i + 1]
<1>1. /\ DOMAIN list = 1..Len(list) /\ Len(list) \in Nat /\ \A i \in DOMAIN list : list[i] \in S
  OBVIOUS
<1>2. PICK new : new = RemoveAt(list, p)
  OBVIOUS
<1>3. PICK before : before = SubSeq(list, 1, p - 1)
  OBVIOUS
<1>4. PICK behind : behind = SubSeq(list, p + 1, Len(list))
  OBVIOUS
<1>5. new = before \o behind
  BY <1>3, <1>4, <1>2 DEF RemoveAt
<1>6. /\ before \in Seq(S) /\ Len(before) = p - 1
      /\ \A i \in 1..(p - 1) : before[i] = list[i]
  <2>1. /\ 1 \in Int /\ p - 1 \in Int /\ \A i \in 1..(p - 1) : list[i] \in S
    BY <1>1
  <2>2. /\ SubSeq(list, 1, p - 1) \in Seq(S)
        /\ Len(SubSeq(list, 1, p - 1)) = IF 1 <= p - 1 THEN p - 1 - 1 + 1 ELSE 0
        /\ \A i \in 1..(p - 1 - 1 + 1) : SubSeq(list, 1, p - 1)[i] = list[1 + i - 1]
    BY <2>1, SubSeqProperties
  <2> QED
    BY <1>1, <1>3, <2>2
<1>7. /\ behind \in Seq(S) /\ Len(behind) = Len(list) - p
      /\ \A i \in 1..(Len(list) - p) : behind[i] = list[i + p]
  <2>1. /\ p + 1 \in Int /\ Len(list) \in Int /\ \A i \in (p + 1)..Len(list) : list[i] \in S
    BY <1>1
  <2>2. /\ SubSeq(list, p + 1, Len(list)) \in Seq(S)
        /\ Len(SubSeq(list, p + 1, Len(list))) = IF p + 1 <= Len(list) THEN Len(list) - (p + 1) + 1 ELSE 0
        /\ \A i \in 1..(Len(list) - (p + 1) + 1) : SubSeq(list, p + 1, Len(list))[i] = list[p + 1 + i - 1]
    BY <2>1, SubSeqProperties
  <2> QED
    BY <1>1, <1>4, <2>2
<1>8. /\ new \in Seq(S) /\ Len(new) = Len(before) + Len(behind)
      /\ \A i \in 1..(Len(before) + Len(behind)) :
           new[i] = IF i <= Len(before) THEN before[i] ELSE behind[i - Len(before)]
  <2>1. before \in Seq(S) /\ behind \in Seq(S)
    BY <1>6, <1>7
  <2> QED
    BY <1>5, <2>1, Joined
<1>9. new \in Seq(S) /\ Len(new) = Len(list) - 1 /\ DOMAIN new = 1..(Len(list) - 1)
  <2>1. DOMAIN new = 1..Len(new)
    BY <1>8
  <2>2. Len(new) = Len(list) - 1
    <3>1. Len(new) = (p - 1) + (Len(list) - p)
      BY <1>6, <1>7, <1>8
    <3>2. (p - 1) + (Len(list) - p) = Len(list) - 1
      BY <1>1
    <3> QED
      BY <3>1, <3>2
  <2> QED
    BY <1>8, <2>1, <2>2
<1>10. \A i \in 1..(Len(list) - 1) : new[i] = IF i < p THEN list[i] ELSE list[i + 1]
  <2> SUFFICES ASSUME NEW i \in 1..(Len(list) - 1)
               PROVE  new[i] = IF i < p THEN list[i] ELSE list[i + 1]
    OBVIOUS
  <2>1. i \in 1..(Len(before) + Len(behind)) /\ Len(before) = p - 1
    <3>1. Len(before) + Len(behind) = Len(list) - 1
      BY <1>9, <1>8
    <3> QED
      BY <1>6, <3>1
  <2>2. new[i] = IF i <= p - 1 THEN before[i] ELSE behind[i - (p - 1)]
    BY <1>8, <2>1
  <2>3. CASE i < p
    <3>1. i \in 1..(p - 1) /\ i <= p - 1
      BY <1>1, <2>3
    <3> QED
      BY <1>6, <2>2, <2>3, <3>1
  <2>4. CASE ~(i < p)
    <3>1. /\ i - (p - 1) \in 1..(Len(list) - p) /\ ~(i <= p - 1) /\ i - (p - 1) + p = i + 1
      BY <1>1, <2>4
    <3>2. new[i] = behind[i - (p - 1)]
      BY <2>2, <3>1, Zenon
    <3>3. behind[i - (p - 1)] = list[i - (p - 1) + p]
      BY <1>7, <3>1, Zenon
    <3> QED
      BY <2>4, <3>1, <3>2, <3>3, Zenon
  <2> QED
    BY <2>3, <2>4
<1> QED
  BY <1>9, <1>10, <1>2

\* What is in the list is there once.
Once(list) == \A i, j \in DOMAIN list : list[i] = list[j] => i = j

LEMMA ErasedIs ==
  ASSUME NEW S, NEW list \in Seq(S), Once(list), NEW x
  PROVE  /\ Erase(list, x) \in Seq(S) /\ Once(Erase(list, x))
         /\ ToSet(Erase(list, x)) = ToSet(list) \ {x}
<1>1. Len(list) \in Nat /\ DOMAIN list = 1..Len(list)
  OBVIOUS
<1>2. PICK found : found = {i \in DOMAIN list : list[i] = x}
  OBVIOUS
<1>3. CASE found = {}
  <2>1. Erase(list, x) = list
    BY <1>2, <1>3 DEF Erase
  <2>2. x \notin ToSet(list)
    BY <1>2, <1>3 DEF ToSet
  <2> QED
    BY <2>1, <2>2
<1>4. CASE found # {}
  <2>1. found \in SUBSET Nat
    BY <1>1, <1>2
  <2>2. \E i \in found : \A j \in found : i <= j
    BY <1>4, <2>1, SmallestOf
  <2>3. PICK p : p = CHOOSE i \in found : \A j \in found : i <= j
    OBVIOUS
  <2>4. p \in DOMAIN list /\ list[p] = x
    BY <1>2, <2>2, <2>3
  <2>5. PICK new : new = RemoveAt(list, p)
    OBVIOUS
  <2>6. Erase(list, x) = new
    BY <1>2, <1>4, <2>3, <2>5 DEF Erase
  <2>7. /\ new \in Seq(S) /\ Len(new) = Len(list) - 1
        /\ \A i \in 1..(Len(list) - 1) : new[i] = IF i < p THEN list[i] ELSE list[i + 1]
    BY <2>4, <2>5, ItemTaken
  <2>8. DOMAIN new = 1..(Len(list) - 1) /\ p \in 1..Len(list)
    BY <1>1, <2>4, <2>7
  <2>9. PICK from : from = [i \in 1..(Len(list) - 1) |-> IF i < p THEN i ELSE i + 1]
    OBVIOUS
  <2>10. /\ \A i \in DOMAIN new : from[i] \in DOMAIN list /\ new[i] = list[from[i]] /\ from[i] # p
         /\ \A i, j \in DOMAIN new : from[i] = from[j] => i = j
         /\ \A j \in DOMAIN list \ {p} : \E i \in DOMAIN new : from[i] = j
    <3>1. \A i \in 1..(Len(list) - 1) : from[i] = IF i < p THEN i ELSE i + 1
      BY <2>9
    <3>2. ASSUME NEW j \in DOMAIN list \ {p} PROVE \E i \in DOMAIN new : from[i] = j
      <4>1. CASE j < p
        <5>1. j \in DOMAIN new /\ from[j] = j
          BY <1>1, <2>8, <3>1, <4>1
        <5> QED
          BY <5>1
      <4>2. CASE ~(j < p)
        <5>1. j - 1 \in DOMAIN new /\ from[j - 1] = j
          BY <1>1, <2>8, <3>1, <4>2
        <5> QED
          BY <5>1
      <4> QED
        BY <4>1, <4>2
    <3>3. \A i \in DOMAIN new : from[i] \in DOMAIN list /\ new[i] = list[from[i]] /\ from[i] # p
      BY <1>1, <2>7, <2>8, <3>1
    <3>4. \A i, j \in DOMAIN new : from[i] = from[j] => i = j
      BY <1>1, <2>8, <3>1
    <3> QED
      BY <3>2, <3>3, <3>4
  <2>11. Once(new)
    BY <2>10 DEF Once
  <2>12. ToSet(new) = ToSet(list) \ {x}
    <3>1. \A y \in ToSet(new) : y \in ToSet(list) /\ y # x
      BY <2>4, <2>10 DEF ToSet, Once
    <3>2. \A y \in ToSet(list) : y # x => y \in ToSet(new)
      BY <2>4, <2>10 DEF ToSet
    <3> QED
      BY <3>1, <3>2
  <2> QED
    BY <2>6, <2>7, <2>11, <2>12
<1> QED
  BY <1>3, <1>4

LEMMA LeftOnce ==
  ASSUME NEW S, NEW list \in Seq(S), Once(list), NEW gone
  PROVE  /\ Left(list, gone) \in Seq(S) /\ Once(Left(list, gone))
         /\ ToSet(Left(list, gone)) = ToSet(list) \ gone
<1>1. Left(list, gone) \in Seq(S) /\ Once(Left(list, gone))
  BY LeftIs DEF Once
<1>2. \A x : (\E k \in DOMAIN Left(list, gone) : Left(list, gone)[k] = x)
              <=> x \notin gone /\ \E i \in DOMAIN list : list[i] = x
  BY LeftIs
<1>3. \A x : x \in ToSet(Left(list, gone)) <=> x \in ToSet(list) /\ x \notin gone
  BY <1>2 DEF ToSet
<1> QED
  BY <1>1, <1>3

LEMMA AppendOnce ==
  ASSUME NEW S, NEW list \in Seq(S), Once(list), NEW x \in S, x \notin ToSet(list)
  PROVE  /\ Append(list, x) \in Seq(S) /\ Once(Append(list, x))
         /\ ToSet(Append(list, x)) = ToSet(list) \cup {x}
<1>1. Len(list) \in Nat /\ DOMAIN list = 1..Len(list)
  OBVIOUS
<1>2. PICK new : new = Append(list, x)
  OBVIOUS
<1>3. /\ new \in Seq(S) /\ DOMAIN new = 1..(Len(list) + 1) /\ new[Len(list) + 1] = x
      /\ \A i \in 1..Len(list) : new[i] = list[i]
  BY <1>1, <1>2, AppendProperties
<1>4. \A i \in DOMAIN new : i = Len(list) + 1 \/ i \in DOMAIN list
  BY <1>1, <1>3
<1>5. Once(new)
  BY <1>1, <1>3, <1>4 DEF Once, ToSet
<1>6. ToSet(new) = ToSet(list) \cup {x}
  <2>1. \A y \in ToSet(new) : y \in ToSet(list) \cup {x}
    BY <1>1, <1>3, <1>4 DEF ToSet
  <2>2. \A y \in ToSet(list) : y \in ToSet(new)
    BY <1>1, <1>3 DEF ToSet
  <2>3. x \in ToSet(new)
    BY <1>1, <1>3 DEF ToSet
  <2> QED
    BY <2>1, <2>2, <2>3
<1> QED
  BY <1>2, <1>3, <1>5, <1>6

\* The numbers of a finite list have a bound.
LEMMA BoundOf ==
  ASSUME NEW n \in Nat, NEW f \in [1..n -> Nat]
  PROVE  \E bound \in Nat : \A i \in 1..n : f[i] <= bound
<1>1. PICK S : S = {k \in 0..n : ~\E bound \in Nat : \A i \in 1..k : f[i] <= bound}
  OBVIOUS
<1>2. CASE S = {}
  <2>1. n \in 0..n /\ n \notin S
    BY <1>2
  <2> QED
    BY <1>1, <2>1
<1>3. CASE S # {}
  <2> S \in SUBSET Nat
    BY <1>1
  <2>1. PICK k \in S : \A j \in S : k <= j
    BY <1>3, SmallestOf
  <2>2. k # 0
    BY <1>1, <2>1
  <2>3. k - 1 \in 0..n /\ k - 1 \notin S /\ k \in 1..n
    <3>1. k \in 0..n
      BY <1>1
    <3>2. k - 1 \in 0..n /\ k \in 1..n /\ ~(k <= k - 1)
      BY <2>2, <3>1
    <3> QED
      BY <2>1, <3>2
  <2>4. PICK bound \in Nat : \A i \in 1..(k - 1) : f[i] <= bound
    BY <1>1, <2>3
  <2>5. \A i \in 1..k : i = k \/ i \in 1..(k - 1)
    BY <2>3
  <2>6. PICK higher \in Nat : higher >= bound /\ higher >= f[k]
    BY <2>3
  <2>7. \A i \in 1..k : f[i] <= higher
    <3>1. \A i \in 1..(k - 1) : f[i] \in Nat /\ f[i] <= bound
      BY <2>3, <2>4
    <3> QED
      BY <2>3, <2>5, <2>6, <3>1
  <2> QED
    BY <1>1, <2>1, <2>7
<1> QED
  BY <1>2, <1>3

-------------------------------------------------------------------------------
(* The list and the tree *)

\* The addresses are numbers, those main() allocates among them; what handlers
\* are called with has its type, and no write is empty.  That the names main()
\* writes down are strings has to be said: the provers do not know it of a literal.
FsConstants ==
  /\ Address \subseteq Nat /\ 0..5 \subseteq Address
  /\ Paths \subseteq Seq(STRING)
  /\ Buffers \subseteq Seq(Bytes) \ {<<>>}
  /\ Sizes \subseteq Nat
  /\ {"hello1", "hello2", "hello3", "hellod1", "hellod2"} \subseteq STRING

FsTypeOK ==
  /\ DOMAIN heap \subseteq Address /\ heap \in [DOMAIN heap -> Entry]
  /\ allEntries \in Seq(Address)
  /\ ret \in Int

\* The children of d are listed, know d, and are named after it.
Children(h, listed, d) ==
  /\ Once(h[d].dirent)
  /\ \A e \in ToSet(h[d].dirent) :
       /\ e \in listed /\ h[e].parent = d
       /\ h[e].name # <<>> /\ Front(h[e].name) = h[d].name

\* Only directories have children, and only files bytes; nothing leads from an
\* entry that could not be inserted.
Shape(h, listed, e) ==
  /\ h[e].type = FILE_T => h[e].dirent = <<>>
  /\ h[e].type = DIR_T => h[e].content = <<>>
  /\ e \notin listed => h[e].dirent = <<>>

\* The inductive invariant of the heap h and the addresses that are listed.
TreeInv(h, listed) ==
  /\ listed \subseteq DOMAIN h
  /\ Root \in listed /\ h[Root].name = <<>> /\ h[Root].type = DIR_T /\ h[Root].parent = None
  /\ \A d \in listed : Children(h, listed, d)
  /\ \A e \in listed \ {Root} : h[e].parent \in listed /\ e \in ToSet(h[h[e].parent].dirent)
  /\ \A e, f \in listed : h[e].name = h[f].name => e = f
  /\ \A e \in DOMAIN h : Shape(h, listed, e)

FsInv == FsTypeOK /\ Once(allEntries) /\ TreeInv(heap, Listed)

\* What is known of an entry.
LEMMA EntryFacts ==
  ASSUME FsConstants, FsInv, NEW e \in DOMAIN heap
  PROVE  /\ heap[e].name \in Seq(STRING) /\ heap[e].type \in {DIR_T, FILE_T}
         /\ heap[e].content \in Seq(Bytes) /\ heap[e].parent \in Address \cup {None}
         /\ heap[e].dirent \in Seq(Address)
         /\ e \in Address /\ e \in Nat /\ e # None
         /\ Len(heap[e].name) \in Nat
<1>1. heap[e] \in Entry
  BY DEF FsInv, FsTypeOK
<1>2. e \in Address /\ e \in Nat
  BY DEF FsInv, FsTypeOK, FsConstants
<1> QED
  BY <1>1, <1>2 DEF Entry, None

\* An entry other than the root is in the dirent of the entry its name is in.
LEMMA ParentFacts ==
  ASSUME FsConstants, FsInv, NEW e \in Listed, heap[e].name # <<>> \/ e # Root
  PROVE  /\ e # Root /\ heap[e].name # <<>> /\ heap[e].parent \in Listed
         /\ e \in ToSet(heap[heap[e].parent].dirent)
         /\ Front(heap[e].name) = heap[heap[e].parent].name
  BY DEF FsInv, TreeInv, Children

LEMMA NamesHaveBound == FsConstants /\ FsInv => \E bound \in Nat : \A e \in Listed : Len(heap[e].name) <= bound
<1> SUFFICES ASSUME FsConstants, FsInv PROVE \E bound \in Nat : \A e \in Listed : Len(heap[e].name) <= bound
  OBVIOUS
<1>1. Len(allEntries) \in Nat /\ DOMAIN allEntries = 1..Len(allEntries)
  BY DEF FsInv, FsTypeOK
<1>2. PICK f : f = [i \in 1..Len(allEntries) |-> Len(heap[allEntries[i]].name)]
  OBVIOUS
<1>3. \A i \in 1..Len(allEntries) : allEntries[i] \in DOMAIN heap
  BY <1>1 DEF FsInv, TreeInv, Listed, ToSet
<1>4. f \in [1..Len(allEntries) -> Nat]
  BY <1>2, <1>3, EntryFacts
<1>5. PICK bound \in Nat : \A i \in 1..Len(allEntries) : f[i] <= bound
  BY <1>1, <1>4, BoundOf
<1> QED
  BY <1>1, <1>2, <1>5 DEF Listed, ToSet

\* With an entry all directories of its path are listed.
LEMMA PrefixesAreListed ==
  ASSUME FsConstants, FsInv, NEW e \in Listed, NEW n \in 0..Len(heap[e].name)
  PROVE  \E d \in Listed : heap[d].name = SubSeq(heap[e].name, 1, n)
<1>1. PICK s \in Seq(STRING) : s = heap[e].name
  BY EntryFacts DEF FsInv, TreeInv
<1>2. Len(s) \in Nat
  OBVIOUS
<1>3. PICK B : B = {k \in 0..Len(s) : ~\E d \in Listed : heap[d].name = SubSeq(s, 1, Len(s) - k)}
  OBVIOUS
<1>4. SUFFICES ASSUME B # {} PROVE FALSE
  <2>1. Len(s) - n \in 0..Len(s) /\ Len(s) - (Len(s) - n) = n
    BY <1>1, <1>2
  <2> QED
    BY <1>1, <1>3, <2>1
<1>5. PICK k \in B : \A j \in B : k <= j
  <2>1. B \in SUBSET Nat
    BY <1>2, <1>3
  <2> QED
    BY <1>4, <2>1, SmallestOf
<1>6. k # 0
  <2>1. SubSeq(s, 1, Len(s) - 0) = s
    BY <1>2, HeadOf, SeqEqual
  <2> QED
    BY <1>1, <1>3, <1>5, <2>1
<1>7. k - 1 \in 0..Len(s) /\ k - 1 \notin B /\ k \in 1..Len(s)
  <2>1. k \in 0..Len(s)
    BY <1>3
  <2>2. k - 1 \in 0..Len(s) /\ k \in 1..Len(s) /\ ~(k <= k - 1)
    BY <1>2, <1>6, <2>1
  <2> QED
    BY <1>5, <2>2
<1>8. PICK d \in Listed : heap[d].name = SubSeq(s, 1, Len(s) - (k - 1))
  BY <1>3, <1>7
<1>9. PICK t \in Seq(STRING) : t = SubSeq(s, 1, Len(s) - (k - 1)) /\ Len(t) = Len(s) - (k - 1)
                               /\ \A i \in 1..Len(t) : t[i] = s[i]
  <2>1. PICK m : m = Len(s) - (k - 1)
    OBVIOUS
  <2>2. m \in 0..Len(s)
    BY <1>2, <1>7, <2>1
  <2>3. SubSeq(s, 1, m) \in Seq(STRING) /\ Len(SubSeq(s, 1, m)) = m /\ \A i \in 1..m : SubSeq(s, 1, m)[i] = s[i]
    BY <2>2, HeadOf
  <2> QED
    BY <2>1, <2>3
<1>10. t # <<>>
  BY <1>2, <1>7, <1>9, EmptySeq
<1>11. heap[d].parent \in Listed /\ Front(t) = heap[heap[d].parent].name
  BY <1>8, <1>9, <1>10, ParentFacts
<1>12. Front(t) = SubSeq(s, 1, Len(s) - k)
  <2>1. /\ Front(t) \in Seq(STRING) /\ Len(Front(t)) = Len(t) - 1
        /\ \A i \in 1..(Len(t) - 1) : Front(t)[i] = t[i]
    BY <1>10, FrontIs
  <2>2. Len(s) - k \in 0..Len(s) /\ Len(t) - 1 = Len(s) - k
    BY <1>2, <1>7, <1>9
  <2>3. PICK u : u = SubSeq(s, 1, Len(s) - k)
    OBVIOUS
  <2>4. u \in Seq(STRING) /\ Len(u) = Len(s) - k /\ \A i \in 1..(Len(s) - k) : u[i] = s[i]
    BY <2>2, <2>3, HeadOf
  <2>5. \A i \in 1..Len(u) : Front(t)[i] = u[i]
    <3>1. \A i \in 1..Len(u) : i \in 1..(Len(t) - 1) /\ i \in 1..Len(t) /\ i \in 1..(Len(s) - k)
      BY <1>2, <1>7, <1>9, <2>2, <2>4
    <3> QED
      BY <1>9, <2>1, <2>4, <3>1
  <2> QED
    BY <2>1, <2>2, <2>3, <2>4, <2>5, SeqEqual
<1> QED
  BY <1>3, <1>5, <1>11, <1>12

\* What is below an entry, with the entry.
Under(e) == {x \in Listed : IsPrefix(heap[e].name, heap[x].name)}

\* A child's name is one longer than its directory's, and what is below an entry
\* is that and what is below its children.
LEMMA UnderFacts ==
  ASSUME FsConstants, FsInv, NEW e \in Listed
  PROVE  /\ \A c \in ToSet(heap[e].dirent) : c \in Listed /\ Len(heap[c].name) = Len(heap[e].name) + 1
         /\ Under(e) = {e} \cup UNION {Under(c) : c \in ToSet(heap[e].dirent)}
<1> e \in DOMAIN heap
  BY DEF FsInv, TreeInv
<1>1. PICK s \in Seq(STRING) : s = heap[e].name
  BY EntryFacts
<1>2. \A x \in Listed : x \in DOMAIN heap /\ heap[x].name \in Seq(STRING)
  BY EntryFacts DEF FsInv, TreeInv
<1>3. \A c \in ToSet(heap[e].dirent) : c \in Listed /\ heap[c].name # <<>> /\ Front(heap[c].name) = s
  BY <1>1 DEF FsInv, TreeInv, Children
<1>4. ASSUME NEW c \in ToSet(heap[e].dirent) PROVE c \in Listed /\ Len(heap[c].name) = Len(s) + 1
  <2>1. PICK t \in Seq(STRING) : t = heap[c].name
    BY <1>2, <1>3
  <2>2. Len(Front(t)) = Len(t) - 1 /\ Len(t) \in Nat
    BY <1>3, <2>1, FrontIs
  <2> QED
    BY <1>3, <2>1, <2>2
<1>5. ASSUME NEW x \in Under(e), x # e
      PROVE  \E c \in ToSet(heap[e].dirent) : x \in Under(c)
  <2>1. x \in Listed /\ IsPrefix(s, heap[x].name)
    BY <1>1 DEF Under
  <2>2. PICK t \in Seq(STRING) : t = heap[x].name
    BY <1>2, <2>1
  <2>3. Len(s) \in Nat /\ Len(t) \in Nat /\ Len(s) <= Len(t) /\ \A i \in 1..Len(s) : s[i] = t[i]
    BY <2>1, <2>2, PrefixIs
  <2>4. s # t
    BY <1>1, <1>5, <2>1, <2>2 DEF FsInv, TreeInv
  <2>5. Len(s) # Len(t)
    BY <2>3, <2>4, SeqEqual
  <2>6. PICK n \in 1..Len(t) : n = Len(s) + 1
    BY <2>3, <2>5
  <2>7. n \in 0..Len(heap[x].name)
    BY <2>2, <2>6
  <2>8. PICK c \in Listed : heap[c].name = SubSeq(t, 1, n)
    BY <2>1, <2>2, <2>7, PrefixesAreListed
  <2>9. PICK u \in Seq(STRING) : u = SubSeq(t, 1, n) /\ Len(u) = n /\ \A i \in 1..n : u[i] = t[i]
    <3>1. n \in 0..Len(t)
      BY <2>2, <2>7
    <3>2. SubSeq(t, 1, n) \in Seq(STRING) /\ Len(SubSeq(t, 1, n)) = n /\ \A i \in 1..n : SubSeq(t, 1, n)[i] = t[i]
      BY <3>1, HeadOf
    <3> QED
      BY <3>2
  <2>10. u # <<>>
    BY <2>6, <2>9, EmptySeq
  <2>11. c \in ToSet(heap[heap[c].parent].dirent) /\ heap[c].parent \in Listed /\ Front(u) = heap[heap[c].parent].name
    BY <2>8, <2>9, <2>10, ParentFacts
  <2>12. Front(u) = s
    <3>1. Front(u) \in Seq(STRING) /\ Len(Front(u)) = Len(u) - 1 /\ \A i \in 1..(Len(u) - 1) : Front(u)[i] = u[i]
      BY <2>10, FrontIs
    <3>2. Len(u) - 1 = Len(s) /\ \A i \in 1..Len(s) : i \in 1..(Len(u) - 1) /\ i \in 1..n
      BY <2>3, <2>6, <2>9
    <3>3. \A i \in 1..Len(s) : Front(u)[i] = s[i]
      BY <2>3, <2>9, <3>1, <3>2
    <3> QED
      BY <3>1, <3>2, <3>3, SeqEqual
  <2>13. heap[c].parent = e
    BY <1>1, <2>11, <2>12 DEF FsInv, TreeInv
  <2>14. IsPrefix(u, t)
    <3>1. Len(u) <= Len(t) /\ \A i \in 1..Len(u) : u[i] = t[i]
      BY <2>3, <2>6, <2>9
    <3> QED
      BY <3>1, PrefixIs
  <2>15. x \in Under(c)
    BY <2>1, <2>2, <2>8, <2>9, <2>14 DEF Under
  <2> QED
    BY <2>11, <2>13, <2>15
<1>6. ASSUME NEW c \in ToSet(heap[e].dirent), NEW x \in Under(c) PROVE x \in Under(e)
  <2>1. PICK t \in Seq(STRING) : t = heap[c].name /\ t # <<>> /\ Front(t) = s
    BY <1>2, <1>3
  <2>2. PICK u \in Seq(STRING) : u = heap[x].name /\ IsPrefix(t, u) /\ x \in Listed
    BY <1>2, <2>1 DEF Under
  <2>3. IsPrefix(s, Front(t))
    BY <2>1, PrefixIs
  <2>4. IsPrefix(s, t)
    BY <2>1, <2>3, PrefixOfFront
  <2>5. IsPrefix(s, u)
    BY <2>2, <2>4, PrefixTransitive
  <2> QED
    BY <1>1, <2>2, <2>5 DEF Under
<1>7. e \in Under(e)
  <2>1. IsPrefix(s, s)
    BY PrefixIs
  <2> QED
    BY <1>1, <2>1 DEF Under
<1>8. Under(e) = {e} \cup UNION {Under(c) : c \in ToSet(heap[e].dirent)}
  BY <1>5, <1>6, <1>7
<1> QED
  BY <1>1, <1>4, <1>8

\* What the destructor of e deletes first, when f tells it for the children.
DestroyedOnce(f) ==
  [e \in DOMAIN heap |-> {e} \cup UNION {f[heap[e].dirent[i]] : i \in DOMAIN heap[e].dirent}]

\* The destructor deletes what is below the entry.
LEMMA DestroyedIs ==
  ASSUME FsConstants, FsInv, NEW ent \in Listed
  PROVE  Destroyed(ent) = Under(ent)
<1>1. PICK g : g = [e \in DOMAIN heap |-> IF e \in Listed THEN Under(e) ELSE {e}]
  OBVIOUS
<1>2. g = DestroyedOnce(g)
  <2>1. ASSUME NEW e \in DOMAIN heap
        PROVE  g[e] = {e} \cup UNION {g[heap[e].dirent[i]] : i \in DOMAIN heap[e].dirent}
    <3>1. CASE e \in Listed
      <4>1. \A c \in ToSet(heap[e].dirent) : c \in Listed /\ c \in DOMAIN heap /\ g[c] = Under(c)
        BY <1>1, <3>1, UnderFacts DEF FsInv, TreeInv
      <4>2. UNION {g[heap[e].dirent[i]] : i \in DOMAIN heap[e].dirent} = UNION {Under(c) : c \in ToSet(heap[e].dirent)}
        BY <4>1 DEF ToSet
      <4>3. Under(e) = {e} \cup UNION {Under(c) : c \in ToSet(heap[e].dirent)}
        BY <3>1, UnderFacts
      <4> QED
        BY <1>1, <3>1, <4>2, <4>3
    <3>2. CASE e \notin Listed
      <4>1. heap[e].dirent = <<>>
        BY <3>2 DEF FsInv, TreeInv, Shape
      <4>2. DOMAIN heap[e].dirent = {}
        BY <4>1
      <4> QED
        BY <1>1, <3>2, <4>2
    <3> QED
      BY <3>1, <3>2
  <2> QED
    BY <1>1, <2>1 DEF DestroyedOnce
<1>3. PICK f : f = CHOOSE h : h = DestroyedOnce(h)
  OBVIOUS
<1>4. Destroyed(ent) = f[ent]
  BY <1>3 DEF Destroyed, DestroyedOnce
<1>5. f = DestroyedOnce(f)
  BY <1>2, <1>3
<1>6. PICK bad : bad = {e \in Listed : f[e] # Under(e)}
  OBVIOUS
<1>7. SUFFICES ASSUME bad # {} PROVE FALSE
  BY <1>4, <1>6
<1>8. PICK e \in bad : \A c \in bad : Len(heap[c].name) <= Len(heap[e].name)
  <2>1. PICK bound \in Nat : \A x \in Listed : Len(heap[x].name) <= bound
    BY NamesHaveBound
  <2>2. PICK lengths : lengths = {Len(heap[x].name) : x \in bad}
    OBVIOUS
  <2>3. \A x \in bad : Len(heap[x].name) \in Nat /\ Len(heap[x].name) <= bound
    BY <1>6, <2>1, EntryFacts DEF FsInv, TreeInv
  <2>4. lengths \in SUBSET Nat /\ lengths # {} /\ \A k \in lengths : k <= bound
    BY <1>7, <2>2, <2>3
  <2>5. PICK m \in lengths : \A k \in lengths : k <= m
    BY <2>4, LargestOf
  <2> QED
    BY <2>2, <2>5
<1>9. e \in Listed /\ e \in DOMAIN heap /\ Len(heap[e].name) \in Nat
  BY <1>6, EntryFacts DEF FsInv, TreeInv
<1>10. \A c \in ToSet(heap[e].dirent) : f[c] = Under(c)
  <2>1. \A c \in ToSet(heap[e].dirent) : c \in Listed /\ Len(heap[c].name) = Len(heap[e].name) + 1
    BY <1>9, UnderFacts
  <2> QED
    BY <1>6, <1>8, <1>9, <2>1
<1>11. f[e] = {e} \cup UNION {f[heap[e].dirent[i]] : i \in DOMAIN heap[e].dirent}
  BY <1>5, <1>9 DEF DestroyedOnce
<1>12. UNION {f[heap[e].dirent[i]] : i \in DOMAIN heap[e].dirent} = UNION {Under(c) : c \in ToSet(heap[e].dirent)}
  BY <1>10 DEF ToSet
<1>13. f[e] = Under(e)
  BY <1>9, <1>11, <1>12, UnderFacts
<1> QED
  BY <1>6, <1>13

\* The entries with a name: one if the path exists.
Named(path) == {e \in Listed : heap[e].name = path}

\* What is in the directories that At holds and has the n-th name of the path.
Next1(path, At, n) == UNION {{e \in ToSet(heap[d].dirent) : Last(heap[e].name) = path[n]} : d \in At}

LEMMA StepDown ==
  ASSUME FsConstants, FsInv, NEW path \in Seq(STRING), NEW n \in 1..Len(path)
  PROVE  Next1(path, Named(SubSeq(path, 1, n - 1)), n) = Named(SubSeq(path, 1, n))
<1>1. PICK m \in 0..Len(path) : m = n - 1 /\ n \in 0..Len(path) /\ n = m + 1
  OBVIOUS
<1>2. PICK a \in Seq(STRING) : a = SubSeq(path, 1, n - 1) /\ Len(a) = n - 1 /\ \A i \in 1..(n - 1) : a[i] = path[i]
  <2>1. SubSeq(path, 1, m) \in Seq(STRING) /\ Len(SubSeq(path, 1, m)) = m /\ \A i \in 1..m : SubSeq(path, 1, m)[i] = path[i]
    BY HeadOf
  <2> QED
    BY <1>1, <2>1
<1>3. PICK b \in Seq(STRING) : b = SubSeq(path, 1, n) /\ Len(b) = n /\ \A i \in 1..n : b[i] = path[i]
  <2>1. SubSeq(path, 1, n) \in Seq(STRING) /\ Len(SubSeq(path, 1, n)) = n /\ \A i \in 1..n : SubSeq(path, 1, n)[i] = path[i]
    BY <1>1, HeadOf
  <2> QED
    BY <2>1
<1>4. b # <<>> /\ Last(b) = path[n] /\ Front(b) = a
  <2>1. b # <<>>
    BY <1>3, EmptySeq
  <2>2. /\ Front(b) \in Seq(STRING) /\ Len(Front(b)) = n - 1 /\ \A i \in 1..(n - 1) : Front(b)[i] = b[i]
        /\ Last(b) = b[n]
    BY <1>3, <2>1, FrontIs
  <2>3. \A i \in 1..(n - 1) : i \in 1..n
    BY <1>1
  <2>4. \A i \in 1..(n - 1) : Front(b)[i] = a[i]
    BY <1>2, <1>3, <2>2, <2>3
  <2>5. Front(b) = a
    BY <1>2, <2>2, <2>4, SeqEqual
  <2> QED
    BY <1>3, <2>1, <2>2, <2>5
<1>5. \A x \in Listed : x \in DOMAIN heap /\ heap[x].name \in Seq(STRING)
  BY EntryFacts DEF FsInv, TreeInv
<1>6. ASSUME NEW d \in Named(a), NEW e \in ToSet(heap[d].dirent), Last(heap[e].name) = path[n]
      PROVE  e \in Named(b)
  <2>1. d \in Listed /\ heap[d].name = a
    BY DEF Named
  <2>2. e \in Listed /\ heap[e].name # <<>> /\ Front(heap[e].name) = a
    BY <2>1 DEF FsInv, TreeInv, Children
  <2>3. PICK t \in Seq(STRING) : t = heap[e].name
    BY <1>5, <2>2
  <2>4. t = b
    BY <1>4, <1>6, <2>2, <2>3, SameFront
  <2> QED
    BY <2>2, <2>3, <2>4 DEF Named
<1>7. ASSUME NEW e \in Named(b)
      PROVE  \E d \in Named(a) : e \in ToSet(heap[d].dirent) /\ Last(heap[e].name) = path[n]
  <2>1. e \in Listed /\ heap[e].name = b
    BY DEF Named
  <2>2. heap[e].parent \in Listed /\ e \in ToSet(heap[heap[e].parent].dirent) /\ heap[heap[e].parent].name = a
    BY <1>4, <2>1, ParentFacts
  <2> QED
    BY <1>4, <2>1, <2>2 DEF Named
<1>8. Next1(path, Named(a), n) = Named(b)
  BY <1>6, <1>7 DEF Next1
<1> QED
  BY <1>2, <1>3, <1>8

FollowedOnce(path, f) ==
  [n \in 0..Len(path) |->
     IF n = 0 THEN {Root}
     ELSE UNION {{e \in ToSet(heap[d].dirent) : Last(heap[e].name) = path[n]} : d \in f[n - 1]}]

\* Following the lists dirent leads to the entry with the name.
LEMMA FollowedIs ==
  ASSUME FsConstants, FsInv, NEW path \in Seq(STRING)
  PROVE  Followed(path) = Named(path)
<1>1. Len(path) \in Nat
  OBVIOUS
<1>2. PICK g : g = [n \in 0..Len(path) |-> Named(SubSeq(path, 1, n))]
  OBVIOUS
<1>3. g[0] = {Root}
  <2>1. 0 \in 0..Len(path)
    BY <1>1
  <2>2. SubSeq(path, 1, 0) = <<>>
    <3>1. SubSeq(path, 1, 0) \in Seq(STRING) /\ Len(SubSeq(path, 1, 0)) = 0
      BY <2>1, HeadOf
    <3> QED
      BY <3>1, EmptySeq
  <2>3. Named(<<>>) = {Root}
    BY DEF Named, FsInv, TreeInv
  <2> QED
    BY <1>2, <2>1, <2>2, <2>3
<1>4. \A n \in 1..Len(path) : g[n] = Next1(path, g[n - 1], n)
  <2> SUFFICES ASSUME NEW n \in 1..Len(path) PROVE g[n] = Next1(path, g[n - 1], n)
    OBVIOUS
  <2>1. n \in 0..Len(path) /\ n - 1 \in 0..Len(path)
    BY <1>1
  <2>2. g[n] = Named(SubSeq(path, 1, n)) /\ g[n - 1] = Named(SubSeq(path, 1, n - 1))
    BY <1>2, <2>1
  <2> QED
    BY <2>2, StepDown
<1>5. \A n \in 0..Len(path) : n = 0 \/ n \in 1..Len(path)
  BY <1>1
<1>6. g = FollowedOnce(path, g)
  <2>1. \A n \in 0..Len(path) :
          g[n] = IF n = 0 THEN {Root}
                 ELSE UNION {{e \in ToSet(heap[d].dirent) : Last(heap[e].name) = path[n]} : d \in g[n - 1]}
    BY <1>3, <1>4, <1>5 DEF Next1
  <2> QED
    BY <1>2, <2>1 DEF FollowedOnce
<1>7. PICK f : f = CHOOSE h : h = FollowedOnce(path, h)
  OBVIOUS
<1>8. Followed(path) = f[Len(path)]
  BY <1>7 DEF Followed, FollowedOnce
<1>9. f = FollowedOnce(path, f)
  BY <1>6, <1>7
<1>10. /\ f[0] = {Root}
       /\ \A n \in 1..Len(path) : f[n] = Next1(path, f[n - 1], n)
  <2>1. /\ 0 \in 0..Len(path)
        /\ \A n \in 1..Len(path) : n # 0 /\ n \in 0..Len(path)
    BY <1>1
  <2> QED
    BY <1>9, <2>1 DEF FollowedOnce, Next1
<1>11. PICK bad : bad = {n \in 0..Len(path) : f[n] # g[n]}
  OBVIOUS
<1>12. CASE bad # {}
  <2>1. bad \in SUBSET Nat
    BY <1>1, <1>11
  <2>2. PICK n \in bad : \A k \in bad : n <= k
    BY <1>12, <2>1, SmallestOf
  <2>3. n # 0 /\ n \in 0..Len(path)
    BY <1>3, <1>10, <1>11
  <2>4. n \in 1..Len(path) /\ n - 1 \in 0..Len(path) /\ ~(n <= n - 1)
    BY <1>1, <2>3
  <2>5. f[n - 1] = g[n - 1]
    BY <1>11, <2>2, <2>4
  <2> QED
    BY <1>4, <1>10, <1>11, <2>4, <2>5
<1>13. CASE bad = {}
  <2>1. Len(path) \in 0..Len(path)
    BY <1>1
  <2>2. f[Len(path)] = Named(SubSeq(path, 1, Len(path)))
    BY <1>2, <1>11, <1>13, <2>1
  <2>3. SubSeq(path, 1, Len(path)) = path
    BY <2>1, HeadOf, SeqEqual
  <2> QED
    BY <1>8, <2>2, <2>3
<1> QED
  BY <1>12, <1>13

\* What find_if finds is the entry with the name, if there is one.
LEMMA FindIs ==
  ASSUME FsConstants, FsInv, NEW path
  PROVE  /\ Find(path) = None => Named(path) = {}
         /\ Find(path) # None => Find(path) \in Listed /\ heap[Find(path)].name = path /\ Named(path) = {Find(path)}
         /\ \A e \in Named(path) : Find(path) = e /\ e # None
<1>1. Len(allEntries) \in Nat /\ DOMAIN allEntries = 1..Len(allEntries)
  BY DEF FsInv, FsTypeOK
<1>2. PICK found : found = {i \in DOMAIN allEntries : heap[allEntries[i]].name = path}
  OBVIOUS
<1>3. \A i \in found : allEntries[i] \in Listed /\ heap[allEntries[i]].name = path
  BY <1>2 DEF Listed, ToSet
<1>4. \A e \in Listed : e # None
  BY EntryFacts DEF FsInv, TreeInv
<1>5. \A e, d \in Named(path) : e = d
  BY DEF Named, FsInv, TreeInv
<1>6. CASE found = {}
  <2>1. Find(path) = None
    BY <1>2, <1>6 DEF Find
  <2>2. Named(path) = {}
    BY <1>2, <1>6 DEF Named, Listed, ToSet
  <2> QED
    BY <2>1, <2>2
<1>7. CASE found # {}
  <2>1. found \in SUBSET Nat
    BY <1>1, <1>2
  <2>2. \E i \in found : \A j \in found : i <= j
    BY <1>7, <2>1, SmallestOf
  <2>3. PICK i : i = CHOOSE k \in found : \A j \in found : k <= j
    OBVIOUS
  <2>4. i \in found
    BY <2>2, <2>3
  <2>5. Find(path) = allEntries[i]
    BY <1>2, <1>7, <2>3 DEF Find
  <2>6. Find(path) \in Listed /\ heap[Find(path)].name = path
    BY <1>3, <2>4, <2>5
  <2>7. Find(path) \in Named(path)
    BY <2>6 DEF Named
  <2> QED
    BY <1>4, <1>5, <2>6, <2>7
<1> QED
  BY <1>6, <1>7

\* The tree has the paths of the entries that are listed.
TreeFacts ==
  /\ DOMAIN Tree = {heap[e].name : e \in Listed}
  /\ \A e \in Listed : Tree[heap[e].name] = [type |-> heap[e].type, content |-> heap[e].content]
  /\ Tree = [p \in DOMAIN Tree |-> Tree[p]]

LEMMA TreeIs == FsConstants /\ FsInv => TreeFacts
<1> SUFFICES ASSUME FsConstants, FsInv PROVE TreeFacts
  OBVIOUS
<1>1. \A e \in Listed : e \in DOMAIN heap
  BY DEF FsInv, TreeInv
<1>2. \A e \in DOMAIN heap : heap[e].name \in Seq(STRING)
  BY EntryFacts
<1>3. \A p \in TreePaths : Followed(p) = Named(p)
  BY <1>2, FollowedIs DEF TreePaths
<1>4. DOMAIN Tree = {p \in TreePaths : Named(p) # {}}
  BY <1>3 DEF Tree
<1>5. \A p \in TreePaths : Named(p) # {} <=> \E e \in Listed : heap[e].name = p
  BY DEF Named
<1>6. DOMAIN Tree = {heap[e].name : e \in Listed}
  BY <1>1, <1>4, <1>5 DEF TreePaths
<1>7. ASSUME NEW e \in Listed
      PROVE  Tree[heap[e].name] = [type |-> heap[e].type, content |-> heap[e].content]
  <2>1. heap[e].name \in DOMAIN Tree /\ heap[e].name \in TreePaths
    BY <1>1, <1>6, <1>7 DEF TreePaths
  <2>2. Named(heap[e].name) = {e}
    BY <1>7 DEF Named, FsInv, TreeInv
  <2>3. (CHOOSE x \in {e} : TRUE) = e
    OBVIOUS
  <2>4. Followed(heap[e].name) = {e}
    BY <1>3, <2>1, <2>2
  <2> QED
    BY <2>1, <2>3, <2>4 DEF Tree
<1>8. Tree = [p \in DOMAIN Tree |-> Tree[p]]
  BY DEF Tree
<1> QED
  BY <1>6, <1>7, <1>8 DEF TreeFacts

\* So has it in the next state.
LEMMA NextTreeIs == FsConstants /\ FsInv' => TreeFacts'
<1> SUFFICES ASSUME FsConstants PROVE FsInv' => TreeFacts'
  OBVIOUS
<1>1. FsInv => TreeFacts
  BY TreeIs
<1> QED
  BY <1>1, PTL

\* Two functions are equal when they are so at each argument.
LEMMA SameFunction ==
  ASSUME NEW f, NEW g, f = [x \in DOMAIN f |-> f[x]], g = [x \in DOMAIN g |-> g[x]],
         DOMAIN f = DOMAIN g, \A x \in DOMAIN f : f[x] = g[x]
  PROVE  f = g
  OBVIOUS

-------------------------------------------------------------------------------
(* What the handlers do to the invariant *)

\* A handler that changes only what it returns.
LEMMA ReturnKeeps ==
  ASSUME FsConstants, FsInv, heap' = heap, allEntries' = allEntries, ret' \in Int
  PROVE  FsInv' /\ Tree' = Tree
<1>1. FsInv'
  BY DEF FsInv, FsTypeOK, Listed
<1>2. TreeFacts /\ TreeFacts'
  BY <1>1, TreeIs, NextTreeIs
<1>3. Listed' = Listed
  BY DEF Listed
<1>4. DOMAIN Tree' = DOMAIN Tree
  BY <1>2, <1>3 DEF TreeFacts
<1>5. \A p \in DOMAIN Tree : Tree'[p] = Tree[p]
  <2> SUFFICES ASSUME NEW e \in Listed PROVE Tree'[heap[e].name] = Tree[heap[e].name]
    BY <1>2 DEF TreeFacts
  <2>1. e \in Listed' /\ heap'[e] = heap[e]
    BY <1>3
  <2>2. Tree'[heap'[e].name] = [type |-> heap'[e].type, content |-> heap'[e].content]
    BY <1>2, <2>1 DEF TreeFacts
  <2>3. Tree[heap[e].name] = [type |-> heap[e].type, content |-> heap[e].content]
    BY <1>2 DEF TreeFacts
  <2> QED
    BY <2>1, <2>2, <2>3
<1>6. Tree' = Tree
  BY <1>2, <1>4, <1>5 DEF TreeFacts
<1> QED
  BY <1>1, <1>6

\* A handler that gives a file other bytes.
LEMMA ContentKeeps ==
  ASSUME FsConstants, FsInv, NEW f \in Listed, heap[f].type = FILE_T, NEW bytes \in Seq(Bytes),
         heap' = [heap EXCEPT ![f].content = bytes], allEntries' = allEntries, ret' \in Int
  PROVE  FsInv' /\ Tree' = [Tree EXCEPT ![heap[f].name] = [type |-> FILE_T, content |-> bytes]]
<1>1. /\ f \in DOMAIN heap /\ heap \in [DOMAIN heap -> Entry] /\ heap[f] \in Entry
      /\ Listed' = Listed /\ DOMAIN heap' = DOMAIN heap
  BY DEF FsInv, FsTypeOK, TreeInv, Listed
<1>2. /\ \A e \in DOMAIN heap : /\ heap'[e].name = heap[e].name /\ heap'[e].type = heap[e].type
                               /\ heap'[e].parent = heap[e].parent /\ heap'[e].dirent = heap[e].dirent
                               /\ heap'[e].content = IF e = f THEN bytes ELSE heap[e].content
      /\ heap' \in [DOMAIN heap -> Entry]
  BY <1>1 DEF Entry
<1>3. FsTypeOK'
  BY <1>1, <1>2 DEF FsInv, FsTypeOK
<1>4. TreeInv(heap', Listed)
  <2>1. Listed \subseteq DOMAIN heap /\ Root \in Listed
    BY DEF FsInv, TreeInv
  <2>2. /\ heap'[Root].name = <<>> /\ heap'[Root].type = DIR_T /\ heap'[Root].parent = None
    BY <1>2, <2>1 DEF FsInv, TreeInv
  <2>3. ASSUME NEW d \in Listed PROVE Children(heap', Listed, d)
    <3>1. Children(heap, Listed, d)
      BY DEF FsInv, TreeInv
    <3> QED
      BY <1>2, <2>1, <3>1 DEF Children
  <2>4. \A e \in Listed \ {Root} : heap'[e].parent \in Listed /\ e \in ToSet(heap'[heap'[e].parent].dirent)
    BY <1>2, <2>1 DEF FsInv, TreeInv
  <2>5. \A d, e \in Listed : heap'[d].name = heap'[e].name => d = e
    BY <1>2, <2>1 DEF FsInv, TreeInv
  <2>6. ASSUME NEW e \in DOMAIN heap PROVE Shape(heap', Listed, e)
    <3>1. Shape(heap, Listed, e)
      BY DEF FsInv, TreeInv
    <3> QED
      BY <1>2, <3>1 DEF Shape, DIR_T, FILE_T
  <2> QED
    BY <1>1, <2>1, <2>2, <2>3, <2>4, <2>5, <2>6 DEF TreeInv
<1>5. FsInv'
  BY <1>1, <1>3, <1>4 DEF FsInv
<1>6. TreeFacts /\ TreeFacts'
  BY <1>5, TreeIs, NextTreeIs
<1>7. PICK t : t = [Tree EXCEPT ![heap[f].name] = [type |-> FILE_T, content |-> bytes]]
  OBVIOUS
<1>8. \A e \in Listed : e \in DOMAIN heap
  BY DEF FsInv, TreeInv
<1>9. DOMAIN Tree' = DOMAIN Tree /\ DOMAIN t = DOMAIN Tree /\ t = [p \in DOMAIN t |-> t[p]]
  <2>1. {heap'[e].name : e \in Listed} = {heap[e].name : e \in Listed}
    BY <1>2, <1>8
  <2> QED
    BY <1>1, <1>6, <1>7, <2>1 DEF TreeFacts
<1>10. ASSUME NEW e \in Listed PROVE Tree'[heap[e].name] = t[heap[e].name]
  <2>1. Tree'[heap[e].name] = [type |-> heap[e].type, content |-> IF e = f THEN bytes ELSE heap[e].content]
    BY <1>1, <1>2, <1>6, <1>8 DEF TreeFacts
  <2>2. heap[e].name \in DOMAIN Tree /\ (heap[e].name = heap[f].name => e = f)
    BY <1>6 DEF FsInv, TreeInv, TreeFacts
  <2>3. Tree[heap[e].name] = [type |-> heap[e].type, content |-> heap[e].content]
    BY <1>6 DEF TreeFacts
  <2>4. CASE e = f
    BY <1>7, <2>1, <2>2, <2>4
  <2>5. CASE e # f
    BY <1>7, <2>1, <2>2, <2>3, <2>5
  <2> QED
    BY <2>4, <2>5
<1>11. \A p \in DOMAIN Tree' : Tree'[p] = t[p]
  <2>1. DOMAIN Tree' = {heap[e].name : e \in Listed}
    BY <1>6, <1>9 DEF TreeFacts
  <2> QED
    BY <1>10, <2>1
<1>12. Tree' = t
  BY <1>6, <1>9, <1>11, SameFunction DEF TreeFacts
<1> QED
  BY <1>5, <1>7, <1>12

\* malloc gives an address that is free.
LEMMA FreshIs ==
  ASSUME FsConstants, FsInv, Unused # {}
  PROVE  Fresh \in Address /\ Fresh \notin DOMAIN heap /\ Fresh # None
<1>1. Unused \in SUBSET Nat
  BY DEF Unused, FsConstants
<1>2. \E a \in Unused : \A b \in Unused : a <= b
  BY <1>1, SmallestOf
<1>3. Fresh \in Unused
  BY <1>2 DEF Fresh
<1> QED
  BY <1>1, <1>3 DEF Unused, None

\* The entries after one has been allocated, and put into dir if that is one.
Allocated(ty, path, dir) ==
  /\ DOMAIN heap' = DOMAIN heap \cup {Fresh} /\ DOMAIN heap' \subseteq Address
  /\ heap' \in [DOMAIN heap' -> Entry]
  /\ heap'[Fresh].name = path /\ heap'[Fresh].type = ty /\ heap'[Fresh].content = <<>>
  /\ heap'[Fresh].parent = dir /\ heap'[Fresh].dirent = <<>>
  /\ \A e \in DOMAIN heap :
       /\ heap'[e].name = heap[e].name /\ heap'[e].type = heap[e].type
       /\ heap'[e].content = heap[e].content /\ heap'[e].parent = heap[e].parent
       /\ heap'[e].dirent = IF e = dir THEN Append(heap[e].dirent, Fresh) ELSE heap[e].dirent

LEMMA WithEntryIs ==
  ASSUME FsConstants, FsInv, Unused # {}, NEW ty \in {DIR_T, FILE_T}, NEW path \in Seq(STRING),
         NEW dir \in DOMAIN heap \cup {None},
         heap' = WithEntry(NewEntry(ty, path, <<>>, None, <<>>), dir)
  PROVE  Allocated(ty, path, dir)
<1>1. Fresh \in Address /\ Fresh \notin DOMAIN heap
  BY FreshIs
<1>2. DOMAIN heap \subseteq Address /\ heap \in [DOMAIN heap -> Entry]
  BY DEF FsInv, FsTypeOK
<1>3. PICK ent : ent = NewEntry(ty, path, <<>>, None, <<>>)
  OBVIOUS
<1>4. ent = [name |-> path, type |-> ty, content |-> <<>>, parent |-> None, dirent |-> <<>>]
  BY <1>3 DEF NewEntry
<1>5. /\ DOMAIN heap' = DOMAIN heap \cup {Fresh}
      /\ heap' = [e \in DOMAIN heap \cup {Fresh} |-> heap'[e]]
      /\ heap'[Fresh] = [ent EXCEPT !.parent = dir]
      /\ \A e \in DOMAIN heap : heap'[e] = IF e = dir THEN [heap[e] EXCEPT !.dirent = Append(@, Fresh)] ELSE heap[e]
  BY <1>1, <1>3 DEF WithEntry
<1>6. /\ heap'[Fresh].name = path /\ heap'[Fresh].type = ty /\ heap'[Fresh].content = <<>>
      /\ heap'[Fresh].parent = dir /\ heap'[Fresh].dirent = <<>> /\ heap'[Fresh] \in Entry
  <2>1. heap'[Fresh] = [name |-> path, type |-> ty, content |-> <<>>, parent |-> dir, dirent |-> <<>>]
    BY <1>4, <1>5
  <2>2. dir \in Address \cup {None} /\ <<>> \in Seq(Bytes) /\ <<>> \in Seq(Address)
    BY <1>2
  <2>3. \A t \in {DIR_T, FILE_T}, c \in Seq(Bytes), q \in Address \cup {None}, l \in Seq(Address) :
          [name |-> path, type |-> t, content |-> c, parent |-> q, dirent |-> l] \in Entry
    BY DEF Entry
  <2>4. heap'[Fresh] \in Entry
    BY <2>1, <2>2, <2>3
  <2> QED
    BY <2>1, <2>4
<1>7. ASSUME NEW e \in DOMAIN heap
      PROVE  /\ heap'[e].name = heap[e].name /\ heap'[e].type = heap[e].type
             /\ heap'[e].content = heap[e].content /\ heap'[e].parent = heap[e].parent
             /\ heap'[e].dirent = IF e = dir THEN Append(heap[e].dirent, Fresh) ELSE heap[e].dirent
             /\ heap'[e] \in Entry
  <2>1. heap[e] \in Entry /\ heap[e].dirent \in Seq(Address)
    BY <1>2 DEF Entry
  <2>2. CASE e = dir
    <3>1. PICK list \in Seq(Address) : list = Append(heap[e].dirent, Fresh)
      BY <1>1, <2>1, AppendProperties
    <3>2. heap'[e] = [heap[e] EXCEPT !.dirent = list]
      BY <1>5, <2>2, <3>1
    <3> QED
      BY <2>1, <2>2, <3>1, <3>2 DEF Entry
  <2>3. CASE e # dir
    BY <1>5, <2>1, <2>3
  <2> QED
    BY <2>2, <2>3
<1>8. heap' \in [DOMAIN heap' -> Entry]
  BY <1>5, <1>6, <1>7
<1> QED
  BY <1>1, <1>2, <1>5, <1>6, <1>7, <1>8 DEF Allocated

\* An entry that could not be inserted.
LEMMA LeakKeeps ==
  ASSUME FsConstants, FsInv, Unused # {}, NEW ty \in {DIR_T, FILE_T}, NEW path \in Seq(STRING),
         heap' = WithEntry(NewEntry(ty, path, <<>>, None, <<>>), None),
         allEntries' = allEntries, ret' \in Int
  PROVE  FsInv' /\ Tree' = Tree
<1>1. /\ DOMAIN heap' = DOMAIN heap \cup {Fresh} /\ DOMAIN heap' \subseteq Address
      /\ heap' \in [DOMAIN heap' -> Entry]
      /\ heap'[Fresh].name = path /\ heap'[Fresh].type = ty /\ heap'[Fresh].content = <<>>
      /\ heap'[Fresh].parent = None /\ heap'[Fresh].dirent = <<>>
      /\ \A e \in DOMAIN heap :
           /\ heap'[e].name = heap[e].name /\ heap'[e].type = heap[e].type
           /\ heap'[e].content = heap[e].content /\ heap'[e].parent = heap[e].parent
           /\ heap'[e].dirent = IF e = None THEN Append(heap[e].dirent, Fresh) ELSE heap[e].dirent
  <2>1. None \in DOMAIN heap \cup {None}
    OBVIOUS
  <2>2. Allocated(ty, path, None)
    BY <2>1, WithEntryIs
  <2> QED
    BY <2>2 DEF Allocated
<1>2. /\ \A e \in DOMAIN heap : e # None /\ heap'[e].dirent = heap[e].dirent
      /\ Listed \subseteq DOMAIN heap /\ Root \in Listed /\ Listed' = Listed /\ Fresh \notin Listed
  <2>1. \A e \in DOMAIN heap : e # None
    BY EntryFacts
  <2>2. Listed \subseteq DOMAIN heap /\ Root \in Listed /\ Listed' = Listed
    BY DEF FsInv, TreeInv, Listed
  <2> QED
    BY <1>1, <2>1, <2>2, FreshIs
<1>3. FsTypeOK'
  BY <1>1 DEF FsInv, FsTypeOK
<1>4. TreeInv(heap', Listed)
  <2>1. /\ heap'[Root].name = <<>> /\ heap'[Root].type = DIR_T /\ heap'[Root].parent = None
    BY <1>1, <1>2 DEF FsInv, TreeInv
  <2>2. ASSUME NEW d \in Listed PROVE Children(heap', Listed, d)
    <3>1. Children(heap, Listed, d)
      BY DEF FsInv, TreeInv
    <3> QED
      BY <1>1, <1>2, <3>1 DEF Children
  <2>3. \A e \in Listed \ {Root} : heap'[e].parent \in Listed /\ e \in ToSet(heap'[heap'[e].parent].dirent)
    BY <1>1, <1>2 DEF FsInv, TreeInv
  <2>4. \A d, e \in Listed : heap'[d].name = heap'[e].name => d = e
    BY <1>1, <1>2 DEF FsInv, TreeInv
  <2>5. ASSUME NEW e \in DOMAIN heap' PROVE Shape(heap', Listed, e)
    <3>1. CASE e = Fresh
      BY <1>1, <3>1 DEF Shape
    <3>2. CASE e \in DOMAIN heap
      <4>1. Shape(heap, Listed, e)
        BY <3>2 DEF FsInv, TreeInv
      <4> QED
        BY <1>1, <1>2, <3>2, <4>1 DEF Shape
    <3> QED
      BY <1>1, <3>1, <3>2
  <2> QED
    BY <1>1, <1>2, <2>1, <2>2, <2>3, <2>4, <2>5 DEF TreeInv
<1>5. FsInv'
  BY <1>2, <1>3, <1>4 DEF FsInv
<1>6. TreeFacts /\ TreeFacts'
  BY <1>5, TreeIs, NextTreeIs
<1>7. DOMAIN Tree' = DOMAIN Tree /\ DOMAIN Tree = {heap[e].name : e \in Listed}
  <2>1. {heap'[e].name : e \in Listed} = {heap[e].name : e \in Listed}
    BY <1>1, <1>2
  <2> QED
    BY <1>2, <1>6, <2>1 DEF TreeFacts
<1>8. ASSUME NEW e \in Listed PROVE Tree'[heap[e].name] = Tree[heap[e].name]
  <2>1. Tree'[heap'[e].name] = [type |-> heap'[e].type, content |-> heap'[e].content]
    BY <1>2, <1>6 DEF TreeFacts
  <2>2. Tree[heap[e].name] = [type |-> heap[e].type, content |-> heap[e].content]
    BY <1>6 DEF TreeFacts
  <2> QED
    BY <1>1, <1>2, <2>1, <2>2
<1>9. \A p \in DOMAIN Tree' : Tree'[p] = Tree[p]
  BY <1>7, <1>8
<1>10. Tree' = Tree
  BY <1>6, <1>7, <1>9, SameFunction DEF TreeFacts
<1> QED
  BY <1>5, <1>10

\* An entry that was put into the directory of its path.
LEMMA InsertedKeeps ==
  ASSUME FsConstants, FsInv, Unused # {}, NEW ty \in {DIR_T, FILE_T}, NEW path \in Seq(STRING),
         path # <<>>, Named(path) = {},
         NEW dir \in Listed, heap[dir].type = DIR_T, heap[dir].name = Front(path),
         heap' = WithEntry(NewEntry(ty, path, <<>>, None, <<>>), dir),
         allEntries' = Append(allEntries, Fresh), ret' \in Int
  PROVE  /\ FsInv' /\ path \notin DOMAIN Tree
         /\ Tree' = [p \in DOMAIN Tree \cup {path} |->
                       IF p = path THEN [type |-> ty, content |-> <<>>] ELSE Tree[p]]
<1>1. /\ DOMAIN heap' = DOMAIN heap \cup {Fresh} /\ DOMAIN heap' \subseteq Address
      /\ heap' \in [DOMAIN heap' -> Entry]
      /\ heap'[Fresh].name = path /\ heap'[Fresh].type = ty /\ heap'[Fresh].content = <<>>
      /\ heap'[Fresh].parent = dir /\ heap'[Fresh].dirent = <<>>
      /\ \A e \in DOMAIN heap :
           /\ heap'[e].name = heap[e].name /\ heap'[e].type = heap[e].type
           /\ heap'[e].content = heap[e].content /\ heap'[e].parent = heap[e].parent
           /\ heap'[e].dirent = IF e = dir THEN Append(heap[e].dirent, Fresh) ELSE heap[e].dirent
  <2>1. dir \in DOMAIN heap \cup {None}
    BY DEF FsInv, TreeInv
  <2>2. Allocated(ty, path, dir)
    BY <2>1, WithEntryIs
  <2> QED
    BY <2>2 DEF Allocated
<1>2. /\ Fresh \in Address /\ Fresh \notin DOMAIN heap /\ Listed \subseteq DOMAIN heap /\ Root \in Listed
      /\ Fresh \notin Listed
  BY FreshIs DEF FsInv, TreeInv
<1>3. Once(allEntries') /\ allEntries' \in Seq(Address) /\ Listed' = Listed \cup {Fresh}
  BY <1>2, AppendOnce DEF FsInv, FsTypeOK, Listed
<1>4. FsTypeOK'
  BY <1>1, <1>3 DEF FsTypeOK
<1>5. PICK all : all = Listed \cup {Fresh}
  OBVIOUS
<1>6. TreeInv(heap', all)
  <2>1. all \subseteq DOMAIN heap' /\ Root \in all
    BY <1>1, <1>2, <1>5
  <2>2. /\ heap'[Root].name = <<>> /\ heap'[Root].type = DIR_T /\ heap'[Root].parent = None
    BY <1>1, <1>2 DEF FsInv, TreeInv
  <2>3. ASSUME NEW d \in all PROVE Children(heap', all, d)
    <3>1. CASE d = Fresh
      <4>1. Once(heap'[d].dirent) /\ ToSet(heap'[d].dirent) = {}
        BY <1>1, <3>1 DEF Once, ToSet
      <4> QED
        BY <4>1 DEF Children
    <3>2. CASE d \in Listed
      <4>1. Children(heap, Listed, d) /\ d \in DOMAIN heap
        BY <1>2, <3>2 DEF FsInv, TreeInv
      <4>2. \A e \in ToSet(heap[d].dirent) :
              /\ e \in all /\ e # Fresh /\ heap'[e].parent = d
              /\ heap'[e].name # <<>> /\ Front(heap'[e].name) = heap'[d].name
        BY <1>1, <1>2, <1>5, <4>1 DEF Children
      <4>3. CASE d # dir
        BY <1>1, <4>1, <4>2, <4>3 DEF Children
      <4>4. CASE d = dir
        <5>1. heap[d].dirent \in Seq(Address) /\ Once(heap[d].dirent) /\ Fresh \notin ToSet(heap[d].dirent)
          BY <4>1, <4>2, EntryFacts DEF Children
        <5>2. /\ Once(Append(heap[d].dirent, Fresh))
              /\ ToSet(Append(heap[d].dirent, Fresh)) = ToSet(heap[d].dirent) \cup {Fresh}
          BY <1>2, <5>1, AppendOnce
        <5>3. heap'[d].dirent = Append(heap[d].dirent, Fresh) /\ heap'[d].name = heap[dir].name
          BY <1>1, <4>1, <4>4
        <5>4. Fresh \in all /\ heap'[Fresh].parent = d /\ heap'[Fresh].name # <<>> /\ Front(heap'[Fresh].name) = heap'[d].name
          BY <1>1, <1>5, <4>4, <5>3
        <5>5. PICK list : list = heap'[d].dirent
          OBVIOUS
        <5>6. Once(list) /\ ToSet(list) = ToSet(heap[d].dirent) \cup {Fresh}
          BY <4>4, <5>2, <5>3, <5>5
        <5>7. \A e \in ToSet(list) :
                e \in all /\ heap'[e].parent = d /\ heap'[e].name # <<>> /\ Front(heap'[e].name) = heap'[d].name
          BY <4>2, <5>4, <5>6
        <5> QED
          BY <5>5, <5>6, <5>7 DEF Children
      <4> QED
        BY <4>3, <4>4
    <3> QED
      BY <1>5, <3>1, <3>2
  <2>4. ASSUME NEW e \in all \ {Root}
        PROVE  heap'[e].parent \in all /\ e \in ToSet(heap'[heap'[e].parent].dirent)
    <3>1. /\ dir \in DOMAIN heap /\ heap[dir].dirent \in Seq(Address) /\ Once(heap[dir].dirent)
          /\ Fresh \notin ToSet(heap[dir].dirent)
      BY <1>2, EntryFacts DEF FsInv, TreeInv, Children
    <3>2. ToSet(heap'[dir].dirent) = ToSet(heap[dir].dirent) \cup {Fresh}
      BY <1>1, <1>2, <3>1, AppendOnce
    <3>3. CASE e = Fresh
      BY <1>1, <1>5, <3>2, <3>3
    <3>4. CASE e \in Listed
      <4>1. heap[e].parent \in Listed /\ e \in ToSet(heap[heap[e].parent].dirent)
        BY <3>4 DEF FsInv, TreeInv
      <4>2. heap'[e].parent = heap[e].parent /\ heap[e].parent \in DOMAIN heap
        BY <1>1, <1>2, <3>4, <4>1
      <4>3. e \in ToSet(heap'[heap[e].parent].dirent)
        BY <1>1, <3>2, <4>1, <4>2
      <4> QED
        BY <1>5, <4>1, <4>2, <4>3
    <3> QED
      BY <1>5, <3>3, <3>4
  <2>5. \A d, e \in all : heap'[d].name = heap'[e].name => d = e
    <3>1. \A d \in Listed : heap'[d].name = heap[d].name /\ heap[d].name # path
      BY <1>1, <1>2 DEF Named
    <3>2. \A d, e \in Listed : heap[d].name = heap[e].name => d = e
      BY DEF FsInv, TreeInv
    <3> QED
      BY <1>1, <1>5, <3>1, <3>2
  <2>6. ASSUME NEW e \in DOMAIN heap' PROVE Shape(heap', all, e)
    <3>1. CASE e = Fresh
      BY <1>1, <3>1 DEF Shape
    <3>2. CASE e \in DOMAIN heap
      <4>1. Shape(heap, Listed, e)
        BY <3>2 DEF FsInv, TreeInv
      <4> QED
        BY <1>1, <1>5, <3>2, <4>1 DEF Shape, DIR_T, FILE_T
    <3> QED
      BY <1>1, <3>1, <3>2
  <2> QED
    BY <2>1, <2>2, <2>3, <2>4, <2>5, <2>6 DEF TreeInv
<1>7. FsInv'
  BY <1>3, <1>4, <1>5, <1>6 DEF FsInv
<1>8. TreeFacts /\ TreeFacts'
  BY <1>7, TreeIs, NextTreeIs
<1>9. PICK t : t = [p \in DOMAIN Tree \cup {path} |->
                      IF p = path THEN [type |-> ty, content |-> <<>>] ELSE Tree[p]]
  OBVIOUS
<1>10. DOMAIN Tree = {heap[e].name : e \in Listed} /\ path \notin DOMAIN Tree
  BY <1>8 DEF TreeFacts, Named
<1>11. DOMAIN Tree' = {heap[e].name : e \in Listed} \cup {path}
  <2>1. {heap'[e].name : e \in all} = {heap[e].name : e \in Listed} \cup {path}
    BY <1>1, <1>2, <1>5
  <2> QED
    BY <1>3, <1>5, <1>8, <2>1 DEF TreeFacts
<1>12. ASSUME NEW e \in Listed PROVE Tree'[heap[e].name] = t[heap[e].name]
  <2>1. Tree'[heap'[e].name] = [type |-> heap'[e].type, content |-> heap'[e].content]
    BY <1>3, <1>8 DEF TreeFacts
  <2>2. Tree[heap[e].name] = [type |-> heap[e].type, content |-> heap[e].content]
    BY <1>8 DEF TreeFacts
  <2>3. t[heap[e].name] = Tree[heap[e].name]
    BY <1>9, <1>10
  <2> QED
    BY <1>1, <1>2, <2>1, <2>2, <2>3
<1>13. Tree'[path] = t[path]
  <2>1. Tree'[heap'[Fresh].name] = [type |-> heap'[Fresh].type, content |-> heap'[Fresh].content]
    BY <1>3, <1>8 DEF TreeFacts
  <2>2. t[path] = [type |-> ty, content |-> <<>>]
    BY <1>9
  <2> QED
    BY <1>1, <2>1, <2>2
<1>14. \A p \in DOMAIN Tree' : Tree'[p] = t[p]
  BY <1>11, <1>12, <1>13
<1>15. Tree' = t
  <2>1. DOMAIN t = DOMAIN Tree' /\ t = [p \in DOMAIN t |-> t[p]]
    BY <1>9, <1>10, <1>11
  <2>2. Tree' = [p \in DOMAIN Tree' |-> Tree'[p]]
    BY <1>8 DEF TreeFacts
  <2> QED
    BY <1>14, <2>1, <2>2, SameFunction
<1> QED
  BY <1>7, <1>9, <1>10, <1>15

\* An entry other than the root that is deleted, with all that is below it.
Removal(ent, parent) ==
  /\ heap' = [e \in DOMAIN heap \ Under(ent) |->
                IF e = parent THEN [heap[e] EXCEPT !.dirent = Erase(@, ent)] ELSE heap[e]]
  /\ allEntries' = Left(allEntries, Under(ent))
  /\ ret' \in Int

Pruned(path) == [p \in {p \in DOMAIN Tree : ~IsPrefix(path, p)} |-> Tree[p]]

LEMMA RemovedKeeps ==
  ASSUME FsConstants, FsInv, NEW ent \in Listed, heap[ent].parent # None,
         NEW parent, parent = heap[ent].parent, Removal(ent, parent)
  PROVE  FsInv' /\ heap[ent].name # <<>> /\ Tree' = Pruned(heap[ent].name)
<1>0. /\ heap' = [e \in DOMAIN heap \ Under(ent) |->
                     IF e = parent THEN [heap[e] EXCEPT !.dirent = Erase(@, ent)] ELSE heap[e]]
      /\ allEntries' = Left(allEntries, Under(ent)) /\ ret' \in Int
  BY DEF Removal
<1>1. /\ Listed \subseteq DOMAIN heap /\ Root \in Listed /\ DOMAIN heap \subseteq Address
      /\ heap[Root].name = <<>> /\ heap[Root].type = DIR_T /\ heap[Root].parent = None
      /\ \A e \in DOMAIN heap : heap[e] \in Entry
  BY DEF FsInv, FsTypeOK, TreeInv
<1>2. PICK path \in Seq(STRING) : path = heap[ent].name
  BY <1>1, EntryFacts
<1>3. /\ ent # Root /\ path # <<>> /\ parent \in Listed /\ ent \in ToSet(heap[parent].dirent)
      /\ Front(path) = heap[parent].name
  BY <1>1, <1>2, ParentFacts
<1>4. PICK gone : gone = Under(ent)
  OBVIOUS
<1>5. \A e \in Listed : e \in gone <=> IsPrefix(path, heap[e].name)
  BY <1>2, <1>4 DEF Under
<1>6. gone \subseteq Listed /\ ent \in gone /\ parent \notin gone /\ Root \notin gone
  <2>1. gone \subseteq Listed
    BY <1>4 DEF Under
  <2>2. IsPrefix(path, path)
    BY PrefixIs
  <2>3. ~IsPrefix(path, Front(path))
    <3>1. Len(path) \in Nat \ {0} /\ Front(path) \in Seq(STRING) /\ Len(Front(path)) = Len(path) - 1
      BY <1>3, FrontIs
    <3>2. ~(Len(path) <= Len(Front(path)))
      BY <3>1
    <3> QED
      BY <3>1, <3>2, PrefixIs
  <2>4. ~IsPrefix(path, <<>>)
    <3>1. PICK none \in Seq(STRING) : none = <<>> /\ Len(none) = 0
      BY EmptySeq
    <3>2. Len(path) \in Nat \ {0}
      BY <1>3, FrontIs
    <3>3. ~(Len(path) <= Len(none))
      BY <3>1, <3>2
    <3> QED
      BY <3>1, <3>3, PrefixIs
  <2> QED
    BY <1>1, <1>2, <1>3, <1>5, <2>1, <2>2, <2>3, <2>4
<1>7. PICK list : list = Erase(heap[parent].dirent, ent)
  OBVIOUS
<1>8. list \in Seq(Address) /\ Once(list) /\ ToSet(list) = ToSet(heap[parent].dirent) \ {ent}
  <2>1. heap[parent].dirent \in Seq(Address) /\ Once(heap[parent].dirent)
    BY <1>1, <1>3, EntryFacts DEF FsInv, TreeInv, Children
  <2> QED
    BY <1>7, <2>1, ErasedIs
<1>9. /\ DOMAIN heap' = DOMAIN heap \ gone
      /\ \A e \in DOMAIN heap' :
           /\ heap'[e].name = heap[e].name /\ heap'[e].type = heap[e].type
           /\ heap'[e].content = heap[e].content /\ heap'[e].parent = heap[e].parent
           /\ heap'[e].dirent = IF e = parent THEN list ELSE heap[e].dirent
           /\ heap'[e] \in Entry
  <2>1. DOMAIN heap' = DOMAIN heap \ gone
    BY <1>0, <1>4
  <2>2. ASSUME NEW e \in DOMAIN heap'
        PROVE  /\ heap'[e].name = heap[e].name /\ heap'[e].type = heap[e].type
               /\ heap'[e].content = heap[e].content /\ heap'[e].parent = heap[e].parent
               /\ heap'[e].dirent = IF e = parent THEN list ELSE heap[e].dirent
               /\ heap'[e] \in Entry
    <3>1. e \in DOMAIN heap /\ heap[e] \in Entry
      BY <1>1, <2>1
    <3>2. CASE e = parent
      <4>1. heap'[e] = [heap[e] EXCEPT !.dirent = list]
        BY <1>0, <1>4, <1>7, <2>1, <3>2
      <4> QED
        BY <1>8, <3>1, <3>2, <4>1 DEF Entry
    <3>3. CASE e # parent
      <4>1. heap'[e] = heap[e]
        BY <1>0, <1>4, <2>1, <3>3
      <4> QED
        BY <3>1, <3>3, <4>1
    <3> QED
      BY <3>2, <3>3
  <2> QED
    BY <2>1, <2>2
<1>10. Once(allEntries') /\ allEntries' \in Seq(Address) /\ Listed' = Listed \ gone
  BY <1>0, <1>4, LeftOnce DEF FsInv, FsTypeOK, Listed
<1>11. FsTypeOK'
  <2>1. heap' \in [DOMAIN heap' -> Entry]
    <3>1. heap' = [e \in DOMAIN heap' |-> heap'[e]]
      BY <1>0
    <3> QED
      BY <1>9, <3>1
  <2> QED
    BY <1>0, <1>1, <1>9, <1>10, <2>1 DEF FsTypeOK
<1>12. PICK all : all = Listed \ gone
  OBVIOUS
\* A directory goes with its child, unless that is ent, and with its directory.
<1>13. ASSUME NEW d \in Listed, NEW e \in ToSet(heap[d].dirent)
       PROVE  /\ e \in Listed
              /\ d \in gone => e \in gone
              /\ e \in gone => d \in gone \/ e = ent
  <2>1. e \in Listed /\ heap[e].name # <<>> /\ Front(heap[e].name) = heap[d].name
    BY DEF FsInv, TreeInv, Children
  <2>2. PICK t \in Seq(STRING) : t = heap[e].name
    BY <1>1, <2>1, EntryFacts
  <2>3. IsPrefix(path, t) <=> path = t \/ IsPrefix(path, Front(t))
    BY <2>1, <2>2, PrefixOfFront
  <2>4. path = t => e = ent
    BY <1>2, <2>1, <2>2 DEF FsInv, TreeInv
  <2> QED
    BY <1>5, <2>1, <2>2, <2>3, <2>4
<1>14. TreeInv(heap', all)
  <2>1. all \subseteq DOMAIN heap' /\ Root \in all /\ all \subseteq Listed
    BY <1>1, <1>6, <1>9, <1>12
  <2>2. /\ heap'[Root].name = <<>> /\ heap'[Root].type = DIR_T /\ heap'[Root].parent = None
    BY <1>1, <1>9, <2>1
  <2>3. ASSUME NEW d \in all PROVE Children(heap', all, d)
    <3>1. Children(heap, Listed, d) /\ d \in Listed /\ d \notin gone
      BY <1>12 DEF FsInv, TreeInv
    <3>2. d \in DOMAIN heap'
      BY <2>1
    <3>3. \A e \in ToSet(heap[d].dirent) \ {ent} :
            /\ e \in all /\ heap'[e].parent = d
            /\ heap'[e].name # <<>> /\ Front(heap'[e].name) = heap'[d].name
      <4> SUFFICES ASSUME NEW e \in ToSet(heap[d].dirent), e # ent
                   PROVE  /\ e \in all /\ heap'[e].parent = d
                          /\ heap'[e].name # <<>> /\ Front(heap'[e].name) = heap'[d].name
        OBVIOUS
      <4>1. e \in all
        BY <1>12, <1>13, <3>1
      <4>2. e \in DOMAIN heap'
        BY <2>1, <4>1
      <4> QED
        BY <1>9, <3>1, <3>2, <4>1, <4>2 DEF Children
    <3>4. CASE d = parent
      <4>1. heap'[d].dirent = list /\ ToSet(list) = ToSet(heap[d].dirent) \ {ent}
        BY <1>8, <1>9, <3>2, <3>4
      <4>2. Once(heap'[d].dirent)
        BY <1>8, <4>1
      <4> QED
        BY <3>3, <4>1, <4>2 DEF Children
    <3>5. CASE d # parent
      <4>1. ent \notin ToSet(heap[d].dirent)
        BY <3>1, <3>5 DEF Children
      <4> QED
        BY <1>9, <3>1, <3>2, <3>3, <3>5, <4>1 DEF Children
    <3> QED
      BY <3>4, <3>5
  <2>4. ASSUME NEW e \in all \ {Root}
        PROVE  heap'[e].parent \in all /\ e \in ToSet(heap'[heap'[e].parent].dirent)
    <3>1. e \in Listed /\ e \notin gone /\ e \in DOMAIN heap'
      BY <1>12, <2>1
    <3>2. heap[e].parent \in Listed /\ e \in ToSet(heap[heap[e].parent].dirent)
      BY <3>1 DEF FsInv, TreeInv
    <3>3. heap[e].parent \in all
      BY <1>12, <1>13, <3>1, <3>2
    <3>4. e # ent
      BY <1>6, <3>1
    <3>5. e \in ToSet(heap'[heap[e].parent].dirent)
      BY <1>8, <1>9, <2>1, <3>2, <3>3, <3>4
    <3> QED
      BY <1>9, <3>1, <3>3, <3>5
  <2>5. \A d, e \in all : heap'[d].name = heap'[e].name => d = e
    <3>1. \A d, e \in Listed : heap[d].name = heap[e].name => d = e
      BY DEF FsInv, TreeInv
    <3> QED
      BY <1>9, <2>1, <3>1
  <2>6. ASSUME NEW e \in DOMAIN heap' PROVE Shape(heap', all, e)
    <3>1. Shape(heap, Listed, e) /\ e \notin gone
      BY <1>9 DEF FsInv, TreeInv
    <3>2. CASE e = parent
      <4>1. heap[e].dirent # <<>>
        BY <1>3, <3>2 DEF ToSet
      <4>2. heap[e].type # FILE_T
        BY <3>1, <4>1 DEF Shape
      <4>3. e \in all
        BY <1>3, <1>6, <1>12, <3>2
      <4> QED
        BY <1>9, <3>1, <4>2, <4>3 DEF Shape
    <3>3. CASE e # parent
      BY <1>9, <1>12, <3>1, <3>3 DEF Shape
    <3> QED
      BY <3>2, <3>3
  <2> QED
    BY <2>1, <2>2, <2>3, <2>4, <2>5, <2>6 DEF TreeInv
<1>15. FsInv'
  BY <1>10, <1>11, <1>12, <1>14 DEF FsInv
<1>16. TreeFacts /\ TreeFacts'
  BY <1>15, TreeIs, NextTreeIs
<1>17. PICK t : t = [p \in {p \in DOMAIN Tree : ~IsPrefix(path, p)} |-> Tree[p]]
  OBVIOUS
<1>18. DOMAIN Tree = {heap[e].name : e \in Listed}
  BY <1>16 DEF TreeFacts
<1>19. DOMAIN Tree' = {heap[e].name : e \in all}
  <2>1. \A e \in all : e \in DOMAIN heap' /\ heap'[e].name = heap[e].name
    <3>1. \A e \in all : e \in Listed /\ e \notin gone
      BY <1>12
    <3>2. \A e \in all : e \in DOMAIN heap'
      BY <1>1, <1>9, <3>1
    <3> QED
      BY <1>9, <3>2
  <2>2. {heap'[e].name : e \in all} = {heap[e].name : e \in all}
    <3>1. PICK now : now = {heap[e].name : e \in all}
      OBVIOUS
    <3>2. PICK next : next = {heap'[e].name : e \in all}
      OBVIOUS
    <3>3. \A p \in next : p \in now
      BY <2>1, <3>1, <3>2
    <3>4. \A p \in now : p \in next
      BY <2>1, <3>1, <3>2
    <3> QED
      BY <3>1, <3>2, <3>3, <3>4
  <2>3. DOMAIN Tree' = {heap'[e].name : e \in all}
    BY <1>10, <1>12, <1>16 DEF TreeFacts
  <2> QED
    BY <2>2, <2>3
<1>20. DOMAIN t = DOMAIN Tree'
  <2>1. \A p \in DOMAIN t : p \in DOMAIN Tree /\ ~IsPrefix(path, p)
    BY <1>17
  <2>2. \A p \in DOMAIN t : p \in DOMAIN Tree'
    BY <1>5, <1>12, <1>18, <1>19, <2>1
  <2>3. ASSUME NEW e \in all PROVE heap[e].name \in DOMAIN t
    <3>1. heap[e].name \in DOMAIN Tree /\ ~IsPrefix(path, heap[e].name)
      BY <1>5, <1>12, <1>18
    <3> QED
      BY <1>17, <3>1
  <2> QED
    BY <1>19, <2>2, <2>3
<1>21. ASSUME NEW e \in all PROVE Tree'[heap[e].name] = t[heap[e].name]
  <2>1. Tree'[heap'[e].name] = [type |-> heap'[e].type, content |-> heap'[e].content]
    BY <1>10, <1>12, <1>16 DEF TreeFacts
  <2>2. Tree[heap[e].name] = [type |-> heap[e].type, content |-> heap[e].content]
    BY <1>12, <1>16 DEF TreeFacts
  <2>3. t[heap[e].name] = Tree[heap[e].name]
    BY <1>17, <1>19, <1>20
  <2> QED
    BY <1>1, <1>9, <1>12, <2>1, <2>2, <2>3
<1>22. Tree' = t
  <2>1. t = [p \in DOMAIN t |-> t[p]]
    BY <1>17
  <2>2. Tree' = [p \in DOMAIN Tree' |-> Tree'[p]]
    BY <1>16 DEF TreeFacts
  <2>3. \A p \in DOMAIN Tree' : Tree'[p] = t[p]
    BY <1>19, <1>21
  <2> QED
    BY <1>20, <2>1, <2>2, <2>3, SameFunction
<1> QED
  BY <1>2, <1>3, <1>15, <1>17, <1>22 DEF Pruned

-------------------------------------------------------------------------------
(* Each handler is a step of the abstract file tree *)

\* What the abstract tree says of a path is what its entry says.
Looked(path) ==
  /\ path \in DOMAIN Tree <=> Find(path) # None
  /\ Find(path) # None =>
       /\ Find(path) \in Listed /\ Find(path) \in DOMAIN heap /\ heap[Find(path)].name = path
       /\ heap[Find(path)].type \in {DIR_T, FILE_T}
       /\ Tree[path] = [type |-> heap[Find(path)].type, content |-> heap[Find(path)].content]

LEMMA LookupIs == ASSUME FsConstants, FsInv, NEW path PROVE Looked(path)
<1>1. TreeFacts
  BY TreeIs
<1>2. path \in DOMAIN Tree <=> Named(path) # {}
  BY <1>1 DEF TreeFacts, Named
<1>3. CASE Find(path) = None
  BY <1>2, <1>3, FindIs DEF Looked
<1>4. CASE Find(path) # None
  <2>1. Find(path) \in Listed /\ heap[Find(path)].name = path /\ Named(path) = {Find(path)}
    BY <1>4, FindIs
  <2>2. Find(path) \in DOMAIN heap
    BY <2>1 DEF FsInv, TreeInv
  <2>3. heap[Find(path)].type \in {DIR_T, FILE_T}
    BY <2>2, EntryFacts
  <2>4. Tree[path] = [type |-> heap[Find(path)].type, content |-> heap[Find(path)].content]
    BY <1>1, <2>1 DEF TreeFacts
  <2> QED
    BY <1>2, <1>4, <2>1, <2>2, <2>3, <2>4 DEF Looked
<1> QED
  BY <1>3, <1>4

\* The same words of the two modules.
LEMMA SameWords ==
  /\ \A q : Abstract!IsDir(q) <=> q \in DOMAIN Tree /\ Tree[q].type = DIR_T
  /\ \A q : Abstract!IsFile(q) <=> q \in DOMAIN Tree /\ Tree[q].type = FILE_T
  /\ \A q : Abstract!Front(q) = Front(q) /\ Abstract!Last(q) = Last(q)
  /\ \A q, r : Abstract!IsPrefix(q, r) <=> IsPrefix(q, r)
  /\ Abstract!ENOENT = ENOENT /\ Abstract!EEXIST = EEXIST /\ Abstract!EINVAL = EINVAL
<1>1. \A q : Abstract!Front(q) = Front(q) /\ Abstract!Last(q) = Last(q)
  BY DEF Abstract!Front, Abstract!Last, Front, Last
<1>2. \A q, r : Abstract!IsPrefix(q, r) <=> IsPrefix(q, r)
  BY DEF Abstract!IsPrefix, IsPrefix
<1>3. Abstract!ENOENT = ENOENT /\ Abstract!EEXIST = EEXIST /\ Abstract!EINVAL = EINVAL
  BY DEF Abstract!ENOENT, ENOENT, Abstract!EEXIST, EEXIST, Abstract!EINVAL, EINVAL
<1>4. \A q : Abstract!IsDir(q) <=> q \in DOMAIN Tree /\ Tree[q].type = DIR_T
  BY DEF Abstract!IsDir, DIR_T
<1>5. \A q : Abstract!IsFile(q) <=> q \in DOMAIN Tree /\ Tree[q].type = FILE_T
  BY DEF Abstract!IsFile, FILE_T
<1> QED
  BY <1>1, <1>2, <1>3, <1>4, <1>5

\* A handler that fails, or does nothing, leaves the tree.
LEMMA FailKeeps ==
  ASSUME FsConstants, FsInv, NEW errno \in Int, Fail(errno)
  PROVE  FsInv' /\ Tree' = Tree /\ ret' = errno /\ Abstract!Fail(errno)
<1>1. heap' = heap /\ allEntries' = allEntries /\ ret' = errno /\ ret' \in Int
  BY DEF Fail
<1>2. FsInv' /\ Tree' = Tree
  BY <1>1, ReturnKeeps
<1>3. Abstract!Fail(errno)
  BY <1>1, <1>2 DEF Abstract!Fail
<1> QED
  BY <1>1, <1>2, <1>3

LEMMA ErrorsAreNumbers == ENOENT \in Int /\ EEXIST \in Int /\ EINVAL \in Int /\ 0 \in Int
  BY DEF ENOENT, EEXIST, EINVAL

\* The root is there, so what is not there has a name.
LEMMA RootIsThere == ASSUME FsConstants, FsInv PROVE <<>> \in DOMAIN Tree
<1>1. TreeFacts
  BY TreeIs
<1> QED
  BY <1>1 DEF TreeFacts, FsInv, TreeInv

LEMMA InsertMakes ==
  ASSUME FsConstants, FsInv, NEW path \in Paths, NEW ty \in {DIR_T, FILE_T}, ~Exists(path), Unused # {},
         Insert(NewEntry(ty, path, <<>>, None, <<>>))
  PROVE  FsInv' /\ Abstract!Make(path, [type |-> ty, content |-> <<>>])
<1>1. path \in Seq(STRING)
  BY DEF FsConstants
<1>2. path \notin DOMAIN Tree /\ path # <<>> /\ Named(path) = {}
  <2>1. Find(path) = None /\ Looked(path) /\ <<>> \in DOMAIN Tree
    BY LookupIs, RootIsThere DEF Exists
  <2> QED
    BY <2>1, FindIs DEF Looked
<1>3. PICK dir : dir = Find(Front(path))
  OBVIOUS
<1>4. PICK ent : ent = NewEntry(ty, path, <<>>, None, <<>>)
  OBVIOUS
<1>5. ent.name = path
  BY <1>4 DEF NewEntry
<1>6. CASE dir = None \/ heap[dir].type # DIR_T
  <2>1. heap' = WithEntry(ent, None) /\ ret' = ENOENT /\ allEntries' = allEntries
    BY <1>3, <1>4, <1>5, <1>6 DEF Insert
  <2>2. FsInv' /\ Tree' = Tree
    BY <1>1, <1>4, <2>1, LeakKeeps DEF ENOENT
  <2>3. ~Abstract!IsDir(Abstract!Front(path))
    <3>1. Looked(Front(path))
      BY LookupIs
    <3>2. ~(Front(path) \in DOMAIN Tree /\ Tree[Front(path)].type = DIR_T)
      BY <1>3, <1>6, <3>1 DEF Looked
    <3> QED
      BY <3>2, SameWords
  <2>4. Abstract!Fail(Abstract!ENOENT)
    BY <2>1, <2>2, SameWords DEF Abstract!Fail
  <2> QED
    BY <1>2, <2>2, <2>3, <2>4 DEF Abstract!Make
<1>7. CASE dir # None /\ heap[dir].type = DIR_T
  <2>1. heap' = WithEntry(ent, dir) /\ ret' = 0 /\ allEntries' = Append(allEntries, Fresh)
    BY <1>3, <1>4, <1>5, <1>7 DEF Insert
  <2>2. dir \in Listed /\ heap[dir].name = Front(path)
    BY <1>3, <1>7, LookupIs DEF Looked
  <2>3. ret' \in Int
    BY <2>1
  <2>4. /\ FsInv'
        /\ Tree' = [p \in DOMAIN Tree \cup {path} |->
                      IF p = path THEN [type |-> ty, content |-> <<>>] ELSE Tree[p]]
    BY <1>1, <1>2, <1>4, <1>7, <2>1, <2>2, <2>3, InsertedKeeps
  <2>5. Abstract!IsDir(Abstract!Front(path))
    <3>1. Looked(Front(path))
      BY LookupIs
    <3>2. Front(path) \in DOMAIN Tree /\ Tree[Front(path)].type = DIR_T
      BY <1>3, <1>7, <3>1 DEF Looked
    <3> QED
      BY <3>2, SameWords
  <2> QED
    BY <1>2, <2>1, <2>4, <2>5 DEF Abstract!Make
<1> QED
  BY <1>6, <1>7

LEMMA CreateMakes ==
  ASSUME FsConstants, FsInv, NEW path \in Paths, Create(path)
  PROVE  FsInv' /\ Abstract!Make(path, Abstract!File(<<>>))
<1>1. CASE Exists(path) /\ Fail(EEXIST)
  <2>1. FsInv' /\ Abstract!Fail(EEXIST)
    BY <1>1, FailKeeps, ErrorsAreNumbers
  <2>2. path \in DOMAIN Tree
    BY <1>1, LookupIs DEF Exists, Looked
  <2> QED
    BY <2>1, <2>2, SameWords DEF Abstract!Make
<1>2. CASE ~Exists(path) /\ Unused # {} /\ Insert(NewEntry(FILE_T, path, <<>>, None, <<>>))
  <2>1. FILE_T \in {DIR_T, FILE_T} /\ Abstract!File(<<>>) = [type |-> FILE_T, content |-> <<>>]
    BY DEF Abstract!File, FILE_T
  <2>2. FsInv' /\ Abstract!Make(path, [type |-> FILE_T, content |-> <<>>])
    BY <1>2, <2>1, InsertMakes
  <2> QED
    BY <2>1, <2>2
<1> QED
  BY <1>1, <1>2 DEF Create

LEMMA MkdirMakes ==
  ASSUME FsConstants, FsInv, NEW path \in Paths, Mkdir(path)
  PROVE  FsInv' /\ Abstract!Make(path, Abstract!Dir)
<1>1. CASE Exists(path) /\ Fail(EEXIST)
  <2>1. FsInv' /\ Abstract!Fail(EEXIST)
    BY <1>1, FailKeeps, ErrorsAreNumbers
  <2>2. path \in DOMAIN Tree
    BY <1>1, LookupIs DEF Exists, Looked
  <2> QED
    BY <2>1, <2>2, SameWords DEF Abstract!Make
<1>2. CASE ~Exists(path) /\ Unused # {} /\ Insert(NewEntry(DIR_T, path, <<>>, None, <<>>))
  <2>1. DIR_T \in {DIR_T, FILE_T} /\ Abstract!Dir = [type |-> DIR_T, content |-> <<>>]
    BY DEF Abstract!Dir, DIR_T
  <2>2. FsInv' /\ Abstract!Make(path, [type |-> DIR_T, content |-> <<>>])
    BY <1>2, <2>1, InsertMakes
  <2> QED
    BY <2>1, <2>2
<1> QED
  BY <1>1, <1>2 DEF Mkdir

LEMMA RemoveDeletes ==
  ASSUME FsConstants, FsInv, NEW path \in Paths, rmhelper(path)
  PROVE  FsInv' /\ Abstract!Delete(path)
<1>1. PICK ent : ent = Find(path)
  OBVIOUS
<1>2. CASE ent = None /\ Fail(ENOENT)
  <2>1. FsInv' /\ Abstract!Fail(ENOENT)
    BY <1>2, FailKeeps, ErrorsAreNumbers
  <2>2. path \notin DOMAIN Tree
    BY <1>1, <1>2, LookupIs DEF Looked
  <2> QED
    BY <2>1, <2>2, SameWords DEF Abstract!Delete
<1>3. CASE ent # None /\ heap[ent].parent = None /\ Fail(0)
  <2>1. FsInv' /\ Tree' = Tree /\ ret' = 0
    BY <1>3, FailKeeps, ErrorsAreNumbers
  <2>2. ent \in Listed /\ heap[ent].name = path
    BY <1>1, <1>3, LookupIs DEF Looked
  <2>3. \A e \in Listed : e # None
    BY EntryFacts DEF FsInv, TreeInv
  <2>4. path = <<>>
    <3>1. ASSUME heap[ent].name # <<>> PROVE FALSE
      <4>1. heap[ent].parent \in Listed
        BY <2>2, <3>1, ParentFacts
      <4> QED
        BY <1>3, <2>3, <4>1
    <3> QED
      BY <2>2, <3>1
  <2> QED
    BY <2>1, <2>4 DEF Abstract!Delete
<1>4. CASE /\ ent # None /\ heap[ent].parent # None
           /\ heap' = [e \in DOMAIN heap \ Destroyed(ent) |->
                         IF e = heap[ent].parent THEN [heap[e] EXCEPT !.dirent = Erase(@, ent)] ELSE heap[e]]
           /\ allEntries' = Left(allEntries, Destroyed(ent))
           /\ ret' = 0
  <2>1. ent \in Listed /\ heap[ent].name = path /\ path \in DOMAIN Tree
    BY <1>1, <1>4, LookupIs DEF Looked
  <2>2. Destroyed(ent) = Under(ent)
    BY <2>1, DestroyedIs
  <2>3. PICK parent : parent = heap[ent].parent
    OBVIOUS
  <2>4. Removal(ent, parent)
    BY <1>4, <2>2, <2>3 DEF Removal
  <2>5. FsInv' /\ heap[ent].name # <<>> /\ Tree' = Pruned(heap[ent].name)
    BY <1>4, <2>1, <2>3, <2>4, RemovedKeeps
  <2>6. {q \in DOMAIN Tree : ~Abstract!IsPrefix(path, q)} = {q \in DOMAIN Tree : ~IsPrefix(path, q)}
    BY SameWords
  <2> QED
    BY <1>4, <2>1, <2>5, <2>6 DEF Abstract!Delete, Pruned
<1> QED
  BY <1>1, <1>2, <1>3, <1>4 DEF rmhelper

\* What a write leaves are bytes, with the new line for the carriage return.
LEMMA WrittenIs ==
  ASSUME NEW old \in Seq(Bytes), NEW buf \in Seq(Bytes), buf # <<>>, NEW s, s = old \o buf
  PROVE  /\ s \in Seq(Bytes) /\ NoReturn(s) \in Seq(Bytes)
         /\ NoReturn(s) = IF Last(s) = "cr" THEN Front(s) \o <<"nl">> ELSE s
<1>1. s \in Seq(Bytes)
  OBVIOUS
<1>2. Len(s) = Len(old) + Len(buf) /\ Len(buf) # 0 /\ Len(old) \in Nat /\ Len(buf) \in Nat
  BY EmptySeq
<1>3. s # <<>>
  BY <1>1, <1>2
<1>4. Front(s) \in Seq(Bytes)
  BY <1>1, <1>3, FrontIs
<1>5. <<"nl">> \in Seq(Bytes)
  BY DEF Bytes
<1>6. Front(s) \o <<"nl">> \in Seq(Bytes)
  BY <1>4, <1>5
<1> QED
  BY <1>1, <1>6 DEF NoReturn

LEMMA WriteAdds ==
  ASSUME FsConstants, FsInv, NEW path \in Paths, NEW buf \in Buffers, Write(path, buf)
  PROVE  FsInv' /\ Abstract!AddBytes(path, buf)
<1>1. PICK f : f = Find(path)
  OBVIOUS
<1>2. CASE f = None /\ Fail(ENOENT)
  <2>1. FsInv' /\ Abstract!Fail(ENOENT)
    BY <1>2, FailKeeps, ErrorsAreNumbers
  <2>2. path \notin DOMAIN Tree
    BY <1>1, <1>2, LookupIs DEF Looked
  <2> QED
    BY <2>1, <2>2, SameWords DEF Abstract!AddBytes
<1>3. CASE f # None /\ heap[f].type = DIR_T /\ Fail(EINVAL)
  <2>1. FsInv' /\ Abstract!Fail(EINVAL)
    BY <1>3, FailKeeps, ErrorsAreNumbers
  <2>2. path \in DOMAIN Tree /\ Tree[path].type = DIR_T
    <3>1. Looked(path)
      BY LookupIs
    <3> QED
      BY <1>1, <1>3, <3>1 DEF Looked
  <2> QED
    BY <2>1, <2>2, SameWords DEF Abstract!AddBytes
<1>4. CASE /\ f # None /\ heap[f].type = FILE_T
           /\ heap' = [heap EXCEPT ![f].content = NoReturn(Written(@, buf))]
           /\ ret' = Len(buf) /\ UNCHANGED allEntries
  <2>1. /\ f \in Listed /\ f \in DOMAIN heap /\ heap[f].name = path /\ path \in DOMAIN Tree
        /\ Tree[path] = [type |-> FILE_T, content |-> heap[f].content]
    BY <1>1, <1>4, LookupIs DEF Looked
  <2>2. buf \in Seq(Bytes) /\ buf # <<>> /\ heap[f].content \in Seq(Bytes)
    BY <2>1, EntryFacts DEF FsConstants
  <2>3. PICK s : s = heap[f].content \o buf
    OBVIOUS
  <2>4. PICK bytes : bytes = NoReturn(s)
    OBVIOUS
  <2>5. bytes \in Seq(Bytes) /\ bytes = IF Last(s) = "cr" THEN Front(s) \o <<"nl">> ELSE s
    BY <2>2, <2>3, <2>4, WrittenIs
  <2>6. heap' = [heap EXCEPT ![f].content = bytes] /\ allEntries' = allEntries
    BY <1>4, <2>3, <2>4 DEF Written
  <2>7. ret' \in Int
    BY <1>4, <2>2
  <2>8. FsInv' /\ Tree' = [Tree EXCEPT ![heap[f].name] = [type |-> FILE_T, content |-> bytes]]
    BY <1>4, <2>1, <2>5, <2>6, <2>7, ContentKeeps
  <2>9. Abstract!IsFile(path) /\ Tree[path].content \o buf = s
    BY <2>1, <2>3, SameWords
  <2>10. Tree' = [Tree EXCEPT ![path] = Abstract!File(IF Last(s) = "cr" THEN Front(s) \o <<"nl">> ELSE s)]
    BY <2>1, <2>5, <2>8 DEF Abstract!File, FILE_T
  <2>11. Tree' = [Tree EXCEPT ![path] =
                    Abstract!File(IF Abstract!Last(s) = "cr" THEN Abstract!Front(s) \o <<"nl">> ELSE s)]
    BY <2>10, SameWords
  <2> QED
    BY <1>4, <2>8, <2>9, <2>11 DEF Abstract!AddBytes
<1> QED
  BY <1>1, <1>2, <1>3, <1>4 DEF Write

LEMMA TruncateCuts ==
  ASSUME FsConstants, FsInv, NEW path \in Paths, NEW n \in Sizes, Truncate(path, n)
  PROVE  FsInv' /\ Abstract!Truncate(path, n)
<1>1. PICK f : f = Find(path)
  OBVIOUS
<1>2. CASE f = None /\ Fail(ENOENT)
  <2>1. FsInv' /\ Abstract!Fail(ENOENT)
    BY <1>2, FailKeeps, ErrorsAreNumbers
  <2>2. path \notin DOMAIN Tree
    BY <1>1, <1>2, LookupIs DEF Looked
  <2> QED
    BY <2>1, <2>2, SameWords DEF Abstract!Truncate
<1>3. CASE f # None /\ heap[f].type = DIR_T /\ Fail(EINVAL)
  <2>1. FsInv' /\ Abstract!Fail(EINVAL)
    BY <1>3, FailKeeps, ErrorsAreNumbers
  <2>2. path \in DOMAIN Tree /\ Tree[path].type = DIR_T
    <3>1. Looked(path)
      BY LookupIs
    <3> QED
      BY <1>1, <1>3, <3>1 DEF Looked
  <2> QED
    BY <2>1, <2>2, SameWords DEF Abstract!Truncate
<1>4. CASE /\ f # None /\ heap[f].type = FILE_T
           /\ heap' = [heap EXCEPT ![f].content = IF n < Len(@) THEN SubSeq(@, 1, n) ELSE @]
           /\ ret' = 0 /\ UNCHANGED allEntries
  <2>1. /\ f \in Listed /\ f \in DOMAIN heap /\ heap[f].name = path /\ path \in DOMAIN Tree
        /\ Tree[path] = [type |-> FILE_T, content |-> heap[f].content]
    BY <1>1, <1>4, LookupIs DEF Looked
  <2>2. PICK s \in Seq(Bytes) : s = heap[f].content
    BY <2>1, EntryFacts
  <2>3. n \in Nat /\ Len(s) \in Nat
    BY DEF FsConstants
  <2>4. PICK bytes : bytes = IF n < Len(s) THEN SubSeq(s, 1, n) ELSE s
    OBVIOUS
  <2>5. bytes \in Seq(Bytes) /\ bytes = SubSeq(s, 1, IF n < Len(s) THEN n ELSE Len(s))
    <3>1. CASE n < Len(s)
      <4>1. n \in 0..Len(s)
        BY <2>3, <3>1
      <4>2. SubSeq(s, 1, n) \in Seq(Bytes)
        BY <4>1, HeadOf
      <4> QED
        BY <2>4, <3>1, <4>2
    <3>2. CASE ~(n < Len(s))
      <4>1. Len(s) \in 0..Len(s)
        BY <2>3
      <4>2. SubSeq(s, 1, Len(s)) = s
        BY <4>1, HeadOf, SeqEqual
      <4> QED
        BY <2>4, <3>2, <4>2
    <3> QED
      BY <3>1, <3>2
  <2>6. heap' = [heap EXCEPT ![f].content = bytes] /\ allEntries' = allEntries /\ ret' \in Int
    BY <1>4, <2>2, <2>4
  <2>7. FsInv' /\ Tree' = [Tree EXCEPT ![heap[f].name] = [type |-> FILE_T, content |-> bytes]]
    BY <1>4, <2>1, <2>5, <2>6, ContentKeeps
  <2>8. Abstract!IsFile(path) /\ Tree[path].content = s
    BY <2>1, <2>2, SameWords
  <2>9. Tree' = [Tree EXCEPT ![path] = Abstract!File(SubSeq(s, 1, IF n < Len(s) THEN n ELSE Len(s)))]
    BY <2>1, <2>5, <2>7 DEF Abstract!File, FILE_T
  <2> QED
    BY <1>4, <2>7, <2>8, <2>9 DEF Abstract!Truncate
<1> QED
  BY <1>1, <1>2, <1>3, <1>4 DEF Truncate

-------------------------------------------------------------------------------
(* What main() makes *)

LEMMA OneItem ==
  ASSUME NEW S, NEW w \in S, NEW t, t = <<w>>
  PROVE  t \in Seq(S) /\ Len(t) = 1 /\ t[1] = w
  OBVIOUS

LEMMA TwoItems ==
  ASSUME NEW S, NEW v \in S, NEW w \in S, NEW t, t = <<v, w>>
  PROVE  t \in Seq(S) /\ Len(t) = 2 /\ t[1] = v
  OBVIOUS

\* The six entries, which differ in their names.
MadeEntries ==
  /\ DOMAIN heap = 0..5 /\ Listed = 0..5
  /\ heap[0] = NewEntry(DIR_T, <<>>, <<>>, None, <<1, 2, 3, 4>>)
  /\ heap[1] = NewEntry(FILE_T, <<"hello1">>, Hello, Root, <<>>)
  /\ heap[2] = NewEntry(FILE_T, <<"hello2">>, Hello, Root, <<>>)
  /\ heap[3] = NewEntry(DIR_T, <<"hellod1">>, <<>>, Root, <<5>>)
  /\ heap[4] = NewEntry(DIR_T, <<"hellod2">>, <<>>, Root, <<>>)
  /\ heap[5] = NewEntry(FILE_T, <<"hellod1", "hello3">>, Hello, 3, <<>>)

LEMMA EntriesAreMade == FsInit => MadeEntries
<1> SUFFICES ASSUME FsInit PROVE MadeEntries
  OBVIOUS
<1>1. heap = [e \in 0..5 |->
               CASE e = 0 -> NewEntry(DIR_T, <<>>, <<>>, None, <<1, 2, 3, 4>>)
                 [] e = 1 -> NewEntry(FILE_T, <<"hello1">>, Hello, Root, <<>>)
                 [] e = 2 -> NewEntry(FILE_T, <<"hello2">>, Hello, Root, <<>>)
                 [] e = 3 -> NewEntry(DIR_T, <<"hellod1">>, <<>>, Root, <<5>>)
                 [] e = 4 -> NewEntry(DIR_T, <<"hellod2">>, <<>>, Root, <<>>)
                 [] e = 5 -> NewEntry(FILE_T, <<"hellod1", "hello3">>, Hello, 3, <<>>)]
  BY DEF FsInit
<1>2. DOMAIN heap = 0..5
  BY <1>1
<1>3. /\ heap[0] = NewEntry(DIR_T, <<>>, <<>>, None, <<1, 2, 3, 4>>)
      /\ heap[1] = NewEntry(FILE_T, <<"hello1">>, Hello, Root, <<>>)
      /\ heap[2] = NewEntry(FILE_T, <<"hello2">>, Hello, Root, <<>>)
      /\ heap[3] = NewEntry(DIR_T, <<"hellod1">>, <<>>, Root, <<5>>)
      /\ heap[4] = NewEntry(DIR_T, <<"hellod2">>, <<>>, Root, <<>>)
      /\ heap[5] = NewEntry(FILE_T, <<"hellod1", "hello3">>, Hello, 3, <<>>)
  BY <1>1
<1>4. Listed = 0..5
  <2>1. allEntries = <<0, 1, 2, 3, 4, 5>>
    BY DEF FsInit
  <2>2. DOMAIN allEntries = 1..6 /\ \A i \in 1..6 : allEntries[i] = i - 1
    BY <2>1
  <2>3. \A x : x \in Listed <=> \E i \in 1..6 : x = i - 1
    BY <2>2 DEF Listed, ToSet
  <2>4. \A x : x \in 0..5 <=> \E i \in 1..6 : x = i - 1
    <3>1. \A x \in 0..5 : x + 1 \in 1..6 /\ x = x + 1 - 1
      OBVIOUS
    <3>2. \A i \in 1..6 : i - 1 \in 0..5
      OBVIOUS
    <3> QED
      BY <3>1, <3>2
  <2> QED
    BY <2>3, <2>4
<1> QED
  BY <1>2, <1>3, <1>4 DEF MadeEntries

\* What the entries are, field by field.
MadeFields ==
  /\ \A e \in 0..5 : heap[e].type = IF e \in {0, 3, 4} THEN DIR_T ELSE FILE_T
  /\ \A e \in 0..5 : heap[e].content = IF e \in {0, 3, 4} THEN <<>> ELSE Hello
  /\ heap[0].name = <<>> /\ heap[1].name = <<"hello1">> /\ heap[2].name = <<"hello2">>
  /\ heap[3].name = <<"hellod1">> /\ heap[4].name = <<"hellod2">>
  /\ heap[5].name = <<"hellod1", "hello3">>
  /\ heap[0].parent = None /\ heap[5].parent = 3
  /\ \A e \in 1..4 : heap[e].parent = Root
  /\ heap[0].dirent = <<1, 2, 3, 4>> /\ heap[3].dirent = <<5>>
  /\ \A e \in {1, 2, 4, 5} : heap[e].dirent = <<>>

LEMMA FieldsAreMade == MadeEntries => MadeFields
<1> SUFFICES ASSUME MadeEntries PROVE MadeFields
  OBVIOUS
<1>1. \A e \in 0..5 : e \in {0, 1, 2, 3, 4, 5}
  OBVIOUS
<1>2. \A e \in 1..4 : e \in {1, 2, 3, 4}
  OBVIOUS
<1>3. \A ty, name, content, parent, dirent :
        LET r == NewEntry(ty, name, content, parent, dirent)
        IN r.type = ty /\ r.name = name /\ r.content = content /\ r.parent = parent /\ r.dirent = dirent
  BY DEF NewEntry
<1>4. \A e \in {0, 1, 2, 3, 4, 5} : heap[e].type = IF e \in {0, 3, 4} THEN DIR_T ELSE FILE_T
  BY <1>3 DEF MadeEntries
<1>5. \A e \in {0, 1, 2, 3, 4, 5} : heap[e].content = IF e \in {0, 3, 4} THEN <<>> ELSE Hello
  BY <1>3 DEF MadeEntries
<1>6. /\ heap[0].name = <<>> /\ heap[1].name = <<"hello1">> /\ heap[2].name = <<"hello2">>
      /\ heap[3].name = <<"hellod1">> /\ heap[4].name = <<"hellod2">>
      /\ heap[5].name = <<"hellod1", "hello3">>
  BY <1>3 DEF MadeEntries
<1>7. /\ heap[0].parent = None /\ heap[5].parent = 3
      /\ \A e \in {1, 2, 3, 4} : heap[e].parent = Root
  BY <1>3 DEF MadeEntries
<1>8. /\ heap[0].dirent = <<1, 2, 3, 4>> /\ heap[3].dirent = <<5>>
      /\ \A e \in {1, 2, 4, 5} : heap[e].dirent = <<>>
  BY <1>3 DEF MadeEntries
<1> QED
  BY <1>1, <1>2, <1>4, <1>5, <1>6, <1>7, <1>8 DEF MadeFields

\* The names are sequences of names.
MadeNames ==
  /\ heap[0].name \in Seq(STRING) /\ Len(heap[0].name) = 0
  /\ \A e \in {1, 2, 3, 4} : heap[e].name \in Seq(STRING) /\ Len(heap[e].name) = 1
  /\ heap[1].name[1] = "hello1" /\ heap[2].name[1] = "hello2"
  /\ heap[3].name[1] = "hellod1" /\ heap[4].name[1] = "hellod2"
  /\ heap[5].name \in Seq(STRING) /\ Len(heap[5].name) = 2 /\ heap[5].name[1] = "hellod1"

LEMMA NamesAreMade == FsConstants /\ MadeFields => MadeNames
<1> SUFFICES ASSUME FsConstants, MadeFields PROVE MadeNames
  OBVIOUS
<1>1. /\ "hello1" \in STRING /\ "hello2" \in STRING /\ "hello3" \in STRING
      /\ "hellod1" \in STRING /\ "hellod2" \in STRING
  BY DEF FsConstants
<1>2. /\ heap[0].name = <<>> /\ heap[1].name = <<"hello1">> /\ heap[2].name = <<"hello2">>
      /\ heap[3].name = <<"hellod1">> /\ heap[4].name = <<"hellod2">>
      /\ heap[5].name = <<"hellod1", "hello3">>
  BY DEF MadeFields
<1>3. heap[0].name \in Seq(STRING) /\ Len(heap[0].name) = 0
  BY <1>2, EmptySeq
<1>4. heap[1].name \in Seq(STRING) /\ Len(heap[1].name) = 1 /\ heap[1].name[1] = "hello1"
  BY <1>1, <1>2, OneItem
<1>5. heap[2].name \in Seq(STRING) /\ Len(heap[2].name) = 1 /\ heap[2].name[1] = "hello2"
  BY <1>1, <1>2, OneItem
<1>6. heap[3].name \in Seq(STRING) /\ Len(heap[3].name) = 1 /\ heap[3].name[1] = "hellod1"
  BY <1>1, <1>2, OneItem
<1>7. heap[4].name \in Seq(STRING) /\ Len(heap[4].name) = 1 /\ heap[4].name[1] = "hellod2"
  BY <1>1, <1>2, OneItem
<1>8. heap[5].name \in Seq(STRING) /\ Len(heap[5].name) = 2 /\ heap[5].name[1] = "hellod1"
  BY <1>1, <1>2, TwoItems
<1> QED
  BY <1>3, <1>4, <1>5, <1>6, <1>7, <1>8 DEF MadeNames

\* No two of the six names are the same.
LEMMA NamesDiffer ==
  ASSUME MadeNames, NEW e \in 0..5, NEW f \in 0..5, heap[e].name = heap[f].name
  PROVE  e = f
<1>1. e \in {0, 1, 2, 3, 4, 5} /\ f \in {0, 1, 2, 3, 4, 5}
  OBVIOUS
<1>2. /\ Len(heap[0].name) = 0
      /\ \A d \in {1, 2, 3, 4} : Len(heap[d].name) = 1
      /\ Len(heap[5].name) = 2
  BY DEF MadeNames
<1>3. /\ heap[1].name[1] = "hello1" /\ heap[2].name[1] = "hello2"
      /\ heap[3].name[1] = "hellod1" /\ heap[4].name[1] = "hellod2"
  BY DEF MadeNames
<1>4. CASE e \in {0, 5} \/ f \in {0, 5}
  <2>1. Len(heap[e].name) = Len(heap[f].name)
    OBVIOUS
  <2>2. \A d \in {1, 2, 3, 4} : Len(heap[d].name) # 0 /\ Len(heap[d].name) # 2
    <3> SUFFICES ASSUME NEW d \in {1, 2, 3, 4} PROVE Len(heap[d].name) # 0 /\ Len(heap[d].name) # 2
      OBVIOUS
    <3>1. PICK k : k = Len(heap[d].name)
      OBVIOUS
    <3>2. k = 1
      BY <1>2, <3>1
    <3> QED
      BY <3>1, <3>2
  <2>3. CASE e = 0
    BY <1>1, <1>2, <2>1, <2>2, <2>3
  <2>4. CASE e = 5
    BY <1>1, <1>2, <2>1, <2>2, <2>4
  <2>5. CASE f = 0
    BY <1>1, <1>2, <2>1, <2>2, <2>5
  <2>6. CASE f = 5
    BY <1>1, <1>2, <2>1, <2>2, <2>6
  <2> QED
    BY <1>4, <2>3, <2>4, <2>5, <2>6
<1>5. CASE e \in {1, 2, 3, 4} /\ f \in {1, 2, 3, 4}
  <2>1. heap[e].name[1] = heap[f].name[1]
    OBVIOUS
  <2> QED
    BY <1>3, <1>5, <2>1
<1> QED
  BY <1>1, <1>4, <1>5

LEMMA InitKeeps == FsConstants /\ FsInit => FsInv /\ Tree = MadeTree
<1> SUFFICES ASSUME FsConstants, FsInit PROVE FsInv /\ Tree = MadeTree
  OBVIOUS
<1>1. MadeEntries /\ MadeFields /\ MadeNames
  BY EntriesAreMade, FieldsAreMade, NamesAreMade
<1>2. DOMAIN heap = 0..5 /\ Listed = 0..5 /\ \A e \in 0..5 : e \in {0, 1, 2, 3, 4, 5}
  BY <1>1 DEF MadeEntries
<1>3. Hello \in Seq(Bytes) /\ <<>> \in Seq(Bytes) /\ <<>> \in Seq(Address) /\ None \in Address \cup {None}
      /\ <<1, 2, 3, 4>> \in Seq(Address) /\ <<5>> \in Seq(Address)
      /\ Root \in Address \cup {None} /\ 3 \in Address \cup {None}
  <2>1. \A e \in {0, 1, 2, 3, 4, 5} : e \in Address
    BY DEF FsConstants
  <2>2. \A a, b, c, d \in Address : <<a, b, c, d>> \in Seq(Address) /\ <<a>> \in Seq(Address)
    OBVIOUS
  <2>3. Hello \in Seq(Bytes)
    BY DEF Hello, Bytes
  <2> QED
    BY <2>1, <2>2, <2>3, EmptySeq DEF Root
<1>4. \A e \in 0..5 : heap[e] \in Entry
  <2>1. \A ty \in {DIR_T, FILE_T}, name \in Seq(STRING), content \in Seq(Bytes),
           parent \in Address \cup {None}, dirent \in Seq(Address) :
             NewEntry(ty, name, content, parent, dirent) \in Entry
    BY DEF NewEntry, Entry
  <2>2. \A e \in {0, 1, 2, 3, 4, 5} : heap[e].name \in Seq(STRING)
    BY <1>1 DEF MadeNames
  <2>3. \A e \in {0, 1, 2, 3, 4, 5} : heap[e] =
          NewEntry(heap[e].type, heap[e].name, heap[e].content, heap[e].parent, heap[e].dirent)
    BY <1>1 DEF MadeEntries, NewEntry
  <2>4. \A e \in {0, 1, 2, 3, 4, 5} :
          /\ heap[e].type \in {DIR_T, FILE_T} /\ heap[e].content \in Seq(Bytes)
          /\ heap[e].parent \in Address \cup {None} /\ heap[e].dirent \in Seq(Address)
    <3>1. \A e \in {0, 1, 2, 3, 4, 5} : e \in 0..5 /\ (e \in {1, 2, 3, 4} => e \in 1..4)
      OBVIOUS
    <3>2. \A e \in {0, 1, 2, 3, 4, 5} : heap[e].type \in {DIR_T, FILE_T} /\ heap[e].content \in Seq(Bytes)
      BY <1>1, <1>3, <3>1 DEF MadeFields
    <3>3. \A e \in {0, 1, 2, 3, 4, 5} : heap[e].parent \in Address \cup {None}
      <4>1. heap[0].parent = None /\ heap[5].parent = 3 /\ \A e \in {1, 2, 3, 4} : heap[e].parent = Root
        BY <1>1, <3>1 DEF MadeFields
      <4>2. /\ heap[0].parent \in Address \cup {None} /\ heap[5].parent \in Address \cup {None}
            /\ \A e \in {1, 2, 3, 4} : heap[e].parent \in Address \cup {None}
        BY <1>3, <4>1
      <4>3. \A e \in {0, 1, 2, 3, 4, 5} : e = 0 \/ e = 5 \/ e \in {1, 2, 3, 4}
        OBVIOUS
      <4> QED
        BY <4>2, <4>3
    <3>4. \A e \in {0, 1, 2, 3, 4, 5} : heap[e].dirent \in Seq(Address)
      <4>1. heap[0].dirent = <<1, 2, 3, 4>> /\ heap[3].dirent = <<5>> /\ \A e \in {1, 2, 4, 5} : heap[e].dirent = <<>>
        BY <1>1 DEF MadeFields
      <4>2. heap[0].dirent \in Seq(Address) /\ heap[3].dirent \in Seq(Address)
        BY <1>3, <4>1
      <4>3. \A e \in {1, 2, 4, 5} : heap[e].dirent \in Seq(Address)
        BY <1>3, <4>1
      <4>4. \A e \in {0, 1, 2, 3, 4, 5} : e = 0 \/ e = 3 \/ e \in {1, 2, 4, 5}
        OBVIOUS
      <4> QED
        BY <4>2, <4>3, <4>4
    <3> QED
      BY <3>2, <3>3, <3>4
  <2>5. \A e \in {0, 1, 2, 3, 4, 5} : heap[e] \in Entry
    <3> SUFFICES ASSUME NEW e \in {0, 1, 2, 3, 4, 5} PROVE heap[e] \in Entry
      OBVIOUS
    <3>1. NewEntry(heap[e].type, heap[e].name, heap[e].content, heap[e].parent, heap[e].dirent) \in Entry
      BY <2>1, <2>2, <2>4
    <3> QED
      BY <2>3, <3>1
  <2> QED
    BY <1>2, <2>5
<1>5. FsTypeOK
  <2>1. DOMAIN heap \subseteq Address
    BY <1>2 DEF FsConstants
  <2>2. heap \in [DOMAIN heap -> Entry]
    <3>1. heap = [e \in DOMAIN heap |-> heap[e]]
      BY DEF FsInit
    <3> QED
      BY <1>2, <1>4, <3>1
  <2>3. allEntries \in Seq(Address) /\ ret \in Int
    <3>1. allEntries = <<0, 1, 2, 3, 4, 5>> /\ ret = 0
      BY DEF FsInit
    <3>2. \A e \in {0, 1, 2, 3, 4, 5} : e \in Address
      BY DEF FsConstants
    <3>3. \A a, b, c, d, e, f \in Address : <<a, b, c, d, e, f>> \in Seq(Address)
      OBVIOUS
    <3> QED
      BY <3>1, <3>2, <3>3
  <2> QED
    BY <2>1, <2>2, <2>3 DEF FsTypeOK
<1>6. Once(allEntries)
  <2>1. allEntries = <<0, 1, 2, 3, 4, 5>>
    BY DEF FsInit
  <2>2. DOMAIN allEntries = 1..6 /\ \A i \in 1..6 : allEntries[i] = i - 1
    BY <2>1
  <2> QED
    BY <2>2 DEF Once
<1>7. \A d \in {0, 1, 2, 3, 4, 5} : Children(heap, 0..5, d)
  <2>1. ASSUME NEW d \in {1, 2, 4, 5} PROVE Children(heap, 0..5, d)
    <3>1. heap[d].dirent = <<>>
      BY <1>1 DEF MadeFields
    <3>2. DOMAIN heap[d].dirent = {}
      BY <3>1
    <3> QED
      BY <3>2 DEF Children, Once, ToSet
  <2>2. Children(heap, 0..5, 0)
    <3>1. DOMAIN heap[0].dirent = 1..4 /\ \A i \in 1..4 : heap[0].dirent[i] = i
      BY <1>1 DEF MadeFields
    <3>2. Once(heap[0].dirent)
      BY <3>1 DEF Once
    <3>3. \A e \in ToSet(heap[0].dirent) : e \in {1, 2, 3, 4}
      BY <3>1 DEF ToSet
    <3>4. \A e \in {1, 2, 3, 4} : e \in 0..5 /\ e \in 1..4
      OBVIOUS
    <3>5. \A e \in {1, 2, 3, 4} : \E t \in Seq(STRING) : heap[e].name = t /\ Len(t) = 1
      BY <1>1 DEF MadeNames
    <3>6. \A t \in Seq(STRING) : Len(t) = 1 => t # <<>> /\ Front(t) = <<>>
      <4> SUFFICES ASSUME NEW t \in Seq(STRING), Len(t) = 1 PROVE t # <<>> /\ Front(t) = <<>>
        OBVIOUS
      <4>1. t # <<>>
        BY EmptySeq
      <4>2. Front(t) \in Seq(STRING) /\ Len(Front(t)) = 0
        BY <4>1, FrontIs
      <4> QED
        BY <4>1, <4>2, EmptySeq
    <3>7. \A e \in {1, 2, 3, 4} : heap[e].parent = 0 /\ heap[0].name = <<>>
      BY <1>1, <3>4 DEF MadeFields, Root
    <3> QED
      BY <3>2, <3>3, <3>4, <3>5, <3>6, <3>7 DEF Children
  <2>3. Children(heap, 0..5, 3)
    <3>1. DOMAIN heap[3].dirent = {1} /\ heap[3].dirent[1] = 5
      BY <1>1 DEF MadeFields
    <3>2. Once(heap[3].dirent) /\ \A e \in ToSet(heap[3].dirent) : e = 5
      BY <3>1 DEF Once, ToSet
    <3>3. heap[5].name # <<>> /\ Front(heap[5].name) = heap[3].name
      <4>1. PICK t \in Seq(STRING) : t = heap[5].name /\ Len(t) = 2 /\ t[1] = "hellod1"
        BY <1>1 DEF MadeNames
      <4>2. t # <<>>
        BY <4>1, EmptySeq
      <4>3. Front(t) \in Seq(STRING) /\ Len(Front(t)) = 1 /\ Front(t)[1] = "hellod1"
        <5>1. Len(t) - 1 = 1 /\ 1 \in 1..1
          BY <4>1
        <5>2. PICK r : r = Front(t)
          OBVIOUS
        <5>3. r \in Seq(STRING) /\ Len(r) = 1 /\ \A i \in 1..1 : r[i] = t[i]
          BY <4>2, <5>1, <5>2, FrontIs
        <5> QED
          BY <4>1, <5>1, <5>2, <5>3
      <4>4. PICK u \in Seq(STRING) : u = heap[3].name /\ Len(u) = 1 /\ u[1] = "hellod1"
        BY <1>1 DEF MadeNames
      <4>5. Front(t) = u
        BY <4>3, <4>4, SeqEqual
      <4> QED
        BY <4>1, <4>2, <4>4, <4>5
    <3>4. 5 \in 0..5 /\ heap[5].parent = 3
      BY <1>1 DEF MadeFields
    <3> QED
      BY <3>2, <3>3, <3>4 DEF Children
  <2> QED
    BY <2>1, <2>2, <2>3
<1>8. TreeInv(heap, 0..5)
  <2>1. /\ 0..5 \subseteq DOMAIN heap /\ Root \in 0..5
        /\ heap[Root].name = <<>> /\ heap[Root].type = DIR_T /\ heap[Root].parent = None
    BY <1>1, <1>2 DEF MadeFields, Root
  <2>2. \A d \in 0..5 : Children(heap, 0..5, d)
    BY <1>2, <1>7
  <2>3. \A e \in 0..5 \ {Root} : heap[e].parent \in 0..5 /\ e \in ToSet(heap[heap[e].parent].dirent)
    <3>1. \A e \in 0..5 \ {Root} : e \in 1..4 \/ e = 5
      BY DEF Root
    <3>2. ASSUME NEW e \in 1..4 PROVE heap[e].parent \in 0..5 /\ e \in ToSet(heap[heap[e].parent].dirent)
      <4>1. heap[e].parent = 0 /\ heap[0].dirent = <<1, 2, 3, 4>>
        BY <1>1 DEF MadeFields, Root
      <4>2. e \in DOMAIN heap[0].dirent /\ heap[0].dirent[e] = e
        BY <4>1
      <4> QED
        BY <4>1, <4>2 DEF ToSet
    <3>3. heap[5].parent \in 0..5 /\ 5 \in ToSet(heap[heap[5].parent].dirent)
      <4>1. heap[5].parent = 3 /\ heap[3].dirent = <<5>>
        BY <1>1 DEF MadeFields
      <4>2. 1 \in DOMAIN heap[3].dirent /\ heap[3].dirent[1] = 5
        BY <4>1
      <4> QED
        BY <4>1, <4>2 DEF ToSet
    <3> QED
      BY <3>1, <3>2, <3>3
  <2>4. \A e, f \in 0..5 : heap[e].name = heap[f].name => e = f
    BY <1>1, NamesDiffer
  <2>5. \A e \in DOMAIN heap : Shape(heap, 0..5, e)
    <3>1. \A e \in 0..5 : heap[e].type = FILE_T => e \in {1, 2, 5}
      BY <1>1, <1>2 DEF MadeFields, DIR_T, FILE_T
    <3>2. \A e \in 0..5 : heap[e].type = FILE_T => heap[e].dirent = <<>>
      BY <1>1, <3>1 DEF MadeFields
    <3>3. \A e \in 0..5 : heap[e].type = DIR_T => heap[e].content = <<>>
      BY <1>1 DEF MadeFields, DIR_T, FILE_T
    <3> QED
      BY <1>2, <3>2, <3>3 DEF Shape
  <2> QED
    BY <2>1, <2>2, <2>3, <2>4, <2>5 DEF TreeInv
<1>9. FsInv
  BY <1>2, <1>5, <1>6, <1>8 DEF FsInv
<1>10. TreeFacts
  BY <1>9, TreeIs
<1>11. PICK six : six = {<<>>, <<"hello1">>, <<"hello2">>, <<"hellod1">>, <<"hellod2">>, <<"hellod1", "hello3">>}
  OBVIOUS
<1>12. DOMAIN Tree = six
  <2>1. \A e \in {0, 1, 2, 3, 4, 5} : heap[e].name \in six
    BY <1>1, <1>11 DEF MadeFields
  <2>2. \A p \in six : \E e \in {0, 1, 2, 3, 4, 5} : heap[e].name = p
    BY <1>1, <1>11 DEF MadeFields
  <2>3. \A e \in {0, 1, 2, 3, 4, 5} : e \in 0..5
    OBVIOUS
  <2>4. DOMAIN Tree = {heap[e].name : e \in 0..5}
    BY <1>2, <1>10 DEF TreeFacts
  <2> QED
    BY <1>2, <2>1, <2>2, <2>3, <2>4
<1>13. PICK made : made = MadeTree
  OBVIOUS
<1>14. /\ DOMAIN made = six /\ made = [p \in DOMAIN made |-> made[p]]
       /\ \A p \in six : made[p] = IF p \in {<<>>, <<"hellod1">>, <<"hellod2">>} THEN [type |-> DIR_T, content |-> <<>>]
                                  ELSE [type |-> FILE_T, content |-> Hello]
  BY <1>11, <1>13 DEF MadeTree
<1>15. ASSUME NEW e \in 0..5 PROVE Tree[heap[e].name] = made[heap[e].name]
  <2>1. Tree[heap[e].name] = [type |-> heap[e].type, content |-> heap[e].content]
    BY <1>2, <1>10 DEF TreeFacts
  <2>2. heap[e].name \in six
    BY <1>2, <1>10, <1>12 DEF TreeFacts
  <2>3. heap[e].name \in {<<>>, <<"hellod1">>, <<"hellod2">>} <=> e \in {0, 3, 4}
    <3>1. heap[e].name \in {heap[0].name, heap[3].name, heap[4].name} <=> e \in {0, 3, 4}
      <4>1. \A d \in {0, 3, 4} : d \in 0..5
        OBVIOUS
      <4>2. \A d \in {0, 3, 4} : heap[e].name = heap[d].name <=> e = d
        BY <1>1, <4>1, NamesDiffer
      <4> QED
        BY <4>2
    <3> QED
      BY <1>1, <3>1 DEF MadeFields
  <2> QED
    BY <1>1, <1>14, <2>1, <2>2, <2>3 DEF MadeFields
<1>16. \A p \in DOMAIN Tree : Tree[p] = made[p]
  BY <1>2, <1>10, <1>15 DEF TreeFacts
<1>17. Tree = made
  BY <1>10, <1>12, <1>14, <1>16, SameFunction DEF TreeFacts
<1> QED
  BY <1>9, <1>13, <1>17

-------------------------------------------------------------------------------
(* The theorems *)

\* Each step keeps the invariant, and is a step of the abstract tree or leaves it.
LEMMA StepMakes ==
  ASSUME FsConstants, FsInv, [FsNext]_fsVars
  PROVE  FsInv' /\ [Abstract!TNext]_(Abstract!tvars)
<1>1. CASE UNCHANGED fsVars
  <2>1. heap' = heap /\ allEntries' = allEntries /\ ret' = ret
    BY <1>1 DEF fsVars
  <2>2. ret' \in Int
    BY <2>1 DEF FsInv, FsTypeOK
  <2>3. FsInv' /\ Tree' = Tree
    BY <2>1, <2>2, ReturnKeeps
  <2>4. Abstract!tvars' = Abstract!tvars
    BY <2>1, <2>3 DEF Abstract!tvars
  <2> QED
    BY <2>3, <2>4
<1>2. CASE FsNext
  <2>1. PICK path \in Paths : \/ Create(path) \/ Mkdir(path) \/ rmhelper(path)
                              \/ \E buf \in Buffers : Write(path, buf)
                              \/ \E n \in Sizes : Truncate(path, n)
    BY <1>2 DEF FsNext
  <2>2. CASE Create(path)
    <3>1. FsInv' /\ Abstract!Make(path, Abstract!File(<<>>))
      BY <2>2, CreateMakes
    <3> QED
      BY <3>1 DEF Abstract!TNext
  <2>3. CASE Mkdir(path)
    <3>1. FsInv' /\ Abstract!Make(path, Abstract!Dir)
      BY <2>3, MkdirMakes
    <3> QED
      BY <3>1 DEF Abstract!TNext
  <2>4. CASE rmhelper(path)
    <3>1. FsInv' /\ Abstract!Delete(path)
      BY <2>4, RemoveDeletes
    <3> QED
      BY <3>1 DEF Abstract!TNext
  <2>5. ASSUME NEW buf \in Buffers, Write(path, buf)
        PROVE  FsInv' /\ Abstract!TNext
    <3>1. FsInv' /\ Abstract!AddBytes(path, buf)
      BY <2>5, WriteAdds
    <3> QED
      BY <3>1 DEF Abstract!TNext
  <2>6. ASSUME NEW n \in Sizes, Truncate(path, n)
        PROVE  FsInv' /\ Abstract!TNext
    <3>1. FsInv' /\ Abstract!Truncate(path, n)
      BY <2>6, TruncateCuts
    <3> QED
      BY <3>1 DEF Abstract!TNext
  <2> QED
    BY <2>1, <2>2, <2>3, <2>4, <2>5, <2>6
<1> QED
  BY <1>1, <1>2

\* The list, the lists dirent, the parents and the names agree whatever handlers
\* were called: the inductive invariant of all that follows.
THEOREM InvariantHolds == ASSUME FsConstants PROVE FsSpec => []FsInv
<1>1. FsInit => FsInv
  BY InitKeeps
<1>2. FsInv /\ [FsNext]_fsVars => FsInv'
  BY StepMakes
<1> QED
  BY <1>1, <1>2, PTL DEF FsSpec

\* allEntries and the lists dirent are one tree: what insert_entry() adds to both
\* and ~Entry takes from both is listed exactly if its parent's dirent has it.
THEOREM ListStaysTree == ASSUME FsConstants PROVE FsSpec => []ListIsTree
<1>1. FsInv => ListIsTree
  <2> SUFFICES ASSUME FsInv PROVE ListIsTree
    OBVIOUS
  <2>1. Listed \subseteq DOMAIN heap
    BY DEF FsInv, TreeInv
  <2>2. \A i, j \in DOMAIN allEntries : allEntries[i] = allEntries[j] => i = j
    BY DEF FsInv, Once
  <2>3. ASSUME NEW d \in Listed, NEW i \in DOMAIN heap[d].dirent, NEW e, e = heap[d].dirent[i]
        PROVE  /\ e \in Listed /\ heap[e].parent = d
               /\ heap[e].name # <<>> /\ Front(heap[e].name) = heap[d].name
               /\ \A j \in DOMAIN heap[d].dirent : heap[d].dirent[j] = e => i = j
    <3>1. Children(heap, Listed, d)
      BY DEF FsInv, TreeInv
    <3>2. e \in ToSet(heap[d].dirent)
      BY <2>3 DEF ToSet
    <3>3. \A j \in DOMAIN heap[d].dirent : heap[d].dirent[j] = e => i = j
      BY <2>3, <3>1 DEF Children, Once
    <3> QED
      BY <3>1, <3>2, <3>3 DEF Children
  <2>4. ASSUME NEW e \in Listed \ {Root}
        PROVE  heap[e].parent \in Listed /\ Contains(heap[heap[e].parent].dirent, e)
    <3>1. heap[e].parent \in Listed /\ e \in ToSet(heap[heap[e].parent].dirent)
      BY DEF FsInv, TreeInv
    <3>2. heap[heap[e].parent].dirent \in Seq(Address)
      BY <2>1, <3>1, EntryFacts
    <3>3. DOMAIN heap[heap[e].parent].dirent = 1..Len(heap[heap[e].parent].dirent)
      BY <3>2
    <3> QED
      BY <3>1, <3>3 DEF Contains, ToSet
  <2> QED
    BY <2>1, <2>2, <2>3, <2>4 DEF ListIsTree
<1> QED
  BY <1>1, InvariantHolds, PTL

\* Two entries never have the same path, so the first find_if finds is the only one.
THEOREM NamesStayUnique == ASSUME FsConstants PROVE FsSpec => []NamesAreUnique
<1>1. FsInv => NamesAreUnique
  BY DEF FsInv, TreeInv, NamesAreUnique
<1> QED
  BY <1>1, InvariantHolds, PTL

\* Every handler does to the tree of the lists dirent what the abstract file tree
\* does, and returns what it returns.
THEOREM FileSystemImplementsTree == ASSUME FsConstants PROVE FsSpec => ImplementsFileTree
<1>1. FsInit => Abstract!TInit
  <2> SUFFICES ASSUME FsInit PROVE Abstract!TInit
    OBVIOUS
  <2>1. Tree = MadeTree
    BY InitKeeps
  <2>2. ret = 0
    BY DEF FsInit
  <2> QED
    BY <2>1, <2>2 DEF Abstract!TInit
<1>2. FsInv /\ [FsNext]_fsVars => [Abstract!TNext]_(Abstract!tvars)
  BY StepMakes
<1> QED
  BY <1>1, <1>2, InvariantHolds, PTL DEF FsSpec, ImplementsFileTree, Abstract!TSpec

-------------------------------------------------------------------------------
(* The handlers that only look *)

\* What is asked for and there.
LEMMA CountIs ==
  ASSUME NEW len \in Nat, NEW offset \in Nat, NEW size \in Nat, NEW n, n = BytesRead(len, offset, size)
  PROVE  /\ n \in Nat /\ (n = 0 \/ offset + n <= len)
         /\ n = size \/ (n < size /\ offset + n >= len)
<1>1. n = IF offset >= len THEN 0 ELSE IF offset + size > len THEN len - offset ELSE size
  BY DEF BytesRead
<1>2. CASE offset >= len
  BY <1>1, <1>2
<1>3. CASE ~(offset >= len)
  BY <1>1, <1>3
<1> QED
  BY <1>2, <1>3

\* The n bytes from offset on.
Copied(content, offset, n) == [i \in 1..n |-> content[offset + i]]

LEMMA CopiedIs ==
  ASSUME NEW S, NEW content \in Seq(S), NEW offset \in Nat, NEW n \in Nat,
         n = 0 \/ offset + n <= Len(content)
  PROVE  /\ Copied(content, offset, n) = SubSeq(content, offset + 1, offset + n)
         /\ Len(Copied(content, offset, n)) = n
<1>1. Len(content) \in Nat /\ DOMAIN content = 1..Len(content) /\ \A i \in 1..Len(content) : content[i] \in S
  OBVIOUS
<1>2. PICK bytes : bytes = Copied(content, offset, n)
  OBVIOUS
<1>3. bytes = [i \in 1..n |-> content[offset + i]]
  BY <1>2 DEF Copied
<1>4. \A i \in 1..n : offset + i \in 1..Len(content)
  BY <1>1
<1>5. bytes \in Seq(S) /\ Len(bytes) = n /\ \A i \in 1..n : bytes[i] = content[offset + i]
  BY <1>1, <1>3, <1>4
<1>6. PICK first \in Int : first = offset + 1
  OBVIOUS
<1>7. PICK last \in Int : last = offset + n
  OBVIOUS
<1>8. \A i \in first..last : content[i] \in S
  <2>1. \A i \in first..last : i \in 1..Len(content)
    BY <1>1, <1>6, <1>7
  <2> QED
    BY <1>1, <2>1
<1>9. PICK part : part = SubSeq(content, first, last)
  OBVIOUS
<1>10. /\ part \in Seq(S) /\ Len(part) = IF first <= last THEN last - first + 1 ELSE 0
       /\ \A i \in 1..(last - first + 1) : part[i] = content[first + i - 1]
  BY <1>8, <1>9, SubSeqProperties
<1>11. last - first + 1 = n /\ (n # 0 => first <= last) /\ (n = 0 => ~(first <= last))
  BY <1>6, <1>7
<1>12. Len(part) = n
  BY <1>10, <1>11
<1>13. \A i \in 1..n : part[i] = content[offset + i]
  <2>1. \A i \in 1..n : first + i - 1 = offset + i
    BY <1>6
  <2> QED
    BY <1>10, <1>11, <2>1
<1>14. bytes = part
  BY <1>5, <1>10, <1>12, <1>13, SeqEqual
<1> QED
  BY <1>2, <1>5, <1>6, <1>7, <1>9, <1>14

\* A directory is listed with the names below it in the tree, each once.
LEMMA ReaddirIs ==
  ASSUME FsConstants, FsInv, NEW path, Find(path) # None, NEW names, names = readdir(path)
  PROVE  /\ ToSet(names) = {Last(q) : q \in {q \in DOMAIN Tree : q # <<>> /\ Front(q) = path}}
         /\ \A i, j \in DOMAIN names : names[i] = names[j] => i = j
<1>1. PICK d : d = Find(path) /\ d \in Listed /\ d \in DOMAIN heap /\ heap[d].name = path
  BY LookupIs DEF Looked
<1>2. PICK list \in Seq(Address) : list = heap[d].dirent
  BY <1>1, EntryFacts
<1>3. names = [i \in DOMAIN list |-> Last(heap[list[i]].name)]
  BY <1>1, <1>2 DEF readdir
<1>4. \A i \in DOMAIN list : /\ list[i] \in Listed /\ list[i] \in DOMAIN heap
                            /\ heap[list[i]].name # <<>> /\ Front(heap[list[i]].name) = path
  <2>1. \A i \in DOMAIN list : list[i] \in ToSet(heap[d].dirent)
    BY <1>2 DEF ToSet
  <2> QED
    BY <1>1, <2>1 DEF FsInv, TreeInv, Children
<1>5. TreeFacts
  BY TreeIs
<1>6. ASSUME NEW i \in DOMAIN names, NEW j \in DOMAIN names, names[i] = names[j] PROVE i = j
  <2>1. i \in DOMAIN list /\ j \in DOMAIN list
    BY <1>3
  <2>2. PICK s \in Seq(STRING) : s = heap[list[i]].name /\ s # <<>> /\ Front(s) = path
    BY <1>4, <2>1, EntryFacts
  <2>3. PICK t \in Seq(STRING) : t = heap[list[j]].name /\ t # <<>> /\ Front(t) = path
    BY <1>4, <2>1, EntryFacts
  <2>4. Last(s) = Last(t)
    BY <1>3, <1>6, <2>1, <2>2, <2>3
  <2>5. s = t
    BY <2>2, <2>3, <2>4, SameFront
  <2>6. list[i] = list[j]
    BY <1>4, <2>1, <2>2, <2>3, <2>5 DEF FsInv, TreeInv
  <2>7. Once(list)
    BY <1>1, <1>2 DEF FsInv, TreeInv, Children
  <2> QED
    BY <2>1, <2>6, <2>7 DEF Once
<1>7. PICK below : below = {q \in DOMAIN Tree : q # <<>> /\ Front(q) = path}
  OBVIOUS
<1>8. ASSUME NEW i \in DOMAIN list PROVE names[i] \in {Last(q) : q \in below}
  <2>1. heap[list[i]].name \in below
    BY <1>4, <1>5, <1>7 DEF TreeFacts
  <2> QED
    BY <1>3, <2>1
<1>9. ASSUME NEW q \in below PROVE \E i \in DOMAIN names : names[i] = Last(q)
  <2>1. PICK e \in Listed : heap[e].name = q
    BY <1>5, <1>7 DEF TreeFacts
  <2>2. q # <<>> /\ Front(q) = path
    BY <1>7
  <2>3. /\ heap[e].parent \in Listed /\ e \in ToSet(heap[heap[e].parent].dirent)
        /\ heap[heap[e].parent].name = path
    BY <2>1, <2>2, ParentFacts
  <2>4. heap[e].parent = d
    BY <1>1, <2>3 DEF FsInv, TreeInv
  <2>5. PICK i \in DOMAIN list : list[i] = e
    BY <1>2, <2>3, <2>4 DEF ToSet
  <2> QED
    BY <1>3, <2>1, <2>5
<1>10. ToSet(names) = {Last(q) : q \in below}
  <2>1. DOMAIN names = DOMAIN list
    BY <1>3
  <2>2. \A x \in ToSet(names) : x \in {Last(q) : q \in below}
    BY <1>8, <2>1 DEF ToSet
  <2>3. \A x \in {Last(q) : q \in below} : x \in ToSet(names)
    BY <1>9 DEF ToSet
  <2> QED
    BY <2>2, <2>3
<1> QED
  BY <1>6, <1>7, <1>10

\* A sum is the number of things that are counted.

\* How a sum over the numbers f of S is formed: h is the sum of each part.
SumRule(f, S, h) ==
  h = [s \in SUBSET S |->
         IF s = {} THEN 0 ELSE f[CHOOSE x \in s : TRUE] + h[s \ {CHOOSE x \in s : TRUE}]]

LEMMA SumIs ==
  ASSUME NEW S, IsFiniteSet(S), NEW f, NEW g, SumRule(f, S, g)
  PROVE  SumFunctionOnSet(f, S) = g[S]
<1>1. PICK h : h = CHOOSE k : SumRule(f, S, k)
  OBVIOUS
<1>2. SumFunctionOnSet(f, S) = h[S]
  BY <1>1 DEF SumFunctionOnSet, FoldFunctionOnSet, MapThenFoldSet, SumRule
<1>3. SumRule(f, S, h)
  BY <1>1
<1>4. PICK bad : bad = {s \in SUBSET S : h[s] # g[s]}
  OBVIOUS
<1>5. ASSUME bad # {} PROVE FALSE
  <2>1. PICK sizes : sizes = {Cardinality(s) : s \in bad}
    OBVIOUS
  <2>2. \A s \in bad : s \in SUBSET S /\ IsFiniteSet(s) /\ Cardinality(s) \in Nat
    BY <1>4, FS_Subset, FS_CardinalityType
  <2>3. sizes \in SUBSET Nat /\ sizes # {}
    BY <1>5, <2>1, <2>2
  <2>4. PICK m \in sizes : \A k \in sizes : m <= k
    BY <2>3, SmallestOf
  <2>5. PICK s \in bad : m = Cardinality(s)
    BY <2>1
  <2>6. s # {}
    BY <1>3, <1>4, SumRule(f, S, g) DEF SumRule
  <2>7. PICK x \in s : x = CHOOSE y \in s : TRUE
    BY <2>6
  <2>8. s \ {x} \in SUBSET S /\ Cardinality(s \ {x}) = Cardinality(s) - 1
    BY <2>2, FS_RemoveElement
  <2>9. s \ {x} \notin bad
    <3>1. Cardinality(s \ {x}) \notin sizes
      BY <2>2, <2>3, <2>4, <2>5, <2>8
    <3> QED
      BY <2>1, <3>1
  <2>10. h[s \ {x}] = g[s \ {x}]
    BY <1>4, <2>8, <2>9
  <2>11. h[s] = f[x] + h[s \ {x}]
    BY <1>3, <2>2, <2>6, <2>7 DEF SumRule
  <2>12. g[s] = f[x] + g[s \ {x}]
    BY <2>2, <2>6, <2>7 DEF SumRule
  <2> QED
    BY <1>4, <2>10, <2>11, <2>12
<1>6. S \notin bad
  BY <1>5
<1> QED
  BY <1>2, <1>4, <1>6

\* The sum of the sizes of sets that have nothing in common is the size of all.
SizesOf(f, I, B) ==
  /\ IsFiniteSet(I) /\ \A i \in I : IsFiniteSet(B[i]) /\ f[i] = Cardinality(B[i])
  /\ \A i, j \in I : i # j => B[i] \cap B[j] = {}

LEMMA SumOfSizes ==
  ASSUME NEW f, NEW I, NEW B, SizesOf(f, I, B)
  PROVE  SumFunctionOnSet(f, I) = Cardinality(UNION {B[i] : i \in I})
<1> SUFFICES ASSUME IsFiniteSet(I), \A i \in I : IsFiniteSet(B[i]) /\ f[i] = Cardinality(B[i]),
                    \A i, j \in I : i # j => B[i] \cap B[j] = {}
             PROVE  SumFunctionOnSet(f, I) = Cardinality(UNION {B[i] : i \in I})
  BY DEF SizesOf
<1>1. PICK all : all = [s \in SUBSET I |-> UNION {B[i] : i \in s}]
  OBVIOUS
<1>2. \A s \in SUBSET I : IsFiniteSet(all[s])
  <2> SUFFICES ASSUME NEW s \in SUBSET I PROVE IsFiniteSet(all[s])
    OBVIOUS
  <2>1. PICK T : T = {B[i] : i \in s}
    OBVIOUS
  <2>2. IsFiniteSet(s)
    BY FS_Subset
  <2>3. PICK b : b = [i \in s |-> B[i]]
    OBVIOUS
  <2>4. b \in Surjection(s, T)
    BY <2>1, <2>3 DEF Surjection
  <2>5. IsFiniteSet(T)
    BY <2>2, <2>4, FS_Surjection
  <2>6. \A t \in T : IsFiniteSet(t)
    BY <2>1
  <2> QED
    BY <1>1, <2>1, <2>5, <2>6, FS_UNION
<1>3. ASSUME NEW s \in SUBSET I, NEW x \in s
      PROVE  Cardinality(all[s]) = f[x] + Cardinality(all[s \ {x}])
  <2>1. s \ {x} \in SUBSET I /\ x \in I
    OBVIOUS
  <2>2. all[s] = B[x] \cup all[s \ {x}]
    BY <1>1, <2>1
  <2>3. B[x] \cap all[s \ {x}] = {}
    BY <1>1, <2>1
  <2>4. IsFiniteSet(B[x]) /\ IsFiniteSet(all[s \ {x}])
    BY <1>2, <2>1
  <2>5. Cardinality(all[s]) = Cardinality(B[x]) + Cardinality(all[s \ {x}]) - Cardinality({})
    <3>1. PICK a : a = B[x]
      OBVIOUS
    <3>2. PICK b : b = all[s \ {x}]
      OBVIOUS
    <3>3. IsFiniteSet(a) /\ IsFiniteSet(b)
      BY <2>4, <3>1, <3>2
    <3>4. Cardinality(a \cup b) = Cardinality(a) + Cardinality(b) - Cardinality(a \cap b)
      BY <3>3, FS_Union
    <3>5. all[s] = a \cup b /\ a \cap b = {}
      BY <2>2, <2>3, <3>1, <3>2
    <3> QED
      BY <3>1, <3>2, <3>4, <3>5
  <2>6. Cardinality(B[x]) \in Nat /\ Cardinality(all[s \ {x}]) \in Nat /\ Cardinality({}) = 0
    BY <2>4, FS_CardinalityType, FS_EmptySet
  <2> QED
    BY <2>1, <2>5, <2>6
<1>4. PICK g : g = [s \in SUBSET I |-> Cardinality(all[s])]
  OBVIOUS
<1>5. SumRule(f, I, g)
  <2>1. ASSUME NEW s \in SUBSET I
        PROVE  g[s] = IF s = {} THEN 0 ELSE f[CHOOSE x \in s : TRUE] + g[s \ {CHOOSE x \in s : TRUE}]
    <3>1. CASE s = {}
      <4>1. all[s] = {}
        BY <1>1, <3>1
      <4> QED
        BY <1>4, <3>1, <4>1, FS_EmptySet
    <3>2. CASE s # {}
      <4>1. PICK x \in s : x = CHOOSE y \in s : TRUE
        BY <3>2
      <4>2. s \ {x} \in SUBSET I
        OBVIOUS
      <4>3. g[s] = f[x] + g[s \ {x}]
        BY <1>3, <1>4, <4>2
      <4> QED
        BY <3>2, <4>1, <4>3
    <3> QED
      BY <3>1, <3>2
  <2> QED
    BY <1>4, <2>1 DEF SumRule
<1>6. I \in SUBSET I
  OBVIOUS
<1>7. SumFunctionOnSet(f, I) = g[I]
  BY <1>5, SumIs
<1> QED
  BY <1>1, <1>2, <1>4, <1>6, <1>7

\* The bytes of an entry, each known by its place, and all of those below one.
BytesOf(e)    == {e} \X (1..Len(heap[e].content))
BytesUnder(e) == UNION {BytesOf(x) : x \in Under(e)}

LEMMA BytesAreCounted ==
  ASSUME FsConstants, FsInv, NEW e \in DOMAIN heap
  PROVE  IsFiniteSet(BytesOf(e)) /\ Cardinality(BytesOf(e)) = Len(heap[e].content)
<1>1. PICK n \in Nat : n = Len(heap[e].content)
  <2>1. heap[e].content \in Seq(Bytes)
    BY EntryFacts
  <2> QED
    BY <2>1
<1>2. IsFiniteSet({e}) /\ Cardinality({e}) = 1
  BY FS_Singleton
<1>3. IsFiniteSet(1..n) /\ Cardinality(1..n) = n
  BY FS_Interval
<1>4. PICK one : one = {e}
  OBVIOUS
<1>5. PICK places : places = 1..n
  OBVIOUS
<1>6. IsFiniteSet(one \X places) /\ Cardinality(one \X places) = Cardinality(one) * Cardinality(places)
  BY <1>2, <1>3, <1>4, <1>5, FS_Product
<1>7. 1 * n = n
  OBVIOUS
<1>8. BytesOf(e) = one \X places
  BY <1>1, <1>4, <1>5 DEF BytesOf
<1> QED
  BY <1>1, <1>2, <1>3, <1>4, <1>5, <1>6, <1>7, <1>8

\* What is below an entry is finite, and so are its bytes.
LEMMA UnderIsFinite ==
  ASSUME FsConstants, FsInv, NEW e
  PROVE  IsFiniteSet(Under(e)) /\ IsFiniteSet(BytesUnder(e)) /\ IsFiniteSet(Listed)
<1>1. Len(allEntries) \in Nat /\ DOMAIN allEntries = 1..Len(allEntries)
  BY DEF FsInv, FsTypeOK
<1>2. IsFiniteSet(Listed)
  <2>1. PICK list : list = [i \in DOMAIN allEntries |-> allEntries[i]]
    OBVIOUS
  <2>2. list \in Surjection(1..Len(allEntries), Listed)
    BY <1>1, <2>1 DEF Surjection, Listed, ToSet
  <2>3. IsFiniteSet(1..Len(allEntries))
    BY <1>1, FS_Interval
  <2> QED
    BY <2>2, <2>3, FS_Surjection
<1>3. Under(e) \in SUBSET Listed
  BY DEF Under
<1>4. IsFiniteSet(Under(e))
  BY <1>2, <1>3, FS_Subset
<1>5. PICK sets : sets = {BytesOf(x) : x \in Under(e)}
  OBVIOUS
<1>6. PICK b : b = [x \in Under(e) |-> BytesOf(x)]
  OBVIOUS
<1>7. b \in Surjection(Under(e), sets)
  BY <1>5, <1>6 DEF Surjection
<1>8. IsFiniteSet(sets)
  BY <1>4, <1>7, FS_Surjection
<1>9. \A x \in Under(e) : x \in DOMAIN heap
  BY <1>3 DEF FsInv, TreeInv
<1>10. \A t \in sets : IsFiniteSet(t)
  BY <1>5, <1>9, BytesAreCounted
<1> QED
  BY <1>2, <1>4, <1>5, <1>8, <1>10, FS_UNION DEF BytesUnder

\* Nothing is below two children of a directory.
LEMMA ChildrenAreApart ==
  ASSUME FsConstants, FsInv, NEW d \in Listed,
         NEW i \in DOMAIN heap[d].dirent, NEW j \in DOMAIN heap[d].dirent, i # j
  PROVE  BytesUnder(heap[d].dirent[i]) \cap BytesUnder(heap[d].dirent[j]) = {}
<1>1. PICK a : a = heap[d].dirent[i]
  OBVIOUS
<1>2. PICK b : b = heap[d].dirent[j]
  OBVIOUS
<1>3. a \in ToSet(heap[d].dirent) /\ b \in ToSet(heap[d].dirent)
  BY <1>1, <1>2 DEF ToSet
<1>4. a # b
  BY <1>1, <1>2 DEF FsInv, TreeInv, Children, Once
<1>5. /\ a \in Listed /\ b \in Listed
      /\ Len(heap[a].name) = Len(heap[d].name) + 1 /\ Len(heap[b].name) = Len(heap[d].name) + 1
  BY <1>3, UnderFacts
<1>6. \A x \in Listed : x \in DOMAIN heap /\ heap[x].name \in Seq(STRING)
  BY EntryFacts DEF FsInv, TreeInv
<1>7. ASSUME NEW x \in Under(a), x \in Under(b) PROVE FALSE
  <2>1. PICK s \in Seq(STRING) : s = heap[a].name
    BY <1>5, <1>6
  <2>2. PICK t \in Seq(STRING) : t = heap[b].name
    BY <1>5, <1>6
  <2>3. PICK u \in Seq(STRING) : u = heap[x].name
    BY <1>6 DEF Under
  <2>4. IsPrefix(s, u) /\ IsPrefix(t, u)
    BY <1>7, <2>1, <2>2, <2>3 DEF Under
  <2>5. Len(s) <= Len(u) /\ \A k \in 1..Len(s) : s[k] = u[k]
    BY <2>4, PrefixIs
  <2>6. Len(t) <= Len(u) /\ \A k \in 1..Len(t) : t[k] = u[k]
    BY <2>4, PrefixIs
  <2>7. Len(s) = Len(t)
    BY <1>5, <2>1, <2>2
  <2>8. s = t
    BY <2>5, <2>6, <2>7, SeqEqual
  <2> QED
    BY <1>4, <1>5, <2>1, <2>2, <2>8 DEF FsInv, TreeInv
<1>8. ASSUME NEW p \in BytesUnder(a), p \in BytesUnder(b) PROVE FALSE
  <2>1. PICK x \in Under(a) : p \in BytesOf(x)
    BY DEF BytesUnder
  <2>2. PICK y \in Under(b) : p \in BytesOf(y)
    BY <1>8 DEF BytesUnder
  <2>3. x = p[1] /\ y = p[1]
    BY <2>1, <2>2 DEF BytesOf
  <2> QED
    BY <1>7, <2>2, <2>3
<1> QED
  BY <1>1, <1>2, <1>8

\* What size() makes of an entry when its children have the sizes f.
SizeFrom(f, e) ==
  IF heap[e].type = FILE_T THEN Len(heap[e].content)
  ELSE SumFunction([i \in DOMAIN heap[e].dirent |-> f[heap[e].dirent[i]]])
SizesOnce(f)     == [e \in DOMAIN heap |-> SizeFrom(f, e)]
ChildSizes(f, e) == \A c \in ToSet(heap[e].dirent) : f[c] = Cardinality(BytesUnder(c))

\* One step of size(): the bytes of a file, or those that its children have.
LEMMA SizeOnce ==
  ASSUME FsConstants, FsInv, NEW e \in Listed,
         NEW f, ChildSizes(f, e)
  PROVE  Cardinality(BytesUnder(e)) = SizeFrom(f, e)
<1>1. e \in DOMAIN heap /\ heap[e].type \in {DIR_T, FILE_T} /\ heap[e].dirent \in Seq(Address)
  <2>1. e \in DOMAIN heap
    BY DEF FsInv, TreeInv
  <2> QED
    BY <2>1, EntryFacts
<1>2. Under(e) = {e} \cup UNION {Under(c) : c \in ToSet(heap[e].dirent)}
  BY UnderFacts
<1>3. Shape(heap, Listed, e)
  BY <1>1 DEF FsInv, TreeInv
<1>4. CASE heap[e].type = FILE_T
  <2>1. heap[e].dirent = <<>>
    BY <1>3, <1>4 DEF Shape
  <2>2. ToSet(heap[e].dirent) = {}
    BY <2>1 DEF ToSet
  <2>3. BytesUnder(e) = BytesOf(e)
    BY <1>2, <2>2 DEF BytesUnder
  <2> QED
    BY <1>1, <1>4, <2>3, BytesAreCounted DEF SizeFrom
<1>5. CASE heap[e].type = DIR_T
  <2>1. heap[e].type # FILE_T
    BY <1>5 DEF DIR_T, FILE_T
  <2>2. heap[e].content = <<>>
    BY <1>3, <1>5 DEF Shape
  <2>3. BytesOf(e) = {}
    BY <2>2 DEF BytesOf
  <2>4. PICK list \in Seq(Address) : list = heap[e].dirent
    BY <1>1
  <2>5. PICK B : B = [i \in DOMAIN list |-> BytesUnder(list[i])]
    OBVIOUS
  <2>6. IsFiniteSet(DOMAIN list)
    <3>1. DOMAIN list = 1..Len(list) /\ Len(list) \in Nat
      OBVIOUS
    <3> QED
      BY <3>1, FS_Interval
  <2>7. \A i \in DOMAIN list : IsFiniteSet(B[i])
    BY <2>5, UnderIsFinite
  <2>8. \A i, j \in DOMAIN list : i # j => B[i] \cap B[j] = {}
    BY <2>4, <2>5, ChildrenAreApart
  <2>9. PICK sizes : sizes = [i \in DOMAIN list |-> f[list[i]]]
    OBVIOUS
  <2>10. \A i \in DOMAIN list : sizes[i] = Cardinality(B[i])
    BY <2>4, <2>5, <2>9 DEF ToSet, ChildSizes
  <2>11. SumFunctionOnSet(sizes, DOMAIN list) = Cardinality(UNION {B[i] : i \in DOMAIN list})
    <3>1. SizesOf(sizes, DOMAIN list, B)
      BY <2>6, <2>7, <2>8, <2>10 DEF SizesOf
    <3> QED
      BY <3>1, SumOfSizes
  <2>12. SumFunction(sizes) = SumFunctionOnSet(sizes, DOMAIN list)
    BY <2>9 DEF SumFunction
  <2>13. BytesUnder(e) = UNION {B[i] : i \in DOMAIN list}
    <3>1. ASSUME NEW p \in BytesUnder(e) PROVE \E i \in DOMAIN list : p \in B[i]
      <4>1. PICK x \in Under(e) : p \in BytesOf(x)
        BY DEF BytesUnder
      <4>2. PICK c \in ToSet(list) : x \in Under(c)
        BY <1>2, <2>3, <2>4, <4>1
      <4>3. p \in BytesUnder(c)
        BY <4>1, <4>2 DEF BytesUnder
      <4> QED
        BY <2>5, <4>2, <4>3 DEF ToSet
    <3>2. ASSUME NEW i \in DOMAIN list, NEW p \in B[i] PROVE p \in BytesUnder(e)
      <4>1. PICK x \in Under(list[i]) : p \in BytesOf(x)
        BY <2>5 DEF BytesUnder
      <4>2. list[i] \in ToSet(heap[e].dirent)
        BY <2>4 DEF ToSet
      <4>3. x \in Under(e)
        BY <1>2, <4>2
      <4> QED
        BY <4>1, <4>3 DEF BytesUnder
    <3> QED
      BY <3>1, <3>2
  <2> QED
    BY <2>1, <2>4, <2>9, <2>11, <2>12, <2>13 DEF SizeFrom
<1> QED
  BY <1>1, <1>4, <1>5

\* What size() adds up are the bytes of all the files below.
LEMMA SizeIs ==
  ASSUME FsConstants, FsInv, NEW ent \in Listed
  PROVE  Size(ent) = Cardinality(BytesUnder(ent))
<1>1. PICK g : g = [e \in DOMAIN heap |->
                      IF e \in Listed THEN Cardinality(BytesUnder(e))
                      ELSE IF heap[e].type = FILE_T THEN Len(heap[e].content) ELSE SumFunction(<<>>)]
  OBVIOUS
<1>2. g = SizesOnce(g)
  <2>1. ASSUME NEW e \in DOMAIN heap
        PROVE  g[e] = SizeFrom(g, e)
    <3>1. CASE e \in Listed
      <4>1. ChildSizes(g, e)
        BY <1>1, <3>1, UnderFacts DEF FsInv, TreeInv, ChildSizes
      <4> QED
        BY <1>1, <3>1, <4>1, SizeOnce
    <3>2. CASE e \notin Listed
      <4>1. heap[e].dirent = <<>>
        BY <3>2 DEF FsInv, TreeInv, Shape
      <4>2. PICK sizes : sizes = [i \in DOMAIN heap[e].dirent |-> g[heap[e].dirent[i]]]
        OBVIOUS
      <4>3. sizes = <<>>
        BY <4>1, <4>2
      <4> QED
        BY <1>1, <3>2, <4>2, <4>3 DEF SizeFrom
    <3> QED
      BY <3>1, <3>2
  <2> QED
    BY <1>1, <2>1 DEF SizesOnce
<1>3. PICK f : f = CHOOSE h : h = SizesOnce(h)
  OBVIOUS
<1>4. Size(ent) = f[ent]
  BY <1>3 DEF Size, SizesOnce, SizeFrom
<1>5. f = SizesOnce(f)
  BY <1>2, <1>3
<1>6. PICK bad : bad = {e \in Listed : f[e] # Cardinality(BytesUnder(e))}
  OBVIOUS
<1>7. SUFFICES ASSUME bad # {} PROVE FALSE
  BY <1>4, <1>6
<1>8. PICK e \in bad : \A c \in bad : Len(heap[c].name) <= Len(heap[e].name)
  <2>1. PICK bound \in Nat : \A x \in Listed : Len(heap[x].name) <= bound
    BY NamesHaveBound
  <2>2. PICK lengths : lengths = {Len(heap[x].name) : x \in bad}
    OBVIOUS
  <2>3. \A x \in bad : Len(heap[x].name) \in Nat /\ Len(heap[x].name) <= bound
    BY <1>6, <2>1, EntryFacts DEF FsInv, TreeInv
  <2>4. lengths \in SUBSET Nat /\ lengths # {} /\ \A k \in lengths : k <= bound
    BY <1>7, <2>2, <2>3
  <2>5. PICK m \in lengths : \A k \in lengths : k <= m
    BY <2>4, LargestOf
  <2> QED
    BY <2>2, <2>5
<1>9. e \in Listed /\ e \in DOMAIN heap /\ Len(heap[e].name) \in Nat
  BY <1>6, EntryFacts DEF FsInv, TreeInv
<1>10. ChildSizes(f, e)
  <2>1. \A c \in ToSet(heap[e].dirent) : c \in Listed /\ Len(heap[c].name) = Len(heap[e].name) + 1
    BY <1>9, UnderFacts
  <2> QED
    BY <1>6, <1>8, <1>9, <2>1 DEF ChildSizes
<1>11. f[e] = SizeFrom(f, e)
  BY <1>5, <1>9 DEF SizesOnce
<1>12. f[e] = Cardinality(BytesUnder(e))
  BY <1>9, <1>10, <1>11, SizeOnce
<1> QED
  BY <1>6, <1>12

\* The sum over the files of the tree below a directory is what is below its entry.
LEMMA BelowAddsUp ==
  ASSUME FsConstants, FsInv, NEW p \in DOMAIN Tree, Tree[p].type = DIR_T,
         NEW below, below = {q \in DOMAIN Tree : IsStrictPrefix(p, q) /\ Tree[q].type = FILE_T}
  PROVE  SumFunction([q \in below |-> Len(Tree[q].content)]) = Cardinality(BytesUnder(Find(p)))
<1>1. PICK d : /\ d = Find(p) /\ d \in Listed /\ d \in DOMAIN heap /\ heap[d].name = p
               /\ heap[d].type = DIR_T
  <2>1. Looked(p)
    BY LookupIs
  <2>2. Find(p) # None
    BY <2>1 DEF Looked
  <2>3. Tree[p].type = heap[Find(p)].type
    BY <2>1, <2>2 DEF Looked
  <2> QED
    BY <2>1, <2>2, <2>3 DEF Looked
<1>2. TreeFacts
  BY TreeIs
<1>3. PICK found : found = [q \in below |-> Find(q)]
  OBVIOUS
<1>4. \A q \in below : /\ found[q] \in Listed /\ found[q] \in DOMAIN heap /\ heap[found[q]].name = q
                       /\ Tree[q].content = heap[found[q]].content
  <2> SUFFICES ASSUME NEW q \in below
      PROVE /\ found[q] \in Listed /\ found[q] \in DOMAIN heap /\ heap[found[q]].name = q
            /\ Tree[q].content = heap[found[q]].content
    OBVIOUS
  <2>1. Looked(q)
    BY LookupIs
  <2> QED
    BY <1>3, <2>1 DEF Looked
<1>5. PICK B : B = [q \in below |-> BytesOf(found[q])]
  OBVIOUS
<1>6. PICK f : f = [q \in below |-> Len(Tree[q].content)]
  OBVIOUS
<1>7. IsFiniteSet(below)
  <2>1. PICK names : names = [e \in Listed |-> heap[e].name]
    OBVIOUS
  <2>2. PICK paths : paths = DOMAIN Tree
    OBVIOUS
  <2>3. names \in Surjection(Listed, paths)
    BY <1>2, <2>1, <2>2 DEF Surjection, TreeFacts
  <2>4. IsFiniteSet(paths)
    BY <2>3, UnderIsFinite, FS_Surjection
  <2>5. below \in SUBSET paths
    BY <2>2
  <2> QED
    BY <2>4, <2>5, FS_Subset
<1>8. \A q \in below : IsFiniteSet(B[q]) /\ f[q] = Cardinality(B[q])
  BY <1>4, <1>5, <1>6, BytesAreCounted
<1>9. \A q, r \in below : q # r => B[q] \cap B[r] = {}
  <2> SUFFICES ASSUME NEW q \in below, NEW r \in below, NEW b \in B[q], b \in B[r] PROVE q = r
    OBVIOUS
  <2>1. found[q] = b[1] /\ found[r] = b[1]
    BY <1>5 DEF BytesOf
  <2> QED
    BY <1>4, <2>1
<1>10. SumFunctionOnSet(f, below) = Cardinality(UNION {B[q] : q \in below})
  <2>1. SizesOf(f, below, B)
    BY <1>7, <1>8, <1>9 DEF SizesOf
  <2> QED
    BY <2>1, SumOfSizes
<1>11. SumFunction(f) = SumFunctionOnSet(f, below)
  BY <1>6 DEF SumFunction
<1>12. BytesUnder(d) = UNION {B[q] : q \in below}
  <2>1. ASSUME NEW b \in BytesUnder(d) PROVE \E q \in below : b \in B[q]
    <3>1. PICK x \in Under(d) : b \in BytesOf(x)
      BY DEF BytesUnder
    <3>2. x \in Listed /\ x \in DOMAIN heap /\ IsPrefix(p, heap[x].name)
      BY <1>1 DEF Under, FsInv, TreeInv
    <3>3. heap[x].content # <<>>
      BY <3>1 DEF BytesOf
    <3>4. heap[x].type = FILE_T
      BY <3>2, <3>3, EntryFacts DEF FsInv, TreeInv, Shape
    <3>5. p # heap[x].name
      <4>1. x # d
        BY <1>1, <3>4 DEF DIR_T, FILE_T
      <4> QED
        BY <1>1, <3>2, <4>1 DEF FsInv, TreeInv
    <3>6. heap[x].name \in DOMAIN Tree /\ Tree[heap[x].name].type = FILE_T
      <4>1. PICK item : item = Tree[heap[x].name]
        OBVIOUS
      <4>2. item = [type |-> heap[x].type, content |-> heap[x].content]
        BY <1>2, <3>2, <4>1 DEF TreeFacts
      <4>3. heap[x].name \in DOMAIN Tree
        BY <1>2, <3>2 DEF TreeFacts
      <4> QED
        BY <3>4, <4>1, <4>2, <4>3
    <3>7. heap[x].name \in below
      BY <3>2, <3>5, <3>6 DEF IsStrictPrefix
    <3>8. found[heap[x].name] = x
      BY <1>4, <3>2, <3>7 DEF FsInv, TreeInv
    <3> QED
      BY <1>5, <3>1, <3>7, <3>8
  <2>2. ASSUME NEW q \in below, NEW b \in B[q] PROVE b \in BytesUnder(d)
    <3>1. IsPrefix(p, q)
      BY DEF IsStrictPrefix
    <3>2. found[q] \in Under(d)
      BY <1>1, <1>4, <3>1 DEF Under
    <3> QED
      BY <1>5, <3>2 DEF BytesUnder
  <2> QED
    BY <2>1, <2>2
<1> QED
  BY <1>1, <1>6, <1>10, <1>11, <1>12

\* getattr() of a path gives the length of a file, and of a directory that of
\* all the files of the tree below it.
LEMMA SizesAre == FsConstants /\ FsInv => SizesAddUp
<1> SUFFICES ASSUME FsConstants, FsInv, NEW p \in Paths \cup TreePaths
    PROVE IF p \notin DOMAIN Tree THEN getattr(p) = <<"ENOENT">>
          ELSE IF Tree[p].type = FILE_T THEN getattr(p) = <<FILE_T, Len(Tree[p].content)>>
          ELSE LET below == {q \in DOMAIN Tree : IsStrictPrefix(p, q) /\ Tree[q].type = FILE_T} IN
               getattr(p) = <<DIR_T, SumFunction([q \in below |-> Len(Tree[q].content)])>>
  BY DEF SizesAddUp
<1>1. Looked(p)
  BY LookupIs
<1>2. CASE p \notin DOMAIN Tree
  BY <1>1, <1>2 DEF Looked, getattr
<1>3. CASE p \in DOMAIN Tree
  <2>1. PICK f : /\ f = Find(p) /\ f # None /\ f \in Listed /\ f \in DOMAIN heap
                 /\ Tree[p] = [type |-> heap[f].type, content |-> heap[f].content]
                 /\ heap[f].type \in {DIR_T, FILE_T}
    BY <1>1, <1>3 DEF Looked
  <2>2. getattr(p) = <<heap[f].type, Size(f)>>
    BY <2>1 DEF getattr
  <2>3. Size(f) = Cardinality(BytesUnder(f))
    BY <2>1, SizeIs
  <2>4. CASE heap[f].type = FILE_T
    <3>1. \A c \in ToSet(heap[f].dirent) : FALSE
      BY <2>1, <2>4 DEF FsInv, TreeInv, Shape, ToSet
    <3>2. PICK none : none = [e \in DOMAIN heap |-> 0]
      OBVIOUS
    <3>3. ChildSizes(none, f)
      BY <3>1 DEF ChildSizes
    <3>4. Cardinality(BytesUnder(f)) = SizeFrom(none, f)
      BY <2>1, <3>3, SizeOnce
    <3>5. Size(f) = Len(heap[f].content)
      BY <2>3, <2>4, <3>4 DEF SizeFrom
    <3> QED
      BY <1>3, <2>1, <2>2, <2>4, <3>5
  <2>5. CASE heap[f].type = DIR_T
    <3>1. PICK below : below = {q \in DOMAIN Tree : IsStrictPrefix(p, q) /\ Tree[q].type = FILE_T}
      OBVIOUS
    <3>2. Tree[p].type = DIR_T /\ Tree[p].type # FILE_T
      BY <2>1, <2>5 DEF DIR_T, FILE_T
    <3>3. PICK sum : sum = SumFunction([q \in below |-> Len(Tree[q].content)])
      OBVIOUS
    <3>4. sum = Cardinality(BytesUnder(Find(p)))
      BY <1>3, <3>1, <3>2, <3>3, BelowAddsUp
    <3>5. getattr(p) = <<DIR_T, sum>>
      BY <2>1, <2>2, <2>3, <2>5, <3>4
    <3> QED
      BY <1>3, <3>1, <3>2, <3>3, <3>5
  <2> QED
    BY <2>1, <2>4, <2>5
<1> QED
  BY <1>2, <1>3

\* getattr() gives each entry its exact size, whatever was written, truncated,
\* made or removed before: a file's is its length, and a directory's, which the
\* code adds up by going down its children, that of the files of the tree below.
THEOREM SizesStayExact == ASSUME FsConstants PROVE FsSpec => []SizesAddUp
<1>1. FsInv => SizesAddUp
  BY SizesAre
<1> QED
  BY <1>1, InvariantHolds, PTL

\* A path that a handler looks up, and what it reads or lists there, is what the
\* tree of the lists dirent has: a handler goes through allEntries and never
\* misses an entry of the tree, nor finds one that is not in it.
THEOREM HandlersSeeTree == ASSUME FsConstants PROVE FsSpec => []ReadsSeeTree
<1>1. FsInv => ReadsSeeTree
  <2> SUFFICES ASSUME FsInv, NEW p \in Paths \cup TreePaths
      PROVE IF p \notin DOMAIN Tree
            THEN Find(p) = None /\ readdir(p) = <<"ENOENT">> /\ read(p, 1, 0) = <<"ENOENT">>
            ELSE /\ Find(p) # None /\ heap[Find(p)].type = Tree[p].type
                 /\ IF Tree[p].type = DIR_T
                    THEN LET names == readdir(p) IN
                         /\ read(p, 1, 0) = <<"EINVAL">>
                         /\ ToSet(names) = {Last(q) : q \in {q \in DOMAIN Tree : q # <<>> /\ Front(q) = p}}
                         /\ \A i, j \in DOMAIN names : names[i] = names[j] => i = j
                    ELSE \A n, offset \in Sizes :
                           LET bytes == read(p, n, offset) IN
                           /\ bytes = SubSeq(Tree[p].content, offset + 1, offset + Len(bytes))
                           /\ Len(bytes) = n \/ (Len(bytes) < n /\ offset + Len(bytes) >= Len(Tree[p].content))
    BY DEF ReadsSeeTree
  <2>1. Looked(p)
    BY LookupIs
  <2>2. CASE p \notin DOMAIN Tree
    <3>1. Find(p) = None
      BY <2>1, <2>2 DEF Looked
    <3> QED
      BY <2>2, <3>1 DEF readdir, read
  <2>3. CASE p \in DOMAIN Tree
    <3>1. PICK f : f = Find(p) /\ f # None /\ f \in DOMAIN heap
                   /\ Tree[p] = [type |-> heap[f].type, content |-> heap[f].content]
                   /\ heap[f].type \in {DIR_T, FILE_T}
      BY <2>1, <2>3 DEF Looked
    <3>2. CASE heap[f].type = DIR_T
      <4>1. Tree[p].type = DIR_T /\ heap[Find(p)].type = Tree[p].type /\ Find(p) # None
        BY <3>1, <3>2
      <4>2. read(p, 1, 0) = <<"EINVAL">>
        BY <4>1 DEF read
      <4>3. PICK names : names = readdir(p)
        OBVIOUS
      <4>4. /\ ToSet(names) = {Last(q) : q \in {q \in DOMAIN Tree : q # <<>> /\ Front(q) = p}}
            /\ \A i, j \in DOMAIN names : names[i] = names[j] => i = j
        BY <4>1, <4>3, ReaddirIs
      <4> QED
        BY <2>3, <4>1, <4>2, <4>3, <4>4
    <3>3. CASE heap[f].type = FILE_T
      <4>1. /\ Tree[p].type = FILE_T /\ Tree[p].type # DIR_T
            /\ heap[Find(p)].type = Tree[p].type /\ Find(p) # None
        BY <3>1, <3>3 DEF DIR_T, FILE_T
      <4>2. PICK content \in Seq(Bytes) : content = heap[f].content /\ content = Tree[p].content
        BY <3>1, EntryFacts
      <4>3. ASSUME NEW n \in Sizes, NEW offset \in Sizes, NEW bytes, bytes = read(p, n, offset)
            PROVE  /\ bytes = SubSeq(content, offset + 1, offset + Len(bytes))
                   /\ Len(bytes) = n \/ (Len(bytes) < n /\ offset + Len(bytes) >= Len(content))
        <5>1. n \in Nat /\ offset \in Nat
          BY DEF FsConstants
        <5>2. PICK k : k = BytesRead(Len(content), offset, n)
          OBVIOUS
        <5>3. bytes = Copied(content, offset, k)
          BY <3>1, <4>1, <4>2, <4>3, <5>2 DEF read, Copied
        <5>4. /\ k \in Nat /\ (k = 0 \/ offset + k <= Len(content))
              /\ k = n \/ (k < n /\ offset + k >= Len(content))
          <6>1. Len(content) \in Nat
            OBVIOUS
          <6> QED
            BY <5>1, <5>2, <6>1, CountIs
        <5>5. bytes = SubSeq(content, offset + 1, offset + k) /\ Len(bytes) = k
          BY <5>1, <5>3, <5>4, CopiedIs
        <5> QED
          BY <5>4, <5>5
      <4> QED
        BY <2>3, <4>1, <4>2, <4>3
    <3> QED
      BY <3>1, <3>2, <3>3
  <2> QED
    BY <2>2, <2>3
<1> QED
  BY <1>1, InvariantHolds, PTL

\* However the handlers are called, the two records of the tree agree, no path is
\* there twice, and every handler that looks, lists, reads or measures answers
\* for that tree.
THEOREM TreeStaysWhole == ASSUME FsConstants PROVE FsSpec => []FilesAreTree
<1>1. ListIsTree /\ NamesAreUnique /\ ReadsSeeTree /\ SizesAddUp => FilesAreTree
  BY DEF FilesAreTree
<1> QED
  BY <1>1, ListStaysTree, NamesStayUnique, HandlersSeeTree, SizesStayExact, PTL
===============================================================================
