----------------------------- MODULE MemOSProofs ------------------------------
(***************************************************************************)
(* Proofs about the kernel of MemOS, for every number of processes, every  *)
(* size of memory, every width of a reference count, every set of boot     *)
(* commands and every set of events: types (TypeCorrect), and that private *)
(* frames are private (FramesAreExclusive).                                *)
(*                                                                         *)
(* The argument: a frame's owner field is its process as long as the       *)
(* process can write it or has its table in it (Owned).  Frames come from  *)
(* find_free_physic_page, which returns frames without an owner, each of   *)
(* them once; they are released only by the exit of their owner, because   *)
(* release_page compares the owner.  Reference counts play no part, so it  *)
(* does not matter that they are wrong at times.                           *)
(*                                                                         *)
(* They do in the second half, about the fork programs (ForkPrograms).  A  *)
(* frame is the code of the first process, whose count is anything, or it  *)
(* is free and not counted, or counted once and in the table of its owner  *)
(* (Counted): a fork that fails gives back everything but what it added to *)
(* the count of the code.  That the checks of virtual_memory_check() hold  *)
(* (KernelIsConsistent), that nobody reads what another writes             *)
(* (WritersAreAlone) and that no frame is lost (NothingLeaks) follow.      *)
(***************************************************************************)
EXTENDS MemOS, FiniteSetTheorems, WellFoundedInduction, TLAPS

USE NProcAssumption, MemoryAssumption

\* Exclusive, one process at a time.
Owned == \A p \in Active : \A x \in Place :
           Private(p, x) => pageinfo[FrameAt(p, x)].owner = p
Apart == \A p \in Active : \A x, y \in Place :
           /\ Private(p, x) /\ Private(p, y) /\ FrameAt(p, x) = FrameAt(p, y)
           => x = y

IInv == TypeOK /\ Owned /\ Apart

-------------------------------------------------------------------------------
(* Numbers of frames and pages. *)

\* A refcount stays in its eight bits (the int8_t of physical_pageinfo).
LEMMA WrapType == ASSUME NEW n \in Int PROVE Wrap(n) \in RefCount
  BY DEF Wrap, RefCount

\* What the loops over pages count is a number.
LEMMA CountType ==
  ASSUME NEW S \in SUBSET VPage PROVE IsFiniteSet(S) /\ Cardinality(S) \in Nat
<1>1. IsFiniteSet(PSTART..(VTOP - 1))
  BY FS_Interval
<1> QED
  BY <1>1, FS_Subset, FS_CardinalityType DEF VPage

\* release_pagetable visits a frame a number of times.
LEMMA ReferencesType ==
  ASSUME NEW t \in PageTable, NEW g \in Frame PROVE References(t, g) \in Nat
<1>1. Cardinality({v \in VPage : t.map[v].pn = g}) \in Nat
  BY CountType
<1> QED
  BY <1>1 DEF References

\* copy_writable_page shares a frame a number of times.
LEMMA SharesType ==
  ASSUME NEW t, NEW g, NEW a PROVE Shares(t, g, a) \in Nat
<1> DEFINE S == {v \in Shared(t) : Reached(t, v) /\ t.map[v].pn = g /\ v > a}
<1>1. S \in SUBSET VPage
  BY DEF Shared
<1>2. Shares(t, g, a) = Cardinality(S)
  BY DEF Shares
<1> HIDE DEF S
<1> QED
  BY <1>1, <1>2, CountType

\* The i-th free frame, if there is one (find_free_physic_page).
LEMMA NthIsFree ==
  ASSUME NEW i, Found(i) PROVE IsNth(i, Nth(i)) /\ Nth(i) \in Free
  BY DEF Found, Nth, IsNth

\* find_free_physic_page does not return a frame twice.
LEMMA NthDiffers ==
  ASSUME NEW i, NEW j, Found(i), Found(j), i # j PROVE Nth(i) # Nth(j)
<1>1. \A g : IsNth(i, g) /\ IsNth(j, g) => i = j
  BY DEF IsNth
<1>2. IsNth(i, Nth(i)) /\ IsNth(j, Nth(j))
  BY NthIsFree
<1> QED
  BY <1>1, <1>2

\* Copies come after the two frames of the table, and each has its own turn.
LEMMA TurnsDiffer ==
  ASSUME NEW t, NEW v \in Copied(t), NEW w \in Copied(t)
  PROVE  /\ Turn(t, v) \in Nat /\ Turn(t, v) > 2
         /\ v # w => Turn(t, v) # Turn(t, w)
<1> DEFINE Upto(u) == {x \in Copied(t) : x <= u}
<1>1. Copied(t) \in SUBSET VPage /\ v \in Int /\ w \in Int
  BY DEF Copied, VPage
<1>2. \A u : Upto(u) \in SUBSET VPage
  BY <1>1
<1>3. \A u : IsFiniteSet(Upto(u)) /\ Cardinality(Upto(u)) \in Nat
  <2> HIDE DEF Upto
  <2> QED
    BY <1>2, CountType
<1>4. v \in Upto(v) /\ w \in Upto(w)
  BY <1>1
<1>5. Cardinality(Upto(v)) # 0
  BY <1>3, <1>4, FS_EmptySet
<1>6. ASSUME NEW x \in Copied(t), NEW y \in Copied(t), x < y
      PROVE  Cardinality(Upto(x)) # Cardinality(Upto(y))
  <2>1. x \in Int /\ y \in Int
    BY DEF Copied, VPage
  <2>2. Upto(x) \subseteq Upto(y)
    BY <1>1, <1>6, <2>1 DEF VPage
  <2>3. y \in Upto(y) /\ y \notin Upto(x)
    BY <1>6, <2>1
  <2> HIDE DEF Upto
  <2> QED
    BY <1>3, <2>2, <2>3, FS_Subset
<1>7. v # w => Cardinality(Upto(v)) # Cardinality(Upto(w))
  <2>1. CASE v < w
    BY <1>6, <2>1
  <2>2. CASE w < v
    BY <1>6, <2>2
  <2> QED
    BY <1>1, <2>1, <2>2
<1>8. \A u : Turn(t, u) = 2 + Cardinality(Upto(u))
  BY DEF Turn
<1> HIDE DEF Upto
<1> QED
  BY <1>3, <1>5, <1>7, <1>8

-------------------------------------------------------------------------------
(* What the kernel's helpers do to pageinfo. *)

Info == [owner : {PO_RESERVED, PO_FREE} \cup Pid, refcount : RefCount]

\* Releasing a table keeps the types, and leaves frames of others alone.
LEMMA ReleaseTableOthers ==
  ASSUME NEW info \in [Frame -> Info], NEW p \in Pid, NEW t \in PageTable
  PROVE  /\ ReleaseTable(info, p, t) \in [Frame -> Info]
         /\ \A g \in Frame : info[g].owner # p => ReleaseTable(info, p, t)[g] = info[g]
<1>1. ASSUME NEW g \in Frame PROVE ReleasePage(info[g], p, References(t, g)) \in Info
  <2>1. info[g] \in Info /\ References(t, g) \in Nat
    BY ReferencesType
  <2>2. /\ info[g] = [owner |-> info[g].owner, refcount |-> info[g].refcount]
        /\ info[g].owner \in {PO_RESERVED, PO_FREE} \cup Pid
        /\ info[g].refcount \in RefCount
    BY <2>1 DEF Info
  <2>3. CASE info[g].owner # p \/ info[g].refcount <= 0
    BY <2>1, <2>3 DEF ReleasePage
  <2>4. CASE /\ ~(info[g].owner # p \/ info[g].refcount <= 0)
             /\ info[g].refcount > References(t, g)
    <3>1. info[g].refcount - References(t, g) \in RefCount
      BY <2>1, <2>2, <2>4 DEF RefCount
    <3>2. ReleasePage(info[g], p, References(t, g))
            = [info[g] EXCEPT !.refcount = @ - References(t, g)]
      BY <2>4 DEF ReleasePage
    <3> QED
      BY <2>2, <3>1, <3>2 DEF Info
  <2>5. CASE /\ ~(info[g].owner # p \/ info[g].refcount <= 0)
             /\ ~(info[g].refcount > References(t, g))
    BY <2>5 DEF ReleasePage, Info, RefCount, PO_FREE
  <2> QED
    BY <2>3, <2>4, <2>5
<1> QED
  BY <1>1 DEF ReleaseTable, ReleasePage

\* The copying of a fork keeps the types; it takes free frames only, and leaves
\* the owners of the others alone.
LEMMA ForkedPageinfoOwners ==
  ASSUME pageinfo \in [Frame -> Info], NEW p \in Pid, NEW t \in PageTable
  PROVE  /\ ForkedPageinfo(p, t) \in [Frame -> Info]
         /\ \A g \in Frame : TakenAt(t, g) # {} => ForkedPageinfo(p, t)[g].owner = p
         /\ \A g \in Frame \ Free : ForkedPageinfo(p, t)[g].owner = pageinfo[g].owner
<1>1. \A g \in Frame : pageinfo[g].owner \in {PO_RESERVED, PO_FREE} \cup Pid
                       /\ pageinfo[g].refcount \in Int
  BY DEF Info, RefCount
<1>2. \A g \in Frame : \A a :
         /\ Wrap(pageinfo[g].refcount + Shares(t, g, a)) \in RefCount
         /\ Wrap(1 + Shares(t, g, a)) \in RefCount
  BY <1>1, SharesType, WrapType
<1>3. \A g : g \notin Free => TakenAt(t, g) = {}
  BY DEF TakenAt, IsNth
<1> QED
  BY <1>1, <1>2, <1>3 DEF ForkedPageinfo, Info

\* The child's table is in frames that were free, and so are its copies; each
\* frame is taken once, and marked as taken.
LEMMA ForkedTableFrames ==
  ASSUME NEW t \in PageTable, Found(1), Found(2), \A v \in Copied(t) : Reached(t, v),
         NEW v \in Copied(t), NEW w \in Copied(t)
  PROVE  /\ Nth(1) \in Free /\ Nth(2) \in Free /\ Nth(Turn(t, v)) \in Free
         /\ Nth(1) # Nth(2) /\ Nth(1) # Nth(Turn(t, v)) /\ Nth(2) # Nth(Turn(t, v))
         /\ v # w => Nth(Turn(t, v)) # Nth(Turn(t, w))
         /\ TakenAt(t, Nth(Turn(t, v))) # {}
<1>1. v \in Int /\ w \in Int
  BY DEF Copied, VPage
<1>2. Found(Turn(t, v)) /\ Found(Turn(t, w))
  BY <1>1 DEF Reached
<1>3. IsNth(Turn(t, v), Nth(Turn(t, v)))
  BY <1>2, NthIsFree
<1>4. v \in TakenAt(t, Nth(Turn(t, v)))
  BY <1>3 DEF TakenAt
<1> QED
  BY <1>2, <1>4, NthIsFree, NthDiffers, TurnsDiffer

-------------------------------------------------------------------------------
(* Types. *)

\* The first process after current that can run is an application's.
LEMMA ScheduleType ==
  ASSUME NEW st \in [Pid -> States], st[0] = "FREE", current \in Pid \ {0}, Schedule(st)
  PROVE  /\ current' \in Pid \ {0} /\ cpu' \in {"user", "idle"}
         /\ cpu' = "user" => st[current'] = "RUNNABLE"
  BY DEF Schedule

\* The state at the start of the applications is well typed.
LEMMA BootType ==
  ASSUME NEW n \in Boots
  PROVE  /\ BootState(n) \in [Pid -> States]
         /\ BootState(n)[0] = "FREE" /\ BootState(n)[1] = "RUNNABLE"
         /\ BootTables(n) \in [Pid -> PageTable]
         /\ BootPageinfo(n) \in [Frame -> Info]
<1>1. /\ n \in 1..(NPROC - 1) /\ 3 * n < PSTART /\ PSTART + n <= NPAGES
      /\ n \in Int /\ NPROC \in Int /\ PSTART \in Int /\ NPAGES \in Int /\ VTOP \in Int
      /\ 0 \in Pid /\ 1 \in Pid
  BY BootAssumption DEF Pid
<1>2. BootState(n) \in [Pid -> States] /\ BootState(n)[0] = "FREE"
        /\ BootState(n)[1] = "RUNNABLE"
  BY <1>1 DEF BootState, States, Pid
<1>3. Unmapped \in Mapping
  BY <1>1 DEF Unmapped, Mapping, Frame
<1>4. NoTable \in PageTable
  BY <1>1, <1>3 DEF NoTable, PageTable, Frame
<1>5. ASSUME NEW p \in 1..n PROVE BootTable(p) \in PageTable
  <2>1. 3 * p - 2 \in Frame /\ 3 * p - 1 \in Frame /\ 3 * p \in Frame
        /\ PSTART + p - 1 \in Frame
    BY <1>1 DEF Frame
  <2>2. \A v \in VPage : v = PSTART + p - 1 => [pn |-> v, perm |-> "ro"] \in Mapping
    BY <2>1 DEF Mapping
  <2>3. [pn |-> 3 * p, perm |-> "rw"] \in Mapping
    BY <2>1 DEF Mapping
  <2> QED
    BY <1>3, <2>1, <2>2, <2>3 DEF BootTable, PageTable
<1>6. BootTables(n) \in [Pid -> PageTable]
  BY <1>4, <1>5 DEF BootTables
<1>7. ASSUME NEW g \in Frame PROVE BootOwner(n, g) \in {PO_RESERVED, PO_FREE} \cup Pid
  <2>1. CASE g \in 1..(3 * n)
    <3>1. (g + 2) \div 3 \in 1..n
      BY <1>1, <2>1 DEF Frame
    <3> QED
      BY <1>1, <2>1, <3>1 DEF BootOwner, Pid, PO_RESERVED
  <2>2. CASE g \notin 1..(3 * n)
    BY <1>1, <2>2 DEF BootOwner, Pid, Frame
  <2> QED
    BY <2>1, <2>2
<1>8. 0 \in RefCount /\ 1 \in RefCount
  BY DEF RefCount
<1> QED
  BY <1>2, <1>6, <1>7, <1>8 DEF BootPageinfo, Info

\* A child's table maps frames.
LEMMA ForkedTableType ==
  ASSUME NEW t \in PageTable, Found(1), Found(2)
  PROVE  ForkedTable(t) \in PageTable
<1>1. Nth(1) \in Frame /\ Nth(2) \in Frame
  BY NthIsFree DEF Free
<1>2. ASSUME NEW v \in VPage, v \in Copied(t), Reached(t, v)
      PROVE  [pn |-> Nth(Turn(t, v)), perm |-> t.map[v].perm] \in Mapping
  <2>1. Found(Turn(t, v))
    BY <1>2 DEF Reached, VPage
  <2>2. Nth(Turn(t, v)) \in Frame
    BY <2>1, NthIsFree DEF Free
  <2>3. t.map[v].perm = "rw"
    BY <1>2 DEF Copied
  <2> QED
    BY <2>2, <2>3 DEF Mapping
<1>3. \A v \in VPage : t.map[v] \in Mapping
  BY DEF PageTable
<1> QED
  BY <1>1, <1>2, <1>3 DEF ForkedTable, PageTable

LEMMA TypeInit == Init => TypeOK
<1> SUFFICES ASSUME NEW n \in Boots, pstate = BootState(n), table = BootTables(n),
                    pageinfo = BootPageinfo(n), ret = 0, current = 1, cpu = "user"
             PROVE  TypeOK
  BY DEF Init
<1> QED
  BY BootType DEF TypeOK, Info, Pid

LEMMA TypeStep == TypeOK /\ [Next]_vars => TypeOK'
<1> SUFFICES ASSUME TypeOK, [Next]_vars PROVE TypeOK'
  OBVIOUS
<1> USE DEF Info
<1>1. /\ pstate \in [Pid -> States] /\ pstate[0] = "FREE"
      /\ table \in [Pid -> PageTable]
      /\ pageinfo \in [Frame -> Info]
      /\ current \in Pid \ {0} /\ 0 \in Pid
      /\ table[current] \in PageTable
  BY DEF TypeOK, Pid
<1>2. ASSUME NEW p \in Pid PROVE Taken(p) \in Info
  BY DEF Taken, RefCount
<1>3. NoTable \in PageTable
  BY DEF NoTable, PageTable, Unmapped, Mapping, Frame
<1>4. ASSUME Found(1), NEW p \in Pid
      PROVE  [pageinfo EXCEPT ![Nth(1)] = Taken(p)] \in [Frame -> Info]
  BY <1>1, <1>2
<1>5. CASE CheckFails
  BY <1>1, <1>5 DEF TypeOK, CheckFails, Panic
<1>6. CASE Getpid
  BY <1>1, <1>6 DEF TypeOK, Getpid, Return, Trap
<1>7. ASSUME NEW e, SwitchAway(e) PROVE TypeOK'
  BY <1>1, <1>7, ScheduleType DEF TypeOK, SwitchAway
<1>8. CASE SysPanic
  BY <1>1, <1>8 DEF TypeOK, SysPanic, Panic
<1>9. CASE PageFault
  <2>1. pstate' \in [Pid -> States] /\ pstate'[0] = "FREE"
    BY <1>1, <1>9 DEF PageFault, States
  <2>2. /\ current' \in Pid \ {0} /\ cpu' \in {"user", "idle"}
        /\ cpu' = "user" => pstate'[current'] = "RUNNABLE"
    BY <1>1, <1>9, <2>1, ScheduleType DEF PageFault
  <2> QED
    BY <1>1, <1>9, <2>1, <2>2 DEF TypeOK, PageFault
<1>10. CASE Exit
  <2>1. pstate' \in [Pid -> States] /\ pstate'[0] = "FREE"
    BY <1>1, <1>10 DEF Exit, States
  <2>2. /\ current' \in Pid \ {0} /\ cpu' \in {"user", "idle"}
        /\ cpu' = "user" => pstate'[current'] = "RUNNABLE"
    BY <1>1, <1>10, <2>1, ScheduleType DEF Exit
  <2>3. pageinfo' \in [Frame -> Info]
    BY <1>1, <1>10, ReleaseTableOthers DEF Exit
  <2>4. table' \in [Pid -> PageTable]
    BY <1>1, <1>3, <1>10 DEF Exit
  <2> QED
    BY <1>1, <1>10, <2>1, <2>2, <2>3, <2>4 DEF TypeOK, Exit
<1>11. CASE PageAlloc
  <2> PICK a \in (PSTART - 1)..VTOP :
        /\ Asks(a) /\ UNCHANGED pstate
        /\ \/ /\ Allocatable(a) /\ Found(1)
              /\ pageinfo' = [pageinfo EXCEPT ![Nth(1)] = Taken(current)]
              /\ table' = [table EXCEPT ![current].map[a] =
                                          [pn |-> Nth(1), perm |-> "rw"]]
              /\ Return(1)
           \/ /\ Allocatable(a) => ~Found(1)
              /\ Return(-1)
              /\ UNCHANGED <<table, pageinfo>>
    BY <1>11 DEF PageAlloc
  <2>1. CASE Return(-1) /\ UNCHANGED <<table, pageinfo>>
    BY <2>1 DEF TypeOK, Return
  <2>2. CASE /\ Allocatable(a) /\ Found(1)
             /\ pageinfo' = [pageinfo EXCEPT ![Nth(1)] = Taken(current)]
             /\ table' = [table EXCEPT ![current].map[a] =
                                         [pn |-> Nth(1), perm |-> "rw"]]
             /\ Return(1)
    <3>1. Nth(1) \in Frame
      BY <2>2, NthIsFree DEF Free
    <3>2. table' \in [Pid -> PageTable]
      BY <1>1, <2>2, <3>1 DEF PageTable, Mapping
    <3>3. pageinfo' \in [Frame -> Info]
      BY <1>1, <1>4, <2>2
    <3> QED
      BY <2>2, <3>2, <3>3 DEF TypeOK, Return
  <2> QED
    BY <2>1, <2>2
<1>12. CASE AllocUnaligned
  <2>1. pageinfo' \in [Frame -> Info]
    BY <1>1, <1>4, <1>12 DEF AllocUnaligned
  <2> QED
    BY <1>1, <1>12, <2>1 DEF TypeOK, AllocUnaligned, Panic
<1>13. CASE Fork
  <2>1. CASE NoSlot
    BY <2>1 DEF TypeOK, NoSlot, Return
  <2>2. ASSUME NEW i \in Pid, NoTableFrames(i) PROVE TypeOK'
    <3>1. pageinfo' \in [Frame -> Info]
      BY <1>1, <1>2, <2>2 DEF NoTableFrames
    <3> QED
      BY <1>1, <2>2, <3>1 DEF TypeOK, NoTableFrames, Panic
  <2>3. ASSUME NEW i \in Pid, NoPageFrame(i, table[current]) PROVE TypeOK'
    <3>1. pageinfo' \in [Frame -> Info]
      BY <1>1, <2>3, ForkedPageinfoOwners, ForkedTableType, ReleaseTableOthers
      DEF NoPageFrame, Undo
    <3> QED
      BY <2>3, <3>1 DEF TypeOK, NoPageFrame, Return
  <2>4. ASSUME NEW i \in Pid, NewChild(i, table[current]) PROVE TypeOK'
    <3>1. pageinfo' \in [Frame -> Info]
      BY <1>1, <2>4, ForkedPageinfoOwners DEF NewChild
    <3>2. ForkedTable(table[current]) \in PageTable
      BY <1>1, <2>4, ForkedTableType DEF NewChild
    <3>3. table' \in [Pid -> PageTable]
      BY <1>1, <2>4, <3>2 DEF NewChild
    <3>4. pstate' \in [Pid -> States] /\ pstate'[0] = "FREE" /\ i # 0
          /\ pstate'[current] = IF current = i THEN "RUNNABLE" ELSE pstate[current]
      BY <1>1, <2>4 DEF NewChild, FirstFree, States
    <3> QED
      BY <2>4, <3>1, <3>3, <3>4 DEF TypeOK, NewChild, Return
  <2> QED
    BY <1>13, <2>1, <2>2, <2>3, <2>4 DEF Fork
<1>14. CASE Reboot
  <2> PICK n \in Boots : /\ pstate' = BootState(n)
                         /\ table' = BootTables(n)
                         /\ pageinfo' = BootPageinfo(n)
    BY <1>14 DEF Reboot
  <2> QED
    BY <1>14, BootType DEF TypeOK, Reboot, Pid
<1>15. CASE UNCHANGED vars
  BY <1>15 DEF TypeOK, vars
<1> QED
  BY <1>5, <1>6, <1>7, <1>8, <1>9, <1>10, <1>11, <1>12, <1>13, <1>14, <1>15
  DEF Next, Yield, Timer

\* The types of the kernel's state, with slot 0 unused and only runnable
\* applications running (processes[], pageinfo[], run's assertion).
THEOREM TypeCorrect == Spec => []TypeOK
  BY TypeInit, TypeStep, PTL DEF Spec

-------------------------------------------------------------------------------
(* Private frames. *)

\* Exclusive, one process at a time, is Exclusive.
LEMMA OwnedIsExclusive == Owned /\ Apart => Exclusive
  BY DEF Owned, Apart, Exclusive

\* The frames of the boot are apart, in the order process_setup takes them.
LEMMA BootExclusive ==
  ASSUME NEW n \in Boots, pstate = BootState(n), table = BootTables(n),
         pageinfo = BootPageinfo(n)
  PROVE  Owned /\ Apart
<1>1. /\ n \in 1..(NPROC - 1) /\ 3 * n < PSTART /\ PSTART + n <= NPAGES
      /\ n \in Int /\ NPROC \in Int /\ PSTART \in Int /\ NPAGES \in Int /\ VTOP \in Int
  BY BootAssumption
<1>2. ASSUME NEW p \in Active PROVE p \in 1..n /\ p \in Pid /\ table[p] = BootTable(p)
  BY DEF Active, BootState, BootTables
<1>3. ASSUME NEW p \in 1..n, NEW x \in Place, Private(p, x), table[p] = BootTable(p)
      PROVE  FrameAt(p, x) = IF x = -1 THEN 3 * p - 2
                             ELSE IF x = -2 THEN 3 * p - 1 ELSE 3 * p
  <2>1. CASE x = -1
    BY <1>3, <2>1 DEF FrameAt, BootTable
  <2>2. CASE x = -2
    BY <1>3, <2>2 DEF FrameAt, BootTable
  <2>3. CASE x \in VPage
    <3>1. x \in Nat /\ x # -1 /\ x # -2
      BY <2>3 DEF VPage
    <3>2. table[p].map[x].perm = "rw"
      BY <1>3, <2>3 DEF Private
    <3>3. x = VTOP - 1 /\ table[p].map[x] = [pn |-> 3 * p, perm |-> "rw"]
      BY <1>3, <2>3, <3>2 DEF BootTable, Unmapped
    <3> QED
      BY <3>1, <3>3 DEF FrameAt
  <2> QED
    BY <2>1, <2>2, <2>3 DEF Place
<1>4. ASSUME NEW p \in 1..n, NEW x \in VPage, Private(p, x), table[p] = BootTable(p)
      PROVE  x = VTOP - 1
  BY <1>4 DEF Private, BootTable, Unmapped
<1>5. ASSUME NEW p \in 1..n, NEW g \in {3 * p - 2, 3 * p - 1, 3 * p}
      PROVE  pageinfo[g].owner = p
  <2>1. g \in 1..(3 * n) /\ g \in Frame /\ g # 0 /\ (g + 2) \div 3 = p
    BY <1>1, <1>5 DEF Frame
  <2>2. BootOwner(n, g) = p
    BY <1>1, <2>1 DEF BootOwner
  <2> QED
    BY <2>1, <2>2 DEF BootPageinfo
<1>6. Owned
  BY <1>2, <1>3, <1>5 DEF Owned
<1>7. ASSUME NEW p \in Active, NEW x \in Place, NEW y \in Place,
             Private(p, x), Private(p, y), FrameAt(p, x) = FrameAt(p, y)
      PROVE  x = y
  <2>1. p \in 1..n /\ table[p] = BootTable(p) /\ p \in Int
    BY <1>2
  <2>2. x \in {-1, -2} \/ x \in VPage
    BY DEF Place
  <2>3. y \in {-1, -2} \/ y \in VPage
    BY DEF Place
  <2>4. x \in Int /\ y \in Int
    BY DEF Place, VPage
  <2>5. FrameAt(p, x) = IF x = -1 THEN 3 * p - 2
                        ELSE IF x = -2 THEN 3 * p - 1 ELSE 3 * p
    BY <1>3, <1>7, <2>1
  <2>6. FrameAt(p, y) = IF y = -1 THEN 3 * p - 2
                        ELSE IF y = -2 THEN 3 * p - 1 ELSE 3 * p
    BY <1>3, <1>7, <2>1
  <2>7. x \in VPage => x = VTOP - 1
    BY <1>4, <1>7, <2>1
  <2>8. y \in VPage => y = VTOP - 1
    BY <1>4, <1>7, <2>1
  <2>9. x = -1 \/ y = -1 \/ x = -2 \/ y = -2 => x = y
    <3>1. 3 * p - 2 # 3 * p - 1 /\ 3 * p - 2 # 3 * p /\ 3 * p - 1 # 3 * p
      BY <2>1
    <3>2. FrameAt(p, x) = FrameAt(p, y)
      BY <1>7
    <3> QED
      BY <2>4, <2>5, <2>6, <3>1, <3>2
  <2> QED
    BY <2>2, <2>3, <2>7, <2>8, <2>9
<1>8. Apart
  BY <1>7 DEF Apart
<1> QED
  BY <1>6, <1>8

\* The tables of the processes that stay are as before, and so are the owners of
\* their frames: enough for every step that only takes or releases frames of
\* others.
LEMMA ExclusiveKept ==
  ASSUME TypeOK, Owned, Apart,
         \A p \in Active' : p \in Active /\ table'[p] = table[p],
         \A p \in Active', g \in Frame :
            pageinfo[g].owner = p => pageinfo'[g].owner = p
  PROVE  Owned' /\ Apart'
<1>1. ASSUME NEW p \in Active', NEW x \in Place
      PROVE  /\ FrameAt(p, x)' = FrameAt(p, x)
             /\ Private(p, x)' = Private(p, x)
             /\ FrameAt(p, x) \in Frame
  <2>1. p \in Pid /\ table'[p] = table[p] /\ table[p] \in PageTable
    BY DEF Active, TypeOK
  <2>2. FrameAt(p, x)' = FrameAt(p, x)
    BY <2>1 DEF FrameAt
  <2>3. Private(p, x)' = Private(p, x)
    BY <2>1 DEF Private
  <2>4. FrameAt(p, x) \in Frame
    BY <2>1 DEF FrameAt, PageTable, Mapping, Place
  <2> QED
    BY <2>2, <2>3, <2>4
<1>2. Owned'
  BY <1>1 DEF Owned
<1>3. Apart'
  BY <1>1 DEF Apart
<1> QED
  BY <1>2, <1>3

\* A frame in use is not one that find_free_physic_page returns.
LEMMA InUseIsNotFree ==
  ASSUME TypeOK, NEW p \in Active, NEW g \in Frame, pageinfo[g].owner = p
  PROVE  g \notin Free /\ p # 0
  BY DEF TypeOK, Active, Free, PO_FREE

-------------------------------------------------------------------------------
\* sys_page_alloc maps a frame without an owner; nobody else's changes.
LEMMA AllocExclusive ==
  ASSUME TypeOK, Owned, Apart, PageAlloc, pstate[current] = "RUNNABLE"
  PROVE  Owned' /\ Apart'
<1> PICK a \in (PSTART - 1)..VTOP :
      /\ Asks(a) /\ UNCHANGED pstate
      /\ \/ /\ Allocatable(a) /\ Found(1)
            /\ pageinfo' = [pageinfo EXCEPT ![Nth(1)] = Taken(current)]
            /\ table' = [table EXCEPT ![current].map[a] =
                                        [pn |-> Nth(1), perm |-> "rw"]]
            /\ Return(1)
         \/ /\ Allocatable(a) => ~Found(1)
            /\ Return(-1)
            /\ UNCHANGED <<table, pageinfo>>
  BY DEF PageAlloc
<1>1. CASE UNCHANGED <<table, pageinfo>>
  BY <1>1, ExclusiveKept DEF Active
<1>2. CASE /\ Allocatable(a) /\ Found(1)
           /\ pageinfo' = [pageinfo EXCEPT ![Nth(1)] = Taken(current)]
           /\ table' = [table EXCEPT ![current].map[a] =
                                       [pn |-> Nth(1), perm |-> "rw"]]
  <2> DEFINE f == Nth(1)
  <2>1. f \in Free /\ f \in Frame
    BY <1>2, NthIsFree DEF Free
  <2>2. /\ current \in Pid /\ current \in Active /\ a \in VPage
        /\ table \in [Pid -> PageTable] /\ Active' = Active
        /\ pageinfo \in [Frame -> Info]
    BY <1>2 DEF TypeOK, Info, Active, Allocatable, VPage
  <2>3. ASSUME NEW p \in Active, NEW x \in Place
        PROVE  IF p = current /\ x = a
               THEN FrameAt(p, x)' = f /\ Private(p, x)'
               ELSE FrameAt(p, x)' = FrameAt(p, x) /\ Private(p, x)' = Private(p, x)
    <3>1. p \in Pid /\ table[p] \in PageTable
      BY <2>2 DEF Active
    <3>2. a # -1 /\ a # -2
      BY <2>2 DEF VPage
    <3>3. CASE p # current
      <4>1. table'[p] = table[p]
        BY <1>2, <2>2, <3>1, <3>3
      <4>2. FrameAt(p, x)' = FrameAt(p, x)
        BY <4>1 DEF FrameAt
      <4>3. Private(p, x)' = Private(p, x)
        BY <4>1 DEF Private
      <4> QED
        BY <3>3, <4>2, <4>3
    <3>4. CASE p = current
      <4>1. table'[p] = [table[p] EXCEPT !.map[a] = [pn |-> f, perm |-> "rw"]]
        BY <1>2, <2>2, <3>4
      <4>2. /\ table'[p].l1 = table[p].l1 /\ table'[p].l2 = table[p].l2
            /\ \A v \in VPage : table'[p].map[v] =
                  IF v = a THEN [pn |-> f, perm |-> "rw"] ELSE table[p].map[v]
        BY <3>1, <4>1 DEF PageTable
      <4>3. IF x = a THEN FrameAt(p, x)' = f ELSE FrameAt(p, x)' = FrameAt(p, x)
        BY <2>2, <3>2, <4>2 DEF FrameAt, Place
      <4>4. IF x = a THEN Private(p, x)' ELSE Private(p, x)' = Private(p, x)
        BY <2>2, <4>2 DEF Private
      <4> QED
        BY <3>4, <4>3, <4>4
    <3> QED
      BY <3>3, <3>4
  <2>4. ASSUME NEW p \in Active, NEW x \in Place, Private(p, x)
        PROVE  FrameAt(p, x) \in Frame \ {f} /\ pageinfo[FrameAt(p, x)].owner = p
    <3>1. pageinfo[FrameAt(p, x)].owner = p
      BY <2>4 DEF Owned
    <3>2. FrameAt(p, x) \in Frame
      BY <2>2 DEF FrameAt, PageTable, Mapping, Place, Active
    <3> QED
      BY <2>1, <3>1, <3>2, InUseIsNotFree
  <2>5. /\ pageinfo'[f].owner = current
        /\ \A g \in Frame \ {f} : pageinfo'[g] = pageinfo[g]
    BY <1>2, <2>1, <2>2 DEF Taken
  <2> HIDE DEF f
  <2>6. Owned'
    <3> SUFFICES ASSUME NEW p \in Active, NEW x \in Place, Private(p, x)'
                 PROVE  pageinfo'[FrameAt(p, x)'].owner = p
      BY <2>2 DEF Owned
    <3> QED
      BY <2>3, <2>4, <2>5
  <2>7. Apart'
    <3> SUFFICES ASSUME NEW p \in Active, NEW x \in Place, NEW y \in Place,
                        Private(p, x)', Private(p, y)',
                        FrameAt(p, x)' = FrameAt(p, y)'
                 PROVE  x = y
      BY <2>2 DEF Apart
    <3>1. CASE p = current /\ (x = a \/ y = a)
      BY <2>3, <2>4, <3>1
    <3>2. CASE ~(p = current /\ (x = a \/ y = a))
      BY <2>3, <3>2 DEF Apart
    <3> QED
      BY <3>1, <3>2
  <2> QED
    BY <2>6, <2>7
<1> QED
  BY <1>1, <1>2

\* A fork gives the child frames of its own and keeps everybody else's.
LEMMA ForkExclusive ==
  ASSUME TypeOK, Owned, Apart, NEW i \in Pid, NewChild(i, table[current])
  PROVE  Owned' /\ Apart'
<1> DEFINE t == table[current]
<1>1. /\ t \in PageTable /\ table \in [Pid -> PageTable] /\ pageinfo \in [Frame -> Info]
      /\ pstate[i] = "FREE" /\ i # 0 /\ pstate \in [Pid -> States]
      /\ Found(1) /\ Found(2) /\ \A v \in Copied(t) : Reached(t, v)
      /\ pageinfo' = ForkedPageinfo(i, t)
      /\ table' = [table EXCEPT ![i] = ForkedTable(t)]
      /\ pstate' = [pstate EXCEPT ![i] = "RUNNABLE"]
  BY DEF TypeOK, NewChild, FirstFree, Info
<1> HIDE DEF t
<1>2. Active' = Active \cup {i} /\ i \notin Active
  BY <1>1 DEF Active
<1>3. table'[i] = ForkedTable(t)
  BY <1>1
<1>4. ASSUME NEW p \in Active, NEW x \in Place
      PROVE  FrameAt(p, x)' = FrameAt(p, x) /\ Private(p, x)' = Private(p, x)
  <2>1. table'[p] = table[p]
    BY <1>1, <1>2 DEF Active
  <2>2. FrameAt(p, x)' = FrameAt(p, x)
    BY <2>1 DEF FrameAt
  <2>3. Private(p, x)' = Private(p, x)
    BY <2>1 DEF Private
  <2> QED
    BY <2>2, <2>3
<1>5. ASSUME NEW p \in Active, NEW x \in Place, Private(p, x)
      PROVE  pageinfo'[FrameAt(p, x)].owner = p
  <2>1. pageinfo[FrameAt(p, x)].owner = p
    BY <1>5 DEF Owned
  <2>2. FrameAt(p, x) \in Frame
    BY <1>1 DEF FrameAt, PageTable, Mapping, Place, Active
  <2> QED
    BY <1>1, <2>1, <2>2, InUseIsNotFree, ForkedPageinfoOwners
<1>6. ASSUME NEW x \in Place, Private(i, x)'
      PROVE  /\ x \in VPage => x \in Copied(t)
             /\ FrameAt(i, x)' = IF x = -1 THEN Nth(1) ELSE IF x = -2 THEN Nth(2)
                                 ELSE Nth(Turn(t, x))
  <2>1. CASE x \in VPage
    <3>1. x # -1 /\ x # -2
      BY <2>1 DEF VPage
    <3>2. table'[i].map[x].perm = "rw"
      BY <1>6, <2>1 DEF Private
    <3>3. x \in Copied(t)
      BY <1>3, <2>1, <3>2 DEF ForkedTable, Copied
    <3>4. table'[i].map[x].pn = Nth(Turn(t, x))
      BY <1>1, <1>3, <2>1, <3>3 DEF ForkedTable
    <3> QED
      BY <3>1, <3>3, <3>4 DEF FrameAt
  <2>2. CASE x \in {-1, -2}
    BY <1>3, <2>2 DEF ForkedTable, FrameAt, VPage
  <2> QED
    BY <2>1, <2>2 DEF Place
<1>7. ASSUME NEW x \in Place, Private(i, x)'
      PROVE  pageinfo'[FrameAt(i, x)'].owner = i
  <2>1. /\ IsNth(1, Nth(1)) /\ Nth(1) \in Frame
        /\ IsNth(2, Nth(2)) /\ Nth(2) \in Frame
    BY <1>1, NthIsFree DEF Free
  <2>2. TakenAt(t, Nth(1)) # {} /\ TakenAt(t, Nth(2)) # {}
    BY <2>1 DEF TakenAt
  <2>3. CASE x \in VPage
    <3>1. x \in Copied(t) /\ FrameAt(i, x)' = Nth(Turn(t, x))
      BY <1>6, <1>7, <2>3 DEF VPage
    <3>2. Nth(Turn(t, x)) \in Free /\ TakenAt(t, Nth(Turn(t, x))) # {}
      BY <1>1, <3>1, ForkedTableFrames
    <3> QED
      BY <1>1, <3>1, <3>2, ForkedPageinfoOwners DEF Free
  <2>4. CASE x \in {-1, -2}
    BY <1>1, <1>6, <1>7, <2>1, <2>2, <2>4, ForkedPageinfoOwners
  <2> QED
    BY <2>3, <2>4 DEF Place
<1>8. ASSUME NEW x \in Place, NEW y \in Place, Private(i, x)', Private(i, y)',
             FrameAt(i, x)' = FrameAt(i, y)'
      PROVE  x = y
  <2>1. Nth(1) # Nth(2)
    BY <1>1, NthDiffers
  <2>2. ASSUME NEW u \in Copied(t), NEW v \in Copied(t)
        PROVE  /\ Nth(1) # Nth(Turn(t, v)) /\ Nth(2) # Nth(Turn(t, v))
               /\ u # v => Nth(Turn(t, u)) # Nth(Turn(t, v))
    BY <1>1, ForkedTableFrames
  <2>3. /\ x \in {-1, -2} \/ (x \in Copied(t) /\ x \notin {-1, -2})
        /\ y \in {-1, -2} \/ (y \in Copied(t) /\ y \notin {-1, -2})
    <3>1. \A z \in VPage : z \notin {-1, -2}
      BY DEF VPage
    <3>2. (x \in VPage => x \in Copied(t)) /\ (y \in VPage => y \in Copied(t))
      BY <1>6, <1>8
    <3>3. (x \in {-1, -2} \/ x \in VPage) /\ (y \in {-1, -2} \/ y \in VPage)
      BY DEF Place
    <3> QED
      BY <3>1, <3>2, <3>3
  <2>4. FrameAt(i, x)' = IF x = -1 THEN Nth(1) ELSE IF x = -2 THEN Nth(2)
                         ELSE Nth(Turn(t, x))
    BY <1>6, <1>8
  <2>5. FrameAt(i, y)' = IF y = -1 THEN Nth(1) ELSE IF y = -2 THEN Nth(2)
                         ELSE Nth(Turn(t, y))
    BY <1>6, <1>8
  <2>6. CASE x \in {-1, -2}
    <3>1. FrameAt(i, x)' \in {Nth(1), Nth(2)} /\ (FrameAt(i, x)' = Nth(1) <=> x = -1)
      BY <2>1, <2>4, <2>6
    <3>2. CASE y \in {-1, -2}
      <4>1. FrameAt(i, y)' = Nth(1) <=> y = -1
        BY <2>1, <2>5, <3>2
      <4> QED
        BY <1>8, <2>6, <3>1, <3>2, <4>1
    <3>3. CASE y \in Copied(t) /\ y \notin {-1, -2}
      <4>1. FrameAt(i, y)' = Nth(Turn(t, y))
        BY <2>5, <3>3
      <4>2. Nth(1) # Nth(Turn(t, y)) /\ Nth(2) # Nth(Turn(t, y))
        BY <2>2, <3>3
      <4> QED
        BY <1>8, <3>1, <4>1, <4>2
    <3> QED
      BY <2>3, <3>2, <3>3
  <2>7. CASE x \notin {-1, -2} /\ y \in {-1, -2}
    BY <1>8, <2>1, <2>2, <2>3, <2>4, <2>5, <2>7
  <2>8. CASE x \notin {-1, -2} /\ y \notin {-1, -2}
    BY <1>8, <2>2, <2>3, <2>4, <2>5, <2>8
  <2> QED
    BY <2>6, <2>7, <2>8
<1>9. Owned'
  BY <1>2, <1>4, <1>5, <1>7 DEF Owned
<1>10. Apart'
  BY <1>2, <1>4, <1>8 DEF Apart
<1> QED
  BY <1>9, <1>10

\* kernel() has just set the processes up.
Booted == \E n \in Boots : /\ pstate = BootState(n)
                           /\ table = BootTables(n)
                           /\ pageinfo = BootPageinfo(n)

LEMMA BootedExclusive == Booted => Owned /\ Apart
  BY BootExclusive DEF Booted

\* No step of the kernel shares a private frame.
LEMMA ExclusiveStep == IInv /\ [Next]_vars => (Owned /\ Apart)'
<1> SUFFICES ASSUME TypeOK, Owned, Apart, [Next]_vars PROVE Owned' /\ Apart'
  BY DEF IInv
<1>1. /\ current \in Pid \ {0} /\ pstate \in [Pid -> States]
      /\ pageinfo \in [Frame -> Info] /\ table \in [Pid -> PageTable]
      /\ table[current] \in PageTable
      /\ cpu = "user" => pstate[current] = "RUNNABLE"
  BY DEF TypeOK, Info
<1>2. CASE UNCHANGED <<pstate, table, pageinfo>>
  BY <1>2, ExclusiveKept DEF Active
<1>3. CASE PageFault
  <2>1. Active' = Active /\ UNCHANGED <<table, pageinfo>>
    BY <1>1, <1>3 DEF PageFault, Trap, Active
  <2> QED
    BY <2>1, ExclusiveKept
<1>4. CASE Exit
  <2>1. Active' = Active \ {current}
    BY <1>1, <1>4 DEF Exit, Active
  <2>2. \A p \in Active' : p \in Active /\ table'[p] = table[p]
    BY <1>1, <1>4, <2>1 DEF Exit, Active
  <2>3. \A p \in Active', g \in Frame :
           pageinfo[g].owner = p => pageinfo'[g].owner = p
    BY <1>1, <1>4, <2>1, ReleaseTableOthers DEF Exit
  <2> QED
    BY <2>2, <2>3, ExclusiveKept
<1>5. CASE PageAlloc
  BY <1>1, <1>5, AllocExclusive DEF PageAlloc, Asks, Trap
<1>6. CASE AllocUnaligned
  <2>1. Active' = Active /\ table' = table
    BY <1>6 DEF AllocUnaligned, Panic, Active
  <2>2. Nth(1) \in Free /\ pageinfo' = [pageinfo EXCEPT ![Nth(1)] = Taken(current)]
    BY <1>6, NthIsFree DEF AllocUnaligned
  <2>3. \A p \in Active', g \in Frame :
           pageinfo[g].owner = p => pageinfo'[g].owner = p
    BY <1>1, <2>1, <2>2, InUseIsNotFree
  <2> QED
    BY <2>1, <2>3, ExclusiveKept
<1>7. CASE Fork
  <2>1. CASE NoSlot
    BY <1>2, <2>1 DEF NoSlot
  <2>2. ASSUME NEW i \in Pid, NoTableFrames(i) PROVE Owned' /\ Apart'
    <3>1. Active' = Active /\ table' = table
      BY <2>2 DEF NoTableFrames, Panic, Active
    <3>2. \A g \in Frame \ Free : pageinfo'[g] = pageinfo[g]
      BY <2>2 DEF NoTableFrames, IsNth
    <3>3. \A p \in Active', g \in Frame :
             pageinfo[g].owner = p => pageinfo'[g].owner = p
      BY <3>1, <3>2, InUseIsNotFree
    <3> QED
      BY <3>1, <3>3, ExclusiveKept
  <2>3. ASSUME NEW i \in Pid, NoPageFrame(i, table[current]) PROVE Owned' /\ Apart'
    <3> DEFINE t    == table[current]
               info == ForkedPageinfo(i, t)
    <3>1. Active' = Active /\ table' = table /\ i \notin Active
      BY <2>3 DEF NoPageFrame, FirstFree, Active
    <3>2. /\ info \in [Frame -> Info] /\ ForkedTable(t) \in PageTable
          /\ \A g \in Frame \ Free : info[g].owner = pageinfo[g].owner
      BY <1>1, <2>3, ForkedPageinfoOwners, ForkedTableType DEF NoPageFrame
    <3>3. pageinfo' = ReleaseTable(info, i, ForkedTable(t))
      BY <2>3 DEF NoPageFrame, Undo
    <3> HIDE DEF info
    <3>4. \A g \in Frame : info[g].owner # i => pageinfo'[g] = info[g]
      BY <3>2, <3>3, ReleaseTableOthers
    <3>5. \A p \in Active', g \in Frame :
             pageinfo[g].owner = p => pageinfo'[g].owner = p
      BY <3>1, <3>2, <3>4, InUseIsNotFree
    <3> QED
      BY <3>1, <3>5, ExclusiveKept
  <2>4. ASSUME NEW i \in Pid, NewChild(i, table[current]) PROVE Owned' /\ Apart'
    BY <2>4, ForkExclusive
  <2> QED
    BY <1>7, <2>1, <2>2, <2>3, <2>4 DEF Fork
<1>8. CASE Reboot
  <2>1. Booted'
    BY <1>8 DEF Reboot, Booted
  <2>2. (Booted => Owned /\ Apart)'
    BY BootedExclusive, PTL
  <2> QED
    BY <2>1, <2>2
<1>9. CASE CheckFails \/ Getpid \/ SysPanic \/ UNCHANGED vars
  BY <1>2, <1>9 DEF CheckFails, Getpid, SysPanic, Panic, vars
<1>10. CASE Yield \/ Timer
  BY <1>2, <1>10 DEF Yield, Timer, SwitchAway
<1> QED
  BY <1>3, <1>4, <1>5, <1>6, <1>7, <1>8, <1>9, <1>10 DEF Next

\* Frames that are written or hold page tables are never shared, whatever the
\* applications do (find_free_physic_page, copy_writable_page, release_page).
THEOREM FramesAreExclusive == Spec => []Exclusive
<1>1. Init => IInv
  BY TypeInit, BootedExclusive DEF IInv, Init, Booted
<1>2. IInv /\ [Next]_vars => IInv'
  BY TypeStep, ExclusiveStep DEF IInv
<1>3. IInv => Exclusive
  BY OwnedIsExclusive DEF IInv
<1> QED
  BY <1>1, <1>2, <1>3, PTL DEF Spec

-------------------------------------------------------------------------------
(* The programs that fork: p-fork.c and p-forkexit.c are booted alone, their  *)
(* first process stays, and they ask only for pages they have not mapped.     *)
(* Then a frame is either the code page of the first process, which all of    *)
(* them read, or it is counted once and belongs to one process.               *)

ForkPrograms == Boots = {1} /\ "exit" \notin Events /\ "remap" \notin Events

\* The frame of the first process's code page.
Code == PSTART

\* The first process is there, has its code, and cannot write it.
CodeStays ==
  /\ pageinfo[Code].owner = 1 /\ pstate[1] # "FREE"
  /\ table[1].map[Code] = [pn |-> Code, perm |-> "ro"]
  /\ \A x \in Place : Private(1, x) => FrameAt(1, x) # Code

\* All that is mapped read-only is the code.
ReadOnlyIsCode ==
  \A p \in Active : \A v \in VPage :
    table[p].map[v].perm = "ro" => table[p].map[v].pn = Code

FreeIsUncounted ==
  \A g \in Frame : pageinfo[g].owner = PO_FREE => pageinfo[g].refcount = 0

\* Other frames with an owner are counted once, and their owner has them.
Held(p, g) == \E x \in Place : Private(p, x) /\ FrameAt(p, x) = g
OwnedIsHeld ==
  cpu # "panic" => \A p \in Pid \ {0}, g \in Frame \ {Code} :
    pageinfo[g].owner = p => pageinfo[g].refcount = 1 /\ p \in Active /\ Held(p, g)

Counted == CodeStays /\ ReadOnlyIsCode /\ FreeIsUncounted /\ OwnedIsHeld

\* A refcount that is none too large is kept by its eight bits.
LEMMA WrapSame == ASSUME NEW n \in RefCount PROVE Wrap(n) = n
<1> DEFINE m == 2 * (MaxRef + 1)
           x == n + MaxRef + 1
<1>1. m \in Nat /\ m > 0 /\ x \in Int /\ 0 <= x /\ x < m
  BY DEF RefCount
<1>2. Wrap(n) = (x % m) - (MaxRef + 1)
  BY DEF Wrap
<1>3. x % m = x
  <2> HIDE DEF x, m
  <2> QED
    BY <1>1
<1> QED
  BY <1>2, <1>3 DEF RefCount

\* The i-th free frame is one frame (find_free_physic_page).
LEMMA NthIsOne ==
  ASSUME NEW i, NEW g, NEW h, IsNth(i, g), IsNth(i, h) PROVE g = h
<1> DEFINE Upto(u) == {x \in Free : x <= u}
<1>1. ASSUME NEW x \in Free, NEW y \in Free, x < y
      PROVE  Cardinality(Upto(x)) # Cardinality(Upto(y))
  <2>1. x \in Int /\ y \in Int /\ \A z \in Free : z \in Int
    BY DEF Free, Frame
  <2>2. ASSUME NEW z \in Free, z <= x PROVE z <= y
    <3>1. z \in Int
      BY <2>1
    <3> QED
      BY <1>1, <2>1, <2>2, <3>1
  <2>3. Upto(x) \subseteq Upto(y)
    BY <2>2
  <2>4. y \in Upto(y) /\ y \notin Upto(x)
    BY <1>1, <2>1
  <2>5. IsFiniteSet(Upto(y))
    <3>1. IsFiniteSet(0..(NPAGES - 1))
      BY FS_Interval
    <3>2. Upto(y) \in SUBSET (0..(NPAGES - 1))
      BY DEF Free, Frame
    <3> HIDE DEF Upto
    <3> QED
      BY <3>1, <3>2, FS_Subset
  <2> HIDE DEF Upto
  <2> QED
    BY <2>3, <2>4, <2>5, FS_Subset
<1>2. g \in Free /\ h \in Free /\ Cardinality(Upto(g)) = Cardinality(Upto(h))
  BY DEF IsNth
<1>3. g \in Int /\ h \in Int
  BY <1>2 DEF Free, Frame
<1> HIDE DEF Upto
<1> QED
  BY <1>1, <1>2, <1>3

\* What a process has, its exit visits (release_pagetable).
LEMMA HeldIsVisited ==
  ASSUME NEW t \in PageTable, NEW g \in Frame,
         t.l1 = g \/ t.l2 = g \/ \E v \in VPage : t.map[v].pn = g
  PROVE  References(t, g) \in Nat /\ References(t, g) > 0
<1> DEFINE S == {v \in VPage : t.map[v].pn = g}
<1>1. IsFiniteSet(S) /\ Cardinality(S) \in Nat
  BY CountType
<1>2. References(t, g) = Cardinality(S) + (IF g = t.l2 THEN 1 ELSE 0)
                         + (IF g = t.l1 THEN 1 ELSE 0)
  BY DEF References
<1>3. (\E v \in VPage : t.map[v].pn = g) => S # {}
  OBVIOUS
<1> HIDE DEF S
<1>4. S # {} => Cardinality(S) > 0
  BY <1>1, FS_EmptySet
<1> QED
  BY <1>1, <1>2, <1>3, <1>4

\* The first process alone is booted, and nothing has been shared.
LEMMA BootCounted == ForkPrograms /\ Booted => Counted
<1> SUFFICES ASSUME 1 \in Boots, pstate = BootState(1), table = BootTables(1),
                    pageinfo = BootPageinfo(1)
             PROVE  Counted
  BY DEF ForkPrograms, Booted
<1>1. /\ 3 < PSTART /\ PSTART + 1 <= NPAGES /\ 1 \in Pid
      /\ Code \in Frame /\ Code \in VPage /\ Code # VTOP - 1
  BY BootAssumption DEF Code, Frame, VPage, Pid
<1>2. Active = {1} /\ pstate[1] # "FREE"
  BY <1>1 DEF Active, BootState
<1>3. table[1] = BootTable(1)
  BY <1>1 DEF BootTables
<1>4. /\ table[1].l1 = 1 /\ table[1].l2 = 2
      /\ \A v \in VPage : table[1].map[v] =
           IF v = Code THEN [pn |-> v, perm |-> "ro"]
           ELSE IF v = VTOP - 1 THEN [pn |-> 3, perm |-> "rw"] ELSE Unmapped
  BY <1>1, <1>3 DEF BootTable, Code
<1>5. \A g \in Frame : pageinfo[g] = [owner |-> BootOwner(1, g),
                         refcount |-> IF BootOwner(1, g) = PO_FREE THEN 0 ELSE 1]
  BY DEF BootPageinfo
<1>6. \A g \in Frame : BootOwner(1, g) = IF g = 0 THEN PO_RESERVED
                         ELSE IF g \in {1, 2, 3, Code} THEN 1 ELSE PO_FREE
  <2> SUFFICES ASSUME NEW g \in Frame
               PROVE  BootOwner(1, g) = IF g = 0 THEN PO_RESERVED
                        ELSE IF g \in {1, 2, 3, Code} THEN 1 ELSE PO_FREE
    OBVIOUS
  <2>1. CASE g = 0
    BY <1>1, <2>1 DEF BootOwner
  <2>2. CASE g \in {1, 2, 3}
    <3>1. g \in 1..(3 * 1) /\ (g + 2) \div 3 = 1
      BY <2>2
    <3> QED
      BY <2>2, <3>1 DEF BootOwner
  <2>3. CASE g \notin {0, 1, 2, 3}
    <3>1. g \in Int /\ g # 0 /\ g \notin 1..(3 * 1)
      BY <2>3 DEF Frame
    <3>2. g \in PSTART..(PSTART + 1 - 1) <=> g = Code
      BY <3>1 DEF Code
    <3>3. g = Code => g - PSTART + 1 = 1
      BY <3>1 DEF Code
    <3> QED
      BY <2>3, <3>1, <3>2, <3>3 DEF BootOwner
  <2> QED
    BY <2>1, <2>2, <2>3
<1>7. /\ VTOP - 1 \in VPage /\ VTOP - 1 # -1 /\ VTOP - 1 # -2
      /\ table[1].map[VTOP - 1] = [pn |-> 3, perm |-> "rw"]
      /\ table[1].map[Code] = [pn |-> Code, perm |-> "ro"]
      /\ \A v \in VPage : v # Code /\ v # VTOP - 1 => table[1].map[v].perm = "none"
  <2>1. VTOP - 1 \in VPage /\ VTOP - 1 # -1 /\ VTOP - 1 # -2
    BY <1>1 DEF VPage
  <2>2. ASSUME NEW v \in VPage, v # Code, v # VTOP - 1
        PROVE  table[1].map[v].perm = "none"
    <3>1. table[1].map[v] = Unmapped
      BY <1>4, <2>2
    <3> QED
      BY <3>1 DEF Unmapped
  <2> QED
    BY <1>1, <1>4, <2>1, <2>2
<1>8. \A g \in Frame : /\ pageinfo[g].owner = BootOwner(1, g)
                       /\ BootOwner(1, g) = PO_FREE => pageinfo[g].refcount = 0
                       /\ BootOwner(1, g) # PO_FREE => pageinfo[g].refcount = 1
  <2> SUFFICES ASSUME NEW g \in Frame
               PROVE  /\ pageinfo[g].owner = BootOwner(1, g)
                      /\ BootOwner(1, g) = PO_FREE => pageinfo[g].refcount = 0
                      /\ BootOwner(1, g) # PO_FREE => pageinfo[g].refcount = 1
    OBVIOUS
  <2>1. pageinfo[g] = [owner |-> BootOwner(1, g),
                       refcount |-> IF BootOwner(1, g) = PO_FREE THEN 0 ELSE 1]
    BY <1>5
  <2> QED
    BY <2>1
<1>9. \A v \in VPage : Private(1, v) => v = VTOP - 1
  BY <1>1, <1>7 DEF Private
<1>10. FrameAt(1, -1) = 1 /\ FrameAt(1, -2) = 2 /\ FrameAt(1, VTOP - 1) = 3
  BY <1>4, <1>7 DEF FrameAt
<1>11. CodeStays
  <2>1. pageinfo[Code].owner = 1
    <3>1. BootOwner(1, Code) = 1
      BY <1>1, <1>6 DEF Code
    <3> QED
      BY <1>1, <1>8, <3>1
  <2>2. \A x \in Place : Private(1, x) => x = -1 \/ x = -2 \/ x = VTOP - 1
    BY <1>9 DEF Place
  <2>3. Code # 1 /\ Code # 2 /\ Code # 3
    BY <1>1 DEF Code
  <2> QED
    BY <1>1, <1>2, <1>4, <1>10, <2>1, <2>2, <2>3 DEF CodeStays
<1>12. ReadOnlyIsCode
  BY <1>1, <1>2, <1>7 DEF ReadOnlyIsCode
<1>13. FreeIsUncounted
  BY <1>8 DEF FreeIsUncounted
<1>14. OwnedIsHeld
  <2> SUFFICES ASSUME NEW p \in Pid \ {0}, NEW g \in Frame \ {Code}, pageinfo[g].owner = p
               PROVE  pageinfo[g].refcount = 1 /\ p = 1 /\ Held(1, g)
    BY <1>2 DEF OwnedIsHeld
  <2>1. g \in {1, 2, 3} /\ pageinfo[g].refcount = 1 /\ pageinfo[g].owner = 1
    BY <1>6, <1>8 DEF PO_RESERVED, PO_FREE, Pid
  <2>2. -1 \in Place /\ -2 \in Place /\ VTOP - 1 \in Place /\ VTOP - 1 \in VPage
    BY <1>1 DEF Place, VPage
  <2>3. Private(1, -1) /\ Private(1, -2) /\ Private(1, VTOP - 1)
    BY <1>7, <2>2 DEF Private, VPage
  <2> QED
    BY <1>10, <2>1, <2>2, <2>3 DEF Held
<1> QED
  BY <1>11, <1>12, <1>13, <1>14 DEF Counted

\* A step that leaves the tables alone, takes frames only on its way to a panic,
\* and keeps the owner of the code.
LEMMA CountedKept ==
  ASSUME TypeOK, Counted, Active' = Active, table' = table,
         cpu' # "panic" => cpu # "panic",
         pageinfo'[Code].owner = 1,
         \A g \in Frame \ {Code} :
            \/ pageinfo'[g] = pageinfo[g]
            \/ cpu' = "panic" /\ pageinfo'[g].owner # PO_FREE
  PROVE  Counted'
<1>1. \A p, x : FrameAt(p, x)' = FrameAt(p, x) /\ Private(p, x)' = Private(p, x)
  BY DEF FrameAt, Private
<1>2. \A p, g : Held(p, g)' = Held(p, g)
  BY <1>1 DEF Held
<1>3. 1 \in Active /\ 1 \in Active'
  BY DEF Counted, CodeStays, Active, Pid
<1>4. CodeStays'
  BY <1>1, <1>3 DEF Counted, CodeStays, Active
<1>5. ReadOnlyIsCode'
  BY DEF Counted, ReadOnlyIsCode
<1>6. FreeIsUncounted'
  BY DEF Counted, FreeIsUncounted, PO_FREE
<1>7. OwnedIsHeld'
  BY <1>2 DEF Counted, OwnedIsHeld
<1> QED
  BY <1>4, <1>5, <1>6, <1>7 DEF Counted

\* A child's exit frees what it had, and nothing else.
LEMMA ExitCounted ==
  ASSUME TypeOK, Counted, Exit, current # 1, cpu = "user"
  PROVE  Counted'
<1> DEFINE c == current
<1>1. /\ c \in Pid \ {0} /\ c # 1 /\ 1 \in Pid /\ table[c] \in PageTable
      /\ table \in [Pid -> PageTable] /\ pstate \in [Pid -> States]
      /\ pageinfo \in [Frame -> Info] /\ Code \in Frame
      /\ pageinfo' = ReleaseTable(pageinfo, c, table[c])
      /\ table' = [table EXCEPT ![c] = NoTable]
      /\ pstate' = [pstate EXCEPT ![c] = "FREE"]
  BY DEF TypeOK, Info, Exit, Pid, Code, Frame
<1>2. Active' = Active \ {c} /\ 1 \in Active
  BY <1>1 DEF Active, Counted, CodeStays
<1>3. \A p \in Pid \ {c} : table'[p] = table[p] /\ pstate'[p] = pstate[p]
  BY <1>1
<1>4. ASSUME NEW p \in Pid \ {c}
      PROVE  /\ \A x : FrameAt(p, x)' = FrameAt(p, x) /\ Private(p, x)' = Private(p, x)
             /\ \A g : Held(p, g)' = Held(p, g)
  <2>1. table'[p] = table[p]
    BY <1>3
  <2>2. \A x : FrameAt(p, x)' = FrameAt(p, x) /\ Private(p, x)' = Private(p, x)
    BY <2>1 DEF FrameAt, Private
  <2> QED
    BY <2>2 DEF Held
<1>5. \A g \in Frame : pageinfo[g].owner # c => pageinfo'[g] = pageinfo[g]
  BY <1>1, ReleaseTableOthers
<1>6. pageinfo[Code].owner = 1 /\ pageinfo'[Code].owner = 1
  BY <1>1, <1>5 DEF Counted, CodeStays
<1>7. ASSUME NEW g \in Frame, pageinfo[g].owner = c
      PROVE  pageinfo'[g] = [owner |-> PO_FREE, refcount |-> 0]
  <2>1. pageinfo[g].refcount = 1 /\ Held(c, g)
    BY <1>1, <1>6, <1>7 DEF Counted, OwnedIsHeld
  <2>2. PICK x \in Place : FrameAt(c, x) = g
    BY <2>1 DEF Held
  <2>3. table[c].l1 = g \/ table[c].l2 = g \/ \E v \in VPage : table[c].map[v].pn = g
    BY <2>2 DEF FrameAt, Place
  <2>4. References(table[c], g) \in Nat /\ References(table[c], g) > 0
    BY <1>1, <2>3, HeldIsVisited
  <2>5. ~(pageinfo[g].owner # c \/ pageinfo[g].refcount <= 0)
    BY <1>7, <2>1
  <2>6. ~(pageinfo[g].refcount > References(table[c], g))
    BY <2>1, <2>4
  <2> QED
    BY <1>1, <2>5, <2>6 DEF ReleaseTable, ReleasePage
<1>8. CodeStays'
  BY <1>1, <1>3, <1>4, <1>6 DEF Counted, CodeStays
<1>9. ReadOnlyIsCode'
  BY <1>2, <1>3 DEF Counted, ReadOnlyIsCode, Active
<1>10. FreeIsUncounted'
  BY <1>5, <1>7 DEF Counted, FreeIsUncounted
<1>11. OwnedIsHeld'
  <2> SUFFICES ASSUME NEW p \in Pid \ {0}, NEW g \in Frame \ {Code}, pageinfo'[g].owner = p
               PROVE  pageinfo'[g].refcount = 1 /\ p \in Active' /\ Held(p, g)'
    BY DEF OwnedIsHeld
  <2>1. pageinfo[g].owner # c
    BY <1>7 DEF PO_FREE
  <2>2. pageinfo'[g] = pageinfo[g]
    BY <1>5, <2>1
  <2>3. pageinfo[g].refcount = 1 /\ p \in Active /\ Held(p, g)
    BY <2>2 DEF Counted, OwnedIsHeld
  <2> QED
    BY <1>2, <1>4, <2>1, <2>2, <2>3
<1> QED
  BY <1>8, <1>9, <1>10, <1>11 DEF Counted

\* sys_page_alloc counts the frame it takes, and the page it maps was not mapped.
LEMMA AllocCounted ==
  ASSUME TypeOK, Counted, NEW c \in Active, NEW f \in Free, NEW a \in VPage,
         table[c].map[a] = Unmapped,
         pageinfo' = [pageinfo EXCEPT ![f] = Taken(c)],
         table' = [table EXCEPT ![c].map[a] = [pn |-> f, perm |-> "rw"]],
         UNCHANGED <<pstate, cpu>>
  PROVE  Counted'
<1>1. /\ c \in Pid \ {0} /\ 1 \in Pid /\ table \in [Pid -> PageTable]
      /\ pageinfo \in [Frame -> Info] /\ Code \in Frame /\ Active' = Active
      /\ f \in Frame
  BY DEF TypeOK, Info, Pid, Code, Frame, Active, Free
<1>2. pageinfo[Code].owner = 1 /\ f # Code
  BY <1>1 DEF Counted, CodeStays, Free, PO_FREE
<1>3. /\ pageinfo'[f] = Taken(c)
      /\ \A g \in Frame \ {f} : pageinfo'[g] = pageinfo[g]
  BY <1>1
<1>4. /\ \A p \in Pid \ {c} : table'[p] = table[p]
      /\ table'[c].l1 = table[c].l1 /\ table'[c].l2 = table[c].l2
      /\ \A v \in VPage : table'[c].map[v] =
           IF v = a THEN [pn |-> f, perm |-> "rw"] ELSE table[c].map[v]
  <2>1. table'[c] = [table[c] EXCEPT !.map[a] = [pn |-> f, perm |-> "rw"]]
    BY <1>1
  <2>2. table[c] \in PageTable
    BY <1>1
  <2> QED
    BY <1>1, <2>1, <2>2 DEF PageTable
<1>5. ASSUME NEW x \in Place, x # a
      PROVE  FrameAt(c, x)' = FrameAt(c, x) /\ Private(c, x)' = Private(c, x)
  <2>1. FrameAt(c, x)' = FrameAt(c, x)
    BY <1>4, <1>5 DEF FrameAt, Place
  <2>2. Private(c, x)' = Private(c, x)
    BY <1>4, <1>5 DEF Private
  <2> QED
    BY <2>1, <2>2
<1>6. FrameAt(c, a)' = f /\ Private(c, a)'
  <2>1. a # -1 /\ a # -2
    BY DEF VPage
  <2>2. table'[c].map[a] = [pn |-> f, perm |-> "rw"]
    BY <1>4
  <2> QED
    BY <2>1, <2>2 DEF FrameAt, Private
<1>7. ~Private(c, a)
  BY DEF Private, Unmapped
<1>8. ASSUME NEW p \in Pid, NEW x \in Place, p # c
      PROVE  FrameAt(p, x)' = FrameAt(p, x) /\ Private(p, x)' = Private(p, x)
  <2>1. table'[p] = table[p]
    BY <1>4, <1>8
  <2> QED
    BY <2>1 DEF FrameAt, Private
<1>9. ASSUME NEW p \in Pid, NEW g, Held(p, g) PROVE Held(p, g)'
  <2>1. PICK x \in Place : Private(p, x) /\ FrameAt(p, x) = g
    BY <1>9 DEF Held
  <2>2. Private(p, x)' /\ FrameAt(p, x)' = g
    BY <1>5, <1>7, <1>8, <2>1
  <2> QED
    BY <2>2 DEF Held
<1>10. Held(c, f)'
  BY <1>6 DEF Held, Place
<1>11. CodeStays'
  <2>1. table'[1].map[Code] = [pn |-> Code, perm |-> "ro"]
    <3>1. table[1].map[Code] = [pn |-> Code, perm |-> "ro"] /\ Code \in VPage
      BY DEF Counted, CodeStays, Code, VPage
    <3>2. c = 1 => a # Code
      BY <3>1 DEF Unmapped
    <3> QED
      BY <1>1, <1>4, <3>1, <3>2
  <2>2. ASSUME NEW x \in Place, Private(1, x)' PROVE FrameAt(1, x)' # Code
    <3>1. CASE c = 1 /\ x = a
      BY <1>2, <1>6, <3>1
    <3>2. CASE ~(c = 1 /\ x = a)
      <4>1. Private(1, x) /\ FrameAt(1, x)' = FrameAt(1, x)
        BY <1>1, <1>5, <1>8, <2>2, <3>2
      <4> QED
        BY <4>1 DEF Counted, CodeStays
    <3> QED
      BY <3>1, <3>2
  <2>3. pageinfo'[Code].owner = 1
    BY <1>1, <1>2, <1>3
  <2>4. pstate'[1] # "FREE"
    BY DEF Counted, CodeStays
  <2> QED
    BY <2>1, <2>2, <2>3, <2>4 DEF CodeStays, Code
<1>12. ReadOnlyIsCode'
  <2> SUFFICES ASSUME NEW p \in Active, NEW v \in VPage, table'[p].map[v].perm = "ro"
               PROVE  table'[p].map[v].pn = Code
    BY <1>1 DEF ReadOnlyIsCode, Code
  <2>1. ~(p = c /\ v = a)
    BY <1>4
  <2>2. table'[p].map[v] = table[p].map[v]
    BY <1>4, <2>1 DEF Active
  <2> QED
    BY <2>2 DEF Counted, ReadOnlyIsCode
<1>13. FreeIsUncounted'
  <2>1. Taken(c).owner # PO_FREE
    BY <1>1 DEF Taken, PO_FREE
  <2> QED
    BY <1>3, <2>1 DEF Counted, FreeIsUncounted
<1>14. OwnedIsHeld'
  <2> SUFFICES ASSUME cpu # "panic",
                      NEW p \in Pid \ {0}, NEW g \in Frame \ {Code}, pageinfo'[g].owner = p
               PROVE  pageinfo'[g].refcount = 1 /\ p \in Active' /\ Held(p, g)'
    BY DEF OwnedIsHeld, Code
  <2>1. CASE g = f
    <3>1. p = c /\ pageinfo'[g].refcount = 1
      BY <1>3, <2>1 DEF Taken
    <3>2. c \in Active'
      BY <1>1
    <3> QED
      BY <1>10, <2>1, <3>1, <3>2
  <2>2. CASE g # f
    <3>1. pageinfo'[g] = pageinfo[g]
      BY <1>3, <2>2
    <3>2. pageinfo[g].refcount = 1 /\ p \in Active /\ Held(p, g)
      BY <3>1 DEF Counted, OwnedIsHeld
    <3> QED
      BY <1>1, <1>9, <3>1, <3>2
  <2> QED
    BY <2>1, <2>2
<1> QED
  BY <1>11, <1>12, <1>13, <1>14 DEF Counted

\* A fork counts the frames it takes once, and no other frame but the code anew.
LEMMA ForkCounts ==
  ASSUME TypeOK, FreeIsUncounted, NEW p \in Pid, NEW t \in PageTable,
         pageinfo[Code].owner = 1,
         \A v \in VPage : t.map[v].perm = "ro" => t.map[v].pn = Code
  PROVE  /\ ForkedPageinfo(p, t)[Code].owner = 1
         /\ \A g \in Frame \ {Code} :
              ForkedPageinfo(p, t)[g] = IF TakenAt(t, g) = {} THEN pageinfo[g]
                                        ELSE Taken(p)
<1>1. Code \in Frame /\ Code \notin Free /\ pageinfo \in [Frame -> Info]
  BY DEF TypeOK, Info, Code, Frame, Free, PO_FREE
<1>2. ForkedPageinfo(p, t)[Code].owner = 1
  BY <1>1, ForkedPageinfoOwners
<1>3. ASSUME NEW g \in Frame \ {Code}
      PROVE  ForkedPageinfo(p, t)[g] = IF TakenAt(t, g) = {} THEN pageinfo[g] ELSE Taken(p)
  <2>1. ASSUME NEW a PROVE Shares(t, g, a) = 0
    <3>1. \A v \in Shared(t) : t.map[v].pn = Code
      <4> SUFFICES ASSUME NEW v \in Shared(t) PROVE t.map[v].pn = Code
        OBVIOUS
      <4>1. /\ v \in VPage /\ t.map[v].perm # "none" /\ t.map[v].perm # "rw"
            /\ t.map[v] \in Mapping
        BY DEF Shared, Copied, PageTable
      <4> QED
        BY <4>1 DEF Mapping
    <3>2. {v \in Shared(t) : Reached(t, v) /\ t.map[v].pn = g /\ v > a} = {}
      BY <3>1
    <3> QED
      BY <3>2, FS_EmptySet DEF Shares
  <2>2. pageinfo[g] \in Info
    BY <1>1
  <2>3. CASE TakenAt(t, g) = {}
    <3>1. ForkedPageinfo(p, t)[g] =
            [owner |-> pageinfo[g].owner, refcount |-> Wrap(pageinfo[g].refcount + 0)]
      BY <2>1, <2>3 DEF ForkedPageinfo
    <3>2. pageinfo[g].refcount \in RefCount /\ pageinfo[g].refcount + 0 = pageinfo[g].refcount
      BY <2>2 DEF Info, RefCount
    <3>3. Wrap(pageinfo[g].refcount) = pageinfo[g].refcount
      BY <3>2, WrapSame
    <3> QED
      BY <2>2, <2>3, <3>1, <3>2, <3>3 DEF Info
  <2>4. CASE TakenAt(t, g) # {}
    <3>1. ForkedPageinfo(p, t)[g] = [owner |-> p, refcount |-> Wrap(1 + 0)]
      BY <2>1, <2>4 DEF ForkedPageinfo
    <3>2. 1 \in RefCount /\ 1 + 0 = 1
      BY DEF RefCount
    <3>3. Wrap(1) = 1
      BY <3>2, WrapSame
    <3> QED
      BY <2>4, <3>1, <3>2, <3>3 DEF Taken
  <2> QED
    BY <2>3, <2>4
<1> QED
  BY <1>2, <1>3

\* What a fork takes, the child's table has (copy_pagetable, copy_writable_page).
LEMMA TakenIsMapped ==
  ASSUME NEW t \in PageTable, Found(1), Found(2), NEW g \in Frame, TakenAt(t, g) # {}
  PROVE  \/ ForkedTable(t).l1 = g \/ ForkedTable(t).l2 = g
         \/ \E v \in VPage : ForkedTable(t).map[v] = [pn |-> g, perm |-> "rw"]
<1>1. CASE IsNth(1, g)
  BY <1>1, NthIsFree, NthIsOne DEF ForkedTable
<1>2. CASE IsNth(2, g)
  BY <1>2, NthIsFree, NthIsOne DEF ForkedTable
<1>3. ASSUME NEW v \in Copied(t), Reached(t, v), IsNth(Turn(t, v), g)
      PROVE  \E w \in VPage : ForkedTable(t).map[w] = [pn |-> g, perm |-> "rw"]
  <2>1. v \in VPage /\ t.map[v].perm = "rw"
    BY DEF Copied
  <2>2. Found(Turn(t, v))
    BY <1>3 DEF Found, IsNth
  <2>3. Nth(Turn(t, v)) = g
    BY <1>3, <2>2, NthIsFree, NthIsOne
  <2> QED
    BY <1>3, <2>1, <2>3 DEF ForkedTable
<1> QED
  BY <1>1, <1>2, <1>3 DEF TakenAt

\* A child has frames of its own and the code.
LEMMA ForkCounted ==
  ASSUME TypeOK, Counted, NEW i \in Pid, NEW t \in PageTable, FirstFree(i),
         \A v \in VPage : t.map[v].perm = "ro" => t.map[v].pn = Code,
         Found(1), Found(2), \A v \in Copied(t) : Reached(t, v), cpu # "panic",
         pageinfo' = ForkedPageinfo(i, t),
         table' = [table EXCEPT ![i] = ForkedTable(t)],
         pstate' = [pstate EXCEPT ![i] = "RUNNABLE"]
  PROVE  Counted'
<1>1. /\ pstate[i] = "FREE" /\ i # 0 /\ i # 1 /\ 1 \in Pid /\ Code \in Frame
      /\ table \in [Pid -> PageTable] /\ pstate \in [Pid -> States]
      /\ pageinfo \in [Frame -> Info]
  BY DEF TypeOK, Info, Pid, Code, Frame, FirstFree, Counted, CodeStays
<1>2. Active' = Active \cup {i} /\ i \notin Active
  BY <1>1 DEF Active
<1>3. /\ table'[i] = ForkedTable(t)
      /\ \A p \in Pid \ {i} : table'[p] = table[p] /\ pstate'[p] = pstate[p]
  BY <1>1
<1>4. /\ pageinfo'[Code].owner = 1
      /\ \A g \in Frame \ {Code} :
           pageinfo'[g] = IF TakenAt(t, g) = {} THEN pageinfo[g] ELSE Taken(i)
  BY ForkCounts DEF Counted, CodeStays
<1>5. ASSUME NEW p \in Pid \ {i}
      PROVE  /\ \A x : FrameAt(p, x)' = FrameAt(p, x) /\ Private(p, x)' = Private(p, x)
             /\ \A g : Held(p, g)' = Held(p, g)
  <2>1. table'[p] = table[p]
    BY <1>3
  <2>2. \A x : FrameAt(p, x)' = FrameAt(p, x) /\ Private(p, x)' = Private(p, x)
    BY <2>1 DEF FrameAt, Private
  <2> QED
    BY <2>2 DEF Held
<1>6. CodeStays'
  BY <1>1, <1>3, <1>4, <1>5 DEF Counted, CodeStays, Code
<1>7. ReadOnlyIsCode'
  <2> SUFFICES ASSUME NEW p \in Active', NEW v \in VPage, table'[p].map[v].perm = "ro"
               PROVE  table'[p].map[v].pn = Code
    BY DEF ReadOnlyIsCode, Code
  <2>1. CASE p = i
    <3>1. table'[p].map[v] = t.map[v]
      BY <1>3, <2>1 DEF ForkedTable, Copied
    <3> QED
      BY <3>1
  <2>2. CASE p # i
    BY <1>2, <1>3, <2>2 DEF Counted, ReadOnlyIsCode, Active
  <2> QED
    BY <2>1, <2>2
<1>8. FreeIsUncounted'
  <2>1. Taken(i).owner # PO_FREE
    BY <1>1 DEF Taken, PO_FREE
  <2>2. Code \in Frame /\ pageinfo'[Code].owner # PO_FREE
    BY <1>1, <1>4 DEF PO_FREE
  <2>3. \A g \in Frame \ {Code} : pageinfo'[g].owner = PO_FREE => pageinfo'[g] = pageinfo[g]
    BY <1>4, <2>1
  <2> QED
    BY <2>2, <2>3 DEF Counted, FreeIsUncounted
<1>9. OwnedIsHeld'
  <2> SUFFICES ASSUME NEW p \in Pid \ {0}, NEW g \in Frame \ {Code}, pageinfo'[g].owner = p
               PROVE  pageinfo'[g].refcount = 1 /\ p \in Active' /\ Held(p, g)'
    BY DEF OwnedIsHeld, Code
  <2>1. CASE TakenAt(t, g) = {}
    <3>1. pageinfo'[g] = pageinfo[g]
      BY <1>4, <2>1
    <3>2. pageinfo[g].refcount = 1 /\ p \in Active /\ Held(p, g)
      BY <3>1 DEF Counted, OwnedIsHeld
    <3>3. p \in Pid \ {i}
      BY <1>2, <3>2
    <3> QED
      BY <1>2, <1>5, <3>1, <3>2, <3>3
  <2>2. CASE TakenAt(t, g) # {}
    <3>1. p = i /\ pageinfo'[g].refcount = 1
      BY <1>4, <2>2 DEF Taken
    <3>2. \/ table'[i].l1 = g \/ table'[i].l2 = g
          \/ \E v \in VPage : table'[i].map[v] = [pn |-> g, perm |-> "rw"]
      BY <1>3, <2>2, TakenIsMapped
    <3>3. ASSUME NEW v \in VPage, table'[i].map[v] = [pn |-> g, perm |-> "rw"]
          PROVE  Held(i, g)'
      <4>1. v # -1 /\ v # -2 /\ v \in Place
        BY DEF VPage, Place
      <4>2. FrameAt(i, v)' = g /\ Private(i, v)'
        BY <3>3, <4>1 DEF FrameAt, Private
      <4> QED
        BY <4>1, <4>2 DEF Held
    <3>4. ASSUME table'[i].l1 = g \/ table'[i].l2 = g PROVE Held(i, g)'
      <4>1. -1 \notin VPage /\ -2 \notin VPage /\ -1 \in Place /\ -2 \in Place
        BY DEF VPage, Place
      <4>2. Private(i, -1)' /\ Private(i, -2)'
        BY <4>1 DEF Private
      <4>3. FrameAt(i, -1)' = table'[i].l1 /\ FrameAt(i, -2)' = table'[i].l2
        BY DEF FrameAt
      <4> QED
        BY <3>4, <4>1, <4>2, <4>3 DEF Held
    <3> QED
      BY <1>2, <3>1, <3>2, <3>3, <3>4
  <2> QED
    BY <2>1, <2>2
<1> QED
  BY <1>6, <1>7, <1>8, <1>9 DEF Counted

\* A fork that runs out of frames gives back all it has taken; only the count of
\* the code is off.
LEMMA FailedForkKeeps ==
  ASSUME TypeOK, Counted, NEW i \in Pid, NEW t \in PageTable, FirstFree(i),
         \A v \in VPage : t.map[v].perm = "ro" => t.map[v].pn = Code,
         Found(1), Found(2), cpu # "panic",
         pageinfo' = Undo(ForkedPageinfo(i, t), i, ForkedTable(t))
  PROVE  pageinfo'[Code].owner = 1 /\ \A g \in Frame \ {Code} : pageinfo'[g] = pageinfo[g]
<1> DEFINE info == ForkedPageinfo(i, t)
           u    == ForkedTable(t)
<1>1. /\ pstate[i] = "FREE" /\ i # 0 /\ i # 1 /\ 1 \in Pid /\ Code \in Frame
      /\ pageinfo \in [Frame -> Info] /\ i \notin Active
  BY DEF TypeOK, Info, Pid, Code, Frame, FirstFree, Counted, CodeStays, Active
<1>2. info \in [Frame -> Info] /\ u \in PageTable
  BY <1>1, ForkedPageinfoOwners, ForkedTableType
<1>3. /\ info[Code].owner = 1
      /\ \A g \in Frame \ {Code} :
           info[g] = IF TakenAt(t, g) = {} THEN pageinfo[g] ELSE Taken(i)
  BY ForkCounts DEF Counted, CodeStays
<1>4. pageinfo' = ReleaseTable(info, i, u)
  BY DEF Undo
<1> HIDE DEF info, u
<1>5. \A g \in Frame : info[g].owner # i => pageinfo'[g] = info[g]
  BY <1>2, <1>4, ReleaseTableOthers
<1>6. pageinfo'[Code].owner = 1
  BY <1>1, <1>3, <1>5
<1>7. ASSUME NEW g \in Frame \ {Code}, TakenAt(t, g) = {} PROVE pageinfo'[g] = pageinfo[g]
  <2>1. info[g] = pageinfo[g]
    BY <1>3, <1>7
  <2>2. pageinfo[g].owner # i
    BY <1>1 DEF Counted, OwnedIsHeld
  <2> QED
    BY <1>5, <2>1, <2>2
<1>8. ASSUME NEW g \in Frame \ {Code}, TakenAt(t, g) # {} PROVE pageinfo'[g] = pageinfo[g]
  <2>1. info[g].owner = i /\ info[g].refcount = 1
    BY <1>3, <1>8 DEF Taken
  <2>2. u.l1 = g \/ u.l2 = g \/ \E v \in VPage : u.map[v].pn = g
    <3>1. CASE \E v \in VPage : u.map[v] = [pn |-> g, perm |-> "rw"]
      BY <3>1
    <3> QED
      BY <1>8, <3>1, TakenIsMapped DEF u
  <2>3. References(u, g) \in Nat /\ References(u, g) > 0
    BY <1>2, <2>2, HeldIsVisited
  <2>4. pageinfo'[g] = [owner |-> PO_FREE, refcount |-> 0]
    <3>1. ~(info[g].owner # i \/ info[g].refcount <= 0)
          /\ ~(info[g].refcount > References(u, g))
      BY <2>1, <2>3
    <3> QED
      BY <1>4, <3>1 DEF ReleaseTable, ReleasePage
  <2>5. g \in Free
    BY <1>8 DEF TakenAt, IsNth
  <2>6. pageinfo[g].owner = PO_FREE /\ pageinfo[g].refcount = 0 /\ pageinfo[g] \in Info
    BY <1>1, <2>5 DEF Free, Counted, FreeIsUncounted
  <2> QED
    BY <2>4, <2>6 DEF Info
<1> QED
  BY <1>6, <1>7, <1>8

\* Every step of the kernel keeps the counts.
LEMMA CountedStep ==
  ASSUME ForkPrograms PROVE TypeOK /\ Counted /\ [Next]_vars => Counted'
<1> SUFFICES ASSUME TypeOK, Counted, [Next]_vars PROVE Counted'
  OBVIOUS
<1>1. /\ current \in Pid \ {0} /\ pstate \in [Pid -> States]
      /\ pageinfo \in [Frame -> Info] /\ table[current] \in PageTable
      /\ cpu = "user" => pstate[current] = "RUNNABLE" /\ current \in Active
  BY DEF TypeOK, Info, Active
<1>2. pageinfo[Code].owner = 1 /\ Code \in Frame
  BY DEF Counted, CodeStays, Code, Frame
<1>3. CASE UNCHANGED <<pstate, table, pageinfo>> /\ (cpu' # "panic" => cpu # "panic")
  BY <1>2, <1>3, CountedKept DEF Active
<1>4. CASE PageFault
  <2>1. Active' = Active /\ UNCHANGED <<table, pageinfo>> /\ cpu # "panic"
    BY <1>1, <1>4 DEF PageFault, Trap, Active
  <2> QED
    BY <1>2, <2>1, CountedKept
<1>5. CASE Exit
  <2>1. current # 1 /\ cpu = "user"
    BY <1>5 DEF Exit, Exits, Trap, ForkPrograms
  <2> QED
    BY <1>5, <2>1, ExitCounted
<1>6. CASE PageAlloc
  <2> PICK a \in (PSTART - 1)..VTOP :
        /\ Asks(a) /\ UNCHANGED pstate
        /\ \/ /\ Allocatable(a) /\ Found(1)
              /\ pageinfo' = [pageinfo EXCEPT ![Nth(1)] = Taken(current)]
              /\ table' = [table EXCEPT ![current].map[a] =
                                          [pn |-> Nth(1), perm |-> "rw"]]
              /\ Return(1)
           \/ /\ Allocatable(a) => ~Found(1)
              /\ Return(-1)
              /\ UNCHANGED <<table, pageinfo>>
    BY <1>6 DEF PageAlloc
  <2>1. /\ cpu = "user" /\ cpu' = cpu
        /\ a \in VPage /\ table[current].map[a] = Unmapped
    BY DEF Asks, Trap, ForkPrograms, Return
  <2>2. CASE UNCHANGED <<table, pageinfo>>
    BY <1>3, <2>1, <2>2
  <2>3. CASE /\ Found(1)
             /\ pageinfo' = [pageinfo EXCEPT ![Nth(1)] = Taken(current)]
             /\ table' = [table EXCEPT ![current].map[a] =
                                         [pn |-> Nth(1), perm |-> "rw"]]
    BY <1>1, <2>1, <2>3, NthIsFree, AllocCounted
  <2> QED
    BY <2>2, <2>3
<1>7. CASE AllocUnaligned
  <2>1. /\ Nth(1) \in Free /\ pageinfo' = [pageinfo EXCEPT ![Nth(1)] = Taken(current)]
        /\ cpu' = "panic" /\ table' = table /\ Active' = Active /\ cpu # "panic"
    BY <1>7, NthIsFree DEF AllocUnaligned, Panic, Trap, Active
  <2>2. Code \notin Free /\ Taken(current).owner # PO_FREE
    BY <1>1, <1>2 DEF Free, Taken, PO_FREE
  <2>3. pageinfo'[Code].owner = 1
    BY <1>1, <1>2, <2>1, <2>2
  <2>4. \A g \in Frame \ {Code} : pageinfo'[g] = pageinfo[g] \/ pageinfo'[g].owner # PO_FREE
    BY <1>1, <2>1, <2>2
  <2> QED
    BY <2>1, <2>3, <2>4, CountedKept
<1>8. CASE Fork
  <2> DEFINE t == table[current]
  <2>1. cpu = "user" /\ current \in Active
    BY <1>1, <1>8 DEF Fork, Trap
  <2>2. \A v \in VPage : t.map[v].perm = "ro" => t.map[v].pn = Code
    BY <2>1 DEF Counted, ReadOnlyIsCode
  <2>3. CASE NoSlot
    BY <1>3, <2>1, <2>3 DEF NoSlot
  <2>4. ASSUME NEW i \in Pid, NoTableFrames(i) PROVE Counted'
    <3>1. Active' = Active /\ table' = table /\ cpu' = "panic"
      BY <2>4 DEF NoTableFrames, Panic, Active
    <3>2. \A g \in Frame : pageinfo'[g] = pageinfo[g]
                            \/ (g \in Free /\ pageinfo'[g] = Taken(i))
      BY <2>4 DEF NoTableFrames, IsNth
    <3>3. Taken(i).owner # PO_FREE /\ Code \notin Free
      BY <1>2, <2>4 DEF NoTableFrames, FirstFree, Taken, PO_FREE, Free
    <3>4. pageinfo'[Code].owner = 1
      BY <1>2, <3>2, <3>3
    <3> QED
      BY <2>1, <3>1, <3>2, <3>3, <3>4, CountedKept
  <2>5. ASSUME NEW i \in Pid, NoPageFrame(i, t) PROVE Counted'
    <3>1. /\ FirstFree(i) /\ Found(1) /\ Found(2)
          /\ pageinfo' = Undo(ForkedPageinfo(i, t), i, ForkedTable(t))
          /\ cpu' = cpu /\ table' = table /\ Active' = Active
      BY <2>5 DEF NoPageFrame, Return, Active
    <3>2. pageinfo'[Code].owner = 1 /\ \A g \in Frame \ {Code} : pageinfo'[g] = pageinfo[g]
      BY <1>1, <2>1, <2>2, <3>1, FailedForkKeeps
    <3> QED
      BY <3>1, <3>2, CountedKept
  <2>6. ASSUME NEW i \in Pid, NewChild(i, t) PROVE Counted'
    BY <1>1, <2>1, <2>2, <2>6, ForkCounted DEF NewChild
  <2> QED
    BY <1>8, <2>3, <2>4, <2>5, <2>6 DEF Fork
<1>9. CASE Reboot
  <2>1. Booted'
    BY <1>9 DEF Reboot, Booted
  <2>2. Counted'
    <3>1. ForkPrograms /\ Booted => Counted
      BY BootCounted
    <3>2. (ForkPrograms /\ Booted => Counted)'
      BY BootCounted, PTL
    <3> QED
      BY <2>1, <3>2 DEF ForkPrograms
  <2> QED
    BY <2>2
<1>10. CASE CheckFails \/ Getpid \/ SysPanic \/ UNCHANGED vars
  BY <1>3, <1>10 DEF CheckFails, Getpid, SysPanic, Panic, Return, Trap, vars
<1>11. CASE Yield \/ Timer
  BY <1>3, <1>11 DEF Yield, Timer, SwitchAway, Trap
<1> QED
  BY <1>4, <1>5, <1>6, <1>7, <1>8, <1>9, <1>10, <1>11 DEF Next

\* A set of numbers has a smallest one.
LEMMA SmallestOf == ASSUME NEW S \in SUBSET Nat, S # {} PROVE \E m \in S : \A n \in S : m <= n
<1>1. \E m \in S : \A n \in S : ~(<<n, m>> \in OpToRel(<, Nat))
  BY NatLessThanWellFounded, WFMin
<1>2. \A n \in S, m \in S : <<n, m>> \in OpToRel(<, Nat) <=> n < m
  BY DEF OpToRel
<1>3. PICK m \in S : \A n \in S : ~(n < m)
  BY <1>1, <1>2
<1> QED
  BY <1>3

\* While a process runs, memshow_virtual_animate comes to a process to draw.
LEMMA ShownIsThere ==
  ASSUME TypeOK, cpu = "user", NEW showing \in 0..NPROC
  PROVE  pstate[Shown(showing)] # "FREE"
<1> DEFINE S == Stops(showing)
<1>1. current \in Pid \ {0} /\ pstate[current] # "FREE" /\ current \in 1..(NPROC - 1)
  BY DEF TypeOK, Pid
<1>2. NPROC + current \in S
  <2>1. (NPROC + current) % NPROC = current
    BY <1>1
  <2>2. NPROC + current \in showing..(2 * NPROC + 1)
    BY <1>1
  <2> QED
    BY <1>1, <2>1, <2>2 DEF Stops
<1>3. S \in SUBSET Nat
  BY DEF Stops
<1>4. PICK m \in S : \A s \in S : m <= s
  BY <1>2, <1>3, SmallestOf
<1> DEFINE c == CHOOSE s \in S : \A r \in S : s <= r
<1>5. c \in S /\ \A r \in S : c <= r
  BY <1>4
<1>6. Shown(showing) = c % NPROC
  BY DEF Shown
<1> HIDE DEF c
<1>7. c <= NPROC + current /\ c \in Nat
  BY <1>2, <1>3, <1>5
<1>8. ~(c > 2 * NPROC)
  BY <1>1, <1>7
<1> QED
  BY <1>5, <1>6, <1>8 DEF Stops

\* What the kernel checks follows from the owners and the counts.
LEMMA CountedIsConsistent ==
  ASSUME IInv, Counted PROVE KernelInvariants /\ WriterAlone /\ NoLeak
<1> USE DEF IInv
<1>1. /\ pstate \in [Pid -> States] /\ pstate[0] = "FREE" /\ 1 \in Pid
      /\ table \in [Pid -> PageTable] /\ pageinfo \in [Frame -> Info] /\ Code \in Frame
  BY DEF TypeOK, Info, Pid, Code, Frame
<1>2. ASSUME NEW p \in Active, NEW x \in Place, Private(p, x)
      PROVE  FrameAt(p, x) \in Frame \ {Code} /\ pageinfo[FrameAt(p, x)].owner = p
  <2>1. pageinfo[FrameAt(p, x)].owner = p
    BY <1>2 DEF Owned
  <2>2. FrameAt(p, x) \in Frame
    BY <1>1 DEF FrameAt, PageTable, Mapping, Place, Active
  <2>3. FrameAt(p, x) # Code
    BY <1>2, <2>1 DEF Counted, CodeStays
  <2> QED
    BY <2>1, <2>2, <2>3
<1>3. ASSUME NEW p \in Active, NEW g \in {table[p].l1, table[p].l2}, cpu # "panic"
      PROVE  pageinfo[g] = Taken(p)
  <2>1. -1 \in Place /\ -2 \in Place /\ -1 \notin VPage /\ -2 \notin VPage
    BY DEF Place, VPage
  <2>2. PICK x \in {-1, -2} : FrameAt(p, x) = g
    BY <1>3 DEF FrameAt
  <2>3. Private(p, x) /\ x \in Place
    BY <2>1, <2>2 DEF Private
  <2>4. g \in Frame \ {Code} /\ pageinfo[g].owner = p
    BY <1>2, <2>2, <2>3
  <2>5. p \in Pid \ {0} /\ pageinfo[g] \in Info
    BY <1>1, <2>4 DEF Active
  <2>6. pageinfo[g].refcount = 1
    BY <1>3, <2>4, <2>5 DEF Counted, OwnedIsHeld
  <2> QED
    BY <2>4, <2>5, <2>6 DEF Taken, Info
<1>4. ASSUME NEW g \in Frame, cpu # "panic", pageinfo[g].refcount > 0, pageinfo[g].owner >= 0
      PROVE  pstate[pageinfo[g].owner] # "FREE"
  <2>1. pageinfo[g].owner # PO_FREE
    BY <1>4 DEF Counted, FreeIsUncounted
  <2>2. pageinfo[g].owner \in Pid \ {0}
    <3>1. pageinfo[g] \in Info
      BY <1>1
    <3> QED
      BY <1>4, <2>1, <3>1 DEF Info, PO_FREE, PO_RESERVED
  <2>3. CASE g = Code
    BY <2>3 DEF Counted, CodeStays
  <2>4. CASE g # Code
    BY <1>4, <2>2, <2>4 DEF Counted, OwnedIsHeld, Active
  <2> QED
    BY <2>3, <2>4
<1>5. cpu # "panic" => VirtualMemoryCheck
  BY <1>1, <1>3, <1>4 DEF VirtualMemoryCheck, Active
<1>6. KernelInvariants
  BY <1>5, ShownIsThere DEF KernelInvariants
<1>7. WriterAlone
  <2> SUFFICES ASSUME NEW p \in Active, NEW q \in Active, NEW x \in Place, NEW v \in VPage,
                      Private(p, x), FrameAt(p, x) = table[q].map[v].pn,
                      table[q].map[v].perm # "none"
               PROVE  p = q /\ x = v
    BY DEF WriterAlone
  <2>1. table[q].map[v].perm \in {"ro", "rw"}
    <3>1. table[q].map[v] \in Mapping
      BY <1>1 DEF PageTable, Active
    <3> QED
      BY <3>1 DEF Mapping
  <2>2. table[q].map[v].perm # "ro"
    BY <1>2 DEF Counted, ReadOnlyIsCode
  <2>3. v \in Place /\ Private(q, v) /\ FrameAt(q, v) = table[q].map[v].pn
    BY <2>1, <2>2 DEF Place, Private, FrameAt, VPage
  <2> QED
    BY <2>3, OwnedIsExclusive DEF Exclusive
<1>8. NoLeak
  <2> SUFFICES ASSUME cpu # "panic", NEW g \in Frame, NEW p \in Pid \ {0}, pageinfo[g].owner = p
               PROVE  References(table[p], g) > 0
    BY DEF NoLeak
  <2>1. table[p].l1 = g \/ table[p].l2 = g \/ \E v \in VPage : table[p].map[v].pn = g
    <3>1. CASE g = Code
      <4>1. p = 1 /\ table[1].map[Code].pn = Code /\ Code \in VPage
        BY <3>1 DEF Counted, CodeStays, Code, VPage
      <4> QED
        BY <3>1, <4>1
    <3>2. CASE g # Code
      <4>1. PICK x \in Place : FrameAt(p, x) = g
        BY <3>2 DEF Counted, OwnedIsHeld, Held
      <4> QED
        BY <4>1 DEF FrameAt, Place
    <3> QED
      BY <3>1, <3>2
  <2> QED
    BY <1>1, <2>1, HeldIsVisited
<1> QED
  BY <1>6, <1>7, <1>8

\* The states of the fork programs are exclusive and counted.
LEMMA CountedAlways == ASSUME ForkPrograms PROVE Spec => [](IInv /\ Counted)
<1>1. Init => IInv /\ Counted
  BY TypeInit, BootedExclusive, BootCounted DEF IInv, Init, Booted
<1>2. IInv /\ Counted /\ [Next]_vars => (IInv /\ Counted)'
  BY TypeStep, ExclusiveStep, CountedStep DEF IInv
<1> QED
  BY <1>1, <1>2, PTL DEF Spec

\* Whatever the fork programs do, the checks at the start of every handler
\* (virtual_memory_check) hold and memshow_virtual_animate draws a process.
THEOREM KernelIsConsistent == ASSUME ForkPrograms PROVE Spec => []KernelInvariants
<1>1. IInv /\ Counted => KernelInvariants
  BY CountedIsConsistent
<1> QED
  BY <1>1, CountedAlways, PTL

\* What one of the fork programs' processes writes, no other one reads
\* (copy_writable_page, virtual_memory_map).
THEOREM WritersAreAlone == ASSUME ForkPrograms PROVE Spec => []WriterAlone
<1>1. IInv /\ Counted => WriterAlone
  BY CountedIsConsistent
<1> QED
  BY <1>1, CountedAlways, PTL

\* No frame of the fork programs is lost, in a fork that fails or an exit
\* (fork, release_pagetable).
THEOREM NothingLeaks == ASSUME ForkPrograms PROVE Spec => []NoLeak
<1>1. IInv /\ Counted => NoLeak
  BY CountedIsConsistent
<1> QED
  BY <1>1, CountedAlways, PTL

===============================================================================
