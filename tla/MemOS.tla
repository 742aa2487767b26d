-------------------------------- MODULE MemOS ---------------------------------
(***************************************************************************)
(* The preemptive kernel of OS/WeensyOS/MemOS: processes with page tables, *)
(* the reference counts of physical frames (pageinfo), the system calls,   *)
(* faults and timer interrupts of exception(), and schedule().             *)
(*                                                                         *)
(* Interrupts are off while the kernel runs and every handler ends in      *)
(* run(), in schedule()'s loop or in panic(), so a handler is one atomic   *)
(* step.  Frames are page numbers, and so are virtual addresses.  Frame 0  *)
(* stands for all frames that are reserved or the kernel's; what a frame   *)
(* holds is modelled only where the kernel reads it, in page tables.       *)
(***************************************************************************)
EXTENDS Integers, FiniteSets

CONSTANTS NPROC,     \* size of processes[] (16)
          PSTART,    \* page of PROC_START_ADDR (256)
          NPAGES,    \* frames of physical memory (512)
          VTOP,      \* page of MEMSIZE_VIRTUAL (768)
          MaxRef,    \* the largest refcount, an int8_t (127)
          Boots,     \* how many processes the boot commands start ({1, 4})
          Events     \* what the applications and the user do

ASSUME NProcAssumption == NPROC \in Nat /\ NPROC >= 2
ASSUME MemoryAssumption ==
  /\ PSTART \in Nat /\ NPAGES \in Nat /\ VTOP \in Nat /\ MaxRef \in Nat \ {0}
  /\ PSTART < NPAGES /\ NPAGES < VTOP
\* The programs loaded at boot find their frames.
ASSUME BootAssumption ==
  /\ Boots \subseteq 1..(NPROC - 1)
  /\ \A n \in Boots : 3 * n < PSTART /\ PSTART + n <= NPAGES

VARIABLES pstate,    \* p_state of each descriptor
          table,     \* p_pagetable: the frames of its two levels, and for each
                     \* user page its frame and permission
          pageinfo,  \* owner and refcount of each frame
          ret,       \* %eax of the process that a handler went back to, 0 when
                     \* the handler returns nothing
          current,   \* the running process
          cpu        \* "user": current runs; "idle": schedule() finds nothing to
                     \* run; "panic"

vars == <<pstate, table, pageinfo, ret, current, cpu>>

Pid    == 0..(NPROC - 1)
Frame  == 0..(NPAGES - 1)
VPage  == PSTART..(VTOP - 1)      \* below PSTART every table maps the kernel
States == {"FREE", "RUNNABLE", "BROKEN"}
RefCount == (-(MaxRef + 1))..MaxRef

PO_FREE     == 0
PO_RESERVED == -1

Unmapped  == [pn |-> 0, perm |-> "none"]
NoTable   == [l1 |-> 0, l2 |-> 0, map |-> [v \in VPage |-> Unmapped]]
Mapping   == [pn : Frame, perm : {"none", "ro", "rw"}]
PageTable == [l1 : Frame, l2 : Frame, map : [VPage -> Mapping]]

-------------------------------------------------------------------------------
(* Boot. *)

\* process_setup(p): two table frames and a stack frame, first fit, and one
\* read-only frame of code at its own physical address.
BootTable(p) ==
  [l1 |-> 3 * p - 2, l2 |-> 3 * p - 1,
   map |-> [v \in VPage |->
              IF v = PSTART + p - 1 THEN [pn |-> v, perm |-> "ro"]
              ELSE IF v = VTOP - 1 THEN [pn |-> 3 * p, perm |-> "rw"]
              ELSE Unmapped]]

BootOwner(n, g) ==
  CASE g = 0 -> PO_RESERVED
    [] g \in 1..(3 * n) -> (g + 2) \div 3
    [] g \in PSTART..(PSTART + n - 1) -> g - PSTART + 1
    [] OTHER -> PO_FREE

BootState(n)    == [p \in Pid |-> IF p \in 1..n THEN "RUNNABLE" ELSE "FREE"]
BootTables(n)   == [p \in Pid |-> IF p \in 1..n THEN BootTable(p) ELSE NoTable]
BootPageinfo(n) == [g \in Frame |->
                      [owner |-> BootOwner(n, g),
                       refcount |-> IF BootOwner(n, g) = PO_FREE THEN 0 ELSE 1]]

Init ==
  /\ \E n \in Boots : /\ pstate = BootState(n)
                      /\ table = BootTables(n)
                      /\ pageinfo = BootPageinfo(n)
  /\ ret = 0 /\ current = 1 /\ cpu = "user"

-------------------------------------------------------------------------------
(* Frames. *)

\* refcount is an int8_t.
Wrap(n) == ((n + MaxRef + 1) % (2 * (MaxRef + 1))) - (MaxRef + 1)

\* Mutant: a frame is free when its refcount is 0.
FreeByRefcount == {g \in Frame : pageinfo[g].refcount = 0}

\* The frames find_free_physic_page can return.
Free == {g \in Frame : pageinfo[g].owner = PO_FREE}

\* find_free_physic_page returns the free frames in order: IsNth(i, g) if g is
\* what the i-th call from now returns.
IsNth(i, g) == g \in Free /\ Cardinality({h \in Free : h <= g}) = i
Found(i) == \E g \in Free : IsNth(i, g)
Nth(i)   == CHOOSE g \in Free : IsNth(i, g)

Taken(p) == [owner |-> p, refcount |-> 1]

\* Mutant: exit releases what is mapped, and forgets the table itself.
UserReferences(t, g) == Cardinality({v \in VPage : t.map[v].pn = g})

\* How often release_pagetable and the release_page after it visit frame g of
\* a process with table t.
References(t, g) == Cardinality({v \in VPage : t.map[v].pn = g})
                    + (IF g = t.l2 THEN 1 ELSE 0) + (IF g = t.l1 THEN 1 ELSE 0)

\* release_page, n times, of a frame with entry e: only its owner counts.
ReleasePage(e, p, n) ==
  IF e.owner # p \/ e.refcount <= 0 THEN e
  ELSE IF e.refcount > n THEN [e EXCEPT !.refcount = @ - n]
  ELSE [owner |-> PO_FREE, refcount |-> 0]

\* release_pagetable and release_page of p_pagetable.
ReleaseTable(info, p, t) ==
  [g \in Frame |-> ReleasePage(info[g], p, References(t, g))]

-------------------------------------------------------------------------------
(* The check at the start of each handler, and the scheduler. *)

\* virtual_memory_check.
VirtualMemoryCheck ==
  /\ pstate[0] = "FREE"
  /\ \A p \in Pid : pstate[p] # "FREE" => /\ pageinfo[table[p].l1] = Taken(p)
                                          /\ pageinfo[table[p].l2] = Taken(p)
  /\ \A g \in Frame : LET e == pageinfo[g] IN
       e.refcount > 0 /\ e.owner >= 0 => pstate[e.owner] # "FREE"

\* memshow_virtual_animate: the process whose page table is drawn, if it is not
\* free, when the one drawn last was showing or the next one's turn has come.
Stops(showing) ==
  {s \in showing..(2 * NPROC + 1) : s > 2 * NPROC \/ pstate[s % NPROC] # "FREE"}
Shown(showing) == (CHOOSE s \in Stops(showing) : \A t \in Stops(showing) : s <= t) % NPROC

\* current traps into the kernel, which finds its memory in order.
Trap(event) == cpu = "user" /\ event \in Events /\ VirtualMemoryCheck

\* Mutant: schedule() scans from the start of the table.
DistanceFromZero(p) == p

\* How far schedule() looks before it comes to p.
Distance(p) == IF p > current THEN p - current ELSE p - current + NPROC

\* schedule() over the states st.
Schedule(st) ==
  \/ \E p \in Pid :
       /\ st[p] = "RUNNABLE"
       /\ \A q \in Pid : st[q] = "RUNNABLE" => Distance(p) <= Distance(q)
       /\ current' = p
       /\ cpu' = "user"
  \/ /\ \A p \in Pid : st[p] # "RUNNABLE"
     /\ current' = current
     /\ cpu' = "idle"

Panic == cpu' = "panic" /\ ret' = 0 /\ UNCHANGED <<pstate, table, current>>

CheckFails ==
  /\ cpu = "user" /\ ~VirtualMemoryCheck
  /\ Panic /\ UNCHANGED pageinfo

-------------------------------------------------------------------------------
(* System calls, faults and interrupts. *)

Return(r) == ret' = r /\ UNCHANGED <<current, cpu>>

Getpid == /\ Trap("getpid")
          /\ Return(current)
          /\ UNCHANGED <<pstate, table, pageinfo>>

\* sys_yield and the timer interrupt.
SwitchAway(event) == /\ Trap(event)
                     /\ Schedule(pstate)
                     /\ ret' = 0
                     /\ UNCHANGED <<pstate, table, pageinfo>>
Yield == SwitchAway("yield")
Timer == SwitchAway("timer")

SysPanic == Trap("panic") /\ Panic /\ UNCHANGED pageinfo

\* A user page fault.  The process keeps its memory.
PageFault == /\ Trap("fault")
             /\ pstate' = [pstate EXCEPT ![current] = "BROKEN"]
             /\ Schedule(pstate')
             /\ ret' = 0
             /\ UNCHANGED <<table, pageinfo>>

\* Whether the application that runs exits: any of them ("exit") or only those
\* that were forked ("childexit"), as in p-forkexit.c.
Exits == Trap("exit") \/ (Trap("childexit") /\ current # 1)

Exit ==
  /\ Exits
  /\ pageinfo' = ReleaseTable(pageinfo, current, table[current])
  /\ table' = [table EXCEPT ![current] = NoTable]
  /\ pstate' = [pstate EXCEPT ![current] = "FREE"]
  /\ Schedule(pstate')
  /\ ret' = 0

\* The addresses applications pass to sys_page_alloc: unmapped ones ("alloc")
\* or also pages in use, the kernel's and the stack's ("remap").
Asks(a) == \/ Trap("alloc") /\ a \in VPage /\ table[current].map[a] = Unmapped
           \/ Trap("remap") /\ a \in {PSTART - 1, VTOP} \cup VPage
Allocatable(a) == PSTART <= a /\ a < VTOP - 1

PageAlloc ==
  \E a \in (PSTART - 1)..VTOP :
    /\ Asks(a)
    /\ \/ /\ Allocatable(a) /\ Found(1)
          /\ pageinfo' = [pageinfo EXCEPT ![Nth(1)] = Taken(current)]
          /\ table' = [table EXCEPT ![current].map[a] =
                                      [pn |-> Nth(1), perm |-> "rw"]]
          /\ Return(1)
       \/ /\ Allocatable(a) => ~Found(1)
          /\ Return(-1)
          /\ UNCHANGED <<table, pageinfo>>
    /\ UNCHANGED pstate

\* An address within a page: virtual_memory_map's assertion fails.
AllocUnaligned ==
  /\ Trap("unaligned") /\ Found(1)
  /\ pageinfo' = [pageinfo EXCEPT ![Nth(1)] = Taken(current)]
  /\ Panic

-------------------------------------------------------------------------------
(* sys_fork. *)

\* Mutant: the scan starts at slot 0.
FirstFreeFromZero(i) == /\ pstate[i] = "FREE"
                        /\ \A j \in Pid : j < i => pstate[j] # "FREE"

\* The slot fork() takes: the first free one.
FirstFree(i) == /\ i \in Pid \ {0} /\ pstate[i] = "FREE"
                /\ \A j \in 1..(i - 1) : pstate[j] # "FREE"

\* Mutant: the copying loop ends a page early, at the stack.
CopiedBelowStack(t) == {v \in VPage : t.map[v].perm = "rw" /\ v < VTOP - 1}

\* The pages of table t that copy_writable_page copies; the child shares the
\* frames of the others.
Copied(t) == {v \in VPage : t.map[v].perm = "rw"}
Shared(t) == {v \in VPage \ Copied(t) : t.map[v].perm # "none"}

\* The copy of page v takes the frame after those of the child's two tables and
\* of the pages before v.
Turn(t, v)    == 2 + Cardinality({w \in Copied(t) : w <= v})
Reached(t, v) == \A w \in Copied(t) : w <= v => Found(Turn(t, w))

\* Where the loop is when it takes frame g, if it does: just before the first
\* page for the tables' frames.
TakenAt(t, g) ==
  {v \in Copied(t) : Reached(t, v) /\ IsNth(Turn(t, v), g)}
    \cup {a \in {PSTART - 1} : IsNth(1, g) \/ IsNth(2, g)}

\* How often the loop counts frame g as shared after page a.
Shares(t, g, a) ==
  Cardinality({v \in Shared(t) : Reached(t, v) /\ t.map[v].pn = g /\ v > a})

\* pageinfo after the loop, for a child p with table t to copy.
ForkedPageinfo(p, t) ==
  [g \in Frame |->
     IF TakenAt(t, g) = {}
     THEN [owner |-> pageinfo[g].owner,
           refcount |-> Wrap(pageinfo[g].refcount + Shares(t, g, PSTART - 1))]
     ELSE [owner |-> p,
           refcount |-> Wrap(1 + Shares(t, g, CHOOSE a \in TakenAt(t, g) : TRUE))]]

\* The child's table after the loop.
ForkedTable(t) ==
  [l1 |-> Nth(1), l2 |-> Nth(2),
   map |-> [v \in VPage |-> IF v \in Copied(t) /\ Reached(t, v)
                            THEN [pn |-> Nth(Turn(t, v)), perm |-> t.map[v].perm]
                            ELSE t.map[v]]]

\* Mutant: a fork that fails gives only its tables back.
ReleaseTablesOnly(info, p, t) ==
  [g \in Frame |-> ReleasePage(info[g], p, IF g \in {t.l1, t.l2} THEN 1 ELSE 0)]

\* What fork() undoes when memory runs out.
Undo(info, p, t) == ReleaseTable(info, p, t)

NoSlot == /\ \A i \in Pid : ~FirstFree(i)
          /\ Return(-1)
          /\ UNCHANGED <<pstate, table, pageinfo>>

\* copy_pagetable fails, and fork() looks for the child's table at address -1.
NoTableFrames(i) ==
  /\ FirstFree(i) /\ ~Found(2)
  /\ pageinfo' = [g \in Frame |-> IF IsNth(1, g) THEN Taken(i) ELSE pageinfo[g]]
  /\ Panic

NoPageFrame(i, t) ==
  /\ FirstFree(i) /\ Found(1) /\ Found(2)
  /\ \E v \in Copied(t) : ~Reached(t, v)
  /\ pageinfo' = Undo(ForkedPageinfo(i, t), i, ForkedTable(t))
  /\ Return(-1)
  /\ UNCHANGED <<pstate, table>>

NewChild(i, t) ==
  /\ FirstFree(i) /\ Found(1) /\ Found(2)
  /\ \A v \in Copied(t) : Reached(t, v)
  /\ pageinfo' = ForkedPageinfo(i, t)
  /\ table' = [table EXCEPT ![i] = ForkedTable(t)]
  /\ pstate' = [pstate EXCEPT ![i] = "RUNNABLE"]
  /\ Return(i)

Fork ==
  /\ Trap("fork")
  /\ \/ NoSlot
     \/ \E i \in Pid : \/ NoTableFrames(i)
                       \/ NoPageFrame(i, table[current])
                       \/ NewChild(i, table[current])

-------------------------------------------------------------------------------
\* check_keyboard, called by each handler and by the loops of schedule() and
\* panic(): a key starts the kernel again.
Reboot ==
  /\ "reboot" \in Events
  /\ cpu = "user" => VirtualMemoryCheck
  /\ \E n \in Boots : /\ pstate' = BootState(n)
                      /\ table' = BootTables(n)
                      /\ pageinfo' = BootPageinfo(n)
  /\ ret' = 0 /\ current' = 1 /\ cpu' = "user"

Next == CheckFails \/ Getpid \/ Yield \/ Timer \/ SysPanic \/ PageFault \/ Exit
          \/ PageAlloc \/ AllocUnaligned \/ Fork \/ Reboot

Spec == Init /\ [][Next]_vars

\* The timer interrupts every process that goes on running.
FairSpec == Spec /\ WF_vars(Timer)

-------------------------------------------------------------------------------
(* Properties. *)

\* Types; slot 0 is never used and only an application that is runnable runs.
TypeOK ==
  /\ pstate \in [Pid -> States] /\ pstate[0] = "FREE"
  /\ table \in [Pid -> PageTable]
  /\ pageinfo \in [Frame -> [owner : {PO_RESERVED, PO_FREE} \cup Pid,
                             refcount : RefCount]]
  /\ ret \in {-1, 1} \cup Pid
  /\ current \in Pid \ {0}
  /\ cpu \in {"user", "idle", "panic"}
  /\ cpu = "user" => pstate[current] = "RUNNABLE"

Active == {p \in Pid : pstate[p] # "FREE"}

\* The frames a process has to itself: those of its two tables (written as
\* pages -1 and -2) and the ones it can write.
Place == {-1, -2} \cup VPage
FrameAt(p, x) == CASE x = -1 -> table[p].l1
                   [] x = -2 -> table[p].l2
                   [] OTHER -> table[p].map[x].pn
Private(p, x) == x \in VPage => table[p].map[x].perm = "rw"

\* Whatever the applications do, a frame that a process can write, or that holds
\* its page table, is its own: no other process writes it or has its table in
\* it, and neither does the process itself at another address
\* (find_free_physic_page, copy_writable_page, release_page).
Exclusive ==
  \A p, q \in Active : \A x, y \in Place :
    /\ Private(p, x) => pageinfo[FrameAt(p, x)].owner = p
    /\ Private(p, x) /\ Private(q, y) /\ FrameAt(p, x) = FrameAt(q, y)
         => p = q /\ x = y

\* With the applications of the repository, what a process writes no other
\* process sees, not even through a page it can only read.
WriterAlone ==
  \A p, q \in Active : \A x \in Place, v \in VPage :
    /\ Private(p, x) /\ FrameAt(p, x) = table[q].map[v].pn
    /\ table[q].map[v].perm # "none"
    => p = q /\ x = v

\* virtual_memory_check finds nothing wrong: its assertions hold whenever a
\* process can trap.  And whatever processes have come and gone, the page table
\* that is then drawn is that of a process that is there.
KernelInvariants ==
  cpu = "user" => /\ VirtualMemoryCheck
                  /\ \A showing \in 0..NPROC : pstate[Shown(showing)] # "FREE"

\* No frame is lost: while the kernel runs, a frame that belongs to a process is
\* one that this process's exit would visit, also after a fork that failed half
\* way.
NoLeak ==
  cpu # "panic" => \A g \in Frame : pageinfo[g].owner \in Pid \ {0} =>
                     References(table[pageinfo[g].owner], g) > 0

\* A process that can run does run, or its slot changes hands or the kernel stops.
NoStarvation ==
  \A p \in Pid \ {0} : pstate[p] = "RUNNABLE" ~>
                         current = p \/ pstate[p] # "RUNNABLE" \/ cpu = "panic"
===============================================================================
