------------------------------ MODULE MiniprocOS ------------------------------
(***************************************************************************)
(* The cooperative kernel of OS/WeensyOS/MiniprocOS: the process table,    *)
(* the system calls of interrupt() and the round-robin schedule().         *)
(*                                                                         *)
(* The kernel runs one handler at a time and the handler always ends in    *)
(* run(), so a system call is one atomic step of the process "current".    *)
(* The kernel's own state is proc_array, split here into one function per  *)
(* field.  p_pid is the index and never changes.  Of the saved registers   *)
(* the model keeps %eax (the argument and the result of a call) and %esp   *)
(* (where the process's stack is); the code a process runs (%eip) is any   *)
(* code, since every action below is offered to every process.             *)
(***************************************************************************)
EXTENDS Integers, FiniteSets

CONSTANTS NPROCS,      \* size of proc_array (16 in const.h)
          StackSize,   \* PROC_STACK_SIZE, in stack words
          Statuses,    \* the statuses applications pass to sys_exit
          Syscalls     \* the system calls the applications make

ASSUME NProcsAssumption == NPROCS \in Nat /\ NPROCS >= 2
ASSUME StackAssumption  == StackSize \in Nat
ASSUME StatusAssumption == Statuses \subseteq Nat

VARIABLES pstate,      \* p_state of each descriptor
          waitingQ,    \* waitingQ[p]: the pids i with proc_array[p].waitingQ[i] = 1
          exitStatus,  \* p_exit_status
          regs,        \* p_registers, as [eax, esp]
          current,     \* the running process
          cpu          \* "user": current runs; "idle": schedule() found nothing
                       \* to run; "hung": interrupt() took its default branch

vars == <<pstate, waitingQ, exitStatus, regs, current, cpu>>

Pid   == 0..(NPROCS - 1)

\* Mutant: the loops over the table start at entry 0.
SlotsFromZero == 0..(NPROCS - 1)

\* The entries the loops over the table visit: proc_array[0] is never used.
Slots == 1..(NPROCS - 1)
PidArgs == (-1)..NPROCS           \* in and out of range

States    == {"EMPTY", "RUNNABLE", "BLOCKED", "ZOMBIE"}
Registers == [eax : Int, esp : Int]

\* The top of p's stack; stacks lie one after the other and grow down.
StackTop(p) == p * StackSize

Live(p) == pstate[p] \in {"RUNNABLE", "BLOCKED"}

-------------------------------------------------------------------------------
Init ==
  /\ pstate = [p \in Pid |-> IF p = 1 THEN "RUNNABLE" ELSE "EMPTY"]
  /\ waitingQ = [p \in Pid |-> {}]
  /\ exitStatus = [p \in Pid |-> 0]
  /\ regs = [p \in Pid |-> [eax |-> 0, esp |-> IF p = 1 THEN StackTop(1) ELSE 0]]
  /\ current = 1
  /\ cpu = "user"

\* The application that runs may make system call "call".
Running(call) == cpu = "user" /\ call \in Syscalls

\* The registers saved on entry to interrupt(): the application has put a in
\* %eax and its stack is d words deep.
Trap(a, d) == [eax |-> a, esp |-> StackTop(current) - d]
Depths == 0..StackSize

\* Mutant: the scan starts over at entry 0 instead of after current.
DistanceFromZero(p) == p

\* How far schedule() must look before it comes to p: it starts at the entry
\* after current, and current itself comes last.
Distance(p) == IF p > current THEN p - current ELSE p - current + NPROCS

\* Mutant: schedule() runs every entry in use.
InUse(s) == s # "EMPTY"

\* The states schedule() looks for.
CanRun(s) == s = "RUNNABLE"

\* schedule() over the states st: switch to the first runnable process after
\* current, or spin for ever.
Schedule(st) ==
  \/ \E p \in Pid :
       /\ CanRun(st[p])
       /\ \A q \in Pid : CanRun(st[q]) => Distance(p) <= Distance(q)
       /\ current' = p
       /\ cpu' = cpu
  \/ /\ \A p \in Pid : ~CanRun(st[p])
     /\ current' = current
     /\ cpu' = "idle"

-------------------------------------------------------------------------------
Getpid ==
  /\ Running("getpid")
  /\ \E d \in Depths : regs' = [regs EXCEPT ![current] = Trap(current, d)]
  /\ UNCHANGED <<pstate, waitingQ, exitStatus, current, cpu>>

\* The entry do_fork and do_newthread take: the first empty one.
FirstEmpty(i) == /\ pstate[i] = "EMPTY"
                 /\ \A j \in Slots : j < i => pstate[j] # "EMPTY"

\* Mutant: the child goes on using the parent's stack pointer.
SameStack(dest, src, esp) == esp

\* copy_stack: the child's stack pointer is as far below the top of its stack
\* as the parent's is below the parent's.  (What the stack holds is left out.)
CopyStack(dest, src, esp) == StackTop(dest) - (StackTop(src) - esp)

\* Mutant: the new process keeps the queue its entry had before.
StaleQueue(i) == waitingQ[i]

\* The memset of the new process's queue.
FreshQueue(i) == {}

\* Make entry i a process that starts with stack pointer esp and sees 0; the
\* caller, whose saved registers are r, sees the new pid.
Create(i, esp, r) ==
  /\ pstate' = [pstate EXCEPT ![i] = "RUNNABLE"]
  /\ waitingQ' = [waitingQ EXCEPT ![i] = FreshQueue(i)]
  /\ regs' = [regs EXCEPT ![i] = [eax |-> 0, esp |-> esp],
                          ![current] = [r EXCEPT !.eax = i]]

\* No entry is empty: the caller sees -1.
CannotCreate(r) ==
  /\ \A i \in Slots : pstate[i] # "EMPTY"
  /\ regs' = [regs EXCEPT ![current] = [r EXCEPT !.eax = -1]]
  /\ UNCHANGED <<pstate, waitingQ>>

Fork ==
  /\ Running("fork")
  /\ \E d \in Depths : LET r == Trap(0, d) IN
       \/ \E i \in Slots : /\ FirstEmpty(i)
                           /\ Create(i, CopyStack(i, current, r.esp), r)
       \/ CannotCreate(r)
  /\ UNCHANGED <<exitStatus, current, cpu>>

\* A thread starts on an empty stack of its own.
Newthread ==
  /\ Running("thread")
  /\ \E d \in Depths : LET r == Trap(0, d) IN
       \/ \E i \in Slots : FirstEmpty(i) /\ Create(i, StackTop(i), r)
       \/ CannotCreate(r)
  /\ UNCHANGED <<exitStatus, current, cpu>>

-------------------------------------------------------------------------------
\* The loop at the end of a process: every process in queue W is made runnable
\* and gets status, and the queue's owner, whose other entries are in st and
\* whose registers are in rg, leaves the table if W is not empty.
StatesAfterWake(st, W) ==
  [p \in Pid |-> IF p = current /\ W # {} THEN "EMPTY"
                 ELSE IF p \in W THEN "RUNNABLE" ELSE st[p]]

RegsAfterWake(rg, W, status) ==
  [p \in Pid |-> IF p \in W THEN [rg[p] EXCEPT !.eax = status] ELSE rg[p]]

\* sys_kill of target: the loop wakes the processes that wait for the caller.
KillProcess(target, r) ==
  LET W == waitingQ[current] IN
  /\ pstate' = StatesAfterWake([pstate EXCEPT ![target] = "ZOMBIE"], W)
  /\ exitStatus' = [exitStatus EXCEPT ![target] = -1]
  /\ regs' = RegsAfterWake([regs EXCEPT ![current] = r], W, -1)

\* sys_kill refuses these pids ...
CannotKill(p) == p \in Slots => p = current \/ pstate[p] = "EMPTY"

\* Mutant: a process that has exited is killed again.
NeverDead(p) == FALSE

\* ... and has nothing to do for these.
AlreadyDead(p) == p \in Slots /\ p # current /\ pstate[p] = "ZOMBIE"

\* A successful kill leaves its argument in %eax.
Kill ==
  /\ Running("kill")
  /\ \E a \in PidArgs, d \in Depths : LET r == Trap(a, d) IN
       \/ /\ CannotKill(a)
          /\ regs' = [regs EXCEPT ![current] = [r EXCEPT !.eax = -1]]
          /\ UNCHANGED <<pstate, exitStatus>>
       \/ /\ AlreadyDead(a)
          /\ regs' = [regs EXCEPT ![current] = [r EXCEPT !.eax = 0]]
          /\ UNCHANGED <<pstate, exitStatus>>
       \/ ~CannotKill(a) /\ ~AlreadyDead(a) /\ KillProcess(a, r)
  /\ UNCHANGED <<waitingQ, current, cpu>>

Yield ==
  /\ Running("yield")
  /\ \E d \in Depths : regs' = [regs EXCEPT ![current] = Trap(regs[current].eax, d)]
  /\ Schedule(pstate)
  /\ UNCHANGED <<pstate, waitingQ, exitStatus>>

\* Mutant: the loop gives up after it has woken one waiter.
WakeOne(p) == {q \in waitingQ[p] : \A o \in waitingQ[p] : q <= o}

\* The processes sys_exit of p wakes.
Waiters(p) == waitingQ[p]

\* sys_exit.
Exit ==
  /\ Running("exit")
  /\ \E status \in Statuses, d \in Depths :
       LET W  == Waiters(current)
           st == StatesAfterWake([pstate EXCEPT ![current] = "ZOMBIE"], W)
       IN /\ pstate' = st
          /\ exitStatus' = [exitStatus EXCEPT ![current] = status]
          /\ regs' = RegsAfterWake([regs EXCEPT ![current] = Trap(status, d)], W, status)
          /\ Schedule(st)
  /\ UNCHANGED waitingQ

\* sys_wait refuses these pids.
CannotWait(p) == p \in Slots => p = current \/ pstate[p] = "EMPTY"

\* sys_wait of a process that has exited frees its entry.
Reap(p) == [pstate EXCEPT ![p] = "EMPTY"]

\* Mutant: a caller of sys_wait blocks on a dead process too.
ExitedNever(p) == FALSE

\* sys_wait finds the exit status of p in the table.
Exited(p) == p \in Slots /\ pstate[p] = "ZOMBIE"

\* sys_wait: fail, take the status of a zombie, or block; then schedule() in
\* each case.
Wait ==
  /\ Running("wait")
  /\ \E a \in PidArgs, d \in Depths : LET r == Trap(a, d) IN
       \/ /\ CannotWait(a)
          /\ regs' = [regs EXCEPT ![current] = [r EXCEPT !.eax = -1]]
          /\ UNCHANGED <<pstate, waitingQ>>
          /\ Schedule(pstate)
       \/ /\ ~CannotWait(a) /\ Exited(a)
          /\ regs' = [regs EXCEPT ![current] = [r EXCEPT !.eax = exitStatus[a]]]
          /\ pstate' = Reap(a)
          /\ UNCHANGED waitingQ
          /\ Schedule(pstate')
       \/ /\ ~CannotWait(a) /\ ~Exited(a)
          /\ regs' = [regs EXCEPT ![current] = r]
          /\ waitingQ' = [waitingQ EXCEPT ![a] = @ \cup {current}]
          /\ pstate' = [pstate EXCEPT ![current] = "BLOCKED"]
          /\ Schedule(pstate')
  /\ UNCHANGED exitStatus

\* The default branch of interrupt(): the kernel spins.
UnknownCall ==
  /\ Running("unknown")
  /\ \E d \in Depths : regs' = [regs EXCEPT ![current] = Trap(@.eax, d)]
  /\ cpu' = "hung"
  /\ UNCHANGED <<pstate, waitingQ, exitStatus, current>>

Next == \/ Getpid \/ Fork \/ Newthread \/ Kill
        \/ Yield \/ Exit \/ Wait \/ UnknownCall

Spec == Init /\ [][Next]_vars

\* The applications are cooperative: one that runs comes back to a call that
\* ends in schedule().
FairSpec == Spec /\ WF_vars(Yield \/ Exit \/ Wait)

-------------------------------------------------------------------------------
(***************************************************************************)
(* Properties of every application.                                        *)
(***************************************************************************)

\* The variables have their types and entry 0 of the table, which the loops of
\* kernel.c start after, never becomes a process.
TypeOK ==
  /\ pstate \in [Pid -> States] /\ pstate[0] = "EMPTY"
  /\ waitingQ \in [Pid -> SUBSET Slots]
  /\ exitStatus \in [Pid -> Int]
  /\ regs \in [Pid -> Registers]
  /\ current \in Pid \ {0}
  /\ cpu \in {"user", "idle", "hung"}

\* do_fork, do_newthread and copy_stack give every process a stack pointer in
\* its own stack region, whatever chain of forks it came from.
OwnStack == \A p \in Slots : pstate[p] # "EMPTY" =>
              regs[p].esp \in (StackTop(p) - StackSize)..StackTop(p)

\* The status of a process that has ended stays as it was, whoever is killed or
\* ends, until a sys_wait takes it: that call returns it and frees the entry.  It
\* is lost in one way only, if the queue of the running process names the entry
\* still, and the end of that process makes it runnable again.
StatusIsCollected ==
  [][\A p \in Slots : pstate[p] = "ZOMBIE" =>
       \/ pstate'[p] = "ZOMBIE" /\ exitStatus'[p] = exitStatus[p]
       \/ pstate'[p] = "EMPTY" /\ regs'[current].eax = exitStatus[p]
       \/ pstate'[p] = "RUNNABLE" /\ p \in waitingQ[current]]_vars

(***************************************************************************)
(* Properties of applications that do not call sys_kill.                   *)
(***************************************************************************)

\* interrupt() always returns to a process that the table says is runnable.
RunningIsRunnable == cpu = "user" => pstate[current] = "RUNNABLE"

\* A process blocked in sys_wait is in the queue of a process that can still
\* exit and wake it.
NoLostWaiter ==
  \A p \in Slots : pstate[p] = "BLOCKED" =>
    \E q \in Slots : Live(q) /\ p \in waitingQ[q]

\* The queue of a live process holds blocked processes only, so sys_exit wakes
\* none that has gone on, has ended, or is another process in a reused entry;
\* and a process is in one such queue at most, so it is woken once.
QueuesAreCurrent ==
  \A q \in Slots : Live(q) =>
    \A p \in waitingQ[q] :
      /\ pstate[p] = "BLOCKED"
      /\ \A r \in Slots : Live(r) /\ p \in waitingQ[r] => r = q

Awaits(p, q) == pstate[p] = "BLOCKED" /\ Live(q) /\ p \in waitingQ[q]

\* How the table is seen as the service of ProcessService: a process is live
\* while its entry is RUNNABLE or BLOCKED, dead while it is a ZOMBIE, and waits
\* for the live process whose queue it is in.
Life     == [p \in Slots |-> IF Live(p) THEN "live"
                             ELSE IF pstate[p] = "ZOMBIE" THEN "dead" ELSE "none"]
Left     == [p \in Slots |-> IF pstate[p] = "ZOMBIE" THEN exitStatus[p] ELSE 0]
WaitsFor == [p \in Slots |-> IF \E q \in Slots : Awaits(p, q)
                             THEN CHOOSE q \in Slots : Awaits(p, q) ELSE 0]
Results  == [p \in Slots |-> regs[p].eax]

Service == INSTANCE ProcessService WITH
  Proc <- Slots, Nobody <- 0,
  life <- Life, left <- Left, waitsFor <- WaitsFor, result <- Results

\* The kernel implements the service of process.h but for one thing, which the
\* service it is held against says: where process.h:166 has one of several waiters
\* get the status of a process and the others -1, they all get it.
ImplementsService == Service!SharedSpec

\* schedule() goes round: a runnable process is run, however the others yield,
\* wait, fork and exit.
NoStarvation == \A p \in Slots : pstate[p] = "RUNNABLE" ~> current = p
===============================================================================
