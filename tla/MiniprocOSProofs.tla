---------------------------- MODULE MiniprocOSProofs ----------------------------
(***************************************************************************)
(* Theorems about MiniprocOS for every size of the process table, every    *)
(* stack size and every set of exit statuses.                              *)
(***************************************************************************)
EXTENDS MiniprocOS, TLAPS

USE NProcsAssumption, StackAssumption, StatusAssumption

LEMMA PidFacts == Slots = Pid \ {0} /\ 1 \in Slots /\ 0 \in Pid /\ Pid \subseteq Int
BY DEF Slots, Pid

LEMMA StackTopInt == \A p \in Pid : StackTop(p) \in Int
BY DEF StackTop, Pid

\* The registers saved on a trap are registers, and lie in the stack of current.
LEMMA TrapType ==
  ASSUME current \in Pid, NEW a \in Int, NEW d \in Depths
  PROVE  /\ Trap(a, d) \in Registers
         /\ Trap(a, d).eax = a
         /\ Trap(a, d).esp \in (StackTop(current) - StackSize)..StackTop(current)
BY StackTopInt DEF Trap, Registers, Depths

\* schedule() switches to a runnable process of the table or stays and idles.
LEMMA ScheduleResult ==
  ASSUME NEW st \in [Pid -> States], st[0] = "EMPTY", current \in Pid \ {0},
         cpu = "user", Schedule(st)
  PROVE  /\ current' \in Pid \ {0}
         /\ cpu' \in {"user", "idle"}
         /\ cpu' = "user" => st[current'] = "RUNNABLE"
<1>1. CASE \E p \in Pid : CanRun(st[p]) /\ current' = p /\ cpu' = cpu
  BY <1>1 DEF CanRun
<1>2. CASE current' = current /\ cpu' = "idle"
  BY <1>2
<1> QED  BY <1>1, <1>2 DEF Schedule

\* The wake loop keeps the types and touches entry 0 no more than the rest.
LEMMA WakeType ==
  ASSUME NEW st \in [Pid -> States], st[0] = "EMPTY", current \in Pid \ {0},
         NEW W \in SUBSET Slots, NEW rg \in [Pid -> Registers], NEW s \in Int
  PROVE  /\ StatesAfterWake(st, W) \in [Pid -> States]
         /\ StatesAfterWake(st, W)[0] = "EMPTY"
         /\ RegsAfterWake(rg, W, s) \in [Pid -> Registers]
<1>1. StatesAfterWake(st, W) \in [Pid -> States]
  BY DEF StatesAfterWake, States
<1>2. StatesAfterWake(st, W)[0] = "EMPTY"
  BY PidFacts DEF StatesAfterWake
<1>3. RegsAfterWake(rg, W, s) \in [Pid -> Registers]
  BY DEF RegsAfterWake, Registers
<1> QED  BY <1>1, <1>2, <1>3

LEMMA InitType == Init => TypeOK
BY PidFacts, StackTopInt DEF Init, TypeOK, States, Registers

LEMMA CreateType ==
  ASSUME TypeOK, NEW i \in Slots, NEW esp \in Int, NEW r \in Registers,
         Create(i, esp, r)
  PROVE  /\ pstate' \in [Pid -> States] /\ pstate'[0] = "EMPTY"
         /\ waitingQ' \in [Pid -> SUBSET Slots]
         /\ regs' \in [Pid -> Registers]
BY PidFacts DEF TypeOK, Create, FreshQueue, States, Registers

LEMMA CannotCreateType ==
  ASSUME TypeOK, NEW r \in Registers, CannotCreate(r)
  PROVE  regs' \in [Pid -> Registers] /\ UNCHANGED <<pstate, waitingQ>>
BY DEF TypeOK, CannotCreate, Registers

LEMMA StepType == TypeOK /\ [Next]_vars => TypeOK'
<1> SUFFICES ASSUME TypeOK, [Next]_vars PROVE TypeOK'
  OBVIOUS
<1> USE PidFacts
<1>0. /\ current \in Pid /\ current \in Pid \ {0}
      /\ \A a \in Int, d \in Depths : Trap(a, d) \in Registers
      /\ \A p \in Pid : regs[p].eax \in Int
  BY TrapType DEF TypeOK, Registers
<1>1. CASE Getpid
  BY <1>0, <1>1 DEF Getpid, TypeOK
<1>2. CASE Fork
  <2>1. PICK d \in Depths :
          \/ \E i \in Slots : Create(i, CopyStack(i, current, Trap(0, d).esp), Trap(0, d))
          \/ CannotCreate(Trap(0, d))
    BY <1>2 DEF Fork
  <2>2. \A i \in Slots : CopyStack(i, current, Trap(0, d).esp) \in Int
    BY <1>0, StackTopInt DEF CopyStack, Registers
  <2> QED  BY <1>0, <1>2, <2>1, <2>2, CreateType, CannotCreateType DEF Fork, TypeOK
<1>3. CASE Newthread
  <2>1. PICK d \in Depths :
          \/ \E i \in Slots : Create(i, StackTop(i), Trap(0, d))
          \/ CannotCreate(Trap(0, d))
    BY <1>3 DEF Newthread
  <2> QED
    BY <1>0, <1>3, <2>1, StackTopInt, CreateType, CannotCreateType DEF Newthread, TypeOK
<1>4. CASE Kill
  <2>1. PICK a \in PidArgs, d \in Depths :
          \/ /\ regs' = [regs EXCEPT ![current] = [Trap(a, d) EXCEPT !.eax = -1]]
             /\ UNCHANGED <<pstate, exitStatus>>
          \/ /\ regs' = [regs EXCEPT ![current] = [Trap(a, d) EXCEPT !.eax = 0]]
             /\ UNCHANGED <<pstate, exitStatus>>
          \/ ~CannotKill(a) /\ KillProcess(a, Trap(a, d))
    BY <1>4 DEF Kill
  <2>2. Trap(a, d) \in Registers
    BY <1>0 DEF PidArgs
  <2>3. CASE regs' \in [Pid -> Registers] /\ UNCHANGED <<pstate, exitStatus>>
    BY <1>4, <2>3 DEF Kill, TypeOK
  <2>4. CASE ~CannotKill(a) /\ KillProcess(a, Trap(a, d))
    <3> DEFINE st == [pstate EXCEPT ![a] = "ZOMBIE"]
               rg == [regs EXCEPT ![current] = Trap(a, d)]
    <3>1. a \in Slots
      BY <2>4 DEF CannotKill
    <3>2. st \in [Pid -> States] /\ st[0] = "EMPTY" /\ rg \in [Pid -> Registers]
      BY <2>2, <3>1 DEF TypeOK, States
    <3>3. /\ pstate' = StatesAfterWake(st, waitingQ[current])
          /\ regs' = RegsAfterWake(rg, waitingQ[current], -1)
          /\ exitStatus' = [exitStatus EXCEPT ![a] = -1]
      BY <2>4 DEF KillProcess
    <3>4. waitingQ[current] \in SUBSET Slots /\ -1 \in Int
      BY <1>0 DEF TypeOK
    <3> HIDE DEF st, rg
    <3>5. /\ pstate' \in [Pid -> States] /\ pstate'[0] = "EMPTY"
          /\ regs' \in [Pid -> Registers]
      BY <1>0, <3>2, <3>3, <3>4, WakeType
    <3> QED  BY <1>4, <3>1, <3>3, <3>5 DEF Kill, TypeOK
  <2> QED  BY <2>1, <2>2, <2>3, <2>4 DEF TypeOK, Registers
<1>5. CASE Yield
  <2>1. /\ regs' \in [Pid -> Registers]
        /\ Schedule(pstate) /\ UNCHANGED <<pstate, waitingQ, exitStatus>>
        /\ cpu = "user"
    BY <1>0, <1>5 DEF Yield, TypeOK, Running
  <2> QED  BY <1>0, <2>1, ScheduleResult DEF TypeOK
<1>6. CASE Exit
  <2>1. PICK status \in Statuses, d \in Depths :
          LET W  == waitingQ[current]
              st == StatesAfterWake([pstate EXCEPT ![current] = "ZOMBIE"], W)
          IN /\ pstate' = st
             /\ exitStatus' = [exitStatus EXCEPT ![current] = status]
             /\ regs' = RegsAfterWake([regs EXCEPT ![current] = Trap(status, d)], W, status)
             /\ Schedule(st)
    BY <1>6 DEF Exit, Waiters
  <2> DEFINE st == [pstate EXCEPT ![current] = "ZOMBIE"]
             rg == [regs EXCEPT ![current] = Trap(status, d)]
  <2>2. st \in [Pid -> States] /\ st[0] = "EMPTY" /\ rg \in [Pid -> Registers]
    BY <1>0 DEF TypeOK, States
  <2>3. waitingQ[current] \in SUBSET Slots /\ status \in Int
    BY <1>0 DEF TypeOK
  <2>4. /\ pstate' = StatesAfterWake(st, waitingQ[current])
        /\ regs' = RegsAfterWake(rg, waitingQ[current], status)
        /\ exitStatus' = [exitStatus EXCEPT ![current] = status]
        /\ Schedule(pstate')
    BY <2>1
  <2> HIDE DEF st, rg
  <2>5. /\ pstate' \in [Pid -> States] /\ pstate'[0] = "EMPTY"
        /\ regs' \in [Pid -> Registers]
    BY <1>0, <2>2, <2>3, <2>4, WakeType
  <2>6. cpu = "user" /\ waitingQ' = waitingQ
    BY <1>6 DEF Exit, Running
  <2>7. current' \in Pid \ {0} /\ cpu' \in {"user", "idle"}
    BY <1>0, <2>4, <2>5, <2>6, ScheduleResult
  <2> QED  BY <1>0, <2>3, <2>4, <2>5, <2>6, <2>7 DEF TypeOK
<1>7. CASE Wait
  <2>1. PICK a \in PidArgs, d \in Depths :
          /\ Schedule(pstate')
          /\ \/ /\ regs' = [regs EXCEPT ![current] = [Trap(a, d) EXCEPT !.eax = -1]]
                /\ UNCHANGED <<pstate, waitingQ>>
             \/ /\ a \in Slots
                /\ regs' = [regs EXCEPT ![current] = [Trap(a, d) EXCEPT !.eax = exitStatus[a]]]
                /\ pstate' = Reap(a)
                /\ UNCHANGED waitingQ
             \/ /\ a \in Slots
                /\ regs' = [regs EXCEPT ![current] = Trap(a, d)]
                /\ waitingQ' = [waitingQ EXCEPT ![a] = @ \cup {current}]
                /\ pstate' = [pstate EXCEPT ![current] = "BLOCKED"]
    BY <1>7 DEF Wait, CannotWait, Exited
  <2>2. Trap(a, d) \in Registers
    BY <1>0 DEF PidArgs
  <2>3. a \in Slots => exitStatus[a] \in Int
    BY DEF TypeOK
  <2>4. regs' \in [Pid -> Registers]
    <3>1. \A v \in Int : [Trap(a, d) EXCEPT !.eax = v] \in Registers
      BY <2>2 DEF Registers
    <3>2. \A r \in Registers : [regs EXCEPT ![current] = r] \in [Pid -> Registers]
      BY DEF TypeOK
    <3>3. -1 \in Int
      OBVIOUS
    <3> QED  BY <2>1, <2>2, <2>3, <3>1, <3>2, <3>3
  <2>5. /\ pstate' \in [Pid -> States] /\ pstate'[0] = "EMPTY"
        /\ waitingQ' \in [Pid -> SUBSET Slots]
    BY <2>1, <1>0 DEF TypeOK, States, Reap
  <2>6. cpu = "user" /\ exitStatus' = exitStatus
    BY <1>7 DEF Wait, Running
  <2>7. current' \in Pid \ {0} /\ cpu' \in {"user", "idle"}
    BY <1>0, <2>1, <2>5, <2>6, ScheduleResult
  <2> QED  BY <2>4, <2>5, <2>6, <2>7 DEF TypeOK
<1>8. CASE UnknownCall
  <2>1. regs' \in [Pid -> Registers]
    BY <1>0, <1>8 DEF UnknownCall, TypeOK
  <2> QED  BY <1>8, <2>1 DEF UnknownCall, TypeOK
<1>9. CASE UNCHANGED vars
  BY <1>9 DEF vars, TypeOK
<1> QED
  BY <1>1, <1>2, <1>3, <1>4, <1>5, <1>6, <1>7, <1>8, <1>9 DEF Next

\* The variables keep their types and entry 0 is never used, whatever calls the
\* applications make.
THEOREM TypeCorrect == Spec => []TypeOK
BY InitType, StepType, PTL DEF Spec

-------------------------------------------------------------------------------
(***************************************************************************)
(* Every process keeps to its own stack.                                   *)
(***************************************************************************)

InRegion(p, esp) == esp \in (StackTop(p) - StackSize)..StackTop(p)

\* copy_stack maps the parent's region onto the child's.
LEMMA CopyStackRegion ==
  ASSUME NEW p \in Pid, NEW q \in Pid, NEW esp \in Int, InRegion(p, esp)
  PROVE  InRegion(q, CopyStack(q, p, esp))
BY StackTopInt DEF InRegion, CopyStack

\* OwnStack is not inductive: sys_kill leaves entries of the dead in queues, so
\* an EMPTY entry can be woken.  Every entry that is in use or in a queue has a
\* stack pointer in its region.
InUseOrQueued(p) == pstate[p] # "EMPTY" \/ \E q \in Pid : p \in waitingQ[q]
StackInv == \A p \in Slots : InUseOrQueued(p) => InRegion(p, regs[p].esp)

LEMMA InitStack == Init => StackInv
BY PidFacts, StackTopInt DEF Init, StackInv, InUseOrQueued, InRegion

\* A step that moves no stack pointer out of its region, and brings no entry
\* into use or into a queue without a good one, keeps the invariant.
LEMMA StackStep ==
  ASSUME StackInv,
         NEW p \in Slots,
         InRegion(p, regs'[p].esp)
           \/ (regs'[p].esp = regs[p].esp /\ (InUseOrQueued(p)' => InUseOrQueued(p)))
  PROVE  InUseOrQueued(p)' => InRegion(p, regs'[p].esp)
BY DEF StackInv

\* A process that is created starts in its own region.
LEMMA CreateStack ==
  ASSUME TypeOK, StackInv, NEW p \in Slots, NEW i \in Slots, NEW esp \in Int,
         InRegion(i, esp), NEW r \in Registers, InRegion(current, r.esp),
         Create(i, esp, r)
  PROVE  InUseOrQueued(p)' => InRegion(p, regs'[p].esp)
<1> USE PidFacts DEF Create, TypeOK, Registers
<1>1. CASE p = current
  BY <1>1
<1>2. CASE p = i /\ p # current
  BY <1>2
<1>3. CASE p # i /\ p # current
  BY <1>3, StackStep DEF InUseOrQueued, FreshQueue
<1> QED  BY <1>1, <1>2, <1>3

LEMMA CannotCreateStack ==
  ASSUME TypeOK, StackInv, NEW p \in Slots, NEW r \in Registers,
         InRegion(current, r.esp), CannotCreate(r)
  PROVE  InUseOrQueued(p)' => InRegion(p, regs'[p].esp)
BY PidFacts, StackStep DEF CannotCreate, TypeOK, InUseOrQueued, Registers

\* The wake loop wakes entries that are in a queue and moves no stack pointer.
LEMMA WakeStack ==
  ASSUME TypeOK, StackInv, NEW p \in Slots, NEW st \in [Pid -> States],
         NEW r \in Registers, InRegion(current, r.esp), NEW s \in Int,
         \A q \in Slots \ {current} : st[q] # "EMPTY" => pstate[q] # "EMPTY",
         pstate' = StatesAfterWake(st, waitingQ[current]),
         regs' = RegsAfterWake([regs EXCEPT ![current] = r], waitingQ[current], s),
         waitingQ' = waitingQ
  PROVE  InUseOrQueued(p)' => InRegion(p, regs'[p].esp)
<1> USE PidFacts
<1>1. regs'[p].esp = IF p = current THEN r.esp ELSE regs[p].esp
  BY DEF RegsAfterWake, TypeOK, Registers
<1>2. CASE p = current
  BY <1>1, <1>2
<1>3. CASE p # current
  BY <1>1, <1>3, StackStep DEF StatesAfterWake, InUseOrQueued, TypeOK
<1> QED  BY <1>2, <1>3

LEMMA StepStack == TypeOK /\ StackInv /\ [Next]_vars => StackInv'
<1> SUFFICES ASSUME TypeOK, StackInv, [Next]_vars, NEW p \in Slots
             PROVE  InUseOrQueued(p)' => InRegion(p, regs'[p].esp)
  BY DEF StackInv, InRegion, StackTop
<1> USE PidFacts
<1>0. /\ current \in Pid /\ current \in Slots
      /\ \A a \in Int, d \in Depths :
           Trap(a, d) \in Registers /\ InRegion(current, Trap(a, d).esp)
      /\ \A q \in Pid : regs[q] \in Registers /\ regs[q].eax \in Int
      /\ \A a \in PidArgs : a \in Int
      /\ \A a \in Statuses : a \in Int
  BY TrapType DEF TypeOK, Registers, InRegion, PidArgs
<1>1. CASE Getpid \/ UnknownCall
  BY <1>0, <1>1, StackStep DEF Getpid, UnknownCall, InUseOrQueued, TypeOK
<1>2. CASE Fork
  <2>1. PICK d \in Depths :
          \/ \E i \in Slots : Create(i, CopyStack(i, current, Trap(0, d).esp), Trap(0, d))
          \/ CannotCreate(Trap(0, d))
    BY <1>2 DEF Fork
  <2>2. Trap(0, d) \in Registers /\ Trap(0, d).esp \in Int /\ InRegion(current, Trap(0, d).esp)
    BY <1>0 DEF Registers
  <2>3. \A i \in Slots : LET esp == CopyStack(i, current, Trap(0, d).esp)
                         IN esp \in Int /\ InRegion(i, esp)
    BY <1>0, <2>2, CopyStackRegion, StackTopInt DEF CopyStack
  <2> QED  BY <2>1, <2>2, <2>3, CreateStack, CannotCreateStack
<1>3. CASE Newthread
  <2>1. PICK d \in Depths :
          \/ \E i \in Slots : Create(i, StackTop(i), Trap(0, d))
          \/ CannotCreate(Trap(0, d))
    BY <1>3 DEF Newthread
  <2>2. \A i \in Slots : StackTop(i) \in Int /\ InRegion(i, StackTop(i))
    BY StackTopInt DEF InRegion
  <2> QED  BY <1>0, <2>1, <2>2, CreateStack, CannotCreateStack
<1>4. CASE Kill
  <2>1. PICK a \in PidArgs, d \in Depths :
          \/ /\ regs' = [regs EXCEPT ![current] = [Trap(a, d) EXCEPT !.eax = -1]]
             /\ UNCHANGED pstate
          \/ /\ regs' = [regs EXCEPT ![current] = [Trap(a, d) EXCEPT !.eax = 0]]
             /\ UNCHANGED pstate
          \/ ~CannotKill(a) /\ KillProcess(a, Trap(a, d))
    BY <1>4 DEF Kill
  <2>2. Trap(a, d) \in Registers /\ InRegion(current, Trap(a, d).esp)
    BY <1>0
  <2>3. waitingQ' = waitingQ
    BY <1>4 DEF Kill
  <2>4. CASE UNCHANGED pstate /\
             \E v \in Int : regs' = [regs EXCEPT ![current] = [Trap(a, d) EXCEPT !.eax = v]]
    <3>1. CASE p = current
      <4>1. regs'[p].esp = Trap(a, d).esp
        BY <2>2, <2>4, <3>1, <1>0 DEF TypeOK, Registers
      <4> QED  BY <2>2, <3>1, <4>1, StackStep
    <3>2. CASE p # current
      <4>1. regs'[p] = regs[p]
        BY <2>4, <3>2, <1>0 DEF TypeOK
      <4>2. InUseOrQueued(p)' => InUseOrQueued(p)
        BY <2>3, <2>4 DEF InUseOrQueued
      <4> QED  BY <4>1, <4>2, StackStep
    <3> QED  BY <3>1, <3>2
  <2>5. CASE ~CannotKill(a) /\ KillProcess(a, Trap(a, d))
    <3> DEFINE st == [pstate EXCEPT ![a] = "ZOMBIE"]
    <3>1. a \in Slots /\ pstate[a] # "EMPTY"
      BY <2>5 DEF CannotKill
    <3>2. st \in [Pid -> States] /\ \A q \in Slots : st[q] # "EMPTY" => pstate[q] # "EMPTY"
      BY <3>1 DEF TypeOK, States
    <3>3. /\ pstate' = StatesAfterWake(st, waitingQ[current])
          /\ regs' = RegsAfterWake([regs EXCEPT ![current] = Trap(a, d)], waitingQ[current], -1)
      BY <2>5 DEF KillProcess
    <3>4. -1 \in Int
      OBVIOUS
    <3> HIDE DEF st
    <3> QED  BY <2>2, <2>3, <3>2, <3>3, <3>4, WakeStack
  <2>6. -1 \in Int /\ 0 \in Int
    OBVIOUS
  <2> QED  BY <2>1, <2>4, <2>5, <2>6
<1>5. CASE Yield
  BY <1>0, <1>5, StackStep DEF Yield, InUseOrQueued, TypeOK
<1>6. CASE Exit
  <2>1. PICK status \in Statuses, d \in Depths :
          /\ pstate' = StatesAfterWake([pstate EXCEPT ![current] = "ZOMBIE"],
                                       waitingQ[current])
          /\ regs' = RegsAfterWake([regs EXCEPT ![current] = Trap(status, d)],
                                   waitingQ[current], status)
    BY <1>6 DEF Exit, Waiters
  <2> DEFINE st == [pstate EXCEPT ![current] = "ZOMBIE"]
  <2>2. st \in [Pid -> States] /\ \A q \in Slots \ {current} : st[q] = pstate[q]
    BY <1>0 DEF TypeOK, States
  <2>3. waitingQ' = waitingQ
    BY <1>6 DEF Exit
  <2> HIDE DEF st
  <2> QED  BY <1>0, <2>1, <2>2, <2>3, WakeStack DEF st
<1>7. CASE Wait
  <2>1. PICK a \in PidArgs, d \in Depths, v \in Int :
          /\ \/ regs' = [regs EXCEPT ![current] = [Trap(a, d) EXCEPT !.eax = v]]
             \/ regs' = [regs EXCEPT ![current] = Trap(a, d)]
          /\ \A q \in Slots \ {current} : pstate'[q] # "EMPTY" => pstate[q] # "EMPTY"
          /\ \A q \in Pid : waitingQ'[q] \subseteq waitingQ[q] \cup {current}
    <3>1. -1 \in Int /\ \A a \in Slots : exitStatus[a] \in Int
      BY DEF TypeOK
    <3>2. PICK a \in PidArgs, d \in Depths :
            \/ /\ regs' = [regs EXCEPT ![current] = [Trap(a, d) EXCEPT !.eax = -1]]
               /\ UNCHANGED <<pstate, waitingQ>>
            \/ /\ a \in Slots
               /\ regs' = [regs EXCEPT ![current] = [Trap(a, d) EXCEPT !.eax = exitStatus[a]]]
               /\ pstate' = Reap(a)
               /\ UNCHANGED waitingQ
            \/ /\ a \in Slots
               /\ regs' = [regs EXCEPT ![current] = Trap(a, d)]
               /\ waitingQ' = [waitingQ EXCEPT ![a] = @ \cup {current}]
               /\ pstate' = [pstate EXCEPT ![current] = "BLOCKED"]
      BY <1>7 DEF Wait, CannotWait, Exited
    <3>3. \A q \in Slots \ {current} : pstate'[q] # "EMPTY" => pstate[q] # "EMPTY"
      BY <3>2 DEF TypeOK, Reap
    <3>4. \A q \in Pid : waitingQ'[q] \subseteq waitingQ[q] \cup {current}
      BY <3>2 DEF TypeOK
    <3> QED  BY <3>1, <3>2, <3>3, <3>4
  <2>2. Trap(a, d) \in Registers /\ InRegion(current, Trap(a, d).esp)
    BY <1>0
  <2>3. regs'[p].esp = IF p = current THEN Trap(a, d).esp ELSE regs[p].esp
    <3>1. regs \in [Pid -> Registers] /\ current \in Pid /\ p \in Pid
      BY <1>0 DEF TypeOK
    <3>2. /\ regs'[current] = [Trap(a, d) EXCEPT !.eax = v] \/ regs'[current] = Trap(a, d)
          /\ p # current => regs'[p] = regs[p]
      BY <2>1, <3>1
    <3>3. regs'[current].esp = Trap(a, d).esp
      BY <2>2, <3>2 DEF Registers
    <3> QED  BY <3>2, <3>3
  <2>4. CASE p = current
    BY <2>2, <2>3, <2>4
  <2>5. CASE p # current
    BY <2>1, <2>3, <2>5, StackStep DEF InUseOrQueued
  <2> QED  BY <2>4, <2>5
<1>8. CASE UNCHANGED vars
  BY <1>8 DEF vars, StackInv, InUseOrQueued
<1> QED
  BY <1>1, <1>2, <1>3, <1>4, <1>5, <1>6, <1>7, <1>8 DEF Next

\* Whatever chain of forks and threads a process comes from, and whatever is
\* killed and reused on the way, its stack pointer is in its own stack.
THEOREM StacksAreSeparate == Spec => []OwnStack
<1>1. Spec => []StackInv
  BY InitType, StepType, InitStack, StepStack, PTL DEF Spec
<1>2. StackInv => OwnStack
  BY DEF StackInv, OwnStack, InUseOrQueued, InRegion
<1> QED  BY <1>1, <1>2, PTL

-------------------------------------------------------------------------------
(***************************************************************************)
(* Without sys_kill, no waiter is lost and none is woken by mistake.       *)
(***************************************************************************)

\* The three are inductive together: a queue of a live process holds only
\* blocked processes because a process that runs is in none (RunningIsRunnable),
\* and a blocked process keeps its waker because a process that ends is in the
\* table and has woken its whole queue.
WaitInv == RunningIsRunnable /\ NoLostWaiter /\ QueuesAreCurrent

LEMMA InitWait == Init => WaitInv
BY PidFacts
   DEF Init, WaitInv, RunningIsRunnable, NoLostWaiter, QueuesAreCurrent, Live

\* A process that runs is in no queue of a live process.
LEMMA RunnerIsInNoQueue ==
  ASSUME TypeOK, WaitInv, cpu = "user"
  PROVE  /\ current \in Slots /\ pstate[current] = "RUNNABLE"
         /\ \A q \in Slots : Live(q) => current \notin waitingQ[q]
BY PidFacts DEF TypeOK, WaitInv, RunningIsRunnable, QueuesAreCurrent

\* Creating a process in an empty entry.
LEMMA CreateWait ==
  ASSUME TypeOK, WaitInv, cpu = "user", NEW i \in Slots, FirstEmpty(i),
         NEW esp, NEW r, Create(i, esp, r)
  PROVE  /\ NoLostWaiter' /\ QueuesAreCurrent'
         /\ pstate'[current] = "RUNNABLE"
<1> USE PidFacts
<1>1. /\ pstate[i] = "EMPTY" /\ pstate'[i] = "RUNNABLE" /\ waitingQ'[i] = {}
      /\ \A p \in Slots \ {i} : pstate'[p] = pstate[p] /\ waitingQ'[p] = waitingQ[p]
  BY DEF Create, FirstEmpty, FreshQueue, TypeOK
<1>2. NoLostWaiter'
  BY <1>1 DEF WaitInv, NoLostWaiter, Live
<1>3. QueuesAreCurrent'
  <2>1. \A q \in Slots : (Live(q)' /\ q # i <=> Live(q)) /\ waitingQ[q] \subseteq Slots
    BY <1>1 DEF Live, TypeOK
  <2> SUFFICES ASSUME NEW q \in Slots, Live(q)', NEW p \in waitingQ'[q]
               PROVE  /\ pstate'[p] = "BLOCKED"
                      /\ \A s \in Slots : Live(s)' /\ p \in waitingQ'[s] => s = q
    BY DEF QueuesAreCurrent
  <2>2. Live(q) /\ q # i /\ p \in waitingQ[q] /\ p \in Slots
    BY <1>1, <2>1
  <2>3. /\ pstate[p] = "BLOCKED" /\ p # i
        /\ \A s \in Slots : Live(s) /\ p \in waitingQ[s] => s = q
    BY <1>1, <2>2 DEF WaitInv, QueuesAreCurrent
  <2> QED  BY <1>1, <2>1, <2>2, <2>3
<1> QED  BY <1>1, <1>2, <1>3, RunnerIsInNoQueue

\* sys_exit wakes the whole queue of the process that ends.
LEMMA ExitWait ==
  ASSUME TypeOK, WaitInv, cpu = "user", waitingQ' = waitingQ,
         pstate' = StatesAfterWake([pstate EXCEPT ![current] = "ZOMBIE"],
                                   waitingQ[current])
  PROVE  NoLostWaiter' /\ QueuesAreCurrent'
<1> USE PidFacts
<1> DEFINE W == waitingQ[current]
<1>1. current \in Slots /\ Live(current) /\ current \notin W /\ W \subseteq Slots
  BY RunnerIsInNoQueue DEF Live, TypeOK
<1>2. /\ pstate'[current] \in {"EMPTY", "ZOMBIE"}
      /\ \A p \in W : pstate[p] = "BLOCKED" /\ pstate'[p] = "RUNNABLE"
      /\ \A p \in Slots \ (W \cup {current}) : pstate'[p] = pstate[p]
  <2>1. \A p \in W : pstate[p] = "BLOCKED"
    BY <1>1 DEF WaitInv, QueuesAreCurrent
  <2>2. \A p \in Pid : pstate'[p] = IF p = current /\ W # {} THEN "EMPTY"
                                    ELSE IF p \in W THEN "RUNNABLE"
                                    ELSE IF p = current THEN "ZOMBIE" ELSE pstate[p]
    BY DEF StatesAfterWake, TypeOK
  <2> QED  BY <1>1, <2>1, <2>2
<1>3. \A q \in Slots : Live(q)' <=> Live(q) /\ q # current
  BY <1>1, <1>2 DEF Live
<1>4. NoLostWaiter'
  <2> SUFFICES ASSUME NEW p \in Slots, pstate'[p] = "BLOCKED"
               PROVE  \E q \in Slots : Live(q)' /\ p \in waitingQ'[q]
    BY DEF NoLostWaiter
  <2>1. pstate[p] = "BLOCKED" /\ p \notin W
    BY <1>2
  <2>2. PICK q \in Slots : Live(q) /\ p \in waitingQ[q]
    BY <2>1 DEF WaitInv, NoLostWaiter
  <2> QED  BY <1>3, <2>1, <2>2
<1>5. QueuesAreCurrent'
  <2> SUFFICES ASSUME NEW q \in Slots, Live(q)', NEW p \in waitingQ'[q]
               PROVE  /\ pstate'[p] = "BLOCKED"
                      /\ \A r \in Slots : Live(r)' /\ p \in waitingQ'[r] => r = q
    BY DEF QueuesAreCurrent
  <2>1. Live(q) /\ q # current /\ p \in waitingQ[q] /\ p \in Slots
    BY <1>3 DEF TypeOK
  <2>2. /\ pstate[p] = "BLOCKED"
        /\ \A r \in Slots : Live(r) /\ p \in waitingQ[r] => r = q
    BY <2>1 DEF WaitInv, QueuesAreCurrent
  <2>3. p \notin W /\ p # current
    BY <1>1, <2>1, <2>2, RunnerIsInNoQueue
  <2> QED  BY <1>2, <1>3, <2>1, <2>2, <2>3
<1> QED  BY <1>4, <1>5

\* sys_wait frees a zombie, which is in no live queue and has none.
LEMMA ReapWait ==
  ASSUME TypeOK, WaitInv, NEW a \in Slots, pstate[a] = "ZOMBIE",
         pstate' = Reap(a), waitingQ' = waitingQ
  PROVE  NoLostWaiter' /\ QueuesAreCurrent'
<1>1. \A q \in Slots : pstate'[q] = IF q = a THEN "EMPTY" ELSE pstate[q]
  BY PidFacts DEF Reap, TypeOK
<1>2. \A q \in Slots : Live(q)' <=> Live(q)
  BY <1>1 DEF Live
<1>3. NoLostWaiter'
  BY <1>1, <1>2 DEF WaitInv, NoLostWaiter
<1>4. QueuesAreCurrent'
  BY <1>1, <1>2, PidFacts DEF WaitInv, QueuesAreCurrent, TypeOK
<1> QED  BY <1>3, <1>4

\* sys_wait puts the caller in the queue of a live process.
LEMMA BlockWait ==
  ASSUME TypeOK, WaitInv, cpu = "user", NEW a \in Slots, a # current, Live(a),
         pstate' = [pstate EXCEPT ![current] = "BLOCKED"],
         waitingQ' = [waitingQ EXCEPT ![a] = @ \cup {current}]
  PROVE  NoLostWaiter' /\ QueuesAreCurrent'
<1> USE PidFacts
<1>1. /\ current \in Slots /\ pstate[current] = "RUNNABLE"
      /\ \A q \in Slots : Live(q) => current \notin waitingQ[q]
  BY RunnerIsInNoQueue
<1>2. /\ \A q \in Slots : pstate'[q] = IF q = current THEN "BLOCKED" ELSE pstate[q]
      /\ \A q \in Slots : waitingQ'[q] = IF q = a THEN waitingQ[q] \cup {current}
                                         ELSE waitingQ[q]
  BY DEF TypeOK
<1>3. \A q \in Slots : Live(q)' <=> Live(q)
  BY <1>1, <1>2 DEF Live
<1>4. NoLostWaiter'
  BY <1>1, <1>2, <1>3 DEF WaitInv, NoLostWaiter
<1>5. QueuesAreCurrent'
  BY <1>1, <1>2, <1>3 DEF WaitInv, QueuesAreCurrent, TypeOK
<1> QED  BY <1>4, <1>5

LEMMA StepWait ==
  ASSUME "kill" \notin Syscalls
  PROVE  TypeOK /\ TypeOK' /\ WaitInv /\ [Next]_vars => WaitInv'
<1> SUFFICES ASSUME TypeOK, TypeOK', WaitInv, [Next]_vars PROVE WaitInv'
  OBVIOUS
\* What schedule() runs is runnable.
<1>0. ASSUME cpu = "user", Schedule(pstate') PROVE RunningIsRunnable'
  BY <1>0, ScheduleResult DEF RunningIsRunnable, TypeOK
<1>1. CASE Getpid \/ UnknownCall
  BY <1>1 DEF Getpid, UnknownCall, WaitInv, RunningIsRunnable, NoLostWaiter,
              QueuesAreCurrent, Live
<1>2. CASE Fork
  <2>1. cpu = "user" /\ cpu' = cpu /\ current' = current
    BY <1>2 DEF Fork, Running
  <2>2. \/ \E i \in Slots : \E esp, r : FirstEmpty(i) /\ Create(i, esp, r)
        \/ UNCHANGED <<pstate, waitingQ>>
    <3>1. PICK d \in Depths :
            \/ \E i \in Slots : /\ FirstEmpty(i)
                                /\ Create(i, CopyStack(i, current, Trap(0, d).esp), Trap(0, d))
            \/ CannotCreate(Trap(0, d))
      BY <1>2 DEF Fork
    <3> QED  BY <3>1 DEF CannotCreate
  <2> QED  BY <2>1, <2>2, CreateWait
           DEF WaitInv, RunningIsRunnable, NoLostWaiter, QueuesAreCurrent, Live
<1>3. CASE Newthread
  <2>1. cpu = "user" /\ cpu' = cpu /\ current' = current
    BY <1>3 DEF Newthread, Running
  <2>2. \/ \E i \in Slots : \E esp, r : FirstEmpty(i) /\ Create(i, esp, r)
        \/ UNCHANGED <<pstate, waitingQ>>
    <3>1. PICK d \in Depths :
            \/ \E i \in Slots : FirstEmpty(i) /\ Create(i, StackTop(i), Trap(0, d))
            \/ CannotCreate(Trap(0, d))
      BY <1>3 DEF Newthread
    <3> QED  BY <3>1 DEF CannotCreate
  <2> QED  BY <2>1, <2>2, CreateWait
           DEF WaitInv, RunningIsRunnable, NoLostWaiter, QueuesAreCurrent, Live
<1>4. CASE Kill
  BY <1>4 DEF Kill, Running
<1>5. CASE Yield
  <2>1. cpu = "user" /\ Schedule(pstate') /\ pstate' = pstate /\ waitingQ' = waitingQ
    BY <1>5 DEF Yield, Running
  <2> QED  BY <1>0, <2>1 DEF WaitInv, NoLostWaiter, QueuesAreCurrent, Live
<1>6. CASE Exit
  <2>1. /\ cpu = "user" /\ Schedule(pstate') /\ waitingQ' = waitingQ
        /\ pstate' = StatesAfterWake([pstate EXCEPT ![current] = "ZOMBIE"],
                                     waitingQ[current])
    BY <1>6 DEF Exit, Waiters, Running
  <2> QED  BY <1>0, <2>1, ExitWait DEF WaitInv
<1>7. CASE Wait
  <2>1. cpu = "user"
    BY <1>7 DEF Wait, Running
  <2>2. PICK a \in PidArgs :
          /\ Schedule(pstate')
          /\ \/ UNCHANGED <<pstate, waitingQ>>
             \/ /\ a \in Slots /\ pstate[a] = "ZOMBIE"
                /\ pstate' = Reap(a) /\ waitingQ' = waitingQ
             \/ /\ a \in Slots /\ a # current
                /\ pstate[a] # "EMPTY" /\ pstate[a] # "ZOMBIE"
                /\ waitingQ' = [waitingQ EXCEPT ![a] = @ \cup {current}]
                /\ pstate' = [pstate EXCEPT ![current] = "BLOCKED"]
    BY <1>7 DEF Wait, CannotWait, Exited
  <2>3. pstate[a] # "EMPTY" /\ pstate[a] # "ZOMBIE" /\ a \in Slots => Live(a)
    BY PidFacts DEF Live, TypeOK, States
  <2>4. NoLostWaiter' /\ QueuesAreCurrent'
    BY <2>1, <2>2, <2>3, ReapWait, BlockWait
       DEF WaitInv, NoLostWaiter, QueuesAreCurrent, Live
  <2> QED  BY <1>0, <2>1, <2>2, <2>4 DEF WaitInv
<1>8. CASE UNCHANGED vars
  BY <1>8 DEF vars, WaitInv, RunningIsRunnable, NoLostWaiter, QueuesAreCurrent, Live
<1> QED
  BY <1>1, <1>2, <1>3, <1>4, <1>5, <1>6, <1>7, <1>8 DEF Next

\* If no application calls sys_kill, every process blocked in sys_wait is in the
\* queue of a process that can still exit, the queue of a live process holds no
\* process but those it will wake, and the process that runs is runnable.
THEOREM WaitersAreWoken ==
  ASSUME "kill" \notin Syscalls
  PROVE  Spec => [](RunningIsRunnable /\ NoLostWaiter /\ QueuesAreCurrent)
<1>1. TypeOK /\ WaitInv /\ [Next]_vars => (TypeOK /\ WaitInv)'
  BY StepType, StepWait
<1>2. WaitInv => RunningIsRunnable /\ NoLostWaiter /\ QueuesAreCurrent
  BY DEF WaitInv
<1> QED  BY <1>1, <1>2, InitType, InitWait, PTL DEF Spec

\* If no application calls sys_kill, interrupt() returns to runnable processes
\* only: schedule() has looked, and no handler that comes back to its caller has
\* blocked or ended it.
THEOREM RunnersAreRunnable ==
  ASSUME "kill" \notin Syscalls
  PROVE  Spec => []RunningIsRunnable
BY WaitersAreWoken, PTL

\* If no application calls sys_kill, a queue that is still to be woken names
\* blocked processes only, each in that one queue, though queues are cleared when
\* an entry is reused and never when a process ends.
THEOREM QueuesStayCurrent ==
  ASSUME "kill" \notin Syscalls
  PROVE  Spec => []QueuesAreCurrent
BY WaitersAreWoken, PTL

-------------------------------------------------------------------------------
(***************************************************************************)
(* The status a process has left is not overwritten.                       *)
(***************************************************************************)

\* sys_kill can empty the entry of the process that calls it, but a process
\* that runs is never a zombie itself: its sys_exit overwrites no status.
RunnerIsNoZombie == cpu = "user" => pstate[current] \in {"RUNNABLE", "EMPTY"}

LEMMA InitRunner == Init => RunnerIsNoZombie
BY PidFacts DEF Init, RunnerIsNoZombie

LEMMA StepRunner == TypeOK /\ TypeOK' /\ RunnerIsNoZombie /\ [Next]_vars => RunnerIsNoZombie'
<1> SUFFICES ASSUME TypeOK, TypeOK', RunnerIsNoZombie, [Next]_vars
             PROVE  RunnerIsNoZombie'
  OBVIOUS
<1> USE PidFacts
<1>1. ASSUME cpu = "user", Schedule(pstate') PROVE RunnerIsNoZombie'
  BY <1>1, ScheduleResult DEF RunnerIsNoZombie, TypeOK
<1>2. CASE Getpid \/ UnknownCall
  BY <1>2 DEF Getpid, UnknownCall, RunnerIsNoZombie
<1>3. CASE Fork \/ Newthread
  BY <1>3 DEF Fork, Newthread, Create, CannotCreate, RunnerIsNoZombie, TypeOK
<1>4. CASE Kill
  <2>1. current' = current /\ cpu' = cpu
    BY <1>4 DEF Kill
  <2>2. CASE UNCHANGED pstate
    BY <2>1, <2>2 DEF RunnerIsNoZombie
  <2>3. ASSUME NEW a \in PidArgs, NEW r, ~CannotKill(a), KillProcess(a, r)
        PROVE  pstate'[current] \in {pstate[current], "RUNNABLE", "EMPTY"}
    BY <2>3 DEF CannotKill, KillProcess, StatesAfterWake, TypeOK
  <2> QED  BY <1>4, <2>1, <2>2, <2>3 DEF Kill, RunnerIsNoZombie
<1>5. CASE Yield
  BY <1>1, <1>5 DEF Yield, Running
<1>6. CASE Exit
  BY <1>1, <1>6 DEF Exit, Running
<1>7. CASE Wait
  BY <1>1, <1>7 DEF Wait, Running
<1>8. CASE UNCHANGED vars
  BY <1>8 DEF vars, RunnerIsNoZombie
<1> QED
  BY <1>2, <1>3, <1>4, <1>5, <1>6, <1>7, <1>8 DEF Next

\* What StatusIsCollected says of a step and one entry.
StatusStays(p) ==
  pstate[p] = "ZOMBIE" =>
    \/ pstate'[p] = "ZOMBIE" /\ exitStatus'[p] = exitStatus[p]
    \/ pstate'[p] = "EMPTY" /\ regs'[current].eax = exitStatus[p]
    \/ pstate'[p] = "RUNNABLE" /\ p \in waitingQ[current]

\* With kills too, the status of a process that has ended stays until a sys_wait
\* returns it, or the end of a process whose queue still names the entry makes it
\* runnable again.
THEOREM StatusIsKept == Spec => StatusIsCollected
<1>1. TypeOK /\ RunnerIsNoZombie /\ [Next]_vars => [\A p \in Slots : StatusStays(p)]_vars
  <2> SUFFICES ASSUME TypeOK, RunnerIsNoZombie, Next, NEW p \in Slots
               PROVE  StatusStays(p)
    OBVIOUS
  <2> USE PidFacts
  <2>0. p \in Pid /\ current \in Pid
    BY DEF TypeOK
  <2>1. CASE Kill
    <3>0. cpu = "user"
      BY <2>1 DEF Kill, Running
    <3>1. ASSUME NEW a \in PidArgs, NEW r,
                 ~CannotKill(a), ~AlreadyDead(a), KillProcess(a, r)
          PROVE  StatusStays(p)
      <4>1. a \in Slots /\ (pstate[p] = "ZOMBIE" => a # p /\ current # p)
        BY <3>0, <3>1 DEF CannotKill, AlreadyDead, RunnerIsNoZombie
      <4>2. exitStatus'[p] = exitStatus[p] \/ pstate[p] # "ZOMBIE"
        BY <3>1, <4>1 DEF KillProcess, TypeOK
      <4>3. pstate[p] = "ZOMBIE" =>
              pstate'[p] = IF p \in waitingQ[current] THEN "RUNNABLE" ELSE "ZOMBIE"
        BY <2>0, <3>1, <4>1 DEF KillProcess, StatesAfterWake, TypeOK
      <4> QED BY <4>2, <4>3 DEF StatusStays
    <3> QED  BY <2>1, <3>1 DEF Kill, StatusStays
  <2>2. CASE Exit
    <3>1. PICK status \in Statuses :
            /\ pstate' = StatesAfterWake([pstate EXCEPT ![current] = "ZOMBIE"], Waiters(current))
            /\ exitStatus' = [exitStatus EXCEPT ![current] = status]
      BY <2>2 DEF Exit
    <3>2. pstate[p] = "ZOMBIE" => current # p
      BY <2>2 DEF Exit, Running, RunnerIsNoZombie
    <3>3. pstate[p] = "ZOMBIE" => exitStatus'[p] = exitStatus[p]
      BY <3>1, <3>2 DEF TypeOK
    <3>4. pstate[p] = "ZOMBIE" =>
            pstate'[p] = IF p \in waitingQ[current] THEN "RUNNABLE" ELSE "ZOMBIE"
      BY <2>0, <3>1, <3>2 DEF StatesAfterWake, Waiters, TypeOK
    <3> QED BY <3>3, <3>4 DEF StatusStays
  <2>3. CASE Wait
    <3>1. exitStatus' = exitStatus
      BY <2>3 DEF Wait
    <3>2. PICK a \in PidArgs, d \in Depths :
            \/ UNCHANGED pstate
            \/ /\ a \in Slots
               /\ regs' = [regs EXCEPT ![current] = [Trap(a, d) EXCEPT !.eax = exitStatus[a]]]
               /\ pstate' = Reap(a)
            \/ pstate' = [pstate EXCEPT ![current] = "BLOCKED"]
      BY <2>3 DEF Wait, Exited
    <3>3. CASE UNCHANGED pstate
      BY <3>1, <3>3 DEF StatusStays
    <3>4. CASE /\ a \in Slots
               /\ regs' = [regs EXCEPT ![current] = [Trap(a, d) EXCEPT !.eax = exitStatus[a]]]
               /\ pstate' = Reap(a)
      <4>1. regs'[current].eax = exitStatus[a]
        BY <2>0, <3>4 DEF TypeOK, Trap
      <4>2. pstate'[p] = IF p = a THEN "EMPTY" ELSE pstate[p]
        BY <2>0, <3>4 DEF Reap, TypeOK
      <4> QED BY <3>1, <4>1, <4>2 DEF StatusStays
    <3>5. CASE pstate' = [pstate EXCEPT ![current] = "BLOCKED"]
      <4>1. pstate[p] = "ZOMBIE" => current # p
        BY <2>3 DEF Wait, Running, RunnerIsNoZombie
      <4> QED BY <2>0, <3>1, <3>5, <4>1 DEF StatusStays, TypeOK
    <3> QED BY <3>2, <3>3, <3>4, <3>5
  <2>4. ASSUME NEW i \in Slots, NEW esp, NEW r, FirstEmpty(i), Create(i, esp, r),
               exitStatus' = exitStatus
        PROVE  StatusStays(p)
    BY <2>0, <2>4 DEF FirstEmpty, Create, StatusStays, TypeOK
  <2>5. ASSUME UNCHANGED <<pstate, exitStatus>> PROVE StatusStays(p)
    BY <2>5 DEF StatusStays
  <2>6. CASE Fork
    BY <2>4, <2>5, <2>6 DEF Fork, CannotCreate
  <2>7. CASE Newthread
    BY <2>4, <2>5, <2>7 DEF Newthread, CannotCreate
  <2>8. CASE Getpid \/ Yield \/ UnknownCall
    BY <2>5, <2>8 DEF Getpid, Yield, UnknownCall
  <2> QED
    BY <2>1, <2>2, <2>3, <2>6, <2>7, <2>8 DEF Next
<1>2. Spec => [](TypeOK /\ RunnerIsNoZombie)
  BY InitType, StepType, InitRunner, StepRunner, PTL DEF Spec
<1>3. [\A p \in Slots : StatusStays(p)]_vars
        => [\A p \in Slots : pstate[p] = "ZOMBIE" =>
              \/ pstate'[p] = "ZOMBIE" /\ exitStatus'[p] = exitStatus[p]
              \/ pstate'[p] = "EMPTY" /\ regs'[current].eax = exitStatus[p]
              \/ pstate'[p] = "RUNNABLE" /\ p \in waitingQ[current]]_vars
  BY DEF StatusStays
<1> QED  BY <1>1, <1>2, <1>3, PTL DEF Spec, StatusIsCollected

-------------------------------------------------------------------------------
(***************************************************************************)
(* Without sys_kill, the kernel implements ProcessService with statuses    *)
(* that all who wait for them share.                                       *)
(***************************************************************************)

\* WaitsFor names the one live process in whose queue a process is blocked.
WaitsAre ==
  /\ WaitsFor = [p \in Slots |-> WaitsFor[p]]
  /\ \A p \in Slots : /\ WaitsFor[p] \in Slots \cup {0}
                       /\ \A q \in Slots : WaitsFor[p] = q <=> Awaits(p, q)

LEMMA WaitsForOne == TypeOK /\ WaitInv => WaitsAre
<1> SUFFICES ASSUME TypeOK, WaitInv PROVE WaitsAre
  OBVIOUS
<1>1. WaitsFor = [p \in Slots |-> WaitsFor[p]]
  BY DEF WaitsFor
<1>2. ASSUME NEW p \in Slots
      PROVE  /\ WaitsFor[p] \in Slots \cup {0}
             /\ \A q \in Slots : WaitsFor[p] = q <=> Awaits(p, q)
  <2>1. CASE \E q \in Slots : Awaits(p, q)
    <3>1. WaitsFor[p] = CHOOSE q \in Slots : Awaits(p, q)
      BY <2>1 DEF WaitsFor
    <3>2. WaitsFor[p] \in Slots /\ Awaits(p, WaitsFor[p])
      BY <2>1, <3>1
    <3>3. \A q, r \in Slots : Awaits(p, q) /\ Awaits(p, r) => q = r
      BY DEF WaitInv, QueuesAreCurrent, Awaits
    <3> QED  BY <3>2, <3>3
  <2>2. CASE ~\E q \in Slots : Awaits(p, q)
    BY <2>2, PidFacts DEF WaitsFor
  <2> QED  BY <2>1, <2>2
<1> QED  BY <1>1, <1>2 DEF WaitsAre

\* The process that runs is active in the service.
LEMMA RunnerIsActive ==
  ASSUME TypeOK, WaitInv, WaitsAre, cpu = "user"
  PROVE  /\ current \in Slots /\ pstate[current] = "RUNNABLE"
         /\ Service!Active(current)
<1>1. current \in Slots /\ pstate[current] = "RUNNABLE"
  BY RunnerIsInNoQueue
<1>2. Life[current] = "live"
  BY <1>1 DEF Life, Live
<1>3. WaitsFor[current] = 0
  BY <1>1 DEF WaitsAre, Awaits
<1> QED  BY <1>1, <1>2, <1>3 DEF Service!Active

\* What each process waits for changes with what it awaits.
LEMMA WaitsChange ==
  ASSUME WaitsAre, WaitsAre', NEW p \in Slots
  PROVE  /\ (\A q \in Slots : Awaits(p, q)' <=> Awaits(p, q)) => WaitsFor'[p] = WaitsFor[p]
         /\ (\A q \in Slots : ~Awaits(p, q)') => WaitsFor'[p] = 0
         /\ \A q \in Slots : Awaits(p, q)' => WaitsFor'[p] = q
BY DEF WaitsAre

LEMMA WaitsStay ==
  ASSUME WaitsAre, WaitsAre',
         \A p, q \in Slots : Awaits(p, q)' <=> Awaits(p, q)
  PROVE  WaitsFor' = WaitsFor
<1>1. \A p \in Slots : WaitsFor'[p] = WaitsFor[p]
  BY WaitsChange
<1>2. WaitsFor' = [p \in Slots |-> WaitsFor'[p]] /\ WaitsFor = [p \in Slots |-> WaitsFor[p]]
  BY DEF WaitsAre
<1> QED  BY <1>1, <1>2

LEMMA InitService == Init => Service!SInit
<1> SUFFICES ASSUME Init PROVE Service!SInit
  OBVIOUS
<1> USE PidFacts
<1>1. Life = [q \in Slots |-> IF q = 1 THEN "live" ELSE "none"]
  BY DEF Init, Life, Live
<1>2. Left = [p \in Slots |-> 0]
  BY DEF Init, Left
<1>3. WaitsFor = [p \in Slots |-> 0]
  BY DEF Init, WaitsFor, Awaits
<1>4. Results = [p \in Slots |-> 0]
  BY DEF Init, Results
<1> QED  BY <1>1, <1>2, <1>3, <1>4 DEF Service!SInit, Service!NoStatus

\* A step that changes nothing but the caller's registers.
LEMMA OtherStep ==
  ASSUME TypeOK, WaitInv, WaitsAre, WaitsAre', cpu = "user",
         UNCHANGED <<pstate, waitingQ, exitStatus>>,
         \A p \in Slots : p # current => regs'[p].eax = regs[p].eax
  PROVE  Service!Other(current)
<1>1. Life' = Life /\ Left' = Left
  BY DEF Life, Left, Live
<1>2. WaitsFor' = WaitsFor
  BY WaitsStay DEF Awaits, Live
<1>3. Service!OnlyResultsOf({current})
  BY DEF Service!OnlyResultsOf, Results
<1> QED  BY <1>1, <1>2, <1>3, RunnerIsActive DEF Service!Other

\* do_fork and do_newthread are Spawn.
LEMMA CreateStep ==
  ASSUME TypeOK, WaitInv, WaitsAre, WaitsAre', cpu = "user",
         NEW i \in Slots, FirstEmpty(i), NEW esp \in Int, NEW r \in Registers,
         Create(i, esp, r), exitStatus' = exitStatus
  PROVE  Service!Spawn(current, i)
<1> USE PidFacts
<1>0. current \in Slots /\ pstate[current] = "RUNNABLE" /\ Service!Active(current)
  BY RunnerIsActive
<1>1. /\ pstate[i] = "EMPTY" /\ pstate'[i] = "RUNNABLE" /\ waitingQ'[i] = {}
      /\ \A p \in Slots \ {i} : pstate'[p] = pstate[p] /\ waitingQ'[p] = waitingQ[p]
  BY DEF Create, FirstEmpty, FreshQueue, TypeOK
<1>2. Life[i] = "none" /\ Life' = [Life EXCEPT ![i] = "live"]
  BY <1>1 DEF Life, Live
<1>3. Left' = Left
  BY <1>1 DEF Left
<1>4. \A p, q \in Slots : Awaits(p, q)' <=> Awaits(p, q)
  <2> SUFFICES ASSUME NEW p \in Slots, NEW q \in Slots
               PROVE  Awaits(p, q)' <=> Awaits(p, q)
    OBVIOUS
  <2> QED  BY <1>1 DEF Awaits, Live
<1>5. WaitsFor' = WaitsFor
  BY <1>4, WaitsStay
<1>6. /\ regs'[current].eax = i /\ regs'[i].eax = 0
      /\ \A p \in Slots : p \notin {current, i} => regs'[p] = regs[p]
  BY <1>0, <1>1 DEF Create, TypeOK, Registers
<1>7. Results'[current] = i /\ Results'[i] = 0 /\ Service!OnlyResultsOf({current, i})
  BY <1>0, <1>6 DEF Results, Service!OnlyResultsOf
<1> QED  BY <1>0, <1>2, <1>3, <1>5, <1>7 DEF Service!Spawn

\* sys_exit is EndForAll: it wakes those who wait, and tells all of them, or leaves
\* its status.
LEMMA ExitStep ==
  ASSUME TypeOK, WaitInv, WaitsAre, WaitsAre', cpu = "user", NEW status \in Statuses,
         NEW r \in Registers, waitingQ' = waitingQ,
         pstate' = StatesAfterWake([pstate EXCEPT ![current] = "ZOMBIE"], waitingQ[current]),
         exitStatus' = [exitStatus EXCEPT ![current] = status],
         regs' = RegsAfterWake([regs EXCEPT ![current] = r], waitingQ[current], status)
  PROVE  /\ Service!EndForAll(current, status)
         /\ status \in Service!EndStatus(current)
<1> USE PidFacts
<1> DEFINE W == {q \in Slots : WaitsFor[q] = current}
<1>0. /\ current \in Slots /\ pstate[current] = "RUNNABLE" /\ Service!Active(current)
      /\ waitingQ[current] \subseteq Slots /\ current \notin waitingQ[current]
      /\ status \in Int
  BY RunnerIsActive, RunnerIsInNoQueue DEF TypeOK, Live
<1>1. \A p \in waitingQ[current] : pstate[p] = "BLOCKED"
  BY <1>0 DEF WaitInv, QueuesAreCurrent, Live
<1>2. W = waitingQ[current]
  BY <1>0, <1>1 DEF WaitsAre, Awaits, Live
<1>3. \A p \in Slots : pstate'[p] = IF p = current /\ W # {} THEN "EMPTY"
                                     ELSE IF p \in W THEN "RUNNABLE"
                                     ELSE IF p = current THEN "ZOMBIE" ELSE pstate[p]
  BY <1>0, <1>2 DEF StatesAfterWake, TypeOK
<1>4. \A p \in Slots : /\ p \in W => regs'[p].eax = status
                       /\ p \notin W /\ p # current => regs'[p].eax = regs[p].eax
  BY <1>0, <1>2 DEF RegsAfterWake, TypeOK, Registers
<1>5. current \notin W /\ \A p \in W : pstate[p] = "BLOCKED"
  BY <1>0, <1>1, <1>2
<1> HIDE DEF W
<1>6. Life' = [Life EXCEPT ![current] = IF W = {} THEN "dead" ELSE "none"]
  BY <1>0, <1>3, <1>5 DEF Life, Live
<1>7. Left' = [Left EXCEPT ![current] = IF W = {} THEN status ELSE 0]
  <2>1. exitStatus'[current] = status /\ \A p \in Slots \ {current} : exitStatus'[p] = exitStatus[p]
    BY <1>0 DEF TypeOK
  <2>2. ASSUME NEW p \in Slots
        PROVE  (IF pstate'[p] = "ZOMBIE" THEN exitStatus'[p] ELSE 0)
                 = IF p = current THEN IF W = {} THEN status ELSE 0
                   ELSE IF pstate[p] = "ZOMBIE" THEN exitStatus[p] ELSE 0
    <3>1. CASE p = current
      BY <1>0, <1>3, <1>5, <2>1, <3>1
    <3>2. CASE p # current
      BY <1>3, <1>5, <2>1, <3>2
    <3> QED  BY <3>1, <3>2
  <2> QED  BY <2>2, Zenon DEF Left
<1>8. \A p, q \in Slots : Awaits(p, q)' <=> Awaits(p, q) /\ q # current
  <2> SUFFICES ASSUME NEW p \in Slots, NEW q \in Slots
               PROVE  Awaits(p, q)' <=> Awaits(p, q) /\ q # current
    OBVIOUS
  <2>1. Live(q)' <=> Live(q) /\ q # current
    BY <1>0, <1>3, <1>5 DEF Live
  <2>2. p \in waitingQ[q] /\ Live(q) /\ q # current => p \notin W
    BY <1>0, <1>2 DEF WaitInv, QueuesAreCurrent, Live
  <2>3. p \in waitingQ[q] /\ Live(q) /\ q # current => (pstate'[p] = "BLOCKED" <=> pstate[p] = "BLOCKED")
    BY <1>0, <1>3, <2>2
  <2> QED  BY <2>1, <2>3 DEF Awaits
<1>9. WaitsFor' = [q \in Slots |-> IF q \in W THEN 0 ELSE WaitsFor[q]]
  <2>1. ASSUME NEW p \in Slots PROVE WaitsFor'[p] = IF p \in W THEN 0 ELSE WaitsFor[p]
    <3>1. CASE p \in W
      <4>1. Awaits(p, current)
        BY <1>0, <3>1 DEF W, WaitsAre
      <4>2. \A q \in Slots : Awaits(p, q) => q = current
        BY <4>1, <1>0 DEF WaitsAre
      <4>3. \A q \in Slots : ~Awaits(p, q)'
        BY <1>8, <4>2
      <4> QED  BY <3>1, <4>3, WaitsChange
    <3>2. CASE p \notin W
      <4>1. ~Awaits(p, current)
        BY <1>0, <3>2 DEF W, WaitsAre
      <4>2. \A q \in Slots : Awaits(p, q)' <=> Awaits(p, q)
        BY <1>8, <4>1
      <4> QED  BY <3>2, <4>2, WaitsChange
    <3> QED  BY <3>1, <3>2
  <2>2. WaitsFor' = [p \in Slots |-> WaitsFor'[p]]
    BY DEF WaitsAre
  <2> QED  BY <2>1, <2>2
<1>10. (\A q \in W : Results'[q] = status) /\ Service!OnlyResultsOf(W \cup {current})
  BY <1>4 DEF Results, Service!OnlyResultsOf, W
<1>11. status \in {Results'[q] : q \in Slots} \cup {Left'[current]}
  <2>1. CASE W = {}
    BY <1>0, <1>7, <2>1 DEF Left
  <2>2. CASE W # {}
    BY <1>10, <2>2 DEF W
  <2> QED  BY <2>1, <2>2
<1>12. Service!EndForAll(current, status)
  BY <1>0, <1>6, <1>7, <1>9, <1>10
     DEF Service!EndForAll, Service!EndTelling, Service!Waiting, Service!NoStatus, W
<1> QED  BY <1>11, <1>12 DEF Service!EndStatus

\* sys_wait of a zombie is Collect.
LEMMA ReapStep ==
  ASSUME TypeOK, WaitInv, WaitsAre, WaitsAre', cpu = "user",
         NEW a \in Slots, pstate[a] = "ZOMBIE", pstate' = Reap(a),
         UNCHANGED <<waitingQ, exitStatus>>,
         regs'[current].eax = exitStatus[a],
         \A p \in Slots : p # current => regs'[p].eax = regs[p].eax
  PROVE  Service!Collect(current, a)
<1>0. current \in Slots /\ pstate[current] = "RUNNABLE" /\ Service!Active(current)
  BY RunnerIsActive
<1>1. \A q \in Slots : pstate'[q] = IF q = a THEN "EMPTY" ELSE pstate[q]
  BY PidFacts DEF Reap, TypeOK
<1>2. Life[a] = "dead" /\ Life' = [Life EXCEPT ![a] = "none"]
  BY <1>1 DEF Life, Live
<1>3. Left[a] = exitStatus[a] /\ Left' = [Left EXCEPT ![a] = 0]
  BY <1>1 DEF Left
<1>4. \A p, q \in Slots : Awaits(p, q)' <=> Awaits(p, q)
  <2> SUFFICES ASSUME NEW p \in Slots, NEW q \in Slots
               PROVE  Awaits(p, q)' <=> Awaits(p, q)
    OBVIOUS
  <2> QED  BY <1>1 DEF Awaits, Live
<1>5. WaitsFor' = WaitsFor
  BY <1>4, WaitsStay
<1>6. Results'[current] = exitStatus[a] /\ Service!OnlyResultsOf({current})
  BY <1>0 DEF Results, Service!OnlyResultsOf
<1> QED  BY <1>0, <1>2, <1>3, <1>5, <1>6 DEF Service!Collect, Service!NoStatus

\* sys_wait of a live process is Block.
LEMMA BlockStep ==
  ASSUME TypeOK, WaitInv, WaitsAre, WaitsAre', cpu = "user",
         NEW a \in Slots, a # current, Live(a),
         pstate' = [pstate EXCEPT ![current] = "BLOCKED"],
         waitingQ' = [waitingQ EXCEPT ![a] = @ \cup {current}],
         exitStatus' = exitStatus,
         \A p \in Slots : p # current => regs'[p].eax = regs[p].eax
  PROVE  Service!Block(current, a)
<1> USE PidFacts
<1>0. /\ current \in Slots /\ pstate[current] = "RUNNABLE" /\ Service!Active(current)
      /\ \A q \in Slots : Live(q) => current \notin waitingQ[q]
  BY RunnerIsActive, RunnerIsInNoQueue
<1>1. /\ \A q \in Slots : pstate'[q] = IF q = current THEN "BLOCKED" ELSE pstate[q]
      /\ \A q \in Slots : waitingQ'[q] = IF q = a THEN waitingQ[q] \cup {current}
                                          ELSE waitingQ[q]
  BY DEF TypeOK
<1>2. Life' = Life /\ Life[a] = "live"
  BY <1>0, <1>1 DEF Life, Live
<1>3. Left' = Left
  BY <1>0, <1>1 DEF Left
<1>4. \A p, q \in Slots : Awaits(p, q)' <=> IF p = current THEN q = a ELSE Awaits(p, q)
  <2> SUFFICES ASSUME NEW p \in Slots, NEW q \in Slots
               PROVE  Awaits(p, q)' <=> IF p = current THEN q = a ELSE Awaits(p, q)
    OBVIOUS
  <2>1. Live(q)' <=> Live(q)
    BY <1>0, <1>1 DEF Live
  <2>2. CASE p = current
    BY <1>0, <1>1, <2>1, <2>2 DEF Awaits
  <2>3. CASE p # current
    BY <1>1, <2>1, <2>3 DEF Awaits
  <2> QED  BY <2>2, <2>3
<1>5. WaitsFor' = [WaitsFor EXCEPT ![current] = a]
  <2>1. WaitsFor'[current] = a
    BY <1>0, <1>4, WaitsChange
  <2>2. \A p \in Slots : p # current => WaitsFor'[p] = WaitsFor[p]
    BY <1>4, WaitsChange
  <2>3. WaitsFor' = [p \in Slots |-> WaitsFor'[p]] /\ WaitsFor = [p \in Slots |-> WaitsFor[p]]
    BY DEF WaitsAre
  <2> QED  BY <1>0, <2>1, <2>2, <2>3
<1>6. Service!OnlyResultsOf({current})
  BY DEF Results, Service!OnlyResultsOf
<1> QED  BY <1>0, <1>2, <1>3, <1>5, <1>6 DEF Service!Block

\* Every step of the kernel is a step of the service, or changes nothing of it.
LEMMA StepService ==
  ASSUME "kill" \notin Syscalls
  PROVE  TypeOK /\ TypeOK' /\ WaitInv /\ WaitsAre /\ WaitsAre' /\ [Next]_vars
           => [Service!SharedNext]_<<Life, Left, WaitsFor, Results>>
<1> SUFFICES ASSUME TypeOK, TypeOK', WaitInv, WaitsAre, WaitsAre', [Next]_vars
             PROVE  Service!SharedNext \/ UNCHANGED <<Life, Left, WaitsFor, Results>>
  OBVIOUS
<1> USE PidFacts
<1>0. /\ current \in Slots
      /\ \A a \in Int, d \in Depths : Trap(a, d) \in Registers
      /\ \A a \in PidArgs : a \in Int
      /\ \A p \in Pid : regs[p] \in Registers /\ regs[p].eax \in Int
  BY TrapType DEF TypeOK, Registers, PidArgs
\* A call that only answers its caller.
<1>1. ASSUME cpu = "user", UNCHANGED <<pstate, waitingQ, exitStatus>>,
             NEW r, regs' = [regs EXCEPT ![current] = r]
      PROVE  Service!SharedNext
  <2>1. Service!Other(current)
    BY <1>1, OtherStep DEF TypeOK
  <2> QED  BY <1>0, <2>1 DEF Service!SharedNext, Service!SNext
<1>2. ASSUME cpu = "user", NEW i \in Slots, FirstEmpty(i), NEW esp \in Int,
             NEW r \in Registers, Create(i, esp, r), exitStatus' = exitStatus
      PROVE  Service!SharedNext
  <2>1. Service!Spawn(current, i)
    BY <1>2, CreateStep
  <2> QED  BY <1>0, <2>1 DEF Service!SharedNext, Service!SNext
<1>3. ASSUME cpu = "user", UNCHANGED exitStatus, NEW r, CannotCreate(r)
      PROVE  Service!SharedNext
  BY <1>1, <1>3 DEF CannotCreate
<1>4. CASE Getpid
  BY <1>1, <1>4 DEF Getpid, Running
<1>5. CASE UnknownCall
  BY <1>1, <1>5 DEF UnknownCall, Running
<1>6. CASE Yield
  BY <1>1, <1>6 DEF Yield, Running
<1>7. CASE Kill
  BY <1>7 DEF Kill, Running
<1>8. CASE Fork
  <2>1. cpu = "user" /\ exitStatus' = exitStatus
    BY <1>8 DEF Fork, Running
  <2>2. PICK d \in Depths :
          \/ \E i \in Slots : /\ FirstEmpty(i)
                              /\ Create(i, CopyStack(i, current, Trap(0, d).esp), Trap(0, d))
          \/ CannotCreate(Trap(0, d))
    BY <1>8 DEF Fork
  <2>3. /\ Trap(0, d) \in Registers
        /\ \A i \in Slots : CopyStack(i, current, Trap(0, d).esp) \in Int
    BY <1>0, StackTopInt DEF CopyStack, Registers
  <2> QED  BY <2>1, <2>2, <2>3, <1>2, <1>3
<1>9. CASE Newthread
  <2>1. cpu = "user" /\ exitStatus' = exitStatus
    BY <1>9 DEF Newthread, Running
  <2>2. PICK d \in Depths :
          \/ \E i \in Slots : FirstEmpty(i) /\ Create(i, StackTop(i), Trap(0, d))
          \/ CannotCreate(Trap(0, d))
    BY <1>9 DEF Newthread
  <2>3. Trap(0, d) \in Registers
    BY <1>0
  <2> QED  BY <2>1, <2>2, <2>3, <1>2, <1>3, StackTopInt
<1>10. CASE Exit
  <2>1. cpu = "user" /\ waitingQ' = waitingQ
    BY <1>10 DEF Exit, Running
  <2>2. PICK status \in Statuses, d \in Depths :
          /\ pstate' = StatesAfterWake([pstate EXCEPT ![current] = "ZOMBIE"], waitingQ[current])
          /\ exitStatus' = [exitStatus EXCEPT ![current] = status]
          /\ regs' = RegsAfterWake([regs EXCEPT ![current] = Trap(status, d)],
                                   waitingQ[current], status)
    BY <1>10 DEF Exit, Waiters
  <2>3. Trap(status, d) \in Registers
    BY <1>0
  <2>4. Service!EndForAll(current, status) /\ status \in Service!EndStatus(current)
    BY <2>1, <2>2, <2>3, ExitStep
  <2> QED  BY <1>0, <2>4 DEF Service!SharedNext
<1>11. CASE Wait
  <2>1. cpu = "user" /\ exitStatus' = exitStatus
    BY <1>11 DEF Wait, Running
  <2>2. PICK a \in PidArgs, d \in Depths :
          \/ /\ regs' = [regs EXCEPT ![current] = [Trap(a, d) EXCEPT !.eax = -1]]
             /\ UNCHANGED <<pstate, waitingQ>>
          \/ /\ a \in Slots /\ pstate[a] = "ZOMBIE"
             /\ regs' = [regs EXCEPT ![current] = [Trap(a, d) EXCEPT !.eax = exitStatus[a]]]
             /\ pstate' = Reap(a)
             /\ UNCHANGED waitingQ
          \/ /\ a \in Slots /\ a # current /\ pstate[a] # "EMPTY" /\ pstate[a] # "ZOMBIE"
             /\ regs' = [regs EXCEPT ![current] = Trap(a, d)]
             /\ waitingQ' = [waitingQ EXCEPT ![a] = @ \cup {current}]
             /\ pstate' = [pstate EXCEPT ![current] = "BLOCKED"]
    BY <1>11 DEF Wait, CannotWait, Exited
  <2>3. CASE /\ regs' = [regs EXCEPT ![current] = [Trap(a, d) EXCEPT !.eax = -1]]
             /\ UNCHANGED <<pstate, waitingQ>>
    BY <2>1, <2>3, <1>1
  <2>4. CASE /\ a \in Slots /\ pstate[a] = "ZOMBIE"
             /\ regs' = [regs EXCEPT ![current] = [Trap(a, d) EXCEPT !.eax = exitStatus[a]]]
             /\ pstate' = Reap(a)
             /\ UNCHANGED waitingQ
    <3>1. /\ regs'[current].eax = exitStatus[a]
          /\ \A p \in Slots : p # current => regs'[p].eax = regs[p].eax
      BY <1>0, <2>4 DEF TypeOK, Registers
    <3>2. Service!Collect(current, a)
      BY <2>1, <2>4, <3>1, ReapStep
    <3> QED  BY <1>0, <2>4, <3>2 DEF Service!SharedNext, Service!SNext
  <2>5. CASE /\ a \in Slots /\ a # current /\ pstate[a] # "EMPTY" /\ pstate[a] # "ZOMBIE"
             /\ regs' = [regs EXCEPT ![current] = Trap(a, d)]
             /\ waitingQ' = [waitingQ EXCEPT ![a] = @ \cup {current}]
             /\ pstate' = [pstate EXCEPT ![current] = "BLOCKED"]
    <3>1. Live(a)
      BY <2>5 DEF Live, TypeOK, States
    <3>2. \A p \in Slots : p # current => regs'[p].eax = regs[p].eax
      BY <2>5 DEF TypeOK
    <3>3. Service!Block(current, a)
      BY <2>1, <2>5, <3>1, <3>2, BlockStep
    <3> QED  BY <1>0, <2>5, <3>3 DEF Service!SharedNext, Service!SNext
  <2> QED  BY <2>2, <2>3, <2>4, <2>5
<1>12. CASE UNCHANGED vars
  BY <1>12 DEF vars, Life, Left, WaitsFor, Results, Live, Awaits
<1> QED
  BY <1>4, <1>5, <1>6, <1>7, <1>8, <1>9, <1>10, <1>11, <1>12 DEF Next, Service!SharedNext

\* If no application calls sys_kill, every behaviour of the kernel is one of the
\* service, in which all who wait for a process get its status where process.h
\* promises it to one: a status is kept for the first who asks if nobody waits,
\* and no process is woken or collected but by that.
THEOREM KernelImplementsService ==
  ASSUME "kill" \notin Syscalls
  PROVE  Spec => ImplementsService
<1>1. TypeOK /\ WaitInv /\ [Next]_vars => (TypeOK /\ WaitInv)'
  BY StepType, StepWait
<1>2. Spec => [](TypeOK /\ WaitInv /\ WaitsAre)
  BY <1>1, InitType, InitWait, WaitsForOne, PTL DEF Spec
<1>3. /\ TypeOK /\ WaitInv /\ WaitsAre
      /\ (TypeOK /\ WaitInv /\ WaitsAre)'
      /\ [Next]_vars
      => [Service!SharedNext]_<<Life, Left, WaitsFor, Results>>
  BY StepService
<1> QED
  BY <1>2, <1>3, InitService, PTL
     DEF Spec, ImplementsService, Service!SharedSpec, Service!svars
===============================================================================
