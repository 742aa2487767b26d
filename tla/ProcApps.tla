-------------------------------- MODULE ProcApps --------------------------------
(***************************************************************************)
(* The demonstration applications of OS/WeensyOS/MiniprocOS on its kernel: *)
(* p-procos-app starts threads and a child and waits for it, p-procos-app2 *)
(* starts more processes than the table holds, round after round, and      *)
(* p-procos-app3 checks what sys_wait() returns.  A step is one system     *)
(* call of the process that runs; what it does before the call, with the   *)
(* result of the call before, is part of the step.  What is printed is     *)
(* left out, but for the results app3 prints.  That stacks are not         *)
(* corrupted, which app and app2 check with a variable on them, is         *)
(* OwnStack of MiniprocOS.                                                 *)
(***************************************************************************)
EXTENDS MiniprocOS, Sequences

CONSTANTS Yields,      \* how often a slow child yields: 20 in the programs
          Total        \* the processes app2 starts: 1025 in the program

VARIABLES app,         \* the program that runs
          local,       \* the local variables of each process, on its stack
          counter,     \* app2's variable, which all its processes share
          lines        \* the results app3 prints

avars == <<vars, app, local, counter, lines>>

Any == Int
None == {-1}            \* sys_wait() has failed

\* An instruction: the results of the call before that check() accepts, the
\* call and its argument, and where the process goes on; a child it makes
\* starts at child.
Do(expect, call, arg, next) ==
  [expect |-> expect, call |-> call, arg |-> arg, next |-> next, child |-> next]
ForkTo(expect, p, next, child) == [Do(expect, "fork", p, next) EXCEPT !.child = child]

App ==
  [start   |-> Do(Any, "thread", "thread", "start2"),
   start2  |-> Do(Any, "thread", "thread", "start3"),
   start3  |-> Do(Any, "thread", "thread", "fork"),
   fork    |-> ForkTo(Any, "p", "wait", "slow"),
   wait    |-> Do(1..NPROCS, "wait", "p", "end"),
   end     |-> Do({1000}, "exit", 0, "end"),
   slow    |-> Do(Any, "yield", Yields, "slowEnd"),
   slowEnd |-> Do(Any, "exit", 1000, "slowEnd"),
   thread  |-> Do(Any, "exit", 0, "thread")]

App3 ==
  [start   |-> ForkTo(Any, "p1", "fork2", "slow1"),
   fork2   |-> ForkTo(Any, "p2", "wait1", "quick2"),
   wait1   |-> Do(Any, "wait", "p1", "again1"),
   again1  |-> Do({345}, "wait", "p1", "wait2"),
   wait2   |-> Do(None, "wait", "p2", "again2"),
   again2  |-> Do({678}, "wait", "p2", "fork3"),
   fork3   |-> ForkTo(None, "p3", "fork4", "slow3"),
   fork4   |-> ForkTo(Any, "p4", "wait3", "other"),
   wait3   |-> Do(Any, "wait", "p3", "print"),
   print   |-> Do(Any, "yield", Yields, "end"),
   end     |-> Do(Any, "exit", 0, "end"),
   slow1   |-> Do(Any, "yield", Yields, "end1"),
   end1    |-> Do(Any, "exit", 345, "end1"),
   quick2  |-> Do(Any, "exit", 678, "quick2"),
   slow3   |-> Do(Any, "yield", Yields, "end3"),
   end3    |-> Do(Any, "exit", 122, "end3"),
   other   |-> Do(Any, "wait", "p3", "print4"),
   print4  |-> Do(Any, "exit", 0, "print4")]

Points == {"print", "print4"}      \* the points of app3 that print a result
Pids == {"p", "p1", "p2", "p3", "p4"}
Fresh == [at |-> "start", i |-> 0, pids |-> [v \in Pids |-> 0]]

\* The digit of a key: of the row above the letters or of the pad, else -1.
console_read_digit(data) ==
  CASE data \in 2..10 -> data - 1
    [] data \in 71..73 -> data - 64
    [] data \in 75..77 -> data - 71
    [] data \in 79..81 -> data - 78
    [] data \in {11, 83} -> 0
    [] OTHER -> -1

\* The kernel reads keys until one is a digit that names a program.
AppInit ==
  /\ Init
  /\ \E data \in 0..127 :
       /\ console_read_digit(data) \in 1..3
       /\ app = <<"app", "app2", "app3">>[console_read_digit(data)]
  /\ local = [p \in Pid |-> Fresh] /\ counter = 0 /\ lines = <<>>

-------------------------------------------------------------------------------
(* The calls: those of the kernel, with the argument of the program *)

Me == local[current]
sys_exit(status) == Exit /\ exitStatus'[current] = status

sys_wait(p) ==
  /\ Wait
  /\ IF CannotWait(p) THEN pstate' = pstate
     ELSE IF Exited(p) THEN pstate'[p] = "EMPTY"
     ELSE pstate'[current] = "BLOCKED" /\ regs'[current].eax = p

\* A new process starts with what is on its parent's stack; the parent goes on
\* with mine.
Started(mine, child) ==
  LET p == regs'[current].eax IN
  local' = [q \in Pid |-> IF q = current THEN mine ELSE IF q = p THEN child ELSE local[q]]

-------------------------------------------------------------------------------
(* app and app3 *)

Code == IF app = "app" THEN App ELSE App3
Instruction == Code[Me.at]
Passed == regs[current].eax \in Instruction.expect
Goto(at) == local' = [local EXCEPT ![current].at = at]

\* The process is about to make the call, and what it has checked was right.
Calls(call) == /\ app # "app2" /\ cpu = "user" /\ Passed /\ Instruction.call = call
               /\ UNCHANGED <<app, counter>>

NoPrint == UNCHANGED lines
PrintLine == lines' = IF app = "app3" /\ Me.at \in Points /\ Me.i = 0
                      THEN Append(lines, regs[current].eax) ELSE lines

AppFork ==
  /\ Calls("fork") /\ NoPrint /\ Fork
  /\ Started([Me EXCEPT !.at = Instruction.next, !.pids[Instruction.arg] = regs'[current].eax],
             [Me EXCEPT !.at = Instruction.child])

AppThread ==
  /\ Calls("thread") /\ NoPrint /\ Newthread
  /\ Started([Me EXCEPT !.at = Instruction.next], [Fresh EXCEPT !.at = Instruction.arg])

AppWait ==
  /\ Calls("wait") /\ NoPrint
  /\ sys_wait(Me.pids[Instruction.arg]) /\ Goto(Instruction.next)

AppYield ==
  /\ Calls("yield") /\ PrintLine /\ Yield
  /\ local' = [local EXCEPT ![current] =
                 IF Me.i + 1 < Instruction.arg THEN [@ EXCEPT !.i = @ + 1]
                 ELSE [@ EXCEPT !.i = 0, !.at = Instruction.next]]

\* The program ends, or check() has found a wrong result.
AppExit ==
  /\ app # "app2" /\ cpu = "user" /\ (Passed => Instruction.call = "exit")
  /\ PrintLine /\ sys_exit(IF Passed THEN Instruction.arg ELSE 1)
  /\ UNCHANGED <<app, local, counter>>

-------------------------------------------------------------------------------
(* app2: i counts the processes started, and then the pids waited for *)

App2(at) == /\ app = "app2" /\ cpu = "user" /\ Me.at = at
            /\ UNCHANGED <<app, lines>>

\* Processes are started until there are enough, or fork fails.
StartMore ==
  /\ App2("start") /\ counter + Me.i < Total
  /\ Fork /\ UNCHANGED counter
  /\ LET p == regs'[current].eax IN
     IF p > 0
     THEN Started([Me EXCEPT !.i = @ + 1], [Me EXCEPT !.at = "child"])
     ELSE local' = [local EXCEPT ![current] = [@ EXCEPT !.at = IF Me.i = 0 THEN "end" ELSE "reap", !.i = 2]]

\* There are enough, or no room: the parent waits for every pid.
MayReap == Me.at = "reap" \/ (Me.at = "start" /\ Me.i > 0 /\ counter + Me.i >= Total)

Reaping ==
  /\ app = "app2" /\ cpu = "user" /\ MayReap
  /\ LET p == IF Me.at = "reap" THEN Me.i ELSE 2 IN
     /\ sys_wait(p)
     /\ local' = [local EXCEPT ![current] =
                    IF p + 1 < NPROCS THEN [@ EXCEPT !.at = "reap", !.i = p + 1]
                    ELSE [@ EXCEPT !.at = "start", !.i = 0]]
  /\ UNCHANGED <<app, counter, lines>>

\* run_child(): the status of a child is the counter it has found.
RunChild == App2("child") /\ counter' = counter + 1 /\ sys_exit(counter) /\ UNCHANGED local

Finish ==
  /\ app = "app2" /\ cpu = "user" /\ Me.at \in {"start", "end"}
  /\ Me.at = "start" => counter + Me.i >= Total /\ Me.i = 0
  /\ sys_exit(0) /\ UNCHANGED <<app, local, counter, lines>>

AppNext == \/ AppFork \/ AppThread \/ AppWait \/ AppYield \/ AppExit
           \/ StartMore \/ Reaping \/ RunChild \/ Finish

-------------------------------------------------------------------------------
(* Properties *)

\* The checks of the programs pass: none of their processes ends with status 1
\* for a wrong result, and when the first one has ended, its children have.
ChecksPass ==
  /\ app # "app2" => \A p \in Pid : pstate[p] = "ZOMBIE" => exitStatus[p] # 1
  /\ pstate[1] = "ZOMBIE" =>
       \A p \in Pid \ {1} : local[p].at \notin {"slow", "slow1", "slow3", "quick2", "child"}
                              \/ pstate[p] \in {"EMPTY", "ZOMBIE"}

\* app2 starts as many processes as it is to, each of which is given its own
\* number, although the table is full several times on the way.
AllAreCounted ==
  app = "app2" =>
    /\ counter <= Total
    /\ \A p, q \in Pid \ {1} : pstate[p] = "ZOMBIE" /\ pstate[q] = "ZOMBIE" /\ p # q
                                 => exitStatus[p] # exitStatus[q]
    /\ pstate[1] = "ZOMBIE" => counter = Total

\* What the two processes print that wait for one child is its status, or -1 for
\* one of them, as process.h allows: the status is not lost between them, and no
\* other number takes its place.  (app3 announces that one of them prints -1; on
\* this kernel each prints 122.)
StatusIsPrinted ==
  /\ \A i \in DOMAIN lines : lines[i] \in {122, -1}
  /\ Len(lines) = 2 => 122 \in {lines[1], lines[2]}

\* The first process comes to its end, with nothing to complain about.
ComesToEnd == <>(pstate[1] = "ZOMBIE" /\ exitStatus[1] = 0 /\ (app = "app3" => Len(lines) = 2))
===============================================================================
