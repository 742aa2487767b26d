--------------------------------- MODULE Tsh ----------------------------------
(***************************************************************************)
(* The job control of C/CSAPPLab/shell/tsh.c: eval() and do_bgfg() in the  *)
(* shell's main loop, and the signal handlers that interrupt them.         *)
(*                                                                         *)
(* A handler runs to its end before the code that it interrupts goes on,   *)
(* and a pending SIGCHLD that is not blocked is delivered at once.  So a   *)
(* step of the main loop is what it does between two points where it       *)
(* matters that a handler runs.  SIGINT and SIGTSTP come one at a time,    *)
(* and to the shell only, as sdriver.pl sends them.  Processes, process    *)
(* groups and wait statuses are the operating system's.                    *)
(***************************************************************************)
EXTENDS Integers, FiniteSets

CONSTANTS MAXJOBS,  \* size of jobs[] (16)
          Pids,     \* the process ids that fork() returns
          MaxJid    \* bound: no command is run once nextjid is larger

ASSUME MaxJobsAssumption == MAXJOBS \in Nat \ {0}
ASSUME PidsAssumption == Pids \subseteq Nat \ {0} /\ IsFiniteSet(Pids)
ASSUME MaxJidAssumption == MaxJid \in Nat /\ MaxJid >= MAXJOBS

VARIABLES jobs,     \* jobs[]: pid, jid and state of each slot
          nextjid,
          main,     \* where the main loop is
          blocked,  \* SIGCHLD is blocked
          sigchld,  \* SIGCHLD is pending
          handler,  \* what the handler of SIGINT or SIGTSTP is doing
          proc,     \* the state of each process
          stray     \* history: slots that do_bgfg() put into FG for no process

vars == <<jobs, nextjid, main, blocked, sigchld, handler, proc, stray>>

Slot == 1..MAXJOBS
JobStates == {"UNDEF", "FG", "BG", "ST"}

\* "forked": in the group of the shell still; "stopping": stopped, and waitpid()
\* has not told the shell; "none": there is no such child, or it is reaped.
ProcStates == {"none", "forked", "running", "stopping", "stopped", "zombie"}

Prompt == [at |-> "prompt"]
Exited == [at |-> "exited"]
Failed == [at |-> "failed"]   \* unix_error() or app_error()
Idle == [at |-> "idle"]

clearjob == [pid |-> 0, jid |-> 0, state |-> "UNDEF"]

Init ==
  /\ jobs = [i \in Slot |-> clearjob]
  /\ nextjid = 1
  /\ main = Prompt /\ blocked = FALSE /\ sigchld = FALSE /\ handler = Idle
  /\ proc = [p \in Pids |-> "none"]
  /\ stray = {}

-------------------------------------------------------------------------------
(***************************************************************************)
(* The job list.                                                           *)
(***************************************************************************)

First(S) == CHOOSE i \in S : \A j \in S : i <= j

maxjid(js) == LET jids == {js[i].jid : i \in Slot}
              IN CHOOSE m \in jids : \A j \in jids : j <= m

Free == {i \in Slot : jobs[i].pid = 0}
Foreground == {i \in Slot : jobs[i].state = "FG"}
SlotsOf(p) == {i \in Slot : jobs[i].pid = p}

\* Mutant: every job that is not stopped is in the foreground.
fgpidNotStopped ==
  LET S == {i \in Slot : jobs[i].state \in {"FG", "BG"}}
  IN IF S = {} THEN 0 ELSE jobs[First(S)].pid

fgpid == IF Foreground = {} THEN 0 ELSE jobs[First(Foreground)].pid

-------------------------------------------------------------------------------
(***************************************************************************)
(* The main loop.                                                          *)
(***************************************************************************)

\* No handler has interrupted the main loop, and no SIGCHLD is about to.
Runs == handler = Idle /\ (sigchld => blocked)

\* Mutant: SIGCHLD is not blocked.
ForkUnblocked(p, state) ==
  /\ Runs /\ main = Prompt /\ nextjid <= MaxJid
  /\ proc[p] = "none"
  /\ proc' = [proc EXCEPT ![p] = "forked"]
  /\ main' = [at |-> "add", pid |-> p, state |-> state]
  /\ UNCHANGED <<jobs, nextjid, blocked, sigchld, handler, stray>>

\* eval() of a command: it blocks SIGCHLD and forks.
Fork(p, state) ==
  /\ Runs /\ main = Prompt /\ nextjid <= MaxJid
  /\ proc[p] = "none"
  /\ blocked' = TRUE
  /\ proc' = [proc EXCEPT ![p] = "forked"]
  /\ main' = [at |-> "add", pid |-> p, state |-> state]
  /\ UNCHANGED <<jobs, nextjid, sigchld, handler, stray>>

\* addjob() writes the pid of the first free slot, if there is one.  Only SIGCHLD
\* is blocked: a key that is typed now finds the state that the slot had.
AddPid ==
  /\ Runs /\ main.at = "add"
  /\ IF Free = {}
       THEN /\ main' = [main EXCEPT !.at = "unblock"]
            /\ UNCHANGED jobs
       ELSE /\ main' = [at |-> "fill", pid |-> main.pid, state |-> main.state,
                        slot |-> First(Free)]
            /\ jobs' = [jobs EXCEPT ![First(Free)].pid = main.pid]
  /\ UNCHANGED <<nextjid, blocked, sigchld, handler, proc, stray>>

\* The state and the jid, which no handler of a key reads.
AddState ==
  /\ Runs /\ main.at = "fill"
  /\ jobs' = [jobs EXCEPT ![main.slot] =
                [pid |-> main.pid, jid |-> nextjid, state |-> main.state]]
  /\ nextjid' = IF nextjid + 1 > MAXJOBS THEN 1 ELSE nextjid + 1
  /\ main' = [at |-> "unblock", pid |-> main.pid, state |-> main.state]
  /\ stray' = stray \ {main.slot}
  /\ UNCHANGED <<blocked, sigchld, handler, proc>>

\* Mutant: SIGCHLD stays blocked while the shell waits.
UnblockLate ==
  /\ Runs /\ main.at = "unblock"
  /\ blocked' = (main.state = "FG")
  /\ main' = IF main.state = "FG" THEN [at |-> "wait", pid |-> main.pid] ELSE Prompt
  /\ UNCHANGED <<jobs, nextjid, sigchld, handler, proc, stray>>

Unblock ==
  /\ Runs /\ main.at = "unblock"
  /\ blocked' = FALSE
  /\ main' = IF main.state = "FG" THEN [at |-> "wait", pid |-> main.pid] ELSE Prompt
  /\ UNCHANGED <<jobs, nextjid, sigchld, handler, proc, stray>>

\* waitfg(): the loop ends.
WaitEnds ==
  /\ Runs /\ main.at = "wait" /\ fgpid # main.pid
  /\ main' = Prompt
  /\ UNCHANGED <<jobs, nextjid, blocked, sigchld, handler, proc, stray>>

\* do_bgfg() with a job id, the state being FG or BG: it looks the job up, and
\* reads its pid.
LookupJid(j, state) ==
  /\ Runs /\ main = Prompt
  /\ \E i \in Slot : jobs[i].jid = j
  /\ main' = [at |-> "read", state |-> state,
              slot |-> First({i \in Slot : jobs[i].jid = j})]
  /\ UNCHANGED <<jobs, nextjid, blocked, sigchld, handler, proc, stray>>

ReadPid ==
  /\ Runs /\ main.at = "read"
  /\ main' = [at |-> "cont", state |-> main.state, slot |-> main.slot,
              pid |-> jobs[main.slot].pid]
  /\ UNCHANGED <<jobs, nextjid, blocked, sigchld, handler, proc, stray>>

\* do_bgfg() with a process id.
LookupPid(p, state) ==
  /\ Runs /\ main = Prompt /\ SlotsOf(p) # {}
  /\ main' = [at |-> "cont", state |-> state, slot |-> First(SlotsOf(p)), pid |-> p]
  /\ UNCHANGED <<jobs, nextjid, blocked, sigchld, handler, proc, stray>>

\* kill(-pid, SIGCONT): a stop that the shell has not been told of is forgotten.
Continue ==
  /\ Runs /\ main.at = "cont"
  /\ proc' = [p \in Pids |-> IF p = main.pid /\ proc[p] \in {"stopping", "stopped"}
                               THEN "running" ELSE proc[p]]
  /\ main' = [main EXCEPT !.at = "mark"]
  /\ UNCHANGED <<jobs, nextjid, blocked, sigchld, handler, stray>>

\* job->state is set whatever has become of the job.
Mark ==
  /\ Runs /\ main.at = "mark"
  /\ jobs' = [jobs EXCEPT ![main.slot].state = main.state]
  /\ stray' = IF jobs[main.slot].pid = 0 /\ main.state = "FG"
                THEN stray \cup {main.slot} ELSE stray
  /\ main' = IF main.state = "FG" THEN [at |-> "wait", pid |-> main.pid] ELSE Prompt
  /\ UNCHANGED <<nextjid, blocked, sigchld, handler, proc>>

\* quit, or the end of the input.
Quit ==
  /\ Runs /\ main = Prompt
  /\ main' = Exited
  /\ UNCHANGED <<jobs, nextjid, blocked, sigchld, handler, proc, stray>>

Commands ==
  \/ \E p \in Pids, s \in {"FG", "BG"} : Fork(p, s) \/ LookupPid(p, s)
  \/ \E j \in 1..MaxJid, s \in {"FG", "BG"} : LookupJid(j, s)
  \/ Quit

Main == AddPid \/ AddState \/ Unblock \/ WaitEnds \/ ReadPid \/ Continue \/ Mark

-------------------------------------------------------------------------------
(***************************************************************************)
(* The handlers.                                                           *)
(***************************************************************************)

Lives == main \notin {Exited, Failed}

\* The zombies are deleted from the list and the jobs that have stopped marked,
\* in any order; nextjid comes from the last deletion of a job that is listed.
sigchld_handler ==
  LET reaped == {p \in Pids : proc[p] = "zombie"}
      halted == {p \in Pids : proc[p] = "stopping"}
      after == [i \in Slot |-> IF jobs[i].pid \in reaped THEN clearjob
                  ELSE IF jobs[i].pid \in halted THEN [jobs[i] EXCEPT !.state = "ST"]
                  ELSE jobs[i]]
  IN /\ Lives /\ sigchld /\ ~blocked
     /\ sigchld' = FALSE
     /\ IF \A p \in halted : SlotsOf(p) # {}
          THEN /\ jobs' = after
               /\ nextjid' = IF \E i \in Slot : jobs[i].pid \in reaped
                               THEN maxjid(after) + 1 ELSE nextjid
               /\ UNCHANGED main
          ELSE /\ main' = Failed
               /\ UNCHANGED <<jobs, nextjid>>
     /\ proc' = [p \in Pids |-> CASE p \in reaped -> "none"
                                  [] p \in halted -> "stopped"
                                  [] OTHER -> proc[p]]
     /\ UNCHANGED <<blocked, handler, stray>>

\* Mutant: the handler does not ask whether there is a foreground job.
KeyUnchecked(sig) ==
  /\ Lives /\ Runs
  /\ handler' = [at |-> "kill", sig |-> sig, pid |-> fgpid]
  /\ UNCHANGED <<jobs, nextjid, main, blocked, sigchld, proc, stray>>

\* sigint_handler() and sigtstp_handler() read fgpid, and then kill.
Key(sig) ==
  /\ Lives /\ Runs /\ fgpid # 0
  /\ handler' = [at |-> "kill", sig |-> sig, pid |-> fgpid]
  /\ UNCHANGED <<jobs, nextjid, main, blocked, sigchld, proc, stray>>

\* SIGCHLD may interrupt the handler before it kills.  The group of a process
\* that has not called setpgid(), or is reaped, does not exist.  A process may
\* catch the signal; one that is stopped gets SIGINT when it is continued.
Kill ==
  /\ handler # Idle /\ Lives /\ (sigchld => blocked)
  /\ LET p == handler.pid IN
       IF proc[p] \in {"none", "forked"}
         THEN main' = Failed /\ UNCHANGED <<proc, sigchld>>
         ELSE /\ UNCHANGED main
              /\ \/ UNCHANGED <<proc, sigchld>>
                 \/ /\ proc[p] = "running"
                    /\ proc' = [proc EXCEPT ![p] =
                         IF handler.sig = "SIGINT" THEN "zombie" ELSE "stopping"]
                    /\ sigchld' = TRUE
  /\ handler' = Idle
  /\ UNCHANGED <<jobs, nextjid, blocked, stray>>

-------------------------------------------------------------------------------
(***************************************************************************)
(* The children.                                                           *)
(***************************************************************************)

\* setpgid() and execve().
SetPgid(p) ==
  /\ proc[p] = "forked"
  /\ proc' = [proc EXCEPT ![p] = "running"]
  /\ UNCHANGED <<jobs, nextjid, main, blocked, sigchld, handler, stray>>

\* A process exits, or is killed by another than the shell.
Die(p) ==
  /\ proc[p] \in {"running", "stopping", "stopped"}
  /\ proc' = [proc EXCEPT ![p] = "zombie"]
  /\ sigchld' = TRUE
  /\ UNCHANGED <<jobs, nextjid, main, blocked, handler, stray>>

\* A process stops itself, as mystop.c does.
Stop(p) ==
  /\ proc[p] = "running"
  /\ proc' = [proc EXCEPT ![p] = "stopping"]
  /\ sigchld' = TRUE
  /\ UNCHANGED <<jobs, nextjid, main, blocked, handler, stray>>

Child(p) == Lives /\ (SetPgid(p) \/ Die(p) \/ Stop(p))

Next ==
  \/ Commands \/ Main
  \/ sigchld_handler \/ Kill \/ \E sig \in {"SIGINT", "SIGTSTP"} : Key(sig)
  \/ \E p \in Pids : Child(p)

Spec == Init /\ [][Next]_vars

\* The handlers run, and the main loop goes on between two signals, however many
\* keys are typed.
FairSpec == Spec /\ SF_vars(Main) /\ WF_vars(sigchld_handler) /\ WF_vars(Kill)

-------------------------------------------------------------------------------
(***************************************************************************)
(* Properties.                                                             *)
(***************************************************************************)

\* Types of the job list and of the processes.
TypeOK ==
  /\ jobs \in [Slot -> [pid : Pids \cup {0}, jid : 0..MaxJid, state : JobStates]]
  /\ nextjid \in 1..(MaxJid + 1)
  /\ proc \in [Pids -> ProcStates]
  /\ blocked \in BOOLEAN /\ sigchld \in BOOLEAN /\ stray \subseteq Slot
  /\ handler # Idle => handler.pid \in Pids

\* A child that is dead or alive, and not reaped, is in the list, once, from
\* addjob() until it is reaped, and nothing else is: no SIGCHLD is handled before
\* the job is added.  (As long as there are not more children than MAXJOBS.)
ListIsExact ==
  Lives => \A p \in Pids :
    Cardinality(SlotsOf(p)) =
      IF proc[p] = "none" \/ main = [at |-> "add", pid |-> p, state |-> "FG"]
                          \/ main = [at |-> "add", pid |-> p, state |-> "BG"]
        THEN 0 ELSE 1

\* Typing ctrl-c or ctrl-z does not signal a job that runs in the background, nor
\* one that is being added to it.  The exception is the code's: addjob() writes the
\* pid before the state, so a slot that do_bgfg() has put into FG after its job was
\* gone (tsh.c:364) shows the job that it is given next in the foreground.
OnlyForeground ==
  handler # Idle =>
    /\ \A i \in SlotsOf(handler.pid) : jobs[i].state # "BG"
    /\ main.at = "fill" /\ main.pid = handler.pid /\ main.state = "BG"
         => main.slot \in stray

\* The shell that waits for a process returns to its prompt when it has died.
DeadIsNotAwaited ==
  \A p \in Pids : main = [at |-> "wait", pid |-> p] /\ proc[p] = "zombie"
                    ~> main # [at |-> "wait", pid |-> p]

\* tsh.c, line 34: "At most 1 job can be in the FG state."  Slots whose job is
\* gone do not count.
OneForeground == Cardinality({i \in Foreground : jobs[i].pid # 0}) <= 1
=============================================================================
