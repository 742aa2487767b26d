------------------------------- MODULE TshProofs -------------------------------
(***************************************************************************)
(* Proofs about the job control of tsh, for every size of the job list and *)
(* every set of process ids: types (TypeCorrect), that the list is exact   *)
(* (ListStaysExact) and that keys reach the foreground (KeysReachTheJob).  *)
(*                                                                         *)
(* The argument: SIGCHLD is blocked from before fork() until addjob() has  *)
(* returned (Adding), so a process is reaped only while its job is in the  *)
(* list, which is then cleared in the same handler.  A job is added for a  *)
(* process that was not there before, so no process is listed twice.       *)
(***************************************************************************)
EXTENDS Tsh, FiniteSetTheorems, WellFoundedInduction, TLAPS

USE MaxJobsAssumption, PidsAssumption, MaxJidAssumption

-------------------------------------------------------------------------------
(* The search loops. *)

\* A loop over slots or job ids that has something to find finds the first.
LEMMA FirstIs ==
  ASSUME NEW S \in SUBSET Nat, S # {}
  PROVE First(S) \in S /\ \A j \in S : First(S) <= j
<1> DEFINE upto(x) == {j \in S : j <= x}
           Ts == {upto(x) : x \in S}
<1>1. \A x \in S : upto(x) \in SUBSET Nat /\ IsFiniteSet(upto(x))
  BY FS_BoundedSetOfNaturals
<1>2. Ts \subseteq FiniteSubsetsOf(Nat) /\ Ts # {}
  BY <1>1 DEF FiniteSubsetsOf
<1>3. PICK T \in Ts : \A U \in Ts : ~(<<U, T>> \in StrictSubsetOrdering(Nat))
  BY <1>2, FS_StrictSubsetOrderingWellFounded, WFMin
<1>4. PICK x \in S : T = upto(x)
  OBVIOUS
<1>5. ASSUME NEW y \in S, y < x PROVE FALSE
  <2>1. x \in Nat /\ y \in Nat /\ S \subseteq Nat
    OBVIOUS
  <2>2. upto(y) \subseteq upto(x) /\ x \in upto(x) /\ x \notin upto(y)
    <3>1. \A j \in S : j <= y => j <= x
      BY <1>5, <2>1
    <3>2. x <= x /\ ~(x <= y)
      BY <1>5, <2>1
    <3> QED
      BY <3>1, <3>2
  <2>3. upto(y) # T /\ upto(y) \subseteq T /\ upto(y) \in Ts
    BY <1>4, <2>2
  <2>4. <<upto(y), T>> \in StrictSubsetOrdering(Nat)
    <3>1. upto(y) \in SUBSET Nat /\ T \in SUBSET Nat
      BY <1>1, <1>4
    <3> HIDE DEF upto, Ts
    <3> QED
      BY <2>3, <3>1 DEF StrictSubsetOrdering
  <2> QED
    BY <1>3, <2>3, <2>4
<1>6. \A y \in S : x <= y
  BY <1>5
<1> QED
  BY <1>6 DEF First

\* maxjid() of a list whose job ids are numbers up to m.
LEMMA maxjidIs ==
  ASSUME NEW m \in Nat, NEW js, \A i \in Slot : js[i].jid \in 0..m
  PROVE maxjid(js) \in 0..m
<1> DEFINE jids == {js[i].jid : i \in Slot}
           gaps == {m - j : j \in jids}
<1>1. 1 \in Slot
  BY DEF Slot
<1>2. gaps \in SUBSET Nat /\ gaps # {} /\ jids \subseteq 0..m
  BY <1>1
<1>3. PICK j \in jids : First(gaps) = m - j
  BY <1>2, FirstIs
<1>4. \A k \in jids : m - j <= m - k
  BY <1>2, <1>3, FirstIs
<1>5. \A k \in jids : k <= j
  <2>1. j \in 0..m /\ \A k \in jids : k \in 0..m
    BY <1>2
  <2> HIDE DEF jids, gaps
  <2> QED
    BY <1>4, <2>1
<1> HIDE DEF gaps, jids
<1>6. \E k \in jids : \A l \in jids : l <= k
  BY <1>3, <1>5
<1>7. maxjid(js) = CHOOSE k \in jids : \A l \in jids : l <= k
  BY DEF maxjid, jids
<1> QED
  BY <1>2, <1>6, <1>7

-------------------------------------------------------------------------------
(* Types. *)

Jobs == [pid : Pids \cup {0}, jid : 0..MaxJid, state : JobStates]

MainPhases ==
  {Prompt, Exited, Failed}
    \cup [at : {"add", "unblock"}, pid : Pids, state : {"FG", "BG"}]
    \cup [at : {"fill"}, pid : Pids, state : {"FG", "BG"}, slot : Slot]
    \cup [at : {"wait"}, pid : Pids \cup {0}]
    \cup [at : {"read"}, state : {"FG", "BG"}, slot : Slot]
    \cup [at : {"cont", "mark"}, state : {"FG", "BG"}, slot : Slot,
          pid : Pids \cup {0}]

HandlerPhases == {Idle} \cup [at : {"kill"}, sig : {"SIGINT", "SIGTSTP"}, pid : Pids]

Adding == main.at = "add"
Filling == main.at = "fill"

\* The types, and that nothing is handled between fork() and addjob().
TInv ==
  /\ TypeOK
  /\ main \in MainPhases
  /\ handler \in HandlerPhases
  /\ Adding \/ Filling => blocked /\ nextjid <= MaxJid

LEMMA InitTypes == Init => TInv
<1> SUFFICES ASSUME Init PROVE TInv
  OBVIOUS
<1>1. nextjid \in 1..(MaxJid + 1) /\ clearjob \in Jobs
  BY DEF Init, clearjob, Jobs, JobStates
<1>2. TypeOK
  BY <1>1 DEF Init, TypeOK, ProcStates, Jobs
<1>3. ~Adding /\ ~Filling
  BY DEF Init, Adding, Filling, Prompt
<1> QED
  BY <1>2, <1>3 DEF Init, TInv, MainPhases, HandlerPhases

\* fgpid() finds a job in the foreground, or 0.
LEMMA fgpidIs ==
  ASSUME TypeOK
  PROVE /\ fgpid \in Pids \cup {0}
        /\ fgpid # 0 => \E i \in Slot : jobs[i].pid = fgpid /\ jobs[i].state = "FG"
<1>1. CASE Foreground = {}
  BY <1>1 DEF fgpid
<1>2. CASE Foreground # {}
  <2>1. Foreground \in SUBSET Nat
    BY DEF Foreground, Slot
  <2>2. First(Foreground) \in Foreground
    BY <1>2, <2>1, FirstIs
  <2> QED
    BY <1>2, <2>2 DEF fgpid, Foreground, TypeOK
<1> QED
  BY <1>1, <1>2

\* addjob() takes the first free slot.
LEMMA FreeSlot ==
  ASSUME Free # {}
  PROVE First(Free) \in Slot /\ jobs[First(Free)].pid = 0
<1>1. Free \in SUBSET Nat
  BY DEF Free, Slot
<1> QED
  BY <1>1, FirstIs DEF Free

LEMMA AddTypes == TInv /\ (AddPid \/ AddState) => TInv'
<1> SUFFICES ASSUME TInv, AddPid \/ AddState PROVE TInv'
  OBVIOUS
<1>1. main.pid \in Pids /\ main.state \in {"FG", "BG"} /\ nextjid \in 1..MaxJid /\ blocked
  BY DEF TInv, TypeOK, AddPid, AddState, MainPhases, Adding, Filling, Prompt, Exited,
         Failed
<1>2. CASE AddPid /\ Free = {}
  <2>1. main' \in [at : {"add", "unblock"}, pid : Pids, state : {"FG", "BG"}]
          /\ main'.at = "unblock"
    BY <1>2 DEF TInv, AddPid, MainPhases, Prompt, Exited, Failed
  <2> QED
    BY <1>2, <2>1 DEF TInv, TypeOK, AddPid, MainPhases, Adding, Filling
<1>3. CASE AddPid /\ Free # {}
  <2>1. First(Free) \in Slot
    BY <1>3, FreeSlot
  <2>2. jobs' \in [Slot -> Jobs]
    BY <1>1, <1>3, <2>1 DEF TInv, TypeOK, AddPid, Jobs
  <2>3. main' \in [at : {"fill"}, pid : Pids, state : {"FG", "BG"}, slot : Slot]
    BY <1>1, <1>3, <2>1 DEF AddPid
  <2> QED
    BY <1>1, <1>3, <2>2, <2>3 DEF TInv, TypeOK, AddPid, Jobs, MainPhases
<1>4. CASE AddState
  <2>1. main.slot \in Slot
    BY <1>4 DEF TInv, AddState, MainPhases, Prompt, Exited, Failed
  <2>2. [pid |-> main.pid, jid |-> nextjid, state |-> main.state] \in Jobs
    BY <1>1 DEF Jobs, JobStates
  <2>3. jobs' \in [Slot -> Jobs]
    BY <1>4, <2>1, <2>2 DEF TInv, TypeOK, AddState, Jobs
  <2>4. nextjid' \in 1..(MaxJid + 1) /\ stray' \subseteq Slot
    BY <1>1, <1>4 DEF AddState, TInv, TypeOK
  <2>5. main' \in MainPhases /\ main'.at = "unblock"
    BY <1>1, <1>4 DEF AddState, MainPhases
  <2> QED
    BY <1>4, <2>3, <2>4, <2>5 DEF TInv, TypeOK, AddState, Jobs, Adding, Filling
<1> QED
  BY <1>2, <1>3, <1>4

\* The commands.
LEMMA CommandTypes == TInv /\ Commands => TInv'
<1> SUFFICES ASSUME TInv, Commands PROVE TInv'
  OBVIOUS
<1>1. ASSUME NEW p \in Pids, NEW s \in {"FG", "BG"}, Fork(p, s) PROVE TInv'
  BY <1>1 DEF Fork, TInv, TypeOK, MainPhases, Adding, Filling, ProcStates
<1>2. ASSUME NEW p \in Pids, NEW s \in {"FG", "BG"}, LookupPid(p, s) PROVE TInv'
  <2>1. SlotsOf(p) # {} /\ SlotsOf(p) \in SUBSET Nat
    BY <1>2 DEF LookupPid, SlotsOf, Slot
  <2>2. First(SlotsOf(p)) \in Slot
    BY <2>1, FirstIs DEF SlotsOf
  <2> QED
    BY <1>2, <2>2 DEF LookupPid, TInv, TypeOK, MainPhases, Adding, Filling
<1>3. ASSUME NEW j \in 1..MaxJid, NEW s \in {"FG", "BG"}, LookupJid(j, s) PROVE TInv'
  <2> DEFINE S == {i \in Slot : jobs[i].jid = j}
  <2>1. S # {} /\ S \in SUBSET Nat
    BY <1>3 DEF LookupJid, Slot
  <2>2. First(S) \in Slot
    BY <2>1, FirstIs
  <2> QED
    BY <1>3, <2>2 DEF LookupJid, TInv, TypeOK, MainPhases, Adding, Filling
<1>4. CASE Quit
  BY <1>4 DEF Quit, TInv, TypeOK, MainPhases, Adding, Filling, Exited
<1> QED
  BY <1>1, <1>2, <1>3, <1>4 DEF Commands

LEMMA MainTypes == TInv /\ Main => TInv'
<1> SUFFICES ASSUME TInv, Main PROVE TInv'
  OBVIOUS
<1>1. CASE AddPid \/ AddState
  BY <1>1, AddTypes
<1>2. CASE Unblock
  <2>1. main.pid \in Pids
    BY <1>2 DEF Unblock, TInv, MainPhases, Prompt, Exited, Failed
  <2>2. main' \in MainPhases /\ main'.at \notin {"add", "fill"}
    BY <1>2, <2>1 DEF Unblock, MainPhases, Prompt
  <2> QED
    BY <1>2, <2>2 DEF Unblock, TInv, TypeOK, Adding, Filling
<1>3. CASE WaitEnds
  BY <1>3 DEF WaitEnds, TInv, TypeOK, MainPhases, Adding, Filling, Prompt
<1>4. CASE ReadPid
  BY <1>4 DEF ReadPid, TInv, TypeOK, MainPhases, Adding, Filling, Prompt, Exited, Failed
<1>5. CASE Continue
  BY <1>5 DEF Continue, TInv, TypeOK, MainPhases, Adding, Filling, Prompt, Exited, Failed,
              ProcStates
<1>6. CASE Mark
  <2>1. main.slot \in Slot /\ main.state \in {"FG", "BG"} /\ main.pid \in Pids \cup {0}
    BY <1>6 DEF Mark, TInv, MainPhases, Prompt, Exited, Failed
  <2>2. jobs' \in [Slot -> Jobs]
    BY <1>6, <2>1 DEF Mark, TInv, TypeOK, Jobs, JobStates
  <2>3. main' \in MainPhases /\ main'.at \notin {"add", "fill"}
    BY <1>6, <2>1 DEF Mark, MainPhases, Prompt
  <2> QED
    BY <1>6, <2>2, <2>3 DEF Mark, TInv, TypeOK, Jobs, Adding, Filling
<1> QED
  BY <1>1, <1>2, <1>3, <1>4, <1>5, <1>6 DEF Main

LEMMA HandlerTypes ==
  ASSUME TInv, NEW sig \in {"SIGINT", "SIGTSTP"},
         sigchld_handler \/ Key(sig) \/ Kill
  PROVE TInv'
<1>1. CASE sigchld_handler
  <2> DEFINE reaped == {p \in Pids : proc[p] = "zombie"}
             halted == {p \in Pids : proc[p] = "stopping"}
             after == [i \in Slot |-> IF jobs[i].pid \in reaped THEN clearjob
                  ELSE IF jobs[i].pid \in halted THEN [jobs[i] EXCEPT !.state = "ST"]
                  ELSE jobs[i]]
  <2>1. after \in [Slot -> Jobs]
    BY DEF TInv, TypeOK, Jobs, JobStates, clearjob
  <2>2. maxjid(after) \in 0..MaxJid
    BY <2>1, maxjidIs DEF Jobs
  <2>3. proc' \in [Pids -> ProcStates]
    BY <1>1 DEF sigchld_handler, TInv, TypeOK, ProcStates
  <2>4. /\ ~Adding /\ ~Filling /\ sigchld' = FALSE
        /\ UNCHANGED <<blocked, handler, stray>>
    BY <1>1 DEF sigchld_handler, TInv
  <2>5. CASE \A p \in halted : SlotsOf(p) # {}
    <3>1. /\ jobs' = after
          /\ nextjid' = IF \E i \in Slot : jobs[i].pid \in reaped
                          THEN maxjid(after) + 1 ELSE nextjid
          /\ main' = main
      BY <1>1, <2>5 DEF sigchld_handler
    <3>2. jobs' \in [Slot -> Jobs] /\ nextjid' \in 1..(MaxJid + 1)
      <4> HIDE DEF after, reaped
      <4> QED
        BY <2>1, <2>2, <3>1 DEF TInv, TypeOK
    <3> QED
      BY <2>3, <2>4, <3>1, <3>2 DEF TInv, TypeOK, Jobs, Adding, Filling
  <2>6. CASE ~(\A p \in halted : SlotsOf(p) # {})
    <3>1. main' = Failed /\ UNCHANGED <<jobs, nextjid>>
      BY <1>1, <2>6 DEF sigchld_handler
    <3> QED
      BY <2>3, <2>4, <3>1 DEF TInv, TypeOK, Adding, Filling, MainPhases, Failed
  <2> QED
    BY <2>5, <2>6
<1>2. CASE Key(sig)
  <2>1. fgpid \in Pids
    BY <1>2, fgpidIs DEF Key, TInv
  <2> QED
    BY <1>2, <2>1 DEF Key, TInv, TypeOK, HandlerPhases, Adding, Filling
<1>3. CASE Kill
  <2>1. handler.pid \in Pids
    BY <1>3 DEF Kill, TInv, TypeOK
  <2>2. proc' \in [Pids -> ProcStates] /\ sigchld' \in BOOLEAN
    BY <1>3, <2>1 DEF Kill, TInv, TypeOK, ProcStates
  <2>3. main' = main \/ main' = Failed
    BY <1>3 DEF Kill
  <2> QED
    BY <1>3, <2>2, <2>3 DEF Kill, TInv, TypeOK, HandlerPhases, Adding, Filling, MainPhases,
                             Failed
<1> QED
  BY <1>1, <1>2, <1>3

LEMMA ChildTypes == ASSUME TInv, NEW p \in Pids, Child(p) PROVE TInv'
<1>1. proc' \in [Pids -> ProcStates] /\ sigchld' \in BOOLEAN
  BY DEF Child, SetPgid, Die, Stop, TInv, TypeOK, ProcStates
<1>2. UNCHANGED <<jobs, nextjid, main, blocked, handler, stray>>
  BY DEF Child, SetPgid, Die, Stop
<1> QED
  BY <1>1, <1>2 DEF TInv, TypeOK, Adding, Filling

LEMMA StepTypes == TInv /\ [Next]_vars => TInv'
<1> SUFFICES ASSUME TInv, [Next]_vars PROVE TInv'
  OBVIOUS
<1>1. CASE Commands
  BY <1>1, CommandTypes
<1>2. CASE Main
  BY <1>2, MainTypes
<1>3. CASE sigchld_handler \/ Kill \/ \E sig \in {"SIGINT", "SIGTSTP"} : Key(sig)
  BY <1>3, HandlerTypes
<1>4. CASE \E p \in Pids : Child(p)
  BY <1>4, ChildTypes
<1>5. CASE UNCHANGED vars
  BY <1>5 DEF vars, TInv, TypeOK, Adding, Filling
<1> QED
  BY <1>1, <1>2, <1>3, <1>4, <1>5 DEF Next

\* The job list, the ids and the processes keep their types: eval(), do_bgfg(),
\* addjob(), deletejob() and the handlers write nothing else.
THEOREM TypeCorrect == Spec => []TypeOK
<1>1. Spec => []TInv
  BY InitTypes, StepTypes, PTL DEF Spec
<1> QED
  BY <1>1, PTL DEF TInv

-------------------------------------------------------------------------------
(* The job list. *)

\* No process is listed twice.
Once == \A i, k \in Slot : jobs[i].pid = jobs[k].pid /\ jobs[i].pid # 0 => i = k

\* A process that is listed has not been reaped.
NotReaped == Lives => \A i \in Slot : jobs[i].pid # 0 => proc[jobs[i].pid] # "none"

\* The process of a job that is being added is new.
NewProcess ==
  Adding => /\ proc[main.pid] # "none"
            /\ \A i \in Slot : jobs[i].pid # main.pid

\* addjob() has written the pid of the slot that it fills.
Written == Filling => jobs[main.slot].pid = main.pid

ListInv == Once /\ NotReaped /\ NewProcess /\ Written

LInv == TInv /\ ListInv

LEMMA InitList == Init => LInv
<1> SUFFICES ASSUME Init PROVE LInv
  OBVIOUS
<1>1. ~Adding /\ ~Filling
  BY DEF Init, Adding, Filling, Prompt
<1> QED
  BY <1>1, InitTypes DEF Init, LInv, ListInv, Once, NotReaped, NewProcess, Written, clearjob

LEMMA ForkList ==
  ASSUME LInv, NEW p \in Pids, NEW s \in {"FG", "BG"}, Fork(p, s)
  PROVE ListInv'
<1>1. Lives
  BY DEF Fork, Lives, Prompt, Exited, Failed
<1>2. \A i \in Slot : jobs[i].pid # p
  <2>1. p # 0
    OBVIOUS
  <2> QED
    BY <1>1, <2>1 DEF LInv, ListInv, NotReaped, Fork
<1>3. Once'
  BY DEF LInv, ListInv, Once, Fork
<1>4. proc' = [proc EXCEPT ![p] = "forked"] /\ jobs' = jobs /\ main'.pid = p
  BY DEF Fork
<1>5. NotReaped'
  BY <1>1, <1>2, <1>4 DEF LInv, ListInv, TInv, TypeOK, NotReaped
<1>6. NewProcess'
  BY <1>2, <1>4 DEF LInv, ListInv, TInv, TypeOK, NewProcess
<1>7. Written'
  BY DEF Fork, Written, Filling
<1> QED
  BY <1>3, <1>5, <1>6, <1>7 DEF ListInv

LEMMA AddList ==
  ASSUME LInv, AddPid
  PROVE ListInv'
<1>1. Adding /\ Lives /\ main.pid \in Pids /\ ~Adding' /\ proc' = proc
  <2>1. main.at = "add" /\ proc' = proc
    BY DEF AddPid
  <2>2. main.pid \in Pids /\ Lives
    BY <2>1 DEF LInv, TInv, MainPhases, Prompt, Exited, Failed, Lives
  <2>3. CASE Free = {}
    BY <2>1, <2>2, <2>3 DEF AddPid, Adding, LInv, TInv, MainPhases, Prompt, Exited, Failed
  <2>4. CASE Free # {}
    BY <2>1, <2>2, <2>4 DEF AddPid, Adding
  <2> QED
    BY <2>3, <2>4
<1>2. CASE Free = {}
  <2>1. main'.at = "unblock" /\ jobs' = jobs
    BY <1>2 DEF AddPid, LInv, TInv, MainPhases, Prompt, Exited, Failed
  <2> QED
    BY <1>1, <2>1 DEF LInv, ListInv, Once, NotReaped, NewProcess, Written, Filling
<1>3. CASE Free # {}
  <2> DEFINE f == First(Free)
  <2>1. f \in Slot /\ jobs[f].pid = 0
    BY <1>3, FreeSlot
  <2>2. /\ jobs' = [jobs EXCEPT ![f].pid = main.pid]
        /\ main'.slot = f /\ main'.pid = main.pid
    BY <1>3 DEF AddPid
  <2>3. \A i \in Slot : jobs'[i].pid = IF i = f THEN main.pid ELSE jobs[i].pid
    <3> HIDE DEF f
    <3> QED
      BY <2>1, <2>2 DEF LInv, TInv, TypeOK
  <2> HIDE DEF f
  <2>4. Once'
    BY <1>1, <2>3 DEF LInv, ListInv, Once, NewProcess
  <2>5. NotReaped'
    BY <1>1, <2>3 DEF LInv, ListInv, NotReaped, NewProcess
  <2>6. Written'
    BY <2>1, <2>2, <2>3 DEF Written
  <2> QED
    BY <1>1, <2>4, <2>5, <2>6 DEF ListInv, NewProcess
<1> QED
  BY <1>2, <1>3

\* A step that changes neither the pids of the list nor who is reaped.
LEMMA SameList ==
  ASSUME LInv, ~Adding', ~Filling', Lives' => Lives,
         \A i \in Slot : jobs'[i].pid = jobs[i].pid,
         \A p \in Pids : proc[p] # "none" => proc'[p] # "none"
  PROVE ListInv'
<1>1. Once'
  BY DEF LInv, ListInv, Once
<1>2. NotReaped'
  BY DEF LInv, ListInv, TInv, TypeOK, NotReaped
<1> QED
  BY <1>1, <1>2 DEF ListInv, NewProcess, Written

LEMMA SigchldList ==
  ASSUME LInv, sigchld_handler
  PROVE ListInv'
<1> DEFINE reaped == {p \in Pids : proc[p] = "zombie"}
           halted == {p \in Pids : proc[p] = "stopping"}
           after == [i \in Slot |-> IF jobs[i].pid \in reaped THEN clearjob
                  ELSE IF jobs[i].pid \in halted THEN [jobs[i] EXCEPT !.state = "ST"]
                  ELSE jobs[i]]
<1>1. Lives /\ ~Adding /\ ~Filling
  BY DEF sigchld_handler, LInv, TInv
<1>2. \A p \in Pids : proc'[p] = "none" => p \in reaped \/ proc[p] = "none"
  BY DEF sigchld_handler, LInv, ListInv, TInv, TypeOK
<1>3. CASE \A p \in halted : SlotsOf(p) # {}
  <2>1. jobs' = after /\ main' = main
    BY <1>3 DEF sigchld_handler
  <2>2. \A i \in Slot : jobs'[i].pid =
           IF jobs[i].pid \in reaped THEN 0 ELSE jobs[i].pid
    BY <2>1 DEF LInv, ListInv, TInv, TypeOK, clearjob
  <2> HIDE DEF after, reaped, halted
  <2>3. Once'
    BY <2>2 DEF LInv, ListInv, Once
  <2>4. NotReaped'
    BY <1>1, <1>2, <2>2 DEF LInv, ListInv, TInv, TypeOK, NotReaped
  <2> QED
    BY <1>1, <2>1, <2>3, <2>4 DEF ListInv, NewProcess, Written, Adding, Filling
<1>4. CASE ~(\A p \in halted : SlotsOf(p) # {})
  <2>1. main' = Failed /\ jobs' = jobs
    BY <1>4 DEF sigchld_handler
  <2> QED
    BY <2>1 DEF LInv, ListInv, Once, NotReaped, NewProcess, Written, Lives, Adding, Filling, Failed
<1> QED
  BY <1>3, <1>4

\* What the other steps leave alone.
LEMMA Others ==
  ASSUME LInv, NEW sig \in {"SIGINT", "SIGTSTP"}, NEW p \in Pids,
         NEW s \in {"FG", "BG"}, NEW j \in 1..MaxJid,
         \/ LookupPid(p, s) \/ LookupJid(j, s) \/ Quit
         \/ AddState \/ Unblock \/ WaitEnds \/ ReadPid \/ Continue \/ Mark
         \/ Key(sig) \/ Kill \/ Child(p) \/ UNCHANGED vars
  PROVE /\ Adding' \/ Filling' => UNCHANGED main
        /\ Lives' => Lives
        /\ \A i \in Slot : jobs'[i].pid = jobs[i].pid
        /\ \A q \in Pids : (proc'[q] = "none") <=> (proc[q] = "none")
<1>1. CASE LookupPid(p, s) \/ LookupJid(j, s) \/ Quit
  BY <1>1 DEF LookupPid, LookupJid, Quit, Adding, Filling, Lives, Prompt, Exited, Failed
<1>2. CASE Unblock \/ WaitEnds \/ ReadPid
  BY <1>2 DEF Unblock, WaitEnds, ReadPid, Adding, Filling, Lives, Prompt, Exited, Failed
<1>3. CASE Continue
  <2>1. main' = [main EXCEPT !.at = "mark"] /\ main.at = "cont" /\ jobs' = jobs
    BY <1>3 DEF Continue
  <2>2. main'.at = "mark" /\ Lives
    BY <2>1 DEF LInv, TInv, MainPhases, Prompt, Exited, Failed, Lives
  <2>3. \A q \in Pids : (proc'[q] = "none") <=> (proc[q] = "none")
    BY <1>3 DEF Continue
  <2> QED
    BY <2>1, <2>2, <2>3 DEF Adding, Filling
<1>4. CASE Mark
  <2>1. main.slot \in Slot
    BY <1>4 DEF Mark, LInv, TInv, MainPhases, Prompt, Exited, Failed
  <2>2. \A i \in Slot : jobs'[i].pid = jobs[i].pid
    BY <1>4, <2>1 DEF Mark, LInv, TInv, TypeOK
  <2>3. main.at = "mark" /\ main'.at \notin {"add", "fill"} /\ proc' = proc
    BY <1>4 DEF Mark, Prompt
  <2> QED
    BY <2>2, <2>3 DEF Adding, Filling, Lives, Exited, Failed
<1>5. CASE Key(sig)
  BY <1>5 DEF Key, Lives
<1>6. CASE Kill
  <2>1. Lives /\ jobs' = jobs /\ (main' = main \/ main' = Failed)
    BY <1>6 DEF Kill
  <2>2. \A q \in Pids : (proc'[q] = "none") <=> (proc[q] = "none")
    BY <1>6 DEF Kill, LInv, TInv, TypeOK
  <2> QED
    BY <2>1, <2>2 DEF Adding, Filling, Failed
<1>7. CASE Child(p)
  BY <1>7 DEF Child, SetPgid, Die, Stop, LInv, TInv, TypeOK
<1>8. CASE UNCHANGED vars
  BY <1>8 DEF vars, Lives
<1>9. CASE AddState
  <2>1. main.slot \in Slot /\ main.at = "fill" /\ Lives /\ Filling
    BY <1>9 DEF AddState, LInv, TInv, MainPhases, Prompt, Exited, Failed, Lives, Filling
  <2>2. jobs[main.slot].pid = main.pid
    BY <2>1 DEF LInv, ListInv, Written
  <2>3. \A i \in Slot : jobs'[i].pid = jobs[i].pid
    BY <1>9, <2>1, <2>2 DEF AddState, LInv, TInv, TypeOK
  <2>4. main'.at = "unblock" /\ proc' = proc
    BY <1>9 DEF AddState
  <2> QED
    BY <2>1, <2>3, <2>4 DEF Adding, Filling
<1> QED
  BY <1>1, <1>2, <1>3, <1>4, <1>5, <1>6, <1>7, <1>8, <1>9

LEMMA OtherList ==
  ASSUME LInv, NEW sig \in {"SIGINT", "SIGTSTP"}, NEW p \in Pids,
         NEW s \in {"FG", "BG"}, NEW j \in 1..MaxJid,
         \/ LookupPid(p, s) \/ LookupJid(j, s) \/ Quit
         \/ AddState \/ Unblock \/ WaitEnds \/ ReadPid \/ Continue \/ Mark
         \/ Key(sig) \/ Kill \/ Child(p) \/ UNCHANGED vars
  PROVE ListInv'
<1>1. /\ Adding' \/ Filling' => UNCHANGED main
      /\ Lives' => Lives
      /\ \A i \in Slot : jobs'[i].pid = jobs[i].pid
      /\ \A q \in Pids : (proc'[q] = "none") <=> (proc[q] = "none")
  BY Others
<1>2. CASE ~Adding' /\ ~Filling'
  BY <1>1, <1>2, SameList
<1>3. CASE Adding' \/ Filling'
  <2>1. main' = main /\ (Adding \/ Filling)
    BY <1>1, <1>3 DEF Adding, Filling
  <2>2. main.pid \in Pids
    BY <2>1 DEF LInv, TInv, MainPhases, Adding, Filling, Prompt, Exited, Failed
  <2>3. NewProcess'
    BY <1>1, <2>1, <2>2 DEF LInv, ListInv, NewProcess, Adding
  <2>6. Written'
    <3>1. CASE Filling
      <4>1. main.slot \in Slot
        BY <3>1 DEF LInv, TInv, MainPhases, Filling, Prompt, Exited, Failed
      <4> QED
        BY <1>1, <2>1, <3>1, <4>1 DEF LInv, ListInv, Written
    <3>2. CASE ~Filling
      BY <2>1, <3>2 DEF Written, Filling
    <3> QED
      BY <3>1, <3>2
  <2>4. Once'
    BY <1>1 DEF LInv, ListInv, Once
  <2>5. NotReaped'
    BY <1>1 DEF LInv, ListInv, TInv, TypeOK, NotReaped
  <2> QED
    BY <2>3, <2>4, <2>5, <2>6 DEF ListInv
<1> QED
  BY <1>2, <1>3

\* The forms of a step, one for each way in which it deals with the list.
LEMMA StepForms ==
  ASSUME [Next]_vars, Pids # {}
  PROVE \/ \E p \in Pids, s \in {"FG", "BG"} : Fork(p, s)
        \/ AddPid
        \/ sigchld_handler
        \/ \E sig \in {"SIGINT", "SIGTSTP"}, p \in Pids, s \in {"FG", "BG"},
              j \in 1..MaxJid :
             \/ LookupPid(p, s) \/ LookupJid(j, s) \/ Quit
             \/ AddState \/ Unblock \/ WaitEnds \/ ReadPid \/ Continue \/ Mark
             \/ Key(sig) \/ Kill \/ Child(p) \/ UNCHANGED vars
<1>1. PICK q \in Pids : TRUE
  OBVIOUS
<1>2. 1 \in 1..MaxJid /\ "FG" \in {"FG", "BG"} /\ "SIGINT" \in {"SIGINT", "SIGTSTP"}
  OBVIOUS
<1> QED
  BY <1>1, <1>2, ZenonT(60) DEF Next, Commands, Main

LEMMA StepList == Pids # {} /\ LInv /\ [Next]_vars => LInv'
<1> SUFFICES ASSUME Pids # {}, LInv, [Next]_vars PROVE ListInv'
  BY StepTypes DEF LInv
<1> QED
  BY StepForms, ForkList, AddList, SigchldList, OtherList

-------------------------------------------------------------------------------
(* Keys. *)

\* A slot in FG without a process, or whose state addjob() has yet to write, was put
\* there by do_bgfg().
FromMark ==
  \A i \in Slot :
    jobs[i].state = "FG" /\ (jobs[i].pid = 0 \/ (Filling /\ main.slot = i))
      => i \in stray

LEMMA StepFromMark ==
  ASSUME LInv, FromMark, [Next]_vars
  PROVE FromMark'
<1>1. CASE AddPid
  <2>1. CASE Free = {}
    BY <1>1, <2>1 DEF AddPid, FromMark, Filling, LInv, TInv, MainPhases, Prompt, Exited, Failed
  <2>2. CASE Free # {}
    <3> DEFINE f == First(Free)
    <3>1. f \in Slot /\ jobs[f].pid = 0
      BY <2>2, FreeSlot
    <3>2. jobs' = [jobs EXCEPT ![f].pid = main.pid] /\ main'.slot = f /\ stray' = stray
      BY <1>1, <2>2 DEF AddPid
    <3> HIDE DEF f
    <3>3. \A i \in Slot : /\ jobs'[i].state = jobs[i].state
                          /\ i # f => jobs'[i].pid = jobs[i].pid
      BY <3>1, <3>2 DEF LInv, TInv, TypeOK
    <3>4. ASSUME NEW i \in Slot, jobs'[i].state = "FG",
                 jobs'[i].pid = 0 \/ main'.slot = i
          PROVE i \in stray'
      BY <3>1, <3>2, <3>3, <3>4 DEF FromMark
    <3> QED
      BY <3>4 DEF FromMark
  <2> QED
    BY <2>1, <2>2
<1>2. CASE AddState
  <2>1. /\ main.slot \in Slot /\ main.pid \in Pids /\ main'.at = "unblock"
        /\ stray' = stray \ {main.slot}
    BY <1>2 DEF AddState, LInv, TInv, MainPhases, Prompt, Exited, Failed
  <2>2. \A i \in Slot : jobs'[i] = IF i = main.slot
           THEN [pid |-> main.pid, jid |-> nextjid, state |-> main.state] ELSE jobs[i]
    BY <1>2, <2>1 DEF AddState, LInv, TInv, TypeOK
  <2>3. main.pid # 0
    BY <2>1
  <2> QED
    BY <2>1, <2>2, <2>3 DEF FromMark, Filling
<1>3. CASE Mark
  <2>1. main.slot \in Slot /\ main.at = "mark" /\ main'.at # "fill"
    BY <1>3 DEF Mark, LInv, TInv, MainPhases, Prompt, Exited, Failed
  <2>2. \A i \in Slot : /\ jobs'[i].pid = jobs[i].pid
                        /\ jobs'[i].state = IF i = main.slot THEN main.state ELSE jobs[i].state
    BY <1>3, <2>1 DEF Mark, LInv, TInv, TypeOK
  <2>3. stray \subseteq stray'
          /\ (jobs[main.slot].pid = 0 /\ main.state = "FG" => main.slot \in stray')
    BY <1>3 DEF Mark
  <2> QED
    BY <2>1, <2>2, <2>3 DEF FromMark, Filling
<1>4. CASE sigchld_handler
  <2> DEFINE reaped == {p \in Pids : proc[p] = "zombie"}
             halted == {p \in Pids : proc[p] = "stopping"}
  <2>1. ~Filling /\ stray' = stray /\ (main' = main \/ main' = Failed)
    BY <1>4 DEF sigchld_handler, LInv, TInv
  <2>2. ~Filling'
    BY <2>1 DEF Filling, Failed
  <2>3. CASE jobs' = jobs
    BY <2>1, <2>2, <2>3 DEF FromMark
  <2>4. CASE jobs' # jobs
    <3>1. jobs' = [i \in Slot |-> IF jobs[i].pid \in reaped THEN clearjob
                  ELSE IF jobs[i].pid \in halted THEN [jobs[i] EXCEPT !.state = "ST"]
                  ELSE jobs[i]]
      BY <1>4, <2>4 DEF sigchld_handler
    <3> HIDE DEF reaped, halted
    <3> QED
      BY <2>1, <2>2, <3>1 DEF FromMark, clearjob, LInv, TInv, TypeOK
  <2> QED
    BY <2>3, <2>4
<1>5. CASE jobs' = jobs /\ stray' = stray /\ (Filling' => UNCHANGED main)
  BY <1>5 DEF FromMark, Filling
<1>6. ASSUME NEW p \in Pids, Child(p)
      PROVE jobs' = jobs /\ stray' = stray /\ (Filling' => UNCHANGED main)
  BY <1>6 DEF Child, SetPgid, Die, Stop
<1>7. ASSUME NEW sig \in {"SIGINT", "SIGTSTP"}, Key(sig) \/ Kill
      PROVE jobs' = jobs /\ stray' = stray /\ (Filling' => UNCHANGED main)
  BY <1>7 DEF Key, Kill, Filling, Failed
<1>8. CASE Commands
  <2>1. ASSUME NEW p \in Pids, NEW s \in {"FG", "BG"}, Fork(p, s) \/ LookupPid(p, s)
        PROVE jobs' = jobs /\ stray' = stray /\ ~Filling'
    BY <2>1 DEF Fork, LookupPid, Filling
  <2>2. ASSUME NEW j \in 1..MaxJid, NEW s \in {"FG", "BG"}, LookupJid(j, s)
        PROVE jobs' = jobs /\ stray' = stray /\ ~Filling'
    BY <2>2 DEF LookupJid, Filling
  <2>3. Quit => jobs' = jobs /\ stray' = stray /\ ~Filling'
    BY DEF Quit, Filling, Exited
  <2> QED
    BY <1>5, <1>8, <2>1, <2>2, <2>3 DEF Commands
<1>9. CASE Unblock \/ WaitEnds \/ ReadPid
  BY <1>5, <1>9 DEF Unblock, WaitEnds, ReadPid, Filling, Prompt
<1>10. CASE Continue
  <2>1. main'.at = "mark" /\ jobs' = jobs /\ stray' = stray
    BY <1>10 DEF Continue, LInv, TInv, MainPhases, Prompt, Exited, Failed
  <2> QED
    BY <1>5, <2>1 DEF Filling
<1>11. CASE UNCHANGED vars
  BY <1>5, <1>11 DEF vars
<1> QED
  BY <1>1, <1>2, <1>3, <1>4, <1>5, <1>6, <1>7, <1>8, <1>9, <1>10, <1>11 DEF Next, Main

LEMMA StepKeys ==
  ASSUME LInv, FromMark, OnlyForeground, [Next]_vars
  PROVE OnlyForeground'
<1>1. CASE handler' = Idle
  BY <1>1 DEF OnlyForeground
<1>2. ASSUME NEW sig \in {"SIGINT", "SIGTSTP"}, Key(sig) PROVE OnlyForeground'
  <2>1. fgpid # 0 /\ handler'.pid = fgpid /\ UNCHANGED <<jobs, main, stray>>
    BY <1>2 DEF Key
  <2>2. PICK i \in Slot : jobs[i].pid = fgpid /\ jobs[i].state = "FG"
    BY <2>1, fgpidIs DEF LInv, TInv
  <2>3. \A k \in Slot : jobs[k].pid = fgpid => k = i
    BY <2>1, <2>2 DEF LInv, ListInv, Once
  <2>4. Filling /\ main.pid = fgpid => main.slot \in stray
    <3> SUFFICES ASSUME Filling, main.pid = fgpid PROVE main.slot \in stray
      OBVIOUS
    <3>1. main.slot \in Slot /\ jobs[main.slot].pid = main.pid
      BY DEF LInv, ListInv, Written, TInv, MainPhases, Filling, Prompt, Exited, Failed
    <3>2. main.slot = i
      BY <2>3, <3>1
    <3> QED
      BY <2>2, <3>2 DEF FromMark
  <2> QED
    BY <2>1, <2>2, <2>3, <2>4 DEF OnlyForeground, SlotsOf, Filling
<1>3. CASE sigchld_handler /\ handler # Idle
  <2>1. /\ handler' = handler /\ handler.pid # 0 /\ ~Filling
        /\ (main' = main \/ main' = Failed)
    BY <1>3 DEF sigchld_handler, LInv, TInv, TypeOK
  <2>2. \A i \in Slot : /\ jobs'[i].pid = handler.pid => jobs[i].pid = handler.pid
                        /\ jobs'[i].state = "BG" => jobs[i].state = "BG"
    <3>1. CASE jobs' = jobs
      BY <3>1
    <3>2. CASE jobs' # jobs
      <4> DEFINE reaped == {p \in Pids : proc[p] = "zombie"}
                 halted == {p \in Pids : proc[p] = "stopping"}
      <4>1. jobs' = [i \in Slot |-> IF jobs[i].pid \in reaped THEN clearjob
                  ELSE IF jobs[i].pid \in halted THEN [jobs[i] EXCEPT !.state = "ST"]
                  ELSE jobs[i]]
        BY <1>3, <3>2 DEF sigchld_handler
      <4> HIDE DEF reaped, halted
      <4> QED
        BY <2>1, <4>1 DEF clearjob, LInv, TInv, TypeOK
    <3> QED
      BY <3>1, <3>2
  <2>3. main'.at # "fill"
    BY <2>1 DEF Filling, Failed
  <2> QED
    BY <1>3, <2>1, <2>2, <2>3 DEF OnlyForeground, SlotsOf
<1>4. CASE UNCHANGED <<handler, jobs, main, stray>>
  BY <1>4 DEF OnlyForeground, SlotsOf
<1>5. ASSUME NEW p \in Pids, Child(p) PROVE UNCHANGED <<handler, jobs, main, stray>>
  BY <1>5 DEF Child, SetPgid, Die, Stop
<1>6. CASE sigchld_handler /\ handler = Idle
  BY <1>1, <1>6 DEF sigchld_handler
<1>7. CASE Kill
  BY <1>1, <1>7 DEF Kill
<1>8. CASE Commands \/ Main
  <2>1. handler' = Idle
    BY <1>8 DEF Commands, Main, Fork, LookupPid, LookupJid, Quit, AddPid, AddState,
                Unblock, WaitEnds, ReadPid, Continue, Mark, Runs
  <2> QED
    BY <1>1, <2>1
<1>9. CASE UNCHANGED vars
  BY <1>4, <1>9 DEF vars
<1> QED
  BY <1>2, <1>3, <1>4, <1>5, <1>6, <1>7, <1>8, <1>9 DEF Next

\* sigint_handler() and sigtstp_handler() never signal a job in the background,
\* although fgpid() and kill() are two steps: the handler of SIGCHLD between them
\* puts no job into the background.  Nor do they signal a job that addjob() is
\* adding to the background, except in a slot that do_bgfg() has marked for a job
\* that was gone.
THEOREM KeysReachTheJob == Spec => []OnlyForeground
<1>1. CASE Pids = {}
  <2>1. TypeOK => OnlyForeground
    BY <1>1 DEF TypeOK, OnlyForeground
  <2> QED
    BY <2>1, TypeCorrect, PTL
<1>2. CASE Pids # {}
  <2>1. Init => LInv /\ FromMark /\ OnlyForeground
    <3>1. Init => \A i \in Slot : jobs[i].state # "FG"
      BY DEF Init, clearjob
    <3> QED
      BY <3>1, InitList DEF Init, FromMark, OnlyForeground
  <2>2. LInv /\ FromMark /\ OnlyForeground /\ [Next]_vars
          => (LInv /\ FromMark /\ OnlyForeground)'
    BY <1>2, StepList, StepFromMark, StepKeys
  <2> QED
    BY <2>1, <2>2, PTL DEF Spec
<1> QED
  BY <1>1, <1>2

-------------------------------------------------------------------------------
(* Who is listed, as long as the list has room for every process. *)

\* A process that is not reaped is listed, or is about to be.
Listed ==
  Lives => \A p \in Pids :
    proc[p] # "none" /\ ~(Adding /\ main.pid = p) => \E i \in Slot : jobs[i].pid = p

\* addjob() finds a free slot.
LEMMA RoomForJob ==
  ASSUME LInv, Adding, Cardinality(Pids) <= MAXJOBS
  PROVE Free # {}
<1> SUFFICES ASSUME Free = {} PROVE FALSE
  OBVIOUS
<1> DEFINE others == Pids \ {main.pid}
           f == [i \in Slot |-> jobs[i].pid]
<1>1. main.pid \in Pids
  BY DEF LInv, TInv, MainPhases, Adding, Prompt, Exited, Failed
<1>2. IsFiniteSet(others) /\ Cardinality(others) = Cardinality(Pids) - 1
  BY <1>1, FS_RemoveElement
<1>3. IsFiniteSet(Slot) /\ Cardinality(Slot) = MAXJOBS
  BY FS_Interval DEF Slot
<1>4. Cardinality(Pids) \in Nat
  BY FS_CardinalityType
<1>5. f \in [Slot -> others]
  BY <1>1 DEF Free, LInv, ListInv, TInv, TypeOK, NewProcess
<1>6. Cardinality(others) < Cardinality(Slot)
  BY <1>2, <1>3, <1>4
<1> HIDE DEF f, others
<1>7. PICK i, k \in Slot : i # k /\ f[i] = f[k]
  BY <1>2, <1>3, <1>5, <1>6, FS_PigeonHole
<1> QED
  BY <1>7 DEF f, Free, LInv, ListInv, Once

LEMMA InitListed == Init => Listed
BY DEF Init, Listed

LEMMA StepListed ==
  ASSUME Pids # {}, Cardinality(Pids) <= MAXJOBS, LInv, Listed, [Next]_vars
  PROVE Listed'
<1>1. ASSUME NEW p \in Pids, NEW s \in {"FG", "BG"}, Fork(p, s) PROVE Listed'
  <2>1. Lives /\ ~Adding /\ Adding' /\ main'.pid = p /\ jobs' = jobs
    BY <1>1 DEF Fork, Lives, Adding, Prompt, Exited, Failed
  <2>2. \A q \in Pids : q # p => proc'[q] = proc[q]
    BY <1>1 DEF Fork, LInv, TInv, TypeOK
  <2> QED
    BY <2>1, <2>2 DEF Listed
<1>2. CASE AddPid
  <2>1. Adding /\ Lives /\ proc' = proc
    BY <1>2 DEF AddPid, Adding, Lives, Exited, Failed
  <2>2. Free # {}
    BY <2>1, RoomForJob
  <2> DEFINE f == First(Free)
  <2>3. f \in Slot /\ jobs[f].pid = 0
    BY <2>2, FreeSlot
  <2>4. jobs' = [jobs EXCEPT ![f].pid = main.pid]
    BY <1>2, <2>2 DEF AddPid
  <2>5. \A i \in Slot : jobs'[i].pid = IF i = f THEN main.pid ELSE jobs[i].pid
    <3> HIDE DEF f
    <3> QED
      BY <2>3, <2>4 DEF LInv, ListInv, TInv, TypeOK
  <2> HIDE DEF f
  <2> QED
    BY <2>1, <2>3, <2>5 DEF Listed
<1>3. CASE sigchld_handler
  <2> DEFINE reaped == {p \in Pids : proc[p] = "zombie"}
             halted == {p \in Pids : proc[p] = "stopping"}
             after == [i \in Slot |-> IF jobs[i].pid \in reaped THEN clearjob
                  ELSE IF jobs[i].pid \in halted THEN [jobs[i] EXCEPT !.state = "ST"]
                  ELSE jobs[i]]
  <2>1. Lives /\ ~Adding
    BY <1>3 DEF sigchld_handler, LInv, ListInv, TInv
  <2>2. \A p \in halted : SlotsOf(p) # {}
    BY <2>1 DEF Listed, SlotsOf
  <2>3. jobs' = after
    BY <1>3, <2>2 DEF sigchld_handler
  <2>4. \A i \in Slot : jobs[i].pid \notin reaped => jobs'[i].pid = jobs[i].pid
    BY <2>3 DEF LInv, ListInv, TInv, TypeOK
  <2>5. \A p \in Pids : proc'[p] # "none" => p \notin reaped /\ proc[p] # "none"
    BY <1>3 DEF sigchld_handler, LInv, ListInv, TInv, TypeOK
  <2> HIDE DEF reaped, halted, after
  <2> QED
    BY <2>1, <2>4, <2>5 DEF Listed
<1>4. ASSUME NEW sig \in {"SIGINT", "SIGTSTP"}, NEW p \in Pids,
             NEW s \in {"FG", "BG"}, NEW j \in 1..MaxJid,
             \/ LookupPid(p, s) \/ LookupJid(j, s) \/ Quit
             \/ AddState \/ Unblock \/ WaitEnds \/ ReadPid \/ Continue \/ Mark
             \/ Key(sig) \/ Kill \/ Child(p) \/ UNCHANGED vars
      PROVE Listed'
  <2>1. /\ Adding' \/ Filling' => UNCHANGED main
        /\ Lives' => Lives
        /\ \A i \in Slot : jobs'[i].pid = jobs[i].pid
        /\ \A q \in Pids : (proc'[q] = "none") <=> (proc[q] = "none")
    BY <1>4, Others
  <2>2. Adding => Adding' \/ ~Lives'
    BY <1>4 DEF LookupPid, LookupJid, Quit, AddState, Unblock, WaitEnds, ReadPid, Continue, Mark,
                Key, Kill, Child, SetPgid, Die, Stop, vars, Adding, Lives, Prompt
  <2> QED
    BY <2>1, <2>2 DEF Listed
<1> QED
  BY StepForms, <1>1, <1>2, <1>3, <1>4

LEMMA ListedIsExact ==
  ASSUME LInv, Listed
  PROVE ListIsExact
<1> SUFFICES ASSUME Lives, NEW p \in Pids
             PROVE Cardinality(SlotsOf(p)) =
      IF proc[p] = "none" \/ main = [at |-> "add", pid |-> p, state |-> "FG"]
                          \/ main = [at |-> "add", pid |-> p, state |-> "BG"]
        THEN 0 ELSE 1
  BY DEF ListIsExact
<1>1. CASE proc[p] = "none"
  <2>1. SlotsOf(p) = {}
    BY <1>1 DEF LInv, ListInv, NotReaped, SlotsOf
  <2> QED
    BY <1>1, <2>1, FS_EmptySet
<1>2. CASE Adding /\ main.pid = p
  <2>1. SlotsOf(p) = {}
    BY <1>2 DEF LInv, ListInv, NewProcess, SlotsOf
  <2>2. \/ main = [at |-> "add", pid |-> p, state |-> "FG"]
        \/ main = [at |-> "add", pid |-> p, state |-> "BG"]
    <3>1. main \in [at : {"add", "unblock"}, pid : Pids, state : {"FG", "BG"}]
      BY <1>2 DEF LInv, TInv, MainPhases, Adding, Prompt, Exited, Failed
    <3> QED
      BY <1>2, <3>1 DEF Adding
  <2> QED
    BY <2>1, <2>2, FS_EmptySet
<1>3. CASE proc[p] # "none" /\ ~(Adding /\ main.pid = p)
  <2>1. PICK i \in Slot : jobs[i].pid = p
    BY <1>3 DEF Listed
  <2>2. SlotsOf(p) = {i}
    BY <2>1 DEF LInv, ListInv, Once, SlotsOf
  <2>3. /\ main # [at |-> "add", pid |-> p, state |-> "FG"]
        /\ main # [at |-> "add", pid |-> p, state |-> "BG"]
    BY <1>3 DEF Adding
  <2> QED
    BY <1>3, <2>2, <2>3, FS_Singleton
<1> QED
  BY <1>1, <1>2, <1>3

\* As long as there are not more children than MAXJOBS, the list has every child
\* that is not reaped, once, and nothing else: eval() adds the job before SIGCHLD
\* is unblocked, and sigchld_handler() deletes what it reaps.
THEOREM ListStaysExact ==
  ASSUME Cardinality(Pids) <= MAXJOBS
  PROVE Spec => []ListIsExact
<1>1. CASE Pids = {}
  <2>1. TypeOK => ListIsExact
    BY <1>1 DEF ListIsExact
  <2> QED
    BY <2>1, TypeCorrect, PTL
<1>2. CASE Pids # {}
  <2>1. Init => LInv /\ Listed
    BY InitList, InitListed
  <2>2. LInv /\ Listed /\ [Next]_vars => (LInv /\ Listed)'
    BY <1>2, StepList, StepListed
  <2> QED
    BY <2>1, <2>2, ListedIsExact, PTL DEF Spec
<1> QED
  BY <1>1, <1>2
===============================================================================
