---------------------------- MODULE ProcessService ----------------------------
(***************************************************************************)
(* The life of a process of OS/WeensyOS/MiniprocOS as its applications see *)
(* it, without process table, queues, registers or scheduler: processes    *)
(* are created, end with a status, and the status reaches who waits.       *)
(*                                                                         *)
(* SSpec is the service of process.h, whose sys_wait gives the status of a *)
(* process to only one of several waiters.  The kernel gives it to all:    *)
(* SharedSpec is the service with that difference, and no other.  (That a  *)
(* caller waits for a live process is the kernel's; process.h:171 has      *)
(* sys_wait return WAIT_TRYAGAIN then, and the caller try again.)          *)
(***************************************************************************)
EXTENDS Integers

CONSTANTS Proc,      \* the process ids in use
          Nobody     \* not a process id

VARIABLES life,      \* "none", "live" or "dead" (ended, status not collected)
          left,      \* the status a dead process has left
          waitsFor,  \* the process each process is blocked on
          result     \* what each process's last system call returned

svars == <<life, left, waitsFor, result>>

NoStatus == 0

\* Only the results of the processes in S may change.
OnlyResultsOf(S) ==
  /\ DOMAIN result' = DOMAIN result
  /\ \A p \in DOMAIN result \ S : result'[p] = result[p]

Active(c) == life[c] = "live" /\ waitsFor[c] = Nobody

SInit == /\ \E p \in Proc : life = [q \in Proc |-> IF q = p THEN "live" ELSE "none"]
         /\ left = [p \in Proc |-> NoStatus]
         /\ waitsFor = [p \in Proc |-> Nobody]
         /\ result = [p \in Proc |-> 0]

\* c creates p: c gets p's id and p gets 0.
Spawn(c, p) ==
  /\ Active(c)
  /\ life[p] = "none"
  /\ life' = [life EXCEPT ![p] = "live"]
  /\ result'[c] = p /\ result'[p] = 0 /\ OnlyResultsOf({c, p})
  /\ UNCHANGED <<left, waitsFor>>

Waiting(p) == {q \in Proc : waitsFor[q] = p}

\* p ends with status s.  If nobody waits for p, the status is left for the next
\* sys_wait; if not, p's id is free, and of those who wait the ones in told get
\* the status and the others -1, as for a process that does not exist.
EndTelling(p, s, told) ==
  LET W == Waiting(p) IN
  /\ Active(p)
  /\ life' = [life EXCEPT ![p] = IF W = {} THEN "dead" ELSE "none"]
  /\ left' = [left EXCEPT ![p] = IF W = {} THEN s ELSE NoStatus]
  /\ waitsFor' = [q \in Proc |-> IF q \in W THEN Nobody ELSE waitsFor[q]]
  /\ \A q \in W : result'[q] = IF q \in told THEN s ELSE -1
  /\ OnlyResultsOf(W \cup {p})

\* process.h: of two processes that wait, only one gets the status.
End(p, s) == \/ Waiting(p) = {} /\ EndTelling(p, s, {})
             \/ \E q \in Waiting(p) : EndTelling(p, s, {q})

\* The kernel: every process that waits gets it.
EndForAll(p, s) == EndTelling(p, s, Waiting(p))

\* c waits for p, which has ended.
Collect(c, p) ==
  /\ Active(c)
  /\ life[p] = "dead"
  /\ life' = [life EXCEPT ![p] = "none"]
  /\ left' = [left EXCEPT ![p] = NoStatus]
  /\ result'[c] = left[p] /\ OnlyResultsOf({c})
  /\ UNCHANGED waitsFor

\* c waits for p, which is live.
Block(c, p) ==
  /\ Active(c)
  /\ p # c /\ life[p] = "live"
  /\ waitsFor' = [waitsFor EXCEPT ![c] = p]
  /\ OnlyResultsOf({c})
  /\ UNCHANGED <<life, left>>

\* Any call of c that creates, ends, collects and blocks nothing.
Other(c) ==
  /\ Active(c)
  /\ OnlyResultsOf({c})
  /\ UNCHANGED <<life, left, waitsFor>>

\* The statuses that c may have ended with: somebody has got it, or it is left.
EndStatus(c) == {result'[q] : q \in Proc} \cup {left'[c]}

SNext == \E c \in Proc :
           \/ \E p \in Proc : Spawn(c, p) \/ Collect(c, p) \/ Block(c, p)
           \/ \E s \in EndStatus(c) : End(c, s)
           \/ Other(c)

SharedNext == SNext \/ \E c \in Proc : \E s \in EndStatus(c) : EndForAll(c, s)

SSpec == SInit /\ [][SNext]_svars

SharedSpec == SInit /\ [][SharedNext]_svars
===============================================================================
