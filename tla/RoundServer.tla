------------------------------ MODULE RoundServer ------------------------------
(***************************************************************************)
(* The server process of Networks/ScissorPaperRock (Server.cpp, Timer.cpp) *)
(* beside the game process of RoundGame, and the clients.                  *)
(*                                                                         *)
(* Time is left out: an active timer may fire at any moment.  A client's   *)
(* command may wait in its socket, or in the read buffer of its Session,   *)
(* for any time, so Receive takes any command at any time.                 *)
(***************************************************************************)
EXTENDS RoundGame

CONSTANTS MaxQueue,  \* bound: no command is received while the FIFOs hold so much
          MaxCasts   \* bound on the casts in the rounds and on their way

ASSUME BoundAssumption == MaxQueue \in Nat /\ MaxCasts \in Nat

VARIABLES session,  \* the client of the Session at each address
          coming,   \* the client that connects next
          stale,    \* active timers that point to a deleted Session
          armed     \* round2timer: the rounds that have a timer

svars == <<session, coming, stale, armed>>
vars == <<gvars, request, response, svars>>

Init ==
  /\ GameInit
  /\ session = [a \in Addr |-> None]
  /\ coming = 1
  /\ stale = [a \in Addr |-> 0]
  /\ armed = {}

Message(a, type, data) ==
  [addr |-> a, client |-> session[a], type |-> type, data |-> data]

do_accecpt(a) ==
  /\ session[a] = None /\ coming \in Client
  /\ session' = [session EXCEPT ![a] = coming]
  /\ coming' = coming + 1
  /\ UNCHANGED <<gvars, request, response, stale, armed>>

Room == Len(request) + Len(response) < MaxQueue

CastsOnTheirWay == {i \in DOMAIN request : request[i].type = "CAST"}

Commands ==
  ({"LOGIN"} \X Username) \cup ({"OPENROUND", "JOINROUND"} \X Roundname) \cup
  ({"LOGOUT", "QUITROUND", "CAST"} \X {None})

\* do_read(): a command, which also renews the timer of the session.
do_read(a, cmd) ==
  /\ session[a] # None /\ Room
  /\ cmd[1] = "CAST" => \A r \in Roundname :
                          casts[r] + Cardinality(CastsOnTheirWay) < MaxCasts
  /\ request' = Append(request, Message(a, cmd[1], cmd[2]))
  /\ UNCHANGED <<gvars, response, svars>>

\* shutdownSession(): the game process is told in the order of the FIFO.
shutdownSession(a) ==
  /\ session[a] # None
  /\ session' = [session EXCEPT ![a] = None]
  /\ request' = Append(request, Message(a, "SHUTDOWN", None))
  /\ UNCHANGED <<gvars, response, coming, armed>>

\* The client closes its connection; the timer of the session stays active.
Disconnect(a) == shutdownSession(a) /\ stale' = [stale EXCEPT ![a] = @ + 1]

\* The timer of the session itself fires.
SessionTimeout(a) == shutdownSession(a) /\ UNCHANGED stale

\* A timer fires whose Session has been deleted.  If the memory is another
\* Session's now, that one is shut down, and its own timer is left.  If it is
\* not, its fd is whatever is there, and is not in the epoll set.  (What is left
\* out: a stale fd that by chance is in the set, and a second delete, which
\* aborts the server.)
StaleTimeout(a) ==
  /\ stale[a] > 0
  /\ \/ shutdownSession(a) /\ UNCHANGED stale
     \/ /\ session[a] = None
        /\ stale' = [stale EXCEPT ![a] = @ - 1]
        /\ UNCHANGED <<gvars, request, response, session, coming, armed>>

\* Mutant: where a timer is replaced, it is the new one that is deactivated.
do_recvRespDeactivatesNew ==
  /\ response # <<>> /\ response' = Tail(response)
  /\ armed' = IF Head(response).type = "START" /\ Head(response).round \notin armed
                 THEN armed \cup {Head(response).round}
                 ELSE armed \ {Head(response).round}
  /\ UNCHANGED <<gvars, request, session, coming, stale>>

\* do_recvResp() of STARTROUNDTIMER, which replaces a timer, or DISABLEROUNDTIMER.
do_recvResp ==
  /\ response # <<>> /\ response' = Tail(response)
  /\ armed' = IF Head(response).type = "START" THEN armed \cup {Head(response).round}
                                               ELSE armed \ {Head(response).round}
  /\ UNCHANGED <<gvars, request, session, coming, stale>>

\* The timer of a round fires.
RoundTimeout(r) ==
  /\ r \in armed
  /\ armed' = armed \ {r}
  /\ request' = Append(request, [addr |-> None, client |-> None,
                                 type |-> "ROUNDTIMEOUT", data |-> r])
  /\ UNCHANGED <<gvars, response, session, coming, stale>>

Handle == msgDispatch /\ UNCHANGED svars

Next ==
  \/ \E a \in Addr : \/ do_accecpt(a)
                     \/ \E cmd \in Commands : do_read(a, cmd)
                     \/ Disconnect(a) \/ SessionTimeout(a) \/ StaleTimeout(a)
  \/ do_recvResp
  \/ \E r \in Roundname : RoundTimeout(r)
  \/ Handle

Spec == Init /\ [][Next]_vars

\* Both processes read their FIFOs, and a timer that stays active fires: there
\* comes a moment at which epoll_wait() has nothing ready.
FairSpec ==
  /\ Spec /\ WF_vars(Handle) /\ WF_vars(do_recvResp)
  /\ \A r \in Roundname : WF_vars(RoundTimeout(r))

-------------------------------------------------------------------------------
(***************************************************************************)
(* Properties.                                                             *)
(***************************************************************************)

\* Types.
TypeOK ==
  /\ user \in [Addr -> User \cup {None}]
  /\ names \subseteq Username /\ pool \subseteq Roundname
  /\ members \in [Roundname -> SUBSET Addr]
  /\ casts \in [Roundname -> Nat]
  /\ request \in Seq(Request) /\ response \in Seq(Response)
  /\ session \in [Addr -> Client \cup {None}]
  /\ coming \in Nat \ {0} /\ stale \in [Addr -> Nat] /\ armed \subseteq Roundname

\* A user is the user of the client that is connected at its address, or its
\* client has gone and the SHUTDOWN is on its way: no client ever speaks for the
\* user of another one, however addresses are used again.
UsersAreClients ==
  \A a \in Addr : user[a] # None =>
    \/ session[a] = user[a].owner
    \/ \E i \in DOMAIN request : /\ request[i].type = "SHUTDOWN" /\ request[i].addr = a
                                 /\ request[i].client = user[a].owner

\* Rounds and users agree, and a round exists as long as it has users; one that
\* does not exist has no casts left from before.
RoundsAreExact ==
  /\ \A a \in Addr, r \in Roundname :
       a \in members[r] <=> user[a] # None /\ user[a].round = r
  /\ \A a \in Addr : user[a] # None => (user[a].stat = "ROUND" <=> user[a].round # None)
  /\ \A r \in Roundname : r \in pool <=> members[r] # {}
  /\ \A r \in Roundname : casts[r] > 0 => r \in pool

\* A name that cannot be taken is that of a user who is logged in.
NamesAreUsed ==
  \A n \in names : \E a \in Addr :
    user[a] # None /\ user[a].name = n /\ user[a].stat # "LOGOUT"

\* The last message to the server about the timer of r starts it.
Starting(r) ==
  \E i \in DOMAIN response :
    /\ response[i] = Timer("START", r)
    /\ \A j \in DOMAIN response : j > i => response[j].round # r

\* A timer of r is active, and stays so until it fires, or its timeout is on the
\* way to the game process.
Running(r) ==
  /\ \A i \in DOMAIN response : response[i].round # r
  /\ \/ r \in armed
     \/ \E i \in DOMAIN request : request[i].type = "ROUNDTIMEOUT" /\ request[i].data = r

\* A round with casts is going to be timed out, unless it is judged: its timer is
\* started and is not about to be disabled.
CastsAreTimed == \A r \in Roundname : casts[r] > 0 => Starting(r) \/ Running(r)

\* Whoever has cast gets an answer: the result, or that the round timed out.
CastsAreSettled == \A r \in Roundname : casts[r] > 0 ~> casts[r] = 0
=============================================================================
