------------------------------- MODULE RoundGame -------------------------------
(***************************************************************************)
(* The game process of Networks/ScissorPaperRock: MsgHandler.cpp,          *)
(* User.cpp and Round.cpp.                                                 *)
(*                                                                         *)
(* msgDispatch() takes one message at a time from the request FIFO and     *)
(* runs its handler to the end.  A user is known by the address of a       *)
(* Session of the server process.  What is sent to clients (STATUS and     *)
(* HEARTBEAT), the scores and which gesture wins are left out: nothing in  *)
(* either process depends on them.                                         *)
(***************************************************************************)
EXTENDS Integers, Sequences, FiniteSets

CONSTANTS Addr,      \* the addresses of Session objects
          Clients,   \* bound: as many clients connect
          Username,
          Roundname,
          None       \* no user, no round, no session

\* Clients are numbered in the order in which they connect.
Client == 1..Clients

ASSUME ClientsAssumption == Clients \in Nat
ASSUME NoneAssumption == None \notin Client \cup Roundname

VARIABLES user,     \* s2u: the User of each session, if any
          names,    \* usernameSet
          pool,     \* rounds_: the rounds that exist
          members,  \* users_ of each round
          casts,    \* scissorCnt + paperCnt + rockCnt of each round
          request, response  \* the FIFOs from and to the server process

gvars == <<user, names, pool, members, casts>>

UserStat == {"LOGIN", "ROUND", "LOGOUT"}

\* owner: the client that first logged in on the session.
User == [owner : Client, name : Username, stat : UserStat, round : Roundname \cup {None}]

ASSUME NoUserAssumption == None \notin User

\* What comes from the server process, and what goes to it.
Request ==
  [addr : Addr, client : Client, type : {"LOGIN"}, data : Username] \cup
  [addr : Addr, client : Client, type : {"OPENROUND", "JOINROUND"}, data : Roundname] \cup
  [addr : Addr, client : Client,
   type : {"LOGOUT", "QUITROUND", "CAST", "SHUTDOWN"}, data : {None}] \cup
  [addr : {None}, client : {None}, type : {"ROUNDTIMEOUT"}, data : Roundname]

Response == [type : {"START", "DISABLE"}, round : Roundname]

Timer(type, r) == [type |-> type, round |-> r]

GameInit ==
  /\ user = [a \in Addr |-> None]
  /\ names = {} /\ pool = {}
  /\ members = [r \in Roundname |-> {}]
  /\ casts = [r \in Roundname |-> 0]
  /\ request = <<>> /\ response = <<>>

-------------------------------------------------------------------------------
(***************************************************************************)
(* Rounds.                                                                 *)
(***************************************************************************)

\* judge(): all results are in for the users M of a round with n casts.
Judged(M, n) == Cardinality(M) > 1 /\ n >= Cardinality(M)

\* It then disables the timer of the round.
Verdict(M, n, r) == IF Judged(M, n) THEN <<Timer("DISABLE", r)>> ELSE <<>>

\* Mutant: the user leaves and nobody looks whether the round is empty.
quitRoundKeepsEmpty(a) ==
  LET r == user[a].round
      M == members[r] \ {a}
  IN IF r = None
       THEN UNCHANGED <<pool, members, casts, response>>
       ELSE /\ members' = [members EXCEPT ![r] = M]
            /\ pool' = pool
            /\ casts' = [casts EXCEPT ![r] = IF Judged(M, @) THEN 0 ELSE @]
            /\ response' = response \o Verdict(M, casts[r], r)

\* Those that stay may be judged; the last one deletes the round.
quitRound(a) ==
  LET r == user[a].round
      M == members[r] \ {a}
  IN IF r = None
       THEN UNCHANGED <<pool, members, casts, response>>
       ELSE /\ members' = [members EXCEPT ![r] = M]
            /\ pool' = IF M = {} THEN pool \ {r} ELSE pool
            /\ casts' = [casts EXCEPT ![r] = IF M = {} \/ Judged(M, @) THEN 0 ELSE @]
            /\ response' = response \o Verdict(M, casts[r], r)

-------------------------------------------------------------------------------
(***************************************************************************)
(* The handlers, for the message m at the head of the request FIFO.        *)
(***************************************************************************)

LogsIn(m) ==
  /\ user[m.addr] # None => user[m.addr].stat = "LOGOUT"
  /\ m.data \notin names

\* A new user is kept only if the login succeeds.
loginHandler(m) ==
  /\ IF LogsIn(m)
       THEN /\ user' = [user EXCEPT ![m.addr] =
                 [owner |-> IF @ = None THEN m.client ELSE @.owner,
                  name |-> m.data, stat |-> "LOGIN", round |-> None]]
            /\ names' = names \cup {m.data}
       ELSE UNCHANGED <<user, names>>
  /\ UNCHANGED <<pool, members, casts, response>>

\* Mutant: the name is only given back when the user is deleted.
logoutHandlerKeepsName(m) ==
  IF user[m.addr] = None \/ user[m.addr].stat = "LOGOUT"
    THEN UNCHANGED <<gvars, response>>
    ELSE /\ quitRound(m.addr)
         /\ user' = [user EXCEPT ![m.addr].stat = "LOGOUT", ![m.addr].round = None]
         /\ names' = names

logoutHandler(m) ==
  IF user[m.addr] = None \/ user[m.addr].stat = "LOGOUT"
    THEN UNCHANGED <<gvars, response>>
    ELSE /\ quitRound(m.addr)
         /\ user' = [user EXCEPT ![m.addr].stat = "LOGOUT", ![m.addr].round = None]
         /\ names' = names \ {user[m.addr].name}

\* Mutant: a user who has logged out stays in s2u.
shutdownHandlerOfLoggedIn(m) ==
  IF user[m.addr] = None \/ user[m.addr].stat = "LOGOUT"
    THEN UNCHANGED <<gvars, response>>
    ELSE /\ quitRound(m.addr)
         /\ user' = [user EXCEPT ![m.addr] = None]
         /\ names' = names \ {user[m.addr].name}

\* ~User() takes the name out of usernameSet even if the user has logged out
\* and another has the name now.
shutdownHandler(m) ==
  IF user[m.addr] = None
    THEN UNCHANGED <<gvars, response>>
    ELSE /\ quitRound(m.addr)
         /\ user' = [user EXCEPT ![m.addr] = None]
         /\ names' = names \ {user[m.addr].name}

MayEnter(m) == user[m.addr] # None /\ user[m.addr].stat = "LOGIN"

Enter(m) ==
  /\ user' = [user EXCEPT ![m.addr].stat = "ROUND", ![m.addr].round = m.data]
  /\ members' = [members EXCEPT ![m.data] = @ \cup {m.addr}]
  /\ UNCHANGED <<names, casts, response>>

openRoundHandler(m) ==
  IF MayEnter(m) /\ m.data \notin pool
    THEN Enter(m) /\ pool' = pool \cup {m.data}
    ELSE UNCHANGED <<gvars, response>>

joinRoundHandler(m) ==
  IF MayEnter(m) /\ m.data \in pool
    THEN Enter(m) /\ UNCHANGED pool
    ELSE UNCHANGED <<gvars, response>>

quitRoundHandler(m) ==
  IF user[m.addr] = None \/ user[m.addr].round = None
    THEN UNCHANGED <<gvars, response>>
    ELSE /\ quitRound(m.addr)
         /\ user' = [user EXCEPT ![m.addr].stat = "LOGIN", ![m.addr].round = None]
         /\ UNCHANGED names

\* Mutant: the timer is started by the second cast.
TimerMessagesLate(M, n, r) ==
  (IF n = 2 THEN <<Timer("START", r)>> ELSE <<>>) \o Verdict(M, n, r)

\* registerGesture(): the first of the casts starts the timer, judge() stops it.
TimerMessages(M, n, r) ==
  (IF n = 1 THEN <<Timer("START", r)>> ELSE <<>>) \o Verdict(M, n, r)

castHandler(m) ==
  IF user[m.addr] = None \/ user[m.addr].stat # "ROUND"
    THEN UNCHANGED <<gvars, response>>
    ELSE LET r == user[m.addr].round
             n == casts[r] + 1
         IN /\ casts' = [casts EXCEPT ![r] = IF Judged(members[r], n) THEN 0 ELSE n]
            /\ response' = response \o TimerMessages(members[r], n, r)
            /\ UNCHANGED <<user, names, pool, members>>

\* Mutant: only the cast that started the timer is taken back.
roundtimeoutHandlerOfOne(m) ==
  /\ casts' = [casts EXCEPT ![m.data] = @ - 1]
  /\ UNCHANGED <<user, names, pool, members, response>>

\* Round::timeout() takes the casts back, whichever of them the timer was for.
\* (A round that is not in the pool has none: RoundsAreExact.)
roundtimeoutHandler(m) ==
  /\ casts' = [casts EXCEPT ![m.data] = 0]
  /\ UNCHANGED <<user, names, pool, members, response>>

msgDispatch ==
  /\ request # <<>> /\ request' = Tail(request)
  /\ LET m == Head(request) IN
       \/ m.type = "LOGIN" /\ loginHandler(m)
       \/ m.type = "LOGOUT" /\ logoutHandler(m)
       \/ m.type = "OPENROUND" /\ openRoundHandler(m)
       \/ m.type = "JOINROUND" /\ joinRoundHandler(m)
       \/ m.type = "QUITROUND" /\ quitRoundHandler(m)
       \/ m.type = "CAST" /\ castHandler(m)
       \/ m.type = "SHUTDOWN" /\ shutdownHandler(m)
       \/ m.type = "ROUNDTIMEOUT" /\ roundtimeoutHandler(m)
=============================================================================
