--------------------------- MODULE RoundServerProofs ---------------------------
(***************************************************************************)
(* Proofs about the two processes of ScissorPaperRock, for every number of *)
(* addresses, clients, names and rounds and without the bounds of the      *)
(* runs: types (TypeCorrect), that no client speaks for another one's user *)
(* (NobodyIsImpersonated), that casts are timed (TimersAreStarted), that   *)
(* rounds and users agree (RoundsStayExact) and that no name is lost       *)
(* (NamesStayUsed).                                                        *)
(***************************************************************************)
EXTENDS RoundServer, SequenceTheorems, TLAPS

USE NoneAssumption, ClientsAssumption

\* A user who has joined a round has a round.
StatOK == \A a \in Addr : user[a] # None =>
            (user[a].stat = "ROUND" => user[a].round # None)

Types == TypeOK /\ StatOK

-------------------------------------------------------------------------------
(* Messages. *)

\* What the messages of each type carry.
LEMMA Kinds ==
  ASSUME NEW m \in Request
  PROVE /\ m.type # "ROUNDTIMEOUT" => m.addr \in Addr /\ m.client \in Client
        /\ m.type = "LOGIN" => m.data \in Username
        /\ m.type \in {"OPENROUND", "JOINROUND", "ROUNDTIMEOUT"} => m.data \in Roundname
  BY DEF Request

\* A command that do_read takes is a message.
LEMMA CommandType ==
  ASSUME TypeOK, NEW a \in Addr, session[a] # None, NEW cmd \in Commands
  PROVE /\ Message(a, cmd[1], cmd[2]) \in Request
        /\ cmd[1] \notin {"SHUTDOWN", "ROUNDTIMEOUT"}
<1>1. session[a] \in Client
  BY DEF TypeOK
<1> QED
  BY <1>1 DEF Commands, Message, Request

LEMMA ShutdownType ==
  ASSUME TypeOK, NEW a \in Addr, session[a] # None
  PROVE Message(a, "SHUTDOWN", None) \in Request
  BY DEF TypeOK, Message, Request

LEMMA NoMessage ==
  ASSUME NEW r, NEW s, s = <<>>
  PROVE s \in Seq(Response) /\ \A i \in DOMAIN s : s[i].round = r
<1>1. s \in Seq(Response) /\ Len(s) = 0
  BY EmptySeq
<1>2. DOMAIN s = 1..0
  BY <1>1, LenProperties
<1>3. \A i : i \notin 1..0
  OBVIOUS
<1> QED
  BY <1>1, <1>2, <1>3

LEMMA OneMessage ==
  ASSUME NEW e \in Response
  PROVE <<e>> \in Seq(Response) /\ \A i \in DOMAIN <<e>> : <<e>>[i].round = e.round
  OBVIOUS

\* What judge() sends.
LEMMA VerdictType ==
  ASSUME NEW M, NEW n, NEW r \in Roundname
  PROVE /\ Verdict(M, n, r) \in Seq(Response)
        /\ \A i \in DOMAIN Verdict(M, n, r) : Verdict(M, n, r)[i].round = r
<1>1. Timer("DISABLE", r) \in Response /\ Timer("DISABLE", r).round = r
  BY DEF Timer, Response
<1>2. Verdict(M, n, r) = <<Timer("DISABLE", r)>> \/ Verdict(M, n, r) = <<>>
  BY DEF Verdict
<1> QED
  BY <1>1, <1>2, OneMessage, NoMessage

LEMMA TimerMessagesType ==
  ASSUME NEW M, NEW n, NEW r \in Roundname
  PROVE /\ TimerMessages(M, n, r) \in Seq(Response)
        /\ \A i \in DOMAIN TimerMessages(M, n, r) : TimerMessages(M, n, r)[i].round = r
<1> DEFINE s == IF n = 1 THEN <<Timer("START", r)>> ELSE <<>>
           t == Verdict(M, n, r)
<1>1. s \in Seq(Response) /\ \A i \in DOMAIN s : s[i].round = r
  <2> DEFINE e == Timer("START", r)
  <2>1. e \in Response /\ e.round = r
    BY DEF Timer, Response
  <2>2. s = <<e>> \/ s = <<>>
    OBVIOUS
  <2> HIDE DEF s, e
  <2>3. <<e>> \in Seq(Response) /\ \A i \in DOMAIN <<e>> : <<e>>[i].round = r
    BY <2>1, OneMessage
  <2>4. CASE s = <<e>>
    BY <2>3, <2>4
  <2>5. CASE s = <<>>
    BY <2>5, NoMessage
  <2> QED
    BY <2>2, <2>4, <2>5
<1>2. t \in Seq(Response) /\ \A i \in DOMAIN t : t[i].round = r
  BY VerdictType
<1>3. TimerMessages(M, n, r) = s \o t
  BY DEF TimerMessages
<1> HIDE DEF s, t
<1> QED
  BY <1>1, <1>2, <1>3, ConcatProperties, LenProperties

-------------------------------------------------------------------------------
(* Types. *)

\* quitRound keeps the types of the rounds and of the FIFO.
LEMMA QuitTypes ==
  ASSUME TypeOK, NEW a \in Addr, user[a] \in User, quitRound(a)
  PROVE /\ pool' \subseteq Roundname
        /\ members' \in [Roundname -> SUBSET Addr]
        /\ casts' \in [Roundname -> Nat]
        /\ response' \in Seq(Response)
<1> DEFINE r == user[a].round
<1>1. CASE r = None
  BY <1>1 DEF quitRound, TypeOK
<1>2. CASE r # None
  <2>1. r \in Roundname
    BY <1>2 DEF User
  <2>2. response' = response \o Verdict(members[r] \ {a}, casts[r], r)
    BY <1>2 DEF quitRound
  <2>3. response' \in Seq(Response)
    BY <2>1, <2>2, VerdictType, ConcatProperties DEF TypeOK
  <2>4. members' = [members EXCEPT ![r] = members[r] \ {a}]
    BY <1>2 DEF quitRound
  <2>5. members' \in [Roundname -> SUBSET Addr]
    BY <2>1, <2>4 DEF TypeOK
  <2>6. pool' = pool \ {r} \/ pool' = pool
    BY <1>2 DEF quitRound
  <2>7. members' \in [Roundname -> SUBSET Addr] /\ pool' \subseteq Roundname
    BY <2>5, <2>6 DEF TypeOK
  <2>8. casts' \in [Roundname -> Nat]
    BY <1>2, <2>1 DEF quitRound, TypeOK
  <2> QED
    BY <2>3, <2>7, <2>8
<1> QED
  BY <1>1, <1>2

\* What the game process owns has its types after a handler.
GameTypes ==
  /\ user \in [Addr -> User \cup {None}]
  /\ names \subseteq Username /\ pool \subseteq Roundname
  /\ members \in [Roundname -> SUBSET Addr]
  /\ casts \in [Roundname -> Nat]
  /\ response \in Seq(Response)
  /\ StatOK

LEMMA LoginTypes ==
  ASSUME Types, NEW m \in Request, m.type = "LOGIN", loginHandler(m)
  PROVE GameTypes'
<1>1. m.addr \in Addr /\ m.client \in Client /\ m.data \in Username
  BY Kinds
<1>2. CASE LogsIn(m)
  <2> DEFINE u == [owner |-> IF user[m.addr] = None THEN m.client ELSE user[m.addr].owner,
                   name |-> m.data, stat |-> "LOGIN", round |-> None]
  <2>1. u \in User
    BY <1>1 DEF Types, TypeOK, User, UserStat
  <2>2. user' = [user EXCEPT ![m.addr] = u]
    BY <1>2 DEF loginHandler
  <2>3. u.stat = "LOGIN"
    OBVIOUS
  <2> HIDE DEF u
  <2>4. user' \in [Addr -> User \cup {None}] /\ StatOK'
    BY <1>1, <2>1, <2>2, <2>3 DEF Types, TypeOK, StatOK
  <2> QED
    BY <1>1, <1>2, <2>4 DEF GameTypes, loginHandler, Types, TypeOK
<1>3. CASE ~LogsIn(m)
  BY <1>3 DEF GameTypes, loginHandler, Types, TypeOK, StatOK
<1> QED
  BY <1>2, <1>3

\* The handlers that take a user out of its round: logout, shutdown and quit.
LEMMA LeaveTypes ==
  ASSUME Types, NEW a \in Addr, user[a] \in User, quitRound(a),
         NEW u \in User \cup {None}, u # None => u.stat # "ROUND",
         user' = [user EXCEPT ![a] = u], names' \subseteq names
  PROVE GameTypes'
<1>1. user' \in [Addr -> User \cup {None}]
  BY DEF Types, TypeOK
<1>2. StatOK'
  BY DEF Types, TypeOK, StatOK
<1> QED
  BY <1>1, <1>2, QuitTypes DEF GameTypes, Types, TypeOK

LEMMA SameTypes ==
  ASSUME Types, UNCHANGED <<gvars, response>>
  PROVE GameTypes'
  BY DEF GameTypes, Types, TypeOK, StatOK, gvars

LEMMA LogoutTypes ==
  ASSUME Types, NEW m \in Request, m.type = "LOGOUT", logoutHandler(m)
  PROVE GameTypes'
<1>1. m.addr \in Addr
  BY Kinds
<1>2. CASE user[m.addr] = None \/ user[m.addr].stat = "LOGOUT"
  BY <1>2, SameTypes DEF logoutHandler
<1>3. CASE ~(user[m.addr] = None \/ user[m.addr].stat = "LOGOUT")
  <2>1. user[m.addr] \in User
    BY <1>1, <1>3 DEF Types, TypeOK
  <2> DEFINE u == [user[m.addr] EXCEPT !.stat = "LOGOUT", !.round = None]
  <2>2. u \in User /\ u.stat = "LOGOUT"
    BY <2>1 DEF User, UserStat
  <2>3. user' = [user EXCEPT ![m.addr] = u]
    BY <1>1, <1>3, <2>1 DEF logoutHandler, Types, TypeOK
  <2> HIDE DEF u
  <2> QED
    BY <1>1, <1>3, <2>1, <2>2, <2>3, LeaveTypes DEF logoutHandler
<1> QED
  BY <1>2, <1>3

LEMMA ShutdownTypes ==
  ASSUME Types, NEW m \in Request, m.type = "SHUTDOWN", shutdownHandler(m)
  PROVE GameTypes'
<1>1. m.addr \in Addr
  BY Kinds
<1>2. CASE user[m.addr] = None
  BY <1>2, SameTypes DEF shutdownHandler
<1>3. CASE user[m.addr] # None
  <2>1. user[m.addr] \in User
    BY <1>1, <1>3 DEF Types, TypeOK
  <2> QED
    BY <1>1, <1>3, <2>1, LeaveTypes DEF shutdownHandler
<1> QED
  BY <1>2, <1>3

LEMMA QuitRoundTypes ==
  ASSUME Types, NEW m \in Request, m.type = "QUITROUND", quitRoundHandler(m)
  PROVE GameTypes'
<1>1. m.addr \in Addr
  BY Kinds
<1>2. CASE user[m.addr] = None \/ user[m.addr].round = None
  BY <1>2, SameTypes DEF quitRoundHandler
<1>3. CASE ~(user[m.addr] = None \/ user[m.addr].round = None)
  <2>1. user[m.addr] \in User
    BY <1>1, <1>3 DEF Types, TypeOK
  <2> DEFINE u == [user[m.addr] EXCEPT !.stat = "LOGIN", !.round = None]
  <2>2. u \in User /\ u.stat = "LOGIN"
    BY <2>1 DEF User, UserStat
  <2>3. user' = [user EXCEPT ![m.addr] = u]
    BY <1>1, <1>3, <2>1 DEF quitRoundHandler, Types, TypeOK
  <2> HIDE DEF u
  <2> QED
    BY <1>1, <1>3, <2>1, <2>2, <2>3, LeaveTypes DEF quitRoundHandler
<1> QED
  BY <1>2, <1>3

LEMMA EnterTypes ==
  ASSUME Types, NEW m \in Request, m.type \in {"OPENROUND", "JOINROUND"}, MayEnter(m), Enter(m),
         pool' \subseteq Roundname
  PROVE GameTypes'
<1>1. m.addr \in Addr /\ m.data \in Roundname
  BY Kinds
<1>2. user[m.addr] \in User
  BY <1>1 DEF MayEnter, Types, TypeOK
<1> DEFINE u == [user[m.addr] EXCEPT !.stat = "ROUND", !.round = m.data]
<1>3. u \in User /\ u.round # None
  BY <1>1, <1>2 DEF User, UserStat
<1>4. user' = [user EXCEPT ![m.addr] = u]
  BY <1>1, <1>2 DEF Enter, Types, TypeOK
<1> HIDE DEF u
<1>5. user' \in [Addr -> User \cup {None}] /\ StatOK'
  BY <1>1, <1>3, <1>4 DEF Types, TypeOK, StatOK
<1>6. members \in [Roundname -> SUBSET Addr] /\ casts \in [Roundname -> Nat]
      /\ names \subseteq Username /\ response \in Seq(Response)
  BY DEF Types, TypeOK
<1>7. members' \in [Roundname -> SUBSET Addr]
  BY <1>1, <1>6 DEF Enter
<1>8. UNCHANGED <<names, response>>
  BY DEF Enter
<1> QED
  BY <1>5, <1>6, <1>7, <1>8 DEF GameTypes, Enter

LEMMA CastTypes ==
  ASSUME Types, NEW m \in Request, m.type = "CAST", castHandler(m)
  PROVE GameTypes'
<1>1. m.addr \in Addr
  BY Kinds
<1>2. CASE user[m.addr] = None \/ user[m.addr].stat # "ROUND"
  BY <1>2, SameTypes DEF castHandler
<1>3. CASE ~(user[m.addr] = None \/ user[m.addr].stat # "ROUND")
  <2> DEFINE r == user[m.addr].round
             n == casts[r] + 1
  <2>1. r \in Roundname
    BY <1>1, <1>3 DEF Types, TypeOK, StatOK, User
  <2>2. casts' \in [Roundname -> Nat]
    <3>1. casts' = [casts EXCEPT ![r] = IF Judged(members[r], n) THEN 0 ELSE n]
      BY <1>3 DEF castHandler
    <3>2. casts \in [Roundname -> Nat] /\ n \in Nat
      BY <2>1 DEF Types, TypeOK
    <3> QED
      BY <2>1, <3>1, <3>2
  <2>3. response' = response \o TimerMessages(members[r], n, r)
    BY <1>3 DEF castHandler
  <2>4. response' \in Seq(Response)
    BY <2>1, <2>3, TimerMessagesType, ConcatProperties DEF Types, TypeOK
  <2>5. UNCHANGED <<user, names, pool, members>>
    BY <1>3 DEF castHandler
  <2> QED
    BY <2>2, <2>4, <2>5 DEF GameTypes, Types, TypeOK, StatOK
<1> QED
  BY <1>2, <1>3

LEMMA TimeoutTypes ==
  ASSUME Types, NEW m \in Request, m.type = "ROUNDTIMEOUT", roundtimeoutHandler(m)
  PROVE GameTypes'
<1>1. m.data \in Roundname
  BY Kinds
<1> QED
  BY <1>1 DEF roundtimeoutHandler, GameTypes, Types, TypeOK, StatOK

LEMMA HandleTypes ==
  ASSUME Types, Handle
  PROVE Types'
<1> DEFINE m == Head(request)
<1>1. request \in Seq(Request) /\ request # <<>>
  BY DEF Types, TypeOK, Handle, msgDispatch
<1>2. m \in Request /\ Tail(request) \in Seq(Request)
  BY <1>1, HeadTailProperties
<1>3. request' \in Seq(Request)
  BY <1>2 DEF Handle, msgDispatch
<1>4. GameTypes'
  <2> HIDE DEF m
  <2>1. CASE m.type = "LOGIN" /\ loginHandler(m)
    BY <1>2, <2>1, LoginTypes
  <2>2. CASE m.type = "LOGOUT" /\ logoutHandler(m)
    BY <1>2, <2>2, LogoutTypes
  <2>3. CASE m.type = "OPENROUND" /\ openRoundHandler(m)
    <3>1. m.data \in Roundname
      BY <1>2, <2>3, Kinds
    <3>2. CASE MayEnter(m) /\ m.data \notin pool
      BY <1>2, <2>3, <3>1, <3>2, EnterTypes DEF openRoundHandler, Types, TypeOK
    <3>3. CASE ~(MayEnter(m) /\ m.data \notin pool)
      BY <2>3, <3>3, SameTypes DEF openRoundHandler
    <3> QED
      BY <3>2, <3>3
  <2>4. CASE m.type = "JOINROUND" /\ joinRoundHandler(m)
    <3>1. CASE MayEnter(m) /\ m.data \in pool
      BY <1>2, <2>4, <3>1, EnterTypes DEF joinRoundHandler, Types, TypeOK
    <3>2. CASE ~(MayEnter(m) /\ m.data \in pool)
      BY <2>4, <3>2, SameTypes DEF joinRoundHandler
    <3> QED
      BY <3>1, <3>2
  <2>5. CASE m.type = "QUITROUND" /\ quitRoundHandler(m)
    BY <1>2, <2>5, QuitRoundTypes
  <2>6. CASE m.type = "CAST" /\ castHandler(m)
    BY <1>2, <2>6, CastTypes
  <2>7. CASE m.type = "SHUTDOWN" /\ shutdownHandler(m)
    BY <1>2, <2>7, ShutdownTypes
  <2>8. CASE m.type = "ROUNDTIMEOUT" /\ roundtimeoutHandler(m)
    BY <1>2, <2>8, TimeoutTypes
  <2> QED
    BY <2>1, <2>2, <2>3, <2>4, <2>5, <2>6, <2>7, <2>8 DEF Handle, msgDispatch, m
<1> QED
  BY <1>3, <1>4 DEF GameTypes, Types, TypeOK, Handle, svars

\* The steps of the server process leave the users alone.
LEMMA ServerTypes ==
  ASSUME Types, UNCHANGED gvars,
         request' \in Seq(Request), response' \in Seq(Response),
         session' \in [Addr -> Client \cup {None}], coming' \in Nat \ {0},
         stale' \in [Addr -> Nat], armed' \subseteq Roundname
  PROVE Types'
  BY DEF Types, TypeOK, StatOK, gvars

LEMMA ConnectionTypes ==
  ASSUME Types, NEW a \in Addr,
         \/ do_accecpt(a)
         \/ \E cmd \in Commands : do_read(a, cmd)
         \/ Disconnect(a) \/ SessionTimeout(a) \/ StaleTimeout(a)
  PROVE Types'
<1>1. CASE do_accecpt(a)
  BY <1>1, ServerTypes DEF do_accecpt, Types, TypeOK
<1>2. ASSUME NEW cmd \in Commands, do_read(a, cmd)
      PROVE Types'
  <2>1. Message(a, cmd[1], cmd[2]) \in Request
    BY <1>2, CommandType DEF do_read, Types
  <2>2. request' \in Seq(Request)
    BY <1>2, <2>1, AppendProperties DEF do_read, Types, TypeOK
  <2> QED
    BY <1>2, <2>2, ServerTypes DEF do_read, svars, Types, TypeOK
<1>3. ASSUME shutdownSession(a), stale' \in [Addr -> Nat]
      PROVE Types'
  <2>1. Message(a, "SHUTDOWN", None) \in Request
    BY <1>3, ShutdownType DEF shutdownSession, Types
  <2>2. request' \in Seq(Request)
    BY <1>3, <2>1, AppendProperties DEF shutdownSession, Types, TypeOK
  <2> QED
    BY <1>3, <2>2, ServerTypes DEF shutdownSession, Types, TypeOK
<1>4. CASE Disconnect(a)
  BY <1>3, <1>4 DEF Disconnect, Types, TypeOK
<1>5. CASE SessionTimeout(a)
  BY <1>3, <1>5 DEF SessionTimeout, Types, TypeOK
<1>6. CASE StaleTimeout(a)
  <2>1. CASE shutdownSession(a) /\ UNCHANGED stale
    BY <1>3, <2>1 DEF Types, TypeOK
  <2>2. CASE session[a] = None
    <3>1. stale' \in [Addr -> Nat]
      BY <1>6, <2>2 DEF StaleTimeout, shutdownSession, Types, TypeOK
    <3> QED
      BY <1>6, <2>2, <3>1, ServerTypes DEF StaleTimeout, shutdownSession, Types, TypeOK
  <2> QED
    BY <1>6, <2>1, <2>2 DEF StaleTimeout
<1> QED
  BY <1>1, <1>2, <1>4, <1>5, <1>6

LEMMA TimerTypes ==
  ASSUME Types, do_recvResp \/ \E r \in Roundname : RoundTimeout(r)
  PROVE Types'
<1>1. CASE do_recvResp
  <2>1. response # <<>> /\ response \in Seq(Response)
    BY <1>1 DEF do_recvResp, Types, TypeOK
  <2>2. Head(response) \in Response /\ response' \in Seq(Response)
    BY <1>1, <2>1, HeadTailProperties DEF do_recvResp
  <2>3. armed' \subseteq Roundname
    BY <1>1, <2>2 DEF do_recvResp, Types, TypeOK, Response
  <2> QED
    BY <1>1, <2>2, <2>3, ServerTypes DEF do_recvResp, Types, TypeOK
<1>2. ASSUME NEW r \in Roundname, RoundTimeout(r)
      PROVE Types'
  <2>1. [addr |-> None, client |-> None, type |-> "ROUNDTIMEOUT", data |-> r] \in Request
    BY DEF Request
  <2>2. request' \in Seq(Request)
    BY <1>2, <2>1, AppendProperties DEF RoundTimeout, Types, TypeOK
  <2> QED
    BY <1>2, <2>2, ServerTypes DEF RoundTimeout, Types, TypeOK
<1> QED
  BY <1>1, <1>2

LEMMA TypesInit == Init => Types
<1> SUFFICES ASSUME Init PROVE Types
  OBVIOUS
<1>1. request \in Seq(Request) /\ response \in Seq(Response)
  BY EmptySeq DEF Init, GameInit
<1> QED
  BY <1>1 DEF Init, GameInit, Types, TypeOK, StatOK

LEMMA TypesStep == Types /\ [Next]_vars => Types'
<1> SUFFICES ASSUME Types, [Next]_vars PROVE Types'
  OBVIOUS
<1>1. CASE Next
  BY <1>1, HandleTypes, ConnectionTypes, TimerTypes DEF Next
<1>2. CASE UNCHANGED vars
  BY <1>2 DEF vars, gvars, svars, Types, TypeOK, StatOK
<1> QED
  BY <1>1, <1>2

\* Every value of the program has its type, for every number of addresses,
\* clients, names and rounds: both processes, their FIFOs and the timers.
THEOREM TypeCorrect == Spec => []TypeOK
<1>1. Types => TypeOK
  BY DEF Types
<1> QED
  BY TypesInit, TypesStep, <1>1, PTL DEF Spec

-------------------------------------------------------------------------------
(***************************************************************************)
(* Nobody speaks for the user of another client.                           *)
(*                                                                         *)
(* The owner of a user is the client whose LOGIN was handled, and by then  *)
(* that client may have gone.  What makes the invariant inductive is that  *)
(* the SHUTDOWN of a client comes after all its commands in the FIFO.      *)
(***************************************************************************)

\* The SHUTDOWN of client c at address a is in the FIFO, from place i on.
Leaves(a, c, i) ==
  \E j \in DOMAIN request : /\ j >= i /\ request[j].type = "SHUTDOWN"
                            /\ request[j].addr = a /\ request[j].client = c

CommandsAreFollowed ==
  \A i \in DOMAIN request, a \in Addr, c \in Client :
    request[i].type # "ROUNDTIMEOUT" /\ request[i].addr = a /\ request[i].client = c
      => session[a] = c \/ Leaves(a, c, i)

Owners == Types /\ UsersAreClients /\ CommandsAreFollowed

\* A message that is appended takes nothing away.
LEMMA AppendLeaves ==
  ASSUME request \in Seq(Request), NEW e \in Request, request' = Append(request, e)
  PROVE /\ DOMAIN request' = DOMAIN request \cup {Len(request) + 1}
        /\ \A i \in DOMAIN request : request'[i] = request[i] /\ i <= Len(request)
        /\ request'[Len(request) + 1] = e
        /\ \A a, c, i : Leaves(a, c, i) => Leaves(a, c, i)'
<1>1. /\ DOMAIN request = 1..Len(request) /\ DOMAIN request' = 1..(Len(request) + 1)
      /\ Len(request) \in Nat
  BY LenProperties, AppendProperties
<1>2. /\ \A i \in DOMAIN request : request'[i] = request[i] /\ i <= Len(request)
      /\ request'[Len(request) + 1] = e
  BY <1>1, AppendProperties
<1>3. DOMAIN request' = DOMAIN request \cup {Len(request) + 1}
  BY <1>1
<1>4. \A a, c, i : Leaves(a, c, i) => Leaves(a, c, i)'
  BY <1>2, <1>3 DEF Leaves
<1> QED
  BY <1>2, <1>3, <1>4

\* The message at the head is taken, the others move up.
LEMMA TailLeaves ==
  ASSUME request \in Seq(Request), request # <<>>, request' = Tail(request)
  PROVE /\ 1 \in DOMAIN request /\ request[1] = Head(request)
        /\ \A i \in DOMAIN request' : i + 1 \in DOMAIN request /\ request'[i] = request[i + 1]
                                      /\ i \in Nat
        /\ \A i \in DOMAIN request : i # 1 => i - 1 \in DOMAIN request' /\ request'[i - 1] = request[i]
                                              /\ i \in Nat
<1>1. /\ DOMAIN request = 1..Len(request) /\ Len(request) \in Nat \ {0}
      /\ request[1] = Head(request)
  BY LenProperties, EmptySeq
<1>2. /\ DOMAIN request' = 1..(Len(request) - 1)
      /\ \A i \in 1..(Len(request) - 1) : request'[i] = request[i + 1]
  BY <1>1, HeadTailProperties, LenProperties
<1> QED
  BY <1>1, <1>2

LEMMA OwnersSession ==
  ASSUME Owners, NEW a \in Addr, Types',
         session[a] = None, session' = [session EXCEPT ![a] = session'[a]],
         UNCHANGED <<user, request>>
  PROVE Owners'
<1>1. ASSUME NEW b \in Addr, NEW c \in Client, session[b] = c
      PROVE session'[b] = c
  BY <1>1 DEF Owners, Types, TypeOK
<1>2. UsersAreClients'
  <2> SUFFICES ASSUME NEW b \in Addr, user[b] # None
               PROVE session'[b] = user[b].owner \/ Leaves(b, user[b].owner, 1)
    BY DEF UsersAreClients, Leaves
  <2>1. user[b].owner \in Client
    BY DEF Owners, Types, TypeOK, User
  <2>2. session[b] = user[b].owner \/ Leaves(b, user[b].owner, 1)
    <3>1. \A j \in DOMAIN request : j >= 1
      BY LenProperties DEF Owners, Types, TypeOK
    <3> QED
      BY <3>1 DEF Owners, UsersAreClients, Leaves
  <2> QED
    BY <1>1, <2>1, <2>2
<1>3. CommandsAreFollowed'
  <2> SUFFICES ASSUME NEW i \in DOMAIN request, NEW b \in Addr, NEW c \in Client,
                      session[b] = c \/ Leaves(b, c, i)
               PROVE session'[b] = c \/ Leaves(b, c, i)
    BY DEF Owners, CommandsAreFollowed, Leaves
  <2> QED
    BY <1>1
<1> QED
  BY <1>2, <1>3 DEF Owners

LEMMA OwnersAppend ==
  ASSUME Owners, Types', NEW e \in Request, request' = Append(request, e), UNCHANGED user,
         e.type # "ROUNDTIMEOUT" =>
            session'[e.addr] = e.client \/ e.type = "SHUTDOWN",
         \A b \in Addr, c \in Client : session[b] = c =>
            \/ session'[b] = c
            \/ e.type = "SHUTDOWN" /\ e.addr = b /\ e.client = c
  PROVE Owners'
<1> DEFINE n == Len(request) + 1
<1>1. /\ DOMAIN request' = DOMAIN request \cup {n}
      /\ \A i \in DOMAIN request : request'[i] = request[i] /\ i <= Len(request)
      /\ request'[n] = e
      /\ \A a, c, i : Leaves(a, c, i) => Leaves(a, c, i)'
  BY AppendLeaves DEF Owners, Types, TypeOK
<1>2. n \in Nat /\ n >= 1 /\ \A i \in DOMAIN request : i <= n /\ i >= 1
  BY LenProperties DEF Owners, Types, TypeOK
<1> HIDE DEF n
<1>3. ASSUME NEW b \in Addr, NEW c \in Client, NEW i \in DOMAIN request \cup {1},
             session[b] = c \/ Leaves(b, c, i)
      PROVE session'[b] = c \/ Leaves(b, c, i)'
  <2>1. n >= i
    BY <1>2
  <2> QED
    BY <1>1, <1>3, <2>1 DEF Leaves
<1>4. UsersAreClients'
  <2> SUFFICES ASSUME NEW b \in Addr, user[b] # None
               PROVE session'[b] = user[b].owner \/ Leaves(b, user[b].owner, 1)'
    BY DEF UsersAreClients, Leaves
  <2>1. user[b].owner \in Client
    BY DEF Owners, Types, TypeOK, User
  <2>2. session[b] = user[b].owner \/ Leaves(b, user[b].owner, 1)
    BY <1>2 DEF Owners, UsersAreClients, Leaves
  <2> QED
    BY <1>3, <2>1, <2>2
<1>5. CommandsAreFollowed'
  <2> SUFFICES ASSUME NEW i \in DOMAIN request', NEW b \in Addr, NEW c \in Client,
                      request'[i].type # "ROUNDTIMEOUT",
                      request'[i].addr = b, request'[i].client = c
               PROVE session'[b] = c \/ Leaves(b, c, i)'
    BY DEF CommandsAreFollowed
  <2>1. CASE i = n
    BY <1>1, <1>2, <2>1 DEF Leaves
  <2>2. CASE i # n
    <3>1. i \in DOMAIN request /\ request'[i] = request[i]
      BY <1>1, <2>2
    <3>2. session[b] = c \/ Leaves(b, c, i)
      BY <3>1 DEF Owners, CommandsAreFollowed
    <3> QED
      BY <1>3, <3>1, <3>2
  <2> QED
    BY <2>1, <2>2
<1> QED
  BY <1>4, <1>5 DEF Owners

\* The users that a handler leaves behind: those of before, except at the address
\* of a SHUTDOWN, and perhaps that of the client that logs in.
LEMMA HandledOwners ==
  ASSUME Owners, Handle, NEW m, m = Head(request), m \in Request,
         NEW b \in Addr, user'[b] # None
  PROVE \/ /\ user[b] # None /\ user'[b].owner = user[b].owner
           /\ ~(m.type = "SHUTDOWN" /\ m.addr = b)
        \/ m.type = "LOGIN" /\ m.addr = b /\ user'[b].owner = m.client
<1>1. /\ user \in [Addr -> User \cup {None}]
      /\ m.type # "ROUNDTIMEOUT" => m.addr \in Addr
  BY Kinds DEF Owners, Types, TypeOK
<1>2. user[b] # None => user[b] \in User
  BY <1>1
<1>3. CASE m.type = "LOGIN" /\ loginHandler(m)
  <2>1. CASE LogsIn(m)
    <3>1. user' = [user EXCEPT ![m.addr] =
            [owner |-> IF user[m.addr] = None THEN m.client ELSE user[m.addr].owner,
             name |-> m.data, stat |-> "LOGIN", round |-> None]]
      BY <1>3, <2>1 DEF loginHandler
    <3>2. CASE m.addr = b
      BY <1>1, <1>3, <3>1, <3>2
    <3>3. CASE m.addr # b
      BY <1>1, <1>3, <3>1, <3>3
    <3> QED
      BY <3>2, <3>3
  <2>2. CASE ~LogsIn(m)
    BY <1>3, <2>2 DEF loginHandler
  <2> QED
    BY <2>1, <2>2
<1>4. CASE m.type = "LOGOUT" /\ logoutHandler(m)
  BY <1>1, <1>2, <1>4 DEF logoutHandler, gvars, User
<1>5. CASE m.type = "OPENROUND" /\ openRoundHandler(m)
  BY <1>1, <1>2, <1>5 DEF openRoundHandler, MayEnter, Enter, gvars, User
<1>6. CASE m.type = "JOINROUND" /\ joinRoundHandler(m)
  BY <1>1, <1>2, <1>6 DEF joinRoundHandler, MayEnter, Enter, gvars, User
<1>7. CASE m.type = "QUITROUND" /\ quitRoundHandler(m)
  BY <1>1, <1>2, <1>7 DEF quitRoundHandler, gvars, User
<1>8. CASE m.type = "CAST" /\ castHandler(m)
  BY <1>8 DEF castHandler, gvars
<1>9. CASE m.type = "SHUTDOWN" /\ shutdownHandler(m)
  BY <1>1, <1>9 DEF shutdownHandler, gvars
<1>10. CASE m.type = "ROUNDTIMEOUT" /\ roundtimeoutHandler(m)
  BY <1>10 DEF roundtimeoutHandler
<1> QED
  BY <1>3, <1>4, <1>5, <1>6, <1>7, <1>8, <1>9, <1>10 DEF Handle, msgDispatch

LEMMA OwnersHandle ==
  ASSUME Owners, Types', Handle
  PROVE Owners'
<1> DEFINE m == Head(request)
<1>1. request \in Seq(Request) /\ request # <<>> /\ request' = Tail(request)
  BY DEF Owners, Types, TypeOK, Handle, msgDispatch
<1>2. m \in Request
  BY <1>1, HeadTailProperties
<1>3. /\ 1 \in DOMAIN request /\ request[1] = m
      /\ \A i \in DOMAIN request' : /\ i + 1 \in DOMAIN request /\ request'[i] = request[i + 1]
                                    /\ i \in Nat
      /\ \A i \in DOMAIN request : /\ i # 1 => i - 1 \in DOMAIN request'
                                   /\ i # 1 => request'[i - 1] = request[i]
                                   /\ i # 1 => i \in Nat
  BY <1>1, TailLeaves
<1>4. UNCHANGED session
  BY DEF Handle, svars
<1> HIDE DEF m
<1>5. ASSUME NEW b \in Addr, NEW c, NEW i \in Nat, Leaves(b, c, i + 1), i >= 1
      PROVE Leaves(b, c, i)'
  <2>1. PICK j \in DOMAIN request : /\ j >= i + 1 /\ request[j].type = "SHUTDOWN"
                                    /\ request[j].addr = b /\ request[j].client = c
    BY <1>5 DEF Leaves
  <2>2. j # 1 /\ j \in Nat
    BY <1>3, <1>5, <2>1
  <2>3. j - 1 \in DOMAIN request' /\ request'[j - 1] = request[j] /\ j - 1 >= i
    BY <1>3, <2>1, <2>2
  <2> QED
    BY <2>1, <2>3 DEF Leaves
<1>6. \A i \in DOMAIN request' : i \in Nat /\ i >= 1
  BY LenProperties DEF Types, TypeOK
<1>7. UsersAreClients'
  <2> SUFFICES ASSUME NEW b \in Addr, user'[b] # None, NEW c, c = user'[b].owner
               PROVE session[b] = c \/ Leaves(b, c, 1)'
    BY <1>4 DEF UsersAreClients, Leaves
  <2>1. CASE /\ user[b] # None /\ c = user[b].owner
             /\ ~(m.type = "SHUTDOWN" /\ m.addr = b)
    <3>1. CASE session[b] = c
      BY <3>1
    <3>2. ASSUME NEW j \in DOMAIN request, request[j].type = "SHUTDOWN",
                 request[j].addr = b, request[j].client = c
          PROVE Leaves(b, c, 1)'
      <4>1. j # 1
        BY <1>3, <2>1, <3>2
      <4>2. j - 1 \in DOMAIN request' /\ request'[j - 1] = request[j]
        BY <1>3, <4>1
      <4> QED
        BY <1>6, <3>2, <4>2 DEF Leaves
    <3> QED
      BY <2>1, <3>1, <3>2 DEF Owners, UsersAreClients
  <2>2. CASE m.type = "LOGIN" /\ m.addr = b /\ c = m.client
    <3>1. c \in Client
      BY <1>2, <2>2, Kinds
    <3>2. session[b] = c \/ Leaves(b, c, 1)
      BY <1>3, <2>2, <3>1 DEF Owners, CommandsAreFollowed
    <3>3. ASSUME NEW j \in DOMAIN request, request[j].type = "SHUTDOWN",
                 request[j].addr = b, request[j].client = c
          PROVE Leaves(b, c, 1)'
      <4>1. j # 1
        BY <1>3, <2>2, <3>3
      <4>2. j - 1 \in DOMAIN request' /\ request'[j - 1] = request[j]
        BY <1>3, <4>1
      <4> QED
        BY <1>6, <3>3, <4>2 DEF Leaves
    <3> QED
      BY <3>2, <3>3 DEF Leaves
  <2> QED
    BY <1>2, <2>1, <2>2, HandledOwners DEF m
<1>8. CommandsAreFollowed'
  <2> SUFFICES ASSUME NEW i \in DOMAIN request', NEW b \in Addr, NEW c \in Client,
                      request'[i].type # "ROUNDTIMEOUT",
                      request'[i].addr = b, request'[i].client = c
               PROVE session[b] = c \/ Leaves(b, c, i)'
    BY <1>4 DEF CommandsAreFollowed
  <2>1. i + 1 \in DOMAIN request /\ request'[i] = request[i + 1]
    BY <1>3
  <2>2. session[b] = c \/ Leaves(b, c, i + 1)
    BY <2>1 DEF Owners, CommandsAreFollowed
  <2> QED
    BY <1>5, <1>6, <2>2
<1> QED
  BY <1>7, <1>8 DEF Owners

\* Sessions that come and go, and the timers of rounds.
LEMMA OwnersServer ==
  ASSUME Owners, Types', Next, ~Handle
  PROVE Owners'
<1>1. ASSUME NEW a \in Addr, do_accecpt(a)
      PROVE Owners'
  BY <1>1, OwnersSession DEF do_accecpt, gvars, Owners, Types, TypeOK
<1>2. ASSUME NEW a \in Addr, NEW cmd \in Commands, do_read(a, cmd)
      PROVE Owners'
  <2> DEFINE e == Message(a, cmd[1], cmd[2])
  <2>1. e \in Request /\ e.addr = a /\ e.client = session[a]
    BY <1>2, CommandType DEF do_read, Owners, Types, Message
  <2>2. request' = Append(request, e) /\ UNCHANGED <<user, session>>
    BY <1>2 DEF do_read, gvars, svars
  <2> HIDE DEF e
  <2> QED
    BY <2>1, <2>2, OwnersAppend
<1>3. ASSUME NEW a \in Addr, shutdownSession(a)
      PROVE Owners'
  <2> DEFINE e == Message(a, "SHUTDOWN", None)
  <2>1. e \in Request /\ e.type = "SHUTDOWN" /\ e.addr = a /\ e.client = session[a]
    BY <1>3, ShutdownType DEF shutdownSession, Owners, Types, Message
  <2>2. request' = Append(request, e) /\ UNCHANGED user
    BY <1>3 DEF shutdownSession, gvars
  <2>3. \A b \in Addr : b # a => session'[b] = session[b]
    BY <1>3 DEF shutdownSession, Owners, Types, TypeOK
  <2> HIDE DEF e
  <2> QED
    BY <2>1, <2>2, <2>3, OwnersAppend
<1>4. ASSUME NEW a \in Addr, StaleTimeout(a), ~shutdownSession(a)
      PROVE Owners'
  BY <1>4, OwnersSession DEF StaleTimeout, gvars, Owners, Types, TypeOK
<1>5. CASE do_recvResp
  BY <1>5 DEF do_recvResp, gvars, Owners, UsersAreClients, CommandsAreFollowed, Leaves
<1>6. ASSUME NEW r \in Roundname, RoundTimeout(r)
      PROVE Owners'
  <2> DEFINE e == [addr |-> None, client |-> None, type |-> "ROUNDTIMEOUT", data |-> r]
  <2>1. e \in Request /\ e.type = "ROUNDTIMEOUT"
    BY DEF Request
  <2>2. request' = Append(request, e) /\ UNCHANGED <<user, session>>
    BY <1>6 DEF RoundTimeout, gvars
  <2> HIDE DEF e
  <2> QED
    BY <2>1, <2>2, OwnersAppend
<1> QED
  BY <1>1, <1>2, <1>3, <1>4, <1>5, <1>6 DEF Next, Disconnect, SessionTimeout

LEMMA OwnersStep == Owners /\ [Next]_vars => Owners'
<1> SUFFICES ASSUME Owners, [Next]_vars PROVE Owners'
  OBVIOUS
<1>1. Types'
  BY TypesStep DEF Owners
<1>2. CASE UNCHANGED vars
  BY <1>1, <1>2 DEF vars, gvars, svars, Owners, UsersAreClients, CommandsAreFollowed, Leaves
<1> QED
  BY <1>1, <1>2, OwnersHandle, OwnersServer

LEMMA OwnersInit == Init => Owners
<1> SUFFICES ASSUME Init PROVE Owners
  OBVIOUS
<1>1. Types
  BY TypesInit
<1>2. DOMAIN request = {}
  BY LenProperties, EmptySeq DEF Init, GameInit, Types, TypeOK
<1> QED
  BY <1>1, <1>2 DEF Init, GameInit, Owners, UsersAreClients, CommandsAreFollowed

\* A user is that of the client connected at its address, or of one that has gone
\* and whose SHUTDOWN is in the FIFO: however often the server process uses the
\* address of a Session again, no client plays for another one (MsgHandler.cpp
\* finds users by that address).
THEOREM NobodyIsImpersonated == Spec => []UsersAreClients
<1>1. Owners => UsersAreClients
  BY DEF Owners
<1> QED
  BY OwnersInit, OwnersStep, <1>1, PTL DEF Spec

-------------------------------------------------------------------------------
(***************************************************************************)
(* Casts are timed.  CastsAreTimed is inductive once types are known.      *)
(***************************************************************************)

Timed(r) == Starting(r) \/ Running(r)

\* Messages about other rounds, and losing requests other than the timeout of r,
\* leave r as it was.
LEMMA OthersAreTold ==
  ASSUME Types, NEW r, Timed(r), NEW t \in Seq(Response), response' = response \o t,
         \A i \in DOMAIN t : t[i].round # r, r \in armed => r \in armed',
         \A i \in DOMAIN request :
           request[i].type = "ROUNDTIMEOUT" /\ request[i].data = r =>
             \E j \in DOMAIN request' : request'[j].type = "ROUNDTIMEOUT" /\ request'[j].data = r
  PROVE Timed(r)'
<1>1. /\ DOMAIN response = 1..Len(response) /\ Len(response) \in Nat
      /\ DOMAIN t = 1..Len(t) /\ Len(t) \in Nat
      /\ DOMAIN response' = 1..(Len(response) + Len(t))
      /\ \A i \in 1..(Len(response) + Len(t)) :
           response'[i] = IF i <= Len(response) THEN response[i] ELSE t[i - Len(response)]
  BY LenProperties, ConcatProperties DEF Types, TypeOK
<1>2. ASSUME NEW i \in DOMAIN response'
      PROVE \/ i \in DOMAIN response /\ response'[i] = response[i]
            \/ response'[i].round # r
  <2>1. CASE i <= Len(response)
    BY <1>1, <2>1
  <2>2. CASE ~(i <= Len(response))
    <3>1. i - Len(response) \in DOMAIN t /\ response'[i] = t[i - Len(response)]
      BY <1>1, <2>2
    <3> QED
      BY <3>1
  <2> QED
    BY <2>1, <2>2
<1>3. \A i \in DOMAIN response : i \in DOMAIN response' /\ response'[i] = response[i]
  BY <1>1
<1>4. CASE Starting(r)
  BY <1>2, <1>3, <1>4 DEF Starting, Timed
<1>5. CASE Running(r)
  BY <1>2, <1>5 DEF Running, Timed
<1> QED
  BY <1>4, <1>5 DEF Timed

\* A handler, other than that of the timeout of r, leaves the requests about r.
LEMMA HandledTimeouts ==
  ASSUME Types, Handle, NEW r, ~(Head(request).type = "ROUNDTIMEOUT" /\ Head(request).data = r)
  PROVE \A i \in DOMAIN request :
          request[i].type = "ROUNDTIMEOUT" /\ request[i].data = r =>
            \E j \in DOMAIN request' : request'[j].type = "ROUNDTIMEOUT" /\ request'[j].data = r
<1>1. request \in Seq(Request) /\ request # <<>> /\ request' = Tail(request)
  BY DEF Types, TypeOK, Handle, msgDispatch
<1> QED
  BY <1>1, TailLeaves

\* quitRound: the round that is left keeps its casts only if it is not judged, and
\* nothing is sent then; the messages about it do not concern other rounds.
LEMMA QuitMessages ==
  ASSUME Types, NEW a \in Addr, user[a] \in User, quitRound(a),
         NEW r \in Roundname, casts'[r] > 0
  PROVE /\ casts[r] > 0
        /\ \E t \in Seq(Response) : /\ response' = response \o t
                                    /\ \A i \in DOMAIN t : t[i].round # r
<1> DEFINE q == user[a].round
           t == Verdict(members[q] \ {a}, casts[q], q)
<1>0. casts \in [Roundname -> Nat] /\ response \in Seq(Response)
  BY DEF Types, TypeOK
<1>1. response = response \o <<>> /\ <<>> \in Seq(Response) /\ DOMAIN <<>> = {}
  BY <1>0, EmptySeq, ConcatEmptySeq, LenProperties
<1>2. CASE q = None
  BY <1>1, <1>2 DEF quitRound
<1>3. CASE q # None
  <2>1. q \in Roundname /\ response' = response \o t
    BY <1>3 DEF quitRound, User
  <2>2. casts' = [casts EXCEPT ![q] = IF members[q] \ {a} = {} \/ Judged(members[q] \ {a}, casts[q])
                                       THEN 0 ELSE casts[q]]
    BY <1>3 DEF quitRound
  <2>3. CASE r = q
    <3>1. ~Judged(members[q] \ {a}, casts[q]) /\ casts[r] > 0
      BY <1>0, <2>1, <2>2, <2>3
    <3>2. t = <<>>
      BY <3>1 DEF Verdict
    <3> QED
      BY <1>1, <2>1, <3>1, <3>2
  <2>4. CASE r # q
    <3>1. casts[r] > 0
      BY <1>0, <2>1, <2>2, <2>4
    <3>2. t \in Seq(Response) /\ \A i \in DOMAIN t : t[i].round # r
      BY <2>1, <2>4, VerdictType
    <3> QED
      BY <2>1, <3>1, <3>2
  <2> QED
    BY <2>3, <2>4
<1> QED
  BY <1>2, <1>3

\* A cast that is kept starts the timer, or another one did.
LEMMA CastIsTimed ==
  ASSUME Types, CastsAreTimed, Handle, NEW m, m = Head(request), m \in Request,
         m.type = "CAST", castHandler(m), NEW r \in Roundname, casts'[r] > 0
  PROVE Timed(r)'
<1> DEFINE q == user[m.addr].round
           n == casts[q] + 1
           t == TimerMessages(members[q], n, q)
<1>0. casts \in [Roundname -> Nat] /\ response \in Seq(Response) /\ m.addr \in Addr
  BY Kinds DEF Types, TypeOK
<1>1. response = response \o <<>> /\ <<>> \in Seq(Response) /\ DOMAIN <<>> = {}
  BY <1>0, EmptySeq, ConcatEmptySeq, LenProperties
<1>2. \A i \in DOMAIN request :
        request[i].type = "ROUNDTIMEOUT" /\ request[i].data = r =>
          \E j \in DOMAIN request' : request'[j].type = "ROUNDTIMEOUT" /\ request'[j].data = r
  BY HandledTimeouts
<1>3. armed' = armed
  BY DEF Handle, svars
<1>4. casts[r] > 0 => Timed(r)
  BY DEF CastsAreTimed, Timed
<1>5. CASE user[m.addr] = None \/ user[m.addr].stat # "ROUND"
  <2>1. casts' = casts /\ response' = response
    BY <1>5 DEF castHandler, gvars
  <2> QED
    BY <1>1, <1>2, <1>3, <1>4, <2>1, OthersAreTold
<1>6. CASE ~(user[m.addr] = None \/ user[m.addr].stat # "ROUND")
  <2>1. q \in Roundname
    BY <1>0, <1>6 DEF Types, TypeOK, StatOK, User
  <2>2. /\ response' = response \o t
        /\ casts' = [casts EXCEPT ![q] = IF Judged(members[q], n) THEN 0 ELSE n]
    BY <1>6 DEF castHandler
  <2>3. t \in Seq(Response) /\ \A i \in DOMAIN t : t[i].round = q
    BY <2>1, TimerMessagesType
  <2>4. CASE r # q
    <3>1. casts[r] > 0
      BY <1>0, <2>1, <2>2, <2>4
    <3> QED
      BY <1>2, <1>3, <1>4, <2>2, <2>3, <2>4, <3>1, OthersAreTold
  <2>5. CASE r = q
    <3>1. casts'[q] = IF Judged(members[q], n) THEN 0 ELSE n
      BY <1>0, <2>1, <2>2
    <3>2. ~Judged(members[q], n)
      BY <2>5, <3>1
    <3>3. Verdict(members[q], n, q) = <<>>
      BY <3>2 DEF Verdict
    <3>4. CASE n = 1
      <4> DEFINE e == Timer("START", q)
      <4>1. e \in Response
        BY <2>1 DEF Timer, Response
      <4>2. t = <<e>> \o <<>>
        BY <3>3, <3>4 DEF TimerMessages
      <4> HIDE DEF e, t
      <4>3. <<e>> \in Seq(Response) /\ Len(<<e>>) = 1 /\ <<e>>[1] = e
        BY <4>1
      <4>4. t = <<e>>
        BY <4>2, <4>3, ConcatEmptySeq
      <4>5. /\ DOMAIN response' = 1..(Len(response) + 1) /\ Len(response) \in Nat
            /\ response'[Len(response) + 1] = e
        BY <1>0, <2>2, <4>3, <4>4, ConcatProperties, LenProperties
      <4>6. Starting(r)'
        BY <2>5, <4>5 DEF Starting, e
      <4> QED
        BY <4>6 DEF Timed
    <3>5. CASE n # 1
      <4>1. casts[r] > 0
        BY <1>0, <2>1, <2>5, <3>5
      <4>2. t = <<>> \o <<>>
        BY <3>3, <3>5 DEF TimerMessages
      <4>3. t = <<>>
        BY <1>1, <4>2, ConcatEmptySeq
      <4> QED
        BY <1>1, <1>2, <1>3, <1>4, <2>2, <4>1, <4>3, OthersAreTold
    <3> QED
      BY <3>4, <3>5
  <2> QED
    BY <2>4, <2>5
<1> QED
  BY <1>5, <1>6

LEMMA TimedHandle ==
  ASSUME Types, CastsAreTimed, Handle
  PROVE CastsAreTimed'
<1> SUFFICES ASSUME NEW r \in Roundname, casts'[r] > 0
             PROVE Timed(r)'
  BY DEF CastsAreTimed, Timed
<1> DEFINE m == Head(request)
<1>1. request \in Seq(Request) /\ request # <<>> /\ response \in Seq(Response)
  BY DEF Types, TypeOK, Handle, msgDispatch
<1>2. m \in Request
  BY <1>1, HeadTailProperties
<1>3. response = response \o <<>> /\ <<>> \in Seq(Response) /\ DOMAIN <<>> = {}
  BY <1>1, EmptySeq, ConcatEmptySeq, LenProperties
<1>4. armed' = armed
  BY DEF Handle, svars
<1>5. casts \in [Roundname -> Nat] /\ casts[r] > 0 => Timed(r)
  BY DEF Types, TypeOK, CastsAreTimed, Timed
<1> HIDE DEF m
\* Whatever leaves the casts of r in place only speaks of other rounds.
<1>6. ASSUME casts[r] > 0, ~(m.type = "ROUNDTIMEOUT" /\ m.data = r),
             NEW t \in Seq(Response), response' = response \o t,
             \A i \in DOMAIN t : t[i].round # r
      PROVE Timed(r)'
  BY <1>4, <1>5, <1>6, HandledTimeouts, OthersAreTold DEF m, Types, TypeOK
<1>7. ASSUME UNCHANGED <<casts, response>>, ~(m.type = "ROUNDTIMEOUT" /\ m.data = r)
      PROVE Timed(r)'
  BY <1>3, <1>6, <1>7
<1>8. ASSUME m.type \in {"LOGOUT", "SHUTDOWN", "QUITROUND"}, user[m.addr] # None, quitRound(m.addr)
      PROVE Timed(r)'
  <2>1. m.addr \in Addr /\ user[m.addr] \in User
    BY <1>2, <1>8, Kinds DEF Types, TypeOK
  <2> QED
    BY <1>6, <1>8, <2>1, QuitMessages
<1>9. CASE m.type = "LOGIN" /\ loginHandler(m)
  BY <1>7, <1>9 DEF loginHandler
<1>10. CASE m.type = "LOGOUT" /\ logoutHandler(m)
  BY <1>7, <1>8, <1>10 DEF logoutHandler, gvars
<1>11. CASE m.type = "OPENROUND" /\ openRoundHandler(m)
  BY <1>7, <1>11 DEF openRoundHandler, Enter, gvars
<1>12. CASE m.type = "JOINROUND" /\ joinRoundHandler(m)
  BY <1>7, <1>12 DEF joinRoundHandler, Enter, gvars
<1>13. CASE m.type = "QUITROUND" /\ quitRoundHandler(m)
  BY <1>7, <1>8, <1>13 DEF quitRoundHandler, gvars
<1>14. CASE m.type = "CAST" /\ castHandler(m)
  BY <1>2, <1>14, CastIsTimed DEF m
<1>15. CASE m.type = "SHUTDOWN" /\ shutdownHandler(m)
  BY <1>7, <1>8, <1>15 DEF shutdownHandler, gvars
<1>16. CASE m.type = "ROUNDTIMEOUT" /\ roundtimeoutHandler(m)
  <2>1. casts' = [casts EXCEPT ![m.data] = 0] /\ response' = response
    BY <1>16 DEF roundtimeoutHandler
  <2>2. m.data # r /\ casts[r] > 0
    BY <2>1 DEF Types, TypeOK
  <2> QED
    BY <1>3, <1>6, <2>1, <2>2
<1> QED
  BY <1>9, <1>10, <1>11, <1>12, <1>13, <1>14, <1>15, <1>16 DEF Handle, msgDispatch, m

\* The server process appends to the requests, and handles a message about a timer.
LEMMA TimedServer ==
  ASSUME Types, CastsAreTimed, Next, ~Handle
  PROVE CastsAreTimed'
<1>1. request \in Seq(Request) /\ response \in Seq(Response)
  BY DEF Types, TypeOK
<1>2. ASSUME NEW e \in Request, request' = Append(request, e), UNCHANGED <<casts, response, armed>>
      PROVE CastsAreTimed'
  <2>1. \A i \in DOMAIN request : i \in DOMAIN request' /\ request'[i] = request[i]
    BY <1>1, <1>2, AppendLeaves
  <2> QED
    BY <1>2, <2>1 DEF CastsAreTimed, Starting, Running
<1>3. ASSUME UNCHANGED <<casts, request, response, armed>>
      PROVE CastsAreTimed'
  BY <1>3 DEF CastsAreTimed, Starting, Running
<1>4. ASSUME NEW a \in Addr, do_accecpt(a)
      PROVE CastsAreTimed'
  BY <1>3, <1>4 DEF do_accecpt, gvars
<1>5. ASSUME NEW a \in Addr, NEW cmd \in Commands, do_read(a, cmd)
      PROVE CastsAreTimed'
  BY <1>2, <1>5, CommandType DEF do_read, gvars, svars, Types
<1>6. ASSUME NEW a \in Addr, shutdownSession(a)
      PROVE CastsAreTimed'
  BY <1>2, <1>6, ShutdownType DEF shutdownSession, gvars, Types
<1>7. ASSUME NEW a \in Addr, StaleTimeout(a), ~shutdownSession(a)
      PROVE CastsAreTimed'
  BY <1>3, <1>7 DEF StaleTimeout, gvars
<1>8. CASE do_recvResp
  <2> SUFFICES ASSUME NEW r \in Roundname, casts[r] > 0
               PROVE Timed(r)'
    BY <1>8 DEF CastsAreTimed, Timed, do_recvResp, gvars
  <2> DEFINE h == Head(response)
  <2>1. /\ DOMAIN response = 1..Len(response) /\ Len(response) \in Nat \ {0}
        /\ h = response[1] /\ request' = request
    BY <1>1, <1>8, LenProperties, EmptySeq DEF do_recvResp
  <2>2. /\ DOMAIN response' = 1..(Len(response) - 1)
        /\ \A i \in 1..(Len(response) - 1) : response'[i] = response[i + 1]
    BY <1>1, <1>8, <2>1, HeadTailProperties, LenProperties DEF do_recvResp
  <2>3. /\ h.round # r => (r \in armed => r \in armed')
        /\ h = Timer("START", r) => r \in armed'
    BY <1>8 DEF do_recvResp, Timer
  <2> HIDE DEF h
  <2>4. CASE Starting(r)
    <3>1. PICK i \in DOMAIN response :
            /\ response[i] = Timer("START", r)
            /\ \A j \in DOMAIN response : j > i => response[j].round # r
      BY <2>4 DEF Starting
    <3>2. CASE i = 1
      <4>1. \A j \in DOMAIN response' : response'[j].round # r
        BY <2>1, <2>2, <3>1, <3>2
      <4> QED
        BY <2>1, <2>3, <3>1, <3>2, <4>1 DEF Running, Timed
    <3>3. CASE i # 1
      <4>1. i - 1 \in DOMAIN response' /\ response'[i - 1] = Timer("START", r)
        BY <2>1, <2>2, <3>1, <3>3
      <4>2. \A j \in DOMAIN response' : j > i - 1 => response'[j].round # r
        BY <2>1, <2>2, <3>1
      <4> QED
        BY <4>1, <4>2 DEF Starting, Timed
    <3> QED
      BY <3>2, <3>3
  <2>5. CASE Running(r)
    <3>1. \A i \in DOMAIN response : response[i].round # r
      BY <2>5 DEF Running
    <3>2. h.round # r
      BY <2>1, <3>1
    <3>3. \A j \in DOMAIN response' : response'[j].round # r
      BY <2>1, <2>2, <3>1
    <3> QED
      BY <2>1, <2>3, <2>5, <3>2, <3>3 DEF Running, Timed
  <2> QED
    BY <2>4, <2>5 DEF CastsAreTimed
<1>9. ASSUME NEW q \in Roundname, RoundTimeout(q)
      PROVE CastsAreTimed'
  <2> DEFINE e == [addr |-> None, client |-> None, type |-> "ROUNDTIMEOUT", data |-> q]
  <2>1. e \in Request /\ e.type = "ROUNDTIMEOUT" /\ e.data = q
    BY DEF Request
  <2>2. /\ request' = Append(request, e) /\ armed' = armed \ {q}
        /\ UNCHANGED <<casts, response>>
    BY <1>9 DEF RoundTimeout, gvars
  <2> HIDE DEF e
  <2>3. /\ \A i \in DOMAIN request : i \in DOMAIN request' /\ request'[i] = request[i]
        /\ Len(request) + 1 \in DOMAIN request' /\ request'[Len(request) + 1] = e
    BY <1>1, <2>1, <2>2, AppendLeaves
  <2> QED
    BY <2>1, <2>2, <2>3 DEF CastsAreTimed, Starting, Running
<1> QED
  BY <1>4, <1>5, <1>6, <1>7, <1>8, <1>9 DEF Next, Disconnect, SessionTimeout

LEMMA TimedInit == Init => CastsAreTimed
  BY DEF Init, GameInit, CastsAreTimed

LEMMA TimedStep == (Types /\ CastsAreTimed) /\ [Next]_vars => CastsAreTimed'
<1> SUFFICES ASSUME Types, CastsAreTimed, [Next]_vars PROVE CastsAreTimed'
  OBVIOUS
<1>1. CASE UNCHANGED vars
  BY <1>1 DEF vars, gvars, svars, CastsAreTimed, Starting, Running
<1> QED
  BY <1>1, TimedHandle, TimedServer

\* Wherever casts wait for others, the timer of the round is started, or is going
\* to be and is not stopped, or its timeout is on the way: a DISABLE of an earlier
\* game never stops the timer of a later one (Round.cpp, startRoundTimer() and
\* disableRoundTimer() of Server.cpp).
THEOREM TimersAreStarted == Spec => []CastsAreTimed
<1> QED
  BY TypesInit, TypesStep, TimedInit, TimedStep, PTL DEF Spec

-------------------------------------------------------------------------------
(***************************************************************************)
(* Rounds, users and names agree.  The handlers change the three together; *)
(* the server process changes none of them.                                *)
(***************************************************************************)

\* Logging out, quitting and shutting down: the user at a leaves its round.
LEMMA QuitExact ==
  ASSUME Types, RoundsAreExact, NEW a \in Addr, user[a] \in User, quitRound(a),
         NEW u \in User \cup {None}, u # None => u.round = None /\ u.stat # "ROUND",
         user' = [user EXCEPT ![a] = u]
  PROVE RoundsAreExact'
<1> DEFINE q == user[a].round
           M == members[q] \ {a}
<1>0. /\ user \in [Addr -> User \cup {None}] /\ members \in [Roundname -> SUBSET Addr]
      /\ casts \in [Roundname -> Nat] /\ q \in Roundname \cup {None} /\ None \notin Roundname
  BY DEF Types, TypeOK, User
<1>1. /\ user'[a] = u /\ \A b \in Addr : b # a => user'[b] = user[b]
  BY <1>0
<1>2. ASSUME NEW b \in Addr, NEW r \in Roundname
      PROVE b \in members[r] <=> user[b] # None /\ user[b].round = r
  BY DEF RoundsAreExact
<1>3. \A r \in Roundname : members'[r] = members[r] \ {a}
  <2>1. CASE q = None
    BY <1>0, <1>2, <2>1 DEF quitRound
  <2>2. CASE q # None
    <3>1. members' = [members EXCEPT ![q] = M]
      BY <2>2 DEF quitRound
    <3> QED
      BY <1>0, <1>2, <2>2, <3>1
  <2> QED
    BY <2>1, <2>2
<1>4. \A r \in Roundname : r \in pool' <=> members'[r] # {}
  <2>1. \A r \in Roundname : r \in pool <=> members[r] # {}
    BY DEF RoundsAreExact
  <2>2. ASSUME NEW r \in Roundname, r # q PROVE members'[r] = members[r]
    <3>1. a \notin members[r]
      BY <1>2, <2>2
    <3> QED
      BY <1>3, <3>1
  <2>3. CASE q = None
    BY <1>0, <2>1, <2>2, <2>3 DEF quitRound
  <2>4. CASE q # None
    <3>1. pool' = IF M = {} THEN pool \ {q} ELSE pool
      BY <2>4 DEF quitRound
    <3>2. q \in Roundname /\ user[a] # None
      BY <1>0, <2>4, NoUserAssumption
    <3>3. a \in members[q]
      BY <1>2, <3>2
    <3>4. members'[q] = M /\ q \in pool
      BY <1>3, <2>1, <3>2, <3>3
    <3> HIDE DEF M, q
    <3>5. ASSUME NEW r \in Roundname PROVE r \in pool' <=> members'[r] # {}
      <4>1. CASE r = q
        BY <3>1, <3>4, <4>1
      <4>2. CASE r # q
        BY <2>1, <2>2, <3>1, <4>2
      <4> QED
        BY <4>1, <4>2
    <3> QED
      BY <3>5
  <2> QED
    BY <2>3, <2>4
<1>5. \A r \in Roundname : casts'[r] > 0 => r \in pool'
  <2>1. \A r \in Roundname : casts[r] > 0 => r \in pool
    BY DEF RoundsAreExact
  <2>2. CASE q = None
    BY <2>1, <2>2 DEF quitRound
  <2>3. CASE q # None
    <3>1. /\ casts' = [casts EXCEPT ![q] = IF M = {} \/ Judged(M, casts[q]) THEN 0 ELSE casts[q]]
          /\ pool' = IF M = {} THEN pool \ {q} ELSE pool
      BY <1>0, <2>3 DEF quitRound
    <3> HIDE DEF M, q
    <3> QED
      BY <1>0, <2>1, <3>1
  <2> QED
    BY <2>2, <2>3
<1>6. \A b \in Addr, r \in Roundname :
        b \in members'[r] <=> user'[b] # None /\ user'[b].round = r
  BY <1>0, <1>1, <1>2, <1>3
<1>7. \A b \in Addr : user'[b] # None => (user'[b].stat = "ROUND" <=> user'[b].round # None)
  BY <1>1 DEF RoundsAreExact
<1> QED
  BY <1>4, <1>5, <1>6, <1>7 DEF RoundsAreExact

\* Opening and joining: a user who is in no round enters one.
LEMMA EnterExact ==
  ASSUME Types, RoundsAreExact, NEW m \in Request, m.type \in {"OPENROUND", "JOINROUND"},
         MayEnter(m), Enter(m), pool' = pool \cup {m.data}
  PROVE RoundsAreExact'
<1>1. /\ m.addr \in Addr /\ m.data \in Roundname /\ user[m.addr] \in User
      /\ user[m.addr].round = None /\ None \notin Roundname
      /\ user \in [Addr -> User \cup {None}] /\ members \in [Roundname -> SUBSET Addr]
  BY Kinds DEF MayEnter, Types, TypeOK, RoundsAreExact
<1> DEFINE u == [user[m.addr] EXCEPT !.stat = "ROUND", !.round = m.data]
<1>2. u \in User /\ u.round = m.data /\ u.stat = "ROUND" /\ u # None
  BY <1>1, NoUserAssumption DEF User, UserStat
<1>3. user' = [user EXCEPT ![m.addr] = u] /\ members' = [members EXCEPT ![m.data] = @ \cup {m.addr}]
  BY <1>1 DEF Enter, User
<1> HIDE DEF u
<1>4. /\ user'[m.addr] = u /\ \A b \in Addr : b # m.addr => user'[b] = user[b]
      /\ members'[m.data] = members[m.data] \cup {m.addr}
      /\ \A r \in Roundname : r # m.data => members'[r] = members[r]
  BY <1>1, <1>3
<1>5. ASSUME NEW b \in Addr, NEW r \in Roundname
      PROVE b \in members[r] <=> user[b] # None /\ user[b].round = r
  BY DEF RoundsAreExact
<1>6. \A b \in Addr, r \in Roundname :
        b \in members'[r] <=> user'[b] # None /\ user'[b].round = r
  <2> SUFFICES ASSUME NEW b \in Addr, NEW r \in Roundname
               PROVE b \in members'[r] <=> user'[b] # None /\ user'[b].round = r
    OBVIOUS
  <2>1. CASE b = m.addr
    <3>1. b \notin members[r]
      BY <1>1, <1>5, <2>1
    <3>2. b \in members'[r] <=> r = m.data
      BY <1>4, <2>1, <3>1
    <3> QED
      BY <1>2, <1>4, <2>1, <3>2
  <2>2. CASE b # m.addr
    <3>1. user'[b] = user[b]
      BY <1>4, <2>2
    <3>2. b \in members'[r] <=> b \in members[r]
      BY <1>4, <2>2
    <3>3. b \in members[r] <=> user[b] # None /\ user[b].round = r
      BY <1>5
    <3> QED
      BY <3>1, <3>2, <3>3
  <2> QED
    BY <2>1, <2>2
<1>7. \A b \in Addr : user'[b] # None => (user'[b].stat = "ROUND" <=> user'[b].round # None)
  BY <1>1, <1>2, <1>4 DEF RoundsAreExact
<1>8. \A r \in Roundname : /\ r \in pool' <=> members'[r] # {}
                           /\ casts'[r] > 0 => r \in pool'
  <2> SUFFICES ASSUME NEW r \in Roundname
               PROVE /\ r \in pool' <=> members'[r] # {}
                     /\ casts'[r] > 0 => r \in pool'
    OBVIOUS
  <2>1. (r \in pool <=> members[r] # {}) /\ (casts[r] > 0 => r \in pool) /\ casts' = casts
    BY DEF RoundsAreExact, Enter
  <2>2. CASE r = m.data
    BY <1>4, <2>1, <2>2
  <2>3. CASE r # m.data
    BY <1>4, <2>1, <2>3
  <2> QED
    BY <2>2, <2>3
<1> QED
  BY <1>6, <1>7, <1>8 DEF RoundsAreExact

LEMMA ExactHandle ==
  ASSUME Types, RoundsAreExact, Handle
  PROVE RoundsAreExact'
<1> DEFINE m == Head(request)
<1>1. request \in Seq(Request) /\ request # <<>>
  BY DEF Types, TypeOK, Handle, msgDispatch
<1>2. m \in Request
  BY <1>1, HeadTailProperties
<1> HIDE DEF m
<1>3. user \in [Addr -> User \cup {None}] /\ casts \in [Roundname -> Nat]
  BY DEF Types, TypeOK
<1>4. ASSUME UNCHANGED gvars PROVE RoundsAreExact'
  BY <1>4 DEF RoundsAreExact, gvars
<1>5. CASE m.type = "LOGIN" /\ loginHandler(m)
  <2>1. CASE LogsIn(m)
    <3>1. m.addr \in Addr /\ m.client \in Client /\ m.data \in Username
      BY <1>2, <1>5, Kinds
    <3> DEFINE u == [owner |-> IF user[m.addr] = None THEN m.client ELSE user[m.addr].owner,
                     name |-> m.data, stat |-> "LOGIN", round |-> None]
    <3>2. user' = [user EXCEPT ![m.addr] = u] /\ UNCHANGED <<pool, members, casts>>
      BY <1>5, <2>1 DEF loginHandler
    <3>3. u.round = None /\ u.stat = "LOGIN" /\ None \notin Roundname
      OBVIOUS
    <3>4. user[m.addr] = None \/ user[m.addr].round = None
      BY <2>1, <3>1 DEF LogsIn, RoundsAreExact
    <3> HIDE DEF u
    <3>5. user'[m.addr] = u /\ \A b \in Addr : b # m.addr => user'[b] = user[b]
      BY <1>3, <3>1, <3>2
    <3>6. ASSUME NEW b \in Addr, NEW r \in Roundname
          PROVE b \in members'[r] <=> user'[b] # None /\ user'[b].round = r
      <4>1. b \in members[r] <=> user[b] # None /\ user[b].round = r
        BY DEF RoundsAreExact
      <4> QED
        BY <3>2, <3>3, <3>4, <3>5, <4>1
    <3>7. \A b \in Addr : user'[b] # None => (user'[b].stat = "ROUND" <=> user'[b].round # None)
      BY <3>3, <3>5 DEF RoundsAreExact
    <3> QED
      BY <3>2, <3>6, <3>7 DEF RoundsAreExact
  <2>2. CASE ~LogsIn(m)
    BY <1>4, <1>5, <2>2 DEF loginHandler, gvars
  <2> QED
    BY <2>1, <2>2
<1>6. ASSUME m.type \in {"LOGOUT", "QUITROUND", "SHUTDOWN"}, user[m.addr] # None,
             quitRound(m.addr), NEW u, u = None \/ u \in User,
             u # None => u.round = None /\ u.stat # "ROUND",
             user' = [user EXCEPT ![m.addr] = u]
      PROVE RoundsAreExact'
  <2>1. m.addr \in Addr
    BY <1>2, <1>6, Kinds
  <2> QED
    BY <1>3, <1>6, <2>1, QuitExact
<1>7. CASE m.type = "LOGOUT" /\ logoutHandler(m)
  <2>1. CASE user[m.addr] = None \/ user[m.addr].stat = "LOGOUT"
    BY <1>4, <1>7, <2>1 DEF logoutHandler
  <2>2. CASE ~(user[m.addr] = None \/ user[m.addr].stat = "LOGOUT")
    <3> DEFINE u == [user[m.addr] EXCEPT !.stat = "LOGOUT", !.round = None]
    <3>1. m.addr \in Addr /\ user[m.addr] \in User
      BY <1>2, <1>3, <1>7, <2>2, Kinds
    <3>2. u \in User /\ u.round = None /\ u.stat = "LOGOUT"
      BY <3>1 DEF User, UserStat
    <3>3. user' = [user EXCEPT ![m.addr] = u] /\ quitRound(m.addr)
      BY <1>3, <1>7, <2>2, <3>1 DEF logoutHandler, User
    <3> HIDE DEF u
    <3> QED
      BY <1>6, <1>7, <2>2, <3>2, <3>3
  <2> QED
    BY <2>1, <2>2
<1>8. CASE m.type = "QUITROUND" /\ quitRoundHandler(m)
  <2>1. CASE user[m.addr] = None \/ user[m.addr].round = None
    BY <1>4, <1>8, <2>1 DEF quitRoundHandler
  <2>2. CASE ~(user[m.addr] = None \/ user[m.addr].round = None)
    <3> DEFINE u == [user[m.addr] EXCEPT !.stat = "LOGIN", !.round = None]
    <3>1. m.addr \in Addr /\ user[m.addr] \in User
      BY <1>2, <1>3, <1>8, <2>2, Kinds
    <3>2. u \in User /\ u.round = None /\ u.stat = "LOGIN"
      BY <3>1 DEF User, UserStat
    <3>3. user' = [user EXCEPT ![m.addr] = u] /\ quitRound(m.addr)
      BY <1>3, <1>8, <2>2, <3>1 DEF quitRoundHandler, User
    <3> HIDE DEF u
    <3> QED
      BY <1>6, <1>8, <2>2, <3>2, <3>3
  <2> QED
    BY <2>1, <2>2
<1>9. CASE m.type = "SHUTDOWN" /\ shutdownHandler(m)
  BY <1>4, <1>6, <1>9 DEF shutdownHandler
<1>10. CASE m.type = "OPENROUND" /\ openRoundHandler(m)
  BY <1>2, <1>4, <1>10, EnterExact DEF openRoundHandler
<1>11. CASE m.type = "JOINROUND" /\ joinRoundHandler(m)
  <2>1. CASE MayEnter(m) /\ m.data \in pool
    <3>1. Enter(m) /\ pool' = pool \cup {m.data}
      BY <1>11, <2>1 DEF joinRoundHandler
    <3> QED
      BY <1>2, <1>11, <2>1, <3>1, EnterExact
  <2>2. CASE ~(MayEnter(m) /\ m.data \in pool)
    BY <1>4, <1>11, <2>2 DEF joinRoundHandler
  <2> QED
    BY <2>1, <2>2
<1>12. CASE m.type = "CAST" /\ castHandler(m)
  <2>1. CASE user[m.addr] = None \/ user[m.addr].stat # "ROUND"
    BY <1>4, <1>12, <2>1 DEF castHandler
  <2>2. CASE ~(user[m.addr] = None \/ user[m.addr].stat # "ROUND")
    <3> DEFINE q == user[m.addr].round
               n == casts[q] + 1
    <3>1. m.addr \in Addr
      BY <1>2, <1>12, Kinds
    <3>2. user[m.addr] \in User /\ q # None
      BY <1>3, <2>2, <3>1 DEF RoundsAreExact
    <3>3. q \in Roundname /\ m.addr \in members[q]
      BY <2>2, <3>1, <3>2 DEF RoundsAreExact, User
    <3>4. q \in pool
      BY <3>3 DEF RoundsAreExact
    <3>5. /\ casts' = [casts EXCEPT ![q] = IF Judged(members[q], n) THEN 0 ELSE n]
          /\ UNCHANGED <<user, pool, members>>
      BY <1>12, <2>2 DEF castHandler
    <3> HIDE DEF q, n
    <3>6. \A r \in Roundname : casts'[r] > 0 => r \in pool'
      BY <1>3, <3>3, <3>4, <3>5 DEF RoundsAreExact
    <3> QED
      BY <3>5, <3>6 DEF RoundsAreExact
  <2> QED
    BY <2>1, <2>2
<1>13. CASE m.type = "ROUNDTIMEOUT" /\ roundtimeoutHandler(m)
  BY <1>3, <1>13 DEF roundtimeoutHandler, RoundsAreExact
<1> QED
  BY <1>5, <1>7, <1>8, <1>9, <1>10, <1>11, <1>12, <1>13 DEF Handle, msgDispatch, m

LEMMA ServerLeavesGame == Next /\ ~Handle => UNCHANGED gvars
BY DEF Next, do_accecpt, do_read, Disconnect, SessionTimeout, StaleTimeout, shutdownSession,
       do_recvResp, RoundTimeout

LEMMA ExactStep == (Types /\ RoundsAreExact) /\ [Next]_vars => RoundsAreExact'
<1> SUFFICES ASSUME Types, RoundsAreExact, [Next]_vars PROVE RoundsAreExact'
  OBVIOUS
<1>1. CASE UNCHANGED gvars
  BY <1>1 DEF RoundsAreExact, gvars
<1> QED
  BY <1>1, ExactHandle, ServerLeavesGame DEF vars

\* A round has exactly the users who believe to be in it, exists as long as it
\* has one, and has casts only while it exists: whatever users log out, quit,
\* lose their connection or are timed out, in any order (User.cpp, Round.cpp).
THEOREM RoundsStayExact == Spec => []RoundsAreExact
<1>1. Init => RoundsAreExact
  BY DEF Init, GameInit, RoundsAreExact
<1> QED
  BY <1>1, TypesInit, TypesStep, ExactStep, PTL DEF Spec

-------------------------------------------------------------------------------
(* Names. *)

\* A user whose name is given back, or who had given it back, may change.
LEMMA NamesMove ==
  ASSUME Types, NamesAreUsed, NEW a \in Addr, NEW u, user' = [user EXCEPT ![a] = u],
         \A n \in names' : n \notin names \/ (user[a] # None /\ user[a].name = n /\ user[a].stat # "LOGOUT")
                            => u # None /\ u.name = n /\ u.stat # "LOGOUT"
  PROVE NamesAreUsed'
<1>1. user'[a] = u /\ \A b \in Addr : b # a => user'[b] = user[b]
  BY DEF Types, TypeOK
<1> SUFFICES ASSUME NEW n \in names'
             PROVE \E b \in Addr : user'[b] # None /\ user'[b].name = n /\ user'[b].stat # "LOGOUT"
  BY DEF NamesAreUsed
<1>2. CASE n \notin names
  <2>1. u # None /\ u.name = n /\ u.stat # "LOGOUT"
    BY <1>2
  <2> QED
    BY <1>1, <2>1
<1>3. CASE n \in names
  <2>1. PICK b \in Addr : user[b] # None /\ user[b].name = n /\ user[b].stat # "LOGOUT"
    BY <1>3 DEF NamesAreUsed
  <2>2. CASE b = a
    <3>1. u # None /\ u.name = n /\ u.stat # "LOGOUT"
      BY <2>1, <2>2
    <3> QED
      BY <1>1, <3>1
  <2>3. CASE b # a
    <3>1. user'[b] = user[b]
      BY <1>1, <2>3
    <3> QED
      BY <2>1, <3>1
  <2> QED
    BY <2>2, <2>3
<1> QED
  BY <1>2, <1>3

LEMMA NamesHandle ==
  ASSUME Types, NamesAreUsed, Handle
  PROVE NamesAreUsed'
<1> DEFINE m == Head(request)
<1>1. request \in Seq(Request) /\ request # <<>>
  BY DEF Types, TypeOK, Handle, msgDispatch
<1>2. m \in Request
  BY <1>1, HeadTailProperties
<1> HIDE DEF m
<1>3. user \in [Addr -> User \cup {None}] /\ None \notin User
  BY NoUserAssumption DEF Types, TypeOK
<1>4. ASSUME UNCHANGED <<user, names>> PROVE NamesAreUsed'
  BY <1>4 DEF NamesAreUsed
<1>5. CASE m.type = "LOGIN" /\ loginHandler(m)
  <2>1. CASE LogsIn(m)
    <3>1. m.addr \in Addr /\ m.client \in Client /\ m.data \in Username
      BY <1>2, <1>5, Kinds
    <3> DEFINE u == [owner |-> IF user[m.addr] = None THEN m.client ELSE user[m.addr].owner,
                     name |-> m.data, stat |-> "LOGIN", round |-> None]
    <3>2. user' = [user EXCEPT ![m.addr] = u] /\ names' = names \cup {m.data}
      BY <1>5, <2>1 DEF loginHandler
    <3>3. u \in User /\ u.name = m.data /\ u.stat = "LOGIN"
      BY <1>3, <3>1 DEF User, UserStat
    <3> HIDE DEF u
    <3>4. user[m.addr] # None => user[m.addr].stat = "LOGOUT"
      BY <2>1 DEF LogsIn
    <3> QED
      BY <1>3, <3>1, <3>2, <3>3, <3>4, NamesMove
  <2>2. CASE ~LogsIn(m)
    BY <1>4, <1>5, <2>2 DEF loginHandler
  <2> QED
    BY <2>1, <2>2
<1>6. CASE m.type = "LOGOUT" /\ logoutHandler(m)
  <2>1. CASE user[m.addr] = None \/ user[m.addr].stat = "LOGOUT"
    BY <1>4, <1>6, <2>1 DEF logoutHandler, gvars
  <2>2. CASE ~(user[m.addr] = None \/ user[m.addr].stat = "LOGOUT")
    <3> DEFINE u == [user[m.addr] EXCEPT !.stat = "LOGOUT", !.round = None]
    <3>1. m.addr \in Addr /\ user[m.addr] \in User
      BY <1>2, <1>3, <1>6, <2>2, Kinds
    <3>2. user' = [user EXCEPT ![m.addr] = u] /\ names' = names \ {user[m.addr].name}
      BY <1>3, <1>6, <2>2, <3>1 DEF logoutHandler, User
    <3> HIDE DEF u
    <3> QED
      BY <3>1, <3>2, NamesMove
  <2> QED
    BY <2>1, <2>2
<1>7. CASE m.type = "SHUTDOWN" /\ shutdownHandler(m)
  <2>1. m.addr \in Addr
    BY <1>2, <1>7, Kinds
  <2> QED
    BY <1>4, <1>7, <2>1, NamesMove DEF shutdownHandler, gvars
\* Who enters or leaves a round keeps its name.
<1>8. ASSUME m.addr \in Addr, user[m.addr] \in User, user[m.addr].stat # "LOGOUT", names' = names,
             NEW u, user' = [user EXCEPT ![m.addr] = u],
             u \in User /\ u.name = user[m.addr].name /\ u.stat # "LOGOUT"
      PROVE NamesAreUsed'
  <2>1. \A n \in names' : n \in names /\ u # None /\ (user[m.addr].name = n => u.name = n)
    BY <1>3, <1>8, NoUserAssumption
  <2> QED
    BY <1>8, <2>1, NamesMove
<1>9. ASSUME m.type \in {"OPENROUND", "JOINROUND"}, MayEnter(m), Enter(m)
      PROVE NamesAreUsed'
  <2> DEFINE u == [user[m.addr] EXCEPT !.stat = "ROUND", !.round = m.data]
  <2>1. m.addr \in Addr /\ m.data \in Roundname /\ user[m.addr] \in User /\ user[m.addr].stat = "LOGIN"
    BY <1>2, <1>3, <1>9, Kinds DEF MayEnter
  <2>2. u \in User /\ u.name = user[m.addr].name /\ u.stat = "ROUND"
    BY <2>1 DEF User, UserStat
  <2>3. user' = [user EXCEPT ![m.addr] = u] /\ names' = names
    BY <1>3, <1>9, <2>1 DEF Enter, User
  <2> HIDE DEF u
  <2> QED
    BY <1>8, <2>1, <2>2, <2>3
<1>10. CASE m.type = "QUITROUND" /\ quitRoundHandler(m)
  <2>1. CASE user[m.addr] = None \/ user[m.addr].round = None
    BY <1>4, <1>10, <2>1 DEF quitRoundHandler, gvars
  <2>2. CASE ~(user[m.addr] = None \/ user[m.addr].round = None)
    <3> DEFINE u == [user[m.addr] EXCEPT !.stat = "LOGIN", !.round = None]
    <3>1. m.addr \in Addr /\ user[m.addr] \in User
      BY <1>2, <1>3, <1>10, <2>2, Kinds
    <3>2. u \in User /\ u.name = user[m.addr].name /\ u.stat = "LOGIN"
      BY <3>1 DEF User, UserStat
    <3>3. user' = [user EXCEPT ![m.addr] = u] /\ names' = names
      BY <1>3, <1>10, <2>2, <3>1 DEF quitRoundHandler, User
    <3> HIDE DEF u
    <3> QED
      BY <1>3, <3>1, <3>2, <3>3, NamesMove
  <2> QED
    BY <2>1, <2>2
<1>11. CASE m.type = "OPENROUND" /\ openRoundHandler(m)
  BY <1>4, <1>9, <1>11 DEF openRoundHandler, gvars
<1>12. CASE m.type = "JOINROUND" /\ joinRoundHandler(m)
  BY <1>4, <1>9, <1>12 DEF joinRoundHandler, gvars
<1>13. CASE m.type = "CAST" /\ castHandler(m)
  BY <1>4, <1>13 DEF castHandler, gvars
<1>14. CASE m.type = "ROUNDTIMEOUT" /\ roundtimeoutHandler(m)
  BY <1>4, <1>14 DEF roundtimeoutHandler
<1> QED
  BY <1>5, <1>6, <1>7, <1>10, <1>11, <1>12, <1>13, <1>14 DEF Handle, msgDispatch, m

LEMMA NamesStep == (Types /\ NamesAreUsed) /\ [Next]_vars => NamesAreUsed'
<1> SUFFICES ASSUME Types, NamesAreUsed, [Next]_vars PROVE NamesAreUsed'
  OBVIOUS
<1>1. CASE UNCHANGED gvars
  BY <1>1 DEF NamesAreUsed, gvars
<1> QED
  BY <1>1, NamesHandle, ServerLeavesGame DEF vars

\* A name is refused only while a user who is logged in has it: none is lost by a
\* logout, a shutdown or a second login on a session (User.cpp, usernameSet).
THEOREM NamesStayUsed == Spec => []NamesAreUsed
<1>1. Init => NamesAreUsed
  BY DEF Init, GameInit, NamesAreUsed
<1> QED
  BY <1>1, TypesInit, TypesStep, NamesStep, PTL DEF Spec
=============================================================================
