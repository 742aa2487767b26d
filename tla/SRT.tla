--------------------------------- MODULE SRT ----------------------------------
(***************************************************************************)
(* The Simple Reliable Transport of Networks/DartNet/SRT: a client and a   *)
(* server that set up and tear down connections between ports over one     *)
(* overlay TCP connection.                                                 *)
(*                                                                         *)
(* Each side is one application thread, which calls the socket functions   *)
(* one after the other, and the seghandler thread.  They share the TCBs    *)
(* without a lock, so a step is what a thread does between two accesses to *)
(* what the other one writes.  The overlay keeps segments in order, and    *)
(* recvseg() discards any of them (LOSS_RATE).  Timeouts come at any time. *)
(* The transfer of data is a stub in the code.                             *)
(***************************************************************************)
EXTENDS Integers, Sequences

CONSTANTS CliPort, SrvPort,  \* ports of the sockets of the two sides
          NoPort,            \* a port that no socket uses
          Fresh,             \* what malloc() may leave in client_portNum
          NTcb,              \* how many TCBs allocTCB() makes (10)
          NServe,            \* bound: how many of its TCBs the server uses
          MAX_RETRY,         \* SYN_MAX_RETRY and FIN_MAX_RETRY (5)
          Reopen,            \* whether applications use a closed TCB, or a
                             \* socket that they have accepted on, again, or
                             \* dial another port with the same socket
          Window             \* bound: segments the overlay holds each way

ASSUME PortAssumption == NoPort \notin CliPort \cup SrvPort
ASSUME FreshAssumption == Fresh \subseteq CliPort \cup {NoPort}
ASSUME RetryAssumption == MAX_RETRY \in Nat \ {0}
ASSUME NTcbAssumption == NTcb \in Nat \ {0} /\ NServe \in 1..NTcb

VARIABLES cli,      \* the client's TCBs, and what its calls have told the
                    \* application of each
          srv,      \* the server's
          csock,    \* port2sock of the client
          ssock,    \* and of the server
          cfree,    \* tcbFreeList of the client
          sfree,    \* and of the server
          ccall,    \* where the client's application is, and in which call
          scall,    \* where the server's application is
          chand,    \* what the client's seghandler is doing
          shand,    \* what the server's seghandler is doing
          toSrv,    \* segments on their way to the server
          toCli     \* and to the client

cvars == <<cli, csock, cfree, ccall>>
svars == <<srv, ssock, sfree, scall>>
vars == <<cvars, svars, chand, shand, toSrv, toCli>>

Tcb == 1..NTcb
None == 0
CliState == {"CLOSED", "SYNSENT", "CONNECTED", "FINWAIT"}
SrvState == {"CLOSED", "LISTENING", "CONNECTED", "CLOSEWAIT"}
Segment == [type : {"SYN", "SYNACK", "FIN", "FINACK"},
            src : CliPort \cup SrvPort,
            dst : CliPort \cup SrvPort \cup {NoPort}]

Idle == [at |-> "idle"]

\* The state after both srt_*_init() and the first allocTCB().
Init ==
  /\ cli = [t \in Tcb |-> [used |-> FALSE, state |-> "CLOSED", port |-> NoPort,
                           peer |-> NoPort, told |-> "nothing"]]
  /\ srv \in [Tcb -> [used : {FALSE}, state : {"CLOSED"}, port : {NoPort},
                      peer : Fresh, told : {"nothing"}]]
  /\ csock = [p \in CliPort |-> None] /\ ssock = [p \in SrvPort |-> None]
  /\ cfree = [i \in Tcb |-> i] /\ sfree = [i \in 1..NServe |-> i]
  /\ ccall = Idle /\ scall = Idle /\ chand = Idle /\ shand = Idle
  /\ toSrv = <<>> /\ toCli = <<>>

\* An application has one socket for a port at a time.
MayOpen(tcb, free, p) ==
  /\ free # <<>>
  /\ \A t \in Tcb : tcb[t].used => tcb[t].port # p
  /\ Reopen \/ \A t \in Tcb : tcb[t].port # NoPort => tcb[t].used

\* takeFromListHead(): the TCB that was freed last.
Opened(tcb, free, p) ==
  [tcb EXCEPT ![Head(free)] =
     [@ EXCEPT !.used = TRUE, !.state = "CLOSED", !.port = p, !.told = "nothing"]]

-------------------------------------------------------------------------------
(***************************************************************************)
(* The client's application.  connect() and disconnect() differ in the     *)
(* segment they send, and in the state they wait in and wait for.          *)
(***************************************************************************)

CliSock(p) ==
  /\ ccall = Idle /\ MayOpen(cli, cfree, p)
  /\ cli' = Opened(cli, cfree, p)
  /\ csock' = [csock EXCEPT ![p] = Head(cfree)]
  /\ cfree' = Tail(cfree)
  /\ UNCHANGED <<ccall, svars, chand, shand, toSrv, toCli>>

Try(t, type, mid, dest) ==
  [at |-> "try", t |-> t, type |-> type, mid |-> mid, dest |-> dest,
   tries |-> MAX_RETRY]

Connect(t, p) ==
  /\ ccall = Idle /\ cli[t].used /\ cli[t].state = "CLOSED"
  /\ Reopen \/ cli[t].peer \in {NoPort, p}
  /\ cli' = [cli EXCEPT ![t].peer = p]
  /\ ccall' = Try(t, "SYN", "SYNSENT", "CONNECTED")
  /\ UNCHANGED <<csock, cfree, svars, chand, shand, toSrv, toCli>>

Disconnect(t) ==
  /\ ccall = Idle /\ cli[t].used /\ cli[t].state = "CONNECTED"
  /\ ccall' = Try(t, "FIN", "FINWAIT", "CLOSED")
  /\ UNCHANGED <<cli, csock, cfree, svars, chand, shand, toSrv, toCli>>

\* Mutant: nothing counts the tries.
SendTryForever ==
  /\ ccall.at = "try" /\ ccall.tries > 1 /\ Len(toSrv) < Window
  /\ toSrv' = Append(toSrv, [type |-> ccall.type, src |-> cli[ccall.t].port,
                             dst |-> cli[ccall.t].peer])
  /\ ccall' = [ccall EXCEPT !.at = "sent"]
  /\ UNCHANGED <<cli, csock, cfree, svars, chand, shand, toCli>>

\* while(--tryNum) sendseg(): send() blocks while the overlay is full.
SendTry ==
  /\ ccall.at = "try" /\ ccall.tries > 1 /\ Len(toSrv) < Window
  /\ toSrv' = Append(toSrv, [type |-> ccall.type, src |-> cli[ccall.t].port,
                             dst |-> cli[ccall.t].peer])
  /\ ccall' = [ccall EXCEPT !.at = "sent", !.tries = @ - 1]
  /\ UNCHANGED <<cli, csock, cfree, svars, chand, shand, toCli>>

\* tcb->state = midState, whatever the state has become.
EnterMid ==
  /\ ccall.at = "sent"
  /\ cli' = [cli EXCEPT ![ccall.t].state = ccall.mid]
  /\ ccall' = [ccall EXCEPT !.at = "sleep"]
  /\ UNCHANGED <<csock, cfree, svars, chand, shand, toSrv, toCli>>

Return(t, what) ==
  /\ cli' = [cli EXCEPT ![t].told = what]
  /\ ccall' = Idle

\* usleep() is over.
Wake ==
  /\ ccall.at = "sleep"
  /\ IF cli[ccall.t].state = ccall.dest
       THEN Return(ccall.t, ccall.dest)
       ELSE ccall' = [ccall EXCEPT !.at = "try"] /\ UNCHANGED cli
  /\ UNCHANGED <<csock, cfree, svars, chand, shand, toSrv, toCli>>

GiveUp ==
  /\ ccall.at = "try" /\ ccall.tries = 1
  /\ cli' = [cli EXCEPT ![ccall.t].state = "CLOSED", ![ccall.t].told = "failed"]
  /\ ccall' = Idle
  /\ UNCHANGED <<csock, cfree, svars, chand, shand, toSrv, toCli>>

\* The TCB is freed in any state, and then the state is looked at.
CliClose(t) ==
  /\ ccall = Idle /\ cli[t].used
  /\ cli' = [cli EXCEPT ![t].used = FALSE]
  /\ cfree' = <<t>> \o cfree
  /\ ccall' = [at |-> "closing", t |-> t]
  /\ UNCHANGED <<csock, svars, chand, shand, toSrv, toCli>>

CliClosed ==
  /\ ccall.at = "closing"
  /\ Return(ccall.t, IF cli[ccall.t].state = "CLOSED" THEN "closed" ELSE "failed")
  /\ UNCHANGED <<csock, cfree, svars, chand, shand, toSrv, toCli>>

CliCall == SendTry \/ EnterMid \/ Wake \/ GiveUp \/ CliClosed
CliApp ==
  \/ \E p \in CliPort : CliSock(p)
  \/ \E t \in Tcb : Disconnect(t) \/ CliClose(t) \/ \E p \in SrvPort : Connect(t, p)

-------------------------------------------------------------------------------
(***************************************************************************)
(* The client's seghandler: it reads the state of the socket, and then     *)
(* writes it.                                                              *)
(***************************************************************************)

SockOf(sock, p) == IF p \in DOMAIN sock THEN sock[p] ELSE None

\* Mutant: any segment ends FINWAIT.
CliAnswerUntyped(state, type) ==
  CASE state = "SYNSENT" /\ type = "SYNACK" -> "CONNECTED"
    [] state = "FINWAIT" -> "CLOSED"
    [] OTHER -> "ignored"

\* Mutant: a FINACK closes a connected socket too.
CliAnswerLate(state, type) ==
  CASE state = "SYNSENT" /\ type = "SYNACK" -> "CONNECTED"
    [] state \in {"CONNECTED", "FINWAIT"} /\ type = "FINACK" -> "CLOSED"
    [] OTHER -> "ignored"

CliAnswer(state, type) ==
  CASE state = "SYNSENT" /\ type = "SYNACK" -> "CONNECTED"
    [] state = "FINWAIT" /\ type = "FINACK" -> "CLOSED"
    [] OTHER -> "ignored"

\* recvseg() and the switch.  A segment that is lost is like one that is ignored.
CliReceive ==
  /\ chand = Idle /\ toCli # <<>>
  /\ toCli' = Tail(toCli)
  /\ LET t == SockOf(csock, Head(toCli).dst)
         new == CliAnswer(cli[t].state, Head(toCli).type)
     IN \/ UNCHANGED chand
        \/ /\ t # None /\ cli[t].used /\ new # "ignored"
           /\ chand' = [at |-> "write", t |-> t, new |-> new]
  /\ UNCHANGED <<cvars, svars, shand, toSrv>>

CliWrite ==
  /\ chand.at = "write"
  /\ cli' = [cli EXCEPT ![chand.t].state = chand.new]
  /\ chand' = Idle
  /\ UNCHANGED <<csock, cfree, ccall, svars, shand, toSrv, toCli>>

-------------------------------------------------------------------------------
(***************************************************************************)
(* The server's application.                                               *)
(***************************************************************************)

SrvSock(p) ==
  /\ scall = Idle /\ MayOpen(srv, sfree, p)
  /\ srv' = Opened(srv, sfree, p)
  /\ ssock' = [ssock EXCEPT ![p] = Head(sfree)]
  /\ sfree' = Tail(sfree)
  /\ UNCHANGED <<scall, cvars, chand, shand, toSrv, toCli>>

\* accept() looks at no state, client_portNum stays as it is.
Accept(t) ==
  /\ scall = Idle /\ srv[t].used
  /\ Reopen \/ srv[t].state = "CLOSED"
  /\ srv' = [srv EXCEPT ![t].state = "LISTENING"]
  /\ scall' = [at |-> "poll", t |-> t]
  /\ UNCHANGED <<ssock, sfree, cvars, chand, shand, toSrv, toCli>>

\* The busy wait reads CONNECTED.
Accepted ==
  /\ scall.at = "poll" /\ srv[scall.t].state = "CONNECTED"
  /\ srv' = [srv EXCEPT ![scall.t].told = "accepted"]
  /\ scall' = Idle
  /\ UNCHANGED <<ssock, sfree, cvars, chand, shand, toSrv, toCli>>

\* In CLOSEWAIT, close() sleeps for CLOSEWAIT_TIME before it frees the TCB.
SrvClose(t) ==
  /\ scall = Idle /\ srv[t].used
  /\ scall' = [at |-> "free", t |-> t]
  /\ UNCHANGED <<srv, ssock, sfree, cvars, chand, shand, toSrv, toCli>>

SrvFree ==
  /\ scall.at = "free"
  /\ srv' = [srv EXCEPT ![scall.t].used = FALSE]
  /\ sfree' = <<scall.t>> \o sfree
  /\ scall' = [scall EXCEPT !.at = "closing"]
  /\ UNCHANGED <<ssock, cvars, chand, shand, toSrv, toCli>>

SrvClosed ==
  /\ scall.at = "closing"
  /\ srv' = [srv EXCEPT ![scall.t].told =
       IF srv[scall.t].state \in {"CLOSEWAIT", "CLOSED"} THEN "closed" ELSE "failed"]
  /\ scall' = Idle
  /\ UNCHANGED <<ssock, sfree, cvars, chand, shand, toSrv, toCli>>

SrvCall == Accepted \/ SrvFree \/ SrvClosed
SrvApp ==
  \/ \E p \in SrvPort : SrvSock(p)
  \/ \E t \in Tcb : Accept(t) \/ SrvClose(t)

-------------------------------------------------------------------------------
(***************************************************************************)
(* The server's seghandler: it reads the TCB, sends its answer and then    *)
(* writes the TCB.                                                         *)
(***************************************************************************)

SrvAnswer(state, type) ==
  CASE state \in {"LISTENING", "CONNECTED"} /\ type = "SYN" -> "SYNACK"
    [] state \in {"CONNECTED", "CLOSEWAIT"} /\ type = "FIN" -> "FINACK"
    [] OTHER -> "ignored"

\* Mutant: the answer goes to the port that the segment comes from.
ReplyToSender(t, seg) == seg.src

\* Every answer goes to client_portNum as it is before the segment is handled.
ReplyTo(t, seg) == srv[t].peer

\* Mutant: source and destination are swapped.
CallerSwapped(t, seg) == seg.dst

\* client_portNum as it is afterwards: the SYN that connects sets it.
Caller(t, seg) == IF srv[t].state = "LISTENING" THEN seg.src ELSE srv[t].peer

SrvReceive ==
  /\ shand = Idle /\ toSrv # <<>>
  /\ toSrv' = Tail(toSrv)
  /\ LET seg == Head(toSrv)
         t == SockOf(ssock, seg.dst)
         answer == SrvAnswer(srv[t].state, seg.type)
     IN \/ UNCHANGED shand
        \/ /\ t # None /\ srv[t].used /\ answer # "ignored"
           /\ shand' = [at |-> "answer", t |-> t,
                seg |-> [type |-> answer, src |-> srv[t].port, dst |-> ReplyTo(t, seg)],
                new |-> IF answer = "SYNACK" THEN "CONNECTED" ELSE "CLOSEWAIT",
                peer |-> Caller(t, seg)]
  /\ UNCHANGED <<cvars, svars, chand, toCli>>

SendAnswer ==
  /\ shand.at = "answer" /\ Len(toCli) < Window
  /\ toCli' = Append(toCli, shand.seg)
  /\ shand' = [shand EXCEPT !.at = "write"]
  /\ UNCHANGED <<cvars, svars, chand, toSrv>>

SrvWrite ==
  /\ shand.at = "write"
  /\ srv' = [srv EXCEPT ![shand.t].state = shand.new, ![shand.t].peer = shand.peer]
  /\ shand' = Idle
  /\ UNCHANGED <<ssock, sfree, scall, cvars, chand, toSrv, toCli>>

Handlers == CliReceive \/ CliWrite \/ SrvReceive \/ SendAnswer \/ SrvWrite

Next == CliCall \/ CliApp \/ SrvCall \/ SrvApp \/ Handlers

Spec == Init /\ [][Next]_vars

\* Threads that are not blocked run; an application may stop calling.
FairSpec == Spec /\ WF_vars(CliCall) /\ WF_vars(SrvCall)
                 /\ WF_vars(CliReceive \/ CliWrite)
                 /\ WF_vars(SrvReceive \/ SendAnswer \/ SrvWrite)

-------------------------------------------------------------------------------
(***************************************************************************)
(* Properties.                                                             *)
(***************************************************************************)

\* Types of the TCBs, tables, free lists and segments.
TypeOK ==
  /\ cli \in [Tcb -> [used : BOOLEAN, state : CliState,
                      port : CliPort \cup {NoPort}, peer : SrvPort \cup {NoPort},
                      told : {"nothing", "CONNECTED", "CLOSED", "closed", "failed"}]]
  /\ srv \in [Tcb -> [used : BOOLEAN, state : SrvState,
                      port : SrvPort \cup {NoPort}, peer : CliPort \cup {NoPort},
                      told : {"nothing", "accepted", "closed", "failed"}]]
  /\ csock \in [CliPort -> Tcb \cup {None}] /\ ssock \in [SrvPort -> Tcb \cup {None}]
  /\ cfree \in Seq(Tcb) /\ sfree \in Seq(Tcb)
  /\ toSrv \in Seq(Segment) /\ toCli \in Seq(Segment)

\* The server has accepted the client's socket t, or its seghandler is about to
\* record that it has.
Accepts(u, t) ==
  /\ srv[u].port = cli[t].peer
  /\ \/ srv[u].state \in {"CONNECTED", "CLOSEWAIT"} /\ srv[u].peer = cli[t].port
     \/ shand.at = "write" /\ shand.t = u /\ shand.peer = cli[t].port

\* A socket that is connected is connected to something: a server socket of the
\* port that it has dialled has accepted this client and no other.  The exception
\* is the code's (srt_server.c:197): the first SYN that a server socket gets is
\* answered to the port that malloc() has left in its client_portNum, so a client
\* of such a port may be told of a connection that another one has asked for.
NoPhantom ==
  \A t \in Tcb :
    cli[t].state \in {"CONNECTED", "FINWAIT"} /\ cli[t].port \notin Fresh
      => \E u \in Tcb : Accepts(u, t)

\* When disconnect() has returned 0, the server knows, whatever was in a fresh
\* client_portNum: the socket that has accepted this client is in CLOSEWAIT, or the
\* seghandler is about to put it there.
FinSeen ==
  \A t \in Tcb : cli[t].told = "CLOSED" =>
    \E u \in Tcb : /\ srv[u].port = cli[t].peer /\ srv[u].peer = cli[t].port
                   /\ \/ srv[u].state = "CLOSEWAIT"
                      \/ /\ shand.at = "write" /\ shand.t = u
                         /\ shand.new = "CLOSEWAIT"

\* What connect() tells the application stays true: the socket is CONNECTED until
\* the application calls disconnect(), whatever late answers come in.
ConnectedStays ==
  \A t \in Tcb : cli[t].told = "CONNECTED" =>
    \/ cli[t].state = "CONNECTED"
    \/ ccall # Idle /\ ccall.t = t

\* connect() and disconnect() return, whatever is lost; accept() returns after a
\* client has been connected, unless the client has disconnected before it looks.
CallsReturn ==
  /\ ccall # Idle ~> ccall = Idle
  /\ \A t \in Tcb : scall = [at |-> "poll", t |-> t] /\ srv[t].state = "CONNECTED"
                     ~> scall = Idle \/ srv[t].state = "CLOSEWAIT"
=============================================================================
