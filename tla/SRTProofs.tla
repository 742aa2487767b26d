------------------------------- MODULE SRTProofs -------------------------------
EXTENDS SRT, TLAPS

(***************************************************************************)
(* What SRT keeps for any number of TCBs, ports and retries.               *)
(*                                                                         *)
(* Types and ConnectedStays need no assumption.  Their invariant Inv says  *)
(* what each thread holds between two accesses to the TCBs, and what is on *)
(* its way.                                                                *)
(*                                                                         *)
(* NoPhantom and FinSeen are for applications that use a TCB once (Once),  *)
(* and any server ports and garbage in client_portNum.  Their invariant    *)
(* OnceInv adds that every answer that is in the server's hands, in the    *)
(* overlay, or in the client's hands is justified by the server's TCBs, or *)
(* by garbage, and that what justifies it stays.  DialInv says that those  *)
(* whom the server knows have dialled the port that knows them.            *)
(***************************************************************************)

CliTcb == [used : BOOLEAN, state : CliState,
           port : CliPort \cup {NoPort}, peer : SrvPort \cup {NoPort},
           told : {"nothing", "CONNECTED", "CLOSED", "closed", "failed"}]
SrvTcb == [used : BOOLEAN, state : SrvState,
           port : SrvPort \cup {NoPort}, peer : CliPort \cup {NoPort},
           told : {"nothing", "accepted", "closed", "failed"}]

Request == [type : {"SYN", "FIN"}, src : CliPort, dst : SrvPort]
Reply == [type : {"SYNACK", "FINACK"}, src : SrvPort, dst : CliPort \cup {NoPort}]

Trying == [at : {"try", "sent", "sleep"}, t : Tcb, type : {"SYN", "FIN"},
           mid : {"SYNSENT", "FINWAIT"}, dest : {"CONNECTED", "CLOSED"}, tries : Int]
Closing == [at : {"closing"}, t : Tcb]
Serving == [at : {"poll", "free", "closing"}, t : Tcb]
Writing == [at : {"write"}, t : Tcb, new : {"CONNECTED", "CLOSED"}]
Answering == [at : {"answer", "write"}, t : Tcb, seg : Reply,
              new : {"CONNECTED", "CLOSEWAIT"}, peer : CliPort \cup {NoPort}]

\* The client's half: a TCB that is used has a port, and one that has left CLOSED,
\* or is about to, has dialled.
CliInv ==
  /\ cli \in [Tcb -> CliTcb] /\ csock \in [CliPort -> Tcb \cup {None}] /\ cfree \in Seq(Tcb)
  /\ ccall \in {Idle} \cup Trying \cup Closing
  /\ chand \in {Idle} \cup Writing
  /\ \A t \in Tcb : /\ cli[t].used => cli[t].port \in CliPort
                    /\ cli[t].state # "CLOSED" => cli[t].peer \in SrvPort
  /\ ccall \in Trying => cli[ccall.t].port \in CliPort /\ cli[ccall.t].peer \in SrvPort
  /\ chand \in Writing => cli[chand.t].peer \in SrvPort

\* The server's half.
SrvInv ==
  /\ srv \in [Tcb -> SrvTcb] /\ ssock \in [SrvPort -> Tcb \cup {None}] /\ sfree \in Seq(Tcb)
  /\ scall \in {Idle} \cup Serving
  /\ shand \in {Idle} \cup Answering
  /\ \A t \in Tcb : srv[t].used => srv[t].port \in SrvPort

WireInv == toSrv \in Seq(Request) /\ toCli \in Seq(Reply)

\* A FINACK that has been read, and not yet acted upon, is for a socket that is
\* not connected again.
LateClose == chand \in Writing /\ chand.new = "CLOSED" => cli[chand.t].state # "CONNECTED"

Inv == CliInv /\ SrvInv /\ WireInv /\ LateClose /\ ConnectedStays

\* Where a call is tells what it is.
LEMMA CallIs ==
  ASSUME CliInv
  PROVE  /\ ccall.at \in {"try", "sent", "sleep"} => ccall \in Trying
         /\ ccall.at = "closing" => ccall \in Closing
         /\ ccall \in Trying \cup Closing => ccall # Idle
         /\ chand.at = "write" => chand \in Writing
BY DEF CliInv, Trying, Closing, Writing, Idle

LEMMA ServiceIs ==
  ASSUME SrvInv
  PROVE  /\ scall.at \in {"poll", "free", "closing"} => scall \in Serving
         /\ shand.at \in {"answer", "write"} => shand \in Answering
BY DEF SrvInv, Serving, Answering, Idle

\* The invariant implies the type invariant.
LEMMA InvTypes == ASSUME Inv PROVE TypeOK
<1>1. Request \subseteq Segment /\ Reply \subseteq Segment
  BY DEF Request, Reply, Segment
<1>2. toSrv \in Seq(Segment) /\ toCli \in Seq(Segment)
  BY <1>1 DEF Inv, WireInv
<1> QED BY <1>2 DEF Inv, CliInv, SrvInv, CliTcb, SrvTcb, TypeOK

LEMMA InitInv == ASSUME Init PROVE Inv
<1>1. NTcb \in Nat \ {0} /\ NServe \in 1..NTcb /\ Fresh \subseteq CliPort \cup {NoPort}
  BY NTcbAssumption, FreshAssumption
<1>2. cfree \in Seq(Tcb) /\ sfree \in Seq(Tcb)
  BY <1>1 DEF Init, Tcb
<1>3. CliInv
  BY <1>1, <1>2 DEF Init, CliInv, CliTcb, CliState, Trying, Closing, Writing, Idle
<1>4. SrvInv
  BY <1>1, <1>2 DEF Init, SrvInv, SrvTcb, SrvState, Serving, Answering, Idle
<1>5. WireInv
  BY DEF Init, WireInv
<1>6. LateClose /\ ConnectedStays
  BY DEF Init, LateClose, ConnectedStays, Writing, Idle
<1> QED BY <1>3, <1>4, <1>5, <1>6 DEF Inv

\* A step that leaves a half alone keeps what the invariant says of it.
LEMMA CliKept ==
  ASSUME CliInv, LateClose, ConnectedStays, UNCHANGED <<cvars, chand>>
  PROVE  CliInv' /\ LateClose' /\ ConnectedStays'
BY DEF CliInv, LateClose, ConnectedStays, cvars

LEMMA SrvKept == ASSUME SrvInv, UNCHANGED <<svars, shand>> PROVE SrvInv'
BY DEF SrvInv, svars

LEMMA WireKept == ASSUME WireInv, UNCHANGED <<toSrv, toCli>> PROVE WireInv'
BY DEF WireInv

\* The client's half, when a call or the application writes it.
CliStays == CliInv' /\ LateClose' /\ ConnectedStays'

LEMMA SockStep == ASSUME Inv, NEW p \in CliPort, CliSock(p) PROVE CliStays
<1> DEFINE h == Head(cfree)
<1>1. cfree \in Seq(Tcb) /\ cfree # <<>>
  BY DEF Inv, CliInv, CliSock, MayOpen
<1>2. h \in Tcb /\ Tail(cfree) \in Seq(Tcb)
  BY <1>1
<1>3. cli' = [cli EXCEPT ![h] = [cli[h] EXCEPT !.used = TRUE, !.state = "CLOSED",
                                               !.port = p, !.told = "nothing"]]
      /\ csock' = [csock EXCEPT ![p] = h] /\ cfree' = Tail(cfree) /\ ccall = Idle
      /\ UNCHANGED <<ccall, chand>>
  BY DEF CliSock, Opened
<1>4. ccall \notin Trying
  BY <1>3 DEF Idle, Trying
<1>5. CliInv'
  <2>1. cli' \in [Tcb -> CliTcb]
    <3>1. cli \in [Tcb -> CliTcb] /\ cli[h] \in CliTcb
      BY <1>2 DEF Inv, CliInv
    <3>2. [cli[h] EXCEPT !.used = TRUE, !.state = "CLOSED", !.port = p, !.told = "nothing"] \in CliTcb
      BY <3>1 DEF CliTcb, CliState
    <3> QED BY <1>2, <1>3, <3>1, <3>2
  <2>4. csock' \in [CliPort -> Tcb \cup {None}] /\ cfree' \in Seq(Tcb)
    BY <1>2, <1>3 DEF Inv, CliInv
  <2>2. \A t \in Tcb : /\ cli'[t].peer = cli[t].peer
                       /\ cli'[t].used => cli'[t].port \in CliPort
                       /\ cli'[t].state # "CLOSED" => cli[t].state # "CLOSED"
    BY <1>2, <1>3 DEF Inv, CliInv, CliTcb
  <2>3. chand \in Writing => chand.t \in Tcb
    BY DEF Writing
  <2> QED BY <1>3, <1>4, <2>1, <2>2, <2>3, <2>4 DEF Inv, CliInv
<1>6. LateClose' /\ ConnectedStays'
  BY <1>2, <1>3 DEF Inv, CliInv, CliTcb, LateClose, ConnectedStays, Writing
<1> QED BY <1>5, <1>6 DEF CliStays

LEMMA ConnectStep == ASSUME Inv, NEW t \in Tcb, NEW p \in SrvPort, Connect(t, p) PROVE CliStays
<1>1. ccall' \in Trying /\ ccall'.t = t /\ ccall' # Idle
  BY RetryAssumption DEF Connect, Try, Trying, Idle
<1>2. ccall = Idle /\ cli[t].used /\ cli' = [cli EXCEPT ![t].peer = p]
      /\ UNCHANGED <<csock, cfree, chand>>
  BY DEF Connect
<1>3. CliInv'
  BY <1>1, <1>2 DEF Inv, CliInv, CliTcb, Writing
<1>4. LateClose' /\ ConnectedStays'
  BY <1>1, <1>2 DEF Inv, CliInv, CliTcb, LateClose, ConnectedStays, Writing
<1> QED BY <1>3, <1>4 DEF CliStays

LEMMA DisconnectStep == ASSUME Inv, NEW t \in Tcb, Disconnect(t) PROVE CliStays
<1>1. ccall' \in Trying /\ ccall'.t = t /\ ccall' # Idle
  BY RetryAssumption DEF Disconnect, Try, Trying, Idle
<1>2. ccall = Idle /\ cli[t].used /\ cli[t].state = "CONNECTED"
      /\ UNCHANGED <<cli, csock, cfree, chand>>
  BY DEF Disconnect
<1>3. CliInv'
  BY <1>1, <1>2 DEF Inv, CliInv, Writing
<1>4. LateClose' /\ ConnectedStays'
  BY <1>1, <1>2 DEF Inv, CliInv, LateClose, ConnectedStays
<1> QED BY <1>3, <1>4 DEF CliStays

LEMMA CloseStep == ASSUME Inv, NEW t \in Tcb, CliClose(t) PROVE CliStays
<1>1. ccall' \in Closing /\ ccall'.t = t /\ ccall' # Idle /\ ccall' \notin Trying
  BY DEF CliClose, Closing, Trying, Idle
<1>2. ccall = Idle /\ cli' = [cli EXCEPT ![t].used = FALSE] /\ cfree' = <<t>> \o cfree
      /\ UNCHANGED <<csock, chand>>
  BY DEF CliClose
<1>3. cfree' \in Seq(Tcb)
  BY <1>2 DEF Inv, CliInv
<1>4. CliInv'
  <2>1. cli' \in [Tcb -> CliTcb]
    <3>1. cli[t] \in CliTcb /\ cli \in [Tcb -> CliTcb]
      BY DEF Inv, CliInv
    <3>2. [cli[t] EXCEPT !.used = FALSE] \in CliTcb
      BY <3>1 DEF CliTcb
    <3> QED BY <1>2, <3>1, <3>2
  <2>2. \A u \in Tcb : /\ cli'[u].peer = cli[u].peer /\ cli'[u].port = cli[u].port
                       /\ cli'[u].used => cli[u].used
                       /\ cli'[u].state = cli[u].state
    BY <1>2 DEF Inv, CliInv, CliTcb
  <2>3. chand \in Writing => chand.t \in Tcb
    BY DEF Writing
  <2> QED BY <1>1, <1>2, <1>3, <2>1, <2>2, <2>3 DEF Inv, CliInv
<1>5. LateClose' /\ ConnectedStays'
  BY <1>1, <1>2 DEF Inv, CliInv, CliTcb, LateClose, ConnectedStays, Writing
<1> QED BY <1>4, <1>5 DEF CliStays

LEMMA SendStep == ASSUME Inv, SendTry PROVE CliStays /\ WireInv'
<1>1. ccall \in Trying /\ ccall # Idle
  BY CallIs DEF Inv, SendTry
<1>2. ccall' = [ccall EXCEPT !.at = "sent", !.tries = ccall.tries - 1]
      /\ UNCHANGED <<cli, csock, cfree, chand, toCli>>
  BY DEF SendTry
<1>3. ccall' \in Trying /\ ccall'.t = ccall.t /\ ccall' # Idle
  <2> DEFINE left == ccall.tries - 1
  <2>1. left \in Int
    BY <1>1 DEF Trying
  <2>2. ccall' = [ccall EXCEPT !.at = "sent", !.tries = left]
    BY <1>2
  <2> HIDE DEF left
  <2> QED BY <1>1, <2>1, <2>2 DEF Trying, Idle
<1>4. CliInv'
  BY <1>1, <1>2, <1>3 DEF Inv, CliInv, Writing
<1>5. LateClose' /\ ConnectedStays'
  BY <1>1, <1>2, <1>3 DEF Inv, LateClose, ConnectedStays
<1> DEFINE seg == [type |-> ccall.type, src |-> cli[ccall.t].port, dst |-> cli[ccall.t].peer]
<1>6. seg \in Request
  BY <1>1 DEF Inv, CliInv, Trying, Request
<1>7. toSrv' = Append(toSrv, seg)
  BY DEF SendTry
<1>8. WireInv'
  BY <1>2, <1>6, <1>7 DEF Inv, WireInv
<1> QED BY <1>4, <1>5, <1>8 DEF CliStays

LEMMA MidStep == ASSUME Inv, EnterMid PROVE CliStays
<1>1. ccall \in Trying /\ ccall # Idle
  BY CallIs DEF Inv, EnterMid
<1>2. cli' = [cli EXCEPT ![ccall.t].state = ccall.mid] /\ ccall' = [ccall EXCEPT !.at = "sleep"]
      /\ UNCHANGED <<csock, cfree, chand>>
  BY DEF EnterMid
<1>3. ccall' \in Trying /\ ccall'.t = ccall.t /\ ccall' # Idle
      /\ ccall.t \in Tcb /\ ccall.mid \in {"SYNSENT", "FINWAIT"}
  BY <1>1, <1>2 DEF Trying, Idle
<1>4. CliInv'
  BY <1>1, <1>2, <1>3 DEF Inv, CliInv, CliTcb, CliState, Writing
<1>5. LateClose' /\ ConnectedStays'
  BY <1>1, <1>2, <1>3 DEF Inv, CliInv, CliTcb, LateClose, ConnectedStays, Writing
<1> QED BY <1>4, <1>5 DEF CliStays

\* A call that returns tells the application what it has seen; "CONNECTED" only
\* of a socket that is.
LEMMA ReturnStep ==
  ASSUME Inv, NEW t \in Tcb, ccall # Idle, ccall.t = t,
         NEW what \in {"CONNECTED", "CLOSED", "closed", "failed"},
         what = "CONNECTED" => cli[t].state = "CONNECTED",
         Return(t, what), UNCHANGED <<csock, cfree, chand>>
  PROVE  CliStays
<1>1. cli' = [cli EXCEPT ![t].told = what] /\ ccall' = Idle
  BY DEF Return
<1>2. ccall' \notin Trying
  BY <1>1 DEF Trying, Idle
<1>3. CliInv'
  BY <1>1, <1>2 DEF Inv, CliInv, CliTcb, Writing
<1>4. LateClose'
  BY <1>1 DEF Inv, CliInv, CliTcb, LateClose, Writing
<1>5. ConnectedStays'
  BY <1>1 DEF Inv, CliInv, CliTcb, ConnectedStays
<1> QED BY <1>3, <1>4, <1>5 DEF CliStays

LEMMA WakeStep == ASSUME Inv, Wake PROVE CliStays
<1>1. ccall \in Trying /\ ccall # Idle
  BY CallIs DEF Inv, Wake
<1>2. ccall.t \in Tcb /\ ccall.dest \in {"CONNECTED", "CLOSED"} /\ UNCHANGED <<csock, cfree, chand>>
  BY <1>1 DEF Wake, Trying
<1>3. CASE cli[ccall.t].state = ccall.dest
  <2>1. Return(ccall.t, ccall.dest)
    BY <1>3 DEF Wake
  <2> QED BY <1>1, <1>2, <1>3, <2>1, ReturnStep
<1>4. CASE cli[ccall.t].state # ccall.dest
  <2>1. ccall' = [ccall EXCEPT !.at = "try"] /\ UNCHANGED cli
    BY <1>4 DEF Wake
  <2>2. ccall' \in Trying /\ ccall'.t = ccall.t /\ ccall' # Idle
    BY <1>1, <2>1 DEF Trying, Idle
  <2>3. CliInv'
    BY <1>1, <1>2, <2>1, <2>2 DEF Inv, CliInv, Writing
  <2>4. LateClose' /\ ConnectedStays'
    BY <1>1, <1>2, <2>1, <2>2 DEF Inv, LateClose, ConnectedStays
  <2> QED BY <2>3, <2>4 DEF CliStays
<1> QED BY <1>3, <1>4

LEMMA GiveUpStep == ASSUME Inv, GiveUp PROVE CliStays
<1>1. ccall \in Trying /\ ccall # Idle
  BY CallIs DEF Inv, GiveUp
<1>2. cli' = [cli EXCEPT ![ccall.t].state = "CLOSED", ![ccall.t].told = "failed"]
      /\ ccall' = Idle /\ UNCHANGED <<csock, cfree, chand>> /\ ccall.t \in Tcb
  BY <1>1 DEF GiveUp, Trying
<1>3. ccall' \notin Trying
  BY <1>2 DEF Trying, Idle
<1>4. CliInv'
  BY <1>2, <1>3 DEF Inv, CliInv, CliTcb, CliState, Writing
<1>5. LateClose' /\ ConnectedStays'
  BY <1>1, <1>2 DEF Inv, CliInv, CliTcb, LateClose, ConnectedStays, Writing
<1> QED BY <1>4, <1>5 DEF CliStays

LEMMA ClosedStep == ASSUME Inv, CliClosed PROVE CliStays
<1>1. ccall \in Closing /\ ccall # Idle
  BY CallIs DEF Inv, CliClosed
<1>2. ccall.t \in Tcb /\ UNCHANGED <<csock, cfree, chand>>
  BY <1>1 DEF CliClosed, Closing
<1> QED BY <1>1, <1>2, ReturnStep DEF CliClosed

\* The client's seghandler writes what it has read the state for.
LEMMA CliReceiveStep == ASSUME Inv, CliReceive PROVE CliStays /\ WireInv'
<1> DEFINE t == SockOf(csock, Head(toCli).dst)
           new == CliAnswer(cli[t].state, Head(toCli).type)
<1>1. toCli # <<>> /\ toCli' = Tail(toCli) /\ UNCHANGED <<cvars, toSrv>>
  BY DEF CliReceive
<1>2. WireInv'
  BY <1>1 DEF Inv, WireInv
<1>3. CASE UNCHANGED chand
  BY <1>1, <1>2, <1>3, CliKept DEF Inv, CliStays
<1>4. CASE /\ t # None /\ cli[t].used /\ new # "ignored"
           /\ chand' = [at |-> "write", t |-> t, new |-> new]
  <2>1. t \in Tcb
    BY <1>4 DEF SockOf, Inv, CliInv
  <2>2. \/ new = "CONNECTED" /\ cli[t].state = "SYNSENT"
        \/ new = "CLOSED" /\ cli[t].state = "FINWAIT"
    BY <1>4 DEF CliAnswer
  <2>3. chand' \in Writing /\ chand'.t = t /\ chand'.new = new
    BY <1>4, <2>1, <2>2 DEF Writing
  <2>4. CliInv'
    BY <1>1, <2>1, <2>2, <2>3 DEF cvars, Inv, CliInv
  <2>5. LateClose' /\ ConnectedStays'
    BY <1>1, <2>2, <2>3 DEF cvars, Inv, LateClose, ConnectedStays
  <2> QED BY <1>2, <2>4, <2>5 DEF CliStays
<1> QED BY <1>3, <1>4 DEF CliReceive

LEMMA CliWriteStep == ASSUME Inv, CliWrite PROVE CliStays
<1>1. chand \in Writing
  BY CallIs DEF Inv, CliWrite
<1>2. cli' = [cli EXCEPT ![chand.t].state = chand.new] /\ chand' = Idle
      /\ UNCHANGED <<csock, cfree, ccall>>
      /\ chand.t \in Tcb /\ chand.new \in {"CONNECTED", "CLOSED"}
  BY <1>1 DEF CliWrite, Writing
<1>3. chand' \notin Writing
  BY <1>2 DEF Writing, Idle
<1>4. CliInv'
  BY <1>1, <1>2, <1>3 DEF Inv, CliInv, CliTcb, CliState, Trying
<1>5. LateClose'
  BY <1>3 DEF LateClose
<1>6. ConnectedStays'
  BY <1>1, <1>2 DEF Inv, CliInv, CliTcb, LateClose, ConnectedStays
<1> QED BY <1>4, <1>5, <1>6 DEF CliStays

\* The server's application and its seghandler.
LEMMA SrvAppStep == ASSUME Inv, SrvApp PROVE SrvInv'
<1>1. ASSUME NEW p \in SrvPort, SrvSock(p) PROVE SrvInv'
  <2> DEFINE h == Head(sfree)
  <2>1. sfree \in Seq(Tcb) /\ sfree # <<>>
    BY <1>1 DEF Inv, SrvInv, SrvSock, MayOpen
  <2>2. h \in Tcb /\ Tail(sfree) \in Seq(Tcb)
    BY <2>1
  <2>3. srv' = [srv EXCEPT ![h] = [srv[h] EXCEPT !.used = TRUE, !.state = "CLOSED",
                                                 !.port = p, !.told = "nothing"]]
        /\ ssock' = [ssock EXCEPT ![p] = h] /\ sfree' = Tail(sfree)
        /\ UNCHANGED <<scall, shand>>
    BY <1>1 DEF SrvSock, Opened
  <2>4. srv \in [Tcb -> SrvTcb] /\ srv[h] \in SrvTcb
    BY <2>2 DEF Inv, SrvInv
  <2>5. [srv[h] EXCEPT !.used = TRUE, !.state = "CLOSED", !.port = p, !.told = "nothing"] \in SrvTcb
    BY <2>4 DEF SrvTcb, SrvState
  <2>6. srv' \in [Tcb -> SrvTcb]
    BY <2>2, <2>3, <2>4, <2>5
  <2>7. srv'[h].port = p /\ \A t \in Tcb \ {h} : srv'[t] = srv[t]
    BY <2>2, <2>3, <2>4 DEF SrvTcb
  <2>8. ssock' \in [SrvPort -> Tcb \cup {None}]
    BY <2>2, <2>3 DEF Inv, SrvInv
  <2> QED BY <2>2, <2>3, <2>6, <2>7, <2>8 DEF Inv, SrvInv
<1>2. ASSUME NEW t \in Tcb, Accept(t) PROVE SrvInv'
  <2>1. scall' \in Serving
    BY <1>2 DEF Accept, Serving
  <2> QED BY <1>2, <2>1 DEF Inv, SrvInv, SrvTcb, SrvState, Accept
<1>3. ASSUME NEW t \in Tcb, SrvClose(t) PROVE SrvInv'
  <2>1. scall' \in Serving
    BY <1>3 DEF SrvClose, Serving
  <2> QED BY <1>3, <2>1 DEF Inv, SrvInv, SrvClose
<1> QED BY <1>1, <1>2, <1>3 DEF SrvApp

LEMMA SrvCallStep == ASSUME Inv, SrvCall PROVE SrvInv'
<1>1. scall \in Serving
  BY ServiceIs DEF Inv, SrvCall, Accepted, SrvFree, SrvClosed
<1>2. scall.t \in Tcb
  BY <1>1 DEF Serving
<1>3. CASE Accepted
  BY <1>2, <1>3 DEF Inv, SrvInv, SrvTcb, Accepted
<1>4. CASE SrvFree
  <2>1. scall' \in Serving
    BY <1>1, <1>4 DEF SrvFree, Serving
  <2>2. sfree' \in Seq(Tcb)
    BY <1>2, <1>4 DEF SrvFree, Inv, SrvInv
  <2>3. srv \in [Tcb -> SrvTcb] /\ [srv[scall.t] EXCEPT !.used = FALSE] \in SrvTcb
    <3>1. srv \in [Tcb -> SrvTcb] /\ srv[scall.t] \in SrvTcb
      BY <1>2 DEF Inv, SrvInv
    <3> QED BY <3>1 DEF SrvTcb
  <2>4. srv' = [srv EXCEPT ![scall.t] = [srv[scall.t] EXCEPT !.used = FALSE]]
        /\ UNCHANGED <<ssock, shand>>
    BY <1>4 DEF SrvFree
  <2>5. srv' \in [Tcb -> SrvTcb]
    BY <1>2, <2>3, <2>4
  <2>6. \A t \in Tcb : srv'[t].port = srv[t].port /\ (srv'[t].used => srv[t].used)
    BY <1>2, <2>3, <2>4 DEF SrvTcb
  <2> QED BY <2>1, <2>2, <2>4, <2>5, <2>6 DEF Inv, SrvInv
<1>5. CASE SrvClosed
  BY <1>2, <1>5 DEF Inv, SrvInv, SrvTcb, SrvClosed
<1> QED BY <1>3, <1>4, <1>5 DEF SrvCall

LEMMA SrvReceiveStep == ASSUME Inv, SrvReceive PROVE SrvInv' /\ WireInv'
<1> DEFINE seg == Head(toSrv)
           t == SockOf(ssock, seg.dst)
           answer == SrvAnswer(srv[t].state, seg.type)
<1>1. toSrv # <<>> /\ toSrv' = Tail(toSrv) /\ UNCHANGED <<svars, toCli>>
  BY DEF SrvReceive
<1>2. WireInv' /\ seg \in Request
  BY <1>1 DEF Inv, WireInv
<1>3. CASE UNCHANGED shand
  BY <1>1, <1>2, <1>3, SrvKept DEF Inv
<1>4. CASE /\ t # None /\ srv[t].used /\ answer # "ignored"
           /\ shand' = [at |-> "answer", t |-> t,
                seg |-> [type |-> answer, src |-> srv[t].port, dst |-> ReplyTo(t, seg)],
                new |-> IF answer = "SYNACK" THEN "CONNECTED" ELSE "CLOSEWAIT",
                peer |-> Caller(t, seg)]
  <2>1. t \in Tcb
    BY <1>4 DEF SockOf, Inv, SrvInv
  <2>2. answer \in {"SYNACK", "FINACK"}
    BY <1>4 DEF SrvAnswer
  <2>3. srv[t].port \in SrvPort /\ srv[t].peer \in CliPort \cup {NoPort}
    BY <1>4, <2>1 DEF Inv, SrvInv, SrvTcb
  <2>4. ReplyTo(t, seg) \in CliPort \cup {NoPort} /\ Caller(t, seg) \in CliPort \cup {NoPort}
    BY <1>2, <2>3 DEF ReplyTo, Caller, Request
  <2>5. shand' \in Answering
    BY <1>4, <2>1, <2>2, <2>3, <2>4 DEF Answering, Reply
  <2> QED BY <1>1, <1>2, <2>5 DEF Inv, SrvInv, svars
<1> QED BY <1>3, <1>4 DEF SrvReceive

LEMMA SendAnswerStep == ASSUME Inv, SendAnswer PROVE SrvInv' /\ WireInv'
<1>1. shand \in Answering
  BY ServiceIs DEF Inv, SendAnswer
<1>2. shand' \in Answering
  BY <1>1 DEF SendAnswer, Answering
<1>3. shand.seg \in Reply
  BY <1>1 DEF Answering
<1>4. SrvInv'
  BY <1>2 DEF Inv, SrvInv, SendAnswer, svars
<1>5. WireInv'
  BY <1>3 DEF Inv, WireInv, SendAnswer
<1> QED BY <1>4, <1>5

LEMMA SrvWriteStep == ASSUME Inv, SrvWrite PROVE SrvInv'
<1>1. shand \in Answering
  BY ServiceIs DEF Inv, SrvWrite
<1>2. shand.t \in Tcb /\ shand.new \in SrvState /\ shand.peer \in CliPort \cup {NoPort}
  BY <1>1 DEF Answering, SrvState
<1> QED BY <1>2 DEF Inv, SrvInv, SrvTcb, SrvWrite

\* Every step keeps the invariant.
LEMMA NextInv == ASSUME Inv, [Next]_vars PROVE Inv'
<1>1. CASE UNCHANGED vars
  BY <1>1, CliKept, SrvKept, WireKept DEF Inv, vars
<1>2. CASE CliApp
  <2>1. UNCHANGED <<svars, shand, toSrv, toCli>>
    BY <1>2 DEF CliApp, CliSock, Connect, Disconnect, CliClose
  <2>2. CliStays
    BY <1>2, SockStep, ConnectStep, DisconnectStep, CloseStep DEF CliApp
  <2> QED BY <2>1, <2>2, SrvKept, WireKept DEF Inv, CliStays
<1>3. CASE CliCall
  <2>1. UNCHANGED <<svars, shand>> /\ (SendTry \/ UNCHANGED <<toSrv, toCli>>)
    BY <1>3 DEF CliCall, SendTry, EnterMid, Wake, GiveUp, CliClosed
  <2>2. CliStays
    BY <1>3, SendStep, MidStep, WakeStep, GiveUpStep, ClosedStep DEF CliCall
  <2> QED BY <2>1, <2>2, SrvKept, WireKept, SendStep DEF Inv, CliStays
<1>4. CASE CliReceive
  <2>1. UNCHANGED <<svars, shand>>
    BY <1>4 DEF CliReceive
  <2> QED BY <1>4, <2>1, CliReceiveStep, SrvKept DEF Inv, CliStays
<1>5. CASE CliWrite
  <2>1. UNCHANGED <<svars, shand, toSrv, toCli>>
    BY <1>5 DEF CliWrite
  <2> QED BY <1>5, <2>1, CliWriteStep, SrvKept, WireKept DEF Inv, CliStays
<1>6. CASE SrvApp \/ SrvCall \/ SrvWrite
  <2>1. UNCHANGED <<cvars, chand, toSrv, toCli>>
    BY <1>6 DEF SrvApp, SrvSock, Accept, SrvClose, SrvCall, Accepted, SrvFree, SrvClosed, SrvWrite
  <2> QED BY <1>6, <2>1, SrvAppStep, SrvCallStep, SrvWriteStep, CliKept, WireKept DEF Inv
<1>7. CASE SrvReceive \/ SendAnswer
  <2>1. UNCHANGED <<cvars, chand>>
    BY <1>7 DEF SrvReceive, SendAnswer
  <2> QED BY <1>7, <2>1, SrvReceiveStep, SendAnswerStep, CliKept DEF Inv
<1> QED BY <1>1, <1>2, <1>3, <1>4, <1>5, <1>6, <1>7 DEF Next, Handlers


LEMMA AlwaysInv == Spec => []Inv
<1> QED BY InitInv, NextInv, PTL DEF Spec

\* The TCBs, tables, free lists and segments keep their types for any number of
\* sockets and ports, whatever malloc() has left in client_portNum.
THEOREM TypeCorrect == Spec => []TypeOK
<1> QED BY AlwaysInv, InvTypes, PTL

\* A socket that connect() has said to be connected is, until the application
\* calls again: no answer of an earlier connection, read before, closes it.
THEOREM ConnectionsStay == Spec => []ConnectedStays
<1>1. Inv => ConnectedStays
  BY DEF Inv
<1> QED BY <1>1, AlwaysInv, PTL

-------------------------------------------------------------------------------
(***************************************************************************)
(* Applications that use a TCB once: what the server has told the client   *)
(* stays true.                                                             *)
(***************************************************************************)

Once == ~Reopen

\* The client's ports from which a socket of the server has seen the FIN, or is
\* about to record it.
Heard == {p \in CliPort :
            \E u \in Tcb : /\ srv[u].port \in SrvPort /\ srv[u].peer = p
                           /\ \/ srv[u].state = "CLOSEWAIT"
                              \/ /\ shand.at = "write" /\ shand.t = u
                                 /\ shand.new = "CLOSEWAIT"}

\* The client's ports that a socket of the server is connected to, or was.
Held == {p \in CliPort : \E u \in Tcb : /\ srv[u].port \in SrvPort /\ srv[u].peer = p
                                        /\ srv[u].state \in {"CONNECTED", "CLOSEWAIT"}}

Used(tcb) == {t \in Tcb : tcb[t].used}

\* The free list has no TCB twice, and none that is used.
FreeInv(used, free) ==
  /\ \A i \in 1..Len(free) : free[i] \notin used
  /\ \A i, j \in 1..Len(free) : free[i] = free[j] => i = j

\* What the seghandler has read of a TCB is still so when it writes.
SrvOnce ==
  /\ FreeInv(Used(srv), sfree)
  /\ \A u \in Tcb : /\ srv[u].state # "CLOSED" => srv[u].port \in SrvPort
                    /\ srv[u].state \in {"CLOSED", "LISTENING"} => srv[u].peer \in Fresh
  /\ scall \in Serving /\ scall.at = "free" => srv[scall.t].used
  /\ shand \in Answering =>
       /\ srv[shand.t].port \in SrvPort
       /\ \/ /\ shand.new = "CONNECTED" /\ shand.seg.type = "SYNACK"
             /\ srv[shand.t].state = "LISTENING" /\ shand.seg.dst \in Fresh
          \/ /\ shand.new = "CONNECTED" /\ shand.seg.type = "SYNACK"
             /\ srv[shand.t].state = "CONNECTED" /\ shand.peer = srv[shand.t].peer
             /\ shand.seg.dst = srv[shand.t].peer
          \/ /\ shand.new = "CLOSEWAIT" /\ shand.seg.type = "FINACK"
             /\ srv[shand.t].state \in {"CONNECTED", "CLOSEWAIT"}
             /\ shand.peer = srv[shand.t].peer /\ shand.seg.dst = srv[shand.t].peer

\* An answer is not sent before it is true, or else goes to garbage.
Meant(seg) ==
  seg.dst \in CliPort => /\ seg.type = "FINACK" => seg.dst \in Heard
                         /\ seg.type = "SYNACK" => seg.dst \in Held \cup Fresh
WireOnce == \A i \in 1..Len(toCli) : Meant(toCli[i])

\* And what the client does with it.
CliOnce ==
  /\ FreeInv(Used(cli), cfree)
  /\ \A p \in CliPort : csock[p] # None => cli[csock[p]].port = p
  /\ \A t \in Tcb : /\ cli[t].state \in {"CONNECTED", "FINWAIT"}
                         => cli[t].port \in Held \cup Fresh
                    /\ cli[t].told = "CLOSED" => cli[t].port \in Heard
  /\ chand \in Writing => /\ cli[chand.t].port \in CliPort
                          /\ chand.new = "CLOSED" => cli[chand.t].port \in Heard
                          /\ chand.new = "CONNECTED"
                               => cli[chand.t].port \in Held \cup Fresh
  /\ ccall \in Trying =>
       \/ ccall.mid = "SYNSENT" /\ ccall.dest = "CONNECTED"
       \/ /\ ccall.mid = "FINWAIT" /\ ccall.dest = "CLOSED"
          /\ cli[ccall.t].port \in Held \cup Fresh
          /\ cli[ccall.t].state = "CLOSED" => cli[ccall.t].port \in Heard

OnceInv == Inv /\ SrvOnce /\ WireOnce /\ CliOnce

LEMMA OnceInit == ASSUME Once, Init PROVE OnceInv
<1>1. NTcb \in Nat \ {0} /\ NServe \in 1..NTcb
  BY NTcbAssumption
<1>2. /\ cfree = [i \in Tcb |-> i] /\ Len(cfree) = NTcb
      /\ sfree = [i \in 1..NServe |-> i] /\ Len(sfree) = NServe
  BY <1>1 DEF Init, Tcb
<1>3. Used(cli) = {} /\ Used(srv) = {}
  BY DEF Init, Used
<1>4. FreeInv(Used(cli), cfree) /\ FreeInv(Used(srv), sfree)
  BY <1>2, <1>3 DEF FreeInv, Tcb
<1>5. SrvOnce
  BY <1>1, <1>4 DEF Init, SrvOnce, Answering, Idle
<1>6. WireOnce
  BY DEF Init, WireOnce
<1>7. CliOnce
  BY <1>4 DEF Init, CliOnce, Trying, Writing, Idle
<1> QED BY InitInv, <1>5, <1>6, <1>7 DEF OnceInv

LEMMA TakeFree ==
  ASSUME NEW free \in Seq(Tcb), free # <<>>, NEW used, FreeInv(used, free)
  PROVE  Head(free) \in Tcb /\ Head(free) \notin used
         /\ FreeInv(used \cup {Head(free)}, Tail(free))
<1>1. Len(free) \in Nat \ {0} /\ Head(free) = free[1] /\ Len(Tail(free)) = Len(free) - 1
      /\ \A i \in 1..Len(Tail(free)) : Tail(free)[i] = free[i + 1]
  OBVIOUS
<1> DEFINE n == Len(free)
<1>2. \A i \in 1..(n - 1) : i + 1 \in 1..n /\ i + 1 # 1
  BY <1>1
<1>3. 1 \in 1..n
  BY <1>1
<1> QED BY <1>1, <1>2, <1>3 DEF FreeInv

LEMMA PutFree ==
  ASSUME NEW free \in Seq(Tcb), NEW used, NEW t \in used, t \in Tcb, FreeInv(used, free)
  PROVE  FreeInv(used \ {t}, <<t>> \o free)
<1> DEFINE n == Len(free)
           longer == <<t>> \o free
<1>1. n \in Nat /\ Len(longer) = n + 1 /\ longer[1] = t
      /\ \A i \in 1..(n + 1) : i = 1 \/ (i - 1 \in 1..n /\ longer[i] = free[i - 1])
  <2>1. n \in Nat /\ Len(longer) = n + 1 /\ longer[1] = t
    OBVIOUS
  <2>2. ASSUME NEW i \in 1..(n + 1), i # 1 PROVE i - 1 \in 1..n /\ longer[i] = free[i - 1]
    <3>1. i - 1 \in 1..n
      BY <2>1, <2>2
    <3>2. longer[i] = free[i - Len(<<t>>)]
      BY <2>1, <2>2
    <3> QED BY <3>1, <3>2
  <2> QED BY <2>1, <2>2
<1> HIDE DEF longer, n
<1>2. ASSUME NEW i \in 1..(n + 1) PROVE longer[i] \notin used \ {t}
  BY <1>1, <1>2 DEF FreeInv, n
<1>3. ASSUME NEW i \in 1..(n + 1), NEW j \in 1..(n + 1), longer[i] = longer[j] PROVE i = j
  BY <1>1, <1>3 DEF FreeInv, n
<1> QED BY <1>1, <1>2, <1>3 DEF FreeInv, longer

\* A TCB that is taken has never been used.
LEMMA OpenedIsNew ==
  ASSUME Once, NEW tcb, NEW free \in Seq(Tcb), NEW p, MayOpen(tcb, free, p),
         FreeInv(Used(tcb), free)
  PROVE  /\ Head(free) \in Tcb /\ ~tcb[Head(free)].used /\ tcb[Head(free)].port = NoPort
         /\ FreeInv(Used(tcb) \cup {Head(free)}, Tail(free))
<1>1. Head(free) \in Tcb /\ Head(free) \notin Used(tcb)
      /\ FreeInv(Used(tcb) \cup {Head(free)}, Tail(free))
  BY TakeFree DEF MayOpen
<1> QED BY <1>1 DEF Used, MayOpen, Once

\* What the server has told stays true.
SrvStays == SrvOnce' /\ Heard \subseteq Heard' /\ Held \subseteq Held'

LEMMA SrvOnceSock ==
  ASSUME Once, OnceInv, NEW p \in SrvPort, SrvSock(p)
  PROVE  SrvStays
<1> DEFINE h == Head(sfree)
<1>1. h \in Tcb /\ ~srv[h].used /\ srv[h].port = NoPort
      /\ FreeInv(Used(srv) \cup {h}, Tail(sfree))
  BY OpenedIsNew DEF OnceInv, Inv, SrvInv, SrvOnce, SrvSock
<1>2. srv' = [srv EXCEPT ![h] = [srv[h] EXCEPT !.used = TRUE, !.state = "CLOSED",
                                               !.port = p, !.told = "nothing"]]
      /\ sfree' = Tail(sfree) /\ UNCHANGED shand
  BY DEF SrvSock, Opened
<1>3. srv \in [Tcb -> SrvTcb] /\ NoPort \notin SrvPort /\ (shand \in Answering => shand.t \in Tcb)
  BY PortAssumption DEF OnceInv, Inv, SrvInv, Answering
<1>4. srv[h].state = "CLOSED" /\ srv[h].peer \in Fresh
  BY <1>1, <1>3 DEF OnceInv, SrvOnce
<1>5. /\ srv'[h].used /\ srv'[h].state = "CLOSED" /\ srv'[h].port = p /\ srv'[h].peer \in Fresh
      /\ \A u \in Tcb \ {h} : srv'[u] = srv[u]
  BY <1>1, <1>2, <1>3, <1>4 DEF SrvTcb
<1>6. Used(srv') = Used(srv) \cup {h}
  BY <1>1, <1>5 DEF Used
<1>7. SrvOnce'
  <2>1. FreeInv(Used(srv'), sfree')
    BY <1>1, <1>2, <1>6
  <2>2. \A u \in Tcb : /\ srv'[u].state # "CLOSED" => srv'[u].port \in SrvPort
                      /\ srv'[u].state \in {"CLOSED", "LISTENING"} => srv'[u].peer \in Fresh
    BY <1>5 DEF OnceInv, SrvOnce
  <2>3. scall' = Idle /\ scall' \notin Serving
    BY DEF SrvSock, Idle, Serving
  <2>4. shand \in Answering => shand.t # h /\ srv'[shand.t] = srv[shand.t]
    BY <1>1, <1>3, <1>5 DEF OnceInv, SrvOnce
  <2> QED BY <1>2, <2>1, <2>2, <2>3, <2>4 DEF OnceInv, SrvOnce
<1>8. Heard \subseteq Heard' /\ Held \subseteq Held'
  BY <1>1, <1>2, <1>3, <1>5 DEF Heard, Held
<1> QED BY <1>7, <1>8 DEF SrvStays

\* These leave the ports, the peers and all states but CLOSED alone.
LEMMA SrvOnceOther ==
  ASSUME Once, OnceInv,
         (\E t \in Tcb : Accept(t) \/ SrvClose(t)) \/ SrvCall
  PROVE  SrvStays
<1>1. srv \in [Tcb -> SrvTcb] /\ (shand \in Answering => shand.t \in Tcb) /\ UNCHANGED shand
  BY DEF OnceInv, Inv, SrvInv, Answering, Accept, SrvClose, SrvCall, Accepted, SrvFree, SrvClosed
<1>2. SUFFICES /\ \A u \in Tcb : /\ srv'[u].port = srv[u].port /\ srv'[u].peer = srv[u].peer
                                 /\ \/ srv'[u].state = srv[u].state
                                    \/ /\ srv[u].state = "CLOSED" /\ srv'[u].state = "LISTENING"
                                       /\ srv[u].port \in SrvPort
               /\ FreeInv(Used(srv'), sfree')
               /\ scall' \in Serving /\ scall'.at = "free" => srv'[scall'.t].used
  <2>1. SrvOnce'
    BY <1>1, <1>2 DEF OnceInv, SrvOnce
  <2>2. Heard \subseteq Heard' /\ Held \subseteq Held'
    BY <1>1, <1>2 DEF Heard, Held
  <2> QED BY <2>1, <2>2 DEF SrvStays
<1>3. CASE \E t \in Tcb : Accept(t)
  <2>1. PICK t \in Tcb : Accept(t)
    BY <1>3
  <2>2. srv[t].state = "CLOSED" /\ srv[t].port \in SrvPort
    BY <2>1 DEF Accept, Once, OnceInv, Inv, SrvInv
  <2>3. \A u \in Tcb : srv'[u].used = srv[u].used
    BY <1>1, <2>1 DEF Accept, SrvTcb
  <2>4. Used(srv') = Used(srv)
    BY <2>3 DEF Used
  <2>5. /\ srv'[t].state = "LISTENING"
        /\ \A u \in Tcb : srv'[u].port = srv[u].port /\ srv'[u].peer = srv[u].peer
        /\ \A u \in Tcb \ {t} : srv'[u].state = srv[u].state
    BY <1>1, <2>1 DEF Accept, SrvTcb
  <2>6. sfree' = sfree /\ scall'.at # "free"
    BY <2>1 DEF Accept
  <2> QED BY <2>2, <2>4, <2>5, <2>6 DEF OnceInv, SrvOnce
<1>4. CASE \E t \in Tcb : SrvClose(t)
  <2>1. PICK t \in Tcb : SrvClose(t)
    BY <1>4
  <2> QED BY <2>1 DEF SrvClose, OnceInv, SrvOnce
<1>5. CASE SrvFree
  <2>1. scall \in Serving /\ scall.at = "free"
    BY <1>5, ServiceIs DEF OnceInv, Inv, SrvFree
  <2>2. scall.t \in Tcb /\ srv[scall.t].used /\ scall'.at = "closing"
    BY <1>5, <2>1 DEF Serving, OnceInv, SrvOnce, SrvFree
  <2>3. /\ ~srv'[scall.t].used
        /\ \A u \in Tcb : /\ srv'[u].port = srv[u].port /\ srv'[u].peer = srv[u].peer
                          /\ srv'[u].state = srv[u].state
        /\ \A u \in Tcb \ {scall.t} : srv'[u].used = srv[u].used
    BY <1>1, <1>5, <2>2 DEF SrvFree, SrvTcb
  <2>4. Used(srv') = Used(srv) \ {scall.t} /\ scall.t \in Used(srv)
    BY <2>2, <2>3 DEF Used
  <2>5. FreeInv(Used(srv'), sfree')
    <3>1. sfree \in Seq(Tcb) /\ FreeInv(Used(srv), sfree) /\ sfree' = <<scall.t>> \o sfree
      BY <1>5 DEF OnceInv, Inv, SrvInv, SrvOnce, SrvFree
    <3> QED BY <2>2, <2>4, <3>1, PutFree
  <2> QED BY <2>2, <2>3, <2>5
<1>6. CASE Accepted \/ SrvClosed
  <2>1. scall.t \in Tcb
    BY <1>6, ServiceIs DEF OnceInv, Inv, Accepted, SrvClosed, Serving
  <2>2. \A u \in Tcb : /\ srv'[u].used = srv[u].used /\ srv'[u].port = srv[u].port
                       /\ srv'[u].peer = srv[u].peer /\ srv'[u].state = srv[u].state
    BY <1>1, <1>6, <2>1 DEF Accepted, SrvClosed, SrvTcb
  <2>3. Used(srv') = Used(srv) /\ sfree' = sfree /\ scall'.at # "free"
    BY <1>6, <2>2 DEF Used, Accepted, SrvClosed, Idle
  <2> QED BY <2>2, <2>3 DEF OnceInv, SrvOnce
<1> QED BY <1>3, <1>4, <1>5, <1>6 DEF SrvCall

LEMMA SrvOnceReceive == ASSUME Once, OnceInv, SrvReceive PROVE SrvStays
<1> DEFINE seg == Head(toSrv)
           t == SockOf(ssock, seg.dst)
           answer == SrvAnswer(srv[t].state, seg.type)
<1>1. shand = Idle /\ UNCHANGED svars
  BY DEF SrvReceive
<1>2. Heard \subseteq Heard' /\ Held' = Held
  BY <1>1 DEF Heard, Held, svars, Idle
<1>3. CASE UNCHANGED shand
  BY <1>1, <1>2, <1>3 DEF OnceInv, SrvOnce, SrvStays, svars
<1>4. CASE /\ t # None /\ srv[t].used /\ answer # "ignored"
           /\ shand' = [at |-> "answer", t |-> t,
                seg |-> [type |-> answer, src |-> srv[t].port, dst |-> ReplyTo(t, seg)],
                new |-> IF answer = "SYNACK" THEN "CONNECTED" ELSE "CLOSEWAIT",
                peer |-> Caller(t, seg)]
  <2>1. t \in Tcb
    BY <1>4 DEF SockOf, OnceInv, Inv, SrvInv
  <2>2. \/ answer = "SYNACK" /\ srv[t].state = "LISTENING"
        \/ answer = "SYNACK" /\ srv[t].state = "CONNECTED"
        \/ answer = "FINACK" /\ srv[t].state \in {"CONNECTED", "CLOSEWAIT"}
    BY <1>4 DEF SrvAnswer
  <2>3. srv[t].state = "LISTENING" => srv[t].peer \in Fresh
    BY <2>1 DEF OnceInv, SrvOnce
  <2>4. ReplyTo(t, seg) = srv[t].peer /\ (srv[t].state # "LISTENING" => Caller(t, seg) = srv[t].peer)
    BY DEF ReplyTo, Caller
  <2>5. srv[t].port \in SrvPort
    BY <1>4, <2>1 DEF OnceInv, Inv, SrvInv
  <2>6. /\ srv[shand'.t].port \in SrvPort
        /\ \/ /\ shand'.new = "CONNECTED" /\ shand'.seg.type = "SYNACK"
              /\ srv[shand'.t].state = "LISTENING" /\ shand'.seg.dst \in Fresh
           \/ /\ shand'.new = "CONNECTED" /\ shand'.seg.type = "SYNACK"
              /\ srv[shand'.t].state = "CONNECTED" /\ shand'.peer = srv[shand'.t].peer
              /\ shand'.seg.dst = srv[shand'.t].peer
           \/ /\ shand'.new = "CLOSEWAIT" /\ shand'.seg.type = "FINACK"
              /\ srv[shand'.t].state \in {"CONNECTED", "CLOSEWAIT"}
              /\ shand'.peer = srv[shand'.t].peer /\ shand'.seg.dst = srv[shand'.t].peer
    BY <1>4, <2>2, <2>3, <2>4, <2>5
  <2> QED BY <1>1, <1>2, <2>6 DEF OnceInv, SrvOnce, SrvStays, svars
<1> QED BY <1>3, <1>4 DEF SrvReceive

\* The answer goes out when what it says is true, or about to be recorded.
LEMMA SrvOnceAnswer == ASSUME Once, OnceInv, SendAnswer PROVE SrvStays /\ WireOnce'
<1>1. shand \in Answering /\ shand.at = "answer" /\ UNCHANGED svars
  BY ServiceIs DEF OnceInv, Inv, SendAnswer
<1>2. shand' = [shand EXCEPT !.at = "write"]
  BY DEF SendAnswer
<1>3. shand' \in Answering /\ shand'.at = "write" /\ shand'.t = shand.t /\ shand'.new = shand.new
      /\ shand'.peer = shand.peer /\ shand'.seg = shand.seg /\ shand.t \in Tcb
  BY <1>1, <1>2 DEF Answering
<1>4. SrvOnce'
  BY <1>1, <1>3 DEF OnceInv, SrvOnce, svars
<1>5. Heard \subseteq Heard' /\ Held' = Held
  BY <1>1, <1>3 DEF Heard, Held, svars
<1>6. Meant(shand.seg)'
  <2>1. shand.seg.type = "FINACK" /\ shand.seg.dst \in CliPort => shand.seg.dst \in Heard'
    BY <1>1, <1>3 DEF OnceInv, SrvOnce, Heard, svars
  <2>2. shand.seg.type = "SYNACK" /\ shand.seg.dst \in CliPort
          => shand.seg.dst \in Held \cup Fresh
    BY <1>1, <1>3, PortAssumption DEF OnceInv, SrvOnce, Held
  <2> QED BY <1>3, <1>5, <2>1, <2>2 DEF Meant
<1>7. WireOnce'
  <2>1. toCli \in Seq(Reply) /\ toCli' = Append(toCli, shand.seg)
    BY DEF OnceInv, Inv, WireInv, SendAnswer
  <2>2. \A i \in 1..Len(toCli) : Meant(toCli[i])'
    <3>1. \A i \in 1..Len(toCli) : toCli'[i] = toCli[i]
      BY <1>1, <2>1 DEF Answering
    <3> QED BY <1>5, <3>1 DEF OnceInv, WireOnce, Meant
  <2>3. \A i \in 1..Len(toCli') : i \in 1..Len(toCli) \/ toCli'[i] = shand.seg
    BY <2>1
  <2> QED BY <1>3, <1>6, <2>2, <2>3 DEF WireOnce, Meant
<1> QED BY <1>4, <1>5, <1>7 DEF SrvStays

LEMMA SrvOnceWrite == ASSUME Once, OnceInv, SrvWrite PROVE SrvStays
<1>1. shand \in Answering
  BY ServiceIs DEF OnceInv, Inv, SrvWrite
<1>2. srv \in [Tcb -> SrvTcb] /\ shand.t \in Tcb /\ shand' = Idle /\ shand' \notin Answering
      /\ UNCHANGED <<sfree, scall>>
  BY <1>1 DEF OnceInv, Inv, SrvInv, SrvWrite, Answering, Idle
<1>3. /\ srv'[shand.t].state = shand.new /\ srv'[shand.t].peer = shand.peer
      /\ \A u \in Tcb : srv'[u].port = srv[u].port /\ srv'[u].used = srv[u].used
      /\ \A u \in Tcb \ {shand.t} : srv'[u].state = srv[u].state /\ srv'[u].peer = srv[u].peer
  BY <1>2 DEF SrvWrite, SrvTcb
<1>4. Used(srv') = Used(srv)
  BY <1>3 DEF Used
<1>5. (scall \in Serving => scall.t \in Tcb) /\ shand.new \in {"CONNECTED", "CLOSEWAIT"}
  BY <1>1 DEF Serving, Answering
<1>6. SrvOnce'
  BY <1>1, <1>2, <1>3, <1>4, <1>5 DEF OnceInv, SrvOnce
<1>7. Heard \subseteq Heard'
  BY <1>1, <1>2, <1>3 DEF OnceInv, SrvOnce, Heard
<1>8. Held \subseteq Held'
  BY <1>1, <1>2, <1>3 DEF OnceInv, SrvOnce, Held
<1> QED BY <1>6, <1>7, <1>8 DEF SrvStays

\* What is on its way, and what the client holds, stays justified.
LEMMA WireOnceKept ==
  ASSUME OnceInv, Heard \subseteq Heard', Held \subseteq Held', 
         toCli' = toCli \/ (toCli' = Tail(toCli) /\ toCli # <<>>)
  PROVE  WireOnce'
<1>1. toCli \in Seq(Reply)
  BY DEF OnceInv, Inv, WireInv
<1>2. \A i \in 1..Len(toCli') : \E j \in 1..Len(toCli) : toCli'[i] = toCli[j]
  <2>1. CASE toCli' = toCli
    BY <2>1
  <2>2. CASE toCli' = Tail(toCli) /\ toCli # <<>>
    <3>1. \A i \in 1..Len(toCli') : i + 1 \in 1..Len(toCli) /\ toCli'[i] = toCli[i + 1]
      BY <1>1, <2>2
    <3> QED BY <3>1
  <2> QED BY <2>1, <2>2
<1> QED BY <1>2 DEF OnceInv, WireOnce, Meant

LEMMA CliOnceKept ==
  ASSUME OnceInv, Heard \subseteq Heard', Held \subseteq Held', UNCHANGED <<cvars, chand>>
  PROVE  CliOnce'
BY DEF OnceInv, CliOnce, cvars

\* The client's steps leave the server's memory alone.
LEMMA NothingTold == ASSUME UNCHANGED <<srv, shand>> PROVE Heard \subseteq Heard' /\ Held' = Held
BY DEF Heard, Held

LEMMA CliOnceSock ==
  ASSUME Once, OnceInv, NEW p \in CliPort, CliSock(p)
  PROVE  CliOnce'
<1> DEFINE h == Head(cfree)
<1>1. h \in Tcb /\ ~cli[h].used /\ cli[h].port = NoPort
      /\ FreeInv(Used(cli) \cup {h}, Tail(cfree))
  BY OpenedIsNew DEF OnceInv, Inv, CliInv, CliOnce, CliSock
<1>2. cli' = [cli EXCEPT ![h] = [cli[h] EXCEPT !.used = TRUE, !.state = "CLOSED",
                                               !.port = p, !.told = "nothing"]]
      /\ csock' = [csock EXCEPT ![p] = h] /\ cfree' = Tail(cfree) /\ ccall' = Idle
      /\ UNCHANGED <<chand, srv, shand>>
  BY DEF CliSock, Opened, svars
<1>3. cli \in [Tcb -> CliTcb] /\ csock \in [CliPort -> Tcb \cup {None}] /\ NoPort \notin CliPort
      /\ (chand \in Writing => chand.t \in Tcb) /\ None \notin Tcb
  BY PortAssumption DEF OnceInv, Inv, CliInv, Writing, None, Tcb
<1>4. /\ cli'[h].used /\ cli'[h].state = "CLOSED" /\ cli'[h].port = p /\ cli'[h].told = "nothing"
      /\ \A t \in Tcb \ {h} : cli'[t] = cli[t]
  BY <1>1, <1>2, <1>3 DEF CliTcb
<1>5. Used(cli') = Used(cli) \cup {h}
  BY <1>1, <1>4 DEF Used
<1>6. FreeInv(Used(cli'), cfree')
  BY <1>1, <1>2, <1>5
<1>7. \A q \in CliPort : csock'[q] # None => cli'[csock'[q]].port = q
  BY <1>1, <1>2, <1>3, <1>4 DEF OnceInv, CliOnce
<1>8. Heard \subseteq Heard' /\ Held' = Held
  BY <1>2, NothingTold
<1>9. \A t \in Tcb : /\ cli'[t].state \in {"CONNECTED", "FINWAIT"} => cli'[t].port \in Held' \cup Fresh
                     /\ cli'[t].told = "CLOSED" => cli'[t].port \in Heard'
  BY <1>4, <1>8 DEF OnceInv, CliOnce
<1>10. chand \in Writing => chand.t # h /\ cli'[chand.t] = cli[chand.t]
  BY <1>1, <1>3, <1>4 DEF OnceInv, CliOnce
<1>11. ccall' \notin Trying
  BY <1>2 DEF Idle, Trying
<1> QED BY <1>2, <1>6, <1>7, <1>8, <1>9, <1>10, <1>11 DEF OnceInv, CliOnce

LEMMA CliOnceOpen ==
  ASSUME Once, OnceInv, NEW t \in Tcb,
         Disconnect(t) \/ CliClose(t) \/ \E p \in SrvPort : Connect(t, p)
  PROVE  CliOnce'
<1>1. cli \in [Tcb -> CliTcb] /\ (chand \in Writing => chand.t \in Tcb)
      /\ csock \in [CliPort -> Tcb \cup {None}]
  BY DEF OnceInv, Inv, CliInv, Writing
<1>2. UNCHANGED <<csock, chand, srv, shand>>
  BY DEF Disconnect, CliClose, Connect, svars
<1>3. Heard \subseteq Heard' /\ Held' = Held
  BY <1>2, NothingTold
<1>4. CASE Disconnect(t)
  <2>1. cli[t].state = "CONNECTED" /\ UNCHANGED <<cli, cfree>>
    BY <1>4 DEF Disconnect
  <2>2. ccall'.t = t /\ ccall'.mid = "FINWAIT" /\ ccall'.dest = "CLOSED"
    BY <1>4 DEF Disconnect, Try
  <2> QED BY <1>1, <1>2, <1>3, <2>1, <2>2 DEF OnceInv, CliOnce
<1>5. CASE CliClose(t)
  <2>1. cli[t].used /\ cli' = [cli EXCEPT ![t].used = FALSE] /\ cfree' = <<t>> \o cfree
        /\ ccall' \notin Trying
    BY <1>5 DEF CliClose, Trying
  <2>2. /\ ~cli'[t].used
        /\ \A u \in Tcb : /\ cli'[u].port = cli[u].port /\ cli'[u].peer = cli[u].peer
                          /\ cli'[u].state = cli[u].state /\ cli'[u].told = cli[u].told
        /\ \A u \in Tcb \ {t} : cli'[u].used = cli[u].used
    BY <1>1, <2>1 DEF CliTcb
  <2>3. Used(cli') = Used(cli) \ {t} /\ t \in Used(cli)
    BY <2>1, <2>2 DEF Used
  <2>4. FreeInv(Used(cli'), cfree')
    <3>1. cfree \in Seq(Tcb) /\ FreeInv(Used(cli), cfree)
      BY DEF OnceInv, Inv, CliInv, CliOnce
    <3>2. FreeInv(Used(cli) \ {t}, <<t>> \o cfree)
      BY <2>3, <3>1, PutFree
    <3> QED BY <2>1, <2>3, <3>2
  <2>5. \A p \in CliPort : csock'[p] # None => cli'[csock'[p]].port = p
    BY <1>1, <1>2, <2>2 DEF OnceInv, CliOnce
  <2>6. \A u \in Tcb :
           /\ cli'[u].state \in {"CONNECTED", "FINWAIT"} => cli'[u].port \in Held' \cup Fresh
           /\ cli'[u].told = "CLOSED" => cli'[u].port \in Heard'
    BY <1>3, <2>2 DEF OnceInv, CliOnce
  <2>7. chand \in Writing =>
           /\ cli'[chand.t].port \in CliPort
           /\ chand.new = "CLOSED" => cli'[chand.t].port \in Heard'
           /\ chand.new = "CONNECTED" => cli'[chand.t].port \in Held' \cup Fresh
    BY <1>1, <1>3, <2>2 DEF OnceInv, CliOnce
  <2> QED BY <1>2, <2>1, <2>4, <2>5, <2>6, <2>7 DEF CliOnce
<1>6. CASE \E p \in SrvPort : Connect(t, p)
  <2>1. PICK p \in SrvPort : Connect(t, p)
    BY <1>6
  <2>2. cli' = [cli EXCEPT ![t].peer = p] /\ UNCHANGED cfree
        /\ ccall'.mid = "SYNSENT" /\ ccall'.dest = "CONNECTED"
    BY <2>1 DEF Connect, Try
  <2>3. /\ cli'[t].peer = p /\ \A u \in Tcb \ {t} : cli'[u] = cli[u]
        /\ \A u \in Tcb : /\ cli'[u].port = cli[u].port /\ cli'[u].used = cli[u].used
                          /\ cli'[u].state = cli[u].state /\ cli'[u].told = cli[u].told
    BY <1>1, <2>2 DEF CliTcb
  <2>4. Used(cli') = Used(cli)
    BY <2>3 DEF Used
  <2> QED BY <1>1, <1>2, <1>3, <2>2, <2>3, <2>4 DEF OnceInv, CliOnce
<1> QED BY <1>4, <1>5, <1>6

\* The calls write the state and what the application is told.
LEMMA CliOnceCall == ASSUME Once, OnceInv, CliCall PROVE CliOnce'
<1>1. cli \in [Tcb -> CliTcb] /\ (chand \in Writing => chand.t \in Tcb)
      /\ csock \in [CliPort -> Tcb \cup {None}] /\ ccall \in Trying \cup Closing /\ ccall.t \in Tcb
  BY CallIs DEF OnceInv, Inv, CliInv, Writing, Trying, Closing, CliCall, SendTry, EnterMid, Wake,
                GiveUp, CliClosed
<1>2. UNCHANGED <<csock, cfree, chand, srv, shand>>
  BY DEF CliCall, SendTry, EnterMid, Wake, GiveUp, CliClosed, svars
<1>3. Heard \subseteq Heard' /\ Held' = Held
  BY <1>2, NothingTold
<1> DEFINE Same == \A u \in Tcb : cli'[u].port = cli[u].port /\ cli'[u].peer = cli[u].peer
                                  /\ cli'[u].used = cli[u].used
<1>4. ASSUME Same PROVE FreeInv(Used(cli'), cfree')
                        /\ \A p \in CliPort : csock'[p] # None => cli'[csock'[p]].port = p
  <2>1. Used(cli') = Used(cli)
    BY <1>4 DEF Used
  <2> QED BY <1>1, <1>2, <1>4, <2>1 DEF OnceInv, CliOnce
<1>5. CASE SendTry
  <2>1. ccall \in Trying /\ cli' = cli
    BY <1>5, CallIs DEF OnceInv, Inv, SendTry
  <2>2. ccall'.t = ccall.t /\ ccall'.mid = ccall.mid /\ ccall'.dest = ccall.dest
    BY <1>5, <2>1 DEF SendTry, Trying
  <2> QED BY <1>2, <1>3, <2>1, <2>2 DEF OnceInv, CliOnce
<1>6. CASE EnterMid
  <2>1. ccall \in Trying /\ cli' = [cli EXCEPT ![ccall.t].state = ccall.mid]
    BY <1>6, CallIs DEF OnceInv, Inv, EnterMid
  <2>2. ccall'.t = ccall.t /\ ccall'.mid = ccall.mid /\ ccall'.dest = ccall.dest
    BY <1>6, <2>1 DEF EnterMid, Trying
  <2>3. /\ Same /\ cli'[ccall.t].state = ccall.mid
        /\ \A u \in Tcb : cli'[u].told = cli[u].told
        /\ \A u \in Tcb \ {ccall.t} : cli'[u].state = cli[u].state
    BY <1>1, <2>1 DEF CliTcb
  <2> QED BY <1>1, <1>2, <1>3, <1>4, <2>1, <2>2, <2>3 DEF OnceInv, CliOnce
<1>7. CASE Wake
  <2>1. ccall \in Trying
    BY <1>7, CallIs DEF OnceInv, Inv, Wake
  <2>2. CASE cli[ccall.t].state = ccall.dest
    <3>1. cli' = [cli EXCEPT ![ccall.t].told = ccall.dest] /\ ccall' \notin Trying
      BY <1>7, <2>2 DEF Wake, Return, Idle, Trying
    <3>2. /\ Same /\ cli'[ccall.t].told = ccall.dest
          /\ \A u \in Tcb : cli'[u].state = cli[u].state
          /\ \A u \in Tcb \ {ccall.t} : cli'[u].told = cli[u].told
      BY <1>1, <3>1 DEF CliTcb
    <3>3. ccall.dest = "CLOSED" => cli[ccall.t].port \in Heard
      BY <2>1, <2>2 DEF OnceInv, CliOnce
    <3> QED BY <1>1, <1>2, <1>3, <1>4, <3>1, <3>2, <3>3 DEF OnceInv, CliOnce
  <2>3. CASE cli[ccall.t].state # ccall.dest
    <3>1. cli' = cli /\ ccall' = [ccall EXCEPT !.at = "try"]
      BY <1>7, <2>3 DEF Wake
    <3>2. ccall'.t = ccall.t /\ ccall'.mid = ccall.mid /\ ccall'.dest = ccall.dest
      BY <2>1, <3>1 DEF Trying
    <3> QED BY <1>2, <1>3, <2>1, <3>1, <3>2 DEF OnceInv, CliOnce
  <2> QED BY <2>2, <2>3
<1>8. CASE GiveUp \/ CliClosed
  <2>1. ccall' \notin Trying
    BY <1>8 DEF GiveUp, CliClosed, Return, Idle, Trying
  <2>2. /\ Same /\ cli'[ccall.t].told \in {"failed", "closed"}
        /\ cli'[ccall.t].state \in {"CLOSED", cli[ccall.t].state}
        /\ \A u \in Tcb \ {ccall.t} : cli'[u].told = cli[u].told /\ cli'[u].state = cli[u].state
    BY <1>1, <1>8 DEF GiveUp, CliClosed, Return, CliTcb
  <2> QED BY <1>1, <1>2, <1>3, <1>4, <2>1, <2>2 DEF OnceInv, CliOnce
<1> QED BY <1>5, <1>6, <1>7, <1>8 DEF CliCall

LEMMA CliOnceReceive == ASSUME Once, OnceInv, CliReceive PROVE CliOnce'
<1> DEFINE seg == Head(toCli)
           t == SockOf(csock, seg.dst)
           new == CliAnswer(cli[t].state, seg.type)
<1>1. toCli # <<>> /\ UNCHANGED <<cvars, srv, shand>>
  BY DEF CliReceive, svars
<1>2. Heard \subseteq Heard' /\ Held' = Held
  BY <1>1, NothingTold
<1>3. CASE UNCHANGED chand
  BY <1>1, <1>2, <1>3, CliOnceKept
<1>4. CASE /\ t # None /\ cli[t].used /\ new # "ignored"
           /\ chand' = [at |-> "write", t |-> t, new |-> new]
  <2>1. t \in Tcb /\ seg.dst \in CliPort /\ cli[t].port = seg.dst
    BY <1>4 DEF SockOf, OnceInv, Inv, CliInv, CliOnce
  <2>2. \/ new = "CONNECTED" /\ seg.type = "SYNACK"
        \/ new = "CLOSED" /\ seg.type = "FINACK"
    BY <1>4 DEF CliAnswer
  <2>3. Meant(seg)
    BY <1>1 DEF OnceInv, WireOnce, Inv, WireInv
  <2> QED BY <1>1, <1>2, <1>4, <2>1, <2>2, <2>3 DEF OnceInv, CliOnce, Meant, cvars
<1> QED BY <1>3, <1>4 DEF CliReceive

LEMMA CliOnceWrite == ASSUME Once, OnceInv, CliWrite PROVE CliOnce'
<1>1. chand \in Writing
  BY CallIs DEF OnceInv, Inv, CliWrite
<1>2. /\ cli \in [Tcb -> CliTcb] /\ csock \in [CliPort -> Tcb \cup {None}] /\ chand.t \in Tcb
      /\ chand.new \in {"CONNECTED", "CLOSED"} /\ chand' = Idle /\ chand' \notin Writing
      /\ UNCHANGED <<csock, cfree, ccall, srv, shand>>
      /\ ccall \in Trying => ccall.t \in Tcb
  BY <1>1 DEF OnceInv, Inv, CliInv, CliWrite, Writing, Trying, Idle, svars
<1>3. Heard \subseteq Heard' /\ Held' = Held
  BY <1>2, NothingTold
<1>4. /\ cli'[chand.t].state = chand.new
      /\ \A u \in Tcb : /\ cli'[u].port = cli[u].port /\ cli'[u].peer = cli[u].peer
                        /\ cli'[u].used = cli[u].used /\ cli'[u].told = cli[u].told
      /\ \A u \in Tcb \ {chand.t} : cli'[u].state = cli[u].state
  BY <1>2 DEF CliWrite, CliTcb
<1>5. Used(cli') = Used(cli)
  BY <1>4 DEF Used
<1> QED BY <1>1, <1>2, <1>3, <1>4, <1>5 DEF OnceInv, CliOnce

LEMMA OnceNext == ASSUME Once, OnceInv, [Next]_vars PROVE OnceInv'
<1>1. Inv'
  BY NextInv DEF OnceInv
<1>2. CASE UNCHANGED vars
  <2>1. Heard \subseteq Heard' /\ Held' = Held /\ UNCHANGED <<cvars, chand, toCli, svars, shand>>
    BY <1>2, NothingTold DEF vars, svars
  <2>2. SrvOnce'
    BY <2>1 DEF OnceInv, SrvOnce, svars
  <2> QED BY <1>1, <2>1, <2>2, CliOnceKept, WireOnceKept DEF OnceInv
<1>3. CASE CliApp \/ CliCall \/ CliReceive \/ CliWrite
  <2>1. UNCHANGED <<svars, shand>> /\ (toCli' = toCli \/ (toCli' = Tail(toCli) /\ toCli # <<>>))
    BY <1>3 DEF CliApp, CliSock, Connect, Disconnect, CliClose, CliCall, SendTry, EnterMid, Wake,
                GiveUp, CliClosed, CliReceive, CliWrite
  <2>2. Heard \subseteq Heard' /\ Held' = Held
    BY <2>1, NothingTold DEF svars
  <2>3. SrvOnce'
    BY <2>1 DEF OnceInv, SrvOnce, svars
  <2>4. CliOnce'
    BY <1>3, CliOnceSock, CliOnceOpen, CliOnceCall, CliOnceReceive, CliOnceWrite DEF CliApp
  <2> QED BY <1>1, <2>1, <2>2, <2>3, <2>4, WireOnceKept DEF OnceInv
<1>4. CASE SrvApp \/ SrvCall \/ SrvReceive \/ SrvWrite
  <2>1. UNCHANGED <<cvars, chand, toCli>>
    BY <1>4 DEF SrvApp, SrvSock, Accept, SrvClose, SrvCall, Accepted, SrvFree, SrvClosed,
                SrvReceive, SrvWrite
  <2>2. SrvStays
    BY <1>4, SrvOnceSock, SrvOnceOther, SrvOnceReceive, SrvOnceWrite DEF SrvApp
  <2> QED BY <1>1, <2>1, <2>2, CliOnceKept, WireOnceKept DEF OnceInv, SrvStays
<1>5. CASE SendAnswer
  <2>1. UNCHANGED <<cvars, chand>>
    BY <1>5 DEF SendAnswer
  <2> QED BY <1>1, <1>5, <2>1, SrvOnceAnswer, CliOnceKept DEF OnceInv, SrvStays
<1> QED BY <1>2, <1>3, <1>4, <1>5 DEF Next, Handlers

-------------------------------------------------------------------------------
(***************************************************************************)
(* Who has dialled whom.                                                   *)
(***************************************************************************)

\* The ports of the client's sockets, with the ports that they have dialled.
Dials == {d \in CliPort \X SrvPort : \E t \in Tcb : d = <<cli[t].port, cli[t].peer>>}

\* The client has one socket for a port.
PortsOnce == \A t, u \in Tcb : cli[t].port = cli[u].port /\ cli[t].port \in CliPort => t = u

\* What the server knows of a client, in its TCBs and in its seghandler's hands.
SrvKnows ==
  /\ \A u \in Tcb : srv[u].state \in {"CONNECTED", "CLOSEWAIT"}
                      => <<srv[u].peer, srv[u].port>> \in Dials
  /\ shand \in Answering => <<shand.peer, srv[shand.t].port>> \in Dials
  /\ \A p \in SrvPort : ssock[p] # None => srv[ssock[p]].port = p

WireDialled == \A i \in 1..Len(toSrv) : <<toSrv[i].src, toSrv[i].dst>> \in Dials

DialInv == PortsOnce /\ SrvKnows /\ WireDialled

LEMMA InitDial == ASSUME Init PROVE DialInv
<1>1. \A t \in Tcb : cli[t].port = NoPort /\ srv[t].state = "CLOSED"
  BY DEF Init
<1>2. shand \notin Answering /\ toSrv = <<>> /\ \A p \in SrvPort : ssock[p] = None
  BY DEF Init, Answering, Idle
<1> QED BY <1>1, <1>2, PortAssumption DEF DialInv, PortsOnce, SrvKnows, WireDialled

\* Who has dialled has dialled for good.
DialsStay == PortsOnce' /\ Dials \subseteq Dials'

LEMMA DialSock ==
  ASSUME Once, OnceInv, DialInv, NEW p \in CliPort, CliSock(p)
  PROVE  DialsStay
<1> DEFINE h == Head(cfree)
<1>1. h \in Tcb /\ ~cli[h].used /\ cli[h].port = NoPort
  BY OpenedIsNew DEF OnceInv, Inv, CliInv, CliOnce, CliSock
<1>2. cli' = [cli EXCEPT ![h] = [cli[h] EXCEPT !.used = TRUE, !.state = "CLOSED",
                                               !.port = p, !.told = "nothing"]]
  BY DEF CliSock, Opened
<1>3. cli \in [Tcb -> CliTcb] /\ NoPort \notin CliPort
  BY PortAssumption DEF OnceInv, Inv, CliInv
<1>4. cli'[h].port = p /\ \A t \in Tcb \ {h} : cli'[t] = cli[t]
  BY <1>1, <1>2, <1>3 DEF CliTcb
<1>5. \A t \in Tcb : cli[t].port # p
  BY <1>3 DEF CliSock, MayOpen, Once
<1>6. PortsOnce'
  BY <1>4, <1>5 DEF DialInv, PortsOnce
<1>7. ASSUME NEW d \in Dials PROVE d \in Dials'
  <2>1. PICK t \in Tcb : d = <<cli[t].port, cli[t].peer>>
    BY DEF Dials
  <2>2. cli[t].port \in CliPort
    BY <2>1 DEF Dials
  <2>3. t # h
    BY <1>1, <1>3, <2>2
  <2> QED BY <1>4, <2>1, <2>3 DEF Dials
<1> QED BY <1>6, <1>7 DEF DialsStay

LEMMA DialConnect ==
  ASSUME Once, OnceInv, DialInv, NEW t \in Tcb, NEW p \in SrvPort, Connect(t, p)
  PROVE  DialsStay
<1>1. cli \in [Tcb -> CliTcb] /\ NoPort \notin SrvPort
  BY PortAssumption DEF OnceInv, Inv, CliInv
<1>2. cli' = [cli EXCEPT ![t].peer = p] /\ cli[t].peer \in {NoPort, p}
  BY DEF Connect, Once
<1>3. /\ \A u \in Tcb : cli'[u].port = cli[u].port
      /\ cli'[t].peer = p /\ \A u \in Tcb \ {t} : cli'[u].peer = cli[u].peer
  BY <1>1, <1>2 DEF CliTcb
<1>4. PortsOnce'
  BY <1>3 DEF DialInv, PortsOnce
<1>5. ASSUME NEW d \in Dials PROVE d \in Dials'
  <2>1. PICK u \in Tcb : d = <<cli[u].port, cli[u].peer>>
    BY DEF Dials
  <2>2. cli[u].peer \in SrvPort
    BY <2>1 DEF Dials
  <2>3. cli'[u].port = cli[u].port /\ cli'[u].peer = cli[u].peer
    BY <1>1, <1>2, <1>3, <2>2
  <2> QED BY <2>1, <2>3 DEF Dials
<1> QED BY <1>4, <1>5 DEF DialsStay

\* The other steps write no port of the client.
LEMMA DialOther ==
  ASSUME Once, OnceInv, DialInv,
         \/ \E t \in Tcb : Disconnect(t) \/ CliClose(t)
         \/ CliCall \/ CliReceive \/ CliWrite \/ SrvApp \/ SrvCall \/ SrvReceive
         \/ SendAnswer \/ SrvWrite \/ UNCHANGED vars
  PROVE  DialsStay
<1>1. cli \in [Tcb -> CliTcb]
  BY DEF OnceInv, Inv, CliInv
<1> DEFINE Same == \A u \in Tcb : cli'[u].port = cli[u].port /\ cli'[u].peer = cli[u].peer
<1>2. CASE \E t \in Tcb : Disconnect(t) \/ CliClose(t)
  <2>1. Same
    BY <1>1, <1>2 DEF Disconnect, CliClose, CliTcb
  <2> QED BY <2>1 DEF DialsStay, DialInv, PortsOnce, Dials
<1>3. CASE CliCall \/ CliWrite
  <2>1. Same
    BY <1>1, <1>3 DEF CliCall, SendTry, EnterMid, Wake, GiveUp, CliClosed, CliWrite, Return, CliTcb
  <2> QED BY <2>1 DEF DialsStay, DialInv, PortsOnce, Dials
<1>4. CASE CliReceive \/ SrvApp \/ SrvCall \/ SrvReceive \/ SendAnswer \/ SrvWrite \/ UNCHANGED vars
  <2>1. cli' = cli
    BY <1>4 DEF CliReceive, SrvApp, SrvSock, Accept, SrvClose, SrvCall, Accepted, SrvFree,
                SrvClosed, SrvReceive, SendAnswer, SrvWrite, vars, cvars
  <2> QED BY <2>1 DEF DialsStay, DialInv, PortsOnce, Dials
<1> QED BY <1>2, <1>3, <1>4

LEMMA DialStep == ASSUME Once, OnceInv, DialInv, [Next]_vars PROVE DialsStay
BY DialSock, DialConnect, DialOther DEF Next, CliApp, Handlers

LEMMA KnowsKept ==
  ASSUME SrvKnows, Dials \subseteq Dials', UNCHANGED <<srv, ssock, shand>>
  PROVE  SrvKnows'
BY DEF SrvKnows, Answering

\* The steps of the server.
LEMMA KnowsSock ==
  ASSUME Once, OnceInv, DialInv, Dials \subseteq Dials', NEW p \in SrvPort, SrvSock(p)
  PROVE  SrvKnows'
<1> DEFINE h == Head(sfree)
<1>1. h \in Tcb /\ ~srv[h].used /\ srv[h].port = NoPort
  BY OpenedIsNew DEF OnceInv, Inv, SrvInv, SrvOnce, SrvSock
<1>2. srv' = [srv EXCEPT ![h] = [srv[h] EXCEPT !.used = TRUE, !.state = "CLOSED",
                                               !.port = p, !.told = "nothing"]]
      /\ ssock' = [ssock EXCEPT ![p] = h] /\ UNCHANGED shand
  BY DEF SrvSock, Opened
<1>3. /\ srv \in [Tcb -> SrvTcb] /\ ssock \in [SrvPort -> Tcb \cup {None}]
      /\ NoPort \notin SrvPort /\ (shand \in Answering => shand.t \in Tcb)
  BY PortAssumption DEF OnceInv, Inv, SrvInv, Answering
<1>4. /\ srv'[h].state = "CLOSED" /\ srv'[h].port = p
      /\ \A u \in Tcb \ {h} : srv'[u] = srv[u]
  BY <1>1, <1>2, <1>3 DEF SrvTcb
<1>5. \A u \in Tcb : srv'[u].state \in {"CONNECTED", "CLOSEWAIT"}
                       => <<srv'[u].peer, srv'[u].port>> \in Dials'
  BY <1>4 DEF DialInv, SrvKnows
<1>6. shand \in Answering => shand.t # h /\ srv'[shand.t] = srv[shand.t]
  BY <1>1, <1>3, <1>4 DEF OnceInv, SrvOnce
<1>7. \A q \in SrvPort : ssock'[q] # None => srv'[ssock'[q]].port = q
  BY <1>1, <1>2, <1>3, <1>4 DEF DialInv, SrvKnows
<1>8. shand' \in Answering => <<shand'.peer, srv'[shand'.t].port>> \in Dials'
  BY <1>2, <1>6 DEF DialInv, SrvKnows
<1> QED BY <1>5, <1>7, <1>8 DEF SrvKnows, Answering

\* These put no socket into CONNECTED or CLOSEWAIT.
LEMMA KnowsOther ==
  ASSUME Once, OnceInv, DialInv, Dials \subseteq Dials',
         (\E t \in Tcb : Accept(t) \/ SrvClose(t)) \/ SrvCall
  PROVE  SrvKnows'
<1>1. srv \in [Tcb -> SrvTcb] /\ ssock \in [SrvPort -> Tcb \cup {None}]
      /\ (shand \in Answering => shand.t \in Tcb) /\ UNCHANGED <<shand, ssock>>
  BY DEF OnceInv, Inv, SrvInv, Answering, Accept, SrvClose, SrvCall, Accepted, SrvFree, SrvClosed
<1>2. \A u \in Tcb : /\ srv'[u].port = srv[u].port /\ srv'[u].peer = srv[u].peer
                     /\ srv'[u].state \in {srv[u].state, "LISTENING"}
  BY <1>1 DEF Accept, SrvClose, SrvCall, Accepted, SrvFree, SrvClosed, SrvTcb
<1>3. \A u \in Tcb : srv'[u].state \in {"CONNECTED", "CLOSEWAIT"}
                       => <<srv'[u].peer, srv'[u].port>> \in Dials'
  BY <1>2 DEF DialInv, SrvKnows
<1>4. shand' \in Answering => <<shand'.peer, srv'[shand'.t].port>> \in Dials'
  BY <1>1, <1>2 DEF DialInv, SrvKnows
<1>5. \A q \in SrvPort : ssock'[q] # None => srv'[ssock'[q]].port = q
  BY <1>1, <1>2 DEF DialInv, SrvKnows
<1> QED BY <1>3, <1>4, <1>5 DEF SrvKnows, Answering

LEMMA KnowsReceive ==
  ASSUME Once, OnceInv, DialInv, Dials \subseteq Dials', SrvReceive
  PROVE  SrvKnows'
<1> DEFINE seg == Head(toSrv)
           t == SockOf(ssock, seg.dst)
           answer == SrvAnswer(srv[t].state, seg.type)
<1>1. toSrv # <<>> /\ UNCHANGED svars
  BY DEF SrvReceive
<1>2. toSrv \in Seq(Request) /\ seg = toSrv[1] /\ 1 \in 1..Len(toSrv) /\ seg \in Request
  BY <1>1 DEF OnceInv, Inv, WireInv
<1>3. <<seg.src, seg.dst>> \in Dials
  BY <1>2 DEF DialInv, WireDialled
<1>4. CASE UNCHANGED shand
  BY <1>1, <1>4, KnowsKept DEF DialInv, svars
<1>5. CASE /\ t # None /\ srv[t].used /\ answer # "ignored"
           /\ shand' = [at |-> "answer", t |-> t,
                seg |-> [type |-> answer, src |-> srv[t].port, dst |-> ReplyTo(t, seg)],
                new |-> IF answer = "SYNACK" THEN "CONNECTED" ELSE "CLOSEWAIT",
                peer |-> Caller(t, seg)]
  <2>1. t \in Tcb /\ srv[t].port = seg.dst
    BY <1>2, <1>5 DEF SockOf, OnceInv, Inv, SrvInv, Request, DialInv, SrvKnows
  <2>2. srv[t].state \in {"LISTENING", "CONNECTED", "CLOSEWAIT"}
    BY <1>5 DEF SrvAnswer
  <2>3. <<Caller(t, seg), srv[t].port>> \in Dials
    BY <1>3, <2>1, <2>2 DEF Caller, DialInv, SrvKnows
  <2>4. <<shand'.peer, srv'[shand'.t].port>> \in Dials'
    BY <1>1, <1>5, <2>3 DEF svars
  <2> QED BY <1>1, <2>4 DEF DialInv, SrvKnows, svars, Answering
<1> QED BY <1>4, <1>5 DEF SrvReceive

LEMMA KnowsAnswer ==
  ASSUME Once, OnceInv, DialInv, Dials \subseteq Dials', SendAnswer
  PROVE  SrvKnows'
<1>1. shand \in Answering /\ UNCHANGED svars
  BY ServiceIs DEF OnceInv, Inv, SendAnswer
<1>2. shand'.t = shand.t /\ shand'.peer = shand.peer
  BY <1>1 DEF SendAnswer, Answering
<1> QED BY <1>1, <1>2 DEF DialInv, SrvKnows, svars, Answering

LEMMA KnowsWrite ==
  ASSUME Once, OnceInv, DialInv, Dials \subseteq Dials', SrvWrite
  PROVE  SrvKnows'
<1>1. shand \in Answering
  BY ServiceIs DEF OnceInv, Inv, SrvWrite
<1>2. srv \in [Tcb -> SrvTcb] /\ shand.t \in Tcb /\ shand' \notin Answering /\ UNCHANGED ssock
      /\ ssock \in [SrvPort -> Tcb \cup {None}]
  BY <1>1 DEF OnceInv, Inv, SrvInv, SrvWrite, Answering, Idle
<1>3. /\ srv'[shand.t].peer = shand.peer
      /\ \A u \in Tcb : srv'[u].port = srv[u].port
      /\ \A u \in Tcb \ {shand.t} : srv'[u].state = srv[u].state /\ srv'[u].peer = srv[u].peer
  BY <1>2 DEF SrvWrite, SrvTcb
<1>4. <<shand.peer, srv[shand.t].port>> \in Dials'
  BY <1>1 DEF DialInv, SrvKnows
<1>5. \A u \in Tcb : srv'[u].state \in {"CONNECTED", "CLOSEWAIT"}
                       => <<srv'[u].peer, srv'[u].port>> \in Dials'
  BY <1>3, <1>4 DEF DialInv, SrvKnows
<1>6. \A q \in SrvPort : ssock'[q] # None => srv'[ssock'[q]].port = q
  BY <1>2, <1>3 DEF DialInv, SrvKnows
<1> QED BY <1>2, <1>5, <1>6 DEF SrvKnows, Answering

LEMMA KnowsStep == ASSUME Once, OnceInv, DialInv, [Next]_vars, Dials \subseteq Dials' PROVE SrvKnows'
<1>1. CASE CliApp \/ CliCall \/ CliReceive \/ CliWrite \/ UNCHANGED vars
  <2>1. UNCHANGED <<srv, ssock, shand>>
    BY <1>1 DEF CliApp, CliSock, Connect, Disconnect, CliClose, CliCall, SendTry, EnterMid, Wake,
                GiveUp, CliClosed, CliReceive, CliWrite, vars, svars
  <2> QED BY <2>1, KnowsKept DEF DialInv
<1>2. CASE SrvApp \/ SrvCall
  BY <1>2, KnowsSock, KnowsOther DEF SrvApp
<1>3. CASE SrvReceive \/ SendAnswer \/ SrvWrite
  BY <1>3, KnowsReceive, KnowsAnswer, KnowsWrite
<1> QED BY <1>1, <1>2, <1>3 DEF Next, Handlers

\* What is on its way to the server has been dialled.
LEMMA WireStep == ASSUME Once, OnceInv, DialInv, [Next]_vars, Dials \subseteq Dials' PROVE WireDialled'
<1>1. toSrv \in Seq(Request)
  BY DEF OnceInv, Inv, WireInv
<1>2. CASE SendTry
  <2> DEFINE new == [type |-> ccall.type, src |-> cli[ccall.t].port, dst |-> cli[ccall.t].peer]
  <2>1. ccall \in Trying /\ toSrv' = Append(toSrv, new)
    BY <1>2, CallIs DEF OnceInv, Inv, SendTry
  <2>2. ccall.t \in Tcb /\ new \in Request
    BY <2>1 DEF Trying, OnceInv, Inv, CliInv, Request
  <2>3. <<new.src, new.dst>> \in Dials
    BY <2>2 DEF Dials, Request
  <2>4. \A i \in 1..Len(toSrv') : \/ i \in 1..Len(toSrv) /\ toSrv'[i] = toSrv[i]
                                 \/ toSrv'[i] = new
    <3> HIDE DEF new
    <3> QED BY <1>1, <2>1, <2>2
  <2> HIDE DEF new
  <2> QED BY <2>3, <2>4 DEF DialInv, WireDialled
<1>3. CASE SrvReceive
  <2>1. toSrv' = Tail(toSrv) /\ toSrv # <<>>
    BY <1>3 DEF SrvReceive
  <2>2. \A i \in 1..Len(toSrv') : i + 1 \in 1..Len(toSrv) /\ toSrv'[i] = toSrv[i + 1]
    BY <1>1, <2>1
  <2> QED BY <2>2 DEF DialInv, WireDialled
<1>4. CASE ~SendTry /\ ~SrvReceive
  <2>1. toSrv' = toSrv
    BY <1>4 DEF Next, CliApp, CliSock, Connect, Disconnect, CliClose, CliCall, EnterMid, Wake,
                GiveUp, CliClosed, SrvApp, SrvSock, Accept, SrvClose, SrvCall, Accepted, SrvFree,
                SrvClosed, Handlers, CliReceive, CliWrite, SendAnswer, SrvWrite, vars
  <2> QED BY <2>1 DEF DialInv, WireDialled
<1> QED BY <1>2, <1>3, <1>4

LEMMA NextDial == ASSUME Once, OnceInv, DialInv, [Next]_vars PROVE DialInv'
<1>1. PortsOnce' /\ Dials \subseteq Dials'
  BY DialStep DEF DialsStay
<1> QED BY <1>1, KnowsStep, WireStep DEF DialInv

LEMMA AlwaysDials == ASSUME Once PROVE Spec => [](OnceInv /\ DialInv)
<1>1. Init => OnceInv /\ DialInv
  BY Once, OnceInit, InitDial
<1>2. OnceInv /\ DialInv /\ [Next]_vars => (OnceInv /\ DialInv)'
  BY Once, OnceNext, NextDial
<1> QED BY <1>1, <1>2, PTL DEF Spec

\* When every TCB is used once, a client that is connected is connected to
\* something: a socket of the port that it has dialled has accepted it and no other,
\* however answers are lost or late and however many sockets and ports there are.
\* Clients of ports that malloc() may leave in client_portNum are excepted, as the
\* server answers the first SYN to such a port (srt_server.c:197).
THEOREM ConnectionsAreReal == ASSUME Once PROVE Spec => []NoPhantom
<1>1. ASSUME OnceInv, DialInv PROVE NoPhantom
  <2>1. ASSUME NEW t \in Tcb, cli[t].state \in {"CONNECTED", "FINWAIT"}, cli[t].port \notin Fresh
        PROVE  \E u \in Tcb : Accepts(u, t)
    <3>1. cli[t].port \in Held
      BY <1>1, <2>1 DEF OnceInv, CliOnce
    <3>2. PICK u \in Tcb : /\ srv[u].port \in SrvPort /\ srv[u].peer = cli[t].port
                           /\ srv[u].state \in {"CONNECTED", "CLOSEWAIT"}
      BY <3>1 DEF Held
    <3>3. <<cli[t].port, srv[u].port>> \in Dials
      BY <1>1, <3>2 DEF DialInv, SrvKnows
    <3>4. cli[t].peer = srv[u].port
      BY <1>1, <3>3 DEF Dials, DialInv, PortsOnce
    <3> QED BY <3>2, <3>4 DEF Accepts
  <2> QED BY <2>1 DEF NoPhantom
<1> QED BY <1>1, AlwaysDials, PTL

\* When every TCB is used once, and whatever malloc() has left in client_portNum,
\* disconnect() returns 0 only when the server has seen the FIN: the socket that has
\* accepted the client is in CLOSEWAIT, or about to be.
THEOREM DisconnectsAreSeen == ASSUME Once PROVE Spec => []FinSeen
<1>1. ASSUME OnceInv, DialInv PROVE FinSeen
  <2>1. ASSUME NEW t \in Tcb, cli[t].told = "CLOSED"
        PROVE  \E u \in Tcb : /\ srv[u].port = cli[t].peer /\ srv[u].peer = cli[t].port
                              /\ \/ srv[u].state = "CLOSEWAIT"
                                 \/ /\ shand.at = "write" /\ shand.t = u
                                    /\ shand.new = "CLOSEWAIT"
    <3>1. cli[t].port \in Heard
      BY <1>1, <2>1 DEF OnceInv, CliOnce
    <3>2. PICK u \in Tcb : /\ srv[u].peer = cli[t].port
                           /\ \/ srv[u].state = "CLOSEWAIT"
                              \/ /\ shand.at = "write" /\ shand.t = u
                                 /\ shand.new = "CLOSEWAIT"
      BY <3>1 DEF Heard
    <3>3. srv[u].state \in {"CONNECTED", "CLOSEWAIT"}
      BY <1>1, <3>2, ServiceIs DEF OnceInv, Inv, SrvOnce
    <3>4. <<cli[t].port, srv[u].port>> \in Dials
      BY <1>1, <3>2, <3>3 DEF DialInv, SrvKnows
    <3>5. cli[t].peer = srv[u].port
      BY <1>1, <3>4 DEF Dials, DialInv, PortsOnce
    <3> QED BY <3>2, <3>5
  <2> QED BY <2>1 DEF FinSeen
<1> QED BY <1>1, AlwaysDials, PTL
===============================================================================
