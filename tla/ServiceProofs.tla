----------------------------- MODULE ServiceProofs -----------------------------
(***************************************************************************)
(* Proofs about the web proxy, for every set of connections and hosts: its *)
(* log is exact (LogEntriesAreExact), it leaks nothing (NothingIsLeaked),  *)
(* and a request that goes to a wrong host goes to one that another thread *)
(* has resolved since (OnlyOthersMisdirect).  And about the verdicts of the *)
(* game: who wins beats who loses (WinnersBeatLosers), and a game in which *)
(* each has cast once is judged by the rules (RegularGamesAreFair).  And   *)
(* about the sessions of its server, for any sizes: the answers to clients *)
(* that follow one another at one address (ForeignAnswersComeFirst) arrive *)
(* whole (ResponsesArriveWhole), and so do commands, however the stream is *)
(* cut (CommandsArriveInOrder).  And about the rio functions: bytes stay   *)
(* in order (BytesStayInOrder), and what rio_readlineb() returns about a   *)
(* line (LinesAreMeasured).                                                *)
(***************************************************************************)
EXTENDS Proxy, FiniteSetTheorems, SequenceTheorems, WellFoundedInduction, TLAPS

(* The proxy.  Each of its steps moves one thread; what the others rely on *)
(* is the semaphore, whose section has at most one thread (OneInSection),  *)
(* and that a host name, once parsed, stays.                               *)

Before  == {"none", "read"}
Serving == {"headers", "reply", "log", "write", "unlock", "close"}
Opening == {"resolve", "connect"}
Places  == Before \cup {"socket", "done"} \cup Opening \cup Serving

Past    == {c \in Conns : pc[c] \in {"unlock", "close", "done"}}
Section == {c \in Conns : pc[c] \in {"write", "unlock"}}

PlacesOK == pc \in [Conns -> Places] /\ between \in [Conns -> SUBSET (Hosts \cup {NoHost})]
              /\ hostname \in [Conns -> Hosts \cup {NoHost}]
              /\ client \in [Conns -> Hosts \cup {NoHost}] /\ hostent \in Hosts \cup {NoHost}
              /\ request \in [Conns -> Requests]

\* The semaphore counts the thread in its section, of which there is one at most.
OneInSection == \/ log_mutex = 1 /\ Section = {}
                \/ log_mutex = 0 /\ \E c \in Conns : Section = {c}

\* The log holds each thread that is past its write, once.
LogHolds ==
  /\ log_file \in Seq(Conns) /\ ToSet(log_file) = Past
  /\ IsFiniteSet(Past) /\ Len(log_file) = Cardinality(Past)

LogInv == PlacesOK /\ OneInSection /\ LogHolds

\* The threads that are served, and those that have a socket for their server.
Active == {c \in Conns : pc[c] \notin {"none", "done"}}
Connected == {c \in Conns : pc[c] \in Opening \cup Serving}

\* What they hold: a descriptor each to the browser, and one to the server.
Owned ==
  up => /\ \A x : x \in fds <=> \/ \E c \in Active : x = <<c, "browser">>
                                \/ \E c \in Connected : x = <<c, "server">>
        /\ blocks = Active

\* A thread has no server before it connects to one; when it is about to, the static
\* result is its own host or one that was resolved since.
HostsInv ==
  \A c \in Conns :
    /\ pc[c] \in Before \cup {"socket"} \cup Opening => client[c] = NoHost
    /\ pc[c] = "connect" => hostent \in {hostname[c]} \cup between[c]

-------------------------------------------------------------------------------
\* What a step does to the places of the threads.
LEMMA PlaceStep ==
  ASSUME PlacesOK, [Next]_vars
  PROVE  /\ PlacesOK'
         /\ \/ UNCHANGED <<pc, log_mutex, log_file>>
            \/ \E c \in Conns, q \in Places :
                 /\ pc' = [pc EXCEPT ![c] = q]
                 /\ \/ /\ pc[c] = "log" /\ q = "write" /\ log_mutex > 0
                       /\ log_mutex' = log_mutex - 1 /\ UNCHANGED log_file
                    \/ /\ pc[c] = "write" /\ q = "unlock"
                       /\ log_file' = Append(log_file, c) /\ UNCHANGED log_mutex
                    \/ /\ pc[c] = "unlock" /\ q = "close"
                       /\ log_mutex' = log_mutex + 1 /\ UNCHANGED log_file
                    \/ /\ pc[c] = "close" /\ q = "done" /\ UNCHANGED <<log_mutex, log_file>>
                    \/ /\ pc[c] \notin {"write", "unlock", "close", "done"}
                       /\ q \notin {"write", "unlock", "close", "done"}
                       /\ UNCHANGED <<log_mutex, log_file>>
<1> DEFINE Moves(c, q) ==
      /\ pc' = [pc EXCEPT ![c] = q]
      /\ \/ /\ pc[c] = "log" /\ q = "write" /\ log_mutex > 0
            /\ log_mutex' = log_mutex - 1 /\ UNCHANGED log_file
         \/ /\ pc[c] = "write" /\ q = "unlock"
            /\ log_file' = Append(log_file, c) /\ UNCHANGED log_mutex
         \/ /\ pc[c] = "unlock" /\ q = "close"
            /\ log_mutex' = log_mutex + 1 /\ UNCHANGED log_file
         \/ /\ pc[c] = "close" /\ q = "done" /\ UNCHANGED <<log_mutex, log_file>>
         \/ /\ pc[c] \notin {"write", "unlock", "close", "done"}
            /\ q \notin {"write", "unlock", "close", "done"}
            /\ UNCHANGED <<log_mutex, log_file>>
<1> SUFFICES PlacesOK' /\ (UNCHANGED <<pc, log_mutex, log_file>>
                            \/ \E c \in Conns, q \in Places : Moves(c, q))
  OBVIOUS
<1> USE DEF At, Goto, Places, Before, Opening, Serving
<1>1. CASE UNCHANGED vars
  BY <1>1 DEF vars, PlacesOK
<1>2. CASE Next
  <2>1. PICK c \in Conns : Accept(c) \/ Step(c) \/ Down(c)
    BY <1>2 DEF Next
  <2>2. CASE Down(c)
    BY <2>2 DEF Down, PlacesOK
  <2>3. CASE Accept(c)
    <3>1. Moves(c, "read")
      BY <2>3 DEF Accept
    <3> QED
      BY <2>3, <3>1 DEF Accept, PlacesOK
  <2>4. CASE ReadRequestLine(c)
    <3>1. Moves(c, "socket")
      BY <2>4 DEF ReadRequestLine
    <3> QED
      BY <2>4, <3>1 DEF ReadRequestLine, Requests, parse_uri, PlacesOK
  <2>14. CASE OpenSocket(c)
    <3>1. Moves(c, "resolve")
      BY <2>14 DEF OpenSocket
    <3> QED
      BY <2>14, <3>1 DEF OpenSocket, PlacesOK
  <2>5. CASE Resolve(c)
    <3>1. Moves(c, "connect")
      BY <2>5 DEF Resolve
    <3>2. hostname[c] \in Hosts \cup {NoHost}
      BY DEF PlacesOK
    <3>3. between' \in [Conns -> SUBSET (Hosts \cup {NoHost})]
      BY <2>5, <3>2 DEF Resolve, Resolved, PlacesOK
    <3> QED
      BY <2>5, <3>1, <3>2, <3>3 DEF Resolve, PlacesOK
  <2>6. CASE Connect(c)
    <3>1. Moves(c, "headers")
      BY <2>6 DEF Connect
    <3> QED
      BY <2>6, <3>1 DEF Connect, PlacesOK
  <2>7. CASE EndHeaders(c)
    <3>1. Moves(c, "reply")
      BY <2>7 DEF EndHeaders
    <3> QED
      BY <2>7, <3>1 DEF EndHeaders, PlacesOK
  <2>8. CASE ForwardReply(c)
    <3>1. Moves(c, "log")
      BY <2>8 DEF ForwardReply
    <3> QED
      BY <2>8, <3>1 DEF ForwardReply, PlacesOK
  <2>9. CASE LockLog(c)
    <3>1. Moves(c, "write")
      BY <2>9 DEF LockLog
    <3> QED
      BY <2>9, <3>1 DEF LockLog, PlacesOK
  <2>10. CASE WriteLog(c)
    <3>1. Moves(c, "unlock")
      BY <2>10 DEF WriteLog
    <3> QED
      BY <2>10, <3>1 DEF WriteLog, PlacesOK
  <2>11. CASE UnlockLog(c)
    <3>1. Moves(c, "close")
      BY <2>11 DEF UnlockLog
    <3> QED
      BY <2>11, <3>1 DEF UnlockLog, PlacesOK
  <2>12. CASE CloseAll(c)
    <3>1. Moves(c, "done")
      BY <2>12 DEF CloseAll
    <3> QED
      BY <2>12, <3>1 DEF CloseAll, PlacesOK
  <2>13. CASE ForwardHeader(c) \/ Spin(c)
    BY <2>13 DEF ForwardHeader, Spin, vars, PlacesOK
  <2> QED
    BY <2>1, <2>2, <2>3, <2>4, <2>5, <2>6, <2>7, <2>8, <2>9, <2>10, <2>11, <2>12, <2>13, <2>14 DEF Step
<1> QED
  BY <1>1, <1>2

LEMMA AppendSet ==
  ASSUME NEW S, NEW s \in Seq(S), NEW x \in S
  PROVE  /\ Append(s, x) \in Seq(S) /\ Len(Append(s, x)) = Len(s) + 1
         /\ ToSet(Append(s, x)) = ToSet(s) \cup {x}
<1> DEFINE t == Append(s, x)
<1>1. t \in Seq(S) /\ Len(t) = Len(s) + 1 /\ DOMAIN t = 1..(Len(s) + 1)
  OBVIOUS
<1>2. t[Len(s) + 1] = x /\ \A i \in 1..Len(s) : t[i] = s[i]
  OBVIOUS
<1>3. DOMAIN s = 1..Len(s) /\ Len(s) \in Nat
  OBVIOUS
<1> HIDE DEF t
<1>4. ToSet(t) \subseteq ToSet(s) \cup {x}
  BY <1>1, <1>2, <1>3 DEF ToSet
<1>5. ToSet(s) \cup {x} \subseteq ToSet(t)
  BY <1>1, <1>2, <1>3 DEF ToSet
<1> QED
  BY <1>1, <1>4, <1>5 DEF t

\* What the sets of threads past the log, and in its section, become.
LEMMA PastMoves ==
  ASSUME pc \in [Conns -> Places], NEW c \in Conns, NEW q \in Places, pc' = [pc EXCEPT ![c] = q]
  PROVE  /\ pc[c] = "write" /\ q = "unlock" =>
              c \notin Past /\ Past' = Past \cup {c} /\ Section' = Section
         /\ pc[c] = "log" /\ q = "write" => Past' = Past /\ Section' = Section \cup {c}
         /\ pc[c] = "unlock" /\ q = "close" =>
              c \in Section /\ Past' = Past /\ Section' = Section \ {c}
         /\ pc[c] = "close" /\ q = "done" => Past' = Past /\ Section' = Section
         /\ (/\ pc[c] \notin {"write", "unlock", "close", "done"}
             /\ q \notin {"write", "unlock", "close", "done"}) => Past' = Past /\ Section' = Section
<1>1. \A d \in Conns : pc'[d] = IF d = c THEN q ELSE pc[d]
  OBVIOUS
<1>2. Past = {d \in Conns : pc[d] \in {"unlock", "close", "done"}}
        /\ Past' = {d \in Conns : pc'[d] \in {"unlock", "close", "done"}}
        /\ Section = {d \in Conns : pc[d] \in {"write", "unlock"}}
        /\ Section' = {d \in Conns : pc'[d] \in {"write", "unlock"}}
  BY DEF Past, Section
<1>3. ASSUME pc[c] = "write", q = "unlock"
      PROVE  c \notin Past /\ Past' = Past \cup {c} /\ Section' = Section
  BY <1>1, <1>2, <1>3
<1>4. ASSUME pc[c] = "log", q = "write"
      PROVE  Past' = Past /\ Section' = Section \cup {c}
  BY <1>1, <1>2, <1>4
<1>5. ASSUME pc[c] = "unlock", q = "close"
      PROVE  c \in Section /\ Past' = Past /\ Section' = Section \ {c}
  BY <1>1, <1>2, <1>5
<1>6. ASSUME pc[c] = "close", q = "done"
      PROVE  Past' = Past /\ Section' = Section
  BY <1>1, <1>2, <1>6
<1>7. ASSUME pc[c] \notin {"write", "unlock", "close", "done"}, q \notin {"write", "unlock", "close", "done"}
      PROVE  Past' = Past /\ Section' = Section
  BY <1>1, <1>2, <1>7
<1> QED
  BY <1>3, <1>4, <1>5, <1>6, <1>7

LEMMA LogStep == LogInv /\ [Next]_vars => LogInv'
<1> SUFFICES ASSUME LogInv, [Next]_vars PROVE LogInv'
  OBVIOUS
<1> USE DEF LogInv
<1>1. PlacesOK'
  BY PlaceStep
<1>2. CASE UNCHANGED <<pc, log_mutex, log_file>>
  <2>1. Past' = Past /\ Section' = Section
    BY <1>2 DEF Past, Section
  <2> QED
    BY <1>1, <1>2, <2>1 DEF OneInSection, LogHolds
<1>3. ASSUME NEW c \in Conns, NEW q \in Places, pc' = [pc EXCEPT ![c] = q],
             pc[c] = "log", q = "write", log_mutex > 0,
             log_mutex' = log_mutex - 1, UNCHANGED log_file
      PROVE  LogInv'
  <2>1. Past' = Past /\ Section' = Section \cup {c}
    BY <1>3, PastMoves DEF PlacesOK
  <2>2. log_mutex' = 0 /\ Section' = {c}
    BY <1>3, <2>1 DEF OneInSection
  <2> QED
    BY <1>1, <1>3, <2>1, <2>2 DEF OneInSection, LogHolds
<1>4. ASSUME NEW c \in Conns, NEW q \in Places, pc' = [pc EXCEPT ![c] = q],
             pc[c] = "write", q = "unlock", log_file' = Append(log_file, c), UNCHANGED log_mutex
      PROVE  LogInv'
  <2>1. c \notin Past /\ Past' = Past \cup {c} /\ Section' = Section
    BY <1>4, PastMoves DEF PlacesOK
  <2>2. IsFiniteSet(Past') /\ Cardinality(Past') = Cardinality(Past) + 1
    BY <2>1, FS_AddElement DEF LogHolds
  <2>3. log_file' \in Seq(Conns) /\ ToSet(log_file') = Past' /\ Len(log_file') = Len(log_file) + 1
    BY <1>4, <2>1, AppendSet DEF LogHolds
  <2> QED
    BY <1>1, <1>4, <2>1, <2>2, <2>3 DEF OneInSection, LogHolds
<1>5. ASSUME NEW c \in Conns, NEW q \in Places, pc' = [pc EXCEPT ![c] = q],
             pc[c] = "unlock", q = "close", log_mutex' = log_mutex + 1, UNCHANGED log_file
      PROVE  LogInv'
  <2>1. c \in Section /\ Past' = Past /\ Section' = Section \ {c}
    BY <1>5, PastMoves DEF PlacesOK
  <2>2. log_mutex' = 1 /\ Section' = {}
    BY <1>5, <2>1 DEF OneInSection
  <2> QED
    BY <1>1, <1>5, <2>1, <2>2 DEF OneInSection, LogHolds
<1>6. ASSUME NEW c \in Conns, NEW q \in Places, pc' = [pc EXCEPT ![c] = q],
             \/ pc[c] = "close" /\ q = "done"
             \/ /\ pc[c] \notin {"write", "unlock", "close", "done"}
                /\ q \notin {"write", "unlock", "close", "done"},
             UNCHANGED <<log_mutex, log_file>>
      PROVE  LogInv'
  <2>1. Past' = Past /\ Section' = Section
    BY <1>6, PastMoves DEF PlacesOK
  <2> QED
    BY <1>1, <1>6, <2>1 DEF OneInSection, LogHolds
<1> QED
  BY <1>2, <1>3, <1>4, <1>5, <1>6, PlaceStep

\* The log of the proxy has one entry for each thread that is past its write, and
\* log_mutex counts the one thread, if any, that is between P() and V(): however
\* the threads of however many connections interleave.
THEOREM LogEntriesAreExact == Spec => []LogIsExact
<1>1. Init => LogInv
  <2> SUFFICES ASSUME Init PROVE LogInv
    OBVIOUS
  <2>1. PlacesOK
    BY DEF Init, PlacesOK, Places, Before
  <2>2. Past = {} /\ Section = {}
    BY DEF Init, Past, Section
  <2>3. log_file \in Seq(Conns) /\ Len(log_file) = 0 /\ ToSet(log_file) = {}
    BY DEF Init, ToSet
  <2> QED
    BY <2>1, <2>2, <2>3, FS_EmptySet DEF Init, LogInv, OneInSection, LogHolds
<1>2. LogInv => LogIsExact
  <2> SUFFICES ASSUME LogInv PROVE LogIsExact
    OBVIOUS
  <2>0. Cardinality({}) = 0 /\ \A c \in Conns : Cardinality({c}) = 1
    BY FS_EmptySet, FS_Singleton
  <2>1. Cardinality(Section) = 1 - log_mutex /\ log_mutex \in {0, 1}
    BY <2>0 DEF LogInv, OneInSection
  <2>2. ToSet(log_file) = Past /\ Len(log_file) = Cardinality(ToSet(log_file))
    BY DEF LogInv, LogHolds
  <2> QED
    BY <2>1, <2>2 DEF LogIsExact, Past, Section
<1> QED
  BY <1>1, <1>2, LogStep, PTL DEF Spec

\* The threads that are active and connected, after the step of one.
LEMMA ActiveMoves ==
  ASSUME PlacesOK, NEW c \in Conns, NEW q \in Places, pc' = [pc EXCEPT ![c] = q]
  PROVE  /\ Active' = IF q \in {"none", "done"} THEN Active \ {c} ELSE Active \cup {c}
         /\ Connected' = IF q \in Opening \cup Serving THEN Connected \cup {c} ELSE Connected \ {c}
<1>1. \A d \in Conns : pc'[d] = IF d = c THEN q ELSE pc[d]
  BY DEF PlacesOK
<1>2. Active' = {d \in Conns : pc'[d] \notin {"none", "done"}}
        /\ Connected' = {d \in Conns : pc'[d] \in Opening \cup Serving}
  BY DEF Active, Connected
<1>3. \A d \in Conns : /\ d \in Active <=> pc[d] \notin {"none", "done"}
                       /\ d \in Connected <=> pc[d] \in Opening \cup Serving
  BY DEF Active, Connected
<1>4. Active \subseteq Conns /\ Connected \subseteq Conns
  BY DEF Active, Connected
<1>5. \A d : d \in Active' <=> d \in (IF q \in {"none", "done"} THEN Active \ {c} ELSE Active \cup {c})
  BY <1>1, <1>2, <1>3, <1>4
<1>6. \A d : d \in Connected' <=> d \in (IF q \in Opening \cup Serving THEN Connected \cup {c} ELSE Connected \ {c})
  BY <1>1, <1>2, <1>3, <1>4
<1> QED
  BY <1>5, <1>6

\* Which thread moves, from where to where, and what it takes or gives back.
LEMMA OwnedStep == PlacesOK /\ Owned /\ [Next]_vars => Owned'
<1> SUFFICES ASSUME PlacesOK, Owned, [Next]_vars, up' PROVE Owned'
  BY DEF Owned
<1> USE DEF At, Goto
<1>0. {"read", "socket", "resolve", "connect", "done", "headers", "reply", "log", "write", "unlock", "close"}
        \subseteq Places
  BY DEF Places, Before, Opening, Serving
<1>1. CASE UNCHANGED vars
  BY <1>1 DEF vars, Owned, Active, Connected
<1>2. ASSUME NEW c \in Conns, NEW q \in Places, up, pc' = [pc EXCEPT ![c] = q],
             UNCHANGED <<fds, blocks>>, pc[c] \in Opening \cup Serving <=> q \in Opening \cup Serving,
             pc[c] \notin {"none", "done"}, q \notin {"none", "done"}
      PROVE  Owned'
  <2>1. c \in Active /\ (c \in Connected <=> q \in Opening \cup Serving)
    BY <1>2 DEF Active, Connected
  <2>2. Active' = Active \cup {c}
          /\ Connected' = IF q \in Opening \cup Serving THEN Connected \cup {c} ELSE Connected \ {c}
    BY <1>2, ActiveMoves
  <2>3. Active' = Active /\ Connected' = Connected
    BY <2>1, <2>2
  <2> QED
    BY <1>2, <2>3 DEF Owned
<1>3. ASSUME NEW c \in Conns, Accept(c)
      PROVE  Owned'
  <2>1. up /\ pc' = [pc EXCEPT ![c] = "read"] /\ pc[c] = "none" /\ "read" \in Places
    BY <1>0, <1>3 DEF Accept
  <2>2. c \notin Connected /\ "read" \notin Opening \cup Serving
    BY <2>1 DEF Connected, Opening, Serving
  <2>3. Active' = Active \cup {c} /\ Connected' = Connected \ {c}
    BY <2>1, <2>2, ActiveMoves
  <2>4. Connected' = Connected
    BY <2>2, <2>3
  <2> QED
    BY <1>3, <2>1, <2>3, <2>4 DEF Owned, Accept
<1>4. ASSUME NEW c \in Conns, OpenSocket(c)
      PROVE  Owned'
  <2>1. up /\ pc' = [pc EXCEPT ![c] = "resolve"] /\ pc[c] = "socket" /\ "resolve" \in Places
    BY <1>0, <1>4 DEF OpenSocket
  <2>2. c \in Active /\ "resolve" \in Opening
    BY <2>1 DEF Active, Opening
  <2>3. Active' = Active \cup {c} /\ Connected' = Connected \cup {c}
    BY <2>1, <2>2, ActiveMoves
  <2>4. Active' = Active
    BY <2>2, <2>3
  <2> QED
    BY <1>4, <2>1, <2>3, <2>4 DEF Owned, OpenSocket
<1>5. ASSUME NEW c \in Conns, CloseAll(c)
      PROVE  Owned'
  <2>1. up /\ pc' = [pc EXCEPT ![c] = "done"] /\ "done" \in Places
    BY <1>0, <1>5 DEF CloseAll
  <2>2. Active' = Active \ {c} /\ Connected' = Connected \ {c}
    BY <2>1, ActiveMoves DEF Opening, Serving
  <2> QED
    BY <1>5, <2>1, <2>2 DEF Owned, CloseAll
<1>6. ASSUME NEW c \in Conns, ForwardHeader(c) \/ Spin(c)
      PROVE  Owned'
  BY <1>6 DEF ForwardHeader, Spin, vars, Owned, Active, Connected
<1>7. ASSUME NEW c \in Conns,
             \/ ReadRequestLine(c) \/ Resolve(c) \/ Connect(c) \/ EndHeaders(c) \/ ForwardReply(c)
             \/ LockLog(c) \/ WriteLog(c) \/ UnlockLog(c)
      PROVE  Owned'
  <2> USE DEF Opening, Serving
  <2>1. CASE ReadRequestLine(c)
    BY <1>0, <2>1, <1>2 DEF ReadRequestLine
  <2>2. CASE Resolve(c)
    BY <1>0, <2>2, <1>2 DEF Resolve
  <2>3. CASE EndHeaders(c)
    BY <1>0, <2>3, <1>2 DEF EndHeaders
  <2>4. CASE ForwardReply(c)
    BY <1>0, <2>4, <1>2 DEF ForwardReply
  <2>5. CASE LockLog(c)
    BY <1>0, <2>5, <1>2 DEF LockLog
  <2>6. CASE WriteLog(c)
    BY <1>0, <2>6, <1>2 DEF WriteLog
  <2>7. CASE UnlockLog(c)
    BY <1>0, <2>7, <1>2 DEF UnlockLog
  <2>8. CASE Connect(c)
    BY <1>0, <2>8, <1>2 DEF Connect
  <2> QED
    BY <1>7, <2>1, <2>2, <2>3, <2>4, <2>5, <2>6, <2>7, <2>8
<1>8. ASSUME NEW c \in Conns, Down(c)
      PROVE  Owned'
  BY <1>8 DEF Down
<1>9. CASE Next
  <2>1. PICK c \in Conns : Accept(c) \/ Step(c) \/ Down(c)
    BY <1>9 DEF Next
  <2> QED
    BY <2>1, <1>3, <1>4, <1>5, <1>6, <1>7, <1>8 DEF Step
<1> QED
  BY <1>1, <1>9

\* As long as the process lives it holds the descriptors and the argument block of
\* just the threads that are between accept() and the end of thread(): whatever
\* connections come, and whichever of them wait.
THEOREM NothingIsLeaked == Spec => []NoDescriptorLeaks
<1>1. Init => PlacesOK /\ Owned
  <2> SUFFICES ASSUME Init PROVE PlacesOK /\ Owned
    OBVIOUS
  <2>1. PlacesOK
    BY DEF Init, PlacesOK, Places, Before
  <2>2. Active = {} /\ Connected = {}
    BY DEF Init, Active, Connected, Opening, Serving
  <2> QED
    BY <2>1, <2>2 DEF Init, Owned
<1>2. PlacesOK /\ Owned /\ [Next]_vars => (PlacesOK /\ Owned)'
  BY PlaceStep, OwnedStep
<1>3. Owned => NoDescriptorLeaks
  BY DEF Owned, NoDescriptorLeaks, Active, Connected, Opening, Serving
<1> QED
  BY <1>1, <1>2, <1>3, PTL DEF Spec

\* A thread of which client_fd is not yet connected has no client; one that is about
\* to connect finds its own host, or one that was resolved since.
LEMMA HostsStep == PlacesOK /\ HostsInv /\ MisdirectedByOther /\ [Next]_vars
                     => HostsInv' /\ MisdirectedByOther'
<1> SUFFICES ASSUME PlacesOK, HostsInv, MisdirectedByOther, [Next]_vars
             PROVE  HostsInv' /\ MisdirectedByOther'
  OBVIOUS
<1> USE DEF At, Goto
<1> DEFINE Early == Before \cup {"socket"} \cup Opening
<1>1. CASE UNCHANGED <<pc, hostname, hostent, between, client>>
  BY <1>1 DEF HostsInv, MisdirectedByOther
<1>2. ASSUME NEW c \in Conns, NEW q \in Places, pc' = [pc EXCEPT ![c] = q],
             q # "connect", q \in Early => pc[c] \in Early,
             UNCHANGED <<hostname, hostent, between, client>>
      PROVE  HostsInv' /\ MisdirectedByOther'
  <2>1. \A d \in Conns : pc'[d] = IF d = c THEN q ELSE pc[d]
    BY <1>2 DEF PlacesOK
  <2>2. HostsInv'
    BY <1>2, <2>1 DEF HostsInv
  <2> QED
    BY <1>2, <2>2 DEF MisdirectedByOther
<1>3. ASSUME NEW c \in Conns, ReadRequestLine(c)
      PROVE  HostsInv' /\ MisdirectedByOther'
  <2>1. /\ pc[c] = "read" /\ pc' = [pc EXCEPT ![c] = "socket"]
        /\ hostname' = [hostname EXCEPT ![c] = request[c].host]
        /\ UNCHANGED <<client, hostent, between>>
    BY <1>3 DEF ReadRequestLine, parse_uri
  <2>2. client[c] = NoHost
    BY <2>1 DEF HostsInv, Before
  <2>3. \A d \in Conns : /\ pc'[d] = IF d = c THEN "socket" ELSE pc[d]
                         /\ d # c => hostname'[d] = hostname[d]
    BY <2>1 DEF PlacesOK
  <2>4. HostsInv'
    BY <2>1, <2>2, <2>3 DEF HostsInv, Before, Opening
  <2> QED
    BY <2>1, <2>2, <2>3, <2>4 DEF MisdirectedByOther
<1>4. ASSUME NEW c \in Conns, Resolve(c)
      PROVE  HostsInv' /\ MisdirectedByOther'
  <2>1. /\ pc[c] = "resolve" /\ pc' = [pc EXCEPT ![c] = "connect"] /\ hostent' = hostname[c]
        /\ UNCHANGED <<hostname, client>>
    BY <1>4 DEF Resolve
  <2>2. \A d \in Conns : /\ pc'[d] = IF d = c THEN "connect" ELSE pc[d]
                         /\ between'[d] = IF d = c THEN {}
                                          ELSE IF pc[d] = "connect" THEN between[d] \cup {hostname[c]}
                                          ELSE between[d]
    BY <1>4, <2>1 DEF Resolve, Resolved, PlacesOK
  <2>3. client[c] = NoHost
    BY <2>1 DEF HostsInv, Opening
  <2>4. HostsInv'
    BY <2>1, <2>2 DEF HostsInv, Before, Opening
  <2> QED
    BY <2>1, <2>2, <2>3, <2>4 DEF MisdirectedByOther
<1>5. ASSUME NEW c \in Conns, Connect(c)
      PROVE  HostsInv' /\ MisdirectedByOther'
  <2>1. /\ pc[c] = "connect" /\ pc' = [pc EXCEPT ![c] = "headers"]
        /\ client' = [client EXCEPT ![c] = hostent] /\ UNCHANGED <<hostname, hostent, between>>
    BY <1>5 DEF Connect
  <2>2. \A d \in Conns : /\ pc'[d] = IF d = c THEN "headers" ELSE pc[d]
                         /\ client'[d] = IF d = c THEN hostent ELSE client[d]
    BY <2>1 DEF PlacesOK
  <2>3. HostsInv'
    BY <2>1, <2>2 DEF HostsInv, Before, Opening
  <2> QED
    BY <2>1, <2>2, <2>3 DEF MisdirectedByOther, HostsInv
<1>6. CASE Next
  <2>1. PICK c \in Conns : Accept(c) \/ Step(c) \/ Down(c)
    BY <1>6 DEF Next
  <2>2. {"read", "resolve", "headers", "reply", "log", "write", "unlock", "close", "done"} \subseteq Places
    BY DEF Places, Before, Opening, Serving
  <2> USE DEF Before, Opening
  <2>3. CASE Accept(c)
    BY <1>2, <2>2, <2>3 DEF Accept
  <2>4. CASE EndHeaders(c)
    BY <1>2, <2>2, <2>4 DEF EndHeaders
  <2>5. CASE ForwardReply(c)
    BY <1>2, <2>2, <2>5 DEF ForwardReply
  <2>6. CASE LockLog(c)
    BY <1>2, <2>2, <2>6 DEF LockLog
  <2>7. CASE WriteLog(c)
    BY <1>2, <2>2, <2>7 DEF WriteLog
  <2>8. CASE UnlockLog(c)
    BY <1>2, <2>2, <2>8 DEF UnlockLog
  <2>9. CASE CloseAll(c)
    BY <1>2, <2>2, <2>9 DEF CloseAll
  <2>10. CASE ForwardHeader(c) \/ Spin(c) \/ Down(c)
    BY <1>1, <2>10 DEF ForwardHeader, Spin, Down, vars
  <2>11. CASE OpenSocket(c)
    BY <1>2, <2>2, <2>11 DEF OpenSocket
  <2> QED
    BY <1>3, <1>4, <1>5, <2>1, <2>3, <2>4, <2>5, <2>6, <2>7, <2>8, <2>9, <2>10, <2>11 DEF Step
<1> QED
  BY <1>1, <1>6 DEF vars

\* The static result that gethostbyname() returns may be another thread's when it
\* is used, but then that thread has asked after this one's own question was
\* answered: no thread gets an answer from before its question.
THEOREM OnlyOthersMisdirect == Spec => []MisdirectedByOther
<1> DEFINE Inv == PlacesOK /\ HostsInv /\ MisdirectedByOther
<1>1. Init => Inv
  <2> SUFFICES ASSUME Init PROVE Inv
    OBVIOUS
  <2>1. PlacesOK
    BY DEF Init, PlacesOK, Places, Before
  <2>2. HostsInv /\ MisdirectedByOther
    BY DEF Init, HostsInv, MisdirectedByOther
  <2> QED
    BY <2>1, <2>2
<1>2. Inv /\ [Next]_vars => Inv'
  BY PlaceStep, HostsStep
<1> QED
  BY <1>1, <1>2, PTL DEF Spec

-------------------------------------------------------------------------------
(* The verdicts of the game, for any players.  In a regular game the counts of *)
(* gestures are of the users who have cast, each once (RoundState); in others  *)
(* they may be of anybody, and still tell which gesture wins.                  *)

CONSTANTS Players, MaxCasts
VARIABLES users_, gesture_, gain, count, told, regular, cast
Game == INSTANCE Judge

\* Of the gestures shown, g is the one that beats the other, or that is beaten.
Wins(S, g) == \E h \in S : S = {g, h} /\ <<g, h>> \in Game!Beats
Loses(S, g) == \E h \in S : S = {g, h} /\ <<h, g>> \in Game!Beats

LEMMA OutcomeOfGesture ==
  ASSUME NEW c, NEW g \in Game!Gestures
  PROVE  /\ Game!gesture2result(c)[g] = "Win" <=> Wins(Game!Shown(c), g)
         /\ Game!gesture2result(c)[g] = "Lose" <=> Loses(Game!Shown(c), g)
<1>1. PICK S, R : S = Game!Shown(c) /\ R = Game!gesture2result(c)
  OBVIOUS
<1>2. S \subseteq {"scissor", "paper", "rock"} /\ g \in {"scissor", "paper", "rock"}
  BY <1>1 DEF Game!Shown, Game!Gestures
<1>3. /\ {"scissor", "paper"} # {"scissor", "rock"} /\ {"scissor", "paper"} # {"paper", "rock"}
      /\ {"scissor", "rock"} # {"paper", "rock"}
  OBVIOUS
<1>4. CASE S = {"scissor", "paper"}
  <2>1. R = Game!Results("Win", "Lose", "")
    BY <1>1, <1>3, <1>4 DEF Game!gesture2result
  <2>2. R["scissor"] = "Win" /\ R["paper"] = "Lose" /\ R["rock"] = ""
    BY <2>1 DEF Game!Results, Game!Gestures
  <2> QED
    BY <1>1, <1>2, <1>4, <2>2 DEF Wins, Loses, Game!Beats
<1>5. CASE S = {"scissor", "rock"}
  <2>1. R = Game!Results("Lose", "", "Win")
    BY <1>1, <1>3, <1>5 DEF Game!gesture2result
  <2>2. R["scissor"] = "Lose" /\ R["rock"] = "Win" /\ R["paper"] = ""
    BY <2>1 DEF Game!Results, Game!Gestures
  <2> QED
    BY <1>1, <1>2, <1>5, <2>2 DEF Wins, Loses, Game!Beats
<1>6. CASE S = {"paper", "rock"}
  <2>1. R = Game!Results("", "Win", "Lose")
    BY <1>1, <1>3, <1>6 DEF Game!gesture2result
  <2>2. R["paper"] = "Win" /\ R["rock"] = "Lose" /\ R["scissor"] = ""
    BY <2>1 DEF Game!Results, Game!Gestures
  <2> QED
    BY <1>1, <1>2, <1>6, <2>2 DEF Wins, Loses, Game!Beats
<1>7. CASE S \notin {{"scissor", "paper"}, {"scissor", "rock"}, {"paper", "rock"}}
  <2>1. R[g] = "Even"
    BY <1>1, <1>2, <1>7 DEF Game!gesture2result, Game!Results, Game!Gestures
  <2>2. ~Wins(S, g) /\ ~Loses(S, g)
    BY <1>2, <1>7 DEF Wins, Loses, Game!Beats
  <2> QED
    BY <1>1, <2>1, <2>2
<1> QED
  BY <1>4, <1>5, <1>6, <1>7

\* What a round knows of a game: the counts are of gestures, a user who has cast
\* in this game is there with that gesture, and in a regular game each cast is
\* counted once.
Voters(U, casts, g) == {q \in U : casts[q] = g}
RoundState(U, gestures, counts, ok, casts) ==
  /\ U \in SUBSET Players /\ IsFiniteSet(U)
  /\ gestures \in [Players -> Game!Gestures \cup {Game!Nothing}]
  /\ counts \in [Game!Gestures -> Nat] /\ ok \in BOOLEAN
  /\ casts \in [Players -> Game!Gestures \cup {Game!Nothing}]
  /\ \A p \in Players : casts[p] # Game!Nothing => p \in U /\ gestures[p] = casts[p]
  /\ ok => \A g \in Game!Gestures : counts[g] = Cardinality(Voters(U, casts, g))

\* The gestures of the winner and of the loser of a verdict.
Apart(p, q, outcome, gestures) ==
  outcome[p] = 1 /\ outcome[q] = -1 /\ gestures[p] \in Game!Gestures /\ gestures[q] \in Game!Gestures
    => <<gestures[p], gestures[q]>> \in Game!Beats

\* A new game of the users who are there.
LEMMA NewGame ==
  ASSUME NEW U, NEW gestures, NEW counts, NEW ok, NEW casts, RoundState(U, gestures, counts, ok, casts)
  PROVE  RoundState(U, gestures, Game!NoCount, TRUE, Game!NoCast)
<1>1. ASSUME NEW g \in Game!Gestures PROVE Voters(U, Game!NoCast, g) = {}
  <2>1. \A q \in U : Game!NoCast[q] # g
    BY DEF RoundState, Game!NoCast, Game!Nothing, Game!Gestures
  <2> QED
    BY <2>1 DEF Voters
<1>2. \A g \in Game!Gestures : Game!NoCount[g] = Cardinality(Voters(U, Game!NoCast, g))
  BY <1>1, FS_EmptySet DEF Game!NoCount
<1>3. Game!NoCount \in [Game!Gestures -> Nat]
  BY DEF Game!NoCount
<1>4. /\ Game!NoCast \in [Players -> Game!Gestures \cup {Game!Nothing}]
      /\ \A p \in Players : Game!NoCast[p] = Game!Nothing
  BY DEF Game!NoCast
<1> QED
  BY <1>2, <1>3, <1>4 DEF RoundState

\* There are users to be judged, and as many casts as users.
Complete(U, counts) == Cardinality(U) > 1 /\ ~(Game!Casts(counts) < Cardinality(U))

\* What a verdict adds to the scores of the users whose gesture is known.
Scored(U, gestures, counts, outcome) ==
  \A p \in U : gestures[p] \in Game!Gestures =>
    outcome[p] = (CASE Game!gesture2result(counts)[gestures[p]] = "Win" -> 1
                    [] Game!gesture2result(counts)[gestures[p]] = "Lose" -> -1
                    [] OTHER -> 0)

\* judge() gives a verdict and begins a new game, or leaves the one that is being
\* played as it is.
LEMMA JudgeKeeps ==
  ASSUME NEW U, NEW gestures, NEW counts, NEW ok, NEW casts, RoundState(U, gestures, counts, ok, casts),
         Game!judge(U, gestures, counts, ok, casts)
  PROVE  /\ RoundState(U, gestures, count', regular', cast')
         /\ told' = IF Complete(U, counts) THEN U ELSE {}
         /\ Complete(U, counts) => U # {} /\ Scored(U, gestures, counts, gain')
<1>1. RoundState(U, gestures, Game!NoCount, TRUE, Game!NoCast)
  BY NewGame
<1>2. Cardinality(U) \in Nat /\ (Cardinality(U) = 0 <=> U = {})
  BY FS_CardinalityType, FS_EmptySet DEF RoundState
<1>3. Cardinality(U) <= 1 \/ Game!Casts(counts) < Cardinality(U) <=> ~Complete(U, counts)
  BY <1>2 DEF Complete
<1>4. Game!Cardinality(U) = Cardinality(U)
  BY DEF Game!Cardinality, Cardinality
<1>5. CASE ~Complete(U, counts)
  <2>1. /\ count' = IF U = {} THEN Game!NoCount ELSE counts
        /\ regular' = (ok \/ U = {})
        /\ cast' = IF U = {} THEN Game!NoCast ELSE casts
        /\ told' = {}
    BY <1>3, <1>4, <1>5 DEF Game!judge
  <2>2. CASE U = {}
    <3>1. count' = Game!NoCount /\ regular' = TRUE /\ cast' = Game!NoCast
      BY <2>1, <2>2
    <3> QED
      BY <1>1, <1>5, <2>1, <3>1
  <2>3. CASE U # {}
    <3>1. count' = counts /\ regular' = ok /\ cast' = casts
      BY <2>1, <2>3 DEF RoundState
    <3> QED
      BY <1>5, <2>1, <3>1
  <2> QED
    BY <2>2, <2>3
<1>6. CASE Complete(U, counts)
  <2>1. /\ count' = Game!NoCount /\ regular' = TRUE /\ cast' = Game!NoCast /\ told' = U
        /\ \E shown \in [U -> Game!Gestures \cup {Game!Nothing}] :
             /\ \A q \in U : gestures[q] # Game!Nothing => shown[q] = gestures[q]
             /\ LET answer(q) == IF q \notin U \/ shown[q] = Game!Nothing THEN ""
                                 ELSE Game!gesture2result(counts)[shown[q]]
                IN gain' = [q \in Players |-> CASE answer(q) = "Win" -> 1
                                                [] answer(q) = "Lose" -> -1
                                                [] OTHER -> 0]
    BY <1>3, <1>4, <1>6 DEF Game!judge
  <2>2. U # {}
    BY <1>2, <1>6 DEF Complete
  <2>3. ASSUME NEW p \in U, gestures[p] \in Game!Gestures
        PROVE  gain'[p] = (CASE Game!gesture2result(counts)[gestures[p]] = "Win" -> 1
                             [] Game!gesture2result(counts)[gestures[p]] = "Lose" -> -1
                             [] OTHER -> 0)
    <3>1. PICK shown \in [U -> Game!Gestures \cup {Game!Nothing}] :
            /\ \A q \in U : gestures[q] # Game!Nothing => shown[q] = gestures[q]
            /\ LET answer(q) == IF q \notin U \/ shown[q] = Game!Nothing THEN ""
                                ELSE Game!gesture2result(counts)[shown[q]]
               IN gain' = [q \in Players |-> CASE answer(q) = "Win" -> 1
                                               [] answer(q) = "Lose" -> -1
                                               [] OTHER -> 0]
      BY <2>1
    <3>2. gestures[p] # Game!Nothing /\ p \in Players
      BY <2>3 DEF Game!Gestures, Game!Nothing, RoundState
    <3>3. shown[p] = gestures[p]
      BY <3>1, <3>2
    <3> QED
      BY <3>1, <3>2, <3>3
  <2> QED
    BY <1>1, <1>6, <2>1, <2>2, <2>3 DEF Scored
<1> QED
  BY <1>5, <1>6

\* The users who have cast in this game.
Casting(U, casts) == {q \in U : casts[q] # Game!Nothing}

\* In a regular game the casts are theirs.
LEMMA CastsOfUsers ==
  ASSUME NEW U, NEW gestures, NEW counts, NEW casts, RoundState(U, gestures, counts, TRUE, casts)
  PROVE  /\ Game!Casts(counts) = Cardinality(Casting(U, casts))
         /\ \A g \in Game!Gestures : g \in Game!Shown(counts) <=> Voters(U, casts, g) # {}
<1>1. PICK A, B, C : /\ A = Voters(U, casts, "scissor") /\ B = Voters(U, casts, "paper")
                     /\ C = Voters(U, casts, "rock")
  OBVIOUS
<1>2. /\ IsFiniteSet(A) /\ IsFiniteSet(B) /\ IsFiniteSet(C)
  BY <1>1, FS_Subset DEF RoundState, Voters
<1>3. A \cap B = {} /\ (A \cup B) \cap C = {} /\ A \cup B \cup C = Casting(U, casts)
  BY <1>1 DEF RoundState, Casting, Voters, Game!Gestures, Game!Nothing
<1>4. /\ IsFiniteSet(A \cup B)
      /\ Cardinality(A \cup B) = Cardinality(A) + Cardinality(B) - Cardinality(A \cap B)
  BY <1>2, FS_Union
<1>5. Cardinality(A \cup B \cup C) = Cardinality(A \cup B) + Cardinality(C) - Cardinality((A \cup B) \cap C)
  BY <1>2, <1>4, FS_Union
<1>6. /\ Cardinality(A) \in Nat /\ Cardinality(B) \in Nat /\ Cardinality(C) \in Nat
      /\ Cardinality({}) = 0
  BY <1>2, FS_CardinalityType, FS_EmptySet
<1>7. counts["scissor"] = Cardinality(A) /\ counts["paper"] = Cardinality(B) /\ counts["rock"] = Cardinality(C)
  BY <1>1 DEF RoundState, Game!Gestures
<1>8. Game!Casts(counts) = Cardinality(Casting(U, casts))
  <2>1. Cardinality(A \cap B) = 0 /\ Cardinality((A \cup B) \cap C) = 0
    BY <1>3, <1>6
  <2>2. Cardinality(A \cup B) = Cardinality(A) + Cardinality(B)
    BY <1>4, <1>6, <2>1
  <2>3. Cardinality(A \cup B \cup C) = Cardinality(A) + Cardinality(B) + Cardinality(C)
    BY <1>5, <1>6, <2>1, <2>2
  <2>4. Cardinality(Casting(U, casts)) = counts["scissor"] + counts["paper"] + counts["rock"]
    BY <1>3, <1>7, <2>3
  <2> QED
    BY <2>4 DEF Game!Casts
<1>9. ASSUME NEW g \in Game!Gestures
      PROVE  g \in Game!Shown(counts) <=> Voters(U, casts, g) # {}
  <2>1. counts[g] = Cardinality(Voters(U, casts, g)) /\ IsFiniteSet(Voters(U, casts, g))
    BY FS_Subset DEF RoundState, Voters
  <2>2. counts[g] > 0 <=> Voters(U, casts, g) # {}
    BY <2>1, FS_EmptySet, FS_CardinalityType
  <2> QED
    BY <2>2 DEF Game!Shown
<1> QED
  BY <1>8, <1>9

\* The rules: the gesture that beats the only other one wins a point, the other one
\* loses one.
Gestured(U, casts) == {casts[q] : q \in U}
Awarded(U, casts, outcome) ==
  \A q \in U : outcome[q] = (IF Wins(Gestured(U, casts), casts[q]) THEN 1 ELSE 0)
                              - (IF Loses(Gestured(U, casts), casts[q]) THEN 1 ELSE 0)

\* The verdict on a regular game: it comes with the cast of the last user who has
\* not cast, and by the gestures that they have cast.
LEMMA RegularVerdict ==
  ASSUME NEW U, NEW gestures, NEW counts, NEW casts, RoundState(U, gestures, counts, TRUE, casts),
         Game!judge(U, gestures, counts, TRUE, casts)
  PROVE  /\ told' # {} <=> Cardinality(U) > 1 /\ Game!Nothing \notin Gestured(U, casts)
         /\ told' # {} => Awarded(U, casts, gain')
<1>1. PICK S : S = Gestured(U, casts)
  OBVIOUS
<1>2. IsFiniteSet(U) /\ Casting(U, casts) \in SUBSET U
  BY DEF RoundState, Casting
<1>3. /\ Cardinality(Casting(U, casts)) <= Cardinality(U)
      /\ Cardinality(U) = Cardinality(Casting(U, casts)) => U = Casting(U, casts)
  BY <1>2, FS_Subset
<1>4. Cardinality(U) \in Nat /\ Cardinality(Casting(U, casts)) \in Nat
  BY <1>2, FS_Subset, FS_CardinalityType
<1>5. Game!Nothing \notin S <=> U = Casting(U, casts)
  BY <1>1 DEF Casting, Gestured
<1>6. Complete(U, counts) <=> Cardinality(U) > 1 /\ Game!Nothing \notin S
  <2>1. Game!Casts(counts) = Cardinality(Casting(U, casts))
    BY CastsOfUsers
  <2>2. U = Casting(U, casts) <=> ~(Cardinality(Casting(U, casts)) < Cardinality(U))
    <3>1. U = Casting(U, casts) => Cardinality(U) = Cardinality(Casting(U, casts))
      OBVIOUS
    <3> QED
      BY <1>3, <1>4, <3>1
  <2> QED
    BY <1>5, <2>1, <2>2 DEF Complete
<1>7. /\ told' = IF Complete(U, counts) THEN U ELSE {}
      /\ Complete(U, counts) => U # {} /\ Scored(U, gestures, counts, gain')
  BY JudgeKeeps
<1>8. ASSUME Complete(U, counts), NEW q \in U
      PROVE  gain'[q] = (IF Wins(S, casts[q]) THEN 1 ELSE 0) - (IF Loses(S, casts[q]) THEN 1 ELSE 0)
  <2>1. \A p \in U : casts[p] \in Game!Gestures /\ gestures[p] = casts[p]
    BY <1>5, <1>6, <1>8 DEF RoundState, Casting
  <2>2. Game!Shown(counts) = S
    <3>1. \A g \in S : g \in Game!Gestures
      BY <1>1, <2>1 DEF Gestured
    <3>2. \A g \in Game!Shown(counts) : g \in Game!Gestures
      BY DEF Game!Shown
    <3>3. \A g \in Game!Gestures : g \in Game!Shown(counts) <=> Voters(U, casts, g) # {}
      BY CastsOfUsers
    <3>4. \A g \in Game!Gestures : g \in S <=> Voters(U, casts, g) # {}
      BY <1>1 DEF Voters, Gestured
    <3>5. \A g : g \in Game!Shown(counts) <=> g \in S
      BY <3>1, <3>2, <3>3, <3>4
    <3> QED
      BY <3>5
  <2>3. /\ Game!gesture2result(counts)[casts[q]] = "Win" <=> Wins(S, casts[q])
        /\ Game!gesture2result(counts)[casts[q]] = "Lose" <=> Loses(S, casts[q])
    BY <2>1, <2>2, OutcomeOfGesture
  <2>4. gain'[q] = (CASE Game!gesture2result(counts)[casts[q]] = "Win" -> 1
                      [] Game!gesture2result(counts)[casts[q]] = "Lose" -> -1
                      [] OTHER -> 0)
    BY <1>7, <1>8, <2>1 DEF Scored
  <2>5. ~(Wins(S, casts[q]) /\ Loses(S, casts[q]))
    BY <2>3
  <2> QED
    BY <2>3, <2>4, <2>5
<1> QED
  BY <1>1, <1>6, <1>7, <1>8 DEF Awarded

\* Any verdict: a gesture that wins beats one that loses.
LEMMA WinnerBeatsLoser ==
  ASSUME NEW U, NEW gestures, NEW counts, NEW ok, NEW casts, RoundState(U, gestures, counts, ok, casts),
         Game!judge(U, gestures, counts, ok, casts)
  PROVE  \A p, q \in told' : Apart(p, q, gain', gestures)
<1> SUFFICES ASSUME NEW p \in told', NEW q \in told', gain'[p] = 1, gain'[q] = -1,
                    gestures[p] \in Game!Gestures, gestures[q] \in Game!Gestures
             PROVE  <<gestures[p], gestures[q]>> \in Game!Beats
  BY DEF Apart
<1>1. p \in U /\ q \in U /\ Scored(U, gestures, counts, gain')
  BY JudgeKeeps
<1>2. Game!gesture2result(counts)[gestures[p]] = "Win" /\ Game!gesture2result(counts)[gestures[q]] = "Lose"
  BY <1>1 DEF Scored
<1>3. PICK S : S = Game!Shown(counts)
  OBVIOUS
<1>4. Wins(S, gestures[p]) /\ Loses(S, gestures[q])
  BY <1>2, <1>3, OutcomeOfGesture
<1> QED
  BY <1>4 DEF Wins, Loses, Game!Beats

GameInv == RoundState(users_, gesture_, count, regular, cast)

\* A cast, before it is judged.
LEMMA CastIsCounted ==
  ASSUME GameInv, NEW p \in users_, NEW g \in Game!Gestures,
         NEW gestures, gestures = [gesture_ EXCEPT ![p] = g],
         NEW counts, counts = [count EXCEPT ![g] = @ + 1],
         NEW casts, casts = [cast EXCEPT ![p] = g]
  PROVE  RoundState(users_, gestures, counts, regular /\ cast[p] = Game!Nothing, casts)
<1>1. /\ users_ \in SUBSET Players /\ IsFiniteSet(users_) /\ p \in Players /\ regular \in BOOLEAN
      /\ gesture_ \in [Players -> Game!Gestures \cup {Game!Nothing}]
      /\ count \in [Game!Gestures -> Nat]
      /\ cast \in [Players -> Game!Gestures \cup {Game!Nothing}]
  BY DEF GameInv, RoundState
<1>2. /\ gestures \in [Players -> Game!Gestures \cup {Game!Nothing}]
      /\ counts \in [Game!Gestures -> Nat]
      /\ casts \in [Players -> Game!Gestures \cup {Game!Nothing}]
  BY <1>1
<1>3. \A q \in Players : casts[q] # Game!Nothing => q \in users_ /\ gestures[q] = casts[q]
  BY <1>1 DEF GameInv, RoundState
<1>4. ASSUME regular, cast[p] = Game!Nothing, NEW h \in Game!Gestures
      PROVE  counts[h] = Cardinality(Voters(users_, casts, h))
  <2>1. /\ count[h] = Cardinality(Voters(users_, cast, h)) /\ IsFiniteSet(Voters(users_, cast, h))
        /\ h # Game!Nothing
    BY <1>1, <1>4, FS_Subset DEF GameInv, RoundState, Voters, Game!Nothing, Game!Gestures
  <2>2. CASE h = g
    <3>1. /\ Voters(users_, casts, h) = Voters(users_, cast, h) \cup {p}
          /\ p \notin Voters(users_, cast, h)
      BY <1>1, <1>4, <2>1, <2>2 DEF Voters
    <3>2. Cardinality(Voters(users_, casts, h)) = Cardinality(Voters(users_, cast, h)) + 1
      BY <2>1, <3>1, FS_AddElement
    <3> QED
      BY <1>1, <2>1, <2>2, <3>2
  <2>3. CASE h # g
    <3>1. Voters(users_, casts, h) = Voters(users_, cast, h)
      BY <1>1, <1>4, <2>1, <2>3 DEF Voters
    <3> QED
      BY <1>1, <2>1, <2>3, <3>1
  <2> QED
    BY <2>2, <2>3
<1> QED
  BY <1>1, <1>2, <1>3, <1>4 DEF RoundState

\* A user who leaves, before the others are judged.
LEMMA LeaverIsForgotten ==
  ASSUME GameInv, NEW p \in users_, NEW U, U = users_ \ {p},
         NEW casts, casts = [cast EXCEPT ![p] = Game!Nothing]
  PROVE  RoundState(U, gesture_, count, regular /\ cast[p] = Game!Nothing, casts)
<1>1. /\ users_ \in SUBSET Players /\ IsFiniteSet(users_) /\ p \in Players /\ regular \in BOOLEAN
      /\ gesture_ \in [Players -> Game!Gestures \cup {Game!Nothing}]
      /\ count \in [Game!Gestures -> Nat]
      /\ cast \in [Players -> Game!Gestures \cup {Game!Nothing}]
  BY DEF GameInv, RoundState
<1>2. U \in SUBSET Players /\ IsFiniteSet(U) /\ casts \in [Players -> Game!Gestures \cup {Game!Nothing}]
  BY <1>1, FS_RemoveElement
<1>3. \A q \in Players : casts[q] # Game!Nothing => q \in U /\ gesture_[q] = casts[q]
  BY <1>1 DEF GameInv, RoundState
<1>4. ASSUME regular, cast[p] = Game!Nothing, NEW h \in Game!Gestures
      PROVE  count[h] = Cardinality(Voters(U, casts, h))
  <2>1. h # Game!Nothing
    BY DEF Game!Nothing, Game!Gestures
  <2>2. Voters(U, casts, h) = Voters(users_, cast, h)
    BY <1>1, <1>4, <2>1 DEF Voters
  <2> QED
    BY <1>4, <2>2 DEF GameInv, RoundState
<1> QED
  BY <1>1, <1>2, <1>3, <1>4 DEF RoundState

\* A user who comes has not cast.
LEMMA JoinKeeps == ASSUME GameInv, NEW p \in Players, Game!joinUser(p) PROVE GameInv'
<1>1. /\ users_ \in SUBSET Players /\ IsFiniteSet(users_) /\ regular \in BOOLEAN
      /\ p \notin users_ /\ cast[p] = Game!Nothing
  BY DEF GameInv, RoundState, Game!joinUser
<1>2. /\ users_' = users_ \cup {p} /\ regular' = (regular /\ Game!Casts(count) = 0)
      /\ gesture_' = gesture_ /\ count' = count /\ cast' = cast
  BY DEF Game!joinUser
<1>3. users_' \in SUBSET Players /\ IsFiniteSet(users_')
  BY <1>1, <1>2, FS_AddElement
<1>4. ASSUME NEW g \in Game!Gestures PROVE Voters(users_', cast', g) = Voters(users_, cast, g)
  <2>1. g # Game!Nothing
    BY DEF Game!Nothing, Game!Gestures
  <2> QED
    BY <1>1, <1>2, <2>1 DEF Voters
<1>5. regular' => \A g \in Game!Gestures : count'[g] = Cardinality(Voters(users_', cast', g))
  BY <1>2, <1>4 DEF GameInv, RoundState
<1>6. regular' \in BOOLEAN /\ \A q \in Players : cast'[q] # Game!Nothing => q \in users_' /\ gesture_'[q] = cast'[q]
  BY <1>1, <1>2 DEF GameInv, RoundState
<1> QED
  BY <1>2, <1>3, <1>5, <1>6 DEF GameInv, RoundState

\* What each step keeps.
LEMMA GameStep ==
  ASSUME GameInv, Game!VerdictIsConsistent, [Game!Next]_(Game!vars)
  PROVE  GameInv' /\ Game!VerdictIsConsistent'
<1>1. ASSUME NEW p \in Players, Game!joinUser(p) PROVE GameInv' /\ Game!VerdictIsConsistent'
  <2>1. told' = {}
    BY <1>1 DEF Game!joinUser
  <2> QED
    BY <1>1, <2>1, JoinKeeps DEF Game!VerdictIsConsistent
<1>2. ASSUME NEW p \in Players, Game!quitUser(p) PROVE GameInv' /\ Game!VerdictIsConsistent'
  <2>1. PICK U, casts, ok : /\ U = users_ \ {p} /\ casts = [cast EXCEPT ![p] = Game!Nothing]
                            /\ ok = (regular /\ cast[p] = Game!Nothing)
    OBVIOUS
  <2>2. /\ p \in users_ /\ users_' = U /\ gesture_' = gesture_
        /\ Game!judge(U, gesture_, count, ok, casts)
    BY <1>2, <2>1 DEF Game!quitUser
  <2>3. RoundState(U, gesture_, count, ok, casts)
    BY <2>1, <2>2, LeaverIsForgotten
  <2>4. RoundState(U, gesture_, count', regular', cast')
    BY <2>2, <2>3, JudgeKeeps
  <2>5. \A q, r \in told' : Apart(q, r, gain', gesture_)
    BY <2>2, <2>3, WinnerBeatsLoser
  <2> QED
    BY <2>2, <2>4, <2>5 DEF GameInv, Apart, Game!VerdictIsConsistent
<1>3. ASSUME NEW p \in Players, NEW g \in Game!Gestures, Game!registerGesture(p, g)
      PROVE  GameInv' /\ Game!VerdictIsConsistent'
  <2>1. PICK gestures, counts, casts, ok :
          /\ gestures = [gesture_ EXCEPT ![p] = g] /\ counts = [count EXCEPT ![g] = @ + 1]
          /\ casts = [cast EXCEPT ![p] = g] /\ ok = (regular /\ cast[p] = Game!Nothing)
    OBVIOUS
  <2>2. /\ p \in users_ /\ users_' = users_ /\ gesture_' = gestures
        /\ Game!judge(users_, gestures, counts, ok, casts)
    BY <1>3, <2>1 DEF Game!registerGesture
  <2>3. RoundState(users_, gestures, counts, ok, casts)
    BY <2>1, <2>2, CastIsCounted
  <2>4. RoundState(users_, gestures, count', regular', cast')
    BY <2>2, <2>3, JudgeKeeps
  <2>5. \A q, r \in told' : Apart(q, r, gain', gestures)
    BY <2>2, <2>3, WinnerBeatsLoser
  <2> QED
    BY <2>2, <2>4, <2>5 DEF GameInv, Apart, Game!VerdictIsConsistent
<1>4. CASE Game!timeout
  <2>1. /\ count' = Game!NoCount /\ regular' = TRUE /\ cast' = Game!NoCast /\ told' = {}
        /\ users_' = users_ /\ gesture_' = gesture_
    BY <1>4 DEF Game!timeout
  <2>2. RoundState(users_, gesture_, Game!NoCount, TRUE, Game!NoCast)
    BY NewGame DEF GameInv
  <2> QED
    BY <2>1, <2>2 DEF GameInv, Game!VerdictIsConsistent
<1>5. CASE UNCHANGED Game!vars
  BY <1>5 DEF Game!vars, GameInv, Game!VerdictIsConsistent
<1> QED
  BY <1>1, <1>2, <1>3, <1>4, <1>5 DEF Game!Next

LEMMA GameStarts == Game!Init => GameInv /\ Game!VerdictIsConsistent
<1> SUFFICES ASSUME Game!Init PROVE GameInv /\ Game!VerdictIsConsistent
  OBVIOUS
<1>1. /\ users_ = {} /\ gesture_ = Game!NoCast /\ count = Game!NoCount /\ told = {}
      /\ regular = TRUE /\ cast = Game!NoCast
  BY DEF Game!Init
<1>2. /\ Game!NoCast \in [Players -> Game!Gestures \cup {Game!Nothing}]
      /\ Game!NoCount \in [Game!Gestures -> Nat] /\ \A g \in Game!Gestures : Game!NoCount[g] = 0
      /\ \A p \in Players : Game!NoCast[p] = Game!Nothing
  BY DEF Game!NoCast, Game!NoCount
<1>3. \A g \in Game!Gestures : Voters({}, Game!NoCast, g) = {}
  BY DEF Voters
<1>4. RoundState({}, Game!NoCast, Game!NoCount, TRUE, Game!NoCast)
  BY <1>2, <1>3, FS_EmptySet DEF RoundState
<1> QED
  BY <1>1, <1>4 DEF GameInv, Game!VerdictIsConsistent

\* Round::judge: however users come, go, cast twice or are judged with casts of those
\* who left, the gesture of a user who wins a point beats that of one who loses one.
THEOREM WinnersBeatLosers == Game!Init /\ [][Game!Next]_(Game!vars) => []Game!VerdictIsConsistent
<1>1. GameInv /\ Game!VerdictIsConsistent /\ [Game!Next]_(Game!vars) => GameInv' /\ Game!VerdictIsConsistent'
  BY GameStep
<1> QED
  BY <1>1, GameStarts, PTL

\* Round::judge, Round::registerGesture: a game in which everybody has cast once and
\* nobody has come or gone is judged by its last cast, and by the rules.
THEOREM RegularGamesAreFair == Game!Init /\ [][Game!Next]_(Game!vars) => Game!RegularIsFair
<1> DEFINE Rules(last) ==
      LET shown == {last[q] : q \in users_}
          wins(q) == \E h \in shown : shown = {last[q], h} /\ <<last[q], h>> \in Game!Beats
          loses(q) == \E h \in shown : shown = {last[q], h} /\ <<h, last[q]>> \in Game!Beats
      IN /\ told' # {} <=> Game!Cardinality(users_) > 1 /\ Game!Nothing \notin shown
         /\ told' # {} =>
              \A q \in users_ : gain'[q] =
                 (IF wins(q) THEN 1 ELSE 0) - (IF loses(q) THEN 1 ELSE 0)
    Fair(p, g) == Game!registerGesture(p, g) /\ regular /\ cast[p] = Game!Nothing
                    => Rules([cast EXCEPT ![p] = g])
<1>1. GameInv => \A p \in Players, g \in Game!Gestures : Fair(p, g)
  <2> SUFFICES ASSUME GameInv, NEW p \in Players, NEW g \in Game!Gestures,
                      Game!registerGesture(p, g), regular, cast[p] = Game!Nothing
               PROVE  Fair(p, g)
    OBVIOUS
  <2>1. PICK gestures, counts, casts :
          /\ gestures = [gesture_ EXCEPT ![p] = g] /\ counts = [count EXCEPT ![g] = @ + 1]
          /\ casts = [cast EXCEPT ![p] = g]
    OBVIOUS
  <2>2. p \in users_ /\ Game!judge(users_, gestures, counts, TRUE, casts)
    BY <2>1 DEF Game!registerGesture
  <2>3. RoundState(users_, gestures, counts, TRUE, casts)
    BY <2>1, <2>2, CastIsCounted
  <2>4. /\ told' # {} <=> Cardinality(users_) > 1 /\ Game!Nothing \notin Gestured(users_, casts)
        /\ told' # {} => Awarded(users_, casts, gain')
    BY <2>2, <2>3, RegularVerdict
  <2>5. Game!Cardinality(users_) = Cardinality(users_)
    BY DEF Game!Cardinality, Cardinality
  <2>6. Rules(casts)
    BY <2>4, <2>5 DEF Gestured, Awarded, Wins, Loses
  <2> HIDE DEF Rules
  <2> QED
    BY <2>1, <2>6
<1>2. GameInv /\ Game!VerdictIsConsistent /\ [Game!Next]_(Game!vars)
        => (GameInv /\ Game!VerdictIsConsistent)' /\ [\A p \in Players, g \in Game!Gestures : Fair(p, g)]_(Game!vars)
  BY <1>1, GameStep
<1> QED
  BY <1>2, GameStarts, PTL DEF Game!RegularIsFair

-------------------------------------------------------------------------------
(* The answers to the players, for any number of clients that connect one     *)
(* after the other at one address.  Both FIFOs and the buffer are queues, and  *)
(* numbers grow along all of them together (FifoInv).                          *)

CONSTANTS CommandSizes, LenSize, ReadSize, MaxMessages, Clients, HeaderSize, TextSizes, UnknownSize,
          WriteSize, MaxCommands
VARIABLES sent, sock, left, readbuffer, open, shutBy, handled,
          owner, coming, commands, requests, responses, writebuffer, EPOLLOUT, got, accepted
Link == INSTANCE GameSession
wvars == <<owner, coming, commands, requests, responses, writebuffer, EPOLLOUT, got, accepted>>

SizesAreNumbers == HeaderSize \in Nat /\ UnknownSize \in Nat /\ TextSizes \subseteq Nat

Queued   == [for : Nat, id : Nat]
Answered == [for : Nat, id : Nat, size : Nat]

\* A command that is given later, to a client that is no earlier.
Later(x, y) == x.id < y.id /\ x.for <= y.for
InOrder(list) == \A i, j \in DOMAIN list : i < j => Later(list[i], list[j])
AllBefore(list, y) == \A i \in DOMAIN list : Later(list[i], y)
Behind(list, rest) == \A j \in DOMAIN rest : AllBefore(list, rest[j])

\* What is in a queue has been given by a client who has connected.
Known(list) == \A i \in DOMAIN list : list[i].id <= commands /\ list[i].for < coming

FifoTypes ==
  /\ commands \in Nat /\ coming \in Nat \ {0} /\ owner \in {0, coming - 1}
  /\ owner # 0 => owner \in Clients
  /\ requests \in Seq(Queued) /\ responses \in Seq(Answered)
  /\ accepted \in [Clients -> Seq(Answered)]

FifoInv ==
  /\ FifoTypes
  /\ InOrder(requests) /\ InOrder(responses) /\ Behind(responses, requests)
  /\ Known(requests) /\ Known(responses)
  /\ \A c \in Clients : /\ InOrder(accepted[c]) /\ Known(accepted[c])
                        /\ Behind(accepted[c], responses) /\ Behind(accepted[c], requests)

\* At the end of a queue.
LEMMA AddedLast ==
  ASSUME NEW S, NEW list \in Seq(S), NEW x \in S
  PROVE  /\ Append(list, x) \in Seq(S)
         /\ InOrder(list) /\ AllBefore(list, x) => InOrder(Append(list, x))
         /\ \A y : AllBefore(Append(list, x), y) <=> AllBefore(list, y) /\ Later(x, y)
         /\ \A before : Behind(before, Append(list, x)) <=> Behind(before, list) /\ AllBefore(before, x)
         /\ Known(Append(list, x)) <=> Known(list) /\ x.id <= commands /\ x.for < coming
<1>1. PICK new : new = Append(list, x)
  OBVIOUS
<1>2. /\ new \in Seq(S) /\ DOMAIN list = 1..Len(list) /\ Len(list) \in Nat
      /\ DOMAIN new = 1..(Len(list) + 1) /\ new[Len(list) + 1] = x
      /\ \A i \in 1..Len(list) : new[i] = list[i]
  BY <1>1
<1>3. \A i \in DOMAIN new : i \in DOMAIN list \/ i = Len(list) + 1
  BY <1>2
<1>4. InOrder(list) /\ AllBefore(list, x) => InOrder(new)
  BY <1>2, <1>3 DEF InOrder, AllBefore
<1>5. ASSUME NEW y PROVE AllBefore(new, y) <=> AllBefore(list, y) /\ Later(x, y)
  BY <1>2, <1>3 DEF AllBefore
<1>6. ASSUME NEW before PROVE Behind(before, new) <=> Behind(before, list) /\ AllBefore(before, x)
  BY <1>2, <1>3 DEF Behind
<1>7. Known(new) <=> Known(list) /\ x.id <= commands /\ x.for < coming
  BY <1>2, <1>3 DEF Known
<1> QED
  BY <1>1, <1>2, <1>4, <1>5, <1>6, <1>7

\* From the front of a queue.
LEMMA TakenFirst ==
  ASSUME NEW S, NEW list \in Seq(S), list # <<>>
  PROVE  /\ Tail(list) \in Seq(S) /\ Head(list) \in S
         /\ InOrder(list) => InOrder(Tail(list)) /\ \A j \in DOMAIN Tail(list) : Later(Head(list), Tail(list)[j])
         /\ \A y : AllBefore(list, y) => AllBefore(Tail(list), y) /\ Later(Head(list), y)
         /\ \A before : Behind(before, list) => Behind(before, Tail(list)) /\ AllBefore(before, Head(list))
         /\ Known(list) => Known(Tail(list)) /\ Head(list).id <= commands /\ Head(list).for < coming
<1>1. PICK rest, x : rest = Tail(list) /\ x = Head(list)
  OBVIOUS
<1>2. /\ rest \in Seq(S) /\ x \in S /\ x = list[1] /\ 1 \in DOMAIN list
      /\ DOMAIN list = 1..Len(list) /\ Len(list) \in Nat /\ Len(list) > 0
      /\ DOMAIN rest = 1..(Len(list) - 1)
      /\ \A i \in 1..(Len(list) - 1) : rest[i] = list[i + 1]
  BY <1>1
<1>3. \A j \in DOMAIN rest : j + 1 \in DOMAIN list /\ rest[j] = list[j + 1] /\ 1 < j + 1
  BY <1>2
<1>4. ASSUME InOrder(list) PROVE InOrder(rest) /\ \A j \in DOMAIN rest : Later(x, rest[j])
  <2>1. \A i, j \in DOMAIN rest : i < j => i + 1 < j + 1
    BY <1>2
  <2>2. InOrder(rest)
    BY <1>3, <1>4, <2>1 DEF InOrder
  <2>3. \A j \in DOMAIN rest : Later(x, rest[j])
    BY <1>2, <1>3, <1>4 DEF InOrder
  <2> QED
    BY <2>2, <2>3
<1>5. ASSUME NEW y, AllBefore(list, y) PROVE AllBefore(rest, y) /\ Later(x, y)
  BY <1>2, <1>3, <1>5 DEF AllBefore
<1>6. ASSUME NEW before, Behind(before, list) PROVE Behind(before, rest) /\ AllBefore(before, x)
  BY <1>2, <1>3, <1>6 DEF Behind
<1>7. ASSUME Known(list) PROVE Known(rest) /\ x.id <= commands /\ x.for < coming
  BY <1>2, <1>3, <1>7 DEF Known
<1> QED
  BY <1>1, <1>2, <1>4, <1>5, <1>6, <1>7

LEMMA Numbered ==
  ASSUME NEW list, list \in Seq(Queued) \/ list \in Seq(Answered), NEW i \in DOMAIN list
  PROVE  list[i].id \in Nat /\ list[i].for \in Nat
<1>1. CASE list \in Seq(Queued)
  <2>1. list[i] \in Queued
    BY <1>1
  <2> QED
    BY <2>1 DEF Queued
<1>2. CASE list \in Seq(Answered)
  <2>1. list[i] \in Answered
    BY <1>2
  <2> QED
    BY <2>1 DEF Answered
<1> QED
  BY <1>1, <1>2

\* Steps that let the numbers grow and leave a queue as it is.
LEMMA StaysKnown ==
  ASSUME NEW list, Known(list), commands \in Nat, coming \in Nat,
         commands' \in Nat, commands <= commands', coming' \in Nat, coming <= coming',
         list \in Seq(Queued) \/ list \in Seq(Answered)
  PROVE  \A i \in DOMAIN list : list[i].id <= commands' /\ list[i].for < coming'
<1> SUFFICES ASSUME NEW i \in DOMAIN list
             PROVE  list[i].id <= commands' /\ list[i].for < coming'
  OBVIOUS
<1>1. list[i].id \in Nat /\ list[i].for \in Nat
  BY Numbered
<1> QED
  BY <1>1 DEF Known

\* A client gives a command: the last of all, and the latest.
LEMMA CommandKeeps == ASSUME FifoInv, Link!Command PROVE FifoInv'
<1>1. PICK r : r = [for |-> owner, id |-> commands + 1]
  OBVIOUS
<1>2. /\ owner # 0 /\ commands' = commands + 1 /\ requests' = Append(requests, r)
      /\ owner' = owner /\ coming' = coming /\ responses' = responses /\ accepted' = accepted
  BY <1>1 DEF Link!Command
<1>3. /\ commands \in Nat /\ coming \in Nat \ {0} /\ owner = coming - 1
      /\ requests \in Seq(Queued) /\ responses \in Seq(Answered) /\ accepted \in [Clients -> Seq(Answered)]
      /\ r \in Queued /\ r.id = commands + 1 /\ r.for = coming - 1
  BY <1>1, <1>2 DEF FifoInv, FifoTypes, Queued
<1>4. ASSUME NEW list, list \in Seq(Queued) \/ list \in Seq(Answered), Known(list) PROVE AllBefore(list, r)
  <2>1. \A i \in DOMAIN list : list[i].id \in Nat /\ list[i].for \in Nat
    BY <1>4, Numbered
  <2> QED
    BY <1>3, <1>4, <2>1 DEF AllBefore, Known, Later
<1>5. /\ AllBefore(requests, r) /\ AllBefore(responses, r)
      /\ \A c \in Clients : AllBefore(accepted[c], r)
  BY <1>3, <1>4 DEF FifoInv
<1>6. /\ requests' \in Seq(Queued) /\ InOrder(requests') /\ Behind(responses, requests')
      /\ \A c \in Clients : Behind(accepted[c], requests')
  BY <1>2, <1>3, <1>5, AddedLast DEF FifoInv
<1>7. Known(responses)' /\ \A c \in Clients : Known(accepted[c])'
  <2>1. commands' \in Nat /\ commands <= commands' /\ coming' \in Nat /\ coming <= coming'
    BY <1>2, <1>3
  <2>2. \A i \in DOMAIN responses : responses[i].id <= commands' /\ responses[i].for < coming'
    BY <1>3, <2>1, StaysKnown DEF FifoInv
  <2>3. \A c \in Clients : \A i \in DOMAIN accepted[c] :
          accepted[c][i].id <= commands' /\ accepted[c][i].for < coming'
    BY <1>3, <2>1, StaysKnown DEF FifoInv
  <2> QED
    BY <1>2, <2>2, <2>3 DEF Known
<1>8. Known(requests)'
  <2>1. \A i \in DOMAIN requests : requests[i].id <= commands' /\ requests[i].for < coming'
    <3>1. commands' \in Nat /\ commands <= commands' /\ coming' \in Nat /\ coming <= coming'
      BY <1>2, <1>3
    <3>2. Known(requests)
      BY DEF FifoInv
    <3> QED
      BY <1>3, <3>1, <3>2, StaysKnown
  <2>2. r.id <= commands' /\ r.for < coming'
    BY <1>2, <1>3
  <2>3. \A i \in DOMAIN requests' : requests'[i] = r \/ \E j \in DOMAIN requests : requests'[i] = requests[j]
    BY <1>2, <1>3
  <2> QED
    BY <2>1, <2>2, <2>3 DEF Known
<1> QED
  BY <1>2, <1>3, <1>6, <1>7, <1>8 DEF FifoInv, FifoTypes

\* The game process answers the oldest command, or says nothing.
LEMMA AnswerKeeps == ASSUME SizesAreNumbers, FifoInv, Link!Answer PROVE FifoInv'
<1>1. /\ requests # <<>> /\ requests' = Tail(requests)
      /\ owner' = owner /\ coming' = coming /\ commands' = commands /\ accepted' = accepted
      /\ \/ responses' = responses
         \/ \E size \in Nat : responses' = Append(responses, [for |-> Head(requests).for,
                                                              id |-> Head(requests).id, size |-> size])
  BY DEF Link!Answer, Link!infoHandler, Link!heartbeatHandler, Link!unknownMsgHandler, Link!sendFifoMsg,
         SizesAreNumbers
<1>2. /\ requests \in Seq(Queued) /\ responses \in Seq(Answered) /\ accepted \in [Clients -> Seq(Answered)]
  BY DEF FifoInv, FifoTypes
<1>3. PICK r, rest : r = Head(requests) /\ rest = Tail(requests)
  OBVIOUS
<1>4. /\ rest \in Seq(Queued) /\ r \in Queued /\ InOrder(rest) /\ \A j \in DOMAIN rest : Later(r, rest[j])
      /\ AllBefore(responses, r) /\ Behind(responses, rest)
      /\ Known(rest) /\ r.id <= commands /\ r.for < coming
      /\ \A c \in Clients : AllBefore(accepted[c], r) /\ Behind(accepted[c], rest)
  BY <1>1, <1>2, <1>3, TakenFirst DEF FifoInv
<1>5. CASE responses' = responses
  BY <1>1, <1>3, <1>4, <1>5 DEF FifoInv, FifoTypes, Known
<1>6. CASE responses' # responses
  <2>1. PICK size \in Nat : responses' = Append(responses, [for |-> r.for, id |-> r.id, size |-> size])
    BY <1>1, <1>3, <1>6
  <2>2. PICK a \in Answered : a = [for |-> r.for, id |-> r.id, size |-> size]
    BY <1>4 DEF Queued, Answered
  <2>3. a.id = r.id /\ a.for = r.for /\ responses' = Append(responses, a)
    BY <2>1, <2>2
  <2>4. /\ AllBefore(responses, a) /\ \A j \in DOMAIN rest : Later(a, rest[j])
        /\ \A c \in Clients : AllBefore(accepted[c], a)
    BY <1>4, <2>3 DEF AllBefore, Later
  <2>5. PICK new : new = Append(responses, a)
    OBVIOUS
  <2>6. /\ new \in Seq(Answered) /\ InOrder(new) /\ Known(new)
        /\ \A y : AllBefore(new, y) <=> AllBefore(responses, y) /\ Later(a, y)
        /\ \A c \in Clients : Behind(accepted[c], new)
    BY <1>2, <1>4, <2>3, <2>4, <2>5, AddedLast DEF FifoInv
  <2>7. Behind(new, rest)
    BY <1>4, <2>4, <2>6 DEF Behind
  <2> QED
    BY <1>1, <1>3, <1>4, <2>3, <2>5, <2>6, <2>7 DEF FifoInv, FifoTypes, Known
<1> QED
  BY <1>5, <1>6

\* The oldest response goes into the buffer of whoever has the address, or nowhere.
LEMMA RecvKeeps == ASSUME FifoInv, Link!do_recvResp PROVE FifoInv'
<1>1. PICK h, rest : h = Head(responses) /\ rest = Tail(responses)
  OBVIOUS
<1>2. /\ responses # <<>> /\ responses' = rest
      /\ owner' = owner /\ coming' = coming /\ commands' = commands /\ requests' = requests
      /\ \/ accepted' = accepted
         \/ owner # 0 /\ accepted' = [accepted EXCEPT ![owner] = Append(@, h)]
  BY <1>1 DEF Link!do_recvResp, Link!writeBuf, Link!NextResponse
<1>3. /\ requests \in Seq(Queued) /\ responses \in Seq(Answered) /\ accepted \in [Clients -> Seq(Answered)]
  BY DEF FifoInv, FifoTypes
<1>4. /\ rest \in Seq(Answered) /\ h \in Answered /\ InOrder(rest) /\ \A j \in DOMAIN rest : Later(h, rest[j])
      /\ \A y : AllBefore(responses, y) => AllBefore(rest, y) /\ Later(h, y)
      /\ Known(rest) /\ h.id <= commands /\ h.for < coming
      /\ \A c \in Clients : AllBefore(accepted[c], h) /\ Behind(accepted[c], rest)
  BY <1>1, <1>2, <1>3, TakenFirst DEF FifoInv
<1>5. Behind(rest, requests) /\ \A j \in DOMAIN requests : Later(h, requests[j])
  BY <1>4 DEF FifoInv, Behind
<1>6. CASE accepted' = accepted
  BY <1>2, <1>4, <1>5, <1>6 DEF FifoInv, FifoTypes, Known
<1>7. CASE accepted' # accepted
  <2>1. owner \in Clients /\ accepted' = [accepted EXCEPT ![owner] = Append(@, h)]
    BY <1>2, <1>7 DEF FifoInv, FifoTypes
  <2>2. PICK old, new : old = accepted[owner] /\ new = Append(old, h)
    OBVIOUS
  <2>3. /\ old \in Seq(Answered) /\ InOrder(old) /\ Known(old) /\ AllBefore(old, h)
        /\ Behind(old, rest) /\ Behind(old, requests)
    BY <1>3, <1>4, <2>1, <2>2 DEF FifoInv
  <2>4. /\ new \in Seq(Answered) /\ InOrder(new) /\ Known(new)
        /\ \A y : AllBefore(new, y) <=> AllBefore(old, y) /\ Later(h, y)
    BY <1>4, <2>2, <2>3, AddedLast
  <2>5. Behind(new, rest) /\ Behind(new, requests)
    BY <1>4, <1>5, <2>3, <2>4 DEF Behind
  <2>6. accepted' \in [Clients -> Seq(Answered)] /\ \A c \in Clients : accepted'[c] = new \/ accepted'[c] = accepted[c]
    BY <1>3, <2>1, <2>2, <2>4
  <2>7. \A c \in Clients : /\ InOrder(accepted'[c]) /\ Known(accepted'[c])
                           /\ Behind(accepted'[c], rest) /\ Behind(accepted'[c], requests)
    BY <1>4, <2>4, <2>5, <2>6 DEF FifoInv
  <2> QED
    BY <1>2, <1>4, <1>5, <2>6, <2>7 DEF FifoInv, FifoTypes, Known
<1> QED
  BY <1>6, <1>7

\* Nothing that is queued changes when clients come and go.
LEMMA ClientsComeAndGo ==
  ASSUME FifoInv, Link!do_accecpt \/ Link!do_write \/ Link!shutdownSession \/ UNCHANGED wvars
  PROVE  FifoInv'
<1>1. /\ requests' = requests /\ responses' = responses /\ accepted' = accepted /\ commands' = commands
      /\ \/ owner' = owner /\ coming' = coming
         \/ owner' = 0 /\ coming' = coming
         \/ owner' = coming /\ coming' = coming + 1 /\ coming \in Clients
  BY DEF Link!do_accecpt, Link!do_write, Link!shutdownSession, wvars
<1>2. /\ requests \in Seq(Queued) /\ responses \in Seq(Answered) /\ accepted \in [Clients -> Seq(Answered)]
      /\ commands \in Nat /\ coming \in Nat \ {0} /\ owner \in {0, coming - 1} /\ (owner # 0 => owner \in Clients)
  BY DEF FifoInv, FifoTypes
<1>3. commands' \in Nat /\ commands <= commands' /\ coming' \in Nat /\ coming <= coming'
  BY <1>1, <1>2
<1>4. Known(requests)' /\ Known(responses)' /\ \A c \in Clients : Known(accepted[c])'
  BY <1>1, <1>2, <1>3, StaysKnown DEF FifoInv, Known
<1>5. FifoTypes'
  BY <1>1, <1>2 DEF FifoTypes
<1> QED
  BY <1>1, <1>4, <1>5 DEF FifoInv

\* Server::do_recvResp: answers to an earlier client's commands may reach the client that
\* has its address now, but before the first answer to a command of its own, and each
\* answer reaches at most one buffer once.
THEOREM ForeignAnswersComeFirst ==
  ASSUME SizesAreNumbers
  PROVE  Link!WriteInit /\ [][Link!WriteNext]_wvars => []Link!ForeignComeFirst
<1>1. Link!WriteInit => FifoInv
  BY DEF Link!WriteInit, FifoInv, FifoTypes, InOrder, Behind, Known, AllBefore
<1>2. FifoInv /\ [Link!WriteNext]_wvars => FifoInv'
  BY CommandKeeps, AnswerKeeps, RecvKeeps, ClientsComeAndGo DEF Link!WriteNext
<1>3. FifoInv => Link!ForeignComeFirst
  BY DEF FifoInv, InOrder, Later, Link!ForeignComeFirst
<1> QED
  BY <1>1, <1>2, <1>3, PTL

-------------------------------------------------------------------------------
(* Sequences of sequences, one after the other. *)

\* A set of numbers has a smallest one.
LEMMA Smallest ==
  ASSUME NEW T, T \subseteq Nat, T # {} PROVE \E n \in T : \A m \in T : n <= m
<1>1. \E n \in T : \A m \in T : ~(<<m, n>> \in OpToRel(<, Nat))
  BY NatLessThanWellFounded, WFMin
<1>2. \A m \in T, n \in T : <<m, n>> \in OpToRel(<, Nat) <=> m < n
  BY DEF OpToRel
<1>3. PICK n \in T : \A m \in T : ~(m < n)
  BY <1>1, <1>2
<1> QED
  BY <1>3

\* What f says is joined of the first n of a list.
Joins(f, list, n) == \A i \in 1..n : f[i] = IF i = 1 THEN list[i] ELSE f[i - 1] \o list[i]

LEMMA JoinsExist ==
  ASSUME NEW list, NEW n \in Nat
  PROVE  \E f : f = [i \in 1..n |-> IF i = 1 THEN list[i] ELSE f[i - 1] \o list[i]]
<1> DEFINE Good(k) == \E f : f = [i \in 1..k |-> IF i = 1 THEN list[i] ELSE f[i - 1] \o list[i]]
           Bad == {k \in Nat : ~Good(k)}
<1>1. SUFFICES ASSUME Bad # {} PROVE FALSE
  OBVIOUS
<1>2. PICK k \in Bad : \A m \in Bad : k <= m
  <2>1. Bad \subseteq Nat
    OBVIOUS
  <2> HIDE DEF Bad
  <2> QED
    BY <1>1, <2>1, Smallest
<1>3. CASE k = 0
  <2>1. [i \in 1..0 |-> list] = [i \in 1..0 |-> IF i = 1 THEN list[i] ELSE [j \in 1..0 |-> list][i - 1] \o list[i]]
    OBVIOUS
  <2> QED
    BY <1>2, <1>3, <2>1
<1>4. CASE k # 0
  <2>1. k \in Nat /\ k - 1 \in Nat /\ k >= 1
    BY <1>2, <1>4
  <2>6. k - 1 \notin Bad
    <3> HIDE DEF Bad
    <3> QED
      BY <1>2, <2>1
  <2>2. PICK f : f = [i \in 1..(k - 1) |-> IF i = 1 THEN list[i] ELSE f[i - 1] \o list[i]]
    BY <2>1, <2>6
  <2>3. PICK g : g = [i \in 1..k |-> IF i = k THEN IF i = 1 THEN list[i] ELSE f[i - 1] \o list[i] ELSE f[i]]
    OBVIOUS
  <2>4. \A i \in 1..k : g[i] = IF i = 1 THEN list[i] ELSE g[i - 1] \o list[i]
    <3> SUFFICES ASSUME NEW i \in 1..k PROVE g[i] = IF i = 1 THEN list[i] ELSE g[i - 1] \o list[i]
      OBVIOUS
    <3>1. i # 1 => i - 1 \in 1..(k - 1) /\ i - 1 # k /\ i - 1 \in 1..k
      BY <2>1
    <3>2. i # 1 => g[i - 1] = f[i - 1]
      BY <2>3, <3>1
    <3>3. i # k => i \in 1..(k - 1)
      BY <2>1
    <3> QED
      BY <2>2, <2>3, <3>2, <3>3
  <2>5. g = [i \in 1..k |-> IF i = 1 THEN list[i] ELSE g[i - 1] \o list[i]]
    BY <2>3, <2>4
  <2> QED
    BY <1>2, <2>5
<1> QED
  BY <1>3, <1>4

\* Link!FlattenSeq() joins the whole list.
LEMMA FlattenJoins ==
  ASSUME NEW list, Len(list) \in Nat, Len(list) # 0
  PROVE  \E f : Joins(f, list, Len(list)) /\ Link!FlattenSeq(list) = f[Len(list)]
<1>1. PICK f : f = CHOOSE h : h = [i \in 1..Len(list) |-> IF i = 1 THEN list[i] ELSE h[i - 1] \o list[i]]
  OBVIOUS
<1>2. f = [i \in 1..Len(list) |-> IF i = 1 THEN list[i] ELSE f[i - 1] \o list[i]]
  BY <1>1, JoinsExist
<1>3. Link!FlattenSeq(list) = f[Len(list)]
  BY <1>1 DEF Link!FlattenSeq
<1>4. Joins(f, list, Len(list))
  BY <1>2 DEF Joins
<1> QED
  BY <1>3, <1>4

\* Lists that begin in the same way are joined in the same way.
LEMMA JoinsAgree ==
  ASSUME NEW S, NEW n \in Nat, NEW a, NEW b, NEW f, NEW g, Joins(f, a, n), Joins(g, b, n),
         \A i \in 1..n : a[i] = b[i] /\ a[i] \in Seq(S)
  PROVE  \A i \in 1..n : f[i] = g[i] /\ f[i] \in Seq(S)
<1> DEFINE Bad == {i \in 1..n : ~(f[i] = g[i] /\ f[i] \in Seq(S))}
<1>1. SUFFICES ASSUME Bad # {} PROVE FALSE
  OBVIOUS
<1>2. PICK k \in Bad : \A m \in Bad : k <= m
  <2>1. Bad \subseteq Nat
    OBVIOUS
  <2> HIDE DEF Bad
  <2> QED
    BY <1>1, <2>1, Smallest
<1>3. k # 1
  BY <1>2 DEF Joins
<1>4. k - 1 \in 1..n /\ k - 1 \notin Bad
  BY <1>2, <1>3
<1>5. f[k] = f[k - 1] \o a[k] /\ g[k] = g[k - 1] \o b[k]
  BY <1>2, <1>3 DEF Joins
<1>6. f[k - 1] = g[k - 1] /\ f[k - 1] \in Seq(S)
  BY <1>4
<1>7. a[k] = b[k] /\ a[k] \in Seq(S)
  BY <1>2
<1>8. f[k - 1] \o a[k] \in Seq(S)
  BY <1>6, <1>7
<1> QED
  BY <1>2, <1>5, <1>6, <1>7, <1>8

LEMMA FlattenAppend ==
  ASSUME NEW S, NEW list \in Seq(Seq(S)), NEW x \in Seq(S)
  PROVE  /\ Link!FlattenSeq(list) \in Seq(S)
         /\ Link!FlattenSeq(Append(list, x)) = Link!FlattenSeq(list) \o x
<1>1. PICK new : new = Append(list, x)
  OBVIOUS
<1>2. PICK n : n = Len(list)
  OBVIOUS
<1>3. /\ n \in Nat /\ \A i \in 1..n : list[i] \in Seq(S) /\ new[i] = list[i]
      /\ Len(new) = n + 1 /\ new[n + 1] = x
  BY <1>1, <1>2
<1>4. PICK g : Joins(g, new, n + 1) /\ Link!FlattenSeq(new) = g[n + 1]
  BY <1>3, FlattenJoins
<1>5. CASE n = 0
  <2>1. list = <<>>
    <3>1. \A q \in Seq(Seq(S)) : Len(q) = 0 => q = <<>>
      BY EmptySeq
    <3> QED
      BY <1>2, <1>5, <3>1
  <2>5. Link!FlattenSeq(list) = list
    BY <1>2, <1>5, Zenon DEF Link!FlattenSeq
  <2>2. g[1] = x
    BY <1>3, <1>4, <1>5 DEF Joins
  <2>3. <<>> \o x = x /\ <<>> \in Seq(S)
    OBVIOUS
  <2>4. Link!FlattenSeq(new) = x
    BY <1>4, <1>5, <2>2
  <2> QED
    BY <1>1, <2>1, <2>3, <2>4, <2>5
<1>6. CASE n # 0
  <2>1. PICK f : Joins(f, list, n) /\ Link!FlattenSeq(list) = f[n]
    BY <1>2, <1>3, <1>6, FlattenJoins
  <2>2. Joins(g, new, n)
    BY <1>3, <1>4 DEF Joins
  <2>3. n \in 1..n
    BY <1>3, <1>6
  <2>4. \A i \in 1..n : f[i] = g[i] /\ f[i] \in Seq(S)
    BY <1>3, <2>1, <2>2, JoinsAgree
  <2>5. f[n] = g[n] /\ f[n] \in Seq(S)
    BY <2>3, <2>4
  <2>6. PICK m : m = n + 1
    OBVIOUS
  <2>7. m \in 1..m /\ m # 1 /\ m - 1 = n
    BY <1>3, <1>6, <2>6
  <2>8. g[n + 1] = g[n] \o x
    <3>1. Joins(g, new, m)
      BY <1>4, <2>6
    <3>2. g[m] = g[m - 1] \o new[m]
      BY <2>7, <3>1 DEF Joins
    <3> QED
      BY <1>3, <2>6, <2>7, <3>2
  <2> QED
    BY <1>1, <1>4, <2>1, <2>5, <2>8
<1> QED
  BY <1>5, <1>6
\* The first k bytes of a sequence, and the others.
LEMMA BytesFirst ==
  ASSUME NEW S, NEW b \in Seq(S), NEW k \in 0..Len(b)
  PROVE  /\ SubSeq(b, 1, k) \in Seq(S) /\ Len(SubSeq(b, 1, k)) = k
         /\ \A i \in 1..k : SubSeq(b, 1, k)[i] = b[i]
<1>1. k \in Nat /\ k <= Len(b) /\ Len(b) \in Nat
  OBVIOUS
<1>2. 1 \in Int /\ k \in Int /\ \A i \in 1..k : b[i] \in S
  BY <1>1
<1>3. /\ SubSeq(b, 1, k) \in Seq(S)
      /\ Len(SubSeq(b, 1, k)) = IF 1 <= k THEN k - 1 + 1 ELSE 0
      /\ \A i \in 1..(k - 1 + 1) : SubSeq(b, 1, k)[i] = b[1 + i - 1]
  BY <1>2, SubSeqProperties
<1> QED
  BY <1>1, <1>3

LEMMA BytesCut ==
  ASSUME NEW S, NEW b \in Seq(S), NEW k \in 0..Len(b)
  PROVE  /\ SubSeq(b, k + 1, Len(b)) \in Seq(S)
         /\ SubSeq(b, 1, k) \o SubSeq(b, k + 1, Len(b)) = b
<1>1. k \in Nat /\ k <= Len(b) /\ Len(b) \in Nat
  OBVIOUS
<1>2. k + 1 \in Int /\ Len(b) \in Int /\ \A i \in (k + 1)..Len(b) : b[i] \in S
  BY <1>1
<1>3. SubSeq(b, k + 1, Len(b)) \in Seq(S)
  BY <1>2, SubSeqProperties
<1>4. 1 \in 1..(Len(b) + 1) /\ k \in (1 - 1)..Len(b) /\ Len(b) \in k..Len(b)
  BY <1>1
<1>5. SubSeq(b, 1, k) \o SubSeq(b, k + 1, Len(b)) = SubSeq(b, 1, Len(b))
  BY <1>4, ConcatAdjacentSubSeq
<1>6. SubSeq(b, 1, Len(b)) = b
  BY SubSeqFull
<1> QED
  BY <1>3, <1>5, <1>6

\* The first k bytes go to the end of another sequence.
LEMMA BytesMoved ==
  ASSUME NEW S, NEW a \in Seq(S), NEW b \in Seq(S), NEW k \in 0..Len(b)
  PROVE  /\ a \o SubSeq(b, 1, k) \in Seq(S)
         /\ (a \o SubSeq(b, 1, k)) \o SubSeq(b, k + 1, Len(b)) = a \o b
<1>1. PICK front : front = SubSeq(b, 1, k)
  OBVIOUS
<1>2. PICK rest : rest = SubSeq(b, k + 1, Len(b))
  OBVIOUS
<1>3. front \in Seq(S)
  BY <1>1, BytesFirst
<1>4. rest \in Seq(S)
  BY <1>2, BytesCut
<1>7. front \o rest = b
  <2>1. SubSeq(b, 1, k) \o SubSeq(b, k + 1, Len(b)) = b
    BY BytesCut
  <2> QED
    BY <1>1, <1>2, <2>1
<1>5. (a \o front) \o rest = a \o (front \o rest)
  BY <1>3, <1>4, ConcatAssociative
<1>6. a \o front \in Seq(S)
  BY <1>3, ConcatProperties
<1> QED
  BY <1>1, <1>2, <1>5, <1>6, <1>7

-------------------------------------------------------------------------------
(* What the clients receive. *)

ClientsAreNumbered == Clients \subseteq Nat \ {0}

Sent == Nat \X Nat

\* The bytes of a list of responses.
Pieces(list) == [i \in DOMAIN list |-> Link!BytesOf(list[i])]
All(list) == Link!FlattenSeq(Pieces(list))

WholeInv ==
  /\ writebuffer \in Seq(Sent) /\ got \in [Clients -> Seq(Sent)]
  /\ \A c \in Clients : c >= coming => got[c] = <<>> /\ accepted[c] = <<>>
  /\ \A c \in Clients : \E rest \in Seq(Sent) :
       got[c] \o rest = All(accepted[c]) /\ (c = owner => rest = writebuffer)

LEMMA AllGrows ==
  ASSUME NEW list \in Seq(Answered), NEW r \in Answered
  PROVE  /\ Link!BytesOf(r) \in Seq(Sent)
         /\ All(list) \in Seq(Sent) /\ All(Append(list, r)) = All(list) \o Link!BytesOf(r)
<1>1. ASSUME NEW x \in Answered PROVE Link!BytesOf(x) \in Seq(Sent)
  <2>1. PICK size, id : size = x.size /\ id = x.id
    OBVIOUS
  <2>2. size \in Nat /\ id \in Nat
    BY <2>1 DEF Answered
  <2>3. [i \in 1..size |-> <<id, i>>] \in [1..size -> Sent]
    BY <2>2 DEF Sent
  <2>4. [i \in 1..size |-> <<id, i>>] \in Seq(Sent)
    BY <2>2, <2>3
  <2> QED
    BY <2>1, <2>4 DEF Link!BytesOf
<1>2. PICK b : b = Link!BytesOf(r)
  OBVIOUS
<1>3. PICK p : p = Pieces(list)
  OBVIOUS
<1>4. DOMAIN list = 1..Len(list) /\ Len(list) \in Nat /\ \A i \in 1..Len(list) : list[i] \in Answered
  OBVIOUS
<1>5. p \in Seq(Seq(Sent)) /\ Len(p) = Len(list) /\ \A i \in 1..Len(list) : p[i] = Link!BytesOf(list[i])
  <2>1. p = [i \in 1..Len(list) |-> Link!BytesOf(list[i])]
    BY <1>3, <1>4 DEF Pieces
  <2>2. \A i \in 1..Len(list) : p[i] \in Seq(Sent)
    BY <1>1, <1>4, <2>1
  <2>3. p \in [1..Len(list) -> Seq(Sent)]
    BY <2>1, <2>2
  <2> QED
    BY <1>4, <2>1, <2>3
<1>6. Pieces(Append(list, r)) = Append(p, b)
  <2>1. PICK new : new = Append(list, r)
    OBVIOUS
  <2>2. /\ DOMAIN new = 1..(Len(list) + 1) /\ new[Len(list) + 1] = r
        /\ \A i \in 1..Len(list) : new[i] = list[i]
    BY <1>4, <2>1
  <2>3. Pieces(new) = [i \in 1..(Len(list) + 1) |-> Link!BytesOf(new[i])]
    BY <2>2 DEF Pieces
  <2>6. \A i \in 1..(Len(list) + 1) : Link!BytesOf(new[i]) = IF i = Len(list) + 1 THEN b ELSE p[i]
    <3> SUFFICES ASSUME NEW i \in 1..(Len(list) + 1)
                 PROVE  Link!BytesOf(new[i]) = IF i = Len(list) + 1 THEN b ELSE p[i]
      OBVIOUS
    <3>1. i # Len(list) + 1 => i \in 1..Len(list)
      BY <1>4
    <3> QED
      BY <1>2, <1>5, <2>2, <3>1
  <2>7. PICK T, n : T = Seq(Sent) /\ n = Len(list)
    OBVIOUS
  <2>8. p \in Seq(T)
    BY <1>5, <2>7
  <2>9. b \in T
    BY <1>1, <1>2, <2>7
  <2>10. PICK one, two : one = Append(p, b) /\ two = Pieces(new)
    OBVIOUS
  <2>11. one \in Seq(T) /\ Len(one) = n + 1 /\ \A i \in 1..(n + 1) : one[i] = IF i = n + 1 THEN b ELSE p[i]
    BY <1>4, <1>5, <2>7, <2>8, <2>9, <2>10
  <2>12. two = [i \in 1..(n + 1) |-> IF i = n + 1 THEN b ELSE p[i]]
    BY <2>3, <2>6, <2>7, <2>10
  <2>13. \A i \in 1..n : p[i] \in T
    BY <1>5, <2>7, <2>8
  <2>14. two \in [1..(n + 1) -> T]
    BY <1>4, <2>7, <2>9, <2>12, <2>13
  <2>15. two \in Seq(T) /\ Len(two) = n + 1
    BY <1>4, <2>7, <2>14
  <2>16. \A i \in 1..(n + 1) : one[i] = two[i]
    BY <2>11, <2>12
  <2>17. one = two
    BY <2>11, <2>15, <2>16, SeqEqual
  <2> QED
    BY <2>1, <2>10, <2>17
<1>7. b \in Seq(Sent)
  BY <1>1, <1>2
<1>8. Link!FlattenSeq(p) \in Seq(Sent) /\ Link!FlattenSeq(Append(p, b)) = Link!FlattenSeq(p) \o b
  BY <1>5, <1>7, FlattenAppend
<1> QED
  BY <1>2, <1>3, <1>6, <1>7, <1>8 DEF All

LEMMA AllOfNone == All(<<>>) = <<>>
<1>1. PICK p : p = Pieces(<<>>)
  OBVIOUS
<1>2. p = <<>>
  BY <1>1 DEF Pieces
<1>3. Link!FlattenSeq(p) = p
  BY <1>2, Zenon DEF Link!FlattenSeq
<1> QED
  BY <1>1, <1>2, <1>3 DEF All

LEMMA PrefixOf ==
  ASSUME NEW S, NEW a \in Seq(S), NEW b \in Seq(S) PROVE Link!IsPrefix(a, a \o b)
<1>1. PICK c : c = a \o b
  OBVIOUS
<1>2. c \in Seq(S) /\ Len(c) = Len(a) + Len(b) /\ Len(a) \in Nat /\ Len(b) \in Nat
        /\ \A i \in 1..Len(a) : c[i] = a[i]
  BY <1>1
<1>3. SubSeq(a, 1, Len(a)) = SubSeq(c, 1, Len(a))
  BY <1>2
<1> QED
  BY <1>1, <1>2, <1>3 DEF Link!IsPrefix

LEMMA WholeIsWhole == ASSUME FifoTypes, WholeInv PROVE Link!ResponsesAreWhole
<1> SUFFICES ASSUME NEW c \in Clients
             PROVE  IF c = owner THEN got[c] \o writebuffer = All(accepted[c])
                    ELSE Link!IsPrefix(got[c], All(accepted[c]))
  BY DEF Link!ResponsesAreWhole, All, Pieces
<1>1. PICK rest \in Seq(Sent) : got[c] \o rest = All(accepted[c]) /\ (c = owner => rest = writebuffer)
  BY DEF WholeInv
<1>2. got[c] \in Seq(Sent)
  BY DEF WholeInv
<1>3. Link!IsPrefix(got[c], got[c] \o rest)
  BY <1>2, PrefixOf
<1> QED
  BY <1>1, <1>3

LEMMA RecvKeepsWhole == ASSUME ClientsAreNumbered, FifoTypes, WholeInv, Link!do_recvResp PROVE WholeInv'
<1>1. UNCHANGED <<owner, coming, got>>
  BY DEF Link!do_recvResp
<1>2. CASE UNCHANGED <<writebuffer, accepted>>
  BY <1>1, <1>2 DEF WholeInv
<1>3. CASE ~UNCHANGED <<writebuffer, accepted>>
  <2>1. PICK r : r = Head(responses)
    OBVIOUS
  <2>2. /\ r \in Answered /\ owner \in Clients /\ owner # 0
        /\ writebuffer' = writebuffer \o Link!BytesOf(r)
        /\ accepted' = [accepted EXCEPT ![owner] = Append(@, r)]
    BY <1>3, <2>1 DEF Link!do_recvResp, Link!writeBuf, Link!NextResponse, FifoTypes
  <2>3. PICK b, w, o : b = Link!BytesOf(r) /\ w = writebuffer /\ o = owner
    OBVIOUS
  <2>4. b \in Seq(Sent)
    BY <2>2, <2>3, AllGrows DEF FifoTypes
  <2>8. w \in Seq(Sent)
    BY <2>3 DEF WholeInv
  <2>5. writebuffer' \in Seq(Sent) /\ writebuffer' = w \o b
    BY <2>2, <2>3, <2>4, <2>8
  <2>6. ASSUME NEW c \in Clients
        PROVE  \E rest \in Seq(Sent) : got'[c] \o rest = All(accepted'[c]) /\ (c = owner' => rest = writebuffer')
    <3>1. PICK rest \in Seq(Sent) : got[c] \o rest = All(accepted[c]) /\ (c = owner => rest = writebuffer)
      BY DEF WholeInv
    <3>2. CASE c = owner
      <4>1. PICK g, list : g = got[c] /\ list = accepted[c]
        OBVIOUS
      <4>2. g \in Seq(Sent) /\ list \in Seq(Answered) /\ g \o w = All(list)
        BY <2>3, <3>1, <3>2, <4>1 DEF WholeInv, FifoTypes
      <4>3. accepted'[c] = Append(list, r)
        BY <2>2, <3>2, <4>1 DEF FifoTypes
      <4>4. All(Append(list, r)) = All(list) \o b
        BY <2>2, <2>3, <4>2, AllGrows
      <4>5. (g \o w) \o b = g \o (w \o b)
        <5>1. g \in Seq(Sent)
          BY <4>2
        <5> QED
          BY <2>4, <2>8, <5>1, ConcatAssociative
      <4> QED
        BY <1>1, <2>5, <4>1, <4>2, <4>3, <4>4, <4>5
    <3>3. CASE c # owner
      <4>1. accepted'[c] = accepted[c]
        BY <2>2, <3>3 DEF FifoTypes
      <4> QED
        BY <1>1, <3>1, <3>3, <4>1
    <3> QED
      BY <3>2, <3>3
  <2>7. ASSUME NEW c \in Clients, c >= coming PROVE got'[c] = <<>> /\ accepted'[c] = <<>>
    <3>1. c # owner
      BY <2>2, <2>7 DEF FifoTypes, ClientsAreNumbered
    <3> QED
      BY <1>1, <2>2, <2>7, <3>1 DEF WholeInv, FifoTypes
  <2> QED
    BY <1>1, <2>5, <2>6, <2>7 DEF WholeInv
<1> QED
  BY <1>2, <1>3

LEMMA WriteKeepsWhole == ASSUME ClientsAreNumbered, FifoTypes, WholeInv, Link!do_write PROVE WholeInv'
<1>1. PICK k \in 1..Len(writebuffer) :
        /\ got' = [got EXCEPT ![owner] = @ \o SubSeq(writebuffer, 1, k)]
        /\ writebuffer' = SubSeq(writebuffer, k + 1, Len(writebuffer))
  BY DEF Link!do_write
<1>2. UNCHANGED <<owner, coming, accepted>> /\ owner # 0 /\ owner \in Clients
  BY DEF Link!do_write, FifoTypes
<1>3. PICK g, w : g = got[owner] /\ w = writebuffer
  OBVIOUS
<1>4. g \in Seq(Sent)
  BY <1>2, <1>3 DEF WholeInv
<1>10. w \in Seq(Sent)
  BY <1>3 DEF WholeInv
<1>11. k \in 0..Len(w)
  BY <1>3, <1>10
<1>5. PICK front, back : front = SubSeq(w, 1, k) /\ back = SubSeq(w, k + 1, Len(w))
  OBVIOUS
<1>6. /\ g \o front \in Seq(Sent) /\ back \in Seq(Sent) /\ (g \o front) \o back = g \o w
  <2>1. g \o SubSeq(w, 1, k) \in Seq(Sent)
        /\ (g \o SubSeq(w, 1, k)) \o SubSeq(w, k + 1, Len(w)) = g \o w
    BY <1>4, <1>10, <1>11, BytesMoved
  <2>2. SubSeq(w, k + 1, Len(w)) \in Seq(Sent)
    BY <1>10, <1>11, BytesCut
  <2> QED
    BY <1>5, <2>1, <2>2
<1>7. /\ got' = [got EXCEPT ![owner] = g \o front] /\ writebuffer' = back
      /\ got'[owner] = g \o front /\ got' \in [Clients -> Seq(Sent)]
      /\ \A c \in Clients : c # owner => got'[c] = got[c]
  BY <1>1, <1>2, <1>3, <1>5, <1>6 DEF WholeInv
<1>8. ASSUME NEW c \in Clients
      PROVE  \E rest \in Seq(Sent) : got'[c] \o rest = All(accepted'[c]) /\ (c = owner' => rest = writebuffer')
  <2>1. PICK rest \in Seq(Sent) : got[c] \o rest = All(accepted[c]) /\ (c = owner => rest = writebuffer)
    BY DEF WholeInv
  <2> QED
    BY <1>2, <1>3, <1>6, <1>7, <2>1
<1>9. ASSUME NEW c \in Clients, c >= coming PROVE got'[c] = <<>> /\ accepted'[c] = <<>>
  <2>1. c # owner
    BY <1>2, <1>9 DEF FifoTypes, ClientsAreNumbered
  <2> QED
    BY <1>2, <1>7, <1>9, <2>1 DEF WholeInv
<1> QED
  BY <1>2, <1>6, <1>7, <1>8, <1>9 DEF WholeInv

LEMMA WholeStep ==
  ASSUME ClientsAreNumbered, FifoTypes, WholeInv, [Link!WriteNext]_wvars PROVE WholeInv'
<1>1. CASE Link!do_accecpt
  <2>1. /\ owner = 0 /\ coming \in Clients /\ owner' = coming /\ coming' = coming + 1 /\ writebuffer' = <<>>
        /\ UNCHANGED <<got, accepted>>
    BY <1>1 DEF Link!do_accecpt
  <2>2. ASSUME NEW c \in Clients
        PROVE  \E rest \in Seq(Sent) : got'[c] \o rest = All(accepted'[c]) /\ (c = owner' => rest = writebuffer')
    <3>1. CASE c = coming
      <4>1. got[c] = <<>> /\ accepted[c] = <<>>
        BY <3>1 DEF WholeInv, FifoTypes
      <4>2. <<>> \o <<>> = <<>> /\ <<>> \in Seq(Sent)
        OBVIOUS
      <4> QED
        BY <2>1, <4>1, <4>2, AllOfNone
    <3>2. CASE c # coming
      BY <2>1, <3>2 DEF WholeInv
    <3> QED
      BY <3>1, <3>2
  <2>3. ASSUME NEW c \in Clients, c >= coming' PROVE got'[c] = <<>> /\ accepted'[c] = <<>>
    BY <2>1, <2>3 DEF WholeInv, FifoTypes, ClientsAreNumbered
  <2>4. writebuffer' \in Seq(Sent)
    BY <2>1
  <2> QED
    BY <2>1, <2>2, <2>3, <2>4 DEF WholeInv
<1>2. CASE Link!Command \/ Link!Answer \/ UNCHANGED wvars
  BY <1>2 DEF Link!Command, Link!Answer, wvars, WholeInv
<1>3. CASE Link!do_recvResp
  BY <1>3, RecvKeepsWhole
<1>4. CASE Link!do_write
  BY <1>4, WriteKeepsWhole
<1>5. CASE Link!shutdownSession
  BY <1>5 DEF Link!shutdownSession, WholeInv, ClientsAreNumbered
<1> QED
  BY <1>1, <1>2, <1>3, <1>4, <1>5 DEF Link!WriteNext

LEMMA WholeStarts == Link!WriteInit => WholeInv
<1> SUFFICES ASSUME Link!WriteInit PROVE WholeInv
  OBVIOUS
<1>1. \A c \in Clients : got[c] = <<>> /\ accepted[c] = <<>>
  BY DEF Link!WriteInit
<1>2. <<>> \o <<>> = <<>> /\ <<>> \in Seq(Sent) /\ writebuffer = <<>> /\ got \in [Clients -> Seq(Sent)]
  BY DEF Link!WriteInit
<1> QED
  BY <1>1, <1>2, AllOfNone DEF WholeInv

\* Session::writeBuf and Server::do_write, with a send() that cuts where it likes: what a
\* client has received is a beginning of the responses accepted for it, whole and in
\* order, and the rest is in its buffer.
THEOREM ResponsesArriveWhole ==
  ASSUME SizesAreNumbers, ClientsAreNumbered
  PROVE  Link!WriteInit /\ [][Link!WriteNext]_wvars => []Link!ResponsesAreWhole
<1>1. Link!WriteInit => FifoInv /\ WholeInv
  BY WholeStarts DEF Link!WriteInit, FifoInv, FifoTypes, InOrder, Behind, Known, AllBefore
<1>2. FifoInv /\ [Link!WriteNext]_wvars => FifoInv'
  BY CommandKeeps, AnswerKeeps, RecvKeeps, ClientsComeAndGo DEF Link!WriteNext
<1>3. FifoInv => FifoTypes
  BY DEF FifoInv
<1>4. FifoTypes /\ WholeInv /\ [Link!WriteNext]_wvars => WholeInv'
  BY WholeStep
<1>5. FifoTypes /\ WholeInv => Link!ResponsesAreWhole
  BY WholeIsWhole
<1> QED
  BY <1>1, <1>2, <1>3, <1>4, <1>5, PTL

-------------------------------------------------------------------------------
(* What the server reads.  The messages of the client, cut off where the       *)
(* handled ones end, are what is in the buffer and the socket (CutInv).         *)

SizesCount ==
  /\ CommandSizes \subseteq Nat \ {0} /\ LenSize \in Nat \ {0} /\ ReadSize \in Nat /\ LenSize <= ReadSize

Cells == Nat \X Nat
rvars == <<sent, sock, left, readbuffer, open, shutBy, handled>>

\* The message of size n that is the m-th.
MessageOf(m, n) == [i \in 1..n |-> <<m, i>>]
Messages(sizes) == [m \in DOMAIN sizes |-> MessageOf(m, sizes[m])]

CutTypes ==
  /\ sent \in Seq(Nat \ {0}) /\ sock \in Seq(Cells) /\ readbuffer \in Seq(Cells)
  /\ Len(readbuffer) <= ReadSize
  /\ handled \in Seq(Seq(Cells)) /\ Len(handled) <= Len(sent)
  /\ open => shutBy = "nobody"

HandledWhole == \A m \in 1..Len(handled) : handled[m] = Link!Message(m)
NoCellLost == open => Link!FlattenSeq(handled) \o readbuffer \o sock = Link!FlattenSeq(Messages(sent))

CutInv == CutTypes /\ HandledWhole /\ NoCellLost /\ Link!OnlyLongOnesShut

LEMMA MessageHas ==
  ASSUME NEW m \in Nat, NEW n \in Nat
  PROVE  /\ MessageOf(m, n) \in Seq(Cells) /\ Len(MessageOf(m, n)) = n
         /\ \A i \in 1..n : MessageOf(m, n)[i] = <<m, i>>
<1>1. MessageOf(m, n) = [i \in 1..n |-> <<m, i>>]
  BY DEF MessageOf
<1>2. [i \in 1..n |-> <<m, i>>] \in [1..n -> Cells]
  BY DEF Cells
<1>3. [i \in 1..n |-> <<m, i>>] \in Seq(Cells)
  BY <1>2
<1> QED
  BY <1>1, <1>3

LEMMA MessagesHave ==
  ASSUME NEW sizes \in Seq(Nat \ {0})
  PROVE  /\ Messages(sizes) \in Seq(Seq(Cells)) /\ Len(Messages(sizes)) = Len(sizes)
         /\ \A m \in 1..Len(sizes) : Messages(sizes)[m] = MessageOf(m, sizes[m])
<1>1. DOMAIN sizes = 1..Len(sizes) /\ Len(sizes) \in Nat /\ \A m \in 1..Len(sizes) : sizes[m] \in Nat
  OBVIOUS
<1>2. Messages(sizes) = [m \in 1..Len(sizes) |-> MessageOf(m, sizes[m])]
  BY <1>1 DEF Messages
<1>3. \A m \in 1..Len(sizes) : MessageOf(m, sizes[m]) \in Seq(Cells)
  BY <1>1, MessageHas
<1>4. PICK T, n : T = Seq(Cells) /\ n = Len(sizes)
  OBVIOUS
<1>5. Messages(sizes) \in [1..n -> T]
  BY <1>2, <1>3, <1>4
<1>6. Messages(sizes) \in Seq(T) /\ Len(Messages(sizes)) = n
  BY <1>1, <1>4, <1>5
<1> QED
  BY <1>2, <1>4, <1>6

\* One message more.
LEMMA MessagesGrow ==
  ASSUME NEW sizes \in Seq(Nat \ {0}), NEW n \in Nat \ {0}
  PROVE  Messages(Append(sizes, n)) = Append(Messages(sizes), MessageOf(Len(sizes) + 1, n))
<1>1. PICK new, k, T : new = Append(sizes, n) /\ k = Len(sizes) /\ T = Seq(Cells)
  OBVIOUS
<1>2. k \in Nat /\ new \in Seq(Nat \ {0}) /\ Len(new) = k + 1 /\ new[k + 1] = n
        /\ \A m \in 1..k : new[m] = sizes[m]
  BY <1>1
<1>3. PICK a, b, x : a = Messages(sizes) /\ b = Messages(new) /\ x = MessageOf(k + 1, n)
  OBVIOUS
<1>4. a \in Seq(T) /\ Len(a) = k /\ \A m \in 1..k : a[m] = MessageOf(m, sizes[m])
  BY <1>1, <1>3, MessagesHave
<1>5. b \in Seq(T) /\ Len(b) = k + 1 /\ \A m \in 1..(k + 1) : b[m] = MessageOf(m, new[m])
  BY <1>1, <1>2, <1>3, MessagesHave
<1>6. x \in T
  BY <1>1, <1>2, <1>3, MessageHas
<1>7. PICK c : c = Append(a, x)
  OBVIOUS
<1>8. c \in Seq(T) /\ Len(c) = k + 1 /\ c[k + 1] = x /\ \A m \in 1..k : c[m] = a[m]
  BY <1>4, <1>6, <1>7
<1>9. \A m \in 1..(k + 1) : b[m] = c[m]
  <2> SUFFICES ASSUME NEW m \in 1..(k + 1) PROVE b[m] = c[m]
    OBVIOUS
  <2>1. m # k + 1 => m \in 1..k
    BY <1>2
  <2> QED
    BY <1>2, <1>3, <1>4, <1>5, <1>8, <2>1
<1>10. b = c
  BY <1>5, <1>8, <1>9, SeqEqual
<1> QED
  BY <1>1, <1>3, <1>7, <1>10

Associative(S) == \A a, b, c \in Seq(S) : (a \o b) \o c = a \o (b \o c)

LEMMA JoinedThrice == ASSUME NEW S PROVE Associative(S)
BY ConcatAssociative DEF Associative

\* The first of a list, joined, begin the whole list, joined.
LEMMA FlattenBegins ==
  ASSUME NEW S, NEW list \in Seq(Seq(S)), NEW h \in 0..(Len(list) - 1)
  PROVE  \E rest \in Seq(S) :
           Link!FlattenSeq(list) = (Link!FlattenSeq(SubSeq(list, 1, h)) \o list[h + 1]) \o rest
<1> DEFINE Upto(n) == Link!FlattenSeq(SubSeq(list, 1, n))
           Good(n) == \E rest \in Seq(S) : Upto(n) = (Upto(h) \o list[h + 1]) \o rest
           Bad == {k \in (h + 1)..Len(list) : ~Good(k)}
<1>6. Associative(S)
  BY JoinedThrice
<1>1. Len(list) \in Nat /\ h \in Nat /\ h + 1 <= Len(list)
  OBVIOUS
<1>2. ASSUME NEW n \in 0..(Len(list) - 1)
      PROVE  /\ Upto(n) \in Seq(S) /\ list[n + 1] \in Seq(S) /\ Upto(n + 1) = Upto(n) \o list[n + 1]
  <2>1. PICK T, front, x : T = Seq(S) /\ front = SubSeq(list, 1, n) /\ x = list[n + 1]
    OBVIOUS
  <2>2. list \in Seq(T)
    BY <2>1
  <2>3. front \in Seq(T) /\ x \in T
    BY <1>1, <2>1, <2>2
  <2>4. SubSeq(list, 1, n + 1) = Append(front, x)
    BY <1>1, <2>1, <2>2
  <2>5. front \in Seq(Seq(S))
    BY <2>1, <2>3
  <2>6. x \in Seq(S)
    BY <2>1, <2>3
  <2>7. Link!FlattenSeq(front) \in Seq(S) /\ Link!FlattenSeq(Append(front, x)) = Link!FlattenSeq(front) \o x
    BY <2>5, <2>6, FlattenAppend
  <2> QED
    BY <2>1, <2>4, <2>6, <2>7
<1>3. Bad = {}
  <2> SUFFICES ASSUME Bad # {} PROVE FALSE
    OBVIOUS
  <2>1. PICK n \in Bad : \A m \in Bad : n <= m
    <3>1. Bad \subseteq Nat
      <4> HIDE DEF Good
      <4> QED
        BY <1>1
    <3> HIDE DEF Bad
    <3> QED
      BY <3>1, Smallest
  <2>2. n \in (h + 1)..Len(list) /\ ~Good(n)
    BY <2>1
  <2> HIDE DEF Upto
  <2>3. CASE n = h + 1
    <3>1. h \in 0..(Len(list) - 1)
      BY <1>1
    <3>2. Upto(h) \in Seq(S) /\ list[h + 1] \in Seq(S) /\ Upto(h + 1) = Upto(h) \o list[h + 1]
      BY <1>2, <3>1
    <3>3. PICK u : u = Upto(h) \o list[h + 1]
      OBVIOUS
    <3>4. u \in Seq(S) /\ <<>> \in Seq(S)
      BY <3>2, <3>3
    <3>5. u \o <<>> = u
      BY <3>4
    <3> QED
      BY <2>2, <2>3, <3>2, <3>3, <3>4, <3>5
  <2>4. CASE n # h + 1
    <3>1. PICK m : m = n - 1
      OBVIOUS
    <3>2. m \in (h + 1)..Len(list) /\ m \in 0..(Len(list) - 1) /\ m + 1 = n /\ m < n
      BY <1>1, <2>2, <2>4, <3>1
    <3>3. m \notin Bad
      <4> HIDE DEF Bad
      <4> QED
        BY <2>1, <2>2, <3>2
    <3>4. PICK rest \in Seq(S) : Upto(m) = (Upto(h) \o list[h + 1]) \o rest
      BY <3>2, <3>3
    <3>5. list[m + 1] \in Seq(S) /\ Upto(m + 1) = Upto(m) \o list[m + 1]
      BY <1>2, <3>2
    <3>6. Upto(h) \in Seq(S) /\ list[h + 1] \in Seq(S)
      <4>1. h \in 0..(Len(list) - 1)
        BY <1>1
      <4> QED
        BY <1>2, <4>1
    <3>7. PICK u, x : u = Upto(h) \o list[h + 1] /\ x = list[m + 1]
      OBVIOUS
    <3>8. u \in Seq(S)
      BY <3>6, <3>7
    <3>9. x \in Seq(S)
      BY <3>5, <3>7
    <3>10. PICK r \in Seq(S) : r = rest
      OBVIOUS
    <3>11. (u \o r) \o x = u \o (r \o x)
      BY <1>6, <3>8, <3>9 DEF Associative
    <3>12. r \o x \in Seq(S)
      BY <3>9
    <3>13. Upto(n) = u \o (r \o x)
      BY <3>2, <3>4, <3>5, <3>7, <3>10, <3>11
    <3> QED
      BY <2>2, <3>7, <3>12, <3>13
  <2> QED
    BY <2>3, <2>4
<1>4. Good(Len(list))
  <2>1. Len(list) \in (h + 1)..Len(list)
    BY <1>1
  <2> HIDE DEF Good
  <2> QED
    BY <1>3, <2>1
<1>5. SubSeq(list, 1, Len(list)) = list
  <2>1. PICK T : T = Seq(S)
    OBVIOUS
  <2>2. list \in Seq(T)
    BY <2>1
  <2> QED
    BY <2>2, SubSeqFull
<1> QED
  BY <1>4, <1>5

\* What follows the same beginning is the same.
LEMMA SameBeginning ==
  ASSUME NEW S, NEW a \in Seq(S), NEW b \in Seq(S), NEW c \in Seq(S), a \o b = a \o c
  PROVE  b = c
<1>1. PICK x, y, n : x = a \o b /\ y = a \o c /\ n = Len(a)
  OBVIOUS
<1>2. Len(b) \in Nat /\ Len(c) \in Nat /\ n \in Nat
  BY <1>1
<1>3. Len(x) = n + Len(b) /\ \A i \in 1..Len(b) : x[n + i] = b[i]
  BY <1>1, <1>2
<1>4. Len(y) = n + Len(c) /\ \A i \in 1..Len(c) : y[n + i] = c[i]
  BY <1>1, <1>2
<1>5. Len(b) = Len(c)
  BY <1>1, <1>2, <1>3, <1>4
<1>6. \A i \in 1..Len(b) : b[i] = c[i]
  BY <1>1, <1>3, <1>4, <1>5
<1> QED
  BY <1>5, <1>6, SeqEqual

\* What readBuf() may make of a buffer and a socket.
ReadStates == [buf : Seq(Cells), sock : Seq(Cells), rc : {"none", "less", "enough", "closed", "error"}]

ReadsOn(st, bytes, st2) ==
  /\ st2 \in ReadStates /\ Len(st2.buf) <= ReadSize
  /\ st2.buf \o st2.sock = st.buf \o st.sock
  /\ st2.rc = "closed" => bytes > Len(st.buf) /\ (Len(st.buf) = ReadSize \/ left)
  /\ st2.rc = "enough" => bytes <= Len(st2.buf)

LEMMA VerdictOnly ==
  ASSUME NEW st \in ReadStates, NEW rc \in {"enough", "closed", "error"}, NEW st2, st2 = [st EXCEPT !.rc = rc]
  PROVE  st2 \in ReadStates /\ st2.buf = st.buf /\ st2.sock = st.sock /\ st2.rc = rc
BY DEF ReadStates

LEMMA ReadBufKeeps ==
  ASSUME SizesCount, NEW st \in ReadStates, Len(st.buf) <= ReadSize, NEW bytes \in Nat, NEW least \in {0, 1},
         NEW st2 \in Link!readBuf(st, bytes, least)
  PROVE  ReadsOn(st, bytes, st2)
<1>1. PICK b, s, n, l : b = st.buf /\ s = st.sock /\ n = Len(st.buf) /\ l = Len(st.sock)
  OBVIOUS
<1>2. b \in Seq(Cells)
  BY <1>1 DEF ReadStates
<1>3. s \in Seq(Cells)
  BY <1>1 DEF ReadStates
<1>4. n = Len(b) /\ l = Len(s) /\ n \in Nat /\ l \in Nat /\ n <= ReadSize /\ ReadSize \in Nat
  BY <1>1, <1>2, <1>3 DEF SizesCount
<1>5. CASE bytes <= n
  <2>1. st2 = [st EXCEPT !.rc = "enough"]
    BY <1>1, <1>5 DEF Link!readBuf
  <2>2. st2 \in ReadStates /\ st2.buf = st.buf /\ st2.sock = st.sock /\ st2.rc = "enough"
    BY <2>1, VerdictOnly
  <2> QED
    BY <1>1, <1>5, <2>2 DEF ReadsOn
<1>9. CASE st2 = [st EXCEPT !.rc = "error"]
  <2>1. st2 \in ReadStates /\ st2.buf = st.buf /\ st2.sock = st.sock /\ st2.rc = "error"
    BY <1>9, VerdictOnly
  <2> QED
    BY <1>1, <2>1 DEF ReadsOn
<1>6. CASE st2 # [st EXCEPT !.rc = "error"] /\ bytes > n /\ (ReadSize - n = 0 \/ (left /\ s = <<>>))
  <2>1. st2 = [st EXCEPT !.rc = "closed"]
    BY <1>1, <1>4, <1>6 DEF Link!readBuf
  <2>2. st2 \in ReadStates /\ st2.buf = st.buf /\ st2.sock = st.sock /\ st2.rc = "closed"
    BY <2>1, VerdictOnly
  <2>3. ReadSize - n = 0 => n = ReadSize
    BY <1>4
  <2> QED
    BY <1>1, <1>6, <2>2, <2>3 DEF ReadsOn
<1>7. CASE st2 # [st EXCEPT !.rc = "error"] /\ bytes > n /\ ~(ReadSize - n = 0 \/ (left /\ s = <<>>))
  <2>1. PICK most : most = IF ReadSize - n < l THEN ReadSize - n ELSE l
    OBVIOUS
  <2>2. PICK k \in (IF least < most THEN least ELSE most)..most :
          st2 = [buf |-> b \o SubSeq(s, 1, k), sock |-> SubSeq(s, k + 1, l),
                 rc |-> IF bytes <= n + k THEN "enough" ELSE "less"]
    <3>1. ~(bytes <= n)
      BY <1>4, <1>7
    <3>2. st2 \in {[buf  |-> b \o SubSeq(s, 1, i), sock |-> SubSeq(s, i + 1, l),
                    rc   |-> IF bytes <= n + i THEN "enough" ELSE "less"]
                     : i \in (IF least < most THEN least ELSE most)..most}
      BY <1>1, <1>7, <2>1, <3>1 DEF Link!readBuf
    <3> QED
      BY <3>2
  <2>3. k \in 0..l /\ k <= ReadSize - n
    BY <1>4, <2>1, <2>2
  <2>4. k \in 0..Len(s)
    BY <1>4, <2>3
  <2>5. PICK front, rest : front = SubSeq(s, 1, k) /\ rest = SubSeq(s, k + 1, Len(s))
    OBVIOUS
  <2>6. front \in Seq(Cells) /\ Len(front) = k
    BY <1>3, <2>4, <2>5, BytesFirst
  <2>7. rest \in Seq(Cells)
    BY <1>3, <2>4, <2>5, BytesCut
  <2>8. b \o front \in Seq(Cells) /\ (b \o front) \o rest = b \o s
    BY <1>2, <1>3, <2>4, <2>5, BytesMoved
  <2>9. Len(b \o front) = n + k
    BY <1>2, <1>4, <2>6
  <2>10. st2 = [buf |-> b \o front, sock |-> rest, rc |-> IF bytes <= n + k THEN "enough" ELSE "less"]
    BY <1>4, <2>2, <2>5
  <2>11. st2.buf = b \o front /\ st2.sock = rest /\ st2.rc = (IF bytes <= n + k THEN "enough" ELSE "less")
    BY <2>10
  <2>12. st2 \in ReadStates
    <3>1. PICK x : x = b \o front
      OBVIOUS
    <3>2. x \in Seq(Cells)
      BY <2>8, <3>1
    <3> QED
      BY <2>7, <2>10, <3>1, <3>2 DEF ReadStates
  <2>13. n + k <= ReadSize
    BY <1>4, <2>3
  <2> QED
    BY <1>1, <2>8, <2>9, <2>11, <2>12, <2>13 DEF ReadsOn
<1>8. bytes <= n \/ bytes > n
  BY <1>4
<1> QED
  BY <1>5, <1>6, <1>7, <1>8, <1>9

LEMMA CellsJoin == \A x, y, z \in Seq(Cells) : (x \o y) \o z = x \o (y \o z)
BY ConcatAssociative

LEMMA Appended ==
  ASSUME NEW S, NEW a \in Seq(S), NEW b \in Seq(S)
  PROVE  /\ a \o b \in Seq(S) /\ Len(a \o b) = Len(a) + Len(b)
         /\ \A i \in 1..Len(a) : (a \o b)[i] = a[i]
OBVIOUS

Begins(q, bytes) == \E rest \in Seq(Cells) : q = bytes \o rest

\* What comes first in the buffer is the first message that has not been handled.
LEMMA NextMessage ==
  ASSUME CutInv, open, NEW b \in Seq(Cells), NEW s \in Seq(Cells),
         b \o s = readbuffer \o sock, Len(b) >= 1, NEW h, h = Len(handled)
  PROVE  /\ h + 1 \in 1..Len(sent) /\ Link!MessageSize(b) = sent[h + 1]
         /\ Begins(b \o s, MessageOf(h + 1, sent[h + 1]))
<1>1. /\ sent \in Seq(Nat \ {0}) /\ h \in Nat /\ h <= Len(sent) /\ Len(sent) \in Nat
      /\ \A m \in 1..h : handled[m] = Link!Message(m)
  BY DEF CutInv, CutTypes, HandledWhole, NoCellLost, Link!OnlyLongOnesShut
<1>2. PICK T, all, H, q : T = Seq(Cells) /\ all = Messages(sent) /\ H = Link!FlattenSeq(handled) /\ q = b \o s
  OBVIOUS
<1>3. all \in Seq(T) /\ Len(all) = Len(sent) /\ \A m \in 1..Len(sent) : all[m] = MessageOf(m, sent[m])
  BY <1>1, <1>2, MessagesHave
<1>4. handled \in Seq(T) /\ Len(handled) = h
  BY <1>2 DEF CutInv, CutTypes, HandledWhole, NoCellLost, Link!OnlyLongOnesShut
<1>5. SubSeq(all, 1, h) = handled
  <2>1. PICK front : front = SubSeq(all, 1, h)
    OBVIOUS
  <2>2. h \in 0..Len(all)
    BY <1>1, <1>3
  <2>3. front \in Seq(T) /\ Len(front) = h /\ \A m \in 1..h : front[m] = all[m]
    BY <1>3, <2>1, <2>2, BytesFirst
  <2>4. \A m \in 1..h : front[m] = handled[m]
    <3> SUFFICES ASSUME NEW m \in 1..h PROVE front[m] = handled[m]
      OBVIOUS
    <3>1. m \in 1..Len(sent)
      BY <1>1
    <3> QED
      BY <1>1, <1>3, <2>3, <3>1 DEF Link!Message, MessageOf
  <2>5. front = handled
    BY <1>4, <2>3, <2>4, SeqEqual
  <2> QED
    BY <2>1, <2>5
<1>6. H \in Seq(Cells)
  <2>1. handled \in Seq(Seq(Cells)) /\ <<>> \in Seq(Cells)
    BY DEF CutInv, CutTypes, HandledWhole, NoCellLost, Link!OnlyLongOnesShut
  <2> QED
    BY <1>2, <2>1, FlattenAppend
<1>7. q \in Seq(Cells) /\ Len(q) >= 1 /\ q[1] = b[1]
  <2>1. q \in Seq(Cells) /\ Len(q) = Len(b) + Len(s) /\ \A i \in 1..Len(b) : q[i] = b[i]
    BY <1>2, Appended
  <2>2. Len(b) \in Nat /\ Len(s) \in Nat
    OBVIOUS
  <2> QED
    BY <2>1, <2>2
<1>8. H \o q = Link!FlattenSeq(all)
  <2>1. PICK r, k : r = readbuffer /\ k = sock
    OBVIOUS
  <2>2. (H \o r) \o k = Link!FlattenSeq(all)
    BY <1>2, <2>1 DEF CutInv, CutTypes, HandledWhole, NoCellLost, Link!OnlyLongOnesShut
  <2>3. r \in Seq(Cells)
    BY <2>1 DEF CutInv, CutTypes, HandledWhole, NoCellLost, Link!OnlyLongOnesShut
  <2>4. k \in Seq(Cells)
    BY <2>1 DEF CutInv, CutTypes, HandledWhole, NoCellLost, Link!OnlyLongOnesShut
  <2>5. (H \o r) \o k = H \o (r \o k)
    BY <1>6, <2>3, <2>4, CellsJoin, Zenon
  <2> QED
    BY <1>2, <2>1, <2>2, <2>5
<1>9. h # Len(sent)
  <2> SUFFICES ASSUME h = Len(sent) PROVE FALSE
    OBVIOUS
  <2>1. SubSeq(all, 1, h) = all
    BY <1>3, SubSeqFull
  <2>2. H \o q = H
    BY <1>2, <1>5, <1>8, <2>1
  <2>3. q = <<>>
    BY <1>6, <1>7, <2>2, ConcatEqualIffEmpty
  <2> QED
    BY <1>7, <2>3
<1>10. h \in 0..(Len(all) - 1) /\ h + 1 \in 1..Len(sent)
  BY <1>1, <1>3, <1>9
<1>11. PICK M, n : n = sent[h + 1] /\ M = MessageOf(h + 1, n)
  OBVIOUS
<1>12. n \in Nat /\ n >= 1
  BY <1>1, <1>10, <1>11
<1>13. M \in Seq(Cells) /\ Len(M) = n /\ M[1] = <<h + 1, 1>>
  <2>1. h + 1 \in Nat
    BY <1>1
  <2>2. /\ MessageOf(h + 1, n) \in Seq(Cells) /\ Len(MessageOf(h + 1, n)) = n
        /\ \A i \in 1..n : MessageOf(h + 1, n)[i] = <<h + 1, i>>
    BY <1>12, <2>1, MessageHas
  <2>3. 1 \in 1..n
    BY <1>12
  <2> QED
    BY <1>11, <2>2, <2>3
<1>14. PICK rest \in Seq(Cells) : Link!FlattenSeq(all) = (H \o M) \o rest
  <2>1. all \in Seq(Seq(Cells))
    BY <1>2, <1>3
  <2>2. all[h + 1] = M
    BY <1>3, <1>10, <1>11
  <2>3. \E rest \in Seq(Cells) :
          Link!FlattenSeq(all) = (Link!FlattenSeq(SubSeq(all, 1, h)) \o all[h + 1]) \o rest
    BY <1>10, <2>1, FlattenBegins
  <2> QED
    BY <1>2, <1>5, <2>2, <2>3
<1>15. q = M \o rest
  <2>1. (H \o M) \o rest = H \o (M \o rest)
    BY <1>6, <1>13, CellsJoin, Zenon
  <2>2. PICK x : x = M \o rest
    OBVIOUS
  <2>3. x \in Seq(Cells)
    BY <1>13, <2>2
  <2>4. H \o q = H \o x
    BY <1>8, <1>14, <2>1, <2>2
  <2>5. q = x
    BY <1>6, <1>7, <2>3, <2>4, SameBeginning
  <2> QED
    BY <2>2, <2>5
<1>16. b[1] = <<h + 1, 1>>
  <2>1. 1 \in 1..Len(M)
    BY <1>12, <1>13
  <2>2. \A i \in 1..Len(M) : (M \o rest)[i] = M[i]
    BY <1>13, Appended
  <2> QED
    BY <1>7, <1>13, <1>15, <2>1, <2>2
<1>17. Link!MessageSize(b) = n
  BY <1>11, <1>16 DEF Link!MessageSize
<1> QED
  BY <1>2, <1>10, <1>11, <1>15, <1>17 DEF Begins

\* The client writes.
LEMMA ClientKeeps ==
  ASSUME SizesCount, CutInv, NEW n \in CommandSizes, Link!sendCmd(n) PROVE CutInv'
<1>1. n \in Nat \ {0}
  BY DEF SizesCount
<1>2. PICK k, M, all : k = Len(sent) + 1 /\ M = MessageOf(k, n) /\ all = Messages(sent)
  OBVIOUS
<1>3. sent \in Seq(Nat \ {0}) /\ Len(sent) \in Nat /\ k \in Nat
  BY <1>2 DEF CutInv, CutTypes, HandledWhole, NoCellLost, Link!OnlyLongOnesShut
<1>4. sent' = Append(sent, n) /\ UNCHANGED <<left, readbuffer, open, shutBy, handled>>
  BY DEF Link!sendCmd
<1>5. sent' \in Seq(Nat \ {0}) /\ Len(sent') = k /\ \A m \in 1..Len(sent) : sent'[m] = sent[m]
  BY <1>1, <1>2, <1>3, <1>4
<1>6. M \in Seq(Cells)
  BY <1>1, <1>2, <1>3, MessageHas
<1>7. sock' = sock \o M
  BY <1>2, <1>5 DEF Link!sendCmd, MessageOf
<1>8. sock \in Seq(Cells) /\ readbuffer \in Seq(Cells) /\ Len(readbuffer) <= ReadSize
  BY DEF CutInv, CutTypes, HandledWhole, NoCellLost, Link!OnlyLongOnesShut
<1>9. sock' \in Seq(Cells)
  BY <1>6, <1>7, <1>8
<1>10. \A m \in 1..Len(handled) : handled'[m] = Link!Message(m)'
  <2> SUFFICES ASSUME NEW m \in 1..Len(handled) PROVE handled'[m] = Link!Message(m)'
    OBVIOUS
  <2>1. m \in 1..Len(sent) /\ handled[m] = Link!Message(m)
    BY <1>3 DEF CutInv, CutTypes, HandledWhole, NoCellLost, Link!OnlyLongOnesShut
  <2> QED
    BY <1>4, <1>5, <2>1 DEF Link!Message
<1>11. ASSUME open
       PROVE  Link!FlattenSeq(handled) \o readbuffer \o sock' = Link!FlattenSeq(Messages(sent'))
  <2>1. Messages(sent') = Append(all, M)
    BY <1>1, <1>2, <1>3, <1>4, MessagesGrow
  <2>2. all \in Seq(Seq(Cells))
    BY <1>2, <1>3, MessagesHave
  <2>3. Link!FlattenSeq(Append(all, M)) = Link!FlattenSeq(all) \o M
    BY <1>6, <2>2, FlattenAppend
  <2>4. PICK H, r, s : H = Link!FlattenSeq(handled) /\ r = readbuffer /\ s = sock
    OBVIOUS
  <2>5. H \in Seq(Cells)
    <3>1. handled \in Seq(Seq(Cells)) /\ <<>> \in Seq(Cells)
      BY DEF CutInv, CutTypes, HandledWhole, NoCellLost, Link!OnlyLongOnesShut
    <3> QED
      BY <2>4, <3>1, FlattenAppend
  <2>6. r \in Seq(Cells)
    BY <1>8, <2>4
  <2>7. s \in Seq(Cells)
    BY <1>8, <2>4
  <2>8. H \o r \in Seq(Cells)
    BY <2>5, <2>6, Appended
  <2>9. ((H \o r) \o s) \o M = (H \o r) \o (s \o M)
    BY <1>6, <2>7, <2>8, CellsJoin, Zenon
  <2>10. (H \o r) \o s = Link!FlattenSeq(all)
    BY <1>2, <1>11, <2>4 DEF CutInv, CutTypes, HandledWhole, NoCellLost, Link!OnlyLongOnesShut
  <2> QED
    BY <1>7, <2>1, <2>3, <2>4, <2>9, <2>10
<1>12. Link!OnlyLongOnesShut'
  <2>1. Len(handled) \in Nat /\ Len(handled') = Len(handled) /\ shutBy' = shutBy
    BY <1>4 DEF CutInv, CutTypes, Link!sendCmd
  <2>2. ASSUME shutBy = "closed", ~left
        PROVE  Len(handled) < Len(sent') /\ sent'[Len(handled) + 1] > ReadSize
    <3>1. Len(handled) < Len(sent) /\ sent[Len(handled) + 1] > ReadSize
      BY <2>2 DEF CutInv, Link!OnlyLongOnesShut
    <3>2. Len(handled) + 1 \in 1..Len(sent)
      BY <1>3, <2>1, <3>1
    <3> QED
      BY <1>2, <1>3, <1>5, <2>1, <3>1, <3>2
  <2> QED
    BY <1>4, <2>1, <2>2 DEF Link!OnlyLongOnesShut
<1>13. CutTypes'
  <2>1. Len(handled) <= Len(sent) /\ handled \in Seq(Seq(Cells))
    BY DEF CutInv, CutTypes
  <2>2. Len(handled) \in Nat
    BY <2>1
  <2>3. Len(handled') <= Len(sent')
    BY <1>2, <1>3, <1>4, <1>5, <2>1, <2>2
  <2>4. open' => shutBy' = "nobody"
    BY <1>4 DEF CutInv, CutTypes
  <2> QED
    BY <1>4, <1>5, <1>8, <1>9, <2>1, <2>3, <2>4 DEF CutTypes
<1>14. HandledWhole'
  BY <1>4, <1>10 DEF HandledWhole
<1>15. NoCellLost'
  BY <1>4, <1>11 DEF NoCellLost
<1> QED
  BY <1>12, <1>13, <1>14, <1>15 DEF CutInv

\* The outcomes of an event: what has come is kept, the connection is shut, or a
\* message is handed on.
LEMMA KeptKeeps ==
  ASSUME CutInv, NEW st \in ReadStates, Len(st.buf) <= ReadSize, st.buf \o st.sock = readbuffer \o sock,
         Link!Kept(st), UNCHANGED <<sent, left>>
  PROVE  CutInv'
<1>1. /\ readbuffer' = st.buf /\ sock' = st.sock /\ UNCHANGED <<open, shutBy, handled, sent, left>>
      /\ st.buf \in Seq(Cells) /\ st.sock \in Seq(Cells)
  BY DEF Link!Kept, ReadStates
<1>2. ASSUME open
      PROVE  Link!FlattenSeq(handled) \o readbuffer' \o sock' = Link!FlattenSeq(Messages(sent))
  <2>1. PICK H, r, s, b, k : /\ H = Link!FlattenSeq(handled) /\ r = readbuffer /\ s = sock
                             /\ b = st.buf /\ k = st.sock
    OBVIOUS
  <2>2. H \in Seq(Cells)
    <3>1. handled \in Seq(Seq(Cells)) /\ <<>> \in Seq(Cells)
      BY DEF CutInv, CutTypes, HandledWhole, NoCellLost, Link!OnlyLongOnesShut
    <3> QED
      BY <2>1, <3>1, FlattenAppend
  <2>3. r \in Seq(Cells)
    BY <2>1 DEF CutInv, CutTypes, HandledWhole, NoCellLost, Link!OnlyLongOnesShut
  <2>4. s \in Seq(Cells)
    BY <2>1 DEF CutInv, CutTypes, HandledWhole, NoCellLost, Link!OnlyLongOnesShut
  <2>5. b \in Seq(Cells)
    BY <1>1, <2>1
  <2>6. k \in Seq(Cells)
    BY <1>1, <2>1
  <2>7. (H \o r) \o s = H \o (r \o s)
    BY <2>2, <2>3, <2>4, CellsJoin, Zenon
  <2>8. (H \o b) \o k = H \o (b \o k)
    BY <2>2, <2>5, <2>6, CellsJoin, Zenon
  <2>9. b \o k = r \o s
    BY <2>1
  <2>10. (H \o r) \o s = Link!FlattenSeq(Messages(sent))
    BY <1>2, <2>1 DEF CutInv, CutTypes, HandledWhole, NoCellLost, Link!OnlyLongOnesShut
  <2> QED
    BY <1>1, <2>1, <2>7, <2>8, <2>9, <2>10
<1>3. \A m \in 1..Len(handled) : handled'[m] = Link!Message(m)'
  BY <1>1 DEF CutInv, HandledWhole, Link!Message
<1>4. CutTypes'
  BY <1>1 DEF CutInv, CutTypes
<1>5. NoCellLost'
  BY <1>1, <1>2 DEF NoCellLost
<1>6. HandledWhole'
  BY <1>1, <1>3 DEF HandledWhole
<1>7. Link!OnlyLongOnesShut'
  BY <1>1 DEF CutInv, Link!OnlyLongOnesShut
<1> QED
  BY <1>4, <1>5, <1>6, <1>7 DEF CutInv

LEMMA ShutKeeps ==
  ASSUME CutInv, NEW by, Link!Shut(by), UNCHANGED <<sent, left>>, ReadSize \in Nat,
         by = "closed" /\ ~left => Len(handled) < Len(sent) /\ sent[Len(handled) + 1] > ReadSize
  PROVE  CutInv'
<1>1. open' = FALSE /\ shutBy' = by /\ readbuffer' = <<>> /\ UNCHANGED <<sock, handled, sent, left>>
  BY DEF Link!Shut
<1>2. readbuffer' \in Seq(Cells) /\ Len(readbuffer') <= ReadSize
  BY <1>1
<1>3. \A m \in 1..Len(handled) : handled'[m] = Link!Message(m)'
  BY <1>1 DEF CutInv, HandledWhole, Link!Message
<1>4. Link!OnlyLongOnesShut'
  BY <1>1 DEF Link!OnlyLongOnesShut
<1> QED
  BY <1>1, <1>2, <1>3, <1>4 DEF CutInv, CutTypes, HandledWhole, NoCellLost

LEMMA HandedOn ==
  ASSUME SizesCount, CutInv, open, NEW b \in Seq(Cells), NEW s \in Seq(Cells), b \o s = readbuffer \o sock,
         Len(b) <= ReadSize, Len(b) >= 1, NEW n, n = Link!MessageSize(b), n <= Len(b),
         readbuffer' = Link!drainBuf(b, n), sock' = s, handled' = Append(handled, SubSeq(b, 1, n)),
         UNCHANGED <<open, shutBy, sent, left>>
  PROVE  CutInv'
<1>1. PICK h : h = Len(handled)
  OBVIOUS
<1>2. h + 1 \in 1..Len(sent) /\ n = sent[h + 1]
        /\ Begins(b \o s, MessageOf(h + 1, sent[h + 1]))
  <2>1. h + 1 \in 1..Len(sent) /\ Link!MessageSize(b) = sent[h + 1]
    BY <1>1, NextMessage
  <2>2. Begins(b \o s, MessageOf(h + 1, sent[h + 1]))
    BY <1>1, NextMessage
  <2> QED
    BY <2>1, <2>2
<1>3. sent \in Seq(Nat \ {0}) /\ Len(sent) \in Nat /\ h \in Nat /\ handled \in Seq(Seq(Cells))
  BY <1>1 DEF CutInv, CutTypes, HandledWhole, NoCellLost, Link!OnlyLongOnesShut
<1>4. n \in Nat /\ n >= 1 /\ n \in 0..Len(b)
  BY <1>2, <1>3
<1>5. PICK M, front, back : M = MessageOf(h + 1, n) /\ front = SubSeq(b, 1, n) /\ back = SubSeq(b, n + 1, Len(b))
  OBVIOUS
<1>6. M \in Seq(Cells) /\ Len(M) = n
  <2>1. h + 1 \in Nat
    BY <1>3
  <2> QED
    BY <1>4, <1>5, <2>1, MessageHas
<1>7. front \in Seq(Cells) /\ Len(front) = n /\ \A i \in 1..n : front[i] = b[i]
  BY <1>4, <1>5, BytesFirst
<1>8. back \in Seq(Cells)
  BY <1>4, <1>5, BytesCut
<1>9. front = M
  <2>1. PICK rest \in Seq(Cells) : b \o s = M \o rest
    BY <1>2, <1>5 DEF Begins
  <2>2. \A i \in 1..Len(M) : (M \o rest)[i] = M[i]
    BY <1>6, Appended
  <2>3. \A i \in 1..Len(b) : (b \o s)[i] = b[i]
    BY Appended
  <2>4. \A i \in 1..n : i \in 1..Len(b) /\ i \in 1..Len(M)
    BY <1>4, <1>6
  <2>5. \A i \in 1..n : front[i] = M[i]
    BY <1>7, <2>1, <2>2, <2>3, <2>4
  <2> QED
    BY <1>6, <1>7, <2>5, SeqEqual
<1>10. front \o back = b
  <2>1. n \in 0..Len(b)
    BY <1>4
  <2>2. SubSeq(b, 1, n) \o SubSeq(b, n + 1, Len(b)) = b
    BY <2>1, BytesCut
  <2> QED
    BY <1>5, <2>2
<1>11. readbuffer' = back /\ handled' = Append(handled, M)
  BY <1>5, <1>9 DEF Link!drainBuf
<1>12. Len(back) <= ReadSize
  <2>1. Len(b) = Len(front) + Len(back)
    BY <1>7, <1>8, <1>10, Appended
  <2>2. Len(back) \in Nat /\ Len(b) \in Nat
    BY <1>8
  <2> QED
    BY <1>4, <1>7, <2>1, <2>2 DEF SizesCount
<1>13. /\ handled' \in Seq(Seq(Cells)) /\ Len(handled') = h + 1 /\ handled'[h + 1] = M
       /\ \A m \in 1..h : handled'[m] = handled[m]
  <2>1. PICK T, list : T = Seq(Cells) /\ list = handled
    OBVIOUS
  <2>2. list \in Seq(T) /\ M \in T /\ Len(list) = h
    BY <1>1, <1>3, <1>6, <2>1
  <2>3. PICK new : new = Append(list, M)
    OBVIOUS
  <2>4. new \in Seq(T) /\ Len(new) = h + 1 /\ new[h + 1] = M /\ \A m \in 1..h : new[m] = list[m]
    BY <2>2, <2>3
  <2> QED
    BY <1>11, <2>1, <2>3, <2>4
<1>14. \A m \in 1..(h + 1) : handled'[m] = Link!Message(m)'
  <2> SUFFICES ASSUME NEW m \in 1..(h + 1) PROVE handled'[m] = Link!Message(m)'
    OBVIOUS
  <2>1. Link!Message(m)' = Link!Message(m)
    BY DEF Link!Message
  <2>2. CASE m = h + 1
    BY <1>2, <1>5, <1>13, <2>1, <2>2 DEF Link!Message, MessageOf
  <2>3. CASE m # h + 1
    <3>1. m \in 1..h
      BY <1>3, <2>3
    <3> QED
      BY <1>1, <1>13, <2>1, <3>1 DEF CutInv, CutTypes, HandledWhole, NoCellLost, Link!OnlyLongOnesShut
  <2> QED
    BY <2>2, <2>3
<1>15. Link!FlattenSeq(handled') \o readbuffer' \o sock' = Link!FlattenSeq(Messages(sent))
  <2>1. PICK H, r, k : H = Link!FlattenSeq(handled) /\ r = readbuffer /\ k = sock
    OBVIOUS
  <2>2. H \in Seq(Cells) /\ Link!FlattenSeq(Append(handled, M)) = H \o M
    BY <1>3, <1>6, <2>1, FlattenAppend
  <2>3. r \in Seq(Cells)
    BY <2>1 DEF CutInv, CutTypes, HandledWhole, NoCellLost, Link!OnlyLongOnesShut
  <2>4. k \in Seq(Cells)
    BY <2>1 DEF CutInv, CutTypes, HandledWhole, NoCellLost, Link!OnlyLongOnesShut
  <2>5. (H \o M) \o back = H \o b
    <3>1. (H \o M) \o back = H \o (M \o back)
      BY <1>6, <1>8, <2>2, CellsJoin, Zenon
    <3> QED
      BY <1>9, <1>10, <3>1
  <2>6. (H \o b) \o s = H \o (b \o s)
    BY <2>2, CellsJoin, Zenon
  <2>7. (H \o r) \o k = H \o (r \o k)
    BY <2>2, <2>3, <2>4, CellsJoin, Zenon
  <2>8. (H \o r) \o k = Link!FlattenSeq(Messages(sent))
    BY <2>1 DEF CutInv, CutTypes, HandledWhole, NoCellLost, Link!OnlyLongOnesShut
  <2>9. b \o s = r \o k
    BY <2>1
  <2> QED
    BY <1>11, <2>2, <2>5, <2>6, <2>7, <2>8, <2>9
<1>16. sent' = sent /\ open' = open /\ shutBy' = shutBy /\ left' = left
  OBVIOUS
<1>17. CutTypes'
  <2>1. Len(handled') <= Len(sent)
    BY <1>2, <1>3, <1>13
  <2>2. open' => shutBy' = "nobody"
    BY <1>16 DEF CutInv, CutTypes
  <2>3. sock' \in Seq(Cells)
    OBVIOUS
  <2> QED
    BY <1>3, <1>8, <1>11, <1>12, <1>13, <1>16, <2>1, <2>2, <2>3 DEF CutTypes
<1>18. HandledWhole'
  BY <1>13, <1>14 DEF HandledWhole
<1>19. NoCellLost'
  BY <1>15, <1>16 DEF NoCellLost
<1>20. Link!OnlyLongOnesShut'
  BY <1>16 DEF CutInv, CutTypes, Link!OnlyLongOnesShut
<1> QED
  BY <1>17, <1>18, <1>19, <1>20 DEF CutInv

LEMMA ReadKeepsCut == ASSUME SizesCount, CutInv, Link!do_read PROVE CutInv'
<1>1. PICK st0 : st0 = [buf |-> readbuffer, sock |-> sock, rc |-> "none"]
  OBVIOUS
<1>2. st0 \in ReadStates /\ st0.buf = readbuffer /\ st0.sock = sock
  <2>1. readbuffer \in Seq(Cells) /\ sock \in Seq(Cells)
    BY DEF CutInv, CutTypes
  <2> QED
    BY <1>1, <2>1 DEF ReadStates
<1>3. Len(st0.buf) <= ReadSize /\ LenSize \in Nat /\ ReadSize \in Nat /\ LenSize >= 1 /\ LenSize <= ReadSize
  BY <1>2 DEF CutInv, CutTypes, HandledWhole, NoCellLost, Link!OnlyLongOnesShut, SizesCount
<1>4. open /\ UNCHANGED <<sent, left>>
  BY DEF Link!do_read
<1>5. PICK st \in Link!readBuf(st0, LenSize, 1) :
        \/ st.rc \in {"closed", "error"} /\ Link!Shut(st.rc)
        \/ st.rc = "less" /\ Link!Kept(st)
        \/ /\ st.rc = "enough"
           /\ \E st2 \in Link!readBuf(st, Link!MessageSize(st.buf), 0) :
               \/ st2.rc \in {"closed", "error"} /\ Link!Shut(st2.rc)
               \/ st2.rc = "less" /\ Link!Kept(st2)
               \/ /\ st2.rc = "enough"
                  /\ readbuffer' = Link!drainBuf(st2.buf, Link!MessageSize(st2.buf)) /\ sock' = st2.sock
                  /\ handled' = Append(handled, SubSeq(st2.buf, 1, Link!MessageSize(st2.buf)))
                  /\ UNCHANGED <<open, shutBy>>
  BY <1>1 DEF Link!do_read
<1>6. ReadsOn(st0, LenSize, st)
  BY <1>2, <1>3, <1>5, ReadBufKeeps
<1>7. st \in ReadStates /\ Len(st.buf) <= ReadSize /\ st.buf \o st.sock = readbuffer \o sock
  BY <1>2, <1>6 DEF ReadsOn
<1>8. CASE st.rc \in {"closed", "error"} /\ Link!Shut(st.rc)
  <2>1. st.rc = "closed" => left
    <3> SUFFICES ASSUME st.rc = "closed" PROVE left
      OBVIOUS
    <3>1. LenSize > Len(st0.buf) /\ (Len(st0.buf) = ReadSize \/ left)
      BY <1>6, <1>8 DEF ReadsOn
    <3> QED
      BY <1>3, <3>1
  <2> QED
    BY <1>3, <1>4, <1>8, <2>1, ShutKeeps
<1>9. CASE st.rc = "less" /\ Link!Kept(st)
  BY <1>4, <1>7, <1>9, KeptKeeps
<1>10. CASE /\ st.rc = "enough"
            /\ \E st2 \in Link!readBuf(st, Link!MessageSize(st.buf), 0) :
               \/ st2.rc \in {"closed", "error"} /\ Link!Shut(st2.rc)
               \/ st2.rc = "less" /\ Link!Kept(st2)
               \/ /\ st2.rc = "enough"
                  /\ readbuffer' = Link!drainBuf(st2.buf, Link!MessageSize(st2.buf)) /\ sock' = st2.sock
                  /\ handled' = Append(handled, SubSeq(st2.buf, 1, Link!MessageSize(st2.buf)))
                  /\ UNCHANGED <<open, shutBy>>
  <2>1. PICK h, b, s, n : h = Len(handled) /\ b = st.buf /\ s = st.sock /\ n = Link!MessageSize(b)
    OBVIOUS
  <2>2. b \in Seq(Cells) /\ s \in Seq(Cells) /\ b \o s = readbuffer \o sock
    BY <1>7, <2>1 DEF ReadStates
  <2>3. Len(b) >= 1 /\ Len(b) <= ReadSize /\ Len(b) \in Nat
    <3>1. LenSize <= Len(st.buf)
      BY <1>6, <1>10 DEF ReadsOn
    <3> QED
      BY <1>3, <1>7, <2>1, <2>2, <3>1
  <2>4. h + 1 \in 1..Len(sent) /\ n = sent[h + 1]
    BY <1>4, <2>1, <2>2, <2>3, NextMessage
  <2>5. n \in Nat /\ h + 1 \in DOMAIN sent
    BY <2>4 DEF CutInv, CutTypes, HandledWhole, NoCellLost, Link!OnlyLongOnesShut
  <2>6. PICK st2 \in Link!readBuf(st, n, 0) :
               \/ st2.rc \in {"closed", "error"} /\ Link!Shut(st2.rc)
               \/ st2.rc = "less" /\ Link!Kept(st2)
               \/ /\ st2.rc = "enough"
                  /\ readbuffer' = Link!drainBuf(st2.buf, Link!MessageSize(st2.buf)) /\ sock' = st2.sock
                  /\ handled' = Append(handled, SubSeq(st2.buf, 1, Link!MessageSize(st2.buf)))
                  /\ UNCHANGED <<open, shutBy>>
    BY <1>10, <2>1
  <2>7. ReadsOn(st, n, st2)
    BY <1>7, <2>5, <2>6, ReadBufKeeps
  <2>8. st2 \in ReadStates /\ Len(st2.buf) <= ReadSize /\ st2.buf \o st2.sock = readbuffer \o sock
    BY <1>7, <2>7 DEF ReadsOn
  <2>9. CASE st2.rc \in {"closed", "error"} /\ Link!Shut(st2.rc)
    <3>1. st2.rc = "closed" => n > Len(b) /\ (Len(b) = ReadSize \/ left)
      BY <2>1, <2>7 DEF ReadsOn
    <3>0. h \in Nat /\ Len(sent) \in Nat
      BY <2>1 DEF CutInv, CutTypes
    <3>2. st2.rc = "closed" /\ ~left => Len(handled) < Len(sent) /\ sent[Len(handled) + 1] > ReadSize
      BY <2>1, <2>4, <3>0, <3>1
    <3> QED
      BY <1>3, <1>4, <2>9, <3>2, ShutKeeps
  <2>10. CASE st2.rc = "less" /\ Link!Kept(st2)
    BY <1>4, <2>8, <2>10, KeptKeeps
  <2>11. CASE /\ st2.rc = "enough"
              /\ readbuffer' = Link!drainBuf(st2.buf, Link!MessageSize(st2.buf)) /\ sock' = st2.sock
              /\ handled' = Append(handled, SubSeq(st2.buf, 1, Link!MessageSize(st2.buf)))
              /\ UNCHANGED <<open, shutBy>>
    <3>1. PICK b2, s2, n2 : b2 = st2.buf /\ s2 = st2.sock /\ n2 = Link!MessageSize(b2)
      OBVIOUS
    <3>2. b2 \in Seq(Cells) /\ s2 \in Seq(Cells) /\ b2 \o s2 = readbuffer \o sock /\ Len(b2) <= ReadSize
      BY <2>8, <3>1 DEF ReadStates
    <3>3. n <= Len(b2)
      BY <2>7, <2>11, <3>1 DEF ReadsOn
    <3>4. n >= 1
      BY <2>4 DEF CutInv, CutTypes, HandledWhole, NoCellLost, Link!OnlyLongOnesShut
    <3>5. Len(b2) >= 1
      BY <2>5, <3>2, <3>3, <3>4
    <3>6. n2 = n
      <4>1. n2 = sent[h + 1]
        BY <1>4, <2>1, <3>1, <3>2, <3>5, NextMessage
      <4> QED
        BY <2>4, <4>1
    <3>7. n2 <= Len(b2)
      BY <3>3, <3>6
    <3>8. readbuffer' = Link!drainBuf(b2, n2) /\ sock' = s2 /\ handled' = Append(handled, SubSeq(b2, 1, n2))
      BY <2>11, <3>1
    <3> QED
      BY <1>4, <2>11, <3>1, <3>2, <3>5, <3>7, <3>8, HandedOn
  <2> QED
    BY <2>6, <2>9, <2>10, <2>11
<1> QED
  BY <1>5, <1>8, <1>9, <1>10

\* Server::do_read with drainBuf() and readBuf(), for any sizes and any way the stream is
\* cut: the game process gets the messages whole and in order, and readBuf() takes a
\* connection that its client has not closed for closed only when the next message does
\* not fit into the buffer.
THEOREM CommandsArriveInOrder ==
  ASSUME SizesCount
  PROVE  Link!ReadInit /\ [][Link!ReadNext]_rvars => [](Link!CommandsInOrder /\ Link!OnlyLongOnesShut)
<1>1. Link!ReadInit => CutInv
  <2> SUFFICES ASSUME Link!ReadInit PROVE CutInv
    OBVIOUS
  <2>1. Messages(<<>>) = <<>>
    BY DEF Messages
  <2>2. PICK p : p = Messages(<<>>)
    OBVIOUS
  <2>3. Link!FlattenSeq(p) = p
    BY <2>1, <2>2, Zenon DEF Link!FlattenSeq
  <2>4. <<>> \o <<>> \o <<>> = <<>>
    OBVIOUS
  <2>5. /\ sent = <<>> /\ sock = <<>> /\ readbuffer = <<>> /\ open = TRUE /\ shutBy = "nobody" /\ handled = <<>>
    BY DEF Link!ReadInit
  <2>6. Link!FlattenSeq(<<>>) = <<>>
    BY <2>1, <2>2, <2>3
  <2>7. Link!FlattenSeq(handled) \o readbuffer \o sock = Link!FlattenSeq(Messages(sent))
    BY <2>1, <2>4, <2>5, <2>6
  <2>8. <<>> \in Seq(Nat \ {0}) /\ <<>> \in Seq(Cells) /\ <<>> \in Seq(Seq(Cells)) /\ Len(<<>>) = 0
    OBVIOUS
  <2>9. Len(readbuffer) <= ReadSize
    BY <2>5, <2>8 DEF SizesCount
  <2> QED
    BY <2>5, <2>7, <2>8, <2>9 DEF CutInv, CutTypes, HandledWhole, NoCellLost, Link!OnlyLongOnesShut
<1>2. CutInv /\ [Link!ReadNext]_rvars => CutInv'
  <2> SUFFICES ASSUME CutInv, [Link!ReadNext]_rvars PROVE CutInv'
    OBVIOUS
  <2>1. CASE Link!do_read
    BY <2>1, ReadKeepsCut
  <2>2. CASE \E n \in CommandSizes : Link!sendCmd(n)
    BY <2>2, ClientKeeps
  <2>4. CASE Link!ShutUnread
    BY <2>4, ShutKeeps DEF Link!ShutUnread, SizesCount
  <2>3. CASE Link!Leave \/ UNCHANGED rvars
    <3>1. UNCHANGED <<sent, sock, readbuffer, open, shutBy, handled>> /\ (left => left')
      BY <2>3 DEF Link!Leave, rvars
    <3>2. CutTypes'
      BY <3>1 DEF CutInv, CutTypes
    <3>3. HandledWhole'
      BY <3>1 DEF CutInv, HandledWhole, Link!Message
    <3>4. NoCellLost'
      BY <3>1 DEF CutInv, NoCellLost
    <3>5. Link!OnlyLongOnesShut'
      BY <3>1 DEF CutInv, Link!OnlyLongOnesShut
    <3> QED
      BY <3>2, <3>3, <3>4, <3>5 DEF CutInv
  <2> QED
    BY <2>1, <2>2, <2>3, <2>4 DEF Link!ReadNext
<1>3. CutInv => Link!CommandsInOrder /\ Link!OnlyLongOnesShut
  <2> SUFFICES ASSUME CutInv PROVE Link!CommandsInOrder /\ Link!OnlyLongOnesShut
    OBVIOUS
  <2>1. Messages(sent) = [m \in DOMAIN sent |-> Link!Message(m)]
    BY DEF Messages, MessageOf, Link!Message
  <2>2. DOMAIN handled = 1..Len(handled)
    BY DEF CutInv, CutTypes, HandledWhole, NoCellLost, Link!OnlyLongOnesShut
  <2>3. open => Link!FlattenSeq(handled) \o readbuffer \o sock =
                 Link!FlattenSeq([m \in DOMAIN sent |-> Link!Message(m)])
    BY <2>1 DEF CutInv, CutTypes, HandledWhole, NoCellLost, Link!OnlyLongOnesShut
  <2>4. Link!CommandsInOrder
    BY <2>2, <2>3 DEF CutInv, CutTypes, HandledWhole, NoCellLost, Link!OnlyLongOnesShut, Link!CommandsInOrder
  <2>5. Link!OnlyLongOnesShut
    BY DEF CutInv, CutTypes, HandledWhole, NoCellLost, Link!OnlyLongOnesShut
  <2> QED
    BY <2>4, <2>5
<1> QED
  BY <1>1, <1>2, <1>3, PTL

-------------------------------------------------------------------------------
(* The streams of csapp.c, for every stream, buffer and size asked for.  What   *)
(* has been taken, what is in the buffer and what is on its way make up what    *)
(* has arrived (StreamInv).                                                     *)

CONSTANTS Bytes, Newline, MaxStream, MaxAsked, RIO_BUFSIZE
VARIABLES stream, rio_buf, call, taken, arrived, result
Input == INSTANCE Rio

StreamSizes == MaxAsked \in Nat /\ RIO_BUFSIZE \in Nat

Ops == {"none"} \cup Input!Readers \cup Input!Writers \cup {"rio_readnb", "rio_readlineb"}
Calls == [op : Ops, n : Nat, got : Nat]

\* The last got bytes taken are no newlines.
LineOpen == \A i \in 1..call.got : taken[Len(taken) - call.got + i] # Newline

StreamInv ==
  /\ arrived \in Seq(Bytes) /\ stream \in Seq(Bytes) /\ rio_buf \in Seq(Bytes) /\ taken \in Seq(Bytes)
  /\ call \in Calls /\ result.call \in Calls
  /\ call.op # "none" => call.got < call.n
  /\ Input!NothingLost /\ Input!ShortOnlyAtEnd
  /\ call.op = "rio_readlineb" => call.got < call.n - 1 /\ call.got <= Len(taken) /\ LineOpen

LEMMA Joined ==
  ASSUME NEW a \in Seq(Bytes), NEW b \in Seq(Bytes), NEW new, new = a \o b
  PROVE  /\ new \in Seq(Bytes) /\ Len(new) = Len(a) + Len(b)
         /\ \A i \in 1..(Len(a) + Len(b)) :
              new[i] = IF i <= Len(a) THEN a[i] ELSE b[i - Len(a)]
OBVIOUS

\* What takes k bytes of the buffer, or of the stream past an empty buffer, leaves
\* the order of all bytes.
LEMMA StreamParts ==
  ASSUME StreamInv
  PROVE  /\ \A k \in 0..Len(rio_buf) :
              (taken \o SubSeq(rio_buf, 1, k)) \o SubSeq(rio_buf, k + 1, Len(rio_buf)) \o stream = arrived
         /\ rio_buf = <<>> => taken \o stream = arrived
<1>1. taken \in Seq(Bytes) /\ rio_buf \in Seq(Bytes) /\ stream \in Seq(Bytes)
        /\ (taken \o rio_buf) \o stream = arrived
  BY DEF StreamInv, Input!NothingLost
<1>2. ASSUME NEW k \in 0..Len(rio_buf)
      PROVE  (taken \o SubSeq(rio_buf, 1, k)) \o SubSeq(rio_buf, k + 1, Len(rio_buf)) \o stream = arrived
  <2>1. (taken \o SubSeq(rio_buf, 1, k)) \o SubSeq(rio_buf, k + 1, Len(rio_buf)) = taken \o rio_buf
    <3>1. PICK t, b : t = taken /\ b = rio_buf
      OBVIOUS
    <3>2. t \in Seq(Bytes) /\ b \in Seq(Bytes) /\ k \in 0..Len(b)
      BY <1>1, <3>1
    <3>3. (t \o SubSeq(b, 1, k)) \o SubSeq(b, k + 1, Len(b)) = t \o b
      BY <3>2, BytesMoved
    <3> QED
      BY <3>1, <3>3
  <2> QED
    BY <1>1, <2>1
<1>3. rio_buf = <<>> => taken \o stream = arrived
  <2>1. taken \o <<>> = taken
    BY <1>1
  <2> QED
    BY <1>1, <2>1
<1> QED
  BY <1>2, <1>3

LEMMA CallMoves ==
  ASSUME call \in Calls, NEW k \in Nat, NEW c, c = [call EXCEPT !.got = @ + k]
  PROVE  c \in Calls /\ c.op = call.op /\ c.n = call.n /\ c.got = call.got + k
BY DEF Calls

\* What a result promises stays true, since an empty stream stays empty.
LEMMA ResultStays ==
  ASSUME Input!ShortOnlyAtEnd, result' = result, stream = <<>> => stream' = <<>>
  PROVE  Input!ShortOnlyAtEnd'
BY DEF Input!ShortOnlyAtEnd

\* A round of a loop over bytes that are asked for.
LEMMA RoundKeeps ==
  ASSUME StreamInv, NEW k \in 1..(call.n - call.got), Input!Progress([call EXCEPT !.got = @ + k]),
         call.op \notin {"none", "rio_readlineb"}, stream = <<>> => stream' = <<>>
  PROVE  /\ call' \in Calls /\ result'.call \in Calls /\ Input!ShortOnlyAtEnd'
         /\ call'.op # "none" => call'.got < call'.n
         /\ call'.op \in {call.op, "none"}
<1>1. PICK c : c = [call EXCEPT !.got = @ + k]
  OBVIOUS
<1>2. call \in Calls /\ call.n \in Nat /\ call.got \in Nat /\ k \in Nat /\ k <= call.n - call.got
  BY DEF StreamInv, Calls
<1>3. c \in Calls /\ c.op = call.op /\ c.n = call.n /\ c.got = call.got + k
  BY <1>1, <1>2, CallMoves
<1>4. CASE c.got = c.n
  <2>1. call' = Input!NoCall /\ result' = [call |-> c, rc |-> c.n, eof |-> FALSE]
    BY <1>1, <1>4 DEF Input!Progress, Input!Return
  <2> QED
    BY <1>3, <2>1 DEF Input!NoCall, Calls, Ops, Input!ShortOnlyAtEnd
<1>5. CASE c.got # c.n
  <2>1. call' = c /\ result' = result
    BY <1>1, <1>5 DEF Input!Progress, Input!Continue
  <2>2. Input!ShortOnlyAtEnd' /\ result'.call \in Calls
    BY <2>1, ResultStays DEF StreamInv
  <2>3. c.got < c.n
    BY <1>2, <1>3, <1>5
  <2> QED
    BY <1>3, <2>1, <2>2, <2>3
<1> QED
  BY <1>4, <1>5

\* A call that ends without having what it asked for has failed, or the stream has
\* ended.
LEMMA EndKeeps ==
  ASSUME StreamInv, NEW rc, NEW eof, Input!Return(call, rc, eof),
         rc = -1 \/ call.op = "rio_readlineb" \/ (eof /\ stream' = <<>>)
  PROVE  call' \in Calls /\ call'.op = "none" /\ result'.call \in Calls /\ Input!ShortOnlyAtEnd'
<1>1. call' = Input!NoCall /\ result' = [call |-> call, rc |-> rc, eof |-> eof] /\ call \in Calls
  BY DEF Input!Return, StreamInv
<1>2. call' \in Calls /\ call'.op = "none" /\ result'.call \in Calls
  BY <1>1 DEF Input!NoCall, Calls, Ops
<1>3. Input!ShortOnlyAtEnd'
  BY <1>1 DEF Input!ShortOnlyAtEnd, Input!Readers, Input!Writers
<1> QED
  BY <1>2, <1>3

\* What a line promises when its call returns.
LineReturns ==
  (call.op = "rio_readlineb" /\ call'.op = "none" /\ result'.rc # -1) =>
     LET n == result'.call.got IN
     /\ \A i \in 1..(n - 1) : taken'[Len(taken') - n + i] # Newline
     /\ n < call.n
     /\ result'.rc = IF n = 0 THEN 0
                     ELSE IF taken'[Len(taken')] = Newline THEN n ELSE n + 1

\* A line ends with the stream.
LEMMA LineEnds ==
  ASSUME StreamInv, Input!EndOfFile PROVE LineReturns
<1> SUFFICES ASSUME call.op = "rio_readlineb" PROVE LineReturns
  BY DEF LineReturns
<1>1. /\ call.got \in Nat /\ call.n \in Nat /\ call.got < call.n /\ call.got <= Len(taken)
      /\ Len(taken) \in Nat /\ taken' = taken
      /\ result' = [call |-> call, rc |-> Input!Unended(call.got), eof |-> TRUE]
      /\ \A i \in 1..call.got : taken[Len(taken) - call.got + i] # Newline
  BY DEF StreamInv, LineOpen, Calls, Input!EndOfFile, Input!Return
<1>2. result'.call.got = call.got /\ result'.rc = Input!Unended(call.got)
  BY <1>1
<1>3. call.got # 0 => taken'[Len(taken')] # Newline
  <2>1. Len(taken) - call.got + call.got = Len(taken)
    BY <1>1
  <2> QED
    BY <1>1, <2>1
<1> QED
  BY <1>1, <1>2, <1>3 DEF LineReturns, Input!Unended

\* A byte of a line is copied.
LEMMA LineGrows ==
  ASSUME StreamInv, Input!CopyLine
  PROVE  /\ taken' \in Seq(Bytes) /\ rio_buf' \in Seq(Bytes) /\ stream' = stream /\ arrived' = arrived
         /\ Input!NothingLost' /\ call' \in Calls /\ result'.call \in Calls /\ Input!ShortOnlyAtEnd'
         /\ call'.op # "none" => call'.got < call'.n - 1 /\ call'.got <= Len(taken') /\ LineOpen'
         /\ LineReturns
<1>1. PICK c : c = [call EXCEPT !.got = @ + 1]
  OBVIOUS
<1>2. /\ call \in Calls /\ call.n \in Nat /\ call.got \in Nat /\ call.got < call.n - 1 /\ call.got <= Len(taken)
      /\ taken \in Seq(Bytes) /\ rio_buf \in Seq(Bytes) /\ rio_buf # <<>> /\ call.op = "rio_readlineb"
      /\ \A i \in 1..call.got : taken[Len(taken) - call.got + i] # Newline
  BY DEF StreamInv, LineOpen, Calls, Input!CopyLine
<1>3. c \in Calls /\ c.op = call.op /\ c.n = call.n /\ c.got = call.got + 1
  BY <1>1, <1>2, CallMoves
<1>4. PICK b : b = rio_buf[1]
  OBVIOUS
<1>5. Len(rio_buf) \in Nat /\ 1 \in 0..Len(rio_buf) /\ Head(rio_buf) = b
  BY <1>2, <1>4
<1>6. /\ taken' = taken \o SubSeq(rio_buf, 1, 1) /\ rio_buf' = SubSeq(rio_buf, 1 + 1, Len(rio_buf))
      /\ stream' = stream /\ arrived' = arrived
  BY DEF Input!CopyLine, Input!Deliver, Input!Rest
<1>7. PICK one : one = SubSeq(rio_buf, 1, 1)
  OBVIOUS
<1>8. one \in Seq(Bytes) /\ Len(one) = 1 /\ one[1] = b
  BY <1>2, <1>4, <1>5, <1>7, BytesFirst
<1>9. /\ taken' \in Seq(Bytes) /\ Len(taken') = Len(taken) + 1 /\ Len(taken) \in Nat
      /\ \A i \in 1..Len(taken) : taken'[i] = taken[i]
      /\ taken'[Len(taken) + 1] = b
  <2>1. taken' = taken \o one
    BY <1>6, <1>7
  <2>2. PICK t, new : t = taken /\ new = taken'
    OBVIOUS
  <2>3. t \in Seq(Bytes) /\ new = t \o one
    BY <1>2, <2>1, <2>2
  <2>4. /\ new \in Seq(Bytes) /\ Len(new) = Len(t) + Len(one)
        /\ \A i \in 1..(Len(t) + Len(one)) : new[i] = IF i <= Len(t) THEN t[i] ELSE one[i - Len(t)]
    BY <1>8, <2>3, Joined
  <2>5. Len(t) \in Nat
    BY <2>3
  <2>6. new[Len(t) + 1] = one[Len(t) + 1 - Len(t)] /\ Len(t) + 1 - Len(t) = 1
    BY <1>8, <2>4, <2>5
  <2>7. \A i \in 1..Len(t) : new[i] = t[i]
    BY <1>8, <2>4, <2>5
  <2> QED
    BY <1>8, <2>2, <2>4, <2>5, <2>6, <2>7
<1>10. rio_buf' \in Seq(Bytes)
  BY <1>2, <1>5, <1>6, BytesCut
<1>11. Input!NothingLost'
  BY <1>5, <1>6, StreamParts DEF Input!NothingLost
<1>12. \A i \in 1..call.got : taken'[Len(taken') - c.got + i] # Newline
  <2> SUFFICES ASSUME NEW i \in 1..call.got PROVE taken'[Len(taken') - c.got + i] # Newline
    OBVIOUS
  <2>1. Len(taken') - c.got + i = Len(taken) - call.got + i /\ Len(taken) - call.got + i \in 1..Len(taken)
    <3>1. Len(taken) \in Nat /\ Len(taken') = Len(taken) + 1 /\ c.got = call.got + 1
      BY <1>3, <1>9
    <3>2. call.got \in Nat /\ call.got <= Len(taken)
      BY <1>2
    <3> QED
      BY <3>1, <3>2
  <2> QED
    BY <1>2, <1>9, <2>1
<1>13. CASE b = Newline
  <2>1. Input!Return(c, c.got, FALSE)
    BY <1>1, <1>5, <1>13 DEF Input!CopyLine
  <2>2. call' = Input!NoCall /\ result' = [call |-> c, rc |-> c.got, eof |-> FALSE]
    BY <2>1 DEF Input!Return
  <2>3. call' \in Calls /\ call'.op = "none" /\ result'.call \in Calls /\ Input!ShortOnlyAtEnd'
    BY <1>2, <1>3, <2>2 DEF Input!NoCall, Calls, Ops, Input!ShortOnlyAtEnd, Input!Readers, Input!Writers
  <2>4. LineReturns
    BY <1>2, <1>3, <1>9, <1>12, <1>13, <2>2 DEF LineReturns
  <2> QED
    BY <1>6, <1>9, <1>10, <1>11, <2>3, <2>4
<1>14. CASE b # Newline /\ c.got = c.n - 1
  <2>1. Input!Return(c, Input!Unended(c.got), FALSE)
    BY <1>1, <1>5, <1>14 DEF Input!CopyLine
  <2>2. call' = Input!NoCall /\ result' = [call |-> c, rc |-> Input!Unended(c.got), eof |-> FALSE]
    BY <2>1 DEF Input!Return
  <2>3. call' \in Calls /\ call'.op = "none" /\ result'.call \in Calls /\ Input!ShortOnlyAtEnd'
    BY <1>2, <1>3, <2>2 DEF Input!NoCall, Calls, Ops, Input!ShortOnlyAtEnd, Input!Readers, Input!Writers
  <2>4. LineReturns
    BY <1>2, <1>3, <1>9, <1>12, <1>14, <2>2 DEF LineReturns, Input!Unended
  <2> QED
    BY <1>6, <1>9, <1>10, <1>11, <2>3, <2>4
<1>15. CASE b # Newline /\ c.got # c.n - 1
  <2>1. call' = c /\ result' = result
    BY <1>1, <1>5, <1>15 DEF Input!CopyLine, Input!Continue
  <2>2. Input!ShortOnlyAtEnd' /\ result'.call \in Calls
    BY <1>6, <2>1, ResultStays DEF StreamInv
  <2>3. call'.got < call'.n - 1 /\ call'.got <= Len(taken')
    <3>1. c.got \in Nat /\ c.n \in Nat /\ c.got < c.n
      BY <1>2, <1>3
    <3>2. c.got <= Len(taken')
      BY <1>2, <1>3, <1>9
    <3>3. c.got < c.n - 1
      BY <1>15, <3>1, <1>2, <1>3
    <3> QED
      BY <2>1, <3>2, <3>3
  <2>4. LineOpen'
    <3> SUFFICES ASSUME NEW i \in 1..c.got PROVE taken'[Len(taken') - c.got + i] # Newline
      BY <2>1 DEF LineOpen
    <3>1. CASE i = c.got
      <4>1. Len(taken') - c.got + i = Len(taken) + 1
        BY <1>2, <1>3, <1>9, <3>1
      <4> QED
        BY <1>9, <1>15, <4>1
    <3>2. CASE i # c.got
      <4>1. i \in 1..call.got
        BY <1>2, <1>3, <3>2
      <4> QED
        BY <1>12, <4>1
    <3> QED
      BY <3>1, <3>2
  <2>5. LineReturns
    BY <1>2, <1>3, <2>1 DEF LineReturns
  <2> QED
    BY <1>3, <1>6, <1>9, <1>10, <1>11, <2>1, <2>2, <2>3, <2>4, <2>5
<1> QED
  BY <1>13, <1>14, <1>15

\* A call that has got the bytes of the direct readers takes none of the buffer.
Direct == call.op \in Input!Readers => rio_buf = <<>>

\* Only a line has a line to promise.
LEMMA OtherCalls == call.op # "rio_readlineb" \/ call'.op # "none" => LineReturns
BY DEF LineReturns

LEMMA BeginKeeps == ASSUME StreamSizes, StreamInv, Input!Begin PROVE StreamInv' /\ LineReturns
<1>1. PICK n \in 1..MaxAsked, op \in Ops \ {"none"} :
        Input!Call(op, n) /\ (op = "rio_readlineb" => n > 1)
  <2>1. PICK n \in 1..MaxAsked :
          \/ \E op \in Input!Readers : rio_buf = <<>> /\ Input!Call(op, n)
          \/ \E op \in Input!Writers : Input!Call(op, n)
          \/ Input!Call("rio_readnb", n)
          \/ n > 1 /\ Input!Call("rio_readlineb", n)
    BY DEF Input!Begin
  <2>2. \E op \in Ops \ {"none"} : Input!Call(op, n) /\ (op = "rio_readlineb" => n > 1)
    BY <2>1 DEF Ops, Input!Readers, Input!Writers
  <2> QED
    BY <2>2
<1>2. n \in Nat /\ n >= 1
  BY DEF StreamSizes
<1>3. /\ call' = [op |-> op, n |-> n, got |-> 0] /\ call.op = "none"
      /\ UNCHANGED <<stream, rio_buf, taken, arrived, result>>
  BY <1>1 DEF Input!Call
<1>4. call' \in Calls /\ call'.got = 0 /\ call'.n = n /\ call'.op = op
  BY <1>2, <1>3 DEF Calls
<1>5. Len(taken) \in Nat
  BY DEF StreamInv
<1>6. Input!ShortOnlyAtEnd'
  BY <1>3, ResultStays DEF StreamInv
<1>7. LineOpen'
  BY <1>4 DEF LineOpen
<1>8. LineReturns
  BY <1>3, OtherCalls
<1>9. call'.op = "rio_readlineb" => call'.got < call'.n - 1 /\ call'.got <= Len(taken')
  BY <1>1, <1>2, <1>3, <1>4, <1>5
<1> QED
  BY <1>2, <1>3, <1>4, <1>6, <1>7, <1>8, <1>9 DEF StreamInv, Input!NothingLost

\* The ends of calls, in which no byte moves.
LEMMA FailedKeeps == ASSUME StreamInv, Input!Failed PROVE StreamInv' /\ LineReturns
<1>1. Input!Return(call, -1, FALSE) /\ UNCHANGED <<stream, rio_buf, taken, arrived>>
  BY DEF Input!Failed
<1>2. call' \in Calls /\ call'.op = "none" /\ result'.call \in Calls /\ Input!ShortOnlyAtEnd'
  BY <1>1, EndKeeps
<1>3. LineReturns
  BY <1>1 DEF LineReturns, Input!Return
<1> QED
  BY <1>1, <1>2, <1>3 DEF StreamInv, Input!NothingLost

LEMMA EndOfFileKeeps == ASSUME StreamInv, Input!EndOfFile PROVE StreamInv' /\ LineReturns
<1>1. PICK rc : Input!Return(call, rc, TRUE)
  BY DEF Input!EndOfFile
<1>2. UNCHANGED <<stream, rio_buf, taken, arrived>> /\ stream = <<>>
  BY DEF Input!EndOfFile
<1>3. call' \in Calls /\ call'.op = "none" /\ result'.call \in Calls /\ Input!ShortOnlyAtEnd'
  BY <1>1, <1>2, EndKeeps
<1>4. LineReturns
  BY LineEnds
<1> QED
  BY <1>2, <1>3, <1>4 DEF StreamInv, Input!NothingLost

\* Bytes come from the kernel.
LEMMA RefillKeeps == ASSUME StreamSizes, StreamInv, Input!Refill PROVE StreamInv' /\ LineReturns
<1>1. PICK k \in 1..Input!Min(RIO_BUFSIZE, Len(stream)) :
        rio_buf' = SubSeq(stream, 1, k) /\ stream' = SubSeq(stream, k + 1, Len(stream))
  BY DEF Input!Refill
<1>2. /\ call.op \in {"rio_readnb", "rio_readlineb"} /\ rio_buf = <<>>
      /\ UNCHANGED <<call, taken, arrived, result>>
  BY DEF Input!Refill
<1>3. stream \in Seq(Bytes) /\ taken \in Seq(Bytes) /\ Len(stream) \in Nat /\ taken \o stream = arrived
  <2>1. taken \o stream = arrived
    BY <1>2, StreamParts
  <2> QED
    BY <2>1 DEF StreamInv
<1>4. k \in 0..Len(stream) /\ k >= 1
  <2>1. PICK n : n = Len(stream)
    OBVIOUS
  <2>2. n \in Nat /\ RIO_BUFSIZE \in Nat /\ k \in 1..(IF RIO_BUFSIZE < n THEN RIO_BUFSIZE ELSE n)
    BY <1>1, <1>3, <2>1 DEF StreamSizes, Input!Min
  <2> QED
    BY <2>1, <2>2
<1>5. /\ rio_buf' \in Seq(Bytes) /\ stream' \in Seq(Bytes) /\ rio_buf' \o stream' = stream
  BY <1>1, <1>3, <1>4, BytesMoved
<1>6. Input!NothingLost'
  <2>1. PICK b, s : b = rio_buf' /\ s = stream'
    OBVIOUS
  <2>2. b \in Seq(Bytes) /\ s \in Seq(Bytes)
    BY <1>5, <2>1
  <2>3. (taken \o b) \o s = taken \o (b \o s)
    <3>1. Associative(Bytes)
      BY JoinedThrice
    <3> QED
      BY <1>3, <2>2, <3>1, Zenon DEF Associative
  <2> QED
    BY <1>2, <1>3, <1>5, <2>1, <2>3 DEF Input!NothingLost
<1>7. stream # <<>>
  BY <1>3, <1>4
<1>8. Input!ShortOnlyAtEnd'
  BY <1>2, <1>7, ResultStays DEF StreamInv
<1>9. LineReturns
  BY <1>2 DEF LineReturns
<1>10. LineOpen' <=> LineOpen
  BY <1>2 DEF LineOpen
<1> QED
  BY <1>2, <1>5, <1>6, <1>8, <1>9, <1>10 DEF StreamInv

LEMMA ReadKeeps ==
  ASSUME StreamInv, call.op \in Input!Readers, Input!ReadDirect, Direct PROVE StreamInv' /\ LineReturns
<1>1. PICK k \in 1..Input!Min(call.n - call.got, Len(stream)) :
        /\ taken' = taken \o SubSeq(stream, 1, k)
        /\ stream' = SubSeq(stream, k + 1, Len(stream))
        /\ Input!Progress([call EXCEPT !.got = @ + k])
  BY DEF Input!ReadDirect, Input!Deliver
<1>2. UNCHANGED <<rio_buf, arrived>> /\ rio_buf = <<>> /\ call.op \notin {"none", "rio_readlineb"}
  BY DEF Input!ReadDirect, Direct, Input!Readers
<1>3. /\ stream \in Seq(Bytes) /\ taken \in Seq(Bytes) /\ Len(stream) \in Nat /\ taken \o stream = arrived
      /\ call.n \in Nat /\ call.got \in Nat
  <2>1. taken \o stream = arrived
    BY <1>2, StreamParts
  <2> QED
    BY <2>1 DEF StreamInv, Calls
<1>4. k \in 0..Len(stream) /\ k >= 1 /\ k \in 1..(call.n - call.got)
  <2>1. PICK n, m : n = Len(stream) /\ m = call.n - call.got
    OBVIOUS
  <2>2. n \in Nat /\ m \in Int /\ k \in 1..(IF m < n THEN m ELSE n)
    BY <1>1, <1>3, <2>1 DEF Input!Min
  <2> QED
    BY <2>1, <2>2
<1>5. taken' \in Seq(Bytes) /\ stream' \in Seq(Bytes) /\ taken' \o stream' = arrived
  <2>1. PICK t, s : t = taken /\ s = stream
    OBVIOUS
  <2>2. t \in Seq(Bytes)
    BY <1>3, <2>1
  <2>3. s \in Seq(Bytes)
    BY <1>3, <2>1
  <2>4. k \in 0..Len(s)
    BY <1>4, <2>1
  <2>5. t \o SubSeq(s, 1, k) \in Seq(Bytes)
        /\ (t \o SubSeq(s, 1, k)) \o SubSeq(s, k + 1, Len(s)) = t \o s
    BY <2>2, <2>3, <2>4, BytesMoved
  <2>6. SubSeq(s, k + 1, Len(s)) \in Seq(Bytes)
    BY <2>3, <2>4, BytesCut
  <2> QED
    BY <1>1, <1>3, <2>1, <2>5, <2>6
<1>6. Input!NothingLost'
  <2>1. taken' \o <<>> = taken'
    BY <1>5
  <2> QED
    BY <1>2, <1>5, <2>1 DEF Input!NothingLost
<1>7. stream # <<>>
  BY <1>3, <1>4
<1>8. /\ call' \in Calls /\ result'.call \in Calls /\ Input!ShortOnlyAtEnd'
      /\ call'.op # "none" => call'.got < call'.n
      /\ call'.op \in {call.op, "none"}
  BY <1>1, <1>2, <1>4, <1>7, RoundKeeps
<1>9. LineReturns
  BY <1>2, OtherCalls
<1> QED
  BY <1>2, <1>3, <1>5, <1>6, <1>8, <1>9 DEF StreamInv

LEMMA WriteKeeps ==
  ASSUME StreamInv, call.op \in Input!Writers, Input!Write PROVE StreamInv' /\ Direct' /\ LineReturns
<1>1. PICK k \in 1..(call.n - call.got) : Input!Progress([call EXCEPT !.got = @ + k])
  BY DEF Input!Write
<1>2. UNCHANGED <<stream, rio_buf, taken, arrived>> /\ call.op \notin {"none", "rio_readlineb"}
  BY DEF Input!Write, Input!Writers
<1>3. /\ call' \in Calls /\ result'.call \in Calls /\ Input!ShortOnlyAtEnd'
      /\ call'.op # "none" => call'.got < call'.n
      /\ call'.op \in {call.op, "none"}
  BY <1>1, <1>2, RoundKeeps
<1>4. LineReturns
  BY <1>2, OtherCalls
<1>5. Direct'
  BY <1>2, <1>3 DEF Direct, Input!Readers, Input!Writers
<1> QED
  BY <1>2, <1>3, <1>4, <1>5 DEF StreamInv, Input!NothingLost

\* Bytes leave the buffer.
LEMMA CopyKeeps == ASSUME StreamInv, Input!CopyBuffered PROVE StreamInv' /\ LineReturns
<1>1. PICK k : k = Input!Min(call.n - call.got, Len(rio_buf))
  OBVIOUS
<1>2. /\ taken' = taken \o SubSeq(rio_buf, 1, k) /\ rio_buf' = SubSeq(rio_buf, k + 1, Len(rio_buf))
      /\ Input!Progress([call EXCEPT !.got = @ + k])
      /\ UNCHANGED <<stream, arrived>> /\ rio_buf # <<>> /\ call.op = "rio_readnb"
  BY <1>1 DEF Input!CopyBuffered, Input!Deliver, Input!Rest
<1>3. /\ rio_buf \in Seq(Bytes) /\ taken \in Seq(Bytes) /\ Len(rio_buf) \in Nat /\ Len(rio_buf) > 0
      /\ call.n \in Nat /\ call.got \in Nat /\ call.got < call.n
  BY <1>2 DEF StreamInv, Calls
<1>4. k \in 0..Len(rio_buf) /\ k \in 1..(call.n - call.got)
  BY <1>1, <1>3 DEF Input!Min
<1>5. taken' \in Seq(Bytes) /\ rio_buf' \in Seq(Bytes)
  <2>1. PICK t, b : t = taken /\ b = rio_buf
    OBVIOUS
  <2>2. t \in Seq(Bytes)
    BY <1>3, <2>1
  <2>3. b \in Seq(Bytes)
    BY <1>3, <2>1
  <2>4. k \in 0..Len(b)
    BY <1>4, <2>1
  <2>5. t \o SubSeq(b, 1, k) \in Seq(Bytes)
    BY <2>2, <2>3, <2>4, BytesMoved
  <2>6. SubSeq(b, k + 1, Len(b)) \in Seq(Bytes)
    BY <2>3, <2>4, BytesCut
  <2> QED
    BY <1>2, <2>1, <2>5, <2>6
<1>6. Input!NothingLost'
  BY <1>2, <1>4, StreamParts DEF Input!NothingLost
<1>7. /\ call' \in Calls /\ result'.call \in Calls /\ Input!ShortOnlyAtEnd'
      /\ call'.op # "none" => call'.got < call'.n
      /\ call'.op \in {call.op, "none"}
  BY <1>2, <1>4, RoundKeeps
<1>8. LineReturns
  BY <1>2, OtherCalls
<1> QED
  BY <1>2, <1>5, <1>6, <1>7, <1>8 DEF StreamInv

LEMMA LineKeeps == ASSUME StreamInv, Input!CopyLine PROVE StreamInv' /\ LineReturns
<1>1. /\ taken' \in Seq(Bytes) /\ rio_buf' \in Seq(Bytes) /\ stream' = stream /\ arrived' = arrived
      /\ Input!NothingLost' /\ call' \in Calls /\ result'.call \in Calls /\ Input!ShortOnlyAtEnd'
      /\ call'.op # "none" => call'.got < call'.n - 1 /\ call'.got <= Len(taken') /\ LineOpen'
      /\ LineReturns
  BY LineGrows
<1>2. call'.op # "none" => call'.got < call'.n
  BY <1>1 DEF Calls
<1> QED
  BY <1>1, <1>2 DEF StreamInv

LEMMA StreamStep ==
  ASSUME StreamSizes, StreamInv, Direct, [Input!Next]_(Input!vars)
  PROVE  StreamInv' /\ Direct' /\ LineReturns
<1>1. CASE Input!Begin
  <2>1. Direct'
    BY <1>1 DEF Input!Begin, Input!Call, Direct, Input!Readers, Input!Writers
  <2> QED
    BY <1>1, <2>1, BeginKeeps
<1>2. CASE Input!Interrupted \/ UNCHANGED Input!vars
  BY <1>2 DEF Input!Interrupted, Input!vars, StreamInv, Direct, LineOpen, LineReturns, Input!NothingLost,
     Input!ShortOnlyAtEnd
<1>3. CASE Input!Failed
  BY <1>3, FailedKeeps DEF Input!Failed, Input!Return, Input!NoCall, Direct, Input!Readers
<1>4. CASE Input!EndOfFile
  BY <1>4, EndOfFileKeeps DEF Input!EndOfFile, Input!Return, Input!NoCall, Direct, Input!Readers
<1>5. CASE Input!Refill
  BY <1>5, RefillKeeps DEF Input!Refill, Direct, Input!Readers
<1>6. CASE Input!rio_readn \/ Input!readn
  <2>1. Input!ReadDirect /\ call.op \in Input!Readers
    BY <1>6 DEF Input!rio_readn, Input!readn, Input!Readers
  <2>2. Direct'
    BY <2>1 DEF Input!ReadDirect, Direct
  <2> QED
    BY <2>1, <2>2, ReadKeeps
<1>7. CASE Input!rio_writen \/ Input!writen
  <2>1. Input!Write /\ call.op \in Input!Writers
    BY <1>7 DEF Input!rio_writen, Input!writen, Input!Writers
  <2> QED
    BY <2>1, WriteKeeps
<1>8. CASE Input!CopyBuffered
  <2>1. call'.op \notin Input!Readers
    BY <1>8 DEF Input!CopyBuffered, Input!Progress, Input!Return, Input!Continue, Input!NoCall,
       Input!Readers, StreamInv, Calls
  <2> QED
    BY <1>8, <2>1, CopyKeeps DEF Direct
<1>9. CASE Input!CopyLine
  <2>1. call'.op \notin Input!Readers
    BY <1>9 DEF Input!CopyLine, Input!Return, Input!Continue, Input!NoCall,
       Input!Readers, StreamInv, Calls
  <2> QED
    BY <1>9, <2>1, LineKeeps DEF Direct
<1> QED
  BY <1>1, <1>2, <1>3, <1>4, <1>5, <1>6, <1>7, <1>8, <1>9 DEF Input!Next

LEMMA StreamStarts == Input!Init => StreamInv /\ Direct
<1> SUFFICES ASSUME Input!Init PROVE StreamInv /\ Direct
  OBVIOUS
<1>1. PICK k \in 0..MaxStream : arrived \in [1..k -> Bytes]
  BY DEF Input!Init
<1>2. PICK s : s = arrived
  OBVIOUS
<1>3. s \in Seq(Bytes)
  BY <1>1, <1>2
<1>4. /\ stream = s /\ rio_buf = <<>> /\ taken = <<>> /\ call.op = "none" /\ call \in Calls
      /\ result.call.op = "none" /\ result.call \in Calls
  BY <1>2 DEF Input!Init, Input!NoCall, Calls, Ops
<1>5. <<>> \o <<>> \o s = s
  BY <1>3
<1> QED
  BY <1>2, <1>3, <1>4, <1>5 DEF StreamInv, Direct, Input!NothingLost, Input!ShortOnlyAtEnd, Input!Readers,
     Input!Writers

\* The rio functions, for any stream, buffer and sizes, however read() divides: no byte is
\* lost, doubled or reordered, and a call that does not fail is short only at the end.
THEOREM BytesStayInOrder ==
  ASSUME StreamSizes
  PROVE  Input!Init /\ [][Input!Next]_(Input!vars) => [](Input!NothingLost /\ Input!ShortOnlyAtEnd)
<1>1. StreamInv /\ Direct /\ [Input!Next]_(Input!vars) => StreamInv' /\ Direct'
  BY StreamStep
<1>2. StreamInv => Input!NothingLost /\ Input!ShortOnlyAtEnd
  BY DEF StreamInv
<1> QED
  BY StreamStarts, <1>1, <1>2, PTL

\* rio_readlineb(), likewise: what it stores is a line or a part of one, and its value is
\* the number of its bytes, or one more when no newline ends them.
THEOREM LinesAreMeasured ==
  ASSUME StreamSizes PROVE Input!Init /\ [][Input!Next]_(Input!vars) => Input!LineLengths
<1>1. StreamInv /\ Direct /\ [Input!Next]_(Input!vars) => StreamInv' /\ Direct'
  BY StreamStep
<1>2. StreamInv /\ Direct /\ [Input!Next]_(Input!vars) => LineReturns
  BY StreamStep
<1> QED
  BY StreamStarts, <1>1, <1>2, PTL DEF Input!LineLengths, LineReturns

===============================================================================
