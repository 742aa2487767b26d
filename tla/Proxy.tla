---------------------------------- MODULE Proxy ----------------------------------
(***************************************************************************)
(* The web proxy: a thread for each connection of a browser reads the      *)
(* request, resolves its host, forwards the request and the reply, writes  *)
(* an entry of the log and closes.  Every wrapper of csapp.c ends the      *)
(* whole process when its call fails.                                      *)
(*                                                                         *)
(* The threads share the log, under log_mutex, and what gethostbyname()    *)
(* returns, a static variable of the C library, under no lock: the proxy   *)
(* calls open_clientfd(), not its own open_clientfd_ts().  The browser,    *)
(* the web servers and the resolver are external.                          *)
(***************************************************************************)
EXTENDS Integers, Sequences, SequencesExt, FiniteSets, TLC

CONSTANTS Conns,        \* the connections, each with its thread
          Hosts,
          NoHost,
          MaxLines      \* bound on the header lines of a request

\* What a browser sends: the form of the uri, the host, the number of lines
\* between the request line and the empty line, and whether the latter comes.
Requests ==
  [uri : {"path", "port", "bare"}, host : Hosts, lines : 0..MaxLines, complete : BOOLEAN]

VARIABLES up,           \* the process is alive
          request,      \* external: what the browser of each connection sends
          pc,           \* where the thread of each connection is
          toForward,    \* header lines not yet forwarded
          hostname,     \* what parse_uri() found
          hostent,      \* external: the static result of gethostbyname()
          between,      \* the hosts others have resolved since each thread did
          client,       \* the host client_fd is connected to
          fds,          \* the open descriptors, as <<connection, end>>
          log_mutex,    \* the semaphore
          log_file,     \* the entries written
          blocks        \* the connections whose vargp is allocated

vars == <<up, request, pc, toForward, hostname, hostent, between, client, fds,
          log_mutex, log_file, blocks>>

Init ==
  /\ up = TRUE /\ request \in [Conns -> Requests]
  /\ pc = [c \in Conns |-> "none"] /\ toForward = [c \in Conns |-> 0]
  /\ hostname = [c \in Conns |-> NoHost] /\ hostent = NoHost
  /\ between = [c \in Conns |-> {}]
  /\ client = [c \in Conns |-> NoHost] /\ fds = {}
  /\ log_mutex = 1 /\ log_file = <<>> /\ blocks = {}

At(c, place) == up /\ pc[c] = place
Goto(c, place) == pc' = [pc EXCEPT ![c] = place]

\* main(): Accept() and Pthread_create().
Accept(c) ==
  /\ At(c, "none") /\ Goto(c, "read")
  /\ blocks' = blocks \cup {c} /\ fds' = fds \cup {<<c, "browser">>}
  /\ UNCHANGED <<up, request, toForward, hostname, hostent, between, client, log_mutex, log_file>>

\* A wrapper whose call fails, a write to a connection that is closed, or
\* parse_uri() of a uri without any of " :/" after the host: the process ends.
Down(c) ==
  /\ up /\ pc[c] # "done"
  /\ up' = FALSE /\ fds' = {} /\ blocks' = {}
  /\ UNCHANGED <<request, pc, toForward, hostname, hostent, between, client, log_mutex, log_file>>

\* parse_uri(), when it returns.
parse_uri(c) == hostname' = [hostname EXCEPT ![c] = request[c].host]

ReadRequestLine(c) ==
  /\ At(c, "read") /\ request[c].uri # "bare"
  /\ Goto(c, "socket")
  /\ parse_uri(c)
  /\ toForward' = [toForward EXCEPT ![c] = request[c].lines]
  /\ UNCHANGED <<up, request, hostent, between, client, fds, log_mutex, log_file, blocks>>

\* open_clientfd() makes its socket before it asks for the host ...
OpenSocket(c) ==
  /\ At(c, "socket") /\ Goto(c, "resolve")
  /\ fds' = fds \cup {<<c, "server">>}
  /\ UNCHANGED <<up, request, toForward, hostname, hostent, between, client, log_mutex, log_file, blocks>>

\* A host is resolved for c: the others whose result waits to be read find this one.
Resolved(c) ==
  between' = [d \in Conns |-> IF d = c THEN {}
                             ELSE IF pc[d] = "connect" THEN between[d] \cup {hostname[c]}
                             ELSE between[d]]

\* Mutant: the answer to the last question is used again.
ResolveCached(c) ==
  /\ At(c, "resolve") /\ Goto(c, "connect")
  /\ hostent' = IF hostent = NoHost THEN hostname[c] ELSE hostent
  /\ Resolved(c)
  /\ UNCHANGED <<up, request, toForward, hostname, client, fds, log_mutex, log_file, blocks>>

\* ... gethostbyname() writes its static result ...
Resolve(c) ==
  /\ At(c, "resolve") /\ Goto(c, "connect")
  /\ hostent' = hostname[c] /\ Resolved(c)
  /\ UNCHANGED <<up, request, toForward, hostname, client, fds, log_mutex, log_file, blocks>>

\* ... which is read when it may be another's.
Connect(c) ==
  /\ At(c, "connect") /\ Goto(c, "headers")
  /\ client' = [client EXCEPT ![c] = hostent]
  /\ UNCHANGED <<up, request, toForward, hostname, hostent, between, fds, log_mutex, log_file, blocks>>

ForwardHeader(c) ==
  /\ At(c, "headers") /\ toForward[c] > 0
  /\ toForward' = [toForward EXCEPT ![c] = @ - 1]
  /\ UNCHANGED <<up, request, pc, hostname, hostent, between, client, fds, log_mutex, log_file, blocks>>

\* The empty line ends the request.  If the browser closes before it, the last
\* line stays in the buffer and is compared for ever: the loop never ends.
EndHeaders(c) ==
  /\ At(c, "headers") /\ toForward[c] = 0 /\ request[c].complete
  /\ Goto(c, "reply")
  /\ UNCHANGED <<up, request, toForward, hostname, hostent, between, client, fds, log_mutex, log_file, blocks>>

Spin(c) ==
  /\ At(c, "headers") /\ toForward[c] = 0 /\ ~request[c].complete
  /\ UNCHANGED vars

\* rcvd_forward_reply() until the server closes.
ForwardReply(c) ==
  /\ At(c, "reply") /\ Goto(c, "log")
  /\ UNCHANGED <<up, request, toForward, hostname, hostent, between, client, fds, log_mutex, log_file, blocks>>

\* P(&log_mutex)
LockLog(c) ==
  /\ At(c, "log") /\ log_mutex > 0 /\ Goto(c, "write")
  /\ log_mutex' = log_mutex - 1
  /\ UNCHANGED <<up, request, toForward, hostname, hostent, between, client, fds, log_file, blocks>>

\* fprintf() and fflush()
WriteLog(c) ==
  /\ At(c, "write") /\ Goto(c, "unlock")
  /\ log_file' = Append(log_file, c)
  /\ UNCHANGED <<up, request, toForward, hostname, hostent, between, client, fds, log_mutex, blocks>>

\* Mutant: the semaphore is kept.
UnlockForgotten(c) ==
  /\ At(c, "unlock") /\ Goto(c, "close")
  /\ UNCHANGED <<up, request, toForward, hostname, hostent, between, client, fds, log_mutex, log_file, blocks>>

\* V(&log_mutex)
UnlockLog(c) ==
  /\ At(c, "unlock") /\ Goto(c, "close")
  /\ log_mutex' = log_mutex + 1
  /\ UNCHANGED <<up, request, toForward, hostname, hostent, between, client, fds, log_file, blocks>>

\* Close() of both descriptors and Free(); the thread is detached and ends.
CloseAll(c) ==
  /\ At(c, "close") /\ Goto(c, "done")
  /\ fds' = fds \ {<<c, "browser">>, <<c, "server">>} /\ blocks' = blocks \ {c}
  /\ UNCHANGED <<up, request, toForward, hostname, hostent, between, client, log_mutex, log_file>>

Step(c) ==
  \/ ReadRequestLine(c) \/ OpenSocket(c) \/ Resolve(c) \/ Connect(c) \/ ForwardHeader(c)
  \/ EndHeaders(c) \/ Spin(c) \/ ForwardReply(c) \/ LockLog(c) \/ WriteLog(c) \/ UnlockLog(c) \/ CloseAll(c)

Next == \E c \in Conns : Accept(c) \/ Step(c) \/ Down(c)

\* The system runs every thread that can run; web servers answer in the end.
Spec == Init /\ [][Next]_vars /\ \A c \in Conns : WF_vars(Step(c))

-------------------------------------------------------------------------------
(* Properties *)

\* The log has one entry for each thread that is past its write, never two
\* threads are in the section of log_mutex, and the section is free when none
\* is.
LogIsExact ==
  /\ ToSet(log_file) = {c \in Conns : pc[c] \in {"unlock", "close", "done"}}
  /\ Len(log_file) = Cardinality(ToSet(log_file))
  /\ log_mutex = 1 - Cardinality({c \in Conns : pc[c] \in {"write", "unlock"}})
  /\ log_mutex \in {0, 1}

\* As long as the process lives, it holds two descriptors for each thread that
\* has opened a socket to its server and one for each that has not yet, and none
\* for the others.
NoDescriptorLeaks ==
  up => /\ fds = {<<c, "browser">> : c \in {d \in Conns : pc[d] \notin {"none", "done"}}}
            \cup {<<c, "server">> : c \in {d \in Conns : pc[d] \in
                    {"resolve", "connect", "headers", "reply", "log", "write", "unlock", "close"}}}
        /\ blocks = {c \in Conns : pc[c] \notin {"none", "done"}}

\* A request may go to a host it does not name, but then to one that another
\* thread has resolved after the request's own was, and before the result was read.
MisdirectedByOther ==
  \A c \in Conns : client[c] \in {NoHost, hostname[c]} \cup between[c]

\* A request that is complete and well formed is served, unless the process
\* ends: no thread waits for ever for the log or for another thread.
Served ==
  \A c \in Conns : (pc[c] = "read" /\ request[c].complete /\ request[c].uri # "bare")
                     ~> (pc[c] = "done" \/ ~up)
===============================================================================
