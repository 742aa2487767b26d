------------------------------ MODULE MCServices ------------------------------
(***************************************************************************)
(* The components around the servers and kernels that share nothing with   *)
(* each other: the proxy and the library it reads with, both directions of *)
(* a session of the game's server, the judge, the frames of SRT segments,  *)
(* and what the kernels load, print and read from the keyboard.            *)
(* As in MCStructures a behaviour begins with the choice of one of them.   *)
(***************************************************************************)
EXTENDS Integers, Sequences, FiniteSets, TLC

VARIABLES
  part,         \* the component
  up, request, pc, toForward, hostname, hostent, between, client, fds,
  log_mutex, log_file, blocks,                                  \* Proxy
  stream, rio_buf, call, taken, arrived, result,                \* Rio
  sent, sock, left, readbuffer, open, shutBy, handled,                  \* GameSession
  owner, coming, commands, requests, responses, writebuffer,
  EPOLLOUT, got, accepted,
  segs, wire, state, buf, received,                             \* SegWire
  users_, gesture_, gain, count, told, regular, cast,           \* Judge
  item, console, cursorpos, lately, buffer, returned,           \* Console
  held, capslock, half, codes, modifiers, last_escape, ch, meant,  \* its keyboard
  loader, magic, ph, header, memory, owned, outcome,            \* Loader
  pstate, waitingQ, exitStatus, regs, current, cpu,             \* MiniprocOS
  app, local, counter, lines                                    \* ProcApps

-------------------------------------------------------------------------------
(* The components on their small instances *)

Web   == INSTANCE Proxy WITH Conns <- {1, 2}, Hosts <- {"h1", "h2"}, NoHost <- "none", MaxLines <- 1
Input == INSTANCE Rio WITH Bytes <- {"c", "nl"}, Newline <- "nl", MaxStream <- 3, MaxAsked <- 3,
           RIO_BUFSIZE <- 2
Game == INSTANCE GameSession WITH CommandSizes <- {3, 4, 7}, LenSize <- 2, ReadSize <- 6, MaxMessages <- 2,
          Clients <- {1, 2}, HeaderSize <- 1, TextSizes <- {1}, UnknownSize <- 1, WriteSize <- 3,
          MaxCommands <- 3
Frames == INSTANCE SegWire WITH SegSize <- 3, MaxSegs <- 2
Round == INSTANCE Judge WITH Players <- {1, 2, 3}, MaxCasts <- 3
Term == INSTANCE Console WITH IntBits <- 4, LongBits <- 9, Widths <- {-1, 2, 4},
            Precisions <- {-1, 0, 1, 3}, TextLengths <- {0, 1, 3}, Rows <- 2, Columns <- 2,
            Chars <- {"a", "b"}, Blank <- " ", Newline <- "nl", MaxText <- 2, BufferSize <- 2,
            MaxCodes <- 2, MaxHeld <- 2

\* Segments at aligned and other addresses, with and without a part to clear, and
\* one that a loader of programs leaves out.
Segments ==
  {[p_offset |-> o, p_va |-> va, p_filesz |-> size, p_memsz |-> size + bss, load |-> TRUE] :
     o \in {1, 2}, va \in {0, 1, 2, 4, 5}, size \in {1, 3}, bss \in {0, 2}}
  \cup {[p_offset |-> 2, p_va |-> 4, p_filesz |-> 2, p_memsz |-> 2, load |-> FALSE]}
Image == INSTANCE Loader WITH n <- header, result <- outcome, SECTORSIZE <- 2, PAGESIZE <- 4,
           MemorySize <- 16

\* The programs of MiniprocOS at the sizes of the sources, but for the 1025
\* processes of p-procos-app2.  Stacks are left to MiniprocOS.
Programs == INSTANCE ProcApps WITH NPROCS <- 16, StackSize <- 0, Yields <- 20, Total <- 100,
  Statuses <- 0..100 \cup {122, 345, 678, 1000},
  Syscalls <- {"fork", "thread", "yield", "exit", "wait"}

-------------------------------------------------------------------------------
(* The system *)

Parts == {"web", "input", "reader", "writer", "frames", "game", "field", "screen", "buffer",
          "keys", "image", "programs"}

\* The components with many initial states have one when they are not chosen.
Init ==
  /\ part \in Parts
  /\ Web!Init /\ (part = "web" \/ \A c \in {1, 2} : request[c] = CHOOSE q \in Web!Requests : TRUE)
  /\ Input!Init /\ (part = "input" \/ arrived = <<>>)
  /\ Game!ReadInit /\ Game!WriteInit /\ Round!Init /\ Term!KeysInit
  /\ Term!ScreenInit /\ Term!BufferInit
  /\ IF part = "frames" THEN Frames!Init
     ELSE segs = <<>> /\ wire = <<>> /\ state = 0 /\ buf = <<>> /\ received = <<>>
  /\ IF part = "field" THEN Term!FieldInit ELSE item = <<>>
  /\ IF part = "image" THEN Image!Init
     ELSE /\ loader = "boot" /\ magic = FALSE /\ ph = <<>> /\ header = 1 /\ memory = <<>>
          /\ owned = {} /\ outcome = "refused"
  /\ Programs!AppInit /\ (part = "programs" \/ app = "app")

\* The step is one of p, and all else stays.
Only(p) ==
  /\ part = p
  /\ UNCHANGED <<part, item>>
  /\ IF p = "web" THEN TRUE
     ELSE UNCHANGED <<up, request, pc, toForward, hostname, hostent, between, client, fds, log_mutex,
                      log_file, blocks>>
  /\ IF p = "input" THEN TRUE ELSE UNCHANGED <<stream, rio_buf, call, taken, arrived, result>>
  /\ IF p = "reader" THEN TRUE ELSE UNCHANGED <<sent, sock, left, readbuffer, open, shutBy, handled>>
  /\ IF p = "writer" THEN TRUE
     ELSE UNCHANGED <<owner, coming, commands, requests, responses, writebuffer, EPOLLOUT, got,
                      accepted>>
  /\ IF p = "frames" THEN TRUE ELSE UNCHANGED <<segs, wire, state, buf, received>>
  /\ IF p = "game" THEN TRUE ELSE UNCHANGED <<users_, gesture_, gain, count, told, regular, cast>>
  /\ IF p = "screen" THEN TRUE ELSE UNCHANGED <<console, cursorpos, lately>>
  /\ IF p = "buffer" THEN TRUE ELSE UNCHANGED <<buffer, returned>>
  /\ IF p = "keys" THEN TRUE
     ELSE UNCHANGED <<held, capslock, half, codes, modifiers, last_escape, ch, meant>>
  /\ IF p = "image" THEN TRUE
     ELSE UNCHANGED <<loader, magic, ph, header, memory, owned, outcome>>
  /\ IF p = "programs" THEN TRUE
     ELSE UNCHANGED <<pstate, waitingQ, exitStatus, regs, current, cpu, app, local, counter, lines>>

WebStep(c) == Only("web") /\ Web!Step(c)
do_read  == Only("reader") /\ Game!do_read
do_write == Only("writer") /\ Game!do_write
ProgramStep == Only("programs") /\ Programs!AppNext

Next ==
  \/ Only("web") /\ Web!Next
  \/ Only("input") /\ Input!Next
  \/ Only("reader") /\ Game!ReadNext
  \/ Only("writer") /\ Game!WriteNext
  \/ Only("frames") /\ Frames!Next
  \/ Only("game") /\ Round!Next
  \/ Only("screen") /\ Term!ScreenNext
  \/ Only("buffer") /\ Term!BufferNext
  \/ Only("keys") /\ Term!KeysNext
  \/ Only("image") /\ Image!Next
  \/ Only("programs") /\ Programs!AppNext

vars ==
  <<part, up, request, pc, toForward, hostname, hostent, between, client, fds, log_mutex, log_file, blocks,
    stream, rio_buf, call, taken, arrived, result, sent, sock, left, readbuffer, open, shutBy, handled,
    owner, coming, commands, requests, responses, writebuffer, EPOLLOUT, got, accepted,
    segs, wire, state, buf, received, users_, gesture_, gain, count, told, regular, cast,
    item, console, cursorpos, lately, buffer, returned,
    held, capslock, half, codes, modifiers, last_escape, ch, meant,
    loader, magic, ph, header, memory, owned, outcome,
    pstate, waitingQ, exitStatus, regs, current, cpu, app, local, counter, lines>>

\* The system runs every thread of the proxy that can run, epoll reports a session
\* that can be read or written as long as it can, and a program does not stop
\* between two system calls.
Spec == /\ Init /\ [][Next]_vars
        /\ \A c \in {1, 2} : WF_vars(WebStep(c))
        /\ WF_vars(do_read) /\ WF_vars(do_write) /\ WF_vars(ProgramStep)

-------------------------------------------------------------------------------
(* Properties *)

\* However streams are cut, buffers fill and calls fail, what comes out is what
\* went in, in order: bytes through the rio functions, commands and responses
\* through a session, segments between their marks.
BytesArriveInOrder ==
  /\ [](part = "input" => Input!NothingLost /\ Input!ShortOnlyAtEnd)
  /\ Input!LineLengths
  /\ [](part = "reader" => Game!CommandsInOrder /\ Game!OnlyLongOnesShut)
  /\ [](part = "writer" => Game!ResponsesAreWhole /\ Game!ForeignComeFirst)
  /\ [](part = "frames" => Frames!BufferSuffices /\ Frames!CleanOnesArrive)

\* The threads of the proxy write each request into the log once, give all they
\* hold back, and serve a wrong host only when another thread has resolved it since;
\* a round of the game is judged by its rules, and fairly if all have cast once;
\* what the programs of MiniprocOS check of its system calls holds.
ServersAreExact ==
  /\ [](part = "web" => Web!LogIsExact /\ Web!NoDescriptorLeaks /\ Web!MisdirectedByOther)
  /\ [](part = "game" => Round!VerdictIsConsistent)
  /\ Round!RegularIsFair
  /\ [](part = "programs" => Programs!ChecksPass /\ Programs!AllAreCounted /\ Programs!StatusIsPrinted)

\* What the kernels print is as wide as asked and reads back, is found behind the
\* cursor and ends in a Nul; memory and strings are copied and compared right;
\* what they read from the keyboard is what was typed; what they load is in its
\* place: each with the exceptions its component states.
DevicesAreFaithful ==
  /\ [](part = "field" => Term!FieldIsFilled /\ Term!NumbersReadBack /\ Term!PrintersAgree)
  /\ [](part = "screen" => Term!LatelyIsBehindCursor)
  /\ Term!BufferIsEnded
  /\ Term!CopiesAreExact /\ Term!StringsAreOrdered
  /\ [](part = "keys" => Term!CharactersAreMeant /\ Term!ModifiersFollow)
  /\ [](part = "image" => Image!PlacedIfAligned /\ Image!AllPlacedOnEntry /\ Image!PagesAreOwn)

\* A complete request is served, a command is handled when more arrives and a
\* response is sent, unless the process or the connection ends; each program of
\* MiniprocOS comes to its end.
AllAreServed ==
  /\ part = "web" => Web!Served
  /\ part = "reader" => Game!Unblocked
  /\ part = "writer" => Game!AllIsSent
  /\ part = "programs" => Programs!ComesToEnd
===============================================================================
