------------------------------ MODULE GameSession ------------------------------
(***************************************************************************)
(* The two directions of a connection to the game server of                *)
(* Networks/ScissorPaperRock, which share nothing.                         *)
(*                                                                         *)
(* Reading: the stream of the socket is cut anywhere, the read buffer of   *)
(* the Session holds what has come, and one event of epoll hands at most   *)
(* one message on.  A message is its length word and the bytes it counts;  *)
(* byte i of message m is <<m, i>>.  A message that comes together with    *)
(* the one before it stays in the buffer until the socket is readable      *)
(* again: epoll knows nothing of it.                                       *)
(*                                                                         *)
(* Writing: the game process answers the commands of its FIFO in order,    *)
(* the server puts each answer into the write buffer of the Session it     *)
(* names, and epoll says when to send.  A Session is named by its address; *)
(* here all Sessions have the same one, one after the other, as a memory   *)
(* allocator that takes the last freed piece first gives it.               *)
(***************************************************************************)
EXTENDS Integers, Sequences, SequencesExt, TLC

CONSTANTS CommandSizes, \* of messages to the server, the length word included
          LenSize,      \* of the length word, 4 in the program
          ReadSize,     \* BUFFERSIZE: of the read buffer, 512 in the program
          MaxMessages,  \* bound on the messages the client sends
          Clients,      \* 1..n, in the order in which they connect
          HeaderSize,   \* of a response without a text
          TextSizes,    \* of the texts of responses
          UnknownSize,  \* of the text that answers an unknown command
          WriteSize,    \* BUFFERSIZE: of the write buffer
          MaxCommands   \* bound on the commands of all clients

VARIABLES sent,         \* the sizes of the messages the client has written
          sock,         \* the bytes on their way and in the socket
          left,         \* the client has closed the connection
          readbuffer,
          open,         \* the Session exists
          shutBy,       \* history: what has ended it, "nobody" as long as it is open
          handled       \* history: what went to the FIFO, message by message

VARIABLES owner,        \* the client of the Session at the address, or 0
          coming,       \* the client that connects next
          commands,     \* history: their number, which also names them
          requests,     \* the FIFO to the game process: [for, id]
          responses,    \* the FIFO back: [for, id, size]
          writebuffer, EPOLLOUT,
          got,          \* for each client, the bytes it has received
          accepted      \* history: for each client, the responses put into its buffer

-------------------------------------------------------------------------------
(* Reading *)

ReadInit ==
  /\ sent = <<>> /\ sock = <<>> /\ left = FALSE
  /\ readbuffer = <<>> /\ open = TRUE /\ shutBy = "nobody" /\ handled = <<>>

Message(m) == [i \in 1..sent[m] |-> <<m, i>>]

\* The client, which writes a command or a heartbeat.
sendCmd(size) ==
  /\ ~left /\ Len(sent) < MaxMessages
  /\ sent' = Append(sent, size)
  /\ sock' = sock \o [i \in 1..size |-> <<Len(sent'), i>>]
  /\ UNCHANGED <<left, readbuffer, open, shutBy, handled>>

Leave == ~left /\ left' = TRUE /\ UNCHANGED <<sent, sock, readbuffer, open, shutBy, handled>>

drainBuf(buf, bytes) == SubSeq(buf, bytes + 1, Len(buf))

\* The outcomes of readBuf(): what has arrived of the socket, least bytes of it
\* at least, is added to the buffer unless it holds enough.  A full buffer
\* leaves no room, so that recv() returns 0 as it does when the client has gone;
\* or recv() fails.
readBuf(st, bytes, least) ==
  IF bytes <= Len(st.buf) THEN {[st EXCEPT !.rc = "enough"]}
  ELSE LET room == ReadSize - Len(st.buf)
           most == IF room < Len(st.sock) THEN room ELSE Len(st.sock)
       IN {[st EXCEPT !.rc = "error"]} \cup
          IF room = 0 \/ (left /\ st.sock = <<>>) THEN {[st EXCEPT !.rc = "closed"]}
          ELSE {[buf  |-> st.buf \o SubSeq(st.sock, 1, k),
                 sock |-> SubSeq(st.sock, k + 1, Len(st.sock)),
                 rc   |-> IF bytes <= Len(st.buf) + k THEN "enough" ELSE "less"]
                : k \in (IF least < most THEN least ELSE most)..most}

\* The number in the length word, which is the size of the message if the
\* buffer starts with one.
MessageSize(buf) == IF buf[1][2] = 1 THEN sent[buf[1][1]] ELSE LenSize

Kept(st) == readbuffer' = st.buf /\ sock' = st.sock /\ UNCHANGED <<open, shutBy, handled>>
Shut(by) == open' = FALSE /\ shutBy' = by /\ readbuffer' = <<>> /\ UNCHANGED <<sock, handled>>

\* do_read() at an event EPOLLIN: the length word, then the message.
do_read ==
  /\ open /\ (sock # <<>> \/ left)
  /\ UNCHANGED <<sent, left>>
  /\ \E st \in readBuf([buf |-> readbuffer, sock |-> sock, rc |-> "none"], LenSize, 1) :
       \/ st.rc \in {"closed", "error"} /\ Shut(st.rc)
       \/ st.rc = "less" /\ Kept(st)
       \/ /\ st.rc = "enough"
          /\ \E st2 \in readBuf(st, MessageSize(st.buf), 0) :
               \/ st2.rc \in {"closed", "error"} /\ Shut(st2.rc)
               \/ st2.rc = "less" /\ Kept(st2)
               \/ /\ st2.rc = "enough"
                  /\ readbuffer' = drainBuf(st2.buf, MessageSize(st2.buf)) /\ sock' = st2.sock
                  /\ handled' = Append(handled, SubSeq(st2.buf, 1, MessageSize(st2.buf)))
                  /\ UNCHANGED <<open, shutBy>>

\* The Session ends without a read: its timer goes off, or one of a Session that
\* had its address before; send() fails; epoll reports EPOLLHUP or EPOLLERR.
ShutUnread == open /\ Shut("other") /\ UNCHANGED <<sent, left>>

ReadNext == do_read \/ ShutUnread \/ Leave \/ \E size \in CommandSizes : sendCmd(size)

-------------------------------------------------------------------------------
(* Properties *)

\* However the stream is cut, the game process gets the messages whole and in
\* order, and no byte of one is taken for a byte of the next.
CommandsInOrder ==
  /\ \A m \in DOMAIN handled : handled[m] = Message(m)
  /\ open => FlattenSeq(handled) \o readbuffer \o sock =
             FlattenSeq([m \in DOMAIN sent |-> Message(m)])

\* readBuf() takes a connection that its client has not closed for closed only when
\* the next message to be handled does not fit into the buffer.  (A Session is also
\* shut when its timer goes off and when an error is reported.)
OnlyLongOnesShut ==
  shutBy = "closed" /\ ~left => Len(handled) < Len(sent) /\ sent[Len(handled) + 1] > ReadSize

\* While the socket has bytes, the first message that is not handled yet, and
\* those that are whole in the buffer, come to be handled: a command waits no
\* longer than until the next heartbeat arrives.
Whole(m) == <<m, sent[m]>> \in ToSet(readbuffer)
Unblocked ==
  \A m \in 1..MaxMessages :
    (/\ open /\ sock # <<>> /\ m \in DOMAIN sent /\ Len(handled) < m
     /\ Whole(m) \/ m = Len(handled) + 1) ~> (Len(handled) >= m \/ ~open)

-------------------------------------------------------------------------------
(* Writing *)

WriteInit ==
  /\ owner = 0 /\ coming = 1 /\ commands = 0
  /\ requests = <<>> /\ responses = <<>>
  /\ writebuffer = <<>> /\ EPOLLOUT = FALSE
  /\ got = [c \in Clients |-> <<>>] /\ accepted = [c \in Clients |-> <<>>]

do_accecpt ==
  /\ owner = 0 /\ coming \in Clients
  /\ owner' = coming /\ coming' = coming + 1
  /\ writebuffer' = <<>> /\ EPOLLOUT' = FALSE
  /\ UNCHANGED <<commands, requests, responses, got, accepted>>

\* A command of the client has gone through do_read().
Command ==
  /\ owner # 0 /\ commands < MaxCommands
  /\ commands' = commands + 1
  /\ requests' = Append(requests, [for |-> owner, id |-> commands'])
  /\ UNCHANGED <<owner, coming, responses, writebuffer, EPOLLOUT, got, accepted>>

sendFifoMsg(r, size) == responses' = Append(responses, [for |-> r.for, id |-> r.id, size |-> size])

\* The game process.  A command of a user it does not know is not answered, and
\* nor is a cast that it accepts; other handlers answer as infoHandler() does.
infoHandler(r) ==
  \/ \E size \in TextSizes : sendFifoMsg(r, HeaderSize + size)
  \/ UNCHANGED responses
heartbeatHandler(r) == sendFifoMsg(r, HeaderSize)
unknownMsgHandler(r) == sendFifoMsg(r, HeaderSize + UnknownSize)

Answer ==
  /\ requests # <<>>
  /\ requests' = Tail(requests)
  /\ LET r == Head(requests) IN infoHandler(r) \/ heartbeatHandler(r) \/ unknownMsgHandler(r)
  /\ UNCHANGED <<owner, coming, commands, writebuffer, EPOLLOUT, got, accepted>>

BytesOf(r) == [i \in 1..r.size |-> <<r.id, i>>]

\* writeBuf(): a response for which there is no room is dropped, and nobody is
\* told.
writeBuf(r) ==
  IF r.size + Len(writebuffer) > WriteSize THEN UNCHANGED <<writebuffer, EPOLLOUT, accepted>>
  ELSE /\ writebuffer' = writebuffer \o BytesOf(r)
       /\ EPOLLOUT' = TRUE
       /\ accepted' = [accepted EXCEPT ![owner] = Append(@, r)]

NextResponse == Head(responses)

\* do_recvResp() and sendResponse(), for whoever has the Session now.  Without
\* one the response is written into memory that has been freed: it is gone.
do_recvResp ==
  /\ responses # <<>>
  /\ responses' = Tail(responses)
  /\ \/ owner = 0 /\ UNCHANGED <<writebuffer, EPOLLOUT, accepted>>
     \/ owner # 0 /\ writeBuf(NextResponse)
  /\ UNCHANGED <<owner, coming, commands, requests, got>>

\* do_write() at an event EPOLLOUT: send() takes as many bytes as it likes.
do_write ==
  /\ owner # 0 /\ EPOLLOUT
  /\ \E k \in 1..Len(writebuffer) :
       /\ got' = [got EXCEPT ![owner] = @ \o SubSeq(writebuffer, 1, k)]
       /\ writebuffer' = SubSeq(writebuffer, k + 1, Len(writebuffer))
       /\ EPOLLOUT' = (k < Len(writebuffer))
  /\ UNCHANGED <<owner, coming, commands, requests, responses, accepted>>

\* shutdownSession(): what is in the write buffer goes with the Session.
shutdownSession ==
  /\ owner # 0
  /\ owner' = 0
  /\ UNCHANGED <<coming, commands, requests, responses, writebuffer, EPOLLOUT, got, accepted>>

WriteNext == do_accecpt \/ Command \/ Answer \/ do_recvResp \/ do_write \/ shutdownSession

-------------------------------------------------------------------------------
(* Properties *)

\* A response is sent whole or not at all, and responses do not mix, though
\* send() cuts them and there may be no room: what a client has received is the
\* beginning of the responses that were accepted for it, and the rest of them
\* is in its buffer.
ResponsesAreWhole ==
  \A c \in Clients :
    LET all == FlattenSeq([i \in DOMAIN accepted[c] |-> BytesOf(accepted[c][i])])
    IN IF c = owner THEN got[c] \o writebuffer = all ELSE IsPrefix(got[c], all)

\* A client whose Session has the address of an earlier one may be sent answers
\* to the earlier client's commands, but only before the first answer to a
\* command of its own, and no answer twice.
ForeignComeFirst ==
  \A c \in Clients : \A i, j \in DOMAIN accepted[c] :
    i < j => /\ accepted[c][i].for <= accepted[c][j].for
             /\ accepted[c][i].id < accepted[c][j].id

\* What is in the write buffer is sent, unless the connection ends: the interest
\* in EPOLLOUT is never lost while there is something to send.
AllIsSent ==
  \A c \in Clients : (owner = c /\ writebuffer # <<>>) ~> (owner # c \/ writebuffer = <<>>)
===============================================================================
