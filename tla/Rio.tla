---------------------------------- MODULE Rio ----------------------------------
(***************************************************************************)
(* The robust I/O functions of csapp.c on one descriptor, and readn() and  *)
(* writen() of the game's NetworkUtils.cpp, which are the same loops.  One *)
(* step is one read() or write() of the kernel, which may be interrupted,  *)
(* fail or move fewer bytes than were asked for, or one copy out of the    *)
(* buffer of rio_t.                                                        *)
(***************************************************************************)
EXTENDS Integers, Sequences, TLC

CONSTANTS Bytes, Newline,
          MaxStream,    \* bound on the bytes that arrive
          MaxAsked,     \* bound on the bytes of a call
          RIO_BUFSIZE   \* 8192 in the program

VARIABLES stream,       \* external: the bytes on their way, read from the left
          rio_buf,      \* the bytes from rio_bufptr on: rio_cnt is their number
          call,         \* the call that runs: [op, n, got]
          taken,        \* history: all bytes copied to callers
          arrived,      \* history: all bytes of the stream
          result        \* the last call and its return value

vars == <<stream, rio_buf, call, taken, arrived, result>>

Min(a, b) == IF a < b THEN a ELSE b
NoCall == [op |-> "none", n |-> 0, got |-> 0]

Init ==
  /\ arrived \in UNION {[1..k -> Bytes] : k \in 0..MaxStream}
  /\ stream = arrived
  /\ rio_buf = <<>> /\ taken = <<>> /\ call = NoCall
  /\ result = [call |-> NoCall, rc |-> 0, eof |-> FALSE]

\* The calls that pass the buffer by.
Readers == {"rio_readn", "readn"}
Writers == {"rio_writen", "writen"}

Call(op, n) ==
  /\ call.op = "none"
  /\ call' = [op |-> op, n |-> n, got |-> 0]
  /\ UNCHANGED <<stream, rio_buf, taken, arrived, result>>

\* Callers do not use the descriptor while the buffer of rio_t holds bytes.
Begin ==
  \E n \in 1..MaxAsked :
    \/ \E op \in Readers : rio_buf = <<>> /\ Call(op, n)
    \/ \E op \in Writers : Call(op, n)
    \/ Call("rio_readnb", n)
    \/ n > 1 /\ Call("rio_readlineb", n)

Return(c, rc, eof) == call' = NoCall /\ result' = [call |-> c, rc |-> rc, eof |-> eof]
Continue(c) == call' = c /\ UNCHANGED result

\* A read() or write() that a signal interrupts is made again.
Interrupted ==
  /\ call.op # "none" /\ (call.op \in Readers \cup Writers \/ rio_buf = <<>>)
  /\ UNCHANGED vars

Failed ==
  /\ call.op # "none"
  /\ call.op \in {"rio_readnb", "rio_readlineb"} => rio_buf = <<>>
  /\ Return(call, -1, FALSE)
  /\ UNCHANGED <<stream, rio_buf, taken, arrived>>

\* What a line of got bytes that no newline ends makes rio_readlineb() return:
\* its counter is one ahead of the bytes.
Unended(got) == IF got = 0 THEN 0 ELSE got + 1

EndOfFile ==
  /\ call.op \in Readers \cup {"rio_readnb", "rio_readlineb"}
  /\ stream = <<>> /\ rio_buf = <<>>
  /\ Return(call, IF call.op = "rio_readlineb" THEN Unended(call.got) ELSE call.got, TRUE)
  /\ UNCHANGED <<stream, rio_buf, taken, arrived>>

\* read() fills the empty buffer, with one byte at least.
Refill ==
  /\ call.op \in {"rio_readnb", "rio_readlineb"} /\ rio_buf = <<>>
  /\ \E k \in 1..Min(RIO_BUFSIZE, Len(stream)) :
       /\ rio_buf' = SubSeq(stream, 1, k)
       /\ stream' = SubSeq(stream, k + 1, Len(stream))
  /\ UNCHANGED <<call, taken, arrived, result>>

Deliver(bytes) == taken' = taken \o bytes

\* One round of a loop over the bytes asked for ends with c.
Progress(c) == IF c.got = c.n THEN Return(c, c.n, FALSE) ELSE Continue(c)

ReadDirect ==
  /\ \E k \in 1..Min(call.n - call.got, Len(stream)) :
       /\ Deliver(SubSeq(stream, 1, k))
       /\ stream' = SubSeq(stream, k + 1, Len(stream))
       /\ Progress([call EXCEPT !.got = @ + k])
  /\ UNCHANGED <<rio_buf, arrived>>

Write ==
  /\ \E k \in 1..(call.n - call.got) : Progress([call EXCEPT !.got = @ + k])
  /\ UNCHANGED <<stream, rio_buf, taken, arrived>>

rio_readn  == call.op = "rio_readn" /\ ReadDirect
readn      == call.op = "readn" /\ ReadDirect
rio_writen == call.op = "rio_writen" /\ Write
writen     == call.op = "writen" /\ Write

\* Mutant: what does not fit is dropped.
RestDropped(k) == <<>>

\* The buffer without its first k bytes.
Rest(k) == SubSeq(rio_buf, k + 1, Len(rio_buf))

CopyBuffered ==
  /\ call.op = "rio_readnb" /\ rio_buf # <<>>
  /\ LET k == Min(call.n - call.got, Len(rio_buf)) IN
     /\ Deliver(SubSeq(rio_buf, 1, k))
     /\ rio_buf' = Rest(k)
     /\ Progress([call EXCEPT !.got = @ + k])
  /\ UNCHANGED <<stream, arrived>>

\* A line takes n - 1 bytes at most, and a zero byte.
CopyLine ==
  /\ call.op = "rio_readlineb" /\ rio_buf # <<>>
  /\ Deliver(SubSeq(rio_buf, 1, 1))
  /\ rio_buf' = Rest(1)
  /\ LET c == [call EXCEPT !.got = @ + 1] IN
     IF Head(rio_buf) = Newline THEN Return(c, c.got, FALSE)
     ELSE IF c.got = c.n - 1 THEN Return(c, Unended(c.got), FALSE)
     ELSE Continue(c)
  /\ UNCHANGED <<stream, arrived>>

Next ==
  \/ Begin \/ Interrupted \/ Failed \/ EndOfFile \/ Refill
  \/ rio_readn \/ readn \/ rio_writen \/ writen \/ CopyBuffered \/ CopyLine

-------------------------------------------------------------------------------
(* Properties *)

\* No byte is lost, doubled or reordered between the stream and the callers,
\* however the kernel divides it: what a failed call took is gone, but with it
\* nothing that comes after.
NothingLost == taken \o rio_buf \o stream = arrived

\* A call that does not fail returns less than was asked for only when the
\* stream has ended.
ShortOnlyAtEnd ==
  (result.call.op \in Readers \cup Writers \cup {"rio_readnb"} /\ result.rc >= 0) =>
     result.rc = result.call.n \/ (result.eof /\ stream = <<>>)

\* When a call of rio_readlineb() returns, the bytes it stored are a line or a
\* part of it, and its value is their number if a newline ends them.  Otherwise
\* it is one more than their number, except that it is 0 at the end of the
\* stream: callers that write as many bytes send a zero byte along.
LineLengths ==
  [][LET got == result'.call.got IN
     (call.op = "rio_readlineb" /\ call'.op = "none" /\ result'.rc # -1) =>
        /\ \A i \in 1..(got - 1) : taken'[Len(taken') - got + i] # Newline
        /\ got < call.n
        /\ result'.rc = IF got = 0 THEN 0
                        ELSE IF taken'[Len(taken')] = Newline THEN got ELSE got + 1]_vars
===============================================================================
