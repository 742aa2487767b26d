-------------------------------- MODULE SegWire --------------------------------
(***************************************************************************)
(* How segments go over the TCP connection under SRT, byte by byte:        *)
(* sendseg() writes "!&", the segment and "!#"; recvseg() looks for these  *)
(* marks.  Nothing in the segment is escaped, so that a segment with "!#"  *)
(* in it ends early, and what is behind it may be taken for another start. *)
(***************************************************************************)
EXTENDS Integers, Sequences, SequencesExt, TLC

CONSTANTS SegSize,      \* sizeof(seg_t)
          MaxSegs       \* the number of segments sent

\* Any other byte does in each state what one of these does.
Chars == {"!", "&", "#"}

VARIABLES segs,         \* the segments sent
          wire,         \* the bytes on their way
          state, buf,   \* of recvseg(); idx is the length of buf
          received      \* history: what recvseg() returned or lost, [bytes, lost]

vars == <<segs, wire, state, buf, received>>

Framed(seg) == <<"!", "&">> \o seg \o <<"!", "#">>

\* sendseg() of each segment.
Init ==
  /\ segs \in [1..MaxSegs -> [1..SegSize -> Chars]]
  /\ wire = FlattenSeq([i \in 1..MaxSegs |-> Framed(segs[i])])
  /\ state = 0 /\ buf = <<>> /\ received = <<>>

\* The state after the byte c in state 3.
AfterBang(c) == IF c = "#" THEN 0 ELSE IF c = "!" THEN 3 ELSE 2

\* The state after c.
After(c) ==
  CASE state = 0 -> IF c = "!" THEN 1 ELSE 0
    [] state = 1 -> IF c = "&" THEN 2 ELSE 0
    [] state = 2 -> IF c = "!" THEN 3 ELSE 2
    [] state = 3 -> AfterBang(c)

Restarted(b) == <<>>

\* One round of the loop.  A whole segment is lost at random; otherwise the
\* first SegSize bytes of buf are copied, of which those behind idx are left
\* from before.
recvseg ==
  /\ wire # <<>>
  /\ wire' = Tail(wire)
  /\ LET c == Head(wire) IN
     /\ state' = After(c)
     /\ IF state \in {2, 3} /\ ~(state = 3 /\ c = "#")
        THEN buf' = Append(buf, c) /\ UNCHANGED received
        ELSE IF state = 3
        THEN /\ buf' = Restarted(buf)
             /\ \E lost \in BOOLEAN :
                  received' = Append(received, [bytes |-> Append(buf, c), lost |-> lost])
        ELSE UNCHANGED <<buf, received>>
  /\ UNCHANGED segs

Next == recvseg

-------------------------------------------------------------------------------
(* Properties *)

\* buf, of sizeof(seg_t) + 2 bytes, has room for a segment and the end mark, of
\* which the last byte is stored as well: idx never runs out of it, even when a
\* start is seen in the middle of a segment.
BufferSuffices ==
  /\ Len(buf) <= SegSize + 2
  /\ \A i \in DOMAIN received : Len(received[i].bytes) <= SegSize + 2

Clean(seg) == \A i \in 1..(SegSize - 1) : SubSeq(seg, i, i + 1) # <<"!", "#">>

\* A segment without an end mark inside is received, or lost at random, exactly
\* as it was sent, and in its place, whatever the segments before it held.
CleanOnesArrive ==
  wire = <<>> =>
    LET whole == SelectSeq(received, LAMBDA r : Len(r.bytes) = SegSize + 2)
        clean == SelectSeq(segs, Clean)
    IN [i \in DOMAIN whole |-> SubSeq(whole[i].bytes, 1, SegSize)] = clean
===============================================================================
