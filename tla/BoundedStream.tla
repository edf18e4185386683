---------------------------- MODULE BoundedStream ----------------------------
(***************************************************************************)
(* What a stream buffer or a message buffer promises its users             *)
(* (include/stream_buffer.h, include/message_buffer.h): units arrive       *)
(* complete, once and in the order they were sent.  A unit is a byte of a  *)
(* stream, or a whole message, of which one at a time is sent or received. *)
(* The ring, the frames of the messages and the waiting tasks are all      *)
(* invisible here.  StreamBuffer.tla is shown to implement this.           *)
(***************************************************************************)
EXTENDS Naturals, Sequences

CONSTANTS Payloads   \* what a call may be given to send: sequences of bytes

VARIABLES oneByOne,  \* whether the units are messages; never changes
          contents,  \* the units in the buffer, the oldest first
          offered,   \* what the present or last call was given to send
          received   \* the units the last receive took out, until it returns

vars == <<oneByOne, contents, offered, received>>

Init == oneByOne \in BOOLEAN /\ contents = <<>> /\ offered = <<>> /\ received = <<>>

\* A call begins or ends.
Call == offered' \in Payloads \cup {<<>>} /\ UNCHANGED <<oneByOne, contents, received>>
Handed == received' = <<>> /\ UNCHANGED <<oneByOne, contents, offered>>

\* A message is sent whole; of a stream as many bytes as there is room for.  An
\* interrupt calls and sends in one step.
Send == /\ offered' \in Payloads
        /\ IF oneByOne THEN contents' = Append(contents, offered')
           ELSE \E n \in 1 .. Len(offered') : contents' = contents \o SubSeq(offered', 1, n)
        /\ UNCHANGED <<oneByOne, received>>

Receive == /\ \E n \in 1 .. Len(contents) :
                 /\ oneByOne => n = 1
                 /\ received' = SubSeq(contents, 1, n)
                 /\ contents' = SubSeq(contents, n + 1, Len(contents))
           /\ UNCHANGED <<oneByOne, offered>>

Clear == contents' = <<>> /\ UNCHANGED <<oneByOne, offered, received>>

Next == Call \/ Handed \/ Send \/ Receive \/ Clear

Spec == Init /\ [][Next]_vars
=============================================================================
