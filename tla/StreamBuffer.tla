---------------------------- MODULE StreamBuffer ----------------------------
(***************************************************************************)
(* Stream buffers and message buffers (Source/stream_buffer.c): one writer *)
(* and one reader over a ring of bytes, each a task or an interrupt.       *)
(*                                                                         *)
(* The two share xHead and xTail without a lock: the writer moves only the *)
(* one, the reader only the other, after the copy.  A copy is therefore    *)
(* one step with the store that ends it.  A task's call is otherwise cut   *)
(* wherever the other side can come in: between critical sections and      *)
(* between two reads of what the other side writes.  sbSEND_COMPLETED and  *)
(* sbRECEIVE_COMPLETED run with the scheduler suspended, where an          *)
(* interrupt that is the other side has no task waiting.                   *)
(***************************************************************************)
EXTENDS Integers, Sequences, TaskNotify

CONSTANTS xLength,        \* size of the ring; it holds one byte less
          LengthBytes,    \* sizeof( configMESSAGE_BUFFER_LENGTH_TYPE )
          Payloads,       \* what the writer sends: sequences of bytes
          ReadSizes,      \* how many bytes a receive asks for
          TriggerLevels,  \* what xStreamBufferSetTriggerLevel is called with
          LevelWhileWaiting,  \* whether it is also called while a reader waits
          Waits           \* block times in use: "none", "finite", "forever"

ASSUME StreamBufferAssumption ==
    /\ xLength \in Nat \ {0, 1} /\ LengthBytes \in Nat \ {0}
    /\ Payloads \subseteq Seq(Nat \ {0}) /\ <<>> \notin Payloads
    /\ ReadSizes \subseteq Nat \ {0}
    /\ TriggerLevels \subseteq Nat /\ LevelWhileWaiting \in BOOLEAN
    /\ Waits \subseteq {"none", "finite", "forever"}

VARIABLES
    xHead, xTail, pucBuffer,                \* the ring
    xTriggerLevelBytes,
    isMessageBuffer,                        \* sbFLAGS_IS_MESSAGE_BUFFER
    xTaskWaitingToSend, xTaskWaitingToReceive,  \* whether the task is noted there
    isrs,                                   \* which of the two sides are interrupts
    pc,                                     \* where each side is in its call
    xTicksToWait, late,                     \* block times, and whose are over
    pvTxData, xSpace,                       \* the writer's call
    xBufferLengthBytes, xBytesAvailable, pvRxData   \* the reader's call

ring   == <<xHead, xTail, pucBuffer>>
setup  == <<xTriggerLevelBytes, isMessageBuffer, isrs>>
noted  == <<xTaskWaitingToSend, xTaskWaitingToReceive>>
times  == <<xTicksToWait, late>>
txCall == <<pvTxData, xSpace>>
rxCall == <<xBufferLengthBytes, xBytesAvailable, pvRxData>>
vars   == <<ring, setup, noted, notifyVars, pc, times, txCall, rxCall>>

Sides == {"writer", "reader"}
Steps == {"out", "check", "wait", "woken", "clear", "measure", "copy", "completed", "notify"}

Min2(a, b) == IF a < b THEN a ELSE b

-----------------------------------------------------------------------------
(***************************************************************************)
(* The ring                                                                *)
(***************************************************************************)

Wrapped(n) == IF n >= xLength THEN n - xLength ELSE n

\* prvBytesInBuffer
BytesInBuffer == Wrapped(xLength + xHead - xTail)

\* xStreamBufferSpacesAvailable; its loop repeats until xTail held still.
SpacesAvailable == Wrapped(xLength + xTail - xHead - 1)

\* sbBYTES_TO_STORE_MESSAGE_LENGTH, of a message buffer
FrameBytes == IF isMessageBuffer THEN LengthBytes ELSE 0

\* What the calls compare with what is in the buffer.
TriggerReached == BytesInBuffer >= xTriggerLevelBytes
NothingToRead  == BytesInBuffer <= FrameBytes

\* prvWriteBytesToBuffer and prvReadBytesFromBuffer copy in two parts if they
\* reach the end of the ring.
RingWith(bytes) ==
    [i \in 0 .. xLength - 1 |->
        LET k == IF i >= xHead THEN i - xHead ELSE i + xLength - xHead
        IN  IF k < Len(bytes) THEN bytes[k + 1] ELSE pucBuffer[i]]
BytesFrom(index, count) == [k \in 1 .. count |-> pucBuffer[Wrapped(index + k - 1)]]

\* A message is preceded by its length, least significant byte first.
Frame(data) == [i \in 1 .. LengthBytes |-> IF i = 1 THEN Len(data) ELSE 0] \o data

\* The space that xStreamBufferSend asks for.
RequiredSpace(data) ==
    IF isMessageBuffer THEN Len(data) + LengthBytes ELSE Min2(Len(data), xLength - 1)

\* Mutant: a message of which a part fits is written in part.
ToWriteInPart(data, space) ==
    IF isMessageBuffer THEN SubSeq(Frame(data), 1, Min2(Len(data) + LengthBytes, space))
    ELSE SubSeq(data, 1, Min2(Len(data), space))

\* prvWriteMessageToBuffer: what it writes, given that much space.
ToWrite(data, space) ==
    IF isMessageBuffer THEN IF space >= Len(data) + LengthBytes THEN Frame(data) ELSE <<>>
    ELSE SubSeq(data, 1, Min2(Len(data), space))

Write(bytes) ==
    /\ pucBuffer' = RingWith(bytes)
    /\ xHead' = Wrapped(xHead + Len(bytes))
    /\ UNCHANGED xTail

\* prvReadMessageFromBuffer: how many bytes it hands over.  A message longer than
\* the reader's memory stays in the buffer.
ToRead(wanted, available) ==
    IF isMessageBuffer
    THEN IF pucBuffer[xTail] > wanted THEN 0 ELSE Min2(pucBuffer[xTail], available - LengthBytes)
    ELSE Min2(wanted, available)

\* Bytes that were read are 0 from then on, which no payload has: nobody is to
\* read them again, and the code leaves them where they are.
Read(count) ==
    LET gone == FrameBytes + count IN
    /\ pvRxData' = BytesFrom(Wrapped(xTail + FrameBytes), count)
    /\ xTail' = Wrapped(xTail + gone)
    /\ pucBuffer' = [i \in 0 .. xLength - 1 |->
                        IF Wrapped(i + xLength - xTail) < gone THEN 0 ELSE pucBuffer[i]]
    /\ UNCHANGED xHead

-----------------------------------------------------------------------------
(***************************************************************************)
(* Waiting for the other side                                              *)
(***************************************************************************)

At(s, step) == s \notin isrs /\ pc[s] = step
Go(s, step) == pc' = [pc EXCEPT ![s] = step]

\* sbSEND_COMPLETED, sbSEND_COMPLETE_FROM_ISR
SendCompleted ==
    IF xTaskWaitingToReceive
    THEN Notify("reader") /\ xTaskWaitingToReceive' = FALSE
    ELSE UNCHANGED <<notifyVars, xTaskWaitingToReceive>>

\* sbRECEIVE_COMPLETED, sbRECEIVE_COMPLETED_FROM_ISR
ReceiveCompleted ==
    IF xTaskWaitingToSend
    THEN Notify("writer") /\ xTaskWaitingToSend' = FALSE
    ELSE UNCHANGED <<notifyVars, xTaskWaitingToSend>>

\* The two critical sections of xTaskNotifyWait.
Wait(s) ==
    /\ At(s, "wait") /\ WaitForNotification(s) /\ Go(s, "woken")
    /\ UNCHANGED <<ring, setup, noted, times, txCall, rxCall>>

Woken(s) ==
    /\ At(s, "woken") /\ EndWait(s) /\ Go(s, "clear")
    /\ UNCHANGED <<ring, setup, noted, times, txCall, rxCall>>

\* The block time of a call ends, in the Blocked state or not.  If a wait begins
\* after that it still lasts the ticks that were left when they were counted.
Expire(s) ==
    /\ s \notin isrs /\ pc[s] # "out" /\ xTicksToWait[s] = "finite"
    /\ s \in blocked \/ s \notin late
    /\ late' = late \cup {s}
    /\ WakeUp(s)
    /\ UNCHANGED <<ring, setup, noted, pc, xTicksToWait, txCall, rxCall>>

Return(s) == /\ Go(s, "out")
             /\ late' = late \ {s}
             /\ xTicksToWait' = [xTicksToWait EXCEPT ![s] = "none"]

SendReturn    == Return("writer") /\ pvTxData' = <<>> /\ xSpace' = 0
ReceiveReturn == /\ Return("reader")
                 /\ xBufferLengthBytes' = 0 /\ xBytesAvailable' = 0 /\ pvRxData' = <<>>

-----------------------------------------------------------------------------
(***************************************************************************)
(* xStreamBufferSend                                                       *)
(***************************************************************************)

\* A message that could not fit an empty buffer is not waited for.
Send(data, wait) ==
    LET w == IF isMessageBuffer /\ RequiredSpace(data) > xLength - 1 THEN "none" ELSE wait IN
    /\ At("writer", "out")
    /\ pvTxData' = data
    /\ xTicksToWait' = [xTicksToWait EXCEPT !["writer"] = w]
    /\ Go("writer", IF w = "none" THEN "measure" ELSE "check")
    /\ UNCHANGED <<ring, setup, noted, notifyVars, late, xSpace, rxCall>>

\* Critical section: look for space, or note that the task is going to wait.
SendCheck ==
    /\ At("writer", "check")
    /\ xSpace' = SpacesAvailable
    /\ IF xSpace' < RequiredSpace(pvTxData)
       THEN /\ xTaskWaitingToSend' = TRUE
            /\ ucNotifyState' = ClearedState("writer")
            /\ Go("writer", "wait")
       ELSE Go("writer", "copy") /\ UNCHANGED <<xTaskWaitingToSend, ucNotifyState>>
    /\ UNCHANGED <<ring, setup, xTaskWaitingToReceive, blocked, times, pvTxData, rxCall>>

\* After the wait, with no protection; then xTaskCheckForTimeOut.
SendClear ==
    /\ At("writer", "clear")
    /\ xTaskWaitingToSend' = FALSE
    /\ Go("writer", IF "writer" \in late THEN "measure" ELSE "check")
    /\ UNCHANGED <<ring, setup, xTaskWaitingToReceive, notifyVars, times, txCall, rxCall>>

\* The space is read again only if there was none when it was last read.
SendMeasure ==
    /\ At("writer", "measure")
    /\ xSpace' = IF xSpace = 0 THEN SpacesAvailable ELSE xSpace
    /\ Go("writer", "copy")
    /\ UNCHANGED <<ring, setup, noted, notifyVars, times, pvTxData, rxCall>>

SendCopy ==
    LET bytes == ToWrite(pvTxData, xSpace) IN
    /\ At("writer", "copy")
    /\ IF bytes = <<>> THEN SendReturn /\ UNCHANGED ring
       ELSE Write(bytes) /\ Go("writer", "completed") /\ UNCHANGED <<times, txCall>>
    /\ UNCHANGED <<setup, noted, notifyVars, rxCall>>

\* The bytes are counted before the scheduler is suspended for SendCompleted.
SendEnough ==
    /\ At("writer", "completed") /\ TriggerReached
    /\ Go("writer", "notify")
    /\ UNCHANGED <<ring, setup, noted, notifyVars, times, txCall, rxCall>>

SendTooLittle ==
    /\ At("writer", "completed") /\ ~TriggerReached
    /\ SendReturn
    /\ UNCHANGED <<ring, setup, noted, notifyVars, rxCall>>

SendNotify ==
    /\ At("writer", "notify") /\ SendCompleted /\ SendReturn
    /\ UNCHANGED <<ring, setup, xTaskWaitingToSend, rxCall>>

\* Mutant: the bytes are counted before the write.
SendFromISRCountsFirst(data) ==
    LET bytes == ToWrite(data, SpacesAvailable) IN
    /\ "writer" \in isrs
    /\ pvTxData' = data
    /\ IF bytes = <<>> THEN UNCHANGED <<ring, noted, notifyVars>>
       ELSE /\ Write(bytes)
            /\ IF TriggerReached THEN SendCompleted
               ELSE UNCHANGED <<notifyVars, xTaskWaitingToReceive>>
            /\ UNCHANGED xTaskWaitingToSend
    /\ UNCHANGED <<setup, pc, times, xSpace, rxCall>>

\* xStreamBufferSendFromISR
SendFromISR(data) ==
    LET bytes == ToWrite(data, SpacesAvailable) IN
    /\ "writer" \in isrs
    /\ pvTxData' = data
    /\ UNCHANGED <<setup, pc, times, xSpace, rxCall>>
    /\ IF bytes = <<>> THEN UNCHANGED <<ring, noted, notifyVars>>
       ELSE /\ Write(bytes)
            /\ IF TriggerReached' THEN SendCompleted
               ELSE UNCHANGED <<notifyVars, xTaskWaitingToReceive>>
            /\ UNCHANGED xTaskWaitingToSend

-----------------------------------------------------------------------------
(***************************************************************************)
(* xStreamBufferReceive                                                    *)
(***************************************************************************)

Receive(size, wait) ==
    /\ At("reader", "out")
    /\ xBufferLengthBytes' = size
    /\ xTicksToWait' = [xTicksToWait EXCEPT !["reader"] = wait]
    /\ Go("reader", IF wait = "none" THEN "measure" ELSE "check")
    /\ UNCHANGED <<ring, setup, noted, notifyVars, late, txCall, xBytesAvailable, pvRxData>>

\* Critical section: look for bytes, or note that the task is going to wait.
ReceiveCheck ==
    /\ At("reader", "check")
    /\ IF NothingToRead
       THEN /\ xTaskWaitingToReceive' = TRUE
            /\ ucNotifyState' = ClearedState("reader")
            /\ Go("reader", "wait")
            /\ UNCHANGED xBytesAvailable
       ELSE /\ xBytesAvailable' = BytesInBuffer
            /\ Go("reader", "copy")
            /\ UNCHANGED <<xTaskWaitingToReceive, ucNotifyState>>
    /\ UNCHANGED <<ring, setup, xTaskWaitingToSend, blocked, times, txCall,
                   xBufferLengthBytes, pvRxData>>

\* After the wait, with no protection; the reader waits once only.
ReceiveClear ==
    /\ At("reader", "clear")
    /\ xTaskWaitingToReceive' = FALSE
    /\ Go("reader", "measure")
    /\ UNCHANGED <<ring, setup, xTaskWaitingToSend, notifyVars, times, txCall, rxCall>>

ReceiveMeasure ==
    /\ At("reader", "measure")
    /\ xBytesAvailable' = BytesInBuffer
    /\ Go("reader", "copy")
    /\ UNCHANGED <<ring, setup, noted, notifyVars, times, txCall, xBufferLengthBytes, pvRxData>>

ReceiveCopy ==
    LET count == ToRead(xBufferLengthBytes, xBytesAvailable) IN
    /\ At("reader", "copy")
    /\ IF xBytesAvailable <= FrameBytes \/ count = 0
       THEN ReceiveReturn /\ UNCHANGED ring
       ELSE /\ Read(count) /\ Go("reader", "notify")
            /\ UNCHANGED <<times, xBufferLengthBytes, xBytesAvailable>>
    /\ UNCHANGED <<setup, noted, notifyVars, txCall>>

ReceiveNotify ==
    /\ At("reader", "notify") /\ ReceiveCompleted /\ ReceiveReturn
    /\ UNCHANGED <<ring, setup, xTaskWaitingToReceive, txCall>>

\* xStreamBufferReceiveFromISR
ReceiveFromISR(size) ==
    LET count == ToRead(size, BytesInBuffer) IN
    /\ "reader" \in isrs
    /\ ~NothingToRead /\ count # 0
    /\ Read(count) /\ ReceiveCompleted
    /\ UNCHANGED <<setup, xTaskWaitingToReceive, pc, times, txCall, xBufferLengthBytes,
                   xBytesAvailable>>

-----------------------------------------------------------------------------

\* xStreamBufferReset, by any task, fails while a task is noted as waiting.  It is
\* not called in the middle of a copy: nothing protects the copies from it.
Reset ==
    /\ ~xTaskWaitingToReceive /\ ~xTaskWaitingToSend
    /\ \A s \in Sides : pc[s] # "copy"
    /\ xHead' = 0 /\ xTail' = 0
    /\ pucBuffer' = [i \in 0 .. xLength - 1 |-> 0]
    /\ UNCHANGED <<setup, noted, notifyVars, pc, times, txCall, rxCall>>

\* xStreamBufferSetTriggerLevel, by any task.  The code lets it come while a reader
\* waits, whom it does not wake: LevelWhileWaiting says whether the application does
\* so.  The level of a message buffer is fixed.
SetTriggerLevel(n) ==
    /\ ~isMessageBuffer
    /\ xTaskWaitingToReceive => LevelWhileWaiting
    /\ n < xLength
    /\ xTriggerLevelBytes' = IF n = 0 THEN 1 ELSE n
    /\ UNCHANGED <<ring, isMessageBuffer, isrs, noted, notifyVars, pc, times, txCall, rxCall>>

Init ==
    /\ xHead = 0 /\ xTail = 0
    /\ pucBuffer = [i \in 0 .. xLength - 1 |-> 0]
    /\ xTriggerLevelBytes = 1
    /\ isMessageBuffer \in BOOLEAN /\ isrs \in SUBSET Sides
    /\ xTaskWaitingToSend = FALSE /\ xTaskWaitingToReceive = FALSE
    /\ ucNotifyState = [s \in Sides |-> "not"] /\ blocked = {}
    /\ pc = [s \in Sides |-> "out"]
    /\ xTicksToWait = [s \in Sides |-> "none"] /\ late = {}
    /\ pvTxData = <<>> /\ xSpace = 0
    /\ xBufferLengthBytes = 0 /\ xBytesAvailable = 0 /\ pvRxData = <<>>

SendSteps == SendCheck \/ SendClear \/ SendMeasure \/ SendCopy \/ SendEnough \/ SendTooLittle
             \/ SendNotify
ReceiveSteps == ReceiveCheck \/ ReceiveClear \/ ReceiveMeasure \/ ReceiveCopy \/ ReceiveNotify

Next ==
    \/ \E data \in Payloads : SendFromISR(data) \/ \E w \in Waits : Send(data, w)
    \/ \E size \in ReadSizes : ReceiveFromISR(size) \/ \E w \in Waits : Receive(size, w)
    \/ SendSteps \/ ReceiveSteps
    \/ \E s \in Sides : Wait(s) \/ Woken(s) \/ Expire(s)
    \/ \E n \in TriggerLevels : SetTriggerLevel(n)
    \/ Reset

Spec == Init /\ [][Next]_vars

-----------------------------------------------------------------------------
(***************************************************************************)
(* Properties                                                              *)
(***************************************************************************)

\* The values of the variables.
TypeOK ==
    /\ xHead \in 0 .. xLength - 1 /\ xTail \in 0 .. xLength - 1
    /\ pucBuffer \in [0 .. xLength - 1 -> Nat]
    /\ xTriggerLevelBytes \in 1 .. xLength - 1
    /\ isMessageBuffer \in BOOLEAN /\ isrs \subseteq Sides
    /\ xTaskWaitingToSend \in BOOLEAN /\ xTaskWaitingToReceive \in BOOLEAN
    /\ ucNotifyState \in [Sides -> NotifyStates] /\ blocked \subseteq Sides
    /\ pc \in [Sides -> Steps]
    /\ xTicksToWait \in [Sides -> {"none", "finite", "forever"}] /\ late \subseteq Sides
    /\ pvTxData \in Seq(Nat) /\ xSpace \in 0 .. xLength - 1
    /\ xBufferLengthBytes \in Nat /\ xBytesAvailable \in 0 .. xLength - 1
    /\ pvRxData \in Seq(Nat)

\* A reader stays blocked beside bytes it can read that reach the trigger level only
\* while the writer is on its way to notify it.  Hypothesis: ~LevelWhileWaiting, since
\* a level lowered to what is in the buffer notifies nobody.
NoLostData ==
    "reader" \in blocked /\ ~NothingToRead /\ TriggerReached =>
        pc["writer"] \in {"completed", "notify"}

\* A writer stays blocked beside the space it waits for only while the reader is
\* on its way to notify it.
NoLostSpace ==
    "writer" \in blocked /\ SpacesAvailable >= RequiredSpace(pvTxData) =>
        pc["reader"] = "notify"

\* Writer and reader do not wait for one another, unless the trigger level asks for
\* so many bytes that a send may not fit beside what is short of it.  Hypothesis:
\* ~LevelWhileWaiting, as for NoLostData.
NoStandoff ==
    Sides \subseteq blocked => RequiredSpace(pvTxData) + xTriggerLevelBytes > xLength

\* The messages in a frame after the other.
Messages(bytes) ==
    LET From[i \in 1 .. Len(bytes) + 1] ==
            IF i + LengthBytes > Len(bytes) \/ i + LengthBytes + bytes[i] - 1 > Len(bytes) THEN <<>>
            ELSE <<SubSeq(bytes, i + LengthBytes, i + LengthBytes + bytes[i] - 1)>>
                 \o From[i + LengthBytes + bytes[i]]
    IN From[1]

\* What is in the buffer, and what the last receive took out of it until it returns.
Units == LET bytes == BytesFrom(xTail, BytesInBuffer)
         IN  IF isMessageBuffer THEN Messages(bytes) ELSE bytes
UnitsRead == IF isMessageBuffer /\ pvRxData # <<>> THEN <<pvRxData>> ELSE pvRxData

\* Bytes and messages arrive complete, once, and in order.
Abstract == INSTANCE BoundedStream WITH
    oneByOne <- isMessageBuffer, contents <- Units, offered <- pvTxData, received <- UnitsRead
ImplementsStream == Abstract!Spec

\* A reader leaves the Blocked state when the buffer holds the bytes of the trigger
\* level, or when its block time ends (include/stream_buffer.h, trigger level).
WokenAtTriggerLevel ==
    [][ "reader" \in blocked \ blocked' =>
          TriggerReached' \/ "reader" \in late' ]_vars
=============================================================================
