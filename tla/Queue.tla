-------------------------------- MODULE Queue --------------------------------
(***************************************************************************)
(* One kernel queue (Source/queue.c) used by tasks and interrupt service   *)
(* routines on one core, with the parts of tasks.c its blocking calls use: *)
(* scheduler suspension, the event lists, the pending ready list, the      *)
(* block-time check and xTaskAbortDelay.                                   *)
(*                                                                         *)
(* A step is a critical section or a stretch of code that only the running *)
(* task and no interrupt can disturb; an interrupt may come between any    *)
(* two steps, another task only while the scheduler is not suspended.      *)
(* Time is abstracted to what a caller can observe of it: whether its      *)
(* block time has run out (Expire).  The tick count does not advance while *)
(* the scheduler is suspended (pended ticks are handled by xTaskResumeAll),*)
(* so a pended expiry is an Expire right after ResumeAll.                  *)
(***************************************************************************)
EXTENDS Integers, Sequences, SequencesExt, FiniteSets, ListOps

CONSTANTS Tasks,            \* the tasks that use the queue
          NoTask,           \* not a task
          Priority,         \* uxPriority of each task
          uxNumberOfTasks,  \* the tasks of the whole system, which cap the lock counts
          uxLength,         \* slots of the queue
          Items, NoItem,    \* values posted; what unwritten memory holds
          Ops,              \* Ops[t]: the calls task t may make
          Waits,            \* block times in use: "none", "finite", "forever"
          IsrOps            \* the calls interrupt handlers may make

SendOps == {"back", "front", "overwrite"}     \* xCopyPosition
ReadOps == {"receive", "peek"}
AllOps  == SendOps \cup ReadOps \cup {"reset", "abort"}

ASSUME QueueAssumption ==
    /\ IsFiniteSet(Tasks) /\ NoTask \notin Tasks
    /\ Priority \in [Tasks -> Nat]
    /\ uxNumberOfTasks \in Nat /\ Cardinality(Tasks) <= uxNumberOfTasks
    /\ uxNumberOfTasks <= 127                       \* queueINT8_MAX
    /\ uxLength \in Nat \ {0}
    /\ NoItem \notin Items
    /\ Ops \in [Tasks -> SUBSET AllOps]
    /\ Waits \subseteq {"none", "finite", "forever"}
    /\ IsrOps \subseteq SendOps \cup {"receive"}
    /\ (uxLength # 1) => "overwrite" \notin IsrOps \cup UNION {Ops[t] : t \in Tasks}

VARIABLES
    storage, pcWriteTo, pcReadFrom, uxMessagesWaiting,  \* the ring buffer
    lastRead,                  \* what the last copy out of the queue read
    cTxLock, cRxLock,          \* queueUNLOCKED or items moved while locked
    xTasksWaitingToSend, xTasksWaitingToReceive,        \* event lists
    ready,                     \* tasks in a ready list
    xPendingReadyList,         \* woken while the scheduler was suspended
    schedulerOwner,            \* the task that suspended the scheduler
    pc,                        \* where each task is in its call
    op, arg, xTicksToWait,     \* the call: operation, item or task, block time
    xTimeOut,                  \* "unset", "running" or "expired"
    xTimedOut,                 \* what xTaskCheckForTimeOut told schedulerOwner
    ucDelayAborted             \* tasks whose abort flag is set

ring     == <<storage, pcWriteTo, pcReadFrom, uxMessagesWaiting, lastRead>>
locks    == <<cTxLock, cRxLock>>
lists    == <<xTasksWaitingToSend, xTasksWaitingToReceive>>
sched    == <<ready, xPendingReadyList, schedulerOwner>>
call     == <<op, arg, xTicksToWait, xTimeOut>>
flags    == <<xTimedOut, ucDelayAborted>>
vars     == <<ring, locks, lists, sched, pc, call, flags>>

queueUNLOCKED == -1
queueLOCKED_UNMODIFIED == 0

Steps == {"idle", "try", "suspend", "lock", "test", "block", "unlockTx",
          "unlockRx", "resume", "recheck", "abortCheck", "abortRemove"}

-----------------------------------------------------------------------------
(***************************************************************************)
(* Event lists and the ready list                                          *)
(***************************************************************************)

\* Event list items carry configMAX_PRIORITIES - uxPriority, so the waiter of
\* the highest priority comes first.
ItemValue == [t \in Tasks |-> -Priority[t]]

\* xTaskRemoveFromEventList, for each task of W: to the ready list, or to the
\* pending ready list while the scheduler is suspended.
MakeReady(W) ==
    IF schedulerOwner = NoTask
    THEN ready' = ready \cup W /\ UNCHANGED <<xPendingReadyList, schedulerOwner>>
    ELSE /\ xPendingReadyList' = xPendingReadyList \cup W
         /\ UNCHANGED <<ready, schedulerOwner>>

WakeReceivers(n) == /\ MakeReady(FirstOf(xTasksWaitingToReceive, n))
                    /\ xTasksWaitingToReceive' = RestOf(xTasksWaitingToReceive, n)
                    /\ UNCHANGED xTasksWaitingToSend

WakeSenders(n) == /\ MakeReady(FirstOf(xTasksWaitingToSend, n))
                  /\ xTasksWaitingToSend' = RestOf(xTasksWaitingToSend, n)
                  /\ UNCHANGED xTasksWaitingToReceive

\* Blocked: in a delayed list or, for an indefinite wait, the suspended list,
\* and not on its way to the ready list (eTaskGetState).
Blocked(t) == t \notin ready \cup xPendingReadyList

\* The task that suspended the scheduler keeps the processor; otherwise a ready
\* task of the highest priority has it, and equal priorities share it.  Outside
\* its calls a task may be running, delayed or blocked on something else: it
\* does not compete for the processor.
Running(t) ==
    IF schedulerOwner = NoTask
    THEN t \in ready /\ \A u \in ready : pc[u] # "idle" => Priority[u] <= Priority[t]
    ELSE t = schedulerOwner

GoTo(t, step) == pc' = [pc EXCEPT ![t] = step]

Return(t) == /\ GoTo(t, "idle")
             /\ op' = [op EXCEPT ![t] = "none"]
             /\ arg' = [arg EXCEPT ![t] = NoItem]
             /\ xTicksToWait' = [xTicksToWait EXCEPT ![t] = "none"]
             /\ xTimeOut' = [xTimeOut EXCEPT ![t] = "unset"]

-----------------------------------------------------------------------------
(***************************************************************************)
(* The ring buffer                                                         *)
(***************************************************************************)

IsFull  == uxMessagesWaiting = uxLength
IsEmpty == uxMessagesWaiting = 0
HasRoom(pos) == uxMessagesWaiting < uxLength \/ pos = "overwrite"

\* The slot after slot i, which wraps at pcTail.
Following(i) == IF i + 1 >= uxLength THEN 0 ELSE i + 1

\* Mutant: the front index is not wrapped to the last slot.
CopyToQueueNoWrap(item, pos) ==
    /\ IF pos = "back"
       THEN /\ storage' = [storage EXCEPT ![pcWriteTo] = item]
            /\ pcWriteTo' = Following(pcWriteTo)
            /\ UNCHANGED pcReadFrom
       ELSE /\ storage' = [storage EXCEPT ![pcReadFrom] = item]
            /\ pcReadFrom' = IF pcReadFrom = 0 THEN 0 ELSE pcReadFrom - 1
            /\ UNCHANGED pcWriteTo
    /\ uxMessagesWaiting' = uxMessagesWaiting + 1
    /\ UNCHANGED lastRead

\* prvCopyDataToQueue: the back is written at pcWriteTo, the front at pcReadFrom.
CopyToQueue(item, pos) ==
    /\ IF pos = "back"
       THEN /\ storage' = [storage EXCEPT ![pcWriteTo] = item]
            /\ pcWriteTo' = Following(pcWriteTo)
            /\ UNCHANGED pcReadFrom
       ELSE /\ storage' = [storage EXCEPT ![pcReadFrom] = item]
            /\ pcReadFrom' = IF pcReadFrom = 0 THEN uxLength - 1 ELSE pcReadFrom - 1
            /\ UNCHANGED pcWriteTo
    /\ uxMessagesWaiting' = IF pos = "overwrite" /\ ~IsEmpty
                            THEN uxMessagesWaiting
                            ELSE uxMessagesWaiting + 1
    /\ UNCHANGED lastRead

\* prvCopyDataFromQueue: pcReadFrom is advanced first, then read.
NextRead == Following(pcReadFrom)

\* A receive removes the item, a peek puts pcReadFrom back.
CopyFromQueue ==
    /\ pcReadFrom' = NextRead
    /\ lastRead' = storage[NextRead]
    /\ uxMessagesWaiting' = uxMessagesWaiting - 1
    /\ UNCHANGED <<storage, pcWriteTo>>

PeekAtQueue == /\ lastRead' = storage[NextRead]
               /\ UNCHANGED <<storage, pcWriteTo, pcReadFrom, uxMessagesWaiting>>

-----------------------------------------------------------------------------
(***************************************************************************)
(* Task level calls                                                        *)
(***************************************************************************)

\* A task that is not in a call makes one.
Call(t) ==
    /\ pc[t] = "idle" /\ Running(t)
    /\ \E o \in Ops[t], w \in Waits :
        /\ op' = [op EXCEPT ![t] = o]
        /\ xTicksToWait' = [xTicksToWait EXCEPT ![t] = w]
        /\ \/ o \in SendOps /\ \E x \in Items : arg' = [arg EXCEPT ![t] = x]
           \/ o \in ReadOps \cup {"reset"} /\ UNCHANGED arg
           \/ o = "abort" /\ \E u \in Tasks \ {t} : arg' = [arg EXCEPT ![t] = u]
        /\ GoTo(t, IF o = "abort" THEN "suspend" ELSE "try")
    /\ UNCHANGED <<ring, locks, lists, sched, xTimeOut, flags>>

\* xQueueGenericSend, first critical section: there is room.
Send(t) ==
    /\ pc[t] = "try" /\ Running(t) /\ op[t] \in SendOps /\ HasRoom(op[t])
    /\ CopyToQueue(arg[t], op[t])
    /\ WakeReceivers(1)
    /\ Return(t)
    /\ UNCHANGED <<locks, flags>>

\* Mutant: a receive wakes nobody.
ReceiveWakesNobody(t) ==
    /\ pc[t] = "try" /\ Running(t) /\ op[t] = "receive" /\ ~IsEmpty
    /\ CopyFromQueue
    /\ Return(t)
    /\ UNCHANGED <<locks, lists, sched, flags>>

\* xQueueReceive: an item is there.
Receive(t) ==
    /\ pc[t] = "try" /\ Running(t) /\ op[t] = "receive" /\ ~IsEmpty
    /\ CopyFromQueue
    /\ WakeSenders(1)
    /\ Return(t)
    /\ UNCHANGED <<locks, flags>>

\* Mutant: a peek wakes nobody.
PeekWakesNobody(t) ==
    /\ pc[t] = "try" /\ Running(t) /\ op[t] = "peek" /\ ~IsEmpty
    /\ PeekAtQueue
    /\ Return(t)
    /\ UNCHANGED <<locks, lists, sched, flags>>

\* xQueuePeek: the item stays, so the next waiting reader is woken for it.
Peek(t) ==
    /\ pc[t] = "try" /\ Running(t) /\ op[t] = "peek" /\ ~IsEmpty
    /\ PeekAtQueue
    /\ WakeReceivers(1)
    /\ Return(t)
    /\ UNCHANGED <<locks, flags>>

\* The call must wait: nothing to read, or no room to send.
MustWait(t) == \/ op[t] \in ReadOps /\ IsEmpty
               \/ op[t] \in SendOps /\ ~HasRoom(op[t])

\* It may not: errQUEUE_EMPTY or errQUEUE_FULL at once.
FailAtOnce(t) ==
    /\ pc[t] = "try" /\ Running(t) /\ MustWait(t) /\ xTicksToWait[t] = "none"
    /\ Return(t)
    /\ UNCHANGED <<ring, locks, lists, sched, flags>>

\* Mutant: the time of entry is noted again on every round.
NoteEntryTimeAgain(t) ==
    /\ pc[t] = "try" /\ Running(t) /\ MustWait(t) /\ xTicksToWait[t] # "none"
    /\ xTimeOut' = [xTimeOut EXCEPT ![t] = "running"]
    /\ GoTo(t, "suspend")
    /\ UNCHANGED <<ring, locks, lists, sched, op, arg, xTicksToWait, flags>>

\* It may: the time of entry is noted, once per call.
NoteEntryTime(t) ==
    /\ pc[t] = "try" /\ Running(t) /\ MustWait(t) /\ xTicksToWait[t] # "none"
    /\ xTimeOut' = [xTimeOut EXCEPT ![t] = IF @ = "unset" THEN "running" ELSE @]
    /\ GoTo(t, "suspend")
    /\ UNCHANGED <<ring, locks, lists, sched, op, arg, xTicksToWait, flags>>

\* vTaskSuspendAll.
SuspendAll(t) ==
    /\ pc[t] = "suspend" /\ Running(t)
    /\ schedulerOwner' = t
    /\ GoTo(t, IF op[t] = "abort" THEN "abortCheck" ELSE "lock")
    /\ UNCHANGED <<ring, locks, lists, ready, xPendingReadyList, call, flags>>

\* xTaskCheckForTimeOut on the caller's deadline.
Late(t) == xTicksToWait[t] # "forever" /\ xTimeOut[t] = "expired"

\* prvLockQueue and xTaskCheckForTimeOut; while the scheduler is suspended
\* neither the time nor the abort flag can change between the two.  A set flag
\* is consumed; a deadline that has passed leaves no ticks to wait.
Lock(t) ==
    /\ pc[t] = "lock" /\ Running(t)
    /\ cTxLock' = IF cTxLock = queueUNLOCKED THEN queueLOCKED_UNMODIFIED ELSE cTxLock
    /\ cRxLock' = IF cRxLock = queueUNLOCKED THEN queueLOCKED_UNMODIFIED ELSE cRxLock
    /\ xTimedOut' = (t \in ucDelayAborted \/ Late(t))
    /\ ucDelayAborted' = ucDelayAborted \ {t}
    /\ xTicksToWait' = IF Late(t) /\ t \notin ucDelayAborted
                       THEN [xTicksToWait EXCEPT ![t] = "none"] ELSE xTicksToWait
    /\ GoTo(t, IF xTimedOut' THEN "unlockTx" ELSE "test")
    /\ UNCHANGED <<ring, lists, sched, op, arg, xTimeOut>>

\* prvIsQueueFull / prvIsQueueEmpty, before blocking.
Test(t) ==
    /\ pc[t] = "test" /\ Running(t)
    /\ GoTo(t, IF (op[t] \in SendOps /\ IsFull) \/ (op[t] \in ReadOps /\ IsEmpty)
               THEN "block" ELSE "unlockTx")
    /\ UNCHANGED <<ring, locks, lists, sched, call, flags>>

\* vTaskPlaceOnEventList and prvAddCurrentTaskToDelayedList.  No critical
\* section: interrupts leave the event lists of a locked queue alone.
Block(t) ==
    /\ pc[t] = "block" /\ Running(t)
    /\ IF op[t] \in SendOps
       THEN /\ xTasksWaitingToSend' = ListInsert(xTasksWaitingToSend, ItemValue, t)
            /\ UNCHANGED xTasksWaitingToReceive
       ELSE /\ xTasksWaitingToReceive' = ListInsert(xTasksWaitingToReceive, ItemValue, t)
            /\ UNCHANGED xTasksWaitingToSend
    /\ ready' = ready \ {t}
    /\ ucDelayAborted' = ucDelayAborted \ {t}
    /\ GoTo(t, "unlockTx")
    /\ UNCHANGED <<ring, locks, xPendingReadyList, schedulerOwner, call, xTimedOut>>

\* Mutant: items that came while the queue was locked wake nobody.
UnlockTxForgets(t) ==
    /\ pc[t] = "unlockTx" /\ Running(t)
    /\ cTxLock' = queueUNLOCKED
    /\ GoTo(t, "unlockRx")
    /\ UNCHANGED <<ring, cRxLock, lists, sched, call, flags>>

\* prvUnlockQueue, first critical section: one receiver per item posted
\* by interrupts while the queue was locked.
UnlockTx(t) ==
    /\ pc[t] = "unlockTx" /\ Running(t)
    /\ WakeReceivers(cTxLock)
    /\ cTxLock' = queueUNLOCKED
    /\ GoTo(t, "unlockRx")
    /\ UNCHANGED <<ring, cRxLock, call, flags>>

\* Mutant: slots freed while the queue was locked wake nobody.
UnlockRxForgets(t) ==
    /\ pc[t] = "unlockRx" /\ Running(t)
    /\ cRxLock' = queueUNLOCKED
    /\ GoTo(t, "resume")
    /\ UNCHANGED <<ring, cTxLock, lists, sched, call, flags>>

\* Second critical section: one sender per item taken by interrupts.
UnlockRx(t) ==
    /\ pc[t] = "unlockRx" /\ Running(t)
    /\ WakeSenders(cRxLock)
    /\ cRxLock' = queueUNLOCKED
    /\ GoTo(t, "resume")
    /\ UNCHANGED <<ring, cTxLock, call, flags>>

\* xTaskResumeAll: the pending ready list is emptied into the ready list.  A
\* sender whose time ran out returns errQUEUE_FULL, a reader looks once more;
\* every other waiter goes round its loop, at once or when it is made ready.
ResumeAll(t) ==
    /\ pc[t] = "resume" /\ Running(t)
    /\ schedulerOwner' = NoTask
    /\ ready' = ready \cup xPendingReadyList
    /\ xPendingReadyList' = {}
    /\ \/ /\ op[t] = "abort" \/ (op[t] \in SendOps /\ xTimedOut)
          /\ Return(t)
       \/ /\ op[t] \in ReadOps /\ xTimedOut
          /\ GoTo(t, "recheck") /\ UNCHANGED call
       \/ /\ op[t] \in SendOps \cup ReadOps /\ ~xTimedOut
          /\ GoTo(t, "try") /\ UNCHANGED call
    /\ xTimedOut' = FALSE
    /\ UNCHANGED <<ring, locks, lists, ucDelayAborted>>

\* A reader that gave up: an item that came in the meantime is still taken.
Recheck(t) ==
    /\ pc[t] = "recheck" /\ Running(t)
    /\ IF IsEmpty THEN Return(t) ELSE GoTo(t, "try") /\ UNCHANGED call
    /\ UNCHANGED <<ring, locks, lists, sched, flags>>

-----------------------------------------------------------------------------
(***************************************************************************)
(* Calls that disturb the waiters                                          *)
(***************************************************************************)

\* xQueueGenericReset of a queue in use: the readers stay blocked, one sender
\* is made ready.
Reset(t) ==
    /\ pc[t] = "try" /\ Running(t) /\ op[t] = "reset"
    /\ uxMessagesWaiting' = 0 /\ pcWriteTo' = 0 /\ pcReadFrom' = uxLength - 1
    /\ cTxLock' = queueUNLOCKED /\ cRxLock' = queueUNLOCKED
    /\ WakeSenders(1)
    /\ Return(t)
    /\ UNCHANGED <<storage, lastRead, flags>>

\* xTaskAbortDelay, scheduler suspended: is the task blocked?
AbortCheck(t) ==
    /\ pc[t] = "abortCheck" /\ Running(t)
    /\ GoTo(t, IF Blocked(arg[t]) THEN "abortRemove" ELSE "resume")
    /\ UNCHANGED <<ring, locks, lists, sched, call, flags>>

\* Mutant: the task is taken to be still in the event list of its queue.
AbortRemoveIgnoresPending(t) ==
    /\ pc[t] = "abortRemove" /\ Running(t)
    /\ LET u == arg[t] IN
        /\ xTasksWaitingToSend' = ListRemove(xTasksWaitingToSend, u)
        /\ xTasksWaitingToReceive' = ListRemove(xTasksWaitingToReceive, u)
        /\ ready' = ready \cup {u}
        /\ ucDelayAborted' = ucDelayAborted \cup {u}
    /\ GoTo(t, "resume")
    /\ UNCHANGED <<ring, locks, xPendingReadyList, schedulerOwner, call, xTimedOut>>

\* Then it is made ready, even if an interrupt has meanwhile moved its event
\* list item to the pending ready list.
AbortRemove(t) ==
    /\ pc[t] = "abortRemove" /\ Running(t)
    /\ LET u == arg[t] IN
        /\ xTasksWaitingToSend' = ListRemove(xTasksWaitingToSend, u)
        /\ xTasksWaitingToReceive' = ListRemove(xTasksWaitingToReceive, u)
        /\ xPendingReadyList' = xPendingReadyList \ {u}
        /\ ready' = ready \cup {u}
        /\ ucDelayAborted' = ucDelayAborted \cup {u}
    /\ GoTo(t, "resume")
    /\ UNCHANGED <<ring, locks, schedulerOwner, call, xTimedOut>>

-----------------------------------------------------------------------------
(***************************************************************************)
(* Interrupts                                                              *)
(***************************************************************************)

\* Mutant: the lock count is not capped.
IncrementUncapped(lock) == lock + 1

\* prvIncrementQueueTxLock / RxLock.
Increment(lock) == IF lock < uxNumberOfTasks THEN lock + 1 ELSE lock

\* xQueueGenericSendFromISR with room in the queue (without, nothing changes).
SendFromISR ==
    \E x \in Items, pos \in IsrOps \cap SendOps :
        /\ HasRoom(pos)
        /\ CopyToQueue(x, pos)
        /\ IF cTxLock = queueUNLOCKED
           THEN WakeReceivers(1) /\ UNCHANGED locks
           ELSE /\ cTxLock' = Increment(cTxLock)
                /\ UNCHANGED <<cRxLock, lists, sched>>
        /\ UNCHANGED <<pc, call, flags>>

\* xQueueReceiveFromISR with an item in the queue.
ReceiveFromISR ==
    /\ "receive" \in IsrOps /\ ~IsEmpty
    /\ CopyFromQueue
    /\ IF cRxLock = queueUNLOCKED
       THEN WakeSenders(1) /\ UNCHANGED locks
       ELSE /\ cRxLock' = Increment(cRxLock)
            /\ UNCHANGED <<cTxLock, lists, sched>>
    /\ UNCHANGED <<pc, call, flags>>

\* The tick interrupt reaches the end of a task's block time: the next check
\* will say so, and a task in the delayed list leaves it and its event list.
Expire(t) ==
    /\ schedulerOwner = NoTask
    /\ xTicksToWait[t] = "finite" /\ xTimeOut[t] = "running"
    /\ xTimeOut' = [xTimeOut EXCEPT ![t] = "expired"]
    /\ ready' = ready \cup {t}
    /\ xTasksWaitingToSend' = ListRemove(xTasksWaitingToSend, t)
    /\ xTasksWaitingToReceive' = ListRemove(xTasksWaitingToReceive, t)
    /\ UNCHANGED <<ring, locks, xPendingReadyList, schedulerOwner, pc, op, arg,
                   xTicksToWait, flags>>

-----------------------------------------------------------------------------
Init ==
    /\ storage = [i \in 0 .. uxLength - 1 |-> NoItem]
    /\ pcWriteTo = 0 /\ pcReadFrom = uxLength - 1
    /\ uxMessagesWaiting = 0 /\ lastRead = NoItem
    /\ cTxLock = queueUNLOCKED /\ cRxLock = queueUNLOCKED
    /\ xTasksWaitingToSend = <<>> /\ xTasksWaitingToReceive = <<>>
    /\ ready = Tasks /\ xPendingReadyList = {} /\ schedulerOwner = NoTask
    /\ pc = [t \in Tasks |-> "idle"] /\ op = [t \in Tasks |-> "none"]
    /\ arg = [t \in Tasks |-> NoItem] /\ xTicksToWait = [t \in Tasks |-> "none"]
    /\ xTimeOut = [t \in Tasks |-> "unset"] /\ xTimedOut = FALSE
    /\ ucDelayAborted = {}

\* A step of a call in progress, and any step of the system.
Continue(t) ==
    \/ Send(t) \/ Receive(t) \/ Peek(t) \/ FailAtOnce(t) \/ NoteEntryTime(t)
    \/ SuspendAll(t) \/ Lock(t) \/ Test(t) \/ Block(t) \/ UnlockTx(t) \/ UnlockRx(t)
    \/ ResumeAll(t) \/ Recheck(t) \/ Reset(t) \/ AbortCheck(t) \/ AbortRemove(t)

Next == \/ \E t \in Tasks : Call(t) \/ Continue(t) \/ Expire(t)
        \/ SendFromISR \/ ReceiveFromISR

Spec == Init /\ [][Next]_vars

-----------------------------------------------------------------------------
(***************************************************************************)
(* Properties                                                              *)
(***************************************************************************)

\* The values of the variables.
TypeOK ==
    /\ storage \in [0 .. uxLength - 1 -> Items \cup {NoItem}]
    /\ pcWriteTo \in 0 .. uxLength - 1 /\ pcReadFrom \in 0 .. uxLength - 1
    /\ uxMessagesWaiting \in 0 .. uxLength
    /\ lastRead \in Items \cup {NoItem}
    /\ cTxLock \in queueUNLOCKED .. uxNumberOfTasks
    /\ cRxLock \in queueUNLOCKED .. uxNumberOfTasks
    /\ xTasksWaitingToSend \in Seq(Tasks) /\ xTasksWaitingToReceive \in Seq(Tasks)
    /\ ready \subseteq Tasks /\ xPendingReadyList \subseteq Tasks
    /\ schedulerOwner \in Tasks \cup {NoTask}
    /\ pc \in [Tasks -> Steps]
    /\ op \in [Tasks -> AllOps \cup {"none"}]
    /\ arg \in [Tasks -> Items \cup {NoItem} \cup Tasks]
    /\ xTicksToWait \in [Tasks -> {"none", "finite", "forever"}]
    /\ xTimeOut \in [Tasks -> {"unset", "running", "expired"}]
    /\ xTimedOut \in BOOLEAN
    /\ ucDelayAborted \subseteq Tasks

\* Readers (senders) that have been made ready, or never blocked, and will look
\* at the queue again before they block.
Looking == {"try", "unlockTx", "unlockRx", "resume", "recheck"}
ReadersLooking == {t \in Tasks : /\ op[t] \in ReadOps /\ pc[t] \in Looking
                                 /\ t \notin ToSet(xTasksWaitingToReceive)}
SendersLooking == {t \in Tasks : /\ op[t] \in SendOps /\ pc[t] \in Looking
                                 /\ t \notin ToSet(xTasksWaitingToSend)
                                 /\ ~(xTimedOut /\ t = schedulerOwner)}

\* No wakeup is lost on the receiving side: while tasks wait for items, every
\* item in the queue has a reader on its way to it, or is in the lock count that
\* prvUnlockQueue turns into wakeups (the count is capped where it wakes all).
NoLostItem ==
    xTasksWaitingToReceive # <<>> =>
        \/ cTxLock >= uxNumberOfTasks
        \/ uxMessagesWaiting <= Cardinality(ReadersLooking)
                                + IF cTxLock = queueUNLOCKED THEN 0 ELSE cTxLock

\* And on the sending side: while tasks wait for room, every free slot has a
\* sender on its way to it or is in the receive lock count.
NoLostSlot ==
    xTasksWaitingToSend # <<>> =>
        \/ cRxLock >= uxNumberOfTasks
        \/ uxLength - uxMessagesWaiting <= Cardinality(SendersLooking)
                                           + IF cRxLock = queueUNLOCKED THEN 0 ELSE cRxLock

\* Every task is in one place: ready and in no event list, or blocked and in
\* exactly one of the two event lists or the pending ready list - a blocked
\* task in none could never be woken.  The pending ready list and the queue
\* lock are empty again whenever the scheduler runs.
OnePlace ==
    /\ \A t \in Tasks :
        LET places == {p \in {1, 2, 3, 4} :
                         \/ p = 1 /\ t \in ready
                         \/ p = 2 /\ t \in xPendingReadyList
                         \/ p = 3 /\ t \in ToSet(xTasksWaitingToSend)
                         \/ p = 4 /\ t \in ToSet(xTasksWaitingToReceive)}
        IN  Cardinality(places) = 1
    /\ schedulerOwner = NoTask =>
        /\ xPendingReadyList = {}
        /\ cTxLock = queueUNLOCKED /\ cRxLock = queueUNLOCKED

\* An event list holds nobody twice, the highest priority first, so the waiter
\* that is woken is the most important one.
PriorityOrder ==
    \A l \in {xTasksWaitingToSend, xTasksWaitingToReceive} :
        NoDuplicates(l) /\ Ascending(l, ItemValue)

\* The queue seen as a bounded sequence: the ring buffer read from the slot
\* after pcReadFrom.
Slot(i) == IF pcReadFrom + i < uxLength THEN pcReadFrom + i ELSE pcReadFrom + i - uxLength
Contents == [i \in 1 .. uxMessagesWaiting |-> storage[Slot(i)]]

FIFO == INSTANCE BoundedFIFO WITH items <- Contents

\* The ring buffer behaves like that sequence in every step of every caller.
ImplementsFIFO == FIFO!Spec

-----------------------------------------------------------------------------
\* Time passes, and a ready task of the highest priority gets the processor
\* again and again: tasks of one priority share it by time slices.
Fairness == \A t \in Tasks : SF_vars(Continue(t)) /\ SF_vars(Expire(t))

FairSpec == Spec /\ Fairness

\* A call with a block time ends, however often the queue changes under it.
BoundedCallsReturn ==
    \A t \in Tasks : (pc[t] # "idle" /\ xTicksToWait[t] # "forever") ~> pc[t] = "idle"

\* Tasks do not stay blocked on a queue that holds an item, nor on one that has
\* room.
ItemsReachWaiters ==
    (xTasksWaitingToReceive # <<>> /\ ~IsEmpty) ~> (xTasksWaitingToReceive = <<>> \/ IsEmpty)

SlotsReachWaiters ==
    (xTasksWaitingToSend # <<>> /\ ~IsFull) ~> (xTasksWaitingToSend = <<>> \/ IsFull)
=============================================================================
