-------------------------------- MODULE Mutex --------------------------------
(***************************************************************************)
(* Mutexes: the part of Source/queue.c that serves semaphores of type      *)
(* queueQUEUE_IS_MUTEX, with priority inheritance (Source/tasks.c).        *)
(*                                                                         *)
(* Interrupts use no mutex, so a step ends where another task may come in: *)
(* a critical section, or a stretch with the scheduler suspended.  The     *)
(* tick interrupt ends block times and shares the processor between tasks  *)
(* of one priority; a tick that comes while the scheduler is suspended is  *)
(* handled by xTaskResumeAll, that is, right after the stretch.            *)
(*                                                                         *)
(* A mutex is full (uxMessagesWaiting = 1) exactly when it has no holder:  *)
(* both are written in the same critical sections.  The event list item of *)
(* a task always carries its current priority here, as the functions below *)
(* change both together.                                                   *)
(***************************************************************************)
EXTENDS Integers, Sequences, SequencesExt, FiniteSets, ListOps

CONSTANTS Tasks,            \* the tasks that use the mutexes
          NoTask,           \* no holder; as pxCurrentTCB, the idle task
          uxBasePriority,   \* the priority a task was created with
          Mutexes,          \* a set of numbers: the order a program takes them in
          Recursive,        \* those used through the recursive functions
          Programs,         \* the choices of the mutexes that each task uses
          TakesOwn,         \* tasks that may take a mutex they hold
          Waits,            \* block times in use: "none", "finite", "forever"
          NestedWaits,      \* whether a task that holds a mutex waits for another
          MaxDepth          \* bound on the recursion

ASSUME MutexAssumption ==
    /\ IsFiniteSet(Tasks) /\ NoTask \notin Tasks
    /\ uxBasePriority \in [Tasks -> Nat \ {0}]
    /\ Mutexes \subseteq Nat /\ IsFiniteSet(Mutexes)
    /\ Recursive \subseteq Mutexes
    /\ Programs \subseteq [Tasks -> SUBSET Mutexes]
    /\ TakesOwn \subseteq Tasks
    /\ Waits \subseteq {"none", "finite", "forever"}
    /\ NestedWaits \in BOOLEAN
    /\ MaxDepth \in Nat \ {0}

VARIABLES
    MayTake,                   \* the program: the mutexes task t uses, one of Programs
    xMutexHolder,              \* of each mutex
    uxRecursiveCallCount,      \* of each mutex
    xTasksWaitingToReceive,    \* event list of each mutex
    uxPriority,                \* current priority of each task
    uxMutexesHeld,             \* of each task
    ready,                     \* tasks in a ready list
    uxTopReadyPriority,        \* bit map of the non-empty ready lists (PIC32MM port)
    pxCurrentTCB,              \* the running task
    pc,                        \* where each task is in its call
    xSemaphore, xTicksToWait,  \* the call: mutex and block time
    xTimeOut,                  \* "unset", "running" or "expired"
    xInheritanceOccurred       \* local flag of each call

mutexes == <<xMutexHolder, uxRecursiveCallCount, xTasksWaitingToReceive>>
sched   == <<uxPriority, ready, uxTopReadyPriority, pxCurrentTCB>>
call    == <<xSemaphore, xTicksToWait, xTimeOut, xInheritanceOccurred>>
vars    == <<MayTake, mutexes, uxMutexesHeld, sched, pc, call>>

NoMutex == -1
tskIDLE_PRIORITY == 0
Steps == {"out", "try", "wait", "emptyCheck", "disinherit"}

-----------------------------------------------------------------------------
(***************************************************************************)
(* Scheduling                                                              *)
(***************************************************************************)

\* vTaskSwitchContext: some task of the highest priority among R, whichever the
\* rotation of its ready list comes to.
SwitchContext(R, prio) ==
    IF R = {} THEN pxCurrentTCB' = NoTask
    ELSE pxCurrentTCB' \in {t \in R : \A u \in R : prio[u] <= prio[t]}

\* The idle task is left out.
NonEmpty(R, prio) == {prio[t] : t \in R}
\* Mutant: a list that becomes empty keeps its bit.
RecordOnly(R, prio) == uxTopReadyPriority' = uxTopReadyPriority \cup NonEmpty(R, prio)

\* The bit map when the ready lists become those of R by prio: a list that loses
\* its last task resets its bit (portRESET_READY_PRIORITY), one that gains a task
\* sets it (portRECORD_READY_PRIORITY).
Record(R, prio) ==
    uxTopReadyPriority' = (uxTopReadyPriority \ NonEmpty(ready, uxPriority)) \cup NonEmpty(R, prio)

CurrentPriority == IF pxCurrentTCB = NoTask THEN tskIDLE_PRIORITY ELSE uxPriority[pxCurrentTCB]

\* The tick interrupt finds other tasks at the priority of the running one.
TimeSlice ==
    /\ \E t \in ready \ {pxCurrentTCB} : uxPriority[t] = CurrentPriority
    /\ SwitchContext(ready, uxPriority)
    /\ UNCHANGED <<mutexes, uxMutexesHeld, uxPriority, ready, uxTopReadyPriority, pc, call>>

\* Own code of a task that waits for something else, and gets it.
Sleep(t) ==
    /\ pxCurrentTCB = t /\ pc[t] = "out"
    /\ ready' = ready \ {t}
    /\ Record(ready', uxPriority)
    /\ SwitchContext(ready', uxPriority)
    /\ UNCHANGED <<mutexes, uxMutexesHeld, uxPriority, pc, call>>

\* The tick interrupt makes a task ready, and switches if that task has a higher
\* priority or if the running task has company at its own priority.
MakeReady(t) ==
    /\ ready' = ready \cup {t}
    /\ Record(ready', uxPriority)
    /\ IF \/ uxPriority[t] > CurrentPriority
          \/ \E u \in ready' \ {pxCurrentTCB} : uxPriority[u] = CurrentPriority
       THEN SwitchContext(ready', uxPriority) ELSE UNCHANGED pxCurrentTCB

Wake(t) ==
    /\ t \notin ready /\ pc[t] = "out"
    /\ MakeReady(t)
    /\ UNCHANGED <<mutexes, uxMutexesHeld, uxPriority, pc, call>>

\* The block time of a call runs out (xTaskIncrementTick); if the task is
\* blocked it leaves the event list and becomes ready.
Expire(t) ==
    /\ xTimeOut[t] = "running" /\ xTicksToWait[t] = "finite"
    /\ xTimeOut' = [xTimeOut EXCEPT ![t] = "expired"]
    /\ IF t \in ready
       THEN UNCHANGED <<ready, uxTopReadyPriority, pxCurrentTCB, xTasksWaitingToReceive>>
       ELSE /\ MakeReady(t)
            /\ xTasksWaitingToReceive' = [xTasksWaitingToReceive EXCEPT
                                              ![xSemaphore[t]] = ListRemove(@, t)]
    /\ UNCHANGED <<xMutexHolder, uxRecursiveCallCount, uxMutexesHeld, uxPriority, pc,
                   xSemaphore, xTicksToWait, xInheritanceOccurred>>

-----------------------------------------------------------------------------
(***************************************************************************)
(* Priority inheritance                                                    *)
(***************************************************************************)

\* Event list items carry configMAX_PRIORITIES - uxPriority.
ItemValue == [t \in Tasks |-> -uxPriority[t]]

\* Mutant: the holder inherits only if it is ready.
InheritedIfReady(h, t) ==
    IF uxPriority[h] < uxPriority[t] /\ h \in ready
    THEN [uxPriority EXCEPT ![h] = uxPriority[t]] ELSE uxPriority

\* xTaskPriorityInherit by task t: the priorities it leaves, and its answer.
Inherited(h, t) ==
    IF uxPriority[h] < uxPriority[t] THEN [uxPriority EXCEPT ![h] = uxPriority[t]] ELSE uxPriority

\* Mutant: a caller that finds the priority already inherited does not note it.
InheritanceNotNoted(h, t) == uxPriority[h] < uxPriority[t]

InheritanceOccurs(h, t) == uxPriority[h] < uxPriority[t] \/ uxBasePriority[h] < uxPriority[t]

\* Mutant: tested before the count is decremented.
GivesUpPriorityTooSoon(t, held) == uxPriority[t] # uxBasePriority[t] /\ held = 1

\* xTaskPriorityDisinherit, called by the holder with held mutexes left: the
\* inherited priority is given up with the last mutex.
GivesUpPriority(t, held) == uxPriority[t] # uxBasePriority[t] /\ held = 0
Disinherited(t, held) ==
    IF GivesUpPriority(t, held) THEN [uxPriority EXCEPT ![t] = uxBasePriority[t]] ELSE uxPriority

\* prvGetDisinheritPriorityAfterTimeout.
HighestWaitingPriority(m) ==
    IF xTasksWaitingToReceive[m] = <<>> THEN tskIDLE_PRIORITY
    ELSE uxPriority[Head(xTasksWaitingToReceive[m])]

\* vTaskPriorityDisinheritAfterTimeout: the larger of the holder's base priority
\* and that of the waiters that are left, unless it holds other mutexes.
PriorityToUse(h, m) ==
    IF uxBasePriority[h] < HighestWaitingPriority(m) THEN HighestWaitingPriority(m)
    ELSE uxBasePriority[h]
DisinheritedAfterTimeout(h, m) ==
    IF h # NoTask /\ uxMutexesHeld[h] = 1 THEN [uxPriority EXCEPT ![h] = PriorityToUse(h, m)]
    ELSE uxPriority

-----------------------------------------------------------------------------
(***************************************************************************)
(* Taking a mutex: xQueueSemaphoreTake, xQueueTakeMutexRecursive           *)
(***************************************************************************)

Held(t) == {m \in Mutexes : xMutexHolder[m] = t}

Return(t) == /\ pc' = [pc EXCEPT ![t] = "out"]
             /\ xSemaphore' = [xSemaphore EXCEPT ![t] = NoMutex]
             /\ xTicksToWait' = [xTicksToWait EXCEPT ![t] = "none"]
             /\ xTimeOut' = [xTimeOut EXCEPT ![t] = "unset"]
             /\ xInheritanceOccurred' = [xInheritanceOccurred EXCEPT ![t] = FALSE]

\* A task calls for mutex m with block time w.  A program that waits for ever
\* takes the mutexes in their order; with a block time it may take them in any.
\* A task of TakesOwn may also ask for one it holds.
Take(t, m, w) ==
    /\ pxCurrentTCB = t /\ pc[t] = "out"
    /\ m \in MayTake[t] /\ (m \in Held(t) => t \in TakesOwn /\ m \notin Recursive)
    /\ w # "none" /\ ~NestedWaits => Held(t) = {}
    /\ w = "forever" => \A h \in Held(t) : h < m
    /\ pc' = [pc EXCEPT ![t] = "try"]
    /\ xSemaphore' = [xSemaphore EXCEPT ![t] = m]
    /\ xTicksToWait' = [xTicksToWait EXCEPT ![t] = w]
    /\ UNCHANGED <<mutexes, uxMutexesHeld, sched, xTimeOut, xInheritanceOccurred>>

\* xQueueTakeMutexRecursive by the holder.
TakeAgain(t, m) ==
    /\ pxCurrentTCB = t /\ pc[t] = "out"
    /\ m \in Recursive /\ xMutexHolder[m] = t /\ uxRecursiveCallCount[m] < MaxDepth
    /\ uxRecursiveCallCount' = [uxRecursiveCallCount EXCEPT ![m] = @ + 1]
    /\ UNCHANGED <<xMutexHolder, xTasksWaitingToReceive, uxMutexesHeld, sched, pc, call>>

\* The mutex is free: it is taken.  Nobody waits to send to a mutex.
Succeed(t) ==
    LET m == xSemaphore[t] IN
    /\ pxCurrentTCB = t /\ pc[t] = "try" /\ xMutexHolder[m] = NoTask
    /\ xMutexHolder' = [xMutexHolder EXCEPT ![m] = t]
    /\ uxMutexesHeld' = [uxMutexesHeld EXCEPT ![t] = @ + 1]
    /\ uxRecursiveCallCount' = IF m \in Recursive
                               THEN [uxRecursiveCallCount EXCEPT ![m] = @ + 1]
                               ELSE uxRecursiveCallCount
    /\ Return(t)
    /\ UNCHANGED <<xTasksWaitingToReceive, sched>>

\* Mutant: a task whose time is over gives up, even if it was woken for the mutex.
FailAtOnceWhenLate(t) ==
    /\ pxCurrentTCB = t /\ pc[t] = "try"
    /\ \/ xTimeOut[t] = "expired"
       \/ /\ xMutexHolder[xSemaphore[t]] # NoTask
          /\ xTicksToWait[t] = "none"
    /\ Return(t)
    /\ UNCHANGED <<mutexes, uxMutexesHeld, sched>>

\* It is not: fail at once, or note the time of entry, once per call.
FailAtOnce(t) ==
    /\ pxCurrentTCB = t /\ pc[t] = "try" /\ xMutexHolder[xSemaphore[t]] # NoTask
    /\ xTicksToWait[t] = "none"
    /\ Return(t)
    /\ UNCHANGED <<mutexes, uxMutexesHeld, sched>>

NoteEntryTime(t) ==
    /\ pxCurrentTCB = t /\ pc[t] = "try" /\ xMutexHolder[xSemaphore[t]] # NoTask
    /\ xTicksToWait[t] # "none"
    /\ xTimeOut' = [xTimeOut EXCEPT ![t] = IF @ = "unset" THEN "running" ELSE @]
    /\ pc' = [pc EXCEPT ![t] = "wait"]
    /\ UNCHANGED <<mutexes, uxMutexesHeld, sched, xSemaphore, xTicksToWait, xInheritanceOccurred>>

\* With the scheduler suspended.  The block time is over and no ticks are left;
Late(t) == xTicksToWait[t] # "forever" /\ xTimeOut[t] = "expired"
TimedOut(t) ==
    /\ pxCurrentTCB = t /\ pc[t] = "wait" /\ Late(t)
    /\ xTicksToWait' = [xTicksToWait EXCEPT ![t] = "none"]
    /\ pc' = [pc EXCEPT ![t] = "emptyCheck"]
    /\ UNCHANGED <<mutexes, uxMutexesHeld, sched, xSemaphore, xTimeOut, xInheritanceOccurred>>

\* or the mutex has become free;
TryAgain(t) ==
    /\ pxCurrentTCB = t /\ pc[t] = "wait" /\ ~Late(t)
    /\ xMutexHolder[xSemaphore[t]] = NoTask
    /\ pc' = [pc EXCEPT ![t] = "try"]
    /\ UNCHANGED <<mutexes, uxMutexesHeld, sched, call>>

\* or the holder inherits the caller's priority (xTaskPriorityInherit), the
\* caller goes to the event list by its priority (vTaskPlaceOnEventList) and
\* yields.  When it runs again it tries again.
Block(t) ==
    LET m == xSemaphore[t]
        h == xMutexHolder[m]
    IN
    /\ pxCurrentTCB = t /\ pc[t] = "wait" /\ ~Late(t) /\ h # NoTask
    /\ uxPriority' = Inherited(h, t)
    /\ xInheritanceOccurred' = [xInheritanceOccurred EXCEPT ![t] = InheritanceOccurs(h, t)]
    /\ xTasksWaitingToReceive' = [xTasksWaitingToReceive EXCEPT ![m] = ListInsert(@, ItemValue, t)]
    /\ ready' = ready \ {t}
    /\ pc' = [pc EXCEPT ![t] = "try"]
    /\ Record(ready', uxPriority')
    /\ SwitchContext(ready', uxPriority')
    /\ UNCHANGED <<xMutexHolder, uxRecursiveCallCount, uxMutexesHeld, xSemaphore,
                   xTicksToWait, xTimeOut>>

\* After a time-out, the scheduler running again: prvIsQueueEmpty.  If the
\* mutex is free the call tries once more, with no ticks left; else it gives up
\* at once, or after taking back the priority it lent.
EmptyCheck(t) ==
    /\ pxCurrentTCB = t /\ pc[t] = "emptyCheck"
    /\ xMutexHolder[xSemaphore[t]] = NoTask \/ xInheritanceOccurred[t]
    /\ pc' = [pc EXCEPT ![t] = IF xMutexHolder[xSemaphore[t]] = NoTask THEN "try" ELSE "disinherit"]
    /\ UNCHANGED <<mutexes, uxMutexesHeld, sched, call>>

GiveUp(t) ==
    /\ pxCurrentTCB = t /\ pc[t] = "emptyCheck"
    /\ xMutexHolder[xSemaphore[t]] # NoTask /\ ~xInheritanceOccurred[t]
    /\ Return(t)
    /\ UNCHANGED <<mutexes, uxMutexesHeld, sched>>

\* By now the mutex may have another holder, or none.  A ready holder moves to the
\* ready list of its new priority; if that leaves the old list empty, the bit that
\* is reset is the one of the new priority, which is then set again.
Disinherit(t) ==
    LET m == xSemaphore[t] IN
    /\ pxCurrentTCB = t /\ pc[t] = "disinherit"
    /\ uxPriority' = DisinheritedAfterTimeout(xMutexHolder[m], m)
    /\ uxTopReadyPriority' = uxTopReadyPriority \cup NonEmpty(ready, uxPriority')
    /\ Return(t)
    /\ UNCHANGED <<mutexes, uxMutexesHeld, ready, pxCurrentTCB>>

-----------------------------------------------------------------------------
(***************************************************************************)
(* Giving a mutex: xQueueGenericSend, xQueueGiveMutexRecursive             *)
(***************************************************************************)

\* Only the holder gives a mutex (configASSERT in xTaskPriorityDisinherit; the
\* recursive function fails for anybody else).  The mutex is never full then,
\* so the call does not wait.  The first waiter is made ready; the giver yields
\* if that task has a higher priority or, when nobody waits, if it has given up
\* an inherited priority.
Give(t, m) ==
    LET q    == xTasksWaitingToReceive[m]
        held == uxMutexesHeld[t] - 1
    IN
    /\ pxCurrentTCB = t /\ pc[t] = "out" /\ xMutexHolder[m] = t
    /\ m \in Recursive => uxRecursiveCallCount[m] = 1
    /\ uxRecursiveCallCount' = [uxRecursiveCallCount EXCEPT ![m] = 0]
    /\ xMutexHolder' = [xMutexHolder EXCEPT ![m] = NoTask]
    /\ uxMutexesHeld' = [uxMutexesHeld EXCEPT ![t] = held]
    /\ uxPriority' = Disinherited(t, held)
    /\ ready' = ready \cup FirstOf(q, 1)
    /\ Record(ready', uxPriority')
    /\ xTasksWaitingToReceive' = [xTasksWaitingToReceive EXCEPT ![m] = RestOf(q, 1)]
    /\ IF IF q = <<>> THEN GivesUpPriority(t, held) ELSE uxPriority'[Head(q)] > uxPriority'[t]
       THEN SwitchContext(ready', uxPriority') ELSE UNCHANGED pxCurrentTCB
    /\ UNCHANGED <<pc, call>>

\* An inner call of the recursive function only counts.
GiveInner(t, m) ==
    /\ pxCurrentTCB = t /\ pc[t] = "out" /\ xMutexHolder[m] = t
    /\ uxRecursiveCallCount[m] > 1
    /\ uxRecursiveCallCount' = [uxRecursiveCallCount EXCEPT ![m] = @ - 1]
    /\ UNCHANGED <<xMutexHolder, xTasksWaitingToReceive, uxMutexesHeld, sched, pc, call>>

-----------------------------------------------------------------------------

Init ==
    /\ MayTake \in Programs
    /\ xMutexHolder = [m \in Mutexes |-> NoTask]
    /\ uxRecursiveCallCount = [m \in Mutexes |-> 0]
    /\ xTasksWaitingToReceive = [m \in Mutexes |-> <<>>]
    /\ uxPriority = uxBasePriority
    /\ uxMutexesHeld = [t \in Tasks |-> 0]
    /\ ready = {} /\ uxTopReadyPriority = {} /\ pxCurrentTCB = NoTask
    /\ pc = [t \in Tasks |-> "out"]
    /\ xSemaphore = [t \in Tasks |-> NoMutex]
    /\ xTicksToWait = [t \in Tasks |-> "none"]
    /\ xTimeOut = [t \in Tasks |-> "unset"]
    /\ xInheritanceOccurred = [t \in Tasks |-> FALSE]

\* The steps of a call after it was made.
Continue(t) ==
    \/ Succeed(t) \/ FailAtOnce(t) \/ NoteEntryTime(t) \/ TimedOut(t) \/ TryAgain(t)
    \/ Block(t) \/ EmptyCheck(t) \/ GiveUp(t) \/ Disinherit(t)

GiveSome(t) == \E m \in Mutexes : Give(t, m) \/ GiveInner(t, m)

Next ==
    /\ UNCHANGED MayTake
    /\ \/ TimeSlice
       \/ \E t \in Tasks :
           \/ Sleep(t) \/ Wake(t) \/ Expire(t) \/ Continue(t) \/ GiveSome(t)
           \/ \E m \in Mutexes : TakeAgain(t, m) \/ \E w \in Waits : Take(t, m, w)

Spec == Init /\ [][Next]_vars

-----------------------------------------------------------------------------
(***************************************************************************)
(* Properties                                                              *)
(***************************************************************************)

Waiters(m) == ToSet(xTasksWaitingToReceive[m])

\* The values of the variables.
TypeOK ==
    /\ MayTake \in Programs
    /\ xMutexHolder \in [Mutexes -> Tasks \cup {NoTask}]
    /\ uxRecursiveCallCount \in [Mutexes -> 0 .. MaxDepth]
    /\ xTasksWaitingToReceive \in [Mutexes -> Seq(Tasks)]
    /\ uxPriority \in [Tasks -> Nat]
    /\ uxMutexesHeld \in [Tasks -> Nat]
    /\ ready \subseteq Tasks /\ uxTopReadyPriority \subseteq Nat
    /\ pxCurrentTCB \in Tasks \cup {NoTask}
    /\ pc \in [Tasks -> Steps]
    /\ xSemaphore \in [Tasks -> Mutexes \cup {NoMutex}]
    /\ xTicksToWait \in [Tasks -> {"none", "finite", "forever"}]
    /\ xTimeOut \in [Tasks -> {"unset", "running", "expired"}]
    /\ xInheritanceOccurred \in [Tasks -> BOOLEAN]

\* A task that holds no mutex runs at its base priority, whatever was inherited,
\* given back, or timed out meanwhile, and in whatever order.
PriorityRestored ==
    \A t \in Tasks :
        /\ uxMutexesHeld[t] = Cardinality(Held(t))
        /\ uxPriority[t] >= uxBasePriority[t]
        /\ Held(t) = {} => uxPriority[t] = uxBasePriority[t]

UsesOneMutex(t) == Cardinality(MayTake[t]) <= 1

\* The holder of a mutex that uses no other has at least the priority of those who
\* wait for it, however it came to hold it.  (With several mutexes it may not: a task
\* that keeps the processor for want of a yield can take the mutex again, before those
\* it was given to.)
HolderInherits ==
    \A m \in Mutexes : \A w \in Waiters(m) :
        LET h == xMutexHolder[m]
        IN  h # NoTask /\ UsesOneMutex(h) => uxPriority[h] >= uxPriority[w]

\* A task that uses one mutex only has inherited a priority just as long as a task
\* of that priority waits for the mutex, or is about to take its priority back
\* after a time-out.
InheritedForAReason ==
    \A h \in Tasks : UsesOneMutex(h) /\ uxPriority[h] > uxBasePriority[h] =>
        \E t \in Tasks \ {h} : xSemaphore[t] \in MayTake[h] /\ uxPriority[t] >= uxPriority[h]

\* While tasks wait for a free mutex one of those woken is on its way to it.
NoLostMutex ==
    \A m \in Mutexes : xMutexHolder[m] = NoTask /\ Waiters(m) # {} =>
        \E t \in ready : xSemaphore[t] = m /\ pc[t] # "disinherit"

\* Every ready list that holds a task has its bit.  If no task uses several mutexes
\* no other list has: the list of the highest bit is never empty (configASSERT in
\* taskSELECT_HIGHEST_PRIORITY_TASK).
ReadyBitsExact ==
    /\ NonEmpty(ready, uxPriority) \subseteq uxTopReadyPriority
    /\ (\A t \in Tasks : UsesOneMutex(t)) => uxTopReadyPriority \subseteq NonEmpty(ready, uxPriority)

\* The running task is a ready task of the highest priority: when a task gives up an
\* inherited priority with its last mutex "a context switch should occur [...] whether
\* a task is waiting on it or not" (xTaskPriorityDisinherit).
HighestRuns == \A t \in ready : uxPriority[t] <= CurrentPriority
=============================================================================
