------------------------------ MODULE Scheduler ------------------------------
(***************************************************************************)
(* The scheduler of Source/tasks.c on one core, preemptive, with time      *)
(* slicing: tasks that delay, wait for an event, change priorities,        *)
(* suspend, resume, create and delete one another, abort delays and        *)
(* suspend the scheduler, and interrupts that tick, signal the event and   *)
(* resume tasks.                                                           *)
(*                                                                         *)
(* A step is a critical section, or a stretch of code that only the        *)
(* running task can disturb; an interrupt may come between any two steps   *)
(* but those of one critical section (InCritical).  portYIELD switches at  *)
(* once.  Which ready task of the highest priority runs next is left open: *)
(* the rotation of the ready lists is the subject of List.tla.             *)
(***************************************************************************)
EXTENDS ListOps

CONSTANTS Tasks, Idle,            \* the idle task is one of them
          NoTask,
          configMAX_PRIORITIES,
          portMAX_DELAY,          \* the largest value of a TickType_t
          MaxPended,              \* bound of xPendedTicks
          MaxNesting,             \* bound of uxSchedulerSuspended
          Calls, IsrCalls         \* what tasks and interrupts may call

Priorities == 0 .. configMAX_PRIORITIES - 1
Ticks      == 0 .. portMAX_DELAY

AllCalls == {"yield", "delay", "wait", "signal", "prioritySet", "suspend", "resume",
             "delete", "create", "abortDelay", "suspendAll", "catchUpTicks"}

ASSUME SchedulerAssumption ==
    /\ IsFiniteSet(Tasks) /\ Idle \in Tasks /\ NoTask \notin Tasks
    /\ configMAX_PRIORITIES \in Nat \ {0}
    /\ portMAX_DELAY \in Nat \ {0}
    /\ MaxPended \in Nat /\ MaxNesting \in Nat \ {0}
    /\ Calls \subseteq AllCalls /\ IsrCalls \subseteq {"signal", "resume"}

VARIABLES
    stateList,              \* the list each task's xStateListItem is in
    wakeTime,               \* the value of that item in the two delayed lists
    xEventList,             \* the waiters of an event, as vListInsert orders them
    xPendingReadyList,
    uxPriority,
    pxCurrentTCB, uxTopReadyPriority,
    uxSchedulerSuspended, xYieldPending,
    xTickCount, xPendedTicks, xNextTaskUnblockTime,
    pc, target,             \* where each task is in which call, about which task
    remaining               \* history: ticks until a delayed task is due

items     == <<stateList, wakeTime, remaining>>
events    == <<xEventList, xPendingReadyList>>
switching == <<pxCurrentTCB, uxTopReadyPriority, xYieldPending>>
time      == <<xTickCount, xPendedTicks>>
control   == <<pc, target>>
vars == <<items, events, uxPriority, switching, uxSchedulerSuspended, time,
          xNextTaskUnblockTime, control>>

StateLists == {"ready", "delayed", "overflow", "suspended", "terminating",
               "none", "deleted"}

-----------------------------------------------------------------------------
(***************************************************************************)
(* Lists and priorities                                                    *)
(***************************************************************************)
In(list) == {t \in Tasks : stateList[t] = list}
Exists(t) == stateList[t] \notin {"terminating", "deleted"}

\* Event list items carry configMAX_PRIORITIES - uxPriority.
EventValue == [t \in Tasks |-> configMAX_PRIORITIES - uxPriority[t]]

\* The state list items of the tasks in S move to another list.  The value of an
\* item that leaves the delayed lists is not read again and dropped.
Move(S, list) ==
    /\ stateList' = [t \in Tasks |-> IF t \in S THEN list ELSE stateList[t]]
    /\ wakeTime' = [t \in Tasks |-> IF t \in S THEN 0 ELSE wakeTime[t]]
    /\ remaining' = [t \in Tasks |-> IF t \in S THEN 0 ELSE remaining[t]]

\* Their event list items leave the list they are in.
LeaveEvents(S) ==
    /\ IsWithout(xEventList', xEventList, S)
    /\ xPendingReadyList' = xPendingReadyList \ S

\* prvTaskIsTaskSuspended.
IsSuspended(t) == /\ stateList[t] = "suspended"
                  /\ t \notin xPendingReadyList \cup ToSet(xEventList)

\* eTaskGetState(t) = eBlocked.
IsBlocked(t) == \/ stateList[t] \in {"delayed", "overflow"}
                \/ /\ stateList[t] = "suspended"
                   /\ t \in xPendingReadyList \cup ToSet(xEventList)

\* taskRECORD_READY_PRIORITY of the tasks in S makes uxTopReadyPriority top.
Recorded(top, S, priority) ==
    /\ uxTopReadyPriority <= top
    /\ \A t \in S : priority[t] <= top
    /\ top = uxTopReadyPriority \/ \E t \in S : top = priority[t]

\* vTaskSwitchContext, with uxTopReadyPriority at top: the highest list that is
\* not empty is searched from there downwards.
SwitchContext(ready, priority, top) ==
    IF uxSchedulerSuspended # 0
    THEN /\ xYieldPending' = TRUE
         /\ uxTopReadyPriority' = top
         /\ UNCHANGED pxCurrentTCB
    ELSE /\ xYieldPending' = FALSE
         /\ \E t \in ready :
              /\ priority[t] <= top
              /\ \A u \in ready : priority[u] <= top => priority[u] <= priority[t]
              /\ pxCurrentTCB' = t
              /\ uxTopReadyPriority' = priority[t]

\* No switch now.
RunOn(top, pending) == /\ uxTopReadyPriority' = top
                       /\ xYieldPending' = pending
                       /\ UNCHANGED pxCurrentTCB

\* Tasks S become ready; whether the running task yields then.
Ready(S, yields, pending) ==
    \E top \in Priorities :
        /\ Recorded(top, S, uxPriority)
        /\ IF yields THEN SwitchContext(In("ready") \cup S, uxPriority, top)
                     ELSE RunOn(top, pending)

Outranks(t)     == uxPriority[t] > uxPriority[pxCurrentTCB]
OutranksOrTies(t) == uxPriority[t] >= uxPriority[pxCurrentTCB]

\* prvResetNextTaskUnblockTime, when the tasks in waiting are the delayed list.
ResetNextTaskUnblockTime(waiting) ==
    IF waiting = {}
    THEN xNextTaskUnblockTime' = portMAX_DELAY
    ELSE \E t \in waiting : /\ \A u \in waiting : wakeTime[t] <= wakeTime[u]
                            /\ xNextTaskUnblockTime' = wakeTime[t]

\* Mutant: the tick count does not wrap.
LaterWithoutWrap(now, n) == now + n

\* The tick count n ticks on.
Later(now, n) == IF now + n > portMAX_DELAY THEN now + n - portMAX_DELAY - 1 ELSE now + n

\* History: n ticks have come, and the tasks in woken got ready.  (The bound is not
\* reached: who is due by more than the pended ticks has been woken.)
TicksCome(n, woken) ==
    remaining' = [t \in Tasks |->
                    IF stateList[t] \notin {"delayed", "overflow"} \/ t \in woken THEN 0
                    ELSE IF remaining[t] - n < -MaxPended THEN -MaxPended
                    ELSE remaining[t] - n]

-----------------------------------------------------------------------------
(***************************************************************************)
(* Calls of the running task                                               *)
(***************************************************************************)
InCritical == pc[pxCurrentTCB] \in {"replay", "replayThenYield"}

At(t, step) == t = pxCurrentTCB /\ pc[t] = step
GoTo(t, step) == pc' = [pc EXCEPT ![t] = step] /\ UNCHANGED target

\* The running task, in its own code, makes a call.
Called(t, call) == call \in Calls /\ At(t, "app") /\ uxSchedulerSuspended = 0

\* vTaskSuspendAll at the start of a call.
SuspendAllIn(t, step) == /\ uxSchedulerSuspended' = uxSchedulerSuspended + 1
                         /\ GoTo(t, step)

\* taskYIELD.
TaskYield(t) ==
    /\ Called(t, "yield")
    /\ SwitchContext(In("ready"), uxPriority, uxTopReadyPriority)
    /\ UNCHANGED <<items, events, uxPriority, uxSchedulerSuspended, time,
                   xNextTaskUnblockTime, control>>

\* vTaskDelay, and a call that waits for the event, suspend the scheduler first.
EnterDelay(t) ==
    /\ Called(t, "delay") \/ Called(t, "wait")
    /\ t # Idle
    /\ SuspendAllIn(t, "delay")
    /\ UNCHANGED <<items, events, uxPriority, switching, time, xNextTaskUnblockTime>>

\* Mutant: xNextTaskUnblockTime is not brought forward.
AddToDelayedListSilently(t, n) ==
    LET xTimeToWake == Later(xTickCount, n) IN
    /\ wakeTime' = [wakeTime EXCEPT ![t] = xTimeToWake]
    /\ remaining' = [remaining EXCEPT ![t] = n - xPendedTicks]
    /\ stateList' = [stateList EXCEPT ![t] = IF xTimeToWake < xTickCount
                                             THEN "overflow" ELSE "delayed"]
    /\ UNCHANGED xNextTaskUnblockTime

\* prvAddCurrentTaskToDelayedList for n ticks.  The caller means n ticks from its
\* call; those that have come since are pended.
AddToDelayedList(t, n) ==
    LET xTimeToWake == Later(xTickCount, n) IN
    /\ wakeTime' = [wakeTime EXCEPT ![t] = xTimeToWake]
    /\ remaining' = [remaining EXCEPT ![t] = n - xPendedTicks]
    /\ IF xTimeToWake < xTickCount
       THEN /\ stateList' = [stateList EXCEPT ![t] = "overflow"]
            /\ UNCHANGED xNextTaskUnblockTime
       ELSE /\ stateList' = [stateList EXCEPT ![t] = "delayed"]
            /\ xNextTaskUnblockTime' = IF xTimeToWake < xNextTaskUnblockTime
                                       THEN xTimeToWake ELSE xNextTaskUnblockTime

\* vTaskDelay: the scheduler is suspended, the task takes itself off the ready
\* list for n ticks.
Delay(t) ==
    /\ "delay" \in Calls /\ At(t, "delay")
    /\ \E n \in 1 .. portMAX_DELAY : AddToDelayedList(t, n)
    /\ GoTo(t, "resumeThenYield")
    /\ UNCHANGED <<events, uxPriority, switching, uxSchedulerSuspended, time>>

\* vTaskPlaceOnEventList; a wait of portMAX_DELAY is for ever, in the suspended
\* list.
Wait(t) ==
    /\ "wait" \in Calls /\ At(t, "delay")
    /\ xEventList' = ListInsert(xEventList, EventValue, t)
    /\ \/ \E n \in 1 .. portMAX_DELAY - 1 : AddToDelayedList(t, n)
       \/ Move({t}, "suspended") /\ UNCHANGED xNextTaskUnblockTime
    /\ GoTo(t, "resumeThenYield")
    /\ UNCHANGED <<xPendingReadyList, uxPriority, switching, uxSchedulerSuspended, time>>

\* vTaskSuspendAll by the application, which may nest; ResumeAll ends it.
SuspendAll(t) ==
    /\ "suspendAll" \in Calls /\ t # Idle
    /\ At(t, "app") \/ At(t, "paused")
    /\ uxSchedulerSuspended < MaxNesting
    /\ SuspendAllIn(t, "paused")
    /\ UNCHANGED <<items, events, uxPriority, switching, time, xNextTaskUnblockTime>>

\* xTaskResumeAll up to the ticks: the pending ready list is emptied.
ResumeAll(t) ==
    /\ At(t, "resume") \/ At(t, "resumeThenYield") \/ At(t, "paused")
    /\ uxSchedulerSuspended' = uxSchedulerSuspended - 1
    /\ IF uxSchedulerSuspended > 1
       THEN UNCHANGED <<items, events, switching, xNextTaskUnblockTime, control>>
       ELSE /\ GoTo(t, IF pc[t] = "resumeThenYield" THEN "replayThenYield" ELSE "replay")
            /\ Move(xPendingReadyList, "ready")
            /\ Ready(xPendingReadyList, FALSE,
                     xYieldPending \/ \E u \in xPendingReadyList : OutranksOrTies(u))
            /\ xPendingReadyList' = {} /\ UNCHANGED xEventList
            /\ IF xPendingReadyList = {}
               THEN UNCHANGED xNextTaskUnblockTime
               ELSE ResetNextTaskUnblockTime(In("delayed") \ xPendingReadyList)
    /\ UNCHANGED <<uxPriority, time>>

\* One tick with the scheduler running, in xTaskIncrementTick: when the tick count
\* wraps the delayed lists change places (taskSWITCH_DELAYED_LISTS); then the
\* tasks that are due become ready, unless xNextTaskUnblockTime says there are
\* none.
Now == Later(xTickCount, 1)

DelayedNow == IF Now = 0 THEN In("overflow") ELSE In("delayed")

Looks == Now = 0 \/ Now >= xNextTaskUnblockTime

\* Mutant: a task whose wake time is this tick is left for the next one.
DueOneLate == IF Looks THEN {t \in DelayedNow : wakeTime[t] < Now} ELSE {}

Due == IF Looks THEN {t \in DelayedNow : wakeTime[t] <= Now} ELSE {}

\* Mutant: the lists do not change places.
MoveDueWithoutSwitch ==
    /\ stateList' = [t \in Tasks |-> IF t \in Due THEN "ready" ELSE stateList[t]]
    /\ wakeTime' = [t \in Tasks |-> IF t \in Due THEN 0 ELSE wakeTime[t]]

MoveDue ==
    /\ stateList' = [t \in Tasks |-> IF t \in Due THEN "ready"
                                     ELSE IF Now # 0 THEN stateList[t]
                                     ELSE CASE stateList[t] = "delayed"  -> "overflow"
                                            [] stateList[t] = "overflow" -> "delayed"
                                            [] OTHER -> stateList[t]]
    /\ wakeTime' = [t \in Tasks |-> IF t \in Due THEN 0 ELSE wakeTime[t]]

IncrementTick ==
    /\ xTickCount' = Now
    /\ MoveDue
    /\ LeaveEvents(Due)
    /\ IF Looks THEN ResetNextTaskUnblockTime(DelayedNow \ Due)
                ELSE UNCHANGED xNextTaskUnblockTime

\* Its result: a task that became ready outranks the running one, or shares its
\* priority (time slicing), or a yield is pending.
SwitchRequired ==
    \/ \E t \in Due : Outranks(t)
    \/ Cardinality({t \in In("ready") \cup Due :
                       uxPriority[t] = uxPriority[pxCurrentTCB]}) > 1
    \/ xYieldPending

\* The loop of xTaskResumeAll: the ticks that came while the scheduler was
\* suspended.
ReplayTick(t) ==
    /\ t = pxCurrentTCB /\ InCritical
    /\ xPendedTicks > 0
    /\ xPendedTicks' = xPendedTicks - 1
    /\ IncrementTick
    /\ Ready(Due, FALSE, SwitchRequired)
    /\ TicksCome(0, Due)
    /\ UNCHANGED <<uxPriority, uxSchedulerSuspended, control>>

\* The end of xTaskResumeAll; a call that blocks yields unless that has happened.
ResumeEnd(t) ==
    /\ t = pxCurrentTCB /\ InCritical
    /\ xPendedTicks = 0
    /\ IF xYieldPending
       THEN /\ SwitchContext(In("ready"), uxPriority, uxTopReadyPriority)
            /\ GoTo(t, "app")
       ELSE /\ UNCHANGED switching
            /\ GoTo(t, IF pc[t] = "replayThenYield" THEN "yield" ELSE "app")
    /\ UNCHANGED <<items, events, uxPriority, uxSchedulerSuspended, time, xNextTaskUnblockTime>>

\* portYIELD at the end of a call.
Yield(t) ==
    /\ At(t, "yield")
    /\ SwitchContext(In("ready"), uxPriority, uxTopReadyPriority)
    /\ GoTo(t, "app")
    /\ UNCHANGED <<items, events, uxPriority, uxSchedulerSuspended, time, xNextTaskUnblockTime>>

\* xTaskRemoveFromEventList by a task, in a critical section, which yields if the
\* task it made ready has a higher priority.
Signal(t) ==
    /\ Called(t, "signal") /\ xEventList # <<>>
    /\ LET u == Head(xEventList) IN
        /\ Move({u}, "ready")
        /\ xEventList' = Tail(xEventList)
        /\ Ready({u}, Outranks(u), xYieldPending)
    /\ UNCHANGED <<xPendingReadyList, uxPriority, uxSchedulerSuspended, time,
                   xNextTaskUnblockTime, control>>

\* Mutant: a task that lowers its own priority runs on.
PrioritySetWithoutYield(t) ==
    /\ Called(t, "prioritySet")
    /\ \E u \in Tasks \ {Idle} : \E p \in Priorities \ {uxPriority[u]} :
        /\ Exists(u)
        /\ uxPriority' = [uxPriority EXCEPT ![u] = p]
        /\ \E top \in Priorities :
            /\ Recorded(top, {u} \cap In("ready"), uxPriority')
            /\ IF p > uxPriority[u] /\ u # t /\ p >= uxPriority[t]
               THEN SwitchContext(In("ready"), uxPriority', top)
               ELSE RunOn(top, xYieldPending)
    /\ UNCHANGED <<items, events, uxSchedulerSuspended, time, xNextTaskUnblockTime, control>>

\* Mutant: the ready list of the new priority is not recorded.
PrioritySetUnrecorded(t) ==
    /\ Called(t, "prioritySet")
    /\ \E u \in Tasks \ {Idle} : \E p \in Priorities \ {uxPriority[u]} :
        /\ Exists(u)
        /\ uxPriority' = [uxPriority EXCEPT ![u] = p]
        /\ IF \/ p > uxPriority[u] /\ u # t /\ p >= uxPriority[t]
              \/ p < uxPriority[u] /\ u = t
           THEN SwitchContext(In("ready"), uxPriority', uxTopReadyPriority)
           ELSE RunOn(uxTopReadyPriority, xYieldPending)
    /\ UNCHANGED <<items, events, uxSchedulerSuspended, time, xNextTaskUnblockTime, control>>

\* vTaskPrioritySet: a ready task moves to the list of its new priority, a waiting
\* one stays where it is in its event list.
PrioritySet(t) ==
    /\ Called(t, "prioritySet")
    /\ \E u \in Tasks \ {Idle} : \E p \in Priorities \ {uxPriority[u]} :
        /\ Exists(u)
        /\ uxPriority' = [uxPriority EXCEPT ![u] = p]
        /\ \E top \in Priorities :
            /\ Recorded(top, {u} \cap In("ready"), uxPriority')
            /\ IF \/ p > uxPriority[u] /\ u # t /\ p >= uxPriority[t]
                  \/ p < uxPriority[u] /\ u = t
               THEN SwitchContext(In("ready"), uxPriority', top)
               ELSE RunOn(top, xYieldPending)
    /\ UNCHANGED <<items, events, uxSchedulerSuspended, time, xNextTaskUnblockTime, control>>

\* vTaskSuspend, its first critical section; of the caller itself, too.
Suspend(t) ==
    /\ Called(t, "suspend")
    /\ \E u \in Tasks \ {Idle} :
        /\ Exists(u)
        /\ Move({u}, "suspended") /\ LeaveEvents({u})
        /\ target' = [target EXCEPT ![t] = u]
    /\ pc' = [pc EXCEPT ![t] = "suspended"]
    /\ UNCHANGED <<uxPriority, switching, uxSchedulerSuspended, time, xNextTaskUnblockTime>>

\* The second one, and the end of the call.
SuspendEnd(t) ==
    /\ At(t, "suspended")
    /\ ResetNextTaskUnblockTime(In("delayed"))
    /\ pc' = [pc EXCEPT ![t] = IF target[t] = t THEN "yield" ELSE "app"]
    /\ target' = [target EXCEPT ![t] = NoTask]
    /\ UNCHANGED <<items, events, uxPriority, switching, uxSchedulerSuspended, time>>

\* vTaskResume.
Resume(t) ==
    /\ Called(t, "resume")
    /\ \E u \in Tasks \ {t} :
        /\ IsSuspended(u)
        /\ Move({u}, "ready")
        /\ Ready({u}, OutranksOrTies(u), xYieldPending)
    /\ UNCHANGED <<events, uxPriority, uxSchedulerSuspended, time, xNextTaskUnblockTime, control>>

\* vTaskDelete of another task, or of the caller, which leaves itself to the idle
\* task.
Delete(t) ==
    /\ Called(t, "delete")
    /\ \E u \in Tasks \ {Idle} :
        /\ Exists(u)
        /\ LeaveEvents({u})
        /\ IF u = t
           THEN /\ Move({t}, "terminating") /\ GoTo(t, "yield")
                /\ UNCHANGED xNextTaskUnblockTime
           ELSE /\ Move({u}, "deleted")
                /\ ResetNextTaskUnblockTime(In("delayed") \ {u})
                /\ pc' = [pc EXCEPT ![u] = "app"] /\ target' = [target EXCEPT ![u] = NoTask]
    /\ UNCHANGED <<uxPriority, switching, uxSchedulerSuspended, time>>

\* prvCheckTasksWaitingTermination, by the idle task.
Cleanup(t) ==
    /\ t = Idle /\ At(t, "app")
    /\ \E u \in In("terminating") : Move({u}, "deleted")
    /\ UNCHANGED <<events, uxPriority, switching, uxSchedulerSuspended, time,
                   xNextTaskUnblockTime, control>>

\* xTaskCreate (prvAddNewTaskToReadyList) ...
Create(t) ==
    /\ Called(t, "create")
    /\ \E u \in In("deleted"), p \in Priorities :
        /\ uxPriority' = [uxPriority EXCEPT ![u] = p]
        /\ Move({u}, "ready")
        /\ \E top \in Priorities : Recorded(top, {u}, uxPriority') /\ RunOn(top, xYieldPending)
        /\ target' = [target EXCEPT ![t] = u]
        /\ pc' = [pc EXCEPT ![t] = "created", ![u] = "app"]
    /\ UNCHANGED <<events, uxSchedulerSuspended, time, xNextTaskUnblockTime>>

\* ... and, after its critical section, the yield; should the new task have been
\* deleted by then, its priority is read from freed memory.
CreateEnd(t) ==
    /\ At(t, "created")
    /\ \E yields \in IF stateList[target[t]] = "deleted"
                    THEN BOOLEAN ELSE {uxPriority[t] < uxPriority[target[t]]} :
        IF yields
        THEN SwitchContext(In("ready"), uxPriority, uxTopReadyPriority)
        ELSE UNCHANGED switching
    /\ pc' = [pc EXCEPT ![t] = "app"] /\ target' = [target EXCEPT ![t] = NoTask]
    /\ UNCHANGED <<items, events, uxPriority, uxSchedulerSuspended, time, xNextTaskUnblockTime>>

\* xTaskAbortDelay: the scheduler is suspended,
EnterAbort(t) ==
    /\ Called(t, "abortDelay")
    /\ \E u \in Tasks \ {t} :
        Exists(u) /\ target' = [target EXCEPT ![t] = u]
    /\ pc' = [pc EXCEPT ![t] = "abortCheck"]
    /\ uxSchedulerSuspended' = uxSchedulerSuspended + 1
    /\ UNCHANGED <<items, events, uxPriority, switching, time, xNextTaskUnblockTime>>

\* the state list item of a blocked task removed,
AbortCheck(t) ==
    /\ At(t, "abortCheck")
    /\ LET u == target[t] IN
        IF IsBlocked(u)
        THEN Move({u}, "none") /\ GoTo(t, "abortRemove")
        ELSE /\ UNCHANGED items
             /\ pc' = [pc EXCEPT ![t] = "resume"] /\ target' = [target EXCEPT ![t] = NoTask]
    /\ UNCHANGED <<events, uxPriority, switching, uxSchedulerSuspended, time, xNextTaskUnblockTime>>

\* Mutant: an event list item that an interrupt moved meanwhile is forgotten.
AbortRemoveFromEventOnly(t) ==
    /\ At(t, "abortRemove")
    /\ IsWithout(xEventList', xEventList, {target[t]})
    /\ GoTo(t, "abortReady")
    /\ UNCHANGED <<items, xPendingReadyList, uxPriority, switching, uxSchedulerSuspended,
                   time, xNextTaskUnblockTime>>

\* then in a critical section its event list item, if that is in a list by now,
AbortRemove(t) ==
    /\ At(t, "abortRemove")
    /\ LeaveEvents({target[t]})
    /\ GoTo(t, "abortReady")
    /\ UNCHANGED <<items, uxPriority, switching, uxSchedulerSuspended, time, xNextTaskUnblockTime>>

\* and the task put into its ready list.
AbortReady(t) ==
    /\ At(t, "abortReady")
    /\ Move({target[t]}, "ready")
    /\ Ready({target[t]}, FALSE, xYieldPending \/ Outranks(target[t]))
    /\ pc' = [pc EXCEPT ![t] = "resume"] /\ target' = [target EXCEPT ![t] = NoTask]
    /\ UNCHANGED <<events, uxPriority, uxSchedulerSuspended, time, xNextTaskUnblockTime>>

\* xTaskCatchUpTicks.
EnterCatchUp(t) ==
    /\ Called(t, "catchUpTicks")
    /\ SuspendAllIn(t, "catchUp")
    /\ UNCHANGED <<items, events, uxPriority, switching, time, xNextTaskUnblockTime>>

CatchUp(t) ==
    /\ At(t, "catchUp")
    /\ \E n \in 0 .. MaxPended - xPendedTicks :
        xPendedTicks' = xPendedTicks + n /\ TicksCome(n, {})
    /\ GoTo(t, "resume")
    /\ UNCHANGED <<stateList, wakeTime, events, uxPriority, switching,
                   uxSchedulerSuspended, xTickCount, xNextTaskUnblockTime>>

-----------------------------------------------------------------------------
(***************************************************************************)
(* Interrupts                                                              *)
(***************************************************************************)

\* The tick interrupt: xTaskIncrementTick, and the switch it may ask for.
Tick ==
    /\ ~InCritical
    /\ IF uxSchedulerSuspended = 0
       THEN /\ IncrementTick
            /\ Ready(Due, SwitchRequired, xYieldPending)
            /\ TicksCome(1, Due)
            /\ UNCHANGED xPendedTicks
       ELSE /\ xPendedTicks < MaxPended
            /\ xPendedTicks' = xPendedTicks + 1
            /\ TicksCome(1, {})
            /\ UNCHANGED <<stateList, wakeTime, events, switching, xTickCount, xNextTaskUnblockTime>>
    /\ UNCHANGED <<uxPriority, uxSchedulerSuspended, control>>

\* xTaskRemoveFromEventList in an interrupt, which may ignore the result.
SignalFromISR ==
    /\ ~InCritical /\ "signal" \in IsrCalls /\ xEventList # <<>>
    /\ LET u == Head(xEventList) IN
        /\ xEventList' = Tail(xEventList)
        /\ \E woken \in {FALSE, Outranks(u)} :
            IF uxSchedulerSuspended = 0
            THEN /\ Move({u}, "ready")
                 /\ Ready({u}, woken, xYieldPending \/ Outranks(u))
                 /\ UNCHANGED xPendingReadyList
            ELSE /\ xPendingReadyList' = xPendingReadyList \cup {u}
                 /\ RunOn(uxTopReadyPriority, xYieldPending \/ Outranks(u))
                 /\ UNCHANGED items
    /\ UNCHANGED <<uxPriority, uxSchedulerSuspended, time, xNextTaskUnblockTime, control>>

\* xTaskResumeFromISR, likewise.
ResumeFromISR ==
    /\ ~InCritical /\ "resume" \in IsrCalls
    /\ \E u \in Tasks :
        /\ IsSuspended(u)
        /\ IF uxSchedulerSuspended = 0
           THEN /\ Move({u}, "ready")
                /\ \E woken \in {FALSE, OutranksOrTies(u)} :
                      Ready({u}, woken, xYieldPending \/ OutranksOrTies(u))
                /\ UNCHANGED events
           ELSE /\ xPendingReadyList' = xPendingReadyList \cup {u}
                /\ UNCHANGED <<items, switching, xEventList>>
    /\ UNCHANGED <<uxPriority, uxSchedulerSuspended, time, xNextTaskUnblockTime, control>>

-----------------------------------------------------------------------------
\* The scheduler has just been started, at any tick count.
Init ==
    /\ stateList = [t \in Tasks |-> "ready"]
    /\ wakeTime = [t \in Tasks |-> 0] /\ remaining = [t \in Tasks |-> 0]
    /\ xEventList = <<>> /\ xPendingReadyList = {}
    /\ uxPriority \in [Tasks -> Priorities] /\ uxPriority[Idle] = 0
    /\ pxCurrentTCB \in Tasks /\ \A t \in Tasks : uxPriority[t] <= uxPriority[pxCurrentTCB]
    /\ uxTopReadyPriority = uxPriority[pxCurrentTCB]
    /\ uxSchedulerSuspended = 0 /\ xYieldPending = FALSE
    /\ xTickCount \in Ticks /\ xPendedTicks = 0 /\ xNextTaskUnblockTime = portMAX_DELAY
    /\ pc = [t \in Tasks |-> "app"] /\ target = [t \in Tasks |-> NoTask]

Step(t) == \/ TaskYield(t) \/ EnterDelay(t) \/ Delay(t) \/ Wait(t)
           \/ SuspendAll(t) \/ ResumeAll(t) \/ ReplayTick(t) \/ ResumeEnd(t) \/ Yield(t)
           \/ Signal(t) \/ PrioritySet(t) \/ Suspend(t) \/ SuspendEnd(t) \/ Resume(t)
           \/ Delete(t) \/ Cleanup(t) \/ Create(t) \/ CreateEnd(t)
           \/ EnterAbort(t) \/ AbortCheck(t) \/ AbortRemove(t) \/ AbortReady(t)
           \/ EnterCatchUp(t) \/ CatchUp(t)

Next == Tick \/ SignalFromISR \/ ResumeFromISR \/ \E t \in Tasks : Step(t)

Spec == Init /\ [][Next]_vars
=============================================================================
