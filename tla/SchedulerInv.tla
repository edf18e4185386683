---------------------------- MODULE SchedulerInv ----------------------------
(***************************************************************************)
(* What the scheduler keeps true.                                          *)
(***************************************************************************)
EXTENDS Scheduler

\* Type invariant of the scheduler's variables; in particular the tick count and
\* the item values stay in a TickType_t.
TypeOK ==
    /\ stateList \in [Tasks -> StateLists]
    /\ wakeTime \in [Tasks -> Ticks]
    /\ xEventList \in Seq(Tasks) /\ xPendingReadyList \subseteq Tasks
    /\ uxPriority \in [Tasks -> Priorities]
    /\ pxCurrentTCB \in Tasks /\ uxTopReadyPriority \in Priorities
    /\ uxSchedulerSuspended \in 0 .. MaxNesting /\ xYieldPending \in BOOLEAN
    /\ xTickCount \in Ticks /\ xPendedTicks \in 0 .. MaxPended
    /\ xNextTaskUnblockTime \in Ticks
    /\ pc \in [Tasks -> {"app", "delay", "paused", "resume", "resumeThenYield", "replay",
                         "replayThenYield", "yield", "suspended", "created", "abortCheck",
                         "abortRemove", "abortReady", "catchUp"}]
    /\ target \in [Tasks -> Tasks \cup {NoTask}]
    /\ remaining \in [Tasks -> Int]

\* prvAddCurrentTaskToDelayedList, the wrap of the tick count and the replay of
\* pended ticks: a task that is due in n ticks is in the delayed list if that is
\* before the tick count wraps, otherwise in the overflow list, with the tick
\* count of that moment as its value; and n is at least 1, that is, nobody
\* oversleeps and (taskSWITCH_DELAYED_LISTS asserts it) the delayed list is empty
\* when the tick count wraps.
WakeTimesRight ==
    \A t \in In("delayed") \cup In("overflow") :
        LET n == remaining[t] + xPendedTicks IN
        /\ n \in 1 .. portMAX_DELAY
        /\ wakeTime[t] = Later(xTickCount, n)
        /\ stateList[t] = "delayed" <=> xTickCount + n <= portMAX_DELAY

\* xTaskIncrementTick, called by the interrupt or by xTaskResumeAll for a pended
\* tick, wakes exactly the tasks that are due with that tick: nobody early,
\* nobody late, whatever lists, wraps and cached times are between.
TicksWakeExactly ==
    [][xTickCount' # xTickCount =>
         \A t \in In("delayed") \cup In("overflow") :
             stateList'[t] = "ready" <=> remaining[t] + xPendedTicks = 1]_vars

\* xNextTaskUnblockTime, which spares xTaskIncrementTick a look at the delayed
\* list, is never later than the first task of that list is due.
UnblockTimeNotLate == \A t \in In("delayed") : xNextTaskUnblockTime <= wakeTime[t]

\* An event list item is in a list only while the task waits, and in the pending
\* ready list only while the scheduler is suspended; a ready task is in neither,
\* although five functions move the two items of a task separately.
WaitersBlocked ==
    /\ NoDuplicates(xEventList)
    /\ ToSet(xEventList) \cap xPendingReadyList = {}
    /\ uxSchedulerSuspended = 0 => xPendingReadyList = {}
    /\ \A t \in ToSet(xEventList) \cup xPendingReadyList :
          \/ stateList[t] \in {"delayed", "overflow", "suspended"}
          \/ stateList[t] = "none" /\ \E u \in Tasks : pc[u] = "abortRemove" /\ target[u] = t

\* uxTopReadyPriority, from which vTaskSwitchContext searches downwards, is never
\* below a ready task.
TopReadyPriorityHigh == \A t \in In("ready") : uxPriority[t] <= uxTopReadyPriority

\* While the scheduler runs and no yield is pending or about to be made, the running
\* task is ready and of the highest priority.
HighestRuns ==
    (/\ uxSchedulerSuspended = 0 /\ ~xYieldPending
     /\ pc[pxCurrentTCB] \in {"app", "suspended"}
     /\ pc[pxCurrentTCB] = "suspended" => target[pxCurrentTCB] # pxCurrentTCB)
    => /\ stateList[pxCurrentTCB] = "ready"
       /\ \A t \in In("ready") : ~Outranks(t)

\* A task is in the middle of a call with the scheduler suspended only if it is the
\* running one.
Suspending == {"delay", "paused", "resume", "resumeThenYield", "abortCheck",
               "abortRemove", "abortReady", "catchUp"}
ControlOK ==
    /\ uxSchedulerSuspended > 0 <=> pc[pxCurrentTCB] \in Suspending
    /\ \A t \in Tasks \ {pxCurrentTCB} : pc[t] \in {"app", "yield", "suspended", "created"}

\* HighestRuns at every step: what is said of the running task does not hold while
\* it is on its way out of the ready list, and a task that outranks it runs soon.
Leaving == \/ pc[pxCurrentTCB] \in {"yield", "resumeThenYield", "replayThenYield"}
           \/ pc[pxCurrentTCB] = "suspended" /\ target[pxCurrentTCB] = pxCurrentTCB
RunningOK ==
    /\ Leaving \/ stateList[pxCurrentTCB] = "ready"
    /\ \A t \in In("ready") :
          Outranks(t) => \/ xYieldPending \/ Leaving
                         \/ pc[pxCurrentTCB] = "created" /\ target[pxCurrentTCB] = t

\* WaitersBlocked at every step: the task that xTaskAbortDelay works on is in no
\* state list, and after its second part in no event list.
AbortOK ==
    /\ pc[pxCurrentTCB] \in {"abortCheck", "abortRemove", "abortReady"}
          => target[pxCurrentTCB] \in Tasks
    /\ pc[pxCurrentTCB] \in {"abortRemove", "abortReady"}
          => stateList[target[pxCurrentTCB]] = "none"
    /\ pc[pxCurrentTCB] = "abortReady"
          => target[pxCurrentTCB] \notin ToSet(xEventList) \cup xPendingReadyList

\* The invariant that every step preserves.
InductiveInvariant ==
    /\ TypeOK /\ ControlOK /\ TopReadyPriorityHigh /\ RunningOK
    /\ WakeTimesRight /\ UnblockTimeNotLate /\ WaitersBlocked /\ AbortOK
=============================================================================
