------------------------------ MODULE BlockTimes ------------------------------
(***************************************************************************)
(* Two tasks that measure time against the tick count of Source/tasks.c.   *)
(* One waits in rounds (vTaskSetTimeOutState, xTaskCheckForTimeOut): it    *)
(* notes the time once and asks after every round whether its time is over *)
(* and how much is left.  The other is periodic (xTaskDelayUntil): it      *)
(* delays until the time of its previous wake-up plus a period, or not at  *)
(* all if that has passed.  The tick count, the count of its overflows and *)
(* the wake times wrap.                                                    *)
(***************************************************************************)
EXTENDS TickType

CONSTANTS MaxOverflows,     \* the largest value of xNumOfOverflows
          MaxLate,          \* bound: ticks between two looks at the time
          MaxLag            \* bound: ticks the periodic task may be off its wake time

ASSUME BlockTimesAssumption == /\ MaxOverflows \in Nat \ {0}
                               /\ MaxLate \in Nat /\ MaxLag \in Nat

VARIABLES xTickCount, xNumOfOverflows,
          \* of the task that waits in rounds
          xTimeOnEntering, xOverflowCount,  \* the TimeOut_t of its call
          xTicksToWait,                     \* what is left, as far as the call knows
          ucDelayAborted,
          xReturn,           \* result of the last xTaskCheckForTimeOut
          age,               \* history: ticks since the TimeOut_t was updated
          due,               \* history: ticks until the time is over, from 0 on: it is
          \* of the periodic task
          pxPreviousWakeTime,
          ticksToDelay,      \* while it is blocked, otherwise 0
          lag,               \* history: ticks since pxPreviousWakeTime, below 0 before it
          lostBeat           \* history: a delay was aborted, or the task has been a
                             \* turn of the tick count late

timeOut  == <<xTimeOnEntering, xOverflowCount>>
waiter   == <<timeOut, xTicksToWait, ucDelayAborted, xReturn, age, due>>
periodic == <<pxPreviousWakeTime, ticksToDelay, lag, lostBeat>>
vars == <<xTickCount, xNumOfOverflows, waiter, periodic>>

Ticks == 0 .. portMAX_DELAY

\* Unsigned addition and subtraction of TickType_t.
Plus(s, t)  == IF s + t > portMAX_DELAY THEN s + t - portMAX_DELAY - 1 ELSE s + t
Minus(s, t) == IF s < t THEN s - t + portMAX_DELAY + 1 ELSE s - t

Delayed == ticksToDelay # 0

\* xTaskIncrementTick, as far as it counts; the periodic task's delay may end.
Tick ==
    /\ age < MaxLate /\ lag < MaxLag
    /\ xTickCount' = Plus(xTickCount, 1)
    /\ xNumOfOverflows' = IF xTickCount' # 0 THEN xNumOfOverflows
                          ELSE IF xNumOfOverflows = MaxOverflows THEN 0
                          ELSE xNumOfOverflows + 1
    /\ age' = age + 1
    /\ due' = IF due > 0 THEN due - 1 ELSE 0
    /\ ticksToDelay' = IF Delayed THEN ticksToDelay - 1 ELSE 0
    /\ lag' = lag + 1
    /\ lostBeat' = (lostBeat \/ lag >= portMAX_DELAY)
    /\ UNCHANGED <<timeOut, xTicksToWait, ucDelayAborted, xReturn, pxPreviousWakeTime>>

-----------------------------------------------------------------------------
(***************************************************************************)
(* A call that waits in rounds                                             *)
(***************************************************************************)

\* vTaskInternalSetTimeOutState.
SetTimeOutState == /\ xOverflowCount' = xNumOfOverflows
                   /\ xTimeOnEntering' = xTickCount
                   /\ age' = 0

\* vTaskSetTimeOutState at the start of a call with a block time of n ticks.
Start ==
    /\ \E n \in 1 .. portMAX_DELAY : xTicksToWait' = n /\ due' = n
    /\ SetTimeOutState
    /\ xReturn' = FALSE
    /\ UNCHANGED <<xTickCount, xNumOfOverflows, ucDelayAborted, periodic>>

\* xTaskAbortDelay of the waiting task.
Abort == /\ ucDelayAborted' = TRUE
         /\ UNCHANGED <<xTickCount, xNumOfOverflows, timeOut, xTicksToWait, xReturn, age, due,
                        periodic>>

\* Mutant: a time that has come round to the moment of entry is taken to be early.
WentRoundStrictly == /\ xNumOfOverflows # xOverflowCount
                     /\ xTickCount > xTimeOnEntering

\* The tick count has gone round past the moment of entry.
WentRound == /\ xNumOfOverflows # xOverflowCount
             /\ xTickCount >= xTimeOnEntering

xElapsedTime == Minus(xTickCount, xTimeOnEntering)

\* xTaskCheckForTimeOut.
CheckForTimeOut ==
    /\ ~xReturn
    /\ \/ /\ ucDelayAborted
          /\ ucDelayAborted' = FALSE /\ xReturn' = TRUE
          /\ UNCHANGED <<timeOut, xTicksToWait, age>>
       \/ /\ ~ucDelayAborted /\ xTicksToWait = portMAX_DELAY
          /\ xReturn' = FALSE
          /\ UNCHANGED <<timeOut, xTicksToWait, ucDelayAborted, age>>
       \/ /\ ~ucDelayAborted /\ xTicksToWait # portMAX_DELAY
          /\ WentRound \/ xElapsedTime >= xTicksToWait
          /\ xTicksToWait' = 0 /\ xReturn' = TRUE
          /\ UNCHANGED <<timeOut, ucDelayAborted, age>>
       \/ /\ ~ucDelayAborted /\ xTicksToWait # portMAX_DELAY
          /\ ~WentRound /\ xElapsedTime < xTicksToWait
          /\ xTicksToWait' = xTicksToWait - xElapsedTime
          /\ SetTimeOutState
          /\ xReturn' = FALSE
          /\ UNCHANGED ucDelayAborted
    /\ UNCHANGED <<xTickCount, xNumOfOverflows, due, periodic>>

-----------------------------------------------------------------------------
(***************************************************************************)
(* The periodic task                                                       *)
(***************************************************************************)

\* Mutant: the wrap of the wake time is not looked at.
ShouldDelayUnwrapped(xTimeToWake) == xTimeToWake > xTickCount

\* Mutant: one wrap is enough to delay.
ShouldDelayEither(xTimeToWake) ==
    xTimeToWake < pxPreviousWakeTime \/ xTimeToWake > xTickCount

\* xShouldDelay: the wake time is ahead.  If the tick count is below the previous
\* wake time it is taken to have wrapped.
ShouldDelay(xTimeToWake) ==
    IF xTickCount < pxPreviousWakeTime
    THEN xTimeToWake < pxPreviousWakeTime /\ xTimeToWake > xTickCount
    ELSE xTimeToWake < pxPreviousWakeTime \/ xTimeToWake > xTickCount

\* xTaskDelayUntil with a period of xTimeIncrement ticks.
DelayUntil(xTimeIncrement) ==
    /\ ~Delayed /\ lag >= -MaxLag
    /\ LET xTimeToWake == Plus(pxPreviousWakeTime, xTimeIncrement) IN
        /\ ticksToDelay' = IF ShouldDelay(xTimeToWake)
                           THEN Minus(xTimeToWake, xTickCount) ELSE 0
        /\ pxPreviousWakeTime' = xTimeToWake
    /\ lag' = lag - xTimeIncrement
    /\ UNCHANGED <<xTickCount, xNumOfOverflows, waiter, lostBeat>>

\* xTaskAbortDelay of the periodic task.
AbortDelay == /\ Delayed
              /\ ticksToDelay' = 0 /\ lostBeat' = TRUE
              /\ UNCHANGED <<xTickCount, xNumOfOverflows, waiter, pxPreviousWakeTime, lag>>

-----------------------------------------------------------------------------
\* At any tick and overflow count; pxPreviousWakeTime is initialised with the
\* current time.
Init == /\ xTickCount \in Ticks /\ xNumOfOverflows \in 0 .. MaxOverflows
        /\ xTimeOnEntering = xTickCount /\ xOverflowCount = xNumOfOverflows
        /\ xTicksToWait = 0 /\ due = 0 /\ age = 0
        /\ ucDelayAborted = FALSE /\ xReturn = FALSE
        /\ pxPreviousWakeTime = xTickCount
        /\ ticksToDelay = 0 /\ lag = 0 /\ lostBeat = FALSE

Next == \/ Tick \/ Start \/ Abort \/ CheckForTimeOut \/ AbortDelay
        \/ \E n \in 1 .. portMAX_DELAY : DelayUntil(n)

Spec == Init /\ [][Next]_vars

-----------------------------------------------------------------------------
\* Type invariant: tick counts and block times stay in a TickType_t.
TypeOK ==
    /\ xTickCount \in Ticks /\ xTimeOnEntering \in Ticks /\ xTicksToWait \in Ticks
    /\ xNumOfOverflows \in 0 .. MaxOverflows /\ xOverflowCount \in 0 .. MaxOverflows
    /\ ucDelayAborted \in BOOLEAN /\ xReturn \in BOOLEAN
    /\ age \in 0 .. MaxLate /\ due \in Ticks
    /\ pxPreviousWakeTime \in Ticks /\ ticksToDelay \in Ticks
    /\ lag \in -MaxLag - portMAX_DELAY .. MaxLag /\ lostBeat \in BOOLEAN

\* xTaskCheckForTimeOut says "over" exactly when the ticks asked for have passed
\* since vTaskSetTimeOutState, however often it was called and answered "not yet"
\* meanwhile, and wherever the wraps of the two counts fell, if MaxLate is at most
\* a turn of the tick count; a wait for ever is never over, and one that was
\* aborted always.  When it says "not yet", the time it leaves is what is left.
TimeOutExact ==
    [][CheckForTimeOut =>
        /\ xReturn' <=> ucDelayAborted \/ (xTicksToWait # portMAX_DELAY /\ due = 0)
        /\ (~xReturn' /\ xTicksToWait # portMAX_DELAY) => xTicksToWait' = due]_vars

\* A task that calls xTaskDelayUntil delays exactly if its wake time is ahead, and
\* wakes exactly then, however late it was called and wherever the three counts
\* wrap, as long as the task is less than a turn of the tick count behind.
WakesOnPeriod == lostBeat \/ IF Delayed THEN lag = -ticksToDelay ELSE lag >= 0

\* No call delays for more than its period, even if the task has lost the beat: if
\* it is whole turns of the tick count behind, or ahead after an aborted delay.
DelayAtMostPeriod == [][\A n \in 1 .. portMAX_DELAY : DelayUntil(n) => ticksToDelay' <= n]_vars
=============================================================================
