------------------------------- MODULE Timers -------------------------------
(***************************************************************************)
(* Software timers (Source/timers.c): tasks and interrupts send commands   *)
(* through a queue to the timer task, which alone moves timers between the *)
(* list of expiries before the next wrap of the tick count and the list of *)
(* those after it.                                                         *)
(*                                                                         *)
(* The timer task reads the tick count in prvSampleTimeNow only, so what   *)
(* it does between two samples is one step unless it gives the scheduler   *)
(* back in between: one step to look at the lists and block, one to        *)
(* process the timer found there, one for each command.                    *)
(***************************************************************************)
EXTENDS ListOps

CONSTANTS Timers,
          W,            \* the tick count wraps to 0 at W
          Periods,
          QueueLength,  \* configTIMER_QUEUE_LENGTH
          MaxLate,      \* bound: ticks that pass while the timer task is kept waiting
          MaxAge        \* bound: ticks from a call to the handling of its command

ASSUME TimersAssumption ==
    /\ W \in Nat \ {0} /\ MaxLate \in Nat /\ MaxAge \in 0 .. W - 1
    /\ QueueLength \in Nat \ {0}
    /\ Periods \subseteq 1 .. W - 1
    /\ \A p \in Periods : p + MaxLate < W

VARIABLES
    xTickCount,
    xLastTime,      \* static in prvSampleTimeNow
    timers,         \* what only the timer task changes: see TypeOK
    autoReload,     \* tmrSTATUS_IS_AUTORELOAD
    xTimerQueue,
    pc,             \* where the timer task is: "query", "expire", "commands", "blocked"
    xNextExpireTime, xTimeNow,  \* what it found before "expire"
    ticksToWait,    \* while it is blocked; W means for ever
    late            \* ticks since it became ready or sampled the time

vars == <<xTickCount, xLastTime, timers, autoReload, xTimerQueue, pc,
          xNextExpireTime, xTimeNow, ticksToWait, late>>

-----------------------------------------------------------------------------
(***************************************************************************)
(* The two lists.  s stands for a value of timers.  s.left[t] is no state  *)
(* of the program: the ticks that are really left until t is to expire,    *)
(* counted down by the ticks and up by a period at each expiry; it stops   *)
(* when the timer does.                                                    *)
(***************************************************************************)

\* Mutant: once the tick count has wrapped since the command, the timer has expired.
ProcessNowAfterWrap(period, xCommandTime, now) ==
    LET xNextExpiryTime == (xCommandTime + period) % W
    IN  IF xNextExpiryTime <= now
        THEN (now - xCommandTime) % W >= period
        ELSE now < xCommandTime

\* prvInsertTimerInActiveList: whether the timer has expired since xCommandTime ...
ProcessNow(period, xCommandTime, now) ==
    LET xNextExpiryTime == (xCommandTime + period) % W
    IN  IF xNextExpiryTime <= now
        THEN (now - xCommandTime) % W >= period
        ELSE now < xCommandTime /\ xNextExpiryTime >= xCommandTime

\* ... and the lists if it has not.
Insert(s, t, xNextExpiryTime, now) ==
    LET value == [s.value EXCEPT ![t] = xNextExpiryTime] IN
    [s EXCEPT
        !.value = value,
        !.overflow = IF xNextExpiryTime <= now THEN ListInsert(@, value, t) ELSE @,
        !.current  = IF xNextExpiryTime <= now THEN @ ELSE ListInsert(@, value, t)]

\* Mutant: only the current list is searched.
RemovedIfCurrent(s, t) == [s EXCEPT !.current = ListRemove(@, t)]

Removed(s, t) == [s EXCEPT !.current = ListRemove(@, t), !.overflow = ListRemove(@, t)]

\* How often the loop of prvReloadTimer goes round.
Missed(period, xExpiredTime, now) ==
    CHOOSE n \in 0 .. W :
        /\ ~ProcessNow(period, (xExpiredTime + n * period) % W, now)
        /\ \A k \in 0 .. n - 1 : ProcessNow(period, (xExpiredTime + k * period) % W, now)

\* The value of an item that is in no list is never read; the model makes it 0.
Deactivated(s, t) == [s EXCEPT !.active[t] = FALSE, !.value[t] = 0]

\* The timer expires: one callback, and one for each period missed.
Expired(s, t, xExpiredTime, now) ==
    LET period == s.period[t]
        missed == Missed(period, xExpiredTime, now)
    IN  IF autoReload[t]
        THEN Insert([s EXCEPT !.left[t] = @ + (missed + 1) * period], t,
                    (xExpiredTime + (missed + 1) * period) % W, now)
        ELSE Deactivated(s, t)

ProcessExpiredTimer(s, xExpiredTime, now) ==
    Expired(Removed(s, Head(s.current)), Head(s.current), xExpiredTime, now)

\* Mutant: timers left in the list that is over are kept for later, not processed.
SwitchOnly(s) == [s EXCEPT !.current = s.overflow, !.overflow = s.current]

\* prvSwitchTimerLists: nothing is put back in the current list before the wrap.
SwitchTimerLists(s) ==
    LET process(r, t) == ProcessExpiredTimer(r, r.value[t], W - 1)
        done == FoldLeft(process, s, s.current)
    IN  [done EXCEPT !.current = done.overflow, !.overflow = done.current]

\* prvSampleTimeNow
Wrapped == xTickCount < xLastTime
Sampled(s) == IF Wrapped THEN SwitchTimerLists(s) ELSE s

-----------------------------------------------------------------------------
(***************************************************************************)
(* The timer task                                                          *)
(***************************************************************************)

Init ==
    /\ xTickCount = 0 /\ xLastTime = 0
    /\ timers \in {[current |-> <<>>, overflow |-> <<>>,
                    value  |-> [t \in Timers |-> 0], period |-> p,
                    active |-> [t \in Timers |-> FALSE],
                    left   |-> [t \in Timers |-> 0]] : p \in [Timers -> Periods]}
    /\ autoReload \in [Timers -> BOOLEAN]
    /\ xTimerQueue = <<>>
    /\ pc = "query"
    /\ xNextExpireTime = 0 /\ xTimeNow = 0 /\ ticksToWait = 0 /\ late = 0

Sample == xLastTime' = xTickCount /\ late' = 0

\* Mutant: with no timer in the current list the task waits for a command only.
BlockTimeUntilFirst(s, next) ==
    IF s.current = <<>> THEN W ELSE (next - xTickCount) % W

\* How long vQueueWaitForMessageRestricted is to wait; 0 ticks end with the next one.
BlockTime(s, next) ==
    IF s.current = <<>> /\ s.overflow = <<>> THEN W
    ELSE IF next = xTickCount THEN 1 ELSE (next - xTickCount) % W

\* prvGetNextExpireTime and prvProcessTimerOrBlockTask, with the scheduler suspended
\* from the sample on.
ProcessTimerOrBlock ==
    LET next == IF timers.current = <<>> THEN 0 ELSE timers.value[Head(timers.current)]
        due  == timers.current # <<>> /\ next <= xTickCount
    IN
    /\ pc = "query"
    /\ timers' = Sampled(timers)
    /\ Sample
    /\ \/ /\ Wrapped
          /\ pc' = "commands"
          /\ UNCHANGED <<xNextExpireTime, xTimeNow, ticksToWait>>
       \/ /\ ~Wrapped /\ due
          /\ pc' = "expire"
          /\ xNextExpireTime' = next /\ xTimeNow' = xTickCount
          /\ UNCHANGED ticksToWait
       \/ /\ ~Wrapped /\ ~due /\ xTimerQueue # <<>>
          /\ pc' = "commands"
          /\ UNCHANGED <<xNextExpireTime, xTimeNow, ticksToWait>>
       \/ /\ ~Wrapped /\ ~due /\ xTimerQueue = <<>>
          /\ pc' = "blocked"
          /\ ticksToWait' = BlockTime(timers, next)
          /\ UNCHANGED <<xNextExpireTime, xTimeNow>>
    /\ UNCHANGED <<xTickCount, autoReload, xTimerQueue>>

\* prvProcessExpiredTimer: the time is the one sampled before the scheduler resumed.
ProcessExpired ==
    /\ pc = "expire"
    /\ timers' = ProcessExpiredTimer(timers, xNextExpireTime, xTimeNow)
    /\ pc' = "commands"
    /\ xNextExpireTime' = 0 /\ xTimeNow' = 0
    /\ UNCHANGED <<xTickCount, xLastTime, autoReload, xTimerQueue, ticksToWait, late>>

\* tmrCOMMAND_START and tmrCOMMAND_RESET: the period runs from the call.
Started(s, message) ==
    LET t == message.timer
        period == s.period[t]
        r == [s EXCEPT !.active[t] = TRUE, !.left[t] = period - message.age]
        xExpiryTime == (message.value + period) % W
    IN  IF ProcessNow(period, message.value, xTickCount)
        THEN Expired(r, t, xExpiryTime, xTickCount)
        ELSE Insert(r, t, xExpiryTime, xTickCount)

\* tmrCOMMAND_STOP; tmrCOMMAND_DELETE does the same to a timer allocated statically.
Stopped(s, message) ==
    [Deactivated(s, message.timer) EXCEPT !.left[message.timer] = 0]

\* tmrCOMMAND_CHANGE_PERIOD: the new period runs from now.
PeriodChanged(s, message) ==
    LET t == message.timer IN
    Insert([s EXCEPT !.active[t] = TRUE, !.period[t] = message.value,
                     !.left[t] = message.value],
           t, (xTickCount + message.value) % W, xTickCount)

\* One round of prvProcessReceivedCommands.  The timer leaves its list before the
\* sample, so a switch of the lists passes it by.
ProcessReceivedCommand ==
    /\ pc = "commands" /\ xTimerQueue # <<>> /\ Head(xTimerQueue).id # "pend"
    /\ LET message == Head(xTimerQueue)
           s == Sampled(Removed(timers, message.timer))
       IN  timers' = CASE message.id = "start"  -> Started(s, message)
                       [] message.id = "stop"   -> Stopped(s, message)
                       [] message.id = "change" -> PeriodChanged(s, message)
    /\ xTimerQueue' = Tail(xTimerQueue)
    /\ Sample
    /\ UNCHANGED <<xTickCount, autoReload, pc, xNextExpireTime, xTimeNow, ticksToWait>>

\* A message with a negative identifier: a function to call, and no timer to move.
CallPendedFunction ==
    /\ pc = "commands" /\ xTimerQueue # <<>> /\ Head(xTimerQueue).id = "pend"
    /\ xTimerQueue' = Tail(xTimerQueue)
    /\ UNCHANGED <<xTickCount, xLastTime, timers, autoReload, pc,
                   xNextExpireTime, xTimeNow, ticksToWait, late>>

EndCommands ==
    /\ pc = "commands" /\ xTimerQueue = <<>>
    /\ pc' = "query"
    /\ UNCHANGED <<xTickCount, xLastTime, timers, autoReload, xTimerQueue,
                   xNextExpireTime, xTimeNow, ticksToWait, late>>

TimerTask ==
    \/ ProcessTimerOrBlock \/ ProcessExpired
    \/ ProcessReceivedCommand \/ CallPendedFunction \/ EndCommands

-----------------------------------------------------------------------------
(***************************************************************************)
(* The callers and the ticks                                               *)
(***************************************************************************)

\* A command that arrives, or the end of the wait, makes the timer task ready.
WakeUp == pc' = IF pc = "blocked" THEN "commands" ELSE pc

\* xTimerGenericCommand: start and reset carry the tick count at the call, which
\* is age ticks ago if the caller had to wait for space in the queue.
GenericCommand(message) ==
    /\ Len(xTimerQueue) < QueueLength
    /\ xTimerQueue' = Append(xTimerQueue, message)
    /\ WakeUp
    /\ ticksToWait' = 0
    /\ late' = IF pc = "blocked" THEN 0 ELSE late
    /\ UNCHANGED <<xTickCount, xLastTime, timers, autoReload, xNextExpireTime, xTimeNow>>

Start(t, age) ==
    GenericCommand([id |-> "start", timer |-> t, value |-> (xTickCount - age) % W, age |-> age])
Stop(t) == GenericCommand([id |-> "stop", timer |-> t, value |-> 0, age |-> 0])
ChangePeriod(t, period) ==
    GenericCommand([id |-> "change", timer |-> t, value |-> period, age |-> 0])
\* xTimerPendFunctionCall and xTimerPendFunctionCallFromISR
PendFunctionCall == GenericCommand([id |-> "pend"])

\* vTimerSetReloadMode
SetReloadMode(t) ==
    /\ autoReload' = [autoReload EXCEPT ![t] = ~@]
    /\ UNCHANGED <<xTickCount, xLastTime, timers, xTimerQueue, pc,
                   xNextExpireTime, xTimeNow, ticksToWait, late>>

\* Not before the time bounds allow it.
MayTick ==
    /\ pc # "blocked" => late < MaxLate
    /\ \A i \in DOMAIN xTimerQueue :
           xTimerQueue[i].id = "start" => xTimerQueue[i].age < MaxAge

Tick ==
    /\ MayTick
    /\ xTickCount' = (xTickCount + 1) % W
    /\ timers' = [timers EXCEPT
                     !.left = [t \in Timers |-> IF timers.active[t] THEN @[t] - 1 ELSE @[t]]]
    /\ xTimerQueue' = [i \in DOMAIN xTimerQueue |->
                          IF xTimerQueue[i].id = "start"
                          THEN [xTimerQueue[i] EXCEPT !.age = @ + 1]
                          ELSE xTimerQueue[i]]
    /\ \/ /\ pc = "blocked" /\ ticksToWait = 1
          /\ ticksToWait' = 0 /\ late' = 0
          /\ WakeUp
       \/ /\ pc = "blocked" /\ ticksToWait # 1
          /\ ticksToWait' = IF ticksToWait = W THEN W ELSE ticksToWait - 1
          /\ UNCHANGED <<pc, late>>
       \/ /\ pc # "blocked"
          /\ late' = late + 1
          /\ UNCHANGED <<pc, ticksToWait>>
    /\ UNCHANGED <<xLastTime, autoReload, xNextExpireTime, xTimeNow>>

Next ==
    \/ TimerTask
    \/ Tick
    \/ PendFunctionCall
    \/ \E t \in Timers :
          \/ \E age \in 0 .. MaxAge : Start(t, age)
          \/ Stop(t)
          \/ \E period \in Periods : ChangePeriod(t, period)
          \/ SetReloadMode(t)

Spec == Init /\ [][Next]_vars

-----------------------------------------------------------------------------
(***************************************************************************)
(* Properties                                                              *)
(***************************************************************************)

Messages ==
    [id : {"start"}, timer : Timers, value : 0 .. W - 1, age : 0 .. MaxAge]
    \cup [id : {"stop"}, timer : Timers, value : {0}, age : {0}]
    \cup [id : {"change"}, timer : Timers, value : Periods, age : {0}]
    \cup [id : {"pend"}]

\* Types; a timer is in a list, once, exactly when it is active, and the lists ascend.
TypeOK ==
    /\ xTickCount \in 0 .. W - 1 /\ xLastTime \in 0 .. W - 1
    /\ timers.value \in [Timers -> 0 .. W - 1]
    /\ timers.period \in [Timers -> Periods]
    /\ timers.active \in [Timers -> BOOLEAN]
    /\ timers.left \in [Timers -> Int]
    /\ autoReload \in [Timers -> BOOLEAN]
    /\ xTimerQueue \in Seq(Messages) /\ Len(xTimerQueue) <= QueueLength
    /\ pc \in {"query", "expire", "commands", "blocked"}
    /\ xNextExpireTime \in 0 .. W - 1 /\ xTimeNow \in 0 .. W - 1
    /\ ticksToWait \in 0 .. W /\ late \in 0 .. MaxLate
    /\ LET listed == timers.current \o timers.overflow
       IN  NoDuplicates(listed) /\ ToSet(listed) = {t \in Timers : timers.active[t]}
    /\ Ascending(timers.current, timers.value) /\ Ascending(timers.overflow, timers.value)

\* A timer is in the current list if it is to expire before the wrap after the last
\* sample and in the overflow list if after it, at the value in its item.
Elapsed == (xTickCount - xLastTime) % W
ValuesAreTrue ==
    \A t \in Timers :
        timers.active[t] =>
            LET xExpiryTime == xLastTime + Elapsed + timers.left[t] IN
            timers.value[t] = IF t \in ToSet(timers.current) THEN xExpiryTime ELSE xExpiryTime - W

\* No callback comes before its time: a timer that has expired for the last time did
\* so with no tick left, and one that reloads is never more than a period ahead.
NeverEarly ==
    \A t \in Timers :
        timers.left[t] <= IF timers.active[t] THEN timers.period[t] ELSE 0

\* While the timer task sleeps no timer is due, and it will be woken before one is.
AwakeInTime ==
    pc = "blocked" =>
        \A t \in Timers :
            timers.active[t] => /\ timers.left[t] > 0
                                /\ ticksToWait <= timers.left[t]
=============================================================================
