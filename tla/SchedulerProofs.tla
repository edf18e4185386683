--------------------------- MODULE SchedulerProofs ---------------------------
(***************************************************************************)
(* Proofs about Scheduler for every set of tasks, width of the tick count, *)
(* number of priorities and choice of calls.                               *)
(***************************************************************************)
EXTENDS SchedulerInv, ListOpsProofs

LEMMA Constants ==
    /\ IsFiniteSet(Tasks) /\ Idle \in Tasks /\ NoTask \notin Tasks
    /\ configMAX_PRIORITIES \in Nat \ {0} /\ portMAX_DELAY \in Nat \ {0}
    /\ MaxPended \in Nat /\ MaxNesting \in Nat \ {0}
    /\ Priorities \subseteq Nat /\ 0 \in Priorities
  BY SchedulerAssumption DEF SchedulerAssumption, Priorities

LEMMA EventValueType ==
    ASSUME uxPriority \in [Tasks -> Priorities]
    PROVE  EventValue \in [Tasks -> Int]
  BY Constants DEF EventValue, Priorities

\* The tick count stays in a TickType_t.
LEMMA LaterType ==
    ASSUME NEW now \in Ticks, NEW n \in 0 .. portMAX_DELAY
    PROVE  Later(now, n) \in Ticks
  BY Constants DEF Later, Ticks

\* What removing several tasks leaves of a list.
LEMMA WithoutProperties ==
    ASSUME NEW T, NEW l \in Seq(T), NEW S, NEW rest, IsWithout(rest, l, S), IsFiniteSet(T)
    PROVE  /\ rest \in Seq(T)
           /\ ToSet(rest) \subseteq ToSet(l) \ S
           /\ NoDuplicates(l) => NoDuplicates(rest)
  <1> DEFINE kept == {i \in DOMAIN l : l[i] \notin S}
             n == Cardinality(kept)
  <1>1. Len(l) \in Nat /\ DOMAIN l = 1 .. Len(l)
    BY ToSetSeq
  <1>2. n \in Nat
    <2>1. IsFiniteSet(1 .. Len(l))
      BY <1>1, FS_Interval
    <2>2. IsFiniteSet(kept)
      BY <1>1, <2>1, FS_Subset
    <2> QED BY <2>2, FS_CardinalityType
  <1>3. PICK f \in [1 .. n -> kept] :
          /\ \A i, j \in DOMAIN f : i < j => f[i] < f[j]
          /\ rest = [i \in DOMAIN f |-> l[f[i]]]
    BY DEF IsWithout
  <1> HIDE DEF n
  <1>4. \A i \in 1 .. n : f[i] \in 1 .. Len(l) /\ l[f[i]] \in T /\ l[f[i]] \notin S
    BY <1>1, <1>3
  <1>5. rest = [i \in 1 .. n |-> l[f[i]]]
    BY <1>3
  <1>6. rest \in Seq(T) /\ Len(rest) = n
    BY <1>2, <1>4, <1>5
  <1>7. ToSet(rest) \subseteq ToSet(l) \ S
    <2> SUFFICES ASSUME NEW x \in ToSet(rest) PROVE x \in ToSet(l) /\ x \notin S
      OBVIOUS
    <2>1. PICK i \in 1 .. Len(rest) : rest[i] = x
      BY <1>6, ToSetSeq
    <2>2. x = l[f[i]] /\ f[i] \in 1 .. Len(l) /\ l[f[i]] \notin S
      BY <1>4, <1>5, <1>6, <2>1
    <2> QED BY <2>2, ToSetSeq
  <1>8. ASSUME NoDuplicates(l) PROVE NoDuplicates(rest)
    <2> SUFFICES ASSUME NEW i \in 1 .. n, NEW j \in 1 .. n, i < j PROVE rest[i] # rest[j]
      <3>1. \A i, j \in 1 .. n : i < j \/ j < i \/ i = j
        BY <1>2
      <3> QED BY <1>6, <3>1, ToSetSeq DEF NoDuplicates
    <2>1. f[i] < f[j] /\ f[i] \in 1 .. Len(l) /\ f[j] \in 1 .. Len(l)
      BY <1>3, <1>4
    <2>2. f[i] # f[j]
      BY <2>1
    <2> QED BY <1>1, <1>5, <1>8, <2>1, <2>2 DEF NoDuplicates
  <1> QED BY <1>6, <1>7, <1>8

-----------------------------------------------------------------------------
(***************************************************************************)
(* What the operators do                                                   *)
(***************************************************************************)

\* After vTaskSwitchContext a task of the highest priority runs, and
\* uxTopReadyPriority is not below any ready task.
LEMMA SwitchContextEffect ==
    ASSUME NEW ready \in SUBSET Tasks, NEW priority \in [Tasks -> Priorities],
           NEW top \in Priorities, \A t \in ready : priority[t] <= top,
           uxSchedulerSuspended = 0,
           SwitchContext(ready, priority, top)
    PROVE  /\ xYieldPending' = FALSE
           /\ pxCurrentTCB' \in ready
           /\ \A t \in ready : priority[t] <= priority[pxCurrentTCB']
           /\ uxTopReadyPriority' \in Priorities
           /\ \A t \in ready : priority[t] <= uxTopReadyPriority'
  <1>1. /\ xYieldPending' = FALSE
        /\ \E t \in ready :
             /\ priority[t] <= top
             /\ \A u \in ready : priority[u] <= top => priority[u] <= priority[t]
             /\ pxCurrentTCB' = t
             /\ uxTopReadyPriority' = priority[t]
    BY DEF SwitchContext
  <1>2. PICK t \in ready : /\ \A u \in ready : priority[u] <= priority[t]
                           /\ pxCurrentTCB' = t
                           /\ uxTopReadyPriority' = priority[t]
    BY <1>1
  <1> QED BY <1>1, <1>2

\* Tasks that become ready, with a switch or without.
LEMMA ReadyEffect ==
    ASSUME TypeOK, TopReadyPriorityHigh, NEW S \in SUBSET Tasks,
           NEW yields \in BOOLEAN, NEW pending, Ready(S, yields, pending),
           yields => uxSchedulerSuspended = 0
    PROVE  /\ uxTopReadyPriority' \in Priorities
           /\ \A t \in In("ready") \cup S : uxPriority[t] <= uxTopReadyPriority'
           /\ IF yields
              THEN /\ xYieldPending' = FALSE
                   /\ pxCurrentTCB' \in In("ready") \cup S
                   /\ \A t \in In("ready") \cup S : uxPriority[t] <= uxPriority[pxCurrentTCB']
              ELSE xYieldPending' = pending /\ pxCurrentTCB' = pxCurrentTCB
  <1> DEFINE R == In("ready") \cup S
  <1>1. PICK top \in Priorities :
          /\ Recorded(top, S, uxPriority)
          /\ IF yields THEN SwitchContext(R, uxPriority, top) ELSE RunOn(top, pending)
    BY DEF Ready
  <1>2. R \subseteq Tasks /\ uxPriority \in [Tasks -> Priorities] /\ uxTopReadyPriority \in Priorities
    BY DEF In, TypeOK
  <1>3. ASSUME NEW t \in R PROVE uxPriority[t] <= top
    <2>1. t \in Tasks /\ uxPriority[t] \in Nat /\ uxTopReadyPriority \in Nat /\ top \in Nat
      BY <1>2, Constants
    <2>2. uxTopReadyPriority <= top /\ \A u \in S : uxPriority[u] <= top
      BY <1>1 DEF Recorded
    <2>3. CASE t \in In("ready")
      BY <2>1, <2>2, <2>3 DEF TopReadyPriorityHigh
    <2> QED BY <2>2, <2>3
  <1> HIDE DEF R
  <1>4. CASE yields
    <2>1. SwitchContext(R, uxPriority, top) /\ uxSchedulerSuspended = 0
      BY <1>1, <1>4
    <2>2. /\ xYieldPending' = FALSE
          /\ pxCurrentTCB' \in R
          /\ \A t \in R : uxPriority[t] <= uxPriority[pxCurrentTCB']
          /\ uxTopReadyPriority' \in Priorities
          /\ \A t \in R : uxPriority[t] <= uxTopReadyPriority'
      BY <1>2, <1>3, <2>1, SwitchContextEffect
    <2> QED BY <1>4, <2>2 DEF R
  <1>5. CASE ~yields
    BY <1>1, <1>3, <1>5 DEF R, RunOn
  <1> QED BY <1>4, <1>5

\* Tasks that leave the delayed lists.
LEMMA MoveEffect ==
    ASSUME TypeOK, NEW S \in SUBSET Tasks, NEW list \in StateLists, Move(S, list)
    PROVE  /\ stateList' \in [Tasks -> StateLists]
           /\ wakeTime' \in [Tasks -> Ticks]
           /\ remaining' \in [Tasks -> Int]
           /\ \A t \in Tasks : stateList'[t] = IF t \in S THEN list ELSE stateList[t]
           /\ \A t \in Tasks \ S : wakeTime'[t] = wakeTime[t] /\ remaining'[t] = remaining[t]
  BY Constants DEF TypeOK, Move, Ticks

LEMMA ResetType ==
    ASSUME wakeTime \in [Tasks -> Ticks], NEW waiting \in SUBSET Tasks,
           ResetNextTaskUnblockTime(waiting)
    PROVE  /\ xNextTaskUnblockTime' \in Ticks
           /\ \A t \in waiting : xNextTaskUnblockTime' <= wakeTime[t]
  BY Constants DEF ResetNextTaskUnblockTime, Ticks

LEMMA AddToDelayedListEffect ==
    ASSUME TypeOK, NEW t \in Tasks, NEW n \in 1 .. portMAX_DELAY, AddToDelayedList(t, n)
    PROVE  /\ stateList' \in [Tasks -> StateLists]
           /\ wakeTime' \in [Tasks -> Ticks]
           /\ remaining' \in [Tasks -> Int]
           /\ xNextTaskUnblockTime' \in Ticks
           /\ stateList'[t] \in {"delayed", "overflow"}
           /\ \A u \in Tasks \ {t} : /\ stateList'[u] = stateList[u]
                                     /\ wakeTime'[u] = wakeTime[u]
                                     /\ remaining'[u] = remaining[u]
           /\ wakeTime'[t] = Later(xTickCount, n)
           /\ remaining'[t] = n - xPendedTicks
           /\ stateList'[t] = "delayed" <=> ~(Later(xTickCount, n) < xTickCount)
  <1> DEFINE wake == Later(xTickCount, n)
  <1>1. wake \in Ticks
    BY LaterType, Constants DEF TypeOK
  <1>2. n - xPendedTicks \in Int
    BY Constants DEF TypeOK
  <1>3. /\ wakeTime' = [wakeTime EXCEPT ![t] = wake]
        /\ remaining' = [remaining EXCEPT ![t] = n - xPendedTicks]
        /\ IF wake < xTickCount
           THEN stateList' = [stateList EXCEPT ![t] = "overflow"]
           ELSE stateList' = [stateList EXCEPT ![t] = "delayed"]
        /\ xNextTaskUnblockTime' \in {wake, xNextTaskUnblockTime}
    BY DEF AddToDelayedList
  <1> HIDE DEF wake
  <1>4. xNextTaskUnblockTime' \in Ticks
    BY <1>1, <1>3 DEF TypeOK
  <1>5. CASE wake < xTickCount
    BY <1>1, <1>2, <1>3, <1>4, <1>5 DEF TypeOK, StateLists, wake
  <1>6. CASE ~(wake < xTickCount)
    BY <1>1, <1>2, <1>3, <1>4, <1>6 DEF TypeOK, StateLists, wake
  <1> QED BY <1>5, <1>6

LEMMA LeaveEventsEffect ==
    ASSUME TypeOK, NEW S, LeaveEvents(S)
    PROVE  /\ xEventList' \in Seq(Tasks)
           /\ ToSet(xEventList') \subseteq ToSet(xEventList) \ S
           /\ NoDuplicates(xEventList) => NoDuplicates(xEventList')
           /\ xPendingReadyList' = xPendingReadyList \ S
           /\ xPendingReadyList' \subseteq Tasks
  <1>1. IsWithout(xEventList', xEventList, S) /\ xPendingReadyList' = xPendingReadyList \ S
    BY DEF LeaveEvents
  <1>2. xEventList \in Seq(Tasks) /\ xPendingReadyList \subseteq Tasks /\ IsFiniteSet(Tasks)
    BY Constants DEF TypeOK
  <1> QED BY <1>1, <1>2, WithoutProperties

LEMMA TicksComeType ==
    ASSUME TypeOK, NEW n \in Nat, NEW woken, TicksCome(n, woken)
    PROVE  remaining' \in [Tasks -> Int]
  BY Constants DEF TypeOK, TicksCome

LEMMA DueType == Due \subseteq DelayedNow /\ DelayedNow \subseteq Tasks
  BY DEF Due, DelayedNow, In

LEMMA IncrementTickEffect ==
    ASSUME TypeOK, IncrementTick
    PROVE  /\ xTickCount' \in Ticks
           /\ stateList' \in [Tasks -> StateLists]
           /\ wakeTime' \in [Tasks -> Ticks]
           /\ xNextTaskUnblockTime' \in Ticks
           /\ LeaveEvents(Due)
           /\ \A t \in Tasks :
                /\ t \in Due => stateList'[t] = "ready"
                /\ t \notin Due => /\ wakeTime'[t] = wakeTime[t]
                                   /\ Now # 0 => stateList'[t] = stateList[t]
                                   /\ stateList[t] \notin {"delayed", "overflow"}
                                        => stateList'[t] = stateList[t]
                                   /\ Now = 0 /\ stateList[t] = "delayed"
                                        => stateList'[t] = "overflow"
                                   /\ Now = 0 /\ stateList[t] = "overflow"
                                        => stateList'[t] = "delayed"
  <1>1. /\ xTickCount' = Now /\ MoveDue /\ LeaveEvents(Due)
        /\ IF Looks THEN ResetNextTaskUnblockTime(DelayedNow \ Due)
                    ELSE UNCHANGED xNextTaskUnblockTime
    BY DEF IncrementTick
  <1>2. xTickCount' \in Ticks
    BY <1>1, LaterType, Constants DEF Now, TypeOK
  <1>3. /\ stateList' \in [Tasks -> StateLists]
        /\ \A t \in Tasks :
             /\ t \in Due => stateList'[t] = "ready"
             /\ t \notin Due =>
                  /\ Now # 0 => stateList'[t] = stateList[t]
                  /\ stateList[t] \notin {"delayed", "overflow"} => stateList'[t] = stateList[t]
                  /\ Now = 0 /\ stateList[t] = "delayed" => stateList'[t] = "overflow"
                  /\ Now = 0 /\ stateList[t] = "overflow" => stateList'[t] = "delayed"
    BY <1>1 DEF MoveDue, TypeOK, StateLists
  <1>4. /\ wakeTime' \in [Tasks -> Ticks]
        /\ \A t \in Tasks : t \notin Due => wakeTime'[t] = wakeTime[t]
    BY <1>1, Constants DEF MoveDue, TypeOK, Ticks
  <1>5. xNextTaskUnblockTime' \in Ticks
    <2>1. CASE Looks
      BY <1>1, <2>1, DueType, ResetType DEF TypeOK
    <2>2. CASE ~Looks
      BY <1>1, <2>2 DEF TypeOK
    <2> QED BY <2>1, <2>2
  <1> QED BY <1>1, <1>2, <1>3, <1>4, <1>5

-----------------------------------------------------------------------------
(***************************************************************************)
(* Who runs: types, control, uxTopReadyPriority and the running task       *)
(***************************************************************************)
Scheduling == TypeOK /\ ControlOK /\ TopReadyPriorityHigh /\ RunningOK

AtRest == {"app", "yield", "suspended", "created"}

\* After a switch the highest priority runs, whatever its task is about to do.
LEMMA AfterSwitch ==
    ASSUME TypeOK', uxSchedulerSuspended' = 0, \A t \in Tasks : pc'[t] \in AtRest,
           pxCurrentTCB' \in In("ready")',
           \A t \in In("ready")' : uxPriority'[t] <= uxPriority'[pxCurrentTCB']
    PROVE  ControlOK' /\ RunningOK'
  <1>1. ControlOK'
    <2>1. pxCurrentTCB' \in Tasks
      BY DEF TypeOK
    <2>2. pc'[pxCurrentTCB'] \in AtRest /\ ~(uxSchedulerSuspended' > 0)
      BY <2>1
    <2> QED BY <2>2 DEF ControlOK, Suspending, AtRest
  <1>2. RunningOK'
    <2>1. stateList'[pxCurrentTCB'] = "ready"
      BY DEF In
    <2>2. ASSUME NEW t \in In("ready")' PROVE ~Outranks(t)'
      <3>1. uxPriority'[t] \in Nat /\ uxPriority'[pxCurrentTCB'] \in Nat
        BY Constants DEF TypeOK, In
      <3>2. uxPriority'[t] <= uxPriority'[pxCurrentTCB']
        BY <2>2
      <3> QED BY <3>1, <3>2 DEF Outranks
    <2> QED BY <2>1, <2>2 DEF RunningOK
  <1> QED BY <1>1, <1>2

\* What ControlOK says in the running task's own code.
LEMMA InCode ==
    ASSUME TypeOK, ControlOK, pc[pxCurrentTCB] \in AtRest
    PROVE  uxSchedulerSuspended = 0 /\ \A t \in Tasks : pc[t] \in AtRest
  <1>1. uxSchedulerSuspended \in Nat /\ ~(uxSchedulerSuspended > 0)
    BY Constants DEF TypeOK, ControlOK, Suspending, AtRest
  <1>2. \A t \in Tasks : pc[t] \in AtRest
    BY DEF ControlOK, AtRest
  <1> QED BY <1>1, <1>2

\* A switch at the end of a call.
LEMMA AfterYield ==
    ASSUME Scheduling, uxSchedulerSuspended = 0,
           SwitchContext(In("ready"), uxPriority, uxTopReadyPriority),
           UNCHANGED <<stateList, wakeTime, remaining, xEventList, xPendingReadyList,
                       uxPriority, uxSchedulerSuspended, xTickCount, xPendedTicks,
                       xNextTaskUnblockTime>>,
           pc' \in [Tasks -> AtRest], target' \in [Tasks -> Tasks \cup {NoTask}]
    PROVE  Scheduling'
  <1>1. /\ xYieldPending' = FALSE
        /\ pxCurrentTCB' \in In("ready")
        /\ \A u \in In("ready") : uxPriority[u] <= uxPriority[pxCurrentTCB']
        /\ uxTopReadyPriority' \in Priorities
        /\ \A u \in In("ready") : uxPriority[u] <= uxTopReadyPriority'
    <2>1. /\ In("ready") \in SUBSET Tasks /\ uxPriority \in [Tasks -> Priorities]
          /\ uxTopReadyPriority \in Priorities
          /\ \A u \in In("ready") : uxPriority[u] <= uxTopReadyPriority
      BY DEF Scheduling, TypeOK, In, TopReadyPriorityHigh
    <2> QED BY <2>1, SwitchContextEffect
  <1>2. TypeOK'
    BY <1>1 DEF Scheduling, TypeOK, In, AtRest
  <1>3. \A u \in Tasks : pc'[u] \in AtRest
    OBVIOUS
  <1> QED BY <1>1, <1>2, <1>3, AfterSwitch DEF Scheduling, In, TopReadyPriorityHigh

LEMMA TaskYieldStep ==
    ASSUME Scheduling, NEW t \in Tasks, TaskYield(t)
    PROVE  Scheduling'
  <1>1. /\ uxSchedulerSuspended = 0 /\ \A u \in Tasks : pc[u] \in AtRest
    BY InCode DEF Scheduling, TaskYield, Called, At, AtRest
  <1>2. pc \in [Tasks -> AtRest] /\ target \in [Tasks -> Tasks \cup {NoTask}]
    BY <1>1 DEF Scheduling, TypeOK
  <1> QED BY <1>1, <1>2, AfterYield DEF TaskYield, items, events, time, control

LEMMA EnterDelayStep ==
    ASSUME Scheduling, NEW t \in Tasks, EnterDelay(t)
    PROVE  Scheduling'
  <1>1. /\ t = pxCurrentTCB /\ pc[t] = "app" /\ uxSchedulerSuspended = 0
        /\ uxSchedulerSuspended' = 1 /\ pc' = [pc EXCEPT ![t] = "delay"]
        /\ UNCHANGED <<stateList, wakeTime, remaining, xEventList, xPendingReadyList, uxPriority,
                       pxCurrentTCB, uxTopReadyPriority, xYieldPending, xTickCount, xPendedTicks,
                       xNextTaskUnblockTime, target>>
    BY DEF EnterDelay, Called, At, SuspendAllIn, GoTo, items, events, switching, time, control
  <1>2. TypeOK'
    BY <1>1, Constants DEF Scheduling, TypeOK
  <1>3. ControlOK'
    BY <1>1 DEF Scheduling, TypeOK, ControlOK, Suspending
  <1>4. RunningOK' /\ TopReadyPriorityHigh'
    BY <1>1 DEF Scheduling, TypeOK, RunningOK, TopReadyPriorityHigh, Leaving, Outranks, In
  <1> QED BY <1>2, <1>3, <1>4 DEF Scheduling

LEMMA DelayStep ==
    ASSUME Scheduling, NEW t \in Tasks, Delay(t)
    PROVE  Scheduling'
  <1>1. PICK n \in 1 .. portMAX_DELAY : AddToDelayedList(t, n)
    BY DEF Delay
  <1>2. /\ t = pxCurrentTCB /\ pc[t] = "delay" /\ pc' = [pc EXCEPT ![t] = "resumeThenYield"]
        /\ UNCHANGED <<xEventList, xPendingReadyList, uxPriority, pxCurrentTCB,
                       uxTopReadyPriority, xYieldPending, uxSchedulerSuspended,
                       xTickCount, xPendedTicks, target>>
    BY DEF Delay, At, GoTo, events, switching, time
  <1>3. /\ stateList' \in [Tasks -> StateLists]
        /\ wakeTime' \in [Tasks -> Ticks]
        /\ remaining' \in [Tasks -> Int]
        /\ xNextTaskUnblockTime' \in Ticks
        /\ stateList'[t] \in {"delayed", "overflow"}
        /\ \A u \in Tasks \ {t} : stateList'[u] = stateList[u]
    BY <1>1, AddToDelayedListEffect DEF Scheduling
  <1>4. TypeOK'
    BY <1>2, <1>3 DEF Scheduling, TypeOK
  <1>5. ControlOK' /\ Leaving'
    BY <1>2 DEF Scheduling, TypeOK, ControlOK, Suspending, Leaving
  <1>6. TopReadyPriorityHigh' /\ RunningOK'
    BY <1>2, <1>3, <1>5 DEF Scheduling, RunningOK, TopReadyPriorityHigh, In
  <1> QED BY <1>4, <1>5, <1>6 DEF Scheduling

LEMMA ListInsertType ==
    ASSUME NEW T, NEW l \in Seq(T), NEW value, NEW t \in T
    PROVE  ListInsert(l, value, t) \in Seq(T)
  <1> DEFINE ahead == {i \in DOMAIN l : \A j \in 1 .. i : value[l[j]] <= value[t]}
  <1>1. Len(l) \in Nat /\ DOMAIN l = 1 .. Len(l)
    BY ToSetSeq
  <1>2. IsFiniteSet(1 .. Len(l)) /\ Cardinality(1 .. Len(l)) = Len(l)
    BY <1>1, FS_Interval
  <1>3. /\ IsFiniteSet(ahead) /\ Cardinality(ahead) <= Len(l)
        /\ Cardinality(ahead) \in Nat
    BY <1>1, <1>2, FS_Subset, FS_CardinalityType
  <1> DEFINE c == Cardinality(ahead)
  <1>4. c \in Nat /\ c <= Len(l)
    BY <1>3
  <1> HIDE DEF c
  <1>5. c + 1 \in 1 .. Len(l) + 1
    BY <1>1, <1>4
  <1> QED BY <1>5, InsertAtIndices DEF ListInsert, c

LEMMA WaitStep ==
    ASSUME Scheduling, NEW t \in Tasks, Wait(t)
    PROVE  Scheduling'
  <1>1. /\ t = pxCurrentTCB /\ pc[t] = "delay" /\ pc' = [pc EXCEPT ![t] = "resumeThenYield"]
        /\ xEventList' = ListInsert(xEventList, EventValue, t)
        /\ UNCHANGED <<xPendingReadyList, uxPriority, pxCurrentTCB,
                       uxTopReadyPriority, xYieldPending, uxSchedulerSuspended,
                       xTickCount, xPendedTicks, target>>
    BY DEF Wait, At, GoTo, events, switching, time
  <1>2. xEventList' \in Seq(Tasks)
    BY <1>1, ListInsertType DEF Scheduling, TypeOK
  <1>3. /\ stateList' \in [Tasks -> StateLists]
        /\ wakeTime' \in [Tasks -> Ticks]
        /\ remaining' \in [Tasks -> Int]
        /\ xNextTaskUnblockTime' \in Ticks
        /\ stateList'[t] \in {"delayed", "overflow", "suspended"}
        /\ \A u \in Tasks \ {t} : stateList'[u] = stateList[u]
    <2>1. CASE \E n \in 1 .. portMAX_DELAY - 1 : AddToDelayedList(t, n)
      <3>1. PICK n \in 1 .. portMAX_DELAY : AddToDelayedList(t, n)
        BY <2>1, Constants
      <3> QED BY <3>1, AddToDelayedListEffect DEF Scheduling
    <2>2. CASE Move({t}, "suspended") /\ UNCHANGED xNextTaskUnblockTime
      BY <2>2, MoveEffect DEF Scheduling, TypeOK, StateLists
    <2> QED BY <2>1, <2>2 DEF Wait
  <1>4. TypeOK'
    BY <1>1, <1>2, <1>3 DEF Scheduling, TypeOK
  <1>5. ControlOK' /\ Leaving'
    BY <1>1 DEF Scheduling, TypeOK, ControlOK, Suspending, Leaving
  <1>6. TopReadyPriorityHigh' /\ RunningOK'
    BY <1>1, <1>3, <1>5 DEF Scheduling, RunningOK, TopReadyPriorityHigh, In
  <1> QED BY <1>4, <1>5, <1>6 DEF Scheduling

LEMMA SuspendAllStep ==
    ASSUME Scheduling, NEW t \in Tasks, SuspendAll(t)
    PROVE  Scheduling'
  <1>1. /\ t = pxCurrentTCB /\ pc[t] \in {"app", "paused"}
        /\ uxSchedulerSuspended < MaxNesting
        /\ uxSchedulerSuspended' = uxSchedulerSuspended + 1
        /\ pc' = [pc EXCEPT ![t] = "paused"]
        /\ UNCHANGED <<stateList, wakeTime, remaining, xEventList, xPendingReadyList, uxPriority,
                       pxCurrentTCB, uxTopReadyPriority, xYieldPending, xTickCount, xPendedTicks,
                       xNextTaskUnblockTime, target>>
    BY DEF SuspendAll, At, SuspendAllIn, GoTo, items, events, switching, time, control
  <1>2. uxSchedulerSuspended' \in 0 .. MaxNesting /\ uxSchedulerSuspended' > 0
    BY <1>1, Constants DEF Scheduling, TypeOK
  <1>3. TypeOK'
    BY <1>1, <1>2 DEF Scheduling, TypeOK
  <1>4. ControlOK'
    BY <1>1, <1>2 DEF Scheduling, TypeOK, ControlOK, Suspending
  <1>5. RunningOK' /\ TopReadyPriorityHigh'
    BY <1>1 DEF Scheduling, TypeOK, RunningOK, TopReadyPriorityHigh, Leaving, Outranks, In
  <1> QED BY <1>3, <1>4, <1>5 DEF Scheduling

LEMMA ResumeAllStep ==
    ASSUME Scheduling, NEW t \in Tasks, ResumeAll(t)
    PROVE  Scheduling'
  <1> DEFINE P == xPendingReadyList
  <1>1. /\ t = pxCurrentTCB /\ pc[t] \in {"resume", "resumeThenYield", "paused"}
        /\ uxSchedulerSuspended' = uxSchedulerSuspended - 1
        /\ UNCHANGED <<uxPriority, xTickCount, xPendedTicks>>
    BY DEF ResumeAll, At, time
  <1>2. uxSchedulerSuspended \in 1 .. MaxNesting
    BY <1>1, Constants DEF Scheduling, TypeOK, ControlOK, Suspending
  <1>3. uxSchedulerSuspended' \in 0 .. MaxNesting
    BY <1>1, <1>2, Constants
  <1>4. CASE uxSchedulerSuspended > 1
    <2>1. uxSchedulerSuspended' > 0
      BY <1>1, <1>2, <1>4
    <2>2. UNCHANGED <<stateList, wakeTime, remaining, xEventList, xPendingReadyList,
                      pxCurrentTCB, uxTopReadyPriority, xYieldPending, xNextTaskUnblockTime,
                      pc, target>>
      BY <1>4 DEF ResumeAll, items, events, switching, control
    <2>3. TypeOK'
      BY <1>1, <1>3, <2>2 DEF Scheduling, TypeOK
    <2>4. ControlOK'
      BY <1>1, <2>1, <2>2 DEF Scheduling, ControlOK, Suspending
    <2>5. RunningOK' /\ TopReadyPriorityHigh'
      BY <1>1, <2>2 DEF Scheduling, RunningOK, TopReadyPriorityHigh, Leaving, Outranks, In
    <2> QED BY <2>3, <2>4, <2>5 DEF Scheduling
  <1>5. CASE ~(uxSchedulerSuspended > 1)
    <2>1. uxSchedulerSuspended' = 0
      BY <1>1, <1>2, <1>5
    <2>2. /\ GoTo(t, IF pc[t] = "resumeThenYield" THEN "replayThenYield" ELSE "replay")
          /\ Move(P, "ready")
          /\ Ready(P, FALSE, xYieldPending \/ \E u \in P : OutranksOrTies(u))
          /\ xPendingReadyList' = {} /\ UNCHANGED xEventList
          /\ IF P = {} THEN UNCHANGED xNextTaskUnblockTime
                       ELSE ResetNextTaskUnblockTime(In("delayed") \ P)
      BY <1>5 DEF ResumeAll
    <2>3. P \in SUBSET Tasks /\ "ready" \in StateLists
      BY DEF Scheduling, TypeOK, StateLists
    <2>4. /\ stateList' \in [Tasks -> StateLists]
          /\ wakeTime' \in [Tasks -> Ticks]
          /\ remaining' \in [Tasks -> Int]
          /\ \A u \in Tasks : stateList'[u] = IF u \in P THEN "ready" ELSE stateList[u]
      BY <2>2, <2>3, MoveEffect DEF Scheduling
    <2>5. /\ uxTopReadyPriority' \in Priorities
          /\ \A u \in In("ready") \cup P : uxPriority[u] <= uxTopReadyPriority'
          /\ xYieldPending' = (xYieldPending \/ \E u \in P : OutranksOrTies(u))
          /\ pxCurrentTCB' = pxCurrentTCB
      BY <2>2, <2>3, ReadyEffect DEF Scheduling
    <2>6. xNextTaskUnblockTime' \in Ticks
      BY <2>2, ResetType DEF Scheduling, TypeOK, In
    <2>7. xYieldPending' \in BOOLEAN
      BY <2>5
    <2>8. /\ pc' = [pc EXCEPT ![t] = IF pc[t] = "resumeThenYield" THEN "replayThenYield"
                                     ELSE "replay"]
          /\ target' = target
      BY <2>2 DEF GoTo
    <2>9. TypeOK'
      BY <1>1, <1>3, <2>2, <2>4, <2>5, <2>6, <2>7, <2>8 DEF Scheduling, TypeOK
    <2>10. ControlOK'
      BY <1>1, <2>1, <2>5, <2>8 DEF Scheduling, TypeOK, ControlOK, Suspending
    <2>11. In("ready")' = In("ready") \cup P
      BY <2>3, <2>4 DEF In
    <2>12. TopReadyPriorityHigh'
      BY <1>1, <2>5, <2>11 DEF TopReadyPriorityHigh
    <2>13. RunningOK'
      <3>1. Leaving' <=> Leaving
        BY <1>1, <2>5, <2>8 DEF Scheduling, TypeOK, Leaving
      <3>2. Leaving' \/ stateList'[pxCurrentTCB'] = "ready"
        BY <2>4, <2>5, <3>1 DEF Scheduling, TypeOK, RunningOK
      <3>3. ASSUME NEW u \in In("ready")', Outranks(u)'
            PROVE  xYieldPending' \/ Leaving'
        <4>1. Outranks(u)
          BY <1>1, <2>5, <3>3 DEF Outranks
        <4>2. CASE u \in P
          <5>1. uxPriority[u] \in Nat /\ uxPriority[pxCurrentTCB] \in Nat
            BY <2>3, <4>2, Constants DEF Scheduling, TypeOK
          <5>2. OutranksOrTies(u)
            BY <4>1, <5>1 DEF Outranks, OutranksOrTies
          <5> QED BY <2>5, <4>2, <5>2
        <4>3. CASE u \in In("ready")
          BY <1>1, <2>5, <3>1, <4>1, <4>3 DEF Scheduling, RunningOK
        <4> QED BY <2>11, <4>2, <4>3
      <3> QED BY <3>2, <3>3 DEF RunningOK
    <2> QED BY <2>9, <2>10, <2>12, <2>13 DEF Scheduling
  <1> QED BY <1>4, <1>5

\* Tasks that become ready, in a call or an interrupt: those that outrank the
\* running task cause a switch or leave a yield pending.
LEMMA AfterReady ==
    ASSUME Scheduling, TypeOK', NEW S \in SUBSET Tasks,
           NEW yields \in BOOLEAN, NEW pending \in BOOLEAN, Ready(S, yields, pending),
           In("ready")' = In("ready") \cup S,
           UNCHANGED <<uxPriority, uxSchedulerSuspended, pc, target>>,
           yields => uxSchedulerSuspended = 0 /\ \A t \in Tasks : pc[t] \in AtRest,
           ~yields => /\ xYieldPending => pending
                      /\ \A t \in S : Outranks(t) => pending
    PROVE  Scheduling'
  <1>1. /\ uxTopReadyPriority' \in Priorities
        /\ \A t \in In("ready") \cup S : uxPriority[t] <= uxTopReadyPriority'
        /\ IF yields
           THEN /\ xYieldPending' = FALSE
                /\ pxCurrentTCB' \in In("ready") \cup S
                /\ \A t \in In("ready") \cup S : uxPriority[t] <= uxPriority[pxCurrentTCB']
           ELSE xYieldPending' = pending /\ pxCurrentTCB' = pxCurrentTCB
    BY ReadyEffect DEF Scheduling
  <1>2. TopReadyPriorityHigh'
    BY <1>1 DEF TopReadyPriorityHigh
  <1>3. CASE yields
    BY <1>1, <1>2, <1>3, AfterSwitch DEF Scheduling
  <1>4. CASE ~yields
    <2>1. xYieldPending' = pending /\ pxCurrentTCB' = pxCurrentTCB
      BY <1>1, <1>4
    <2>2. ControlOK'
      BY <2>1 DEF Scheduling, ControlOK, Suspending
    <2>3. Leaving' <=> Leaving
      BY <2>1 DEF Leaving
    <2>4. Leaving' \/ stateList'[pxCurrentTCB'] = "ready"
      BY <2>1, <2>3 DEF Scheduling, TypeOK, RunningOK, In
    <2>5. ASSUME NEW u \in In("ready")', Outranks(u)'
          PROVE  \/ xYieldPending' \/ Leaving'
                 \/ pc'[pxCurrentTCB'] = "created" /\ target'[pxCurrentTCB'] = u
      <3>1. Outranks(u)
        BY <2>1, <2>5 DEF Outranks
      <3>2. CASE u \in S
        BY <1>4, <2>1, <3>1, <3>2
      <3>3. CASE u \in In("ready")
        BY <1>4, <2>1, <2>3, <3>1, <3>3 DEF Scheduling, RunningOK
      <3> QED BY <3>2, <3>3
    <2>6. RunningOK'
      BY <2>4, <2>5 DEF RunningOK
    <2> QED BY <1>2, <2>2, <2>6 DEF Scheduling
  <1> QED BY <1>3, <1>4

\* xTaskIncrementTick and the types, and the tasks that become ready.
LEMMA IncrementTickTypes ==
    ASSUME Scheduling, IncrementTick
    PROVE  /\ xTickCount' \in Ticks
           /\ stateList' \in [Tasks -> StateLists]
           /\ wakeTime' \in [Tasks -> Ticks]
           /\ xNextTaskUnblockTime' \in Ticks
           /\ xEventList' \in Seq(Tasks) /\ xPendingReadyList' \subseteq Tasks
           /\ Due \in SUBSET Tasks
           /\ In("ready")' = In("ready") \cup Due
  <1>1. Due \in SUBSET Tasks
    BY DueType
  <1>2. ASSUME NEW u \in Tasks
        PROVE  stateList'[u] = "ready" <=> stateList[u] = "ready" \/ u \in Due
    <2>1. CASE u \in Due
      BY <1>1, <2>1, IncrementTickEffect DEF Scheduling
    <2>2. CASE u \notin Due
      BY <2>2, IncrementTickEffect DEF Scheduling
    <2> QED BY <2>1, <2>2
  <1>3. In("ready")' = In("ready") \cup Due
    BY <1>1, <1>2 DEF In
  <1> QED BY <1>1, <1>3, IncrementTickEffect, LeaveEventsEffect DEF Scheduling

LEMMA ReplayTickStep ==
    ASSUME Scheduling, NEW t \in Tasks, ReplayTick(t)
    PROVE  Scheduling'
  <1>1. /\ t = pxCurrentTCB /\ pc[t] \in {"replay", "replayThenYield"}
        /\ xPendedTicks > 0 /\ xPendedTicks' = xPendedTicks - 1
        /\ IncrementTick /\ Ready(Due, FALSE, SwitchRequired) /\ TicksCome(0, Due)
        /\ UNCHANGED <<uxPriority, uxSchedulerSuspended, pc, target>>
    BY DEF ReplayTick, InCritical, control
  <1>2. SwitchRequired \in BOOLEAN
    BY DEF Scheduling, TypeOK, SwitchRequired
  <1>3. TypeOK'
    <2>1. remaining' \in [Tasks -> Int]
      BY <1>1, TicksComeType DEF Scheduling
    <2>2. /\ uxTopReadyPriority' \in Priorities
          /\ xYieldPending' = SwitchRequired /\ pxCurrentTCB' = pxCurrentTCB
      BY <1>1, <1>2, IncrementTickTypes, ReadyEffect DEF Scheduling
    <2>3. xPendedTicks' \in 0 .. MaxPended
      BY <1>1, Constants DEF Scheduling, TypeOK
    <2> QED BY <1>1, <1>2, <2>1, <2>2, <2>3, IncrementTickTypes DEF Scheduling, TypeOK
  <1>4. (xYieldPending => SwitchRequired) /\ \A u \in Due : Outranks(u) => SwitchRequired
    BY DEF SwitchRequired
  <1> QED BY <1>1, <1>2, <1>3, <1>4, IncrementTickTypes, AfterReady

\* Where the tasks are after the running one goes on to a step of its own code.
LEMMA GoToRest ==
    ASSUME Scheduling, NEW t \in Tasks, t = pxCurrentTCB, NEW step \in AtRest,
           pc' = [pc EXCEPT ![t] = step]
    PROVE  pc' \in [Tasks -> AtRest]
  <1>1. \A u \in Tasks \ {t} : pc[u] \in AtRest
    BY DEF Scheduling, ControlOK, AtRest
  <1>2. \A u \in Tasks : pc'[u] \in AtRest
    BY <1>1 DEF Scheduling, TypeOK
  <1>3. pc' = [u \in Tasks |-> pc'[u]]
    BY DEF Scheduling, TypeOK
  <1> QED BY <1>2, <1>3

LEMMA ResumeEndStep ==
    ASSUME Scheduling, NEW t \in Tasks, ResumeEnd(t)
    PROVE  Scheduling'
  <1>1. /\ t = pxCurrentTCB /\ pc[t] \in {"replay", "replayThenYield"}
        /\ UNCHANGED <<stateList, wakeTime, remaining, xEventList, xPendingReadyList,
                       uxPriority, uxSchedulerSuspended, xTickCount, xPendedTicks,
                       xNextTaskUnblockTime, target>>
    BY DEF ResumeEnd, InCritical, GoTo, items, events, time
  <1>2. uxSchedulerSuspended = 0
    BY <1>1, Constants DEF Scheduling, TypeOK, ControlOK, Suspending
  <1>3. CASE xYieldPending
    <2>1. /\ SwitchContext(In("ready"), uxPriority, uxTopReadyPriority)
          /\ pc' = [pc EXCEPT ![t] = "app"]
      BY <1>3 DEF ResumeEnd, GoTo
    <2>2. pc' \in [Tasks -> AtRest]
      BY <1>1, <2>1, GoToRest DEF AtRest
    <2>3. target' \in [Tasks -> Tasks \cup {NoTask}]
      BY <1>1 DEF Scheduling, TypeOK
    <2> QED BY <1>1, <1>2, <2>1, <2>2, <2>3, AfterYield
  <1>4. CASE ~xYieldPending
    <2>1. /\ UNCHANGED <<pxCurrentTCB, uxTopReadyPriority, xYieldPending>>
          /\ pc' = [pc EXCEPT ![t] = IF pc[t] = "replayThenYield" THEN "yield" ELSE "app"]
      BY <1>4 DEF ResumeEnd, GoTo, switching
    <2>2. TypeOK'
      BY <1>1, <2>1 DEF Scheduling, TypeOK
    <2>3. ControlOK'
      BY <1>1, <1>2, <2>1 DEF Scheduling, TypeOK, ControlOK, Suspending
    <2>4. TopReadyPriorityHigh'
      BY <1>1, <2>1 DEF Scheduling, TopReadyPriorityHigh, In
    <2>5. RunningOK'
      BY <1>1, <1>4, <2>1 DEF Scheduling, TypeOK, RunningOK, Leaving, Outranks, In
    <2> QED BY <2>2, <2>3, <2>4, <2>5 DEF Scheduling
  <1> QED BY <1>3, <1>4

LEMMA YieldStep ==
    ASSUME Scheduling, NEW t \in Tasks, Yield(t)
    PROVE  Scheduling'
  <1>1. /\ t = pxCurrentTCB /\ pc[t] = "yield" /\ pc' = [pc EXCEPT ![t] = "app"]
        /\ SwitchContext(In("ready"), uxPriority, uxTopReadyPriority)
        /\ UNCHANGED <<stateList, wakeTime, remaining, xEventList, xPendingReadyList,
                       uxPriority, uxSchedulerSuspended, xTickCount, xPendedTicks,
                       xNextTaskUnblockTime, target>>
    BY DEF Yield, At, GoTo, items, events, time
  <1>2. uxSchedulerSuspended = 0
    BY <1>1, InCode DEF Scheduling, AtRest
  <1>3. pc' \in [Tasks -> AtRest]
    BY <1>1, GoToRest DEF AtRest
  <1>4. target' \in [Tasks -> Tasks \cup {NoTask}]
    BY <1>1 DEF Scheduling, TypeOK
  <1> QED BY <1>1, <1>2, <1>3, <1>4, AfterYield

LEMMA SignalStep ==
    ASSUME Scheduling, NEW t \in Tasks, Signal(t)
    PROVE  Scheduling'
  <1> DEFINE u == Head(xEventList)
  <1>1. /\ t = pxCurrentTCB /\ pc[t] = "app" /\ xEventList # <<>>
        /\ Move({u}, "ready") /\ xEventList' = Tail(xEventList)
        /\ Ready({u}, Outranks(u), xYieldPending)
        /\ UNCHANGED <<xPendingReadyList, uxPriority, uxSchedulerSuspended, xTickCount,
                       xPendedTicks, xNextTaskUnblockTime, pc, target>>
    BY DEF Signal, Called, At, time, control
  <1>2. u \in Tasks /\ xEventList' \in Seq(Tasks)
    BY <1>1, HeadTailProperties DEF Scheduling, TypeOK
  <1> HIDE DEF u
  <1>3. uxSchedulerSuspended = 0 /\ \A v \in Tasks : pc[v] \in AtRest
    BY <1>1, InCode DEF Scheduling, AtRest
  <1>4. {u} \in SUBSET Tasks /\ "ready" \in StateLists
    BY <1>2 DEF StateLists
  <1>5. /\ stateList' \in [Tasks -> StateLists]
        /\ wakeTime' \in [Tasks -> Ticks]
        /\ remaining' \in [Tasks -> Int]
        /\ \A v \in Tasks : stateList'[v] = IF v \in {u} THEN "ready" ELSE stateList[v]
    BY <1>1, <1>4, MoveEffect DEF Scheduling
  <1>6. In("ready")' = In("ready") \cup {u}
    BY <1>2, <1>5 DEF In
  <1>7. Outranks(u) \in BOOLEAN /\ xYieldPending \in BOOLEAN
    BY DEF Outranks, Scheduling, TypeOK
  <1>8. /\ uxTopReadyPriority' \in Priorities /\ xYieldPending' \in BOOLEAN
        /\ pxCurrentTCB' \in Tasks
    BY <1>1, <1>3, <1>4, <1>7, ReadyEffect DEF Scheduling, TypeOK, In
  <1>9. TypeOK'
    BY <1>1, <1>2, <1>5, <1>8 DEF Scheduling, TypeOK
  <1> QED BY <1>1, <1>3, <1>4, <1>6, <1>7, <1>9, AfterReady

LEMMA PrioritySetStep ==
    ASSUME Scheduling, NEW t \in Tasks, PrioritySet(t)
    PROVE  Scheduling'
  <1>1. PICK u \in Tasks \ {Idle} : \E p \in Priorities \ {uxPriority[u]} :
        /\ uxPriority' = [uxPriority EXCEPT ![u] = p]
        /\ \E top \in Priorities :
            /\ Recorded(top, {u} \cap In("ready"), uxPriority')
            /\ IF \/ p > uxPriority[u] /\ u # t /\ p >= uxPriority[t]
                  \/ p < uxPriority[u] /\ u = t
               THEN SwitchContext(In("ready"), uxPriority', top)
               ELSE RunOn(top, xYieldPending)
    BY DEF PrioritySet
  <1>2. PICK p \in Priorities \ {uxPriority[u]} :
        /\ uxPriority' = [uxPriority EXCEPT ![u] = p]
        /\ \E top \in Priorities :
            /\ Recorded(top, {u} \cap In("ready"), uxPriority')
            /\ IF \/ p > uxPriority[u] /\ u # t /\ p >= uxPriority[t]
                  \/ p < uxPriority[u] /\ u = t
               THEN SwitchContext(In("ready"), uxPriority', top)
               ELSE RunOn(top, xYieldPending)
    BY <1>1
  <1>3. PICK top \in Priorities :
            /\ Recorded(top, {u} \cap In("ready"), uxPriority')
            /\ IF \/ p > uxPriority[u] /\ u # t /\ p >= uxPriority[t]
                  \/ p < uxPriority[u] /\ u = t
               THEN SwitchContext(In("ready"), uxPriority', top)
               ELSE RunOn(top, xYieldPending)
    BY <1>2
  <1>4. /\ t = pxCurrentTCB /\ pc[t] = "app"
        /\ UNCHANGED <<stateList, wakeTime, remaining, xEventList, xPendingReadyList,
                       uxSchedulerSuspended, xTickCount, xPendedTicks, xNextTaskUnblockTime,
                       pc, target>>
    BY DEF PrioritySet, Called, At, items, events, time, control
  <1>5. uxSchedulerSuspended = 0 /\ \A v \in Tasks : pc[v] \in AtRest
    BY <1>4, InCode DEF Scheduling, AtRest
  <1>6. /\ uxPriority \in [Tasks -> Priorities] /\ uxPriority' \in [Tasks -> Priorities]
        /\ uxPriority'[u] = p /\ \A v \in Tasks \ {u} : uxPriority'[v] = uxPriority[v]
        /\ \A v \in Tasks : uxPriority[v] \in Nat /\ uxPriority'[v] \in Nat
        /\ uxTopReadyPriority \in Nat /\ top \in Nat /\ p \in Nat /\ In("ready") \in SUBSET Tasks
    BY <1>2, Constants DEF Scheduling, TypeOK, In
  <1>7. ASSUME NEW v \in In("ready") PROVE uxPriority'[v] <= top
    <2>1. CASE v = u
      BY <1>3, <2>1 DEF Recorded
    <2>2. CASE v # u
      <3>1. uxPriority'[v] = uxPriority[v] /\ uxPriority[v] <= uxTopReadyPriority
            /\ uxPriority[v] \in Nat
        BY <1>6, <2>2 DEF Scheduling, TopReadyPriorityHigh
      <3>2. uxTopReadyPriority <= top
        BY <1>3 DEF Recorded
      <3> QED BY <1>6, <3>1, <3>2
    <2> QED BY <2>1, <2>2
  <1>8. CASE SwitchContext(In("ready"), uxPriority', top)
    <2>1. /\ xYieldPending' = FALSE
          /\ pxCurrentTCB' \in In("ready")
          /\ \A v \in In("ready") : uxPriority'[v] <= uxPriority'[pxCurrentTCB']
          /\ uxTopReadyPriority' \in Priorities
          /\ \A v \in In("ready") : uxPriority'[v] <= uxTopReadyPriority'
      BY <1>5, <1>6, <1>7, <1>8, SwitchContextEffect
    <2>2. TypeOK'
      BY <1>4, <1>6, <2>1 DEF Scheduling, TypeOK
    <2>3. In("ready")' = In("ready")
      BY <1>4 DEF In
    <2> QED BY <1>4, <1>5, <2>1, <2>2, <2>3, AfterSwitch DEF Scheduling, TopReadyPriorityHigh
  <1>9. CASE /\ RunOn(top, xYieldPending)
             /\ ~(p > uxPriority[u] /\ u # t /\ p >= uxPriority[t])
             /\ ~(p < uxPriority[u] /\ u = t)
    <2>1. uxTopReadyPriority' = top /\ UNCHANGED <<xYieldPending, pxCurrentTCB>>
      BY <1>9 DEF RunOn
    <2>2. TypeOK'
      BY <1>4, <1>6, <2>1 DEF Scheduling, TypeOK
    <2>3. ControlOK'
      BY <1>4, <2>1 DEF Scheduling, ControlOK, Suspending
    <2>4. In("ready")' = In("ready")
      BY <1>4 DEF In
    <2>5. TopReadyPriorityHigh'
      BY <1>7, <2>1, <2>4 DEF TopReadyPriorityHigh
    <2>6. ASSUME NEW v \in In("ready"), uxPriority'[v] > uxPriority'[t]
          PROVE  uxPriority[v] > uxPriority[t]
      <3>1. v \in Tasks /\ uxPriority[u] \in Nat /\ uxPriority[t] \in Nat /\ uxPriority[v] \in Nat
        BY <1>6
      <3>2. CASE u = t
        BY <1>6, <1>9, <2>6, <3>1, <3>2
      <3>3. CASE u # t
        BY <1>6, <1>9, <2>6, <3>1, <3>3
      <3> QED BY <3>2, <3>3
    <2>7. ~Leaving /\ ~Leaving'
      BY <1>4, <2>1 DEF Leaving
    <2>8. RunningOK'
      BY <1>4, <2>1, <2>4, <2>6, <2>7 DEF Scheduling, RunningOK, Outranks
    <2> QED BY <2>2, <2>3, <2>5, <2>8 DEF Scheduling
  <1> QED BY <1>3, <1>8, <1>9

LEMMA SuspendStep ==
    ASSUME Scheduling, NEW t \in Tasks, Suspend(t)
    PROVE  Scheduling'
  <1>1. PICK u \in Tasks \ {Idle} : /\ Move({u}, "suspended") /\ LeaveEvents({u})
                                    /\ target' = [target EXCEPT ![t] = u]
    BY DEF Suspend
  <1>2. /\ t = pxCurrentTCB /\ pc[t] = "app" /\ pc' = [pc EXCEPT ![t] = "suspended"]
        /\ UNCHANGED <<uxPriority, pxCurrentTCB, uxTopReadyPriority, xYieldPending,
                       uxSchedulerSuspended, xTickCount, xPendedTicks, xNextTaskUnblockTime>>
    BY DEF Suspend, Called, At, switching, time
  <1>3. /\ stateList' \in [Tasks -> StateLists]
        /\ wakeTime' \in [Tasks -> Ticks]
        /\ remaining' \in [Tasks -> Int]
        /\ \A v \in Tasks : stateList'[v] = IF v \in {u} THEN "suspended" ELSE stateList[v]
    BY <1>1, MoveEffect DEF Scheduling, StateLists
  <1>4. xEventList' \in Seq(Tasks) /\ xPendingReadyList' \subseteq Tasks
    BY <1>1, LeaveEventsEffect DEF Scheduling
  <1>5. TypeOK'
    BY <1>1, <1>2, <1>3, <1>4 DEF Scheduling, TypeOK
  <1>6. ControlOK'
    BY <1>2 DEF Scheduling, TypeOK, ControlOK, Suspending
  <1>7. In("ready")' \subseteq In("ready") \ {u}
    BY <1>3 DEF In
  <1>8. TopReadyPriorityHigh'
    BY <1>2, <1>7 DEF Scheduling, TopReadyPriorityHigh
  <1>9. RunningOK'
    <2>1. CASE u = t
      BY <1>1, <1>2, <2>1 DEF Scheduling, TypeOK, RunningOK, Leaving
    <2>2. CASE u # t
      BY <1>1, <1>2, <1>3, <1>7, <2>2 DEF Scheduling, TypeOK, RunningOK, Leaving, Outranks
    <2> QED BY <2>1, <2>2
  <1> QED BY <1>5, <1>6, <1>8, <1>9 DEF Scheduling

LEMMA SuspendEndStep ==
    ASSUME Scheduling, NEW t \in Tasks, SuspendEnd(t)
    PROVE  Scheduling'
  <1>1. /\ t = pxCurrentTCB /\ pc[t] = "suspended" /\ ResetNextTaskUnblockTime(In("delayed"))
        /\ pc' = [pc EXCEPT ![t] = IF target[t] = t THEN "yield" ELSE "app"]
        /\ target' = [target EXCEPT ![t] = NoTask]
        /\ UNCHANGED <<stateList, wakeTime, remaining, xEventList, xPendingReadyList, uxPriority,
                       pxCurrentTCB, uxTopReadyPriority, xYieldPending,
                       uxSchedulerSuspended, xTickCount, xPendedTicks>>
    BY DEF SuspendEnd, At, items, events, switching, time
  <1>2. xNextTaskUnblockTime' \in Ticks
    BY <1>1, ResetType DEF Scheduling, TypeOK, In
  <1>3. TypeOK'
    BY <1>1, <1>2 DEF Scheduling, TypeOK
  <1>4. ControlOK'
    BY <1>1 DEF Scheduling, TypeOK, ControlOK, Suspending
  <1>5. TopReadyPriorityHigh'
    BY <1>1 DEF Scheduling, TopReadyPriorityHigh, In
  <1>6. RunningOK'
    BY <1>1 DEF Scheduling, TypeOK, RunningOK, Leaving, Outranks, In
  <1> QED BY <1>3, <1>4, <1>5, <1>6 DEF Scheduling

LEMMA ResumeStep ==
    ASSUME Scheduling, NEW t \in Tasks, Resume(t)
    PROVE  Scheduling'
  <1>1. PICK u \in Tasks : Move({u}, "ready") /\ Ready({u}, OutranksOrTies(u), xYieldPending)
    BY DEF Resume
  <1>2. /\ t = pxCurrentTCB /\ pc[t] = "app"
        /\ UNCHANGED <<xEventList, xPendingReadyList, uxPriority, uxSchedulerSuspended,
                       xTickCount, xPendedTicks, xNextTaskUnblockTime, pc, target>>
    BY DEF Resume, Called, At, events, time, control
  <1>3. uxSchedulerSuspended = 0 /\ \A v \in Tasks : pc[v] \in AtRest
    BY <1>2, InCode DEF Scheduling, AtRest
  <1>4. {u} \in SUBSET Tasks /\ "ready" \in StateLists
    BY DEF StateLists
  <1>5. /\ stateList' \in [Tasks -> StateLists]
        /\ wakeTime' \in [Tasks -> Ticks]
        /\ remaining' \in [Tasks -> Int]
        /\ \A v \in Tasks : stateList'[v] = IF v \in {u} THEN "ready" ELSE stateList[v]
    BY <1>1, <1>4, MoveEffect DEF Scheduling
  <1>6. In("ready")' = In("ready") \cup {u}
    BY <1>5 DEF In
  <1>7. OutranksOrTies(u) \in BOOLEAN /\ xYieldPending \in BOOLEAN
    BY DEF OutranksOrTies, Scheduling, TypeOK
  <1>8. /\ uxTopReadyPriority' \in Priorities /\ xYieldPending' \in BOOLEAN
        /\ pxCurrentTCB' \in Tasks
    BY <1>1, <1>3, <1>4, <1>7, ReadyEffect DEF Scheduling, TypeOK, In
  <1>9. TypeOK'
    BY <1>2, <1>5, <1>8 DEF Scheduling, TypeOK
  <1>10. Outranks(u) => OutranksOrTies(u)
    <2>1. uxPriority[u] \in Nat /\ uxPriority[pxCurrentTCB] \in Nat
      BY Constants DEF Scheduling, TypeOK
    <2> QED BY <2>1 DEF Outranks, OutranksOrTies
  <1> QED BY <1>1, <1>2, <1>3, <1>4, <1>6, <1>7, <1>9, <1>10, AfterReady

LEMMA DeleteStep ==
    ASSUME Scheduling, NEW t \in Tasks, Delete(t)
    PROVE  Scheduling'
  <1>1. PICK u \in Tasks \ {Idle} :
        /\ LeaveEvents({u})
        /\ IF u = t
           THEN /\ Move({t}, "terminating") /\ GoTo(t, "yield")
                /\ UNCHANGED xNextTaskUnblockTime
           ELSE /\ Move({u}, "deleted")
                /\ ResetNextTaskUnblockTime(In("delayed") \ {u})
                /\ pc' = [pc EXCEPT ![u] = "app"] /\ target' = [target EXCEPT ![u] = NoTask]
    BY DEF Delete
  <1>2. /\ t = pxCurrentTCB /\ pc[t] = "app"
        /\ UNCHANGED <<uxPriority, pxCurrentTCB, uxTopReadyPriority, xYieldPending,
                       uxSchedulerSuspended, xTickCount, xPendedTicks>>
    BY DEF Delete, Called, At, switching, time
  <1>3. xEventList' \in Seq(Tasks) /\ xPendingReadyList' \subseteq Tasks
    BY <1>1, LeaveEventsEffect DEF Scheduling
  <1>4. CASE u = t
    <2>1. Move({t}, "terminating") /\ pc' = [pc EXCEPT ![t] = "yield"]
          /\ UNCHANGED <<xNextTaskUnblockTime, target>>
      BY <1>1, <1>4 DEF GoTo
    <2>2. /\ stateList' \in [Tasks -> StateLists]
          /\ wakeTime' \in [Tasks -> Ticks]
          /\ remaining' \in [Tasks -> Int]
          /\ \A v \in Tasks : stateList'[v] = IF v \in {t} THEN "terminating" ELSE stateList[v]
      BY <2>1, MoveEffect DEF Scheduling, StateLists
    <2>3. TypeOK'
      BY <1>2, <1>3, <2>1, <2>2 DEF Scheduling, TypeOK
    <2>4. ControlOK' /\ Leaving'
      BY <1>2, <2>1 DEF Scheduling, TypeOK, ControlOK, Suspending, Leaving
    <2>5. In("ready")' \subseteq In("ready")
      BY <2>2 DEF In
    <2>6. TopReadyPriorityHigh' /\ RunningOK'
      BY <1>2, <2>4, <2>5 DEF Scheduling, TopReadyPriorityHigh, RunningOK
    <2> QED BY <2>3, <2>4, <2>6 DEF Scheduling
  <1>5. CASE u # t
    <2>1. /\ Move({u}, "deleted") /\ ResetNextTaskUnblockTime(In("delayed") \ {u})
          /\ pc' = [pc EXCEPT ![u] = "app"] /\ target' = [target EXCEPT ![u] = NoTask]
      BY <1>1, <1>5
    <2>2. /\ stateList' \in [Tasks -> StateLists]
          /\ wakeTime' \in [Tasks -> Ticks]
          /\ remaining' \in [Tasks -> Int]
          /\ \A v \in Tasks : stateList'[v] = IF v \in {u} THEN "deleted" ELSE stateList[v]
      BY <2>1, MoveEffect DEF Scheduling, StateLists
    <2>3. xNextTaskUnblockTime' \in Ticks
      BY <2>1, ResetType DEF Scheduling, TypeOK, In
    <2>4. TypeOK'
      BY <1>2, <1>3, <2>1, <2>2, <2>3 DEF Scheduling, TypeOK
    <2>5. ControlOK' /\ ~Leaving /\ ~Leaving'
      BY <1>2, <1>5, <2>1 DEF Scheduling, TypeOK, ControlOK, Suspending, Leaving
    <2>6. In("ready")' \subseteq In("ready")
      BY <2>2 DEF In
    <2>7. TopReadyPriorityHigh'
      BY <1>2, <2>6 DEF Scheduling, TopReadyPriorityHigh
    <2>8. RunningOK'
      BY <1>2, <1>5, <2>2, <2>5, <2>6 DEF Scheduling, TypeOK, RunningOK, Outranks
    <2> QED BY <2>4, <2>5, <2>7, <2>8 DEF Scheduling
  <1> QED BY <1>4, <1>5

LEMMA CleanupStep ==
    ASSUME Scheduling, NEW t \in Tasks, Cleanup(t)
    PROVE  Scheduling'
  <1>1. PICK u \in In("terminating") : Move({u}, "deleted")
    BY DEF Cleanup
  <1>2. /\ t = pxCurrentTCB /\ pc[t] = "app"
        /\ UNCHANGED <<xEventList, xPendingReadyList, uxPriority, pxCurrentTCB,
                       uxTopReadyPriority, xYieldPending, uxSchedulerSuspended, xTickCount,
                       xPendedTicks, xNextTaskUnblockTime, pc, target>>
    BY DEF Cleanup, At, events, switching, time, control
  <1>3. u \in Tasks /\ stateList[u] = "terminating"
    BY DEF In
  <1>4. /\ stateList' \in [Tasks -> StateLists]
        /\ wakeTime' \in [Tasks -> Ticks]
        /\ remaining' \in [Tasks -> Int]
        /\ \A v \in Tasks : stateList'[v] = IF v \in {u} THEN "deleted" ELSE stateList[v]
    BY <1>1, <1>3, MoveEffect DEF Scheduling, StateLists
  <1>5. TypeOK'
    BY <1>2, <1>4 DEF Scheduling, TypeOK
  <1>6. ControlOK' /\ ~Leaving /\ ~Leaving'
    BY <1>2 DEF Scheduling, ControlOK, Suspending, Leaving
  <1>7. In("ready")' = In("ready")
    BY <1>3, <1>4 DEF In
  <1>8. TopReadyPriorityHigh'
    BY <1>2, <1>7 DEF Scheduling, TopReadyPriorityHigh
  <1>9. RunningOK'
    BY <1>2, <1>3, <1>4, <1>6, <1>7 DEF Scheduling, TypeOK, RunningOK, Outranks
  <1> QED BY <1>5, <1>6, <1>8, <1>9 DEF Scheduling

LEMMA CreateStep ==
    ASSUME Scheduling, NEW t \in Tasks, Create(t)
    PROVE  Scheduling'
  <1>1. PICK u \in In("deleted"), p \in Priorities :
        /\ uxPriority' = [uxPriority EXCEPT ![u] = p]
        /\ Move({u}, "ready")
        /\ \E top \in Priorities : Recorded(top, {u}, uxPriority') /\ RunOn(top, xYieldPending)
        /\ target' = [target EXCEPT ![t] = u]
        /\ pc' = [pc EXCEPT ![t] = "created", ![u] = "app"]
    BY DEF Create
  <1>2. PICK top \in Priorities : Recorded(top, {u}, uxPriority') /\ RunOn(top, xYieldPending)
    BY <1>1
  <1>3. /\ t = pxCurrentTCB /\ pc[t] = "app"
        /\ uxTopReadyPriority' = top
        /\ UNCHANGED <<xEventList, xPendingReadyList, pxCurrentTCB, xYieldPending,
                       uxSchedulerSuspended, xTickCount, xPendedTicks, xNextTaskUnblockTime>>
    BY <1>2 DEF Create, Called, At, RunOn, events, time
  <1>4. u \in Tasks /\ stateList[u] = "deleted" /\ ~Leaving /\ u # t
    BY <1>3 DEF In, Leaving, Scheduling, RunningOK
  <1>5. /\ stateList' \in [Tasks -> StateLists]
        /\ wakeTime' \in [Tasks -> Ticks]
        /\ remaining' \in [Tasks -> Int]
        /\ \A v \in Tasks : stateList'[v] = IF v \in {u} THEN "ready" ELSE stateList[v]
    BY <1>1, <1>4, MoveEffect DEF Scheduling, StateLists
  <1>6. TypeOK'
    BY <1>1, <1>3, <1>4, <1>5 DEF Scheduling, TypeOK
  <1>7. ControlOK'
    BY <1>1, <1>3, <1>4 DEF Scheduling, TypeOK, ControlOK, Suspending
  <1>8. In("ready")' = In("ready") \cup {u}
    BY <1>4, <1>5 DEF In
  <1>9. \A v \in Tasks \ {u} : uxPriority'[v] = uxPriority[v]
    BY <1>1 DEF Scheduling, TypeOK
  <1>10. ASSUME NEW v \in In("ready") \cup {u} PROVE uxPriority'[v] <= top
    <2>1. uxTopReadyPriority <= top /\ uxPriority'[u] <= top
      BY <1>2 DEF Recorded
    <2>2. CASE v # u
      <3>1. v \in In("ready") /\ uxPriority'[v] = uxPriority[v]
        BY <1>9, <2>2 DEF In
      <3>2. uxPriority[v] <= uxTopReadyPriority
        BY <3>1 DEF Scheduling, TopReadyPriorityHigh
      <3>3. uxPriority[v] \in Nat /\ uxTopReadyPriority \in Nat /\ top \in Nat
        BY <3>1, Constants DEF Scheduling, TypeOK, In
      <3> QED BY <2>1, <3>1, <3>2, <3>3
    <2> QED BY <2>1, <2>2
  <1>11. TopReadyPriorityHigh'
    BY <1>3, <1>8, <1>10 DEF TopReadyPriorityHigh
  <1>12. RunningOK'
    <2>1. stateList'[pxCurrentTCB'] = "ready"
      BY <1>3, <1>4, <1>5 DEF Scheduling, TypeOK, RunningOK
    <2>2. pc'[t] = "created" /\ target'[t] = u
      BY <1>1, <1>4 DEF Scheduling, TypeOK
    <2>3. ASSUME NEW v \in In("ready")', Outranks(v)', v # u
          PROVE  xYieldPending'
      <3>1. v \in In("ready") /\ Outranks(v)
        BY <1>3, <1>4, <1>8, <1>9, <2>3 DEF Outranks, In
      <3> QED BY <1>3, <1>4, <3>1 DEF Scheduling, RunningOK
    <2> QED BY <1>3, <2>1, <2>2, <2>3 DEF RunningOK
  <1> QED BY <1>6, <1>7, <1>11, <1>12 DEF Scheduling

LEMMA CreateEndStep ==
    ASSUME Scheduling, NEW t \in Tasks, CreateEnd(t)
    PROVE  Scheduling'
  <1>1. /\ t = pxCurrentTCB /\ pc[t] = "created"
        /\ pc' = [pc EXCEPT ![t] = "app"] /\ target' = [target EXCEPT ![t] = NoTask]
        /\ UNCHANGED <<stateList, wakeTime, remaining, xEventList, xPendingReadyList, uxPriority,
                       uxSchedulerSuspended, xTickCount, xPendedTicks, xNextTaskUnblockTime>>
    BY DEF CreateEnd, At, items, events, time
  <1>2. uxSchedulerSuspended = 0
    BY <1>1, InCode DEF Scheduling, AtRest
  <1>3. pc' \in [Tasks -> AtRest]
    BY <1>1, GoToRest DEF AtRest
  <1>4. target' \in [Tasks -> Tasks \cup {NoTask}]
    BY <1>1 DEF Scheduling, TypeOK
  <1>5. PICK yields \in IF stateList[target[t]] = "deleted"
                        THEN BOOLEAN ELSE {uxPriority[t] < uxPriority[target[t]]} :
          IF yields
          THEN SwitchContext(In("ready"), uxPriority, uxTopReadyPriority)
          ELSE UNCHANGED switching
    BY DEF CreateEnd
  <1>6. CASE yields
    BY <1>1, <1>2, <1>3, <1>4, <1>5, <1>6, AfterYield
  <1>7. CASE ~yields
    <2>1. UNCHANGED <<pxCurrentTCB, uxTopReadyPriority, xYieldPending>>
      BY <1>5, <1>7 DEF switching
    <2>2. TypeOK'
      BY <1>1, <2>1 DEF Scheduling, TypeOK
    <2>3. ControlOK'
      BY <1>1, <2>1 DEF Scheduling, TypeOK, ControlOK, Suspending
    <2>4. TopReadyPriorityHigh'
      BY <1>1, <2>1 DEF Scheduling, TopReadyPriorityHigh, In
    <2>5. ~Leaving /\ In("ready")' = In("ready")
      BY <1>1 DEF Leaving, In
    <2>6. ASSUME NEW v \in In("ready"), Outranks(v), ~xYieldPending
          PROVE  FALSE
      <3>1. v = target[t]
        BY <1>1, <2>5, <2>6 DEF Scheduling, RunningOK
      <3>2. yields = (uxPriority[t] < uxPriority[v])
        BY <1>5, <2>6, <3>1 DEF In
      <3>3. uxPriority[v] \in Nat /\ uxPriority[t] \in Nat /\ uxPriority[v] > uxPriority[t]
        BY <1>1, <2>6, Constants DEF Scheduling, TypeOK, In, Outranks
      <3>4. uxPriority[t] < uxPriority[v]
        BY <3>3
      <3> QED BY <1>7, <3>2, <3>4
    <2>7. RunningOK'
      BY <1>1, <2>1, <2>5, <2>6 DEF Scheduling, RunningOK, Outranks
    <2> QED BY <2>2, <2>3, <2>4, <2>7 DEF Scheduling
  <1> QED BY <1>6, <1>7

LEMMA EnterAbortStep ==
    ASSUME Scheduling, NEW t \in Tasks, EnterAbort(t)
    PROVE  Scheduling'
  <1>1. PICK u \in Tasks : target' = [target EXCEPT ![t] = u]
    BY DEF EnterAbort
  <1>2. /\ t = pxCurrentTCB /\ pc[t] = "app" /\ uxSchedulerSuspended = 0
        /\ uxSchedulerSuspended' = uxSchedulerSuspended + 1
        /\ pc' = [pc EXCEPT ![t] = "abortCheck"]
        /\ UNCHANGED <<stateList, wakeTime, remaining, xEventList, xPendingReadyList, uxPriority,
                       pxCurrentTCB, uxTopReadyPriority, xYieldPending, xTickCount, xPendedTicks,
                       xNextTaskUnblockTime>>
    BY DEF EnterAbort, Called, At, items, events, switching, time
  <1>3. TypeOK'
    BY <1>1, <1>2, Constants DEF Scheduling, TypeOK
  <1>4. ControlOK'
    BY <1>2 DEF Scheduling, TypeOK, ControlOK, Suspending
  <1>5. RunningOK' /\ TopReadyPriorityHigh'
    BY <1>2 DEF Scheduling, TypeOK, RunningOK, TopReadyPriorityHigh, Leaving, Outranks, In
  <1> QED BY <1>3, <1>4, <1>5 DEF Scheduling

LEMMA AbortCheckStep ==
    ASSUME Scheduling, AbortOK, NEW t \in Tasks, AbortCheck(t)
    PROVE  Scheduling'
  <1> DEFINE u == target[t]
  <1>1. /\ t = pxCurrentTCB /\ pc[t] = "abortCheck"
        /\ UNCHANGED <<xEventList, xPendingReadyList, uxPriority,
                       pxCurrentTCB, uxTopReadyPriority, xYieldPending,
                       uxSchedulerSuspended, xTickCount, xPendedTicks, xNextTaskUnblockTime>>
    BY DEF AbortCheck, At, events, switching, time
  <1>2. stateList[t] = "ready" /\ ~Leaving
    BY <1>1 DEF Scheduling, RunningOK, Leaving
  <1>3. CASE IsBlocked(u)
    <2>1. /\ Move({u}, "none") /\ pc' = [pc EXCEPT ![t] = "abortRemove"] /\ target' = target
      BY <1>3 DEF AbortCheck, GoTo
    <2>2. u # t /\ u \in Tasks
      BY <1>1, <1>2, <1>3 DEF IsBlocked, AbortOK
    <2>3. /\ stateList' \in [Tasks -> StateLists]
          /\ wakeTime' \in [Tasks -> Ticks]
          /\ remaining' \in [Tasks -> Int]
          /\ \A v \in Tasks : stateList'[v] = IF v \in {u} THEN "none" ELSE stateList[v]
      BY <2>1, <2>2, MoveEffect DEF Scheduling, StateLists
    <2>4. TypeOK'
      BY <1>1, <2>1, <2>3 DEF Scheduling, TypeOK
    <2>5. ControlOK' /\ ~Leaving'
      BY <1>1, <2>1 DEF Scheduling, TypeOK, ControlOK, Suspending, Leaving
    <2>6. In("ready")' \subseteq In("ready")
      BY <2>3 DEF In
    <2>7. TopReadyPriorityHigh'
      BY <1>1, <2>6 DEF Scheduling, TopReadyPriorityHigh
    <2>8. RunningOK'
      BY <1>1, <1>2, <2>2, <2>3, <2>5, <2>6 DEF Scheduling, TypeOK, RunningOK, Outranks
    <2> QED BY <2>4, <2>5, <2>7, <2>8 DEF Scheduling
  <1>4. CASE ~IsBlocked(u)
    <2>1. /\ pc' = [pc EXCEPT ![t] = "resume"] /\ target' = [target EXCEPT ![t] = NoTask]
          /\ UNCHANGED <<stateList, wakeTime, remaining>>
      BY <1>4 DEF AbortCheck, items
    <2>2. TypeOK'
      BY <1>1, <2>1 DEF Scheduling, TypeOK
    <2>3. ControlOK'
      BY <1>1, <2>1 DEF Scheduling, TypeOK, ControlOK, Suspending
    <2>4. RunningOK' /\ TopReadyPriorityHigh'
      BY <1>1, <2>1 DEF Scheduling, TypeOK, RunningOK, TopReadyPriorityHigh, Leaving, Outranks, In
    <2> QED BY <2>2, <2>3, <2>4 DEF Scheduling
  <1> QED BY <1>3, <1>4

LEMMA AbortRemoveStep ==
    ASSUME Scheduling, NEW t \in Tasks, AbortRemove(t)
    PROVE  Scheduling'
  <1>1. /\ t = pxCurrentTCB /\ pc[t] = "abortRemove" /\ LeaveEvents({target[t]})
        /\ pc' = [pc EXCEPT ![t] = "abortReady"]
        /\ UNCHANGED <<stateList, wakeTime, remaining, uxPriority,
                       pxCurrentTCB, uxTopReadyPriority, xYieldPending, uxSchedulerSuspended,
                       xTickCount, xPendedTicks, xNextTaskUnblockTime, target>>
    BY DEF AbortRemove, At, GoTo, items, switching, time
  <1>2. xEventList' \in Seq(Tasks) /\ xPendingReadyList' \subseteq Tasks
    BY <1>1, LeaveEventsEffect DEF Scheduling
  <1>3. TypeOK'
    BY <1>1, <1>2 DEF Scheduling, TypeOK
  <1>4. ControlOK'
    BY <1>1 DEF Scheduling, TypeOK, ControlOK, Suspending
  <1>5. RunningOK' /\ TopReadyPriorityHigh'
    BY <1>1 DEF Scheduling, TypeOK, RunningOK, TopReadyPriorityHigh, Leaving, Outranks, In
  <1> QED BY <1>3, <1>4, <1>5 DEF Scheduling

LEMMA AbortReadyStep ==
    ASSUME Scheduling, AbortOK, NEW t \in Tasks, AbortReady(t)
    PROVE  Scheduling'
  <1> DEFINE u == target[t]
  <1>1. /\ t = pxCurrentTCB /\ pc[t] = "abortReady"
        /\ Move({u}, "ready") /\ Ready({u}, FALSE, xYieldPending \/ Outranks(u))
        /\ pc' = [pc EXCEPT ![t] = "resume"] /\ target' = [target EXCEPT ![t] = NoTask]
        /\ UNCHANGED <<xEventList, xPendingReadyList, uxPriority, uxSchedulerSuspended,
                       xTickCount, xPendedTicks, xNextTaskUnblockTime>>
    BY DEF AbortReady, At, events, time
  <1>2. u \in Tasks
    BY <1>1 DEF AbortOK
  <1> HIDE DEF u
  <1>3. {u} \in SUBSET Tasks /\ "ready" \in StateLists
    BY <1>2 DEF StateLists
  <1>4. /\ stateList' \in [Tasks -> StateLists]
        /\ wakeTime' \in [Tasks -> Ticks]
        /\ remaining' \in [Tasks -> Int]
        /\ \A v \in Tasks : stateList'[v] = IF v \in {u} THEN "ready" ELSE stateList[v]
    BY <1>1, <1>3, MoveEffect DEF Scheduling
  <1>5. /\ uxTopReadyPriority' \in Priorities
        /\ \A v \in In("ready") \cup {u} : uxPriority[v] <= uxTopReadyPriority'
        /\ xYieldPending' = (xYieldPending \/ Outranks(u))
        /\ pxCurrentTCB' = pxCurrentTCB
    BY <1>1, <1>3, ReadyEffect DEF Scheduling
  <1>6. xYieldPending' \in BOOLEAN
    BY <1>5
  <1>7. TypeOK'
    BY <1>1, <1>4, <1>5, <1>6 DEF Scheduling, TypeOK
  <1>8. ControlOK' /\ ~Leaving
    BY <1>1, <1>5 DEF Scheduling, TypeOK, ControlOK, Suspending, Leaving
  <1>9. In("ready")' = In("ready") \cup {u}
    BY <1>2, <1>4 DEF In
  <1>10. TopReadyPriorityHigh'
    BY <1>1, <1>5, <1>9 DEF TopReadyPriorityHigh
  <1>11. RunningOK'
    <2>1. stateList'[pxCurrentTCB'] = "ready"
      BY <1>4, <1>5, <1>8 DEF Scheduling, TypeOK, RunningOK
    <2>2. ASSUME NEW v \in In("ready")', Outranks(v)' PROVE xYieldPending'
      <3>1. Outranks(v)
        BY <1>1, <1>5, <2>2 DEF Outranks
      <3>2. CASE v = u
        BY <1>5, <3>1, <3>2
      <3>3. CASE v \in In("ready")
        BY <1>1, <1>5, <1>8, <3>1, <3>3 DEF Scheduling, RunningOK
      <3> QED BY <1>9, <3>2, <3>3
    <2> QED BY <2>1, <2>2 DEF RunningOK
  <1> QED BY <1>7, <1>8, <1>10, <1>11 DEF Scheduling

LEMMA EnterCatchUpStep ==
    ASSUME Scheduling, NEW t \in Tasks, EnterCatchUp(t)
    PROVE  Scheduling'
  <1>1. /\ t = pxCurrentTCB /\ pc[t] = "app" /\ uxSchedulerSuspended = 0
        /\ uxSchedulerSuspended' = 1 /\ pc' = [pc EXCEPT ![t] = "catchUp"]
        /\ UNCHANGED <<stateList, wakeTime, remaining, xEventList, xPendingReadyList, uxPriority,
                       pxCurrentTCB, uxTopReadyPriority, xYieldPending, xTickCount, xPendedTicks,
                       xNextTaskUnblockTime, target>>
    BY DEF EnterCatchUp, Called, At, SuspendAllIn, GoTo, items, events, switching, time, control
  <1>2. TypeOK'
    BY <1>1, Constants DEF Scheduling, TypeOK
  <1>3. ControlOK'
    BY <1>1 DEF Scheduling, TypeOK, ControlOK, Suspending
  <1>4. RunningOK' /\ TopReadyPriorityHigh'
    BY <1>1 DEF Scheduling, TypeOK, RunningOK, TopReadyPriorityHigh, Leaving, Outranks, In
  <1> QED BY <1>2, <1>3, <1>4 DEF Scheduling

LEMMA CatchUpStep ==
    ASSUME Scheduling, NEW t \in Tasks, CatchUp(t)
    PROVE  Scheduling'
  <1>1. PICK n \in 0 .. MaxPended - xPendedTicks :
          xPendedTicks' = xPendedTicks + n /\ TicksCome(n, {})
    BY DEF CatchUp
  <1>2. /\ t = pxCurrentTCB /\ pc[t] = "catchUp" /\ pc' = [pc EXCEPT ![t] = "resume"]
        /\ UNCHANGED <<stateList, wakeTime, xEventList, xPendingReadyList, uxPriority,
                       pxCurrentTCB, uxTopReadyPriority, xYieldPending, uxSchedulerSuspended,
                       xTickCount, xNextTaskUnblockTime, target>>
    BY DEF CatchUp, At, GoTo, events, switching
  <1>3. n \in Nat /\ xPendedTicks' \in 0 .. MaxPended
    BY <1>1, Constants DEF Scheduling, TypeOK
  <1>4. remaining' \in [Tasks -> Int]
    BY <1>1, <1>3, TicksComeType DEF Scheduling
  <1>5. TypeOK'
    BY <1>2, <1>3, <1>4 DEF Scheduling, TypeOK
  <1>6. ControlOK'
    BY <1>2 DEF Scheduling, TypeOK, ControlOK, Suspending
  <1>7. RunningOK' /\ TopReadyPriorityHigh'
    BY <1>2 DEF Scheduling, TypeOK, RunningOK, TopReadyPriorityHigh, Leaving, Outranks, In
  <1> QED BY <1>5, <1>6, <1>7 DEF Scheduling

\* An interrupt comes between two steps: either the scheduler is suspended or the
\* tasks are in their own code.
LEMMA Interruptible ==
    ASSUME Scheduling, ~InCritical, uxSchedulerSuspended = 0
    PROVE  \A t \in Tasks : pc[t] \in AtRest
  <1>1. pc[pxCurrentTCB] \in AtRest
    BY DEF Scheduling, TypeOK, ControlOK, Suspending, InCritical, AtRest
  <1> QED BY <1>1, InCode DEF Scheduling

LEMMA TickStep ==
    ASSUME Scheduling, Tick
    PROVE  Scheduling'
  <1>1. ~InCritical /\ UNCHANGED <<uxPriority, uxSchedulerSuspended, pc, target>>
    BY DEF Tick, control
  <1>2. CASE uxSchedulerSuspended = 0
    <2>1. /\ IncrementTick /\ Ready(Due, SwitchRequired, xYieldPending)
          /\ TicksCome(1, Due) /\ UNCHANGED xPendedTicks
      BY <1>2 DEF Tick
    <2>2. SwitchRequired \in BOOLEAN /\ xYieldPending \in BOOLEAN
      BY DEF Scheduling, TypeOK, SwitchRequired
    <2>3. TypeOK'
      <3>1. remaining' \in [Tasks -> Int]
        BY <2>1, TicksComeType DEF Scheduling
      <3>2. In("ready") \cup Due \subseteq Tasks
        BY DueType DEF In
      <3>3. /\ uxTopReadyPriority' \in Priorities
            /\ xYieldPending' \in BOOLEAN /\ pxCurrentTCB' \in Tasks
        BY <1>2, <2>1, <2>2, <3>2, IncrementTickTypes, ReadyEffect DEF Scheduling, TypeOK
      <3> QED BY <1>1, <2>1, <3>1, <3>3, IncrementTickTypes DEF Scheduling, TypeOK
    <2>4. ~SwitchRequired => \A u \in Due : ~Outranks(u)
      BY DEF SwitchRequired
    <2>5. \A u \in Tasks : pc[u] \in AtRest
      BY <1>1, <1>2, Interruptible
    <2> QED BY <1>1, <1>2, <2>1, <2>2, <2>3, <2>4, <2>5, IncrementTickTypes, AfterReady
  <1>3. CASE uxSchedulerSuspended # 0
    <2>1. /\ xPendedTicks < MaxPended /\ xPendedTicks' = xPendedTicks + 1
          /\ TicksCome(1, {})
          /\ UNCHANGED <<stateList, wakeTime, xEventList, xPendingReadyList, pxCurrentTCB,
                         uxTopReadyPriority, xYieldPending, xTickCount, xNextTaskUnblockTime>>
      BY <1>3 DEF Tick, events, switching
    <2>2. remaining' \in [Tasks -> Int]
      BY <2>1, TicksComeType DEF Scheduling
    <2>3. xPendedTicks' \in 0 .. MaxPended
      BY <2>1, Constants DEF Scheduling, TypeOK
    <2>4. TypeOK'
      BY <1>1, <2>1, <2>2, <2>3 DEF Scheduling, TypeOK
    <2>5. ControlOK' /\ RunningOK' /\ TopReadyPriorityHigh'
      BY <1>1, <2>1 DEF Scheduling, ControlOK, Suspending, RunningOK, TopReadyPriorityHigh,
                        Leaving, Outranks, In
    <2> QED BY <2>4, <2>5 DEF Scheduling
  <1> QED BY <1>2, <1>3

LEMMA SignalFromISRStep ==
    ASSUME Scheduling, SignalFromISR
    PROVE  Scheduling'
  <1> DEFINE u == Head(xEventList)
  <1>1. /\ ~InCritical /\ xEventList # <<>> /\ xEventList' = Tail(xEventList)
        /\ UNCHANGED <<uxPriority, uxSchedulerSuspended, xTickCount, xPendedTicks,
                       xNextTaskUnblockTime, pc, target>>
    BY DEF SignalFromISR, time, control
  <1>2. u \in Tasks /\ xEventList' \in Seq(Tasks)
    BY <1>1, HeadTailProperties DEF Scheduling, TypeOK
  <1>3. CASE uxSchedulerSuspended = 0
    <2>1. PICK woken \in {FALSE, Outranks(u)} :
             /\ Move({u}, "ready")
             /\ Ready({u}, woken, xYieldPending \/ Outranks(u))
             /\ UNCHANGED xPendingReadyList
      BY <1>3 DEF SignalFromISR
    <2> HIDE DEF u
    <2>2. {u} \in SUBSET Tasks /\ "ready" \in StateLists
      BY <1>2 DEF StateLists
    <2>3. /\ stateList' \in [Tasks -> StateLists]
          /\ wakeTime' \in [Tasks -> Ticks]
          /\ remaining' \in [Tasks -> Int]
          /\ \A v \in Tasks : stateList'[v] = IF v \in {u} THEN "ready" ELSE stateList[v]
      BY <2>1, <2>2, MoveEffect DEF Scheduling
    <2>4. In("ready")' = In("ready") \cup {u}
      BY <1>2, <2>3 DEF In
    <2>5. woken \in BOOLEAN /\ (xYieldPending \/ Outranks(u)) \in BOOLEAN
      <3>1. Outranks(u) \in BOOLEAN
        BY DEF Outranks
      <3>2. woken \in BOOLEAN
        BY <3>1
      <3>3. (xYieldPending \/ Outranks(u)) \in BOOLEAN
        OBVIOUS
      <3> QED BY <3>2, <3>3
    <2>6. /\ uxTopReadyPriority' \in Priorities /\ xYieldPending' \in BOOLEAN
          /\ pxCurrentTCB' \in Tasks
      BY <1>3, <2>1, <2>2, <2>5, ReadyEffect DEF Scheduling, TypeOK, In
    <2>7. TypeOK'
      BY <1>1, <1>2, <2>1, <2>3, <2>6 DEF Scheduling, TypeOK
    <2>8. \A v \in Tasks : pc[v] \in AtRest
      BY <1>1, <1>3, Interruptible
    <2> QED BY <1>1, <1>3, <2>1, <2>2, <2>4, <2>5, <2>7, <2>8, AfterReady
  <1>4. CASE uxSchedulerSuspended # 0
    <2>1. /\ xPendingReadyList' = xPendingReadyList \cup {u}
          /\ RunOn(uxTopReadyPriority, xYieldPending \/ Outranks(u))
          /\ UNCHANGED <<stateList, wakeTime, remaining>>
      BY <1>4 DEF SignalFromISR, items
    <2>2. /\ xYieldPending' = (xYieldPending \/ Outranks(u))
          /\ UNCHANGED <<pxCurrentTCB, uxTopReadyPriority>>
      BY <2>1 DEF RunOn
    <2>3. xYieldPending' \in BOOLEAN
      BY <2>2
    <2>4. TypeOK'
      BY <1>1, <1>2, <2>1, <2>2, <2>3 DEF Scheduling, TypeOK
    <2>5. ControlOK' /\ TopReadyPriorityHigh'
      BY <1>1, <2>1, <2>2 DEF Scheduling, ControlOK, Suspending, TopReadyPriorityHigh, In
    <2>6. xYieldPending => xYieldPending'
      BY <2>2
    <2>7. RunningOK'
      BY <1>1, <2>1, <2>2, <2>6 DEF Scheduling, RunningOK, Leaving, Outranks, In
    <2> QED BY <2>4, <2>5, <2>7 DEF Scheduling
  <1> QED BY <1>3, <1>4

LEMMA ResumeFromISRStep ==
    ASSUME Scheduling, ResumeFromISR
    PROVE  Scheduling'
  <1>1. PICK u \in Tasks :
         IF uxSchedulerSuspended = 0
         THEN /\ Move({u}, "ready")
              /\ \E woken \in {FALSE, OutranksOrTies(u)} :
                    Ready({u}, woken, xYieldPending \/ OutranksOrTies(u))
              /\ UNCHANGED events
         ELSE /\ xPendingReadyList' = xPendingReadyList \cup {u}
              /\ UNCHANGED <<items, switching, xEventList>>
    BY DEF ResumeFromISR
  <1>2. /\ ~InCritical
        /\ UNCHANGED <<uxPriority, uxSchedulerSuspended, xTickCount, xPendedTicks,
                       xNextTaskUnblockTime, pc, target>>
    BY DEF ResumeFromISR, time, control
  <1>3. CASE uxSchedulerSuspended = 0
    <2>1. PICK woken \in {FALSE, OutranksOrTies(u)} :
             /\ Move({u}, "ready")
             /\ Ready({u}, woken, xYieldPending \/ OutranksOrTies(u))
             /\ UNCHANGED <<xEventList, xPendingReadyList>>
      BY <1>1, <1>3 DEF events
    <2>2. {u} \in SUBSET Tasks /\ "ready" \in StateLists
      BY DEF StateLists
    <2>3. /\ stateList' \in [Tasks -> StateLists]
          /\ wakeTime' \in [Tasks -> Ticks]
          /\ remaining' \in [Tasks -> Int]
          /\ \A v \in Tasks : stateList'[v] = IF v \in {u} THEN "ready" ELSE stateList[v]
      BY <2>1, <2>2, MoveEffect DEF Scheduling
    <2>4. In("ready")' = In("ready") \cup {u}
      BY <2>3 DEF In
    <2>5. woken \in BOOLEAN /\ (xYieldPending \/ OutranksOrTies(u)) \in BOOLEAN
      <3>1. OutranksOrTies(u) \in BOOLEAN
        BY DEF OutranksOrTies
      <3>2. woken \in BOOLEAN
        BY <3>1
      <3>3. (xYieldPending \/ OutranksOrTies(u)) \in BOOLEAN
        OBVIOUS
      <3> QED BY <3>2, <3>3
    <2>6. /\ uxTopReadyPriority' \in Priorities /\ xYieldPending' \in BOOLEAN
          /\ pxCurrentTCB' \in Tasks
      BY <1>3, <2>1, <2>2, <2>5, ReadyEffect DEF Scheduling, TypeOK, In
    <2>7. TypeOK'
      BY <1>2, <2>1, <2>3, <2>6 DEF Scheduling, TypeOK
    <2>8. \A v \in Tasks : pc[v] \in AtRest
      BY <1>2, <1>3, Interruptible
    <2>9. Outranks(u) => OutranksOrTies(u)
      <3>1. uxPriority[u] \in Nat /\ uxPriority[pxCurrentTCB] \in Nat
        BY Constants DEF Scheduling, TypeOK
      <3> QED BY <3>1 DEF Outranks, OutranksOrTies
    <2> QED BY <1>2, <1>3, <2>1, <2>2, <2>4, <2>5, <2>7, <2>8, <2>9, AfterReady
  <1>4. CASE uxSchedulerSuspended # 0
    <2>1. /\ xPendingReadyList' = xPendingReadyList \cup {u}
          /\ UNCHANGED <<stateList, wakeTime, remaining, pxCurrentTCB, uxTopReadyPriority,
                         xYieldPending, xEventList>>
      BY <1>1, <1>4 DEF items, switching
    <2>2. TypeOK'
      BY <1>2, <2>1 DEF Scheduling, TypeOK
    <2>3. ControlOK' /\ TopReadyPriorityHigh' /\ RunningOK'
      BY <1>2, <2>1 DEF Scheduling, ControlOK, Suspending, TopReadyPriorityHigh, RunningOK,
                        Leaving, Outranks, In
    <2> QED BY <2>2, <2>3 DEF Scheduling
  <1> QED BY <1>3, <1>4

\* The head and the rest of a list that nobody is in twice.
LEMMA HeadTailSet ==
    ASSUME NEW T, NEW l \in Seq(T), l # <<>>
    PROVE  /\ ToSet(l) = ToSet(Tail(l)) \cup {Head(l)}
           /\ NoDuplicates(l) => NoDuplicates(Tail(l)) /\ Head(l) \notin ToSet(Tail(l))
  <1>1. /\ Len(l) \in Nat \ {0} /\ DOMAIN l = 1 .. Len(l)
        /\ Tail(l) \in Seq(T) /\ Len(Tail(l)) = Len(l) - 1
        /\ Head(l) = l[1]
        /\ \A i \in 1 .. Len(l) - 1 : Tail(l)[i] = l[i + 1]
    OBVIOUS
  <1>2. DOMAIN Tail(l) = 1 .. Len(l) - 1
    BY <1>1
  <1>3. ToSet(l) = {l[i] : i \in 1 .. Len(l)} /\ ToSet(Tail(l)) = {Tail(l)[i] : i \in 1 .. Len(l) - 1}
    BY <1>1, <1>2 DEF ToSet
  <1>4. ToSet(l) \subseteq ToSet(Tail(l)) \cup {Head(l)}
    <2> SUFFICES ASSUME NEW i \in 1 .. Len(l), i # 1 PROVE l[i] \in ToSet(Tail(l))
      BY <1>1, <1>3
    <2>1. i - 1 \in 1 .. Len(l) - 1
      BY <1>1
    <2>2. Tail(l)[i - 1] = l[(i - 1) + 1]
      BY <1>1, <2>1
    <2>3. Tail(l)[i - 1] = l[i]
      BY <2>2
    <2> QED BY <1>3, <2>1, <2>3
  <1>5. ToSet(Tail(l)) \cup {Head(l)} \subseteq ToSet(l)
    <2>1. l[1] \in ToSet(l)
      BY <1>1, <1>3
    <2>2. \A i \in 1 .. Len(l) - 1 : i + 1 \in 1 .. Len(l)
      BY <1>1
    <2> QED BY <1>1, <1>3, <2>1, <2>2
  <1>6. ASSUME NoDuplicates(l)
        PROVE  NoDuplicates(Tail(l)) /\ Head(l) \notin ToSet(Tail(l))
    <2>1. \A i, j \in 1 .. Len(l) : i # j => l[i] # l[j]
      BY <1>1, <1>6 DEF NoDuplicates
    <2>2. \A i \in 1 .. Len(l) - 1 : i + 1 \in 1 .. Len(l) /\ i + 1 # 1
      BY <1>1
    <2>3. \A i \in 1 .. Len(l) - 1 : Tail(l)[i] # l[1]
      <3>1. 1 \in 1 .. Len(l)
        BY <1>1
      <3> QED BY <1>1, <2>1, <2>2, <3>1
    <2>4. ASSUME NEW i \in 1 .. Len(l) - 1, NEW j \in 1 .. Len(l) - 1, i # j
          PROVE  Tail(l)[i] # Tail(l)[j]
      <3>1. i + 1 \in 1 .. Len(l) /\ j + 1 \in 1 .. Len(l) /\ i + 1 # j + 1
        BY <1>1, <2>2, <2>4
      <3>2. l[i + 1] # l[j + 1]
        BY <2>1, <3>1
      <3>3. Tail(l)[i] = l[i + 1] /\ Tail(l)[j] = l[j + 1]
        BY <1>1
      <3> QED BY <3>2, <3>3
    <2> QED BY <1>1, <1>2, <1>3, <2>3, <2>4 DEF NoDuplicates
  <1> QED BY <1>4, <1>5, <1>6

-----------------------------------------------------------------------------
(***************************************************************************)
(* xTaskAbortDelay and the event list items                                *)
(***************************************************************************)

\* While the scheduler runs nobody is in the middle of xTaskAbortDelay.
LEMMA NoAbort ==
    ASSUME Scheduling, pc[pxCurrentTCB] # "abortRemove"
    PROVE  \A t \in Tasks : pc[t] # "abortRemove"
  BY DEF Scheduling, ControlOK

LEMMA NotAborting ==
    ASSUME Scheduling, uxSchedulerSuspended = 0
    PROVE  AbortOK /\ \A t \in Tasks : pc[t] # "abortRemove"
  <1>1. ~(uxSchedulerSuspended > 0)
    OBVIOUS
  <1>2. pc[pxCurrentTCB] \notin Suspending
    BY <1>1 DEF Scheduling, ControlOK
  <1>3. pc[pxCurrentTCB] \notin {"abortCheck", "abortRemove", "abortReady"}
    BY <1>2 DEF Suspending
  <1> QED BY <1>3, NoAbort DEF AbortOK

\* The calls that the scheduler is never suspended in.
LEMMA RunningSteps ==
    ASSUME Scheduling, NEW t \in Tasks,
           \/ TaskYield(t) \/ ReplayTick(t) \/ ResumeEnd(t) \/ Yield(t) \/ Signal(t)
           \/ PrioritySet(t) \/ Suspend(t) \/ SuspendEnd(t) \/ Resume(t) \/ Delete(t)
           \/ Cleanup(t) \/ Create(t) \/ CreateEnd(t)
    PROVE  uxSchedulerSuspended = 0 /\ uxSchedulerSuspended' = 0
  <1>1. UNCHANGED uxSchedulerSuspended
    BY DEF TaskYield, ReplayTick, ResumeEnd, Yield, Signal, PrioritySet, Suspend, SuspendEnd,
           Resume, Delete, Cleanup, Create, CreateEnd
  <1>2. pc[pxCurrentTCB] \in AtRest \cup {"replay", "replayThenYield"}
    BY DEF TaskYield, ReplayTick, ResumeEnd, Yield, Signal, PrioritySet, Suspend, SuspendEnd,
           Resume, Delete, Cleanup, Create, CreateEnd, Called, At, InCritical, AtRest
  <1>3. ~(uxSchedulerSuspended > 0)
    BY <1>2 DEF Scheduling, ControlOK, Suspending, AtRest
  <1>4. uxSchedulerSuspended \in Nat
    BY Constants DEF Scheduling, TypeOK
  <1> QED BY <1>1, <1>3, <1>4

LEMMA AbortStep ==
    ASSUME Scheduling, Scheduling', AbortOK, Next
    PROVE  AbortOK'
  <1>1. CASE uxSchedulerSuspended' = 0
    <2>1. pc'[pxCurrentTCB'] \notin {"abortCheck", "abortRemove", "abortReady"}
      BY <1>1 DEF Scheduling, ControlOK, Suspending
    <2> QED BY <2>1 DEF AbortOK
  <1>2. CASE uxSchedulerSuspended' # 0
    <2>1. CASE Tick
      BY <1>2, <2>1 DEF Tick, AbortOK, events, switching, control
    <2>2. CASE SignalFromISR
      <3>1. /\ xEventList # <<>> /\ xEventList' = Tail(xEventList)
            /\ xPendingReadyList' = xPendingReadyList \cup {Head(xEventList)}
            /\ UNCHANGED <<stateList, pxCurrentTCB, pc, target>>
        BY <1>2, <2>2 DEF SignalFromISR, RunOn, items, control
      <3>2. ToSet(xEventList') \cup {Head(xEventList)} \subseteq ToSet(xEventList)
        BY <3>1, HeadTailSet DEF Scheduling, TypeOK
      <3> QED BY <3>1, <3>2 DEF AbortOK
    <2>3. CASE ResumeFromISR
      <3>1. PICK u \in Tasks : /\ IsSuspended(u)
                               /\ xPendingReadyList' = xPendingReadyList \cup {u}
                               /\ UNCHANGED <<stateList, pxCurrentTCB, xEventList, pc, target>>
        BY <1>2, <2>3 DEF ResumeFromISR, items, switching, control
      <3> QED BY <3>1 DEF AbortOK, IsSuspended
    <2>4. ASSUME NEW t \in Tasks, Step(t) PROVE AbortOK'
      <3>1. CASE EnterDelay(t) \/ SuspendAll(t) \/ EnterCatchUp(t)
        <4>1. pc'[pxCurrentTCB'] \in {"delay", "paused", "catchUp"}
          BY <3>1 DEF EnterDelay, SuspendAll, EnterCatchUp, SuspendAllIn, GoTo, Called, At,
                      switching, Scheduling, TypeOK
        <4> QED BY <4>1 DEF AbortOK
      <3>2. CASE Delay(t) \/ Wait(t) \/ CatchUp(t) \/ AbortReady(t)
        <4>1. CASE Delay(t) \/ Wait(t) \/ CatchUp(t)
          <5>1. pc'[pxCurrentTCB'] \in {"resumeThenYield", "resume"}
            BY <4>1 DEF Delay, Wait, CatchUp, At, GoTo, switching, Scheduling, TypeOK
          <5> QED BY <5>1 DEF AbortOK
        <4>2. CASE AbortReady(t)
          <5>1. pc'[t] = "resume" /\ t = pxCurrentTCB
            BY <4>2 DEF AbortReady, At, Scheduling, TypeOK
          <5>2. UNCHANGED pxCurrentTCB
            BY <4>2 DEF AbortReady, Ready, RunOn
          <5> QED BY <5>1, <5>2 DEF AbortOK
        <4> QED BY <3>2, <4>1, <4>2
      <3>3. CASE ResumeAll(t)
        <4>1. uxSchedulerSuspended' = uxSchedulerSuspended - 1 /\ uxSchedulerSuspended \in Nat
          BY <3>3, Constants DEF ResumeAll, Scheduling, TypeOK
        <4>2. uxSchedulerSuspended > 1
          BY <3>3, <4>1, <1>2, Constants DEF ResumeAll, Scheduling, TypeOK, ControlOK,
             Suspending, At
        <4>3. /\ pc[pxCurrentTCB] \in {"resume", "resumeThenYield", "paused"}
              /\ UNCHANGED <<pc, pxCurrentTCB>>
          BY <3>3, <4>2 DEF ResumeAll, At, switching, control
        <4> QED BY <4>3 DEF AbortOK
      <3>4. CASE EnterAbort(t)
        BY <3>4 DEF EnterAbort, Called, At, switching, items, events, AbortOK, Scheduling, TypeOK
      <3>5. CASE AbortCheck(t)
        <4>1. t = pxCurrentTCB /\ UNCHANGED <<pxCurrentTCB, xEventList, xPendingReadyList>>
              /\ pc[t] = "abortCheck" /\ target[t] \in Tasks
          BY <3>5 DEF AbortCheck, At, switching, events, AbortOK
        <4>2. CASE IsBlocked(target[t])
          BY <3>5, <4>1, <4>2 DEF AbortCheck, GoTo, Move, AbortOK, Scheduling, TypeOK
        <4>3. CASE ~IsBlocked(target[t])
          BY <3>5, <4>1, <4>3 DEF AbortCheck, AbortOK, Scheduling, TypeOK
        <4> QED BY <4>2, <4>3
      <3>6. CASE AbortRemove(t)
        <4>1. /\ t = pxCurrentTCB /\ pc[t] = "abortRemove" /\ LeaveEvents({target[t]})
              /\ pc' = [pc EXCEPT ![t] = "abortReady"]
              /\ UNCHANGED <<pxCurrentTCB, stateList, target>>
          BY <3>6 DEF AbortRemove, At, GoTo, items, switching
        <4>2. target[t] \notin ToSet(xEventList') \cup xPendingReadyList'
          BY <4>1, LeaveEventsEffect DEF Scheduling
        <4> QED BY <4>1, <4>2 DEF AbortOK, Scheduling, TypeOK
      <3>7. CASE \/ TaskYield(t) \/ ReplayTick(t) \/ ResumeEnd(t) \/ Yield(t) \/ Signal(t)
                 \/ PrioritySet(t) \/ Suspend(t) \/ SuspendEnd(t) \/ Resume(t) \/ Delete(t)
                 \/ Cleanup(t) \/ Create(t) \/ CreateEnd(t)
        BY <1>2, <3>7, RunningSteps
      <3> QED BY <2>4, <3>1, <3>2, <3>3, <3>4, <3>5, <3>6, <3>7 DEF Step
    <2> QED BY <2>1, <2>2, <2>3, <2>4 DEF Next
  <1> QED BY <1>1, <1>2

Waiters == ToSet(xEventList) \cup xPendingReadyList

\* A step after which nobody waits who did not wait before.
LEMMA NobodyComes ==
    ASSUME TypeOK, WaitersBlocked,
           NoDuplicates(xEventList'), ToSet(xEventList') \cap xPendingReadyList' = {},
           uxSchedulerSuspended' = 0 => xPendingReadyList' = {},
           Waiters' \subseteq Waiters,
           \A t \in Waiters' : \/ stateList'[t] = stateList[t]
                               \/ stateList'[t] \in {"delayed", "overflow", "suspended"},
           \A t \in Tasks : pc[t] = "abortRemove" => pc'[t] = "abortRemove" /\ target'[t] = target[t]
    PROVE  WaitersBlocked'
  BY DEF WaitersBlocked, Waiters

\* A step that moves no item.
LEMMA NothingMoves ==
    ASSUME TypeOK, WaitersBlocked, UNCHANGED <<stateList, xEventList, xPendingReadyList>>,
           uxSchedulerSuspended' = 0 => uxSchedulerSuspended = 0,
           \A t \in Tasks : pc[t] = "abortRemove" => pc'[t] = "abortRemove" /\ target'[t] = target[t]
    PROVE  WaitersBlocked'
  <1>1. uxSchedulerSuspended' = 0 => xPendingReadyList' = {}
    BY DEF WaitersBlocked
  <1> QED BY <1>1, NobodyComes DEF Waiters, WaitersBlocked

\* The lists of waiting tasks without some of them, whose state list items may go
\* anywhere, while those of the others stay or go to another of the delayed lists.
LEMMA SomeLeave ==
    ASSUME TypeOK, WaitersBlocked, NEW S, LeaveEvents(S),
           UNCHANGED uxSchedulerSuspended,
           \A t \in Tasks \ S : \/ stateList'[t] = stateList[t]
                                \/ stateList'[t] \in {"delayed", "overflow", "suspended"},
           \A t \in Tasks : pc[t] = "abortRemove" => pc'[t] = "abortRemove" /\ target'[t] = target[t]
    PROVE  WaitersBlocked'
  <1>1. /\ ToSet(xEventList') \subseteq ToSet(xEventList) \ S
        /\ NoDuplicates(xEventList')
        /\ xPendingReadyList' = xPendingReadyList \ S
        /\ xPendingReadyList' \subseteq Tasks
    BY LeaveEventsEffect DEF WaitersBlocked
  <1>2. ToSet(xEventList) \subseteq Tasks
    BY ToSetSeq DEF TypeOK
  <1>3. uxSchedulerSuspended' = 0 => xPendingReadyList' = {}
    BY <1>1 DEF WaitersBlocked
  <1>4. /\ ToSet(xEventList') \cap xPendingReadyList' = {}
        /\ Waiters' \subseteq Waiters
        /\ Waiters' \subseteq Tasks \ S
    BY <1>1, <1>2 DEF WaitersBlocked, Waiters
  <1> QED BY <1>1, <1>3, <1>4, NobodyComes

LEMMA NotWaiting ==
    ASSUME WaitersBlocked, NEW t \in Tasks, \A u \in Tasks : pc[u] # "abortRemove",
           stateList[t] \notin {"delayed", "overflow", "suspended"}
    PROVE  t \notin Waiters
  BY DEF WaitersBlocked, Waiters

\* The items of a task that does not wait, moved to a list.
LEMMA OneMoves ==
    ASSUME TypeOK, WaitersBlocked, NEW u \in Tasks, u \notin Waiters, NEW list \in StateLists,
           Move({u}, list), UNCHANGED <<xEventList, xPendingReadyList, uxSchedulerSuspended>>,
           \A t \in Tasks : pc[t] # "abortRemove"
    PROVE  WaitersBlocked'
  <1>1. \A t \in Tasks : stateList'[t] = IF t \in {u} THEN list ELSE stateList[t]
    BY MoveEffect
  <1>2. Waiters' = Waiters /\ Waiters \subseteq Tasks
    BY ToSetSeq DEF Waiters, TypeOK
  <1>3. \A t \in Waiters' : stateList'[t] = stateList[t]
    BY <1>1, <1>2
  <1> QED BY <1>2, <1>3, NobodyComes DEF WaitersBlocked

\* The first waiter of the event becomes ready.
LEMMA FirstLeaves ==
    ASSUME TypeOK, WaitersBlocked, xEventList # <<>>, Move({Head(xEventList)}, "ready"),
           xEventList' = Tail(xEventList), UNCHANGED <<xPendingReadyList, uxSchedulerSuspended>>,
           \A t \in Tasks : pc[t] # "abortRemove"
    PROVE  WaitersBlocked'
  <1>1. /\ ToSet(xEventList) = ToSet(xEventList') \cup {Head(xEventList)}
        /\ NoDuplicates(xEventList')
        /\ Head(xEventList) \notin ToSet(xEventList')
    BY HeadTailSet DEF WaitersBlocked, TypeOK
  <1>2. ToSet(xEventList) \subseteq Tasks
    BY ToSetSeq DEF TypeOK
  <1>3. \A t \in Tasks : stateList'[t] = IF t \in {Head(xEventList)} THEN "ready" ELSE stateList[t]
    BY <1>1, <1>2, MoveEffect DEF StateLists
  <1>4. /\ Waiters' \subseteq Waiters
        /\ Waiters' \subseteq Tasks \ {Head(xEventList)}
        /\ ToSet(xEventList') \cap xPendingReadyList' = {}
    BY <1>1, <1>2 DEF Waiters, WaitersBlocked, TypeOK
  <1>5. \A t \in Waiters' : stateList'[t] = stateList[t]
    BY <1>3, <1>4
  <1> QED BY <1>1, <1>4, <1>5, NobodyComes DEF WaitersBlocked

\* Ticks: whoever is due leaves the lists of waiting tasks.
LEMMA TickWaiters ==
    ASSUME TypeOK, WaitersBlocked, IncrementTick, UNCHANGED <<uxSchedulerSuspended, pc, target>>
    PROVE  WaitersBlocked'
  <1>1. LeaveEvents(Due)
    BY IncrementTickEffect
  <1>2. \A t \in Tasks \ Due : \/ stateList'[t] = stateList[t]
                               \/ stateList'[t] \in {"delayed", "overflow", "suspended"}
    BY IncrementTickEffect
  <1> QED BY <1>1, <1>2, SomeLeave

LEMMA WaitersStep ==
    ASSUME Scheduling, AbortOK, WaitersBlocked, NEW t \in Tasks, Step(t)
    PROVE  WaitersBlocked'
  <1> USE DEF Scheduling
  <1>1. CASE \/ TaskYield(t) \/ EnterDelay(t) \/ SuspendAll(t) \/ ResumeEnd(t) \/ Yield(t)
             \/ PrioritySet(t) \/ SuspendEnd(t) \/ CreateEnd(t) \/ EnterAbort(t)
             \/ EnterCatchUp(t) \/ CatchUp(t)
    <2>1. UNCHANGED <<stateList, xEventList, xPendingReadyList>>
      BY <1>1 DEF TaskYield, EnterDelay, SuspendAll, ResumeEnd, Yield, PrioritySet, SuspendEnd,
         CreateEnd, EnterAbort, EnterCatchUp, CatchUp, items, events
    <2>2. uxSchedulerSuspended' \in {uxSchedulerSuspended, uxSchedulerSuspended + 1}
      BY <1>1 DEF TaskYield, EnterDelay, SuspendAll, ResumeEnd, Yield, PrioritySet, SuspendEnd,
         CreateEnd, EnterAbort, EnterCatchUp, CatchUp, SuspendAllIn
    <2>3. uxSchedulerSuspended' = 0 => uxSchedulerSuspended = 0
      BY <2>2, Constants DEF TypeOK
    <2>4. pc[pxCurrentTCB] # "abortRemove"
      BY <1>1 DEF TaskYield, EnterDelay, SuspendAll, ResumeEnd, Yield, PrioritySet, SuspendEnd,
         CreateEnd, EnterAbort, EnterCatchUp, CatchUp, Called, At, InCritical
    <2> QED BY <2>1, <2>3, <2>4, NoAbort, NothingMoves
  <1>2. CASE Delay(t)
    <2>1. PICK n \in 1 .. portMAX_DELAY : AddToDelayedList(t, n)
      BY <1>2 DEF Delay
    <2>2. \A u \in Tasks : \/ stateList'[u] = stateList[u]
                           \/ stateList'[u] \in {"delayed", "overflow", "suspended"}
      BY <2>1, AddToDelayedListEffect
    <2>3. /\ UNCHANGED <<xEventList, xPendingReadyList, uxSchedulerSuspended>>
          /\ pc[pxCurrentTCB] # "abortRemove"
      BY <1>2 DEF Delay, At, events
    <2>4. Waiters' = Waiters /\ Waiters \subseteq Tasks
      BY <2>3, ToSetSeq DEF Waiters, TypeOK
    <2> QED BY <2>2, <2>3, <2>4, NoAbort, NobodyComes DEF WaitersBlocked
  <1>3. CASE Wait(t)
    <2>1. /\ t = pxCurrentTCB /\ pc[t] = "delay"
          /\ xEventList' = ListInsert(xEventList, EventValue, t)
          /\ UNCHANGED <<xPendingReadyList, uxSchedulerSuspended>>
      BY <1>3 DEF Wait, At
    <2>2. \A u \in Tasks : pc[u] # "abortRemove"
      BY <2>1, NoAbort
    <2>3. t \notin Waiters
      BY <2>1, <2>2, NotWaiting DEF RunningOK, Leaving
    <2>4. /\ xEventList' \in Seq(Tasks)
          /\ NoDuplicates(xEventList')
          /\ ToSet(xEventList') = ToSet(xEventList) \cup {t}
      <3>1. xEventList \in Seq(Tasks) /\ uxPriority \in [Tasks -> Priorities]
        BY DEF TypeOK
      <3>2. EventValue \in [Tasks -> Int]
        BY <3>1, EventValueType
      <3>3. NoDuplicates(xEventList) /\ t \notin ToSet(xEventList)
        BY <2>3 DEF WaitersBlocked, Waiters
      <3> QED BY ONLY <2>1, <3>1, <3>2, <3>3, t \in Tasks, ListInsertProperties
    <2>5. /\ stateList'[t] \in {"delayed", "overflow", "suspended"}
          /\ \A u \in Tasks \ {t} : stateList'[u] = stateList[u]
      <3>1. CASE \E n \in 1 .. portMAX_DELAY - 1 : AddToDelayedList(t, n)
        <4>1. PICK n \in 1 .. portMAX_DELAY : AddToDelayedList(t, n)
          BY <3>1, Constants
        <4> QED BY <4>1, AddToDelayedListEffect
      <3>2. CASE Move({t}, "suspended")
        BY <3>2, MoveEffect DEF StateLists
      <3> QED BY <1>3, <3>1, <3>2 DEF Wait
    <2>6. ToSet(xEventList) \subseteq Tasks
      BY ToSetSeq DEF TypeOK
    <2> QED BY <2>1, <2>2, <2>3, <2>4, <2>5, <2>6 DEF WaitersBlocked, Waiters, TypeOK
  <1>4. CASE ResumeAll(t)
    <2>1. pc[pxCurrentTCB] # "abortRemove"
      BY <1>4 DEF ResumeAll, At
    <2>2. CASE uxSchedulerSuspended > 1
      <3>1. /\ UNCHANGED <<stateList, xEventList, xPendingReadyList>>
            /\ uxSchedulerSuspended' = uxSchedulerSuspended - 1
        BY <1>4, <2>2 DEF ResumeAll, items, events
      <3>2. uxSchedulerSuspended' # 0
        BY <2>2, <3>1, Constants DEF TypeOK
      <3> QED BY <2>1, <3>1, <3>2, NoAbort, NothingMoves
    <2>3. CASE ~(uxSchedulerSuspended > 1)
      <3>1. /\ Move(xPendingReadyList, "ready")
            /\ xPendingReadyList' = {} /\ UNCHANGED xEventList
        BY <1>4, <2>3 DEF ResumeAll
      <3>2. \A u \in Tasks : stateList'[u] = IF u \in xPendingReadyList THEN "ready" ELSE stateList[u]
        BY <3>1, MoveEffect DEF TypeOK, StateLists
      <3>3. Waiters' \subseteq Waiters /\ Waiters' \subseteq Tasks \ xPendingReadyList
        BY <3>1, ToSetSeq DEF Waiters, TypeOK, WaitersBlocked
      <3>4. \A u \in Waiters' : stateList'[u] = stateList[u]
        BY <3>2, <3>3
      <3>5. NoDuplicates(xEventList') /\ ToSet(xEventList') \cap xPendingReadyList' = {}
        BY <3>1 DEF WaitersBlocked
      <3> QED BY <2>1, <3>1, <3>3, <3>4, <3>5, NoAbort, NobodyComes
    <2> QED BY <2>2, <2>3
  <1>5. CASE ReplayTick(t)
    BY <1>5, TickWaiters DEF ReplayTick, control
  <1>6. CASE Signal(t)
    <2>1. /\ xEventList # <<>> /\ Move({Head(xEventList)}, "ready")
          /\ xEventList' = Tail(xEventList)
          /\ UNCHANGED <<xPendingReadyList, uxSchedulerSuspended>>
          /\ pc[pxCurrentTCB] # "abortRemove"
      BY <1>6 DEF Signal, Called, At
    <2> QED BY <2>1, NoAbort, FirstLeaves
  <1>7. CASE Suspend(t)
    <2>1. PICK u \in Tasks : Move({u}, "suspended") /\ LeaveEvents({u})
      BY <1>7 DEF Suspend
    <2>2. UNCHANGED uxSchedulerSuspended /\ pc[pxCurrentTCB] # "abortRemove"
      BY <1>7 DEF Suspend, Called, At
    <2>3. \A v \in Tasks \ {u} : stateList'[v] = stateList[v]
      BY <2>1, MoveEffect DEF StateLists
    <2> QED BY <2>1, <2>2, <2>3, NoAbort, SomeLeave
  <1>8. CASE Resume(t)
    <2>1. PICK u \in Tasks : IsSuspended(u) /\ Move({u}, "ready")
      BY <1>8 DEF Resume
    <2>2. /\ UNCHANGED <<xEventList, xPendingReadyList, uxSchedulerSuspended>>
          /\ pc[pxCurrentTCB] # "abortRemove"
      BY <1>8 DEF Resume, Called, At, events
    <2>3. u \notin Waiters /\ "ready" \in StateLists
      BY <2>1 DEF IsSuspended, Waiters, StateLists
    <2> QED BY <2>1, <2>2, <2>3, NoAbort, OneMoves
  <1>9. CASE Delete(t)
    <2>1. PICK u \in Tasks : LeaveEvents({u}) /\ (Move({u}, "terminating") \/ Move({u}, "deleted"))
      BY <1>9 DEF Delete
    <2>2. UNCHANGED uxSchedulerSuspended /\ pc[pxCurrentTCB] # "abortRemove"
      BY <1>9 DEF Delete, Called, At
    <2>3. \A v \in Tasks \ {u} : stateList'[v] = stateList[v]
      BY <2>1, MoveEffect DEF StateLists
    <2> QED BY <2>1, <2>2, <2>3, NoAbort, SomeLeave
  <1>10. CASE Cleanup(t)
    <2>1. PICK u \in In("terminating") : Move({u}, "deleted")
      BY <1>10 DEF Cleanup
    <2>2. /\ UNCHANGED <<xEventList, xPendingReadyList, uxSchedulerSuspended>>
          /\ pc[pxCurrentTCB] # "abortRemove"
      BY <1>10 DEF Cleanup, At, events
    <2>3. u \in Tasks /\ u \notin Waiters /\ "deleted" \in StateLists
      BY <2>2, NoAbort, NotWaiting DEF In, StateLists
    <2> QED BY <2>1, <2>2, <2>3, NoAbort, OneMoves
  <1>11. CASE Create(t)
    <2>1. PICK u \in In("deleted") : Move({u}, "ready")
      BY <1>11 DEF Create
    <2>2. /\ UNCHANGED <<xEventList, xPendingReadyList, uxSchedulerSuspended>>
          /\ pc[pxCurrentTCB] # "abortRemove"
      BY <1>11 DEF Create, Called, At, events
    <2>3. u \in Tasks /\ u \notin Waiters /\ "ready" \in StateLists
      BY <2>2, NoAbort, NotWaiting DEF In, StateLists
    <2> QED BY <2>1, <2>2, <2>3, NoAbort, OneMoves
  <1>12. CASE AbortCheck(t)
    <2>1. /\ t = pxCurrentTCB /\ pc[t] = "abortCheck" /\ target[t] \in Tasks
          /\ UNCHANGED <<xEventList, xPendingReadyList, uxSchedulerSuspended>>
      BY <1>12 DEF AbortCheck, At, events, AbortOK
    <2>2. \A u \in Tasks : pc[u] # "abortRemove"
      BY <2>1, NoAbort
    <2>3. CASE IsBlocked(target[t])
      <3>1. Move({target[t]}, "none") /\ pc'[t] = "abortRemove" /\ target'[t] = target[t]
        BY <1>12, <2>3 DEF AbortCheck, GoTo, TypeOK
      <3>2. \A u \in Tasks : stateList'[u] = IF u \in {target[t]} THEN "none" ELSE stateList[u]
        BY <2>1, <3>1, MoveEffect DEF StateLists
      <3>3. Waiters' = Waiters /\ Waiters \subseteq Tasks
        BY <2>1, ToSetSeq DEF Waiters, TypeOK
      <3>4. \A u \in Waiters : stateList[u] \in {"delayed", "overflow", "suspended"}
        BY <2>2 DEF WaitersBlocked, Waiters
      <3> QED BY <2>1, <3>1, <3>2, <3>3, <3>4 DEF WaitersBlocked, Waiters
    <2>4. CASE ~IsBlocked(target[t])
      <3>1. UNCHANGED stateList
        BY <1>12, <2>4 DEF AbortCheck, items
      <3> QED BY <2>1, <2>2, <3>1, NothingMoves
    <2> QED BY <2>3, <2>4
  <1>13. CASE AbortRemove(t)
    <2>1. /\ t = pxCurrentTCB /\ pc[t] = "abortRemove" /\ LeaveEvents({target[t]})
          /\ UNCHANGED <<stateList, uxSchedulerSuspended>>
      BY <1>13 DEF AbortRemove, At, items
    <2>2. /\ ToSet(xEventList') \subseteq ToSet(xEventList) \ {target[t]}
          /\ NoDuplicates(xEventList')
          /\ xPendingReadyList' = xPendingReadyList \ {target[t]}
      BY <2>1, LeaveEventsEffect DEF WaitersBlocked
    <2>3. \A u \in Tasks : pc[u] = "abortRemove" => u = t
      BY <2>1 DEF ControlOK
    <2>4. \A u \in Waiters' : u \in Waiters /\ u # target[t]
      BY <2>2 DEF Waiters
    <2>5. \A u \in Waiters' : stateList[u] \in {"delayed", "overflow", "suspended"}
      BY <2>3, <2>4 DEF WaitersBlocked, Waiters
    <2> QED BY <2>1, <2>2, <2>5 DEF WaitersBlocked, Waiters
  <1>14. CASE AbortReady(t)
    <2>1. /\ t = pxCurrentTCB /\ pc[t] = "abortReady" /\ target[t] \in Tasks
          /\ Move({target[t]}, "ready")
          /\ UNCHANGED <<xEventList, xPendingReadyList, uxSchedulerSuspended>>
      BY <1>14 DEF AbortReady, At, events, AbortOK
    <2>2. target[t] \notin Waiters /\ "ready" \in StateLists
      BY <2>1 DEF AbortOK, Waiters, StateLists
    <2> QED BY <2>1, <2>2, NoAbort, OneMoves
  <1> QED BY <1>1, <1>2, <1>3, <1>4, <1>5, <1>6, <1>7, <1>8, <1>9, <1>10, <1>11, <1>12, <1>13,
             <1>14 DEF Step

LEMMA WaitersInterruptStep ==
    ASSUME Scheduling, WaitersBlocked, Tick \/ SignalFromISR \/ ResumeFromISR
    PROVE  WaitersBlocked'
  <1> USE DEF Scheduling
  <1>1. UNCHANGED <<uxSchedulerSuspended, pc, target>>
    BY DEF Tick, SignalFromISR, ResumeFromISR, control
  <1>2. CASE Tick
    <2>1. CASE uxSchedulerSuspended = 0
      BY <1>1, <1>2, <2>1, TickWaiters DEF Tick
    <2>2. CASE uxSchedulerSuspended # 0
      BY <1>1, <1>2, <2>2, NothingMoves DEF Tick, events
    <2> QED BY <2>1, <2>2
  <1>3. CASE SignalFromISR
    <2>1. xEventList # <<>> /\ xEventList' = Tail(xEventList)
      BY <1>3 DEF SignalFromISR
    <2>2. CASE uxSchedulerSuspended = 0
      <3>1. Move({Head(xEventList)}, "ready") /\ UNCHANGED xPendingReadyList
        BY <1>3, <2>2 DEF SignalFromISR
      <3>2. \A u \in Tasks : pc[u] # "abortRemove"
        BY <2>2, NotAborting
      <3> QED BY <1>1, <2>1, <3>1, <3>2, FirstLeaves
    <2>3. CASE uxSchedulerSuspended # 0
      <3>1. /\ xPendingReadyList' = xPendingReadyList \cup {Head(xEventList)}
            /\ UNCHANGED stateList
        BY <1>3, <2>3 DEF SignalFromISR, items
      <3>2. /\ ToSet(xEventList) = ToSet(xEventList') \cup {Head(xEventList)}
            /\ NoDuplicates(xEventList')
            /\ Head(xEventList) \notin ToSet(xEventList')
        BY <2>1, HeadTailSet DEF WaitersBlocked, TypeOK
      <3>3. Waiters' = Waiters /\ ToSet(xEventList') \cap xPendingReadyList' = {}
        BY <3>1, <3>2 DEF Waiters, WaitersBlocked
      <3> QED BY <1>1, <2>3, <3>1, <3>2, <3>3, NobodyComes
    <2> QED BY <2>2, <2>3
  <1>4. CASE ResumeFromISR
    <2>1. PICK u \in Tasks :
            /\ IsSuspended(u)
            /\ IF uxSchedulerSuspended = 0
               THEN Move({u}, "ready") /\ UNCHANGED events
               ELSE /\ xPendingReadyList' = xPendingReadyList \cup {u}
                    /\ UNCHANGED <<items, xEventList>>
      BY <1>4 DEF ResumeFromISR
    <2>2. u \notin Waiters /\ stateList[u] = "suspended" /\ "ready" \in StateLists
      BY <2>1 DEF IsSuspended, Waiters, StateLists
    <2>3. CASE uxSchedulerSuspended = 0
      <3>1. \A v \in Tasks : pc[v] # "abortRemove"
        BY <2>3, NotAborting
      <3> QED BY <1>1, <2>1, <2>2, <2>3, <3>1, OneMoves DEF events
    <2>4. CASE uxSchedulerSuspended # 0
      BY <1>1, <2>1, <2>2, <2>4 DEF WaitersBlocked, Waiters, items
    <2> QED BY <2>3, <2>4
  <1> QED BY <1>2, <1>3, <1>4

-----------------------------------------------------------------------------
(***************************************************************************)
(* Ticks, wake times and xNextTaskUnblockTime                              *)
(***************************************************************************)
DelayLists == {"delayed", "overflow"}

\* What WakeTimesRight says of a task that is due in n ticks.
Right(now, n, list, wake) ==
    /\ n \in 1 .. portMAX_DELAY
    /\ wake = Later(now, n)
    /\ list = "delayed" <=> now + n <= portMAX_DELAY

LEMMA RightDef ==
    /\ WakeTimesRight <=>
         \A t \in Tasks : stateList[t] \in DelayLists =>
             Right(xTickCount, remaining[t] + xPendedTicks, stateList[t], wakeTime[t])
    /\ WakeTimesRight' <=>
         \A t \in Tasks : stateList'[t] \in DelayLists =>
             Right(xTickCount', remaining'[t] + xPendedTicks', stateList'[t], wakeTime'[t])
  BY DEF WakeTimesRight, Right, In, DelayLists

\* A wake time of at most a turn of the tick count ahead is below the tick count
\* exactly if the tick count wraps before.
LEMMA NewWakeTime ==
    ASSUME NEW now \in Ticks, NEW n \in 1 .. portMAX_DELAY, NEW list \in DelayLists,
           list = "delayed" <=> ~(Later(now, n) < now)
    PROVE  Right(now, n, list, Later(now, n))
  BY Constants DEF Later, Right, Ticks, DelayLists

\* One tick on, for a task that is due with it and for one that is due later.
LEMMA DueWithTick ==
    ASSUME NEW now \in Ticks, NEW list \in DelayLists, NEW wake, Right(now, 1, list, wake)
    PROVE  wake = Later(now, 1) /\ (list = "delayed" <=> Later(now, 1) # 0)
  BY Constants DEF Later, Right, Ticks

LEMMA DueLater ==
    ASSUME NEW now \in Ticks, NEW n \in Int, n # 1, NEW list \in DelayLists, NEW wake,
           Right(now, n, list, wake)
    PROVE  /\ wake \in Int
           /\ Later(now, 1) # 0 /\ list = "delayed" => wake > Later(now, 1)
           /\ Later(now, 1) = 0 => list = "overflow" /\ wake > 0
           /\ Later(now, 1) # 0 => Right(Later(now, 1), n - 1, list, wake)
           /\ Later(now, 1) = 0 => Right(Later(now, 1), n - 1, "delayed", wake)
  BY Constants DEF Later, Right, Ticks, DelayLists

\* The history of a task that is still delayed after k ticks, some of which may
\* have been pended before.
LEMMA TicksComeEffect ==
    ASSUME TypeOK, WakeTimesRight, NEW k \in Nat, NEW woken, TicksCome(k, woken),
           NEW t \in Tasks, stateList[t] \in DelayLists, t \notin woken,
           remaining[t] - k >= -MaxPended
    PROVE  remaining'[t] = remaining[t] - k
  BY Constants DEF TicksCome, TypeOK, DelayLists

\* A tick that xTaskIncrementTick works on, from the interrupt (k = 1) or pended
\* (k = 0), wakes exactly the tasks that are due.
LEMMA DueExactly ==
    ASSUME TypeOK, WakeTimesRight, UnblockTimeNotLate, NEW t \in Tasks,
           stateList[t] \in DelayLists
    PROVE  t \in Due <=> remaining[t] + xPendedTicks = 1
  <1> DEFINE n == remaining[t] + xPendedTicks
  <1>1. /\ Right(xTickCount, n, stateList[t], wakeTime[t])
        /\ xTickCount \in Ticks /\ n \in Int /\ wakeTime[t] \in Int /\ xNextTaskUnblockTime \in Int
        /\ Now \in Int
    <2>1. /\ xTickCount \in Ticks /\ remaining[t] \in Int /\ xPendedTicks \in Int
          /\ wakeTime[t] \in Int /\ xNextTaskUnblockTime \in Int
      BY Constants DEF TypeOK, Ticks
    <2>2. Now \in Ticks /\ Ticks \subseteq Int
      <3>1. 1 \in 0 .. portMAX_DELAY
        BY Constants
      <3>2. Later(xTickCount, 1) \in Ticks
        BY <2>1, <3>1, LaterType
      <3> QED BY <3>2, Constants DEF Now, Ticks
    <2> QED BY <2>1, <2>2, RightDef
  <1> HIDE DEF n
  <1>2. CASE n = 1
    <2>1. wakeTime[t] = Now /\ (stateList[t] = "delayed" <=> Now # 0)
      BY <1>1, <1>2, DueWithTick DEF Now
    <2>2. t \in DelayedNow
      BY <2>1 DEF DelayedNow, In, DelayLists
    <2>3. stateList[t] = "delayed" => Now >= xNextTaskUnblockTime
      BY <1>1, <2>1 DEF UnblockTimeNotLate, In
    <2>4. wakeTime[t] <= Now
      BY <1>1, <2>1
    <2> QED BY <1>2, <2>1, <2>2, <2>3, <2>4 DEF Due, Looks, n
  <1>3. CASE n # 1
    <2>1. /\ Now # 0 /\ stateList[t] = "delayed" => wakeTime[t] > Now
          /\ Now = 0 => stateList[t] = "overflow" /\ wakeTime[t] > 0
      BY <1>1, <1>3, DueLater DEF Now
    <2>2. t \in DelayedNow => ~(wakeTime[t] <= Now)
      BY <1>1, <2>1 DEF DelayedNow, In
    <2> QED BY <1>3, <2>2 DEF Due, n
  <1> QED BY <1>2, <1>3

LEMMA IncrementTime ==
    ASSUME TypeOK, WakeTimesRight, UnblockTimeNotLate, IncrementTick,
           NEW k \in {0, 1}, TicksCome(k, Due), xPendedTicks' = xPendedTicks - (1 - k),
           xPendedTicks' \in 0 .. MaxPended
    PROVE  /\ WakeTimesRight'
           /\ UnblockTimeNotLate'
           /\ \A t \in Tasks : stateList[t] \in DelayLists =>
                (stateList'[t] = "ready" <=> remaining[t] + xPendedTicks = 1)
  <1>1. /\ xTickCount \in Ticks /\ Now = Later(xTickCount, 1) /\ xTickCount' = Now
        /\ xPendedTicks \in Int /\ MaxPended \in Nat
        /\ \A t \in Tasks : remaining[t] \in Int
        /\ (IF Looks THEN ResetNextTaskUnblockTime(DelayedNow \ Due)
                    ELSE UNCHANGED xNextTaskUnblockTime)
    BY Constants DEF TypeOK, Now, IncrementTick
  <1>2. \A t \in Tasks :
          /\ t \in Due => stateList'[t] = "ready"
          /\ t \notin Due => /\ wakeTime'[t] = wakeTime[t]
                             /\ Now # 0 => stateList'[t] = stateList[t]
                             /\ stateList[t] \notin DelayLists => stateList'[t] = stateList[t]
                             /\ Now = 0 /\ stateList[t] = "delayed" => stateList'[t] = "overflow"
                             /\ Now = 0 /\ stateList[t] = "overflow" => stateList'[t] = "delayed"
    BY IncrementTickEffect DEF DelayLists
  <1>3. ASSUME NEW t \in Tasks, t \notin Due, stateList[t] \in DelayLists
        PROVE  /\ remaining'[t] + xPendedTicks' = (remaining[t] + xPendedTicks) - 1
               /\ Right(xTickCount, remaining[t] + xPendedTicks, stateList[t], wakeTime[t])
               /\ remaining[t] + xPendedTicks \in Int /\ remaining[t] + xPendedTicks # 1
    <2>1. Right(xTickCount, remaining[t] + xPendedTicks, stateList[t], wakeTime[t])
      BY <1>3, RightDef
    <2>2. remaining[t] + xPendedTicks # 1
      BY <1>3, DueExactly
    <2>3. remaining[t] + xPendedTicks \in 1 .. portMAX_DELAY
      BY <2>1 DEF Right
    <2>4. remaining[t] - k >= -MaxPended
      <3>1. xPendedTicks <= MaxPended /\ xPendedTicks >= 0
        BY Constants DEF TypeOK
      <3>2. remaining[t] >= 2 - xPendedTicks
        BY <1>1, <2>2, <2>3, Constants
      <3> QED BY <1>1, <3>1, <3>2
    <2>5. remaining'[t] = remaining[t] - k
      BY <1>3, <2>4, TicksComeEffect
    <2>6. remaining'[t] + xPendedTicks' = (remaining[t] + xPendedTicks) - 1
      <3>1. /\ remaining'[t] = remaining[t] - k /\ xPendedTicks' = xPendedTicks - (1 - k)
            /\ remaining[t] \in Int /\ xPendedTicks \in Int /\ k \in Int
        BY <1>1, <2>5
      <3> QED BY ONLY <3>1
    <2> QED BY <2>1, <2>2, <2>3, <2>6
  <1>4. WakeTimesRight'
    <2> SUFFICES ASSUME NEW t \in Tasks, stateList'[t] \in DelayLists
                 PROVE  Right(xTickCount', remaining'[t] + xPendedTicks', stateList'[t], wakeTime'[t])
      BY RightDef
    <2>1. t \notin Due /\ stateList[t] \in DelayLists
      BY <1>2 DEF DelayLists
    <2>2. CASE Now # 0
      <3>1. Right(Now, (remaining[t] + xPendedTicks) - 1, stateList[t], wakeTime[t])
        BY <1>1, <1>3, <2>1, <2>2, DueLater
      <3> QED BY <1>1, <1>2, <1>3, <2>1, <2>2, <3>1
    <2>3. CASE Now = 0
      <3>1. Right(Now, (remaining[t] + xPendedTicks) - 1, "delayed", wakeTime[t])
        BY <1>1, <1>3, <2>1, <2>3, DueLater
      <3>2. stateList[t] = "overflow"
        BY <1>1, <1>3, <2>1, <2>3, DueLater
      <3> QED BY <1>1, <1>2, <1>3, <2>1, <2>3, <3>1, <3>2
    <2> QED BY <2>2, <2>3
  <1>5. UnblockTimeNotLate'
    <2> SUFFICES ASSUME NEW t \in Tasks, stateList'[t] = "delayed"
                 PROVE  xNextTaskUnblockTime' <= wakeTime'[t]
      BY DEF UnblockTimeNotLate, In
    <2>1. t \notin Due /\ stateList[t] \in DelayLists /\ wakeTime'[t] = wakeTime[t]
      BY <1>2 DEF DelayLists
    <2>2. t \in DelayedNow \ Due
      BY <1>2, <2>1 DEF DelayedNow, In, DelayLists
    <2>3. CASE Looks
      <3>1. DelayedNow \ Due \subseteq Tasks
        BY DueType
      <3> QED BY <1>1, <2>1, <2>2, <2>3, <3>1, ResetType DEF TypeOK
    <2>4. CASE ~Looks
      <3>1. Now # 0
        BY <2>4 DEF Looks
      <3> QED BY <1>1, <2>1, <2>2, <2>4, <3>1 DEF UnblockTimeNotLate, DelayedNow
    <2> QED BY <2>3, <2>4
  <1>6. \A t \in Tasks : stateList[t] \in DelayLists =>
                (stateList'[t] = "ready" <=> remaining[t] + xPendedTicks = 1)
    <2> SUFFICES ASSUME NEW t \in Tasks, stateList[t] \in DelayLists
                 PROVE  stateList'[t] = "ready" <=> t \in Due
      BY DueExactly
    <2> QED BY <1>2 DEF DelayLists
  <1> QED BY <1>4, <1>5, <1>6

\* Steps that take no time and put nobody into the delayed lists.
TimeKept ==
    /\ UNCHANGED <<xTickCount, xPendedTicks>>
    /\ \A t \in Tasks :
          stateList'[t] \in DelayLists => /\ stateList'[t] = stateList[t]
                                          /\ wakeTime'[t] = wakeTime[t]
                                          /\ remaining'[t] = remaining[t]
    /\ \/ UNCHANGED xNextTaskUnblockTime
       \/ \A t \in Tasks : stateList'[t] = "delayed" => xNextTaskUnblockTime' <= wakeTime[t]

LEMMA TimeKeptEffect ==
    ASSUME WakeTimesRight, UnblockTimeNotLate, TimeKept
    PROVE  WakeTimesRight' /\ UnblockTimeNotLate'
  <1>1. WakeTimesRight'
    BY RightDef DEF TimeKept
  <1>2. UnblockTimeNotLate'
    BY DEF UnblockTimeNotLate, TimeKept, In, DelayLists
  <1> QED BY <1>1, <1>2

LEMMA MoveKeepsTime ==
    ASSUME TypeOK, NEW S \in SUBSET Tasks, NEW list \in StateLists \ DelayLists, Move(S, list),
           UNCHANGED <<xTickCount, xPendedTicks>>,
           \/ UNCHANGED xNextTaskUnblockTime
           \/ ResetNextTaskUnblockTime(In("delayed") \ S)
    PROVE  TimeKept
  <1>1. \A t \in Tasks : stateList'[t] \in DelayLists =>
          /\ t \notin S
          /\ stateList'[t] = stateList[t] /\ wakeTime'[t] = wakeTime[t]
          /\ remaining'[t] = remaining[t]
    <2>1. list \in StateLists /\ list \notin DelayLists
      OBVIOUS
    <2>2. /\ \A t \in Tasks : stateList'[t] = IF t \in S THEN list ELSE stateList[t]
          /\ \A t \in Tasks \ S : wakeTime'[t] = wakeTime[t] /\ remaining'[t] = remaining[t]
      BY <2>1, MoveEffect
    <2> QED BY <2>1, <2>2
  <1>2. ASSUME ResetNextTaskUnblockTime(In("delayed") \ S)
        PROVE  \A t \in Tasks : stateList'[t] = "delayed" => xNextTaskUnblockTime' <= wakeTime[t]
    <2>1. In("delayed") \ S \in SUBSET Tasks
      BY DEF In
    <2>2. \A t \in In("delayed") \ S : xNextTaskUnblockTime' <= wakeTime[t]
      BY <1>2, <2>1, ResetType DEF TypeOK
    <2>3. \A t \in Tasks : stateList'[t] = "delayed" => t \in In("delayed") \ S
      BY <1>1 DEF In, DelayLists
    <2> QED BY <2>2, <2>3
  <1> QED BY <1>1, <1>2 DEF TimeKept

\* A task goes to sleep.
LEMMA AddToDelayedListTime ==
    ASSUME TypeOK, WakeTimesRight, UnblockTimeNotLate,
           NEW t \in Tasks, NEW n \in 1 .. portMAX_DELAY, AddToDelayedList(t, n),
           UNCHANGED <<xTickCount, xPendedTicks>>
    PROVE  WakeTimesRight' /\ UnblockTimeNotLate'
  <1>1. /\ stateList'[t] \in DelayLists
        /\ \A u \in Tasks \ {t} : /\ stateList'[u] = stateList[u]
                                  /\ wakeTime'[u] = wakeTime[u]
                                  /\ remaining'[u] = remaining[u]
        /\ wakeTime'[t] = Later(xTickCount, n)
        /\ remaining'[t] = n - xPendedTicks
        /\ stateList'[t] = "delayed" <=> ~(Later(xTickCount, n) < xTickCount)
    BY AddToDelayedListEffect DEF DelayLists
  <1>2. xTickCount \in Ticks /\ xPendedTicks \in Int /\ xNextTaskUnblockTime \in Int
    BY Constants DEF TypeOK, Ticks
  <1>3. Later(xTickCount, n) \in Int
    <2>1. n \in 0 .. portMAX_DELAY
      BY Constants
    <2>2. Later(xTickCount, n) \in Ticks
      BY <1>2, <2>1, LaterType
    <2> QED BY <2>2, Constants DEF Ticks
  <1>4. WakeTimesRight'
    <2> SUFFICES ASSUME NEW u \in Tasks, stateList'[u] \in DelayLists
                 PROVE  Right(xTickCount', remaining'[u] + xPendedTicks', stateList'[u], wakeTime'[u])
      BY RightDef
    <2>1. CASE u = t
      <3>1. Right(xTickCount, n, stateList'[t], Later(xTickCount, n))
        BY <1>1, <1>2, NewWakeTime
      <3>2. remaining'[t] + xPendedTicks' = n
        BY <1>1, <1>2
      <3> QED BY <1>1, <2>1, <3>1, <3>2
    <2>2. CASE u # t
      BY <1>1, <2>2, RightDef
    <2> QED BY <2>1, <2>2
  <1>5. UnblockTimeNotLate'
    <2> DEFINE wake == Later(xTickCount, n)
    <2>1. \/ wake < xTickCount /\ UNCHANGED xNextTaskUnblockTime
          \/ xNextTaskUnblockTime' = IF wake < xNextTaskUnblockTime
                                     THEN wake ELSE xNextTaskUnblockTime
      BY DEF AddToDelayedList
    <2> HIDE DEF wake
    <2> SUFFICES ASSUME NEW u \in Tasks, stateList'[u] = "delayed"
                 PROVE  xNextTaskUnblockTime' <= wakeTime'[u]
      BY DEF UnblockTimeNotLate, In
    <2>2. CASE u = t
      BY <1>1, <1>2, <1>3, <2>1, <2>2 DEF wake
    <2>3. CASE u # t
      <3>1. /\ wakeTime'[u] = wakeTime[u] /\ xNextTaskUnblockTime <= wakeTime[u]
            /\ wakeTime[u] \in Int /\ wake \in Int
        <4>1. wakeTime'[u] = wakeTime[u] /\ stateList[u] = "delayed"
          BY <1>1, <2>3
        <4>2. xNextTaskUnblockTime <= wakeTime[u]
          BY <4>1 DEF UnblockTimeNotLate, In
        <4>3. wakeTime[u] \in Int
          BY Constants DEF TypeOK, Ticks
        <4> QED BY <1>3, <4>1, <4>2, <4>3 DEF wake
      <3> QED BY <1>2, <2>1, <3>1
    <2> QED BY <2>2, <2>3
  <1> QED BY <1>4, <1>5

\* Ticks that come while the scheduler is suspended are pended.
LEMMA PendedTime ==
    ASSUME TypeOK, WakeTimesRight, UnblockTimeNotLate, NEW k \in Nat, TicksCome(k, {}),
           xPendedTicks' = xPendedTicks + k, xPendedTicks' \in 0 .. MaxPended,
           UNCHANGED <<stateList, wakeTime, xTickCount, xNextTaskUnblockTime>>
    PROVE  WakeTimesRight' /\ UnblockTimeNotLate'
  <1>1. WakeTimesRight'
    <2> SUFFICES ASSUME NEW t \in Tasks, stateList[t] \in DelayLists
                 PROVE  Right(xTickCount, remaining'[t] + xPendedTicks', stateList[t], wakeTime[t])
      BY RightDef
    <2>1. Right(xTickCount, remaining[t] + xPendedTicks, stateList[t], wakeTime[t])
      BY RightDef
    <2>2. /\ remaining[t] \in Int /\ xPendedTicks \in Int /\ MaxPended \in Int
          /\ remaining[t] + xPendedTicks >= 1 /\ xPendedTicks + k <= MaxPended
      BY <2>1, Constants DEF Right, TypeOK
    <2>3. remaining[t] - k >= -MaxPended
      BY <2>2
    <2>4. remaining'[t] = remaining[t] - k
      BY <2>3, TicksComeEffect
    <2>5. remaining'[t] + xPendedTicks' = remaining[t] + xPendedTicks
      BY <2>2, <2>4
    <2> QED BY <2>1, <2>5
  <1> QED BY <1>1 DEF UnblockTimeNotLate, In

\* What TicksWakeExactly says of a step.
WakesExactly ==
    xTickCount' # xTickCount =>
        \A t \in Tasks : stateList[t] \in DelayLists =>
            (stateList'[t] = "ready" <=> remaining[t] + xPendedTicks = 1)

LEMMA TimeInterruptStep ==
    ASSUME Scheduling, Scheduling', WakeTimesRight, UnblockTimeNotLate,
           Tick \/ SignalFromISR \/ ResumeFromISR
    PROVE  WakeTimesRight' /\ UnblockTimeNotLate' /\ WakesExactly
  <1> USE DEF Scheduling
  <1>1. CASE Tick
    <2>1. xPendedTicks' \in 0 .. MaxPended /\ xPendedTicks \in Int
      BY Constants DEF TypeOK
    <2>2. CASE uxSchedulerSuspended = 0
      <3>1. IncrementTick /\ TicksCome(1, Due) /\ xPendedTicks' = xPendedTicks
        BY <1>1, <2>2 DEF Tick
      <3>2. xPendedTicks' = xPendedTicks - (1 - 1)
        BY <2>1, <3>1
      <3> QED BY <2>1, <3>1, <3>2, IncrementTime DEF WakesExactly
    <2>3. CASE uxSchedulerSuspended # 0
      <3>1. /\ TicksCome(1, {}) /\ xPendedTicks' = xPendedTicks + 1
            /\ UNCHANGED <<stateList, wakeTime, xTickCount, xNextTaskUnblockTime>>
        BY <1>1, <2>3 DEF Tick
      <3> QED BY <2>1, <3>1, PendedTime DEF WakesExactly
    <2> QED BY <2>2, <2>3
  <1>2. CASE SignalFromISR \/ ResumeFromISR
    <2>1. UNCHANGED <<xTickCount, xPendedTicks, xNextTaskUnblockTime>>
      BY <1>2 DEF SignalFromISR, ResumeFromISR, time
    <2>2. \/ \E u \in Tasks : Move({u}, "ready")
          \/ UNCHANGED <<stateList, wakeTime, remaining>>
      <3>1. CASE SignalFromISR
        <4>1. xEventList # <<>> /\ (Move({Head(xEventList)}, "ready") \/ UNCHANGED items)
          BY <3>1 DEF SignalFromISR
        <4>2. Head(xEventList) \in Tasks
          BY <4>1, HeadTailProperties DEF TypeOK
        <4> QED BY <4>1, <4>2 DEF items
      <3>2. CASE ResumeFromISR
        BY <3>2 DEF ResumeFromISR, items
      <3> QED BY <1>2, <3>1, <3>2
    <2>3. TimeKept
      <3>1. "ready" \in StateLists \ DelayLists
        BY DEF StateLists, DelayLists
      <3>2. ASSUME NEW u \in Tasks, Move({u}, "ready") PROVE TimeKept
        BY <2>1, <3>1, <3>2, MoveKeepsTime
      <3>3. ASSUME UNCHANGED <<stateList, wakeTime, remaining>> PROVE TimeKept
        BY <2>1, <3>3 DEF TimeKept
      <3> QED BY <2>2, <3>2, <3>3
    <2> QED BY <2>1, <2>3, TimeKeptEffect DEF WakesExactly
  <1> QED BY <1>1, <1>2

\* The steps of tasks that move nobody but into lists that no tick looks at.
LEMMA TimeMoveStep ==
    ASSUME Scheduling, AbortOK, NEW t \in Tasks,
           \/ ResumeAll(t) \/ Signal(t) \/ Suspend(t) \/ Resume(t) \/ Delete(t) \/ Cleanup(t)
           \/ Create(t) \/ AbortCheck(t) \/ AbortReady(t)
    PROVE  TimeKept
  <1> USE DEF Scheduling
  <1>1. UNCHANGED <<xTickCount, xPendedTicks>>
    BY DEF ResumeAll, Signal, Suspend, Resume, Delete, Cleanup, Create, AbortCheck, AbortReady, time
  <1>2. {"ready", "suspended", "terminating", "deleted", "none"} \subseteq StateLists \ DelayLists
    BY DEF StateLists, DelayLists
  <1>3. ASSUME UNCHANGED <<stateList, wakeTime, remaining, xNextTaskUnblockTime>> PROVE TimeKept
    BY <1>1, <1>3 DEF TimeKept
  <1>4. ASSUME NEW u \in Tasks,
               NEW list \in {"ready", "suspended", "terminating", "deleted", "none"},
               Move({u}, list),
               \/ UNCHANGED xNextTaskUnblockTime
               \/ ResetNextTaskUnblockTime(In("delayed") \ {u})
        PROVE  TimeKept
    BY <1>1, <1>2, <1>4, MoveKeepsTime
  <1>5. CASE ResumeAll(t)
    <2>1. CASE uxSchedulerSuspended > 1
      BY <1>3, <1>5, <2>1 DEF ResumeAll, items
    <2>2. CASE ~(uxSchedulerSuspended > 1)
      <3>1. /\ Move(xPendingReadyList, "ready")
            /\ \/ UNCHANGED xNextTaskUnblockTime
               \/ ResetNextTaskUnblockTime(In("delayed") \ xPendingReadyList)
        BY <1>5, <2>2 DEF ResumeAll
      <3>2. xPendingReadyList \in SUBSET Tasks
        BY DEF TypeOK
      <3> QED BY <1>1, <1>2, <3>1, <3>2, MoveKeepsTime
    <2> QED BY <2>1, <2>2
  <1>6. CASE Signal(t)
    <2>1. /\ xEventList # <<>> /\ Move({Head(xEventList)}, "ready")
          /\ UNCHANGED xNextTaskUnblockTime
      BY <1>6 DEF Signal
    <2>2. Head(xEventList) \in Tasks
      BY <2>1, HeadTailProperties DEF TypeOK
    <2> QED BY <1>4, <2>1, <2>2
  <1>7. CASE Suspend(t)
    <2>1. PICK u \in Tasks : Move({u}, "suspended") /\ UNCHANGED xNextTaskUnblockTime
      BY <1>7 DEF Suspend
    <2> QED BY <1>4, <2>1
  <1>8. CASE Resume(t)
    <2>1. PICK u \in Tasks : Move({u}, "ready") /\ UNCHANGED xNextTaskUnblockTime
      BY <1>8 DEF Resume
    <2> QED BY <1>4, <2>1
  <1>9. CASE Delete(t)
    <2>1. PICK u \in Tasks : /\ Move({u}, "terminating") \/ Move({u}, "deleted")
                             /\ \/ UNCHANGED xNextTaskUnblockTime
                                \/ ResetNextTaskUnblockTime(In("delayed") \ {u})
      BY <1>9 DEF Delete
    <2> QED BY <1>4, <2>1
  <1>10. CASE Cleanup(t)
    <2>1. PICK u \in Tasks : Move({u}, "deleted") /\ UNCHANGED xNextTaskUnblockTime
      BY <1>10 DEF Cleanup, In
    <2> QED BY <1>4, <2>1
  <1>11. CASE Create(t)
    <2>1. PICK u \in Tasks : Move({u}, "ready") /\ UNCHANGED xNextTaskUnblockTime
      BY <1>11 DEF Create, In
    <2> QED BY <1>4, <2>1
  <1>12. CASE AbortCheck(t)
    <2>1. target[t] \in Tasks /\ UNCHANGED xNextTaskUnblockTime
      BY <1>12 DEF AbortCheck, At, AbortOK
    <2>2. Move({target[t]}, "none") \/ UNCHANGED <<stateList, wakeTime, remaining>>
      BY <1>12 DEF AbortCheck, items
    <2> QED BY <1>3, <1>4, <2>1, <2>2
  <1>13. CASE AbortReady(t)
    <2>1. /\ target[t] \in Tasks /\ UNCHANGED xNextTaskUnblockTime
          /\ Move({target[t]}, "ready")
      BY <1>13 DEF AbortReady, At, AbortOK
    <2> QED BY <1>4, <2>1
  <1> QED BY <1>5, <1>6, <1>7, <1>8, <1>9, <1>10, <1>11, <1>12, <1>13

LEMMA TimeStep ==
    ASSUME Scheduling, Scheduling', AbortOK, WakeTimesRight, UnblockTimeNotLate,
           NEW t \in Tasks, Step(t)
    PROVE  WakeTimesRight' /\ UnblockTimeNotLate' /\ WakesExactly
  <1>1. CASE \/ TaskYield(t) \/ EnterDelay(t) \/ SuspendAll(t) \/ ResumeEnd(t) \/ Yield(t)
             \/ PrioritySet(t) \/ CreateEnd(t) \/ EnterAbort(t) \/ AbortRemove(t) \/ EnterCatchUp(t)
    <2>1. UNCHANGED <<stateList, wakeTime, remaining, xTickCount, xPendedTicks,
                      xNextTaskUnblockTime>>
      BY <1>1 DEF TaskYield, EnterDelay, SuspendAll, ResumeEnd, Yield, PrioritySet, CreateEnd,
         EnterAbort, AbortRemove, EnterCatchUp, items, time
    <2> QED BY <2>1, TimeKeptEffect DEF TimeKept, WakesExactly
  <1>2. CASE SuspendEnd(t)
    <2>1. /\ UNCHANGED <<stateList, wakeTime, remaining, xTickCount, xPendedTicks>>
          /\ ResetNextTaskUnblockTime(In("delayed"))
      BY <1>2 DEF SuspendEnd, items, time
    <2>2. \A u \in In("delayed") : xNextTaskUnblockTime' <= wakeTime[u]
      <3>1. In("delayed") \in SUBSET Tasks
        BY DEF In
      <3> QED BY <2>1, <3>1, ResetType DEF Scheduling, TypeOK
    <2> QED BY <2>1, <2>2, TimeKeptEffect DEF TimeKept, WakesExactly, In
  <1>3. CASE \/ ResumeAll(t) \/ Signal(t) \/ Suspend(t) \/ Resume(t) \/ Delete(t) \/ Cleanup(t)
             \/ Create(t) \/ AbortCheck(t) \/ AbortReady(t)
    <2>1. TimeKept
      BY <1>3, TimeMoveStep
    <2> QED BY <2>1, TimeKeptEffect DEF TimeKept, WakesExactly
  <1>4. CASE Delay(t) \/ Wait(t)
    <2>1. UNCHANGED <<xTickCount, xPendedTicks>>
      BY <1>4 DEF Delay, Wait, time
    <2>2. \/ \E n \in 1 .. portMAX_DELAY : AddToDelayedList(t, n)
          \/ Move({t}, "suspended") /\ UNCHANGED xNextTaskUnblockTime
      <3>1. 1 .. portMAX_DELAY - 1 \subseteq 1 .. portMAX_DELAY
        BY Constants
      <3> QED BY <1>4, <3>1 DEF Delay, Wait
    <2>3. CASE \E n \in 1 .. portMAX_DELAY : AddToDelayedList(t, n)
      BY <2>1, <2>3, AddToDelayedListTime DEF Scheduling, WakesExactly
    <2>4. CASE Move({t}, "suspended") /\ UNCHANGED xNextTaskUnblockTime
      <3>1. "suspended" \in StateLists \ DelayLists /\ {t} \in SUBSET Tasks
        BY DEF StateLists, DelayLists
      <3>2. TimeKept
        BY <2>1, <2>4, <3>1, MoveKeepsTime DEF Scheduling
      <3> QED BY <2>1, <3>2, TimeKeptEffect DEF WakesExactly
    <2> QED BY <2>2, <2>3, <2>4
  <1>5. CASE ReplayTick(t)
    <2>1. IncrementTick /\ TicksCome(0, Due) /\ xPendedTicks' = xPendedTicks - 1
      BY <1>5 DEF ReplayTick
    <2>2. xPendedTicks' \in 0 .. MaxPended /\ xPendedTicks' = xPendedTicks - (1 - 0)
      BY <2>1, Constants DEF Scheduling, TypeOK
    <2> QED BY <2>1, <2>2, IncrementTime DEF Scheduling, WakesExactly
  <1>6. CASE CatchUp(t)
    <2>1. PICK n \in 0 .. MaxPended - xPendedTicks :
            xPendedTicks' = xPendedTicks + n /\ TicksCome(n, {})
      BY <1>6 DEF CatchUp
    <2>2. UNCHANGED <<stateList, wakeTime, xTickCount, xNextTaskUnblockTime>>
      BY <1>6 DEF CatchUp
    <2>3. n \in Nat /\ xPendedTicks' \in 0 .. MaxPended
      BY <2>1, Constants DEF Scheduling, TypeOK
    <2> QED BY <2>1, <2>2, <2>3, PendedTime DEF Scheduling, WakesExactly
  <1> QED BY <1>1, <1>2, <1>3, <1>4, <1>5, <1>6 DEF Step

-----------------------------------------------------------------------------
(***************************************************************************)
(* The theorems                                                            *)
(***************************************************************************)
LEMMA SchedulingStep ==
    ASSUME Scheduling, AbortOK, Next
    PROVE  Scheduling'
  <1>1. ASSUME NEW t \in Tasks, Step(t) PROVE Scheduling'
    BY <1>1, TaskYieldStep, EnterDelayStep, DelayStep, WaitStep, SuspendAllStep, ResumeAllStep,
       ReplayTickStep, ResumeEndStep, YieldStep, SignalStep, PrioritySetStep, SuspendStep,
       SuspendEndStep, ResumeStep, DeleteStep, CleanupStep, CreateStep, CreateEndStep,
       EnterAbortStep, AbortCheckStep, AbortRemoveStep, AbortReadyStep, EnterCatchUpStep,
       CatchUpStep DEF Step
  <1> QED BY <1>1, TickStep, SignalFromISRStep, ResumeFromISRStep DEF Next

LEMMA InvariantStep ==
    ASSUME InductiveInvariant, Next
    PROVE  InductiveInvariant' /\ WakesExactly
  <1>1. /\ Scheduling /\ AbortOK /\ WaitersBlocked /\ WakeTimesRight /\ UnblockTimeNotLate
    BY DEF InductiveInvariant, Scheduling
  <1>2. Scheduling'
    BY <1>1, SchedulingStep
  <1>3. AbortOK'
    BY <1>1, <1>2, AbortStep
  <1>4. WaitersBlocked'
    BY <1>1, WaitersStep, WaitersInterruptStep DEF Next
  <1>5. WakeTimesRight' /\ UnblockTimeNotLate' /\ WakesExactly
    BY <1>1, <1>2, TimeStep, TimeInterruptStep DEF Next
  <1> QED BY <1>2, <1>3, <1>4, <1>5 DEF InductiveInvariant, Scheduling

LEMMA InvariantInit ==
    ASSUME Init
    PROVE  InductiveInvariant
  <1>1. TypeOK
    <2>1. /\ stateList \in [Tasks -> StateLists] /\ wakeTime \in [Tasks -> Ticks]
          /\ remaining \in [Tasks -> Int]
      BY Constants DEF Init, StateLists, Ticks
    <2>2. xEventList \in Seq(Tasks) /\ xPendingReadyList \subseteq Tasks
      BY DEF Init
    <2>3. /\ uxPriority \in [Tasks -> Priorities] /\ pxCurrentTCB \in Tasks
          /\ uxTopReadyPriority \in Priorities
      BY DEF Init
    <2>4. /\ uxSchedulerSuspended \in 0 .. MaxNesting /\ xYieldPending \in BOOLEAN
          /\ xTickCount \in Ticks /\ xPendedTicks \in 0 .. MaxPended
          /\ xNextTaskUnblockTime \in Ticks
      <3>1. 0 \in 0 .. MaxNesting /\ 0 \in 0 .. MaxPended /\ portMAX_DELAY \in Ticks
        BY Constants DEF Ticks
      <3> QED BY <3>1 DEF Init
    <2> QED BY <2>1, <2>2, <2>3, <2>4 DEF Init, TypeOK
  <1>2. ControlOK
    BY DEF Init, ControlOK, Suspending
  <1>3. TopReadyPriorityHigh
    BY DEF Init, TopReadyPriorityHigh, In
  <1>4. RunningOK
    <2>1. \A t \in Tasks : ~Outranks(t)
      <3> SUFFICES ASSUME NEW t \in Tasks PROVE ~Outranks(t)
        OBVIOUS
      <3>1. uxPriority[t] \in Nat /\ uxPriority[pxCurrentTCB] \in Nat
        BY <1>1, Constants DEF TypeOK
      <3>2. uxPriority[t] <= uxPriority[pxCurrentTCB]
        BY DEF Init
      <3> QED BY <3>1, <3>2 DEF Outranks
    <2> QED BY <2>1 DEF Init, RunningOK, In
  <1>5. WakeTimesRight /\ UnblockTimeNotLate
    BY DEF Init, WakeTimesRight, UnblockTimeNotLate, In
  <1>6. WaitersBlocked
    <2>1. ToSet(xEventList) = {} /\ NoDuplicates(xEventList)
      BY DEF Init, ToSet, NoDuplicates
    <2> QED BY <2>1 DEF Init, WaitersBlocked
  <1>7. AbortOK
    BY DEF Init, AbortOK
  <1> QED BY <1>1, <1>2, <1>3, <1>4, <1>5, <1>6, <1>7 DEF InductiveInvariant

LEMMA InvariantStutter ==
    ASSUME InductiveInvariant, UNCHANGED vars
    PROVE  InductiveInvariant'
  BY DEF InductiveInvariant, vars, items, events, switching, time, control, TypeOK, ControlOK,
     TopReadyPriorityHigh, RunningOK, WakeTimesRight, UnblockTimeNotLate, WaitersBlocked,
     AbortOK, In, Leaving, Outranks, Suspending

\* The scheduler keeps its invariant in every execution, for every number of tasks
\* and priorities, width of the tick count and choice of calls.
THEOREM Invariance == Spec => []InductiveInvariant
  <1>1. Init => InductiveInvariant
    BY InvariantInit
  <1>2. InductiveInvariant /\ [Next]_vars => InductiveInvariant'
    BY InvariantStep, InvariantStutter
  <1> QED BY <1>1, <1>2, PTL DEF Spec

\* Every variable keeps its C type; the tick count and wake times do not overflow.
THEOREM TypeCorrect == Spec => []TypeOK
  <1>1. InductiveInvariant => TypeOK
    BY DEF InductiveInvariant
  <1> QED BY <1>1, Invariance, PTL

\* vTaskSwitchContext, which searches from uxTopReadyPriority downwards, overlooks
\* no ready task.
THEOREM TopReadyPriorityIsHigh == Spec => []TopReadyPriorityHigh
  <1>1. InductiveInvariant => TopReadyPriorityHigh
    BY DEF InductiveInvariant
  <1> QED BY <1>1, Invariance, PTL

\* While the scheduler runs, a task of the highest priority of the ready ones runs,
\* after every call and interrupt.
THEOREM TheHighestRuns == Spec => []HighestRuns
  <1>1. InductiveInvariant => HighestRuns
    <2> SUFFICES ASSUME InductiveInvariant, ~xYieldPending,
                        pc[pxCurrentTCB] \in {"app", "suspended"},
                        pc[pxCurrentTCB] = "suspended" => target[pxCurrentTCB] # pxCurrentTCB
                 PROVE  /\ stateList[pxCurrentTCB] = "ready"
                        /\ \A t \in In("ready") : ~Outranks(t)
      BY DEF HighestRuns
    <2>1. ~Leaving /\ pc[pxCurrentTCB] # "created"
      BY DEF Leaving
    <2> QED BY <2>1 DEF InductiveInvariant, RunningOK
  <1> QED BY <1>1, Invariance, PTL

\* A delayed task is in the list, and has the wake time, that fit the ticks it still
\* has to wait, across every wrap of the tick count and replay of pended ticks.
THEOREM WakeTimesAreRight == Spec => []WakeTimesRight
  <1>1. InductiveInvariant => WakeTimesRight
    BY DEF InductiveInvariant
  <1> QED BY <1>1, Invariance, PTL

\* xTaskIncrementTick never skips the delayed list when a task of it is due.
THEOREM UnblockTimeIsNotLate == Spec => []UnblockTimeNotLate
  <1>1. InductiveInvariant => UnblockTimeNotLate
    BY DEF InductiveInvariant
  <1> QED BY <1>1, Invariance, PTL

\* The event list and the pending ready list hold only tasks that wait.
THEOREM WaitersAreBlocked == Spec => []WaitersBlocked
  <1>1. InductiveInvariant => WaitersBlocked
    BY DEF InductiveInvariant
  <1> QED BY <1>1, Invariance, PTL

\* Each tick wakes exactly the tasks that are due with it.
THEOREM TicksWakeThoseDue == Spec => TicksWakeExactly
  <1>1. InductiveInvariant /\ [Next]_vars =>
          [xTickCount' # xTickCount =>
             \A t \in In("delayed") \cup In("overflow") :
                 stateList'[t] = "ready" <=> remaining[t] + xPendedTicks = 1]_vars
    <2> SUFFICES ASSUME InductiveInvariant, Next, xTickCount' # xTickCount,
                        NEW t \in In("delayed") \cup In("overflow")
                 PROVE  stateList'[t] = "ready" <=> remaining[t] + xPendedTicks = 1
      OBVIOUS
    <2>1. t \in Tasks /\ stateList[t] \in DelayLists
      BY DEF In, DelayLists
    <2> QED BY <2>1, InvariantStep DEF WakesExactly
  <1> QED BY <1>1, Invariance, PTL DEF Spec, TicksWakeExactly
=============================================================================
