---------------------------- MODULE MutexProofs ----------------------------
(***************************************************************************)
(* Mutexes, for any tasks, mutexes, programs and base priorities: the      *)
(* types, that priorities are restored, and that a free mutex is not left  *)
(* to sleepers; and, where no task waits for a mutex while it holds        *)
(* another, that holders inherit, for as long as there is a reason, and    *)
(* that the ready lists keep their bits.                                   *)
(***************************************************************************)
EXTENDS Mutex, ListOpsProofs, FiniteSetTheorems

-----------------------------------------------------------------------------
(***************************************************************************)
(* The inductive invariant                                                 *)
(***************************************************************************)

\* A task names a mutex, and counts time, during a call only.
CallsOK ==
    \A t \in Tasks :
        /\ pc[t] = "out" => xSemaphore[t] = NoMutex /\ xTimeOut[t] = "unset"
        /\ pc[t] # "out" => xSemaphore[t] \in Mutexes

FreeIsNotCounted == \A m \in Mutexes : xMutexHolder[m] = NoTask => uxRecursiveCallCount[m] = 0

\* Those in an event list are blocked in a call for that mutex.
WaitersOK ==
    \A m \in Mutexes :
        /\ NoDuplicates(xTasksWaitingToReceive[m])
        /\ \A t \in Waiters(m) : t \notin ready /\ xSemaphore[t] = m /\ pc[t] = "try"

RunningIsReady == pxCurrentTCB # NoTask => pxCurrentTCB \in ready

Structure == TypeOK /\ CallsOK /\ FreeIsNotCounted /\ WaitersOK /\ RunningIsReady
MutexInv  == Structure /\ PriorityRestored /\ NoLostMutex

-----------------------------------------------------------------------------
(***************************************************************************)
(* Scheduling                                                              *)
(***************************************************************************)

LEMMA NoTaskIsNoTask == NoTask \notin Tasks
BY MutexAssumption

LEMMA NoMutexIsNoMutex == NoMutex \notin Mutexes
BY MutexAssumption DEF NoMutex

LEMMA SwitchedContext ==
    ASSUME NEW R \in SUBSET Tasks, NEW prio, SwitchContext(R, prio)
    PROVE  /\ pxCurrentTCB' \in Tasks \cup {NoTask}
           /\ pxCurrentTCB' # NoTask => pxCurrentTCB' \in R
BY DEF SwitchContext

LEMMA RecordedType ==
    ASSUME NEW R \in SUBSET Tasks, NEW prio \in [Tasks -> Nat], uxTopReadyPriority \subseteq Nat,
           Record(R, prio)
    PROVE  uxTopReadyPriority' \subseteq Nat
BY DEF Record, NonEmpty

LEMMA MadeReady ==
    ASSUME Structure, NEW t \in Tasks, MakeReady(t)
    PROVE  /\ ready' = ready \cup {t} /\ ready' \subseteq Tasks
           /\ uxTopReadyPriority' \subseteq Nat
           /\ pxCurrentTCB' \in Tasks \cup {NoTask}
           /\ RunningIsReady'
<1>1. ready' = ready \cup {t} /\ ready' \in SUBSET Tasks
  BY DEF MakeReady, Structure, TypeOK
<1>2. uxTopReadyPriority' \subseteq Nat
  BY <1>1, RecordedType DEF MakeReady, Structure, TypeOK
<1>3. \/ SwitchContext(ready', uxPriority)
      \/ UNCHANGED pxCurrentTCB
  BY DEF MakeReady
<1>4. /\ pxCurrentTCB' \in Tasks \cup {NoTask}
      /\ pxCurrentTCB' # NoTask => pxCurrentTCB' \in ready'
  BY <1>1, <1>3, SwitchedContext DEF Structure, RunningIsReady, TypeOK
<1> QED  BY <1>1, <1>2, <1>4 DEF RunningIsReady

-----------------------------------------------------------------------------
(***************************************************************************)
(* Steps that leave the mutexes and the priorities alone                   *)
(***************************************************************************)

LEMMA InitMutex == Init => MutexInv
<1> SUFFICES ASSUME Init
             PROVE  MutexInv
  OBVIOUS
<1>1. TypeOK
  <2>1. /\ xMutexHolder \in [Mutexes -> Tasks \cup {NoTask}]
        /\ uxRecursiveCallCount \in [Mutexes -> 0 .. MaxDepth]
    BY MutexAssumption DEF Init
  <2>2. xTasksWaitingToReceive \in [Mutexes -> Seq(Tasks)]
    BY DEF Init
  <2>3. uxPriority \in [Tasks -> Nat] /\ uxMutexesHeld \in [Tasks -> Nat]
    BY MutexAssumption DEF Init
  <2>4. pc \in [Tasks -> Steps] /\ xSemaphore \in [Tasks -> Mutexes \cup {NoMutex}]
    BY DEF Init, Steps
  <2>5. /\ xTicksToWait \in [Tasks -> {"none", "finite", "forever"}]
        /\ xTimeOut \in [Tasks -> {"unset", "running", "expired"}]
    BY DEF Init
  <2>6. xInheritanceOccurred \in [Tasks -> BOOLEAN]
    BY DEF Init
  <2> QED  BY <2>1, <2>2, <2>3, <2>4, <2>5, <2>6 DEF Init, TypeOK
<1>2. CallsOK /\ FreeIsNotCounted /\ RunningIsReady
  BY DEF Init, CallsOK, FreeIsNotCounted, RunningIsReady
<1>3. \A m \in Mutexes : Waiters(m) = {}
  BY DEF Init, Waiters, ToSet
<1>4. WaitersOK
  BY <1>3 DEF Init, WaitersOK, NoDuplicates
<1>5. PriorityRestored
  <2>1. \A t \in Tasks : Held(t) = {}
    BY MutexAssumption DEF Init, Held
  <2>2. \A t \in Tasks : uxMutexesHeld[t] = Cardinality(Held(t))
    BY <2>1, FS_EmptySet DEF Init
  <2>3. \A t \in Tasks : uxBasePriority[t] \in Nat /\ uxPriority[t] = uxBasePriority[t]
    BY MutexAssumption DEF Init
  <2> QED  BY <2>2, <2>3 DEF PriorityRestored
<1> QED  BY <1>1, <1>2, <1>3, <1>4, <1>5 DEF MutexInv, Structure, NoLostMutex

\* The running task goes on with its call: no task that others rely on to take a
\* free mutex turns away from it.
LEMMA CallGoesOn ==
    ASSUME MutexInv, UNCHANGED MayTake, NEW t \in Tasks, pxCurrentTCB = t,
           UNCHANGED <<mutexes, uxMutexesHeld, sched>>,
           \E s \in Steps : pc' = [pc EXCEPT ![t] = s],
           \E m \in Mutexes \cup {NoMutex} : xSemaphore' = [xSemaphore EXCEPT ![t] = m],
           xTicksToWait' \in [Tasks -> {"none", "finite", "forever"}],
           \E o \in {"unset", "running", "expired"} : xTimeOut' = [xTimeOut EXCEPT ![t] = o],
           \E b \in BOOLEAN : xInheritanceOccurred' = [xInheritanceOccurred EXCEPT ![t] = b],
           pc'[t] = "out" => xSemaphore'[t] = NoMutex /\ xTimeOut'[t] = "unset",
           pc'[t] # "out" => xSemaphore'[t] \in Mutexes,
           \/ pc[t] = "out"
           \/ xMutexHolder[xSemaphore[t]] # NoTask
           \/ xSemaphore'[t] = xSemaphore[t] /\ pc'[t] # "disinherit"
    PROVE  MutexInv'
<1> USE DEF mutexes, sched
<1>1. TypeOK'
  BY DEF MutexInv, Structure, TypeOK
<1>2. CallsOK'
  BY DEF MutexInv, Structure, TypeOK, CallsOK
<1>3. FreeIsNotCounted' /\ RunningIsReady'
  BY DEF MutexInv, Structure, FreeIsNotCounted, RunningIsReady
<1>4. t \in ready
  BY NoTaskIsNoTask DEF MutexInv, Structure, RunningIsReady
<1>5. \A m \in Mutexes : Waiters(m)' = Waiters(m)
  BY DEF Waiters
<1>6. WaitersOK'
  BY <1>4, <1>5 DEF MutexInv, Structure, TypeOK, WaitersOK, Waiters, NoDuplicates
<1>7. PriorityRestored'
  BY DEF MutexInv, PriorityRestored, Held
<1>8. NoLostMutex'
  <2> SUFFICES ASSUME NEW m \in Mutexes, xMutexHolder[m] = NoTask, Waiters(m) # {}
               PROVE  \E u \in ready : xSemaphore'[u] = m /\ pc'[u] # "disinherit"
    BY <1>5 DEF NoLostMutex
  <2>1. PICK u \in ready : xSemaphore[u] = m /\ pc[u] # "disinherit"
    BY DEF MutexInv, NoLostMutex
  <2>2. CASE u # t
    BY <2>1, <2>2 DEF MutexInv, Structure, TypeOK
  <2>3. CASE u = t
    BY <2>1, <2>3, NoMutexIsNoMutex DEF MutexInv, Structure, CallsOK
  <2> QED  BY <2>2, <2>3
<1> QED  BY <1>1, <1>2, <1>3, <1>6, <1>7, <1>8 DEF MutexInv, Structure

LEMMA CallStepsKeepInv ==
    ASSUME MutexInv, UNCHANGED MayTake, NEW t \in Tasks,
           \/ FailAtOnce(t) \/ NoteEntryTime(t) \/ TimedOut(t) \/ TryAgain(t)
           \/ EmptyCheck(t) \/ GiveUp(t)
           \/ \E m \in Mutexes : \E w \in Waits : Take(t, m, w)
    PROVE  MutexInv'
<1> USE DEF call, Steps
<1>0. /\ pc \in [Tasks -> Steps] /\ xSemaphore \in [Tasks -> Mutexes \cup {NoMutex}]
      /\ xTicksToWait \in [Tasks -> {"none", "finite", "forever"}]
      /\ xTimeOut \in [Tasks -> {"unset", "running", "expired"}]
      /\ xInheritanceOccurred \in [Tasks -> BOOLEAN]
      /\ pc[t] = "out" => xSemaphore[t] = NoMutex /\ xTimeOut[t] = "unset"
      /\ pc[t] # "out" => xSemaphore[t] \in Mutexes
  BY DEF MutexInv, Structure, TypeOK, CallsOK
<1>1. /\ \E s \in Steps : pc = [pc EXCEPT ![t] = s]
      /\ \E m \in Mutexes \cup {NoMutex} : xSemaphore = [xSemaphore EXCEPT ![t] = m]
      /\ \E o \in {"unset", "running", "expired"} : xTimeOut = [xTimeOut EXCEPT ![t] = o]
      /\ \E b \in BOOLEAN : xInheritanceOccurred = [xInheritanceOccurred EXCEPT ![t] = b]
  <2>1. /\ pc = [pc EXCEPT ![t] = pc[t]] /\ xSemaphore = [xSemaphore EXCEPT ![t] = xSemaphore[t]]
        /\ xTimeOut = [xTimeOut EXCEPT ![t] = xTimeOut[t]]
    BY <1>0
  <2>2. xInheritanceOccurred = [xInheritanceOccurred EXCEPT ![t] = xInheritanceOccurred[t]]
        /\ xInheritanceOccurred[t] \in BOOLEAN
    BY <1>0
  <2> QED  BY <1>0, <2>1, <2>2
<1>2. CASE FailAtOnce(t) \/ GiveUp(t)
  <2>1. /\ pxCurrentTCB = t /\ xMutexHolder[xSemaphore[t]] # NoTask /\ Return(t)
        /\ UNCHANGED <<mutexes, uxMutexesHeld, sched>>
    BY <1>2 DEF FailAtOnce, GiveUp
  <2>2. /\ pc'[t] = "out" /\ xSemaphore'[t] = NoMutex /\ xTimeOut'[t] = "unset"
        /\ xTicksToWait' \in [Tasks -> {"none", "finite", "forever"}]
    BY <1>0, <2>1 DEF Return
  <2> QED  BY <2>1, <2>2, CallGoesOn DEF Return
<1>3. CASE NoteEntryTime(t)
  <2>1. /\ pxCurrentTCB = t /\ xMutexHolder[xSemaphore[t]] # NoTask /\ pc[t] = "try"
        /\ pc' = [pc EXCEPT ![t] = "wait"]
        /\ \E o \in {"unset", "running", "expired"} : xTimeOut' = [xTimeOut EXCEPT ![t] = o]
        /\ UNCHANGED <<mutexes, uxMutexesHeld, sched, xSemaphore, xTicksToWait,
                       xInheritanceOccurred>>
    BY <1>0, <1>3 DEF NoteEntryTime
  <2> QED  BY <1>0, <1>1, <2>1, CallGoesOn
<1>4. CASE TimedOut(t)
  <2>1. /\ pxCurrentTCB = t /\ pc[t] = "wait"
        /\ pc' = [pc EXCEPT ![t] = "emptyCheck"]
        /\ xTicksToWait' \in [Tasks -> {"none", "finite", "forever"}]
        /\ UNCHANGED <<mutexes, uxMutexesHeld, sched, xSemaphore, xTimeOut,
                       xInheritanceOccurred>>
    BY <1>0, <1>4 DEF TimedOut
  <2> QED  BY <1>0, <1>1, <2>1, CallGoesOn
<1>5. CASE TryAgain(t)
  <2>1. /\ pxCurrentTCB = t /\ pc[t] = "wait" /\ pc' = [pc EXCEPT ![t] = "try"]
        /\ UNCHANGED <<mutexes, uxMutexesHeld, sched, call>>
    BY <1>5 DEF TryAgain
  <2> QED  BY <1>0, <1>1, <2>1, CallGoesOn
<1>6. CASE EmptyCheck(t)
  <2>1. /\ pxCurrentTCB = t /\ pc[t] = "emptyCheck"
        /\ \/ pc' = [pc EXCEPT ![t] = "try"]
           \/ pc' = [pc EXCEPT ![t] = "disinherit"] /\ xMutexHolder[xSemaphore[t]] # NoTask
        /\ UNCHANGED <<mutexes, uxMutexesHeld, sched, call>>
    BY <1>6 DEF EmptyCheck
  <2> QED  BY <1>0, <1>1, <2>1, CallGoesOn
<1>7. ASSUME NEW m \in Mutexes, NEW w \in Waits, Take(t, m, w)
      PROVE  MutexInv'
  <2>1. /\ pxCurrentTCB = t /\ pc[t] = "out" /\ pc' = [pc EXCEPT ![t] = "try"]
        /\ xSemaphore' = [xSemaphore EXCEPT ![t] = m]
        /\ xTicksToWait' \in [Tasks -> {"none", "finite", "forever"}]
        /\ UNCHANGED <<mutexes, uxMutexesHeld, sched, xTimeOut, xInheritanceOccurred>>
    BY <1>0, <1>7, MutexAssumption DEF Take
  <2> QED  BY <1>0, <1>1, <2>1, CallGoesOn
<1> QED  BY <1>2, <1>3, <1>4, <1>5, <1>6, <1>7

\* Tasks that become ready or block outside a call, and the choice of who runs.
LEMMA ReadinessKeepsInv ==
    ASSUME MutexInv, UNCHANGED MayTake,
           UNCHANGED <<mutexes, uxMutexesHeld, uxPriority, pc, call>>,
           ready' \subseteq Tasks, uxTopReadyPriority' \subseteq Nat,
           pxCurrentTCB' \in Tasks \cup {NoTask}, RunningIsReady',
           \A u \in Tasks : pc[u] # "out" => (u \in ready <=> u \in ready')
    PROVE  MutexInv'
<1> USE DEF mutexes, call
<1>1. TypeOK'
  BY DEF MutexInv, Structure, TypeOK
<1>2. CallsOK' /\ FreeIsNotCounted'
  BY DEF MutexInv, Structure, CallsOK, FreeIsNotCounted
<1>3. \A m \in Mutexes : Waiters(m)' = Waiters(m) /\ Waiters(m) \subseteq Tasks
  BY ToSetSeq DEF Waiters, MutexInv, Structure, TypeOK
<1>4. WaitersOK'
  <2> SUFFICES ASSUME NEW m \in Mutexes
               PROVE  /\ NoDuplicates(xTasksWaitingToReceive[m])
                      /\ \A u \in Waiters(m) : u \notin ready' /\ xSemaphore[u] = m /\ pc[u] = "try"
    BY <1>3 DEF WaitersOK, NoDuplicates
  <2> QED  BY <1>3 DEF MutexInv, Structure, WaitersOK
<1>5. PriorityRestored'
  BY DEF MutexInv, PriorityRestored, Held
<1>6. NoLostMutex'
  <2> SUFFICES ASSUME NEW m \in Mutexes, xMutexHolder[m] = NoTask, Waiters(m) # {}
               PROVE  \E u \in ready' : xSemaphore[u] = m /\ pc[u] # "disinherit"
    BY <1>3 DEF NoLostMutex
  <2>1. PICK u \in ready : xSemaphore[u] = m /\ pc[u] # "disinherit"
    BY DEF MutexInv, NoLostMutex
  <2>2. u \in Tasks /\ pc[u] # "out"
    BY <2>1, NoMutexIsNoMutex DEF MutexInv, Structure, CallsOK, TypeOK
  <2> QED  BY <2>1, <2>2
<1> QED  BY <1>1, <1>2, <1>4, <1>5, <1>6 DEF MutexInv, Structure

LEMMA SchedulingKeepsInv ==
    ASSUME MutexInv, UNCHANGED MayTake, TimeSlice \/ \E t \in Tasks : Sleep(t) \/ Wake(t)
    PROVE  MutexInv'
<1>0. /\ ready \in SUBSET Tasks /\ uxPriority \in [Tasks -> Nat] /\ uxTopReadyPriority \subseteq Nat
      /\ pxCurrentTCB \in Tasks \cup {NoTask}
  BY DEF MutexInv, Structure, TypeOK
<1>1. CASE TimeSlice
  <2>1. /\ pxCurrentTCB' \in Tasks \cup {NoTask}
        /\ pxCurrentTCB' # NoTask => pxCurrentTCB' \in ready
    BY <1>0, <1>1, SwitchedContext DEF TimeSlice
  <2> QED  BY <1>0, <1>1, <2>1, ReadinessKeepsInv DEF TimeSlice, RunningIsReady
<1>2. ASSUME NEW t \in Tasks, Sleep(t)
      PROVE  MutexInv'
  <2>1. /\ ready' = ready \ {t} /\ ready' \in SUBSET Tasks /\ pc[t] = "out"
        /\ Record(ready', uxPriority) /\ SwitchContext(ready', uxPriority)
        /\ UNCHANGED <<mutexes, uxMutexesHeld, uxPriority, pc, call>>
    BY <1>0, <1>2 DEF Sleep
  <2>2. uxTopReadyPriority' \subseteq Nat
    BY <1>0, <2>1, RecordedType
  <2>3. /\ pxCurrentTCB' \in Tasks \cup {NoTask}
        /\ pxCurrentTCB' # NoTask => pxCurrentTCB' \in ready'
    BY <2>1, SwitchedContext
  <2>4. \A u \in Tasks : pc[u] # "out" => (u \in ready <=> u \in ready')
    BY <2>1
  <2> QED  BY <2>1, <2>2, <2>3, <2>4, ReadinessKeepsInv DEF RunningIsReady
<1>3. ASSUME NEW t \in Tasks, Wake(t)
      PROVE  MutexInv'
  <2>1. /\ MakeReady(t) /\ pc[t] = "out"
        /\ UNCHANGED <<mutexes, uxMutexesHeld, uxPriority, pc, call>>
    BY <1>3 DEF Wake
  <2>2. /\ ready' = ready \cup {t} /\ ready' \subseteq Tasks
        /\ uxTopReadyPriority' \subseteq Nat
        /\ pxCurrentTCB' \in Tasks \cup {NoTask}
        /\ RunningIsReady'
    BY <2>1, MadeReady DEF MutexInv
  <2>3. \A u \in Tasks : pc[u] # "out" => (u \in ready <=> u \in ready')
    BY <2>1, <2>2
  <2> QED  BY <2>1, <2>2, <2>3, ReadinessKeepsInv
<1> QED  BY <1>1, <1>2, <1>3

-----------------------------------------------------------------------------
(***************************************************************************)
(* Block times that end                                                    *)
(***************************************************************************)

LEMMA ExpireKeepsInv ==
    ASSUME MutexInv, UNCHANGED MayTake, NEW t \in Tasks, Expire(t)
    PROVE  MutexInv'
<1>0. /\ TypeOK /\ CallsOK /\ FreeIsNotCounted /\ WaitersOK /\ RunningIsReady
      /\ PriorityRestored /\ NoLostMutex
  BY DEF MutexInv, Structure
<1> DEFINE m == xSemaphore[t]
<1>1. /\ pc[t] # "out" /\ m \in Mutexes
      /\ xTimeOut' = [xTimeOut EXCEPT ![t] = "expired"]
      /\ UNCHANGED <<xMutexHolder, uxRecursiveCallCount, uxMutexesHeld, uxPriority, pc,
                     xSemaphore, xTicksToWait, xInheritanceOccurred>>
  BY <1>0 DEF Expire, CallsOK
<1> HIDE DEF m
<1>2. /\ ready' \subseteq Tasks /\ ready \subseteq ready' /\ ready' \subseteq ready \cup {t}
      /\ uxTopReadyPriority' \subseteq Nat /\ pxCurrentTCB' \in Tasks \cup {NoTask}
      /\ RunningIsReady'
  <2>1. CASE t \in ready
    <3>1. ready' = ready /\ uxTopReadyPriority' = uxTopReadyPriority /\ pxCurrentTCB' = pxCurrentTCB
      BY <2>1 DEF Expire
    <3> QED  BY <1>0, <3>1 DEF TypeOK, RunningIsReady
  <2>2. CASE t \notin ready
    <3>1. MakeReady(t)
      BY <2>2 DEF Expire
    <3> QED  BY <3>1, MadeReady DEF MutexInv
  <2> QED  BY <2>1, <2>2
<1>3. /\ xTasksWaitingToReceive' \in [Mutexes -> Seq(Tasks)]
      /\ \A k \in Mutexes : /\ NoDuplicates(xTasksWaitingToReceive'[k])
                            /\ Waiters(k)' \subseteq Waiters(k)
      /\ t \in ready' => \A k \in Mutexes : t \notin Waiters(k)'
  <2>1. CASE t \in ready
    <3>1. xTasksWaitingToReceive' = xTasksWaitingToReceive
      BY <2>1 DEF Expire
    <3> QED  BY <1>0, <2>1, <3>1 DEF WaitersOK, Waiters, TypeOK
  <2>2. CASE t \notin ready
    <3> DEFINE q == xTasksWaitingToReceive[m]
               rest == ListRemove(q, t)
    <3>1. xTasksWaitingToReceive' = [xTasksWaitingToReceive EXCEPT ![m] = rest]
      BY <2>2 DEF Expire, m
    <3>2. q \in Seq(Tasks) /\ NoDuplicates(q) /\ uxPriority \in [Tasks -> Int]
      BY <1>0, <1>1 DEF TypeOK, WaitersOK
    <3>3. rest \in Seq(Tasks) /\ NoDuplicates(rest) /\ ToSet(rest) = ToSet(q) \ {t}
      BY <3>2, ListRemoveProperties
    <3> HIDE DEF rest
    <3>4. \A k \in Mutexes : k # m => t \notin Waiters(k)
      BY <1>0 DEF WaitersOK, m
    <3>5. \A k \in Mutexes : xTasksWaitingToReceive'[k] =
                                 IF k = m THEN rest ELSE xTasksWaitingToReceive[k]
      BY <1>0, <3>1 DEF TypeOK
    <3>6. \A k \in Mutexes : Waiters(k)' = IF k = m THEN Waiters(k) \ {t} ELSE Waiters(k)
      BY <3>3, <3>5 DEF Waiters
    <3>7. xTasksWaitingToReceive' \in [Mutexes -> Seq(Tasks)]
      BY <1>0, <3>1, <3>3 DEF TypeOK
    <3>8. \A k \in Mutexes : NoDuplicates(xTasksWaitingToReceive'[k])
      BY <1>0, <3>3, <3>5 DEF WaitersOK
    <3> QED  BY <3>4, <3>6, <3>7, <3>8
  <2> QED  BY <2>1, <2>2
<1>4. TypeOK'
  BY <1>0, <1>1, <1>2, <1>3 DEF TypeOK
<1>5. CallsOK' /\ FreeIsNotCounted'
  BY <1>0, <1>1 DEF CallsOK, FreeIsNotCounted, TypeOK
<1>6. WaitersOK'
  BY <1>0, <1>1, <1>2, <1>3 DEF WaitersOK
<1>7. PriorityRestored'
  BY <1>0, <1>1 DEF PriorityRestored, Held
<1>8. NoLostMutex'
  <2> SUFFICES ASSUME NEW k \in Mutexes, xMutexHolder[k] = NoTask, Waiters(k) # {}
               PROVE  \E u \in ready' : xSemaphore[u] = k /\ pc[u] # "disinherit"
    BY <1>1, <1>3 DEF NoLostMutex
  <2> QED  BY <1>0, <1>2 DEF NoLostMutex
<1> QED  BY <1>2, <1>4, <1>5, <1>6, <1>7, <1>8 DEF MutexInv, Structure

-----------------------------------------------------------------------------
(***************************************************************************)
(* Taking                                                                  *)
(***************************************************************************)

\* Recursive calls only count.
LEMMA CountingKeepsInv ==
    ASSUME MutexInv, UNCHANGED MayTake, NEW t \in Tasks, NEW m \in Mutexes, TakeAgain(t, m) \/ GiveInner(t, m)
    PROVE  MutexInv'
<1> USE DEF sched, call
<1>1. /\ xMutexHolder[m] = t
      /\ UNCHANGED <<xMutexHolder, xTasksWaitingToReceive, uxMutexesHeld, sched, pc, call>>
  BY DEF TakeAgain, GiveInner
<1>2. \E n \in 0 .. MaxDepth : uxRecursiveCallCount' = [uxRecursiveCallCount EXCEPT ![m] = n]
  <2>1. uxRecursiveCallCount[m] \in 0 .. MaxDepth
    BY DEF MutexInv, Structure, TypeOK
  <2>2. CASE TakeAgain(t, m)
    <3>1. /\ uxRecursiveCallCount[m] + 1 \in 0 .. MaxDepth
          /\ uxRecursiveCallCount' = [uxRecursiveCallCount EXCEPT ![m] = uxRecursiveCallCount[m] + 1]
      BY <2>1, <2>2, MutexAssumption DEF TakeAgain
    <3> QED  BY <3>1
  <2>3. CASE GiveInner(t, m)
    <3>1. /\ uxRecursiveCallCount[m] - 1 \in 0 .. MaxDepth
          /\ uxRecursiveCallCount' = [uxRecursiveCallCount EXCEPT ![m] = uxRecursiveCallCount[m] - 1]
      BY <2>1, <2>3, MutexAssumption DEF GiveInner
    <3> QED  BY <3>1
  <2> QED  BY <2>2, <2>3
<1>3. TypeOK'
  BY <1>1, <1>2 DEF MutexInv, Structure, TypeOK
<1>4. CallsOK' /\ RunningIsReady' /\ WaitersOK'
  BY <1>1 DEF MutexInv, Structure, CallsOK, RunningIsReady, WaitersOK, Waiters
<1>5. FreeIsNotCounted'
  BY <1>1, <1>2, NoTaskIsNoTask DEF MutexInv, Structure, TypeOK, FreeIsNotCounted
<1>6. PriorityRestored'
  BY <1>1 DEF MutexInv, PriorityRestored, Held
<1>7. NoLostMutex'
  BY <1>1 DEF MutexInv, NoLostMutex, Waiters
<1> QED  BY <1>3, <1>4, <1>5, <1>6, <1>7 DEF MutexInv, Structure

LEMMA SucceedKeepsInv ==
    ASSUME MutexInv, UNCHANGED MayTake, NEW t \in Tasks, Succeed(t)
    PROVE  MutexInv'
<1> USE DEF sched, call
<1>0. /\ TypeOK /\ CallsOK /\ FreeIsNotCounted /\ WaitersOK /\ RunningIsReady
      /\ PriorityRestored /\ NoLostMutex
  BY DEF MutexInv, Structure
<1> DEFINE m == xSemaphore[t]
<1>1. /\ m \in Mutexes /\ xMutexHolder[m] = NoTask /\ t \in ready
      /\ xMutexHolder' = [xMutexHolder EXCEPT ![m] = t]
      /\ uxMutexesHeld' = [uxMutexesHeld EXCEPT ![t] = @ + 1]
      /\ Return(t)
      /\ UNCHANGED <<xTasksWaitingToReceive, sched>>
  BY <1>0, NoTaskIsNoTask DEF Succeed, CallsOK, RunningIsReady
<1>2. \E n \in 0 .. MaxDepth : uxRecursiveCallCount' = [uxRecursiveCallCount EXCEPT ![m] = n]
  <2>0. 0 \in 0 .. MaxDepth /\ 1 \in 0 .. MaxDepth
    BY MutexAssumption
  <2>1. uxRecursiveCallCount[m] = 0
    BY <1>0, <1>1 DEF FreeIsNotCounted
  <2>2. uxRecursiveCallCount = [uxRecursiveCallCount EXCEPT ![m] = 0]
    BY <1>0, <2>1 DEF TypeOK
  <2>3. \/ uxRecursiveCallCount' = [uxRecursiveCallCount EXCEPT ![m] = 1]
        \/ uxRecursiveCallCount' = uxRecursiveCallCount
    BY <2>1 DEF Succeed
  <2> QED  BY <2>0, <2>2, <2>3
<1> HIDE DEF m
<1>3. TypeOK'
  BY <1>0, <1>1, <1>2 DEF TypeOK, Return, Steps
<1>4. CallsOK' /\ RunningIsReady'
  BY <1>0, <1>1 DEF CallsOK, RunningIsReady, Return, TypeOK
<1>5. FreeIsNotCounted'
  BY <1>0, <1>1, <1>2, NoTaskIsNoTask DEF TypeOK, FreeIsNotCounted
<1>6. WaitersOK'
  BY <1>0, <1>1 DEF WaitersOK, Waiters, Return, TypeOK
<1>7. PriorityRestored'
  <2>1. Held(t)' = Held(t) \cup {m} /\ m \notin Held(t)
    BY <1>0, <1>1, NoTaskIsNoTask DEF Held, TypeOK
  <2>2. IsFiniteSet(Held(t))
    BY FS_Subset, MutexAssumption DEF Held
  <2>3. Cardinality(Held(t)') = Cardinality(Held(t)) + 1
    BY <2>1, <2>2, FS_AddElement
  <2>4. \A u \in Tasks : u # t => Held(u)' = Held(u)
    BY <1>0, <1>1, NoTaskIsNoTask DEF Held, TypeOK
  <2>5. \A u \in Tasks : uxMutexesHeld'[u] = IF u = t THEN uxMutexesHeld[u] + 1 ELSE uxMutexesHeld[u]
    BY <1>0, <1>1 DEF TypeOK
  <2>6. \A u \in Tasks : uxMutexesHeld'[u] = Cardinality(Held(u)')
    BY <1>0, <2>3, <2>4, <2>5 DEF PriorityRestored
  <2>7. \A u \in Tasks : Held(u)' = {} => Held(u) = {}
    BY <2>1, <2>4
  <2> QED  BY <1>0, <1>1, <2>6, <2>7 DEF PriorityRestored
<1>8. NoLostMutex'
  <2> SUFFICES ASSUME NEW k \in Mutexes, xMutexHolder'[k] = NoTask, Waiters(k) # {}
               PROVE  \E u \in ready : xSemaphore'[u] = k /\ pc'[u] # "disinherit"
    BY <1>1 DEF NoLostMutex, Waiters
  <2>1. k # m /\ xMutexHolder[k] = NoTask
    BY <1>0, <1>1, NoTaskIsNoTask DEF TypeOK
  <2>2. PICK u \in ready : xSemaphore[u] = k /\ pc[u] # "disinherit"
    BY <1>0, <2>1 DEF NoLostMutex
  <2>3. u # t
    BY <2>1, <2>2 DEF m
  <2> QED  BY <1>0, <1>1, <2>2, <2>3 DEF Return, TypeOK
<1> QED  BY <1>3, <1>4, <1>5, <1>6, <1>7, <1>8 DEF MutexInv, Structure

\* A task that lends its priority to the holder, and one that takes it back, leaves
\* it at its base priority at least; only a holder's priority changes.
LEMMA LentToHolder ==
    ASSUME Structure, PriorityRestored, NEW h \in Tasks, NEW m \in Mutexes, xMutexHolder[m] = h,
           UNCHANGED <<xMutexHolder, uxMutexesHeld>>,
           uxPriority' \in [Tasks -> Nat],
           uxPriority'[h] >= uxBasePriority[h],
           \A u \in Tasks : u # h => uxPriority'[u] = uxPriority[u]
    PROVE  PriorityRestored'
<1>1. Held(h) # {}
  BY DEF Held
<1>2. \A u \in Tasks : Held(u)' = Held(u)
  BY DEF Held
<1> QED  BY <1>1, <1>2 DEF PriorityRestored

LEMMA BlockKeepsInv ==
    ASSUME MutexInv, UNCHANGED MayTake, NEW t \in Tasks, Block(t)
    PROVE  MutexInv'
<1>0. /\ TypeOK /\ CallsOK /\ FreeIsNotCounted /\ WaitersOK /\ RunningIsReady
      /\ PriorityRestored /\ NoLostMutex
  BY DEF MutexInv, Structure
<1> DEFINE m == xSemaphore[t]
           h == xMutexHolder[m]
           q == xTasksWaitingToReceive[m]
           longer == ListInsert(q, ItemValue, t)
<1>1. /\ m \in Mutexes /\ h \in Tasks /\ t \in ready /\ pc[t] = "wait"
      /\ uxPriority' = Inherited(h, t)
      /\ xInheritanceOccurred' = [xInheritanceOccurred EXCEPT ![t] = InheritanceOccurs(h, t)]
      /\ xTasksWaitingToReceive' = [xTasksWaitingToReceive EXCEPT ![m] = longer]
      /\ ready' = ready \ {t}
      /\ pc' = [pc EXCEPT ![t] = "try"]
      /\ Record(ready', uxPriority')
      /\ SwitchContext(ready', uxPriority')
      /\ UNCHANGED <<xMutexHolder, uxRecursiveCallCount, uxMutexesHeld, xSemaphore,
                     xTicksToWait, xTimeOut>>
  <2>1. m \in Mutexes /\ t \in ready
    BY <1>0, NoTaskIsNoTask DEF Block, CallsOK, RunningIsReady
  <2>2. h \in Tasks
    BY <1>0, <2>1 DEF Block, TypeOK
  <2> QED  BY <2>1, <2>2 DEF Block
<1>2. /\ longer \in Seq(Tasks) /\ NoDuplicates(longer) /\ ToSet(longer) = ToSet(q) \cup {t}
  <2>1. t \notin ToSet(q) /\ NoDuplicates(q) /\ q \in Seq(Tasks)
    BY <1>0, <1>1 DEF WaitersOK, Waiters, TypeOK
  <2>2. ItemValue \in [Tasks -> Int]
    BY <1>0 DEF ItemValue, TypeOK
  <2> QED  BY <2>1, <2>2, ListInsertProperties
<1>3. /\ uxPriority' \in [Tasks -> Nat] /\ uxPriority'[h] >= uxBasePriority[h]
      /\ \A u \in Tasks : u # h => uxPriority'[u] = uxPriority[u]
  <2>1. /\ uxPriority[h] \in Nat /\ uxPriority[t] \in Nat /\ uxBasePriority[h] \in Nat
        /\ uxPriority[h] >= uxBasePriority[h]
    BY <1>0, <1>1, MutexAssumption DEF TypeOK, PriorityRestored
  <2>2. CASE uxPriority[h] < uxPriority[t]
    <3>1. uxPriority' = [uxPriority EXCEPT ![h] = uxPriority[t]]
      BY <1>1, <2>2 DEF Inherited
    <3> HIDE DEF h
    <3> QED  BY <1>0, <1>1, <2>1, <2>2, <3>1 DEF TypeOK
  <2>3. CASE ~(uxPriority[h] < uxPriority[t])
    <3>1. uxPriority' = uxPriority
      BY <1>1, <2>3 DEF Inherited
    <3> HIDE DEF h
    <3> QED  BY <1>0, <1>1, <2>1, <3>1 DEF TypeOK
  <2> QED  BY <2>2, <2>3
<1>4. PriorityRestored'
  BY <1>0, <1>1, <1>3, LentToHolder DEF Structure
<1>5. InheritanceOccurs(h, t) \in BOOLEAN
  BY DEF InheritanceOccurs
<1> HIDE DEF longer
<1>6. /\ \A k \in Mutexes : xTasksWaitingToReceive'[k] =
                                IF k = m THEN longer ELSE xTasksWaitingToReceive[k]
      /\ \A k \in Mutexes : Waiters(k)' = IF k = m THEN Waiters(k) \cup {t} ELSE Waiters(k)
  <2>1. \A k \in Mutexes : xTasksWaitingToReceive'[k] =
                               IF k = m THEN longer ELSE xTasksWaitingToReceive[k]
    BY <1>0, <1>1 DEF TypeOK
  <2> QED  BY <1>2, <2>1 DEF Waiters
<1>7. TypeOK'
  <2>1. /\ uxTopReadyPriority' \subseteq Nat /\ ready' \in SUBSET Tasks
        /\ pxCurrentTCB' \in Tasks \cup {NoTask}
    BY <1>0, <1>1, <1>3, RecordedType, SwitchedContext DEF TypeOK
  <2>2. xTasksWaitingToReceive' \in [Mutexes -> Seq(Tasks)]
    BY <1>0, <1>1, <1>2 DEF TypeOK
  <2>3. xInheritanceOccurred' \in [Tasks -> BOOLEAN]
    BY <1>0, <1>1, <1>5 DEF TypeOK
  <2>4. pc' \in [Tasks -> Steps]
    BY <1>0, <1>1 DEF TypeOK, Steps
  <2> QED  BY <1>0, <1>1, <1>3, <2>1, <2>2, <2>3, <2>4 DEF TypeOK
<1>8. CallsOK' /\ FreeIsNotCounted'
  BY <1>0, <1>1 DEF CallsOK, FreeIsNotCounted, TypeOK
<1>9. RunningIsReady'
  BY <1>0, <1>1, SwitchedContext DEF RunningIsReady, TypeOK
<1>10. WaitersOK'
  <2> SUFFICES ASSUME NEW k \in Mutexes
               PROVE  /\ NoDuplicates(xTasksWaitingToReceive'[k])
                      /\ \A u \in Waiters(k)' : u \notin ready' /\ xSemaphore'[u] = k /\ pc'[u] = "try"
    BY DEF WaitersOK
  <2>1. NoDuplicates(xTasksWaitingToReceive'[k])
    BY <1>0, <1>2, <1>6 DEF WaitersOK
  <2>2. ASSUME NEW u \in Waiters(k)'
        PROVE  u \notin ready' /\ xSemaphore'[u] = k /\ pc'[u] = "try"
    <3>1. CASE u \in Waiters(k)
      <4>1. u \notin ready /\ xSemaphore[u] = k /\ pc[u] = "try" /\ u # t
        BY <1>0, <1>1, <3>1 DEF WaitersOK
      <4> QED  BY <1>0, <1>1, <4>1 DEF TypeOK
    <3>2. CASE u \notin Waiters(k)
      <4>1. u = t /\ k = m
        BY <1>6, <2>2, <3>2
      <4> QED  BY <1>0, <1>1, <4>1 DEF TypeOK
    <3> QED  BY <3>1, <3>2
  <2> QED  BY <2>1, <2>2
<1>11. NoLostMutex'
  <2> SUFFICES ASSUME NEW k \in Mutexes, xMutexHolder[k] = NoTask, Waiters(k)' # {}
               PROVE  \E u \in ready' : xSemaphore[u] = k /\ pc'[u] # "disinherit"
    BY <1>1 DEF NoLostMutex
  <2>1. k # m
    BY <1>1, NoTaskIsNoTask
  <2>2. PICK u \in ready : xSemaphore[u] = k /\ pc[u] # "disinherit"
    BY <1>0, <1>6, <2>1 DEF NoLostMutex
  <2>3. u # t
    BY <2>1, <2>2
  <2> QED  BY <1>0, <1>1, <2>2, <2>3 DEF TypeOK
<1> QED  BY <1>4, <1>7, <1>8, <1>9, <1>10, <1>11 DEF MutexInv, Structure

LEMMA DisinheritKeepsInv ==
    ASSUME MutexInv, UNCHANGED MayTake, NEW t \in Tasks, Disinherit(t)
    PROVE  MutexInv'
<1> USE DEF mutexes
<1>0. /\ TypeOK /\ CallsOK /\ FreeIsNotCounted /\ WaitersOK /\ RunningIsReady
      /\ PriorityRestored /\ NoLostMutex
  BY DEF MutexInv, Structure
<1> DEFINE m == xSemaphore[t]
           h == xMutexHolder[m]
<1>1. /\ m \in Mutexes /\ h \in Tasks \cup {NoTask} /\ t \in ready /\ pc[t] = "disinherit"
      /\ uxPriority' = DisinheritedAfterTimeout(h, m)
      /\ uxTopReadyPriority' = uxTopReadyPriority \cup NonEmpty(ready, uxPriority')
      /\ Return(t)
      /\ UNCHANGED <<mutexes, uxMutexesHeld, ready, pxCurrentTCB>>
  <2>1. m \in Mutexes /\ t \in ready
    BY <1>0, NoTaskIsNoTask DEF Disinherit, CallsOK, RunningIsReady
  <2> QED  BY <1>0, <2>1 DEF Disinherit, TypeOK
<1>2. uxPriority' \in [Tasks -> Nat] /\ PriorityRestored'
  <2>1. CASE h # NoTask /\ uxMutexesHeld[h] = 1
    <3>1. HighestWaitingPriority(m) \in Nat
      <4>1. CASE xTasksWaitingToReceive[m] = <<>>
        BY <4>1 DEF HighestWaitingPriority, tskIDLE_PRIORITY
      <4>2. CASE xTasksWaitingToReceive[m] # <<>>
        <5>1. Head(xTasksWaitingToReceive[m]) \in Tasks
          BY <1>0, <1>1, <4>2 DEF TypeOK
        <5> QED  BY <1>0, <4>2, <5>1 DEF HighestWaitingPriority, TypeOK
      <4> QED  BY <4>1, <4>2
    <3>2. h \in Tasks /\ uxBasePriority[h] \in Nat
      BY <1>1, <2>1, MutexAssumption
    <3>3. PriorityToUse(h, m) \in Nat /\ PriorityToUse(h, m) >= uxBasePriority[h]
      BY <3>1, <3>2 DEF PriorityToUse
    <3>4. uxPriority' = [uxPriority EXCEPT ![h] = PriorityToUse(h, m)]
      BY <1>1, <2>1 DEF DisinheritedAfterTimeout
    <3>5. /\ uxPriority' \in [Tasks -> Nat] /\ uxPriority'[h] >= uxBasePriority[h]
          /\ \A u \in Tasks : u # h => uxPriority'[u] = uxPriority[u]
      BY <1>0, <3>2, <3>3, <3>4 DEF TypeOK
    <3> QED  BY <1>0, <1>1, <3>2, <3>5, LentToHolder DEF Structure
  <2>2. CASE ~(h # NoTask /\ uxMutexesHeld[h] = 1)
    <3>1. uxPriority' = uxPriority
      BY <1>1, <2>2 DEF DisinheritedAfterTimeout
    <3> QED  BY <1>0, <1>1, <3>1 DEF PriorityRestored, Held, TypeOK
  <2> QED  BY <2>1, <2>2
<1>3. uxTopReadyPriority' \subseteq Nat
  <2>1. \A u \in ready : uxPriority'[u] \in Nat
    BY <1>0, <1>2 DEF TypeOK
  <2>2. NonEmpty(ready, uxPriority') \subseteq Nat
    BY <2>1 DEF NonEmpty
  <2> QED  BY <1>0, <1>1, <2>2 DEF TypeOK
<1> HIDE DEF m, h
<1>4. TypeOK'
  <2>1. xInheritanceOccurred' \in [Tasks -> BOOLEAN]
    BY <1>0, <1>1 DEF Return, TypeOK
  <2>2. /\ pc' \in [Tasks -> Steps] /\ xSemaphore' \in [Tasks -> Mutexes \cup {NoMutex}]
        /\ xTicksToWait' \in [Tasks -> {"none", "finite", "forever"}]
        /\ xTimeOut' \in [Tasks -> {"unset", "running", "expired"}]
    BY <1>0, <1>1 DEF Return, TypeOK, Steps
  <2> QED  BY <1>0, <1>1, <1>2, <1>3, <2>1, <2>2 DEF TypeOK
<1>5. CallsOK' /\ FreeIsNotCounted' /\ RunningIsReady'
  BY <1>0, <1>1 DEF CallsOK, FreeIsNotCounted, RunningIsReady, Return, TypeOK
<1>6. \A k \in Mutexes : Waiters(k)' = Waiters(k)
  BY <1>1 DEF Waiters
<1>7. WaitersOK'
  BY <1>0, <1>1, <1>6 DEF WaitersOK, Waiters, NoDuplicates, Return, TypeOK
<1>8. NoLostMutex'
  <2> SUFFICES ASSUME NEW k \in Mutexes, xMutexHolder[k] = NoTask, Waiters(k) # {}
               PROVE  \E u \in ready : xSemaphore'[u] = k /\ pc'[u] # "disinherit"
    BY <1>1, <1>6 DEF NoLostMutex
  <2>1. PICK u \in ready : xSemaphore[u] = k /\ pc[u] # "disinherit"
    BY <1>0 DEF NoLostMutex
  <2>2. u # t
    BY <1>1, <2>1
  <2> QED  BY <1>0, <1>1, <2>1, <2>2 DEF Return, TypeOK
<1> QED  BY <1>2, <1>4, <1>5, <1>7, <1>8 DEF MutexInv, Structure

-----------------------------------------------------------------------------
(***************************************************************************)
(* Giving                                                                  *)
(***************************************************************************)

LEMMA GiveKeepsInv ==
    ASSUME MutexInv, UNCHANGED MayTake, NEW t \in Tasks, NEW m \in Mutexes, Give(t, m)
    PROVE  MutexInv'
<1> USE DEF call
<1>0. /\ TypeOK /\ CallsOK /\ FreeIsNotCounted /\ WaitersOK /\ RunningIsReady
      /\ PriorityRestored /\ NoLostMutex
  BY DEF MutexInv, Structure
<1> DEFINE q    == xTasksWaitingToReceive[m]
           held == uxMutexesHeld[t] - 1
           rest == RestOf(q, 1)
           first == FirstOf(q, 1)
<1>1. /\ xMutexHolder[m] = t /\ t \in ready /\ pc[t] = "out"
      /\ uxRecursiveCallCount' = [uxRecursiveCallCount EXCEPT ![m] = 0]
      /\ xMutexHolder' = [xMutexHolder EXCEPT ![m] = NoTask]
      /\ uxMutexesHeld' = [uxMutexesHeld EXCEPT ![t] = held]
      /\ uxPriority' = Disinherited(t, held)
      /\ ready' = ready \cup first
      /\ Record(ready', uxPriority')
      /\ xTasksWaitingToReceive' = [xTasksWaitingToReceive EXCEPT ![m] = rest]
      /\ SwitchContext(ready', uxPriority') \/ UNCHANGED pxCurrentTCB
      /\ UNCHANGED <<pc, call>>
  BY <1>0, NoTaskIsNoTask DEF Give, RunningIsReady
<1>2. /\ rest \in Seq(Tasks) /\ NoDuplicates(rest) /\ first \subseteq ToSet(q)
      /\ ToSet(rest) = ToSet(q) \ first /\ ToSet(q) \subseteq Tasks
      /\ rest # <<>> => first # {}
  <2>1. q \in Seq(Tasks) /\ NoDuplicates(q) /\ uxPriority \in [Tasks -> Int]
    BY <1>0 DEF TypeOK, WaitersOK
  <2>2. /\ rest \in Seq(Tasks) /\ NoDuplicates(rest) /\ first \subseteq ToSet(q)
        /\ ToSet(rest) = ToSet(q) \ first
        /\ rest # <<>> => Cardinality(first) = 1
    BY <2>1, RestOfProperties
  <2>3. ToSet(q) \subseteq Tasks
    BY <2>1, ToSetSeq
  <2>4. first = {} => Cardinality(first) = 0
    BY FS_EmptySet
  <2> QED  BY <2>2, <2>3, <2>4
<1> HIDE DEF rest, first
\* The mutexes that are held, and the count of them.
<1>3. /\ Held(t)' = Held(t) \ {m} /\ m \in Held(t)
      /\ \A u \in Tasks : u # t => Held(u)' = Held(u)
  BY <1>0, <1>1, NoTaskIsNoTask DEF Held, TypeOK
<1>4. held \in Nat /\ held = Cardinality(Held(t)') /\ IsFiniteSet(Held(t)')
  <2>1. IsFiniteSet(Held(t)) /\ IsFiniteSet(Held(t)')
    BY <1>3, FS_Subset, MutexAssumption DEF Held
  <2>2. Cardinality(Held(t)') = Cardinality(Held(t)) - 1
    BY <1>3, <2>1, FS_RemoveElement
  <2>3. uxMutexesHeld[t] = Cardinality(Held(t))
    BY <1>0 DEF PriorityRestored
  <2>4. Cardinality(Held(t)') \in Nat
    BY <2>1, FS_CardinalityType
  <2> QED  BY <2>1, <2>2, <2>3, <2>4
<1>5. held = 0 <=> Held(t)' = {}
  BY <1>4, FS_EmptySet
<1> HIDE DEF held
<1>6. /\ uxPriority' \in [Tasks -> Nat]
      /\ \A u \in Tasks : u # t => uxPriority'[u] = uxPriority[u]
      /\ uxPriority'[t] >= uxBasePriority[t]
      /\ held = 0 => uxPriority'[t] = uxBasePriority[t]
  <2>1. /\ uxPriority[t] \in Nat /\ uxBasePriority[t] \in Nat /\ uxPriority[t] >= uxBasePriority[t]
    BY <1>0, MutexAssumption DEF TypeOK, PriorityRestored
  <2>2. CASE GivesUpPriority(t, held)
    <3>1. uxPriority' = [uxPriority EXCEPT ![t] = uxBasePriority[t]]
      BY <1>1, <2>2 DEF Disinherited
    <3> QED  BY <1>0, <2>1, <3>1 DEF TypeOK
  <2>3. CASE ~GivesUpPriority(t, held)
    <3>1. uxPriority' = uxPriority
      BY <1>1, <2>3 DEF Disinherited
    <3> QED  BY <1>0, <2>1, <2>3, <3>1 DEF TypeOK, GivesUpPriority
  <2> QED  BY <2>2, <2>3
<1>7. PriorityRestored'
  <2>1. \A u \in Tasks : uxMutexesHeld'[u] = IF u = t THEN held ELSE uxMutexesHeld[u]
    BY <1>0, <1>1 DEF TypeOK
  <2>2. ASSUME NEW u \in Tasks
        PROVE  /\ uxMutexesHeld'[u] = Cardinality(Held(u)')
               /\ uxPriority'[u] >= uxBasePriority[u]
               /\ Held(u)' = {} => uxPriority'[u] = uxBasePriority[u]
    <3>1. CASE u = t
      BY <1>4, <1>5, <1>6, <2>1, <3>1
    <3>2. CASE u # t
      BY <1>0, <1>3, <1>6, <2>1, <3>2 DEF PriorityRestored
    <3> QED  BY <3>1, <3>2
  <2> QED  BY <2>2 DEF PriorityRestored
\* The event list.
<1>8. /\ \A k \in Mutexes : xTasksWaitingToReceive'[k] =
                                IF k = m THEN rest ELSE xTasksWaitingToReceive[k]
      /\ \A k \in Mutexes : Waiters(k)' = IF k = m THEN Waiters(k) \ first ELSE Waiters(k)
  <2>1. \A k \in Mutexes : xTasksWaitingToReceive'[k] =
                               IF k = m THEN rest ELSE xTasksWaitingToReceive[k]
    BY <1>0, <1>1 DEF TypeOK
  <2> QED  BY <1>2, <2>1 DEF Waiters
<1>9. \A u \in first : u \in Tasks /\ xSemaphore[u] = m /\ pc[u] = "try"
  BY <1>0, <1>2 DEF WaitersOK, Waiters
<1>10. TypeOK'
  <2>1. ready' \in SUBSET Tasks /\ uxTopReadyPriority' \subseteq Nat
    BY <1>0, <1>1, <1>2, <1>6, RecordedType DEF TypeOK
  <2>2. pxCurrentTCB' \in Tasks \cup {NoTask}
    BY <1>0, <1>1, <2>1, SwitchedContext DEF TypeOK
  <2>3. xTasksWaitingToReceive' \in [Mutexes -> Seq(Tasks)]
    BY <1>0, <1>1, <1>2 DEF TypeOK
  <2>4. uxRecursiveCallCount' \in [Mutexes -> 0 .. MaxDepth]
    <3>1. 0 \in 0 .. MaxDepth
      BY MutexAssumption
    <3> QED  BY <1>0, <1>1, <3>1 DEF TypeOK
  <2>5. uxMutexesHeld' \in [Tasks -> Nat]
    BY <1>0, <1>1, <1>4 DEF TypeOK
  <2>6. xMutexHolder' \in [Mutexes -> Tasks \cup {NoTask}]
    BY <1>0, <1>1 DEF TypeOK
  <2> QED  BY <1>0, <1>1, <1>6, <2>1, <2>2, <2>3, <2>4, <2>5, <2>6 DEF TypeOK
<1>11. CallsOK' /\ FreeIsNotCounted'
  BY <1>0, <1>1 DEF CallsOK, FreeIsNotCounted, TypeOK
<1>12. RunningIsReady'
  <2>1. ready' \in SUBSET Tasks
    BY <1>10 DEF TypeOK
  <2> QED  BY <1>0, <1>1, <2>1, SwitchedContext DEF RunningIsReady
<1>13. WaitersOK'
  <2> SUFFICES ASSUME NEW k \in Mutexes
               PROVE  /\ NoDuplicates(xTasksWaitingToReceive'[k])
                      /\ \A u \in Waiters(k)' : u \notin ready' /\ xSemaphore[u] = k /\ pc[u] = "try"
    BY <1>1 DEF WaitersOK
  <2>1. NoDuplicates(xTasksWaitingToReceive'[k])
    BY <1>0, <1>2, <1>8 DEF WaitersOK
  <2>2. ASSUME NEW u \in Waiters(k)'
        PROVE  u \notin ready' /\ xSemaphore[u] = k /\ pc[u] = "try"
    <3>1. u \in Waiters(k) /\ (k = m => u \notin first)
      BY <1>8, <2>2
    <3>2. u \notin ready /\ xSemaphore[u] = k /\ pc[u] = "try"
      BY <1>0, <3>1 DEF WaitersOK
    <3> QED  BY <1>1, <1>9, <3>1, <3>2
  <2> QED  BY <2>1, <2>2
<1>14. NoLostMutex'
  <2> SUFFICES ASSUME NEW k \in Mutexes, xMutexHolder'[k] = NoTask, Waiters(k)' # {}
               PROVE  \E u \in ready' : xSemaphore[u] = k /\ pc[u] # "disinherit"
    BY <1>1 DEF NoLostMutex
  <2>1. CASE k = m
    <3>1. ToSet(rest) # {}
      BY <1>8, <2>1 DEF Waiters
    <3>2. rest # <<>>
      BY <3>1 DEF ToSet
    <3>3. first # {}
      BY <1>2, <3>2
    <3> QED  BY <1>1, <1>9, <2>1, <3>3
  <2>2. CASE k # m
    <3>1. xMutexHolder[k] = NoTask /\ Waiters(k) # {}
      BY <1>0, <1>1, <1>8, <2>2 DEF TypeOK
    <3> QED  BY <1>0, <1>1, <3>1 DEF NoLostMutex
  <2> QED  BY <2>1, <2>2
<1> QED  BY <1>7, <1>10, <1>11, <1>12, <1>13, <1>14 DEF MutexInv, Structure

-----------------------------------------------------------------------------
(***************************************************************************)
(* Theorems                                                                *)
(***************************************************************************)

LEMMA MutexStep == MutexInv /\ [Next]_vars => MutexInv'
<1> SUFFICES ASSUME MutexInv, [Next]_vars
             PROVE  MutexInv'
  OBVIOUS
<1>0. UNCHANGED MayTake
  BY DEF Next, vars
<1>1. CASE TimeSlice \/ \E t \in Tasks : Sleep(t) \/ Wake(t)
  BY <1>0, <1>1, SchedulingKeepsInv
<1>2. ASSUME NEW t \in Tasks, Expire(t)
      PROVE  MutexInv'
  BY <1>0, <1>2, ExpireKeepsInv
<1>3. ASSUME NEW t \in Tasks,
             \/ FailAtOnce(t) \/ NoteEntryTime(t) \/ TimedOut(t) \/ TryAgain(t)
             \/ EmptyCheck(t) \/ GiveUp(t)
             \/ \E m \in Mutexes : \E w \in Waits : Take(t, m, w)
      PROVE  MutexInv'
  BY <1>0, <1>3, CallStepsKeepInv
<1>4. ASSUME NEW t \in Tasks, Succeed(t)
      PROVE  MutexInv'
  BY <1>0, <1>4, SucceedKeepsInv
<1>5. ASSUME NEW t \in Tasks, Block(t)
      PROVE  MutexInv'
  BY <1>0, <1>5, BlockKeepsInv
<1>6. ASSUME NEW t \in Tasks, Disinherit(t)
      PROVE  MutexInv'
  BY <1>0, <1>6, DisinheritKeepsInv
<1>7. ASSUME NEW t \in Tasks, NEW m \in Mutexes, Give(t, m)
      PROVE  MutexInv'
  BY <1>0, <1>7, GiveKeepsInv
<1>8. ASSUME NEW t \in Tasks, NEW m \in Mutexes, TakeAgain(t, m) \/ GiveInner(t, m)
      PROVE  MutexInv'
  BY <1>0, <1>8, CountingKeepsInv
<1>9. CASE UNCHANGED vars
  <2>1. /\ UNCHANGED <<mutexes, uxMutexesHeld, uxPriority, pc, call>>
        /\ UNCHANGED <<ready, uxTopReadyPriority, pxCurrentTCB>>
    BY <1>9 DEF vars, sched
  <2>2. /\ ready' \subseteq Tasks /\ uxTopReadyPriority' \subseteq Nat
        /\ pxCurrentTCB' \in Tasks \cup {NoTask} /\ RunningIsReady'
    BY <2>1 DEF MutexInv, Structure, TypeOK, RunningIsReady
  <2> QED  BY <1>0, <2>1, <2>2, ReadinessKeepsInv
<1> QED
  BY <1>1, <1>2, <1>3, <1>4, <1>5, <1>6, <1>7, <1>8, <1>9 DEF Next, Continue, GiveSome

\* The invariant holds of every execution.
THEOREM MutexInvariance == Spec => []MutexInv
<1>1. Init => MutexInv
  BY InitMutex
<1>2. MutexInv /\ [Next]_vars => MutexInv'
  BY MutexStep
<1> QED  BY <1>1, <1>2, PTL DEF Spec

\* The variables keep their types: no recursion count and no count of mutexes held
\* becomes negative.
THEOREM MutexTypeCorrect == Spec => []TypeOK
<1>1. MutexInv => TypeOK
  BY DEF MutexInv, Structure
<1> QED  BY <1>1, MutexInvariance, PTL

\* A task that holds no mutex is at its base priority, and no task is ever below
\* it, however inheritance, time-outs and giving back are interleaved.
THEOREM PrioritiesAreRestored == Spec => []PriorityRestored
<1>1. MutexInv => PriorityRestored
  BY DEF MutexInv
<1> QED  BY <1>1, MutexInvariance, PTL

\* A free mutex that tasks wait for has a task on its way to it.
THEOREM NoMutexIsLost == Spec => []NoLostMutex
<1>1. MutexInv => NoLostMutex
  BY DEF MutexInv
<1> QED  BY <1>1, MutexInvariance, PTL
-----------------------------------------------------------------------------
(***************************************************************************)
(* Priority inheritance, in programs where no task waits for a mutex while *)
(* it holds another.  (Inheritance does not reach through a second mutex:  *)
(* with nested waits a waiter's own priority may still rise, and its       *)
(* holder's does not follow.)  The second inductive invariant.             *)
(***************************************************************************)

\* Tasks keep to the mutexes of their program.
TakesWhatItMay ==
    \A t \in Tasks :
        /\ Held(t) \subseteq MayTake[t]
        /\ pc[t] # "out" => xSemaphore[t] \in MayTake[t]

\* A task that waits, or is about to, holds nothing.
WaitsHoldNothing ==
    \A t \in Tasks :
        /\ xTimeOut[t] # "unset" \/ xTicksToWait[t] # "none" => Held(t) = {}
        /\ pc[t] \notin {"out", "try"} \/ xInheritanceOccurred[t] => xTimeOut[t] # "unset"
        /\ pc[t] = "wait" => xTicksToWait[t] # "none"
        /\ pc[t] = "out" => xTicksToWait[t] = "none"
        /\ \A m \in Mutexes : t \in Waiters(m) => xTimeOut[t] # "unset" /\ xTicksToWait[t] # "none"

WaitersInOrder == \A m \in Mutexes : Ascending(xTasksWaitingToReceive[m], ItemValue)

ReadyOrWaiting == \A t \in Tasks : pc[t] # "out" => t \in ready \/ t \in Waiters(xSemaphore[t])

CallInv == TakesWhatItMay /\ WaitsHoldNothing /\ WaitersInOrder /\ ReadyOrWaiting

\* NoLostMutex, with the priority of the task on its way to the mutex: no waiter's
\* is higher.
WokenOutranks ==
    \A m \in Mutexes : \A w \in Waiters(m) : xMutexHolder[m] = NoTask =>
        \E v \in ready : /\ xSemaphore[v] = m /\ pc[v] # "disinherit" /\ Held(v) = {}
                         /\ uxPriority[v] >= uxPriority[w]

\* So whoever runs and takes a free mutex outranks those who wait for it.
TakerOutranks ==
    \A t \in Tasks : \A m \in MayTake[t] : \A w \in Waiters(m) :
        pxCurrentTCB = t /\ UsesOneMutex(t) /\ xMutexHolder[m] = NoTask =>
            uxPriority[t] >= uxPriority[w]

\* A waiter above the holder's base priority has noted that it lent its own.
LoansNoted ==
    \A m \in Mutexes : \A w \in Waiters(m) :
        LET h == xMutexHolder[m]
        IN  h # NoTask /\ UsesOneMutex(h) /\ uxBasePriority[h] < uxPriority[w] =>
                xInheritanceOccurred[w]

\* Those who lent h its priority and have not yet taken it back.
Lenders(h) ==
    {u \in Tasks \ {h} : /\ xSemaphore[u] \in MayTake[h] /\ uxPriority[u] = uxPriority[h]
                         /\ xInheritanceOccurred[u]
                         /\ ~(pc[u] = "try" /\ xTicksToWait[u] = "none")}

LoansExact ==
    \A h \in Tasks : UsesOneMutex(h) /\ uxPriority[h] > uxBasePriority[h] => Lenders(h) # {}

LendInv == WokenOutranks /\ TakerOutranks /\ LoansNoted /\ HolderInherits /\ LoansExact

-----------------------------------------------------------------------------
(***************************************************************************)
(* What the invariants say of one task                                     *)
(***************************************************************************)

LEMMA OneMutexOnly ==
    ASSUME TypeOK, NEW t \in Tasks, UsesOneMutex(t), NEW a \in MayTake[t], NEW b \in MayTake[t]
    PROVE  a = b
<1>1. IsFiniteSet(MayTake[t])
  <2>1. MayTake[t] \subseteq Mutexes
    BY MutexAssumption DEF TypeOK
  <2> QED  BY <2>1, FS_Subset, MutexAssumption
<1>2. CASE Cardinality(MayTake[t]) = 0
  BY <1>1, <1>2, FS_EmptySet
<1>3. CASE Cardinality(MayTake[t]) # 0
  <2>1. Cardinality(MayTake[t]) = 1
    BY <1>1, <1>3, FS_CardinalityType DEF UsesOneMutex
  <2>2. PICK x : MayTake[t] = {x}
    BY <1>1, <2>1, FS_Singleton
  <2> QED  BY <2>2
<1> QED  BY <1>2, <1>3

LEMMA HoldersHold ==
    ASSUME TypeOK
    PROVE  /\ \A t \in Tasks : \A m \in Mutexes : m \in Held(t) <=> xMutexHolder[m] = t
           /\ \A t \in Tasks : Held(t) \subseteq Mutexes
BY DEF Held

\* A task that uses one mutex and has inherited a priority holds that mutex.
LEMMA InheritorHolds ==
    ASSUME TypeOK, PriorityRestored, TakesWhatItMay,
           NEW h \in Tasks, UsesOneMutex(h), uxPriority[h] > uxBasePriority[h]
    PROVE  \E m \in Mutexes : MayTake[h] = {m} /\ Held(h) = {m} /\ xMutexHolder[m] = h
<1>1. uxPriority[h] \in Nat /\ uxBasePriority[h] \in Nat
  BY MutexAssumption DEF TypeOK
<1>2. Held(h) # {}
  BY <1>1 DEF PriorityRestored
<1>3. PICK m \in Held(h) : TRUE
  BY <1>2
<1>4. m \in Mutexes /\ xMutexHolder[m] = h /\ m \in MayTake[h] /\ Held(h) \subseteq MayTake[h]
  BY <1>3 DEF Held, TakesWhatItMay
<1>5. \A k \in MayTake[h] : k = m
  BY <1>4, OneMutexOnly
<1> QED  BY <1>3, <1>4, <1>5

\* A waiter is at its base priority, in the call for its mutex, and not a holder.
LEMMA WaiterFacts ==
    ASSUME Structure, WaitsHoldNothing, NEW m \in Mutexes, NEW w \in Waiters(m)
    PROVE  /\ w \in Tasks /\ w \notin ready /\ xSemaphore[w] = m /\ pc[w] = "try"
           /\ Held(w) = {} /\ xTicksToWait[w] # "none"
           /\ \A k \in Mutexes : xMutexHolder[k] # w
<1>1. w \in Tasks
  BY ToSetSeq DEF Waiters, Structure, TypeOK
<1>2. w \notin ready /\ xSemaphore[w] = m /\ pc[w] = "try"
  BY DEF Structure, WaitersOK
<1>3. Held(w) = {} /\ xTicksToWait[w] # "none"
  BY <1>1 DEF WaitsHoldNothing
<1> QED  BY <1>1, <1>2, <1>3 DEF Held

\* So is a lender.
LEMMA LenderFacts ==
    ASSUME TypeOK, WaitsHoldNothing, NEW h \in Tasks, NEW u \in Lenders(h)
    PROVE  /\ u \in Tasks /\ u # h /\ Held(u) = {}
           /\ \A k \in Mutexes : xMutexHolder[k] # u
<1>1. u \in Tasks /\ u # h /\ Held(u) = {}
  BY DEF Lenders, WaitsHoldNothing
<1> QED  BY <1>1 DEF Held

\* Where the processor goes to a ready task of the highest priority, it goes to one
\* that outranks the waiters of a free mutex.
LEMMA SwitchKeepsTaker ==
    ASSUME TypeOK', WaitersOK', WokenOutranks', SwitchContext(ready', uxPriority')
    PROVE  TakerOutranks'
<1> SUFFICES ASSUME NEW t \in Tasks, NEW m \in MayTake'[t], NEW w \in Waiters(m)',
                    pxCurrentTCB' = t, xMutexHolder'[m] = NoTask
             PROVE  uxPriority'[t] >= uxPriority'[w]
  BY DEF TakerOutranks
<1>1. m \in Mutexes
  BY MutexAssumption DEF TypeOK
<1>2. PICK v \in ready' : uxPriority'[v] >= uxPriority'[w]
  BY <1>1 DEF WokenOutranks
<1>3. uxPriority'[v] <= uxPriority'[t]
  BY <1>2, NoTaskIsNoTask DEF SwitchContext
<1>4. v \in Tasks /\ w \in Tasks
  BY <1>1, ToSetSeq DEF TypeOK, Waiters
<1>5. uxPriority'[v] \in Nat /\ uxPriority'[w] \in Nat /\ uxPriority'[t] \in Nat
  BY <1>4 DEF TypeOK
<1> QED  BY <1>2, <1>3, <1>5

-----------------------------------------------------------------------------
(***************************************************************************)
(* Calls: what a task may take, and that waiting tasks hold nothing        *)
(***************************************************************************)

LEMMA AscendingBy ==
    ASSUME NEW S, NEW l \in Seq(S), NEW v, NEW w, Ascending(l, v),
           \A x \in ToSet(l) : w[x] = v[x]
    PROVE  Ascending(l, w)
<1>1. DOMAIN l = 1 .. Len(l) /\ \A i \in 1 .. Len(l) : l[i] \in ToSet(l)
  BY ToSetSeq
<1> QED  BY <1>1 DEF Ascending

\* Only holders change their priorities, and waiters hold nothing.
LEMMA WaitersStayInOrder ==
    ASSUME Structure, CallInv, NEW m \in Mutexes, NEW l \in Seq(Tasks), Ascending(l, ItemValue),
           uxPriority' \in [Tasks -> Nat],
           \A x \in ToSet(l) : uxPriority'[x] = uxPriority[x],
           xTasksWaitingToReceive'[m] = l
    PROVE  Ascending(xTasksWaitingToReceive'[m], ItemValue')
<1>1. ToSet(l) \subseteq Tasks
  BY ToSetSeq
<1>2. \A x \in ToSet(l) : ItemValue'[x] = ItemValue[x]
  BY <1>1 DEF ItemValue
<1> QED  BY <1>2, AscendingBy

LEMMA ItemValueType ==
    ASSUME TypeOK
    PROVE  ItemValue \in [Tasks -> Int]
BY DEF TypeOK, ItemValue

LEMMA RemovedInOrder ==
    ASSUME TypeOK, NEW l \in Seq(Tasks), NoDuplicates(l), Ascending(l, ItemValue), NEW t \in Tasks
    PROVE  /\ ListRemove(l, t) \in Seq(Tasks)
           /\ ToSet(ListRemove(l, t)) = ToSet(l) \ {t}
           /\ Ascending(ListRemove(l, t), ItemValue)
<1>0. ItemValue \in [Tasks -> Int]
  BY ItemValueType
<1>1. PICK v : v = ItemValue /\ v \in [Tasks -> Int]
  BY <1>0
<1>2. Ascending(l, v)
  BY <1>1
<1>3. /\ ListRemove(l, t) \in Seq(Tasks)
      /\ ToSet(ListRemove(l, t)) = ToSet(l) \ {t}
      /\ Ascending(ListRemove(l, t), v)
  BY <1>1, <1>2, ListRemoveProperties
<1> QED  BY <1>1, <1>3

\* Steps in which no task takes or gives, or joins an event list.
LEMMA CallsFrame ==
    ASSUME MutexInv, CallInv, NEW t \in Tasks,
           UNCHANGED <<MayTake, xMutexHolder, uxPriority>>,
           \A m \in Mutexes : xTasksWaitingToReceive'[m] = xTasksWaitingToReceive[m]
                              \/ xTasksWaitingToReceive'[m] = ListRemove(xTasksWaitingToReceive[m], t),
           \A u \in Tasks : u # t =>
               /\ pc'[u] = pc[u] /\ xSemaphore'[u] = xSemaphore[u]
               /\ xTicksToWait'[u] = xTicksToWait[u] /\ xTimeOut'[u] = xTimeOut[u]
               /\ xInheritanceOccurred'[u] = xInheritanceOccurred[u]
               /\ pc[u] # "out" => (u \in ready => u \in ready'),
           pc'[t] # "out" => /\ xSemaphore'[t] \in MayTake[t]
                             /\ t \in ready' \/ t \in Waiters(xSemaphore[t])',
           xTimeOut'[t] # "unset" \/ xTicksToWait'[t] # "none" => Held(t) = {},
           pc'[t] \notin {"out", "try"} \/ xInheritanceOccurred'[t] => xTimeOut'[t] # "unset",
           pc'[t] = "wait" => xTicksToWait'[t] # "none",
           pc'[t] = "out" => xTicksToWait'[t] = "none",
           (\E m \in Mutexes : t \in Waiters(m)') => xTimeOut'[t] # "unset" /\ xTicksToWait'[t] # "none"
    PROVE  CallInv'
<1> USE DEF call
<1>0. Structure /\ TypeOK /\ WaitersOK /\ CallsOK
  BY DEF MutexInv, Structure
<1>1. \A u \in Tasks : Held(u)' = Held(u)
  BY DEF Held
<1>2. ASSUME NEW m \in Mutexes
      PROVE  /\ xTasksWaitingToReceive'[m] \in Seq(Tasks)
             /\ Waiters(m)' \subseteq Waiters(m) /\ Waiters(m) \ {t} \subseteq Waiters(m)'
             /\ Ascending(xTasksWaitingToReceive'[m], ItemValue')
  <2> DEFINE l == xTasksWaitingToReceive[m]
  <2>1. /\ l \in Seq(Tasks) /\ NoDuplicates(l) /\ ItemValue \in [Tasks -> Int]
        /\ Ascending(l, ItemValue)
    BY <1>0 DEF WaitersOK, TypeOK, ItemValue, CallInv, WaitersInOrder
  <2> HIDE DEF l
  <2>2. /\ ListRemove(l, t) \in Seq(Tasks)
        /\ ToSet(ListRemove(l, t)) = ToSet(l) \ {t}
        /\ Ascending(ListRemove(l, t), ItemValue)
    BY <1>0, <2>1, RemovedInOrder
  <2>3. ItemValue' = ItemValue
    BY DEF ItemValue
  <2> USE DEF l
  <2>4. CASE xTasksWaitingToReceive'[m] = l
    BY <2>1, <2>3, <2>4 DEF Waiters
  <2>5. CASE xTasksWaitingToReceive'[m] = ListRemove(l, t)
    BY <2>2, <2>3, <2>5 DEF Waiters
  <2> QED  BY <2>4, <2>5
<1>3. TakesWhatItMay'
  BY <1>0, <1>1 DEF TakesWhatItMay, CallInv
<1>4. WaitsHoldNothing'
  <2> SUFFICES ASSUME NEW u \in Tasks, u # t
               PROVE  /\ xTimeOut'[u] # "unset" \/ xTicksToWait'[u] # "none" => Held(u)' = {}
                      /\ pc'[u] \notin {"out", "try"} \/ xInheritanceOccurred'[u] => xTimeOut'[u] # "unset"
                      /\ pc'[u] = "wait" => xTicksToWait'[u] # "none"
                      /\ pc'[u] = "out" => xTicksToWait'[u] = "none"
                      /\ \A m \in Mutexes : u \in Waiters(m)' =>
                            xTimeOut'[u] # "unset" /\ xTicksToWait'[u] # "none"
    BY <1>1 DEF WaitsHoldNothing
  <2>1. \A m \in Mutexes : u \in Waiters(m)' => u \in Waiters(m)
    BY <1>2
  <2> QED  BY <1>1, <2>1 DEF CallInv, WaitsHoldNothing
<1>5. WaitersInOrder'
  BY <1>2 DEF WaitersInOrder
<1>6. ReadyOrWaiting'
  <2> SUFFICES ASSUME NEW u \in Tasks, pc'[u] # "out"
               PROVE  u \in ready' \/ u \in Waiters(xSemaphore[u])'
    BY DEF ReadyOrWaiting
  <2>1. CASE u = t
    BY <2>1
  <2>2. CASE u # t
    <3>1. pc[u] # "out" /\ xSemaphore'[u] = xSemaphore[u] /\ xSemaphore[u] \in Mutexes
      BY <1>0, <2>2 DEF CallsOK
    <3>2. u \in ready \/ u \in Waiters(xSemaphore[u])
      BY <3>1 DEF CallInv, ReadyOrWaiting
    <3>3. u \in Waiters(xSemaphore[u]) => u \in Waiters(xSemaphore[u])'
      BY <1>2, <2>2, <3>1 DEF Waiters
    <3> QED  BY <2>2, <3>1, <3>2, <3>3
  <2> QED  BY <2>1, <2>2
<1> QED  BY <1>3, <1>4, <1>5, <1>6 DEF CallInv

LEMMA CallStepsKeepCalls ==
    ASSUME MutexInv, CallInv, ~NestedWaits, UNCHANGED MayTake, NEW t \in Tasks,
           \/ FailAtOnce(t) \/ NoteEntryTime(t) \/ TimedOut(t) \/ TryAgain(t)
           \/ EmptyCheck(t) \/ GiveUp(t)
           \/ \E m \in Mutexes : \E w \in Waits : Take(t, m, w)
    PROVE  CallInv'
<1> USE DEF call, mutexes, sched
<1>0. /\ TypeOK /\ WaitersOK /\ CallsOK /\ RunningIsReady
      /\ TakesWhatItMay /\ WaitsHoldNothing
  BY DEF MutexInv, Structure, CallInv
<1>1. /\ pxCurrentTCB = t /\ t \in ready
      /\ UNCHANGED <<MayTake, xMutexHolder, uxPriority, xTasksWaitingToReceive, ready>>
      /\ \A u \in Tasks : u # t =>
            /\ pc'[u] = pc[u] /\ xSemaphore'[u] = xSemaphore[u]
            /\ xTicksToWait'[u] = xTicksToWait[u] /\ xTimeOut'[u] = xTimeOut[u]
            /\ xInheritanceOccurred'[u] = xInheritanceOccurred[u]
  <2>1. /\ pxCurrentTCB = t
        /\ UNCHANGED <<xMutexHolder, uxPriority, xTasksWaitingToReceive, ready>>
    BY DEF FailAtOnce, NoteEntryTime, TimedOut, TryAgain, EmptyCheck, GiveUp, Take
  <2>2. t \in ready
    BY <1>0, <2>1, NoTaskIsNoTask DEF RunningIsReady
  <2>3. \A u \in Tasks : u # t =>
            /\ pc'[u] = pc[u] /\ xSemaphore'[u] = xSemaphore[u]
            /\ xTicksToWait'[u] = xTicksToWait[u] /\ xTimeOut'[u] = xTimeOut[u]
            /\ xInheritanceOccurred'[u] = xInheritanceOccurred[u]
    BY <1>0 DEF TypeOK, FailAtOnce, NoteEntryTime, TimedOut, TryAgain, EmptyCheck, GiveUp, Take,
                Return
  <2> QED  BY <2>1, <2>2, <2>3
<1>2. \A m \in Mutexes : t \notin Waiters(m)'
  BY <1>0, <1>1 DEF WaitersOK, Waiters
<1>3. /\ pc'[t] # "out" => xSemaphore'[t] \in MayTake[t]
      /\ xTimeOut'[t] # "unset" \/ xTicksToWait'[t] # "none" => Held(t) = {}
      /\ pc'[t] \notin {"out", "try"} \/ xInheritanceOccurred'[t] => xTimeOut'[t] # "unset"
      /\ pc'[t] = "wait" => xTicksToWait'[t] # "none"
      /\ pc'[t] = "out" => xTicksToWait'[t] = "none"
  <2>1. CASE FailAtOnce(t) \/ GiveUp(t)
    BY <1>0, <2>1 DEF FailAtOnce, GiveUp, Return, TypeOK
  <2>2. CASE NoteEntryTime(t)
    BY <1>0, <2>2 DEF NoteEntryTime, TypeOK, TakesWhatItMay, WaitsHoldNothing
  <2>3. CASE TimedOut(t)
    BY <1>0, <2>3 DEF TimedOut, TypeOK, TakesWhatItMay, WaitsHoldNothing
  <2>4. CASE TryAgain(t) \/ EmptyCheck(t)
    BY <1>0, <2>4 DEF TryAgain, EmptyCheck, TypeOK, TakesWhatItMay, WaitsHoldNothing
  <2>5. ASSUME NEW m \in Mutexes, NEW w \in Waits, Take(t, m, w)
        PROVE  /\ xSemaphore'[t] \in MayTake[t] /\ pc'[t] = "try"
               /\ xTimeOut'[t] # "unset" \/ xTicksToWait'[t] # "none" => Held(t) = {}
               /\ xInheritanceOccurred'[t] => xTimeOut'[t] # "unset"
    BY <1>0, <2>5 DEF Take, TypeOK, WaitsHoldNothing, CallsOK
  <2> QED  BY <2>1, <2>2, <2>3, <2>4, <2>5
<1> QED  BY <1>1, <1>2, <1>3, CallsFrame

LEMMA SchedulingKeepsCalls ==
    ASSUME MutexInv, CallInv, UNCHANGED MayTake,
           UNCHANGED <<xMutexHolder, xTasksWaitingToReceive, uxPriority, pc, call>>,
           \A u \in Tasks : pc[u] # "out" => (u \in ready => u \in ready')
    PROVE  CallInv'
<1> USE DEF call
<1>1. CASE Tasks = {}
  <2>1. Tasks = {} /\ \A m \in Mutexes : \A i \in DOMAIN xTasksWaitingToReceive[m] : FALSE
    BY <1>1, ToSetSeq DEF MutexInv, Structure, TypeOK
  <2>2. ItemValue' = ItemValue
    BY DEF ItemValue
  <2> QED
    BY <2>1, <2>2 DEF CallInv, TakesWhatItMay, WaitsHoldNothing, WaitersInOrder, ReadyOrWaiting
<1>2. ASSUME NEW t \in Tasks
      PROVE  CallInv'
  <2>1. /\ TypeOK /\ TakesWhatItMay /\ WaitsHoldNothing
        /\ pc[t] # "out" => t \in ready' \/ t \in Waiters(xSemaphore[t])
    BY DEF CallInv, ReadyOrWaiting, MutexInv, Structure
  <2>2. /\ Waiters(xSemaphore[t])' = Waiters(xSemaphore[t])
        /\ \A m \in Mutexes : Waiters(m)' = Waiters(m)
    BY DEF Waiters
  <2> QED  BY <2>1, <2>2, CallsFrame DEF TakesWhatItMay, WaitsHoldNothing
<1> QED  BY <1>1, <1>2

LEMMA ExpireKeepsCalls ==
    ASSUME MutexInv, CallInv, UNCHANGED MayTake, NEW t \in Tasks, Expire(t)
    PROVE  CallInv'
<1> USE DEF call
<1>0. /\ TypeOK /\ WaitersOK /\ CallsOK /\ TakesWhatItMay /\ WaitsHoldNothing /\ ReadyOrWaiting
  BY DEF MutexInv, Structure, CallInv
<1>1. /\ pc[t] # "out" /\ xTimeOut' = [xTimeOut EXCEPT ![t] = "expired"]
      /\ UNCHANGED <<xMutexHolder, uxPriority, pc, xSemaphore, xTicksToWait, xInheritanceOccurred>>
      /\ xTimeOut[t] = "running"
  BY <1>0 DEF Expire, CallsOK
<1>2. /\ ready \subseteq ready' /\ t \in ready'
      /\ \A m \in Mutexes : xTasksWaitingToReceive'[m] = xTasksWaitingToReceive[m]
                            \/ xTasksWaitingToReceive'[m] = ListRemove(xTasksWaitingToReceive[m], t)
  <2>1. CASE t \in ready
    BY <2>1 DEF Expire
  <2>2. CASE t \notin ready
    BY <1>0, <2>2 DEF Expire, MakeReady, TypeOK
  <2> QED  BY <2>1, <2>2
<1>3. WaitersOK'
  BY ExpireKeepsInv DEF MutexInv, Structure
<1>4. \A m \in Mutexes : t \notin Waiters(m)'
  BY <1>2, <1>3 DEF WaitersOK
<1>5. /\ xTimeOut'[t] = "expired" /\ \A u \in Tasks : u # t => xTimeOut'[u] = xTimeOut[u]
  BY <1>0, <1>1 DEF TypeOK
<1>6. /\ pc'[t] # "out" => xSemaphore'[t] \in MayTake[t]
      /\ xTimeOut'[t] # "unset" \/ xTicksToWait'[t] # "none" => Held(t) = {}
      /\ pc'[t] \notin {"out", "try"} \/ xInheritanceOccurred'[t] => xTimeOut'[t] # "unset"
      /\ pc'[t] = "wait" => xTicksToWait'[t] # "none"
      /\ pc'[t] = "out" => xTicksToWait'[t] = "none"
  BY <1>0, <1>1, <1>5 DEF TakesWhatItMay, WaitsHoldNothing
<1> QED  BY <1>1, <1>2, <1>4, <1>5, <1>6, CallsFrame

-----------------------------------------------------------------------------
(***************************************************************************)
(* What the steps that move mutexes and priorities do, task by task        *)
(***************************************************************************)

\* The calls of the tasks other than t.
OthersKeepCalls(t) ==
    \A u \in Tasks : u # t =>
        /\ pc'[u] = pc[u] /\ xSemaphore'[u] = xSemaphore[u] /\ xTicksToWait'[u] = xTicksToWait[u]
        /\ xTimeOut'[u] = xTimeOut[u] /\ xInheritanceOccurred'[u] = xInheritanceOccurred[u]

Returned(t) ==
    /\ pc'[t] = "out" /\ xTicksToWait'[t] = "none" /\ xTimeOut'[t] = "unset"
    /\ xSemaphore'[t] = NoMutex /\ ~xInheritanceOccurred'[t]

LEMMA ReturnEffect ==
    ASSUME TypeOK, NEW t \in Tasks, Return(t)
    PROVE  OthersKeepCalls(t) /\ Returned(t)
BY DEF TypeOK, Return, OthersKeepCalls, Returned

LEMMA SucceedEffect ==
    ASSUME MutexInv, CallInv, NEW t \in Tasks, Succeed(t)
    PROVE  \E m \in Mutexes :
              /\ m = xSemaphore[t] /\ m \in MayTake[t] /\ xMutexHolder[m] = NoTask
              /\ pxCurrentTCB = t /\ t \in ready
              /\ \A k \in Mutexes : xMutexHolder'[k] = IF k = m THEN t ELSE xMutexHolder[k]
              /\ Held(t)' = Held(t) \cup {m}
              /\ \A u \in Tasks : u # t => Held(u)' = Held(u)
              /\ UNCHANGED <<xTasksWaitingToReceive, sched>>
              /\ OthersKeepCalls(t) /\ Returned(t)
<1>0. TypeOK /\ CallsOK /\ RunningIsReady /\ TakesWhatItMay
  BY DEF MutexInv, Structure, CallInv
<1> DEFINE m == xSemaphore[t]
<1>1. /\ m \in Mutexes /\ m \in MayTake[t] /\ xMutexHolder[m] = NoTask
      /\ pxCurrentTCB = t /\ t \in ready
      /\ xMutexHolder' = [xMutexHolder EXCEPT ![m] = t]
      /\ Return(t) /\ UNCHANGED <<xTasksWaitingToReceive, sched>>
  BY <1>0, NoTaskIsNoTask DEF Succeed, CallsOK, RunningIsReady, TakesWhatItMay
<1> HIDE DEF m
<1>2. \A k \in Mutexes : xMutexHolder'[k] = IF k = m THEN t ELSE xMutexHolder[k]
  BY <1>0, <1>1 DEF TypeOK
<1>3. /\ Held(t)' = Held(t) \cup {m}
      /\ \A u \in Tasks : u # t => Held(u)' = Held(u)
  BY <1>1, <1>2, NoTaskIsNoTask DEF Held
<1> QED  BY <1>0, <1>1, <1>2, <1>3, ReturnEffect DEF m

LEMMA BlockEffect ==
    ASSUME MutexInv, CallInv, NEW t \in Tasks, Block(t)
    PROVE  \E m \in Mutexes : \E h \in Tasks :
              /\ m = xSemaphore[t] /\ h = xMutexHolder[m] /\ h # t
              /\ t \in ready /\ pc[t] = "wait" /\ pc'[t] = "try"
              /\ uxPriority' \in [Tasks -> Nat]
              /\ uxPriority'[h] = IF uxPriority[h] < uxPriority[t] THEN uxPriority[t] ELSE uxPriority[h]
              /\ \A u \in Tasks : u # h => uxPriority'[u] = uxPriority[u]
              /\ xInheritanceOccurred'[t] = InheritanceOccurs(h, t)
              /\ \A u \in Tasks : u # t =>
                    pc'[u] = pc[u] /\ xInheritanceOccurred'[u] = xInheritanceOccurred[u]
              /\ \A k \in Mutexes : xTasksWaitingToReceive'[k] =
                    IF k = m THEN ListInsert(xTasksWaitingToReceive[m], ItemValue, t)
                    ELSE xTasksWaitingToReceive[k]
              /\ \A k \in Mutexes : Waiters(k)' = IF k = m THEN Waiters(k) \cup {t} ELSE Waiters(k)
              /\ ready' = ready \ {t}
              /\ Record(ready', uxPriority') /\ SwitchContext(ready', uxPriority')
              /\ UNCHANGED <<xMutexHolder, xSemaphore, xTicksToWait, xTimeOut>>
<1>0. TypeOK /\ CallsOK /\ RunningIsReady /\ WaitersOK /\ WaitsHoldNothing
  BY DEF MutexInv, Structure, CallInv
<1> DEFINE m == xSemaphore[t]
           h == xMutexHolder[m]
           q == xTasksWaitingToReceive[m]
           longer == ListInsert(q, ItemValue, t)
<1>1. /\ m \in Mutexes /\ h \in Tasks /\ t \in ready /\ pc[t] = "wait"
      /\ uxPriority' = Inherited(h, t)
      /\ xInheritanceOccurred' = [xInheritanceOccurred EXCEPT ![t] = InheritanceOccurs(h, t)]
      /\ xTasksWaitingToReceive' = [xTasksWaitingToReceive EXCEPT ![m] = longer]
      /\ ready' = ready \ {t}
      /\ pc' = [pc EXCEPT ![t] = "try"]
      /\ Record(ready', uxPriority') /\ SwitchContext(ready', uxPriority')
      /\ UNCHANGED <<xMutexHolder, xSemaphore, xTicksToWait, xTimeOut>>
  <2>1. m \in Mutexes /\ t \in ready
    BY <1>0, NoTaskIsNoTask DEF Block, CallsOK, RunningIsReady
  <2>2. h \in Tasks
    BY <1>0, <2>1 DEF Block, TypeOK
  <2> QED  BY <2>1, <2>2 DEF Block
<1>2. ToSet(longer) = ToSet(q) \cup {t}
  <2>1. t \notin ToSet(q) /\ NoDuplicates(q) /\ q \in Seq(Tasks)
    BY <1>0, <1>1 DEF WaitersOK, Waiters, TypeOK
  <2>2. ItemValue \in [Tasks -> Int]
    BY <1>0 DEF ItemValue, TypeOK
  <2> QED  BY <2>1, <2>2, ListInsertProperties
<1> HIDE DEF longer
<1>3. h # t
  <2>1. Held(t) = {}
    BY <1>0, <1>1 DEF WaitsHoldNothing
  <2> QED  BY <1>1, <2>1 DEF Held
<1> HIDE DEF h, m, q
<1>4. /\ uxPriority' \in [Tasks -> Nat]
      /\ uxPriority'[h] = IF uxPriority[h] < uxPriority[t] THEN uxPriority[t] ELSE uxPriority[h]
      /\ \A u \in Tasks : u # h => uxPriority'[u] = uxPriority[u]
  BY <1>0, <1>1 DEF Inherited, TypeOK
<1>5. /\ xInheritanceOccurred'[t] = InheritanceOccurs(h, t)
      /\ \A u \in Tasks : u # t =>
             pc'[u] = pc[u] /\ xInheritanceOccurred'[u] = xInheritanceOccurred[u]
      /\ pc'[t] = "try"
  BY <1>0, <1>1 DEF TypeOK
<1>6. \A k \in Mutexes : xTasksWaitingToReceive'[k] = IF k = m THEN longer ELSE xTasksWaitingToReceive[k]
  BY <1>0, <1>1 DEF TypeOK
<1>7. \A k \in Mutexes : Waiters(k)' = IF k = m THEN Waiters(k) \cup {t} ELSE Waiters(k)
  BY <1>2, <1>6 DEF Waiters, q
<1>8. m = xSemaphore[t] /\ h = xMutexHolder[m] /\ longer = ListInsert(xTasksWaitingToReceive[m], ItemValue, t)
  BY DEF m, h, longer, q
<1> QED  BY <1>1, <1>3, <1>4, <1>5, <1>6, <1>7, <1>8

LEMMA DisinheritEffect ==
    ASSUME MutexInv, CallInv, NEW t \in Tasks, Disinherit(t)
    PROVE  \E m \in Mutexes :
              /\ m = xSemaphore[t] /\ Held(t) = {} /\ t \in ready /\ pxCurrentTCB = t
              /\ pc[t] = "disinherit" /\ xMutexHolder[m] # t
              /\ uxPriority' = DisinheritedAfterTimeout(xMutexHolder[m], m)
              /\ \A u \in Tasks : u # xMutexHolder[m] => uxPriority'[u] = uxPriority[u]
              /\ uxTopReadyPriority' = uxTopReadyPriority \cup NonEmpty(ready, uxPriority')
              /\ \A k \in Mutexes : Waiters(k)' = Waiters(k)
              /\ \A u \in Tasks : Held(u)' = Held(u)
              /\ UNCHANGED <<mutexes, uxMutexesHeld, ready, pxCurrentTCB>>
              /\ OthersKeepCalls(t) /\ Returned(t)
<1> USE DEF mutexes
<1>0. TypeOK /\ CallsOK /\ RunningIsReady /\ WaitsHoldNothing
  BY DEF MutexInv, Structure, CallInv
<1> DEFINE m == xSemaphore[t]
<1>1. /\ m \in Mutexes /\ t \in ready /\ pc[t] = "disinherit" /\ pxCurrentTCB = t
      /\ uxPriority' = DisinheritedAfterTimeout(xMutexHolder[m], m)
      /\ uxTopReadyPriority' = uxTopReadyPriority \cup NonEmpty(ready, uxPriority')
      /\ Return(t)
      /\ UNCHANGED <<mutexes, uxMutexesHeld, ready, pxCurrentTCB>>
  BY <1>0, NoTaskIsNoTask DEF Disinherit, CallsOK, RunningIsReady
<1>2. Held(t) = {} /\ xMutexHolder[m] # t
  <2>1. Held(t) = {}
    BY <1>0, <1>1 DEF WaitsHoldNothing
  <2> QED  BY <1>1, <2>1 DEF Held
<1> HIDE DEF m
<1>3. \A u \in Tasks : u # xMutexHolder[m] => uxPriority'[u] = uxPriority[u]
  BY <1>0, <1>1 DEF DisinheritedAfterTimeout, TypeOK
<1>4. /\ \A k \in Mutexes : Waiters(k)' = Waiters(k)
      /\ \A u \in Tasks : Held(u)' = Held(u)
  BY <1>1 DEF Waiters, Held
<1>5. OthersKeepCalls(t) /\ Returned(t)
  BY <1>0, <1>1, ReturnEffect
<1> QED  BY <1>1, <1>2, <1>3, <1>4, <1>5 DEF m

LEMMA GiveEffect ==
    ASSUME MutexInv, CallInv, NEW t \in Tasks, NEW m \in Mutexes, Give(t, m)
    PROVE  LET q == xTasksWaitingToReceive[m] IN
           /\ xMutexHolder[m] = t /\ t \in ready /\ pc[t] = "out" /\ pxCurrentTCB = t
           /\ \A k \in Mutexes : xMutexHolder'[k] = IF k = m THEN NoTask ELSE xMutexHolder[k]
           /\ \A u \in Tasks : Held(u)' = IF u = t THEN Held(t) \ {m} ELSE Held(u)
           /\ uxPriority' \in [Tasks -> Nat]
           /\ \A u \in Tasks : u # t => uxPriority'[u] = uxPriority[u]
           /\ \A k \in Mutexes : xTasksWaitingToReceive'[k] =
                 IF k = m THEN RestOf(q, 1) ELSE xTasksWaitingToReceive[k]
           /\ \A k \in Mutexes : Waiters(k)' = IF k = m THEN Waiters(m) \ FirstOf(q, 1) ELSE Waiters(k)
           /\ ready' = ready \cup FirstOf(q, 1) /\ FirstOf(q, 1) \subseteq Waiters(m)
           /\ q # <<>> => Head(q) \in FirstOf(q, 1)
           /\ \A w \in Waiters(m) : uxPriority[w] <= uxPriority[Head(q)]
           /\ Record(ready', uxPriority')
           /\ \/ SwitchContext(ready', uxPriority')
              \/ /\ UNCHANGED pxCurrentTCB
                 /\ q # <<>> => ~(uxPriority'[Head(q)] > uxPriority'[t])
           /\ UNCHANGED <<pc, call>>
<1>0. TypeOK /\ RunningIsReady /\ WaitersOK /\ WaitersInOrder
  BY DEF MutexInv, Structure, CallInv
<1> DEFINE q     == xTasksWaitingToReceive[m]
           held  == uxMutexesHeld[t] - 1
           rest  == RestOf(q, 1)
           first == FirstOf(q, 1)
<1>1. /\ xMutexHolder[m] = t /\ t \in ready /\ pc[t] = "out" /\ pxCurrentTCB = t
      /\ xMutexHolder' = [xMutexHolder EXCEPT ![m] = NoTask]
      /\ uxPriority' = Disinherited(t, held)
      /\ ready' = ready \cup first
      /\ Record(ready', uxPriority')
      /\ xTasksWaitingToReceive' = [xTasksWaitingToReceive EXCEPT ![m] = rest]
      /\ \/ SwitchContext(ready', uxPriority')
         \/ UNCHANGED pxCurrentTCB /\ (q # <<>> => ~(uxPriority'[Head(q)] > uxPriority'[t]))
      /\ UNCHANGED <<pc, call>>
  BY <1>0, NoTaskIsNoTask DEF Give, RunningIsReady
<1>2. q \in Seq(Tasks) /\ NoDuplicates(q) /\ Ascending(q, ItemValue)
  BY <1>0 DEF TypeOK, WaitersOK, WaitersInOrder
<1>3. first \subseteq ToSet(q) /\ ToSet(rest) = ToSet(q) \ first
  <2>1. uxPriority \in [Tasks -> Int]
    BY <1>0 DEF TypeOK
  <2> QED  BY <1>2, <2>1, RestOfProperties
<1>4. /\ q # <<>> => Head(q) \in first
      /\ \A w \in ToSet(q) : uxPriority[w] <= uxPriority[Head(q)]
  <2>1. /\ Len(q) \in Nat /\ DOMAIN q = 1 .. Len(q)
        /\ \A w : w \in ToSet(q) <=> \E i \in 1 .. Len(q) : q[i] = w
        /\ ToSet(q) \subseteq Tasks
        /\ q # <<>> <=> Len(q) > 0
    BY <1>2, ToSetSeq
  <2>2. q # <<>> => Head(q) = q[1] /\ 1 \in DOMAIN q
    BY <1>2, <2>1
  <2>3. q # <<>> => Head(q) \in first
    BY <2>2 DEF FirstOf
  <2>4. ASSUME NEW w \in ToSet(q)
        PROVE  uxPriority[w] <= uxPriority[Head(q)]
    <3>1. PICK i \in 1 .. Len(q) : q[i] = w
      BY <2>1
    <3>2. q # <<>> /\ Head(q) = q[1] /\ q[1] \in Tasks /\ w \in Tasks
      BY <2>1, <2>2, <3>1
    <3>3. uxPriority[w] \in Nat /\ uxPriority[q[1]] \in Nat
      BY <1>0, <3>2 DEF TypeOK
    <3>4. CASE i = 1
      BY <3>1, <3>2, <3>3, <3>4
    <3>5. CASE i # 1
      <4>1. ItemValue[q[1]] <= ItemValue[q[i]]
        BY <1>2, <2>1, <3>1, <3>5 DEF Ascending
      <4>2. -uxPriority[q[1]] <= -uxPriority[w]
        BY <3>1, <3>2, <4>1 DEF ItemValue
      <4> QED  BY <3>2, <3>3, <4>2
    <3> QED  BY <3>4, <3>5
  <2> QED  BY <2>3, <2>4
<1> HIDE DEF rest, first
<1>5. \A k \in Mutexes : xMutexHolder'[k] = IF k = m THEN NoTask ELSE xMutexHolder[k]
  BY <1>0, <1>1 DEF TypeOK
<1>6. \A u \in Tasks : Held(u)' = IF u = t THEN Held(t) \ {m} ELSE Held(u)
  BY <1>1, <1>5, NoTaskIsNoTask DEF Held
<1>7. \A u \in Tasks : u # t => uxPriority'[u] = uxPriority[u]
  BY <1>0, <1>1 DEF Disinherited, TypeOK
<1>8. uxPriority' \in [Tasks -> Nat]
  BY <1>0, <1>1, MutexAssumption DEF Disinherited, TypeOK
<1>9. \A k \in Mutexes : xTasksWaitingToReceive'[k] = IF k = m THEN rest ELSE xTasksWaitingToReceive[k]
  BY <1>0, <1>1 DEF TypeOK
<1>10. \A k \in Mutexes : Waiters(k)' = IF k = m THEN Waiters(m) \ first ELSE Waiters(k)
  BY <1>3, <1>9 DEF Waiters
<1>11. first = FirstOf(q, 1) /\ rest = RestOf(q, 1) /\ Waiters(m) = ToSet(q)
  BY DEF first, rest, Waiters
<1> HIDE DEF q
<1> QED  BY <1>1, <1>3, <1>4, <1>5, <1>6, <1>7, <1>8, <1>9, <1>10, <1>11 DEF q

LEMMA MovesKeepCalls ==
    ASSUME MutexInv, CallInv, MutexInv', UNCHANGED MayTake, NEW t \in Tasks,
           \/ Succeed(t) \/ Block(t) \/ Disinherit(t)
           \/ \E m \in Mutexes : Give(t, m)
    PROVE  CallInv'
<1> USE DEF call, mutexes, sched
<1>0. /\ Structure /\ TypeOK /\ WaitersOK /\ CallsOK /\ RunningIsReady
      /\ TakesWhatItMay /\ WaitsHoldNothing /\ WaitersInOrder /\ ReadyOrWaiting
      /\ TypeOK' /\ WaitersOK'
  BY DEF MutexInv, Structure, CallInv
<1>1. CASE Succeed(t)
  <2>1. PICK m \in Mutexes :
              /\ m = xSemaphore[t] /\ m \in MayTake[t] /\ xMutexHolder[m] = NoTask
              /\ pxCurrentTCB = t /\ t \in ready
              /\ Held(t)' = Held(t) \cup {m}
              /\ \A u \in Tasks : u # t => Held(u)' = Held(u)
              /\ UNCHANGED <<xTasksWaitingToReceive, sched>>
              /\ OthersKeepCalls(t) /\ Returned(t)
    BY <1>1, SucceedEffect
  <2>2. \A k \in Mutexes : Waiters(k)' = Waiters(k) /\ t \notin Waiters(k)
    BY <1>0, <2>1 DEF Waiters, WaitersOK
  <2>3. TakesWhatItMay'
    BY <1>0, <2>1 DEF TakesWhatItMay, OthersKeepCalls, Returned
  <2>4. WaitsHoldNothing'
    BY <1>0, <2>1, <2>2 DEF WaitsHoldNothing, OthersKeepCalls, Returned
  <2>5. WaitersInOrder'
    BY <1>0, <2>1 DEF WaitersInOrder, ItemValue, Ascending
  <2>6. ReadyOrWaiting'
    BY <1>0, <2>1 DEF ReadyOrWaiting, OthersKeepCalls, Returned, Waiters
  <2> QED  BY <2>3, <2>4, <2>5, <2>6 DEF CallInv
<1>2. CASE Block(t)
  <2>1. PICK m \in Mutexes, h \in Tasks :
              /\ m = xSemaphore[t] /\ h = xMutexHolder[m] /\ h # t
              /\ t \in ready /\ pc[t] = "wait" /\ pc'[t] = "try"
              /\ uxPriority' \in [Tasks -> Nat]
              /\ \A u \in Tasks : u # h => uxPriority'[u] = uxPriority[u]
              /\ \A u \in Tasks : u # t =>
                    pc'[u] = pc[u] /\ xInheritanceOccurred'[u] = xInheritanceOccurred[u]
              /\ \A k \in Mutexes : xTasksWaitingToReceive'[k] =
                    IF k = m THEN ListInsert(xTasksWaitingToReceive[m], ItemValue, t)
                    ELSE xTasksWaitingToReceive[k]
              /\ \A k \in Mutexes : Waiters(k)' = IF k = m THEN Waiters(k) \cup {t} ELSE Waiters(k)
              /\ ready' = ready \ {t}
              /\ UNCHANGED <<xMutexHolder, xSemaphore, xTicksToWait, xTimeOut>>
    BY <1>2, BlockEffect
  <2>2. \A u \in Tasks : Held(u)' = Held(u)
    BY <2>1 DEF Held
  <2>3. TakesWhatItMay'
    BY <1>0, <2>1, <2>2 DEF TakesWhatItMay
  <2>4. WaitsHoldNothing'
    <3>1. xTimeOut[t] # "unset" /\ xTicksToWait[t] # "none"
      BY <1>0, <2>1 DEF WaitsHoldNothing
    <3> QED  BY <1>0, <2>1, <2>2, <3>1 DEF WaitsHoldNothing
  <2>5. ASSUME NEW k \in Mutexes
        PROVE  Ascending(xTasksWaitingToReceive'[k], ItemValue')
    <3> DEFINE l == xTasksWaitingToReceive'[k]
    <3>1. l \in Seq(Tasks) /\ ToSet(l) = Waiters(k)'
      BY <1>0 DEF TypeOK, Waiters
    <3>2. Ascending(l, ItemValue)
      <4>1. /\ xTasksWaitingToReceive[k] \in Seq(Tasks) /\ NoDuplicates(xTasksWaitingToReceive[k])
            /\ Ascending(xTasksWaitingToReceive[k], ItemValue)
        BY <1>0 DEF WaitersOK, TypeOK, WaitersInOrder
      <4>2. ItemValue \in [Tasks -> Int]
        BY <1>0, ItemValueType
      <4>3. t \notin ToSet(xTasksWaitingToReceive[k])
        BY <1>0, <2>1 DEF WaitersOK, Waiters
      <4>4. Ascending(ListInsert(xTasksWaitingToReceive[k], ItemValue, t), ItemValue)
        BY <4>1, <4>2, <4>3, ListInsertProperties
      <4> QED  BY <2>1, <4>1, <4>4
    <3>3. \A x \in ToSet(l) : uxPriority'[x] = uxPriority[x]
      <4>1. \A w \in Waiters(k) : w \in Tasks /\ w # h
        BY <1>0, <2>1, WaiterFacts
      <4>2. \A x \in ToSet(l) : x \in Tasks /\ x # h
        BY <2>1, <3>1, <4>1
      <4> QED  BY <2>1, <4>2
    <3> HIDE DEF l
    <3> QED  BY <1>0, <2>1, <3>1, <3>2, <3>3, WaitersStayInOrder DEF l
  <2>6. ReadyOrWaiting'
    <3> SUFFICES ASSUME NEW u \in Tasks, pc'[u] # "out"
                 PROVE  u \in ready' \/ u \in ToSet(xTasksWaitingToReceive'[xSemaphore[u]])
      BY <2>1 DEF ReadyOrWaiting, Waiters
    <3>1. pc[u] # "out" /\ xSemaphore[u] \in Mutexes
      BY <1>0, <2>1 DEF CallsOK
    <3>2. u \in ready \/ u \in Waiters(xSemaphore[u])
      BY <1>0, <3>1 DEF ReadyOrWaiting
    <3>3. Waiters(xSemaphore[u]) \subseteq ToSet(xTasksWaitingToReceive'[xSemaphore[u]])
      BY <2>1, <3>1 DEF Waiters
    <3>4. u = t => u \in ToSet(xTasksWaitingToReceive'[xSemaphore[u]])
      BY <2>1 DEF Waiters
    <3> QED  BY <2>1, <3>2, <3>3, <3>4
  <2> QED  BY <2>3, <2>4, <2>5, <2>6 DEF CallInv, WaitersInOrder
<1>3. CASE Disinherit(t)
  <2>1. PICK m \in Mutexes :
              /\ m = xSemaphore[t] /\ Held(t) = {} /\ t \in ready /\ pxCurrentTCB = t
              /\ \A u \in Tasks : u # xMutexHolder[m] => uxPriority'[u] = uxPriority[u]
              /\ \A k \in Mutexes : Waiters(k)' = Waiters(k)
              /\ \A u \in Tasks : Held(u)' = Held(u)
              /\ UNCHANGED <<mutexes, uxMutexesHeld, ready, pxCurrentTCB>>
              /\ OthersKeepCalls(t) /\ Returned(t)
    BY <1>3, DisinheritEffect
  <2>2. \A k \in Mutexes : t \notin Waiters(k)
    BY <1>0, <2>1 DEF WaitersOK
  <2>3. TakesWhatItMay'
    BY <1>0, <2>1 DEF TakesWhatItMay, OthersKeepCalls, Returned
  <2>4. WaitsHoldNothing'
    BY <1>0, <2>1, <2>2 DEF WaitsHoldNothing, OthersKeepCalls, Returned
  <2>5. ASSUME NEW k \in Mutexes
        PROVE  Ascending(xTasksWaitingToReceive'[k], ItemValue')
    <3> DEFINE l == xTasksWaitingToReceive[k]
    <3>1. l \in Seq(Tasks) /\ Ascending(l, ItemValue) /\ ToSet(l) = Waiters(k)
      BY <1>0 DEF TypeOK, WaitersInOrder, Waiters
    <3>2. \A w \in Waiters(k) : w \in Tasks /\ w # xMutexHolder[m]
      BY <1>0, <2>1, WaiterFacts
    <3>3. \A x \in ToSet(l) : uxPriority'[x] = uxPriority[x]
      BY <2>1, <3>1, <3>2
    <3>4. uxPriority' \in [Tasks -> Nat] /\ xTasksWaitingToReceive'[k] = l
      BY <1>0, <2>1 DEF TypeOK
    <3> HIDE DEF l
    <3> QED  BY <1>0, <3>1, <3>3, <3>4, WaitersStayInOrder
  <2>6. ReadyOrWaiting'
    BY <1>0, <2>1 DEF ReadyOrWaiting, OthersKeepCalls, Returned, Waiters
  <2> QED  BY <2>3, <2>4, <2>5, <2>6 DEF CallInv, WaitersInOrder
<1>4. ASSUME NEW m \in Mutexes, Give(t, m)
      PROVE  CallInv'
  <2> DEFINE q == xTasksWaitingToReceive[m]
             first == FirstOf(q, 1)
  <2>1. /\ xMutexHolder[m] = t /\ t \in ready /\ pc[t] = "out"
        /\ \A u \in Tasks : Held(u)' = IF u = t THEN Held(t) \ {m} ELSE Held(u)
        /\ uxPriority' \in [Tasks -> Nat]
        /\ \A u \in Tasks : u # t => uxPriority'[u] = uxPriority[u]
        /\ \A k \in Mutexes : xTasksWaitingToReceive'[k] =
                 IF k = m THEN RestOf(q, 1) ELSE xTasksWaitingToReceive[k]
        /\ \A k \in Mutexes : Waiters(k)' = IF k = m THEN Waiters(m) \ first ELSE Waiters(k)
        /\ ready' = ready \cup first
        /\ UNCHANGED <<pc, call>>
    BY <1>4, GiveEffect
  <2> HIDE DEF q, first
  <2>2. TakesWhatItMay'
    BY <1>0, <2>1 DEF TakesWhatItMay
  <2>3. WaitsHoldNothing'
    BY <1>0, <2>1 DEF WaitsHoldNothing
  <2>4. ASSUME NEW k \in Mutexes
        PROVE  Ascending(xTasksWaitingToReceive'[k], ItemValue')
    <3> DEFINE l == xTasksWaitingToReceive'[k]
    <3>1. l \in Seq(Tasks) /\ ToSet(l) \subseteq Waiters(k)
      BY <1>0, <2>1 DEF TypeOK, Waiters
    <3>2. Ascending(l, ItemValue)
      <4>1. /\ xTasksWaitingToReceive[k] \in Seq(Tasks) /\ NoDuplicates(xTasksWaitingToReceive[k])
            /\ Ascending(xTasksWaitingToReceive[k], ItemValue)
        BY <1>0 DEF WaitersOK, TypeOK, WaitersInOrder
      <4>2. ItemValue \in [Tasks -> Int]
        BY <1>0, ItemValueType
      <4>3. Ascending(RestOf(xTasksWaitingToReceive[k], 1), ItemValue)
        BY <4>1, <4>2, RestOfProperties
      <4> QED  BY <2>1, <4>1, <4>3 DEF q
    <3>3. \A w \in Waiters(k) : w \in Tasks /\ w # t
      BY <1>0, <2>1, WaiterFacts
    <3>4. \A x \in ToSet(l) : uxPriority'[x] = uxPriority[x]
      BY <2>1, <3>1, <3>3
    <3> HIDE DEF l
    <3> QED  BY <1>0, <2>1, <3>1, <3>2, <3>4, WaitersStayInOrder DEF l
  <2>5. ReadyOrWaiting'
    <3> SUFFICES ASSUME NEW u \in Tasks, pc[u] # "out"
                 PROVE  u \in ready' \/ u \in ToSet(xTasksWaitingToReceive'[xSemaphore[u]])
      BY <2>1 DEF ReadyOrWaiting, Waiters
    <3>1. xSemaphore[u] \in Mutexes
      BY <1>0 DEF CallsOK
    <3>2. u \in ready \/ u \in Waiters(xSemaphore[u])
      BY <1>0 DEF ReadyOrWaiting
    <3>3. Waiters(xSemaphore[u]) \subseteq ToSet(xTasksWaitingToReceive'[xSemaphore[u]]) \cup first
      BY <2>1, <3>1 DEF Waiters
    <3> QED  BY <2>1, <3>2, <3>3
  <2> QED  BY <2>2, <2>3, <2>4, <2>5 DEF CallInv, WaitersInOrder
<1> QED  BY <1>1, <1>2, <1>3, <1>4

-----------------------------------------------------------------------------
(***************************************************************************)
(* Loans of priority                                                       *)
(***************************************************************************)

\* Steps in which no mutex and no priority moves: tasks on their way to a free mutex
\* stay on it, and those who wait for a held one keep the note of their loan.
LEMMA LendFrame ==
    ASSUME MutexInv, CallInv, LendInv, MutexInv', CallInv',
           UNCHANGED <<MayTake, xMutexHolder, uxPriority>>,
           \A m \in Mutexes : Waiters(m)' \subseteq Waiters(m),
           SwitchContext(ready', uxPriority') \/ UNCHANGED pxCurrentTCB,
           \A m \in Mutexes : \A u \in ready :
               xMutexHolder[m] = NoTask /\ xSemaphore[u] = m /\ pc[u] # "disinherit" =>
                   u \in ready' /\ xSemaphore'[u] = m /\ pc'[u] # "disinherit",
           \A m \in Mutexes : \A u \in Tasks :
               /\ xMutexHolder[m] # NoTask /\ xSemaphore[u] = m /\ xInheritanceOccurred[u]
               /\ ~(pc[u] = "try" /\ xTicksToWait[u] = "none")
               => /\ xSemaphore'[u] = m /\ xInheritanceOccurred'[u]
                  /\ ~(pc'[u] = "try" /\ xTicksToWait'[u] = "none")
    PROVE  LendInv'
<1>0. /\ Structure /\ TypeOK /\ PriorityRestored /\ WaitsHoldNothing /\ TakesWhatItMay
      /\ WokenOutranks /\ TakerOutranks /\ LoansNoted /\ HolderInherits /\ LoansExact
      /\ TypeOK' /\ WaitersOK'
  BY DEF MutexInv, Structure, CallInv, LendInv
<1>1. \A u \in Tasks : Held(u)' = Held(u)
  BY DEF Held
<1>2. WokenOutranks'
  <2> SUFFICES ASSUME NEW m \in Mutexes, NEW w \in Waiters(m)', xMutexHolder[m] = NoTask
               PROVE  \E v \in ready' : /\ xSemaphore'[v] = m /\ pc'[v] # "disinherit" /\ Held(v)' = {}
                                        /\ uxPriority[v] >= uxPriority[w]
    BY DEF WokenOutranks
  <2>1. w \in Waiters(m)
    OBVIOUS
  <2>2. PICK v \in ready : /\ xSemaphore[v] = m /\ pc[v] # "disinherit" /\ Held(v) = {}
                           /\ uxPriority[v] >= uxPriority[w]
    BY <1>0, <2>1 DEF WokenOutranks
  <2>3. v \in Tasks
    BY <1>0 DEF TypeOK
  <2> QED  BY <1>1, <2>2, <2>3
<1>3. TakerOutranks'
  <2>1. CASE UNCHANGED pxCurrentTCB
    <3> SUFFICES ASSUME NEW t \in Tasks, NEW m \in MayTake[t], NEW w \in Waiters(m)',
                        pxCurrentTCB = t, UsesOneMutex(t), xMutexHolder[m] = NoTask
                 PROVE  uxPriority[t] >= uxPriority[w]
      BY <2>1 DEF TakerOutranks, UsesOneMutex
    <3>1. m \in Mutexes
      BY <1>0, MutexAssumption DEF TypeOK
    <3> QED  BY <1>0, <3>1 DEF TakerOutranks
  <2>2. CASE SwitchContext(ready', uxPriority')
    BY <1>0, <1>2, <2>2, SwitchKeepsTaker
  <2> QED  BY <2>1, <2>2
<1>4. LoansNoted'
  <2> SUFFICES ASSUME NEW m \in Mutexes, NEW w \in Waiters(m)', NEW h, h = xMutexHolder[m],
                      h # NoTask, UsesOneMutex(h), uxBasePriority[h] < uxPriority[w]
               PROVE  xInheritanceOccurred'[w]
    BY DEF LoansNoted, UsesOneMutex
  <2>1. w \in Waiters(m)
    OBVIOUS
  <2>2. w \in Tasks /\ xSemaphore[w] = m /\ xTicksToWait[w] # "none"
    BY <1>0, <2>1, WaiterFacts
  <2>3. xInheritanceOccurred[w]
    BY <1>0, <2>1 DEF LoansNoted
  <2> QED  BY <2>2, <2>3
<1>5. HolderInherits'
  BY <1>0 DEF HolderInherits, UsesOneMutex
<1>6. LoansExact'
  <2> SUFFICES ASSUME NEW h \in Tasks, UsesOneMutex(h), uxPriority[h] > uxBasePriority[h]
               PROVE  Lenders(h)' # {}
    BY DEF LoansExact, UsesOneMutex
  <2>1. PICK m \in Mutexes : MayTake[h] = {m} /\ xMutexHolder[m] = h
    BY <1>0, InheritorHolds
  <2>2. PICK u \in Lenders(h) : TRUE
    BY <1>0 DEF LoansExact
  <2>3. /\ u \in Tasks \ {h} /\ xSemaphore[u] = m /\ uxPriority[u] = uxPriority[h]
        /\ xInheritanceOccurred[u] /\ ~(pc[u] = "try" /\ xTicksToWait[u] = "none")
    BY <2>1, <2>2 DEF Lenders
  <2>4. /\ xSemaphore'[u] = m /\ xInheritanceOccurred'[u]
        /\ ~(pc'[u] = "try" /\ xTicksToWait'[u] = "none")
    BY <2>1, <2>3, NoTaskIsNoTask
  <2>5. u \in Lenders(h)'
    BY <2>1, <2>3, <2>4 DEF Lenders
  <2> QED  BY <2>5
<1> QED  BY <1>2, <1>3, <1>4, <1>5, <1>6 DEF LendInv

LEMMA QuietStepsKeepLoans ==
    ASSUME MutexInv, CallInv, LendInv, MutexInv', CallInv', UNCHANGED MayTake,
           \/ TimeSlice
           \/ \E t \in Tasks :
                \/ Sleep(t) \/ Wake(t) \/ Expire(t)
                \/ FailAtOnce(t) \/ NoteEntryTime(t) \/ TimedOut(t) \/ TryAgain(t)
                \/ EmptyCheck(t) \/ GiveUp(t)
                \/ \E m \in Mutexes : TakeAgain(t, m) \/ GiveInner(t, m) \/ \E w \in Waits : Take(t, m, w)
    PROVE  LendInv'
<1> USE DEF call, mutexes, sched
<1>0. TypeOK /\ CallsOK /\ RunningIsReady /\ WaitersOK /\ ReadyOrWaiting /\ WaitsHoldNothing
  BY DEF MutexInv, Structure, CallInv
<1>1. CASE TimeSlice \/ \E t \in Tasks : Sleep(t) \/ Wake(t)
  <2>1. /\ UNCHANGED <<mutexes, uxPriority, pc, call>>
        /\ SwitchContext(ready', uxPriority') \/ UNCHANGED pxCurrentTCB
        /\ \A u \in ready : pc[u] # "out" => u \in ready'
    BY <1>1 DEF TimeSlice, Sleep, Wake, MakeReady
  <2>2. \A m \in Mutexes : \A u \in ready : xSemaphore[u] = m => u \in ready'
    BY <1>0, <2>1, NoMutexIsNoMutex DEF CallsOK, TypeOK
  <2>3. \A m \in Mutexes : Waiters(m)' \subseteq Waiters(m)
    BY <2>1 DEF Waiters
  <2> QED  BY <2>1, <2>2, <2>3, LendFrame
<1>2. ASSUME NEW t \in Tasks, Expire(t)
      PROVE  LendInv'
  <2>1. /\ UNCHANGED <<xMutexHolder, uxPriority, pc, xSemaphore, xTicksToWait, xInheritanceOccurred>>
        /\ SwitchContext(ready', uxPriority') \/ UNCHANGED pxCurrentTCB
        /\ ready \subseteq ready'
        /\ \/ UNCHANGED xTasksWaitingToReceive
           \/ xTasksWaitingToReceive' = [xTasksWaitingToReceive EXCEPT
                                              ![xSemaphore[t]] = ListRemove(@, t)]
    BY <1>2 DEF Expire, MakeReady
  <2>2. \A m \in Mutexes : Waiters(m)' \subseteq Waiters(m)
    <3> SUFFICES ASSUME NEW m \in Mutexes
                 PROVE  Waiters(m)' \subseteq Waiters(m)
      OBVIOUS
    <3> DEFINE l == xTasksWaitingToReceive[m]
    <3>1. l \in Seq(Tasks) /\ NoDuplicates(l)
      BY <1>0 DEF TypeOK, WaitersOK
    <3>2. Ascending(l, ItemValue)
      BY DEF CallInv, WaitersInOrder
    <3>3. ToSet(ListRemove(l, t)) \subseteq ToSet(l)
      BY <1>0, <3>1, <3>2, RemovedInOrder
    <3>4. xTasksWaitingToReceive'[m] = l \/ xTasksWaitingToReceive'[m] = ListRemove(l, t)
      BY <1>0, <2>1 DEF TypeOK
    <3> QED  BY <3>3, <3>4 DEF Waiters
  <2> QED  BY <2>1, <2>2, LendFrame
<1>3. ASSUME NEW t \in Tasks,
             \/ FailAtOnce(t) \/ NoteEntryTime(t) \/ TimedOut(t) \/ TryAgain(t)
             \/ EmptyCheck(t) \/ GiveUp(t)
             \/ \E m \in Mutexes : TakeAgain(t, m) \/ GiveInner(t, m) \/ \E w \in Waits : Take(t, m, w)
      PROVE  LendInv'
  <2>1. /\ UNCHANGED <<xMutexHolder, xTasksWaitingToReceive, uxPriority, ready, pxCurrentTCB>>
        /\ pxCurrentTCB = t \/ UNCHANGED <<pc, call>>
    BY <1>3 DEF FailAtOnce, NoteEntryTime, TimedOut, TryAgain, EmptyCheck, GiveUp, TakeAgain,
                GiveInner, Take
  <2>2. \A u \in Tasks : u # t =>
            /\ pc'[u] = pc[u] /\ xSemaphore'[u] = xSemaphore[u]
            /\ xTicksToWait'[u] = xTicksToWait[u]
            /\ xInheritanceOccurred'[u] = xInheritanceOccurred[u]
    BY <1>0, <1>3 DEF TypeOK, FailAtOnce, NoteEntryTime, TimedOut, TryAgain, EmptyCheck, GiveUp, Take,
                      Return, TakeAgain, GiveInner
  <2>3. \A m \in Mutexes : Waiters(m)' \subseteq Waiters(m)
    BY <2>1 DEF Waiters
  <2>4. ASSUME NEW m \in Mutexes, xMutexHolder[m] = NoTask, xSemaphore[t] = m, pc[t] # "disinherit"
        PROVE  xSemaphore'[t] = m /\ pc'[t] # "disinherit"
    <3>1. pc[t] # "out"
      BY <1>0, <2>4, NoMutexIsNoMutex DEF CallsOK
    <3> QED
      BY <1>0, <1>3, <2>4, <3>1 DEF TypeOK, FailAtOnce, NoteEntryTime, TimedOut, TryAgain, EmptyCheck,
            GiveUp, Take, TakeAgain, GiveInner
  <2>5. ASSUME NEW m \in Mutexes, xMutexHolder[m] # NoTask, xSemaphore[t] = m,
               xInheritanceOccurred[t], ~(pc[t] = "try" /\ xTicksToWait[t] = "none")
        PROVE  /\ xSemaphore'[t] = m /\ xInheritanceOccurred'[t]
               /\ ~(pc'[t] = "try" /\ xTicksToWait'[t] = "none")
    <3>1. pc[t] # "out"
      BY <1>0, <2>5, NoMutexIsNoMutex DEF CallsOK
    <3>2. ~FailAtOnce(t) /\ ~GiveUp(t) /\ ~TryAgain(t)
          /\ ~(\E k \in Mutexes : TakeAgain(t, k) \/ GiveInner(t, k) \/ \E w \in Waits : Take(t, k, w))
      BY <2>5, <3>1 DEF FailAtOnce, GiveUp, TryAgain, TakeAgain, GiveInner, Take
    <3>3. CASE NoteEntryTime(t)
      BY <1>0, <2>5, <3>3 DEF NoteEntryTime, TypeOK
    <3>4. CASE TimedOut(t)
      BY <1>0, <2>5, <3>4 DEF TimedOut, TypeOK
    <3>5. CASE EmptyCheck(t)
      BY <1>0, <2>5, <3>5 DEF EmptyCheck, TypeOK
    <3> QED  BY <1>3, <3>2, <3>3, <3>4, <3>5
  <2>6. \A m \in Mutexes : \A u \in ready :
               xMutexHolder[m] = NoTask /\ xSemaphore[u] = m /\ pc[u] # "disinherit" =>
                   u \in ready' /\ xSemaphore'[u] = m /\ pc'[u] # "disinherit"
    BY <1>0, <2>1, <2>2, <2>4 DEF TypeOK
  <2>7. \A m \in Mutexes : \A u \in Tasks :
               /\ xMutexHolder[m] # NoTask /\ xSemaphore[u] = m /\ xInheritanceOccurred[u]
               /\ ~(pc[u] = "try" /\ xTicksToWait[u] = "none")
               => /\ xSemaphore'[u] = m /\ xInheritanceOccurred'[u]
                  /\ ~(pc'[u] = "try" /\ xTicksToWait'[u] = "none")
    BY <2>2, <2>5
  <2> QED  BY <2>1, <2>3, <2>6, <2>7, LendFrame
<1> QED  BY <1>1, <1>2, <1>3

\* The task that takes a free mutex outranks those who wait for it.
LEMMA SucceedKeepsLoans ==
    ASSUME MutexInv, CallInv, LendInv, MutexInv', CallInv', UNCHANGED MayTake,
           NEW t \in Tasks, Succeed(t)
    PROVE  LendInv'
<1> USE DEF sched
<1>0. /\ Structure /\ TypeOK /\ PriorityRestored /\ WaitsHoldNothing /\ TakesWhatItMay
      /\ WokenOutranks /\ TakerOutranks /\ LoansNoted /\ HolderInherits /\ LoansExact /\ WaitersOK
  BY DEF MutexInv, Structure, CallInv, LendInv
<1>1. PICK m \in Mutexes :
              /\ m = xSemaphore[t] /\ m \in MayTake[t] /\ xMutexHolder[m] = NoTask
              /\ pxCurrentTCB = t /\ t \in ready
              /\ \A k \in Mutexes : xMutexHolder'[k] = IF k = m THEN t ELSE xMutexHolder[k]
              /\ \A u \in Tasks : u # t => Held(u)' = Held(u)
              /\ UNCHANGED <<xTasksWaitingToReceive, sched>>
              /\ OthersKeepCalls(t)
  BY SucceedEffect
<1>2. /\ \A k \in Mutexes : Waiters(k)' = Waiters(k)
      /\ \A k \in Mutexes : \A w \in Waiters(k) : w \in Tasks /\ w # t
  BY <1>0, <1>1, WaiterFacts DEF Waiters
<1>3. \A u \in Tasks : UsesOneMutex(u)' <=> UsesOneMutex(u)
  BY DEF UsesOneMutex
\* If t uses one mutex it has held none, and is at its base priority.
<1>4. ASSUME UsesOneMutex(t)
      PROVE  uxPriority[t] = uxBasePriority[t] /\ \A k \in MayTake[t] : k = m
  <2>1. \A k \in MayTake[t] : k = m
    BY <1>0, <1>1, <1>4, OneMutexOnly
  <2>2. Held(t) = {}
    BY <1>0, <1>1, <2>1, NoTaskIsNoTask DEF Held, TakesWhatItMay
  <2> QED  BY <1>0, <2>1, <2>2 DEF PriorityRestored
<1>5. WokenOutranks'
  <2> SUFFICES ASSUME NEW k \in Mutexes, NEW w \in Waiters(k), xMutexHolder'[k] = NoTask
               PROVE  \E v \in ready : /\ xSemaphore'[v] = k /\ pc'[v] # "disinherit" /\ Held(v)' = {}
                                       /\ uxPriority[v] >= uxPriority[w]
    BY <1>1, <1>2 DEF WokenOutranks
  <2>1. k # m /\ xMutexHolder[k] = NoTask
    BY <1>1, NoTaskIsNoTask
  <2>2. PICK v \in ready : /\ xSemaphore[v] = k /\ pc[v] # "disinherit" /\ Held(v) = {}
                           /\ uxPriority[v] >= uxPriority[w]
    BY <1>0, <2>1 DEF WokenOutranks
  <2>3. v \in Tasks /\ v # t
    BY <1>0, <1>1, <2>1, <2>2 DEF TypeOK
  <2> QED  BY <1>1, <2>2, <2>3 DEF OthersKeepCalls
<1>6. TakerOutranks'
  <2> SUFFICES ASSUME NEW k \in MayTake[t], NEW w \in Waiters(k)',
                      UsesOneMutex(t), xMutexHolder'[k] = NoTask
               PROVE  uxPriority[t] >= uxPriority[w]
    BY <1>1, <1>3 DEF TakerOutranks
  <2>1. k = m
    BY <1>4
  <2> QED  BY <1>1, <2>1, NoTaskIsNoTask
<1>7. LoansNoted'
  <2> SUFFICES ASSUME NEW k \in Mutexes, NEW w \in Waiters(k), NEW h, h = xMutexHolder'[k],
                      h # NoTask, UsesOneMutex(h)', uxBasePriority[h] < uxPriority[w]
               PROVE  xInheritanceOccurred'[w]
    BY <1>1, <1>2 DEF LoansNoted
  <2>0. UsesOneMutex(h)
    BY DEF UsesOneMutex
  <2>1. CASE k = m
    <3>1. h = t
      BY <1>1, <2>1
    <3>2. uxPriority[t] >= uxPriority[w]
      BY <1>0, <1>1, <2>0, <2>1, <3>1 DEF TakerOutranks
    <3>3. uxPriority[t] \in Nat /\ uxPriority[w] \in Nat /\ uxPriority[t] = uxBasePriority[t]
      BY <1>0, <1>2, <1>4, <2>0, <3>1 DEF TypeOK
    <3> QED  BY <3>1, <3>2, <3>3
  <2>2. CASE k # m
    <3>1. xInheritanceOccurred[w]
      BY <1>0, <1>1, <2>0, <2>2 DEF LoansNoted
    <3> QED  BY <1>1, <1>2, <3>1 DEF OthersKeepCalls
  <2> QED  BY <2>1, <2>2
<1>8. HolderInherits'
  <2> SUFFICES ASSUME NEW k \in Mutexes, NEW w \in Waiters(k), NEW h, h = xMutexHolder'[k],
                      h # NoTask, UsesOneMutex(h)'
               PROVE  uxPriority[h] >= uxPriority[w]
    BY <1>1, <1>2 DEF HolderInherits
  <2>0. UsesOneMutex(h)
    BY DEF UsesOneMutex
  <2> QED  BY <1>0, <1>1, <2>0 DEF HolderInherits, TakerOutranks
<1>9. LoansExact'
  <2> SUFFICES ASSUME NEW h \in Tasks, UsesOneMutex(h), uxPriority[h] > uxBasePriority[h]
               PROVE  Lenders(h)' # {}
    BY <1>1, <1>3 DEF LoansExact
  <2>1. PICK k \in Mutexes : MayTake[h] = {k} /\ xMutexHolder[k] = h
    BY <1>0, InheritorHolds
  <2>2. PICK u \in Lenders(h) : TRUE
    BY <1>0 DEF LoansExact
  <2>3. u \in Tasks \ {h} /\ xSemaphore[u] = k
    BY <2>1, <2>2 DEF Lenders
  <2>4. u # t
    BY <1>1, <2>1, <2>3, NoTaskIsNoTask
  <2> QED  BY <1>1, <2>2, <2>3, <2>4 DEF Lenders, OthersKeepCalls
<1> QED  BY <1>5, <1>6, <1>7, <1>8, <1>9 DEF LendInv

\* The task that blocks lends its priority, if the holder's is lower, and notes it
\* if it is above the holder's base priority.
LEMMA BlockKeepsLoans ==
    ASSUME MutexInv, CallInv, LendInv, MutexInv', CallInv', UNCHANGED MayTake,
           NEW t \in Tasks, Block(t)
    PROVE  LendInv'
<1>0. /\ Structure /\ TypeOK /\ PriorityRestored /\ WaitsHoldNothing /\ TakesWhatItMay
      /\ WokenOutranks /\ LoansNoted /\ HolderInherits /\ LoansExact /\ WaitersOK
      /\ TypeOK' /\ WaitersOK'
  BY DEF MutexInv, Structure, CallInv, LendInv
<1>1. PICK m \in Mutexes, h \in Tasks :
              /\ m = xSemaphore[t] /\ h = xMutexHolder[m] /\ h # t
              /\ t \in ready /\ pc[t] = "wait" /\ pc'[t] = "try"
              /\ uxPriority' \in [Tasks -> Nat]
              /\ uxPriority'[h] = IF uxPriority[h] < uxPriority[t] THEN uxPriority[t] ELSE uxPriority[h]
              /\ \A u \in Tasks : u # h => uxPriority'[u] = uxPriority[u]
              /\ xInheritanceOccurred'[t] = InheritanceOccurs(h, t)
              /\ \A u \in Tasks : u # t =>
                    pc'[u] = pc[u] /\ xInheritanceOccurred'[u] = xInheritanceOccurred[u]
              /\ \A k \in Mutexes : Waiters(k)' = IF k = m THEN Waiters(k) \cup {t} ELSE Waiters(k)
              /\ ready' = ready \ {t}
              /\ SwitchContext(ready', uxPriority')
              /\ UNCHANGED <<xMutexHolder, xSemaphore, xTicksToWait, xTimeOut>>
  BY BlockEffect
<1>2. /\ \A u \in Tasks : Held(u)' = Held(u)
      /\ m \in Held(h) /\ m \in MayTake[h]
      /\ Held(t) = {} /\ xTicksToWait[t] # "none"
  BY <1>0, <1>1 DEF Held, WaitsHoldNothing, TakesWhatItMay
<1>3. \A u \in Tasks : uxPriority[u] \in Nat /\ uxPriority'[u] \in Nat /\ uxBasePriority[u] \in Nat
  BY <1>0, <1>1, MutexAssumption DEF TypeOK
<1>4. \A k \in Mutexes : \A w \in Waiters(k)' :
          w \in Tasks /\ w # h /\ uxPriority'[w] = uxPriority[w] /\ (w = t => k = m)
  <2>1. \A k \in Mutexes : \A w \in Waiters(k) : w \in Tasks /\ w # h /\ w # t
    BY <1>0, <1>1, WaiterFacts
  <2> QED  BY <1>1, <2>1
<1>5. \A u \in Tasks : (UsesOneMutex(u)' <=> UsesOneMutex(u)) /\ uxPriority'[u] >= uxPriority[u]
  BY <1>1, <1>3 DEF UsesOneMutex
<1>6. WokenOutranks'
  <2> SUFFICES ASSUME NEW k \in Mutexes, NEW w \in Waiters(k)', xMutexHolder[k] = NoTask
               PROVE  \E v \in ready' : /\ xSemaphore[v] = k /\ pc'[v] # "disinherit" /\ Held(v)' = {}
                                        /\ uxPriority'[v] >= uxPriority'[w]
    BY <1>1 DEF WokenOutranks
  <2>1. k # m /\ w \in Waiters(k)
    BY <1>1, NoTaskIsNoTask
  <2>2. PICK v \in ready : /\ xSemaphore[v] = k /\ pc[v] # "disinherit" /\ Held(v) = {}
                           /\ uxPriority[v] >= uxPriority[w]
    BY <1>0, <2>1 DEF WokenOutranks
  <2>3. v \in Tasks /\ v # t /\ v # h
    BY <1>0, <1>1, <1>2, <2>1, <2>2 DEF TypeOK
  <2> QED  BY <1>1, <1>2, <1>4, <2>2, <2>3
<1>7. TakerOutranks'
  BY <1>0, <1>1, <1>6, SwitchKeepsTaker
<1>8. LoansNoted'
  <2> SUFFICES ASSUME NEW k \in Mutexes, NEW w \in Waiters(k)', NEW g, g = xMutexHolder[k],
                      g # NoTask, UsesOneMutex(g)', uxBasePriority[g] < uxPriority'[w]
               PROVE  xInheritanceOccurred'[w]
    BY <1>1 DEF LoansNoted
  <2>1. UsesOneMutex(g) /\ uxBasePriority[g] < uxPriority[w]
    BY <1>4 DEF UsesOneMutex
  <2>2. CASE w = t
    BY <1>1, <1>4, <2>1, <2>2 DEF InheritanceOccurs
  <2>3. CASE w # t
    <3>1. w \in Waiters(k)
      BY <1>1, <2>3
    <3> QED  BY <1>0, <1>1, <1>4, <2>1, <2>3, <3>1 DEF LoansNoted
  <2> QED  BY <2>2, <2>3
<1>9. HolderInherits'
  <2> SUFFICES ASSUME NEW k \in Mutexes, NEW w \in Waiters(k)', NEW g, g = xMutexHolder[k],
                      g # NoTask, UsesOneMutex(g)'
               PROVE  uxPriority'[g] >= uxPriority'[w]
    BY <1>1 DEF HolderInherits
  <2>1. g \in Tasks /\ UsesOneMutex(g)
    BY <1>0 DEF TypeOK, UsesOneMutex
  <2>2. CASE w = t
    BY <1>1, <1>3, <1>4, <2>2
  <2>3. CASE w # t
    <3>1. w \in Waiters(k)
      BY <1>1, <2>3
    <3>2. uxPriority[g] >= uxPriority[w]
      BY <1>0, <2>1, <3>1 DEF HolderInherits
    <3> QED  BY <1>3, <1>4, <1>5, <2>1, <3>2
  <2> QED  BY <2>2, <2>3
<1>10. LoansExact'
  <2> SUFFICES ASSUME NEW g \in Tasks, UsesOneMutex(g), uxPriority'[g] > uxBasePriority[g]
               PROVE  Lenders(g)' # {}
    BY <1>1, <1>5 DEF LoansExact
  \* The blocking task itself, if it has the holder's new priority.
  <2>1. ASSUME g = h, uxPriority[t] = uxPriority'[h]
        PROVE  t \in Lenders(g)'
    <3>1. InheritanceOccurs(h, t)
      BY <1>3, <2>1 DEF InheritanceOccurs
    <3> QED  BY <1>1, <1>2, <2>1, <3>1 DEF Lenders
  <2>2. CASE g = h /\ uxPriority[h] < uxPriority[t]
    BY <1>1, <2>1, <2>2
  <2>3. CASE g # h \/ ~(uxPriority[h] < uxPriority[t])
    <3>1. uxPriority'[g] = uxPriority[g]
      BY <1>1, <2>3
    <3>2. PICK u \in Lenders(g) : TRUE
      BY <1>0, <3>1 DEF LoansExact
    <3>3. u \in Tasks /\ u # g /\ u # h /\ xSemaphore[u] \in MayTake[g] /\ uxPriority[u] = uxPriority[g]
      BY <1>0, <1>1, <3>2, LenderFacts DEF Lenders
    <3>4. CASE u # t
      BY <1>1, <3>1, <3>2, <3>3, <3>4 DEF Lenders
    <3>5. CASE u = t
      <4>1. PICK k \in Mutexes : MayTake[g] = {k} /\ xMutexHolder[k] = g
        BY <1>0, <3>1, InheritorHolds
      <4>2. g = h
        BY <1>1, <3>3, <3>5, <4>1
      <4> QED  BY <2>1, <3>1, <3>3, <3>5, <4>2
    <3> QED  BY <3>4, <3>5
  <2> QED  BY <2>2, <2>3
<1> QED  BY <1>6, <1>7, <1>8, <1>9, <1>10 DEF LendInv

\* What a waiter that gives up leaves its holder with: enough for those who still
\* wait, and no more than one of them has.
LEMMA DisinheritedPriority ==
    ASSUME MutexInv, CallInv, NEW m \in Mutexes, NEW h \in Tasks, xMutexHolder[m] = h,
           UsesOneMutex(h), uxPriority' = DisinheritedAfterTimeout(h, m)
    PROVE  /\ uxPriority'[h] \in Nat /\ uxPriority'[h] >= uxBasePriority[h]
           /\ \A w \in Waiters(m) : uxPriority[w] <= uxPriority'[h]
           /\ uxPriority'[h] > uxBasePriority[h] =>
                 \E w \in Waiters(m) : uxPriority[w] = uxPriority'[h]
<1>0. TypeOK /\ PriorityRestored /\ WaitersInOrder /\ TakesWhatItMay
  BY DEF MutexInv, Structure, CallInv
<1> DEFINE q == xTasksWaitingToReceive[m]
<1>1. uxMutexesHeld[h] = 1 /\ h # NoTask
  <2>1. m \in Held(h) /\ Held(h) \subseteq MayTake[h]
    BY <1>0 DEF Held, TakesWhatItMay
  <2>2. \A k \in Held(h) : k = m
    BY <1>0, <2>1, OneMutexOnly
  <2>3. Held(h) = {m}
    BY <2>1, <2>2
  <2> QED  BY <1>0, <2>3, FS_Singleton, NoTaskIsNoTask DEF PriorityRestored
<1>2. uxPriority' = [uxPriority EXCEPT ![h] = PriorityToUse(h, m)]
  BY <1>1 DEF DisinheritedAfterTimeout
<1>3. uxPriority'[h] = PriorityToUse(h, m)
  BY <1>0, <1>2 DEF TypeOK
<1>4. /\ q \in Seq(Tasks) /\ Ascending(q, ItemValue)
      /\ Len(q) \in Nat /\ DOMAIN q = 1 .. Len(q)
      /\ \A w : w \in Waiters(m) <=> \E i \in 1 .. Len(q) : q[i] = w
      /\ Waiters(m) \subseteq Tasks
      /\ q # <<>> <=> Len(q) > 0
  <2>1. q \in Seq(Tasks) /\ Ascending(q, ItemValue)
    BY <1>0 DEF TypeOK, WaitersInOrder
  <2> QED  BY <2>1, ToSetSeq DEF Waiters
<1>5. uxBasePriority[h] \in Nat /\ \A u \in Tasks : uxPriority[u] \in Nat
  BY <1>0, MutexAssumption DEF TypeOK
<1> HIDE DEF q
<1>6. CASE q = <<>>
  <2>1. HighestWaitingPriority(m) = 0 /\ Waiters(m) = {}
    BY <1>4, <1>6 DEF HighestWaitingPriority, tskIDLE_PRIORITY, q
  <2>2. PriorityToUse(h, m) = uxBasePriority[h]
    BY <1>5, <2>1 DEF PriorityToUse
  <2> QED  BY <1>3, <1>5, <2>1, <2>2
<1>7. CASE q # <<>>
  <2>1. /\ Head(q) = q[1] /\ q[1] \in Waiters(m) /\ q[1] \in Tasks /\ 1 \in DOMAIN q
    BY <1>4, <1>7
  <2>2. HighestWaitingPriority(m) = uxPriority[q[1]]
    BY <1>7, <2>1 DEF HighestWaitingPriority, q
  <2>3. ASSUME NEW w \in Waiters(m)
        PROVE  uxPriority[w] <= uxPriority[q[1]]
    <3>1. PICK i \in 1 .. Len(q) : q[i] = w
      BY <1>4
    <3>2. w \in Tasks
      BY <1>4
    <3>3. CASE i = 1
      BY <1>5, <2>1, <3>1, <3>3
    <3>4. CASE i # 1
      <4>1. ItemValue[q[1]] <= ItemValue[q[i]]
        BY <1>4, <2>1, <3>1, <3>4 DEF Ascending
      <4>2. -uxPriority[q[1]] <= -uxPriority[w]
        BY <2>1, <3>1, <3>2, <4>1 DEF ItemValue
      <4> QED  BY <1>5, <2>1, <3>2, <4>2
    <3> QED  BY <3>3, <3>4
  <2>4. /\ uxPriority'[h] \in Nat /\ uxPriority'[h] >= uxBasePriority[h]
        /\ uxPriority'[h] >= uxPriority[q[1]]
        /\ uxPriority'[h] > uxBasePriority[h] => uxPriority[q[1]] = uxPriority'[h]
    BY <1>3, <1>5, <2>1, <2>2 DEF PriorityToUse
  <2>5. \A w \in Waiters(m) : uxPriority[w] <= uxPriority'[h]
    BY <1>4, <1>5, <2>1, <2>3, <2>4
  <2> QED  BY <2>1, <2>4, <2>5
<1> QED  BY <1>6, <1>7

LEMMA DisinheritKeepsLoans ==
    ASSUME MutexInv, CallInv, LendInv, MutexInv', CallInv', UNCHANGED MayTake,
           NEW t \in Tasks, Disinherit(t)
    PROVE  LendInv'
<1> USE DEF mutexes
<1>0. /\ Structure /\ TypeOK /\ PriorityRestored /\ WaitsHoldNothing /\ TakesWhatItMay
      /\ WokenOutranks /\ TakerOutranks /\ LoansNoted /\ HolderInherits /\ LoansExact /\ WaitersOK
      /\ TypeOK'
  BY DEF MutexInv, Structure, CallInv, LendInv
<1>1. PICK m \in Mutexes :
              /\ m = xSemaphore[t] /\ Held(t) = {} /\ t \in ready /\ pxCurrentTCB = t
              /\ pc[t] = "disinherit" /\ xMutexHolder[m] # t
              /\ uxPriority' = DisinheritedAfterTimeout(xMutexHolder[m], m)
              /\ \A u \in Tasks : u # xMutexHolder[m] => uxPriority'[u] = uxPriority[u]
              /\ \A k \in Mutexes : Waiters(k)' = Waiters(k)
              /\ \A u \in Tasks : Held(u)' = Held(u)
              /\ UNCHANGED <<mutexes, uxMutexesHeld, ready, pxCurrentTCB>>
              /\ OthersKeepCalls(t)
  BY DisinheritEffect
<1> DEFINE h == xMutexHolder[m]
<1>2. \A k \in Mutexes : \A w \in Waiters(k) :
          /\ w \in Tasks /\ w # h /\ w # t /\ uxPriority'[w] = uxPriority[w]
          /\ xSemaphore'[w] = k /\ pc'[w] = pc[w] /\ xTicksToWait'[w] = xTicksToWait[w]
          /\ xInheritanceOccurred'[w] = xInheritanceOccurred[w] /\ xTicksToWait[w] # "none"
  <2>1. \A k \in Mutexes : \A w \in Waiters(k) :
          w \in Tasks /\ w # h /\ w # t /\ xSemaphore[w] = k /\ xTicksToWait[w] # "none"
    BY <1>0, <1>1, WaiterFacts
  <2> QED  BY <1>1, <2>1 DEF OthersKeepCalls
<1>3. \A u \in Tasks : UsesOneMutex(u)' <=> UsesOneMutex(u)
  BY DEF UsesOneMutex
<1>4. \A u \in Tasks : \A k \in Mutexes : xMutexHolder[k] = u => Held(u) # {}
  BY DEF Held
<1>5. WokenOutranks'
  <2> SUFFICES ASSUME NEW k \in Mutexes, NEW w \in Waiters(k), xMutexHolder[k] = NoTask
               PROVE  \E v \in ready : /\ xSemaphore'[v] = k /\ pc'[v] # "disinherit" /\ Held(v)' = {}
                                       /\ uxPriority'[v] >= uxPriority'[w]
    BY <1>1 DEF WokenOutranks
  <2>1. PICK v \in ready : /\ xSemaphore[v] = k /\ pc[v] # "disinherit" /\ Held(v) = {}
                           /\ uxPriority[v] >= uxPriority[w]
    BY <1>0 DEF WokenOutranks
  <2>2. v \in Tasks /\ v # t /\ v # h
    BY <1>0, <1>1, <1>4, <2>1 DEF TypeOK
  <2> QED  BY <1>1, <1>2, <2>1, <2>2 DEF OthersKeepCalls
<1>6. TakerOutranks'
  <2> SUFFICES ASSUME NEW k \in MayTake[t], NEW w \in Waiters(k)',
                      UsesOneMutex(t), xMutexHolder[k] = NoTask
               PROVE  uxPriority'[t] >= uxPriority'[w]
    BY <1>1, <1>3 DEF TakerOutranks
  <2>1. k \in Mutexes
    BY <1>0, MutexAssumption DEF TypeOK
  <2> QED  BY <1>0, <1>1, <1>2, <2>1 DEF TakerOutranks
<1>7. LoansNoted'
  <2> SUFFICES ASSUME NEW k \in Mutexes, NEW w \in Waiters(k), NEW g, g = xMutexHolder[k],
                      g # NoTask, UsesOneMutex(g)', uxBasePriority[g] < uxPriority'[w]
               PROVE  xInheritanceOccurred'[w]
    BY <1>1 DEF LoansNoted
  <2>1. UsesOneMutex(g) /\ uxBasePriority[g] < uxPriority[w]
    BY <1>2 DEF UsesOneMutex
  <2> QED  BY <1>0, <1>2, <2>1 DEF LoansNoted
<1>8. HolderInherits'
  <2> SUFFICES ASSUME NEW k \in Mutexes, NEW w \in Waiters(k), NEW g, g = xMutexHolder[k],
                      g # NoTask, UsesOneMutex(g)'
               PROVE  uxPriority'[g] >= uxPriority'[w]
    BY <1>1 DEF HolderInherits
  <2>1. g \in Tasks /\ UsesOneMutex(g) /\ uxPriority'[w] = uxPriority[w]
    BY <1>0, <1>2 DEF TypeOK, UsesOneMutex
  <2>2. CASE g = h
    <3>1. k = m
      <4>1. k \in MayTake[g] /\ m \in MayTake[g]
        BY <1>0, <2>1, <2>2, HoldersHold DEF TakesWhatItMay
      <4> QED  BY <1>0, <2>1, <4>1, OneMutexOnly
    <3>2. /\ uxPriority'[h] \in Nat
          /\ \A x \in Waiters(m) : uxPriority[x] <= uxPriority'[h]
      BY <1>1, <2>1, <2>2, DisinheritedPriority
    <3>3. uxPriority[w] \in Nat
      BY <1>0, <1>2 DEF TypeOK
    <3> QED  BY <2>1, <2>2, <3>1, <3>2, <3>3
  <2>3. CASE g # h
    BY <1>0, <1>1, <2>1, <2>3 DEF HolderInherits
  <2> QED  BY <2>2, <2>3
<1>9. LoansExact'
  <2> SUFFICES ASSUME NEW g \in Tasks, UsesOneMutex(g), uxPriority'[g] > uxBasePriority[g]
               PROVE  Lenders(g)' # {}
    BY <1>1, <1>3 DEF LoansExact
  <2>1. CASE g = h
    <3>1. PICK w \in Waiters(m) : uxPriority[w] = uxPriority'[g]
      BY <1>1, <2>1, DisinheritedPriority
    <3>2. uxBasePriority[g] < uxPriority[w]
      <4>1. uxBasePriority[g] \in Nat /\ uxPriority[w] \in Nat
        BY <1>0, <1>2, MutexAssumption DEF TypeOK
      <4> QED  BY <3>1, <4>1
    <3>3. xInheritanceOccurred[w]
      BY <1>0, <2>1, <3>2, NoTaskIsNoTask DEF LoansNoted
    <3>4. m \in MayTake[g]
      BY <1>0, <2>1, HoldersHold DEF TakesWhatItMay
    <3>5. w \in Lenders(g)'
      BY <1>2, <2>1, <3>1, <3>3, <3>4 DEF Lenders
    <3> QED  BY <3>5
  <2>2. CASE g # h
    <3>1. uxPriority'[g] = uxPriority[g]
      BY <1>1, <2>2
    <3>2. PICK u \in Lenders(g) : TRUE
      BY <1>0, <3>1 DEF LoansExact
    <3>3. PICK k \in Mutexes : MayTake[g] = {k} /\ xMutexHolder[k] = g
      BY <1>0, <3>1, InheritorHolds
    <3>4. u \in Tasks /\ u # g /\ u # h /\ xSemaphore[u] = k
      BY <1>0, <1>1, <3>2, <3>3, LenderFacts DEF Lenders
    <3>5. u # t
      BY <1>1, <2>2, <3>3, <3>4
    <3>6. u \in Lenders(g)'
      BY <1>1, <3>1, <3>2, <3>4, <3>5 DEF Lenders, OthersKeepCalls
    <3> QED  BY <3>6
  <2> QED  BY <2>1, <2>2
<1> QED  BY <1>5, <1>6, <1>7, <1>8, <1>9 DEF LendInv

\* The first waiter, which is made ready, outranks those that are left; so does the
\* giver, if it is not made to yield.
LEMMA GiveKeepsLoans ==
    ASSUME MutexInv, CallInv, LendInv, MutexInv', CallInv', UNCHANGED MayTake,
           NEW t \in Tasks, NEW m \in Mutexes, Give(t, m)
    PROVE  LendInv'
<1> USE DEF call
<1>0. /\ Structure /\ TypeOK /\ PriorityRestored /\ WaitsHoldNothing /\ TakesWhatItMay
      /\ WokenOutranks /\ TakerOutranks /\ LoansNoted /\ HolderInherits /\ LoansExact
      /\ WaitersOK /\ CallsOK
      /\ TypeOK' /\ WaitersOK' /\ PriorityRestored' /\ TakesWhatItMay'
  BY DEF MutexInv, Structure, CallInv, LendInv
<1> DEFINE q     == xTasksWaitingToReceive[m]
           first == FirstOf(q, 1)
<1>1. /\ xMutexHolder[m] = t /\ t \in ready /\ pc[t] = "out" /\ pxCurrentTCB = t
      /\ \A k \in Mutexes : xMutexHolder'[k] = IF k = m THEN NoTask ELSE xMutexHolder[k]
      /\ \A u \in Tasks : Held(u)' = IF u = t THEN Held(t) \ {m} ELSE Held(u)
      /\ \A u \in Tasks : u # t => uxPriority'[u] = uxPriority[u]
      /\ \A k \in Mutexes : Waiters(k)' = IF k = m THEN Waiters(m) \ first ELSE Waiters(k)
      /\ ready' = ready \cup first /\ first \subseteq Waiters(m)
      /\ q # <<>> => Head(q) \in first
      /\ \A w \in Waiters(m) : uxPriority[w] <= uxPriority[Head(q)]
      /\ \/ SwitchContext(ready', uxPriority')
         \/ UNCHANGED pxCurrentTCB /\ (q # <<>> => ~(uxPriority'[Head(q)] > uxPriority'[t]))
      /\ UNCHANGED <<pc, call>>
  BY GiveEffect
<1>2. \A k \in Mutexes : \A w \in Waiters(k) :
          /\ w \in Tasks /\ w # t /\ uxPriority'[w] = uxPriority[w]
          /\ xSemaphore[w] = k /\ pc[w] = "try" /\ Held(w) = {} /\ Held(w)' = {}
  <2>1. \A k \in Mutexes : \A w \in Waiters(k) :
          w \in Tasks /\ w # t /\ xSemaphore[w] = k /\ pc[w] = "try" /\ Held(w) = {}
    BY <1>0, <1>1, WaiterFacts
  <2> QED  BY <1>1, <2>1
<1>3. \A w \in Waiters(m) : q # <<>> /\ Head(q) \in Waiters(m)
  BY <1>1 DEF Waiters, ToSet
<1>4. /\ \A u \in Tasks : (UsesOneMutex(u)' <=> UsesOneMutex(u))
      /\ \A u \in Tasks : uxPriority[u] \in Nat /\ uxPriority'[u] \in Nat /\ uxBasePriority[u] \in Nat
  BY <1>0, MutexAssumption DEF UsesOneMutex, TypeOK
<1>5. m \in Held(t) /\ m \in MayTake[t]
  BY <1>0, <1>1, HoldersHold DEF TakesWhatItMay
<1>6. \A k \in Mutexes : Waiters(k)' \subseteq Waiters(k)
  BY <1>1
<1> HIDE DEF q, first
<1>7. WokenOutranks'
  <2> SUFFICES ASSUME NEW k \in Mutexes, NEW w \in Waiters(k)', xMutexHolder'[k] = NoTask
               PROVE  \E v \in ready' : /\ xSemaphore[v] = k /\ pc[v] # "disinherit" /\ Held(v)' = {}
                                        /\ uxPriority'[v] >= uxPriority'[w]
    BY <1>1 DEF WokenOutranks
  <2>0. w \in Waiters(k)
    BY <1>6
  <2>1. CASE k = m
    <3>1. Head(q) \in first /\ Head(q) \in Waiters(m) /\ uxPriority[w] <= uxPriority[Head(q)]
      BY <1>1, <1>3, <2>0, <2>1
    <3>2. PICK v : v = Head(q)
      OBVIOUS
    <3>3. v \in first /\ v \in Waiters(m) /\ uxPriority[w] <= uxPriority[v]
      BY <3>1, <3>2
    <3>4. /\ v \in ready' /\ xSemaphore[v] = m /\ pc[v] = "try" /\ Held(v)' = {}
          /\ uxPriority'[v] >= uxPriority'[w]
      BY <1>1, <1>2, <1>4, <2>0, <2>1, <3>3
    <3> QED  BY <2>1, <3>4
  <2>2. CASE k # m
    <3>1. xMutexHolder[k] = NoTask
      BY <1>1, <2>2
    <3>2. PICK v \in ready : /\ xSemaphore[v] = k /\ pc[v] # "disinherit" /\ Held(v) = {}
                             /\ uxPriority[v] >= uxPriority[w]
      BY <1>0, <2>0, <3>1 DEF WokenOutranks
    <3>3. v \in Tasks /\ v # t
      BY <1>0, <1>5, <3>2 DEF TypeOK
    <3> QED  BY <1>1, <1>2, <2>0, <3>2, <3>3
  <2> QED  BY <2>1, <2>2
<1>8. TakerOutranks'
  <2>1. CASE SwitchContext(ready', uxPriority')
    BY <1>0, <1>7, <2>1, SwitchKeepsTaker
  <2>2. CASE UNCHANGED pxCurrentTCB /\ (q # <<>> => ~(uxPriority'[Head(q)] > uxPriority'[t]))
    <3> SUFFICES ASSUME NEW k \in MayTake[t], NEW w \in Waiters(k)', UsesOneMutex(t)
                 PROVE  uxPriority'[t] >= uxPriority'[w]
      BY <1>1, <1>4, <2>2 DEF TakerOutranks
    <3>1. k = m
      BY <1>0, <1>5, OneMutexOnly
    <3>2. w \in Waiters(m) /\ q # <<>> /\ Head(q) \in Waiters(m)
      BY <1>3, <1>6, <3>1
    <3>3. uxPriority[w] <= uxPriority[Head(q)] /\ w \in Tasks /\ Head(q) \in Tasks
          /\ uxPriority'[w] = uxPriority[w] /\ uxPriority'[Head(q)] = uxPriority[Head(q)]
      BY <1>1, <1>2, <3>2
    <3> QED  BY <1>4, <2>2, <3>2, <3>3
  <2> QED  BY <1>1, <2>1, <2>2
<1>9. ASSUME NEW k \in Mutexes, NEW g, g = xMutexHolder'[k], g # NoTask, UsesOneMutex(g)'
      PROVE  /\ g = xMutexHolder[k] /\ k # m /\ g \in Tasks /\ UsesOneMutex(g)
             /\ g # t /\ uxPriority'[g] = uxPriority[g] /\ Waiters(k)' = Waiters(k)
  <2>1. g = xMutexHolder[k] /\ k # m /\ g \in Tasks /\ UsesOneMutex(g) /\ Waiters(k)' = Waiters(k)
    BY <1>0, <1>1, <1>4, <1>9 DEF TypeOK
  <2>2. g # t
    <3> SUFFICES ASSUME g = t
                 PROVE  FALSE
      OBVIOUS
    <3>1. k \in MayTake[t]
      BY <1>0, <2>1, HoldersHold DEF TakesWhatItMay
    <3> QED  BY <1>0, <1>5, <2>1, <3>1, OneMutexOnly
  <2> QED  BY <1>1, <2>1, <2>2
<1>10. LoansNoted'
  <2> SUFFICES ASSUME NEW k \in Mutexes, NEW w \in Waiters(k)', NEW g, g = xMutexHolder'[k],
                      g # NoTask, UsesOneMutex(g)', uxBasePriority[g] < uxPriority'[w]
               PROVE  xInheritanceOccurred[w]
    BY <1>1 DEF LoansNoted
  <2>1. /\ g = xMutexHolder[k] /\ UsesOneMutex(g) /\ w \in Waiters(k)
    BY <1>9
  <2> QED  BY <1>0, <1>2, <2>1 DEF LoansNoted
<1>11. HolderInherits'
  <2> SUFFICES ASSUME NEW k \in Mutexes, NEW w \in Waiters(k)', NEW g, g = xMutexHolder'[k],
                      g # NoTask, UsesOneMutex(g)'
               PROVE  uxPriority'[g] >= uxPriority'[w]
    BY DEF HolderInherits
  <2>1. /\ g = xMutexHolder[k] /\ UsesOneMutex(g) /\ w \in Waiters(k) /\ uxPriority'[g] = uxPriority[g]
    BY <1>9
  <2> QED  BY <1>0, <1>2, <2>1 DEF HolderInherits
<1>12. LoansExact'
  <2> SUFFICES ASSUME NEW g \in Tasks, UsesOneMutex(g), uxPriority'[g] > uxBasePriority[g]
               PROVE  Lenders(g)' # {}
    BY <1>4 DEF LoansExact
  <2>1. g # t
    <3> SUFFICES ASSUME g = t
                 PROVE  FALSE
      OBVIOUS
    <3>1. Held(t)' # {}
      BY <1>0, <1>4 DEF PriorityRestored
    <3>2. PICK k \in Held(t) : k # m
      BY <1>1, <3>1
    <3>3. k \in MayTake[t]
      BY <1>0, <3>2 DEF TakesWhatItMay
    <3> QED  BY <1>0, <1>5, <3>2, <3>3, OneMutexOnly
  <2>2. PICK u \in Lenders(g) : TRUE
    BY <1>0, <1>1, <2>1 DEF LoansExact
  <2>3. u \in Tasks /\ Held(u) = {}
    BY <1>0, <2>2, LenderFacts
  <2>4. u # t
    BY <1>5, <2>3
  <2>5. u \in Lenders(g)'
    BY <1>1, <2>1, <2>2, <2>4 DEF Lenders
  <2> QED  BY <2>5
<1> QED  BY <1>7, <1>8, <1>10, <1>11, <1>12 DEF LendInv

-----------------------------------------------------------------------------
(***************************************************************************)
(* The bit map of ready priorities                                         *)
(***************************************************************************)

\* Each ready list that holds a task has its bit.
BitsSet == NonEmpty(ready, uxPriority) \subseteq uxTopReadyPriority

\* Every other step records the changes of the ready lists it makes.
LEMMA BitsRecorded ==
    ASSUME [Next]_vars, \A t \in Tasks : ~Disinherit(t)
    PROVE  \/ UNCHANGED <<ready, uxPriority, uxTopReadyPriority>>
           \/ Record(ready', uxPriority')
<1> USE DEF sched
<1>1. CASE UNCHANGED vars \/ TimeSlice
  BY <1>1 DEF vars, TimeSlice
<1>2. ASSUME NEW t \in Tasks, Sleep(t) \/ Wake(t) \/ Expire(t)
      PROVE  \/ UNCHANGED <<ready, uxPriority, uxTopReadyPriority>>
             \/ Record(ready', uxPriority')
  BY <1>2 DEF Sleep, Wake, Expire, MakeReady, Record, NonEmpty
<1>3. ASSUME NEW t \in Tasks, Continue(t)
      PROVE  \/ UNCHANGED <<ready, uxPriority, uxTopReadyPriority>>
             \/ Record(ready', uxPriority')
  BY <1>3 DEF Continue, Succeed, FailAtOnce, NoteEntryTime, TimedOut, TryAgain, Block, EmptyCheck,
              GiveUp
<1>4. ASSUME NEW t \in Tasks,
             \/ GiveSome(t)
             \/ \E m \in Mutexes : TakeAgain(t, m) \/ \E w \in Waits : Take(t, m, w)
      PROVE  \/ UNCHANGED <<ready, uxPriority, uxTopReadyPriority>>
             \/ Record(ready', uxPriority')
  BY <1>4 DEF GiveSome, Give, GiveInner, TakeAgain, Take
<1> QED  BY <1>1, <1>2, <1>3, <1>4 DEF Next

LEMMA BitsSetStep == BitsSet /\ [Next]_vars => BitsSet'
<1> SUFFICES ASSUME BitsSet, [Next]_vars
             PROVE  BitsSet'
  OBVIOUS
<1>1. ASSUME NEW t \in Tasks, Disinherit(t)
      PROVE  BitsSet'
  BY <1>1 DEF Disinherit, BitsSet, NonEmpty
<1>2. CASE \A t \in Tasks : ~Disinherit(t)
  BY <1>2, BitsRecorded DEF BitsSet, Record, NonEmpty
<1> QED  BY <1>1, <1>2

\* When the holder's priority is taken back from under its ready list, the task that
\* lent it is ready in that list: it no longer waits.
LEMMA DisinheritKeepsBits ==
    ASSUME MutexInv, CallInv, LendInv, ReadyBitsExact, UNCHANGED MayTake,
           NEW t \in Tasks, Disinherit(t)
    PROVE  ReadyBitsExact'
<1>0. /\ Structure /\ TypeOK /\ PriorityRestored /\ WaitsHoldNothing /\ TakesWhatItMay
      /\ ReadyOrWaiting /\ HolderInherits /\ LoansExact /\ CallsOK
  BY DEF MutexInv, Structure, CallInv, LendInv
<1>1. PICK m \in Mutexes :
              /\ uxPriority' = DisinheritedAfterTimeout(xMutexHolder[m], m)
              /\ \A u \in Tasks : u # xMutexHolder[m] => uxPriority'[u] = uxPriority[u]
              /\ uxTopReadyPriority' = uxTopReadyPriority \cup NonEmpty(ready, uxPriority')
              /\ UNCHANGED ready
  BY DisinheritEffect
<1> DEFINE h == xMutexHolder[m]
<1>2. ASSUME \A u \in Tasks : UsesOneMutex(u)
      PROVE  uxTopReadyPriority' \subseteq NonEmpty(ready, uxPriority')
  <2>1. uxTopReadyPriority \subseteq NonEmpty(ready, uxPriority)
    BY <1>2 DEF ReadyBitsExact
  <2> SUFFICES ASSUME h \in ready, uxPriority'[h] # uxPriority[h]
               PROVE  uxPriority[h] \in NonEmpty(ready, uxPriority')
    <3> SUFFICES ASSUME NEW p \in uxTopReadyPriority, p \notin NonEmpty(ready, uxPriority')
                 PROVE  h \in ready /\ p = uxPriority[h] /\ uxPriority'[h] # uxPriority[h]
      BY <1>1
    <3>1. PICK v \in ready : p = uxPriority[v]
      BY <2>1 DEF NonEmpty
    <3>2. uxPriority'[v] # uxPriority[v]
      BY <3>1 DEF NonEmpty
    <3>3. v = h
      BY <1>0, <1>1, <3>2 DEF TypeOK
    <3> QED  BY <3>1, <3>2, <3>3
  <2>2. h \in Tasks /\ UsesOneMutex(h)
    BY <1>0, <1>2 DEF TypeOK
  <2>3. /\ uxPriority'[h] \in Nat /\ uxPriority'[h] >= uxBasePriority[h]
        /\ \A w \in Waiters(m) : uxPriority[w] <= uxPriority'[h]
        /\ uxPriority'[h] > uxBasePriority[h] =>
              \E w \in Waiters(m) : uxPriority[w] = uxPriority'[h]
    BY <1>1, <2>2, DisinheritedPriority
  <2>4. uxPriority[h] \in Nat /\ uxBasePriority[h] \in Nat /\ uxPriority[h] >= uxBasePriority[h]
    BY <1>0, <2>2, MutexAssumption DEF TypeOK, PriorityRestored
  <2>5. \A w \in Waiters(m) : uxPriority[w] <= uxPriority[h] /\ w \in Tasks
    <3>1. \A w \in Waiters(m) : uxPriority[h] >= uxPriority[w] /\ w \in Tasks
      BY <1>0, <2>2, NoTaskIsNoTask, WaiterFacts DEF HolderInherits
    <3>2. \A w \in Waiters(m) : uxPriority[w] \in Nat
      BY <1>0, <3>1 DEF TypeOK
    <3> QED  BY <2>4, <3>1, <3>2
  <2>6. uxPriority'[h] < uxPriority[h]
    <3>1. CASE uxPriority'[h] > uxBasePriority[h]
      <4>1. PICK w \in Waiters(m) : uxPriority[w] = uxPriority'[h]
        BY <2>3, <3>1
      <4>2. uxPriority'[h] <= uxPriority[h]
        BY <2>5, <4>1
      <4> QED  BY <2>3, <2>4, <4>2
    <3>2. CASE ~(uxPriority'[h] > uxBasePriority[h])
      BY <2>3, <2>4, <3>2
    <3> QED  BY <3>1, <3>2
  <2>7. uxPriority[h] > uxBasePriority[h]
    BY <2>3, <2>4, <2>6
  <2>8. PICK u \in Lenders(h) : TRUE
    BY <1>0, <2>2, <2>7 DEF LoansExact
  <2>9. PICK k \in Mutexes : MayTake[h] = {k} /\ Held(h) = {k}
    BY <1>0, <2>2, <2>7, InheritorHolds
  <2>10. k = m
    BY <1>0, <2>2, <2>9, HoldersHold
  <2>11. /\ u \in Tasks /\ u # h /\ xSemaphore[u] = m /\ uxPriority[u] = uxPriority[h]
    BY <2>8, <2>9, <2>10 DEF Lenders
  <2>12. u \notin Waiters(m)
    <3>1. ~(uxPriority[u] <= uxPriority'[h])
      BY <2>3, <2>4, <2>6, <2>11
    <3> QED  BY <2>3, <3>1
  <2>13. u \in ready
    <3>1. pc[u] # "out"
      BY <1>0, <2>11, NoMutexIsNoMutex DEF CallsOK
    <3> QED  BY <1>0, <2>11, <2>12, <3>1 DEF ReadyOrWaiting
  <2>14. uxPriority'[u] = uxPriority[h]
    BY <1>1, <2>11
  <2> QED  BY <2>13, <2>14 DEF NonEmpty
<1>3. \A u \in Tasks : UsesOneMutex(u)' <=> UsesOneMutex(u)
  BY DEF UsesOneMutex
<1>4. NonEmpty(ready', uxPriority') \subseteq uxTopReadyPriority'
  BY <1>1
<1> QED  BY <1>1, <1>2, <1>3, <1>4 DEF ReadyBitsExact, UsesOneMutex

LEMMA OtherStepsKeepBits ==
    ASSUME ReadyBitsExact, UNCHANGED MayTake, [Next]_vars, \A t \in Tasks : ~Disinherit(t)
    PROVE  ReadyBitsExact'
<1>1. \/ UNCHANGED <<ready, uxPriority, uxTopReadyPriority>>
      \/ Record(ready', uxPriority')
  BY BitsRecorded
<1>2. CASE UNCHANGED <<ready, uxPriority, uxTopReadyPriority>>
  BY <1>2 DEF ReadyBitsExact, NonEmpty, UsesOneMutex
<1>3. CASE Record(ready', uxPriority')
  <2>1. uxTopReadyPriority' =
            (uxTopReadyPriority \ NonEmpty(ready, uxPriority)) \cup NonEmpty(ready', uxPriority')
    BY <1>3 DEF Record
  <2>2. NonEmpty(ready', uxPriority') \subseteq uxTopReadyPriority'
    BY <2>1
  <2>3. ASSUME \A u \in Tasks : UsesOneMutex(u)
        PROVE  uxTopReadyPriority' \subseteq NonEmpty(ready', uxPriority')
    BY <2>1, <2>3 DEF ReadyBitsExact
  <2>4. \A u \in Tasks : UsesOneMutex(u)' <=> UsesOneMutex(u)
    BY DEF UsesOneMutex
  <2> QED  BY <2>2, <2>3, <2>4 DEF ReadyBitsExact, UsesOneMutex
<1> QED  BY <1>1, <1>2, <1>3

-----------------------------------------------------------------------------
(***************************************************************************)
(* Theorems on inheritance                                                 *)
(***************************************************************************)

InheritanceInv == MutexInv /\ CallInv /\ LendInv /\ ReadyBitsExact

LEMMA InitInheritance == Init => InheritanceInv
<1> SUFFICES ASSUME Init
             PROVE  InheritanceInv
  OBVIOUS
<1>1. MutexInv
  BY InitMutex
<1>2. /\ \A t \in Tasks : Held(t) = {}
      /\ \A m \in Mutexes : Waiters(m) = {} /\ xMutexHolder[m] = NoTask
      /\ \A t \in Tasks : uxPriority[t] = uxBasePriority[t] /\ uxBasePriority[t] \in Nat
  BY MutexAssumption DEF Init, Held, Waiters, ToSet
<1>3. CallInv
  BY <1>2 DEF Init, CallInv, TakesWhatItMay, WaitsHoldNothing, WaitersInOrder, ReadyOrWaiting, Ascending
<1>4. LendInv
  <2>1. WokenOutranks /\ LoansNoted /\ HolderInherits
    BY <1>2 DEF WokenOutranks, LoansNoted, HolderInherits
  <2>2. TakerOutranks
    <3>1. \A t \in Tasks : pxCurrentTCB # t
      BY NoTaskIsNoTask DEF Init
    <3> QED  BY <3>1 DEF TakerOutranks
  <2>3. LoansExact
    BY <1>2 DEF LoansExact
  <2> QED  BY <2>1, <2>2, <2>3 DEF LendInv
<1>5. ReadyBitsExact
  BY DEF Init, ReadyBitsExact, NonEmpty
<1> QED  BY <1>1, <1>3, <1>4, <1>5 DEF InheritanceInv

LEMMA InheritanceStep ==
    ASSUME ~NestedWaits, InheritanceInv, [Next]_vars
    PROVE  InheritanceInv'
<1>0. MutexInv /\ CallInv /\ LendInv /\ ReadyBitsExact /\ UNCHANGED MayTake /\ MutexInv'
  BY MutexStep DEF InheritanceInv, Next, vars
<1>1. ReadyBitsExact'
  BY <1>0, DisinheritKeepsBits, OtherStepsKeepBits
<1>2. CASE TimeSlice \/ \E t \in Tasks : Sleep(t) \/ Wake(t)
  <2>1. /\ UNCHANGED <<xMutexHolder, xTasksWaitingToReceive, uxPriority, pc, call>>
        /\ \A u \in Tasks : pc[u] # "out" => (u \in ready => u \in ready')
    BY <1>2 DEF TimeSlice, Sleep, Wake, MakeReady, mutexes
  <2>2. CallInv'
    BY <1>0, <2>1, SchedulingKeepsCalls
  <2>3. LendInv'
    BY <1>0, <1>2, <2>2, QuietStepsKeepLoans
  <2> QED  BY <1>0, <1>1, <2>2, <2>3 DEF InheritanceInv
<1>3. ASSUME NEW t \in Tasks, Expire(t)
      PROVE  InheritanceInv'
  <2>1. CallInv'
    BY <1>0, <1>3, ExpireKeepsCalls
  <2>2. LendInv'
    BY <1>0, <1>3, <2>1, QuietStepsKeepLoans
  <2> QED  BY <1>0, <1>1, <2>1, <2>2 DEF InheritanceInv
<1>4. ASSUME NEW t \in Tasks,
             \/ FailAtOnce(t) \/ NoteEntryTime(t) \/ TimedOut(t) \/ TryAgain(t)
             \/ EmptyCheck(t) \/ GiveUp(t)
             \/ \E m \in Mutexes : \E w \in Waits : Take(t, m, w)
      PROVE  InheritanceInv'
  <2>1. CallInv'
    BY <1>0, <1>4, CallStepsKeepCalls
  <2>2. LendInv'
    BY <1>0, <1>4, <2>1, QuietStepsKeepLoans
  <2> QED  BY <1>0, <1>1, <2>1, <2>2 DEF InheritanceInv
<1>5. ASSUME NEW t \in Tasks, NEW m \in Mutexes, TakeAgain(t, m) \/ GiveInner(t, m)
      PROVE  InheritanceInv'
  <2>1. /\ UNCHANGED <<xMutexHolder, xTasksWaitingToReceive, uxPriority, pc, call>>
        /\ UNCHANGED ready
    BY <1>5 DEF TakeAgain, GiveInner, sched
  <2>2. CallInv'
    BY <1>0, <2>1, SchedulingKeepsCalls
  <2>3. LendInv'
    BY <1>0, <1>5, <2>2, QuietStepsKeepLoans
  <2> QED  BY <1>0, <1>1, <2>2, <2>3 DEF InheritanceInv
<1>6. ASSUME NEW t \in Tasks, Succeed(t) \/ Block(t) \/ Disinherit(t)
      PROVE  InheritanceInv'
  <2>1. CallInv'
    BY <1>0, <1>6, MovesKeepCalls
  <2>2. LendInv'
    BY <1>0, <1>6, <2>1, SucceedKeepsLoans, BlockKeepsLoans, DisinheritKeepsLoans
  <2> QED  BY <1>0, <1>1, <2>1, <2>2 DEF InheritanceInv
<1>7. ASSUME NEW t \in Tasks, NEW m \in Mutexes, Give(t, m)
      PROVE  InheritanceInv'
  <2>1. CallInv'
    BY <1>0, <1>7, MovesKeepCalls
  <2>2. LendInv'
    BY <1>0, <1>7, <2>1, GiveKeepsLoans
  <2> QED  BY <1>0, <1>1, <2>1, <2>2 DEF InheritanceInv
<1>8. CASE UNCHANGED vars
  <2>1. /\ UNCHANGED <<xMutexHolder, xTasksWaitingToReceive, uxPriority, pc, call>>
        /\ UNCHANGED <<ready, pxCurrentTCB>>
    BY <1>8 DEF vars, mutexes, sched
  <2>2. CallInv'
    BY <1>0, <2>1, SchedulingKeepsCalls
  <2>3. LendInv'
    BY <1>0, <2>1, <2>2, LendFrame DEF call, Waiters
  <2> QED  BY <1>0, <1>1, <2>2, <2>3 DEF InheritanceInv
<1> QED
  BY <1>2, <1>3, <1>4, <1>5, <1>6, <1>7, <1>8 DEF Next, Continue, GiveSome

THEOREM InheritanceInvariance ==
    ASSUME ~NestedWaits
    PROVE  Spec => []InheritanceInv
<1>1. Init => InheritanceInv
  BY InitInheritance
<1>2. InheritanceInv /\ [Next]_vars => InheritanceInv'
  BY InheritanceStep
<1> QED  BY <1>1, <1>2, PTL DEF Spec

\* Where no task waits for a mutex while it holds another: the holder of a mutex, if
\* it uses no other, has at least the priority of every task that waits for it.
THEOREM HoldersInherit ==
    ASSUME ~NestedWaits
    PROVE  Spec => []HolderInherits
<1>1. InheritanceInv => HolderInherits
  BY DEF InheritanceInv, LendInv
<1> QED  BY <1>1, InheritanceInvariance, PTL

\* There, too: a task that uses one mutex keeps an inherited priority no longer than
\* a task of that priority waits, or has yet to take its priority back.
THEOREM InheritanceHasReason ==
    ASSUME ~NestedWaits
    PROVE  Spec => []InheritedForAReason
<1>1. InheritanceInv => InheritedForAReason
  <2> SUFFICES ASSUME InheritanceInv, NEW h \in Tasks, UsesOneMutex(h),
                      uxPriority[h] > uxBasePriority[h]
               PROVE  \E t \in Tasks \ {h} : xSemaphore[t] \in MayTake[h] /\ uxPriority[t] >= uxPriority[h]
    BY DEF InheritedForAReason
  <2>1. LoansExact /\ uxPriority[h] \in Nat
    BY DEF InheritanceInv, LendInv, MutexInv, Structure, TypeOK
  <2>2. PICK u \in Lenders(h) : TRUE
    BY <2>1 DEF LoansExact
  <2> QED  BY <2>1, <2>2 DEF Lenders
<1> QED  BY <1>1, InheritanceInvariance, PTL

\* The bits of the ready lists are exact where each task uses one mutex, and are never
\* missing.
THEOREM ReadyBitsAreExact ==
    ASSUME ~NestedWaits
    PROVE  Spec => []ReadyBitsExact
<1>1. InheritanceInv => ReadyBitsExact
  BY DEF InheritanceInv
<1> QED  BY <1>1, InheritanceInvariance, PTL

\* In any program at all, a ready list that holds a task has its bit.
THEOREM ReadyBitsAreSet == Spec => []BitsSet
<1>1. Init => BitsSet
  BY DEF Init, BitsSet, NonEmpty
<1>2. BitsSet /\ [Next]_vars => BitsSet'
  BY BitsSetStep
<1> QED  BY <1>1, <1>2, PTL DEF Spec

\* "If a task has timed out because it already holds the mutex it was trying to obtain
\* then it cannot of inherited its own priority" (configASSERT( pxTCB != pxCurrentTCB )
\* in vTaskPriorityDisinheritAfterTimeout).
OthersPriorityTakenBack ==
    \A t \in Tasks : pc[t] = "disinherit" => xMutexHolder[xSemaphore[t]] # t

\* Without nested waits that assertion holds.
THEOREM NoTaskDisinheritsItself ==
    ASSUME ~NestedWaits
    PROVE  Spec => []OthersPriorityTakenBack
<1>1. InheritanceInv => OthersPriorityTakenBack
  <2> SUFFICES ASSUME InheritanceInv, NEW t \in Tasks, pc[t] = "disinherit"
               PROVE  xMutexHolder[xSemaphore[t]] # t
    BY DEF OthersPriorityTakenBack
  <2>1. Held(t) = {} /\ xSemaphore[t] \in Mutexes
    BY DEF InheritanceInv, CallInv, WaitsHoldNothing, MutexInv, Structure, CallsOK
  <2> QED  BY <2>1 DEF Held
<1> QED  BY <1>1, InheritanceInvariance, PTL
=============================================================================
