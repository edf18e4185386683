----------------------------- MODULE QueueProofs -----------------------------
(***************************************************************************)
(* Proofs about Queue for every set of tasks, every priority assignment,   *)
(* queue length, set of items and choice of calls, in three parts: the     *)
(* structure of the queue, that no wakeup is lost, and that it implements  *)
(* BoundedFIFO.                                                            *)
(***************************************************************************)
EXTENDS QueueInv, ListOpsProofs

(***************************************************************************)
(* Structure: StructureOK is shown inductive, one lemma per action, and    *)
(* with it TypeOK, PriorityOrder and OnePlace.                             *)
(***************************************************************************)

LEMMA ItemValueType == ItemValue \in [Tasks -> Int]
  BY QueueAssumption DEF QueueAssumption, ItemValue

\* What the structural invariant says of the two event lists.
LEMMA Lists ==
    ASSUME StructureOK
    PROVE  /\ xTasksWaitingToSend \in Seq(Tasks) /\ xTasksWaitingToReceive \in Seq(Tasks)
           /\ NoDuplicates(xTasksWaitingToSend) /\ NoDuplicates(xTasksWaitingToReceive)
           /\ Ascending(xTasksWaitingToSend, ItemValue)
           /\ Ascending(xTasksWaitingToReceive, ItemValue)
           /\ ToSet(xTasksWaitingToSend) \subseteq Tasks
           /\ ToSet(xTasksWaitingToReceive) \subseteq Tasks
  BY ToSetSeq DEF StructureOK, TypeOK, PriorityOrder

\* Waking the first n receivers moves them from the event list to one of the
\* two ready lists.
LEMMA WakeReceiversEffect ==
    ASSUME StructureOK, NEW n \in Nat, WakeReceivers(n)
    PROVE  LET W == FirstOf(xTasksWaitingToReceive, n)
           IN  /\ W \subseteq ToSet(xTasksWaitingToReceive)
               /\ xTasksWaitingToReceive' \in Seq(Tasks)
               /\ NoDuplicates(xTasksWaitingToReceive')
               /\ Ascending(xTasksWaitingToReceive', ItemValue)
               /\ ToSet(xTasksWaitingToReceive') = ToSet(xTasksWaitingToReceive) \ W
               /\ xTasksWaitingToReceive' # <<>> => Cardinality(W) = n
               /\ xTasksWaitingToSend' = xTasksWaitingToSend
               /\ schedulerOwner' = schedulerOwner
               /\ IF schedulerOwner = NoTask
                  THEN ready' = ready \cup W /\ xPendingReadyList' = xPendingReadyList
                  ELSE ready' = ready /\ xPendingReadyList' = xPendingReadyList \cup W
  <1>1. /\ xTasksWaitingToReceive' = RestOf(xTasksWaitingToReceive, n)
        /\ xTasksWaitingToSend' = xTasksWaitingToSend
        /\ MakeReady(FirstOf(xTasksWaitingToReceive, n))
    BY DEF WakeReceivers
  <1> QED BY <1>1, Lists, RestOfProperties, ItemValueType DEF MakeReady

LEMMA WakeSendersEffect ==
    ASSUME StructureOK, NEW n \in Nat, WakeSenders(n)
    PROVE  LET W == FirstOf(xTasksWaitingToSend, n)
           IN  /\ W \subseteq ToSet(xTasksWaitingToSend)
               /\ xTasksWaitingToSend' \in Seq(Tasks)
               /\ NoDuplicates(xTasksWaitingToSend')
               /\ Ascending(xTasksWaitingToSend', ItemValue)
               /\ ToSet(xTasksWaitingToSend') = ToSet(xTasksWaitingToSend) \ W
               /\ xTasksWaitingToSend' # <<>> => Cardinality(W) = n
               /\ xTasksWaitingToReceive' = xTasksWaitingToReceive
               /\ schedulerOwner' = schedulerOwner
               /\ IF schedulerOwner = NoTask
                  THEN ready' = ready \cup W /\ xPendingReadyList' = xPendingReadyList
                  ELSE ready' = ready /\ xPendingReadyList' = xPendingReadyList \cup W
  <1>1. /\ xTasksWaitingToSend' = RestOf(xTasksWaitingToSend, n)
        /\ xTasksWaitingToReceive' = xTasksWaitingToReceive
        /\ MakeReady(FirstOf(xTasksWaitingToSend, n))
    BY DEF WakeSenders
  <1> QED BY <1>1, Lists, RestOfProperties, ItemValueType DEF MakeReady

\* The ring buffer stays inside its bounds.
LEMMA CopyToQueueType ==
    ASSUME TypeOK, NEW x \in Items, NEW pos \in SendOps, HasRoom(pos), CopyToQueue(x, pos)
    PROVE  /\ storage' \in [0 .. uxLength - 1 -> Items \cup {NoItem}]
           /\ pcWriteTo' \in 0 .. uxLength - 1 /\ pcReadFrom' \in 0 .. uxLength - 1
           /\ uxMessagesWaiting' \in 0 .. uxLength
           /\ lastRead' \in Items \cup {NoItem}
           /\ uxMessagesWaiting' <= uxMessagesWaiting + 1
           /\ uxMessagesWaiting' >= uxMessagesWaiting
  <1>1. uxLength \in Nat /\ uxLength > 0
    BY QueueAssumption DEF QueueAssumption
  <1>2. /\ storage \in [0 .. uxLength - 1 -> Items \cup {NoItem}]
        /\ pcWriteTo \in 0 .. uxLength - 1 /\ pcReadFrom \in 0 .. uxLength - 1
        /\ uxMessagesWaiting \in 0 .. uxLength /\ lastRead \in Items \cup {NoItem}
    BY DEF TypeOK
  <1>3. /\ uxMessagesWaiting' \in 0 .. uxLength /\ lastRead' \in Items \cup {NoItem}
        /\ uxMessagesWaiting' <= uxMessagesWaiting + 1
        /\ uxMessagesWaiting' >= uxMessagesWaiting
    BY <1>1, <1>2 DEF CopyToQueue, HasRoom, IsEmpty
  <1>4. CASE pos = "back"
    <2>1. storage' = [storage EXCEPT ![pcWriteTo] = x] /\ pcReadFrom' = pcReadFrom
          /\ pcWriteTo' = IF pcWriteTo + 1 >= uxLength THEN 0 ELSE pcWriteTo + 1
      BY <1>4 DEF CopyToQueue, Following
    <2>2. storage' \in [0 .. uxLength - 1 -> Items \cup {NoItem}]
      BY <1>2, <2>1
    <2>3. pcWriteTo' \in 0 .. uxLength - 1
      BY <1>1, <1>2, <2>1
    <2> QED BY <1>2, <1>3, <2>1, <2>2, <2>3
  <1>5. CASE pos # "back"
    <2>1. storage' = [storage EXCEPT ![pcReadFrom] = x] /\ pcWriteTo' = pcWriteTo
          /\ pcReadFrom' = IF pcReadFrom = 0 THEN uxLength - 1 ELSE pcReadFrom - 1
      BY <1>5 DEF CopyToQueue
    <2>2. storage' \in [0 .. uxLength - 1 -> Items \cup {NoItem}]
      BY <1>2, <2>1
    <2>3. pcReadFrom' \in 0 .. uxLength - 1
      BY <1>1, <1>2, <2>1
    <2> QED BY <1>2, <1>3, <2>1, <2>2, <2>3
  <1> QED BY <1>4, <1>5

LEMMA CopyFromQueueType ==
    ASSUME TypeOK, ~IsEmpty, CopyFromQueue
    PROVE  /\ storage' \in [0 .. uxLength - 1 -> Items \cup {NoItem}]
           /\ pcWriteTo' \in 0 .. uxLength - 1 /\ pcReadFrom' \in 0 .. uxLength - 1
           /\ uxMessagesWaiting' \in 0 .. uxLength
           /\ lastRead' \in Items \cup {NoItem}
           /\ uxMessagesWaiting' = uxMessagesWaiting - 1
  <1>1. uxLength \in Nat /\ uxLength > 0
    BY QueueAssumption DEF QueueAssumption
  <1> QED BY <1>1 DEF TypeOK, CopyFromQueue, IsEmpty, Following, NextRead

\* A queue as prvInitialiseNewQueue leaves it, with no call in progress, has that
\* structure.
THEOREM InitStructure == Init => StructureOK
  <1> SUFFICES ASSUME Init PROVE StructureOK
    OBVIOUS
  <1> USE DEF Init
  <1>1. TypeOK
    <2>1. uxLength \in Nat /\ uxLength > 0 /\ uxNumberOfTasks \in Nat
      BY QueueAssumption DEF QueueAssumption
    <2>2. /\ storage \in [0 .. uxLength - 1 -> Items \cup {NoItem}]
          /\ pcWriteTo \in 0 .. uxLength - 1 /\ pcReadFrom \in 0 .. uxLength - 1
          /\ uxMessagesWaiting \in 0 .. uxLength /\ lastRead \in Items \cup {NoItem}
      BY <2>1
    <2>3. /\ cTxLock \in queueUNLOCKED .. uxNumberOfTasks
          /\ cRxLock \in queueUNLOCKED .. uxNumberOfTasks
      BY <2>1 DEF queueUNLOCKED
    <2>4. xTasksWaitingToSend \in Seq(Tasks) /\ xTasksWaitingToReceive \in Seq(Tasks)
      BY EmptySeq
    <2>5. /\ pc \in [Tasks -> Steps] /\ op \in [Tasks -> AllOps \cup {"none"}]
          /\ arg \in [Tasks -> Items \cup {NoItem} \cup Tasks]
      BY DEF Steps
    <2>6. /\ xTicksToWait \in [Tasks -> {"none", "finite", "forever"}]
          /\ xTimeOut \in [Tasks -> {"unset", "running", "expired"}]
          /\ xTimedOut \in BOOLEAN
      OBVIOUS
    <2>7. /\ ready \subseteq Tasks /\ xPendingReadyList \subseteq Tasks
          /\ schedulerOwner \in Tasks \cup {NoTask} /\ ucDelayAborted \subseteq Tasks
      OBVIOUS
    <2> HIDE DEF Init
    <2> QED BY <2>2, <2>3, <2>4, <2>5, <2>6, <2>7 DEF TypeOK
  <1>2. CallOK
    BY DEF CallOK, SendOps, ReadOps
  <1>3. OwnerOK
    BY QueueAssumption DEF OwnerOK, OwnerSteps, QueueAssumption
  <1>4. LockOK
    BY DEF LockOK, LockedSteps
  <1>5. PlacesOK
    BY DEF PlacesOK, ToSet
  <1>6. PriorityOrder
    BY DEF PriorityOrder, NoDuplicates, Ascending
  <1> QED BY <1>1, <1>2, <1>3, <1>4, <1>5, <1>6 DEF StructureOK

-----------------------------------------------------------------------------
(***************************************************************************)
(* StructureOK is inductive: one lemma per action                          *)
(***************************************************************************)

\* The running task holds the scheduler, or nobody does and it is ready.
LEMMA RunningTask ==
    ASSUME StructureOK, NEW t \in Tasks, Running(t)
    PROVE  /\ pc[t] \in OwnerSteps <=> schedulerOwner = t
           /\ pc[t] \notin OwnerSteps <=> schedulerOwner = NoTask
           /\ pc[t] \notin {"unlockTx", "unlockRx", "resume"} => t \in ready
  <1>1. NoTask \notin Tasks
    BY QueueAssumption DEF QueueAssumption
  <1>2. pc[t] \in OwnerSteps <=> t = schedulerOwner
    BY DEF StructureOK, OwnerOK
  <1>3. schedulerOwner = NoTask \/ schedulerOwner = t
    BY DEF Running
  <1>4. schedulerOwner = NoTask => t \in ready
    BY DEF Running
  <1>5. t \notin ready => pc[t] \in OffSteps
    BY DEF StructureOK, PlacesOK
  <1>6. schedulerOwner = t => pc[t] # "try"
    BY <1>2 DEF OwnerSteps
  <1> QED BY <1>1, <1>2, <1>3, <1>4, <1>5, <1>6 DEF OffSteps

\* A step that moves no task between the lists, and leaves the calls of those
\* that are not ready alone.
LEMMA PlacesUnchanged ==
    ASSUME StructureOK,
           UNCHANGED <<lists, ready, xPendingReadyList>>,
           \A u \in Tasks \ ready : pc'[u] \in OffSteps /\ op'[u] = op[u]
    PROVE  PlacesOK' /\ PriorityOrder'
  <1>1. PriorityOrder'
    BY DEF StructureOK, PriorityOrder, lists
  <1>2. PlacesOK'
    BY DEF StructureOK, PlacesOK, lists
  <1> QED BY <1>1, <1>2

LEMMA CallStructure ==
    ASSUME StructureOK, NEW t \in Tasks, Call(t)
    PROVE  StructureOK'
  <1>1. t \in ready /\ schedulerOwner = NoTask
    BY RunningTask DEF Call, OwnerSteps
  <1>2. PICK o \in Ops[t], w \in Waits :
          /\ op' = [op EXCEPT ![t] = o]
          /\ xTicksToWait' = [xTicksToWait EXCEPT ![t] = w]
          /\ \/ o \in SendOps /\ \E x \in Items : arg' = [arg EXCEPT ![t] = x]
             \/ o \in ReadOps \cup {"reset"} /\ UNCHANGED arg
             \/ o = "abort" /\ \E u \in Tasks \ {t} : arg' = [arg EXCEPT ![t] = u]
          /\ pc' = [pc EXCEPT ![t] = IF o = "abort" THEN "suspend" ELSE "try"]
    BY DEF Call, GoTo
  <1>3. o \in AllOps /\ w \in {"none", "finite", "forever"}
    BY QueueAssumption DEF QueueAssumption
  <1>4. /\ UNCHANGED <<ring, locks, lists, sched, xTimeOut, flags>>
        /\ pc[t] = "idle"
    BY DEF Call
  <1> USE DEF StructureOK
  <1>5. TypeOK'
    <2>1. arg' \in [Tasks -> Items \cup {NoItem} \cup Tasks]
      BY <1>2 DEF TypeOK
    <2>2. op' \in [Tasks -> AllOps \cup {"none"}] /\ pc' \in [Tasks -> Steps]
          /\ xTicksToWait' \in [Tasks -> {"none", "finite", "forever"}]
      BY <1>2, <1>3 DEF TypeOK, Steps
    <2> QED BY <1>4, <2>1, <2>2 DEF TypeOK, ring, locks, lists, sched, flags
  <1>6. CallOK'
    BY <1>2, <1>3, <1>4 DEF CallOK, TypeOK, SendOps, ReadOps, AllOps
  <1>7. OwnerOK'
    BY <1>1, <1>2, <1>4 DEF OwnerOK, TypeOK, OwnerSteps, sched, flags
  <1>8. LockOK'
    BY <1>1, <1>2, <1>4 DEF LockOK, TypeOK, sched, locks
  <1>9. PlacesOK' /\ PriorityOrder'
    <2>1. \A u \in Tasks \ ready : pc'[u] = pc[u] /\ op'[u] = op[u]
      BY <1>1, <1>2 DEF TypeOK
    <2>2. \A u \in Tasks \ ready : pc'[u] \in OffSteps /\ op'[u] = op[u]
      BY <2>1 DEF PlacesOK
    <2> QED BY <1>4, <2>2, PlacesUnchanged DEF sched
  <1> QED BY <1>5, <1>6, <1>7, <1>8, <1>9

\* Waking receivers, or senders, keeps every task in one place.
LEMMA WakeReceiversPlaces ==
    ASSUME StructureOK, NEW n \in Nat, WakeReceivers(n),
           \A u \in Tasks \ ready : pc'[u] \in OffSteps /\ op'[u] = op[u]
    PROVE  /\ PlacesOK' /\ PriorityOrder'
           /\ xTasksWaitingToReceive' \in Seq(Tasks)
           /\ xTasksWaitingToSend' \in Seq(Tasks)
           /\ ready' \subseteq Tasks /\ xPendingReadyList' \subseteq Tasks
           /\ schedulerOwner' = schedulerOwner
           /\ schedulerOwner = NoTask => xPendingReadyList' = xPendingReadyList
           /\ ready \subseteq ready'
  <1> DEFINE W == FirstOf(xTasksWaitingToReceive, n)
  <1>1. /\ W \subseteq ToSet(xTasksWaitingToReceive)
        /\ xTasksWaitingToReceive' \in Seq(Tasks)
        /\ NoDuplicates(xTasksWaitingToReceive')
        /\ Ascending(xTasksWaitingToReceive', ItemValue)
        /\ ToSet(xTasksWaitingToReceive') = ToSet(xTasksWaitingToReceive) \ W
        /\ xTasksWaitingToSend' = xTasksWaitingToSend
        /\ schedulerOwner' = schedulerOwner
        /\ IF schedulerOwner = NoTask
           THEN ready' = ready \cup W /\ xPendingReadyList' = xPendingReadyList
           ELSE ready' = ready /\ xPendingReadyList' = xPendingReadyList \cup W
    BY WakeReceiversEffect
  <1>2. /\ ready \subseteq Tasks /\ xPendingReadyList \subseteq Tasks
        /\ xTasksWaitingToSend \in Seq(Tasks)
        /\ ToSet(xTasksWaitingToReceive) \subseteq Tasks
    BY Lists DEF StructureOK, TypeOK
  <1>3. ItemValue' = ItemValue
    BY DEF ItemValue
  <1>4. PriorityOrder'
    <2>1. PriorityOrder
      BY DEF StructureOK
    <2> QED BY <1>1, <1>3, <2>1 DEF PriorityOrder
  <1>5. ToSet(xTasksWaitingToSend') = ToSet(xTasksWaitingToSend)
    BY <1>1
  <1> HIDE DEF W
  <1>6. PlacesOK'
    <2>1. PlacesOK
      BY DEF StructureOK
    <2> QED BY <1>1, <1>2, <1>5, <2>1 DEF PlacesOK
  <1> QED BY <1>1, <1>2, <1>4, <1>6

LEMMA WakeSendersPlaces ==
    ASSUME StructureOK, NEW n \in Nat, WakeSenders(n),
           \A u \in Tasks \ ready : pc'[u] \in OffSteps /\ op'[u] = op[u]
    PROVE  /\ PlacesOK' /\ PriorityOrder'
           /\ xTasksWaitingToReceive' \in Seq(Tasks)
           /\ xTasksWaitingToSend' \in Seq(Tasks)
           /\ ready' \subseteq Tasks /\ xPendingReadyList' \subseteq Tasks
           /\ schedulerOwner' = schedulerOwner
           /\ schedulerOwner = NoTask => xPendingReadyList' = xPendingReadyList
           /\ ready \subseteq ready'
  <1> DEFINE W == FirstOf(xTasksWaitingToSend, n)
  <1>1. /\ W \subseteq ToSet(xTasksWaitingToSend)
        /\ xTasksWaitingToSend' \in Seq(Tasks)
        /\ NoDuplicates(xTasksWaitingToSend')
        /\ Ascending(xTasksWaitingToSend', ItemValue)
        /\ ToSet(xTasksWaitingToSend') = ToSet(xTasksWaitingToSend) \ W
        /\ xTasksWaitingToReceive' = xTasksWaitingToReceive
        /\ schedulerOwner' = schedulerOwner
        /\ IF schedulerOwner = NoTask
           THEN ready' = ready \cup W /\ xPendingReadyList' = xPendingReadyList
           ELSE ready' = ready /\ xPendingReadyList' = xPendingReadyList \cup W
    BY WakeSendersEffect
  <1>2. /\ ready \subseteq Tasks /\ xPendingReadyList \subseteq Tasks
        /\ xTasksWaitingToReceive \in Seq(Tasks)
        /\ ToSet(xTasksWaitingToSend) \subseteq Tasks
    BY Lists DEF StructureOK, TypeOK
  <1>3. ItemValue' = ItemValue
    BY DEF ItemValue
  <1>4. PriorityOrder'
    <2>1. PriorityOrder
      BY DEF StructureOK
    <2> QED BY <1>1, <1>3, <2>1 DEF PriorityOrder
  <1>5. ToSet(xTasksWaitingToReceive') = ToSet(xTasksWaitingToReceive)
    BY <1>1
  <1> HIDE DEF W
  <1>6. PlacesOK'
    <2>1. PlacesOK
      BY DEF StructureOK
    <2> QED BY <1>1, <1>2, <1>5, <2>1 DEF PlacesOK
  <1> QED BY <1>1, <1>2, <1>4, <1>6

\* The end of a call.
LEMMA ReturnEffect ==
    ASSUME StructureOK, NEW t \in Tasks, Return(t)
    PROVE  /\ pc' \in [Tasks -> Steps] /\ op' \in [Tasks -> AllOps \cup {"none"}]
           /\ arg' \in [Tasks -> Items \cup {NoItem} \cup Tasks]
           /\ xTicksToWait' \in [Tasks -> {"none", "finite", "forever"}]
           /\ xTimeOut' \in [Tasks -> {"unset", "running", "expired"}]
           /\ CallOK'
           /\ pc'[t] = "idle" /\ op'[t] = "none"
           /\ \A u \in Tasks \ {t} : pc'[u] = pc[u] /\ op'[u] = op[u]
  <1>1. /\ pc' = [pc EXCEPT ![t] = "idle"] /\ op' = [op EXCEPT ![t] = "none"]
        /\ arg' = [arg EXCEPT ![t] = NoItem]
        /\ xTicksToWait' = [xTicksToWait EXCEPT ![t] = "none"]
        /\ xTimeOut' = [xTimeOut EXCEPT ![t] = "unset"]
    BY DEF Return, GoTo
  <1>2. TypeOK /\ CallOK
    BY DEF StructureOK
  <1>3. pc' \in [Tasks -> Steps] /\ op' \in [Tasks -> AllOps \cup {"none"}]
    BY <1>1, <1>2 DEF TypeOK, Steps
  <1>4. /\ arg' \in [Tasks -> Items \cup {NoItem} \cup Tasks]
        /\ xTicksToWait' \in [Tasks -> {"none", "finite", "forever"}]
        /\ xTimeOut' \in [Tasks -> {"unset", "running", "expired"}]
    BY <1>1, <1>2 DEF TypeOK
  <1>5. /\ pc'[t] = "idle" /\ op'[t] = "none"
        /\ \A u \in Tasks \ {t} : pc'[u] = pc[u] /\ op'[u] = op[u] /\ arg'[u] = arg[u]
    BY <1>1, <1>2 DEF TypeOK
  <1>6. CallOK'
    BY <1>2, <1>5 DEF CallOK, SendOps, ReadOps
  <1> QED BY <1>3, <1>4, <1>5, <1>6

\* A step taken while nobody holds the scheduler, after which nobody does.
LEMMA UnownedStep ==
    ASSUME StructureOK, NEW t \in Tasks, schedulerOwner = NoTask,
           pc'[t] \notin OwnerSteps, \A u \in Tasks \ {t} : pc'[u] = pc[u],
           UNCHANGED <<locks, schedulerOwner, xPendingReadyList, flags>>
    PROVE  OwnerOK' /\ LockOK' /\ ~xTimedOut
  <1>1. ready \subseteq Tasks /\ NoTask \notin Tasks
    BY QueueAssumption DEF QueueAssumption, StructureOK, TypeOK
  <1>2. OwnerOK
    BY DEF StructureOK
  <1>3. ~xTimedOut
    BY <1>1, <1>2 DEF OwnerOK
  <1>4. OwnerOK'
    BY <1>1, <1>2, <1>3 DEF OwnerOK, flags
  <1>5. LockOK'
    BY DEF StructureOK, LockOK, LockedSteps, locks
  <1> QED BY <1>3, <1>4, <1>5

\* A critical section that ends a call while nobody holds the scheduler.
LEMMA ReturnUnowned ==
    ASSUME StructureOK, NEW t \in Tasks, Running(t), pc[t] = "try", Return(t)
    PROVE  /\ schedulerOwner = NoTask
           /\ cTxLock = queueUNLOCKED /\ cRxLock = queueUNLOCKED
           /\ \A u \in Tasks \ ready : pc'[u] \in OffSteps /\ op'[u] = op[u]
           /\ (/\ UNCHANGED <<locks, schedulerOwner, flags>>
               /\ xPendingReadyList' = xPendingReadyList) => OwnerOK' /\ LockOK'
  <1>1. schedulerOwner = NoTask /\ t \in ready
    BY RunningTask DEF OwnerSteps
  <1>2. cTxLock = queueUNLOCKED /\ cRxLock = queueUNLOCKED
    BY <1>1 DEF StructureOK, LockOK, LockedSteps
  <1>3. /\ pc'[t] = "idle" /\ op'[t] = "none"
        /\ \A u \in Tasks \ {t} : pc'[u] = pc[u] /\ op'[u] = op[u]
    BY ReturnEffect
  <1>4. \A u \in Tasks \ ready : pc'[u] \in OffSteps /\ op'[u] = op[u]
    BY <1>1, <1>3 DEF StructureOK, PlacesOK
  <1>5. ASSUME UNCHANGED <<locks, schedulerOwner, flags>>,
               xPendingReadyList' = xPendingReadyList
        PROVE  OwnerOK' /\ LockOK'
    BY <1>1, <1>3, <1>5, UnownedStep DEF OwnerSteps
  <1> QED BY <1>1, <1>2, <1>4, <1>5


LEMMA SendStructure ==
    ASSUME StructureOK, NEW t \in Tasks, Send(t)
    PROVE  StructureOK'
  <1>1. /\ pc[t] = "try" /\ Running(t) /\ Return(t)
        /\ WakeReceivers(1) /\ UNCHANGED <<locks, flags>>
    BY DEF Send
  <1>2. /\ \A u \in Tasks \ ready : pc'[u] \in OffSteps /\ op'[u] = op[u]
        /\ schedulerOwner = NoTask
    BY <1>1, ReturnUnowned
  <1>3. /\ PlacesOK' /\ PriorityOrder'
        /\ xTasksWaitingToReceive' \in Seq(Tasks) /\ xTasksWaitingToSend' \in Seq(Tasks)
        /\ ready' \subseteq Tasks /\ xPendingReadyList' \subseteq Tasks
        /\ schedulerOwner' = schedulerOwner /\ xPendingReadyList' = xPendingReadyList
    BY <1>1, <1>2, WakeReceiversPlaces
  <1>4. /\ storage' \in [0 .. uxLength - 1 -> Items \cup {NoItem}]
        /\ pcWriteTo' \in 0 .. uxLength - 1 /\ pcReadFrom' \in 0 .. uxLength - 1
        /\ uxMessagesWaiting' \in 0 .. uxLength
        /\ lastRead' \in Items \cup {NoItem}
    <2>1. HasRoom(op[t]) /\ CopyToQueue(arg[t], op[t]) /\ op[t] \in SendOps
      BY DEF Send
    <2>2. arg[t] \in Items
      BY <2>1 DEF StructureOK, CallOK
    <2> QED BY <2>1, <2>2, CopyToQueueType DEF StructureOK
  <1>5. TypeOK'
    BY <1>1, <1>3, <1>4, ReturnEffect DEF StructureOK, TypeOK, locks, flags
  <1>6. CallOK'
    BY <1>1, ReturnEffect
  <1>7. OwnerOK' /\ LockOK'
    BY <1>1, <1>3, ReturnUnowned
  <1> QED BY <1>3, <1>5, <1>6, <1>7 DEF StructureOK


LEMMA ReceiveStructure ==
    ASSUME StructureOK, NEW t \in Tasks, Receive(t)
    PROVE  StructureOK'
  <1>1. /\ pc[t] = "try" /\ Running(t) /\ Return(t)
        /\ WakeSenders(1) /\ UNCHANGED <<locks, flags>>
    BY DEF Receive
  <1>2. /\ \A u \in Tasks \ ready : pc'[u] \in OffSteps /\ op'[u] = op[u]
        /\ schedulerOwner = NoTask
    BY <1>1, ReturnUnowned
  <1>3. /\ PlacesOK' /\ PriorityOrder'
        /\ xTasksWaitingToReceive' \in Seq(Tasks) /\ xTasksWaitingToSend' \in Seq(Tasks)
        /\ ready' \subseteq Tasks /\ xPendingReadyList' \subseteq Tasks
        /\ schedulerOwner' = schedulerOwner /\ xPendingReadyList' = xPendingReadyList
    BY <1>1, <1>2, WakeSendersPlaces
  <1>4. /\ storage' \in [0 .. uxLength - 1 -> Items \cup {NoItem}]
        /\ pcWriteTo' \in 0 .. uxLength - 1 /\ pcReadFrom' \in 0 .. uxLength - 1
        /\ uxMessagesWaiting' \in 0 .. uxLength
        /\ lastRead' \in Items \cup {NoItem}
    BY CopyFromQueueType DEF Receive, StructureOK
  <1>5. TypeOK'
    BY <1>1, <1>3, <1>4, ReturnEffect DEF StructureOK, TypeOK, locks, flags
  <1>6. CallOK'
    BY <1>1, ReturnEffect
  <1>7. OwnerOK' /\ LockOK'
    BY <1>1, <1>3, ReturnUnowned
  <1> QED BY <1>3, <1>5, <1>6, <1>7 DEF StructureOK


LEMMA PeekStructure ==
    ASSUME StructureOK, NEW t \in Tasks, Peek(t)
    PROVE  StructureOK'
  <1>1. /\ pc[t] = "try" /\ Running(t) /\ Return(t)
        /\ WakeReceivers(1) /\ UNCHANGED <<locks, flags>>
    BY DEF Peek
  <1>2. /\ \A u \in Tasks \ ready : pc'[u] \in OffSteps /\ op'[u] = op[u]
        /\ schedulerOwner = NoTask
    BY <1>1, ReturnUnowned
  <1>3. /\ PlacesOK' /\ PriorityOrder'
        /\ xTasksWaitingToReceive' \in Seq(Tasks) /\ xTasksWaitingToSend' \in Seq(Tasks)
        /\ ready' \subseteq Tasks /\ xPendingReadyList' \subseteq Tasks
        /\ schedulerOwner' = schedulerOwner /\ xPendingReadyList' = xPendingReadyList
    BY <1>1, <1>2, WakeReceiversPlaces
  <1>4. /\ storage' \in [0 .. uxLength - 1 -> Items \cup {NoItem}]
        /\ pcWriteTo' \in 0 .. uxLength - 1 /\ pcReadFrom' \in 0 .. uxLength - 1
        /\ uxMessagesWaiting' \in 0 .. uxLength
        /\ lastRead' \in Items \cup {NoItem}
    <2>1. /\ lastRead' = storage[NextRead]
          /\ UNCHANGED <<storage, pcWriteTo, pcReadFrom, uxMessagesWaiting>>
      BY DEF Peek, PeekAtQueue
    <2>2. NextRead \in 0 .. uxLength - 1
      BY QueueAssumption DEF QueueAssumption, StructureOK, TypeOK, NextRead, Following
    <2> QED BY <2>1, <2>2 DEF StructureOK, TypeOK
  <1>5. TypeOK'
    BY <1>1, <1>3, <1>4, ReturnEffect DEF StructureOK, TypeOK, locks, flags
  <1>6. CallOK'
    BY <1>1, ReturnEffect
  <1>7. OwnerOK' /\ LockOK'
    BY <1>1, <1>3, ReturnUnowned
  <1> QED BY <1>3, <1>5, <1>6, <1>7 DEF StructureOK


LEMMA FailAtOnceStructure ==
    ASSUME StructureOK, NEW t \in Tasks, FailAtOnce(t)
    PROVE  StructureOK'
  <1>1. /\ pc[t] = "try" /\ Running(t) /\ Return(t)
        /\ UNCHANGED <<ring, locks, lists, sched, flags>>
    BY DEF FailAtOnce
  <1>2. /\ \A u \in Tasks \ ready : pc'[u] \in OffSteps /\ op'[u] = op[u]
        /\ OwnerOK' /\ LockOK'
    BY <1>1, ReturnUnowned DEF sched
  <1>3. PlacesOK' /\ PriorityOrder'
    BY <1>1, <1>2, PlacesUnchanged DEF sched
  <1>4. TypeOK'
    BY <1>1, ReturnEffect DEF StructureOK, TypeOK, ring, locks, lists, sched, flags
  <1>5. CallOK'
    BY <1>1, ReturnEffect
  <1> QED BY <1>2, <1>3, <1>4, <1>5 DEF StructureOK

LEMMA ResetStructure ==
    ASSUME StructureOK, NEW t \in Tasks, Reset(t)
    PROVE  StructureOK'
  <1>1. /\ pc[t] = "try" /\ Running(t) /\ Return(t) /\ WakeSenders(1)
        /\ uxMessagesWaiting' = 0 /\ pcWriteTo' = 0 /\ pcReadFrom' = uxLength - 1
        /\ cTxLock' = queueUNLOCKED /\ cRxLock' = queueUNLOCKED
        /\ UNCHANGED <<storage, lastRead, flags>>
    BY DEF Reset
  <1>2. /\ \A u \in Tasks \ ready : pc'[u] \in OffSteps /\ op'[u] = op[u]
        /\ schedulerOwner = NoTask
        /\ cTxLock = queueUNLOCKED /\ cRxLock = queueUNLOCKED
    BY <1>1, ReturnUnowned
  <1>3. /\ PlacesOK' /\ PriorityOrder'
        /\ xTasksWaitingToReceive' \in Seq(Tasks) /\ xTasksWaitingToSend' \in Seq(Tasks)
        /\ ready' \subseteq Tasks /\ xPendingReadyList' \subseteq Tasks
        /\ schedulerOwner' = schedulerOwner /\ xPendingReadyList' = xPendingReadyList
    BY <1>1, <1>2, WakeSendersPlaces
  <1>4. pcWriteTo' \in 0 .. uxLength - 1 /\ pcReadFrom' \in 0 .. uxLength - 1
        /\ uxMessagesWaiting' \in 0 .. uxLength
    BY <1>1, QueueAssumption DEF QueueAssumption
  <1>5. UNCHANGED locks
    BY <1>1, <1>2 DEF locks
  <1>6. TypeOK'
    BY <1>1, <1>3, <1>4, <1>5, ReturnEffect DEF StructureOK, TypeOK, locks, flags
  <1>7. CallOK'
    BY <1>1, ReturnEffect
  <1>8. OwnerOK' /\ LockOK'
    BY <1>1, <1>3, <1>5, ReturnUnowned
  <1> QED BY <1>3, <1>6, <1>7, <1>8 DEF StructureOK

\* A step of the running task, if it is ready and its call goes on.
LEMMA GoToEffect ==
    ASSUME StructureOK, NEW t \in Tasks, NEW step \in Steps, GoTo(t, step)
    PROVE  /\ pc' \in [Tasks -> Steps] /\ pc'[t] = step
           /\ \A u \in Tasks \ {t} : pc'[u] = pc[u]
           /\ (op' = op /\ (t \in ready \/ step \in OffSteps))
                 => \A u \in Tasks \ ready : pc'[u] \in OffSteps /\ op'[u] = op[u]
  BY DEF StructureOK, TypeOK, PlacesOK, GoTo

LEMMA NoteEntryTimeStructure ==
    ASSUME StructureOK, NEW t \in Tasks, NoteEntryTime(t)
    PROVE  StructureOK'
  <1>1. /\ pc[t] = "try" /\ Running(t) /\ GoTo(t, "suspend")
        /\ xTimeOut' = [xTimeOut EXCEPT ![t] = IF @ = "unset" THEN "running" ELSE @]
        /\ UNCHANGED <<ring, locks, lists, sched, op, arg, xTicksToWait, flags>>
    BY DEF NoteEntryTime
  <1>2. t \in ready /\ schedulerOwner = NoTask
    BY <1>1, RunningTask DEF OwnerSteps
  <1>3. "suspend" \in Steps
    BY DEF Steps
  <1>4. /\ pc' \in [Tasks -> Steps] /\ pc'[t] = "suspend"
        /\ \A u \in Tasks \ {t} : pc'[u] = pc[u]
        /\ \A u \in Tasks \ ready : pc'[u] \in OffSteps /\ op'[u] = op[u]
    BY <1>1, <1>2, <1>3, GoToEffect
  <1>5. TypeOK'
    BY <1>1, <1>4 DEF StructureOK, TypeOK, ring, locks, lists, sched, flags
  <1>6. CallOK'
    <2>1. op[t] \in SendOps \cup ReadOps
      BY DEF NoteEntryTime, MustWait
    <2> QED BY <1>1, <1>4, <2>1 DEF StructureOK, CallOK
  <1>7. OwnerOK' /\ LockOK'
    BY <1>1, <1>2, <1>4, UnownedStep DEF OwnerSteps, sched
  <1>8. PlacesOK' /\ PriorityOrder'
    BY <1>1, <1>4, PlacesUnchanged DEF sched
  <1> QED BY <1>5, <1>6, <1>7, <1>8 DEF StructureOK

LEMMA RecheckStructure ==
    ASSUME StructureOK, NEW t \in Tasks, Recheck(t)
    PROVE  StructureOK'
  <1>1. /\ pc[t] = "recheck" /\ Running(t)
        /\ Return(t) \/ (GoTo(t, "try") /\ UNCHANGED call)
        /\ UNCHANGED <<ring, locks, lists, sched, flags>>
    BY DEF Recheck
  <1>2. t \in ready /\ schedulerOwner = NoTask
    BY <1>1, RunningTask DEF OwnerSteps
  <1>3. "try" \in Steps
    BY DEF Steps
  <1>4. /\ pc' \in [Tasks -> Steps] /\ pc'[t] \in {"idle", "try"}
        /\ \A u \in Tasks \ {t} : pc'[u] = pc[u]
        /\ \A u \in Tasks \ ready : pc'[u] \in OffSteps /\ op'[u] = op[u]
    <2>1. CASE Return(t)
      BY <1>2, <2>1, ReturnEffect DEF StructureOK, PlacesOK
    <2>2. CASE GoTo(t, "try") /\ UNCHANGED call
      BY <1>2, <1>3, <2>2, GoToEffect DEF call
    <2> QED BY <1>1, <2>1, <2>2
  <1>5. TypeOK'
    BY <1>1, <1>4, ReturnEffect DEF StructureOK, TypeOK, ring, locks, lists, sched, call, flags
  <1>6. CallOK'
    <2>1. CASE Return(t)
      BY <2>1, ReturnEffect
    <2>2. CASE GoTo(t, "try") /\ UNCHANGED call
      <3>1. pc'[t] = "try"
        BY <1>3, <2>2, GoToEffect
      <3> QED BY <1>4, <2>2, <3>1 DEF StructureOK, CallOK, call
    <2> QED BY <1>1, <2>1, <2>2
  <1>7. OwnerOK' /\ LockOK'
    BY <1>1, <1>2, <1>4, UnownedStep DEF OwnerSteps, sched
  <1>8. PlacesOK' /\ PriorityOrder'
    BY <1>1, <1>4, PlacesUnchanged DEF sched
  <1> QED BY <1>5, <1>6, <1>7, <1>8 DEF StructureOK

LEMMA SuspendAllStructure ==
    ASSUME StructureOK, NEW t \in Tasks, SuspendAll(t)
    PROVE  StructureOK'
  <1> DEFINE step == IF op[t] = "abort" THEN "abortCheck" ELSE "lock"
  <1>1. /\ pc[t] = "suspend" /\ Running(t) /\ schedulerOwner' = t /\ GoTo(t, step)
        /\ UNCHANGED <<ring, locks, lists, ready, xPendingReadyList, call, flags>>
    BY DEF SuspendAll
  <1>2. t \in ready /\ schedulerOwner = NoTask
    BY <1>1, RunningTask DEF OwnerSteps
  <1>3. step \in Steps
    BY DEF Steps
  <1>4. /\ pc' \in [Tasks -> Steps] /\ pc'[t] = step
        /\ \A u \in Tasks \ {t} : pc'[u] = pc[u]
        /\ \A u \in Tasks \ ready : pc'[u] \in OffSteps /\ op'[u] = op[u]
    BY <1>1, <1>2, <1>3, GoToEffect DEF call
  <1>5. TypeOK'
    BY <1>1, <1>4 DEF StructureOK, TypeOK, ring, locks, lists, call, flags
  <1>6. CallOK'
    <2>1. op[t] \in SendOps \cup ReadOps \cup {"abort"}
      BY <1>1 DEF StructureOK, CallOK
    <2> QED BY <1>1, <1>4, <2>1 DEF StructureOK, CallOK, call, SendOps, ReadOps
  <1>7. OwnerOK'
    <2>1. ~xTimedOut /\ NoTask \notin Tasks
      BY <1>2, QueueAssumption DEF QueueAssumption, StructureOK, TypeOK, OwnerOK
    <2>2. pc'[t] \in OwnerSteps
      BY <1>4 DEF OwnerSteps
    <2> HIDE DEF step
    <2> QED BY <1>1, <1>2, <1>4, <2>1, <2>2 DEF StructureOK, OwnerOK, flags
  <1>8. LockOK'
    <2>1. cTxLock = queueUNLOCKED /\ cRxLock = queueUNLOCKED
      BY <1>2 DEF StructureOK, LockOK, LockedSteps
    <2>2. t # NoTask
      BY QueueAssumption DEF QueueAssumption
    <2> QED BY <1>1, <1>4, <2>1, <2>2 DEF LockOK, LockedSteps, locks
  <1>9. PlacesOK' /\ PriorityOrder'
    BY <1>1, <1>4, PlacesUnchanged
  <1> QED BY <1>5, <1>6, <1>7, <1>8, <1>9 DEF StructureOK

\* A step of the task that holds the scheduler and keeps it.
LEMMA OwnedStep ==
    ASSUME StructureOK, NEW t \in Tasks, Running(t), pc[t] \in OwnerSteps,
           pc'[t] \in OwnerSteps, \A u \in Tasks \ {t} : pc'[u] = pc[u],
           schedulerOwner' = schedulerOwner
    PROVE  /\ schedulerOwner = t /\ t # NoTask
           /\ \A u \in Tasks : pc'[u] \in OwnerSteps <=> u = schedulerOwner'
           /\ LET step  == pc[t]
                  step2 == pc'[t]
              IN  /\ cTxLock # queueUNLOCKED <=> step \in LockedSteps
                  /\ cRxLock # queueUNLOCKED <=> step \in LockedSteps \cup {"unlockRx"}
                  /\ (/\ cTxLock' # queueUNLOCKED <=> step2 \in LockedSteps
                      /\ cRxLock' # queueUNLOCKED <=> step2 \in LockedSteps \cup {"unlockRx"})
                     => LockOK'
  <1>1. schedulerOwner = t /\ t # NoTask
    BY RunningTask, QueueAssumption DEF QueueAssumption
  <1>2. \A u \in Tasks : pc'[u] \in OwnerSteps <=> u = schedulerOwner'
    BY <1>1 DEF StructureOK, OwnerOK
  <1> QED BY <1>1, <1>2 DEF StructureOK, LockOK

LEMMA LockStructure ==
    ASSUME StructureOK, NEW t \in Tasks, Lock(t)
    PROVE  StructureOK'
  <1> DEFINE step == IF xTimedOut' THEN "unlockTx" ELSE "test"
  <1>1. /\ pc[t] = "lock" /\ Running(t) /\ GoTo(t, step)
        /\ cTxLock' = IF cTxLock = queueUNLOCKED THEN queueLOCKED_UNMODIFIED ELSE cTxLock
        /\ cRxLock' = IF cRxLock = queueUNLOCKED THEN queueLOCKED_UNMODIFIED ELSE cRxLock
        /\ xTimedOut' \in BOOLEAN
        /\ ucDelayAborted' = ucDelayAborted \ {t}
        /\ xTicksToWait' \in {xTicksToWait, [xTicksToWait EXCEPT ![t] = "none"]}
        /\ UNCHANGED <<ring, lists, sched, op, arg, xTimeOut>>
    BY DEF Lock
  <1>2. step \in Steps /\ step \in {"unlockTx", "test"}
    BY DEF Steps
  <1>3. t \in ready
    BY <1>1, RunningTask
  <1>4. /\ pc' \in [Tasks -> Steps] /\ pc'[t] = step
        /\ \A u \in Tasks \ {t} : pc'[u] = pc[u]
        /\ \A u \in Tasks \ ready : pc'[u] \in OffSteps /\ op'[u] = op[u]
    BY <1>1, <1>2, <1>3, GoToEffect
  <1>5. /\ schedulerOwner = t /\ t # NoTask
        /\ \A u \in Tasks : pc'[u] \in OwnerSteps <=> u = schedulerOwner'
    BY <1>1, <1>2, <1>4, OwnedStep DEF OwnerSteps, sched
  <1>6. /\ cTxLock' = queueLOCKED_UNMODIFIED /\ cRxLock' = queueLOCKED_UNMODIFIED
        /\ LockOK'
    <2>1. cTxLock = queueUNLOCKED /\ cRxLock = queueUNLOCKED
      BY <1>1, <1>5 DEF StructureOK, LockOK, LockedSteps
    <2>2. schedulerOwner' = t
      BY <1>1, <1>5 DEF sched
    <2> QED BY <1>1, <1>2, <1>4, <1>5, <2>1, <2>2
            DEF LockOK, LockedSteps, queueUNLOCKED, queueLOCKED_UNMODIFIED
  <1>7. TypeOK'
    <2>1. /\ cTxLock' \in queueUNLOCKED .. uxNumberOfTasks
          /\ cRxLock' \in queueUNLOCKED .. uxNumberOfTasks
      BY <1>6, QueueAssumption
         DEF QueueAssumption, queueUNLOCKED, queueLOCKED_UNMODIFIED
    <2>2. xTicksToWait' \in [Tasks -> {"none", "finite", "forever"}]
      BY <1>1 DEF StructureOK, TypeOK
    <2> HIDE DEF step
    <2> QED BY <1>1, <1>4, <2>1, <2>2 DEF StructureOK, TypeOK, ring, lists, sched
  <1>8. CallOK'
    BY <1>1, <1>2, <1>4 DEF StructureOK, CallOK
  <1>9. OwnerOK'
    <2>1. xTimedOut' => pc'[t] = "unlockTx"
      BY <1>4
    <2> QED BY <1>1, <1>3, <1>5, <2>1 DEF OwnerOK, sched
  <1>10. PlacesOK' /\ PriorityOrder'
    BY <1>1, <1>4, PlacesUnchanged DEF sched
  <1> QED BY <1>6, <1>7, <1>8, <1>9, <1>10 DEF StructureOK

LEMMA TestStructure ==
    ASSUME StructureOK, NEW t \in Tasks, Test(t)
    PROVE  StructureOK'
  <1>1. PICK step \in {"block", "unlockTx"} :
          /\ pc[t] = "test" /\ Running(t) /\ GoTo(t, step)
          /\ UNCHANGED <<ring, locks, lists, sched, call, flags>>
    BY DEF Test
  <1>2. step \in Steps
    BY DEF Steps
  <1>3. t \in ready
    BY <1>1, RunningTask
  <1>4. /\ pc' \in [Tasks -> Steps] /\ pc'[t] = step
        /\ \A u \in Tasks \ {t} : pc'[u] = pc[u]
        /\ \A u \in Tasks \ ready : pc'[u] \in OffSteps /\ op'[u] = op[u]
    BY <1>1, <1>2, <1>3, GoToEffect DEF call
  <1>5. /\ schedulerOwner = t /\ t # NoTask
        /\ \A u \in Tasks : pc'[u] \in OwnerSteps <=> u = schedulerOwner'
        /\ LockOK'
    BY <1>1, <1>4, OwnedStep DEF OwnerSteps, LockedSteps, sched, locks
  <1>6. TypeOK'
    BY <1>1, <1>4 DEF StructureOK, TypeOK, ring, locks, lists, sched, call, flags
  <1>7. CallOK'
    BY <1>1, <1>4 DEF StructureOK, CallOK, call
  <1>8. OwnerOK'
    BY <1>1, <1>5 DEF StructureOK, OwnerOK, sched, flags
  <1>9. PlacesOK' /\ PriorityOrder'
    BY <1>1, <1>4, PlacesUnchanged DEF sched
  <1> QED BY <1>5, <1>6, <1>7, <1>8, <1>9 DEF StructureOK

LEMMA AbortCheckStructure ==
    ASSUME StructureOK, NEW t \in Tasks, AbortCheck(t)
    PROVE  StructureOK'
  <1>1. PICK step \in {"abortRemove", "resume"} :
          /\ pc[t] = "abortCheck" /\ Running(t) /\ GoTo(t, step)
          /\ UNCHANGED <<ring, locks, lists, sched, call, flags>>
    BY DEF AbortCheck
  <1>2. step \in Steps
    BY DEF Steps
  <1>3. t \in ready
    BY <1>1, RunningTask
  <1>4. /\ pc' \in [Tasks -> Steps] /\ pc'[t] = step
        /\ \A u \in Tasks \ {t} : pc'[u] = pc[u]
        /\ \A u \in Tasks \ ready : pc'[u] \in OffSteps /\ op'[u] = op[u]
    BY <1>1, <1>2, <1>3, GoToEffect DEF call
  <1>5. /\ schedulerOwner = t /\ t # NoTask
        /\ \A u \in Tasks : pc'[u] \in OwnerSteps <=> u = schedulerOwner'
        /\ LockOK'
    BY <1>1, <1>4, OwnedStep DEF OwnerSteps, LockedSteps, sched, locks
  <1>6. TypeOK'
    BY <1>1, <1>4 DEF StructureOK, TypeOK, ring, locks, lists, sched, call, flags
  <1>7. CallOK'
    BY <1>1, <1>4 DEF StructureOK, CallOK, call
  <1>8. OwnerOK'
    BY <1>1, <1>5 DEF StructureOK, OwnerOK, sched, flags
  <1>9. PlacesOK' /\ PriorityOrder'
    BY <1>1, <1>4, PlacesUnchanged DEF sched
  <1> QED BY <1>5, <1>6, <1>7, <1>8, <1>9 DEF StructureOK

\* Taking a task off both event lists.
LEMMA ListRemoveLists ==
    ASSUME StructureOK, NEW u,
           xTasksWaitingToSend' = ListRemove(xTasksWaitingToSend, u),
           xTasksWaitingToReceive' = ListRemove(xTasksWaitingToReceive, u)
    PROVE  /\ xTasksWaitingToSend' \in Seq(Tasks) /\ xTasksWaitingToReceive' \in Seq(Tasks)
           /\ ToSet(xTasksWaitingToSend') = ToSet(xTasksWaitingToSend) \ {u}
           /\ ToSet(xTasksWaitingToReceive') = ToSet(xTasksWaitingToReceive) \ {u}
           /\ PriorityOrder'
  <1>1. ItemValue' = ItemValue
    BY DEF ItemValue
  <1> QED BY <1>1, Lists, ListRemoveProperties, ItemValueType DEF PriorityOrder

LEMMA BlockStructure ==
    ASSUME StructureOK, NEW t \in Tasks, Block(t)
    PROVE  StructureOK'
  <1>1. /\ pc[t] = "block" /\ Running(t) /\ GoTo(t, "unlockTx")
        /\ ready' = ready \ {t} /\ ucDelayAborted' = ucDelayAborted \ {t}
        /\ UNCHANGED <<ring, locks, xPendingReadyList, schedulerOwner, call, xTimedOut>>
        /\ IF op[t] \in SendOps
           THEN /\ xTasksWaitingToSend' = ListInsert(xTasksWaitingToSend, ItemValue, t)
                /\ xTasksWaitingToReceive' = xTasksWaitingToReceive
           ELSE /\ xTasksWaitingToReceive' = ListInsert(xTasksWaitingToReceive, ItemValue, t)
                /\ xTasksWaitingToSend' = xTasksWaitingToSend
    BY DEF Block
  <1>2. "unlockTx" \in Steps
    BY DEF Steps
  <1>3. t \in ready
    BY <1>1, RunningTask
  <1>4. /\ pc' \in [Tasks -> Steps] /\ pc'[t] = "unlockTx"
        /\ \A u \in Tasks \ {t} : pc'[u] = pc[u]
    BY <1>1, <1>2, <1>3, GoToEffect DEF call
  <1>5. /\ schedulerOwner = t /\ t # NoTask
        /\ \A u \in Tasks : pc'[u] \in OwnerSteps <=> u = schedulerOwner'
        /\ LockOK'
    BY <1>1, <1>4, OwnedStep DEF OwnerSteps, LockedSteps, locks
  <1>6. /\ t \notin ToSet(xTasksWaitingToSend) /\ t \notin ToSet(xTasksWaitingToReceive)
        /\ t \notin xPendingReadyList
    BY <1>3 DEF StructureOK, PlacesOK
  <1>7. op[t] \in SendOps \/ op[t] \in ReadOps
    BY <1>1 DEF StructureOK, CallOK
  <1>8. /\ xTasksWaitingToSend' \in Seq(Tasks) /\ xTasksWaitingToReceive' \in Seq(Tasks)
        /\ ToSet(xTasksWaitingToSend') = ToSet(xTasksWaitingToSend)
                                         \cup IF op[t] \in SendOps THEN {t} ELSE {}
        /\ ToSet(xTasksWaitingToReceive') = ToSet(xTasksWaitingToReceive)
                                            \cup IF op[t] \in SendOps THEN {} ELSE {t}
        /\ PriorityOrder'
    <2>1. ItemValue' = ItemValue
      BY DEF ItemValue
    <2>2. CASE op[t] \in SendOps
      BY <1>1, <1>6, <2>1, <2>2, Lists, ListInsertProperties, ItemValueType DEF PriorityOrder
    <2>3. CASE op[t] \notin SendOps
      BY <1>1, <1>6, <2>1, <2>3, Lists, ListInsertProperties, ItemValueType DEF PriorityOrder
    <2> QED BY <2>2, <2>3
  <1>9. TypeOK'
    BY <1>1, <1>4, <1>8 DEF StructureOK, TypeOK, ring, locks, call
  <1>10. CallOK'
    BY <1>1, <1>4, <1>7 DEF StructureOK, CallOK, call
  <1>11. OwnerOK'
    BY <1>1, <1>5 DEF StructureOK, OwnerOK
  <1>12. PlacesOK'
    <2>1. op' = op /\ xPendingReadyList' = xPendingReadyList
      BY <1>1 DEF call
    <2>2. PlacesOK
      BY DEF StructureOK
    <2>3. CASE op[t] \in SendOps
      BY <1>1, <1>3, <1>4, <1>6, <1>8, <2>1, <2>2, <2>3 DEF PlacesOK, OffSteps
    <2>4. CASE op[t] \notin SendOps
      BY <1>1, <1>3, <1>4, <1>6, <1>7, <1>8, <2>1, <2>2, <2>4 DEF PlacesOK, OffSteps
    <2> QED BY <2>3, <2>4
  <1> QED BY <1>5, <1>8, <1>9, <1>10, <1>11, <1>12 DEF StructureOK

LEMMA AbortRemoveStructure ==
    ASSUME StructureOK, NEW t \in Tasks, AbortRemove(t)
    PROVE  StructureOK'
  <1> DEFINE u == arg[t]
  <1>1. /\ pc[t] = "abortRemove" /\ Running(t) /\ GoTo(t, "resume")
        /\ xTasksWaitingToSend' = ListRemove(xTasksWaitingToSend, u)
        /\ xTasksWaitingToReceive' = ListRemove(xTasksWaitingToReceive, u)
        /\ xPendingReadyList' = xPendingReadyList \ {u}
        /\ ready' = ready \cup {u}
        /\ ucDelayAborted' = ucDelayAborted \cup {u}
        /\ UNCHANGED <<ring, locks, schedulerOwner, call, xTimedOut>>
    BY DEF AbortRemove
  <1>2. "resume" \in Steps
    BY DEF Steps
  <1>3. t \in ready
    BY <1>1, RunningTask
  <1>4. /\ pc' \in [Tasks -> Steps] /\ pc'[t] = "resume"
        /\ \A v \in Tasks \ {t} : pc'[v] = pc[v]
        /\ \A v \in Tasks \ ready : pc'[v] \in OffSteps /\ op'[v] = op[v]
    BY <1>1, <1>2, <1>3, GoToEffect DEF call
  <1>5. /\ schedulerOwner = t /\ t # NoTask
        /\ \A v \in Tasks : pc'[v] \in OwnerSteps <=> v = schedulerOwner'
        /\ LockOK'
    BY <1>1, <1>4, OwnedStep DEF OwnerSteps, LockedSteps, locks
  <1>6. u \in Tasks
    BY <1>1 DEF StructureOK, CallOK
  <1> HIDE DEF u
  <1>7. /\ xTasksWaitingToSend' \in Seq(Tasks) /\ xTasksWaitingToReceive' \in Seq(Tasks)
        /\ ToSet(xTasksWaitingToSend') = ToSet(xTasksWaitingToSend) \ {u}
        /\ ToSet(xTasksWaitingToReceive') = ToSet(xTasksWaitingToReceive) \ {u}
        /\ PriorityOrder'
    BY <1>1, ListRemoveLists
  <1>8. TypeOK'
    BY <1>1, <1>4, <1>6, <1>7 DEF StructureOK, TypeOK, ring, locks, call
  <1>9. CallOK'
    BY <1>1, <1>4 DEF StructureOK, CallOK, call
  <1>10. OwnerOK'
    BY <1>1, <1>5 DEF StructureOK, OwnerOK
  <1>11. PlacesOK'
    BY <1>1, <1>4, <1>6, <1>7 DEF StructureOK, PlacesOK
  <1> QED BY <1>5, <1>7, <1>8, <1>9, <1>10, <1>11 DEF StructureOK

LEMMA ExpireStructure ==
    ASSUME StructureOK, NEW t \in Tasks, Expire(t)
    PROVE  StructureOK'
  <1>1. /\ schedulerOwner = NoTask
        /\ xTimeOut' = [xTimeOut EXCEPT ![t] = "expired"]
        /\ ready' = ready \cup {t}
        /\ xTasksWaitingToSend' = ListRemove(xTasksWaitingToSend, t)
        /\ xTasksWaitingToReceive' = ListRemove(xTasksWaitingToReceive, t)
        /\ UNCHANGED <<ring, locks, xPendingReadyList, schedulerOwner, pc, op, arg,
                       xTicksToWait, flags>>
    BY DEF Expire
  <1>2. /\ xTasksWaitingToSend' \in Seq(Tasks) /\ xTasksWaitingToReceive' \in Seq(Tasks)
        /\ ToSet(xTasksWaitingToSend') = ToSet(xTasksWaitingToSend) \ {t}
        /\ ToSet(xTasksWaitingToReceive') = ToSet(xTasksWaitingToReceive) \ {t}
        /\ PriorityOrder'
    BY <1>1, ListRemoveLists
  <1>3. TypeOK'
    BY <1>1, <1>2 DEF StructureOK, TypeOK, ring, locks, flags
  <1>4. CallOK'
    BY <1>1 DEF StructureOK, CallOK
  <1>5. OwnerOK'
    BY <1>1 DEF StructureOK, OwnerOK, flags
  <1>6. LockOK'
    BY <1>1 DEF StructureOK, LockOK, locks
  <1>7. PlacesOK'
    BY <1>1, <1>2 DEF StructureOK, PlacesOK, OwnerOK
  <1> QED BY <1>2, <1>3, <1>4, <1>5, <1>6, <1>7 DEF StructureOK


LEMMA UnlockTxStructure ==
    ASSUME StructureOK, NEW t \in Tasks, UnlockTx(t)
    PROVE  StructureOK'
  <1>1. /\ pc[t] = "unlockTx" /\ Running(t) /\ GoTo(t, "unlockRx")
        /\ WakeReceivers(cTxLock) /\ cTxLock' = queueUNLOCKED
        /\ UNCHANGED <<ring, cRxLock, call, flags>>
    BY DEF UnlockTx
  <1>2. "unlockRx" \in Steps /\ "unlockRx" \in OffSteps
    BY DEF Steps, OffSteps
  <1>3. /\ pc' \in [Tasks -> Steps] /\ pc'[t] = "unlockRx"
        /\ \A u \in Tasks \ {t} : pc'[u] = pc[u]
        /\ \A u \in Tasks \ ready : pc'[u] \in OffSteps /\ op'[u] = op[u]
    BY <1>1, <1>2, GoToEffect DEF call
  <1>4. cTxLock \in Nat
    <2>1. schedulerOwner = t /\ t # NoTask
      BY <1>1, RunningTask, QueueAssumption DEF OwnerSteps, QueueAssumption
    <2>2. cTxLock # queueUNLOCKED
      BY <1>1, <2>1 DEF StructureOK, LockOK, LockedSteps
    <2>3. cTxLock \in queueUNLOCKED .. uxNumberOfTasks /\ uxNumberOfTasks \in Nat
      BY QueueAssumption DEF QueueAssumption, StructureOK, TypeOK
    <2> QED BY <2>2, <2>3 DEF queueUNLOCKED
  <1>5. /\ PlacesOK' /\ PriorityOrder'
        /\ xTasksWaitingToReceive' \in Seq(Tasks) /\ xTasksWaitingToSend' \in Seq(Tasks)
        /\ ready' \subseteq Tasks /\ xPendingReadyList' \subseteq Tasks
        /\ schedulerOwner' = schedulerOwner /\ ready \subseteq ready'
    BY <1>1, <1>3, <1>4, WakeReceiversPlaces
  <1>6. /\ schedulerOwner = t /\ t # NoTask
        /\ \A u \in Tasks : pc'[u] \in OwnerSteps <=> u = schedulerOwner'
        /\ LockOK'
    BY <1>1, <1>3, <1>5, OwnedStep DEF OwnerSteps, LockedSteps
  <1>7. TypeOK'
    <2>1. cTxLock' \in queueUNLOCKED .. uxNumberOfTasks
      BY <1>1, QueueAssumption DEF QueueAssumption, queueUNLOCKED
    <2> QED BY <1>1, <1>3, <1>5, <2>1 DEF StructureOK, TypeOK, ring, call, flags
  <1>8. CallOK'
    BY <1>1, <1>3 DEF StructureOK, CallOK, call
  <1>9. OwnerOK'
    <2>1. xTimedOut => t \in ready
      BY <1>6 DEF StructureOK, OwnerOK
    <2> QED BY <1>1, <1>3, <1>5, <1>6, <2>1 DEF OwnerOK, flags
  <1> QED BY <1>5, <1>6, <1>7, <1>8, <1>9 DEF StructureOK


LEMMA UnlockRxStructure ==
    ASSUME StructureOK, NEW t \in Tasks, UnlockRx(t)
    PROVE  StructureOK'
  <1>1. /\ pc[t] = "unlockRx" /\ Running(t) /\ GoTo(t, "resume")
        /\ WakeSenders(cRxLock) /\ cRxLock' = queueUNLOCKED
        /\ UNCHANGED <<ring, cTxLock, call, flags>>
    BY DEF UnlockRx
  <1>2. "resume" \in Steps /\ "resume" \in OffSteps
    BY DEF Steps, OffSteps
  <1>3. /\ pc' \in [Tasks -> Steps] /\ pc'[t] = "resume"
        /\ \A u \in Tasks \ {t} : pc'[u] = pc[u]
        /\ \A u \in Tasks \ ready : pc'[u] \in OffSteps /\ op'[u] = op[u]
    BY <1>1, <1>2, GoToEffect DEF call
  <1>4. cRxLock \in Nat
    <2>1. schedulerOwner = t /\ t # NoTask
      BY <1>1, RunningTask, QueueAssumption DEF OwnerSteps, QueueAssumption
    <2>2. cRxLock # queueUNLOCKED
      BY <1>1, <2>1 DEF StructureOK, LockOK, LockedSteps
    <2>3. cRxLock \in queueUNLOCKED .. uxNumberOfTasks /\ uxNumberOfTasks \in Nat
      BY QueueAssumption DEF QueueAssumption, StructureOK, TypeOK
    <2> QED BY <2>2, <2>3 DEF queueUNLOCKED
  <1>5. /\ PlacesOK' /\ PriorityOrder'
        /\ xTasksWaitingToReceive' \in Seq(Tasks) /\ xTasksWaitingToSend' \in Seq(Tasks)
        /\ ready' \subseteq Tasks /\ xPendingReadyList' \subseteq Tasks
        /\ schedulerOwner' = schedulerOwner /\ ready \subseteq ready'
    BY <1>1, <1>3, <1>4, WakeSendersPlaces
  <1>6. /\ schedulerOwner = t /\ t # NoTask
        /\ \A u \in Tasks : pc'[u] \in OwnerSteps <=> u = schedulerOwner'
        /\ LockOK'
    BY <1>1, <1>3, <1>5, OwnedStep DEF OwnerSteps, LockedSteps
  <1>7. TypeOK'
    <2>1. cRxLock' \in queueUNLOCKED .. uxNumberOfTasks
      BY <1>1, QueueAssumption DEF QueueAssumption, queueUNLOCKED
    <2> QED BY <1>1, <1>3, <1>5, <2>1 DEF StructureOK, TypeOK, ring, call, flags
  <1>8. CallOK'
    BY <1>1, <1>3 DEF StructureOK, CallOK, call
  <1>9. OwnerOK'
    <2>1. xTimedOut => t \in ready
      BY <1>6 DEF StructureOK, OwnerOK
    <2> QED BY <1>1, <1>3, <1>5, <1>6, <2>1 DEF OwnerOK, flags
  <1> QED BY <1>5, <1>6, <1>7, <1>8, <1>9 DEF StructureOK

LEMMA ResumeAllStructure ==
    ASSUME StructureOK, NEW t \in Tasks, ResumeAll(t)
    PROVE  StructureOK'
  <1>1. /\ pc[t] = "resume" /\ Running(t)
        /\ schedulerOwner' = NoTask
        /\ ready' = ready \cup xPendingReadyList /\ xPendingReadyList' = {}
        /\ xTimedOut' = FALSE
        /\ UNCHANGED <<ring, locks, lists, ucDelayAborted>>
    BY DEF ResumeAll
  <1>2. \/ Return(t)
        \/ GoTo(t, "recheck") /\ UNCHANGED call /\ op[t] \in ReadOps /\ xTimedOut
        \/ GoTo(t, "try") /\ UNCHANGED call
    BY DEF ResumeAll
  <1>3. schedulerOwner = t /\ t # NoTask /\ NoTask \notin Tasks
    BY <1>1, RunningTask, QueueAssumption DEF OwnerSteps, QueueAssumption
  <1>4. xTimedOut => t \in ready
    BY <1>3 DEF StructureOK, OwnerOK
  <1>5. /\ pc' \in [Tasks -> Steps] /\ pc'[t] \in {"idle", "recheck", "try"}
        /\ \A u \in Tasks \ {t} : pc'[u] = pc[u] /\ op'[u] = op[u]
        /\ CallOK'
        /\ op' \in [Tasks -> AllOps \cup {"none"}]
        /\ arg' \in [Tasks -> Items \cup {NoItem} \cup Tasks]
        /\ xTicksToWait' \in [Tasks -> {"none", "finite", "forever"}]
        /\ xTimeOut' \in [Tasks -> {"unset", "running", "expired"}]
    <2>1. CASE Return(t)
      BY <2>1, ReturnEffect
    <2>2. CASE \E step \in {"recheck", "try"} :
                  GoTo(t, step) /\ UNCHANGED call /\ (step = "recheck" => op[t] \in ReadOps)
      <3>1. PICK step \in {"recheck", "try"} :
                  GoTo(t, step) /\ UNCHANGED call /\ (step = "recheck" => op[t] \in ReadOps)
        BY <2>2
      <3>2. step \in Steps
        BY DEF Steps
      <3>3. pc' \in [Tasks -> Steps] /\ pc'[t] = step /\ \A u \in Tasks \ {t} : pc'[u] = pc[u]
        BY <3>1, <3>2, GoToEffect
      <3>4. CallOK'
        BY <3>1, <3>3 DEF StructureOK, CallOK, call
      <3> QED BY <3>1, <3>3, <3>4 DEF StructureOK, TypeOK, call
    <2> QED BY <1>2, <2>1, <2>2
  <1>6. TypeOK'
    BY <1>1, <1>5 DEF StructureOK, TypeOK, ring, locks, lists
  <1>7. OwnerOK'
    BY <1>1, <1>3, <1>5 DEF StructureOK, OwnerOK, OwnerSteps
  <1>8. LockOK'
    BY <1>1, <1>3 DEF StructureOK, LockOK, LockedSteps, locks
  <1>9. PriorityOrder'
    BY <1>1 DEF StructureOK, PriorityOrder, lists
  <1>10. PlacesOK'
    <2>1. ToSet(xTasksWaitingToSend') = ToSet(xTasksWaitingToSend)
          /\ ToSet(xTasksWaitingToReceive') = ToSet(xTasksWaitingToReceive)
      BY <1>1 DEF lists
    <2>2. t \notin ready => \/ pc'[t] = "try" /\ op'[t] = op[t]
                            \/ t \in xPendingReadyList
      <3>1. CASE op[t] \in SendOps \cup ReadOps /\ ~xTimedOut
        <4>1. GoTo(t, "try") /\ UNCHANGED call
          BY <3>1 DEF ResumeAll, SendOps, ReadOps
        <4>2. pc' = [pc EXCEPT ![t] = "try"] /\ pc \in [Tasks -> Steps]
          BY <4>1 DEF GoTo, StructureOK, TypeOK
        <4> QED BY <4>1, <4>2 DEF call
      <3>2. CASE xTimedOut
        BY <1>4, <3>2
      <3>3. CASE op[t] \notin SendOps \cup ReadOps
        <4>1. t \notin ToSet(xTasksWaitingToSend) \cup ToSet(xTasksWaitingToReceive)
          BY <3>3 DEF StructureOK, PlacesOK
        <4> QED BY <4>1 DEF StructureOK, PlacesOK
      <3> QED BY <3>1, <3>2, <3>3
    <2> QED BY <1>1, <1>5, <2>1, <2>2 DEF StructureOK, PlacesOK, OffSteps
  <1> QED BY <1>5, <1>6, <1>7, <1>8, <1>9, <1>10 DEF StructureOK

LEMMA IncrementType ==
    ASSUME NEW lock \in Nat, lock <= uxNumberOfTasks
    PROVE  /\ Increment(lock) \in Nat /\ Increment(lock) <= uxNumberOfTasks
           /\ Increment(lock) \in queueUNLOCKED .. uxNumberOfTasks
           /\ Increment(lock) # queueUNLOCKED
  BY QueueAssumption DEF QueueAssumption, Increment, queueUNLOCKED

\* An interrupt leaves every call where it is, and the scheduler with its owner.
LEMMA InterruptFrame ==
    ASSUME StructureOK, UNCHANGED <<pc, call, flags>>,
           schedulerOwner' = schedulerOwner, ready \subseteq ready',
           schedulerOwner = NoTask => xPendingReadyList' = xPendingReadyList
    PROVE  /\ CallOK' /\ OwnerOK'
           /\ \A u \in Tasks \ ready : pc'[u] \in OffSteps /\ op'[u] = op[u]
  <1>1. CallOK'
    BY DEF StructureOK, CallOK, call
  <1>2. OwnerOK'
    BY DEF StructureOK, OwnerOK, flags
  <1>3. \A u \in Tasks \ ready : pc'[u] \in OffSteps /\ op'[u] = op[u]
    BY DEF StructureOK, PlacesOK, call
  <1> QED BY <1>1, <1>2, <1>3


LEMMA SendFromISRStructure ==
    ASSUME StructureOK, SendFromISR
    PROVE  StructureOK'
  <1>1. /\ UNCHANGED <<pc, call, flags>>
        /\ IF cTxLock = queueUNLOCKED
           THEN WakeReceivers(1) /\ UNCHANGED locks
           ELSE /\ cTxLock' = Increment(cTxLock)
                /\ UNCHANGED <<cRxLock, lists, sched>>
    BY DEF SendFromISR
  <1>2. /\ storage' \in [0 .. uxLength - 1 -> Items \cup {NoItem}]
        /\ pcWriteTo' \in 0 .. uxLength - 1 /\ pcReadFrom' \in 0 .. uxLength - 1
        /\ uxMessagesWaiting' \in 0 .. uxLength
        /\ lastRead' \in Items \cup {NoItem}
    <2>1. PICK x \in Items, pos \in IsrOps \cap SendOps : HasRoom(pos) /\ CopyToQueue(x, pos)
      BY DEF SendFromISR
    <2> QED BY <2>1, CopyToQueueType DEF StructureOK
  <1>3. \A u \in Tasks \ ready : pc'[u] \in OffSteps /\ op'[u] = op[u]
    BY <1>1 DEF StructureOK, PlacesOK, call
  <1>4. /\ cTxLock \in queueUNLOCKED .. uxNumberOfTasks /\ uxNumberOfTasks \in Nat
        /\ cRxLock \in queueUNLOCKED .. uxNumberOfTasks
    BY QueueAssumption DEF QueueAssumption, StructureOK, TypeOK
  <1>5. /\ PlacesOK' /\ PriorityOrder'
        /\ xTasksWaitingToReceive' \in Seq(Tasks) /\ xTasksWaitingToSend' \in Seq(Tasks)
        /\ ready' \subseteq Tasks /\ xPendingReadyList' \subseteq Tasks
        /\ schedulerOwner' = schedulerOwner /\ ready \subseteq ready'
        /\ schedulerOwner = NoTask => xPendingReadyList' = xPendingReadyList
    <2>1. CASE cTxLock = queueUNLOCKED
      BY <1>1, <1>3, <2>1, WakeReceiversPlaces
    <2>2. CASE cTxLock # queueUNLOCKED
      <3>1. UNCHANGED <<lists, ready, xPendingReadyList, schedulerOwner>>
        BY <1>1, <2>2 DEF sched
      <3>2. PlacesOK' /\ PriorityOrder'
        BY <1>3, <3>1, PlacesUnchanged
      <3> QED BY <3>1, <3>2 DEF StructureOK, TypeOK, lists
    <2> QED BY <2>1, <2>2
  <1>6. /\ cTxLock' \in queueUNLOCKED .. uxNumberOfTasks
        /\ cRxLock' = cRxLock
        /\ cTxLock' # queueUNLOCKED <=> cTxLock # queueUNLOCKED
    <2>1. CASE cTxLock = queueUNLOCKED
      BY <1>1, <1>4, <2>1 DEF locks
    <2>2. CASE cTxLock # queueUNLOCKED
      <3>1. cTxLock \in Nat /\ cTxLock <= uxNumberOfTasks
        BY <1>4, <2>2 DEF queueUNLOCKED
      <3> QED BY <1>1, <2>2, <3>1, IncrementType
    <2> QED BY <2>1, <2>2
  <1>7. TypeOK'
    BY <1>1, <1>2, <1>4, <1>5, <1>6 DEF StructureOK, TypeOK, call, flags
  <1>8. CallOK' /\ OwnerOK'
    BY <1>1, <1>5, InterruptFrame
  <1>9. LockOK'
    BY <1>1, <1>5, <1>6 DEF StructureOK, LockOK
  <1> QED BY <1>5, <1>7, <1>8, <1>9 DEF StructureOK


LEMMA ReceiveFromISRStructure ==
    ASSUME StructureOK, ReceiveFromISR
    PROVE  StructureOK'
  <1>1. /\ UNCHANGED <<pc, call, flags>>
        /\ IF cRxLock = queueUNLOCKED
           THEN WakeSenders(1) /\ UNCHANGED locks
           ELSE /\ cRxLock' = Increment(cRxLock)
                /\ UNCHANGED <<cTxLock, lists, sched>>
    BY DEF ReceiveFromISR
  <1>2. /\ storage' \in [0 .. uxLength - 1 -> Items \cup {NoItem}]
        /\ pcWriteTo' \in 0 .. uxLength - 1 /\ pcReadFrom' \in 0 .. uxLength - 1
        /\ uxMessagesWaiting' \in 0 .. uxLength
        /\ lastRead' \in Items \cup {NoItem}
    BY CopyFromQueueType DEF ReceiveFromISR, StructureOK
  <1>3. \A u \in Tasks \ ready : pc'[u] \in OffSteps /\ op'[u] = op[u]
    BY <1>1 DEF StructureOK, PlacesOK, call
  <1>4. /\ cRxLock \in queueUNLOCKED .. uxNumberOfTasks /\ uxNumberOfTasks \in Nat
        /\ cTxLock \in queueUNLOCKED .. uxNumberOfTasks
    BY QueueAssumption DEF QueueAssumption, StructureOK, TypeOK
  <1>5. /\ PlacesOK' /\ PriorityOrder'
        /\ xTasksWaitingToReceive' \in Seq(Tasks) /\ xTasksWaitingToSend' \in Seq(Tasks)
        /\ ready' \subseteq Tasks /\ xPendingReadyList' \subseteq Tasks
        /\ schedulerOwner' = schedulerOwner /\ ready \subseteq ready'
        /\ schedulerOwner = NoTask => xPendingReadyList' = xPendingReadyList
    <2>1. CASE cRxLock = queueUNLOCKED
      BY <1>1, <1>3, <2>1, WakeSendersPlaces
    <2>2. CASE cRxLock # queueUNLOCKED
      <3>1. UNCHANGED <<lists, ready, xPendingReadyList, schedulerOwner>>
        BY <1>1, <2>2 DEF sched
      <3>2. PlacesOK' /\ PriorityOrder'
        BY <1>3, <3>1, PlacesUnchanged
      <3> QED BY <3>1, <3>2 DEF StructureOK, TypeOK, lists
    <2> QED BY <2>1, <2>2
  <1>6. /\ cRxLock' \in queueUNLOCKED .. uxNumberOfTasks
        /\ cTxLock' = cTxLock
        /\ cRxLock' # queueUNLOCKED <=> cRxLock # queueUNLOCKED
    <2>1. CASE cRxLock = queueUNLOCKED
      BY <1>1, <1>4, <2>1 DEF locks
    <2>2. CASE cRxLock # queueUNLOCKED
      <3>1. cRxLock \in Nat /\ cRxLock <= uxNumberOfTasks
        BY <1>4, <2>2 DEF queueUNLOCKED
      <3> QED BY <1>1, <2>2, <3>1, IncrementType
    <2> QED BY <2>1, <2>2
  <1>7. TypeOK'
    BY <1>1, <1>2, <1>4, <1>5, <1>6 DEF StructureOK, TypeOK, call, flags
  <1>8. CallOK' /\ OwnerOK'
    BY <1>1, <1>5, InterruptFrame
  <1>9. LockOK'
    BY <1>1, <1>5, <1>6 DEF StructureOK, LockOK
  <1> QED BY <1>5, <1>7, <1>8, <1>9 DEF StructureOK


\* The structural invariant is kept by every step of a task and of an interrupt.
THEOREM StructureStep == StructureOK /\ [Next]_vars => StructureOK'
  <1> SUFFICES ASSUME StructureOK, [Next]_vars PROVE StructureOK'
    OBVIOUS
  <1>1. ASSUME NEW t \in Tasks, Call(t) PROVE StructureOK'
    BY <1>1, CallStructure
  <1>2. ASSUME NEW t \in Tasks, Continue(t) PROVE StructureOK'
    <2>1. CASE Send(t) \/ Receive(t) \/ Peek(t) \/ FailAtOnce(t) \/ NoteEntryTime(t)
      BY <2>1, SendStructure, ReceiveStructure, PeekStructure, FailAtOnceStructure,
         NoteEntryTimeStructure
    <2>2. CASE SuspendAll(t) \/ Lock(t) \/ Test(t) \/ Block(t) \/ UnlockTx(t) \/ UnlockRx(t)
      BY <2>2, SuspendAllStructure, LockStructure, TestStructure, BlockStructure,
         UnlockTxStructure, UnlockRxStructure
    <2>3. CASE ResumeAll(t) \/ Recheck(t) \/ Reset(t) \/ AbortCheck(t) \/ AbortRemove(t)
      BY <2>3, ResumeAllStructure, RecheckStructure, ResetStructure, AbortCheckStructure,
         AbortRemoveStructure
    <2> QED BY <1>2, <2>1, <2>2, <2>3 DEF Continue
  <1>3. ASSUME NEW t \in Tasks, Expire(t) PROVE StructureOK'
    BY <1>3, ExpireStructure
  <1>4. CASE SendFromISR \/ ReceiveFromISR
    BY <1>4, SendFromISRStructure, ReceiveFromISRStructure
  <1>5. CASE UNCHANGED vars
    BY <1>5 DEF vars, ring, locks, lists, sched, call, flags, StructureOK, TypeOK, CallOK,
                OwnerOK, LockOK, PlacesOK, PriorityOrder
  <1> QED BY <1>1, <1>2, <1>3, <1>4, <1>5 DEF Next

\* StructureOK holds in every reachable state.
THEOREM StructureInvariant == Spec => []StructureOK
  <1>1. Init => StructureOK
    BY InitStructure
  <1>2. StructureOK /\ [Next]_vars => StructureOK'
    BY StructureStep
  <1> QED BY <1>1, <1>2, PTL DEF Spec

\* The variables keep their types: every index stays inside the buffer, the
\* message count between 0 and uxLength and the lock counts in an int8_t.
THEOREM TypeCorrect == Spec => []TypeOK
  <1>1. StructureOK => TypeOK
    BY DEF StructureOK
  <1> QED BY <1>1, StructureInvariant, PTL

\* The event lists of the queue are always ordered by priority.
THEOREM EventListsOrdered == Spec => []PriorityOrder
  <1>1. StructureOK => PriorityOrder
    BY DEF StructureOK
  <1> QED BY <1>1, StructureInvariant, PTL

\* No task is ever lost: it is ready, or blocked in exactly one list, and with
\* the scheduler running the pending ready list and the lock counts are empty.
THEOREM EveryTaskInOnePlace == Spec => []OnePlace
  <1>1. ASSUME StructureOK PROVE OnePlace
    <2>1. ASSUME NEW t \in Tasks
          PROVE  Cardinality({p \in {1, 2, 3, 4} :
                               \/ p = 1 /\ t \in ready
                               \/ p = 2 /\ t \in xPendingReadyList
                               \/ p = 3 /\ t \in ToSet(xTasksWaitingToSend)
                               \/ p = 4 /\ t \in ToSet(xTasksWaitingToReceive)}) = 1
      <3> DEFINE places == {p \in {1, 2, 3, 4} :
                               \/ p = 1 /\ t \in ready
                               \/ p = 2 /\ t \in xPendingReadyList
                               \/ p = 3 /\ t \in ToSet(xTasksWaitingToSend)
                               \/ p = 4 /\ t \in ToSet(xTasksWaitingToReceive)}
      <3>1. PlacesOK
        BY <1>1 DEF StructureOK
      <3>2. \E p : places = {p}
        <4>1. CASE t \in ready
          <5>1. /\ t \notin xPendingReadyList
                /\ t \notin ToSet(xTasksWaitingToSend) /\ t \notin ToSet(xTasksWaitingToReceive)
            BY <3>1, <4>1 DEF PlacesOK
          <5> QED BY <4>1, <5>1, places = {1}
        <4>2. CASE t \in xPendingReadyList
          <5>1. /\ t \notin ready
                /\ t \notin ToSet(xTasksWaitingToSend) /\ t \notin ToSet(xTasksWaitingToReceive)
            BY <3>1, <4>2 DEF PlacesOK
          <5> QED BY <4>2, <5>1, places = {2}
        <4>3. CASE t \in ToSet(xTasksWaitingToSend)
          <5>1. /\ t \notin ready /\ t \notin xPendingReadyList
                /\ t \notin ToSet(xTasksWaitingToReceive)
            BY <3>1, <4>3 DEF PlacesOK
          <5> QED BY <4>3, <5>1, places = {3}
        <4>4. CASE t \in ToSet(xTasksWaitingToReceive)
          <5>1. /\ t \notin ready /\ t \notin xPendingReadyList
                /\ t \notin ToSet(xTasksWaitingToSend)
            BY <3>1, <4>4 DEF PlacesOK
          <5> QED BY <4>4, <5>1, places = {4}
        <4> QED BY <3>1, <4>1, <4>2, <4>3, <4>4 DEF PlacesOK
      <3> QED BY <3>2, FS_Singleton
    <2>2. schedulerOwner = NoTask => /\ xPendingReadyList = {}
                                     /\ cTxLock = queueUNLOCKED /\ cRxLock = queueUNLOCKED
      BY <1>1 DEF StructureOK, OwnerOK, LockOK, LockedSteps
    <2> QED BY <2>1, <2>2 DEF OnePlace
  <1> QED BY <1>1, StructureInvariant, PTL

-----------------------------------------------------------------------------
(***************************************************************************)
(* No wakeup is lost: the counting arguments behind NoLostItem and         *)
(* NoLostSlot, for every set of tasks and every length of the queue.       *)
(* ItemsOK and SlotsOK are shown inductive on top of StructureOK: a step   *)
(* that adds an item or takes a reader away from the queue sends another   *)
(* reader to it, counts the item in cTxLock, or takes an item along; and   *)
(* likewise for slots and senders.                                         *)
(***************************************************************************)

\* The sets that are counted are finite.
LEMMA TasksFinite ==
    /\ \A S : S \subseteq Tasks => IsFiniteSet(S) /\ Cardinality(S) \in Nat
                                   /\ Cardinality(S) <= Cardinality(Tasks)
    /\ Cardinality(Tasks) \in Nat /\ Cardinality(Tasks) <= uxNumberOfTasks
    /\ uxNumberOfTasks \in Nat
  <1>1. IsFiniteSet(Tasks) /\ Cardinality(Tasks) <= uxNumberOfTasks /\ uxNumberOfTasks \in Nat
    BY QueueAssumption DEF QueueAssumption
  <1> QED BY <1>1, FS_Subset, FS_CardinalityType

\* One task leaves a set of tasks and others join it.
LEMMA CountAfter ==
    ASSUME NEW A \in SUBSET Tasks, NEW B \in SUBSET Tasks, NEW W \in SUBSET Tasks, NEW x,
           W \cap A = {}, (A \ {x}) \cup W \subseteq B
    PROVE  /\ Cardinality(A) \in Nat /\ Cardinality(B) \in Nat /\ Cardinality(W) \in Nat
           /\ Cardinality(A) + Cardinality(W) <= Cardinality(B) + IF x \in A THEN 1 ELSE 0
  <1> DEFINE C == A \ {x}
  <1>1. /\ IsFiniteSet(A) /\ Cardinality(A) \in Nat
        /\ IsFiniteSet(B) /\ Cardinality(B) \in Nat
        /\ IsFiniteSet(W) /\ Cardinality(W) \in Nat
        /\ IsFiniteSet(C) /\ Cardinality(C) \in Nat
    BY TasksFinite
  <1>2. Cardinality(C) = IF x \in A THEN Cardinality(A) - 1 ELSE Cardinality(A)
    BY <1>1, FS_RemoveElement
  <1>3. C \cap W = {} /\ C \cup W \subseteq B
    OBVIOUS
  <1> HIDE DEF C
  <1>4. Cardinality(C \cup W) = Cardinality(C) + Cardinality(W)
    <2>1. Cardinality({}) = 0
      BY FS_EmptySet
    <2>2. Cardinality(C \cup W) = Cardinality(C) + Cardinality(W) - Cardinality(C \cap W)
      BY <1>1, FS_Union
    <2>3. Cardinality(C \cap W) = 0
      BY <1>3, <2>1
    <2> QED BY <1>1, <2>2, <2>3
  <1>5. Cardinality(C \cup W) <= Cardinality(B)
    BY <1>1, <1>3, FS_Subset
  <1> QED BY <1>1, <1>2, <1>4, <1>5

\* The arithmetic of it: m items and c readers before, m2 and d after.
LEMMA Balance ==
    ASSUME NEW m \in Int, NEW m2 \in Int, NEW c \in Nat, NEW d \in Nat, NEW w \in Nat,
           NEW k \in Int, NEW l \in Int, NEW e \in {0, 1},
           m2 + k + e <= m + l + w, m <= c + k, c + w <= d + e
    PROVE  m2 <= d + l
  <1>1. e \in Int
    OBVIOUS
  <1>2. m2 + k + e <= (c + k) + l + w
    OBVIOUS
  <1>3. m2 + e <= (c + w) + l
    BY <1>1, <1>2
  <1> QED BY <1>1, <1>3

\* One item more, one reader more.
LEMMA OneMore ==
    ASSUME NEW m \in Int, NEW m2 \in Int, m2 <= m + 1,
           NEW k, NEW l, NEW e, k = 0, l = 0, e = 0
    PROVE  m2 + k + e <= m + l + 1
  OBVIOUS

\* The items stay covered if the readers on their way, the items and the lock
\* count change together.
LEMMA CoveredAfter ==
    ASSUME StructureOK, StructureOK', ItemsCovered,
           NEW W \in SUBSET Tasks, NEW x, W \cap ReadersLooking = {},
           (ReadersLooking \ {x}) \cup W \subseteq ReadersLooking',
           cTxLock >= uxNumberOfTasks => cTxLock' >= uxNumberOfTasks,
           \/ cTxLock' >= uxNumberOfTasks
           \/ uxMessagesWaiting' + Count(cTxLock) + (IF x \in ReadersLooking THEN 1 ELSE 0)
                <= uxMessagesWaiting + Count(cTxLock') + Cardinality(W)
    PROVE  ItemsCovered'
  <1>1. /\ uxMessagesWaiting \in Int /\ uxMessagesWaiting' \in Int
        /\ cTxLock \in Int /\ cTxLock' \in Int /\ uxNumberOfTasks \in Int
    BY QueueAssumption DEF QueueAssumption, StructureOK, TypeOK, queueUNLOCKED
  <1>2. Count(cTxLock) \in Int /\ Count(cTxLock') \in Int
    BY <1>1 DEF Count
  <1>3. /\ ReadersLooking \in SUBSET Tasks /\ ReadersLooking' \in SUBSET Tasks
    BY DEF ReadersLooking
  <1> DEFINE A == ReadersLooking
             B == ReadersLooking'
  <1>4. /\ Cardinality(A) \in Nat /\ Cardinality(B) \in Nat /\ Cardinality(W) \in Nat
        /\ Cardinality(A) + Cardinality(W) <= Cardinality(B) + IF x \in A THEN 1 ELSE 0
    <2>1. W \cap A = {} /\ (A \ {x}) \cup W \subseteq B
      OBVIOUS
    <2>2. A \in SUBSET Tasks /\ B \in SUBSET Tasks
      BY <1>3
    <2> HIDE DEF A, B
    <2> QED BY <2>1, <2>2, CountAfter
  <1>5. ItemsCovered' <=> \/ cTxLock' >= uxNumberOfTasks
                          \/ uxMessagesWaiting' <= Cardinality(B) + Count(cTxLock')
    BY DEF ItemsCovered, Count
  <1>6. \/ cTxLock' >= uxNumberOfTasks
        \/ uxMessagesWaiting <= Cardinality(A) + Count(cTxLock)
    BY DEF ItemsCovered
  <1> DEFINE c == Cardinality(A)
             d == Cardinality(B)
             w == Cardinality(W)
             k == Count(cTxLock)
             l == Count(cTxLock')
             e == IF x \in A THEN 1 ELSE 0
             full == cTxLock' >= uxNumberOfTasks
  <1>7. full \/ uxMessagesWaiting' + k + e <= uxMessagesWaiting + l + w
    OBVIOUS
  <1>8. c \in Nat /\ d \in Nat /\ w \in Nat /\ k \in Int /\ l \in Int /\ e \in {0, 1}
    BY <1>2, <1>4
  <1>9. c + w <= d + e
    BY <1>4
  <1>10. full \/ uxMessagesWaiting <= c + k
    BY <1>6
  <1>11. ItemsCovered' <=> (full \/ uxMessagesWaiting' <= d + l)
    BY <1>5
  <1>12. uxMessagesWaiting \in Int /\ uxMessagesWaiting' \in Int
    BY <1>1
  <1> HIDE DEF c, d, w, k, l, A, B, e, full
  <1>13. full \/ uxMessagesWaiting' <= d + l
    <2> SUFFICES ASSUME ~full PROVE uxMessagesWaiting' <= d + l
      OBVIOUS
    <2>1. uxMessagesWaiting' + k + e <= uxMessagesWaiting + l + w
      BY <1>7
    <2>2. uxMessagesWaiting <= c + k
      BY <1>10
    <2> QED BY <1>8, <1>9, <1>12, <2>1, <2>2, Balance
  <1> QED BY <1>11, <1>13

\* The receivers that are woken are on their way to the queue, and were not.
LEMMA WokenReaders ==
    ASSUME StructureOK, StructureOK', NEW n \in Nat, WakeReceivers(n), NEW x,
           \A u \in ReadersLooking \ {x} : pc'[u] \in Looking /\ op'[u] = op[u],
           \A u \in Tasks \ ready : pc'[u] \in OffSteps /\ op'[u] = op[u]
    PROVE  LET W == FirstOf(xTasksWaitingToReceive, n)
           IN  /\ W \in SUBSET Tasks /\ W \cap ReadersLooking = {}
               /\ (ReadersLooking \ {x}) \cup W \subseteq ReadersLooking'
               /\ xTasksWaitingToReceive' # <<>> =>
                    /\ Cardinality(W) = n /\ n < Cardinality(Tasks)
                    /\ xTasksWaitingToReceive # <<>>
  <1> DEFINE W == FirstOf(xTasksWaitingToReceive, n)
             R == ToSet(xTasksWaitingToReceive)
             R2 == ToSet(xTasksWaitingToReceive')
  <1>1. /\ W \subseteq R /\ R2 = R \ W
        /\ xTasksWaitingToReceive' # <<>> => Cardinality(W) = n
    BY WakeReceiversEffect
  <1>2. /\ R \subseteq Tasks /\ R2 \subseteq Tasks
        /\ xTasksWaitingToReceive' # <<>> => R2 # {}
        /\ R # {} => xTasksWaitingToReceive # <<>>
    <2>1. xTasksWaitingToReceive \in Seq(Tasks) /\ xTasksWaitingToReceive' \in Seq(Tasks)
      BY DEF StructureOK, TypeOK
    <2> QED BY <2>1, ToSetSeq
  <1>3. \A u \in R : u \in Tasks \ ready /\ op[u] \in ReadOps
    BY <1>2 DEF StructureOK, PlacesOK
  <1>4. ReadersLooking = {u \in Tasks : op[u] \in ReadOps /\ pc[u] \in Looking /\ u \notin R}
        /\ ReadersLooking' = {u \in Tasks : op'[u] \in ReadOps /\ pc'[u] \in Looking /\ u \notin R2}
    BY DEF ReadersLooking
  <1> HIDE DEF W, R, R2
  <1>5. W \in SUBSET Tasks /\ W \cap ReadersLooking = {}
    BY <1>1, <1>2, <1>4
  <1>6. ReadersLooking \ {x} \subseteq ReadersLooking'
    BY <1>1, <1>4
  <1>7. W \subseteq ReadersLooking'
    BY <1>1, <1>2, <1>3, <1>4 DEF OffSteps, Looking
  <1>8. ASSUME xTasksWaitingToReceive' # <<>>
        PROVE  Cardinality(W) = n /\ n < Cardinality(Tasks) /\ R # {}
    <2>1. PICK y \in R2 : TRUE
      BY <1>2, <1>8
    <2>2. y \in Tasks /\ y \notin W
      BY <1>1, <1>2, <2>1
    <2>3. IsFiniteSet(W) /\ Cardinality(W \cup {y}) = Cardinality(W) + 1
      BY <1>5, <2>2, TasksFinite, FS_AddElement
    <2>4. Cardinality(W \cup {y}) <= Cardinality(Tasks) /\ Cardinality(Tasks) \in Nat
      BY <1>5, <2>2, TasksFinite
    <2> QED BY <1>1, <1>8, <2>1, <2>3, <2>4
  <1> QED BY <1>2, <1>5, <1>6, <1>7, <1>8 DEF W, R

\* Nobody is about to block on an unlocked queue, nor while nobody holds the
\* scheduler.
LEMMA NobodyBlocking ==
    ASSUME StructureOK, NEW ops,
           cTxLock = queueUNLOCKED \/ cRxLock = queueUNLOCKED \/ schedulerOwner = NoTask
    PROVE  ~Blocking(ops)
  <1> SUFFICES ASSUME NEW t \in Tasks, pc[t] = "block" PROVE FALSE
    BY DEF Blocking
  <1>1. schedulerOwner = t /\ t # NoTask
    BY QueueAssumption DEF QueueAssumption, StructureOK, OwnerOK, OwnerSteps
  <1> QED BY <1>1 DEF StructureOK, LockOK, LockedSteps

\* A step that adds no item and takes no reader away.
LEMMA ItemsUndisturbed ==
    ASSUME StructureOK, StructureOK', ItemsOK,
           UNCHANGED <<cTxLock, uxMessagesWaiting>>,
           ReadersLooking \subseteq ReadersLooking',
           xTasksWaitingToReceive' # <<>> => xTasksWaitingToReceive # <<>> \/ Blocking(ReadOps),
           Blocking(ReadOps)' => Blocking(ReadOps)
    PROVE  ItemsOK'
  <1> SUFFICES ASSUME (xTasksWaitingToReceive # <<>> \/ Blocking(ReadOps))'
               PROVE  ItemsCovered'
    BY DEF ItemsOK
  <1>1. ItemsCovered
    BY DEF ItemsOK
  <1>2. {} \in SUBSET Tasks /\ {} \cap ReadersLooking = {}
        /\ (ReadersLooking \ {NoTask}) \cup {} \subseteq ReadersLooking'
    OBVIOUS
  <1>3. NoTask \notin ReadersLooking
    BY QueueAssumption DEF QueueAssumption, ReadersLooking
  <1>4. /\ uxMessagesWaiting \in Int /\ cTxLock \in Int
        /\ Cardinality({}) = 0
    BY FS_EmptySet, QueueAssumption
       DEF QueueAssumption, StructureOK, TypeOK, queueUNLOCKED
  <1>5. Count(cTxLock) \in Int /\ Count(cTxLock') = Count(cTxLock)
    BY <1>4 DEF Count
  <1>6. uxMessagesWaiting' + Count(cTxLock) + (IF NoTask \in ReadersLooking THEN 1 ELSE 0)
                <= uxMessagesWaiting + Count(cTxLock') + Cardinality({})
    BY <1>3, <1>4, <1>5
  <1> QED BY <1>1, <1>2, <1>6, CoveredAfter

\* An empty queue has nothing to lose.
LEMMA EmptyCovered == StructureOK /\ uxMessagesWaiting = 0 => ItemsOK
  <1> SUFFICES ASSUME StructureOK, uxMessagesWaiting = 0 PROVE ItemsOK
    OBVIOUS
  <1>1. cTxLock \in Int /\ Count(cTxLock) >= 0
    BY QueueAssumption DEF QueueAssumption, StructureOK, TypeOK, queueUNLOCKED, Count
  <1>2. Cardinality(ReadersLooking) \in Nat
    BY TasksFinite DEF ReadersLooking
  <1>3. Count(cTxLock) \in Int
    BY <1>1 DEF Count
  <1> QED BY <1>1, <1>2, <1>3 DEF ItemsOK, ItemsCovered

-----------------------------------------------------------------------------
(***************************************************************************)
(* ItemsOK is inductive                                                    *)
(***************************************************************************)

\* What a critical section that ends the call of a task does to the readers.
LEMMA ReturnReaders ==
    ASSUME StructureOK, NEW t \in Tasks, Running(t), pc[t] = "try", Return(t)
    PROVE  /\ ~Blocking(ReadOps)'
           /\ cTxLock = queueUNLOCKED
           /\ \A u \in ReadersLooking \ {t} : pc'[u] \in Looking /\ op'[u] = op[u]
           /\ \A u \in Tasks \ ready : pc'[u] \in OffSteps /\ op'[u] = op[u]
  <1>1. /\ schedulerOwner = NoTask /\ cTxLock = queueUNLOCKED
        /\ \A u \in Tasks \ ready : pc'[u] \in OffSteps /\ op'[u] = op[u]
    BY ReturnUnowned
  <1>2. /\ pc'[t] = "idle"
        /\ \A u \in Tasks \ {t} : pc'[u] = pc[u] /\ op'[u] = op[u]
    BY ReturnEffect
  <1>3. ~Blocking(ReadOps)
    BY <1>1, NobodyBlocking
  <1>4. ~Blocking(ReadOps)'
    BY <1>2, <1>3 DEF Blocking
  <1>5. \A u \in ReadersLooking \ {t} : pc'[u] \in Looking /\ op'[u] = op[u]
    BY <1>2 DEF ReadersLooking
  <1> QED BY <1>1, <1>3, <1>4, <1>5

LEMMA SendItems ==
    ASSUME StructureOK, StructureOK', ItemsOK, NEW t \in Tasks, Send(t)
    PROVE  ItemsOK'
  <1> DEFINE W == FirstOf(xTasksWaitingToReceive, 1)
  <1>1. /\ pc[t] = "try" /\ Running(t) /\ op[t] \in SendOps /\ HasRoom(op[t])
        /\ CopyToQueue(arg[t], op[t]) /\ WakeReceivers(1) /\ Return(t)
        /\ cTxLock' = cTxLock
    BY DEF Send, locks
  <1>2. /\ uxMessagesWaiting \in Int /\ uxMessagesWaiting' \in Int
        /\ uxMessagesWaiting' <= uxMessagesWaiting + 1
    <2>1. arg[t] \in Items
      BY <1>1 DEF StructureOK, CallOK
    <2> QED BY <1>1, <2>1, CopyToQueueType DEF StructureOK, TypeOK
  <1>3. /\ ~Blocking(ReadOps)' /\ cTxLock = queueUNLOCKED
        /\ \A u \in ReadersLooking \ {t} : pc'[u] \in Looking /\ op'[u] = op[u]
        /\ \A u \in Tasks \ ready : pc'[u] \in OffSteps /\ op'[u] = op[u]
    BY <1>1, ReturnReaders
  <1>4. t \notin ReadersLooking
    BY <1>1 DEF ReadersLooking, SendOps, ReadOps
  <1> SUFFICES ASSUME xTasksWaitingToReceive' # <<>> PROVE ItemsCovered'
    BY <1>3 DEF ItemsOK
  <1>5. /\ W \in SUBSET Tasks /\ W \cap ReadersLooking = {}
        /\ (ReadersLooking \ {t}) \cup W \subseteq ReadersLooking'
        /\ Cardinality(W) = 1 /\ xTasksWaitingToReceive # <<>>
    BY <1>1, <1>3, WokenReaders
  <1>6. ItemsCovered
    BY <1>5 DEF ItemsOK
  <1>7. uxMessagesWaiting' + Count(cTxLock) + (IF t \in ReadersLooking THEN 1 ELSE 0)
                <= uxMessagesWaiting + Count(cTxLock') + Cardinality(W)
    BY <1>1, <1>2, <1>3, <1>4, <1>5 DEF Count
  <1> HIDE DEF W
  <1> QED BY <1>1, <1>5, <1>6, <1>7, CoveredAfter

LEMMA PeekItems ==
    ASSUME StructureOK, StructureOK', ItemsOK, NEW t \in Tasks, Peek(t)
    PROVE  ItemsOK'
  <1> DEFINE W == FirstOf(xTasksWaitingToReceive, 1)
  <1>1. /\ pc[t] = "try" /\ Running(t) /\ WakeReceivers(1) /\ Return(t)
        /\ cTxLock' = cTxLock /\ uxMessagesWaiting' = uxMessagesWaiting
    BY DEF Peek, PeekAtQueue, locks
  <1>2. uxMessagesWaiting \in Int
    BY DEF StructureOK, TypeOK
  <1>3. /\ ~Blocking(ReadOps)' /\ cTxLock = queueUNLOCKED
        /\ \A u \in ReadersLooking \ {t} : pc'[u] \in Looking /\ op'[u] = op[u]
        /\ \A u \in Tasks \ ready : pc'[u] \in OffSteps /\ op'[u] = op[u]
    BY <1>1, ReturnReaders
  <1> SUFFICES ASSUME xTasksWaitingToReceive' # <<>> PROVE ItemsCovered'
    BY <1>3 DEF ItemsOK
  <1>4. /\ W \in SUBSET Tasks /\ W \cap ReadersLooking = {}
        /\ (ReadersLooking \ {t}) \cup W \subseteq ReadersLooking'
        /\ Cardinality(W) = 1 /\ xTasksWaitingToReceive # <<>>
    BY <1>1, <1>3, WokenReaders
  <1>5. ItemsCovered
    BY <1>4 DEF ItemsOK
  <1>6. uxMessagesWaiting' + Count(cTxLock) + (IF t \in ReadersLooking THEN 1 ELSE 0)
                <= uxMessagesWaiting + Count(cTxLock') + Cardinality(W)
    BY <1>1, <1>2, <1>3, <1>4 DEF Count
  <1> HIDE DEF W
  <1> QED BY <1>1, <1>4, <1>5, <1>6, CoveredAfter

LEMMA ReceiveItems ==
    ASSUME StructureOK, StructureOK', ItemsOK, NEW t \in Tasks, Receive(t)
    PROVE  ItemsOK'
  <1>1. /\ pc[t] = "try" /\ Running(t) /\ CopyFromQueue /\ ~IsEmpty /\ Return(t)
        /\ cTxLock' = cTxLock /\ xTasksWaitingToReceive' = xTasksWaitingToReceive
    BY DEF Receive, WakeSenders, locks
  <1>2. uxMessagesWaiting \in Int /\ uxMessagesWaiting' = uxMessagesWaiting - 1
    BY <1>1, CopyFromQueueType DEF StructureOK, TypeOK
  <1>3. /\ ~Blocking(ReadOps)' /\ cTxLock = queueUNLOCKED
        /\ \A u \in ReadersLooking \ {t} : pc'[u] \in Looking /\ op'[u] = op[u]
    BY <1>1, ReturnReaders
  <1> SUFFICES ASSUME xTasksWaitingToReceive' # <<>> PROVE ItemsCovered'
    BY <1>3 DEF ItemsOK
  <1>4. (ReadersLooking \ {t}) \cup {} \subseteq ReadersLooking'
    BY <1>1, <1>3 DEF ReadersLooking
  <1>5. ItemsCovered
    BY <1>1 DEF ItemsOK
  <1>6. Cardinality({}) = 0
    BY FS_EmptySet
  <1>7. uxMessagesWaiting' + Count(cTxLock) + (IF t \in ReadersLooking THEN 1 ELSE 0)
                <= uxMessagesWaiting + Count(cTxLock') + Cardinality({})
    BY <1>1, <1>2, <1>3, <1>6 DEF Count
  <1>8. {} \in SUBSET Tasks /\ {} \cap ReadersLooking = {}
    OBVIOUS
  <1> QED BY <1>1, <1>4, <1>5, <1>7, <1>8, CoveredAfter

\* prvUnlockQueue wakes as many receivers as it counted items, and with a capped
\* count all of them: there are not more waiters than tasks in the system.
LEMMA UnlockTxItems ==
    ASSUME StructureOK, StructureOK', ItemsOK, NEW t \in Tasks, UnlockTx(t)
    PROVE  ItemsOK'
  <1> DEFINE W == FirstOf(xTasksWaitingToReceive, cTxLock)
  <1>1. /\ pc[t] = "unlockTx" /\ Running(t) /\ GoTo(t, "unlockRx")
        /\ WakeReceivers(cTxLock) /\ cTxLock' = queueUNLOCKED
        /\ op' = op /\ uxMessagesWaiting' = uxMessagesWaiting
    BY DEF UnlockTx, ring, call
  <1>2. "unlockRx" \in Steps /\ "unlockRx" \in OffSteps /\ "unlockRx" \in Looking
    BY DEF Steps, OffSteps, Looking
  <1>3. /\ pc'[t] = "unlockRx" /\ \A u \in Tasks \ {t} : pc'[u] = pc[u]
        /\ \A u \in Tasks \ ready : pc'[u] \in OffSteps /\ op'[u] = op[u]
    BY <1>1, <1>2, GoToEffect
  <1>4. schedulerOwner = t /\ t # NoTask
    BY <1>1, RunningTask, QueueAssumption DEF OwnerSteps, QueueAssumption
  <1>5. cTxLock \in Nat /\ uxNumberOfTasks \in Nat /\ uxMessagesWaiting \in Int
    <2>1. cTxLock # queueUNLOCKED
      BY <1>1, <1>4 DEF StructureOK, LockOK, LockedSteps
    <2> QED BY <2>1, QueueAssumption
            DEF QueueAssumption, StructureOK, TypeOK, queueUNLOCKED
  <1>6. ~Blocking(ReadOps)'
    <2>1. \A u \in Tasks : pc[u] = "block" => u = t
      BY <1>4 DEF StructureOK, OwnerOK, OwnerSteps
    <2> QED BY <1>1, <1>3, <2>1 DEF Blocking
  <1>7. NoTask \notin ReadersLooking
    BY QueueAssumption DEF QueueAssumption, ReadersLooking
  <1>8. \A u \in ReadersLooking \ {NoTask} : pc'[u] \in Looking /\ op'[u] = op[u]
    BY <1>1, <1>2, <1>3 DEF ReadersLooking
  <1> SUFFICES ASSUME xTasksWaitingToReceive' # <<>> PROVE ItemsCovered'
    BY <1>6 DEF ItemsOK
  <1>9. /\ W \in SUBSET Tasks /\ W \cap ReadersLooking = {}
        /\ (ReadersLooking \ {NoTask}) \cup W \subseteq ReadersLooking'
        /\ Cardinality(W) = cTxLock /\ cTxLock < Cardinality(Tasks)
        /\ xTasksWaitingToReceive # <<>>
    BY <1>1, <1>3, <1>5, <1>8, WokenReaders
  <1> HIDE DEF W
  <1>10. ItemsCovered
    BY <1>9 DEF ItemsOK
  <1>11. ~(cTxLock >= uxNumberOfTasks)
    BY <1>5, <1>9, TasksFinite
  <1>12. Count(cTxLock) = cTxLock /\ Count(cTxLock') = 0
    BY <1>1, <1>5 DEF Count, queueUNLOCKED
  <1>13. uxMessagesWaiting' + Count(cTxLock) + (IF NoTask \in ReadersLooking THEN 1 ELSE 0)
                <= uxMessagesWaiting + Count(cTxLock') + Cardinality(W)
    BY <1>1, <1>5, <1>7, <1>9, <1>12
  <1> QED BY <1>9, <1>10, <1>11, <1>13, CoveredAfter

\* Interrupts: an unlocked queue wakes a receiver, a locked one counts the item.
LEMMA SendFromISRItems ==
    ASSUME StructureOK, StructureOK', ItemsOK, SendFromISR
    PROVE  ItemsOK'
  <1> DEFINE W == FirstOf(xTasksWaitingToReceive, 1)
  <1>1. /\ UNCHANGED <<pc, op>>
        /\ IF cTxLock = queueUNLOCKED
           THEN WakeReceivers(1) /\ cTxLock' = cTxLock
           ELSE /\ cTxLock' = Increment(cTxLock)
                /\ xTasksWaitingToReceive' = xTasksWaitingToReceive
    BY DEF SendFromISR, call, locks, lists
  <1>2. /\ uxMessagesWaiting \in Int /\ uxMessagesWaiting' \in Int
        /\ uxMessagesWaiting' <= uxMessagesWaiting + 1
    <2>1. PICK x \in Items, pos \in IsrOps \cap SendOps : HasRoom(pos) /\ CopyToQueue(x, pos)
      BY DEF SendFromISR
    <2> QED BY <2>1, CopyToQueueType DEF StructureOK, TypeOK
  <1>3. \A u \in Tasks \ ready : pc'[u] \in OffSteps /\ op'[u] = op[u]
    BY <1>1 DEF StructureOK, PlacesOK
  <1>4. NoTask \notin ReadersLooking
    BY QueueAssumption DEF QueueAssumption, ReadersLooking
  <1>5. \A u \in ReadersLooking \ {NoTask} : pc'[u] \in Looking /\ op'[u] = op[u]
    BY <1>1 DEF ReadersLooking
  <1>6. Blocking(ReadOps)' <=> Blocking(ReadOps)
    BY <1>1 DEF Blocking
  <1>7. CASE cTxLock = queueUNLOCKED
    <2>1. ~Blocking(ReadOps)'
      BY <1>6, <1>7, NobodyBlocking
    <2>2. Count(cTxLock) = 0 /\ Count(cTxLock') = 0
      BY <1>1, <1>7 DEF Count
    <2>3. uxMessagesWaiting' + Count(cTxLock) + (IF NoTask \in ReadersLooking THEN 1 ELSE 0)
                <= uxMessagesWaiting + Count(cTxLock') + 1
      BY <1>2, <1>4, <2>2, OneMore
    <2> SUFFICES ASSUME xTasksWaitingToReceive' # <<>> PROVE ItemsCovered'
      BY <2>1 DEF ItemsOK
    <2>4. /\ W \in SUBSET Tasks /\ W \cap ReadersLooking = {}
          /\ (ReadersLooking \ {NoTask}) \cup W \subseteq ReadersLooking'
          /\ Cardinality(W) = 1 /\ xTasksWaitingToReceive # <<>>
      BY <1>1, <1>3, <1>5, <1>7, WokenReaders
    <2> HIDE DEF W
    <2>5. ItemsCovered
      BY <2>4 DEF ItemsOK
    <2> QED BY <1>1, <1>7, <2>3, <2>4, <2>5, CoveredAfter
  <1>8. CASE cTxLock # queueUNLOCKED
    <2>1. cTxLock \in Nat /\ uxNumberOfTasks \in Nat
      BY <1>8, QueueAssumption DEF QueueAssumption, StructureOK, TypeOK, queueUNLOCKED
    <2>2. cTxLock' = IF cTxLock < uxNumberOfTasks THEN cTxLock + 1 ELSE cTxLock
      BY <1>1, <1>8 DEF Increment
    <2>3. /\ Count(cTxLock) = cTxLock /\ Count(cTxLock') = cTxLock'
      BY <2>1, <2>2 DEF Count, queueUNLOCKED
    <2>4. {} \in SUBSET Tasks /\ {} \cap ReadersLooking = {} /\ Cardinality({}) = 0
      BY FS_EmptySet
    <2>5. (ReadersLooking \ {NoTask}) \cup {} \subseteq ReadersLooking'
      BY <1>1, <1>8 DEF ReadersLooking
    <2>6. \/ cTxLock' >= uxNumberOfTasks
          \/ uxMessagesWaiting' + Count(cTxLock) + (IF NoTask \in ReadersLooking THEN 1 ELSE 0)
                <= uxMessagesWaiting + Count(cTxLock') + Cardinality({})
      BY <1>2, <1>4, <2>1, <2>2, <2>3, <2>4
    <2>7. cTxLock >= uxNumberOfTasks => cTxLock' >= uxNumberOfTasks
      BY <2>1, <2>2
    <2>8. ItemsCovered => ItemsCovered'
      BY <2>4, <2>5, <2>6, <2>7, CoveredAfter
    <2> QED BY <1>1, <1>6, <1>8, <2>8 DEF ItemsOK
  <1> QED BY <1>7, <1>8

\* A task goes on, and if it was a reader on its way to the queue it still is.
LEMMA MovedReader ==
    ASSUME StructureOK, StructureOK', ItemsOK, NEW t \in Tasks,
           UNCHANGED <<cTxLock, uxMessagesWaiting, xTasksWaitingToReceive>>,
           \A u \in Tasks \ {t} : pc'[u] = pc[u] /\ op'[u] = op[u],
           t \in ReadersLooking => t \in ReadersLooking',
           pc'[t] # "block" \/ op'[t] \notin ReadOps
    PROVE  ItemsOK'
  <1>1. ReadersLooking \subseteq ReadersLooking'
    BY DEF ReadersLooking
  <1>2. Blocking(ReadOps)' => Blocking(ReadOps)
    BY DEF Blocking
  <1> QED BY <1>1, <1>2, ItemsUndisturbed

LEMMA CallItems ==
    ASSUME StructureOK, StructureOK', ItemsOK, NEW t \in Tasks, Call(t)
    PROVE  ItemsOK'
  <1>1. /\ pc[t] = "idle"
        /\ UNCHANGED <<cTxLock, uxMessagesWaiting, xTasksWaitingToReceive>>
        /\ \E o \in Ops[t] :
             /\ op' = [op EXCEPT ![t] = o]
             /\ pc' = [pc EXCEPT ![t] = IF o = "abort" THEN "suspend" ELSE "try"]
    BY DEF Call, GoTo, ring, locks, lists
  <1>2. t \notin ReadersLooking
    BY <1>1 DEF ReadersLooking, Looking
  <1>3. /\ \A u \in Tasks \ {t} : pc'[u] = pc[u] /\ op'[u] = op[u]
        /\ pc'[t] # "block"
    BY <1>1 DEF StructureOK, TypeOK
  <1> QED BY <1>1, <1>2, <1>3, MovedReader

LEMMA EmptyCoveredNext == (StructureOK /\ uxMessagesWaiting = 0 => ItemsOK)'
  BY EmptyCovered, PTL

\* A step that finds the queue empty and leaves it so.
LEMMA EmptyItems ==
    ASSUME StructureOK, StructureOK', IsEmpty, uxMessagesWaiting' = uxMessagesWaiting
    PROVE  ItemsOK'
  <1>1. uxMessagesWaiting' = 0
    BY DEF IsEmpty
  <1> QED BY <1>1, EmptyCoveredNext

LEMMA FailAtOnceItems ==
    ASSUME StructureOK, StructureOK', ItemsOK, NEW t \in Tasks, FailAtOnce(t)
    PROVE  ItemsOK'
  <1>1. /\ pc[t] = "try" /\ MustWait(t) /\ Return(t)
        /\ UNCHANGED <<cTxLock, uxMessagesWaiting, xTasksWaitingToReceive>>
    BY DEF FailAtOnce, ring, locks, lists
  <1>2. CASE IsEmpty
    BY <1>1, <1>2, EmptyItems
  <1>3. CASE op[t] \in SendOps
    <2>1. t \notin ReadersLooking
      BY <1>3 DEF ReadersLooking, SendOps, ReadOps
    <2>2. /\ \A u \in Tasks \ {t} : pc'[u] = pc[u] /\ op'[u] = op[u]
          /\ pc'[t] # "block"
      BY <1>1, ReturnEffect
    <2> QED BY <1>1, <2>1, <2>2, MovedReader
  <1> QED BY <1>1, <1>2, <1>3 DEF MustWait

LEMMA NoteEntryTimeItems ==
    ASSUME StructureOK, StructureOK', ItemsOK, NEW t \in Tasks, NoteEntryTime(t)
    PROVE  ItemsOK'
  <1>1. /\ pc[t] = "try" /\ MustWait(t) /\ pc' = [pc EXCEPT ![t] = "suspend"] /\ op' = op
        /\ UNCHANGED <<cTxLock, uxMessagesWaiting, xTasksWaitingToReceive>>
    BY DEF NoteEntryTime, GoTo, ring, locks, lists
  <1>2. CASE IsEmpty
    BY <1>1, <1>2, EmptyItems
  <1>3. CASE op[t] \in SendOps
    <2>1. t \notin ReadersLooking
      BY <1>3 DEF ReadersLooking, SendOps, ReadOps
    <2>2. /\ \A u \in Tasks \ {t} : pc'[u] = pc[u] /\ op'[u] = op[u]
          /\ pc'[t] # "block"
      BY <1>1 DEF StructureOK, TypeOK
    <2> QED BY <1>1, <2>1, <2>2, MovedReader
  <1> QED BY <1>1, <1>2, <1>3 DEF MustWait

\* Steps between vTaskSuspendAll and the unlocking of the queue.
LEMMA CriticalItems ==
    ASSUME StructureOK, StructureOK', ItemsOK, NEW t \in Tasks,
           SuspendAll(t) \/ AbortCheck(t)
    PROVE  ItemsOK'
  <1>1. PICK step \in {"abortCheck", "lock", "abortRemove", "resume"} :
          /\ pc[t] \in {"suspend", "abortCheck"} /\ pc' = [pc EXCEPT ![t] = step] /\ op' = op
          /\ UNCHANGED <<cTxLock, uxMessagesWaiting, xTasksWaitingToReceive>>
    <2>1. CASE SuspendAll(t)
      BY <2>1 DEF SuspendAll, GoTo, ring, locks, lists, call
    <2>2. CASE AbortCheck(t)
      BY <2>2 DEF AbortCheck, GoTo, ring, locks, lists, call
    <2> QED BY <2>1, <2>2
  <1>2. t \notin ReadersLooking
    BY <1>1 DEF ReadersLooking, Looking
  <1>3. /\ \A u \in Tasks \ {t} : pc'[u] = pc[u] /\ op'[u] = op[u]
        /\ pc'[t] # "block"
    BY <1>1 DEF StructureOK, TypeOK
  <1> QED BY <1>1, <1>2, <1>3, MovedReader

LEMMA LockItems ==
    ASSUME StructureOK, StructureOK', ItemsOK, NEW t \in Tasks, Lock(t)
    PROVE  ItemsOK'
  <1>1. /\ pc[t] = "lock" /\ Running(t) /\ op' = op
        /\ pc' = [pc EXCEPT ![t] = IF xTimedOut' THEN "unlockTx" ELSE "test"]
        /\ cTxLock' = IF cTxLock = queueUNLOCKED THEN queueLOCKED_UNMODIFIED ELSE cTxLock
        /\ UNCHANGED <<uxMessagesWaiting, xTasksWaitingToReceive>>
    BY DEF Lock, GoTo, ring, lists
  <1>2. /\ \A u \in Tasks \ {t} : pc'[u] = pc[u] /\ op'[u] = op[u]
        /\ pc'[t] # "block"
    BY <1>1 DEF StructureOK, TypeOK
  <1>3. t \notin ReadersLooking
    BY <1>1 DEF ReadersLooking, Looking
  <1>4. /\ {} \in SUBSET Tasks /\ {} \cap ReadersLooking = {} /\ Cardinality({}) = 0
        /\ (ReadersLooking \ {t}) \cup {} \subseteq ReadersLooking'
    BY <1>1, <1>2, FS_EmptySet DEF ReadersLooking
  <1>5. /\ cTxLock \in Int /\ uxNumberOfTasks \in Nat /\ uxMessagesWaiting \in Int
        /\ cTxLock >= uxNumberOfTasks => cTxLock' >= uxNumberOfTasks
        /\ Count(cTxLock') = Count(cTxLock) /\ Count(cTxLock) \in Int
    BY <1>1, QueueAssumption
       DEF QueueAssumption, StructureOK, TypeOK, Count, queueUNLOCKED, queueLOCKED_UNMODIFIED
  <1>6. uxMessagesWaiting' + Count(cTxLock) + (IF t \in ReadersLooking THEN 1 ELSE 0)
                <= uxMessagesWaiting + Count(cTxLock') + Cardinality({})
    BY <1>1, <1>3, <1>4, <1>5
  <1>7. ItemsCovered => ItemsCovered'
    BY <1>4, <1>5, <1>6, CoveredAfter
  <1>8. Blocking(ReadOps)' => Blocking(ReadOps)
    BY <1>2 DEF Blocking
  <1> QED BY <1>1, <1>7, <1>8 DEF ItemsOK

\* A reader goes on to block only on an empty queue.
LEMMA TestItems ==
    ASSUME StructureOK, StructureOK', ItemsOK, NEW t \in Tasks, Test(t)
    PROVE  ItemsOK'
  <1>1. /\ pc[t] = "test" /\ op' = op
        /\ pc' = [pc EXCEPT ![t] = IF (op[t] \in SendOps /\ IsFull) \/ (op[t] \in ReadOps /\ IsEmpty)
                                   THEN "block" ELSE "unlockTx"]
        /\ UNCHANGED <<cTxLock, uxMessagesWaiting, xTasksWaitingToReceive>>
    BY DEF Test, GoTo, ring, locks, lists, call
  <1>2. CASE IsEmpty
    BY <1>1, <1>2, EmptyItems
  <1>3. CASE ~IsEmpty
    <2>1. /\ \A u \in Tasks \ {t} : pc'[u] = pc[u] /\ op'[u] = op[u]
          /\ pc'[t] # "block" \/ op'[t] \notin ReadOps
      BY <1>1, <1>3 DEF StructureOK, TypeOK, SendOps, ReadOps
    <2>2. t \notin ReadersLooking
      BY <1>1 DEF ReadersLooking, Looking
    <2> QED BY <1>1, <2>1, <2>2, MovedReader
  <1> QED BY <1>2, <1>3

LEMMA BlockItems ==
    ASSUME StructureOK, StructureOK', ItemsOK, NEW t \in Tasks, Block(t)
    PROVE  ItemsOK'
  <1>1. /\ pc[t] = "block" /\ Running(t) /\ op' = op /\ pc' = [pc EXCEPT ![t] = "unlockTx"]
        /\ UNCHANGED <<cTxLock, uxMessagesWaiting>>
        /\ op[t] \in SendOps => xTasksWaitingToReceive' = xTasksWaitingToReceive
        /\ op[t] \notin SendOps =>
             xTasksWaitingToReceive' = ListInsert(xTasksWaitingToReceive, ItemValue, t)
    BY DEF Block, GoTo, ring, locks, call
  <1>2. \A u \in Tasks \ {t} : pc'[u] = pc[u] /\ op'[u] = op[u]
    BY <1>1 DEF StructureOK, TypeOK
  <1>3. pc'[t] = "unlockTx"
    BY <1>1 DEF StructureOK, TypeOK
  <1>4. CASE op[t] \in SendOps
    <2>1. t \notin ReadersLooking
      BY <1>1 DEF ReadersLooking, Looking
    <2> QED BY <1>1, <1>2, <1>3, <1>4, <2>1, MovedReader
  <1>5. CASE op[t] \notin SendOps
    <2>1. op[t] \in ReadOps
      BY <1>1, <1>5 DEF StructureOK, CallOK
    <2>2. t \in ready /\ t \notin ToSet(xTasksWaitingToReceive)
      BY <1>1, RunningTask DEF StructureOK, PlacesOK
    <2>3. ToSet(xTasksWaitingToReceive') = ToSet(xTasksWaitingToReceive) \cup {t}
      BY <1>1, <1>5, <2>2, Lists, ListInsertProperties, ItemValueType
    <2>4. ReadersLooking \subseteq ReadersLooking'
      BY <1>1, <1>2, <2>3 DEF ReadersLooking, Looking
    <2>5. Blocking(ReadOps)
      BY <1>1, <2>1 DEF Blocking
    <2> QED BY <1>1, <2>4, <2>5, ItemsUndisturbed
  <1> QED BY <1>4, <1>5

LEMMA UnlockRxItems ==
    ASSUME StructureOK, StructureOK', ItemsOK, NEW t \in Tasks, UnlockRx(t)
    PROVE  ItemsOK'
  <1>1. /\ pc[t] = "unlockRx" /\ op' = op /\ pc' = [pc EXCEPT ![t] = "resume"]
        /\ UNCHANGED <<cTxLock, uxMessagesWaiting, xTasksWaitingToReceive>>
    BY DEF UnlockRx, WakeSenders, GoTo, ring, call
  <1>2. /\ \A u \in Tasks \ {t} : pc'[u] = pc[u] /\ op'[u] = op[u]
        /\ pc'[t] = "resume"
    BY <1>1 DEF StructureOK, TypeOK
  <1>3. t \in ReadersLooking => t \in ReadersLooking'
    BY <1>1, <1>2 DEF ReadersLooking, Looking
  <1> QED BY <1>1, <1>2, <1>3, MovedReader

\* A reader never leaves the queue here: it goes round its loop or looks again.
LEMMA ResumeAllItems ==
    ASSUME StructureOK, StructureOK', ItemsOK, NEW t \in Tasks, ResumeAll(t)
    PROVE  ItemsOK'
  <1>1. /\ pc[t] = "resume"
        /\ UNCHANGED <<cTxLock, uxMessagesWaiting, xTasksWaitingToReceive>>
    BY DEF ResumeAll, ring, locks, lists
  <1>2. CASE Return(t) /\ op[t] \notin ReadOps
    <2>1. t \notin ReadersLooking
      BY <1>2 DEF ReadersLooking
    <2>2. /\ \A u \in Tasks \ {t} : pc'[u] = pc[u] /\ op'[u] = op[u]
          /\ pc'[t] # "block"
      BY <1>2, ReturnEffect
    <2> QED BY <1>1, <2>1, <2>2, MovedReader
  <1>3. CASE \E step \in {"recheck", "try"} : pc' = [pc EXCEPT ![t] = step] /\ op' = op
    <2>1. /\ \A u \in Tasks \ {t} : pc'[u] = pc[u] /\ op'[u] = op[u]
          /\ pc'[t] \in {"recheck", "try"} /\ op'[t] = op[t]
      BY <1>3 DEF StructureOK, TypeOK
    <2>2. t \in ReadersLooking => t \in ReadersLooking'
      BY <1>1, <2>1 DEF ReadersLooking, Looking
    <2> QED BY <1>1, <2>1, <2>2, MovedReader
  <1>4. \/ Return(t) /\ op[t] \notin ReadOps
        \/ \E step \in {"recheck", "try"} : pc' = [pc EXCEPT ![t] = step] /\ op' = op
    BY DEF ResumeAll, GoTo, call, SendOps, ReadOps
  <1> QED BY <1>2, <1>3, <1>4

LEMMA RecheckItems ==
    ASSUME StructureOK, StructureOK', ItemsOK, NEW t \in Tasks, Recheck(t)
    PROVE  ItemsOK'
  <1>1. /\ pc[t] = "recheck"
        /\ UNCHANGED <<cTxLock, uxMessagesWaiting, xTasksWaitingToReceive>>
        /\ ~IsEmpty => pc' = [pc EXCEPT ![t] = "try"] /\ op' = op
    BY DEF Recheck, GoTo, ring, locks, lists, call
  <1>2. CASE IsEmpty
    BY <1>1, <1>2, EmptyItems
  <1>3. CASE ~IsEmpty
    <2>1. /\ \A u \in Tasks \ {t} : pc'[u] = pc[u] /\ op'[u] = op[u]
          /\ pc'[t] = "try" /\ op'[t] = op[t]
      BY <1>1, <1>3 DEF StructureOK, TypeOK
    <2>2. t \in ReadersLooking => t \in ReadersLooking'
      BY <1>1, <2>1 DEF ReadersLooking, Looking
    <2> QED BY <1>1, <2>1, <2>2, MovedReader
  <1> QED BY <1>2, <1>3

LEMMA ResetItems ==
    ASSUME StructureOK, StructureOK', ItemsOK, NEW t \in Tasks, Reset(t)
    PROVE  ItemsOK'
  BY EmptyCoveredNext DEF Reset

\* Taking a task off the event lists can only help.
LEMMA UnlistedItems ==
    ASSUME StructureOK, StructureOK', ItemsOK, NEW u,
           UNCHANGED <<op, cTxLock, uxMessagesWaiting>>,
           \A v \in Tasks : pc'[v] = pc[v] \/ (pc[v] \notin Looking /\ pc'[v] # "block"),
           xTasksWaitingToReceive' = ListRemove(xTasksWaitingToReceive, u)
    PROVE  ItemsOK'
  <1>1. /\ ToSet(xTasksWaitingToReceive') = ToSet(xTasksWaitingToReceive) \ {u}
        /\ xTasksWaitingToReceive \in Seq(Tasks) /\ xTasksWaitingToReceive' \in Seq(Tasks)
    BY Lists, ListRemoveProperties, ItemValueType
  <1>2. ReadersLooking \subseteq ReadersLooking'
    BY <1>1 DEF ReadersLooking
  <1>3. xTasksWaitingToReceive' # <<>> => xTasksWaitingToReceive # <<>>
    BY <1>1, ToSetSeq
  <1>4. Blocking(ReadOps)' => Blocking(ReadOps)
    BY DEF Blocking
  <1> QED BY <1>2, <1>3, <1>4, ItemsUndisturbed

LEMMA AbortRemoveItems ==
    ASSUME StructureOK, StructureOK', ItemsOK, NEW t \in Tasks, AbortRemove(t)
    PROVE  ItemsOK'
  <1>1. /\ pc[t] = "abortRemove" /\ pc' = [pc EXCEPT ![t] = "resume"]
        /\ xTasksWaitingToReceive' = ListRemove(xTasksWaitingToReceive, arg[t])
        /\ UNCHANGED <<op, cTxLock, uxMessagesWaiting>>
    BY DEF AbortRemove, GoTo, ring, locks, call
  <1>2. \A v \in Tasks : pc'[v] = pc[v] \/ (pc[v] \notin Looking /\ pc'[v] # "block")
    BY <1>1 DEF StructureOK, TypeOK, Looking
  <1> QED BY <1>1, <1>2, UnlistedItems

LEMMA ExpireItems ==
    ASSUME StructureOK, StructureOK', ItemsOK, NEW t \in Tasks, Expire(t)
    PROVE  ItemsOK'
  <1>1. /\ pc' = pc /\ xTasksWaitingToReceive' = ListRemove(xTasksWaitingToReceive, t)
        /\ UNCHANGED <<op, cTxLock, uxMessagesWaiting>>
    BY DEF Expire, ring, locks
  <1> QED BY <1>1, UnlistedItems

LEMMA ReceiveFromISRItems ==
    ASSUME StructureOK, StructureOK', ItemsOK, ReceiveFromISR
    PROVE  ItemsOK'
  <1>1. /\ CopyFromQueue /\ ~IsEmpty
        /\ UNCHANGED <<pc, op, cTxLock, xTasksWaitingToReceive>>
    BY DEF ReceiveFromISR, WakeSenders, call, locks, lists
  <1>2. uxMessagesWaiting \in Int /\ uxMessagesWaiting' = uxMessagesWaiting - 1
    BY <1>1, CopyFromQueueType DEF StructureOK, TypeOK
  <1>3. ReadersLooking' = ReadersLooking /\ (Blocking(ReadOps)' <=> Blocking(ReadOps))
    BY <1>1 DEF ReadersLooking, Blocking
  <1>4. Cardinality(ReadersLooking) \in Nat
    BY TasksFinite DEF ReadersLooking
  <1>5. Count(cTxLock) \in Int /\ Count(cTxLock') = Count(cTxLock)
    BY <1>1, QueueAssumption DEF QueueAssumption, StructureOK, TypeOK, Count, queueUNLOCKED
  <1>6. ItemsCovered => ItemsCovered'
    BY <1>1, <1>2, <1>3, <1>4, <1>5 DEF ItemsCovered
  <1> QED BY <1>1, <1>3, <1>6 DEF ItemsOK

\* No step of a task or interrupt leaves a waiting reader without a reader on its way
\* for every item, or a count in cTxLock.
THEOREM ItemsStep == StructureOK /\ ItemsOK /\ [Next]_vars => ItemsOK'
  <1> SUFFICES ASSUME StructureOK, ItemsOK, [Next]_vars PROVE ItemsOK'
    OBVIOUS
  <1>1. StructureOK'
    BY StructureStep
  <1>2. ASSUME NEW t \in Tasks, Call(t) \/ Expire(t) PROVE ItemsOK'
    BY <1>1, <1>2, CallItems, ExpireItems
  <1>3. ASSUME NEW t \in Tasks, Continue(t) PROVE ItemsOK'
    <2>1. CASE Send(t) \/ Receive(t) \/ Peek(t) \/ FailAtOnce(t) \/ NoteEntryTime(t)
      BY <1>1, <2>1, SendItems, ReceiveItems, PeekItems, FailAtOnceItems, NoteEntryTimeItems
    <2>2. CASE SuspendAll(t) \/ Lock(t) \/ Test(t) \/ Block(t) \/ UnlockTx(t) \/ UnlockRx(t)
      BY <1>1, <2>2, CriticalItems, LockItems, TestItems, BlockItems, UnlockTxItems,
         UnlockRxItems
    <2>3. CASE ResumeAll(t) \/ Recheck(t) \/ Reset(t) \/ AbortCheck(t) \/ AbortRemove(t)
      BY <1>1, <2>3, ResumeAllItems, RecheckItems, ResetItems, CriticalItems, AbortRemoveItems
    <2> QED BY <1>3, <2>1, <2>2, <2>3 DEF Continue
  <1>4. CASE SendFromISR \/ ReceiveFromISR
    BY <1>1, <1>4, SendFromISRItems, ReceiveFromISRItems
  <1>5. CASE UNCHANGED vars
    <2>1. UNCHANGED <<pc, op, cTxLock, uxMessagesWaiting, xTasksWaitingToReceive>>
      BY <1>5 DEF vars, ring, locks, lists, call
    <2>2. ReadersLooking' = ReadersLooking /\ (Blocking(ReadOps)' <=> Blocking(ReadOps))
      BY <2>1 DEF ReadersLooking, Blocking
    <2> QED BY <1>1, <2>1, <2>2, ItemsUndisturbed
  <1> QED BY <1>2, <1>3, <1>4, <1>5 DEF Next

\* While a task waits for an item, every item has a reader on its way to it or
\* is counted in cTxLock: for every number of tasks, priorities and slots, and
\* whatever the calls, resets, aborts, time-outs and interrupts.
THEOREM NoItemIsLost == Spec => []NoLostItem
  <1>1. Init => StructureOK /\ ItemsOK
    <2>1. Init => uxMessagesWaiting = 0
      BY DEF Init
    <2> QED BY <2>1, InitStructure, EmptyCovered
  <1>2. StructureOK /\ ItemsOK /\ [Next]_vars => (StructureOK /\ ItemsOK)'
    BY StructureStep, ItemsStep
  <1>3. ItemsOK => NoLostItem
    BY DEF ItemsOK, ItemsCovered, NoLostItem, Count
  <1> QED BY <1>1, <1>2, <1>3, PTL DEF Spec

-----------------------------------------------------------------------------
(***************************************************************************)
(* The sending side: as above, but that a sender whose time is over does   *)
(* not look again, and that a queue with several slots must not be reset.  *)
(***************************************************************************)
FreeSlots == uxLength - uxMessagesWaiting

LEMMA FreeSlotsType ==
    ASSUME StructureOK
    PROVE  /\ FreeSlots \in Int /\ uxLength \in Nat /\ uxMessagesWaiting \in Nat
           /\ uxMessagesWaiting <= uxLength
  BY QueueAssumption DEF QueueAssumption, StructureOK, TypeOK, FreeSlots

LEMMA FreeSlotsTypeNext ==
    ASSUME StructureOK'
    PROVE  /\ FreeSlots' \in Int /\ uxMessagesWaiting' \in Nat /\ uxMessagesWaiting' <= uxLength
  BY QueueAssumption DEF QueueAssumption, StructureOK, TypeOK, FreeSlots

\* The slots stay covered if the senders on their way, the free slots and the
\* lock count change together.
LEMMA SlotsCoveredAfter ==
    ASSUME StructureOK, StructureOK', SlotsCovered,
           NEW W \in SUBSET Tasks, NEW x, W \cap SendersLooking = {},
           (SendersLooking \ {x}) \cup W \subseteq SendersLooking',
           cRxLock >= uxNumberOfTasks => cRxLock' >= uxNumberOfTasks,
           \/ cRxLock' >= uxNumberOfTasks
           \/ FreeSlots' + Count(cRxLock) + (IF x \in SendersLooking THEN 1 ELSE 0)
                <= FreeSlots + Count(cRxLock') + Cardinality(W)
    PROVE  SlotsCovered'
  <1>1. /\ FreeSlots \in Int /\ FreeSlots' \in Int
        /\ cRxLock \in Int /\ cRxLock' \in Int /\ uxNumberOfTasks \in Int
    <2>1. FreeSlots \in Int /\ FreeSlots' \in Int
      BY FreeSlotsType, FreeSlotsTypeNext
    <2> QED BY <2>1, QueueAssumption DEF QueueAssumption, StructureOK, TypeOK, queueUNLOCKED
  <1>2. Count(cRxLock) \in Int /\ Count(cRxLock') \in Int
    BY <1>1 DEF Count
  <1>3. /\ SendersLooking \in SUBSET Tasks /\ SendersLooking' \in SUBSET Tasks
    BY DEF SendersLooking
  <1> DEFINE A == SendersLooking
             B == SendersLooking'
  <1>4. /\ Cardinality(A) \in Nat /\ Cardinality(B) \in Nat /\ Cardinality(W) \in Nat
        /\ Cardinality(A) + Cardinality(W) <= Cardinality(B) + IF x \in A THEN 1 ELSE 0
    <2>1. W \cap A = {} /\ (A \ {x}) \cup W \subseteq B
      OBVIOUS
    <2>2. A \in SUBSET Tasks /\ B \in SUBSET Tasks
      BY <1>3
    <2> HIDE DEF A, B
    <2> QED BY <2>1, <2>2, CountAfter
  <1>5. SlotsCovered' <=> \/ cRxLock' >= uxNumberOfTasks
                          \/ FreeSlots' <= Cardinality(B) + Count(cRxLock')
    BY DEF SlotsCovered, Count, FreeSlots
  <1>6. \/ cRxLock' >= uxNumberOfTasks
        \/ FreeSlots <= Cardinality(A) + Count(cRxLock)
    BY DEF SlotsCovered, FreeSlots
  <1> DEFINE c == Cardinality(A)
             d == Cardinality(B)
             w == Cardinality(W)
             k == Count(cRxLock)
             l == Count(cRxLock')
             e == IF x \in A THEN 1 ELSE 0
             full == cRxLock' >= uxNumberOfTasks
             m == FreeSlots
             m2 == FreeSlots'
  <1>7. full \/ m2 + k + e <= m + l + w
    OBVIOUS
  <1>8. c \in Nat /\ d \in Nat /\ w \in Nat /\ k \in Int /\ l \in Int /\ e \in {0, 1}
    BY <1>2, <1>4
  <1>9. c + w <= d + e
    BY <1>4
  <1>10. full \/ m <= c + k
    BY <1>6
  <1>11. SlotsCovered' <=> (full \/ m2 <= d + l)
    BY <1>5
  <1>12. m \in Int /\ m2 \in Int
    BY <1>1
  <1> HIDE DEF c, d, w, k, l, A, B, e, full, m, m2
  <1>13. full \/ m2 <= d + l
    <2> SUFFICES ASSUME ~full PROVE m2 <= d + l
      OBVIOUS
    <2>1. m2 + k + e <= m + l + w
      BY <1>7
    <2>2. m <= c + k
      BY <1>10
    <2> QED BY <1>8, <1>9, <1>12, <2>1, <2>2, Balance
  <1> QED BY <1>11, <1>13

\* The senders that are woken are on their way to the queue, and were not: none
\* of them is the one that found its time over.
LEMMA WokenSenders ==
    ASSUME StructureOK, StructureOK', NEW n \in Nat, WakeSenders(n), NEW x,
           xTimedOut' = xTimedOut,
           \A u \in SendersLooking \ {x} : pc'[u] \in Looking /\ op'[u] = op[u],
           \A u \in Tasks \ ready : pc'[u] \in OffSteps /\ op'[u] = op[u]
    PROVE  LET W == FirstOf(xTasksWaitingToSend, n)
           IN  /\ W \in SUBSET Tasks /\ W \cap SendersLooking = {}
               /\ (SendersLooking \ {x}) \cup W \subseteq SendersLooking'
               /\ xTasksWaitingToSend' # <<>> =>
                    /\ Cardinality(W) = n /\ n < Cardinality(Tasks)
                    /\ xTasksWaitingToSend # <<>>
  <1> DEFINE W == FirstOf(xTasksWaitingToSend, n)
             R == ToSet(xTasksWaitingToSend)
             R2 == ToSet(xTasksWaitingToSend')
             T == xTimedOut
             o == schedulerOwner
  <1>1. /\ W \subseteq R /\ R2 = R \ W
        /\ xTasksWaitingToSend' # <<>> => Cardinality(W) = n
        /\ schedulerOwner' = o
    BY WakeSendersEffect
  <1>2. /\ R \subseteq Tasks /\ R2 \subseteq Tasks
        /\ xTasksWaitingToSend' # <<>> => R2 # {}
        /\ R # {} => xTasksWaitingToSend # <<>>
    <2>1. xTasksWaitingToSend \in Seq(Tasks) /\ xTasksWaitingToSend' \in Seq(Tasks)
      BY DEF StructureOK, TypeOK
    <2> QED BY <2>1, ToSetSeq
  <1>3. \A u \in R : u \in Tasks \ ready /\ op[u] \in SendOps
    BY <1>2 DEF StructureOK, PlacesOK
  <1>4. /\ SendersLooking = {u \in Tasks : op[u] \in SendOps /\ pc[u] \in Looking /\ u \notin R
                                           /\ ~(T /\ u = o)}
        /\ SendersLooking' = {u \in Tasks : op'[u] \in SendOps /\ pc'[u] \in Looking /\ u \notin R2
                                            /\ ~(T /\ u = o)}
    BY <1>1 DEF SendersLooking
  <1>5. T => o \in ready
    BY DEF StructureOK, OwnerOK
  <1> HIDE DEF W, R, R2, T, o
  <1>6. W \in SUBSET Tasks /\ W \cap SendersLooking = {}
    BY <1>1, <1>2, <1>4
  <1>7. SendersLooking \ {x} \subseteq SendersLooking'
    BY <1>1, <1>4
  <1>8. W \subseteq SendersLooking'
    BY <1>1, <1>2, <1>3, <1>4, <1>5 DEF OffSteps, Looking
  <1>9. ASSUME xTasksWaitingToSend' # <<>>
        PROVE  Cardinality(W) = n /\ n < Cardinality(Tasks) /\ R # {}
    <2>1. PICK y \in R2 : TRUE
      BY <1>2, <1>9
    <2>2. y \in Tasks /\ y \notin W
      BY <1>1, <1>2, <2>1
    <2>3. IsFiniteSet(W) /\ Cardinality(W \cup {y}) = Cardinality(W) + 1
      BY <1>6, <2>2, TasksFinite, FS_AddElement
    <2>4. Cardinality(W \cup {y}) <= Cardinality(Tasks) /\ Cardinality(Tasks) \in Nat
      BY <1>6, <2>2, TasksFinite
    <2> QED BY <1>1, <1>9, <2>1, <2>3, <2>4
  <1> QED BY <1>2, <1>6, <1>7, <1>8, <1>9 DEF W, R

\* A step that frees no slot and takes no sender away.
LEMMA SlotsUndisturbed ==
    ASSUME StructureOK, StructureOK', SlotsOK,
           cRxLock' = cRxLock, uxMessagesWaiting <= uxMessagesWaiting',
           SendersLooking \subseteq SendersLooking',
           xTasksWaitingToSend' # <<>> => xTasksWaitingToSend # <<>> \/ Blocking(SendOps),
           Blocking(SendOps)' => Blocking(SendOps)
    PROVE  SlotsOK'
  <1> SUFFICES ASSUME (xTasksWaitingToSend # <<>> \/ Blocking(SendOps))'
               PROVE  SlotsCovered'
    BY DEF SlotsOK
  <1>1. SlotsCovered
    BY DEF SlotsOK
  <1>2. {} \in SUBSET Tasks /\ {} \cap SendersLooking = {}
        /\ (SendersLooking \ {NoTask}) \cup {} \subseteq SendersLooking'
    OBVIOUS
  <1>3. NoTask \notin SendersLooking
    BY QueueAssumption DEF QueueAssumption, SendersLooking
  <1>4. /\ FreeSlots \in Int /\ FreeSlots' \in Int /\ FreeSlots' <= FreeSlots
        /\ cRxLock \in Int
    <2>1. FreeSlots \in Int /\ FreeSlots' \in Int
      BY FreeSlotsType, FreeSlotsTypeNext
    <2>2. FreeSlots' <= FreeSlots
      BY FreeSlotsType, FreeSlotsTypeNext DEF FreeSlots
    <2> QED BY <2>1, <2>2, QueueAssumption
            DEF QueueAssumption, StructureOK, TypeOK, queueUNLOCKED
  <1>5. Count(cRxLock) \in Int /\ Count(cRxLock') = Count(cRxLock)
    BY <1>4 DEF Count
  <1>6. Cardinality({}) = 0
    BY FS_EmptySet
  <1>7. FreeSlots' + Count(cRxLock) + (IF NoTask \in SendersLooking THEN 1 ELSE 0)
                <= FreeSlots + Count(cRxLock') + Cardinality({})
    BY <1>3, <1>4, <1>5, <1>6
  <1> QED BY <1>1, <1>2, <1>7, SlotsCoveredAfter

\* A full queue has no slot to lose.
LEMMA FullCovered == StructureOK /\ uxMessagesWaiting = uxLength => SlotsOK
  <1> SUFFICES ASSUME StructureOK, uxMessagesWaiting = uxLength PROVE SlotsOK
    OBVIOUS
  <1>1. cRxLock \in Int /\ Count(cRxLock) >= 0 /\ uxLength - uxMessagesWaiting = 0
    BY QueueAssumption DEF QueueAssumption, StructureOK, TypeOK, queueUNLOCKED, Count
  <1>2. Cardinality(SendersLooking) \in Nat
    BY TasksFinite DEF SendersLooking
  <1>3. Count(cRxLock) \in Int
    BY <1>1 DEF Count
  <1> QED BY <1>1, <1>2, <1>3 DEF SlotsOK, SlotsCovered

LEMMA FullCoveredNext == (StructureOK /\ uxMessagesWaiting = uxLength => SlotsOK)'
  BY FullCovered, PTL

\* A step that finds the queue full and leaves it so.
LEMMA FullSlots ==
    ASSUME StructureOK, StructureOK', IsFull, uxMessagesWaiting' = uxMessagesWaiting
    PROVE  SlotsOK'
  <1>1. uxMessagesWaiting' = uxLength
    BY DEF IsFull
  <1> QED BY <1>1, FullCoveredNext

\* A task goes on, and if it was a sender on its way to the queue it still is.
LEMMA MovedSender ==
    ASSUME StructureOK, StructureOK', SlotsOK, NEW t \in Tasks,
           UNCHANGED <<cRxLock, uxMessagesWaiting, xTasksWaitingToSend>>,
           \A u \in Tasks \ {t} : pc'[u] = pc[u] /\ op'[u] = op[u],
           \/ UNCHANGED <<xTimedOut, schedulerOwner>>
           \/ xTimedOut' = FALSE
           \/ schedulerOwner' = t,
           t \in SendersLooking => t \in SendersLooking',
           pc'[t] # "block" \/ op'[t] \notin SendOps
    PROVE  SlotsOK'
  <1>1. SendersLooking \subseteq SendersLooking'
    BY DEF SendersLooking
  <1>2. Blocking(SendOps)' => Blocking(SendOps)
    BY DEF Blocking
  <1>3. uxMessagesWaiting <= uxMessagesWaiting'
    BY FreeSlotsType
  <1> QED BY <1>1, <1>2, <1>3, SlotsUndisturbed

-----------------------------------------------------------------------------
(***************************************************************************)
(* SlotsOK is inductive                                                    *)
(***************************************************************************)

\* What a critical section that ends the call of a task does to the senders.
LEMMA ReturnSenders ==
    ASSUME StructureOK, NEW t \in Tasks, Running(t), pc[t] = "try", Return(t)
    PROVE  /\ ~Blocking(SendOps)'
           /\ cRxLock = queueUNLOCKED
           /\ schedulerOwner = NoTask
           /\ \A u \in SendersLooking \ {t} : pc'[u] \in Looking /\ op'[u] = op[u]
           /\ \A u \in Tasks \ ready : pc'[u] \in OffSteps /\ op'[u] = op[u]
           /\ \A u \in Tasks \ {t} : pc'[u] = pc[u] /\ op'[u] = op[u]
  <1>1. /\ schedulerOwner = NoTask /\ cRxLock = queueUNLOCKED
        /\ \A u \in Tasks \ ready : pc'[u] \in OffSteps /\ op'[u] = op[u]
    BY ReturnUnowned
  <1>2. /\ pc'[t] = "idle"
        /\ \A u \in Tasks \ {t} : pc'[u] = pc[u] /\ op'[u] = op[u]
    BY ReturnEffect
  <1>3. ~Blocking(SendOps)
    BY <1>1, NobodyBlocking
  <1>4. ~Blocking(SendOps)'
    BY <1>2, <1>3 DEF Blocking
  <1>5. \A u \in SendersLooking \ {t} : pc'[u] \in Looking /\ op'[u] = op[u]
    BY <1>2 DEF SendersLooking
  <1> QED BY <1>1, <1>2, <1>4, <1>5

\* With nobody holding the scheduler nobody has found its time over.
LEMMA NobodyTimedOut == StructureOK /\ schedulerOwner = NoTask => xTimedOut = FALSE
  <1> SUFFICES ASSUME StructureOK, schedulerOwner = NoTask PROVE xTimedOut = FALSE
    OBVIOUS
  <1>1. xTimedOut \in BOOLEAN /\ ready \subseteq Tasks /\ NoTask \notin Tasks
    BY QueueAssumption DEF QueueAssumption, StructureOK, TypeOK
  <1>2. xTimedOut => schedulerOwner \in ready
    BY DEF StructureOK, OwnerOK
  <1> QED BY <1>1, <1>2

\* A sender that leaves takes a slot along; an overwriting one leaves the queue,
\* which has one slot, full.
LEMMA SendSlots ==
    ASSUME StructureOK, StructureOK', SlotsOK, OpsOK, NEW t \in Tasks, Send(t)
    PROVE  SlotsOK'
  <1>1. /\ pc[t] = "try" /\ Running(t) /\ op[t] \in SendOps /\ HasRoom(op[t])
        /\ CopyToQueue(arg[t], op[t]) /\ Return(t)
        /\ cRxLock' = cRxLock /\ xTasksWaitingToSend' = xTasksWaitingToSend
        /\ xTimedOut' = xTimedOut
    BY DEF Send, WakeReceivers, locks, flags
  <1>2. /\ ~Blocking(SendOps)' /\ cRxLock = queueUNLOCKED /\ schedulerOwner = NoTask
        /\ \A u \in Tasks \ {t} : pc'[u] = pc[u] /\ op'[u] = op[u]
    BY <1>1, ReturnSenders
  <1>3. xTimedOut' = FALSE
    BY <1>1, <1>2, NobodyTimedOut
  <1>4. (SendersLooking \ {t}) \cup {} \subseteq SendersLooking'
    BY <1>1, <1>2, <1>3 DEF SendersLooking
  <1>5. CASE uxMessagesWaiting' = uxLength
    BY <1>5, FullCoveredNext
  <1>6. CASE uxMessagesWaiting' # uxLength
    <2>1. uxMessagesWaiting' = uxMessagesWaiting + 1
      <3>1. uxMessagesWaiting' = IF op[t] = "overwrite" /\ uxMessagesWaiting # 0
                                 THEN uxMessagesWaiting ELSE uxMessagesWaiting + 1
        BY <1>1 DEF CopyToQueue, IsEmpty
      <3>2. op[t] = "overwrite" => uxLength = 1
        <4>1. op[t] = "overwrite" => "overwrite" \in Ops[t]
          BY DEF OpsOK
        <4> QED BY <4>1, QueueAssumption DEF QueueAssumption
      <3> QED BY <1>6, <3>1, <3>2, FreeSlotsType
    <2> SUFFICES ASSUME xTasksWaitingToSend' # <<>> PROVE SlotsCovered'
      BY <1>2 DEF SlotsOK
    <2>2. SlotsCovered
      BY <1>1 DEF SlotsOK
    <2>3. Cardinality({}) = 0 /\ {} \in SUBSET Tasks /\ {} \cap SendersLooking = {}
      BY FS_EmptySet
    <2>4. FreeSlots' = FreeSlots - 1 /\ FreeSlots \in Int
      BY <2>1, FreeSlotsType DEF FreeSlots
    <2>5. Count(cRxLock) = 0 /\ Count(cRxLock') = 0
      BY <1>1, <1>2 DEF Count
    <2>6. FreeSlots' + Count(cRxLock) + (IF t \in SendersLooking THEN 1 ELSE 0)
                <= FreeSlots + Count(cRxLock') + Cardinality({})
      BY <2>3, <2>4, <2>5
    <2> QED BY <1>1, <1>4, <2>2, <2>3, <2>6, SlotsCoveredAfter
  <1> QED BY <1>5, <1>6

\* A critical section that frees a slot, or all of a queue that has one, and
\* wakes a sender.
LEMMA WakeOneSender ==
    ASSUME StructureOK, StructureOK', SlotsOK, NEW t \in Tasks,
           pc[t] = "try", Running(t), op[t] \notin SendOps, Return(t), WakeSenders(1),
           xTimedOut' = xTimedOut, cRxLock' = queueUNLOCKED, FreeSlots' <= FreeSlots + 1
    PROVE  SlotsOK'
  <1> DEFINE W == FirstOf(xTasksWaitingToSend, 1)
  <1>1. /\ ~Blocking(SendOps)' /\ cRxLock = queueUNLOCKED
        /\ \A u \in SendersLooking \ {t} : pc'[u] \in Looking /\ op'[u] = op[u]
        /\ \A u \in Tasks \ ready : pc'[u] \in OffSteps /\ op'[u] = op[u]
    BY ReturnSenders
  <1>2. t \notin SendersLooking
    BY DEF SendersLooking
  <1> SUFFICES ASSUME xTasksWaitingToSend' # <<>> PROVE SlotsCovered'
    BY <1>1 DEF SlotsOK
  <1>3. /\ W \in SUBSET Tasks /\ W \cap SendersLooking = {}
        /\ (SendersLooking \ {t}) \cup W \subseteq SendersLooking'
        /\ Cardinality(W) = 1 /\ xTasksWaitingToSend # <<>>
    BY <1>1, WokenSenders
  <1>4. SlotsCovered
    BY <1>3 DEF SlotsOK
  <1>5. /\ FreeSlots \in Int /\ FreeSlots' \in Int
        /\ Count(cRxLock) = 0 /\ Count(cRxLock') = 0
    BY <1>1, FreeSlotsType, FreeSlotsTypeNext DEF Count
  <1>6. FreeSlots' + Count(cRxLock) + (IF t \in SendersLooking THEN 1 ELSE 0)
                <= FreeSlots + Count(cRxLock') + Cardinality(W)
    BY <1>2, <1>3, <1>5
  <1> HIDE DEF W
  <1> QED BY <1>1, <1>3, <1>4, <1>6, SlotsCoveredAfter

LEMMA ReceiveSlots ==
    ASSUME StructureOK, StructureOK', SlotsOK, NEW t \in Tasks, Receive(t)
    PROVE  SlotsOK'
  <1>1. /\ pc[t] = "try" /\ Running(t) /\ op[t] = "receive" /\ ~IsEmpty /\ CopyFromQueue
        /\ Return(t) /\ WakeSenders(1) /\ xTimedOut' = xTimedOut /\ cRxLock' = cRxLock
    BY DEF Receive, locks, flags
  <1>2. uxMessagesWaiting' = uxMessagesWaiting - 1
    BY <1>1, CopyFromQueueType DEF StructureOK
  <1>3. FreeSlots' <= FreeSlots + 1
    BY <1>2, FreeSlotsType DEF FreeSlots
  <1>4. cRxLock' = queueUNLOCKED
    BY <1>1, ReturnSenders
  <1> QED BY <1>1, <1>3, <1>4, WakeOneSender DEF SendOps

LEMMA ResetSlots ==
    ASSUME StructureOK, StructureOK', SlotsOK, OpsOK, ResetWakesEnough,
           NEW t \in Tasks, Reset(t)
    PROVE  SlotsOK'
  <1>1. /\ pc[t] = "try" /\ Running(t) /\ op[t] = "reset" /\ uxMessagesWaiting' = 0
        /\ Return(t) /\ WakeSenders(1) /\ xTimedOut' = xTimedOut /\ cRxLock' = queueUNLOCKED
    BY DEF Reset, flags
  <1>2. uxLength = 1
    BY <1>1 DEF OpsOK, ResetWakesEnough
  <1>3. FreeSlots' <= FreeSlots + 1
    BY <1>1, <1>2, FreeSlotsType DEF FreeSlots
  <1> QED BY <1>1, <1>3, WakeOneSender DEF SendOps

LEMMA PeekSlots ==
    ASSUME StructureOK, StructureOK', SlotsOK, NEW t \in Tasks, Peek(t)
    PROVE  SlotsOK'
  <1>1. /\ op[t] = "peek" /\ Return(t)
        /\ UNCHANGED <<cRxLock, uxMessagesWaiting, xTasksWaitingToSend, xTimedOut>>
        /\ schedulerOwner' = schedulerOwner
    BY DEF Peek, PeekAtQueue, WakeReceivers, MakeReady, locks, flags
  <1>2. /\ \A u \in Tasks \ {t} : pc'[u] = pc[u] /\ op'[u] = op[u]
        /\ pc'[t] # "block"
    BY <1>1, ReturnEffect
  <1>3. t \notin SendersLooking
    BY <1>1 DEF SendersLooking, SendOps
  <1> QED BY <1>1, <1>2, <1>3, MovedSender

LEMMA CallSlots ==
    ASSUME StructureOK, StructureOK', SlotsOK, NEW t \in Tasks, Call(t)
    PROVE  SlotsOK'
  <1>1. /\ pc[t] = "idle"
        /\ UNCHANGED <<cRxLock, uxMessagesWaiting, xTasksWaitingToSend, xTimedOut, schedulerOwner>>
        /\ \E o \in Ops[t] :
             /\ op' = [op EXCEPT ![t] = o]
             /\ pc' = [pc EXCEPT ![t] = IF o = "abort" THEN "suspend" ELSE "try"]
    BY DEF Call, GoTo, ring, locks, lists, sched, flags
  <1>2. t \notin SendersLooking
    BY <1>1 DEF SendersLooking, Looking
  <1>3. /\ \A u \in Tasks \ {t} : pc'[u] = pc[u] /\ op'[u] = op[u]
        /\ pc'[t] # "block"
    BY <1>1 DEF StructureOK, TypeOK
  <1> QED BY <1>1, <1>2, <1>3, MovedSender

LEMMA FailAtOnceSlots ==
    ASSUME StructureOK, StructureOK', SlotsOK, NEW t \in Tasks, FailAtOnce(t)
    PROVE  SlotsOK'
  <1>1. /\ pc[t] = "try" /\ MustWait(t) /\ Return(t)
        /\ UNCHANGED <<cRxLock, uxMessagesWaiting, xTasksWaitingToSend, xTimedOut, schedulerOwner>>
    BY DEF FailAtOnce, ring, locks, lists, sched, flags
  <1>2. CASE IsFull
    BY <1>1, <1>2, FullSlots
  <1>3. CASE op[t] \in ReadOps
    <2>1. t \notin SendersLooking
      BY <1>3 DEF SendersLooking, SendOps, ReadOps
    <2>2. /\ \A u \in Tasks \ {t} : pc'[u] = pc[u] /\ op'[u] = op[u]
          /\ pc'[t] # "block"
      BY <1>1, ReturnEffect
    <2> QED BY <1>1, <2>1, <2>2, MovedSender
  <1>4. IsFull \/ op[t] \in ReadOps
    BY <1>1, FreeSlotsType DEF MustWait, HasRoom, IsFull
  <1> QED BY <1>2, <1>3, <1>4

LEMMA NoteEntryTimeSlots ==
    ASSUME StructureOK, StructureOK', SlotsOK, NEW t \in Tasks, NoteEntryTime(t)
    PROVE  SlotsOK'
  <1>1. /\ pc[t] = "try" /\ MustWait(t) /\ pc' = [pc EXCEPT ![t] = "suspend"] /\ op' = op
        /\ UNCHANGED <<cRxLock, uxMessagesWaiting, xTasksWaitingToSend, xTimedOut, schedulerOwner>>
    BY DEF NoteEntryTime, GoTo, ring, locks, lists, sched, flags
  <1>2. CASE IsFull
    BY <1>1, <1>2, FullSlots
  <1>3. CASE op[t] \in ReadOps
    <2>1. t \notin SendersLooking
      BY <1>3 DEF SendersLooking, SendOps, ReadOps
    <2>2. /\ \A u \in Tasks \ {t} : pc'[u] = pc[u] /\ op'[u] = op[u]
          /\ pc'[t] # "block"
      BY <1>1 DEF StructureOK, TypeOK
    <2> QED BY <1>1, <2>1, <2>2, MovedSender
  <1>4. IsFull \/ op[t] \in ReadOps
    BY <1>1, FreeSlotsType DEF MustWait, HasRoom, IsFull
  <1> QED BY <1>2, <1>3, <1>4

\* Steps between vTaskSuspendAll and the unlocking of the queue.
LEMMA CriticalSlots ==
    ASSUME StructureOK, StructureOK', SlotsOK, NEW t \in Tasks,
           SuspendAll(t) \/ AbortCheck(t)
    PROVE  SlotsOK'
  <1>1. PICK step \in {"abortCheck", "lock", "abortRemove", "resume"} :
          /\ pc[t] \in {"suspend", "abortCheck"} /\ pc' = [pc EXCEPT ![t] = step] /\ op' = op
          /\ UNCHANGED <<cRxLock, uxMessagesWaiting, xTasksWaitingToSend, xTimedOut>>
          /\ schedulerOwner' = schedulerOwner \/ schedulerOwner' = t
    <2>1. CASE SuspendAll(t)
      BY <2>1 DEF SuspendAll, GoTo, ring, locks, lists, call, flags
    <2>2. CASE AbortCheck(t)
      BY <2>2 DEF AbortCheck, GoTo, ring, locks, lists, call, flags, sched
    <2> QED BY <2>1, <2>2
  <1>2. t \notin SendersLooking
    BY <1>1 DEF SendersLooking, Looking
  <1>3. /\ \A u \in Tasks \ {t} : pc'[u] = pc[u] /\ op'[u] = op[u]
        /\ pc'[t] # "block"
    BY <1>1 DEF StructureOK, TypeOK
  <1> QED BY <1>1, <1>2, <1>3, MovedSender

LEMMA LockSlots ==
    ASSUME StructureOK, StructureOK', SlotsOK, NEW t \in Tasks, Lock(t)
    PROVE  SlotsOK'
  <1>1. /\ pc[t] = "lock" /\ Running(t) /\ op' = op
        /\ pc' = [pc EXCEPT ![t] = IF xTimedOut' THEN "unlockTx" ELSE "test"]
        /\ cRxLock' = IF cRxLock = queueUNLOCKED THEN queueLOCKED_UNMODIFIED ELSE cRxLock
        /\ UNCHANGED <<uxMessagesWaiting, xTasksWaitingToSend, schedulerOwner>>
    BY DEF Lock, GoTo, ring, lists, sched
  <1>2. /\ \A u \in Tasks \ {t} : pc'[u] = pc[u] /\ op'[u] = op[u]
        /\ pc'[t] # "block"
    BY <1>1 DEF StructureOK, TypeOK
  <1>3. t \notin SendersLooking
    BY <1>1 DEF SendersLooking, Looking
  <1>4. schedulerOwner = t
    BY <1>1, RunningTask DEF OwnerSteps
  <1>5. /\ {} \in SUBSET Tasks /\ {} \cap SendersLooking = {} /\ Cardinality({}) = 0
        /\ (SendersLooking \ {t}) \cup {} \subseteq SendersLooking'
    BY <1>1, <1>2, <1>4, FS_EmptySet DEF SendersLooking
  <1>6. /\ cRxLock \in Int /\ uxNumberOfTasks \in Nat
        /\ cRxLock >= uxNumberOfTasks => cRxLock' >= uxNumberOfTasks
        /\ Count(cRxLock') = Count(cRxLock) /\ Count(cRxLock) \in Int
    BY <1>1, QueueAssumption
       DEF QueueAssumption, StructureOK, TypeOK, Count, queueUNLOCKED, queueLOCKED_UNMODIFIED
  <1>7. FreeSlots \in Int /\ FreeSlots' = FreeSlots
    BY <1>1, FreeSlotsType DEF FreeSlots
  <1>8. FreeSlots' + Count(cRxLock) + (IF t \in SendersLooking THEN 1 ELSE 0)
                <= FreeSlots + Count(cRxLock') + Cardinality({})
    BY <1>3, <1>5, <1>6, <1>7
  <1>9. SlotsCovered => SlotsCovered'
    BY <1>5, <1>6, <1>8, SlotsCoveredAfter
  <1>10. Blocking(SendOps)' => Blocking(SendOps)
    BY <1>2 DEF Blocking
  <1> QED BY <1>1, <1>9, <1>10 DEF SlotsOK

\* A sender goes on to block only on a full queue.
LEMMA TestSlots ==
    ASSUME StructureOK, StructureOK', SlotsOK, NEW t \in Tasks, Test(t)
    PROVE  SlotsOK'
  <1>1. /\ pc[t] = "test" /\ op' = op
        /\ pc' = [pc EXCEPT ![t] = IF (op[t] \in SendOps /\ IsFull) \/ (op[t] \in ReadOps /\ IsEmpty)
                                   THEN "block" ELSE "unlockTx"]
        /\ UNCHANGED <<cRxLock, uxMessagesWaiting, xTasksWaitingToSend, xTimedOut, schedulerOwner>>
    BY DEF Test, GoTo, ring, locks, lists, call, sched, flags
  <1>2. CASE IsFull
    BY <1>1, <1>2, FullSlots
  <1>3. CASE ~IsFull
    <2>1. /\ \A u \in Tasks \ {t} : pc'[u] = pc[u] /\ op'[u] = op[u]
          /\ pc'[t] # "block" \/ op'[t] \notin SendOps
      BY <1>1, <1>3 DEF StructureOK, TypeOK, SendOps, ReadOps
    <2>2. t \notin SendersLooking
      BY <1>1 DEF SendersLooking, Looking
    <2> QED BY <1>1, <2>1, <2>2, MovedSender
  <1> QED BY <1>2, <1>3

LEMMA BlockSlots ==
    ASSUME StructureOK, StructureOK', SlotsOK, NEW t \in Tasks, Block(t)
    PROVE  SlotsOK'
  <1>1. /\ pc[t] = "block" /\ Running(t) /\ op' = op /\ pc' = [pc EXCEPT ![t] = "unlockTx"]
        /\ UNCHANGED <<cRxLock, uxMessagesWaiting, xTimedOut, schedulerOwner>>
        /\ op[t] \notin SendOps => xTasksWaitingToSend' = xTasksWaitingToSend
        /\ op[t] \in SendOps =>
             xTasksWaitingToSend' = ListInsert(xTasksWaitingToSend, ItemValue, t)
    BY DEF Block, GoTo, ring, locks, call
  <1>2. /\ \A u \in Tasks \ {t} : pc'[u] = pc[u] /\ op'[u] = op[u]
        /\ pc'[t] = "unlockTx"
    BY <1>1 DEF StructureOK, TypeOK
  <1>3. CASE op[t] \notin SendOps
    <2>1. t \notin SendersLooking
      BY <1>1 DEF SendersLooking, Looking
    <2> QED BY <1>1, <1>2, <1>3, <2>1, MovedSender
  <1>4. CASE op[t] \in SendOps
    <2>1. t \in ready /\ t \notin ToSet(xTasksWaitingToSend)
      BY <1>1, RunningTask DEF StructureOK, PlacesOK
    <2>2. ToSet(xTasksWaitingToSend') = ToSet(xTasksWaitingToSend) \cup {t}
      BY <1>1, <1>4, <2>1, Lists, ListInsertProperties, ItemValueType
    <2>3. SendersLooking \subseteq SendersLooking'
      BY <1>1, <1>2, <2>2 DEF SendersLooking, Looking
    <2>4. Blocking(SendOps)
      BY <1>1, <1>4 DEF Blocking
    <2>5. uxMessagesWaiting <= uxMessagesWaiting'
      BY <1>1, FreeSlotsType
    <2> QED BY <1>1, <2>3, <2>4, <2>5, SlotsUndisturbed
  <1> QED BY <1>3, <1>4

LEMMA UnlockTxSlots ==
    ASSUME StructureOK, StructureOK', SlotsOK, NEW t \in Tasks, UnlockTx(t)
    PROVE  SlotsOK'
  <1>1. /\ pc[t] = "unlockTx" /\ op' = op /\ pc' = [pc EXCEPT ![t] = "unlockRx"]
        /\ UNCHANGED <<cRxLock, uxMessagesWaiting, xTasksWaitingToSend, xTimedOut, schedulerOwner>>
    BY DEF UnlockTx, WakeReceivers, MakeReady, GoTo, ring, call, flags
  <1>2. /\ \A u \in Tasks \ {t} : pc'[u] = pc[u] /\ op'[u] = op[u]
        /\ pc'[t] = "unlockRx"
    BY <1>1 DEF StructureOK, TypeOK
  <1>3. t \in SendersLooking => t \in SendersLooking'
    BY <1>1, <1>2 DEF SendersLooking, Looking
  <1> QED BY <1>1, <1>2, <1>3, MovedSender

\* prvUnlockQueue wakes as many senders as it counted slots, and with a capped
\* count all of them.
LEMMA UnlockRxSlots ==
    ASSUME StructureOK, StructureOK', SlotsOK, NEW t \in Tasks, UnlockRx(t)
    PROVE  SlotsOK'
  <1> DEFINE W == FirstOf(xTasksWaitingToSend, cRxLock)
  <1>1. /\ pc[t] = "unlockRx" /\ Running(t) /\ GoTo(t, "resume")
        /\ WakeSenders(cRxLock) /\ cRxLock' = queueUNLOCKED
        /\ op' = op /\ uxMessagesWaiting' = uxMessagesWaiting /\ xTimedOut' = xTimedOut
    BY DEF UnlockRx, ring, call, flags
  <1>2. "resume" \in Steps /\ "resume" \in OffSteps /\ "resume" \in Looking
    BY DEF Steps, OffSteps, Looking
  <1>3. /\ pc'[t] = "resume" /\ \A u \in Tasks \ {t} : pc'[u] = pc[u]
        /\ \A u \in Tasks \ ready : pc'[u] \in OffSteps /\ op'[u] = op[u]
    BY <1>1, <1>2, GoToEffect
  <1>4. schedulerOwner = t /\ t # NoTask
    BY <1>1, RunningTask, QueueAssumption DEF OwnerSteps, QueueAssumption
  <1>5. cRxLock \in Nat /\ uxNumberOfTasks \in Nat
    <2>1. cRxLock # queueUNLOCKED
      BY <1>1, <1>4 DEF StructureOK, LockOK, LockedSteps
    <2> QED BY <2>1, QueueAssumption
            DEF QueueAssumption, StructureOK, TypeOK, queueUNLOCKED
  <1>6. ~Blocking(SendOps)'
    <2>1. \A u \in Tasks : pc[u] = "block" => u = t
      BY <1>4 DEF StructureOK, OwnerOK, OwnerSteps
    <2> QED BY <1>1, <1>3, <2>1 DEF Blocking
  <1>7. NoTask \notin SendersLooking
    BY QueueAssumption DEF QueueAssumption, SendersLooking
  <1>8. \A u \in SendersLooking \ {NoTask} : pc'[u] \in Looking /\ op'[u] = op[u]
    BY <1>1, <1>2, <1>3 DEF SendersLooking
  <1> SUFFICES ASSUME xTasksWaitingToSend' # <<>> PROVE SlotsCovered'
    BY <1>6 DEF SlotsOK
  <1>9. /\ W \in SUBSET Tasks /\ W \cap SendersLooking = {}
        /\ (SendersLooking \ {NoTask}) \cup W \subseteq SendersLooking'
        /\ Cardinality(W) = cRxLock /\ cRxLock < Cardinality(Tasks)
        /\ xTasksWaitingToSend # <<>>
    BY <1>1, <1>3, <1>5, <1>8, WokenSenders
  <1> HIDE DEF W
  <1>10. SlotsCovered
    BY <1>9 DEF SlotsOK
  <1>11. ~(cRxLock >= uxNumberOfTasks)
    BY <1>5, <1>9, TasksFinite
  <1>12. Count(cRxLock) = cRxLock /\ Count(cRxLock') = 0
    BY <1>1, <1>5 DEF Count, queueUNLOCKED
  <1>13. FreeSlots \in Int /\ FreeSlots' = FreeSlots
    BY <1>1, FreeSlotsType DEF FreeSlots
  <1>14. FreeSlots' + Count(cRxLock) + (IF NoTask \in SendersLooking THEN 1 ELSE 0)
                <= FreeSlots + Count(cRxLock') + Cardinality(W)
    BY <1>5, <1>7, <1>9, <1>12, <1>13
  <1> QED BY <1>9, <1>10, <1>11, <1>14, SlotsCoveredAfter

\* A sender that leaves the queue here has found its time over, and was not on
\* its way to it.
LEMMA ResumeAllSlots ==
    ASSUME StructureOK, StructureOK', SlotsOK, NEW t \in Tasks, ResumeAll(t)
    PROVE  SlotsOK'
  <1>1. /\ pc[t] = "resume" /\ Running(t) /\ xTimedOut' = FALSE
        /\ UNCHANGED <<cRxLock, uxMessagesWaiting, xTasksWaitingToSend>>
    BY DEF ResumeAll, ring, locks, lists
  <1>2. schedulerOwner = t
    BY <1>1, RunningTask DEF OwnerSteps
  <1>3. CASE Return(t) /\ (op[t] = "abort" \/ xTimedOut)
    <2>1. t \notin SendersLooking
      BY <1>2, <1>3 DEF SendersLooking, SendOps
    <2>2. /\ \A u \in Tasks \ {t} : pc'[u] = pc[u] /\ op'[u] = op[u]
          /\ pc'[t] # "block"
      BY <1>3, ReturnEffect
    <2> QED BY <1>1, <2>1, <2>2, MovedSender
  <1>4. CASE \E step \in {"recheck", "try"} : pc' = [pc EXCEPT ![t] = step] /\ op' = op
    <2>1. /\ \A u \in Tasks \ {t} : pc'[u] = pc[u] /\ op'[u] = op[u]
          /\ pc'[t] \in {"recheck", "try"} /\ op'[t] = op[t]
      BY <1>4 DEF StructureOK, TypeOK
    <2>2. t \in SendersLooking => t \in SendersLooking'
      BY <1>1, <2>1 DEF SendersLooking, Looking
    <2> QED BY <1>1, <2>1, <2>2, MovedSender
  <1>5. \/ Return(t) /\ (op[t] = "abort" \/ xTimedOut)
        \/ \E step \in {"recheck", "try"} : pc' = [pc EXCEPT ![t] = step] /\ op' = op
    BY DEF ResumeAll, GoTo, call
  <1> QED BY <1>3, <1>4, <1>5

LEMMA RecheckSlots ==
    ASSUME StructureOK, StructureOK', SlotsOK, NEW t \in Tasks, Recheck(t)
    PROVE  SlotsOK'
  <1>1. /\ pc[t] = "recheck"
        /\ Return(t) \/ (pc' = [pc EXCEPT ![t] = "try"] /\ op' = op)
        /\ UNCHANGED <<cRxLock, uxMessagesWaiting, xTasksWaitingToSend, xTimedOut, schedulerOwner>>
    BY DEF Recheck, GoTo, ring, locks, lists, call, sched, flags
  <1>2. op[t] \in ReadOps
    BY <1>1 DEF StructureOK, CallOK
  <1>3. t \notin SendersLooking
    BY <1>2 DEF SendersLooking, SendOps, ReadOps
  <1>4. /\ \A u \in Tasks \ {t} : pc'[u] = pc[u] /\ op'[u] = op[u]
        /\ pc'[t] # "block"
    <2>1. CASE Return(t)
      BY <2>1, ReturnEffect
    <2>2. CASE pc' = [pc EXCEPT ![t] = "try"] /\ op' = op
      BY <2>2 DEF StructureOK, TypeOK
    <2> QED BY <1>1, <2>1, <2>2
  <1> QED BY <1>1, <1>3, <1>4, MovedSender

\* Taking a task off the event lists can only help.
LEMMA UnlistedSlots ==
    ASSUME StructureOK, StructureOK', SlotsOK, NEW u,
           UNCHANGED <<op, cRxLock, uxMessagesWaiting, xTimedOut, schedulerOwner>>,
           \A v \in Tasks : pc'[v] = pc[v] \/ (pc[v] \notin Looking /\ pc'[v] # "block"),
           xTasksWaitingToSend' = ListRemove(xTasksWaitingToSend, u)
    PROVE  SlotsOK'
  <1>1. /\ ToSet(xTasksWaitingToSend') = ToSet(xTasksWaitingToSend) \ {u}
        /\ xTasksWaitingToSend \in Seq(Tasks) /\ xTasksWaitingToSend' \in Seq(Tasks)
    BY Lists, ListRemoveProperties, ItemValueType
  <1>2. SendersLooking \subseteq SendersLooking'
    BY <1>1 DEF SendersLooking
  <1>3. xTasksWaitingToSend' # <<>> => xTasksWaitingToSend # <<>>
    BY <1>1, ToSetSeq
  <1>4. Blocking(SendOps)' => Blocking(SendOps)
    BY DEF Blocking
  <1>5. uxMessagesWaiting <= uxMessagesWaiting'
    BY FreeSlotsType
  <1> QED BY <1>2, <1>3, <1>4, <1>5, SlotsUndisturbed

LEMMA AbortRemoveSlots ==
    ASSUME StructureOK, StructureOK', SlotsOK, NEW t \in Tasks, AbortRemove(t)
    PROVE  SlotsOK'
  <1>1. /\ pc[t] = "abortRemove" /\ pc' = [pc EXCEPT ![t] = "resume"]
        /\ xTasksWaitingToSend' = ListRemove(xTasksWaitingToSend, arg[t])
        /\ UNCHANGED <<op, cRxLock, uxMessagesWaiting, xTimedOut, schedulerOwner>>
    BY DEF AbortRemove, GoTo, ring, locks, call
  <1>2. \A v \in Tasks : pc'[v] = pc[v] \/ (pc[v] \notin Looking /\ pc'[v] # "block")
    BY <1>1 DEF StructureOK, TypeOK, Looking
  <1> QED BY <1>1, <1>2, UnlistedSlots

LEMMA ExpireSlots ==
    ASSUME StructureOK, StructureOK', SlotsOK, NEW t \in Tasks, Expire(t)
    PROVE  SlotsOK'
  <1>1. /\ pc' = pc /\ xTasksWaitingToSend' = ListRemove(xTasksWaitingToSend, t)
        /\ UNCHANGED <<op, cRxLock, uxMessagesWaiting, xTimedOut, schedulerOwner>>
    BY DEF Expire, ring, locks, flags
  <1> QED BY <1>1, UnlistedSlots

\* An interrupt that sends takes room from nobody who is counted.
LEMMA SendFromISRSlots ==
    ASSUME StructureOK, StructureOK', SlotsOK, SendFromISR
    PROVE  SlotsOK'
  <1>1. UNCHANGED <<pc, op, cRxLock, xTasksWaitingToSend, xTimedOut, schedulerOwner>>
    BY DEF SendFromISR, WakeReceivers, MakeReady, call, locks, lists, sched, flags
  <1>2. uxMessagesWaiting <= uxMessagesWaiting'
    <2>1. PICK x \in Items, pos \in IsrOps \cap SendOps : HasRoom(pos) /\ CopyToQueue(x, pos)
      BY DEF SendFromISR
    <2> QED BY <2>1, CopyToQueueType, FreeSlotsType, FreeSlotsTypeNext DEF StructureOK
  <1>3. SendersLooking' = SendersLooking /\ (Blocking(SendOps)' <=> Blocking(SendOps))
    BY <1>1 DEF SendersLooking, Blocking
  <1> QED BY <1>1, <1>2, <1>3, SlotsUndisturbed

\* One that receives wakes a sender, or counts the slot in cRxLock.
LEMMA ReceiveFromISRSlots ==
    ASSUME StructureOK, StructureOK', SlotsOK, ReceiveFromISR
    PROVE  SlotsOK'
  <1> DEFINE W == FirstOf(xTasksWaitingToSend, 1)
  <1>1. /\ UNCHANGED <<pc, op, xTimedOut>> /\ ~IsEmpty /\ CopyFromQueue
        /\ IF cRxLock = queueUNLOCKED
           THEN WakeSenders(1) /\ cRxLock' = cRxLock
           ELSE /\ cRxLock' = Increment(cRxLock)
                /\ UNCHANGED <<xTasksWaitingToSend, schedulerOwner>>
    BY DEF ReceiveFromISR, call, locks, lists, sched, flags
  <1>2. FreeSlots \in Int /\ FreeSlots' = FreeSlots + 1
    <2>1. uxMessagesWaiting' = uxMessagesWaiting - 1
      BY <1>1, CopyFromQueueType DEF StructureOK
    <2> QED BY <2>1, FreeSlotsType DEF FreeSlots
  <1>3. \A u \in Tasks \ ready : pc'[u] \in OffSteps /\ op'[u] = op[u]
    BY <1>1 DEF StructureOK, PlacesOK
  <1>4. NoTask \notin SendersLooking
    BY QueueAssumption DEF QueueAssumption, SendersLooking
  <1>5. \A u \in SendersLooking \ {NoTask} : pc'[u] \in Looking /\ op'[u] = op[u]
    BY <1>1 DEF SendersLooking
  <1>6. Blocking(SendOps)' <=> Blocking(SendOps)
    BY <1>1 DEF Blocking
  <1>7. CASE cRxLock = queueUNLOCKED
    <2>1. ~Blocking(SendOps)'
      BY <1>6, <1>7, NobodyBlocking
    <2>2. Count(cRxLock) = 0 /\ Count(cRxLock') = 0
      BY <1>1, <1>7 DEF Count
    <2>3. FreeSlots' + Count(cRxLock) + (IF NoTask \in SendersLooking THEN 1 ELSE 0)
                <= FreeSlots + Count(cRxLock') + 1
      BY <1>2, <1>4, <2>2
    <2> SUFFICES ASSUME xTasksWaitingToSend' # <<>> PROVE SlotsCovered'
      BY <2>1 DEF SlotsOK
    <2>4. /\ W \in SUBSET Tasks /\ W \cap SendersLooking = {}
          /\ (SendersLooking \ {NoTask}) \cup W \subseteq SendersLooking'
          /\ Cardinality(W) = 1 /\ xTasksWaitingToSend # <<>>
      BY <1>1, <1>3, <1>5, <1>7, WokenSenders
    <2> HIDE DEF W
    <2>5. SlotsCovered
      BY <2>4 DEF SlotsOK
    <2> QED BY <1>1, <1>7, <2>3, <2>4, <2>5, SlotsCoveredAfter
  <1>8. CASE cRxLock # queueUNLOCKED
    <2>1. cRxLock \in Nat /\ uxNumberOfTasks \in Nat
      BY <1>8, QueueAssumption DEF QueueAssumption, StructureOK, TypeOK, queueUNLOCKED
    <2>2. cRxLock' = IF cRxLock < uxNumberOfTasks THEN cRxLock + 1 ELSE cRxLock
      BY <1>1, <1>8 DEF Increment
    <2>3. /\ Count(cRxLock) = cRxLock /\ Count(cRxLock') = cRxLock'
      BY <2>1, <2>2 DEF Count, queueUNLOCKED
    <2>4. {} \in SUBSET Tasks /\ {} \cap SendersLooking = {} /\ Cardinality({}) = 0
      BY FS_EmptySet
    <2>5. (SendersLooking \ {NoTask}) \cup {} \subseteq SendersLooking'
      BY <1>1, <1>8 DEF SendersLooking
    <2>6. \/ cRxLock' >= uxNumberOfTasks
          \/ FreeSlots' + Count(cRxLock) + (IF NoTask \in SendersLooking THEN 1 ELSE 0)
                <= FreeSlots + Count(cRxLock') + Cardinality({})
      BY <1>2, <1>4, <2>1, <2>2, <2>3, <2>4
    <2>7. cRxLock >= uxNumberOfTasks => cRxLock' >= uxNumberOfTasks
      BY <2>1, <2>2
    <2>8. SlotsCovered => SlotsCovered'
      BY <2>4, <2>5, <2>6, <2>7, SlotsCoveredAfter
    <2> QED BY <1>1, <1>6, <1>8, <2>8 DEF SlotsOK
  <1> QED BY <1>7, <1>8

\* No task makes a call that is not in Ops.
LEMMA OpsStep == StructureOK /\ OpsOK /\ [Next]_vars => OpsOK'
  <1> SUFFICES ASSUME StructureOK, OpsOK, [Next]_vars PROVE OpsOK'
    OBVIOUS
  <1>1. op \in [Tasks -> AllOps \cup {"none"}]
    BY DEF StructureOK, TypeOK
  <1>2. ASSUME NEW t \in Tasks, Call(t) PROVE OpsOK'
    <2>1. \E o \in Ops[t] : op' = [op EXCEPT ![t] = o]
      BY <1>2 DEF Call
    <2> QED BY <1>1, <2>1 DEF OpsOK
  <1>3. ASSUME NEW t \in Tasks, op' = op \/ Return(t) PROVE OpsOK'
    BY <1>1, <1>3 DEF OpsOK, Return
  <1>4. ASSUME NEW t \in Tasks, Continue(t) \/ Expire(t) PROVE op' = op \/ Return(t)
    <2>1. CASE Send(t) \/ Receive(t) \/ Peek(t) \/ FailAtOnce(t) \/ Reset(t)
      BY <2>1 DEF Send, Receive, Peek, FailAtOnce, Reset
    <2>2. CASE NoteEntryTime(t) \/ SuspendAll(t) \/ Lock(t) \/ Test(t) \/ Block(t)
               \/ UnlockTx(t) \/ UnlockRx(t)
      BY <2>2 DEF NoteEntryTime, SuspendAll, Lock, Test, Block, UnlockTx, UnlockRx, call
    <2>3. CASE ResumeAll(t) \/ Recheck(t) \/ AbortCheck(t) \/ AbortRemove(t) \/ Expire(t)
      BY <2>3 DEF ResumeAll, Recheck, AbortCheck, AbortRemove, Expire, call
    <2> QED BY <1>4, <2>1, <2>2, <2>3 DEF Continue
  <1>5. CASE SendFromISR \/ ReceiveFromISR \/ UNCHANGED vars
    BY <1>5 DEF SendFromISR, ReceiveFromISR, vars, call, OpsOK
  <1> QED BY <1>2, <1>3, <1>4, <1>5 DEF Next

\* No step of a task or interrupt leaves a waiting sender without a sender on
\* its way for every free slot, or a count in cRxLock.
THEOREM SlotsStep ==
    ResetWakesEnough /\ SlotInvariant /\ [Next]_vars => SlotInvariant'
  <1> SUFFICES ASSUME StructureOK, OpsOK, SlotsOK, ResetWakesEnough, [Next]_vars
               PROVE  SlotInvariant'
    BY DEF SlotInvariant
  <1>1. StructureOK' /\ OpsOK'
    BY StructureStep, OpsStep
  <1>2. ASSUME NEW t \in Tasks, Call(t) \/ Expire(t) PROVE SlotsOK'
    BY <1>1, <1>2, CallSlots, ExpireSlots
  <1>3. ASSUME NEW t \in Tasks, Continue(t) PROVE SlotsOK'
    <2>1. CASE Send(t) \/ Receive(t) \/ Peek(t) \/ FailAtOnce(t) \/ NoteEntryTime(t)
      BY <1>1, <2>1, SendSlots, ReceiveSlots, PeekSlots, FailAtOnceSlots, NoteEntryTimeSlots
    <2>2. CASE SuspendAll(t) \/ Lock(t) \/ Test(t) \/ Block(t) \/ UnlockTx(t) \/ UnlockRx(t)
      BY <1>1, <2>2, CriticalSlots, LockSlots, TestSlots, BlockSlots, UnlockTxSlots,
         UnlockRxSlots
    <2>3. CASE ResumeAll(t) \/ Recheck(t) \/ Reset(t) \/ AbortCheck(t) \/ AbortRemove(t)
      BY <1>1, <2>3, ResumeAllSlots, RecheckSlots, ResetSlots, CriticalSlots, AbortRemoveSlots
    <2> QED BY <1>3, <2>1, <2>2, <2>3 DEF Continue
  <1>4. ASSUME SendFromISR \/ ReceiveFromISR PROVE SlotsOK'
    BY <1>1, <1>4, SendFromISRSlots, ReceiveFromISRSlots
  <1>5. ASSUME UNCHANGED vars PROVE SlotsOK'
    <2>1. UNCHANGED <<pc, op, cRxLock, uxMessagesWaiting, xTasksWaitingToSend, xTimedOut,
                      schedulerOwner>>
      BY <1>5 DEF vars, ring, locks, lists, call, sched, flags
    <2>2. SendersLooking' = SendersLooking /\ (Blocking(SendOps)' <=> Blocking(SendOps))
      BY <2>1 DEF SendersLooking, Blocking
    <2>3. uxMessagesWaiting <= uxMessagesWaiting'
      BY <2>1, FreeSlotsType
    <2> QED BY <1>1, <2>1, <2>2, <2>3, SlotsUndisturbed
  <1>6. SlotsOK'
    BY <1>2, <1>3, <1>4, <1>5 DEF Next
  <1> QED BY <1>1, <1>6 DEF SlotInvariant

\* While a task waits for room, every free slot has a sender on its way to it or
\* is counted in cRxLock, for every number of tasks, priorities and slots: if
\* the queue has one slot, or nobody resets it.
THEOREM NoSlotIsLost == ResetWakesEnough => (Spec => []NoLostSlot)
  <1> SUFFICES ASSUME ResetWakesEnough PROVE Spec => []NoLostSlot
    OBVIOUS
  <1>1. Init => SlotInvariant
    <2> SUFFICES ASSUME Init PROVE SlotInvariant
      OBVIOUS
    <2>1. StructureOK
      BY InitStructure
    <2>2. OpsOK
      BY DEF Init, OpsOK
    <2>3. xTasksWaitingToSend = <<>> /\ ~Blocking(SendOps)
      BY DEF Init, Blocking
    <2> QED BY <2>1, <2>2, <2>3 DEF SlotInvariant, SlotsOK
  <1>2. SlotInvariant /\ [Next]_vars => SlotInvariant'
    BY SlotsStep
  <1>3. SlotInvariant => NoLostSlot
    BY DEF SlotInvariant, SlotsOK, SlotsCovered, NoLostSlot, Count
  <1> QED BY <1>1, <1>2, <1>3, PTL DEF Spec

-----------------------------------------------------------------------------
(***************************************************************************)
(* Queue implements BoundedFIFO, for every length of the queue: each step  *)
(* posts at one end of the sequence, overwrites its only item, takes or    *)
(* looks at its head, empties it, or leaves it alone.  The refinement      *)
(* needs RingOK, that the write index is behind the last item.             *)
(***************************************************************************)

Values == Items \cup {NoItem}

LEMMA FunctionIsSeq ==
    ASSUME NEW S, NEW n \in Nat, NEW f \in [1 .. n -> S]
    PROVE  f \in Seq(S) /\ Len(f) = n
  <1>1. f \in Seq(S)
    BY SeqDef
  <1>2. 1 .. Len(f) = 1 .. n /\ Len(f) \in Nat
    BY <1>1, LenProperties
  <1> QED BY <1>1, <1>2

LEMMA SlotType ==
    ASSUME TypeOK
    PROVE  /\ uxLength \in Nat \ {0} /\ uxMessagesWaiting \in 0 .. uxLength
           /\ pcReadFrom \in 0 .. uxLength - 1 /\ pcWriteTo \in 0 .. uxLength - 1
           /\ \A i \in 0 .. uxLength : Slot(i) \in 0 .. uxLength - 1
           /\ \A i, j \in 1 .. uxLength : Slot(i) = Slot(j) => i = j
  <1>1. /\ uxLength \in Nat \ {0} /\ uxMessagesWaiting \in 0 .. uxLength
        /\ pcReadFrom \in 0 .. uxLength - 1 /\ pcWriteTo \in 0 .. uxLength - 1
    BY QueueAssumption DEF QueueAssumption, TypeOK
  <1>2. \A i \in 0 .. uxLength : Slot(i) \in 0 .. uxLength - 1
    BY <1>1 DEF Slot
  <1>3. ASSUME NEW i \in 1 .. uxLength, NEW j \in 1 .. uxLength, Slot(i) = Slot(j)
        PROVE  i = j
    BY <1>1, <1>3 DEF Slot
  <1> QED BY <1>1, <1>2, <1>3

\* The contents are a sequence of the values in the slots after pcReadFrom.
LEMMA ContentsType ==
    ASSUME TypeOK
    PROVE  /\ Contents \in Seq(Values) /\ Len(Contents) = uxMessagesWaiting
           /\ \A i \in 1 .. uxMessagesWaiting : Contents[i] = storage[Slot(i)]
           /\ Contents = <<>> <=> uxMessagesWaiting = 0
  <1>1. uxMessagesWaiting \in Nat /\ storage \in [0 .. uxLength - 1 -> Values]
        /\ \A i \in 1 .. uxMessagesWaiting : Slot(i) \in 0 .. uxLength - 1
    BY SlotType DEF TypeOK, Values
  <1>2. Contents \in [1 .. uxMessagesWaiting -> Values]
    BY <1>1 DEF Contents
  <1>3. Contents \in Seq(Values) /\ Len(Contents) = uxMessagesWaiting
    BY <1>1, <1>2, FunctionIsSeq
  <1>4. Contents = <<>> <=> uxMessagesWaiting = 0
    BY <1>3, EmptySeq
  <1> QED BY <1>3, <1>4 DEF Contents

LEMMA ContentsTypeNext ==
    ASSUME TypeOK'
    PROVE  /\ Contents' \in Seq(Values) /\ Len(Contents') = uxMessagesWaiting'
           /\ \A i \in 1 .. uxMessagesWaiting' : Contents'[i] = storage'[Slot(i)']
           /\ Contents' = <<>> <=> uxMessagesWaiting' = 0
  <1>1. (TypeOK => /\ Contents \in Seq(Values) /\ Len(Contents) = uxMessagesWaiting
                   /\ \A i \in 1 .. uxMessagesWaiting : Contents[i] = storage[Slot(i)]
                   /\ Contents = <<>> <=> uxMessagesWaiting = 0)'
    BY ContentsType, PTL
  <1> QED BY <1>1

-----------------------------------------------------------------------------
\* A post at the back: the item is written behind the last one.
LEMMA PostBackStep ==
    ASSUME TypeOK, TypeOK', RingOK, NEW x \in Items, HasRoom("back"), CopyToQueue(x, "back")
    PROVE  RingOK' /\ FIFO!PostBack
  <1>1. /\ uxMessagesWaiting < uxLength
        /\ storage' = [storage EXCEPT ![pcWriteTo] = x] /\ pcWriteTo' = Following(pcWriteTo)
        /\ pcReadFrom' = pcReadFrom /\ uxMessagesWaiting' = uxMessagesWaiting + 1
        /\ lastRead' = lastRead
    BY DEF HasRoom, CopyToQueue
  <1>2. \A i \in 0 .. uxLength : Slot(i)' = Slot(i)
    BY <1>1 DEF Slot
  <1>3. pcWriteTo = Slot(uxMessagesWaiting + 1)
    BY <1>1, SlotType DEF RingOK, Following, Slot
  <1>4. RingOK'
    BY <1>1, <1>2, <1>3, SlotType DEF RingOK, Following, Slot
  <1>5. /\ storage \in [0 .. uxLength - 1 -> Values] /\ x \in Values
    BY DEF TypeOK, Values
  <1>6. Contents' = Append(Contents, x)
    <2>1. /\ Append(Contents, x) \in Seq(Values)
          /\ Len(Append(Contents, x)) = uxMessagesWaiting + 1
          /\ \A i \in 1 .. uxMessagesWaiting : Append(Contents, x)[i] = storage[Slot(i)]
          /\ Append(Contents, x)[uxMessagesWaiting + 1] = x
      BY <1>5, ContentsType, AppendProperties
    <2>2. /\ Contents' \in Seq(Values) /\ Len(Contents') = uxMessagesWaiting + 1
          /\ \A i \in 1 .. uxMessagesWaiting + 1 : Contents'[i] = storage'[Slot(i)]
      BY <1>1, <1>2, SlotType, ContentsTypeNext
    <2>3. ASSUME NEW i \in 1 .. uxMessagesWaiting + 1
          PROVE  Contents'[i] = Append(Contents, x)[i]
      <3>1. CASE i = uxMessagesWaiting + 1
        BY <1>1, <1>3, <1>5, <2>1, <2>2, <3>1, SlotType
      <3>2. CASE i # uxMessagesWaiting + 1
        <4>1. i \in 1 .. uxMessagesWaiting /\ Slot(i) \in 0 .. uxLength - 1
              /\ Slot(i) # pcWriteTo
          BY <1>1, <1>3, <3>2, SlotType
        <4> QED BY <1>1, <1>5, <2>1, <2>2, <4>1
      <3> QED BY <3>1, <3>2
    <2> QED BY <2>1, <2>2, <2>3, SeqEqual
  <1> QED BY <1>1, <1>4, <1>6, ContentsType DEF FIFO!PostBack

\* At the front: it is written in the slot before the head.
LEMMA PostFrontStep ==
    ASSUME TypeOK, TypeOK', RingOK, NEW x \in Items, HasRoom("front"), CopyToQueue(x, "front")
    PROVE  RingOK' /\ FIFO!PostFront
  <1>1. /\ uxMessagesWaiting < uxLength
        /\ storage' = [storage EXCEPT ![pcReadFrom] = x] /\ pcWriteTo' = pcWriteTo
        /\ pcReadFrom' = IF pcReadFrom = 0 THEN uxLength - 1 ELSE pcReadFrom - 1
        /\ uxMessagesWaiting' = uxMessagesWaiting + 1 /\ lastRead' = lastRead
    BY DEF HasRoom, CopyToQueue
  <1>2. /\ \A i \in 1 .. uxMessagesWaiting + 1 : i - 1 \in 0 .. uxLength /\ Slot(i)' = Slot(i - 1)
        /\ Slot(0) = pcReadFrom
    BY <1>1, SlotType DEF Slot
  <1>3. RingOK'
    <2>1. Slot(uxMessagesWaiting)' = Slot(uxMessagesWaiting)
      BY <1>1, SlotType DEF Slot
    <2> QED BY <1>1, <2>1 DEF RingOK, Following
  <1>4. /\ storage \in [0 .. uxLength - 1 -> Values] /\ x \in Values
    BY DEF TypeOK, Values
  <1>5. Contents' = <<x>> \o Contents
    <2>1. <<x>> \in Seq(Values) /\ Len(<<x>>) = 1 /\ <<x>>[1] = x
      BY <1>4
    <2>2. /\ <<x>> \o Contents \in Seq(Values)
          /\ Len(<<x>> \o Contents) = 1 + uxMessagesWaiting
          /\ \A i \in 1 .. 1 + uxMessagesWaiting :
               (<<x>> \o Contents)[i] = IF i <= 1 THEN <<x>>[i] ELSE Contents[i - 1]
      BY <2>1, ContentsType, ConcatProperties
    <2>3. /\ Contents' \in Seq(Values) /\ Len(Contents') = uxMessagesWaiting + 1
          /\ \A i \in 1 .. uxMessagesWaiting + 1 : Contents'[i] = storage'[Slot(i - 1)]
      BY <1>1, <1>2, ContentsTypeNext
    <2>4. ASSUME NEW i \in 1 .. uxMessagesWaiting + 1
          PROVE  Contents'[i] = (<<x>> \o Contents)[i]
      <3>1. CASE i = 1
        <4>1. Contents'[i] = storage'[pcReadFrom]
          BY <1>2, <2>3, <3>1
        <4>2. storage'[pcReadFrom] = x
          BY <1>1, <1>4, SlotType
        <4> QED BY <2>1, <2>2, <3>1, <4>1, <4>2, SlotType
      <3>2. CASE i # 1
        <4>1. /\ i - 1 \in 1 .. uxMessagesWaiting /\ Slot(i - 1) \in 0 .. uxLength - 1
              /\ Slot(i - 1) # pcReadFrom
          BY <1>1, <3>2, SlotType DEF Slot
        <4>2. Contents[i - 1] = storage[Slot(i - 1)]
          BY <4>1, ContentsType
        <4>3. Contents'[i] = storage[Slot(i - 1)]
          BY <1>1, <1>4, <2>3, <4>1
        <4> QED BY <2>2, <3>2, <4>2, <4>3, SlotType
      <3> QED BY <3>1, <3>2
    <2>5. Len(Contents') = Len(<<x>> \o Contents)
      BY <2>2, <2>3, SlotType
    <2> QED BY <2>2, <2>3, <2>4, <2>5, SeqEqual
  <1> QED BY <1>1, <1>3, <1>5, ContentsType DEF FIFO!PostFront

\* Overwriting: the queue has one slot, which is written whether full or empty.
LEMMA PostOverStep ==
    ASSUME TypeOK, TypeOK', RingOK, uxLength = 1,
           NEW x \in Items, CopyToQueue(x, "overwrite")
    PROVE  RingOK' /\ FIFO!PostOver
  <1>1. /\ storage' = [storage EXCEPT ![0] = x] /\ pcWriteTo' = 0 /\ pcReadFrom' = 0
        /\ uxMessagesWaiting' = 1 /\ lastRead' = lastRead
    BY SlotType DEF CopyToQueue, IsEmpty
  <1>2. RingOK' /\ Slot(1)' = 0
    BY <1>1 DEF RingOK, Following, Slot
  <1>3. storage \in [0 .. uxLength - 1 -> Values] /\ x \in Values
    BY DEF TypeOK, Values
  <1>4. /\ Contents' \in Seq(Values) /\ Len(Contents') = 1 /\ Contents'[1] = storage'[0]
    BY <1>1, <1>2, ContentsTypeNext
  <1>5. storage'[0] = x
    BY <1>1, <1>3
  <1>6. Contents' = <<x>>
    BY <1>3, <1>4, <1>5, SeqEqual
  <1> QED BY <1>1, <1>2, <1>6 DEF FIFO!PostOver

\* A receive takes the head.
LEMMA TakeStep ==
    ASSUME TypeOK, TypeOK', RingOK, ~IsEmpty, CopyFromQueue
    PROVE  RingOK' /\ FIFO!Take
  <1>1. /\ uxMessagesWaiting # 0 /\ pcReadFrom' = NextRead /\ lastRead' = storage[NextRead]
        /\ uxMessagesWaiting' = uxMessagesWaiting - 1
        /\ storage' = storage /\ pcWriteTo' = pcWriteTo
    BY DEF IsEmpty, CopyFromQueue
  <1>2. /\ NextRead = Slot(1)
        /\ \A i \in 1 .. uxMessagesWaiting - 1 : i + 1 \in 1 .. uxMessagesWaiting
                                                 /\ Slot(i)' = Slot(i + 1)
    BY <1>1, SlotType DEF NextRead, Following, Slot
  <1>3. RingOK'
    BY <1>1, SlotType DEF RingOK, NextRead, Following, Slot
  <1>4. Contents # <<>> /\ Head(Contents) = storage[Slot(1)]
    BY <1>1, SlotType, ContentsType
  <1>5. Contents' = Tail(Contents)
    <2>1. /\ Tail(Contents) \in Seq(Values) /\ Len(Tail(Contents)) = uxMessagesWaiting - 1
          /\ \A i \in 1 .. uxMessagesWaiting - 1 : Tail(Contents)[i] = Contents[i + 1]
      BY <1>4, ContentsType, HeadTailProperties
    <2>2. /\ Contents' \in Seq(Values) /\ Len(Contents') = uxMessagesWaiting - 1
          /\ \A i \in 1 .. uxMessagesWaiting - 1 : Contents'[i] = storage[Slot(i + 1)]
      BY <1>1, <1>2, ContentsTypeNext
    <2>3. \A i \in 1 .. uxMessagesWaiting - 1 : Contents[i + 1] = storage[Slot(i + 1)]
      BY <1>2, ContentsType
    <2> QED BY <2>1, <2>2, <2>3, SeqEqual
  <1> QED BY <1>1, <1>2, <1>3, <1>4, <1>5 DEF FIFO!Take

\* A peek looks at it.
LEMMA LookStep ==
    ASSUME TypeOK, RingOK, ~IsEmpty, PeekAtQueue
    PROVE  RingOK' /\ FIFO!Look
  <1>1. /\ uxMessagesWaiting # 0 /\ lastRead' = storage[NextRead]
        /\ UNCHANGED <<storage, pcWriteTo, pcReadFrom, uxMessagesWaiting>>
    BY DEF IsEmpty, PeekAtQueue
  <1>2. NextRead = Slot(1)
    BY SlotType DEF NextRead, Following, Slot
  <1>3. Contents # <<>> /\ Head(Contents) = storage[Slot(1)]
    BY <1>1, SlotType, ContentsType
  <1>4. RingOK' /\ Contents' = Contents
    BY <1>1 DEF RingOK, Contents, Slot, Following
  <1> QED BY <1>1, <1>2, <1>3, <1>4 DEF FIFO!Look

\* A step that leaves the ring alone.
LEMMA RingUnchanged ==
    ASSUME RingOK, UNCHANGED ring
    PROVE  RingOK' /\ UNCHANGED FIFO!vars
  BY DEF ring, RingOK, Contents, Slot, Following, FIFO!vars

-----------------------------------------------------------------------------
\* What the steps of the tasks do to the ring.
LEMMA TaskRingStep ==
    ASSUME StructureOK, StructureOK', OpsOK, RingOK, NEW t \in Tasks, Continue(t)
    PROVE  RingOK' /\ [FIFO!Next]_FIFO!vars
  <1>1. TypeOK /\ TypeOK'
    BY DEF StructureOK
  <1>2. CASE Send(t)
    <2>1. op[t] \in SendOps /\ HasRoom(op[t]) /\ CopyToQueue(arg[t], op[t]) /\ arg[t] \in Items
      BY <1>2 DEF Send, StructureOK, CallOK
    <2>2. CASE op[t] = "overwrite"
      <3>1. uxLength = 1
        <4>1. "overwrite" \in Ops[t]
          BY <2>2 DEF OpsOK
        <4> QED BY <4>1, QueueAssumption DEF QueueAssumption
      <3> QED BY <1>1, <2>1, <2>2, <3>1, PostOverStep DEF FIFO!Next
    <2>3. CASE op[t] = "back"
      BY <1>1, <2>1, <2>3, PostBackStep DEF FIFO!Next
    <2>4. CASE op[t] = "front"
      BY <1>1, <2>1, <2>4, PostFrontStep DEF FIFO!Next
    <2> QED BY <2>1, <2>2, <2>3, <2>4 DEF SendOps
  <1>3. CASE Receive(t)
    BY <1>1, <1>3, TakeStep DEF Receive, FIFO!Next
  <1>4. CASE Peek(t)
    BY <1>1, <1>4, LookStep DEF Peek, FIFO!Next
  <1>5. CASE Reset(t)
    <2>1. /\ uxMessagesWaiting' = 0 /\ pcWriteTo' = 0 /\ pcReadFrom' = uxLength - 1
          /\ lastRead' = lastRead
      BY <1>5 DEF Reset
    <2>2. RingOK'
      BY <2>1, <1>1, SlotType DEF RingOK, Following, Slot
    <2>3. FIFO!Clear
      BY <1>1, <2>1, ContentsTypeNext DEF FIFO!Clear
    <2> QED BY <2>2, <2>3 DEF FIFO!Next
  <1>6. CASE FailAtOnce(t) \/ NoteEntryTime(t) \/ SuspendAll(t) \/ Lock(t) \/ Test(t) \/ Block(t)
    <2>1. UNCHANGED ring
      BY <1>6 DEF FailAtOnce, NoteEntryTime, SuspendAll, Lock, Test, Block
    <2> QED BY <2>1, RingUnchanged
  <1>7. CASE UnlockTx(t) \/ UnlockRx(t) \/ ResumeAll(t) \/ Recheck(t) \/ AbortCheck(t)
             \/ AbortRemove(t)
    <2>1. UNCHANGED ring
      BY <1>7 DEF UnlockTx, UnlockRx, ResumeAll, Recheck, AbortCheck, AbortRemove
    <2> QED BY <2>1, RingUnchanged
  <1> QED BY <1>2, <1>3, <1>4, <1>5, <1>6, <1>7 DEF Continue

\* And those of the interrupts.
LEMMA InterruptRingStep ==
    ASSUME StructureOK, StructureOK', RingOK, SendFromISR \/ ReceiveFromISR
    PROVE  RingOK' /\ [FIFO!Next]_FIFO!vars
  <1>1. TypeOK /\ TypeOK'
    BY DEF StructureOK
  <1>2. CASE SendFromISR
    <2>1. PICK x \in Items, pos \in IsrOps \cap SendOps : HasRoom(pos) /\ CopyToQueue(x, pos)
      BY <1>2 DEF SendFromISR
    <2>2. CASE pos = "overwrite"
      <3>1. uxLength = 1
        BY <2>2, QueueAssumption DEF QueueAssumption
      <3> QED BY <1>1, <2>1, <2>2, <3>1, PostOverStep DEF FIFO!Next
    <2>3. CASE pos = "back"
      BY <1>1, <2>1, <2>3, PostBackStep DEF FIFO!Next
    <2>4. CASE pos = "front"
      BY <1>1, <2>1, <2>4, PostFrontStep DEF FIFO!Next
    <2> QED BY <2>2, <2>3, <2>4 DEF SendOps
  <1>3. CASE ReceiveFromISR
    BY <1>1, <1>3, TakeStep DEF ReceiveFromISR, FIFO!Next
  <1> QED BY <1>2, <1>3

THEOREM RingStep == RingInvariant /\ [Next]_vars => RingInvariant' /\ [FIFO!Next]_FIFO!vars
  <1> SUFFICES ASSUME StructureOK, OpsOK, RingOK, [Next]_vars
               PROVE  RingInvariant' /\ [FIFO!Next]_FIFO!vars
    BY DEF RingInvariant
  <1>1. StructureOK' /\ OpsOK'
    BY StructureStep, OpsStep
  <1>2. RingOK' /\ [FIFO!Next]_FIFO!vars
    <2>1. ASSUME NEW t \in Tasks, Continue(t) PROVE RingOK' /\ [FIFO!Next]_FIFO!vars
      BY <1>1, <2>1, TaskRingStep
    <2>2. ASSUME NEW t \in Tasks, Call(t) \/ Expire(t) PROVE UNCHANGED ring
      BY <2>2 DEF Call, Expire
    <2>3. CASE SendFromISR \/ ReceiveFromISR
      BY <1>1, <2>3, InterruptRingStep
    <2>4. CASE UNCHANGED vars
      BY <2>4, RingUnchanged DEF vars
    <2> QED BY <2>1, <2>2, <2>3, <2>4, RingUnchanged DEF Next
  <1> QED BY <1>1, <1>2 DEF RingInvariant

\* Whatever tasks and interrupts do, at either end, overwriting, peeking and
\* resetting: the ring buffer behaves as a sequence of at most uxLength items,
\* for every length.
THEOREM QueueImplementsFIFO == Spec => ImplementsFIFO
  <1>1. Init => RingInvariant /\ FIFO!Init
    <2> SUFFICES ASSUME Init PROVE RingInvariant /\ FIFO!Init
      OBVIOUS
    <2>1. StructureOK
      BY InitStructure
    <2>2. OpsOK
      BY DEF Init, OpsOK
    <2>3. uxMessagesWaiting = 0 /\ pcWriteTo = 0 /\ pcReadFrom = uxLength - 1 /\ lastRead = NoItem
      BY DEF Init
    <2>4. TypeOK
      BY <2>1 DEF StructureOK
    <2>5. RingOK
      BY <2>3, <2>4, SlotType DEF RingOK, Following, Slot
    <2>6. Contents = <<>>
      BY <2>3, <2>4, ContentsType
    <2> QED BY <2>1, <2>2, <2>3, <2>5, <2>6 DEF RingInvariant, FIFO!Init
  <1> QED BY <1>1, RingStep, PTL DEF Spec, ImplementsFIFO, FIFO!Spec
=============================================================================
