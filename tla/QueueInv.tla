------------------------------ MODULE QueueInv ------------------------------
(***************************************************************************)
(* The inductive invariants of Queue: what the proofs of OnePlace,         *)
(* PriorityOrder, NoLostItem and NoLostSlot rest on.                       *)
(***************************************************************************)
EXTENDS Queue

\* The steps of a call in which its task holds the scheduler, and those in
\* which it also has the queue locked.
OwnerSteps == {"lock", "test", "block", "unlockTx", "unlockRx", "resume",
               "abortCheck", "abortRemove"}
LockedSteps == {"test", "block", "unlockTx"}

\* Where a task can be while it is not ready: leaving the critical path after it
\* put itself on an event list, or waiting to try again.
OffSteps == {"try", "unlockTx", "unlockRx", "resume"}

\* Each step belongs to some operations only, and an operation has its argument.
CallOK ==
    \A t \in Tasks :
        /\ op[t] \in SendOps => arg[t] \in Items
        /\ op[t] = "abort" => arg[t] \in Tasks
        /\ pc[t] \in {"lock", "test", "block", "unlockTx", "unlockRx"}
              => op[t] \in SendOps \cup ReadOps
        /\ pc[t] = "suspend" => op[t] \in SendOps \cup ReadOps \cup {"abort"}
        /\ pc[t] = "recheck" => op[t] \in ReadOps
        /\ pc[t] \in {"abortCheck", "abortRemove"} => op[t] = "abort"
        /\ pc[t] = "idle" => op[t] = "none"

\* The scheduler is suspended by the one task that is inside such a step, and
\* that task knows whether its block time is over.
OwnerOK ==
    /\ \A t \in Tasks : pc[t] \in OwnerSteps <=> t = schedulerOwner
    /\ schedulerOwner = NoTask => xPendingReadyList = {}
    /\ xTimedOut => /\ schedulerOwner \in ready
                    /\ pc[schedulerOwner] \in {"unlockTx", "unlockRx", "resume"}

\* The queue is locked exactly between prvLockQueue and prvUnlockQueue.
LockOK ==
    LET step == IF schedulerOwner = NoTask THEN "try" ELSE pc[schedulerOwner]
    IN  /\ cTxLock # queueUNLOCKED <=> step \in LockedSteps
        /\ cRxLock # queueUNLOCKED <=> step \in LockedSteps \cup {"unlockRx"}

\* Where the tasks are: OnePlace without counting, and what a waiting task does.
PlacesOK ==
    LET S == ToSet(xTasksWaitingToSend)
        R == ToSet(xTasksWaitingToReceive)
    IN  /\ Tasks = ready \cup xPendingReadyList \cup S \cup R
        /\ ready \cap xPendingReadyList = {}
        /\ (ready \cup xPendingReadyList) \cap (S \cup R) = {}
        /\ S \cap R = {}
        /\ \A t \in Tasks \ ready : pc[t] \in OffSteps
        /\ \A t \in S : op[t] \in SendOps
        /\ \A t \in R : op[t] \in ReadOps

\* The conclusions of NoLostItem and NoLostSlot hold already when a task is
\* about to block, before it is in the event list.
Count(lock) == IF lock = queueUNLOCKED THEN 0 ELSE lock
ItemsCovered == \/ cTxLock >= uxNumberOfTasks
                \/ uxMessagesWaiting <= Cardinality(ReadersLooking) + Count(cTxLock)
SlotsCovered == \/ cRxLock >= uxNumberOfTasks
                \/ uxLength - uxMessagesWaiting <= Cardinality(SendersLooking) + Count(cRxLock)
Blocking(ops) == \E t \in Tasks : pc[t] = "block" /\ op[t] \in ops

ItemsOK == (xTasksWaitingToReceive # <<>> \/ Blocking(ReadOps)) => ItemsCovered
SlotsOK == (xTasksWaitingToSend # <<>> \/ Blocking(SendOps)) => SlotsCovered

\* The structural part: who holds the scheduler and the queue, where every task
\* is, and what it can be doing there.
StructureOK == TypeOK /\ CallOK /\ OwnerOK /\ LockOK /\ PlacesOK /\ PriorityOrder

\* The invariant that every step preserves: the structure of the system, and no
\* item without a reader on its way even while a reader is about to block.
InductiveInvariant == StructureOK /\ ItemsOK

\* A reset frees every slot and wakes one sender: enough for one slot only.
ResetWakesEnough == uxLength = 1 \/ \A t \in Tasks : "reset" \notin Ops[t]

\* The calls that are made are those of Ops, so that nobody resets a queue of
\* several slots; and no slot without a sender on its way.
OpsOK == \A t \in Tasks : op[t] \in Ops[t] \cup {"none"}
SlotInvariant == StructureOK /\ OpsOK /\ SlotsOK

\* The next item is written behind the last one: what the two indices and the
\* fill level, which the steps change separately, have to do with each other.
RingOK == pcWriteTo = Following(Slot(uxMessagesWaiting))
RingInvariant == StructureOK /\ OpsOK /\ RingOK
=============================================================================
