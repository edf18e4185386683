----------------------------- MODULE EventGroups -----------------------------
(***************************************************************************)
(* Event groups (Source/event_groups.c): tasks wait for bits in any        *)
(* combination, for all or any of them, or meet at a rendezvous.           *)
(*                                                                         *)
(* What a waiter waits for is kept in the item value of its event list     *)
(* item, where the scheduler otherwise keeps the task's priority; what     *)
(* released it is left in the same place until the task runs again.        *)
(*                                                                         *)
(* Calls run with the scheduler suspended and interrupts never touch a     *)
(* group (they have the timer task do it), so a call is one step up to the *)
(* point where the task blocks, and what follows is cut where another task *)
(* can come in.                                                            *)
(***************************************************************************)
EXTENDS ListOps

CONSTANTS Tasks,
          Bits,           \* the bits of a group, without the control bits
          BitMasks,       \* what is set and cleared outside the rendezvous
          Calls,          \* arguments of xEventGroupWaitBits; wait is "none", "finite" (or
                          \* ended by xTaskAbortDelay), "forever"
          Participants,   \* tasks that meet by calling xEventGroupSync ...
          SyncWaits,      \* ... with these block times
          SyncBit,        \* the bit each of them sets
          InitialPriority,
          Reprioritised,  \* tasks whose priority vTaskPrioritySet changes ...
          Priorities      \* ... to these

MaxPriorities == 8      \* configMAX_PRIORITIES, or more

Rendezvous == {SyncBit[t] : t \in Participants}

ASSUME EventGroupsAssumption ==
    /\ Participants \subseteq Tasks
    /\ SyncWaits \subseteq {"none", "finite", "forever"}
    /\ SyncBit \in [Participants -> Bits]
    /\ \A t, u \in Participants : t # u => SyncBit[t] # SyncBit[u]
    /\ \A m \in BitMasks : m # {} /\ m \subseteq Bits \ Rendezvous
    /\ Calls \subseteq [bits : SUBSET (Bits \ Rendezvous) \ {{}}, clear : BOOLEAN,
                        all : BOOLEAN, wait : {"none", "finite", "forever"}]
    /\ Reprioritised \subseteq Tasks
    /\ Priorities \subseteq 0 .. MaxPriorities - 1
    /\ InitialPriority \in [Tasks -> Priorities]

VARIABLES
    exists,         \* until vEventGroupDelete
    uxEventBits,
    xTasksWaitingForBits,
    xItemValue,     \* of the tasks' event list items
    uxPriority,
    pc,             \* "out", "blocked", "woken", "reset", "late"
    call,           \* what each task is waiting for, on its stack
    uxReturn, uxPriorityRead,   \* inside uxTaskResetEventItemValue
    gaveUp          \* history: participants that have left without the others, their bit
                    \* set, since the last meeting and have not come again

group == <<exists, uxEventBits, xTasksWaitingForBits>>
reset == <<uxReturn, uxPriorityRead>>
vars  == <<group, xItemValue, uxPriority, pc, call, reset, gaveUp>>

-----------------------------------------------------------------------------
(***************************************************************************)
(* Item values                                                             *)
(***************************************************************************)

\* The three uses of an item value: the priority, lower values first in a list; what
\* a task waits for, with taskEVENT_LIST_ITEM_VALUE_IN_USE; and the bits that
\* released it, with eventUNBLOCKED_DUE_TO_BIT_SET as well.
ForPriority(p) == [inUse |-> FALSE, value |-> MaxPriorities - p,
                   bits |-> {}, clear |-> FALSE, all |-> FALSE, unblocked |-> FALSE]
ForWait(c) == [inUse |-> TRUE, value |-> 0,
               bits |-> c.bits, clear |-> c.clear, all |-> c.all, unblocked |-> FALSE]
ForRelease(bits) == [inUse |-> TRUE, value |-> 0,
                     bits |-> bits, clear |-> FALSE, all |-> FALSE, unblocked |-> TRUE]

NoCall == [bits |-> {}, clear |-> FALSE, all |-> FALSE, wait |-> "none"]
SyncCall(wait) == [bits |-> Rendezvous, clear |-> TRUE, all |-> TRUE, wait |-> wait]

\* prvTestWaitCondition
TestWaitCondition(bits, w) ==
    IF w.all THEN w.bits \subseteq bits ELSE w.bits \cap bits # {}

-----------------------------------------------------------------------------
(***************************************************************************)
(* xEventGroupSetBits                                                      *)
(***************************************************************************)

\* Mutant: the bits of a released waiter are cleared before the next one is tested.
VisitAndClear(bits, r, t) ==
    LET w == r.item[t]
        current == bits \ r.clear
    IN  IF TestWaitCondition(current, w)
        THEN [item  |-> [r.item EXCEPT ![t] = ForRelease(current)],
              list  |-> ListRemove(r.list, t),
              clear |-> IF w.clear THEN r.clear \cup w.bits ELSE r.clear]
        ELSE r

\* One round of the loop, at the waiter t; r is the state of the walk.
Visit(bits, r, t) ==
    LET w == r.item[t] IN
    IF TestWaitCondition(bits, w)
    THEN [item  |-> [r.item EXCEPT ![t] = ForRelease(bits)],
          list  |-> ListRemove(r.list, t),
          clear |-> IF w.clear THEN r.clear \cup w.bits ELSE r.clear]
    ELSE r

\* The walk takes the next item before the present one leaves the list.
Walk(bits) ==
    LET visit(r, t) == Visit(bits, r, t)
    IN  FoldLeft(visit,
                 [item |-> xItemValue, list |-> xTasksWaitingForBits, clear |-> {}],
                 xTasksWaitingForBits)

\* Tasks that left the list in the walk are made ready.
Released(walk) == ToSet(xTasksWaitingForBits) \ ToSet(walk.list)

Init ==
    /\ exists = TRUE
    /\ uxEventBits = {}
    /\ xTasksWaitingForBits = <<>>
    /\ uxPriority = InitialPriority
    /\ xItemValue = [t \in Tasks |-> ForPriority(uxPriority[t])]
    /\ pc = [t \in Tasks |-> "out"]
    /\ call = [t \in Tasks |-> NoCall]
    /\ uxReturn = [t \in Tasks |-> ForPriority(0)]
    /\ uxPriorityRead = [t \in Tasks |-> 0]
    /\ gaveUp = {}

\* Called by a task, or by the timer task for xEventGroupSetBitsFromISR.
SetBits(bits) ==
    LET walk == Walk(uxEventBits \cup bits) IN
    /\ exists
    /\ uxEventBits' = (uxEventBits \cup bits) \ walk.clear
    /\ xTasksWaitingForBits' = walk.list
    /\ xItemValue' = walk.item
    /\ pc' = [t \in Tasks |-> IF t \in Released(walk) THEN "woken" ELSE pc[t]]
    /\ UNCHANGED <<exists, uxPriority, call, reset, gaveUp>>

\* xEventGroupClearBits, or the timer task for xEventGroupClearBitsFromISR.
ClearBits(bits) ==
    /\ exists
    /\ uxEventBits' = uxEventBits \ bits
    /\ UNCHANGED <<exists, xTasksWaitingForBits, xItemValue, uxPriority, pc, call, reset, gaveUp>>

-----------------------------------------------------------------------------
(***************************************************************************)
(* xEventGroupWaitBits and xEventGroupSync                                 *)
(***************************************************************************)

\* A call that need not or may not block returns at once.
WaitBits(t, c) ==
    /\ pc[t] = "out" /\ exists
    /\ \/ /\ TestWaitCondition(uxEventBits, c)
          /\ uxEventBits' = IF c.clear THEN uxEventBits \ c.bits ELSE uxEventBits
          /\ UNCHANGED <<xTasksWaitingForBits, xItemValue, pc, call>>
       \/ /\ ~TestWaitCondition(uxEventBits, c) /\ c.wait # "none"
          /\ xItemValue' = [xItemValue EXCEPT ![t] = ForWait(c)]
          /\ xTasksWaitingForBits' = Append(xTasksWaitingForBits, t)
          /\ pc' = [pc EXCEPT ![t] = "blocked"]
          /\ call' = [call EXCEPT ![t] = c]
          /\ UNCHANGED uxEventBits
    /\ UNCHANGED <<exists, uxPriority, reset, gaveUp>>

\* Mutant: the bits are tested after the walk, which may have cleared them.
AllArrivedAfterWalk(t) ==
    LET bits == uxEventBits \cup {SyncBit[t]} IN Rendezvous \subseteq bits \ Walk(bits).clear

AllArrived(t) == Rendezvous \subseteq uxEventBits \cup {SyncBit[t]}

\* The task sets its bit as xEventGroupSetBits does.  It passes if it is the last; if
\* not it waits, or leaves its bit and returns if it has no block time.
Sync(t, wait) ==
    LET bits == uxEventBits \cup {SyncBit[t]}
        walk == Walk(bits)
        pcs  == [u \in Tasks |-> IF u \in Released(walk) THEN "woken" ELSE pc[u]]
    IN
    /\ pc[t] = "out" /\ exists
    /\ \/ /\ AllArrived(t)
          /\ uxEventBits' = (bits \ walk.clear) \ Rendezvous
          /\ xTasksWaitingForBits' = walk.list
          /\ xItemValue' = walk.item
          /\ pc' = pcs
          /\ gaveUp' = {}
          /\ UNCHANGED call
       \/ /\ ~AllArrived(t) /\ wait # "none"
          /\ uxEventBits' = bits \ walk.clear
          /\ xTasksWaitingForBits' = Append(walk.list, t)
          /\ xItemValue' = [walk.item EXCEPT ![t] = ForWait(SyncCall(wait))]
          /\ pc' = [pcs EXCEPT ![t] = "blocked"]
          /\ call' = [call EXCEPT ![t] = SyncCall(wait)]
          /\ gaveUp' = gaveUp \ {t}
       \/ /\ ~AllArrived(t) /\ wait = "none"
          /\ uxEventBits' = bits \ walk.clear
          /\ xTasksWaitingForBits' = walk.list
          /\ xItemValue' = walk.item
          /\ pc' = pcs
          /\ gaveUp' = gaveUp \cup {t}
          /\ UNCHANGED call
    /\ UNCHANGED <<exists, uxPriority, reset>>

\* The block time ends (or xTaskAbortDelay ends it): the task leaves the list but
\* its item value keeps what it waited for until the task runs.
TimeOut(t) ==
    /\ pc[t] = "blocked" /\ call[t].wait = "finite"
    /\ xTasksWaitingForBits' = ListRemove(xTasksWaitingForBits, t)
    /\ pc' = [pc EXCEPT ![t] = "woken"]
    /\ gaveUp' = gaveUp \cup ({t} \cap Participants)
    /\ UNCHANGED <<exists, uxEventBits, xItemValue, uxPriority, call, reset>>

\* uxTaskResetEventItemValue, not a critical section: the item value and the
\* priority are read ...
ReadItemValue(t) ==
    /\ pc[t] = "woken"
    /\ uxReturn' = [uxReturn EXCEPT ![t] = xItemValue[t]]
    /\ uxPriorityRead' = [uxPriorityRead EXCEPT ![t] = uxPriority[t]]
    /\ pc' = [pc EXCEPT ![t] = "reset"]
    /\ UNCHANGED <<group, xItemValue, uxPriority, call, gaveUp>>

\* ... and the item value is stored.  A task released by bits returns them.
ResetItemValue(t) ==
    /\ pc[t] = "reset"
    /\ xItemValue' = [xItemValue EXCEPT ![t] = ForPriority(uxPriorityRead[t])]
    /\ IF uxReturn[t].unblocked
       THEN /\ pc' = [pc EXCEPT ![t] = "out"]
            /\ call' = [call EXCEPT ![t] = NoCall]
       ELSE /\ pc' = [pc EXCEPT ![t] = "late"]
            /\ UNCHANGED call
    /\ uxReturn' = [uxReturn EXCEPT ![t] = ForPriority(0)]
    /\ uxPriorityRead' = [uxPriorityRead EXCEPT ![t] = 0]
    /\ UNCHANGED <<group, uxPriority, gaveUp>>

\* The critical section after a wait or a rendezvous that timed out.
ReturnLate(t) ==
    /\ pc[t] = "late"
    /\ uxEventBits' = IF TestWaitCondition(uxEventBits, call[t]) /\ call[t].clear
                      THEN uxEventBits \ call[t].bits ELSE uxEventBits
    /\ pc' = [pc EXCEPT ![t] = "out"]
    /\ call' = [call EXCEPT ![t] = NoCall]
    /\ UNCHANGED <<exists, xTasksWaitingForBits, xItemValue, uxPriority, reset, gaveUp>>

\* vEventGroupDelete wakes every waiter with no bits.  The caller sees to it that no
\* task is still to look at the group after a timeout; no call is made after it.
Delete ==
    /\ exists
    /\ \A t \in Tasks :
        /\ pc[t] # "late"
        /\ pc[t] = "woken" => xItemValue[t].unblocked
        /\ pc[t] = "reset" => uxReturn[t].unblocked
    /\ xItemValue' = [t \in Tasks |-> IF pc[t] = "blocked" THEN ForRelease({}) ELSE xItemValue[t]]
    /\ xTasksWaitingForBits' = <<>>
    /\ pc' = [t \in Tasks |-> IF pc[t] = "blocked" THEN "woken" ELSE pc[t]]
    /\ exists' = FALSE
    /\ UNCHANGED <<uxEventBits, uxPriority, call, reset, gaveUp>>

-----------------------------------------------------------------------------
(***************************************************************************)
(* vTaskPrioritySet by any task                                            *)
(***************************************************************************)

\* Mutant: the item value is overwritten whatever it is used for.
ItemValueAtPriority(t, p) == ForPriority(p)

ItemValueAfterPrioritySet(t, p) ==
    IF xItemValue[t].inUse THEN xItemValue[t] ELSE ForPriority(p)

PrioritySet(t, p) ==
    /\ uxPriority' = [uxPriority EXCEPT ![t] = p]
    /\ xItemValue' = [xItemValue EXCEPT ![t] = ItemValueAfterPrioritySet(t, p)]
    /\ UNCHANGED <<group, pc, call, reset, gaveUp>>

Next ==
    \/ \E bits \in BitMasks : SetBits(bits) \/ ClearBits(bits)
    \/ \E t \in Tasks \ Participants, c \in Calls : WaitBits(t, c)
    \/ \E t \in Participants, wait \in SyncWaits : Sync(t, wait)
    \/ \E t \in Tasks :
          \/ TimeOut(t) \/ ReadItemValue(t) \/ ResetItemValue(t) \/ ReturnLate(t)
    \/ \E t \in Reprioritised, p \in Priorities : PrioritySet(t, p)
    \/ Delete

Spec == Init /\ [][Next]_vars

-----------------------------------------------------------------------------
(***************************************************************************)
(* Properties                                                              *)
(***************************************************************************)

Waiting == ToSet(xTasksWaitingForBits)

\* Nobody sleeps while the bits it asked for are set, whatever happened to the item
\* value in which the kernel looks it up.
NoMissedBits ==
    \A t \in Tasks : pc[t] = "blocked" =>
        t \in Waiting /\ ~TestWaitCondition(uxEventBits, call[t])

\* The bit of a participant is set exactly while it waits at the rendezvous, or after
\* it has given up and until the next meeting: nobody passes before all have come since
\* the last one, and no bit outlasts the meeting, in whatever state those that gave up
\* still are in the call.
Barrier ==
    exists => \A t \in Participants :
        SyncBit[t] \in uxEventBits <=> t \in Waiting \cup gaveUp

\* Waiters the bits suffice for are released together and see all the bits they
\* waited for, though some of them clear bits that others waited for as well.
MatchReleased(t) ==
    LET released == t \in Waiting /\ t \notin Waiting' /\ xItemValue'[t].unblocked IN
    released => xItemValue'[t].bits = {} \/
       /\ TestWaitCondition(xItemValue'[t].bits, call[t])
       /\ \A u \in Waiting :
             TestWaitCondition(xItemValue'[t].bits, call[u]) =>
                 /\ u \notin Waiting'
                 /\ xItemValue'[u].bits = xItemValue'[t].bits
EveryMatchReleased == [][\A t \in Tasks : MatchReleased(t)]_vars

\* Between waits the item value is that of the task's priority.  It does not hold:
\* vTaskPrioritySet can come within uxTaskResetEventItemValue (README, section 6).
ItemValueIsPriority ==
    \A t \in Tasks : pc[t] = "out" => xItemValue[t] = ForPriority(uxPriority[t])
=============================================================================
