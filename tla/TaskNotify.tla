----------------------------- MODULE TaskNotify -----------------------------
(***************************************************************************)
(* Task notifications without a value, as one task uses them to wait for   *)
(* an event that another task or an interrupt reports: the states of one   *)
(* entry of ucNotifyState, and whether the task is blocked on it.          *)
(* Source/tasks.c: xTaskGenericNotify and xTaskGenericNotifyFromISR with   *)
(* eNoAction, xTaskGenericNotifyWait without bits to clear,                *)
(* xTaskGenericNotifyStateClear.                                           *)
(*                                                                         *)
(* These are the operators that a module builds its actions from.          *)
(***************************************************************************)
VARIABLES ucNotifyState,   \* of each task: "not", "waiting" or "received"
          blocked          \* the tasks in the delayed or suspended list

notifyVars == <<ucNotifyState, blocked>>

NotifyStates == {"not", "waiting", "received"}

\* Mutant: a notification is kept only if the task has begun to wait.
NotifyOnlyWaiting(t) ==
    IF ucNotifyState[t] # "waiting" THEN UNCHANGED notifyVars
    ELSE /\ ucNotifyState' = [ucNotifyState EXCEPT ![t] = "received"]
         /\ blocked' = blocked \ {t}

\* A notification: the state tells whether the task has to be made ready.  From
\* an interrupt with the scheduler suspended the task is ready when that ends.
Notify(t) ==
    /\ ucNotifyState' = [ucNotifyState EXCEPT ![t] = "received"]
    /\ blocked' = IF ucNotifyState[t] = "waiting" THEN blocked \ {t} ELSE blocked

\* xTaskNotifyStateClear, by the task itself.
ClearedState(t) ==
    [ucNotifyState EXCEPT ![t] = IF @ = "received" THEN "not" ELSE @]

\* Mutant: the caller blocks without a look at the state.
WaitRegardless(t) ==
    /\ ucNotifyState' = [ucNotifyState EXCEPT ![t] = "waiting"]
    /\ blocked' = blocked \cup {t}

\* xTaskNotifyWait, first critical section, for a block time other than 0.
WaitForNotification(t) ==
    IF ucNotifyState[t] = "received" THEN UNCHANGED notifyVars
    ELSE /\ ucNotifyState' = [ucNotifyState EXCEPT ![t] = "waiting"]
         /\ blocked' = blocked \cup {t}

\* Its second critical section, once the task runs again.
EndWait(t) ==
    /\ t \notin blocked
    /\ ucNotifyState' = [ucNotifyState EXCEPT ![t] = "not"]
    /\ UNCHANGED blocked

\* The block time ends: xTaskIncrementTick makes the task ready.
WakeUp(t) == blocked' = blocked \ {t} /\ UNCHANGED ucNotifyState
=============================================================================
