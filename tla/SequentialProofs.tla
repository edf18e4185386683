-------------------------- MODULE SequentialProofs --------------------------
(***************************************************************************)
(* The components whose operations each run alone, in a critical section   *)
(* or with the scheduler suspended, and which know nothing of each other:  *)
(* the time of a task that waits (BlockTimes), heap_4 (Heap4) and the      *)
(* linked lists (List, ListTurnHistory), each for every value of its       *)
(* constants.                                                              *)
(***************************************************************************)
EXTENDS BlockTimes, Heap4, ListTurnHistory, ListOpsProofs

-----------------------------------------------------------------------------
(***************************************************************************)
(* BlockTimes.                                                             *)
(* For every width of the tick count and of the count of its overflows.    *)
(***************************************************************************)

LEMMA Bounds ==
    /\ portMAX_DELAY \in Nat /\ portMAX_DELAY >= 1
    /\ MaxOverflows \in Nat /\ MaxOverflows >= 1 /\ MaxLate \in Nat /\ MaxLag \in Nat
  BY BlockTimesAssumption, TickTypeAssumption DEF BlockTimesAssumption, TickTypeAssumption

LEMMA UnsignedType ==
    \A s, t \in Ticks : Plus(s, t) \in Ticks /\ Minus(s, t) \in Ticks
  BY Bounds DEF Ticks, Plus, Minus

-----------------------------------------------------------------------------
(***************************************************************************)
(* Types                                                                   *)
(***************************************************************************)

LEMMA TypeInit == Init => TypeOK
  <1> SUFFICES ASSUME Init PROVE TypeOK
    OBVIOUS
  <1>1. 0 \in Ticks /\ 0 \in 0 .. MaxLate /\ 0 \in -MaxLag - portMAX_DELAY .. MaxLag
    BY Bounds DEF Ticks
  <1> QED BY <1>1 DEF Init, TypeOK

LEMMA TypeStep == TypeOK /\ [Next]_vars => TypeOK'
  <1> SUFFICES ASSUME TypeOK, [Next]_vars PROVE TypeOK'
    OBVIOUS
  <1> USE DEF TypeOK
  <1>1. CASE Tick
    <2>1. 1 \in Ticks
      BY Bounds DEF Ticks
    <2>2. xTickCount' \in Ticks
      BY <1>1, <2>1, UnsignedType DEF Tick
    <2>3. /\ xNumOfOverflows' \in 0 .. MaxOverflows /\ age' \in 0 .. MaxLate /\ due' \in Ticks
          /\ ticksToDelay' \in Ticks /\ lag' \in -MaxLag - portMAX_DELAY .. MaxLag
      BY <1>1, Bounds DEF Tick, Ticks, Delayed
    <2>4. lostBeat' \in BOOLEAN
      BY <1>1 DEF Tick
    <2> QED BY <1>1, <2>2, <2>3, <2>4 DEF Tick, timeOut
  <1>2. CASE Start
    <2>1. 0 \in 0 .. MaxLate /\ 1 .. portMAX_DELAY \subseteq Ticks
      BY Bounds DEF Ticks
    <2> QED BY <1>2, <2>1 DEF Start, SetTimeOutState, periodic
  <1>3. CASE Abort
    BY <1>3 DEF Abort, timeOut, periodic
  <1>4. CASE CheckForTimeOut
    <2>1. xElapsedTime \in Ticks
      BY UnsignedType DEF xElapsedTime
    <2>2. /\ xTimeOnEntering' \in Ticks /\ xOverflowCount' \in 0 .. MaxOverflows
          /\ age' \in 0 .. MaxLate
      BY <1>4, Bounds DEF CheckForTimeOut, SetTimeOutState, timeOut
    <2>3. xTicksToWait' \in Ticks
      BY <1>4, <2>1, Bounds DEF CheckForTimeOut, Ticks
    <2>4. ucDelayAborted' \in BOOLEAN /\ xReturn' \in BOOLEAN
      BY <1>4 DEF CheckForTimeOut
    <2> QED BY <1>4, <2>2, <2>3, <2>4 DEF CheckForTimeOut, periodic
  <1>5. CASE AbortDelay
    BY <1>5, Bounds DEF AbortDelay, waiter, timeOut, Ticks
  <1>6. ASSUME NEW n \in 1 .. portMAX_DELAY, DelayUntil(n) PROVE TypeOK'
    <2>1. n \in Ticks /\ 0 \in Ticks
      BY Bounds DEF Ticks
    <2>2. pxPreviousWakeTime' \in Ticks /\ ticksToDelay' \in Ticks
      BY <1>6, <2>1, UnsignedType DEF DelayUntil
    <2>3. lag' \in -MaxLag - portMAX_DELAY .. MaxLag
      BY <1>6, Bounds DEF DelayUntil
    <2> QED BY <1>6, <2>2, <2>3 DEF DelayUntil, waiter, timeOut
  <1>7. CASE UNCHANGED vars
    BY <1>7 DEF vars, waiter, timeOut, periodic
  <1> QED BY <1>1, <1>2, <1>3, <1>4, <1>5, <1>6, <1>7 DEF Next

\* Tick counts and block times stay in a TickType_t.
THEOREM TypeCorrect == Spec => []TypeOK
  BY TypeInit, TypeStep, PTL DEF Spec

-----------------------------------------------------------------------------
(***************************************************************************)
(* The call that waits in rounds                                           *)
(***************************************************************************)

\* What the TimeOut_t says of the ticks since it was updated, if they are at most
\* a turn of the tick count.
Elapsed ==
    \/ /\ xNumOfOverflows = xOverflowCount /\ xTickCount >= xTimeOnEntering
       /\ age = xTickCount - xTimeOnEntering
    \/ /\ xNumOfOverflows # xOverflowCount /\ xTickCount <= xTimeOnEntering
       /\ age = xTickCount - xTimeOnEntering + portMAX_DELAY + 1

\* What is left of a bounded wait was right when the TimeOut_t was updated.
Left == xTicksToWait # portMAX_DELAY =>
            due = IF age >= xTicksToWait THEN 0 ELSE xTicksToWait - age

RoundsOK == TypeOK /\ Elapsed /\ Left

LEMMA RoundsInit == Init => RoundsOK
  <1> SUFFICES ASSUME Init PROVE RoundsOK
    OBVIOUS
  <1>1. TypeOK
    BY TypeInit
  <1>2. Elapsed /\ Left
    BY <1>1 DEF Init, Elapsed, Left, TypeOK, Ticks
  <1> QED BY <1>1, <1>2 DEF RoundsOK

\* The two ways in which xTaskCheckForTimeOut looks at the time.
LEMMA ElapsedIsAge ==
    ASSUME RoundsOK
    PROVE  /\ WentRound <=> age = portMAX_DELAY + 1
           /\ ~WentRound => xElapsedTime = age
  BY Bounds DEF RoundsOK, TypeOK, Ticks, Elapsed, WentRound, xElapsedTime, Minus

\* Whether the time is over, and what is left of it.
LEMMA OverIffDue ==
    ASSUME RoundsOK, xTicksToWait # portMAX_DELAY
    PROVE  /\ (WentRound \/ xElapsedTime >= xTicksToWait) <=> due = 0
           /\ (~WentRound /\ xElapsedTime < xTicksToWait) => due = xTicksToWait - xElapsedTime
  <1>1. /\ xTicksToWait \in 0 .. portMAX_DELAY /\ age \in Nat
        /\ due = IF age >= xTicksToWait THEN 0 ELSE xTicksToWait - age
    BY Bounds DEF RoundsOK, TypeOK, Ticks, Left
  <1>2. CASE WentRound
    BY <1>1, <1>2, ElapsedIsAge, Bounds
  <1>3. CASE ~WentRound
    BY <1>1, <1>3, ElapsedIsAge
  <1> QED BY <1>2, <1>3

LEMMA NothingElapsed ==
    ASSUME NEW w \in Nat, NEW a, a = 0
    PROVE  w = IF a >= w THEN 0 ELSE w - a
  OBVIOUS

LEMMA RoundsStep ==
    ASSUME MaxLate <= portMAX_DELAY + 1, RoundsOK, [Next]_vars
    PROVE  RoundsOK'
  <1>1. TypeOK /\ TypeOK'
    BY TypeStep DEF RoundsOK
  <1>2. CASE Tick
    <2>1. /\ age < MaxLate /\ age' = age + 1 /\ xTicksToWait' = xTicksToWait
          /\ due' = IF due > 0 THEN due - 1 ELSE 0
          /\ xTimeOnEntering' = xTimeOnEntering /\ xOverflowCount' = xOverflowCount
      BY <1>2 DEF Tick, timeOut
    <2>2. /\ xTickCount' = IF xTickCount + 1 > portMAX_DELAY THEN 0 ELSE xTickCount + 1
          /\ IF xTickCount + 1 > portMAX_DELAY THEN xNumOfOverflows' # xNumOfOverflows
             ELSE xNumOfOverflows' = xNumOfOverflows
      <3>1. xTickCount' = IF xTickCount + 1 > portMAX_DELAY THEN 0 ELSE xTickCount + 1
        BY <1>1, <1>2, Bounds DEF Tick, Plus, TypeOK, Ticks
      <3> QED BY <1>1, <1>2, <3>1, Bounds DEF Tick, TypeOK, Ticks
    <2>3. Elapsed'
      BY <1>1, <2>1, <2>2, Bounds DEF RoundsOK, Elapsed, TypeOK, Ticks
    <2>4. Left'
      BY <1>1, <2>1, Bounds DEF RoundsOK, Left, TypeOK, Ticks
    <2> QED BY <1>1, <2>3, <2>4 DEF RoundsOK
  <1>3. CASE Start
    BY <1>1, <1>3, Bounds DEF Start, SetTimeOutState, RoundsOK, Elapsed, Left, TypeOK, Ticks
  <1>4. CASE CheckForTimeOut
    <2>1. xTickCount' = xTickCount /\ xNumOfOverflows' = xNumOfOverflows /\ due' = due
      BY <1>4 DEF CheckForTimeOut
    <2>2. CASE UNCHANGED <<timeOut, xTicksToWait, age>>
      BY <1>1, <2>1, <2>2 DEF RoundsOK, Elapsed, Left, timeOut
    <2>3. CASE /\ xTicksToWait # portMAX_DELAY /\ (WentRound \/ xElapsedTime >= xTicksToWait)
               /\ xTicksToWait' = 0 /\ UNCHANGED <<timeOut, age>>
      <3>1. due' = 0
        BY <2>1, <2>3, OverIffDue
      <3>2. Left'
        BY <1>1, <2>3, <3>1 DEF Left, TypeOK
      <3> QED BY <1>1, <2>1, <2>3, <3>2 DEF RoundsOK, Elapsed, timeOut
    <2>4. CASE /\ xTicksToWait # portMAX_DELAY /\ ~WentRound /\ xElapsedTime < xTicksToWait
               /\ xTicksToWait' = xTicksToWait - xElapsedTime /\ SetTimeOutState
      <3>1. due' = xTicksToWait'
        BY <2>1, <2>4, OverIffDue
      <3>2. age' = 0 /\ due' \in Ticks
        BY <1>1, <2>4 DEF SetTimeOutState, TypeOK
      <3>3. Left'
        <4>1. xTicksToWait' \in Nat /\ age' = 0
          BY <3>1, <3>2, Bounds DEF Ticks
        <4> QED BY <3>1, <4>1, NothingElapsed DEF Left
      <3>4. Elapsed'
        BY <1>1, <2>1, <2>4 DEF Elapsed, SetTimeOutState, TypeOK, Ticks
      <3> QED BY <1>1, <3>3, <3>4 DEF RoundsOK
    <2> QED BY <1>4, <2>2, <2>3, <2>4 DEF CheckForTimeOut
  <1>5. CASE \/ Abort \/ AbortDelay \/ UNCHANGED vars
             \/ \E n \in 1 .. portMAX_DELAY : DelayUntil(n)
    <2>1. UNCHANGED <<xTickCount, xNumOfOverflows, timeOut, xTicksToWait, age, due>>
      BY <1>5 DEF Abort, AbortDelay, DelayUntil, vars, waiter
    <2> QED BY <1>1, <2>1 DEF RoundsOK, Elapsed, Left, timeOut
  <1> QED BY <1>2, <1>3, <1>4, <1>5 DEF Next

\* A look at the time tells and leaves what is true.
LEMMA CheckIsExact ==
    ASSUME RoundsOK, CheckForTimeOut
    PROVE  /\ xReturn' <=> ucDelayAborted \/ (xTicksToWait # portMAX_DELAY /\ due = 0)
           /\ (~xReturn' /\ xTicksToWait # portMAX_DELAY) => xTicksToWait' = due'
  <1>1. due' = due /\ ucDelayAborted \in BOOLEAN
    BY DEF CheckForTimeOut, RoundsOK, TypeOK
  <1>2. CASE ucDelayAborted
    BY <1>2 DEF CheckForTimeOut
  <1>3. CASE ~ucDelayAborted /\ xTicksToWait = portMAX_DELAY
    BY <1>3 DEF CheckForTimeOut
  <1>4. CASE ~ucDelayAborted /\ xTicksToWait # portMAX_DELAY
    <2>1. CASE WentRound \/ xElapsedTime >= xTicksToWait
      <3>1. xReturn' = TRUE
        <4>1. xElapsedTime \in Int /\ xTicksToWait \in Int
          BY UnsignedType, Bounds DEF RoundsOK, TypeOK, xElapsedTime, Ticks
        <4> QED BY <1>4, <2>1, <4>1 DEF CheckForTimeOut
      <3> QED BY <1>4, <2>1, <3>1, OverIffDue
    <2>2. CASE ~(WentRound \/ xElapsedTime >= xTicksToWait)
      <3>1. xReturn' = FALSE /\ xTicksToWait' = xTicksToWait - xElapsedTime
        BY <1>4, <2>2 DEF CheckForTimeOut
      <3>2. ~WentRound /\ xElapsedTime < xTicksToWait
        BY <1>4, <2>2 DEF CheckForTimeOut
      <3> QED BY <1>1, <1>4, <2>2, <3>1, <3>2, OverIffDue
    <2> QED BY <2>1, <2>2
  <1> QED BY <1>2, <1>3, <1>4

\* However wide the counts, and wherever they wrap: a call that looks at the time
\* at least once in a turn of the tick count is told that its time is over exactly
\* when it is, and is left with what is left.
THEOREM TimeOutsAreExact == MaxLate <= portMAX_DELAY + 1 => (Spec => TimeOutExact)
  <1> SUFFICES ASSUME MaxLate <= portMAX_DELAY + 1 PROVE Spec => TimeOutExact
    OBVIOUS
  <1>1. RoundsOK /\ [Next]_vars => RoundsOK'
    BY RoundsStep
  <1>2. RoundsOK /\ [Next]_vars =>
          [CheckForTimeOut =>
            /\ xReturn' <=> ucDelayAborted \/ (xTicksToWait # portMAX_DELAY /\ due = 0)
            /\ (~xReturn' /\ xTicksToWait # portMAX_DELAY) => xTicksToWait' = due]_vars
    <2>1. CheckForTimeOut => due' = due
      BY DEF CheckForTimeOut
    <2> QED BY <2>1, CheckIsExact
  <1> QED BY <1>1, <1>2, RoundsInit, PTL DEF Spec, TimeOutExact

-----------------------------------------------------------------------------
(***************************************************************************)
(* The periodic task                                                       *)
(***************************************************************************)

\* How far the previous wake time is from now, while the beat is kept.
Beat == lostBeat \/
    /\ -portMAX_DELAY <= lag /\ lag <= portMAX_DELAY
    /\ pxPreviousWakeTime = IF lag >= 0 THEN Minus(xTickCount, lag) ELSE Plus(xTickCount, -lag)

PeriodOK == TypeOK /\ Beat /\ WakesOnPeriod

LEMMA PeriodInit == Init => PeriodOK
  <1> SUFFICES ASSUME Init PROVE PeriodOK
    OBVIOUS
  <1>1. TypeOK
    BY TypeInit
  <1>2. Beat /\ WakesOnPeriod
    BY <1>1, Bounds DEF Init, Beat, WakesOnPeriod, Delayed, Minus, TypeOK, Ticks
  <1> QED BY <1>1, <1>2 DEF PeriodOK

\* Whether and how long to delay, from a beat that was kept.
LEMMA DelayUntilKeepsBeat ==
    ASSUME PeriodOK, ~lostBeat, NEW n \in 1 .. portMAX_DELAY, DelayUntil(n)
    PROVE  Beat' /\ WakesOnPeriod'
  <1> DEFINE wake == Plus(pxPreviousWakeTime, n)
  <1>1. /\ xTickCount \in 0 .. portMAX_DELAY /\ pxPreviousWakeTime \in 0 .. portMAX_DELAY
        /\ lag \in Int /\ lag >= 0 /\ lag <= portMAX_DELAY
        /\ pxPreviousWakeTime = Minus(xTickCount, lag)
    BY Bounds DEF PeriodOK, TypeOK, Ticks, Beat, WakesOnPeriod, DelayUntil
  <1>2. /\ xTickCount' = xTickCount /\ lostBeat' = lostBeat /\ lag' = lag - n
        /\ pxPreviousWakeTime' = wake
        /\ ticksToDelay' = IF ShouldDelay(wake) THEN Minus(wake, xTickCount) ELSE 0
    BY DEF DelayUntil
  <1>3. /\ ShouldDelay(wake) <=> n > lag
        /\ n > lag => Minus(wake, xTickCount) = n - lag
        /\ wake = IF lag - n >= 0 THEN Minus(xTickCount, lag - n) ELSE Plus(xTickCount, n - lag)
    BY <1>1, Bounds DEF Plus, Minus, ShouldDelay
  <1> HIDE DEF wake
  <1>4. -lag' = n - lag
    BY <1>1, <1>2
  <1>5. Beat'
    BY <1>1, <1>2, <1>3, <1>4, Bounds DEF Beat
  <1>6. WakesOnPeriod'
    BY <1>1, <1>2, <1>3 DEF WakesOnPeriod, Delayed
  <1> QED BY <1>5, <1>6

LEMMA PeriodStep == PeriodOK /\ [Next]_vars => PeriodOK'
  <1> SUFFICES ASSUME PeriodOK, [Next]_vars PROVE PeriodOK'
    OBVIOUS
  <1>1. TypeOK /\ TypeOK'
    BY TypeStep DEF PeriodOK
  <1>2. CASE Tick
    <2>1. /\ lag' = lag + 1 /\ lostBeat' = (lostBeat \/ lag >= portMAX_DELAY)
          /\ ticksToDelay' = (IF Delayed THEN ticksToDelay - 1 ELSE 0)
          /\ pxPreviousWakeTime' = pxPreviousWakeTime /\ xTickCount' = Plus(xTickCount, 1)
      BY <1>2 DEF Tick
    <2>2. CASE lostBeat'
      BY <1>1, <2>2 DEF PeriodOK, Beat, WakesOnPeriod
    <2>3. CASE ~lostBeat'
      <3>1. ~lostBeat /\ lag < portMAX_DELAY
        <4>1. ~lostBeat /\ ~(lag >= portMAX_DELAY)
          BY <2>1, <2>3, Zenon
        <4> QED BY <1>1, <4>1, Bounds DEF TypeOK
      <3>2. /\ xTickCount \in 0 .. portMAX_DELAY /\ lag \in Int
            /\ ticksToDelay \in 0 .. portMAX_DELAY
            /\ -portMAX_DELAY <= lag
            /\ pxPreviousWakeTime =
                 IF lag >= 0 THEN Minus(xTickCount, lag) ELSE Plus(xTickCount, -lag)
            /\ IF Delayed THEN lag = -ticksToDelay ELSE lag >= 0
        BY <1>1, <3>1, Bounds DEF PeriodOK, Beat, WakesOnPeriod, TypeOK, Ticks
      <3>3. IF lag + 1 >= 0
            THEN pxPreviousWakeTime = Minus(Plus(xTickCount, 1), lag + 1)
            ELSE pxPreviousWakeTime = Plus(Plus(xTickCount, 1), -(lag + 1))
        BY <3>1, <3>2, Bounds DEF Plus, Minus
      <3>4. Beat'
        <4>1. lag' \in Int /\ -portMAX_DELAY <= lag' /\ lag' <= portMAX_DELAY
          BY <2>1, <3>1, <3>2, Bounds
        <4> QED BY <2>1, <3>3, <4>1 DEF Beat
      <3>5. WakesOnPeriod'
        BY <2>1, <3>2 DEF WakesOnPeriod, Delayed
      <3> QED BY <1>1, <3>4, <3>5 DEF PeriodOK
    <2> QED BY <2>2, <2>3
  <1>3. CASE AbortDelay
    BY <1>1, <1>3 DEF AbortDelay, PeriodOK, Beat, WakesOnPeriod
  <1>4. ASSUME NEW n \in 1 .. portMAX_DELAY, DelayUntil(n) PROVE PeriodOK'
    <2>1. CASE lostBeat
      BY <1>1, <1>4, <2>1 DEF DelayUntil, PeriodOK, Beat, WakesOnPeriod
    <2>2. CASE ~lostBeat
      BY <1>1, <1>4, <2>2, DelayUntilKeepsBeat DEF PeriodOK
    <2> QED BY <2>1, <2>2
  <1>5. CASE Start \/ Abort \/ CheckForTimeOut \/ UNCHANGED vars
    <2>1. UNCHANGED <<xTickCount, periodic>>
      BY <1>5 DEF Start, Abort, CheckForTimeOut, vars
    <2> QED BY <1>1, <2>1 DEF PeriodOK, Beat, WakesOnPeriod, Delayed, periodic
  <1> QED BY <1>2, <1>3, <1>4, <1>5 DEF Next

\* For every width of the tick count: a task that calls xTaskDelayUntil less than a
\* turn late wakes exactly on its beat, and delays only if that is ahead.
THEOREM PeriodicTaskKeepsBeat == Spec => []WakesOnPeriod
  <1>1. PeriodOK => WakesOnPeriod
    BY DEF PeriodOK
  <1> QED BY <1>1, PeriodInit, PeriodStep, PTL DEF Spec

\* And however late or early it is, no delay is longer than the period asked for.
THEOREM NoDelayExceedsPeriod == Spec => DelayAtMostPeriod
  <1>1. ASSUME TypeOK, NEW n \in 1 .. portMAX_DELAY, DelayUntil(n) PROVE ticksToDelay' <= n
    <2> DEFINE wake == Plus(pxPreviousWakeTime, n)
    <2>1. xTickCount \in 0 .. portMAX_DELAY /\ pxPreviousWakeTime \in 0 .. portMAX_DELAY
      BY <1>1 DEF TypeOK, Ticks
    <2>2. ticksToDelay' = IF ShouldDelay(wake) THEN Minus(wake, xTickCount) ELSE 0
      BY <1>1 DEF DelayUntil
    <2> QED BY <2>1, <2>2, Bounds DEF Plus, Minus, ShouldDelay
  <1>2. TypeOK /\ [Next]_vars =>
          [\A n \in 1 .. portMAX_DELAY : DelayUntil(n) => ticksToDelay' <= n]_vars
    BY <1>1
  <1> QED BY <1>2, TypeCorrect, PTL DEF Spec, DelayAtMostPeriod

-----------------------------------------------------------------------------
(***************************************************************************)
(* Heap4.  HeapInv says that before and after each call the blocks tile    *)
(* the heap, those in the free list rise and do not touch, and the counts  *)
(* of bytes are theirs.  prvInsertBlockIntoFreeList is a list insertion    *)
(* followed by up to two merges, each of which replaces two neighbours by  *)
(* one block.                                                              *)
(***************************************************************************)

-----------------------------------------------------------------------------
(***************************************************************************)
(* Addresses                                                               *)
(***************************************************************************)

\* Multiples of the alignment.
LEMMA AlignedSums ==
    ASSUME NEW m \in Int, NEW n \in Int, m % Alignment = 0, n % Alignment = 0
    PROVE  (m + n) % Alignment = 0 /\ (m - n) % Alignment = 0
  <1>1. Alignment \in Nat \ {0}
    BY Heap4Assumption DEF Heap4Assumption
  <1> DEFINE A == Alignment
             j == m \div A
             k == n \div A
  <1> HIDE DEF A
  <1>2. A \in Nat \ {0} /\ j \in Int /\ k \in Int /\ m = A * j /\ n = A * k
    BY <1>1 DEF A
  <1> HIDE DEF j, k
  <1>3. m + n = A * (j + k) /\ m - n = A * (j - k)
    BY <1>2
  <1>4. \A i \in Int : (A * i) % A = 0
    BY <1>2
  <1>5. (A * (j + k)) % A = 0 /\ (A * (j - k)) % A = 0
    <2>1. j + k \in Int /\ j - k \in Int
      BY <1>2
    <2> QED BY <1>4, <2>1
  <1> QED BY <1>3, <1>5 DEF A

LEMMA AlignedIsMultiple ==
    ASSUME NEW n \in Int
    PROVE  Aligned(n) \in Int /\ Aligned(n) % Alignment = 0 /\ Aligned(n) <= n
  <1>1. Alignment \in Nat \ {0}
    BY Heap4Assumption DEF Heap4Assumption
  <1> QED BY <1>1 DEF Aligned

LEMMA HeapBounds ==
    /\ FirstBlock \in Nat /\ pxEnd \in Nat /\ FirstBlock < pxEnd
    /\ FirstBlock % Alignment = 0 /\ pxEnd % Alignment = 0
    /\ Addresses \subseteq Nat /\ FirstBlock \in Addresses
    /\ \A a \in Nat : a \in Addresses <=> FirstBlock <= a /\ a < pxEnd
  <1>1. /\ Alignment \in Nat \ {0} /\ ucHeap \in Nat /\ HeapSize > 0
        /\ ucHeap + Alignment - 1 \in Int
        /\ ucHeap + configTOTAL_HEAP_SIZE - xHeapStructSize \in Int
    BY Heap4Assumption DEF Heap4Assumption
  <1>2. /\ FirstBlock \in Int /\ FirstBlock % Alignment = 0
        /\ pxEnd \in Int /\ pxEnd % Alignment = 0
    BY <1>1, AlignedIsMultiple DEF FirstBlock, pxEnd
  <1>3. FirstBlock >= 0
    BY <1>1 DEF FirstBlock, Aligned
  <1> QED BY <1>1, <1>2, <1>3 DEF HeapSize, Addresses

-----------------------------------------------------------------------------
(***************************************************************************)
(* Blocks.  B is a set of blocks, size gives their sizes.                  *)
(***************************************************************************)

SizeMaps == [Addresses -> Nat]

\* The blocks fill the heap from end to end without overlap, and are aligned.
Tiles(B, size) ==
    /\ FirstBlock \in B
    /\ \A b \in B : /\ b % Alignment = 0 /\ size[b] > 0
                    /\ b + size[b] \in B \cup {pxEnd}
                    /\ \A c \in B : b < c => b + size[b] <= c

LEMMA BlockFacts ==
    ASSUME NEW B \in SUBSET Addresses, NEW size \in SizeMaps, Tiles(B, size), NEW b \in B
    PROVE  /\ b \in Nat /\ size[b] \in Nat \ {0} /\ FirstBlock <= b /\ b < pxEnd
           /\ b + size[b] <= pxEnd
           /\ b % Alignment = 0 /\ size[b] % Alignment = 0
  <1>1. /\ b \in Nat /\ b \in Addresses /\ FirstBlock <= b /\ b < pxEnd
        /\ pxEnd \in Nat /\ pxEnd % Alignment = 0
    BY HeapBounds
  <1>2. size[b] \in Nat /\ size[b] > 0 /\ b + size[b] \in B \cup {pxEnd} /\ b % Alignment = 0
    BY <1>1 DEF Tiles, SizeMaps
  <1>3. \A c \in B : c \in Nat /\ c < pxEnd /\ c % Alignment = 0
    BY HeapBounds DEF Tiles
  <1>4. /\ b + size[b] <= pxEnd /\ (b + size[b]) % Alignment = 0
    BY <1>1, <1>2, <1>3
  <1>5. size[b] % Alignment = 0
    <2> DEFINE e == b + size[b]
    <2>1. e \in Int /\ e % Alignment = 0 /\ size[b] = e - b
      BY <1>1, <1>2, <1>4
    <2> HIDE DEF e
    <2>2. (e - b) % Alignment = 0
      BY <1>1, <1>2, <2>1, AlignedSums
    <2> QED BY <2>1, <2>2
  <1> QED BY <1>1, <1>2, <1>4, <1>5

\* Two blocks that touch become one.
LEMMA MergeTiles ==
    ASSUME NEW B \in SUBSET Addresses, NEW size \in SizeMaps, Tiles(B, size),
           NEW a \in B, NEW b \in B, a + size[a] = b,
           NEW sz \in SizeMaps, sz[a] = size[a] + size[b],
           \A c \in B \ {a, b} : sz[c] = size[c]
    PROVE  Tiles(B \ {b}, sz)
  <1>1. \A c \in B : /\ c \in Nat /\ size[c] \in Nat \ {0} /\ FirstBlock <= c
                     /\ c + size[c] \in B \cup {pxEnd} /\ c % Alignment = 0
                     /\ \A e \in B : c < e => c + size[c] <= e
    BY BlockFacts DEF Tiles
  <1>2. a < b /\ FirstBlock \in B \ {b} /\ FirstBlock \in Nat
    BY <1>1, HeapBounds DEF Tiles
  <1>3. ASSUME NEW c \in B \ {b}
        PROVE  /\ c % Alignment = 0 /\ sz[c] > 0
               /\ c + sz[c] \in (B \ {b}) \cup {pxEnd}
               /\ \A e \in B \ {b} : c < e => c + sz[c] <= e
    <2>1. CASE c = a
      <3>1. sz[c] = size[a] + size[b] /\ c + sz[c] = b + size[b] /\ b + size[b] # b
        BY <1>1, <2>1
      <3>2. b + size[b] \in (B \ {b}) \cup {pxEnd}
        BY <1>1, <3>1
      <3>3. \A e \in B \ {b} : c < e => b < e
        BY <1>1, <2>1
      <3>4. \A e \in B \ {b} : c < e => b + size[b] <= e
        BY <1>1, <3>3
      <3> QED BY <1>1, <2>1, <3>1, <3>2, <3>4
    <2>2. CASE c # a
      <3>1. sz[c] = size[c]
        BY <2>2
      <3>2. c + size[c] # b
        <4>1. CASE c < a
          BY <1>1, <1>2, <4>1
        <4>2. CASE a < c
          BY <1>1, <1>2, <4>2
        <4> QED BY <1>1, <2>2, <4>1, <4>2
      <3> QED BY <1>1, <3>1, <3>2
    <2> QED BY <2>1, <2>2
  <1> QED BY <1>2, <1>3 DEF Tiles

\* A block is cut in two.
LEMMA CutTiles ==
    ASSUME NEW B \in SUBSET Addresses, NEW size \in SizeMaps, Tiles(B, size),
           NEW a \in B, NEW n \in Nat, 0 < n, n < size[a], n % Alignment = 0,
           NEW sz \in SizeMaps, sz[a] = n, sz[a + n] = size[a] - n,
           \A c \in B \ {a} : sz[c] = size[c]
    PROVE  a + n \in Addresses /\ a + n \notin B /\ Tiles(B \cup {a + n}, sz)
  <1>1. \A c \in B : /\ c \in Nat /\ size[c] \in Nat \ {0} /\ FirstBlock <= c /\ c < pxEnd
                     /\ c + size[c] \in B \cup {pxEnd} /\ c % Alignment = 0 /\ c + size[c] <= pxEnd
                     /\ \A e \in B : c < e => c + size[c] <= e
    BY BlockFacts DEF Tiles
  <1> DEFINE m == a + n
  <1>2. m \in Nat /\ a < m /\ m < a + size[a] /\ FirstBlock <= m /\ m < pxEnd
    BY <1>1, HeapBounds
  <1>3. m \in Addresses
    BY <1>2, HeapBounds
  <1>4. m \notin B
    BY <1>1, <1>2
  <1>5. m % Alignment = 0
    BY <1>1, AlignedSums
  <1>6. m + sz[m] = a + size[a] /\ sz[m] > 0
    BY <1>1
  <1>7. FirstBlock \in B
    BY DEF Tiles
  <1> HIDE DEF m
  <1>8. ASSUME NEW c \in B \cup {m}
        PROVE  /\ c % Alignment = 0 /\ sz[c] > 0
               /\ c + sz[c] \in (B \cup {m}) \cup {pxEnd}
               /\ \A e \in B \cup {m} : c < e => c + sz[c] <= e
    <2>1. CASE c = m
      BY <1>1, <1>2, <1>5, <1>6, <2>1
    <2>2. CASE c = a
      <3>1. c + sz[c] = m
        BY <2>2 DEF m
      <3>2. \A e \in B \cup {m} : c < e => m <= e
        BY <1>1, <1>2, <2>2
      <3> QED BY <1>1, <2>2, <3>1, <3>2
    <2>3. CASE c # m /\ c # a
      <3>1. sz[c] = size[c] /\ c \in B
        BY <2>3
      <3>2. c < m => c + size[c] <= m
        <4>1. c < m => c < a
          BY <1>1, <1>2, <2>3, <3>1
        <4> QED BY <1>1, <1>2, <3>1, <4>1
      <3> QED BY <1>1, <3>1, <3>2
    <2> QED BY <2>1, <2>2, <2>3
  <1>9. Tiles(B \cup {m}, sz)
    BY <1>7, <1>8 DEF Tiles
  <1> QED BY <1>3, <1>4, <1>9 DEF m

-----------------------------------------------------------------------------
(***************************************************************************)
(* The sum of the sizes in a list                                          *)
(***************************************************************************)

FreeBytes(list, size) == FoldLeft(LAMBDA n, b : n + size[b], 0, list)

\* p has the sum of the first k sizes for every k.
Sums(p, list, size) ==
    /\ p \in [0 .. Len(list) -> Nat]
    /\ p[0] = 0
    /\ \A k \in 1 .. Len(list) : p[k] = p[k - 1] + size[list[k]]

LEMMA SumsExist ==
    ASSUME NEW l \in Seq(Addresses), NEW size \in SizeMaps
    PROVE  \E p : Sums(p, l, size) /\ FreeBytes(l, size) = p[Len(l)]
  <1> DEFINE n == Len(l)
             step == [x \in Nat \X (1 .. n) |-> x[1] + size[l[x[2]]]]
  <1>1. n \in Nat /\ DOMAIN l = 1 .. n /\ \A i \in 1 .. n : l[i] \in Addresses
    BY ToSetSeq, ElementOfSeq
  <1>2. \A i \in 1 .. n : size[l[i]] \in Nat
    BY <1>1 DEF SizeMaps
  <1>3. IsStep(step, n, Nat)
    <2>1. \A x \in Nat \X (1 .. n) : x[1] \in Nat /\ x[2] \in 1 .. n
      OBVIOUS
    <2> HIDE DEF n
    <2>2. \A x \in Nat \X (1 .. n) : x[1] + size[l[x[2]]] \in Nat
      BY <1>2, <2>1
    <2> QED BY <2>2 DEF IsStep
  <1> HIDE DEF n
  <1>4. PICK f : IsFold(f, n, Nat, 0, step)
    <2> HIDE DEF step
    <2>1. 0 \in Nat
      OBVIOUS
    <2> QED BY <1>1, <1>3, <2>1, FoldExists
  <1>5. f \in [SUBSET (1 .. n) -> Nat]
    BY <1>4 DEF IsFold
  <1>6. f = [S \in SUBSET DOMAIN l |->
               IF S = {} THEN 0 ELSE f[S \ {Max(S)}] + size[l[Max(S)]]]
    <2>1. ASSUME NEW S \in SUBSET (1 .. n), S # {}
          PROVE  step[<<f[S \ {Max(S)}], Max(S)>>] = f[S \ {Max(S)}] + size[l[Max(S)]]
      <3>1. Max(S) \in 1 .. n
        BY <1>1, <2>1, LastPlace
      <3>2. f[S \ {Max(S)}] \in Nat
        BY <1>5
      <3> QED BY <3>1, <3>2
    <2>2. f = [S \in SUBSET (1 .. n) |->
                  IF S = {} THEN 0 ELSE step[<<f[S \ {Max(S)}], Max(S)>>]]
      BY <1>4 DEF IsFold
    <2> HIDE DEF step
    <2> QED BY <1>1, <2>1, <2>2
  <1> DEFINE Solves(g) == g = [S \in SUBSET DOMAIN l |->
                 IF S = {} THEN 0 ELSE g[S \ {Max(S)}] + size[l[Max(S)]]]
             g == CHOOSE iter : Solves(iter)
             p == [k \in 0 .. n |-> g[1 .. k]]
  <1>7. FreeBytes(l, size) = g[DOMAIN l]
    BY DEF FreeBytes, FoldLeft, MapThenFoldSet
  <1>8. Solves(g)
    <2>1. Solves(f)
      BY <1>6
    <2> HIDE DEF Solves
    <2> QED BY <2>1
  <1> HIDE DEF g, step
  <1>9. \A k \in 0 .. n : p[k] = g[1 .. k]
    OBVIOUS
  <1>10. p[0] = 0
    <2>1. 1 .. 0 = {} /\ 0 \in 0 .. n
      BY <1>1
    <2>2. g[{}] = 0
      BY <1>8
    <2> QED BY <1>9, <2>1, <2>2
  <1>11. ASSUME NEW k \in Nat, k + 1 \in 0 .. n PROVE p[k + 1] = p[k] + size[l[k + 1]]
    <2>1. k \in 0 .. n /\ 1 .. k + 1 \in SUBSET DOMAIN l
      BY <1>1, <1>11
    <2>2. Max(1 .. k + 1) = k + 1 /\ (1 .. k + 1) \ {k + 1} = 1 .. k /\ 1 .. k + 1 # {}
      BY FirstPlaces
    <2>3. g[1 .. k + 1] = g[1 .. k] + size[l[k + 1]]
      BY <1>8, <2>1, <2>2
    <2> QED BY <1>9, <1>11, <2>1, <2>3
  <1>12. \A k \in 0 .. n : p[k] \in Nat
    <2> DEFINE P == [k \in Nat |-> k \in 0 .. n => p[k] \in Nat]
    <2> HIDE DEF p
    <2>4. \A k \in Nat : P[k] <=> (k \in 0 .. n => p[k] \in Nat)
      OBVIOUS
    <2> HIDE DEF P
    <2>1. P[0]
      BY <1>10, <2>4
    <2>2. ASSUME NEW k \in Nat, P[k] PROVE P[k + 1]
      <3>1. SUFFICES ASSUME k + 1 \in 0 .. n PROVE p[k + 1] \in Nat
        <4>1. k + 1 \in Nat
          OBVIOUS
        <4> QED BY <2>4, <4>1
      <3>2. k \in 0 .. n /\ k + 1 \in 1 .. n
        BY <1>1, <3>1
      <3>3. p[k] \in Nat
        BY <2>2, <2>4, <3>2
      <3>4. p[k + 1] = p[k] + size[l[k + 1]] /\ size[l[k + 1]] \in Nat
        BY <1>2, <1>11, <3>1, <3>2
      <3> QED BY <3>3, <3>4
    <2>3. \A k \in Nat : P[k]
      BY <2>1, <2>2, Induction
    <2> QED BY <1>1, <2>3, <2>4
  <1>13. Sums(p, l, size)
    <2>1. \A k \in 1 .. n : p[k] = p[k - 1] + size[l[k]]
      <3> TAKE k \in 1 .. n
      <3> DEFINE j == k - 1
      <3>1. j \in Nat /\ j + 1 = k /\ j + 1 \in 0 .. n
        BY <1>1
      <3> HIDE DEF j, p
      <3>2. p[j + 1] = p[j] + size[l[j + 1]]
        BY <1>11, <3>1
      <3> QED BY <3>1, <3>2 DEF j
    <2>2. p \in [0 .. n -> Nat]
      BY <1>12
    <2> HIDE DEF p
    <2> QED BY <1>10, <2>1, <2>2 DEF Sums, n
  <1>14. FreeBytes(l, size) = p[n]
    BY <1>1, <1>7, <1>9
  <1> QED BY <1>13, <1>14 DEF n

\* So any such sums will do.
LEMMA SumIs ==
    ASSUME NEW l \in Seq(Addresses), NEW size \in SizeMaps, NEW p, Sums(p, l, size)
    PROVE  FreeBytes(l, size) = p[Len(l)] /\ FreeBytes(l, size) \in Nat
  <1>1. PICK q : Sums(q, l, size) /\ FreeBytes(l, size) = q[Len(l)]
    BY SumsExist
  <1> DEFINE n == Len(l)
             P == [k \in Nat |-> k \in 0 .. n => p[k] = q[k]]
  <1>2. n \in Nat
    BY ToSetSeq
  <1> HIDE DEF n
  <1>7. \A k \in Nat : P[k] <=> (k \in 0 .. n => p[k] = q[k])
    OBVIOUS
  <1> HIDE DEF P
  <1>3. P[0]
    BY <1>1, <1>7 DEF Sums, n
  <1>4. ASSUME NEW k \in Nat, P[k] PROVE P[k + 1]
    <2>1. SUFFICES ASSUME k + 1 \in 0 .. n PROVE p[k + 1] = q[k + 1]
      <3>1. k + 1 \in Nat
        OBVIOUS
      <3> QED BY <1>7, <3>1
    <2>2. k \in 0 .. n /\ k + 1 \in 1 .. n /\ (k + 1) - 1 = k
      BY <1>2, <2>1
    <2>3. p[k] = q[k]
      BY <1>4, <1>7, <2>2
    <2>4. p[k + 1] = p[k] + size[l[k + 1]] /\ q[k + 1] = q[k] + size[l[k + 1]]
      BY <1>1, <2>2 DEF Sums, n
    <2> QED BY <2>3, <2>4
  <1>5. \A k \in Nat : P[k]
    BY <1>3, <1>4, Induction
  <1>6. p[n] = q[n] /\ p[n] \in Nat
    BY <1>2, <1>5, <1>7 DEF Sums, n
  <1> QED BY <1>1, <1>6 DEF n

\* The blocks of l from place c on, two, one or none of them as d is -1, 0 or 1, have
\* been replaced by one that is larger by x.
Replaced(l, size, r, sz, d, c, x) ==
    /\ Len(r) = Len(l) + d /\ c <= Len(r)
    /\ \A k \in 1 .. c - 1 : r[k] = l[k] /\ sz[r[k]] = size[l[k]]
    /\ \A k \in c + 1 .. Len(r) : r[k] = l[k - d] /\ sz[r[k]] = size[l[k - d]]
    /\ sz[r[c]] = x + (IF d < 1 THEN size[l[c]] ELSE 0) + (IF d < 0 THEN size[l[c + 1]] ELSE 0)

LEMMA SumOfReplaced ==
    ASSUME NEW l \in Seq(Addresses), NEW size \in SizeMaps,
           NEW r \in Seq(Addresses), NEW sz \in SizeMaps,
           NEW d \in {-1, 0, 1}, NEW c \in Nat \ {0}, NEW x \in Nat,
           Replaced(l, size, r, sz, d, c, x)
    PROVE  FreeBytes(r, sz) = FreeBytes(l, size) + x
  <1>15. /\ Len(r) = Len(l) + d /\ c <= Len(r)
         /\ \A k \in 1 .. c - 1 : r[k] = l[k] /\ sz[r[k]] = size[l[k]]
         /\ \A k \in c + 1 .. Len(r) : r[k] = l[k - d] /\ sz[r[k]] = size[l[k - d]]
         /\ sz[r[c]] = x + (IF d < 1 THEN size[l[c]] ELSE 0) + (IF d < 0 THEN size[l[c + 1]] ELSE 0)
    BY DEF Replaced
  <1>1. PICK p : Sums(p, l, size) /\ FreeBytes(l, size) = p[Len(l)]
    BY SumsExist
  <1> DEFINE n == Len(l)
             m == Len(r)
             q == [k \in 0 .. m |-> IF k < c THEN p[k] ELSE p[k - d] + x]
  <1>2. n \in Nat /\ m \in Nat /\ m = n + d /\ c <= m
    BY <1>15, ToSetSeq
  <1>3. p[0] = 0 /\ \A k \in 0 .. n : p[k] \in Nat
    BY <1>1 DEF Sums
  <1>4. \A k \in 1 .. n : p[k] = p[k - 1] + size[l[k]]
    BY <1>1 DEF Sums
  <1> HIDE DEF n, m
  <1>11. \A k \in 0 .. m : q[k] = IF k < c THEN p[k] ELSE p[k - d] + x
    OBVIOUS
  <1>12. q = [k \in 0 .. m |-> q[k]]
    OBVIOUS
  <1> HIDE DEF q
  <1>5. \A k \in 0 .. m : q[k] \in Nat
    <2> TAKE k \in 0 .. m
    <2>1. CASE k < c
      <3>1. k \in 0 .. n
        BY <1>2, <2>1
      <3> QED BY <1>3, <1>11, <2>1, <3>1
    <2>2. CASE ~(k < c)
      <3>1. k - d \in 0 .. n
        BY <1>2, <2>2
      <3> QED BY <1>3, <1>11, <2>2, <3>1
    <2> QED BY <2>1, <2>2
  <1>6. q[0] = 0
    <2>1. 0 \in 0 .. m /\ 0 < c
      BY <1>2
    <2> QED BY <1>3, <1>11, <2>1
  <1>7. ASSUME NEW k \in 1 .. m PROVE q[k] = q[k - 1] + sz[r[k]]
    <2>1. CASE k < c
      <3>1. k \in 1 .. c - 1 /\ k \in 1 .. n /\ q[k] = p[k] /\ q[k - 1] = p[k - 1]
        BY <1>2, <1>11, <2>1
      <3> QED BY <1>4, <1>15, <3>1
    <2>2. CASE k > c
      <3>1. k \in c + 1 .. m /\ k - d \in 1 .. n /\ q[k] = p[k - d] + x /\ q[k - 1] = p[(k - d) - 1] + x
        <4>1. k \in c + 1 .. m /\ k - d \in 1 .. n /\ k \in 0 .. m /\ k - 1 \in 0 .. m
              /\ ~(k < c) /\ ~(k - 1 < c) /\ (k - 1) - d = (k - d) - 1
          BY <1>2, <2>2
        <4> QED BY <1>11, <4>1
      <3>2. sz[r[k]] = size[l[k - d]]
        BY <1>15, <3>1 DEF m
      <3>3. p[k - d] = p[(k - d) - 1] + size[l[k - d]]
        BY <1>4, <3>1
      <3>4. (k - d) - 1 \in 0 .. n /\ k - d \in 0 .. n
        BY <1>2, <3>1
      <3>5. p[(k - d) - 1] \in Nat /\ p[k - d] \in Nat
        BY <1>3, <3>4
      <3>6. size[l[k - d]] \in Nat
        <4>1. l[k - d] \in Addresses
          BY <3>1, ElementOfSeq DEF n
        <4> QED BY <4>1 DEF SizeMaps
      <3>7. q[k] = p[k - d] + x /\ q[k - 1] = p[(k - d) - 1] + x
        BY <3>1
      <3> HIDE DEF q
      <3> QED BY <3>2, <3>3, <3>5, <3>6, <3>7
    <2>3. CASE k = c
      <3>1. /\ q[k] = p[c - d] + x /\ q[k - 1] = p[c - 1] /\ c - 1 \in 0 .. n
            /\ p[c - 1] \in Nat /\ r[k] = r[c]
        BY <1>2, <1>3, <1>11, <2>3
      <3>2. CASE d = 1
        BY <1>15, <2>3, <3>1, <3>2
      <3>3. CASE d = 0
        <4>1. c \in 1 .. n
          BY <1>2, <3>3
        <4>2. size[l[c]] \in Nat
          BY <4>1, ElementOfSeq DEF n, SizeMaps
        <4> QED BY <1>4, <1>15, <2>3, <3>1, <3>3, <4>1, <4>2
      <3>4. CASE d = -1
        <4>1. c \in 1 .. n /\ c + 1 \in 1 .. n /\ (c + 1) - 1 = c /\ c - d = c + 1
          BY <1>2, <3>4
        <4>2. size[l[c]] \in Nat /\ size[l[c + 1]] \in Nat
          BY <4>1, ElementOfSeq DEF n, SizeMaps
        <4>3. p[c] = p[c - 1] + size[l[c]] /\ p[c + 1] = p[c] + size[l[c + 1]]
          BY <1>4, <4>1
        <4>4. sz[r[c]] = x + size[l[c]] + size[l[c + 1]]
          BY <1>15, <3>4, <4>2
        <4>5. q[k] = p[c + 1] + x
          BY <3>1, <4>1
        <4>6. sz[r[k]] = sz[r[c]] /\ q[k - 1] = p[c - 1] /\ p[c - 1] \in Nat
          BY <3>1
        <4> DEFINE a1 == size[l[c]]
                   a2 == size[l[c + 1]]
                   b0 == p[c - 1]
                   s == sz[r[c]]
        <4>7. a1 \in Nat /\ a2 \in Nat /\ b0 \in Nat /\ s = x + a1 + a2
          BY <4>2, <4>4, <4>6
        <4>8. q[k] = (b0 + a1) + a2 + x
          BY <4>3, <4>5
        <4>9. sz[r[k]] = s /\ q[k - 1] = b0
          BY <4>6
        <4> HIDE DEF a1, a2, b0, s
        <4> QED BY <4>7, <4>8, <4>9
      <3> QED BY <3>2, <3>3, <3>4
    <2> QED BY <1>2, <2>1, <2>2, <2>3
  <1>8. Sums(q, r, sz)
    <2>1. q \in [0 .. m -> Nat]
      BY <1>5, <1>12
    <2> QED BY <1>6, <1>7, <2>1 DEF Sums, m
  <1>9. q[m] = p[n] + x
    BY <1>2, <1>11
  <1>10. FreeBytes(r, sz) = q[m]
    BY <1>8, SumIs DEF m
  <1> QED BY <1>1, <1>9, <1>10 DEF n

\* A list from which the block at place c has been taken.
LEMMA SumOfRemoved ==
    ASSUME NEW l \in Seq(Addresses), NEW size \in SizeMaps, NEW c \in 1 .. Len(l),
           NEW r \in Seq(Addresses), Len(r) = Len(l) - 1,
           \A k \in 1 .. Len(r) : r[k] = IF k < c THEN l[k] ELSE l[k + 1]
    PROVE  FreeBytes(r, size) = FreeBytes(l, size) - size[l[c]]
  <1>1. PICK p : Sums(p, l, size) /\ FreeBytes(l, size) = p[Len(l)]
    BY SumsExist
  <1> DEFINE n == Len(l)
             m == Len(r)
             y == size[l[c]]
             q == [k \in 0 .. m |-> IF k < c THEN p[k] ELSE p[k + 1] - y]
  <1>2. n \in Nat /\ m \in Nat /\ m = n - 1 /\ c \in 1 .. n /\ l[c] \in Addresses /\ y \in Nat
    BY ToSetSeq, ElementOfSeq DEF SizeMaps
  <1>3. p[0] = 0 /\ \A k \in 0 .. n : p[k] \in Nat
    BY <1>1 DEF Sums
  <1>4. \A k \in 1 .. n : p[k] = p[k - 1] + size[l[k]]
    BY <1>1 DEF Sums
  <1>5. \A k \in 1 .. n : l[k] \in Addresses /\ size[l[k]] \in Nat
    BY ElementOfSeq DEF SizeMaps
  <1> HIDE DEF n, m, y
  <1>6. p[c] = p[c - 1] + y /\ p[c - 1] \in Nat
    BY <1>2, <1>3, <1>4 DEF y
  <1>13. \A k \in 0 .. m : q[k] = IF k < c THEN p[k] ELSE p[k + 1] - y
    OBVIOUS
  <1>14. q = [k \in 0 .. m |-> q[k]]
    OBVIOUS
  <1> HIDE DEF q
  <1>7. q[0] = 0
    BY <1>2, <1>3, <1>13
  <1>8. ASSUME NEW k \in 1 .. m PROVE q[k] = q[k - 1] + size[r[k]]
    <2>1. k \in 1 .. n /\ k + 1 \in 1 .. n /\ (k + 1) - 1 = k /\ k \in 0 .. n /\ k - 1 \in 0 .. n
      BY <1>2
    <2>2. p[k] = p[k - 1] + size[l[k]] /\ p[k + 1] = p[k] + size[l[k + 1]]
      BY <1>4, <2>1
    <2>3. p[k] \in Nat /\ p[k - 1] \in Nat /\ size[l[k]] \in Nat /\ size[l[k + 1]] \in Nat
      BY <1>3, <1>5, <2>1
    <2>4. r[k] = IF k < c THEN l[k] ELSE l[k + 1]
      BY DEF m
    <2>5. CASE k < c
      <3>1. q[k] = p[k] /\ q[k - 1] = p[k - 1] /\ r[k] = l[k]
        BY <1>2, <1>13, <2>1, <2>4, <2>5
      <3> QED BY <2>2, <3>1
    <2>6. CASE k > c
      <3>1. /\ k \in 0 .. m /\ ~(k < c) /\ k - 1 \in 0 .. m /\ ~(k - 1 < c)
            /\ (k - 1) + 1 = k
        BY <1>2, <2>1, <2>6
      <3>2. q[k] = p[k + 1] - y /\ q[k - 1] = p[k] - y /\ r[k] = l[k + 1]
        BY <1>13, <2>4, <3>1
      <3> QED BY <1>2, <2>2, <2>3, <3>2
    <2>7. CASE k = c
      <3>1. q[k] = p[k + 1] - y /\ q[k - 1] = p[k - 1] /\ r[k] = l[k + 1] /\ p[k] = p[k - 1] + y
        BY <1>2, <1>6, <1>13, <2>1, <2>4, <2>7
      <3> QED BY <1>2, <2>2, <2>3, <3>1
    <2> QED BY <1>2, <2>5, <2>6, <2>7
  <1>9. \A k \in 0 .. m : q[k] \in Nat
    <2> DEFINE P == [k \in Nat |-> k \in 0 .. m => q[k] \in Nat]
    <2>5. \A k \in Nat : P[k] <=> (k \in 0 .. m => q[k] \in Nat)
      OBVIOUS
    <2> HIDE DEF P
    <2>1. P[0]
      BY <1>7, <2>5
    <2>2. ASSUME NEW k \in Nat, P[k] PROVE P[k + 1]
      <3>1. SUFFICES ASSUME k + 1 \in 0 .. m PROVE q[k + 1] \in Nat
        <4>1. k + 1 \in Nat
          OBVIOUS
        <4> QED BY <2>5, <4>1
      <3>2. k \in 0 .. m /\ k + 1 \in 1 .. m /\ (k + 1) - 1 = k
        BY <1>2, <3>1
      <3>3. size[r[k + 1]] \in Nat
        BY <3>2, ElementOfSeq DEF m, SizeMaps
      <3>4. q[k + 1] = q[k] + size[r[k + 1]] /\ q[k] \in Nat
        BY <1>8, <2>2, <2>5, <3>2
      <3> QED BY <3>3, <3>4
    <2>3. \A k \in Nat : P[k]
      BY <2>1, <2>2, Induction
    <2>4. \A k \in Nat : k \in 0 .. m => q[k] \in Nat
      BY <2>3, <2>5
    <2> QED BY <1>2, <2>4
  <1>10. q[m] = p[n] - y
    <2>1. m \in 0 .. m /\ m + 1 = n
      BY <1>2
    <2>2. CASE m < c
      <3>1. c = n /\ c - 1 = m
        BY <1>2, <2>1, <2>2
      <3> QED BY <1>2, <1>6, <1>13, <2>1, <2>2, <3>1
    <2>3. CASE ~(m < c)
      BY <1>13, <2>1, <2>3
    <2> QED BY <2>2, <2>3
  <1>11. Sums(q, r, size)
    <2>1. q \in [0 .. m -> Nat]
      BY <1>9, <1>14
    <2> QED BY <1>7, <1>8, <2>1 DEF Sums, m
  <1>12. FreeBytes(r, size) = q[m]
    BY <1>11, SumIs DEF m
  <1> QED BY <1>1, <1>10, <1>12 DEF n, y

\* Sizes that are the same on the whole list.
LEMMA SumOfSame ==
    ASSUME NEW l \in Seq(Addresses), NEW size \in SizeMaps, NEW sz \in SizeMaps,
           \A k \in 1 .. Len(l) : sz[l[k]] = size[l[k]]
    PROVE  FreeBytes(l, sz) = FreeBytes(l, size)
  <1>1. PICK p : Sums(p, l, size) /\ FreeBytes(l, size) = p[Len(l)]
    BY SumsExist
  <1>2. Sums(p, l, sz)
    BY <1>1 DEF Sums
  <1> QED BY <1>1, <1>2, SumIs

-----------------------------------------------------------------------------
(***************************************************************************)
(* Places in the free list                                                 *)
(***************************************************************************)

\* A set of places has a first one.
LEMMA FirstPlace ==
    ASSUME NEW n \in Nat, NEW S \in SUBSET (1 .. n), S # {}
    PROVE  Min(S) \in S /\ \A y \in S : Min(S) <= y
  <1> DEFINE R == OpToRel(<, Nat)
  <1>1. S \subseteq Nat
    OBVIOUS
  <1>2. PICK x \in S : \A y \in S : <<y, x>> \notin R
    <2> HIDE DEF R
    <2>1. IsWellFoundedOn(R, Nat)
      BY NatLessThanWellFounded DEF R
    <2> QED BY <1>1, <2>1, WFMin
  <1>3. \A y \in S : ~(y < x)
    BY <1>1, <1>2 DEF OpToRel
  <1>4. \A y \in S : x <= y
    BY <1>1, <1>3
  <1> QED BY <1>4 DEF Min

Rising(l) == \A i, j \in 1 .. Len(l) : i < j => l[i] < l[j]

\* How many blocks of the list lie before an address that is not in it.
Before(l, block) == SelectInSeq(l \o <<pxEnd>>, LAMBDA a : a >= block) - 1

LEMMA BeforeIs ==
    ASSUME NEW l \in Seq(Addresses), Rising(l), NEW block \in Addresses, block \notin ToSet(l)
    PROVE  /\ Before(l, block) \in 0 .. Len(l)
           /\ \A i \in 1 .. Before(l, block) : l[i] < block
           /\ \A i \in Before(l, block) + 1 .. Len(l) : block < l[i]
  <1> DEFINE n == Len(l)
             e == l \o <<pxEnd>>
             I == {i \in 1 .. Len(e) : e[i] >= block}
             m == Min(I)
  <1>1. n \in Nat /\ \A i \in 1 .. n : l[i] \in Nat /\ l[i] # block
    BY ToSetSeq, ElementOfSeq, HeapBounds
  <1>2. block \in Nat /\ block < pxEnd /\ pxEnd \in Nat
    BY HeapBounds
  <1>3. Len(e) = n + 1 /\ \A i \in 1 .. n + 1 : e[i] = IF i <= n THEN l[i] ELSE pxEnd
    <2>1. l \in Seq(Nat)
      <3>1. l \in [1 .. n -> Nat]
        <4>1. l \in [1 .. n -> Addresses]
          BY LenProperties
        <4> QED BY <4>1, HeapBounds
      <3> QED BY <1>1, <3>1, SeqDef
    <2>2. <<pxEnd>> \in Seq(Nat) /\ Len(<<pxEnd>>) = 1 /\ <<pxEnd>>[1] = pxEnd
      BY <1>2
    <2> QED BY <1>1, <2>1, <2>2, ConcatProperties
  <1> HIDE DEF n, e
  <1>4. n + 1 \in I /\ I \subseteq 1 .. n + 1
    BY <1>1, <1>2, <1>3
  <1>5. Before(l, block) = m - 1
    <2>1. I # {}
      BY <1>4
    <2> QED BY <2>1 DEF Before, SelectInSeq, e
  <1>6. m \in I /\ \A i \in I : m <= i
    <2>1. n + 1 \in Nat /\ I # {} /\ I \in SUBSET (1 .. n + 1)
      BY <1>1, <1>4
    <2> HIDE DEF I
    <2> QED BY <2>1, FirstPlace
  <1> HIDE DEF m
  <1>7. m \in 1 .. n + 1
    BY <1>4, <1>6
  <1>8. ASSUME NEW i \in 1 .. m - 1 PROVE l[i] < block
    <2>1. i \in 1 .. n /\ i <= n /\ i \in 1 .. n + 1 /\ ~(m <= i)
      BY <1>1, <1>7
    <2>2. e[i] = l[i] /\ i \notin I
      BY <1>3, <1>6, <2>1
    <2>3. ~(l[i] >= block)
      BY <1>3, <2>1, <2>2
    <2> QED BY <1>1, <1>2, <2>1, <2>3
  <1>9. ASSUME NEW i \in m .. n PROVE block < l[i]
    <2>1. m \in 1 .. n /\ i \in 1 .. n
      BY <1>1, <1>7
    <2>2. l[m] >= block /\ l[m] # block
      BY <1>1, <1>3, <1>6, <1>7, <2>1
    <2>3. l[m] <= l[i]
      BY <1>1, <2>1 DEF Rising, n
    <2> QED BY <1>1, <1>2, <2>1, <2>2, <2>3
  <1>10. m - 1 \in 0 .. n /\ (m - 1) + 1 = m
    BY <1>1, <1>7
  <1> QED BY <1>5, <1>8, <1>9, <1>10 DEF n

\* The blocks from place b + 1 up to k - 1 are replaced by those of mid.
Spliced(l, b, mid, k) == SubSeq(l, 1, b) \o mid \o SubSeq(l, k, Len(l))

IsSpliced(r, l, b, mid, k) ==
    /\ Len(r) = b + Len(mid) + (Len(l) - k + 1)
    /\ \A i \in 1 .. b + Len(mid) + (Len(l) - k + 1) :
         r[i] = IF i <= b THEN l[i]
                ELSE IF i <= b + Len(mid) THEN mid[i - b] ELSE l[i - b - Len(mid) + k - 1]

LEMMA SpliceIndices ==
    ASSUME NEW S, NEW l \in Seq(S), NEW b \in 0 .. Len(l), NEW mid \in Seq(S),
           NEW k \in b + 1 .. Len(l) + 1
    PROVE  /\ Spliced(l, b, mid, k) \in Seq(S)
           /\ IsSpliced(Spliced(l, b, mid, k), l, b, mid, k)
  <1> DEFINE n == Len(l)
             j == Len(mid)
             u == SubSeq(l, 1, b)
             w == SubSeq(l, k, n)
             v == u \o mid
  <1>1. n \in Nat /\ j \in Nat
    BY LenProperties
  <1>2. /\ u \in Seq(S) /\ Len(u) = b
        /\ \A i \in 1 .. b : u[i] = l[i]
    <2>1. \A i \in 1 .. b : l[i] \in S
      BY ElementOfSeq, LenProperties
    <2>2. b \in Int /\ 1 \in Int
      BY LenProperties
    <2> QED BY <2>1, <2>2, SubSeqProperties, LenProperties
  <1>3. /\ w \in Seq(S) /\ Len(w) = n - k + 1
        /\ \A i \in 1 .. n - k + 1 : w[i] = l[k + i - 1]
    <2>1. \A i \in k .. n : l[i] \in S
      BY ElementOfSeq, LenProperties
    <2>2. k \in Int /\ n \in Int
      BY LenProperties
    <2> QED BY <2>1, <2>2, SubSeqProperties, LenProperties
  <1>4. /\ v \in Seq(S) /\ Len(v) = b + j
        /\ \A i \in 1 .. b + j : v[i] = IF i <= b THEN l[i] ELSE mid[i - b]
    <2> HIDE DEF u
    <2>1. /\ v \in Seq(S) /\ Len(v) = Len(u) + Len(mid)
          /\ \A i \in 1 .. Len(u) + Len(mid) : v[i] = IF i <= Len(u) THEN u[i] ELSE mid[i - Len(u)]
      BY <1>2, ConcatProperties
    <2> QED BY <1>1, <1>2, <2>1
  <1> HIDE DEF u, w, v, n, j
  <1>5. /\ v \o w \in Seq(S) /\ Len(v \o w) = Len(v) + Len(w)
        /\ \A i \in 1 .. Len(v) + Len(w) :
             (v \o w)[i] = IF i <= Len(v) THEN v[i] ELSE w[i - Len(v)]
    BY <1>3, <1>4, ConcatProperties
  <1>6. Spliced(l, b, mid, k) = v \o w
    BY DEF Spliced, u, v, w, n
  <1>7. Len(v) + Len(w) = b + j + (n - k + 1) /\ b \in Nat /\ k \in Nat /\ b < k /\ k <= n + 1
    BY <1>1, <1>3, <1>4 DEF n
  <1>8. ASSUME NEW i \in 1 .. b + j + (n - k + 1)
        PROVE  (v \o w)[i] = IF i <= b THEN l[i] ELSE IF i <= b + j THEN mid[i - b]
                                              ELSE l[i - b - j + k - 1]
    <2>1. CASE i <= b + j
      <3>1. (v \o w)[i] = v[i] /\ i \in 1 .. b + j
        BY <1>1, <1>4, <1>5, <1>7, <2>1
      <3> QED BY <1>1, <1>4, <1>7, <2>1, <3>1
    <2>2. CASE ~(i <= b + j)
      <3>1. (v \o w)[i] = w[i - (b + j)] /\ i - (b + j) \in 1 .. n - k + 1
        BY <1>1, <1>4, <1>5, <1>7, <2>2
      <3>2. w[i - (b + j)] = l[k + (i - (b + j)) - 1] /\ k + (i - (b + j)) - 1 = i - b - j + k - 1
        BY <1>1, <1>3, <1>7, <3>1
      <3>3. ~(i <= b)
        BY <1>1, <1>7, <2>2
      <3> QED BY <2>2, <3>1, <3>2, <3>3
    <2> QED BY <2>1, <2>2
  <1> QED BY <1>5, <1>6, <1>7, <1>8 DEF IsSpliced, n, j

-----------------------------------------------------------------------------
(***************************************************************************)
(* Heaps: the free blocks are in the list l, the others in used.           *)
(***************************************************************************)

\* No block of the list touches the next.
Apart(l, size) == \A i \in 1 .. Len(l) - 1 : l[i] + size[l[i]] < l[i + 1]

IsHeap(l, size, used) ==
    /\ l \in Seq(Addresses) /\ size \in SizeMaps /\ used \in SUBSET Addresses
    /\ ToSet(l) \cap used = {}
    /\ Rising(l) /\ Apart(l, size)
    /\ Tiles(ToSet(l) \cup used, size)

\* A used block comes back to the list.
LEMMA InsertKeepsHeap ==
    ASSUME NEW l, NEW z, NEW used, NEW block \in Addresses, block \notin used,
           IsHeap(l, z, used \cup {block})
    PROVE  LET r == InsertBlock([list |-> l, size |-> z], block)
           IN  /\ IsHeap(r.list, r.size, used)
               /\ FreeBytes(r.list, r.size) = FreeBytes(l, z) + z[block]
               /\ \A b \in used : r.size[b] = z[b]
  <1> DEFINE n == Len(l)
             before == Before(l, block)
             next == IF before = n THEN pxEnd ELSE l[before + 1]
             jp == before > 0 /\ l[before] + z[l[before]] = block
             start == IF jp THEN l[before] ELSE block
             merged == z[block] + IF jp THEN z[start] ELSE 0
             jn == start + merged = next /\ next # pxEnd
             length == merged + IF jn THEN z[next] ELSE 0
             mid == IF jp THEN <<>> ELSE <<block>>
             k == before + (IF jn THEN 2 ELSE 1)
             L == Spliced(l, before, mid, k)
             Z == [a \in Addresses |-> CASE a = start -> length
                                         [] a = block /\ jp -> 0
                                         [] a = next /\ jn -> 0
                                         [] OTHER -> z[a]]
             B == ToSet(l) \cup (used \cup {block})
             D == (IF jp THEN {block} ELSE {}) \cup (IF jn THEN {next} ELSE {})
             c == IF jp THEN before ELSE before + 1
             d == (IF jp THEN 0 ELSE 1) - (IF jn THEN 1 ELSE 0)
  <1>1. InsertBlock([list |-> l, size |-> z], block) = [list |-> L, size |-> Z]
    BY DEF InsertBlock, Before, Spliced
  <1>2. /\ l \in Seq(Addresses) /\ z \in SizeMaps /\ used \in SUBSET Addresses
        /\ ToSet(l) \cap used = {} /\ block \notin ToSet(l)
        /\ Rising(l) /\ Apart(l, z) /\ Tiles(B, z) /\ B \in SUBSET Addresses
    BY ToSetSeq DEF IsHeap
  <1> HIDE DEF L, Z
  <1>3. /\ n \in Nat
        /\ \A x : x \in ToSet(l) <=> \E i \in 1 .. n : l[i] = x
        /\ \A i \in 1 .. n : l[i] \in Addresses /\ l[i] \in Nat /\ l[i] < pxEnd /\ l[i] \in ToSet(l)
        /\ block \in Nat /\ pxEnd \in Nat /\ block < pxEnd
    <2>1. \A i \in 1 .. n : l[i] \in Addresses /\ l[i] \in ToSet(l)
      BY <1>2, ToSetSeq, ElementOfSeq
    <2> QED BY <1>2, <2>1, ToSetSeq, HeapBounds
  <1>4. /\ before \in 0 .. n
        /\ \A i \in 1 .. before : l[i] < block
        /\ \A i \in before + 1 .. n : block < l[i]
    BY <1>2, BeforeIs
  <1>5. \A b \in B : /\ b \in Nat /\ z[b] \in Nat \ {0} /\ FirstBlock <= b /\ b < pxEnd
                     /\ b + z[b] <= pxEnd /\ b + z[b] \in B \cup {pxEnd}
                     /\ \A e \in B : b < e => b + z[b] <= e
    BY <1>2, BlockFacts DEF Tiles
  <1> HIDE DEF n, before, B
  <1>6. block \in B /\ \A i \in 1 .. n : l[i] \in B
    BY <1>3 DEF B
  <1>7. /\ jp => before \in 1 .. n /\ start = l[before] /\ start < block
        /\ ~jp => start = block
        /\ start \in B /\ start \in Nat /\ merged \in Nat /\ start + merged = block + z[block]
    <2>1. CASE jp
      <3>1. before \in 1 .. n /\ start = l[before]
        BY <1>3, <1>4, <2>1
      <3>2. start \in B /\ start \in Nat /\ start < block /\ z[start] \in Nat
        BY <1>4, <1>5, <1>6, <3>1
      <3>3. start + z[start] = block /\ merged = z[block] + z[start]
        BY <2>1, <3>1
      <3>4. z[block] \in Nat /\ block \in Nat
        BY <1>5, <1>6
      <3> QED BY <2>1, <3>1, <3>2, <3>3, <3>4
    <2>2. CASE ~jp
      <3>1. start = block /\ merged = z[block] + 0
        BY <2>2
      <3>2. z[block] \in Nat /\ block \in Nat
        BY <1>5, <1>6
      <3> QED BY <1>6, <2>2, <3>1, <3>2
    <2> QED BY <2>1, <2>2
  <1>8. jn <=> before < n /\ block + z[block] = l[before + 1]
    <2>1. CASE before = n
      BY <1>3, <2>1
    <2>2. CASE before # n
      <3>1. before < n /\ before + 1 \in 1 .. n /\ next = l[before + 1]
        BY <1>3, <1>4, <2>2
      <3>2. next # pxEnd
        BY <1>3, <3>1
      <3> QED BY <1>7, <3>1, <3>2
    <2> QED BY <2>1, <2>2
  <1>9. jn => /\ before + 1 \in 1 .. n /\ next = l[before + 1] /\ next \in B
              /\ next = start + merged /\ next # start /\ next # block /\ block < next
              /\ length = merged + z[next]
    <2>1. SUFFICES ASSUME jn
                   PROVE  /\ before + 1 \in 1 .. n /\ next = l[before + 1] /\ next \in B
                          /\ next = start + merged /\ next # start /\ next # block /\ block < next
                          /\ length = merged + z[next]
      OBVIOUS
    <2>2. before < n /\ before + 1 \in 1 .. n /\ next = l[before + 1]
      BY <1>3, <1>4, <1>8, <2>1
    <2>3. block < next /\ next \in B /\ next \in Nat
      BY <1>3, <1>4, <1>6, <2>2
    <2>4. next # start /\ next # block
      BY <1>3, <1>7, <2>3
    <2> QED BY <2>1, <2>2, <2>3, <2>4
  <1>10. ~jn => length = merged
    BY <1>7
  <1> HIDE DEF start, merged, length
  <1>11. /\ L \in Seq(Addresses) /\ c \in Nat \ {0} /\ d \in {-1, 0, 1}
         /\ Len(L) = n + d /\ c <= Len(L) /\ L[c] = start
         /\ \A i \in 1 .. c - 1 : L[i] = l[i]
         /\ \A i \in c + 1 .. Len(L) : L[i] = l[i - d]
    <2>1. k \in before + 1 .. n + 1 /\ before \in 0 .. n
      <3>1. CASE jn
        BY <1>3, <1>4, <1>9, <3>1
      <3>2. CASE ~jn
        BY <1>3, <1>4, <3>2
      <3> QED BY <3>1, <3>2
    <2>2. mid \in Seq(Addresses) /\ Len(mid) = IF jp THEN 0 ELSE 1
      OBVIOUS
    <2>3. ~jp => mid[1] = block
      OBVIOUS
    <2>4. n - k + 1 = IF jn THEN n - before - 1 ELSE n - before
      BY <1>3, <1>4
    <2> DEFINE j == IF jp THEN 0 ELSE 1
               g == IF jn THEN 1 ELSE 0
    <2>5. j \in {0, 1} /\ g \in {0, 1} /\ d = j - g /\ k = before + 1 + g /\ c = before + j
      BY <1>3, <1>4
    <2>6. /\ L \in Seq(Addresses) /\ Len(L) = before + j + (n - k + 1)
          /\ \A i \in 1 .. before + j + (n - k + 1) :
               L[i] = IF i <= before THEN l[i]
                      ELSE IF i <= before + j THEN mid[i - before] ELSE l[i - before - j + k - 1]
      <3> HIDE DEF mid, k, jp, jn
      <3>1. Len(mid) = j /\ mid \in Seq(Addresses)
        BY <2>2
      <3> HIDE DEF j, g, c, d
      <3>2. k \in before + 1 .. Len(l) + 1 /\ before \in 0 .. Len(l)
        BY <2>1 DEF n
      <3>3. /\ L \in Seq(Addresses) /\ Len(L) = before + Len(mid) + (Len(l) - k + 1)
            /\ \A i \in 1 .. before + Len(mid) + (Len(l) - k + 1) :
                 L[i] = IF i <= before THEN l[i]
                        ELSE IF i <= before + Len(mid) THEN mid[i - before]
                        ELSE l[i - before - Len(mid) + k - 1]
        <4>1. L = Spliced(l, before, mid, k) /\ l \in Seq(Addresses)
          BY <1>2 DEF L
        <4>2. L \in Seq(Addresses) /\ IsSpliced(L, l, before, mid, k)
          <5> HIDE DEF before
          <5> QED BY <3>1, <3>2, <4>1, SpliceIndices
        <4> QED BY <4>2 DEF IsSpliced
      <3> QED BY <3>1, <3>3 DEF n
    <2>7. j = 0 => before \in 1 .. n /\ start = l[before]
      BY <1>7
    <2>8. j = 1 => mid[1] = block /\ start = block
      BY <1>7
    <2>9. before + g <= n
      BY <1>3, <1>4, <1>9
    <2> HIDE DEF mid, k, j, g, c, d, jp, jn
    <2>10. Len(L) = n + d /\ before \in Nat /\ c \in Nat /\ d \in {-1, 0, 1}
      BY <1>3, <2>1, <2>5, <2>6
    <2>11. c # 0 /\ c <= Len(L)
      BY <1>3, <2>1, <2>5, <2>7, <2>9, <2>10
    <2>12. L[c] = start
      <3>1. c \in 1 .. before + j + (n - k + 1)
        BY <1>3, <2>5, <2>6, <2>10, <2>11
      <3>2. CASE j = 0
        BY <2>5, <2>6, <2>7, <2>10, <3>1, <3>2
      <3>3. CASE j = 1
        <4>1. ~(c <= before) /\ c <= before + j /\ c - before = 1
          BY <2>5, <2>10, <3>3
        <4> QED BY <2>6, <2>8, <3>1, <3>3, <4>1
      <3> QED BY <2>5, <3>2, <3>3
    <2>13. ASSUME NEW i \in 1 .. c - 1 PROVE L[i] = l[i]
      <3>1. i \in 1 .. before + j + (n - k + 1) /\ i <= before
        BY <1>3, <2>5, <2>6, <2>10, <2>11
      <3> QED BY <2>6, <3>1
    <2>14. ASSUME NEW i \in c + 1 .. Len(L) PROVE L[i] = l[i - d]
      <3>1. /\ i \in 1 .. before + j + (n - k + 1) /\ ~(i <= before) /\ ~(i <= before + j)
            /\ i - before - j + k - 1 = i - d
        BY <1>3, <2>5, <2>6, <2>10, <2>11
      <3> QED BY <2>6, <3>1
    <2> QED BY <2>6, <2>10, <2>11, <2>12, <2>13, <2>14
  <1>12. /\ Z \in SizeMaps /\ Z[start] = length
         /\ \A a \in Addresses :
              a # start /\ ~(jp /\ a = block) /\ ~(jn /\ a = next) => Z[a] = z[a]
    <2>1. length \in Nat
      BY <1>5, <1>7, <1>9, <1>10
    <2>2. start \in Addresses
      BY <1>2, <1>7 DEF B
    <2>10. ~(jp /\ start = block) /\ ~(jn /\ start = next)
      BY <1>7, <1>9
    <2> HIDE DEF next, jp, jn
    <2>3. \A a \in Addresses : Z[a] = CASE a = start -> length
                                        [] a = block /\ jp -> 0
                                        [] a = next /\ jn -> 0
                                        [] OTHER -> z[a]
      BY DEF Z
    <2>4. Z = [a \in Addresses |-> Z[a]]
      BY DEF Z
    <2>5. Z[start] = length
      BY <2>2, <2>3, <2>10
    <2>6. \A a \in Addresses : z[a] \in Nat
      BY <1>2 DEF SizeMaps
    <2>7. ASSUME NEW a \in Addresses PROVE Z[a] \in Nat
      <3>1. Z[a] = length \/ Z[a] = 0 \/ Z[a] = z[a]
        BY <2>3
      <3> QED BY <2>1, <2>6, <3>1
    <2>8. Z \in SizeMaps
      BY <2>4, <2>7 DEF SizeMaps
    <2>9. ASSUME NEW a \in Addresses, a # start, ~(jp /\ a = block), ~(jn /\ a = next)
          PROVE  Z[a] = z[a]
      BY <2>3, <2>9
    <2> QED BY <2>5, <2>8, <2>9
  <1>13. Tiles(B \ D, Z)
    <2> DEFINE B1 == B \ (IF jp THEN {block} ELSE {})
               z1 == IF jp THEN [a \in Addresses |-> IF a = start THEN merged ELSE z[a]] ELSE z
    <2>1. /\ Tiles(B1, z1) /\ z1 \in SizeMaps /\ z1[start] = merged
          /\ \A a \in B1 \ {start} : z1[a] = z[a]
      <3>1. CASE jp
        <4>1. B1 = B \ {block} /\ z1 = [a \in Addresses |-> IF a = start THEN merged ELSE z[a]]
          BY <3>1
        <4>2. start + z[start] = block /\ start \in B /\ merged = z[start] + z[block] /\ start # block
          <5>1. start = l[before] /\ start + z[start] = block /\ start \in B /\ start # block
            BY <1>3, <1>7, <3>1
          <5>2. z[start] \in Nat /\ z[block] \in Nat
            BY <1>5, <1>6, <5>1
          <5> QED BY <3>1, <5>1, <5>2 DEF merged
        <4> HIDE DEF B1, z1
        <4>3. z1 \in SizeMaps
          BY <1>2, <1>7, <4>1 DEF SizeMaps
        <4>4. \A a \in Addresses : z1[a] = IF a = start THEN merged ELSE z[a]
          BY <4>1
        <4>5. z1[start] = merged /\ \A a \in B \ {start} : z1[a] = z[a]
          BY <1>2, <4>2, <4>4
        <4>6. \A a \in B \ {start, block} : z1[a] = z[a]
          BY <4>5
        <4>7. Tiles(B \ {block}, z1)
          BY <1>2, <1>6, <4>2, <4>3, <4>5, <4>6, MergeTiles
        <4> QED BY <4>1, <4>3, <4>5, <4>7
      <3>2. CASE ~jp
        <4>1. B1 = B /\ z1 = z
          BY <3>2
        <4>2. z[start] = merged
          <5>1. start = block /\ merged = z[block] + 0 /\ z[block] \in Nat
            BY <1>5, <1>6, <1>7, <3>2 DEF merged
          <5> QED BY <5>1
        <4> QED BY <1>2, <4>1, <4>2
      <3> QED BY <3>1, <3>2
    <2>2. start \in B1 /\ B1 \in SUBSET Addresses
      BY <1>2, <1>7
    <2>3. \A a \in B1 : ~(jp /\ a = block)
      OBVIOUS
    <2> HIDE DEF z1
    <2>4. CASE jn
      <3>1. B \ D = B1 \ {next}
        BY <2>4
      <3>2. next \in B1 /\ start + z1[start] = next /\ next # start
        BY <1>7, <1>9, <2>1, <2>4
      <3>3. z1[next] = z[next]
        BY <2>1, <3>2
      <3> HIDE DEF B1, jp, jn, next
      <3>4. Z[start] = z1[start] + z1[next]
        BY <1>9, <1>12, <2>1, <2>4, <3>3
      <3>5. ASSUME NEW a \in B1 \ {start, next} PROVE Z[a] = z1[a]
        <4>1. a \in Addresses /\ a # start /\ a # next /\ ~(jp /\ a = block)
          BY <2>2, <2>3
        <4>2. Z[a] = z[a]
          BY <1>12, <4>1
        <4> QED BY <2>1, <4>2
      <3>6. Tiles(B1 \ {next}, Z)
        BY <1>12, <2>1, <2>2, <3>2, <3>4, <3>5, MergeTiles
      <3> QED BY <3>1, <3>6
    <2>5. CASE ~jn
      <3>1. B \ D = B1
        BY <2>5
      <3> HIDE DEF B1, jp, jn, next
      <3>2. \A a \in B1 : Z[a] = z1[a]
        <4> TAKE a \in B1
        <4>1. CASE a = start
          BY <1>10, <1>12, <2>1, <2>5, <4>1
        <4>2. CASE a # start
          <5>1. a \in Addresses /\ ~(jp /\ a = block)
            BY <2>2, <2>3
          <5>2. Z[a] = z[a]
            BY <1>12, <2>5, <4>2, <5>1
          <5> QED BY <2>1, <4>2, <5>2
        <4> QED BY <4>1, <4>2
      <3>3. Tiles(B1, Z)
        BY <2>1, <3>2 DEF Tiles
      <3> QED BY <3>1, <3>3
    <2> QED BY <2>4, <2>5
  <1>20. Len(L) \in Nat /\ \A x : x \in ToSet(L) <=> \E i \in 1 .. Len(L) : L[i] = x
    BY <1>11, ToSetSeq
  <1>21. \A x \in ToSet(L) : x \in (ToSet(l) \cup {block}) \ D
    <2> TAKE x \in ToSet(L)
    <2>1. PICK i \in 1 .. Len(L) : L[i] = x
      BY <1>20
    <2>2. CASE i = c
      <3>1. x = start
        BY <1>11, <2>1, <2>2
      <3>2. start \in ToSet(l) \cup {block}
        BY <1>3, <1>7
      <3>3. ~(jp /\ start = block) /\ ~(jn /\ start = next)
        BY <1>7, <1>9
      <3> HIDE DEF jp, jn, next
      <3> QED BY <3>1, <3>2, <3>3
    <2>3. CASE i < c
      <3>1. i \in 1 .. c - 1 /\ i \in 1 .. before /\ i \in 1 .. n /\ (jp => before \in Nat /\ i < before)
        BY <1>3, <1>4, <1>11, <1>20, <2>3
      <3>2. x = l[i] /\ x < block /\ x \in ToSet(l)
        BY <1>3, <1>4, <1>11, <2>1, <3>1
      <3>3. x # block /\ ~(jn /\ x = next)
        <4>1. x \in Nat /\ block \in Nat /\ x # block
          BY <1>3, <3>1, <3>2
        <4>2. jn => next \in Nat /\ block < next
          BY <1>5, <1>9
        <4> HIDE DEF next, jn
        <4> QED BY <3>2, <4>1, <4>2
      <3> HIDE DEF jp, jn, next
      <3> QED BY <3>2, <3>3
    <2>4. CASE i > c
      <3>1. i \in c + 1 .. Len(L) /\ i - d \in before + 1 .. n /\ i - d \in 1 .. n
        BY <1>3, <1>4, <1>11, <1>20, <2>4
      <3>2. x = l[i - d] /\ block < x /\ x \in ToSet(l)
        BY <1>3, <1>4, <1>11, <2>1, <3>1
      <3>3. jn => before + 1 < i - d
        BY <1>3, <1>4, <1>11, <1>20, <2>4
      <3>4. jn => next < x
        <4>1. jn => l[before + 1] < l[i - d]
          BY <1>2, <1>3, <1>9, <3>1, <3>3 DEF Rising, n
        <4> QED BY <1>9, <3>2, <4>1
      <3>5. x # block /\ ~(jn /\ x = next)
        BY <1>3, <3>1, <3>2, <3>4
      <3> HIDE DEF jp, jn, next
      <3> QED BY <3>2, <3>5
    <2> QED BY <1>11, <1>20, <2>2, <2>3, <2>4
  <1>22. \A x \in (ToSet(l) \cup {block}) \ D : x \in ToSet(L)
    <2> TAKE x \in (ToSet(l) \cup {block}) \ D
    <2>1. ~(jp /\ x = block) /\ ~(jn /\ x = next)
      OBVIOUS
    <2>2. c \in 1 .. Len(L)
      BY <1>11, <1>20
    <2>3. CASE x = start
      BY <1>11, <1>20, <2>2, <2>3
    <2>4. CASE x # start
      <3>1. x # block /\ x \in ToSet(l)
        BY <1>7, <2>1, <2>4
      <3>2. PICK i \in 1 .. n : l[i] = x
        BY <1>3, <3>1
      <3>3. CASE i <= before
        <4>1. i \in 1 .. c - 1 /\ i \in 1 .. Len(L)
          BY <1>3, <1>4, <1>7, <1>11, <1>20, <2>4, <3>2, <3>3
        <4> QED BY <1>11, <1>20, <3>2, <4>1
      <3>4. CASE i > before
        <4>1. i + d \in c + 1 .. Len(L) /\ i + d \in 1 .. Len(L) /\ (i + d) - d = i
          BY <1>3, <1>4, <1>9, <1>11, <1>20, <2>1, <3>2, <3>4
        <4>2. L[i + d] = x
          BY <1>11, <3>2, <4>1
        <4> QED BY <1>20, <4>1, <4>2
      <3> QED BY <1>3, <1>4, <3>3, <3>4
    <2> QED BY <2>3, <2>4
  <1>14. ToSet(L) \cup used = B \ D /\ ToSet(L) \cap used = {}
    <2>1. \A x \in used : x \notin D
      <3>1. jn => next \in ToSet(l)
        BY <1>3, <1>9
      <3> HIDE DEF next, jp, jn
      <3> QED BY <1>2, <3>1
    <2>2. \A x \in used : x \notin ToSet(l) /\ x # block
      BY <1>2
    <2> HIDE DEF D
    <2> QED BY <1>21, <1>22, <2>1, <2>2 DEF B
  <1>23. /\ \A i \in 1 .. c - 1 : i \in 1 .. n /\ l[i] < start
         /\ \A i \in c + 1 .. Len(L) : i - d \in 1 .. n /\ start < l[i - d]
    <2>1. ASSUME NEW i \in 1 .. c - 1 PROVE i \in 1 .. n /\ l[i] < start
      <3>1. i \in 1 .. n /\ i <= before /\ (jp => i < before /\ before \in 1 .. n)
        BY <1>3, <1>4, <1>11
      <3>2. CASE jp
        BY <1>2, <1>7, <3>1, <3>2 DEF Rising, n
      <3>3. CASE ~jp
        BY <1>4, <1>7, <3>1, <3>3
      <3> QED BY <3>1, <3>2, <3>3
    <2>2. ASSUME NEW i \in c + 1 .. Len(L) PROVE i - d \in 1 .. n /\ start < l[i - d]
      <3>1. i - d \in 1 .. n /\ i - d \in before + 1 .. n
        BY <1>3, <1>4, <1>11, <1>20
      <3>2. block < l[i - d] /\ start <= block
        BY <1>3, <1>4, <1>7, <3>1
      <3> QED BY <1>3, <1>7, <3>1, <3>2
    <2> QED BY <2>1, <2>2
  <1>15. Rising(L)
    <2> SUFFICES ASSUME NEW i \in 1 .. Len(L), NEW j \in 1 .. Len(L), i < j PROVE L[i] < L[j]
      BY DEF Rising
    <2> HIDE DEF c, d
    <2>1. CASE i < c /\ j < c
      <3>1. i \in 1 .. c - 1 /\ j \in 1 .. c - 1
        BY <1>11, <1>20, <2>1
      <3>2. L[i] = l[i] /\ L[j] = l[j] /\ i \in 1 .. n /\ j \in 1 .. n
        BY <1>11, <1>23, <3>1
      <3> QED BY <1>2, <3>2 DEF Rising, n
    <2>2. CASE i < c /\ j = c
      <3>1. i \in 1 .. c - 1
        BY <1>11, <1>20, <2>2
      <3> QED BY <1>11, <1>23, <2>2, <3>1
    <2>3. CASE i < c /\ c < j
      <3>1. i \in 1 .. c - 1 /\ j \in c + 1 .. Len(L)
        BY <1>11, <1>20, <2>3
      <3>2. L[i] = l[i] /\ L[j] = l[j - d] /\ l[i] < start /\ start < l[j - d]
        BY <1>11, <1>23, <3>1
      <3>3. l[i] \in Nat /\ l[j - d] \in Nat
        BY <1>3, <1>23, <3>1
      <3> QED BY <1>7, <3>2, <3>3
    <2>4. CASE i = c
      <3>1. j \in c + 1 .. Len(L)
        BY <1>11, <1>20, <2>4
      <3> QED BY <1>11, <1>23, <2>4, <3>1
    <2>5. CASE c < i
      <3>1. i \in c + 1 .. Len(L) /\ j \in c + 1 .. Len(L) /\ i - d < j - d
        BY <1>11, <1>20, <2>5
      <3>2. L[i] = l[i - d] /\ L[j] = l[j - d] /\ i - d \in 1 .. n /\ j - d \in 1 .. n
        BY <1>11, <1>23, <3>1
      <3> QED BY <1>2, <3>1, <3>2 DEF Rising, n
    <2> QED BY <1>11, <1>20, <2>1, <2>2, <2>3, <2>4, <2>5
  <1>24. /\ \A i \in 1 .. c - 1 : Z[L[i]] = z[l[i]]
         /\ \A i \in c + 1 .. Len(L) : Z[L[i]] = z[l[i - d]]
    <2>1. ASSUME NEW i \in 1 .. Len(L), i # c PROVE Z[L[i]] = z[L[i]]
      <3>1. L[i] \in Addresses /\ L[i] \in ToSet(L)
        BY <1>11, <1>20, ElementOfSeq
      <3>2. ~(jp /\ L[i] = block) /\ ~(jn /\ L[i] = next)
        <4>1. L[i] \notin D
          BY <1>21, <3>1
        <4> QED BY <4>1
      <3>3. L[i] # start
        <4> HIDE DEF c, d
        <4>1. CASE i < c
          <5>1. i \in 1 .. c - 1 /\ c \in 1 .. Len(L)
            BY <1>11, <1>20, <4>1
          <5> QED BY <1>7, <1>11, <1>23, <5>1
        <4>2. CASE c < i
          <5>1. i \in c + 1 .. Len(L)
            BY <1>11, <1>20, <4>2
          <5> QED BY <1>7, <1>11, <1>23, <5>1
        <4> QED BY <1>11, <2>1, <4>1, <4>2
      <3> HIDE DEF jp, jn, next
      <3> QED BY <1>12, <3>1, <3>2, <3>3
    <2> HIDE DEF c, d
    <2>2. ASSUME NEW i \in 1 .. c - 1 PROVE Z[L[i]] = z[l[i]]
      <3>1. i \in 1 .. Len(L) /\ i # c
        BY <1>11, <1>20
      <3> QED BY <1>11, <2>1, <3>1
    <2>3. ASSUME NEW i \in c + 1 .. Len(L) PROVE Z[L[i]] = z[l[i - d]]
      <3>1. i \in 1 .. Len(L) /\ i # c
        BY <1>11, <1>20
      <3> QED BY <1>11, <2>1, <3>1
    <2> QED BY <2>2, <2>3
  <1>25. /\ \A i \in 1 .. c - 1 : l[i] + z[l[i]] <= start /\ l[i] + z[l[i]] \in Nat
         /\ c - 1 \in 1 .. n => l[c - 1] + z[l[c - 1]] < start
    <2>1. ASSUME NEW i \in 1 .. c - 1 PROVE l[i] + z[l[i]] <= start /\ l[i] + z[l[i]] \in Nat
      <3>1. l[i] \in B /\ l[i] < start
        BY <1>6, <1>23
      <3>2. l[i] \in Nat /\ z[l[i]] \in Nat /\ l[i] + z[l[i]] <= start
        BY <1>5, <1>7, <3>1
      <3> QED BY <3>2
    <2>2. ASSUME c - 1 \in 1 .. n PROVE l[c - 1] + z[l[c - 1]] < start
      <3>1. c - 1 \in 1 .. c - 1
        BY <1>11, <2>2
      <3>2. l[c - 1] + z[l[c - 1]] # start
        <4>1. CASE jp
          <5>1. before - 1 \in 1 .. n - 1 /\ before = (before - 1) + 1 /\ start = l[before] /\ c = before
            BY <1>3, <1>4, <1>7, <2>2, <4>1
          <5>2. l[before - 1] + z[l[before - 1]] < l[(before - 1) + 1]
            BY <1>2, <5>1 DEF Apart, n
          <5>3. l[before - 1] + z[l[before - 1]] \in Nat
            BY <2>1, <3>1, <5>1
          <5> QED BY <1>7, <5>1, <5>2, <5>3
        <4>2. CASE ~jp
          <5>1. c - 1 = before /\ before > 0 /\ start = block
            BY <1>3, <1>4, <1>7, <2>2, <4>2
          <5> QED BY <4>2, <5>1
        <4> QED BY <4>1, <4>2
      <3>3. l[c - 1] + z[l[c - 1]] <= start /\ l[c - 1] + z[l[c - 1]] \in Nat
        BY <2>1, <3>1
      <3> HIDE DEF c
      <3> QED BY <1>7, <3>2, <3>3
    <2> QED BY <2>1, <2>2
  <1>26. c + 1 \in 1 .. Len(L) => start + length < l[c + 1 - d]
    <2>1. SUFFICES ASSUME c + 1 \in 1 .. Len(L) PROVE start + length < l[c + 1 - d]
      OBVIOUS
    <2>2. CASE jn
      <3>1. c + 1 - d = before + 2 /\ before + 1 \in 1 .. n - 1 /\ (before + 1) + 1 = before + 2
        BY <1>3, <1>4, <1>9, <1>11, <2>1, <2>2
      <3>2. next + z[next] < l[before + 2]
        <4>1. l[before + 1] + z[l[before + 1]] < l[before + 2]
          BY <1>2, <3>1 DEF Apart, n
        <4> QED BY <1>9, <2>2, <4>1
      <3>3. start + length = next + z[next]
        <4>1. next = start + merged /\ length = merged + z[next] /\ z[next] \in Nat
          BY <1>5, <1>9, <2>2
        <4> HIDE DEF next
        <4> QED BY <1>7, <4>1
      <3> QED BY <3>1, <3>2, <3>3
    <2>3. CASE ~jn
      <3>1. c + 1 - d = before + 1 /\ before + 1 \in 1 .. n /\ before < n
        BY <1>3, <1>4, <1>11, <2>1, <2>3
      <3>2. start + length = block + z[block]
        BY <1>7, <1>10, <2>3
      <3>3. block + z[block] # l[before + 1]
        BY <1>8, <2>3, <3>1
      <3>4. block < l[before + 1] /\ l[before + 1] \in B
        BY <1>3, <1>4, <1>6, <3>1
      <3>5. block + z[block] <= l[before + 1] /\ l[before + 1] \in Nat /\ block \in Nat /\ z[block] \in Nat
        BY <1>5, <1>6, <3>4
      <3> QED BY <3>1, <3>2, <3>3, <3>5
    <2> QED BY <2>2, <2>3
  <1>16. Apart(L, Z)
    <2> SUFFICES ASSUME NEW i \in 1 .. Len(L) - 1 PROVE L[i] + Z[L[i]] < L[i + 1]
      BY DEF Apart
    <2> HIDE DEF c, d
    <2>1. CASE i + 1 < c
      <3>1. i \in 1 .. c - 1 /\ i + 1 \in 1 .. c - 1
        BY <1>11, <1>20, <2>1
      <3>2. i \in 1 .. n - 1
        BY <1>3, <1>23, <3>1
      <3>3. l[i] + z[l[i]] < l[i + 1]
        BY <1>2, <3>2 DEF Apart, n
      <3> QED BY <1>11, <1>24, <3>1, <3>3
    <2>2. CASE i + 1 = c
      <3>1. i \in 1 .. c - 1 /\ c - 1 = i /\ i \in 1 .. n
        BY <1>11, <1>20, <1>23, <2>2
      <3>2. l[i] + z[l[i]] < start
        BY <1>25, <3>1
      <3> QED BY <1>11, <1>24, <2>2, <3>1, <3>2
    <2>3. CASE i = c
      <3>1. c + 1 \in 1 .. Len(L) /\ c + 1 \in c + 1 .. Len(L) /\ i + 1 = c + 1
        BY <1>11, <1>20, <2>3
      <3>2. L[i + 1] = l[c + 1 - d] /\ L[i] = start
        BY <1>11, <2>3, <3>1
      <3> QED BY <1>12, <1>26, <3>1, <3>2
    <2>4. CASE c < i
      <3>1. i \in c + 1 .. Len(L) /\ i + 1 \in c + 1 .. Len(L) /\ (i + 1) - d = (i - d) + 1
        BY <1>11, <1>20, <2>4
      <3>2. i - d \in 1 .. n /\ (i + 1) - d \in 1 .. n
        BY <1>23, <3>1
      <3>3. i - d \in 1 .. n - 1
        BY <1>3, <3>1, <3>2
      <3>4. l[i - d] + z[l[i - d]] < l[(i - d) + 1]
        BY <1>2, <3>3 DEF Apart, n
      <3> QED BY <1>11, <1>24, <3>1, <3>4
    <2> QED BY <1>11, <1>20, <2>1, <2>2, <2>3, <2>4
  <1>17. FreeBytes(L, Z) = FreeBytes(l, z) + z[block]
    <2>1. Z[L[c]] = z[block] + (IF d < 1 THEN z[l[c]] ELSE 0) + (IF d < 0 THEN z[l[c + 1]] ELSE 0)
      <3>1. Z[L[c]] = length /\ z[block] \in Nat
        BY <1>5, <1>6, <1>11, <1>12
      <3>2. jp => c = before /\ merged = z[block] + z[l[c]] /\ z[l[c]] \in Nat
        BY <1>5, <1>6, <1>7 DEF merged
      <3>3. ~jp => c = before + 1 /\ merged = z[block]
        BY <3>1 DEF merged
      <3>4. jn => length = merged + z[l[before + 1]] /\ z[l[before + 1]] \in Nat
        BY <1>5, <1>9
      <3>5. d = (IF jp THEN 0 ELSE 1) - (IF jn THEN 1 ELSE 0)
        OBVIOUS
      <3> HIDE DEF c, d, jp, jn
      <3>6. CASE jp /\ jn
        BY <3>1, <3>2, <3>4, <3>5, <3>6
      <3>7. CASE jp /\ ~jn
        BY <1>10, <3>1, <3>2, <3>5, <3>7
      <3>8. CASE ~jp /\ jn
        BY <3>1, <3>3, <3>4, <3>5, <3>8
      <3>9. CASE ~jp /\ ~jn
        BY <1>10, <3>1, <3>3, <3>5, <3>9
      <3> QED BY <3>6, <3>7, <3>8, <3>9
    <2>2. z[block] \in Nat
      BY <1>5, <1>6
    <2> HIDE DEF c, d
    <2>3. /\ L \in Seq(Addresses) /\ Len(L) = Len(l) + d /\ d \in {-1, 0, 1}
          /\ c \in Nat \ {0} /\ c <= Len(L) /\ Z \in SizeMaps
      BY <1>11, <1>12 DEF n
    <2>4. /\ \A i \in 1 .. c - 1 : L[i] = l[i] /\ Z[L[i]] = z[l[i]]
          /\ \A i \in c + 1 .. Len(L) : L[i] = l[i - d] /\ Z[L[i]] = z[l[i - d]]
      BY <1>11, <1>24
    <2> HIDE DEF jp, jn, next, D, mid, k
    <2> DEFINE x == z[block]
    <2>5. x \in Nat /\ Z[L[c]] = x + (IF d < 1 THEN z[l[c]] ELSE 0) + (IF d < 0 THEN z[l[c + 1]] ELSE 0)
      BY <2>1, <2>2
    <2> HIDE DEF x
    <2>6. FreeBytes(L, Z) = FreeBytes(l, z) + x
      <3>1. Replaced(l, z, L, Z, d, c, x)
        BY <2>3, <2>4, <2>5 DEF Replaced
      <3>2. l \in Seq(Addresses) /\ z \in SizeMaps
        BY <1>2
      <3> QED BY <2>3, <2>5, <3>1, <3>2, SumOfReplaced
    <2> QED BY <2>6 DEF x
  <1>18. \A b \in used : Z[b] = z[b]
    <2> TAKE b \in used
    <2>1. b \in Addresses /\ b \notin ToSet(l) /\ b # block
      BY <1>2
    <2>2. b # start
      BY <1>3, <1>7, <2>1
    <2>3. ~(jn /\ b = next)
      BY <1>3, <1>9, <2>1
    <2> HIDE DEF jp, jn, next
    <2> QED BY <1>12, <2>1, <2>2, <2>3
  <1>19. IsHeap(L, Z, used)
    BY <1>2, <1>11, <1>12, <1>13, <1>14, <1>15, <1>16 DEF IsHeap
  <1> QED BY <1>1, <1>17, <1>18, <1>19

\* A free block is taken from the list.
LEMMA RemoveKeepsHeap ==
    ASSUME NEW l, NEW z, NEW used, IsHeap(l, z, used), NEW c \in 1 .. Len(l)
    PROVE  /\ l[c] \in Addresses /\ l[c] \notin used
           /\ IsHeap(RemoveAt(l, c), z, used \cup {l[c]})
           /\ FreeBytes(RemoveAt(l, c), z) = FreeBytes(l, z) - z[l[c]]
  <1> DEFINE n == Len(l)
             r == RemoveAt(l, c)
             block == l[c]
  <1>1. /\ l \in Seq(Addresses) /\ z \in SizeMaps /\ used \in SUBSET Addresses
        /\ ToSet(l) \cap used = {} /\ Rising(l) /\ Apart(l, z) /\ Tiles(ToSet(l) \cup used, z)
    BY DEF IsHeap
  <1>2. /\ n \in Nat /\ \A x : x \in ToSet(l) <=> \E i \in 1 .. n : l[i] = x
        /\ \A i \in 1 .. n : l[i] \in Addresses /\ l[i] \in Nat /\ l[i] \in ToSet(l)
    <2>1. \A i \in 1 .. n : l[i] \in Addresses
      BY <1>1, ElementOfSeq
    <2> QED BY <1>1, <2>1, ToSetSeq, HeapBounds
  <1>3. /\ r \in Seq(Addresses) /\ Len(r) = n - 1
        /\ \A i \in 1 .. n - 1 : r[i] = IF i < c THEN l[i] ELSE l[i + 1]
    BY <1>1, RemoveAtIndices
  <1> HIDE DEF r, n
  <1>4. c \in 1 .. n /\ block \in Addresses /\ block \in ToSet(l) /\ block \notin used
    BY <1>1, <1>2 DEF n
  <1>5. \A i, j \in 1 .. n : i < j => l[i] < l[j]
    BY <1>1 DEF Rising, n
  <1>6. \A x : x \in ToSet(r) <=> \E i \in 1 .. n - 1 : r[i] = x
    BY <1>3, ToSetSeq
  <1>7. ToSet(r) = ToSet(l) \ {block}
    <2>1. ASSUME NEW x \in ToSet(r) PROVE x \in ToSet(l) /\ x # block
      <3>1. PICK i \in 1 .. n - 1 : r[i] = x
        BY <1>6
      <3>2. CASE i < c
        <4>1. i \in 1 .. n /\ x = l[i] /\ l[i] < l[c]
          BY <1>2, <1>3, <1>4, <1>5, <3>1, <3>2
        <4> QED BY <1>2, <1>4, <4>1
      <3>3. CASE ~(i < c)
        <4>1. i + 1 \in 1 .. n /\ x = l[i + 1] /\ l[c] < l[i + 1]
          BY <1>2, <1>3, <1>4, <1>5, <3>1, <3>3
        <4> QED BY <1>2, <1>4, <4>1
      <3> QED BY <3>2, <3>3
    <2>2. ASSUME NEW x \in ToSet(l), x # block PROVE x \in ToSet(r)
      <3>1. PICK i \in 1 .. n : l[i] = x
        BY <1>2
      <3>2. CASE i < c
        <4>1. i \in 1 .. n - 1 /\ r[i] = x
          BY <1>2, <1>3, <1>4, <3>1, <3>2
        <4> QED BY <1>6, <4>1
      <3>3. CASE i > c
        <4>1. i - 1 \in 1 .. n - 1 /\ (i - 1) + 1 = i /\ ~(i - 1 < c)
          BY <1>2, <1>4, <3>3
        <4>2. r[i - 1] = x
          BY <1>3, <3>1, <4>1
        <4> QED BY <1>6, <4>1, <4>2
      <3> QED BY <1>4, <2>2, <3>1, <3>2, <3>3
    <2> HIDE DEF block
    <2> QED BY <2>1, <2>2
  <1>8. Rising(r)
    <2> SUFFICES ASSUME NEW i \in 1 .. n - 1, NEW j \in 1 .. n - 1, i < j PROVE r[i] < r[j]
      BY <1>3 DEF Rising
    <2> DEFINE i1 == IF i < c THEN i ELSE i + 1
               j1 == IF j < c THEN j ELSE j + 1
    <2>1. i1 \in 1 .. n /\ j1 \in 1 .. n /\ i1 < j1
      BY <1>2, <1>4
    <2>2. r[i] = l[i1] /\ r[j] = l[j1]
      BY <1>3
    <2> HIDE DEF i1, j1
    <2> QED BY <1>5, <2>1, <2>2
  <1>9. Apart(r, z)
    <2> SUFFICES ASSUME NEW i \in 1 .. Len(r) - 1 PROVE r[i] + z[r[i]] < r[i + 1]
      BY DEF Apart
    <2>1. n - 1 \in Nat /\ i \in 1 .. n - 2 /\ i \in 1 .. n - 1 /\ i + 1 \in 1 .. n - 1
      BY <1>2, <1>3, <1>4
    <2>2. \A k \in 1 .. n - 1 : l[k] + z[l[k]] < l[k + 1]
      BY <1>1 DEF Apart, n
    <2>3. CASE i + 1 < c
      <3>1. r[i] = l[i] /\ r[i + 1] = l[i + 1]
        BY <1>3, <1>4, <2>1, <2>3
      <3> QED BY <2>1, <2>2, <3>1
    <2>4. CASE i + 1 = c
      <3>1. r[i] = l[i] /\ r[i + 1] = l[i + 2] /\ i + 2 \in 1 .. n /\ i + 1 \in 1 .. n
        BY <1>2, <1>3, <1>4, <2>1, <2>4
      <3>2. l[i] + z[l[i]] < l[i + 1] /\ l[i + 1] < l[i + 2]
        BY <1>5, <2>1, <2>2, <3>1
      <3>3. l[i] \in Nat /\ z[l[i]] \in Nat /\ l[i + 1] \in Nat /\ l[i + 2] \in Nat
        <4>1. l[i] \in Addresses /\ l[i] \in Nat /\ l[i + 1] \in Nat /\ l[i + 2] \in Nat
          <5>1. i \in 1 .. n
            BY <1>2, <2>1
          <5> QED BY <1>2, <3>1, <5>1
        <4> QED BY <1>1, <4>1 DEF SizeMaps
      <3> QED BY <3>1, <3>2, <3>3
    <2>5. CASE ~(i < c)
      <3>1. r[i] = l[i + 1] /\ r[i + 1] = l[(i + 1) + 1] /\ i + 1 \in 1 .. n - 1
        BY <1>3, <1>4, <2>1, <2>5
      <3> QED BY <2>2, <3>1
    <2> QED BY <1>4, <2>1, <2>3, <2>4, <2>5
  <1>10. Tiles(ToSet(r) \cup (used \cup {block}), z)
    <2>1. ToSet(r) \cup (used \cup {block}) = ToSet(l) \cup used
      BY <1>4, <1>7
    <2> QED BY <1>1, <2>1
  <1>11. ToSet(r) \cap (used \cup {block}) = {} /\ used \cup {block} \in SUBSET Addresses
    BY <1>1, <1>4, <1>7
  <1>12. IsHeap(r, z, used \cup {block})
    BY <1>1, <1>3, <1>8, <1>9, <1>10, <1>11 DEF IsHeap
  <1>13. FreeBytes(r, z) = FreeBytes(l, z) - z[block]
    <2>1. \A k \in 1 .. Len(r) : r[k] = IF k < c THEN l[k] ELSE l[k + 1]
      BY <1>3
    <2> QED BY <1>1, <1>3, <2>1, SumOfRemoved DEF n
  <1> QED BY <1>4, <1>12, <1>13 DEF r

\* A used block gives back what it does not need, or stays as it is.
IsSplit(r, l, z, used, block, size) ==
    /\ IsHeap(r.list, r.size, used \cup {block})
    /\ FreeBytes(r.list, r.size) = FreeBytes(l, z) + z[block] - r.size[block]
    /\ r.size[block] >= size
    /\ \A b \in used : r.size[b] = z[b]

LEMMA SplitKeepsHeap ==
    ASSUME NEW l, NEW z, NEW used, NEW block \in Addresses, block \notin used,
           IsHeap(l, z, used \cup {block}),
           NEW size \in Nat, size > 0, size % Alignment = 0, size <= z[block]
    PROVE  IsSplit(Split([list |-> l, size |-> z], block, size), l, z, used, block, size)
  <1> DEFINE h == [list |-> l, size |-> z]
             rest == block + size
             z1 == [z EXCEPT ![rest] = z[block] - size, ![block] = size]
             h1 == [list |-> l, size |-> z1]
  <1>1. /\ l \in Seq(Addresses) /\ z \in SizeMaps /\ used \cup {block} \in SUBSET Addresses
        /\ ToSet(l) \cap (used \cup {block}) = {} /\ Rising(l) /\ Apart(l, z)
        /\ Tiles(ToSet(l) \cup (used \cup {block}), z)
    BY DEF IsHeap
  <1>2. z[block] \in Nat /\ xHeapStructSize \in Nat /\ FreeBytes(l, z) \in Nat
    <2>1. FreeBytes(l, z) \in Nat
      BY <1>1, SumsExist, SumIs
    <2> QED BY <1>1, <2>1, Heap4Assumption DEF SizeMaps, Heap4Assumption
  <1>3. CASE ~(z[block] - size > 2 * xHeapStructSize)
    <2>1. Split(h, block, size) = h
      BY <1>3 DEF Split
    <2>2. FreeBytes(l, z) = FreeBytes(l, z) + z[block] - z[block]
      BY <1>2
    <2> QED BY <1>2, <2>1, <2>2 DEF IsSplit
  <1>4. CASE z[block] - size > 2 * xHeapStructSize
    <2>1. size < z[block]
      BY <1>2, <1>4
    <2>2. Split(h, block, size) = InsertBlock(h1, rest)
      <3>1. h.size[block] = z[block]
        OBVIOUS
      <3>2. [h EXCEPT !.size[block + size] = h.size[block] - size, !.size[block] = size] = h1
        <4> DEFINE x == h.size[block] - size
        <4>1. x = z[block] - size
          OBVIOUS
        <4> HIDE DEF x, rest
        <4>2. [h EXCEPT !.size[rest] = x, !.size[block] = size]
                  = [list |-> l, size |-> [z EXCEPT ![rest] = x, ![block] = size]]
          <5> DEFINE h2 == [h EXCEPT !.size[rest] = x]
                     z2 == [z EXCEPT ![rest] = x]
          <5>1. h2 = [list |-> l, size |-> z2]
            OBVIOUS
          <5>2. [z2 EXCEPT ![block] = size] = [z EXCEPT ![rest] = x, ![block] = size]
            OBVIOUS
          <5>3. [h2 EXCEPT !.size[block] = size] = [list |-> l, size |-> [z2 EXCEPT ![block] = size]]
            <6> HIDE DEF h2, z2
            <6> QED BY <5>1
          <5>4. [h2 EXCEPT !.size[block] = size]
                    = [list |-> l, size |-> [z EXCEPT ![rest] = x, ![block] = size]]
            <6> HIDE DEF h2, z2
            <6> QED BY <5>2, <5>3
          <5> QED BY <5>4
        <4> QED BY <4>1, <4>2 DEF x, rest
      <3> QED BY <1>4, <3>1, <3>2 DEF Split
    <2>3. block \in Nat /\ rest \in Nat /\ rest # block
      BY HeapBounds
    <2>12. \A a \in Addresses : z[a] \in Nat
      BY <1>1 DEF SizeMaps
    <2>13. z[block] - size \in Nat
      BY <1>2, <2>1
    <2>4. z1 \in SizeMaps /\ z1[block] = size /\ \A a \in Addresses : a # rest /\ a # block => z1[a] = z[a]
      <3>1. z \in [Addresses -> Nat]
        BY <1>1 DEF SizeMaps
      <3>2. z1 \in [Addresses -> Nat]
        BY <2>13, <3>1
      <3>3. \A a \in Addresses : z1[a] = IF a = block THEN size ELSE IF a = rest THEN z[block] - size ELSE z[a]
        BY <2>3, <3>1
      <3> HIDE DEF z1, rest
      <3> QED BY <3>2, <3>3 DEF SizeMaps
    <2>14. rest \in Addresses => z1[rest] = z[block] - size
      BY <1>1, <2>3 DEF SizeMaps
    <2> DEFINE B == ToSet(l) \cup (used \cup {block})
    <2>5. B \in SUBSET Addresses /\ block \in B
      BY <1>1, ToSetSeq
    <2>15. z[block] > 0 /\ z[block] <= pxEnd - block
      <3>1. Tiles(B, z)
        BY <1>1
      <3> HIDE DEF B, z1, h1, h, rest
      <3>2. block \in Nat /\ z[block] \in Nat \ {0} /\ block + z[block] <= pxEnd /\ pxEnd \in Nat
        BY <1>1, <2>5, <3>1, BlockFacts, HeapBounds
      <3> QED BY <3>2
    <2>16. rest \in Addresses
      BY <2>1, <2>3, <2>15, <1>2, HeapBounds
    <2> HIDE DEF z1, rest, B
    <2>6. rest \notin B /\ Tiles(B \cup {rest}, z1)
      <3>1. block + size \in B \/ block + size \notin B
        OBVIOUS
      <3>2. \A e \in B : block < e => block + z[block] <= e
        BY <1>1, <2>5 DEF Tiles, B
      <3>3. rest \notin B
        BY <1>2, <2>1, <2>3, <3>2 DEF rest
      <3>4. \A e \in B \ {block} : z1[e] = z[e]
        BY <2>4, <2>5, <3>3
      <3>5. Tiles(B, z)
        BY <1>1 DEF B
      <3>6. z1[block + size] = z[block] - size
        BY <2>14, <2>16 DEF rest
      <3>7. Tiles(B \cup {block + size}, z1)
        BY <1>1, <2>1, <2>4, <2>5, <3>4, <3>5, <3>6, CutTiles
      <3> QED BY <3>3, <3>7 DEF rest
    <2>7. ASSUME NEW i \in 1 .. Len(l) PROVE z1[l[i]] = z[l[i]] /\ l[i] \in ToSet(l)
      <3>1. l[i] \in ToSet(l) /\ l[i] \in Addresses
        BY <1>1, ToSetSeq, ElementOfSeq
      <3>2. l[i] # block /\ l[i] # rest
        BY <1>1, <2>6, <3>1 DEF B
      <3> QED BY <2>4, <3>1, <3>2
    <2>8. IsHeap(l, z1, (used \cup {block}) \cup {rest})
      <3>1. Apart(l, z1)
        <4>1. \A i \in 1 .. Len(l) - 1 : i \in 1 .. Len(l)
          BY <1>1, ToSetSeq
        <4> QED BY <1>1, <2>7, <4>1 DEF Apart
      <3>2. B \cup {rest} = ToSet(l) \cup ((used \cup {block}) \cup {rest})
        BY DEF B
      <3>3. ToSet(l) \cap ((used \cup {block}) \cup {rest}) = {}
        BY <1>1, <2>6 DEF B
      <3>4. Tiles(ToSet(l) \cup ((used \cup {block}) \cup {rest}), z1)
        BY <2>6, <3>2
      <3> QED BY <1>1, <2>4, <2>16, <3>1, <3>3, <3>4 DEF IsHeap
    <2>9. rest \notin used \cup {block}
      BY <2>6 DEF B
    <2> DEFINE r == InsertBlock(h1, rest)
    <2>10. /\ IsHeap(r.list, r.size, used \cup {block})
           /\ FreeBytes(r.list, r.size) = FreeBytes(l, z1) + z1[rest]
           /\ \A b \in used \cup {block} : r.size[b] = z1[b]
      <3> DEFINE u == used \cup {block}
      <3>1. IsHeap(l, z1, u \cup {rest}) /\ rest \notin u
        BY <2>8, <2>9
      <3> HIDE DEF u
      <3>2. /\ IsHeap(r.list, r.size, u)
            /\ FreeBytes(r.list, r.size) = FreeBytes(l, z1) + z1[rest]
            /\ \A b \in u : r.size[b] = z1[b]
        BY <2>16, <3>1, InsertKeepsHeap
      <3> QED BY <3>2 DEF u
    <2> HIDE DEF r
    <2>11. FreeBytes(l, z1) = FreeBytes(l, z)
      BY <1>1, <2>4, <2>7, SumOfSame
    <2>17. r.size[block] = size
      BY <2>4, <2>10
    <2>18. \A b \in used : r.size[b] = z[b]
      <3> TAKE b \in used
      <3>1. b \in Addresses /\ b # rest /\ b # block
        BY <1>1, <2>9
      <3> QED BY <2>4, <2>10, <3>1
    <2>19. FreeBytes(r.list, r.size) = FreeBytes(l, z) + z[block] - r.size[block]
      BY <1>2, <2>10, <2>11, <2>14, <2>16, <2>17
    <2> QED BY <2>2, <2>10, <2>17, <2>18, <2>19 DEF IsSplit, r
  <1> QED BY <1>3, <1>4

-----------------------------------------------------------------------------
(***************************************************************************)
(* What pvPortMalloc asks for                                              *)
(***************************************************************************)

LEMMA BlockSizeIs ==
    ASSUME NEW wanted \in Nat, BlockSizeFor(wanted) > 0
    PROVE  /\ BlockSizeFor(wanted) \in Nat
           /\ BlockSizeFor(wanted) % Alignment = 0
           /\ BlockSizeFor(wanted) - xHeapStructSize >= wanted
  <1> DEFINE more == xHeapStructSize + Alignment - (wanted % Alignment)
  <1>1. /\ Alignment \in Nat \ {0} /\ xHeapStructSize \in Nat /\ xHeapStructSize % Alignment = 0
    BY Heap4Assumption DEF Heap4Assumption
  <1>2. wanted % Alignment \in 0 .. Alignment - 1
    BY <1>1
  <1>3. BlockSizeFor(wanted) = wanted + more
    BY DEF BlockSizeFor
  <1>4. wanted + more = (Aligned(wanted) + xHeapStructSize) + Alignment
    BY <1>1, <1>2 DEF Aligned
  <1>5. Aligned(wanted) \in Int /\ Aligned(wanted) % Alignment = 0
    BY AlignedIsMultiple
  <1>6. (Aligned(wanted) + xHeapStructSize) % Alignment = 0 /\ Aligned(wanted) + xHeapStructSize \in Int
    BY <1>1, <1>5, AlignedSums
  <1>7. Alignment % Alignment = 0 /\ Alignment \in Int
    BY <1>1
  <1>8. ((Aligned(wanted) + xHeapStructSize) + Alignment) % Alignment = 0
    <2> DEFINE a == Aligned(wanted) + xHeapStructSize
    <2>1. a \in Int /\ a % Alignment = 0
      BY <1>6
    <2> HIDE DEF a
    <2>2. (a + Alignment) % Alignment = 0
      BY <1>7, <2>1, AlignedSums
    <2> QED BY <2>2 DEF a
  <1> DEFINE total == wanted + more
  <1>10. /\ BlockSizeFor(wanted) = total /\ total % Alignment = 0
         /\ total \in Nat /\ total - xHeapStructSize >= wanted
    <2>1. BlockSizeFor(wanted) = total
      BY <1>3
    <2>2. total % Alignment = 0
      BY <1>4, <1>8
    <2>3. total \in Nat /\ total - xHeapStructSize >= wanted
      <3> DEFINE w == wanted % Alignment
      <3>1. total = wanted + (xHeapStructSize + Alignment - w) /\ w \in 0 .. Alignment - 1
        BY <1>2
      <3> HIDE DEF w, total
      <3> QED BY <1>1, <3>1
    <2> QED BY <2>1, <2>2, <2>3
  <1> HIDE DEF total
  <1> QED BY <1>10

LEMMA FirstFitIs ==
    ASSUME NEW size \in Nat, HeapNow.list \in Seq(Addresses), FirstFit(size) > 0
    PROVE  /\ FirstFit(size) \in 1 .. Len(HeapNow.list)
           /\ HeapNow.size[HeapNow.list[FirstFit(size)]] >= size
  <1> DEFINE l == HeapNow.list
             I == {i \in 1 .. Len(l) : HeapNow.size[l[i]] >= size}
  <1>1. FirstFit(size) = IF I # {} THEN Min(I) ELSE 0
    BY DEF FirstFit, SelectInSeq
  <1>2. I # {} /\ FirstFit(size) = Min(I)
    BY <1>1
  <1>3. Len(l) \in Nat /\ I \in SUBSET (1 .. Len(l))
    BY ToSetSeq
  <1> HIDE DEF I
  <1>4. Min(I) \in I
    BY <1>2, <1>3, FirstPlace
  <1> QED BY <1>2, <1>4 DEF I

LEMMA LowerOfTwo ==
    ASSUME NEW m \in Nat, NEW n \in Nat
    PROVE  Min({m, n}) \in Nat /\ Min({m, n}) <= m
  <1>1. \E x \in {m, n} : \A y \in {m, n} : x <= y
    OBVIOUS
  <1>2. Min({m, n}) \in {m, n} /\ \A y \in {m, n} : Min({m, n}) <= y
    BY <1>1 DEF Min
  <1> QED BY <1>2

-----------------------------------------------------------------------------
(***************************************************************************)
(* The invariant: whoever calls first finds a heap, before prvHeapInit of  *)
(* one free block.                                                         *)
(***************************************************************************)
HeapInv ==
    /\ requested \in SizeMaps
    /\ allocated \cap freeing = {}
    /\ ~initialised => allocated = {} /\ freeing = {}
    /\ IsHeap(HeapNow.list, HeapNow.size, allocated \cup freeing)
    /\ FreeBytesNow = FreeBytes(HeapNow.list, HeapNow.size)
    /\ MinimumNow \in Nat /\ MinimumNow <= FreeBytesNow
    /\ \A b \in allocated : HeapNow.size[b] - xHeapStructSize >= requested[b]

LEMMA HeapInvInit == HeapInit => HeapInv
  <1> SUFFICES ASSUME HeapInit PROVE HeapInv
    OBVIOUS
  <1> DEFINE l == <<FirstBlock>>
             z == [NoBlocks EXCEPT ![FirstBlock] = HeapSize]
  <1>1. HeapNow = [list |-> l, size |-> z] /\ FreeBytesNow = HeapSize /\ MinimumNow = HeapSize
    BY DEF HeapInit, HeapNow, FreeBytesNow, MinimumNow
  <1>2. HeapSize \in Nat /\ HeapSize > 0 /\ FirstBlock + HeapSize = pxEnd
    BY HeapBounds, Heap4Assumption DEF HeapSize, Heap4Assumption
  <1>3. FirstBlock \in Addresses /\ FirstBlock % Alignment = 0 /\ FirstBlock \in Nat
    BY HeapBounds
  <1>4. l \in Seq(Addresses) /\ Len(l) = 1 /\ l[1] = FirstBlock
    BY <1>3
  <1>5. z \in SizeMaps /\ z[FirstBlock] = HeapSize
    <2>1. NoBlocks \in [Addresses -> Nat]
      BY DEF NoBlocks
    <2>2. z \in [Addresses -> Nat]
      BY <1>2, <1>3, <2>1
    <2>3. z[FirstBlock] = HeapSize
      BY <1>3, <2>1
    <2> QED BY <2>2, <2>3 DEF SizeMaps
  <1> HIDE DEF l, z
  <1>6. ToSet(l) = {FirstBlock}
    <2>1. \A x : x \in ToSet(l) <=> \E i \in 1 .. Len(l) : l[i] = x
      BY <1>4, ToSetSeq
    <2>2. 1 .. Len(l) = {1}
      BY <1>4
    <2> QED BY <1>4, <2>1, <2>2
  <1>7. Rising(l) /\ Apart(l, z)
    BY <1>4 DEF Rising, Apart
  <1>8. Tiles(ToSet(l) \cup {}, z)
    BY <1>2, <1>3, <1>5, <1>6 DEF Tiles
  <1>9. IsHeap(l, z, {})
    BY <1>4, <1>5, <1>7, <1>8 DEF IsHeap
  <1>10. FreeBytes(l, z) = HeapSize
    <2>1. PICK p : Sums(p, l, z) /\ FreeBytes(l, z) = p[Len(l)]
      BY <1>4, <1>5, SumsExist
    <2>2. 1 \in 1 .. Len(l) /\ p[0] = 0
      BY <1>4, <2>1 DEF Sums
    <2>3. p[1] = p[1 - 1] + z[l[1]]
      BY <2>1, <2>2 DEF Sums
    <2>4. p[1] = 0 + HeapSize
      <3>1. 1 - 1 = 0
        OBVIOUS
      <3> QED BY <1>4, <1>5, <2>2, <2>3, <3>1
    <2> QED BY <1>2, <1>4, <2>1, <2>4
  <1>11. allocated = {} /\ freeing = {} /\ requested \in SizeMaps
    BY DEF HeapInit, NoBlocks, SizeMaps
  <1> QED BY <1>1, <1>2, <1>9, <1>10, <1>11 DEF HeapInv

LEMMA HeapTypes ==
    ASSUME HeapInv
    PROVE  /\ IsHeap(HeapNow.list, HeapNow.size, allocated \cup freeing)
           /\ HeapNow.list \in Seq(Addresses) /\ HeapNow.size \in SizeMaps
           /\ HeapNow = [list |-> HeapNow.list, size |-> HeapNow.size]
           /\ allocated \in SUBSET Addresses /\ freeing \in SUBSET Addresses
           /\ FreeBytesNow = FreeBytes(HeapNow.list, HeapNow.size) /\ FreeBytesNow \in Nat
  <1>1. /\ IsHeap(HeapNow.list, HeapNow.size, allocated \cup freeing)
        /\ FreeBytesNow = FreeBytes(HeapNow.list, HeapNow.size)
    BY DEF HeapInv
  <1>2. /\ HeapNow.list \in Seq(Addresses) /\ HeapNow.size \in SizeMaps
        /\ allocated \in SUBSET Addresses /\ freeing \in SUBSET Addresses
    BY <1>1 DEF IsHeap
  <1>3. HeapNow = [list |-> HeapNow.list, size |-> HeapNow.size]
    BY DEF HeapNow
  <1>4. FreeBytesNow \in Nat
    <2> DEFINE l == HeapNow.list
               z == HeapNow.size
    <2>1. l \in Seq(Addresses) /\ z \in SizeMaps /\ FreeBytesNow = FreeBytes(l, z)
      BY <1>1, <1>2
    <2> HIDE DEF l, z
    <2> QED BY <2>1, SumsExist, SumIs
  <1> QED BY <1>1, <1>2, <1>3, <1>4

LEMMA MallocKeepsHeap ==
    ASSUME NEW wanted \in Nat, HeapInv, Malloc(wanted)
    PROVE  HeapInv'
  <1> DEFINE l == HeapNow.list
             z == HeapNow.size
             used == allocated \cup freeing
             size == BlockSizeFor(wanted)
             i == FirstFit(size)
  <1>1. /\ IsHeap(l, z, used) /\ l \in Seq(Addresses) /\ z \in SizeMaps
        /\ HeapNow = [list |-> l, size |-> z]
        /\ allocated \in SUBSET Addresses /\ freeing \in SUBSET Addresses
        /\ FreeBytesNow = FreeBytes(l, z) /\ FreeBytesNow \in Nat
    BY HeapTypes
  <1>2. /\ requested \in SizeMaps /\ allocated \cap freeing = {}
        /\ MinimumNow \in Nat /\ MinimumNow <= FreeBytesNow
        /\ \A b \in allocated : z[b] - xHeapStructSize >= requested[b]
    BY DEF HeapInv
  <1>3. initialised' = TRUE /\ freeing' = freeing
    BY DEF Malloc
  <1>4. /\ HeapNow' = [list |-> freeList', size |-> xBlockSize']
        /\ FreeBytesNow' = xFreeBytesRemaining'
        /\ MinimumNow' = xMinimumEverFreeBytesRemaining'
    BY <1>3 DEF HeapNow, FreeBytesNow, MinimumNow
  <1>5. CASE ~MayAllocate(size)
    <2>1. /\ freeList' = l /\ xBlockSize' = z /\ xFreeBytesRemaining' = FreeBytesNow
          /\ xMinimumEverFreeBytesRemaining' = MinimumNow
          /\ allocated' = allocated /\ requested' = requested
      BY <1>5 DEF Malloc
    <2>2. HeapNow'.list = l /\ HeapNow'.size = z
      BY <1>4, <2>1
    <2> HIDE DEF l, z, size, i
    <2> QED BY <1>1, <1>2, <1>3, <1>4, <2>1, <2>2 DEF HeapInv
  <1>6. CASE MayAllocate(size)
    <2> DEFINE block == l[i]
               h == Split([HeapNow EXCEPT !.list = RemoveAt(@, i)], block, size)
               left == FreeBytesNow - h.size[block]
               l1 == RemoveAt(l, i)
               r == Split([list |-> l1, size |-> z], block, size)
    <2>1. /\ freeList' = h.list /\ xBlockSize' = h.size
          /\ allocated' = allocated \cup {block}
          /\ requested' = [requested EXCEPT ![block] = wanted]
          /\ xFreeBytesRemaining' = left
          /\ xMinimumEverFreeBytesRemaining' = Min({left, MinimumNow})
      BY <1>6 DEF Malloc
    <2>2. h = r
      BY <1>1
    <2>3. size > 0 /\ FirstFit(size) > 0
      BY <1>6 DEF MayAllocate
    <2>4. size \in Nat /\ size % Alignment = 0 /\ size - xHeapStructSize >= wanted
      BY <2>3, BlockSizeIs
    <2> HIDE DEF size
    <2>5. i \in 1 .. Len(l) /\ z[block] >= size
      BY <1>1, <2>3, <2>4, FirstFitIs
    <2> HIDE DEF i, l, z, used
    <2>6. /\ block \in Addresses /\ block \notin used
          /\ IsHeap(l1, z, used \cup {block})
          /\ FreeBytes(l1, z) = FreeBytes(l, z) - z[block]
      BY <1>1, <2>5, RemoveKeepsHeap
    <2> HIDE DEF h, block, l1
    <2>7. size <= z[block] /\ z[block] \in Nat
      BY <1>1, <2>4, <2>5, <2>6 DEF SizeMaps
    <2>8. /\ IsHeap(r.list, r.size, used \cup {block})
          /\ FreeBytes(r.list, r.size) = FreeBytes(l1, z) + z[block] - r.size[block]
          /\ r.size[block] >= size
          /\ \A b \in used : r.size[b] = z[b]
      <3>1. /\ block \in Addresses /\ block \notin used /\ IsHeap(l1, z, used \cup {block})
            /\ size \in Nat /\ size > 0 /\ size % Alignment = 0 /\ size <= z[block]
        BY <2>3, <2>4, <2>6, <2>7
      <3>2. IsSplit(r, l1, z, used, block, size)
        BY <3>1, SplitKeepsHeap
      <3> HIDE DEF r
      <3> QED BY <3>2 DEF IsSplit
    <2> HIDE DEF r
    <2> DEFINE rl == r.list
               rz == r.size
    <2>9. /\ IsHeap(rl, rz, used \cup {block}) /\ rz[block] >= size
          /\ FreeBytes(rl, rz) = FreeBytes(l1, z) + z[block] - rz[block]
          /\ \A b \in used : rz[b] = z[b]
          /\ freeList' = rl /\ xBlockSize' = rz
          /\ left = FreeBytesNow - rz[block]
      BY <2>1, <2>2, <2>8
    <2> HIDE DEF rl, rz, left
    <2>10. rl \in Seq(Addresses) /\ rz \in SizeMaps
      BY <2>9 DEF IsHeap
    <2>11. rz[block] \in Nat /\ FreeBytes(rl, rz) \in Nat
      BY <2>6, <2>10, SumsExist, SumIs DEF SizeMaps
    <2>12. left = FreeBytes(rl, rz) /\ left \in Nat
      BY <1>1, <2>6, <2>7, <2>9, <2>11
    <2>13. HeapNow'.list = rl /\ HeapNow'.size = rz
      BY <1>4, <2>9
    <2>14. FreeBytesNow' = left /\ MinimumNow' \in Nat /\ MinimumNow' <= left
      BY <1>2, <1>4, <2>1, <2>12, LowerOfTwo
    <2>15. (allocated \cup freeing)' = used \cup {block} /\ (allocated \cap freeing)' = {}
      BY <1>2, <1>3, <2>1, <2>6 DEF used
    <2>16. requested' \in SizeMaps
      BY <1>2, <2>1, <2>6 DEF SizeMaps
    <2>17. ASSUME NEW b \in allocated' PROVE rz[b] - xHeapStructSize >= requested'[b]
      <3>1. CASE b = block
        <4>1. requested'[b] = wanted
          BY <1>2, <2>1, <2>6, <3>1 DEF SizeMaps
        <4>2. xHeapStructSize \in Nat
          BY Heap4Assumption DEF Heap4Assumption
        <4> QED BY <2>4, <2>9, <2>11, <3>1, <4>1, <4>2
      <3>2. CASE b # block
        <4>1. b \in allocated /\ b \in used
          BY <2>1, <3>2 DEF used
        <4>2. requested'[b] = requested[b]
          BY <1>2, <2>1, <3>2 DEF SizeMaps
        <4> QED BY <1>2, <2>9, <4>1, <4>2
      <3> QED BY <3>1, <3>2
    <2> QED BY <1>3, <2>9, <2>12, <2>13, <2>14, <2>15, <2>16, <2>17 DEF HeapInv
  <1> QED BY <1>5, <1>6

LEMMA FreeKeepsHeap ==
    ASSUME NEW block \in Addresses, HeapInv, Free(block)
    PROVE  HeapInv'
  <1>1. /\ block \in allocated /\ allocated' = allocated \ {block}
        /\ freeing' = freeing \cup {block}
        /\ requested' = [requested EXCEPT ![block] = 0]
        /\ HeapNow' = HeapNow /\ FreeBytesNow' = FreeBytesNow /\ MinimumNow' = MinimumNow
        /\ initialised' = initialised
    BY DEF Free, HeapNow, FreeBytesNow, MinimumNow
  <1>2. initialised
    BY <1>1 DEF HeapInv
  <1>3. (allocated \cup freeing)' = allocated \cup freeing /\ (allocated \cap freeing)' = {}
    BY <1>1 DEF HeapInv
  <1>4. requested' \in SizeMaps /\ \A b \in allocated' : requested'[b] = requested[b] /\ b \in allocated
    BY <1>1 DEF HeapInv, SizeMaps
  <1> QED BY <1>1, <1>2, <1>3, <1>4 DEF HeapInv

LEMMA FreeBlockKeepsHeap ==
    ASSUME NEW block \in Addresses, HeapInv, FreeBlock(block)
    PROVE  HeapInv'
  <1> DEFINE l == HeapNow.list
             z == HeapNow.size
             used == (allocated \cup freeing) \ {block}
             r == InsertBlock([list |-> l, size |-> z], block)
  <1>1. /\ HeapNow = [list |-> l, size |-> z]
        /\ IsHeap(l, z, allocated \cup freeing) /\ l \in Seq(Addresses) /\ z \in SizeMaps
        /\ FreeBytesNow = FreeBytes(l, z) /\ FreeBytesNow \in Nat
    BY HeapTypes
  <1>2. /\ block \in freeing /\ freeing' = freeing \ {block}
        /\ freeList' = r.list /\ xBlockSize' = r.size
        /\ xFreeBytesRemaining' = xFreeBytesRemaining + xBlockSize[block]
        /\ allocated' = allocated /\ initialised' = initialised /\ requested' = requested
        /\ xMinimumEverFreeBytesRemaining' = xMinimumEverFreeBytesRemaining
    BY <1>1 DEF FreeBlock
  <1>3. initialised /\ block \notin allocated
    BY <1>2 DEF HeapInv
  <1>4. /\ z = xBlockSize /\ FreeBytesNow = xFreeBytesRemaining
        /\ HeapNow' = [list |-> freeList', size |-> xBlockSize']
        /\ FreeBytesNow' = xFreeBytesRemaining' /\ MinimumNow' = MinimumNow
    BY <1>2, <1>3 DEF HeapNow, FreeBytesNow, MinimumNow
  <1>5. used \cup {block} = allocated \cup freeing /\ block \notin used
    BY <1>2
  <1>6. (allocated \cup freeing)' = used /\ (allocated \cap freeing)' = {} /\ allocated \subseteq used
    BY <1>2, <1>3 DEF HeapInv
  <1> HIDE DEF l, z, used
  <1>7. /\ IsHeap(r.list, r.size, used)
        /\ FreeBytes(r.list, r.size) = FreeBytes(l, z) + z[block]
        /\ \A b \in used : r.size[b] = z[b]
    BY <1>1, <1>5, InsertKeepsHeap
  <1> HIDE DEF r
  <1>8. HeapNow'.list = r.list /\ HeapNow'.size = r.size
    BY <1>2, <1>4
  <1>9. FreeBytesNow' = FreeBytes(r.list, r.size) /\ z[block] \in Nat
    BY <1>1, <1>2, <1>4, <1>7 DEF SizeMaps
  <1>10. MinimumNow \in Nat /\ MinimumNow <= FreeBytesNow /\ requested \in SizeMaps
         /\ \A b \in allocated : z[b] - xHeapStructSize >= requested[b]
    BY DEF HeapInv, z
  <1>11. MinimumNow' <= FreeBytesNow' /\ MinimumNow' \in Nat
    BY <1>1, <1>4, <1>7, <1>9, <1>10
  <1>12. \A b \in allocated' : r.size[b] - xHeapStructSize >= requested'[b]
    BY <1>2, <1>6, <1>7, <1>10
  <1> QED BY <1>2, <1>3, <1>6, <1>7, <1>8, <1>9, <1>10, <1>11, <1>12 DEF HeapInv

LEMMA HeapInvHolds == HeapSpec => []HeapInv
  <1>1. HeapInv /\ [HeapNext]_heapVars => HeapInv'
    <2> SUFFICES ASSUME HeapInv, [HeapNext]_heapVars PROVE HeapInv'
      OBVIOUS
    <2>1. ASSUME NEW size \in Sizes, Malloc(size) PROVE HeapInv'
      <3>1. size \in Nat
        BY Heap4Assumption DEF Heap4Assumption
      <3> QED BY <2>1, <3>1, MallocKeepsHeap
    <2>2. ASSUME NEW array \in Arrays, Calloc(array[1], array[2]) PROVE HeapInv'
      <3>1. array[1] \in Nat /\ array[2] \in Nat
        BY Heap4Assumption DEF Heap4Assumption
      <3>2. array[1] * array[2] \in Nat
        BY <3>1
      <3> QED BY <2>2, <3>2, MallocKeepsHeap DEF Calloc
    <2>3. ASSUME NEW block \in Addresses, Free(block) \/ FreeBlock(block) PROVE HeapInv'
      BY <2>3, FreeKeepsHeap, FreeBlockKeepsHeap
    <2>4. CASE UNCHANGED heapVars
      BY <2>4 DEF heapVars, HeapInv, HeapNow, FreeBytesNow, MinimumNow
    <2> QED BY <2>1, <2>2, <2>3, <2>4 DEF HeapNext
  <1> QED BY <1>1, HeapInvInit, PTL DEF HeapSpec

LEMMA RisingCardinality ==
    ASSUME NEW l \in Seq(Addresses), Rising(l)
    PROVE  IsFiniteSet(ToSet(l)) /\ Cardinality(ToSet(l)) = Len(l)
  <1> DEFINE n == Len(l)
             f == [i \in 1 .. n |-> l[i]]
  <1>1. n \in Nat /\ \A x : x \in ToSet(l) <=> \E i \in 1 .. n : l[i] = x
    BY ToSetSeq
  <1>2. \A i \in 1 .. n : l[i] \in Nat
    BY ElementOfSeq, HeapBounds
  <1>3. f \in Bijection(1 .. n, ToSet(l))
    <2>1. f \in [1 .. n -> ToSet(l)]
      BY <1>1
    <2>2. \A i, j \in 1 .. n : i # j => f[i] # f[j]
      <3> SUFFICES ASSUME NEW i \in 1 .. n, NEW j \in 1 .. n, i # j PROVE l[i] # l[j]
        OBVIOUS
      <3>1. i < j \/ j < i
        BY <1>1
      <3>2. l[i] < l[j] \/ l[j] < l[i]
        BY <3>1 DEF Rising
      <3> QED BY <1>2, <3>2
    <2>3. \A x \in ToSet(l) : \E i \in 1 .. n : f[i] = x
      BY <1>1
    <2> HIDE DEF f
    <2> QED BY <2>1, <2>2, <2>3 DEF Bijection, Injection, Surjection, IsInjective
  <1>4. ExistsBijection(1 .. n, ToSet(l))
    BY <1>3 DEF ExistsBijection
  <1>5. IsFiniteSet(1 .. n) /\ Cardinality(1 .. n) = n
    <2>1. Cardinality(1 .. n) = IF 1 > n THEN 0 ELSE n - 1 + 1
      BY <1>1, FS_Interval
    <2>2. IsFiniteSet(1 .. n)
      BY <1>1, FS_Interval
    <2> QED BY <1>1, <2>1, <2>2
  <1> QED BY <1>4, <1>5, FS_Bijection

\* heap_4.c, for every heap and whatever is allocated and freed in which order, with other
\* tasks at work while a free is half done: the blocks fill the heap from end to end, none
\* overlaps another, is in the list and in use, or is smaller than what was asked for.
THEOREM BlocksAlwaysTileHeap == HeapSpec => []BlocksTileHeap
  <1>1. HeapInv => BlocksTileHeap
    <2> SUFFICES ASSUME HeapInv, initialised PROVE BlocksTileHeap
      BY DEF BlocksTileHeap
    <2> DEFINE l == freeList
               z == xBlockSize
               used == allocated \cup freeing
    <2>1. HeapNow.list = l /\ HeapNow.size = z
      BY DEF HeapNow
    <2>2. /\ l \in Seq(Addresses) /\ z \in SizeMaps /\ used \in SUBSET Addresses
          /\ ToSet(l) \cap used = {} /\ Rising(l) /\ Tiles(ToSet(l) \cup used, z)
          /\ allocated \cap freeing = {}
          /\ \A b \in allocated : z[b] - xHeapStructSize >= requested[b]
      BY <2>1 DEF HeapInv, IsHeap
    <2>3. Blocks = ToSet(l) \cup used
      BY DEF Blocks
    <2>4. /\ FirstBlock \in Blocks
          /\ \A b \in Blocks : /\ b % Alignment = 0 /\ z[b] > 0
                               /\ EndOf(b) \in Blocks \cup {pxEnd}
                               /\ \A c \in Blocks : b < c => EndOf(b) <= c
      BY <2>2, <2>3 DEF Tiles, EndOf
    <2>5. Cardinality(Blocks) = Len(l) + Cardinality(allocated) + Cardinality(freeing)
      <3>1. IsFiniteSet(Addresses)
        <4>1. FirstBlock \in Int /\ pxEnd - 1 \in Int
          BY HeapBounds
        <4> QED BY <4>1, FS_Interval DEF Addresses
      <3>2. IsFiniteSet(allocated) /\ IsFiniteSet(freeing) /\ IsFiniteSet(used)
        BY <2>2, <3>1, FS_Subset
      <3>3. IsFiniteSet(ToSet(l)) /\ Cardinality(ToSet(l)) = Len(l) /\ Len(l) \in Nat
        BY <2>2, RisingCardinality, ToSetSeq
      <3>4. /\ Cardinality(allocated) \in Nat /\ Cardinality(freeing) \in Nat
            /\ Cardinality({}) = 0
        BY <3>2, FS_CardinalityType, FS_EmptySet
      <3>5. Cardinality(used) = Cardinality(allocated) + Cardinality(freeing) - Cardinality(allocated \cap freeing)
        BY <3>2, FS_Union
      <3> HIDE DEF used
      <3>6. Cardinality(ToSet(l) \cup used) = Cardinality(ToSet(l)) + Cardinality(used) - Cardinality(ToSet(l) \cap used)
        BY <3>2, <3>3, FS_Union
      <3>7. allocated \cap freeing = {} /\ ToSet(l) \cap used = {}
        BY <2>2
      <3>11. Cardinality(allocated \cap freeing) = 0 /\ Cardinality(ToSet(l) \cap used) = 0
        BY <3>4, <3>7, Zenon
      <3>8. Cardinality(used) = Cardinality(allocated) + Cardinality(freeing)
        BY <3>4, <3>5, <3>11
      <3>9. Cardinality(ToSet(l) \cup used) = Len(l) + Cardinality(used)
        BY <3>3, <3>4, <3>6, <3>8, <3>11
      <3>10. Cardinality(Blocks) = Len(l) + Cardinality(used)
        BY <2>3, <3>9
      <3> QED BY <3>3, <3>4, <3>8, <3>10
    <2> QED BY <2>2, <2>4, <2>5 DEF BlocksTileHeap
  <1> QED BY <1>1, HeapInvHolds, PTL

\* prvInsertBlockIntoFreeList merges a block with both its neighbours whenever they are
\* free, so no two free blocks ever touch; and xFreeBytesRemaining is the sum of the list.
THEOREM FreeBlocksAlwaysMerged == HeapSpec => []FreeBlocksMerged
  <1>1. HeapInv => FreeBlocksMerged
    <2> SUFFICES ASSUME HeapInv, initialised PROVE FreeBlocksMerged
      BY DEF FreeBlocksMerged
    <2>1. /\ HeapNow.list = freeList /\ HeapNow.size = xBlockSize
          /\ FreeBytesNow = xFreeBytesRemaining /\ MinimumNow = xMinimumEverFreeBytesRemaining
      BY DEF HeapNow, FreeBytesNow, MinimumNow
    <2>2. Apart(freeList, xBlockSize)
      BY <2>1 DEF HeapInv, IsHeap
    <2>3. /\ xFreeBytesRemaining = FreeBytes(freeList, xBlockSize)
          /\ xMinimumEverFreeBytesRemaining <= xFreeBytesRemaining
      BY <2>1 DEF HeapInv
    <2> QED BY <2>2, <2>3 DEF FreeBlocksMerged, Apart, EndOf, FreeBytes
  <1> QED BY <1>1, HeapInvHolds, PTL

-----------------------------------------------------------------------------
(***************************************************************************)
(* List.  Operations on links are operations on the sequence they stand    *)
(* for: an item is linked in behind a place p, or out at a place c.        *)
(***************************************************************************)

-----------------------------------------------------------------------------
(***************************************************************************)
(* Rings.  The ring of list l holds the items of the sequence s: RingAt is *)
(* the node k links after the list's end, which is also one behind the     *)
(* last item.                                                              *)
(***************************************************************************)
RingAt(l, s, k) == IF k \in 1 .. Len(s) THEN s[k] ELSE l

Links == [Nodes -> Nodes]

Ring(l, s, nx, pv) ==
    /\ s \in Seq(Items) /\ NoDuplicates(s)
    /\ \A k \in 0 .. Len(s) : /\ nx[RingAt(l, s, k)] = RingAt(l, s, k + 1)
                              /\ pv[RingAt(l, s, k + 1)] = RingAt(l, s, k)

LEMMA RingNodes ==
    ASSUME NEW l \in Lists, NEW s \in Seq(Items), NoDuplicates(s)
    PROVE  /\ Len(s) \in Nat /\ l \in Nodes /\ l \notin Items
           /\ \A x : x \in ToSet(s) <=> \E i \in 1 .. Len(s) : s[i] = x
           /\ \A i \in 1 .. Len(s) : s[i] \in Items /\ s[i] \in Nodes /\ s[i] # l
           /\ \A i \in 1 .. Len(s) : RingAt(l, s, i) = s[i]
           /\ RingAt(l, s, 0) = l /\ RingAt(l, s, Len(s) + 1) = l
           /\ \A k \in 0 .. Len(s) + 1 : RingAt(l, s, k) \in Nodes
           /\ \A i, j \in 1 .. Len(s) : s[i] = s[j] => i = j
           /\ \A i, j \in 0 .. Len(s) : RingAt(l, s, i) = RingAt(l, s, j) => i = j
           /\ \A i, j \in 1 .. Len(s) + 1 : RingAt(l, s, i) = RingAt(l, s, j) => i = j
           /\ \A x \in Items \ ToSet(s) : \A k \in 0 .. Len(s) + 1 : RingAt(l, s, k) # x
  <1>1. /\ Len(s) \in Nat /\ DOMAIN s = 1 .. Len(s)
        /\ \A x : x \in ToSet(s) <=> \E i \in 1 .. Len(s) : s[i] = x
    BY ToSetSeq
  <1>2. l \in Nodes /\ l \notin Items
    BY ListAssumption DEF ListAssumption, Nodes
  <1>3. \A i \in 1 .. Len(s) : s[i] \in Items /\ s[i] \in Nodes /\ s[i] # l
    BY <1>2, ElementOfSeq DEF Nodes
  <1>4. \A i, j \in 1 .. Len(s) : s[i] = s[j] => i = j
    BY <1>1 DEF NoDuplicates
  <1>5. /\ \A i \in 1 .. Len(s) : RingAt(l, s, i) = s[i]
        /\ RingAt(l, s, 0) = l /\ RingAt(l, s, Len(s) + 1) = l
    BY <1>1 DEF RingAt
  <1>6. \A k \in 0 .. Len(s) + 1 : k \in 1 .. Len(s) \/ RingAt(l, s, k) = l
    BY DEF RingAt
  <1>7. \A k \in 0 .. Len(s) + 1 : RingAt(l, s, k) \in Nodes
    BY <1>2, <1>3, <1>5, <1>6
  <1>8. \A i, j \in 0 .. Len(s) : RingAt(l, s, i) = RingAt(l, s, j) => i = j
    <2> SUFFICES ASSUME NEW i \in 0 .. Len(s), NEW j \in 0 .. Len(s),
                        RingAt(l, s, i) = RingAt(l, s, j)
                 PROVE  i = j
      OBVIOUS
    <2>1. /\ i = 0 \/ (i \in 1 .. Len(s) /\ RingAt(l, s, i) = s[i] /\ s[i] # l)
          /\ j = 0 \/ (j \in 1 .. Len(s) /\ RingAt(l, s, j) = s[j] /\ s[j] # l)
      BY <1>1, <1>3, <1>5
    <2> QED BY <1>4, <1>5, <2>1
  <1>9. \A i, j \in 1 .. Len(s) + 1 : RingAt(l, s, i) = RingAt(l, s, j) => i = j
    <2> SUFFICES ASSUME NEW i \in 1 .. Len(s) + 1, NEW j \in 1 .. Len(s) + 1,
                        RingAt(l, s, i) = RingAt(l, s, j)
                 PROVE  i = j
      OBVIOUS
    <2>1. /\ i = Len(s) + 1 \/ (i \in 1 .. Len(s) /\ RingAt(l, s, i) = s[i] /\ s[i] # l)
          /\ j = Len(s) + 1 \/ (j \in 1 .. Len(s) /\ RingAt(l, s, j) = s[j] /\ s[j] # l)
      BY <1>1, <1>3, <1>5
    <2> QED BY <1>4, <1>5, <2>1
  <1>10. \A x \in Items \ ToSet(s) : \A k \in 0 .. Len(s) + 1 : RingAt(l, s, k) # x
    <2> SUFFICES ASSUME NEW x \in Items \ ToSet(s), NEW k \in 0 .. Len(s) + 1
                 PROVE  RingAt(l, s, k) # x
      OBVIOUS
    <2>1. x # l
      BY <1>2
    <2>2. k \in 1 .. Len(s) => RingAt(l, s, k) # x
      BY <1>1, <1>5
    <2> QED BY <1>6, <2>1, <2>2
  <1> QED BY <1>1, <1>2, <1>3, <1>4, <1>5, <1>7, <1>8, <1>9, <1>10

HasInserted(r, s, q, x) ==
    /\ Len(r) = Len(s) + 1
    /\ \A i \in 1 .. Len(s) + 1 :
         r[i] = IF i < q THEN s[i] ELSE IF i = q THEN x ELSE s[i - 1]

LEMMA InsertHas ==
    ASSUME NEW s \in Seq(Items), NEW x \in Items, NEW q \in 1 .. Len(s) + 1
    PROVE  InsertAt(s, q, x) \in Seq(Items) /\ HasInserted(InsertAt(s, q, x), s, q, x)
  BY InsertAtIndices DEF HasInserted

\* Links nx2 and pv2 make a ring of r; they are nx and pv but for the next of N and
\* the previous of P.
Relinked(l, r, nx, pv, nx2, pv2, N, P) ==
    /\ Ring(l, r, nx2, pv2) /\ nx2 \in Links /\ pv2 \in Links
    /\ \A y \in Nodes \ N : nx2[y] = nx[y]
    /\ \A y \in Nodes \ P : pv2[y] = pv[y]

\* An item is linked in behind place p.
LEMMA RingInsert ==
    ASSUME NEW l \in Lists, NEW s, NEW nx \in Links, NEW pv \in Links, Ring(l, s, nx, pv),
           NEW x \in Items \ ToSet(s), NEW p \in 0 .. Len(s),
           NEW before, before = RingAt(l, s, p), NEW after, after = RingAt(l, s, p + 1),
           NEW nx2, nx2 = [nx EXCEPT ![x] = after, ![before] = x],
           NEW pv2, pv2 = [pv EXCEPT ![x] = before, ![after] = x]
    PROVE  Relinked(l, InsertAt(s, p + 1, x), nx, pv, nx2, pv2, {x, before}, {x, after})
  <1> DEFINE n == Len(s)
             r == InsertAt(s, p + 1, x)
             At(k) == RingAt(l, s, k)
             At2(k) == RingAt(l, r, k)
  <1>1. /\ s \in Seq(Items) /\ NoDuplicates(s)
        /\ \A k \in 0 .. n : nx[At(k)] = At(k + 1) /\ pv[At(k + 1)] = At(k)
    BY DEF Ring
  <1>2. /\ n \in Nat /\ DOMAIN s = 1 .. n /\ \A i \in 1 .. n : At(i) = s[i]
        /\ At(0) = l /\ At(n + 1) = l
        /\ \A k \in 0 .. n + 1 : At(k) \in Nodes /\ At(k) # x
        /\ \A i, j \in 0 .. n : At(i) = At(j) => i = j
        /\ \A i, j \in 1 .. n + 1 : At(i) = At(j) => i = j
        /\ \A i \in 1 .. n : s[i] \in Items
    BY <1>1, RingNodes, ToSetSeq
  <1>3. /\ r \in Seq(Items) /\ Len(r) = n + 1
        /\ \A i \in 1 .. n + 1 : r[i] = IF i < p + 1 THEN s[i] ELSE IF i = p + 1 THEN x ELSE s[i - 1]
    <2> DEFINE q == p + 1
    <2>1. q \in 1 .. Len(s) + 1 /\ x \in Items
      BY <1>2
    <2> HIDE DEF q
    <2>2. InsertAt(s, q, x) \in Seq(Items) /\ HasInserted(InsertAt(s, q, x), s, q, x)
      BY <1>1, <2>1, InsertHas
    <2> QED BY <2>2 DEF HasInserted, q
  <1> HIDE DEF r
  <1>4. \A k \in 0 .. n + 2 : At2(k) = IF k <= p THEN At(k) ELSE IF k = p + 1 THEN x ELSE At(k - 1)
    <2> TAKE k \in 0 .. n + 2
    <2>1. CASE k \in 1 .. n + 1
      <3>1. At2(k) = r[k]
        BY <1>3, <2>1 DEF RingAt
      <3>2. k <= p => k \in 1 .. n
        BY <1>2, <2>1
      <3>3. k > p + 1 => k - 1 \in 1 .. n
        BY <1>2, <2>1
      <3> QED BY <1>2, <1>3, <2>1, <3>1, <3>2, <3>3
    <2>2. CASE k = 0
      <3>1. At2(0) = l /\ 0 <= p
        BY <1>2, <1>3 DEF RingAt
      <3> QED BY <1>2, <2>2, <3>1
    <2>3. CASE k = n + 2
      <3>1. At2(k) = l /\ ~(k <= p) /\ k # p + 1 /\ k - 1 = n + 1
        BY <1>2, <1>3, <2>3 DEF RingAt
      <3> QED BY <1>2, <3>1
    <2> QED BY <1>2, <2>1, <2>2, <2>3
  <1>5. before = At(p) /\ after = At(p + 1) /\ before \in Nodes /\ after \in Nodes
        /\ before # x /\ after # x /\ x \in Nodes /\ p \in 0 .. n
    <2>1. p \in 0 .. n + 1 /\ p + 1 \in 0 .. n + 1
      BY <1>2
    <2> QED BY <1>2, <2>1 DEF Nodes
  <1>6. /\ nx2[before] = x /\ nx2[x] = after /\ \A y \in Nodes \ {x, before} : nx2[y] = nx[y]
        /\ nx2 \in Links
    BY <1>5 DEF Links
  <1>7. /\ pv2[after] = x /\ pv2[x] = before /\ \A y \in Nodes \ {x, after} : pv2[y] = pv[y]
        /\ pv2 \in Links
    BY <1>5 DEF Links
  <1> HIDE DEF At, At2
  <1>8. ASSUME NEW k \in 0 .. n + 1 PROVE nx2[At2(k)] = At2(k + 1) /\ pv2[At2(k + 1)] = At2(k)
    <2>1. CASE k < p
      <3>1. At2(k) = At(k) /\ At2(k + 1) = At(k + 1) /\ k \in 0 .. n /\ k + 1 \in 1 .. n + 1
            /\ k # p /\ k + 1 # p + 1 /\ p + 1 \in 1 .. n + 1 /\ k \in 0 .. n + 1 /\ k + 1 \in 0 .. n + 1
        BY <1>2, <1>4, <1>5, <2>1
      <3>2. At(k) # before /\ At(k + 1) # after
        BY <1>2, <1>5, <3>1
      <3>3. At(k) \in Nodes \ {x, before} /\ At(k + 1) \in Nodes \ {x, after}
        BY <1>2, <3>1, <3>2
      <3> QED BY <1>1, <1>6, <1>7, <3>1, <3>3
    <2>2. CASE k = p
      <3>1. At2(k) = before /\ At2(k + 1) = x
        BY <1>2, <1>4, <1>5, <2>2
      <3> QED BY <1>6, <1>7, <3>1
    <2>3. CASE k = p + 1
      <3>1. At2(k) = x /\ At2(k + 1) = after
        BY <1>2, <1>4, <1>5, <2>3
      <3> QED BY <1>6, <1>7, <3>1
    <2>4. CASE k > p + 1
      <3> DEFINE j == k - 1
      <3>1. /\ j \in 0 .. n /\ j + 1 = k /\ j # p /\ j + 1 # p + 1 /\ p + 1 \in 1 .. n + 1
            /\ j + 1 \in 1 .. n + 1 /\ j \in 0 .. n + 1 /\ j + 1 \in 0 .. n + 1
            /\ At2(k) = At(j) /\ At2(k + 1) = At(j + 1)
        <4>1. k + 1 \in 0 .. n + 2 /\ k \in 0 .. n + 2 /\ ~(k + 1 <= p) /\ k + 1 # p + 1 /\ (k + 1) - 1 = k
          BY <1>2, <1>5, <2>4
        <4> QED BY <1>2, <1>4, <1>5, <2>4, <4>1
      <3> HIDE DEF j
      <3>2. At(j) # before /\ At(j + 1) # after
        BY <1>2, <1>5, <3>1
      <3>3. At(j) \in Nodes \ {x, before} /\ At(j + 1) \in Nodes \ {x, after}
        BY <1>2, <3>1, <3>2
      <3> QED BY <1>1, <1>6, <1>7, <3>1, <3>3
    <2> QED BY <1>2, <1>5, <2>1, <2>2, <2>3, <2>4
  <1>9. NoDuplicates(r)
    <2> SUFFICES ASSUME NEW i \in 1 .. n + 1, NEW j \in 1 .. n + 1, i # j PROVE r[i] # r[j]
      BY <1>3, ToSetSeq DEF NoDuplicates
    <2> DEFINE i1 == IF i < p + 1 THEN i ELSE i - 1
               j1 == IF j < p + 1 THEN j ELSE j - 1
    <2>1. /\ i # p + 1 => r[i] = s[i1] /\ i1 \in 1 .. n
          /\ j # p + 1 => r[j] = s[j1] /\ j1 \in 1 .. n
          /\ i # p + 1 /\ j # p + 1 => i1 # j1
      BY <1>2, <1>3, <1>5
    <2>2. (i = p + 1 => r[i] = x) /\ (j = p + 1 => r[j] = x)
      BY <1>3
    <2>3. \A m \in 1 .. n : s[m] # x
      BY <1>2
    <2> HIDE DEF i1, j1
    <2>4. \A a, b \in 1 .. n : a # b => s[a] # s[b]
      BY <1>1, <1>2 DEF NoDuplicates
    <2> QED BY <2>1, <2>2, <2>3, <2>4
  <1>10. Ring(l, r, nx2, pv2)
    BY <1>3, <1>8, <1>9 DEF Ring, At2
  <1> QED BY <1>6, <1>7, <1>10 DEF r, Relinked

HasRemoved(r, s, c) ==
    /\ Len(r) = Len(s) - 1
    /\ \A i \in 1 .. Len(s) - 1 : r[i] = IF i < c THEN s[i] ELSE s[i + 1]

LEMMA RemoveHas ==
    ASSUME NEW s \in Seq(Items), NEW c \in 1 .. Len(s)
    PROVE  RemoveAt(s, c) \in Seq(Items) /\ HasRemoved(RemoveAt(s, c), s, c)
  BY RemoveAtIndices DEF HasRemoved

\* The item at place c is linked out.
LEMMA RingRemove ==
    ASSUME NEW l \in Lists, NEW s, NEW nx \in Links, NEW pv \in Links, Ring(l, s, nx, pv),
           NEW c \in 1 .. Len(s),
           NEW before, before = RingAt(l, s, c - 1), NEW after, after = RingAt(l, s, c + 1),
           NEW nx2, nx2 = [nx EXCEPT ![before] = after],
           NEW pv2, pv2 = [pv EXCEPT ![after] = before]
    PROVE  Relinked(l, RemoveAt(s, c), nx, pv, nx2, pv2, {before}, {after})
  <1> DEFINE n == Len(s)
             r == RemoveAt(s, c)
             At(k) == RingAt(l, s, k)
             At2(k) == RingAt(l, r, k)
  <1>1. /\ s \in Seq(Items) /\ NoDuplicates(s)
        /\ \A k \in 0 .. n : nx[At(k)] = At(k + 1) /\ pv[At(k + 1)] = At(k)
    BY DEF Ring
  <1>2. /\ n \in Nat /\ DOMAIN s = 1 .. n /\ \A i \in 1 .. n : At(i) = s[i]
        /\ At(0) = l /\ At(n + 1) = l
        /\ \A k \in 0 .. n + 1 : At(k) \in Nodes
        /\ \A i, j \in 0 .. n : At(i) = At(j) => i = j
        /\ \A i, j \in 1 .. n + 1 : At(i) = At(j) => i = j
    BY <1>1, RingNodes, ToSetSeq
  <1>3. /\ r \in Seq(Items) /\ Len(r) = n - 1
        /\ \A i \in 1 .. n - 1 : r[i] = IF i < c THEN s[i] ELSE s[i + 1]
    BY <1>1, RemoveHas DEF HasRemoved
  <1> HIDE DEF r
  <1>4. \A k \in 0 .. n : At2(k) = IF k < c THEN At(k) ELSE At(k + 1)
    <2> TAKE k \in 0 .. n
    <2>1. CASE k \in 1 .. n - 1
      <3>1. At2(k) = r[k]
        BY <1>3, <2>1 DEF RingAt
      <3>2. k \in 1 .. n /\ k + 1 \in 1 .. n
        BY <1>2, <2>1
      <3> QED BY <1>2, <1>3, <2>1, <3>1, <3>2
    <2>2. CASE k = 0
      <3>1. At2(0) = l /\ 0 < c
        BY <1>2, <1>3 DEF RingAt
      <3> QED BY <1>2, <2>2, <3>1
    <2>3. CASE k = n
      <3>1. At2(k) = l /\ ~(k < c) /\ k + 1 = n + 1
        BY <1>2, <1>3, <2>3 DEF RingAt
      <3>2. k \in 0 .. n + 1 /\ k # 0
        BY <1>2, <2>3
      <3> QED BY <1>2, <2>3, <3>1, <3>2
    <2>4. k \in 1 .. n - 1 \/ k = 0 \/ k = n
      <3>1. n \in Nat
        BY <1>2
      <3> HIDE DEF n
      <3> QED BY <3>1
    <2> HIDE DEF At, At2
    <2> QED BY <2>1, <2>2, <2>3, <2>4
  <1>5. before = At(c - 1) /\ after = At(c + 1) /\ before \in Nodes /\ after \in Nodes
        /\ c \in 1 .. n
    <2>1. c - 1 \in 0 .. n + 1 /\ c + 1 \in 0 .. n + 1
      BY <1>2
    <2> QED BY <1>2, <2>1
  <1>6. /\ nx2[before] = after /\ \A y \in Nodes \ {before} : nx2[y] = nx[y]
        /\ nx2 \in Links
    BY <1>5 DEF Links
  <1>7. /\ pv2[after] = before /\ \A y \in Nodes \ {after} : pv2[y] = pv[y]
        /\ pv2 \in Links
    BY <1>5 DEF Links
  <1> HIDE DEF At, At2
  <1>8. ASSUME NEW k \in 0 .. n - 1 PROVE nx2[At2(k)] = At2(k + 1) /\ pv2[At2(k + 1)] = At2(k)
    <2>1. CASE k < c - 1
      <3>1. At2(k) = At(k) /\ At2(k + 1) = At(k + 1) /\ k \in 0 .. n /\ k + 1 \in 1 .. n + 1
            /\ k # c - 1 /\ k + 1 # c + 1 /\ c - 1 \in 0 .. n /\ c + 1 \in 1 .. n + 1
            /\ k \in 0 .. n + 1 /\ k + 1 \in 0 .. n + 1
        BY <1>2, <1>4, <1>5, <2>1
      <3>2. At(k) # before /\ At(k + 1) # after
        BY <1>2, <1>5, <3>1
      <3>3. At(k) \in Nodes \ {before} /\ At(k + 1) \in Nodes \ {after}
        BY <1>2, <3>1, <3>2
      <3> QED BY <1>1, <1>6, <1>7, <3>1, <3>3
    <2>2. CASE k = c - 1
      <3>1. At2(k) = before /\ At2(k + 1) = after
        BY <1>2, <1>4, <1>5, <2>2
      <3> QED BY <1>6, <1>7, <3>1
    <2>3. CASE k > c - 1
      <3> DEFINE j == k + 1
      <3>1. /\ j \in 0 .. n /\ j # c - 1 /\ j + 1 # c + 1 /\ c - 1 \in 0 .. n /\ c + 1 \in 1 .. n + 1
            /\ j + 1 \in 1 .. n + 1 /\ j \in 0 .. n + 1 /\ j + 1 \in 0 .. n + 1
            /\ At2(k) = At(j) /\ At2(k + 1) = At(j + 1)
        <4>1. k + 1 \in 0 .. n /\ k \in 0 .. n /\ ~(k + 1 < c) /\ ~(k < c)
          BY <1>2, <1>5, <2>3
        <4> QED BY <1>2, <1>4, <1>5, <2>3, <4>1
      <3> HIDE DEF j
      <3>2. At(j) # before /\ At(j + 1) # after
        BY <1>2, <1>5, <3>1
      <3>3. At(j) \in Nodes \ {before} /\ At(j + 1) \in Nodes \ {after}
        BY <1>2, <3>1, <3>2
      <3> QED BY <1>1, <1>6, <1>7, <3>1, <3>3
    <2> QED BY <1>2, <1>5, <2>1, <2>2, <2>3
  <1>9. NoDuplicates(r)
    <2> SUFFICES ASSUME NEW i \in 1 .. n - 1, NEW j \in 1 .. n - 1, i # j PROVE r[i] # r[j]
      BY <1>3, ToSetSeq DEF NoDuplicates
    <2> DEFINE i1 == IF i < c THEN i ELSE i + 1
               j1 == IF j < c THEN j ELSE j + 1
    <2>1. r[i] = s[i1] /\ r[j] = s[j1]
      BY <1>3
    <2>2. i1 \in 1 .. n /\ j1 \in 1 .. n /\ i1 # j1
      <3>1. n \in Nat /\ c \in 1 .. n
        BY <1>2
      <3> QED BY <3>1
    <2> HIDE DEF i1, j1
    <2> QED BY <1>1, <1>2, <2>1, <2>2 DEF NoDuplicates
  <1>10. Ring(l, r, nx2, pv2)
    BY <1>3, <1>8, <1>9 DEF Ring, At2
  <1> QED BY <1>6, <1>7, <1>10 DEF r, Relinked

\* The other rings are not touched.
LEMMA RingKept ==
    ASSUME NEW l \in Lists, NEW s, NEW nx, NEW pv, Ring(l, s, nx, pv), NEW nx2, NEW pv2,
           \A y \in {l} \cup ToSet(s) : nx2[y] = nx[y] /\ pv2[y] = pv[y]
    PROVE  Ring(l, s, nx2, pv2)
  <1>1. s \in Seq(Items) /\ NoDuplicates(s)
    BY DEF Ring
  <1>2. Len(s) \in Nat /\ \A k \in 0 .. Len(s) + 1 : RingAt(l, s, k) \in {l} \cup ToSet(s)
    BY <1>1, ToSetSeq DEF RingAt
  <1>3. \A k \in 0 .. Len(s) : k \in 0 .. Len(s) + 1 /\ k + 1 \in 0 .. Len(s) + 1
    BY <1>2
  <1> QED BY <1>1, <1>2, <1>3 DEF Ring

\* What Nth makes of links nx.
NthOf(nx, l, k) == LET nth[i \in 0 .. Cardinality(Items) + 1] ==
                           IF i = 0 THEN l ELSE nx[nth[i - 1]]
                   IN  nth[k]

LEMMA NthExists ==
    ASSUME NEW nx \in Links, NEW l \in Lists, NEW m \in Nat
    PROVE  \E f \in [0 .. m -> Nodes] :
               f = [i \in 0 .. m |-> IF i = 0 THEN l ELSE nx[f[i - 1]]]
  <1> DEFINE Walks(f, k) == /\ f \in [0 .. k -> Nodes] /\ f[0] = l
                            /\ \A i \in 1 .. k : f[i] = nx[f[i - 1]]
             P == [k \in Nat |-> \E f : Walks(f, k)]
  <1>1. \A k \in Nat : P[k] <=> \E f : Walks(f, k)
    OBVIOUS
  <1>2. l \in Nodes /\ \A y \in Nodes : nx[y] \in Nodes
    BY DEF Nodes, Links
  <1> HIDE DEF P
  <1>3. P[0]
    <2> DEFINE f == [i \in 0 .. 0 |-> l]
    <2>1. f \in [0 .. 0 -> Nodes] /\ f[0] = l
      BY <1>2
    <2>2. \A i \in 1 .. 0 : FALSE
      OBVIOUS
    <2> HIDE DEF f
    <2>3. Walks(f, 0)
      BY <2>1, <2>2
    <2> QED BY <1>1, <2>3
  <1>4. ASSUME NEW k \in Nat, P[k] PROVE P[k + 1]
    <2>1. PICK f : Walks(f, k)
      BY <1>1, <1>4
    <2> DEFINE g == [i \in 0 .. k + 1 |-> IF i = k + 1 THEN nx[f[k]] ELSE f[i]]
    <2>2. f[k] \in Nodes /\ \A i \in 0 .. k : f[i] \in Nodes
      BY <2>1
    <2>3. \A i \in 0 .. k + 1 : g[i] = IF i = k + 1 THEN nx[f[k]] ELSE f[i]
      OBVIOUS
    <2>4. g \in [0 .. k + 1 -> Nodes]
      BY <1>2, <2>2
    <2> HIDE DEF g
    <2>5. g[0] = l
      <3>1. 0 \in 0 .. k + 1 /\ 0 # k + 1
        OBVIOUS
      <3> QED BY <2>1, <2>3, <3>1
    <2>6. ASSUME NEW i \in 1 .. k + 1 PROVE g[i] = nx[g[i - 1]]
      <3>1. i \in 0 .. k + 1 /\ i - 1 \in 0 .. k + 1 /\ i - 1 # k + 1
        OBVIOUS
      <3>2. g[i - 1] = f[i - 1]
        BY <2>3, <3>1
      <3>3. CASE i = k + 1
        BY <2>3, <3>1, <3>2, <3>3
      <3>4. CASE i # k + 1
        <4>1. i \in 1 .. k /\ g[i] = f[i]
          BY <2>3, <3>1, <3>4
        <4> QED BY <2>1, <3>2, <4>1
      <3> QED BY <3>3, <3>4
    <2>7. Walks(g, k + 1) /\ k + 1 \in Nat
      BY <2>4, <2>5, <2>6
    <2> QED BY <1>1, <2>7
  <1>5. P[m]
    <2>1. \A k \in Nat : P[k]
      BY <1>3, <1>4, Induction
    <2> QED BY <2>1
  <1>6. PICK f : Walks(f, m)
    BY <1>1, <1>5
  <1>7. ASSUME NEW i \in 0 .. m PROVE f[i] = IF i = 0 THEN l ELSE nx[f[i - 1]]
    <2>1. CASE i = 0
      BY <1>6, <2>1
    <2>2. CASE i # 0
      <3>1. i \in 1 .. m
        BY <2>2
      <3> QED BY <1>6, <2>2, <3>1
    <2> QED BY <2>1, <2>2
  <1>8. f = [i \in 0 .. m |-> f[i]]
    BY <1>6
  <1> QED BY <1>6, <1>7, <1>8

LEMMA NthIs ==
    ASSUME NEW nx \in Links, NEW pv, NEW l \in Lists, NEW s, Ring(l, s, nx, pv)
    PROVE  /\ Len(s) <= Cardinality(Items) /\ Cardinality(Items) \in Nat
           /\ \A k \in 0 .. Len(s) + 1 : NthOf(nx, l, k) = RingAt(l, s, k)
  <1> DEFINE n == Len(s)
             N == Cardinality(Items) + 1
             Solves(g) == g = [i \in 0 .. N |-> IF i = 0 THEN l ELSE nx[g[i - 1]]]
             nth == CHOOSE g : Solves(g)
  <1>1. /\ s \in Seq(Items) /\ NoDuplicates(s) /\ n \in Nat
        /\ \A k \in 0 .. n : nx[RingAt(l, s, k)] = RingAt(l, s, k + 1)
    BY ToSetSeq DEF Ring
  <1>2. Cardinality(Items) \in Nat /\ n <= Cardinality(Items)
    <2> DEFINE f == [i \in 1 .. n |-> s[i]]
    <2>1. f \in Injection(1 .. n, Items)
      <3>1. f \in [1 .. n -> Items]
        BY <1>1, ElementOfSeq
      <3>2. \A i, j \in 1 .. n : f[i] = f[j] => i = j
        BY <1>1, ToSetSeq DEF NoDuplicates
      <3> HIDE DEF f
      <3> QED BY <3>1, <3>2 DEF Injection, IsInjective
    <2>2. IsFiniteSet(Items)
      BY ListAssumption DEF ListAssumption
    <2>3. Cardinality(1 .. n) <= Cardinality(Items)
      BY <2>1, <2>2, FS_Injection
    <2>4. Cardinality(1 .. n) = IF 1 > n THEN 0 ELSE n - 1 + 1
      BY <1>1, FS_Interval
    <2>5. Cardinality(Items) \in Nat
      BY <2>2, FS_CardinalityType
    <2> QED BY <1>1, <2>3, <2>4, <2>5
  <1>3. N \in Nat /\ n + 1 <= N
    BY <1>1, <1>2
  <1>4. \A k : NthOf(nx, l, k) = nth[k]
    BY DEF NthOf
  <1> HIDE DEF N
  <1>5. Solves(nth)
    <2>1. \E g : Solves(g)
      <3>1. PICK f \in [0 .. N -> Nodes] :
                   f = [i \in 0 .. N |-> IF i = 0 THEN l ELSE nx[f[i - 1]]]
        BY <1>3, NthExists
      <3>2. Solves(f)
        BY <3>1
      <3> HIDE DEF Solves
      <3> QED BY <3>2
    <2> HIDE DEF Solves
    <2> QED BY <2>1
  <1> HIDE DEF nth, n
  <1>6. nth[0] = l /\ \A k \in Nat : k + 1 \in 1 .. N => nth[k + 1] = nx[nth[k]]
    <2>1. 0 \in 0 .. N
      BY <1>3
    <2>2. nth[0] = l
      BY <1>5, <2>1
    <2>3. ASSUME NEW k \in Nat, k + 1 \in 1 .. N PROVE nth[k + 1] = nx[nth[k]]
      <3>1. k + 1 \in 0 .. N /\ k + 1 # 0 /\ (k + 1) - 1 = k
        BY <1>3, <2>3
      <3> QED BY <1>5, <3>1
    <2> QED BY <2>2, <2>3
  <1> DEFINE P == [k \in Nat |-> k \in 0 .. n + 1 => nth[k] = RingAt(l, s, k)]
  <1>7. \A k \in Nat : P[k] <=> (k \in 0 .. n + 1 => nth[k] = RingAt(l, s, k))
    OBVIOUS
  <1> HIDE DEF P
  <1>8. P[0]
    <2>1. RingAt(l, s, 0) = l
      BY <1>1 DEF RingAt
    <2> QED BY <1>6, <1>7, <2>1
  <1>9. ASSUME NEW k \in Nat, P[k] PROVE P[k + 1]
    <2>1. SUFFICES ASSUME k + 1 \in 0 .. n + 1 PROVE nth[k + 1] = RingAt(l, s, k + 1)
      <3>1. k + 1 \in Nat
        OBVIOUS
      <3> QED BY <1>7, <3>1
    <2>2. k \in 0 .. n /\ k \in 0 .. n + 1 /\ k + 1 \in 1 .. N
      BY <1>1, <1>3, <2>1
    <2>3. nth[k] = RingAt(l, s, k)
      BY <1>7, <1>9, <2>2
    <2>4. nth[k + 1] = nx[nth[k]]
      BY <1>6, <2>2
    <2> QED BY <1>1, <2>2, <2>3, <2>4
  <1>10. \A k \in Nat : P[k]
    BY <1>8, <1>9, Induction
  <1>11. \A k \in 0 .. n + 1 : k \in Nat
    BY <1>1
  <1>12. \A k \in 0 .. n + 1 : nth[k] = RingAt(l, s, k)
    BY <1>7, <1>10, <1>11
  <1> QED BY <1>2, <1>4, <1>12 DEF n

-----------------------------------------------------------------------------
(***************************************************************************)
(* List l of the model, whose variables are the last five parameters: its  *)
(* ring holds sequence s, and its rotation has got to place t.             *)
(***************************************************************************)
Shape(l, s, t, nx, pv, con, num, idx) ==
    /\ Ring(l, s, nx, pv) /\ num[l] = Len(s)
    /\ t \in 0 .. Len(s) /\ idx[l] = RingAt(l, s, t)
    /\ \A x \in Items : x \in ToSet(s) <=> con[x] = l

Turn(l) == CHOOSE k \in 0 .. uxNumberOfItems[l] : pxIndex[l] = Nth(l, k)

LinksOK == /\ pxNext \in Links /\ pxPrevious \in Links
           /\ pxContainer \in [Items -> Lists \cup {NULL}]
           /\ xItemValue \in [Items -> Values]
           /\ uxNumberOfItems \in [Lists -> Nat]
           /\ pxIndex \in [Lists -> Nodes]

RingsOK == \A l \in Lists : Shape(l, Forward(l), Turn(l), pxNext, pxPrevious, pxContainer,
                                  uxNumberOfItems, pxIndex)

ListInv == LinksOK /\ RingsOK

\* What Forward and Turn make of links nx, n items and an index i.
SequenceOf(nx, n, l) == [k \in 1 .. n |-> NthOf(nx, l, k)]
TurnOf(nx, n, i, l)  == CHOOSE k \in 0 .. n : i = NthOf(nx, l, k)

LEMMA RingReads ==
    ASSUME NEW nx \in Links, NEW pv, NEW l \in Lists, NEW s, Ring(l, s, nx, pv),
           NEW n, n = Len(s), NEW t \in 0 .. Len(s), NEW i, i = RingAt(l, s, t)
    PROVE  SequenceOf(nx, n, l) = s /\ TurnOf(nx, n, i, l) = t
  <1>1. s \in Seq(Items) /\ NoDuplicates(s) /\ n \in Nat
    BY ToSetSeq DEF Ring
  <1>2. \A k \in 0 .. n + 1 : NthOf(nx, l, k) = RingAt(l, s, k)
    BY NthIs
  <1>3. \A k \in 1 .. n : NthOf(nx, l, k) = s[k]
    <2>1. \A k \in 1 .. n : k \in 0 .. n + 1 /\ RingAt(l, s, k) = s[k]
      BY <1>1, RingNodes
    <2> QED BY <1>2, <2>1
  <1>4. SequenceOf(nx, n, l) = s
    <2>1. s = [k \in 1 .. n |-> s[k]]
      BY <1>1, LenProperties
    <2>2. SequenceOf(nx, n, l) = [k \in 1 .. n |-> s[k]]
      BY <1>3 DEF SequenceOf
    <2> QED BY <2>1, <2>2
  <1>5. \A k \in 0 .. n : i = NthOf(nx, l, k) <=> k = t
    <2>1. \A j, k \in 0 .. n : RingAt(l, s, j) = RingAt(l, s, k) => j = k
      BY <1>1, RingNodes
    <2>2. \A k \in 0 .. n : NthOf(nx, l, k) = RingAt(l, s, k)
      BY <1>1, <1>2
    <2> QED BY <2>1, <2>2
  <1>6. TurnOf(nx, n, i, l) = t
    BY <1>5 DEF TurnOf
  <1> QED BY <1>4, <1>6

LEMMA Readings ==
    /\ \A l, k : Nth(l, k) = NthOf(pxNext, l, k)
    /\ \A l, k : Nth(l, k)' = NthOf(pxNext', l, k)
    /\ \A l : Forward(l) = SequenceOf(pxNext, uxNumberOfItems[l], l)
    /\ \A l : Forward(l)' = SequenceOf(pxNext', uxNumberOfItems'[l], l)
    /\ \A l : Turn(l) = TurnOf(pxNext, uxNumberOfItems[l], pxIndex[l], l)
    /\ \A l : Turn(l)' = TurnOf(pxNext', uxNumberOfItems'[l], pxIndex'[l], l)
  <1>1. /\ \A l, k : Nth(l, k) = NthOf(pxNext, l, k)
        /\ \A l, k : Nth(l, k)' = NthOf(pxNext', l, k)
    BY DEF Nth, NthOf
  <1>2. /\ \A l : Forward(l) = SequenceOf(pxNext, uxNumberOfItems[l], l)
        /\ \A l : Forward(l)' = SequenceOf(pxNext', uxNumberOfItems'[l], l)
    BY <1>1 DEF Forward, SequenceOf
  <1>3. /\ \A l : Turn(l) = TurnOf(pxNext, uxNumberOfItems[l], pxIndex[l], l)
        /\ \A l : Turn(l)' = TurnOf(pxNext', uxNumberOfItems'[l], pxIndex'[l], l)
    BY <1>1 DEF Turn, TurnOf
  <1> QED BY <1>1, <1>2, <1>3

\* If after a step the rings hold the sequences S, with the turns T, this is what
\* is read in them.
LEMMA ShapesNext ==
    ASSUME LinksOK', NEW S, NEW T,
           \A l \in Lists : Shape(l, S[l], T[l], pxNext', pxPrevious', pxContainer',
                                  uxNumberOfItems', pxIndex')
    PROVE  ListInv' /\ \A l \in Lists : Forward(l)' = S[l] /\ Turn(l)' = T[l]
  <1>1. pxNext' \in Links
    BY DEF LinksOK
  <1>2. ASSUME NEW l \in Lists PROVE Forward(l)' = S[l] /\ Turn(l)' = T[l]
    <2>1. /\ Ring(l, S[l], pxNext', pxPrevious') /\ uxNumberOfItems'[l] = Len(S[l])
          /\ T[l] \in 0 .. Len(S[l]) /\ pxIndex'[l] = RingAt(l, S[l], T[l])
      BY DEF Shape
    <2> QED BY <1>1, <2>1, RingReads, Readings
  <1>3. RingsOK'
    <2>1. \A l \in Lists : Shape(l, Forward(l)', Turn(l)', pxNext', pxPrevious', pxContainer',
                                 uxNumberOfItems', pxIndex')
      BY <1>2
    <2> QED BY <2>1 DEF RingsOK
  <1> QED BY <1>2, <1>3 DEF ListInv

LEMMA SameOperators ==
    /\ \A s, k, x : Sequences!InsertAt(s, k, x) = InsertAt(s, k, x)
    /\ \A s, v, x : Sequences!ListInsert(s, v, x) = ListInsert(s, v, x)
    /\ \A s, x : Sequences!ListRemove(s, x) = ListRemove(s, x)
    /\ \A s : Sequences!ToSet(s) = ToSet(s)
  <1>1. \A s, k, x : Sequences!InsertAt(s, k, x) = InsertAt(s, k, x)
    BY DEF Sequences!InsertAt, InsertAt
  <1>2. \A s, k : Sequences!RemoveAt(s, k) = RemoveAt(s, k)
    BY DEF Sequences!RemoveAt, RemoveAt
  <1>3. \A s : Sequences!ToSet(s) = ToSet(s)
    BY DEF Sequences!ToSet, ToSet
  <1>4. \A S : Sequences!Cardinality(S) = Cardinality(S)
    BY DEF Sequences!Cardinality, Cardinality
  <1>5. \A s, v, x : Sequences!ListInsert(s, v, x) = ListInsert(s, v, x)
    BY <1>1, <1>4 DEF Sequences!ListInsert, ListInsert
  <1>6. \A s, x : Sequences!ListRemove(s, x) = ListRemove(s, x)
    BY <1>2, <1>3 DEF Sequences!ListRemove, ListRemove
  <1> QED BY <1>1, <1>3, <1>5, <1>6

-----------------------------------------------------------------------------
\* p is the place behind which an item of value v belongs in s.
BelongsBehind(p, s, val, v) ==
    /\ p \in 0 .. Len(s)
    /\ \A j \in 1 .. p : val[s[j]] <= v
    /\ p = Len(s) \/ val[s[p + 1]] > v

LEMMA PlaceExists ==
    ASSUME NEW s \in Seq(Items), NEW val \in [Items -> Values], NEW v \in Values
    PROVE  \E p : BelongsBehind(p, s, val, v)
  <1> DEFINE T == {k \in Nat : k = Len(s) \/ (k < Len(s) /\ val[s[k + 1]] > v)}
             R == OpToRel(<, Nat)
  <1>1. Len(s) \in Nat /\ \A i \in 1 .. Len(s) : val[s[i]] \in Nat
    BY ElementOfSeq, LenProperties DEF Values
  <1>2. T # {} /\ T \subseteq Nat /\ v \in Nat
    BY <1>1 DEF Values
  <1>3. PICK p \in T : \A y \in T : <<y, p>> \notin R
    <2> HIDE DEF T, R
    <2>1. IsWellFoundedOn(R, Nat)
      BY NatLessThanWellFounded DEF R
    <2> QED BY <1>2, <2>1, WFMin
  <1>4. \A y \in T : ~(y < p)
    BY <1>3 DEF OpToRel
  <1>5. p \in 0 .. Len(s) /\ (p = Len(s) \/ val[s[p + 1]] > v)
    BY <1>1
  <1>6. ASSUME NEW j \in 1 .. p PROVE val[s[j]] <= v
    <2>1. j - 1 \in Nat /\ j - 1 < p /\ j \in 1 .. Len(s) /\ (j - 1) + 1 = j
      BY <1>5
    <2>2. j - 1 \notin T
      BY <1>4, <2>1
    <2>3. ~(val[s[j]] > v)
      <3>1. j - 1 < Len(s)
        BY <1>5, <2>1
      <3> QED BY <2>1, <2>2, <3>1
    <2> QED BY <1>1, <1>2, <2>1, <2>3
  <1> QED BY <1>5, <1>6 DEF BelongsBehind

\* It is the place ListInsert finds, as value v is that of the new item x,
LEMMA ListInsertPlace ==
    ASSUME NEW s \in Seq(Items), NEW val \in [Items -> Values], NEW v \in Values,
           NEW p, BelongsBehind(p, s, val, v), NEW x \in Items \ ToSet(s),
           NEW val2, val2[x] = v, \A y \in Items \ {x} : val2[y] = val[y], NEW q, q = p + 1
    PROVE  ListInsert(s, val2, x) = InsertAt(s, q, x)
  <1> DEFINE ahead == {i \in DOMAIN s : \A j \in 1 .. i : val2[s[j]] <= val2[x]}
  <1>1. /\ Len(s) \in Nat /\ DOMAIN s = 1 .. Len(s)
        /\ \A i \in 1 .. Len(s) : s[i] \in Items /\ s[i] # x
    BY ToSetSeq, ElementOfSeq
  <1>2. val2[x] = v /\ \A i \in 1 .. Len(s) : val2[s[i]] = val[s[i]] /\ val[s[i]] \in Nat
    BY <1>1 DEF Values
  <1>3. p \in 0 .. Len(s) /\ (\A j \in 1 .. p : val[s[j]] <= v) /\ v \in Nat
        /\ (p = Len(s) \/ val[s[p + 1]] > v)
    BY DEF BelongsBehind, Values
  <1> HIDE DEF ahead
  <1>8. p \in Nat /\ p <= Len(s) /\ Len(s) \in Nat
    <2>1. p \in 0 .. Len(s)
      BY <1>3
    <2>2. Len(s) \in Nat
      BY <1>1
    <2> QED BY <2>1, <2>2
  <1>4. \A i \in 1 .. Len(s) : (\A j \in 1 .. i : val2[s[j]] <= val2[x]) <=> i \in 1 .. p
    <2> TAKE i \in 1 .. Len(s)
    <2>1. ASSUME i \in 1 .. p, NEW j \in 1 .. i PROVE val2[s[j]] <= val2[x]
      <3>1. j \in 1 .. p /\ j \in 1 .. Len(s)
        BY <1>8, <2>1
      <3> QED BY <1>2, <1>3, <3>1
    <2>2. ASSUME i \notin 1 .. p PROVE ~ \A j \in 1 .. i : val2[s[j]] <= val2[x]
      <3>1. p + 1 \in 1 .. i /\ p + 1 \in 1 .. Len(s) /\ p # Len(s)
        BY <1>8, <2>2
      <3>2. ~(val2[s[p + 1]] <= val2[x])
        BY <1>2, <1>3, <3>1
      <3> QED BY <3>1, <3>2
    <2> QED BY <2>1, <2>2
  <1>5. ahead = 1 .. p
    <2>1. \A i \in 1 .. p : i \in 1 .. Len(s)
      BY <1>8
    <2> QED BY <1>1, <1>4, <2>1 DEF ahead
  <1>6. Cardinality(1 .. p) = p
    BY <1>3, FS_Interval
  <1>7. ListInsert(s, val2, x) = InsertAt(s, Cardinality(ahead) + 1, x)
    BY DEF ListInsert, ahead
  <1> QED BY <1>5, <1>6, <1>7

\* and the one vListInsert stops at.
LEMMA InsertionPlace ==
    ASSUME LinksOK, NEW l \in Lists, NEW s, Ring(l, s, pxNext, pxPrevious), NEW v \in Values,
           NEW p, BelongsBehind(p, s, xItemValue, v)
    PROVE  InsertionPoint(l, v) = RingAt(l, s, p)
  <1> DEFINE n == Len(s)
             N == Cardinality(Items)
             Stops(k) == /\ ValueOf(Nth(l, k + 1)) > v
                         /\ \A j \in 1 .. k : ValueOf(Nth(l, j)) <= v
  <1>1. /\ s \in Seq(Items) /\ NoDuplicates(s) /\ n \in Nat
        /\ pxPrevious[RingAt(l, s, n + 1)] = RingAt(l, s, n)
    BY ToSetSeq DEF Ring
  <1>2. /\ pxNext \in Links /\ xItemValue \in [Items -> Values]
        /\ v \in Nat /\ v <= portMAX_DELAY /\ portMAX_DELAY \in Nat
    BY TickTypeAssumption DEF LinksOK, Values, TickTypeAssumption
  <1>3. /\ n <= N /\ N \in Nat
        /\ \A k \in 0 .. n + 1 : Nth(l, k) = RingAt(l, s, k)
    BY <1>2, NthIs, Readings
  <1>4. /\ p \in 0 .. n /\ (\A j \in 1 .. p : xItemValue[s[j]] <= v)
        /\ (p = n \/ xItemValue[s[p + 1]] > v)
    BY DEF BelongsBehind
  <1>5. \A k \in 1 .. n : ValueOf(Nth(l, k)) = xItemValue[s[k]] /\ xItemValue[s[k]] \in Values
    <2> SUFFICES ASSUME NEW k \in 1 .. n
                 PROVE  ValueOf(Nth(l, k)) = xItemValue[s[k]] /\ xItemValue[s[k]] \in Values
      OBVIOUS
    <2>1. k \in 0 .. n + 1 /\ RingAt(l, s, k) = s[k] /\ s[k] \in Items
      BY <1>1, RingNodes
    <2>2. s[k] \notin Lists
      BY <2>1, ListAssumption DEF ListAssumption
    <2> QED BY <1>2, <1>3, <2>1, <2>2 DEF ValueOf
  <1>6. ValueOf(Nth(l, n + 1)) = portMAX_DELAY
    <2>1. n + 1 \in 0 .. n + 1 /\ RingAt(l, s, n + 1) = l
      BY <1>1, RingNodes
    <2> QED BY <1>3, <2>1 DEF ValueOf
  <1>7. CASE v = portMAX_DELAY
    <2>1. p = n
      <3> SUFFICES ASSUME p # n PROVE FALSE
        OBVIOUS
      <3>1. p + 1 \in 1 .. n
        BY <1>1, <1>4
      <3>2. xItemValue[s[p + 1]] \in 0 .. portMAX_DELAY /\ xItemValue[s[p + 1]] > v
        BY <1>4, <1>5, <3>1 DEF Values
      <3> QED BY <1>2, <1>7, <3>2
    <2>2. RingAt(l, s, n + 1) = l
      BY <1>1, RingNodes
    <2> QED BY <1>1, <1>7, <2>1, <2>2 DEF InsertionPoint
  <1>8. CASE v # portMAX_DELAY
    <2>1. p \in 0 .. N /\ Stops(p)
      <3>1. p \in 0 .. N
        BY <1>1, <1>3, <1>4
      <3>2. ValueOf(Nth(l, p + 1)) > v
        <4>1. CASE p = n
          BY <1>2, <1>6, <1>8, <4>1
        <4>2. CASE p # n
          <5>1. p + 1 \in 1 .. n
            BY <1>1, <1>4, <4>2
          <5> QED BY <1>4, <1>5, <4>2, <5>1
        <4> QED BY <4>1, <4>2
      <3>3. ASSUME NEW j \in 1 .. p PROVE ValueOf(Nth(l, j)) <= v
        <4>1. j \in 1 .. n
          BY <1>1, <1>4
        <4> QED BY <1>4, <1>5, <4>1
      <3> QED BY <3>1, <3>2, <3>3
    <2>2. ASSUME NEW k \in 0 .. N, Stops(k) PROVE k = p
      <3>1. k <= p
        <4> SUFFICES ASSUME k > p PROVE FALSE
          BY <1>1, <1>4
        <4>1. p + 1 \in 1 .. k
          BY <1>1, <1>4
        <4>2. ValueOf(Nth(l, p + 1)) <= v /\ ValueOf(Nth(l, p + 1)) > v
          BY <2>1, <2>2, <4>1
        <4>3. ValueOf(Nth(l, p + 1)) \in Nat
          <5>1. p + 1 \in 1 .. n \/ p + 1 = n + 1
            BY <1>1, <1>4
          <5> QED BY <1>2, <1>5, <1>6, <5>1 DEF Values
        <4> QED BY <1>2, <4>2, <4>3
      <3>2. k >= p
        <4> SUFFICES ASSUME k < p PROVE FALSE
          BY <1>1, <1>4
        <4>1. k + 1 \in 1 .. p /\ k + 1 \in 1 .. n
          BY <1>1, <1>4
        <4>2. ValueOf(Nth(l, k + 1)) <= v /\ ValueOf(Nth(l, k + 1)) > v
          BY <2>1, <2>2, <4>1
        <4>3. ValueOf(Nth(l, k + 1)) \in Nat
          BY <1>5, <4>1 DEF Values
        <4> QED BY <1>2, <4>2, <4>3
      <3> QED BY <1>1, <1>4, <3>1, <3>2
    <2>3. (CHOOSE k \in 0 .. N : Stops(k)) = p
      <3> HIDE DEF Stops
      <3> QED BY <2>1, <2>2
    <2>4. InsertionPoint(l, v) = Nth(l, CHOOSE k \in 0 .. N : Stops(k))
      BY <1>8 DEF InsertionPoint
    <2>5. p \in 0 .. n + 1
      BY <1>1, <1>4
    <2> HIDE DEF Stops
    <2> QED BY <1>3, <2>3, <2>4, <2>5
  <1> QED BY <1>7, <1>8

-----------------------------------------------------------------------------
\* What RingsOK says of a list, and what it says of two.
LEMMA ListShape ==
    ASSUME ListInv, NEW l \in Lists
    PROVE  /\ Ring(l, Forward(l), pxNext, pxPrevious) /\ uxNumberOfItems[l] = Len(Forward(l))
           /\ Turn(l) \in 0 .. Len(Forward(l)) /\ pxIndex[l] = RingAt(l, Forward(l), Turn(l))
           /\ \A x \in Items : x \in ToSet(Forward(l)) <=> pxContainer[x] = l
           /\ Forward(l) \in Seq(Items) /\ NoDuplicates(Forward(l)) /\ Len(Forward(l)) \in Nat
           /\ \A k \in 0 .. Len(Forward(l)) :
                /\ pxNext[RingAt(l, Forward(l), k)] = RingAt(l, Forward(l), k + 1)
                /\ pxPrevious[RingAt(l, Forward(l), k + 1)] = RingAt(l, Forward(l), k)
  <1>1. Shape(l, Forward(l), Turn(l), pxNext, pxPrevious, pxContainer, uxNumberOfItems, pxIndex)
    BY DEF ListInv, RingsOK
  <1>2. Ring(l, Forward(l), pxNext, pxPrevious)
    BY <1>1 DEF Shape
  <1>3. Forward(l) \in Seq(Items)
    BY <1>2 DEF Ring
  <1>4. Len(Forward(l)) \in Nat
    BY <1>3, LenProperties
  <1> QED BY <1>1, <1>2, <1>4 DEF Shape, Ring

\* The nodes of a ring are not those of another.
LEMMA RingsApart ==
    ASSUME ListInv, NEW l \in Lists, NEW m \in Lists, m # l,
           NEW k \in 0 .. Len(Forward(l)) + 1, NEW y \in {m} \cup ToSet(Forward(m))
    PROVE  RingAt(l, Forward(l), k) # y
  <1>1. /\ \A x \in Items : x \in ToSet(Forward(l)) => pxContainer[x] = l
        /\ \A x \in Items : x \in ToSet(Forward(m)) => pxContainer[x] = m
        /\ ToSet(Forward(m)) \subseteq Items /\ ToSet(Forward(l)) \subseteq Items
        /\ \A i \in 1 .. Len(Forward(l)) : Forward(l)[i] \in ToSet(Forward(l))
    BY ListShape, ToSetSeq
  <1>2. Items \cap Lists = {}
    BY ListAssumption DEF ListAssumption
  <1>3. RingAt(l, Forward(l), k) \in {l} \cup ToSet(Forward(l))
    BY <1>1 DEF RingAt
  <1> QED BY <1>1, <1>2, <1>3

\* A list keeps its shape if its links, its count and its index do and no item
\* comes or goes.
LEMMA ShapeKept ==
    ASSUME ListInv, NEW m \in Lists,
           \A y \in {m} \cup ToSet(Forward(m)) : pxNext'[y] = pxNext[y]
                                                 /\ pxPrevious'[y] = pxPrevious[y],
           uxNumberOfItems'[m] = uxNumberOfItems[m], pxIndex'[m] = pxIndex[m],
           \A x \in Items : pxContainer'[x] = m <=> pxContainer[x] = m
    PROVE  Shape(m, Forward(m), Turn(m), pxNext', pxPrevious', pxContainer', uxNumberOfItems',
                 pxIndex')
  <1>1. Ring(m, Forward(m), pxNext', pxPrevious')
    BY ListShape, RingKept
  <1> QED BY <1>1, ListShape DEF Shape

\* Item x is linked in behind place p of list l: the turn stays at its item.
LEMMA LinkedIn ==
    ASSUME ListInv, NEW l \in Lists, NEW x \in Items, pxContainer[x] = NULL,
           NEW v \in Values, xItemValue' = [xItemValue EXCEPT ![x] = v],
           NEW p \in 0 .. Len(Forward(l)),
           LinkBetween(x, RingAt(l, Forward(l), p), RingAt(l, Forward(l), p + 1)), Enter(l, x)
    PROVE  /\ ListInv'
           /\ Forward(l)' = InsertAt(Forward(l), p + 1, x)
           /\ Turn(l)' = IF Turn(l) <= p THEN Turn(l) ELSE Turn(l) + 1
           /\ \A m \in Lists \ {l} : Forward(m)' = Forward(m) /\ Turn(m)' = Turn(m)
  <1> DEFINE s == Forward(l)
             n == Len(s)
             t == Turn(l)
             before == RingAt(l, s, p)
             after == RingAt(l, s, p + 1)
             r == InsertAt(s, p + 1, x)
             t2 == IF t <= p THEN t ELSE t + 1
  <1>1. /\ Ring(l, s, pxNext, pxPrevious) /\ uxNumberOfItems[l] = n
        /\ t \in 0 .. n /\ pxIndex[l] = RingAt(l, s, t)
        /\ \A y \in Items : y \in ToSet(s) <=> pxContainer[y] = l
        /\ s \in Seq(Items) /\ NoDuplicates(s) /\ n \in Nat
    BY ListShape
  <1>2. /\ pxNext \in Links /\ pxPrevious \in Links /\ uxNumberOfItems \in [Lists -> Nat]
        /\ pxContainer \in [Items -> Lists \cup {NULL}] /\ xItemValue \in [Items -> Values]
        /\ pxIndex \in [Lists -> Nodes]
    BY DEF ListInv, LinksOK
  <1>3. /\ pxNext' = [pxNext EXCEPT ![x] = after, ![before] = x]
        /\ pxPrevious' = [pxPrevious EXCEPT ![x] = before, ![after] = x]
        /\ pxContainer' = [pxContainer EXCEPT ![x] = l]
        /\ uxNumberOfItems' = [uxNumberOfItems EXCEPT ![l] = @ + 1]
        /\ pxIndex' = pxIndex
    BY DEF LinkBetween, Enter
  <1>4. NULL \notin Lists
    BY ListAssumption DEF ListAssumption
  <1>5. x \in Items \ ToSet(s)
    BY <1>1, <1>4
  <1>6. /\ Ring(l, r, pxNext', pxPrevious') /\ pxNext' \in Links /\ pxPrevious' \in Links
        /\ \A y \in Nodes \ {x, before} : pxNext'[y] = pxNext[y]
        /\ \A y \in Nodes \ {x, after} : pxPrevious'[y] = pxPrevious[y]
    <2> HIDE DEF before, after
    <2>1. before = RingAt(l, s, p) /\ after = RingAt(l, s, p + 1)
      BY DEF before, after
    <2> HIDE DEF s
    <2>2. p \in 0 .. Len(s)
      BY DEF s
    <2>3. Relinked(l, r, pxNext, pxPrevious, pxNext', pxPrevious', {x, before}, {x, after})
      BY <1>1, <1>2, <1>3, <1>5, <2>1, <2>2, RingInsert
    <2> HIDE DEF r
    <2> QED BY <2>3 DEF Relinked
  <1>7. LinksOK'
    BY <1>2, <1>3, <1>6 DEF LinksOK
  <1>8. /\ Len(r) = n + 1
        /\ \A i \in 1 .. n + 1 : r[i] = IF i < p + 1 THEN s[i] ELSE IF i = p + 1 THEN x ELSE s[i - 1]
        /\ r \in Seq(Items)
    <2> DEFINE q == p + 1
    <2>1. q \in 1 .. Len(s) + 1 /\ x \in Items
      BY <1>1
    <2> HIDE DEF q
    <2>2. InsertAt(s, q, x) \in Seq(Items) /\ HasInserted(InsertAt(s, q, x), s, q, x)
      BY <1>1, <2>1, InsertHas
    <2> QED BY <2>2 DEF HasInserted, q
  <1>9. t2 \in 0 .. Len(r) /\ RingAt(l, r, t2) = RingAt(l, s, t)
    <2>5. p \in 0 .. n
      OBVIOUS
    <2> HIDE DEF s, r, t, n
    <2>1. t2 \in 0 .. n + 1 /\ p \in Nat /\ t \in Nat /\ n \in Nat /\ p <= n
      BY <1>1, <2>5
    <2>2. CASE t = 0
      <3>1. t2 = 0
        BY <2>1, <2>2
      <3> QED BY <1>8, <2>1, <2>2, <3>1 DEF RingAt
    <2>3. CASE t # 0
      <3>1. t \in 1 .. n /\ t2 \in 1 .. n + 1
        BY <1>1, <2>1, <2>3
      <3>2. r[t2] = s[t]
        <4>1. CASE t <= p
          <5>1. t2 = t /\ t2 < p + 1
            BY <2>1, <4>1
          <5> QED BY <1>8, <3>1, <5>1
        <4>2. CASE ~(t <= p)
          <5>1. t2 = t + 1 /\ ~(t2 < p + 1) /\ t2 # p + 1 /\ t2 - 1 = t
            BY <2>1, <4>2
          <5> QED BY <1>8, <3>1, <5>1
        <4> QED BY <4>1, <4>2
      <3>3. RingAt(l, s, t) = s[t] /\ RingAt(l, r, t2) = r[t2]
        BY <1>8, <3>1 DEF RingAt, n
      <3> QED BY <1>8, <2>1, <3>2, <3>3
    <2> QED BY <2>2, <2>3
  <1>10. \A y \in Items : y \in ToSet(r) <=> pxContainer'[y] = l
    <2>1. \A y : y \in ToSet(s) <=> \E i \in 1 .. n : s[i] = y
      BY <1>1, ToSetSeq
    <2>2. \A y : y \in ToSet(r) <=> \E i \in 1 .. n + 1 : r[i] = y
      BY <1>8, ToSetSeq
    <2> HIDE DEF s, r, n
    <2>3. ASSUME NEW y \in ToSet(s) PROVE y \in ToSet(r)
      <3>1. PICK i \in 1 .. n : s[i] = y
        BY <2>1
      <3>2. CASE i < p + 1
        <4>1. i \in 1 .. n + 1 /\ r[i] = y
          BY <1>1, <1>8, <3>1, <3>2
        <4> QED BY <2>2, <4>1
      <3>3. CASE ~(i < p + 1)
        <4>1. i + 1 \in 1 .. n + 1 /\ ~(i + 1 < p + 1) /\ i + 1 # p + 1 /\ (i + 1) - 1 = i
          BY <1>1, <3>3
        <4>2. r[i + 1] = y
          BY <1>8, <3>1, <4>1
        <4> QED BY <2>2, <4>1, <4>2
      <3> QED BY <3>2, <3>3
    <2>4. ASSUME NEW y \in ToSet(r), y # x PROVE y \in ToSet(s)
      <3>1. PICK i \in 1 .. n + 1 : r[i] = y
        BY <2>2
      <3>2. CASE i < p + 1
        <4>1. i \in 1 .. n /\ s[i] = y
          <5>1. p \in 0 .. n
            BY DEF n, s
          <5> QED BY <1>1, <1>8, <3>1, <3>2, <5>1
        <4> QED BY <2>1, <4>1
      <3>3. CASE ~(i < p + 1)
        <4>1. i # p + 1
          BY <1>8, <2>4, <3>1, <3>3
        <4>2. i - 1 \in 1 .. n /\ s[i - 1] = y
          <5>1. p \in 0 .. n
            BY DEF n, s
          <5> QED BY <1>1, <1>8, <3>1, <3>3, <4>1, <5>1
        <4> QED BY <2>1, <4>2
      <3> QED BY <3>2, <3>3
    <2>5. x \in ToSet(r)
      <3>1. p + 1 \in 1 .. n + 1 /\ ~(p + 1 < p + 1)
        BY DEF n, s
      <3>2. r[p + 1] = x
        BY <1>8, <3>1
      <3> QED BY <2>2, <3>1, <3>2
    <2> QED BY <1>1, <1>2, <1>3, <2>3, <2>4, <2>5
  <1>11. Shape(l, r, t2, pxNext', pxPrevious', pxContainer', uxNumberOfItems', pxIndex')
    BY <1>1, <1>2, <1>3, <1>6, <1>8, <1>9, <1>10 DEF Shape
  <1>12. ASSUME NEW m \in Lists, m # l
         PROVE  Shape(m, Forward(m), Turn(m), pxNext', pxPrevious', pxContainer',
                      uxNumberOfItems', pxIndex')
    <2>1. ASSUME NEW y \in {m} \cup ToSet(Forward(m))
          PROVE  pxNext'[y] = pxNext[y] /\ pxPrevious'[y] = pxPrevious[y]
      <3>1. p \in 0 .. n + 1 /\ p + 1 \in 0 .. n + 1
        BY <1>1
      <3>2. y # before /\ y # after
        BY <1>12, <2>1, <3>1, RingsApart
      <3>3. y \in Nodes /\ y # x
        <4>1. /\ ToSet(Forward(m)) \subseteq Items
              /\ \A z \in Items : z \in ToSet(Forward(m)) => pxContainer[z] = m
          BY ListShape, ToSetSeq
        <4> QED BY <1>4, <4>1, ListAssumption DEF Nodes, ListAssumption
      <3> QED BY <1>6, <3>2, <3>3
    <2>2. uxNumberOfItems'[m] = uxNumberOfItems[m] /\ pxIndex'[m] = pxIndex[m]
      BY <1>2, <1>3, <1>12
    <2>3. \A y \in Items : pxContainer'[y] = m <=> pxContainer[y] = m
      BY <1>2, <1>3, <1>4, <1>12
    <2> QED BY <2>1, <2>2, <2>3, ShapeKept
  <1> DEFINE S == [m \in Lists |-> IF m = l THEN r ELSE Forward(m)]
             T == [m \in Lists |-> IF m = l THEN t2 ELSE Turn(m)]
  <1>13. \A m \in Lists : /\ S[m] = IF m = l THEN r ELSE Forward(m)
                          /\ T[m] = IF m = l THEN t2 ELSE Turn(m)
    OBVIOUS
  <1> HIDE DEF S, T, r, t2, s, t, n
  <1>14. \A m \in Lists : Shape(m, S[m], T[m], pxNext', pxPrevious', pxContainer',
                                uxNumberOfItems', pxIndex')
    BY <1>11, <1>12, <1>13
  <1>15. ListInv' /\ \A m \in Lists : Forward(m)' = S[m] /\ Turn(m)' = T[m]
    BY <1>7, <1>14, ShapesNext
  <1> QED BY <1>13, <1>15 DEF r, t2, s, t

\* An item outside the lists is in none of the sequences.
LEMMA NotListed ==
    ASSUME ListInv, NEW x \in Items, pxContainer[x] = NULL
    PROVE  x \notin Sequences!Listed /\ \A l \in Lists : x \notin ToSet(Forward(l))
  <1>1. \A l \in Lists : x \notin ToSet(Forward(l))
    BY ListShape, ListAssumption DEF ListAssumption
  <1>2. \A l \in Lists : [m \in Lists |-> Forward(m)][l] = Forward(l)
    OBVIOUS
  <1> QED BY <1>1, <1>2, SameOperators DEF Sequences!Listed

\* vListInsert.
LEMMA InsertInOrderStep ==
    ASSUME ListInv, NEW l \in Lists, NEW x \in Items, InsertInOrder(l, x)
    PROVE  ListInv' /\ Sequences!InsertInOrder(l, x)
  <1> DEFINE s == Forward(l)
             n == Len(s)
  <1>1. /\ Ring(l, s, pxNext, pxPrevious) /\ Turn(l) \in 0 .. n /\ s \in Seq(Items) /\ n \in Nat
        /\ \A k \in 0 .. n : pxNext[RingAt(l, s, k)] = RingAt(l, s, k + 1)
    BY ListShape
  <1>2. LinksOK /\ xItemValue \in [Items -> Values]
    BY DEF ListInv, LinksOK
  <1>3. PICK v \in Values :
          /\ xItemValue' = [xItemValue EXCEPT ![x] = v]
          /\ LinkBetween(x, InsertionPoint(l, v), pxNext[InsertionPoint(l, v)])
    BY DEF InsertInOrder
  <1>4. pxContainer[x] = NULL /\ Enter(l, x)
    BY DEF InsertInOrder
  <1>5. x \notin Sequences!Listed /\ x \in Items \ ToSet(s)
    BY <1>4, NotListed
  <1>6. PICK p : BelongsBehind(p, s, xItemValue, v)
    BY <1>1, <1>2, PlaceExists
  <1>7. p \in 0 .. n
    BY <1>6 DEF BelongsBehind
  <1>8. LinkBetween(x, RingAt(l, s, p), RingAt(l, s, p + 1))
    BY <1>1, <1>2, <1>3, <1>6, <1>7, InsertionPlace
  <1>9. ListInsert(s, xItemValue', x) = InsertAt(s, p + 1, x)
    <2>1. s \in Seq(Items) /\ xItemValue \in [Items -> Values] /\ x \in Items \ ToSet(s)
      BY <1>1, <1>2, <1>5
    <2>2. xItemValue' = [xItemValue EXCEPT ![x] = v]
      BY <1>3
    <2> HIDE DEF s
    <2> DEFINE q == p + 1
    <2>3. q = p + 1
      OBVIOUS
    <2> HIDE DEF q
    <2>4. xItemValue'[x] = v /\ \A y \in Items \ {x} : xItemValue'[y] = xItemValue[y]
      BY <2>1, <2>2
    <2>5. ListInsert(s, xItemValue', x) = InsertAt(s, q, x)
      BY <1>6, <2>1, <2>3, <2>4, ListInsertPlace
    <2> QED BY <2>5 DEF q
  <1> DEFINE Result == /\ ListInv' /\ s' = InsertAt(s, p + 1, x)
                       /\ Turn(l)' = IF Turn(l) <= p THEN Turn(l) ELSE Turn(l) + 1
                       /\ \A m \in Lists \ {l} : Forward(m)' = Forward(m) /\ Turn(m)' = Turn(m)
  <1>10. Result
    BY <1>3, <1>4, <1>7, <1>8, LinkedIn
  <1>11. (\E i \in 1 .. Turn(l) : s'[i] = x) <=> ~(Turn(l) <= p)
    <2> DEFINE q == p + 1
    <2>1. q \in 1 .. Len(s) + 1 /\ x \in Items
      BY <1>1, <1>7
    <2> HIDE DEF q
    <2>2. InsertAt(s, q, x) \in Seq(Items) /\ HasInserted(InsertAt(s, q, x), s, q, x)
      BY <1>1, <2>1, InsertHas
    <2>3. HasInserted(s', s, q, x)
      BY <1>10, <2>2 DEF q
    <2> HIDE DEF Result
    <2>4. \A i \in 1 .. n + 1 : s'[i] = IF i < p + 1 THEN s[i] ELSE IF i = p + 1 THEN x ELSE s[i - 1]
      BY <2>3 DEF HasInserted, q
    <2>5. \A i \in 1 .. n : s[i] # x
      BY <1>1, <1>5, ToSetSeq
    <2> HIDE DEF s, n
    <2>6. p \in Nat /\ p <= n /\ Turn(l) \in Nat /\ Turn(l) <= n
      BY <1>1, <1>7
    <2>7. ASSUME NEW i \in 1 .. Turn(l), s'[i] = x PROVE ~(Turn(l) <= p)
      <3> SUFFICES ASSUME Turn(l) <= p PROVE FALSE
        OBVIOUS
      <3>1. i \in 1 .. n + 1 /\ i < p + 1 /\ i \in 1 .. n
        BY <1>1, <2>6
      <3> QED BY <2>4, <2>5, <2>7, <3>1
    <2>8. ASSUME ~(Turn(l) <= p) PROVE \E i \in 1 .. Turn(l) : s'[i] = x
      <3>1. p + 1 \in 1 .. Turn(l) /\ p + 1 \in 1 .. n + 1 /\ ~(p + 1 < p + 1)
        BY <1>1, <2>6, <2>8
      <3>2. s'[p + 1] = x
        BY <2>4, <3>1
      <3> QED BY <3>1, <3>2
    <2> QED BY <2>7, <2>8
  <1> DEFINE lists == [m \in Lists |-> Forward(m)]
             turns == [m \in Lists |-> Turn(m)]
  <1>12. lists' = [lists EXCEPT ![l] = Sequences!ListInsert(@, xItemValue', x)]
    <2>1. /\ \A m \in Lists \ {l} : Forward(m)' = Forward(m)
          /\ Forward(l)' = Sequences!ListInsert(Forward(l), xItemValue', x)
      BY <1>9, <1>10, SameOperators
    <2> QED BY <2>1
  <1>13. turns' = [turns EXCEPT ![l] = IF \E i \in 1 .. @ : lists'[l][i] = x THEN @ + 1 ELSE @]
    <2>1. lists'[l] = s'
      OBVIOUS
    <2>2. /\ \A m \in Lists \ {l} : Turn(m)' = Turn(m)
          /\ Turn(l)' = IF \E i \in 1 .. Turn(l) : lists'[l][i] = x THEN Turn(l) + 1 ELSE Turn(l)
      BY <1>10, <1>11, <2>1
    <2> HIDE DEF lists, s
    <2> QED BY <2>2
  <1>14. Sequences!InsertInOrder(l, x)
    <2>1. xItemValue' = [xItemValue EXCEPT ![x] = v]
      BY <1>3
    <2> HIDE DEF s, n, Result
    <2> QED BY <1>5, <1>12, <1>13, <2>1 DEF Sequences!InsertInOrder, lists, turns, Turn
  <1> QED BY <1>10, <1>14

\* vListInsertEnd and listINSERT_END: behind the last item of the rotation.
LastOfRotation(l) == IF Turn(l) = 0 THEN Len(Forward(l)) ELSE Turn(l) - 1

LEMMA LinkedInLast ==
    ASSUME ListInv, NEW l \in Lists, NEW x \in Items, InsertLast(l, x)
    PROVE  \E p \in 0 .. Len(Forward(l)) :
             /\ p = LastOfRotation(l)
             /\ ListInv'
             /\ Forward(l)' = InsertAt(Forward(l), p + 1, x)
             /\ Turn(l)' = IF Turn(l) <= p THEN Turn(l) ELSE Turn(l) + 1
             /\ \A m \in Lists \ {l} : Forward(m)' = Forward(m) /\ Turn(m)' = Turn(m)
  <1> DEFINE s == Forward(l)
             n == Len(s)
             t == Turn(l)
             p == LastOfRotation(l)
  <1>1. /\ Ring(l, s, pxNext, pxPrevious) /\ t \in 0 .. n /\ s \in Seq(Items) /\ n \in Nat
        /\ NoDuplicates(s) /\ pxIndex[l] = RingAt(l, s, t)
        /\ \A k \in 0 .. n : pxPrevious[RingAt(l, s, k + 1)] = RingAt(l, s, k)
    BY ListShape
  <1>2. PICK v \in Values : xItemValue' = [xItemValue EXCEPT ![x] = v]
    BY DEF InsertLast
  <1>3. /\ pxContainer[x] = NULL /\ Enter(l, x)
        /\ LinkBetween(x, pxPrevious[pxIndex[l]], pxIndex[l])
    BY DEF InsertLast
  <1>4. p \in 0 .. n /\ RingAt(l, s, p + 1) = RingAt(l, s, t)
    <2>1. RingAt(l, s, 0) = l /\ RingAt(l, s, n + 1) = l
      BY <1>1, RingNodes
    <2>2. CASE t = 0
      <3>1. p = n
        BY <2>2 DEF LastOfRotation
      <3> QED BY <1>1, <2>1, <2>2, <3>1
    <2>3. CASE t # 0
      <3>1. p = t - 1 /\ (t - 1) + 1 = t /\ t - 1 \in 0 .. n
        BY <1>1, <2>3 DEF LastOfRotation
      <3> HIDE DEF p
      <3> QED BY <3>1
    <2> QED BY <2>2, <2>3
  <1> HIDE DEF p
  <1>5. LinkBetween(x, RingAt(l, s, p), RingAt(l, s, p + 1))
    BY <1>1, <1>3, <1>4
  <1>6. /\ ListInv' /\ s' = InsertAt(s, p + 1, x)
        /\ t' = IF t <= p THEN t ELSE t + 1
        /\ \A m \in Lists \ {l} : Forward(m)' = Forward(m) /\ Turn(m)' = Turn(m)
    BY <1>2, <1>3, <1>4, <1>5, LinkedIn
  <1> QED BY <1>4, <1>6 DEF p

LEMMA InsertLastStep ==
    ASSUME ListInv, NEW l \in Lists, NEW x \in Items, InsertLast(l, x)
    PROVE  ListInv' /\ Sequences!InsertLast(l, x)
  <1> DEFINE s == Forward(l)
             n == Len(s)
             t == Turn(l)
             Result(p) == /\ ListInv' /\ s' = InsertAt(s, p + 1, x)
                          /\ t' = IF t <= p THEN t ELSE t + 1
                          /\ \A m \in Lists \ {l} : Forward(m)' = Forward(m) /\ Turn(m)' = Turn(m)
  <1>1. t \in 0 .. n /\ n \in Nat
    BY ListShape
  <1>2. PICK p \in 0 .. n : p = LastOfRotation(l) /\ Result(p)
    BY LinkedInLast
  <1>3. PICK v \in Values : xItemValue' = [xItemValue EXCEPT ![x] = v]
    BY DEF InsertLast
  <1>4. x \notin Sequences!Listed
    BY NotListed DEF InsertLast
  <1>5. /\ s' = InsertAt(s, IF t = 0 THEN n + 1 ELSE t, x)
        /\ t' = IF t = 0 THEN 0 ELSE t + 1
    <2>1. p = IF t = 0 THEN n ELSE t - 1
      BY <1>2 DEF LastOfRotation
    <2> HIDE DEF s, n, t
    <2>2. CASE t = 0
      <3>1. p = n /\ t <= p
        BY <1>1, <2>1, <2>2
      <3> QED BY <1>2, <2>2, <3>1
    <2>3. CASE t # 0
      <3>1. p + 1 = t /\ ~(t <= p)
        BY <1>1, <2>1, <2>3
      <3> QED BY <1>2, <2>3, <3>1
    <2> QED BY <2>2, <2>3
  <1> DEFINE lists == [m \in Lists |-> Forward(m)]
             turns == [m \in Lists |-> Turn(m)]
  <1>6. turns[l] = t /\ lists[l] = s
    OBVIOUS
  <1>7. lists' = [lists EXCEPT ![l] =
                    Sequences!InsertAt(@, IF turns[l] = 0 THEN Len(@) + 1 ELSE turns[l], x)]
    <2>1. /\ \A m \in Lists \ {l} : Forward(m)' = Forward(m)
          /\ Forward(l)' = Sequences!InsertAt(Forward(l), IF turns[l] = 0 THEN Len(Forward(l)) + 1
                                                          ELSE turns[l], x)
      BY <1>2, <1>5, <1>6, SameOperators
    <2> HIDE DEF turns
    <2> QED BY <2>1
  <1>8. turns' = [turns EXCEPT ![l] = IF @ = 0 THEN 0 ELSE @ + 1]
    <2>1. /\ \A m \in Lists \ {l} : Turn(m)' = Turn(m)
          /\ Turn(l)' = IF Turn(l) = 0 THEN 0 ELSE Turn(l) + 1
      BY <1>2, <1>5
    <2> QED BY <2>1
  <1>9. Sequences!InsertLast(l, x)
    <2> HIDE DEF s, n, t, Result
    <2> QED BY <1>3, <1>4, <1>7, <1>8 DEF Sequences!InsertLast, lists, turns, Turn
  <1> QED BY <1>2, <1>9

\* Item x at place c of list l is linked out; if the turn was at it, it goes back.
LEMMA LinkedOut ==
    ASSUME ListInv, NEW l \in Lists, NEW x \in Items, pxContainer[x] = l, RemoveItem(x),
           NEW c \in 1 .. Len(Forward(l)), Forward(l)[c] = x
    PROVE  /\ ListInv'
           /\ Forward(l)' = RemoveAt(Forward(l), c)
           /\ Turn(l)' = IF c <= Turn(l) THEN Turn(l) - 1 ELSE Turn(l)
           /\ \A m \in Lists \ {l} : Forward(m)' = Forward(m) /\ Turn(m)' = Turn(m)
  <1> DEFINE s == Forward(l)
             n == Len(s)
             t == Turn(l)
             before == RingAt(l, s, c - 1)
             after == RingAt(l, s, c + 1)
             r == RemoveAt(s, c)
             t2 == IF c <= t THEN t - 1 ELSE t
  <1>1. /\ Ring(l, s, pxNext, pxPrevious) /\ uxNumberOfItems[l] = n
        /\ t \in 0 .. n /\ pxIndex[l] = RingAt(l, s, t)
        /\ \A y \in Items : y \in ToSet(s) <=> pxContainer[y] = l
        /\ s \in Seq(Items) /\ NoDuplicates(s) /\ n \in Nat
        /\ \A k \in 0 .. n : /\ pxNext[RingAt(l, s, k)] = RingAt(l, s, k + 1)
                             /\ pxPrevious[RingAt(l, s, k + 1)] = RingAt(l, s, k)
    BY ListShape
  <1>2. /\ pxNext \in Links /\ pxPrevious \in Links /\ uxNumberOfItems \in [Lists -> Nat]
        /\ pxContainer \in [Items -> Lists \cup {NULL}] /\ xItemValue \in [Items -> Values]
        /\ pxIndex \in [Lists -> Nodes]
    BY DEF ListInv, LinksOK
  <1>3. c \in 1 .. n /\ c \in 0 .. n /\ c - 1 \in 0 .. n /\ (c - 1) + 1 = c
        /\ c - 1 \in 0 .. n + 1 /\ c + 1 \in 0 .. n + 1
    <2>1. c \in 1 .. n
      OBVIOUS
    <2> HIDE DEF n
    <2> QED BY <1>1, <2>1
  <1>4. RingAt(l, s, c) = x /\ s[c] = x
    BY <1>3 DEF RingAt
  <1>5. pxNext[x] = after /\ pxPrevious[x] = before
    <2>1. pxNext[RingAt(l, s, c)] = RingAt(l, s, c + 1)
      BY <1>1, <1>3
    <2>2. pxPrevious[RingAt(l, s, (c - 1) + 1)] = RingAt(l, s, c - 1)
      BY <1>1, <1>3
    <2> QED BY <1>3, <1>4, <2>1, <2>2
  <1>6. NULL \notin Lists
    BY ListAssumption DEF ListAssumption
  <1> HIDE DEF before, after, s, n, t
  <1>7. /\ pxNext' = [pxNext EXCEPT ![before] = after]
        /\ pxPrevious' = [pxPrevious EXCEPT ![after] = before]
        /\ pxContainer' = [pxContainer EXCEPT ![x] = NULL]
        /\ uxNumberOfItems' = [uxNumberOfItems EXCEPT ![l] = @ - 1]
        /\ pxIndex' = [pxIndex EXCEPT ![l] = IF @ = x THEN before ELSE @]
        /\ xItemValue' = xItemValue
    BY <1>5 DEF RemoveItem
  <1>8. /\ Ring(l, r, pxNext', pxPrevious') /\ pxNext' \in Links /\ pxPrevious' \in Links
        /\ \A y \in Nodes \ {before} : pxNext'[y] = pxNext[y]
        /\ \A y \in Nodes \ {after} : pxPrevious'[y] = pxPrevious[y]
    <2>1. before = RingAt(l, s, c - 1) /\ after = RingAt(l, s, c + 1)
      BY DEF before, after
    <2>2. c \in 1 .. Len(s)
      BY <1>3 DEF n
    <2>3. Relinked(l, r, pxNext, pxPrevious, pxNext', pxPrevious', {before}, {after})
      BY <1>1, <1>2, <1>7, <2>1, <2>2, RingRemove
    <2> HIDE DEF r
    <2> QED BY <2>3 DEF Relinked
  <1>9. /\ Len(r) = n - 1 /\ r \in Seq(Items)
        /\ \A i \in 1 .. n - 1 : r[i] = IF i < c THEN s[i] ELSE s[i + 1]
    <2>1. c \in 1 .. Len(s)
      BY <1>3 DEF n
    <2> QED BY <1>1, <2>1, RemoveHas DEF HasRemoved, n
  <1> HIDE DEF r
  <1>10. \A i \in 1 .. n : s[i] = x <=> i = c
    <2>1. DOMAIN s = 1 .. n
      BY <1>1, LenProperties DEF n
    <2> QED BY <1>1, <1>3, <1>4, <2>1 DEF NoDuplicates
  <1>11. t2 \in 0 .. Len(r) /\ RingAt(l, r, t2) = IF RingAt(l, s, t) = x THEN before
                                                  ELSE RingAt(l, s, t)
    <2>1. t2 \in 0 .. n - 1 /\ c \in Nat /\ t \in Nat /\ n \in Nat /\ c <= n /\ c > 0
      BY <1>1, <1>3
    <2>2. \A k \in 0 .. n + 1 : RingAt(l, s, k) = x <=> k = c
      <3> SUFFICES ASSUME NEW k \in 0 .. n + 1 PROVE RingAt(l, s, k) = x <=> k = c
        OBVIOUS
      <3>1. l # x
        BY ListAssumption DEF ListAssumption
      <3>2. CASE k \in 1 .. n
        BY <1>10, <3>2 DEF RingAt, n
      <3>3. CASE k \notin 1 .. n
        <4>1. RingAt(l, s, k) = l /\ k # c
          BY <1>3, <3>3 DEF RingAt, n
        <4> QED BY <3>1, <4>1
      <3> QED BY <3>2, <3>3
    <2>3. \A k \in 0 .. n : k < c => RingAt(l, r, k) = RingAt(l, s, k)
      <3> SUFFICES ASSUME NEW k \in 0 .. n, k < c PROVE RingAt(l, r, k) = RingAt(l, s, k)
        OBVIOUS
      <3>1. CASE k = 0
        BY <1>9, <2>1, <3>1 DEF RingAt, n
      <3>2. CASE k # 0
        <4>1. k \in 1 .. n - 1 /\ k \in 1 .. n
          BY <2>1, <3>2
        <4>2. RingAt(l, r, k) = r[k] /\ RingAt(l, s, k) = s[k] /\ r[k] = s[k]
          BY <1>9, <4>1 DEF RingAt, n
        <4> QED BY <4>2
      <3> QED BY <3>1, <3>2
    <2>4. CASE t = c
      <3>1. t2 = c - 1 /\ c - 1 \in 0 .. n /\ c - 1 < c /\ t \in 0 .. n + 1
        BY <2>1, <2>4
      <3>2. RingAt(l, s, t) = x /\ RingAt(l, r, t2) = before
        BY <2>2, <2>3, <2>4, <3>1 DEF before
      <3> QED BY <1>9, <2>1, <3>2
    <2>5. CASE t < c
      <3>1. t2 = t /\ t \in 0 .. n /\ t \in 0 .. n + 1 /\ t # c
        BY <1>1, <2>1, <2>5
      <3>2. RingAt(l, s, t) # x /\ RingAt(l, r, t2) = RingAt(l, s, t)
        BY <2>2, <2>3, <2>5, <3>1
      <3> QED BY <1>9, <2>1, <3>2
    <2>6. CASE t > c
      <3>1. t2 = t - 1 /\ t \in 1 .. n /\ t \in 0 .. n + 1 /\ t # c /\ t - 1 \in 1 .. n - 1
            /\ ~(t - 1 < c) /\ (t - 1) + 1 = t
        BY <1>1, <2>1, <2>6
      <3>2. RingAt(l, s, t) # x /\ RingAt(l, s, t) = s[t]
        BY <2>2, <3>1 DEF RingAt, n
      <3>3. RingAt(l, r, t2) = r[t - 1] /\ r[t - 1] = s[t]
        BY <1>9, <3>1 DEF RingAt
      <3> QED BY <1>9, <2>1, <3>2, <3>3
    <2> HIDE DEF t2
    <2> QED BY <2>1, <2>4, <2>5, <2>6
  <1>12. \A y \in Items : y \in ToSet(r) <=> pxContainer'[y] = l
    <2>1. \A y : y \in ToSet(s) <=> \E i \in 1 .. n : s[i] = y
      BY <1>1, ToSetSeq DEF n
    <2>2. \A y : y \in ToSet(r) <=> \E i \in 1 .. n - 1 : r[i] = y
      BY <1>9, ToSetSeq
    <2>3. ASSUME NEW y \in ToSet(s), y # x PROVE y \in ToSet(r)
      <3>1. PICK i \in 1 .. n : s[i] = y
        BY <2>1
      <3>2. CASE i < c
        <4>1. i \in 1 .. n - 1
          BY <1>1, <1>3, <3>2
        <4> QED BY <1>9, <2>2, <3>1, <3>2, <4>1
      <3>3. CASE ~(i < c)
        <4>1. i # c
          BY <1>4, <2>3, <3>1
        <4>2. i - 1 \in 1 .. n - 1 /\ ~(i - 1 < c) /\ (i - 1) + 1 = i
          BY <1>1, <1>3, <3>3, <4>1
        <4>3. r[i - 1] = y
          BY <1>9, <3>1, <4>2
        <4> QED BY <2>2, <4>2, <4>3
      <3> QED BY <3>2, <3>3
    <2>4. ASSUME NEW y \in ToSet(r) PROVE y \in ToSet(s) /\ y # x
      <3>1. PICK i \in 1 .. n - 1 : r[i] = y
        BY <2>2
      <3>2. i \in 1 .. n /\ i + 1 \in 1 .. n
        BY <1>1
      <3>3. CASE i < c
        <4>1. s[i] = y /\ i # c
          BY <1>3, <1>9, <3>1, <3>3
        <4> QED BY <1>10, <2>1, <3>2, <4>1
      <3>4. CASE ~(i < c)
        <4>1. s[i + 1] = y /\ i + 1 # c
          BY <1>3, <1>9, <3>1, <3>4
        <4> QED BY <1>10, <2>1, <3>2, <4>1
      <3> QED BY <3>3, <3>4
    <2>5. \A y \in Items : pxContainer'[y] = l <=> pxContainer[y] = l /\ y # x
      BY <1>2, <1>6, <1>7
    <2> QED BY <1>1, <2>3, <2>4, <2>5
  <1>13. LinksOK'
    <2>1. uxNumberOfItems' \in [Lists -> Nat]
      <3>1. n - 1 \in Nat
        BY <1>1, <1>3
      <3> QED BY <1>1, <1>2, <1>7, <3>1
    <2>2. pxIndex' \in [Lists -> Nodes]
      <3>1. before \in Nodes
        BY <1>1, <1>3, RingNodes DEF before, n
      <3> QED BY <1>2, <1>7, <3>1
    <2>3. pxContainer' \in [Items -> Lists \cup {NULL}]
      BY <1>2, <1>7
    <2> QED BY <1>2, <1>7, <1>8, <2>1, <2>2, <2>3 DEF LinksOK
  <1>14. Shape(l, r, t2, pxNext', pxPrevious', pxContainer', uxNumberOfItems', pxIndex')
    <2>1. uxNumberOfItems'[l] = Len(r)
      BY <1>1, <1>2, <1>7, <1>9
    <2>2. pxIndex'[l] = IF RingAt(l, s, t) = x THEN before ELSE RingAt(l, s, t)
      BY <1>1, <1>2, <1>7
    <2> HIDE DEF t2
    <2> QED BY <1>8, <1>11, <1>12, <2>1, <2>2 DEF Shape
  <1>15. ASSUME NEW m \in Lists, m # l
         PROVE  Shape(m, Forward(m), Turn(m), pxNext', pxPrevious', pxContainer',
                      uxNumberOfItems', pxIndex')
    <2>1. ASSUME NEW y \in {m} \cup ToSet(Forward(m))
          PROVE  pxNext'[y] = pxNext[y] /\ pxPrevious'[y] = pxPrevious[y]
      <3>1. y # before /\ y # after
        BY <1>3, <1>15, <2>1, RingsApart DEF before, after, s, n
      <3>2. y \in Nodes
        <4>1. ToSet(Forward(m)) \subseteq Items
          BY ListShape, ToSetSeq
        <4> QED BY <4>1 DEF Nodes
      <3> QED BY <1>8, <3>1, <3>2
    <2>2. uxNumberOfItems'[m] = uxNumberOfItems[m] /\ pxIndex'[m] = pxIndex[m]
      BY <1>2, <1>7, <1>15
    <2>3. \A y \in Items : pxContainer'[y] = m <=> pxContainer[y] = m
      BY <1>2, <1>6, <1>7, <1>15
    <2> QED BY <2>1, <2>2, <2>3, ShapeKept
  <1> DEFINE S == [m \in Lists |-> IF m = l THEN r ELSE Forward(m)]
             T == [m \in Lists |-> IF m = l THEN t2 ELSE Turn(m)]
  <1>16. \A m \in Lists : /\ S[m] = IF m = l THEN r ELSE Forward(m)
                          /\ T[m] = IF m = l THEN t2 ELSE Turn(m)
    OBVIOUS
  <1> HIDE DEF S, T, t2
  <1>17. \A m \in Lists : Shape(m, S[m], T[m], pxNext', pxPrevious', pxContainer',
                                uxNumberOfItems', pxIndex')
    BY <1>14, <1>15, <1>16
  <1>18. ListInv' /\ \A m \in Lists : Forward(m)' = S[m] /\ Turn(m)' = T[m]
    BY <1>13, <1>17, ShapesNext
  <1> QED BY <1>16, <1>18 DEF r, t2, s, t

\* The place of an item in its list.
LEMMA ItemPlace ==
    ASSUME ListInv, NEW l \in Lists, NEW x \in Items, pxContainer[x] = l
    PROVE  \E c \in 1 .. Len(Forward(l)) :
               /\ Forward(l)[c] = x
               /\ \A i \in 1 .. Len(Forward(l)) : Forward(l)[i] = x <=> i = c
               /\ ListRemove(Forward(l), x) = RemoveAt(Forward(l), c)
  <1> DEFINE s == Forward(l)
  <1>1. x \in ToSet(s) /\ s \in Seq(Items) /\ NoDuplicates(s)
    BY ListShape
  <1> HIDE DEF s
  <1>2. PICK c \in 1 .. Len(s) : s[c] = x
    BY <1>1, ToSetSeq
  <1>3. DOMAIN s = 1 .. Len(s)
    BY <1>1, ToSetSeq
  <1>4. \A i \in 1 .. Len(s) : s[i] = x <=> i = c
    BY <1>1, <1>2, <1>3 DEF NoDuplicates
  <1>5. (CHOOSE i \in DOMAIN s : s[i] = x) = c
    BY <1>3, <1>4
  <1>6. ListRemove(s, x) = RemoveAt(s, c)
    BY <1>1, <1>5 DEF ListRemove
  <1> QED BY <1>2, <1>4, <1>6 DEF s

\* uxListRemove.
LEMMA RemoveItemStep ==
    ASSUME ListInv, NEW l \in Lists, NEW x \in Items, pxContainer[x] = l, RemoveItem(x)
    PROVE  ListInv' /\ Sequences!RemoveItem(l, x)
  <1> DEFINE s == Forward(l)
             n == Len(s)
             t == Turn(l)
  <1>1. s \in Seq(Items) /\ t \in 0 .. n /\ n \in Nat /\ x \in ToSet(s)
    BY ListShape
  <1>2. PICK c \in 1 .. n : /\ s[c] = x /\ \A i \in 1 .. n : s[i] = x <=> i = c
                            /\ ListRemove(s, x) = RemoveAt(s, c)
    BY ItemPlace
  <1> DEFINE Result == /\ ListInv' /\ s' = RemoveAt(s, c)
                       /\ t' = IF c <= t THEN t - 1 ELSE t
                       /\ \A m \in Lists \ {l} : Forward(m)' = Forward(m) /\ Turn(m)' = Turn(m)
  <1>3. Result
    BY <1>2, LinkedOut
  <1>4. (\E i \in 1 .. t : s[i] = x) <=> c <= t
    <2> HIDE DEF s, n, t
    <2>1. \A i \in 1 .. t : i \in 1 .. n
      BY <1>1
    <2>2. c <= t => c \in 1 .. t
      BY <1>1
    <2>3. \A i \in 1 .. t : i = c => c <= t
      BY <1>1
    <2> QED BY <1>2, <2>1, <2>2, <2>3
  <1> DEFINE lists == [m \in Lists |-> Forward(m)]
             turns == [m \in Lists |-> Turn(m)]
  <1>5. lists[l] = s
    OBVIOUS
  <1>6. x \in Sequences!ToSet(lists[l])
    BY <1>1, <1>5, SameOperators
  <1>7. lists' = [lists EXCEPT ![l] = Sequences!ListRemove(@, x)]
    <2>1. /\ \A m \in Lists \ {l} : Forward(m)' = Forward(m)
          /\ Forward(l)' = Sequences!ListRemove(Forward(l), x)
      BY <1>2, <1>3, SameOperators
    <2> QED BY <2>1
  <1>8. turns' = [turns EXCEPT ![l] = IF \E i \in 1 .. @ : lists[l][i] = x THEN @ - 1 ELSE @]
    <2>1. /\ \A m \in Lists \ {l} : Turn(m)' = Turn(m)
          /\ Turn(l)' = IF \E i \in 1 .. Turn(l) : lists[l][i] = x THEN Turn(l) - 1 ELSE Turn(l)
      BY <1>3, <1>4, <1>5
    <2> HIDE DEF lists, s
    <2> QED BY <2>1
  <1>9. xItemValue' = xItemValue
    BY DEF RemoveItem
  <1>10. Sequences!RemoveItem(l, x)
    <2> HIDE DEF s, n, t, Result
    <2> QED BY <1>6, <1>7, <1>8, <1>9 DEF Sequences!RemoveItem, lists, turns, Turn
  <1> QED BY <1>3, <1>10

\* listGET_OWNER_OF_NEXT_ENTRY goes to the next place, from the last to the first.
LEMMA IndexAdvances ==
    ASSUME ListInv, NEW l \in Lists, TakeNext(l)
    PROVE  /\ ListInv'
           /\ Forward(l) # <<>>
           /\ Turn(l)' = IF Turn(l) = Len(Forward(l)) THEN 1 ELSE Turn(l) + 1
           /\ pxIndex'[l] = Forward(l)[Turn(l)']
           /\ \A m \in Lists : Forward(m)' = Forward(m)
           /\ \A m \in Lists \ {l} : Turn(m)' = Turn(m)
  <1> DEFINE s == Forward(l)
             n == Len(s)
             t == Turn(l)
             t2 == IF t = n THEN 1 ELSE t + 1
             next == pxNext[pxIndex[l]]
  <1>1. /\ Ring(l, s, pxNext, pxPrevious) /\ uxNumberOfItems[l] = n
        /\ t \in 0 .. n /\ pxIndex[l] = RingAt(l, s, t)
        /\ \A y \in Items : y \in ToSet(s) <=> pxContainer[y] = l
        /\ s \in Seq(Items) /\ NoDuplicates(s) /\ n \in Nat
        /\ \A k \in 0 .. n : pxNext[RingAt(l, s, k)] = RingAt(l, s, k + 1)
    BY ListShape
  <1>2. /\ pxNext \in Links /\ pxPrevious \in Links /\ uxNumberOfItems \in [Lists -> Nat]
        /\ pxContainer \in [Items -> Lists \cup {NULL}] /\ xItemValue \in [Items -> Values]
        /\ pxIndex \in [Lists -> Nodes]
    BY DEF ListInv, LinksOK
  <1>3. /\ n # 0 /\ pxIndex' = [pxIndex EXCEPT ![l] = IF next = l THEN pxNext[l] ELSE next]
        /\ UNCHANGED <<pxNext, pxPrevious, pxContainer, xItemValue, uxNumberOfItems>>
    BY <1>1 DEF TakeNext
  <1> HIDE DEF s, n, t
  <1>4. next = RingAt(l, s, t + 1)
    BY <1>1
  <1>5. /\ RingAt(l, s, 0) = l /\ RingAt(l, s, n + 1) = l /\ 1 \in 1 .. n
        /\ \A i \in 1 .. n : RingAt(l, s, i) = s[i] /\ s[i] # l /\ s[i] \in Nodes
    <2>1. n \in Nat /\ n # 0
      BY <1>1, <1>3
    <2>2. 1 \in 1 .. n
      BY <2>1
    <2> QED BY <1>1, <2>2, RingNodes DEF n
  <1>6. t2 \in 1 .. n /\ pxIndex'[l] = s[t2] /\ s[t2] = RingAt(l, s, t2)
    <2>1. CASE t = n
      <3>1. t2 = 1 /\ next = l
        BY <1>4, <1>5, <2>1
      <3>2. 0 \in 0 .. n /\ 0 + 1 = 1
        BY <1>1
      <3>3. pxNext[l] = RingAt(l, s, 1)
        BY <1>1, <1>5, <3>2
      <3>4. pxNext[l] = s[1] /\ RingAt(l, s, 1) = s[1]
        BY <1>5, <3>3
      <3> QED BY <1>2, <1>3, <1>5, <3>1, <3>4
    <2>2. CASE t # n
      <3>1. t2 = t + 1 /\ t + 1 \in 1 .. n
        BY <1>1, <2>2
      <3>2. next = s[t2] /\ next # l
        BY <1>4, <1>5, <3>1
      <3> HIDE DEF t2
      <3> QED BY <1>2, <1>3, <1>5, <3>1, <3>2
    <2> QED BY <2>1, <2>2
  <1> HIDE DEF t2
  <1>7. LinksOK'
    <2>1. pxIndex' \in [Lists -> Nodes]
      <3>1. pxIndex'[l] \in Nodes
        BY <1>5, <1>6
      <3> QED BY <1>2, <1>3, <3>1
    <2> QED BY <1>2, <1>3, <2>1 DEF LinksOK
  <1>8. Shape(l, s, t2, pxNext', pxPrevious', pxContainer', uxNumberOfItems', pxIndex')
    <2>1. t2 \in 0 .. Len(s)
      BY <1>1, <1>6 DEF n
    <2> QED BY <1>1, <1>3, <1>6, <2>1 DEF Shape, n
  <1>9. ASSUME NEW m \in Lists, m # l
        PROVE  Shape(m, Forward(m), Turn(m), pxNext', pxPrevious', pxContainer',
                     uxNumberOfItems', pxIndex')
    <2>1. pxIndex'[m] = pxIndex[m]
      BY <1>2, <1>3, <1>9
    <2> QED BY <1>3, <2>1, ShapeKept
  <1> DEFINE S == [m \in Lists |-> Forward(m)]
             T == [m \in Lists |-> IF m = l THEN t2 ELSE Turn(m)]
  <1>10. \A m \in Lists : S[m] = Forward(m) /\ T[m] = IF m = l THEN t2 ELSE Turn(m)
    OBVIOUS
  <1> HIDE DEF S, T
  <1>11. \A m \in Lists : Shape(m, S[m], T[m], pxNext', pxPrevious', pxContainer',
                                uxNumberOfItems', pxIndex')
    BY <1>8, <1>9, <1>10 DEF s
  <1>12. ListInv' /\ \A m \in Lists : Forward(m)' = S[m] /\ Turn(m)' = T[m]
    BY <1>7, <1>11, ShapesNext
  <1>13. s # <<>>
    BY <1>1, <1>3 DEF n
  <1> QED BY <1>6, <1>10, <1>12, <1>13 DEF s, t, t2, n

LEMMA TakeNextStep ==
    ASSUME ListInv, NEW l \in Lists, TakeNext(l)
    PROVE  ListInv' /\ Sequences!TakeNext(l)
  <1> DEFINE lists == [m \in Lists |-> Forward(m)]
             turns == [m \in Lists |-> Turn(m)]
  <1>1. /\ ListInv' /\ Forward(l) # <<>>
        /\ Turn(l)' = IF Turn(l) = Len(Forward(l)) THEN 1 ELSE Turn(l) + 1
        /\ \A m \in Lists : Forward(m)' = Forward(m)
        /\ \A m \in Lists \ {l} : Turn(m)' = Turn(m)
    BY IndexAdvances
  <1>2. lists[l] # <<>> /\ lists' = lists
    BY <1>1
  <1>3. turns' = [turns EXCEPT ![l] = IF @ = Len(lists[l]) THEN 1 ELSE @ + 1]
    <2>1. lists[l] = Forward(l)
      OBVIOUS
    <2> HIDE DEF lists
    <2> QED BY <1>1, <2>1
  <1>4. xItemValue' = xItemValue
    BY DEF TakeNext
  <1> QED BY <1>1, <1>2, <1>3, <1>4 DEF Sequences!TakeNext, lists, turns, Turn

LEMMA ListInitially ==
    ASSUME ListInit
    PROVE  ListInv /\ Sequences!Init /\ \A l \in Lists : Forward(l) = <<>>
  <1>1. \A l \in Lists : l \in Nodes
    BY DEF Nodes
  <1>2. LinksOK
    BY <1>1 DEF ListInit, LinksOK, Links, Values
  <1>3. ASSUME NEW l \in Lists
        PROVE  /\ Forward(l) = <<>> /\ Turn(l) = 0
               /\ Shape(l, Forward(l), Turn(l), pxNext, pxPrevious, pxContainer,
                        uxNumberOfItems, pxIndex)
    <2>1. <<>> \in Seq(Items) /\ Len(<<>>) = 0 /\ NoDuplicates(<<>>) /\ ToSet(<<>>) = {}
      <3>1. <<>> \in Seq(Items) /\ Len(<<>>) = 0
        OBVIOUS
      <3>2. DOMAIN <<>> = 1 .. 0 /\ ToSet(<<>>) = {}
        BY <3>1, ToSetSeq
      <3> QED BY <3>1, <3>2 DEF NoDuplicates
    <2>2. pxNext[l] = l /\ pxPrevious[l] = l /\ uxNumberOfItems[l] = 0 /\ pxIndex[l] = l
      BY <1>1 DEF ListInit
    <2>3. RingAt(l, <<>>, 0) = l /\ RingAt(l, <<>>, 1) = l
      BY <2>1 DEF RingAt
    <2>4. Ring(l, <<>>, pxNext, pxPrevious)
      <3>1. \A k \in 0 .. Len(<<>>) : k = 0 /\ k + 1 = 1
        BY <2>1
      <3> QED BY <2>1, <2>2, <2>3, <3>1 DEF Ring
    <2>5. Forward(l) = <<>> /\ Turn(l) = 0
      <3>1. pxNext \in Links /\ 0 \in 0 .. Len(<<>>)
        BY <1>2, <2>1 DEF LinksOK
      <3> QED BY <2>1, <2>2, <2>3, <2>4, <3>1, RingReads, Readings
    <2>6. \A x \in Items : pxContainer[x] # l
      BY ListAssumption DEF ListInit, ListAssumption
    <2>7. Shape(l, <<>>, 0, pxNext, pxPrevious, pxContainer, uxNumberOfItems, pxIndex)
      BY <2>1, <2>2, <2>3, <2>4, <2>6 DEF Shape
    <2> QED BY <2>5, <2>7
  <1>4. Sequences!Init
    <2>1. /\ [l \in Lists |-> Forward(l)] = [l \in Lists |-> <<>>]
          /\ [l \in Lists |-> Turn(l)] = [l \in Lists |-> 0]
      BY <1>3
    <2> QED BY <2>1 DEF ListInit, Sequences!Init, Turn
  <1> QED BY <1>2, <1>3, <1>4 DEF ListInv, RingsOK

LEMMA ListStep == ListInv /\ [ListNext]_listVars => ListInv' /\ [Sequences!Next]_Sequences!vars
  <1> SUFFICES ASSUME ListInv, [ListNext]_listVars
               PROVE  ListInv' /\ [Sequences!Next]_Sequences!vars
    OBVIOUS
  <1>1. ASSUME NEW l \in Lists, TakeNext(l) PROVE ListInv' /\ Sequences!Next
    BY <1>1, TakeNextStep DEF Sequences!Next
  <1>2. ASSUME NEW l \in Lists, NEW x \in Items, InsertInOrder(l, x)
        PROVE  ListInv' /\ Sequences!Next
    BY <1>2, InsertInOrderStep DEF Sequences!Next
  <1>3. ASSUME NEW l \in Lists, NEW x \in Items, InsertLast(l, x)
        PROVE  ListInv' /\ Sequences!Next
    BY <1>3, InsertLastStep DEF Sequences!Next
  <1>4. ASSUME NEW x \in Items, RemoveItem(x) PROVE ListInv' /\ Sequences!Next
    <2>1. PICK l \in Lists : pxContainer[x] = l
      BY <1>4 DEF RemoveItem, ListInv, LinksOK
    <2>2. ListInv' /\ Sequences!RemoveItem(l, x)
      BY <1>4, <2>1, RemoveItemStep
    <2> QED BY <2>2 DEF Sequences!Next
  <1>5. CASE UNCHANGED listVars
    <2>1. ListInv'
      <3>1. \A l \in Lists : Shape(l, Forward(l), Turn(l), pxNext', pxPrevious', pxContainer',
                                  uxNumberOfItems', pxIndex')
        BY <1>5 DEF listVars, ListInv, RingsOK
      <3>2. LinksOK'
        BY <1>5 DEF listVars, ListInv, LinksOK
      <3> DEFINE S == [l \in Lists |-> Forward(l)]
                 T == [l \in Lists |-> Turn(l)]
      <3>3. \A l \in Lists : S[l] = Forward(l) /\ T[l] = Turn(l)
        OBVIOUS
      <3> HIDE DEF S, T
      <3>4. \A l \in Lists : Shape(l, S[l], T[l], pxNext', pxPrevious', pxContainer',
                                  uxNumberOfItems', pxIndex')
        BY <3>1, <3>3
      <3> QED BY <3>2, <3>4, ShapesNext
    <2>2. UNCHANGED Sequences!vars
      BY <1>5 DEF listVars, Sequences!vars, Forward, Nth
    <2> QED BY <2>1, <2>2
  <1> QED BY <1>1, <1>2, <1>3, <1>4, <1>5 DEF ListNext

\* vListInsert, vListInsertEnd, uxListRemove and the walk along a list do to rings of
\* any number of items what OrderedLists says of sequences.
THEOREM ListsImplementSequences == ListSpec => ImplementsSequences
  <1>1. ListInit => ListInv /\ Sequences!Init
    BY ListInitially
  <1> QED BY <1>1, ListStep, PTL DEF ListSpec, ImplementsSequences, Sequences!Spec

\* The type invariant of List: links, containers, values and counts of list.h.
THEOREM ListTypes == ListSpec => []ListTypeOK
  <1>1. ListInv => ListTypeOK
    <2> SUFFICES ASSUME ListInv PROVE ListTypeOK
      OBVIOUS
    <2>1. LinksOK /\ pxNext \in Links
      BY DEF ListInv, LinksOK
    <2>2. ASSUME NEW l \in Lists PROVE uxNumberOfItems[l] \in 0 .. Cardinality(Items)
      <3>1. /\ Len(Forward(l)) <= Cardinality(Items) /\ Cardinality(Items) \in Nat
            /\ uxNumberOfItems[l] = Len(Forward(l)) /\ Len(Forward(l)) \in Nat
        BY <2>1, ListShape, NthIs
      <3> QED BY <3>1
    <2> QED BY <2>1, <2>2 DEF LinksOK, Links, ListTypeOK
  <1>2. ListInit => ListInv
    BY ListInitially
  <1> QED BY <1>1, <1>2, ListStep, PTL DEF ListSpec

-----------------------------------------------------------------------------
(***************************************************************************)
(* Rotation.  With the turn at place t, the item of place d comes before   *)
(* that of place c: no operation changes that for two items that stay.     *)
(***************************************************************************)
Between(t, c, d) == IF t < c THEN t < d /\ d < c ELSE t < d \/ d < c

ComesBefore(s, t, y, x) ==
    \E c, d \in 1 .. Len(s) : s[c] = x /\ s[d] = y /\ Between(t, c, d)

LEMMA ComesBeforeIn ==
    ASSUME NEW s \in Seq(Items), NEW t \in 0 .. Len(s), NEW x, NEW y, ComesBefore(s, t, y, x),
           NEW z \in Items, NEW p \in 0 .. Len(s), NEW r, r = InsertAt(s, p + 1, z),
           NEW t2, t2 = IF t <= p THEN t ELSE t + 1
    PROVE  ComesBefore(r, t2, y, x)
  <1>1. PICK c \in 1 .. Len(s), d \in 1 .. Len(s) : s[c] = x /\ s[d] = y /\ Between(t, c, d)
    BY DEF ComesBefore
  <1> DEFINE n == Len(s)
             Moved(k) == IF k <= p THEN k ELSE k + 1
  <1>2. n \in Nat /\ c \in 1 .. n /\ d \in 1 .. n /\ p \in 0 .. n /\ t \in 0 .. n
    BY LenProperties
  <1>3. Len(r) = n + 1 /\ \A k \in 1 .. n : r[Moved(k)] = s[k]
    <2> DEFINE q == p + 1
    <2>1. q \in 1 .. Len(s) + 1
      BY <1>2
    <2> HIDE DEF q
    <2>2. HasInserted(InsertAt(s, q, z), s, q, z)
      BY <2>1, InsertHas
    <2>3. HasInserted(r, s, q, z)
      BY <2>2 DEF q
    <2>4. /\ Len(r) = n + 1
          /\ \A i \in 1 .. n + 1 : r[i] = IF i < p + 1 THEN s[i] ELSE IF i = p + 1 THEN z ELSE s[i - 1]
      BY <2>3 DEF HasInserted, q
    <2> HIDE DEF n
    <2>5. ASSUME NEW k \in 1 .. n PROVE r[Moved(k)] = s[k]
      <3>1. CASE k <= p
        <4>1. k \in 1 .. n + 1 /\ k < p + 1 /\ Moved(k) = k
          BY <1>2, <3>1
        <4> HIDE DEF Moved
        <4> QED BY <2>4, <4>1
      <3>2. CASE ~(k <= p)
        <4>1. k + 1 \in 1 .. n + 1 /\ ~(k + 1 < p + 1) /\ k + 1 # p + 1 /\ (k + 1) - 1 = k
              /\ Moved(k) = k + 1
          BY <1>2, <3>2
        <4> HIDE DEF Moved
        <4> QED BY <2>4, <4>1
      <3> QED BY <3>1, <3>2
    <2> QED BY <2>4, <2>5
  <1> HIDE DEF n
  <1>4. /\ Moved(c) \in 1 .. n + 1 /\ Moved(d) \in 1 .. n + 1
        /\ Between(t2, Moved(c), Moved(d))
    BY <1>1, <1>2 DEF Between
  <1> HIDE DEF Moved
  <1> QED BY <1>1, <1>2, <1>3, <1>4 DEF ComesBefore

LEMMA ComesBeforeOut ==
    ASSUME NEW s \in Seq(Items), NEW t \in 0 .. Len(s), NEW x, NEW y, ComesBefore(s, t, y, x),
           NEW e \in 1 .. Len(s), s[e] # x, s[e] # y, NEW r, r = RemoveAt(s, e),
           NEW t2, t2 = IF e <= t THEN t - 1 ELSE t
    PROVE  ComesBefore(r, t2, y, x)
  <1>1. PICK c \in 1 .. Len(s), d \in 1 .. Len(s) : s[c] = x /\ s[d] = y /\ Between(t, c, d)
    BY DEF ComesBefore
  <1> DEFINE n == Len(s)
             Moved(k) == IF k < e THEN k ELSE k - 1
  <1>2. /\ n \in Nat /\ c \in 1 .. n /\ d \in 1 .. n /\ e \in 1 .. n /\ t \in 0 .. n
        /\ c # e /\ d # e
    BY <1>1, LenProperties
  <1>3. Len(r) = n - 1 /\ \A k \in 1 .. n : k # e => r[Moved(k)] = s[k]
    <2>1. HasRemoved(r, s, e)
      BY RemoveHas
    <2>2. /\ Len(r) = n - 1
          /\ \A i \in 1 .. n - 1 : r[i] = IF i < e THEN s[i] ELSE s[i + 1]
      BY <2>1 DEF HasRemoved
    <2> HIDE DEF n
    <2>3. ASSUME NEW k \in 1 .. n, k # e PROVE r[Moved(k)] = s[k]
      <3>1. CASE k < e
        <4>1. k \in 1 .. n - 1 /\ Moved(k) = k
          BY <1>2, <3>1
        <4> HIDE DEF Moved
        <4> QED BY <2>2, <3>1, <4>1
      <3>2. CASE ~(k < e)
        <4>1. k - 1 \in 1 .. n - 1 /\ ~(k - 1 < e) /\ (k - 1) + 1 = k /\ Moved(k) = k - 1
          BY <1>2, <2>3, <3>2
        <4> HIDE DEF Moved
        <4> QED BY <2>2, <4>1
      <3> QED BY <3>1, <3>2
    <2> QED BY <2>2, <2>3
  <1> HIDE DEF n
  <1>4. /\ Moved(c) \in 1 .. n - 1 /\ Moved(d) \in 1 .. n - 1
        /\ Between(t2, Moved(c), Moved(d))
    BY <1>1, <1>2 DEF Between
  <1> HIDE DEF Moved
  <1> QED BY <1>1, <1>2, <1>3, <1>4 DEF ComesBefore

\* When the turn goes on, only the item it comes to stops coming before others,
\* and nothing comes before that one.
LEMMA ComesBeforeNext ==
    ASSUME NEW s \in Seq(Items), NEW t \in 0 .. Len(s), NEW x, NEW y, ComesBefore(s, t, y, x),
           NEW t2, t2 = (IF t = Len(s) THEN 1 ELSE t + 1), NoDuplicates(s)
    PROVE  s[t2] # x /\ (s[t2] # y => ComesBefore(s, t2, y, x))
  <1>1. PICK c \in 1 .. Len(s), d \in 1 .. Len(s) : s[c] = x /\ s[d] = y /\ Between(t, c, d)
    BY DEF ComesBefore
  <1> DEFINE n == Len(s)
  <1>2. /\ n \in Nat /\ c \in 1 .. n /\ d \in 1 .. n /\ t \in 0 .. n
        /\ t2 = IF t = n THEN 1 ELSE t + 1
    BY LenProperties
  <1>3. \A i, j \in 1 .. n : s[i] = s[j] => i = j
    BY ToSetSeq DEF NoDuplicates
  <1> HIDE DEF n
  <1>4. t2 \in 1 .. n
    BY <1>2
  <1>5. s[t2] # x
    <2> SUFFICES ASSUME s[t2] = x PROVE FALSE
      OBVIOUS
    <2>1. t2 = c
      BY <1>1, <1>2, <1>3, <1>4
    <2> QED BY <1>1, <1>2, <2>1 DEF Between
  <1>6. ASSUME s[t2] # y PROVE ComesBefore(s, t2, y, x)
    <2>1. t2 # c /\ t2 # d
      BY <1>1, <1>5, <1>6
    <2>2. Between(t2, c, d)
      BY <1>1, <1>2, <2>1 DEF Between
    <2> QED BY <1>1, <2>2 DEF ComesBefore
  <1> QED BY <1>5, <1>6

\* An item inserted last comes behind all others, but for the one the turn is at.
LEMMA InsertedLast ==
    ASSUME NEW l \in Lists, NEW s \in Seq(Items), NEW t \in 0 .. Len(s), NEW x \in Items,
           NEW p, p = (IF t = 0 THEN Len(s) ELSE t - 1),
           NEW r, r = InsertAt(s, p + 1, x), NEW t2, t2 = (IF t <= p THEN t ELSE t + 1),
           NEW y \in ToSet(s)
    PROVE  y = RingAt(l, s, t) \/ ComesBefore(r, t2, y, x)
  <1> DEFINE n == Len(s)
  <1>1. PICK d \in 1 .. n : s[d] = y
    BY ToSetSeq
  <1>2. n \in Nat /\ d \in 1 .. n /\ t \in 0 .. n /\ p = IF t = 0 THEN n ELSE t - 1
    BY LenProperties
  <1>3. /\ Len(r) = n + 1
        /\ \A i \in 1 .. n + 1 : r[i] = IF i < p + 1 THEN s[i] ELSE IF i = p + 1 THEN x ELSE s[i - 1]
    <2> DEFINE q == p + 1
    <2>1. q \in 1 .. Len(s) + 1
      <3> HIDE DEF n
      <3>1. q \in 1 .. n + 1
        BY <1>2
      <3> QED BY <3>1 DEF n
    <2> HIDE DEF q
    <2>2. HasInserted(InsertAt(s, q, x), s, q, x)
      BY <2>1, InsertHas
    <2>3. HasInserted(r, s, q, x)
      BY <2>2 DEF q
    <2> QED BY <2>3 DEF HasInserted, q
  <1>4. RingAt(l, s, d) = y
    BY <1>1 DEF RingAt
  <1> HIDE DEF n
  <1>5. CASE d = t
    BY <1>4, <1>5
  <1>6. CASE d # t
    <2> DEFINE e == IF d <= p THEN d ELSE d + 1
               c == p + 1
    <2>1. c \in 1 .. n + 1 /\ e \in 1 .. n + 1 /\ Between(t2, c, e)
      BY <1>2, <1>6 DEF Between
    <2>2. r[c] = x
      BY <1>2, <1>3, <2>1
    <2>3. r[e] = y
      <3>1. CASE d <= p
        <4>1. e = d /\ d < p + 1
          BY <1>2, <3>1
        <4> HIDE DEF e
        <4> QED BY <1>1, <1>3, <2>1, <4>1
      <3>2. CASE ~(d <= p)
        <4>1. e = d + 1 /\ ~(e < p + 1) /\ e # p + 1 /\ e - 1 = d
          BY <1>2, <3>2
        <4> HIDE DEF e
        <4> QED BY <1>1, <1>3, <2>1, <4>1
      <3> QED BY <3>1, <3>2
    <2> HIDE DEF e, c
    <2> QED BY <1>3, <2>1, <2>2, <2>3 DEF ComesBefore
  <1> QED BY <1>5, <1>6

-----------------------------------------------------------------------------
\* What an item of a ready list has not seen returned comes before it, but for the
\* one the rotation stood at when it was inserted.
UnseenOK ==
    \A l \in ReadyLists, x \in Items : pxContainer[x] = l =>
        \A y \in unseen[x] : y = stoodAt[x] \/ ComesBefore(Forward(l), Turn(l), y, x)

HistoryInv == ListInv /\ UnseenOK

LEMMA OperationIsListNext == Operation => ListNext
  BY DEF Operation, ListNext

\* What HNext says of an item that is not being inserted.
LEMMA HistoryMoves ==
    ASSUME HNext, NEW x \in Items, ~Inserted(x), NEW y \in unseen'[x]
    PROVE  /\ y \in unseen[x] /\ ~Removed(x) /\ ~Removed(y) /\ stoodAt'[x] = stoodAt[x]
           /\ \A l \in ReadyLists : ~Returned(l, x) /\ ~Returned(l, y)
  <1>1. /\ unseen'[x] = IF Removed(x) \/ \E l \in ReadyLists : Returned(l, x) THEN {}
                        ELSE {z \in unseen[x] : ~Removed(z) /\ \A l \in ReadyLists : ~Returned(l, z)}
        /\ stoodAt'[x] = IF Removed(x) THEN NULL ELSE stoodAt[x]
    BY DEF HNext
  <1>2. ~Removed(x) /\ \A l \in ReadyLists : ~Returned(l, x)
    BY <1>1
  <1> QED BY <1>1, <1>2

\* And of one that is.
LEMMA HistoryStarts ==
    ASSUME HNext, NEW x \in Items, Inserted(x)
    PROVE  /\ unseen'[x] = {y \in Items : pxContainer[y] = pxContainer'[x]}
           /\ stoodAt'[x] = pxIndex[pxContainer'[x]]
  BY DEF HNext

\* The conjunct of UnseenOK about an item of list l after a step.
UnseenAfter(l, x) ==
    pxContainer'[x] = l =>
        \A y \in unseen'[x] : y = stoodAt'[x] \/ ComesBefore(Forward(l)', Turn(l)', y, x)

\* An operation on another list.
LEMMA UnseenElsewhere ==
    ASSUME UnseenOK, HNext, NEW l \in ReadyLists, NEW x \in Items,
           Forward(l)' = Forward(l), Turn(l)' = Turn(l),
           pxContainer'[x] = l => pxContainer[x] = l, NULL \notin Lists
    PROVE  UnseenAfter(l, x)
  <1> SUFFICES ASSUME pxContainer'[x] = l, NEW y \in unseen'[x]
               PROVE  y = stoodAt'[x] \/ ComesBefore(Forward(l)', Turn(l)', y, x)
    BY DEF UnseenAfter
  <1>1. pxContainer[x] = l /\ ~Inserted(x)
    BY ReadyListsAssumption DEF Inserted, ReadyListsAssumption
  <1>2. y \in unseen[x] /\ stoodAt'[x] = stoodAt[x]
    BY <1>1, HistoryMoves
  <1> QED BY <1>1, <1>2 DEF UnseenOK

LEMMA UnseenTakeNext ==
    ASSUME HistoryInv, HNext, NEW m \in Lists, TakeNext(m), NEW l \in ReadyLists, NEW x \in Items
    PROVE  UnseenAfter(l, x)
  <1>1. l \in Lists /\ NULL \notin Lists /\ ListInv /\ UnseenOK
    BY ListAssumption, ReadyListsAssumption DEF ListAssumption, ReadyListsAssumption, HistoryInv
  <1>2. pxContainer'[x] = pxContainer[x]
    BY DEF TakeNext
  <1>3. CASE m # l
    BY <1>1, <1>2, <1>3, IndexAdvances, UnseenElsewhere
  <1>4. CASE m = l
    <2> SUFFICES ASSUME pxContainer'[x] = l, NEW y \in unseen'[x]
                 PROVE  y = stoodAt'[x] \/ ComesBefore(Forward(l)', Turn(l)', y, x)
      BY DEF UnseenAfter
    <2>1. pxContainer[x] = l /\ ~Inserted(x)
      BY <1>1, <1>2 DEF Inserted
    <2>2. /\ y \in unseen[x] /\ stoodAt'[x] = stoodAt[x]
          /\ ~Returned(l, x) /\ ~Returned(l, y)
      BY <2>1, HistoryMoves
    <2>3. y = stoodAt[x] \/ ComesBefore(Forward(l), Turn(l), y, x)
      BY <1>1, <2>1, <2>2 DEF UnseenOK
    <2>4. /\ Turn(l)' = IF Turn(l) = Len(Forward(l)) THEN 1 ELSE Turn(l) + 1
          /\ pxIndex'[l] = Forward(l)[Turn(l)'] /\ Forward(l)' = Forward(l)
      BY <1>1, <1>4, IndexAdvances
    <2>5. Forward(l)[Turn(l)'] # y
      BY <1>4, <2>2, <2>4 DEF Returned
    <2>6. /\ Forward(l) \in Seq(Items) /\ NoDuplicates(Forward(l))
          /\ Turn(l) \in 0 .. Len(Forward(l))
      BY <1>1, ListShape
    <2>7. ComesBefore(Forward(l), Turn(l), y, x) => ComesBefore(Forward(l), Turn(l)', y, x)
      BY <2>4, <2>5, <2>6, ComesBeforeNext
    <2> QED BY <2>2, <2>3, <2>4, <2>7
  <1> QED BY <1>3, <1>4

LEMMA UnseenInsertLast ==
    ASSUME HistoryInv, HNext, NEW m \in Lists, NEW z \in Items, InsertLast(m, z),
           NEW l \in ReadyLists, NEW x \in Items
    PROVE  UnseenAfter(l, x)
  <1>1. l \in Lists /\ NULL \notin Lists /\ ListInv /\ UnseenOK
    BY ListAssumption, ReadyListsAssumption DEF ListAssumption, ReadyListsAssumption, HistoryInv
  <1>2. /\ pxContainer' = [pxContainer EXCEPT ![z] = m] /\ pxContainer[z] = NULL
        /\ pxContainer \in [Items -> Lists \cup {NULL}]
    BY <1>1 DEF InsertLast, Enter, ListInv, LinksOK
  <1>3. PICK p \in 0 .. Len(Forward(m)) :
             /\ p = LastOfRotation(m)
             /\ Forward(m)' = InsertAt(Forward(m), p + 1, z)
             /\ Turn(m)' = IF Turn(m) <= p THEN Turn(m) ELSE Turn(m) + 1
             /\ \A k \in Lists \ {m} : Forward(k)' = Forward(k) /\ Turn(k)' = Turn(k)
    BY <1>1, LinkedInLast
  <1>4. CASE m # l
    <2>1. pxContainer'[x] = l => pxContainer[x] = l
      BY <1>2, <1>4
    <2>2. Forward(l)' = Forward(l) /\ Turn(l)' = Turn(l)
      BY <1>1, <1>3, <1>4
    <2> QED BY <1>1, <2>1, <2>2, UnseenElsewhere
  <1>5. CASE m = l
    <2> SUFFICES ASSUME pxContainer'[x] = l, NEW y \in unseen'[x]
                 PROVE  y = stoodAt'[x] \/ ComesBefore(Forward(l)', Turn(l)', y, x)
      BY DEF UnseenAfter
    <2>1. /\ Forward(l) \in Seq(Items) /\ Turn(l) \in 0 .. Len(Forward(l))
          /\ pxIndex[l] = RingAt(l, Forward(l), Turn(l))
          /\ \A i \in Items : i \in ToSet(Forward(l)) <=> pxContainer[i] = l
      BY <1>1, ListShape
    <2>2. /\ p \in 0 .. Len(Forward(l)) /\ p = IF Turn(l) = 0 THEN Len(Forward(l)) ELSE Turn(l) - 1
          /\ Forward(l)' = InsertAt(Forward(l), p + 1, z)
          /\ Turn(l)' = IF Turn(l) <= p THEN Turn(l) ELSE Turn(l) + 1
      BY <1>3, <1>5 DEF LastOfRotation
    <2>3. CASE x = z
      <3>1. Inserted(x) /\ pxContainer'[x] = l
        BY <1>2, <2>3 DEF Inserted
      <3>2. y \in ToSet(Forward(l)) /\ stoodAt'[x] = pxIndex[l]
        BY <2>1, <3>1, HistoryStarts
      <3>3. y = RingAt(l, Forward(l), Turn(l)) \/ ComesBefore(Forward(l)', Turn(l)', y, x)
        BY <1>1, <2>1, <2>2, <2>3, <3>2, InsertedLast
      <3> QED BY <2>1, <3>2, <3>3
    <2>4. CASE x # z
      <3>1. pxContainer[x] = l /\ ~Inserted(x)
        BY <1>1, <1>2, <2>4 DEF Inserted
      <3>2. y \in unseen[x] /\ stoodAt'[x] = stoodAt[x]
        BY <3>1, HistoryMoves
      <3>3. y = stoodAt[x] \/ ComesBefore(Forward(l), Turn(l), y, x)
        BY <1>1, <3>1, <3>2 DEF UnseenOK
      <3>4. ComesBefore(Forward(l), Turn(l), y, x) => ComesBefore(Forward(l)', Turn(l)', y, x)
        BY <2>1, <2>2, ComesBeforeIn
      <3> QED BY <3>2, <3>3, <3>4
    <2> QED BY <2>3, <2>4
  <1> QED BY <1>4, <1>5

LEMMA UnseenInsertInOrder ==
    ASSUME HistoryInv, HNext, NEW m \in Lists \ ReadyLists, NEW z \in Items, InsertInOrder(m, z),
           NEW l \in ReadyLists, NEW x \in Items
    PROVE  UnseenAfter(l, x)
  <1>1. l \in Lists /\ m # l /\ NULL \notin Lists /\ ListInv /\ UnseenOK
    BY ListAssumption, ReadyListsAssumption DEF ListAssumption, ReadyListsAssumption, HistoryInv
  <1>2. /\ pxContainer' = [pxContainer EXCEPT ![z] = m]
        /\ pxContainer \in [Items -> Lists \cup {NULL}]
    BY <1>1 DEF InsertInOrder, Enter, ListInv, LinksOK
  <1>3. pxContainer'[x] = l => pxContainer[x] = l
    BY <1>1, <1>2
  <1>4. Sequences!InsertInOrder(m, z)
    BY <1>1, InsertInOrderStep
  <1> DEFINE lists == [k \in Lists |-> Forward(k)]
             turns == [k \in Lists |-> Turn(k)]
  <1>5. lists'[l] = lists[l] /\ turns'[l] = turns[l]
    BY <1>1, <1>4 DEF Sequences!InsertInOrder, Turn
  <1>6. Forward(l)' = Forward(l) /\ Turn(l)' = Turn(l)
    BY <1>1, <1>5
  <1> HIDE DEF lists, turns
  <1> QED BY <1>1, <1>3, <1>6, UnseenElsewhere

LEMMA UnseenRemoveItem ==
    ASSUME HistoryInv, HNext, NEW m \in Lists, NEW z \in Items, pxContainer[z] = m, RemoveItem(z),
           NEW l \in ReadyLists, NEW x \in Items
    PROVE  UnseenAfter(l, x)
  <1>1. l \in Lists /\ NULL \notin Lists /\ ListInv /\ UnseenOK
    BY ListAssumption, ReadyListsAssumption DEF ListAssumption, ReadyListsAssumption, HistoryInv
  <1>2. /\ pxContainer' = [pxContainer EXCEPT ![z] = NULL]
        /\ pxContainer \in [Items -> Lists \cup {NULL}]
    BY <1>1 DEF RemoveItem, ListInv, LinksOK
  <1>3. pxContainer'[x] = l => pxContainer[x] = l /\ x # z
    BY <1>1, <1>2
  <1>4. PICK e \in 1 .. Len(Forward(m)) : Forward(m)[e] = z
    BY <1>1, ItemPlace
  <1>5. /\ Forward(m)' = RemoveAt(Forward(m), e)
        /\ Turn(m)' = IF e <= Turn(m) THEN Turn(m) - 1 ELSE Turn(m)
        /\ \A k \in Lists \ {m} : Forward(k)' = Forward(k) /\ Turn(k)' = Turn(k)
    BY <1>1, <1>4, LinkedOut
  <1>6. CASE m # l
    <2>1. Forward(l)' = Forward(l) /\ Turn(l)' = Turn(l)
      BY <1>1, <1>5, <1>6
    <2> QED BY <1>1, <1>3, <2>1, UnseenElsewhere
  <1>7. CASE m = l
    <2> SUFFICES ASSUME pxContainer'[x] = l, NEW y \in unseen'[x]
                 PROVE  y = stoodAt'[x] \/ ComesBefore(Forward(l)', Turn(l)', y, x)
      BY DEF UnseenAfter
    <2>1. pxContainer[x] = l /\ x # z /\ ~Inserted(x)
      BY <1>1, <1>3 DEF Inserted
    <2>2. y \in unseen[x] /\ stoodAt'[x] = stoodAt[x] /\ ~Removed(y)
      BY <2>1, HistoryMoves
    <2>3. y # z
      BY <1>1, <1>2, <1>7, <2>2 DEF Removed
    <2>4. y = stoodAt[x] \/ ComesBefore(Forward(l), Turn(l), y, x)
      BY <1>1, <2>1, <2>2 DEF UnseenOK
    <2>5. Forward(l) \in Seq(Items) /\ Turn(l) \in 0 .. Len(Forward(l))
      BY <1>1, ListShape
    <2>6. ComesBefore(Forward(l), Turn(l), y, x) => ComesBefore(Forward(l)', Turn(l)', y, x)
      BY <1>4, <1>5, <1>7, <2>1, <2>3, <2>5, ComesBeforeOut
    <2> QED BY <2>2, <2>4, <2>6
  <1> QED BY <1>6, <1>7

LEMMA HistoryStep == HistoryInv /\ [HNext]_<<listVars, history>> => HistoryInv'
  <1> SUFFICES ASSUME HistoryInv, [HNext]_<<listVars, history>> PROVE HistoryInv'
    OBVIOUS
  <1>1. ListInv /\ UnseenOK
    BY DEF HistoryInv
  <1>2. ListInv'
    <2>1. [ListNext]_listVars
      BY OperationIsListNext DEF HNext
    <2> QED BY <1>1, <2>1, ListStep
  <1>3. CASE HNext
    <2>1. ASSUME NEW l \in ReadyLists, NEW x \in Items PROVE UnseenAfter(l, x)
      <3>1. ASSUME NEW m \in Lists, TakeNext(m) PROVE UnseenAfter(l, x)
        BY <1>3, <3>1, UnseenTakeNext
      <3>2. ASSUME NEW m \in Lists, NEW z \in Items, InsertLast(m, z) PROVE UnseenAfter(l, x)
        BY <1>3, <3>2, UnseenInsertLast
      <3>3. ASSUME NEW m \in Lists \ ReadyLists, NEW z \in Items, InsertInOrder(m, z)
            PROVE  UnseenAfter(l, x)
        BY <1>3, <3>3, UnseenInsertInOrder
      <3>4. ASSUME NEW z \in Items, RemoveItem(z) PROVE UnseenAfter(l, x)
        <4>1. PICK m \in Lists : pxContainer[z] = m
          BY <1>1, <3>4 DEF RemoveItem, ListInv, LinksOK
        <4> QED BY <1>3, <3>4, <4>1, UnseenRemoveItem
      <3>5. Operation
        BY <1>3 DEF HNext
      <3> QED BY <3>1, <3>2, <3>3, <3>4, <3>5 DEF Operation
    <2>2. UnseenOK'
      BY <2>1 DEF UnseenAfter, UnseenOK
    <2> QED BY <1>2, <2>2 DEF HistoryInv
  <1>4. CASE UNCHANGED <<listVars, history>>
    <2>1. /\ \A l : Forward(l)' = Forward(l)
          /\ \A l : Turn(l)' = Turn(l)
          /\ UNCHANGED <<pxContainer, unseen, stoodAt>>
      BY <1>4 DEF listVars, history, Forward, Turn, Nth
    <2>2. UnseenOK'
      BY <1>1, <2>1 DEF UnseenOK
    <2> QED BY <1>2, <2>2 DEF HistoryInv
  <1> QED BY <1>3, <1>4

LEMMA HistoryInitially == HInit => HistoryInv
  <1> SUFFICES ASSUME HInit PROVE HistoryInv
    OBVIOUS
  <1>1. ListInv
    BY ListInitially DEF HInit
  <1>2. UnseenOK
    BY DEF HInit, UnseenOK
  <1> QED BY <1>1, <1>2 DEF HistoryInv

\* However many items there are and whatever comes and goes in between: when an item
\* is returned for the first time, those that were in its ready list before it have
\* been, but for the one the rotation stood at.
THEOREM OnlyOneIsOvertaken == HSpec => OneIsOvertaken
  <1>1. ASSUME HistoryInv, NEW l \in ReadyLists, NEW x \in Items, Returned(l, x)
        PROVE  unseen[x] \subseteq {stoodAt[x]}
    <2>1. l \in Lists /\ ListInv /\ UnseenOK /\ TakeNext(l) /\ pxIndex'[l] = x
      BY <1>1, ReadyListsAssumption DEF ReadyListsAssumption, HistoryInv, Returned
    <2>2. /\ Turn(l)' = IF Turn(l) = Len(Forward(l)) THEN 1 ELSE Turn(l) + 1
          /\ x = Forward(l)[Turn(l)'] /\ Forward(l) # <<>>
      BY <2>1, IndexAdvances
    <2>3. /\ Forward(l) \in Seq(Items) /\ NoDuplicates(Forward(l))
          /\ Turn(l) \in 0 .. Len(Forward(l))
          /\ \A i \in Items : i \in ToSet(Forward(l)) <=> pxContainer[i] = l
      BY <2>1, ListShape
    <2>4. Turn(l)' \in 1 .. Len(Forward(l))
      BY <2>2, <2>3, ToSetSeq
    <2>5. pxContainer[x] = l
      BY <2>2, <2>3, <2>4, ToSetSeq
    <2>6. ASSUME NEW y \in unseen[x], y # stoodAt[x] PROVE FALSE
      <3>1. ComesBefore(Forward(l), Turn(l), y, x)
        BY <2>1, <2>5, <2>6 DEF UnseenOK
      <3> QED BY <2>2, <2>3, <3>1, ComesBeforeNext
    <2> QED BY <2>6
  <1>2. HistoryInv /\ [HNext]_<<listVars, history>> =>
           [\A l \in ReadyLists, x \in Items :
               Returned(l, x) => unseen[x] \subseteq {stoodAt[x]}]_<<listVars, history>>
    BY <1>1
  <1> QED BY <1>2, HistoryInitially, HistoryStep, PTL DEF HSpec, OneIsOvertaken

\* The kernel's use of the lists is one of the uses of List.
THEOREM KernelListsImplementSequences == HSpec => ImplementsSequences
  <1>1. HInit => ListInv /\ Sequences!Init
    BY ListInitially DEF HInit
  <1>2. [HNext]_<<listVars, history>> => [ListNext]_listVars
    BY OperationIsListNext DEF HNext
  <1> QED BY <1>1, <1>2, ListStep, PTL DEF HSpec, ImplementsSequences, Sequences!Spec
=============================================================================
