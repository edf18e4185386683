# TLA+ verification of the FreeRTOS kernel in the partner-supported demos

The repository collects demo applications that FreeRTOS partners maintain for
their processors. Most of its lines are register definitions, vendor drivers
and third-party code, and most demos run a kernel that lives in a git submodule
which is empty here. One demo family, `PIC24_DSPIC_MPLABX`, carries the kernel
itself: **FreeRTOS kernel V10.5.1** in `PIC24_DSPIC_MPLABX/Source`. That kernel
is the repository's own core logic and the subject of this development; paths
below are relative to that directory unless they start with another one.

The configuration that is modelled is the one those demos build: one core,
`configUSE_PREEMPTION` 1, a 16-bit tick count, four priorities, time slicing on,
interrupts that call the `FromISR` functions.

## 1. Inventory

### Kernel components

| Component | State | Operations | Correct when |
|---|---|---|---|
| `list.c` | doubly linked rings with a sentinel, a walking index, an item count, a container pointer per item | initialise, insert in order, insert at the index, remove | forward and backward links agree, the count is the length, values ascend, an item is in at most one list |
| `tasks.c`: scheduler | ready list per priority, two delayed lists that swap at tick overflow, pending ready list, suspended list, termination list, tick count, pended ticks, `xNextTaskUnblockTime`, suspension depth | create, delete, delay, suspend, resume, set priority, suspend and resume the scheduler, tick, switch context, abort a delay | every task is in one place; the running task has the highest ready priority; nobody oversleeps, whatever the tick count wraps; ticks are not lost |
| `tasks.c`: block times | time of entry, overflow count, remaining ticks | set time-out state, check for time-out | the remaining time never grows and is right across a wrap |
| `tasks.c`: notifications | value and state per task and index | notify, notify from ISR, take, wait, clear | a notification is not lost between a test and a block |
| `queue.c`: queues | ring buffer, fill level, two event lists, two lock counts | send (back, front, overwrite), receive, peek, reset, the same from interrupts | a bounded FIFO; no lost wakeup; bounded waits end |
| `queue.c`: mutexes | holder, recursion count, mutexes held per task | take, give, recursive take and give | mutual exclusion; inherited priority is the maximum of the waiters and is given back |
| `queue.c`: queue sets | container pointer, queue of member handles | add, remove, select, post | one entry in the set per item in its members |
| `stream_buffer.c` | ring of bytes, head, tail, trigger level, one waiting sender and one waiting receiver | send, receive, reset, set trigger level, the same from interrupts | bytes arrive in order, messages whole; no lost wakeup |
| `event_groups.c` | bits, unordered event list with the awaited bits in the item values | wait, set, clear, sync, delete | a waiter is released exactly by its condition; bits are cleared after all waiters were tested |
| `timers.c` | two timer lists that swap at overflow, command queue | start, stop, reset, change period, delete, the timer task | a timer expires once per period, late but not lost, across the wrap |
| `croutine.c` | ready, delayed and pending lists of co-routines | create, schedule, delay | as the scheduler, without preemption |
| `portable/MemMang` | free list ordered by address, free byte count | malloc, free | blocks do not overlap, neighbours merge, bytes are conserved |
| `portable/MPLAB`, `mpu_wrappers.c` | CPU registers, nesting count | context switch, critical section | outside the model: what the port guarantees is assumed |

### How they interact

Tasks call `queue.c`, `stream_buffer.c`, `event_groups.c` and `timers.c`; these
call `tasks.c` to block (`vTaskPlaceOnEventList`, `xTaskNotifyWait`), to make
tasks ready (`xTaskRemoveFromEventList`, `xTaskNotify`) and to measure block
times (`xTaskCheckForTimeOut`). `tasks.c` keeps every task in lists of `list.c`:
its *state* item in a ready, delayed, suspended or termination list, its *event*
item in the event list of the object it waits for, or in the pending ready list.
Software timers are a task fed by a queue. Interrupts call the `FromISR`
functions and the tick handler `xTaskIncrementTick`.

Two kinds of exclusion are used, and most of the difficulty lies between them.
A *critical section* excludes interrupts and therefore everything. *Scheduler
suspension* excludes other tasks but not interrupts; what interrupts may then
not touch is protected by the *queue lock* (event lists of a queue) or by the
*pending ready list* (ready and delayed lists), and has to be made up for when
the lock is released or the scheduler resumed.

### Hard behaviours

- interrupts between the test of an object and the block on it;
- wakeups and ticks that are deferred and replayed;
- a waiter that is woken, timed out and aborted at nearly the same time;
- the wrap of the 16-bit tick count under delays, time-outs and timers;
- counters with a cap, and cached values (`xNextTaskUnblockTime`);
- priority changes of tasks that are in lists sorted by priority;
- fairness: who gets an item that several tasks wait for.

`PROJECT.json` lists each of them at its line, with the property that covers it
or the reason none does.

### Other parts of the repository

The PIC24/dsPIC demos add interrupt-driven UART drivers (`serial.c`) and, on the
dual-core dsPIC33C, a mailbox between the cores; the AVR demos have their own UART
drivers and a command console. The TI AM64x demo has a driver porting layer
(semaphores, events, clocks, tasks, heap, queues, logs) over a kernel that is not
in the repository, and a vendor SDK. The remaining demos (R82, M85, M35P, RP2350,
RH850, C29x, AURIX, CVA6, Xtensa, FT32) are applications and start-up code for
kernels in empty submodules. `PROJECT.json` has a component for each, with the
reason it is not modelled.

## 2. Modules

    BoundedFIFO   <-- refined by --  Queue  <- QueueInv <- MCQueue
                                       |          ^- QueueProofs
    OrderedLists  <-- refined by --  List  <- ListTurnHistory
          \                            |
           '-- ListOps (the operators on sequences) <- ListOpsProofs
                  |        |        |         |
                  |        |        |      Scheduler <- SchedulerInv <- MCScheduler
                  |        |        |                        ^- SchedulerProofs
                  |        |      Mutex <- MCMutex
                  |        |        ^- MutexProofs
                  |      Timers <- MCTimers
                  |        ^- TimersProofs
               EventGroups <- MCEventGroups
                     ^- EventGroupsProofs

    BoundedStream <-- refined by --  StreamBuffer <- MCStreamBuffer
                                       |     ^- StreamProofs
                                    TaskNotify

    Heap4 <- MCHeap4           TickType, which BlockTimes and List use
    SequentialProofs, over BlockTimes, Heap4 and ListTurnHistory

| Module | Models | State and actions against the code |
|---|---|---|
| `List` | `list.c`, the macros of `include/list.h` | the link, container, value, count and index fields; one action per operation, `InsertionPoint` is the loop of `vListInsert` with its shortcut for `portMAX_DELAY` |
| `OrderedLists` | what a list promises | sequences with a place for the rotation; abstract, `List` implements it |
| `ListTurnHistory` | ready lists | `List` with history variables: which items an item found in its list, and where the rotation stood |
| `TickType` | `TickType_t` | the largest value, which is both the longest delay and the value that sorts last in a list |
| `ListOps` | the same operations as the rest of the kernel uses them | operators on sequences; `IsWithout` says what removing several tasks leaves, as a relation, so that it can be reasoned about without recursion |
| `Queue` | `queue.c` without mutexes and sets, and what its blocking calls use of `tasks.c` | `pc` is the place of each task in its call; a step is a critical section or a stretch only an interrupt can disturb |
| `BoundedFIFO` | what a queue promises | a sequence of at most `uxLength` items; abstract, `Queue` implements it |
| `QueueInv` | | the inductive invariant of `Queue` |
| `Mutex` | mutexes and recursive mutexes in `queue.c`, priority inheritance and the ready bits in `tasks.c` | holder, recursion count and event list of each mutex; current priority, mutexes held and place in its call of each task; the set of ready tasks and `uxTopReadyPriority` as the bit map |
| `Scheduler` | the scheduler of `tasks.c` | `stateList` is the list a task's state list item is in, `xEventList` and `xPendingReadyList` hold event list items; one action per call, or per part of it between two places where an interrupt can come |
| `SchedulerInv` | | its properties and its inductive invariant |
| `BlockTimes` | `vTaskSetTimeOutState`, `xTaskCheckForTimeOut`, `xTaskDelayUntil` | the tick count, the overflow count and the wake time, all of which wrap; history variables count true time |
| `TaskNotify` | task notifications without a value | operators: what notifying, clearing, waiting and timing out do to a notification state |
| `StreamBuffer` | `stream_buffer.c` | the ring, `xHead`, `xTail`, the trigger level, who waits, and the place of the writer and of the reader in their calls, each a task or an interrupt |
| `BoundedStream` | what a stream buffer promises | a bounded sequence of bytes, or of messages; abstract, `StreamBuffer` implements it |
| `Timers` | `timers.c`, and `vTaskPlaceOnEventListRestricted` as the timer task uses it | the two lists, the command queue, `xLastTime` and what the timer task does next; one action per part of its loop, one for all commands |
| `EventGroups` | `event_groups.c`, and the event list item values it shares with the scheduler | the bits, the unordered event list, the item value of each task with its control bits, and the place of each task in its call |
| `Heap4` | `portable/MemMang/heap_4.c` | the free list in the order of its links, the size of each block, the blocks allocated and those being freed, the free byte counts |
| `MCQueue`, `MCScheduler`, `MCMutex`, `MCStreamBuffer`, `MCTimers`, `MCEventGroups`, `MCHeap4` | | instances for TLC |
| `...Proofs` | | proofs of the component they are named after; `SequentialProofs` has those of `BlockTimes`, `Heap4` and `List`, whose operations run one at a time |

What an atomic step is. On this port there is one core, and only three things
can happen between two instructions: an interrupt (unless in a critical
section), a switch to another task (unless the scheduler is suspended), nothing.
A step therefore runs from one point where somebody else can act and be noticed
to the next. Within a call with the scheduler suspended, code that reads what no
interrupt writes is joined to its neighbour. `portYIELD` switches at once.
Interrupts use neither mutexes nor event groups (they have the timer task set
bits for them), so in these two a stretch with the scheduler suspended is one step.

Abstractions, and why they are sound for the properties stated:

- Ready lists: `Scheduler` keeps the set of ready tasks and leaves open which
  task of the highest priority runs next; every rotation is one of its
  behaviours. That the rotation is fair is checked in `ListTurnHistory`.
- One event list stands for all objects a task can wait for in `Scheduler`; what
  is particular to a queue is in `Queue`.
- Time in `Queue`, `Mutex`, `StreamBuffer` and `EventGroups` is "the block time has
  run out or has not"; that `xTaskCheckForTimeOut` computes this correctly is checked
  and proved in `BlockTimes`. `Mutex` leaves the idle task out.
- `Queue` lets a task outside its calls compete for nothing: its own code may be
  anywhere. A task that unlocks the queue and owns the scheduler runs.
- A copy into or out of the ring of `StreamBuffer` is one step with the store of
  the index that ends it: until then the other side looks at none of it.
  `xStreamBufferReset` does not come in the middle of a copy (section 6).
- `Timers` deletes a timer by stopping it: the memory is the program's. The bits of
  `ucStatus` change independently (section 6 names the race this hides).
- What can no longer be read is set to 0: the item value of a task outside the
  delayed lists, or of a timer in no list, and the freed cells of a ring. A read of
  freed memory (the priority of a task deleted while its creator is between two
  critical sections) is a nondeterministic choice. An event group is deleted when
  no task is still to look at it after a time-out.
- Calls made before the scheduler is started, `configUSE_TICKLESS_IDLE`, run-time
  statistics, hooks, trace macros, thread local storage and stack checks are left
  out: they change no state modelled.
- `INCLUDE_vTaskDelete`, `INCLUDE_xTaskAbortDelay` and `configUSE_MUTEXES` are on in the
  models (demos that are built leave some of them off): they are kernel code with the
  hardest interleavings, and each run states which calls are made.
- History variables, which no guard reads: the time counts of `BlockTimes`, the time
  `left` to each timer, the size `requested` of each block, what a stream's reader
  has `received`, which participants have given up a rendezvous (`gaveUp`).

Definitions whose comment begins with `Mutant` are changed forms of the definition next to them, as
a plausible bug would change it. Nothing uses them; each shows that the property
it belongs to can fail.

## 3. What is checked

| Run | Instance | Shows |
|---|---|---|
| `queue_wakeups` | 3 tasks of 3 priorities, 2 slots, 2 items: one sends and aborts delays, one peeks, one sends and receives; interrupts post at the front and receive; calls that poll and calls with a block time | no item and no slot is overlooked by the tasks that wait for it (`NoLostItem`, `NoLostSlot`), no task drops out of every list (`OnePlace`), event lists in priority order, the ring with its two indices is a bounded FIFO (`ImplementsFIFO`) |
| `queue_live` | a task that sends, overwrites and resets, one that receives, one that peeks, of one priority; 1 slot, a posting interrupt, fair | calls with a block time return; items and slots reach those who wait for them |
| `list` | 3 items, a ready list and another list, 2 values | the links do what the sequences do; a newly ready task overtakes nobody but the one at `pxIndex`; nobody in a ready list is passed over for ever |
| `scheduler` | 2 tasks and idle, 3 priorities, tick count of 4 values, every call, signalling and resuming interrupts, every initial tick count and priority | delays end exactly on time across every wrap and replay, the highest priority runs, `uxTopReadyPriority` and `xNextTaskUnblockTime` are safe, nobody is ready and waiting at once |
| `block_times` | tick count of 5 values, overflow count of 3, looks up to a turn late, a periodic task up to 12 ticks off | the verdict and the time left are exact; the periodic task keeps its beat, and no delay exceeds the period |
| `mutex` | 4 tasks of 3 priorities, a mutex and a recursive mutex (depth 2); either each task uses the one mutex, or two use that only and two both, given back in any order; all block times | a task without a mutex runs at its base priority and nobody ever below it; a holder that uses one mutex runs at least at the priority of its waiters, and no longer than they wait; no ready list that holds a task lacks its bit, and where each task uses one mutex no other list has one; nobody sleeps beside a free mutex |
| `mutex_lost_yield` | the same tasks, no recursion, no finite block times | *violated*, see section 6 |
| `stream` | ring of 5 bytes, length field of 1, payloads of 1 and 2 bytes, reads of 2, trigger levels 0 and 3, set while no reader waits (`LevelWhileWaiting` FALSE), all block times, time-outs between any two steps, resets between any two but in the middle of a copy; stream or message buffer, each side a task or an interrupt | no data and no space is overlooked by the side that waits for it; the two sides do not wait for each other (the first and the last with the preconditions of section 6); bytes arrive in order and messages whole |
| `stream_early_wake` | the same, ring of 4 | *violated*, see section 6 |
| `timers` | 2 timers, tick count of 7 values, periods 1, 2 and 5, a command queue of 1, a timer task up to 1 tick late, commands up to 2 ticks old | a timer's place in the lists says when it really expires, no callback is early, the timer task never sleeps past an expiry |
| `event_groups` | 4 tasks: 2 meet in a rendezvous with and without a block time, 2 wait for two other bits in three ways (with or without clearing, for all or any); bits set by tasks and the timer task, time-outs, a priority change of a waiter | nobody sleeps while the bits it asked for are set; the rendezvous lets nobody through before all have come since the last meeting, though some gave up meanwhile; those whose condition the bits meet are released together, though some clear bits others waited for |
| `heap4` | 57 bytes from an odd address, headers of 4, alignment 2, 16-bit sizes; requests of 0, 1, 6, 12, 40000 and 65535 bytes, arrays whose size overflows | the blocks tile the heap and hold what was asked for; free neighbours are merged and the count of free bytes is right |

Why these bounds are enough for what can go wrong. A tick count of four values
wraps in every few steps and lets a delay be due before, at and after the wrap,
and one tick be pended across it; the seven of `timers` let a period cross the wrap
with a command pending across it too. Three tasks of three priorities give a running
task, one that outranks it, one that ties and one that is outranked; two event
lists with two waiters each are the least that can be in the wrong order, and four
tasks are the least in which a holder has two waiters on two mutexes. Two slots
make the ring's indices wrap separately; one slot makes a queue full and empty in
alternate steps. The ring of `stream` holds less than two of its longest messages, so that
both sides wait and every copy is at some time split at the end of the storage.
`MaxPended` bounds `xPendedTicks` (a tick that would exceed it does not come),
`MaxNesting` the depth of `vTaskSuspendAll`, `MaxDepth` the recursion of a mutex,
`MaxLate`, `MaxLag` and `MaxAge` how late tasks and commands are. `Programs` says which mutexes
each task uses. `NestedWaits` FALSE keeps tasks from waiting while they hold a mutex (deadlock by lock order would be the
program's), `TakesOwn` {} from taking a mutex they hold. The theorems of section 5 have no
bound but these, which may be any numbers. Symmetry is used over items (`queue_wakeups`),
over the two tasks that differ in nothing (`scheduler`), over timers (`timers`) and over
the two participants of the rendezvous, each named as its bit is (`event_groups`), and in
no liveness run. A participant that waits for ever is one whose block time does not end. Deadlock is checked in every run.

## 4. Fairness

- `queue_live`: a step that a call of a task can take again and again is taken, and
  time goes on. It is the fairness of time slicing: tasks of one priority share
  the processor (`list` shows that the rotation gives each its turn), so a task
  is offered its step infinitely often without its being enabled all the time -
  strong fairness. Tasks of lower priority are promised nothing: `Running`
  disables their steps while a higher one is in a call, and `queue_live` uses
  one priority.
- `list` (`EveryTurnComes`): the next entry of a ready list is taken again and again,
  which is what `vTaskSwitchContext` does at each tick.

No other module assumes fairness, because the code justifies no liveness there: a task
that waits for a mutex can lose it for ever to tasks that take it without waiting, the
timer task can be kept busy for ever by commands.

## 5. What is proved

All for every set of tasks, number of priorities, queue length, ring size, width of the
tick count and choice of calls that tasks and interrupts make, from the assumptions
named in the modules (`QueueAssumption`: finitely many tasks, no more than
`uxNumberOfTasks`, at most 127 of them because the lock counts are `int8_t`;
`TimersAssumption`: a period and the lateness of the timer task together stay below a
turn of the tick count, and so does the age of a command; `EventGroupsAssumption`: each
participant has its own bit of the rendezvous and other callers keep off these;
`Heap4Assumption`: a heap is not larger than the sizes that leave the top bit of a
`size_t` free, which marks allocated blocks; `ListAssumption`: items, lists and `NULL` are
different things; `SchedulerAssumption`, `BlockTimesAssumption`, `TickTypeAssumption`,
`MutexAssumption`, `StreamBufferAssumption`: the constants are what their names say).

`ListOpsProofs`: `ListInsert` adds exactly one task, keeps a list free of duplicates and
ordered; `ListRemove`, `ListAppend` and `RestOf` likewise. Besides, what walks along a
list need: `Induction` is induction over the numbers for a property given as a function
to truth values, so that it is a sentence of first order; `FoldExists` says that a fold
over a list has a sequence of intermediate results, each computed from the one before
it; `FirstPlaces` and `LastPlace` take a list apart at the place the walk has reached.
The other proofs cite these lemmas.

`Queue`. `NoLostItem` is not inductive: whether an item is overlooked depends on where
each task is in its call. `StructureOK` collects that: which steps hold the scheduler
(`OwnerOK`) and the queue lock (`LockOK`), in which of the lists a task can be at which
step (`PlacesOK`), and what call it is in (`CallOK`). From it follow `OnePlace` and
`PriorityOrder`. `ItemsOK` strengthens `NoLostItem` to the moment before a reader is put
on the event list: it has tested that the queue is empty, and what arrives from then on
is counted in `cTxLock`. Each step then either moves an item and a reader together, or
wakes a reader for it, or adds it to the count; the cap of the count is harmless as it
is then at least the number of tasks. `NoLostSlot` is the mirror image from `SlotsOK`,
with one difference: `xQueueReset` frees all slots and wakes one sender, so the theorem
is about queues that have one slot or are never reset.

`QueueImplementsFIFO` rests on `RingInvariant`: the items of the abstract sequence are
those in the `uxMessagesWaiting` cells that end where `pcReadFrom` and `pcWriteTo` meet,
modulo the length. For resets and overwrites of a queue of several slots this proof, and
no run, is the evidence.

`Scheduler`. `InductiveInvariant` adds to the properties what they need of every step:
`ControlOK` (the scheduler is suspended exactly while the running task is in a step that
suspends it, and no other task is in one), `RunningOK` (the running task is ready unless
it is about to yield; a ready task that outranks it has a yield pending or about to be
made) and `AbortOK` (the task `xTaskAbortDelay` works on is in no state list meanwhile).
`HighestRuns` is `RunningOK` at rest. For the time properties, each step is one of five:
it takes no time and at most takes tasks out of the delayed lists; it puts the running
task in; it pends a tick; it works on a tick from the interrupt, or on a pended one. A
task due in `n` ticks has the wake time `Later(xTickCount, n)`; that a tick wakes it
exactly if `n = 1` is the lemma `DueExactly`, with and without a wrap, and needs
`UnblockTimeNotLate`.

`BlockTimes`. The invariant ties what the code keeps to true time: the tick count and
the overflow count are true time modulo their widths, the time noted at entry is that of
the last look, and what is left of the block time is the block time less what has
passed; the wake time is a multiple of the period from the start, modulo the width.

`Heap4`. `HeapInv` is what holds between calls: the free blocks and the used ones are
different and together tile the heap (`Tiles`: one begins where the heap does, each ends
where another begins or the heap ends, and none reaches into the next), the free list
ascends (`Rising`), no free block touches the next (`Apart`), and the two counts are right.
`prvInsertBlockIntoFreeList` is an insertion into the list and up to two merges
(`InsertKeepsHeap`); a merge or a split replaces two neighbours by one or one by two and
keeps the tiling (`MergeTiles`, `CutTiles`). The count of free bytes is a fold over the list;
`SumsExist` gives its intermediate sums, with which replacing or removing one block
changes the sum by that block (`SumOfReplaced`, `SumOfRemoved`).

`List`. `ListInv` says that the links of each list are a ring of its sentinel and the items
of a sequence without duplicates (`Ring`; `RingAt` is the node at a place), that the
container of an item is the list whose sequence it is in, and that `pxIndex` points into
the ring. Linking an item in behind a place, and out again, are then statements about
sequences (`RingInsert`, `RingRemove`), and the loop of `vListInsert` stops at the place
`ListInsert` of `ListOps` computes (`InsertionPlace`); so every operation of the linked lists
is one of `OrderedLists` (`ListsImplementSequences`). `OnlyOneIsOvertaken` adds to that
invariant what the history says of each item of a ready list: whoever it found there and
has not seen returned, comes before it in the rotation, but for the one at `pxIndex`.

`Mutex`. `MutexInv` is `Structure` (the types, which call each task is in, a free mutex
is counted by no task, waiters are in one event list and are not ready, the running task
is ready) with `PriorityRestored` and `NoLostMutex`. That no ready list lacks its bit
(`ReadyBitsAreSet`) is an induction of its own and has no hypothesis either.

`HolderInherits`, `InheritedForAReason` and that no bit is left over (`ReadyBitsExact`)
are proved for programs in which no task waits for one mutex while it holds another
(`NestedWaits` FALSE): without that they are false (section 6). `InheritanceInv` adds to
`MutexInv` that a task that waits, or is about to, holds nothing (`WaitsHoldNothing`),
and what is owed between the tasks (`LendInv`). Neither property is inductive.
`HolderInherits` fails if a waiter can outrank the task that takes the mutex it waits
for, so the invariant says that a free mutex has a ready task on its way to it that no
waiter outranks (`WokenOutranks`), and therefore that whoever runs and takes it outranks
the waiters (`TakerOutranks`); this is where a task that uses several mutexes is lost,
as it may run on at a priority it has given up. `InheritedForAReason` fails if the one
task that noted its loan goes while others stay, so `LoansNoted` and `LoansExact` keep
an account: every waiter above the base priority of the holder has noted that it lent,
and a raised priority has a lender of that priority that has not yet taken it back. A
lender that times out sets the holder to the priority of the first waiter, which
`WaitersInOrder` makes the highest; `ReadyBitsExact` needs the same account, because
`vTaskPriorityDisinheritAfterTimeout` resets the wrong bit (section 6) which does no
harm as long as the list the holder leaves is not empty: whoever lent it that priority
is ready there. `NoTaskDisinheritsItself` is the assertion at `tasks.c`:4275 for these
programs.

`StreamBuffer`. `WakeupInv` says where the other side may be while one side waits: it
has not read the handle yet, is on its way to the notification, or the notification is
pending. From it follow `NoLostSpace` and, for a trigger level that is not set while a
reader waits (`~LevelWhileWaiting`, section 6), `NoLostData`. `BytesAndMessagesArriveInOrder`, that
a buffer implements the bounded sequence of bytes, or of messages, needs besides that
what a side measured is still there when it copies (`CopiesFit`), as the other side can
only have made more of it, and for messages that the ring holds whole frames
(`HoldsFrames`: there is a set of places from which one frame leads to the next, up to
the end) and that a measured amount that has more than a length has the whole first
message (`Measured`). `Messages` parses the bytes by a recursion that goes from each place
to later ones only, so it has exactly one result (`ParseExists`, `MessagesParse`); that a
frame written behind whole frames adds one message at the end (`FrameAdded`) and that the
first frame is the first message (`FrameRemoved`) are inductions from the last place
back to the first. `SidesDoNotStandOff` uses `HoldsFrames` too: where a reader finds no
message there are no bytes at all, so that what does not fit never will; it has the hypothesis of
`NoLostData`, which `NoLostSpace` and the refinement do without.

`Timers`. `NeverEarly` and `ValuesAreTrue` are not inductive: whether the value of a
timer is right depends on which of the two lists it is in, on when the timer task last
looked at the time, and on what it found before it resumed the scheduler. `TimersInv`
says that the lists are `Sound` with respect to `Time`, the time as it would be had the
tick count not wrapped since the last sample: each active timer is in one list, once, in
the order of the values; the value in the current list is the time of expiry, in the
overflow list that time less one turn; and nobody has been early. With it go `AgesTrue`
(a queued command carries the tick count of its call), `FirstFound` (the expiry the task
found is still that of the first timer), and `SampledInTime` (while a timer runs, the
next sample comes before the tick count has gone all the way round, however long the
task sleeps and is kept waiting), which is what makes a single wrap the most it can
miss. Insertion, removal, expiry and reloading each keep lists sound with one timer
taken out of the account. The loop of `prvReloadTimer` is arithmetic (`MissedPeriods`),
that of `prvSwitchTimerLists` an induction along the list: after the wrap it has emptied
the current list, and what reloads is in the other one.

`EventGroups`. `GroupInv` adds to `NoMissedBits` and `Barrier` that the item value of a
waiter is what it asked for, that the blocked tasks are those in the list, and that
the bits of the rendezvous are never all set between two calls (`MeetingOpen`): whoever
completes it clears them at once, so a participant that gives up finds nothing to clear. What `xEventGroupSetBits` does to the whole list is shown by induction
along it (`Walked`): it releases those that the bits it was called with suffice for,
whatever the ones before them clear, and clears the union of what these asked to have
cleared. From that follow that nobody is left whose condition holds, and the action
property `EveryMatchReleased`.

Only model-checked is the liveness (`EveryTurnComes`, `BoundedCallsReturn`,
`ItemsReachWaiters`, `SlotsReachWaiters`), because the prover does not reason about fairness
or `ENABLED`. What a `RECURSIVE` operator computes is out of its reach too: the modules with
proofs write their walks as folds, functions or relations. Where a recursion or a fold
is reasoned about, the induction is over numbers, for a property written as a function
to truth values. Of what the runs check, `NoLostSlot` is proved for queues of one slot or
without resets, `HolderInherits`, `InheritedForAReason` and `ReadyBitsExact` without
`NestedWaits`, and `NoLostData` and `NoStandoff` without `LevelWhileWaiting`; these
limits are limits of the code (section 6).

## 6. Where code and documentation differ

Runs that are expected to be violated:

- `mutex_lost_yield`: a task that gives back its last mutex gives up the priority it
  inherited, and `xTaskPriorityDisinherit` asks for a context switch "whether a task is
  waiting on it or not" (`tasks.c`:4204-4212). `xQueueGenericSend` (`queue.c`:932-954)
  looks at this only if nobody waits; otherwise it yields only if the task it wakes
  outranks the running one. So: a task inherits a priority through a second mutex, gives
  that mutex to the waiter of equal priority (no yield), then gives the first to a
  waiter of low priority (no yield either), and runs on below the first waiter until
  something else causes a switch. The same happens with one mutex whose high waiter has
  timed out but not yet run. If `Give` yields whenever a priority is given up,
  `HighestRuns` holds. A consequence is that `HolderInherits` is stated for holders that
  only ever take one mutex.
- `stream_early_wake`: a reader blocked on an empty stream buffer "will not be unblocked
  until" the trigger level is reached or its time is over
  (`include/stream_buffer.h`:189-191); the writer compares before it suspends the
  scheduler (`stream_buffer.c`:754) and may notify a reader that has since emptied the
  buffer and waits again. That reader returns 0 bytes, though it asked to wait for ever
  (:509).

Observed while modelling, and excluded by the preconditions or the instances:

- `xQueueReset` of a full queue wakes one of the senders that wait (`queue.c`:323,
  `include/queue.h`:261), though every slot is free; the others stay blocked.
- `ucDelayAborted` stays set if the aborted call finds what it waited for
  (`tasks.c`:3321, `include/task.h`:889); a later call then gives up a wait nobody
  aborted. The same if `xTaskAbortDelay` meets a task that `vTaskSuspend` had suspended
  and that is in the pending ready list, which `eTaskGetState` reports as blocked.
- `vTaskPrioritySet` of a waiting task leaves it at its old place in the event list
  (`tasks.c`:1616), which `xTaskRemoveFromEventList` takes to be sorted (:3174-3176,
  `queue.c`:2141). Likewise inheritance by a task that waits itself (`NestedWaits`):
  then `HolderInherits` does not hold.
- `vTaskPriorityDisinheritAfterTimeout` resets the ready bit of the priority just
  assigned, not of the one left (`tasks.c`:4308 after :4282; `vTaskPrioritySet` keeps
  the old one, :1637). This leaves a bit set for an empty list, against the assertion at
  :178, with `NestedWaits`, and without it if tasks use several mutexes. h of priority 1
  holds mutexes 1 and 2, w and t of priority 3 wait for the first, x of priority 1 for
  the second, so h has priority 3. It gives back both; by the lost yield above it runs
  on beside w, at 1, and takes both again. At the next tick w runs, its time is over,
  and nothing is taken back because h holds two. u of priority 2 now lends h its own for
  mutex 2; h gives that back and keeps the 2, as it still holds the other; u takes and
  returns it and sleeps. When t's time is over h goes from 2 to 1, and the bit of 2, now
  an empty list, is left. So `ReadyBitsExact` promises exact bits only where each task
  uses one mutex.
- `configASSERT( pxTCB != pxCurrentTCB )` (`tasks.c`:4275) fails if a task waits with a
  time limit for a mutex it holds (`NestedWaits` with `TakesOwn`); otherwise it holds
  (`NoTaskDisinheritsItself`).
- `uxTaskResetEventItemValue` (`tasks.c`:4658-4668) has no critical section: preempted
  by a `vTaskPrioritySet` it stores the old priority (`EventGroups.ItemValueIsPriority`
  does not hold).
- A participant that gives up `xEventGroupSync` leaves its bit set, so that the others
  may meet without it; `Barrier` counts it as having come.
- `xEventGroupSetBits` reads the bits it returns after it has resumed the scheduler.
- Stream buffers: `xStreamBufferReset` during a copy corrupts the indices (it checks
  only that nobody waits). `xStreamBufferSetTriggerLevel` stores the level and wakes
  nobody (`stream_buffer.c`:585), though the level is defined as the number of bytes
  at which a blocked reader "is moved out of the blocked state", and may be modified
  (`include/stream_buffer.h`:770-784): a reader stays blocked beside bytes that reach a
  level lowered while it waits. With `LevelWhileWaiting` TRUE TLC finds `NoLostData`
  violated in seven steps, and, with a payload of three bytes, `NoStandoff`; so both have
  the hypothesis that it is FALSE. If a writer
  needs more space than the trigger level leaves, writer and reader can wait for each
  other, so `NoStandoff` has this precondition.
- Timers: the model assumes that a period and the lateness of the timer task stay below
  a turn of the tick count; an expired timer that a queued command resets or stops loses
  that expiry; `ucStatus` is read, changed and written outside a critical section
  (`timers.c`:559).
- `listINSERT_END`: an item inserted after the item at `pxIndex` has left may be
  returned before one that was there and was not returned since (`list.h`:344-346 says
  the inserted one is last). `OneIsOvertaken` names the item concerned.
- `xTaskCheckForTimeOut`, first asked more than a turn of the tick count after the call
  began, may answer "not yet" (`MaxLate`).
- After `xTaskAbortDelay` of a task in `xTaskDelayUntil`, `*pxPreviousWakeTime` is ahead
  of a tick count that has not wrapped; the comment at `tasks.c`:1235 takes that for a
  wrap, and the beat may be lost (`lostBeat`).
- `vTaskResume` and `xTaskResumeFromISR` treat a task that waits for ever for a
  notification as suspended.

## 7. What is left

- Queue sets (`queue.c`:2900-3100): `prvNotifyQueueSetContainer` repeats the locking
  protocol of `Queue` one level up. Deleting a queue, a mutex or a stream buffer: the
  program has to see to it that nobody uses it.
- Notifications with a value (`ulTaskNotifyTake`, counting, overwriting): `TaskNotify`
  has the states they share, and `StreamBuffer` is their only user in the kernel.
- Co-routines, the flag of the UART driver and the mailbox of the two cores: small, and
  without the interleavings the rest is about.
- Mutexes with `NestedWaits`: what does hold of inheritance along a chain of holders.

## 8. What is not modelled

`mpu_wrappers.c` and the port layer (privilege and registers; the models assume
what they guarantee), `heap_1` to `heap_3` and `heap_5` (no free list, or that of
`heap_4` again), starting and ending the scheduler, tickless idle, the functions that only report
(`uxTaskGetSystemState` and the like), what section 7 lists, and the demo
applications, drivers and vendor libraries of the other boards, for the reasons
`PROJECT.json` gives for each. In lines these are nearly all of the repository: more than a
million of its 1.1 million are generated register definitions and vendor code,
against some ten thousand of the kernel.
