CONSTANTS
    a = a b = b c = c idle = idle
    Tasks = {a, b, idle}
    Idle = idle
    NoTask = NoTask
    configMAX_PRIORITIES = 3
    portMAX_DELAY = 3
    MaxPended = 1
    MaxNesting = 1
    Calls = {"yield", "delay", "wait", "signal", "prioritySet", "suspend", "resume", "delete", "create", "abortDelay", "suspendAll", "catchUpTicks"}
    IsrCalls = {"signal", "resume"}
SYMMETRY SymmetricTasks
SPECIFICATION Spec
INVARIANTS TypeOK WakeTimesRight UnblockTimeNotLate WaitersBlocked TopReadyPriorityHigh HighestRuns
PROPERTY TicksWakeExactly
