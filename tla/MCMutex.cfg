CONSTANTS
    lo = lo mid = mid hi = hi low2 = low2
    Tasks = {lo, low2, mid, hi}
    NoTask = NoTask
    uxBasePriority <- Staggered
    Mutexes = {1, 2}
    Recursive = {2}
    Programs <- BothPrograms
    TakesOwn = {}
    Waits = {"none", "finite", "forever"}
    NestedWaits = FALSE
    MaxDepth = 2
SPECIFICATION Spec
INVARIANTS PriorityRestored HolderInherits InheritedForAReason ReadyBitsExact NoLostMutex
