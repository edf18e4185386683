CONSTANTS
    lo = lo mid = mid hi = hi low2 = low2
    Tasks = {lo, low2, mid, hi}
    NoTask = NoTask
    uxBasePriority <- Staggered
    Mutexes = {1, 2}
    Recursive = {}
    Programs <- NestedOnly
    TakesOwn = {}
    Waits = {"none", "forever"}
    NestedWaits = FALSE
    MaxDepth = 1
SPECIFICATION Spec
INVARIANT HighestRuns
