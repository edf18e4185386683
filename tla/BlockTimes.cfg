CONSTANTS
    portMAX_DELAY = 4
    MaxOverflows = 2
    MaxLate = 5
    MaxLag = 12
SPECIFICATION Spec
INVARIANT WakesOnPeriod
PROPERTIES TimeOutExact DelayAtMostPeriod
