CONSTANTS
    t1 = t1 t2 = t2
    Timers = {t1, t2}
    W = 7
    Periods = {1, 2, 5}
    QueueLength = 1
    MaxLate = 1
    MaxAge = 2
SPECIFICATION Spec
INVARIANTS TypeOK ValuesAreTrue NeverEarly AwakeInTime
SYMMETRY Symmetric
