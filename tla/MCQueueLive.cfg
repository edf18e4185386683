CONSTANTS
    s1 = s1 r1 = r1 r2 = r2
    Tasks = {s1, r1, r2}
    NoTask = NoTask
    Priority <- SamePriority
    uxNumberOfTasks = 3
    uxLength = 1
    Items = {a}
    NoItem = NoItem
    Ops <- OneOfEach
    Waits = {"finite", "forever"}
    IsrOps = {"back"}
SPECIFICATION FairSpec
PROPERTIES BoundedCallsReturn ItemsReachWaiters SlotsReachWaiters
