CONSTANTS
    s1 = s1 r1 = r1 r2 = r2
    Tasks = {s1, r1, r2}
    NoTask = NoTask
    Priority <- Staggered
    uxNumberOfTasks = 3
    uxLength = 2
    Items = {a, b}
    NoItem = NoItem
    Ops <- Mixed
    Waits = {"none", "finite"}
    IsrOps = {"front", "receive"}
SPECIFICATION Spec
INVARIANTS TypeOK NoLostItem NoLostSlot OnePlace PriorityOrder
PROPERTY ImplementsFIFO
SYMMETRY Symmetry
