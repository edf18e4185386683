CONSTANTS
    a = a b = b c = c d = d
    Tasks = {a, b, c, d}
    Bits = {a, b, 3, 4}
    BitMasks = {{3}, {3, 4}}
    Calls <- ThreeCalls
    Participants = {a, b}
    SyncWaits = {"none", "finite"}
    SyncBit <- OwnBits
    Reprioritised = {c}
    Priorities = {1, 2}
    InitialPriority <- Equal
SPECIFICATION Spec
INVARIANTS NoMissedBits Barrier
PROPERTY EveryMatchReleased
SYMMETRY Meeting
