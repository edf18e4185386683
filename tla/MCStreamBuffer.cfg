CONSTANTS
    xLength = 5
    LengthBytes = 1
    Payloads <- Short
    ReadSizes = {2}
    TriggerLevels = {0, 3}
    LevelWhileWaiting = FALSE
    Waits = {"none", "finite", "forever"}
SPECIFICATION Spec
INVARIANTS NoLostData NoLostSpace NoStandoff
PROPERTY ImplementsStream
