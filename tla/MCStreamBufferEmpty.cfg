CONSTANTS
    xLength = 4
    LengthBytes = 1
    Payloads <- Short
    ReadSizes = {3}
    TriggerLevels = {}
    LevelWhileWaiting = FALSE
    Waits = {"none", "forever"}
SPECIFICATION Spec
PROPERTY WokenAtTriggerLevel
