CONSTANTS
    Items = {a, b, c}
    Lists = {l, m}
    ReadyLists = {l}
    portMAX_DELAY = 1
SPECIFICATION HSpec
PROPERTIES ImplementsSequences OneIsOvertaken EveryTurnComes
