SPECIFICATION Spec
CONSTANTS
    c1 = c1
    c2 = c2
    k1 = k1
    k2 = k2
    idA = idA
    idB = idB
    None = None
    Calls = {c1}
    Ids = {idA}
    Kills = {k1}
    Texts <- MCTexts
    HangupReasons <- MCReasons
    HangupInitiators = {""}
    MaxCommands = 1
    MaxFaults = 0
INVARIANTS
    StreamIsReleased
CHECK_DEADLOCK FALSE
