SPECIFICATION Spec
CONSTANTS
    c1 = c1
    c2 = c2
    k1 = k1
    k2 = k2
    idA = idA
    idB = idB
    None = None
    Calls = {c1}
    Ids = {idA}
    Kills = {k1, k2}
    Texts <- MCTexts
    HangupReasons <- MCReasons
    HangupInitiators <- MCInitiators
    MaxCommands = 2
    MaxFaults = 2
INVARIANTS
    TypeOK
    RecordTellsAnswer
    RecordTellsCause
PROPERTIES
    SessionsUsedWell
    KillEndsCall
    LostConnEndsCall
CHECK_DEADLOCK FALSE
