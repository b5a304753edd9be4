SPECIFICATION Spec
CONSTANTS
    g1 = g1
    g2 = g2
    g3 = g3
    Routines = {g1, g2, g3}
    Texts <- MCTexts
INVARIANTS
    TypeOK
    CloseFnAtMostOnce
    NoZombie
    StateTellsCause
    DoneClosedOnce
PROPERTIES
    NeverRevived
    CloseInfoOnlyGrows
    KeepsContract

