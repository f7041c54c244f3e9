\* A session ended and restarted under its id, a turn that raises, a first turn whose speech fails, connections that drop.
SPECIFICATION Spec
CONSTANTS
    Events <- Restart
    Kind <- RestartKind
    MaxFillers = 0
    TurnsRaise = TRUE
    FailingTurns = {1}
    MayDisconnect = TRUE
    TtsBackends = {TRUE, FALSE}
    None = None
    s1 = s1
    s2 = s2
    m1 = m1
    m2 = m2
    e1 = e1
CHECK_DEADLOCK FALSE
SYMMETRY RestartSymmetry
INVARIANTS
    RestartInv
PROPERTIES
    EndIsFinal
