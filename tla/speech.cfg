\* One session, two overlapping requests.
SPECIFICATION FairSpec
CONSTANTS
    Sessions <- OneSession
    Turns <- OneSessionTurns
    MessageTurns = {"t1"}
    Requests <- OneSessionRequests
    SessionOf <- OneSessionSession
    TurnOf <- OneSessionTurn
    Chunks = 2
    ModelFails = TRUE
    NoTurn = NoTurn
CHECK_DEADLOCK FALSE
INVARIANTS
    SpeechInv
PROPERTIES
    CutIsFinal
    SpeakEnds
