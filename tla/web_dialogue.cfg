\* Two messages of one session, a filler each, no faults.
SPECIFICATION FairSpec
CONSTANTS
    Events <- Dialogue
    Kind <- DialogueKind
    MaxFillers = 1
    TurnsRaise = FALSE
    FailingTurns = {}
    MayDisconnect = FALSE
    TtsBackends = {TRUE, FALSE}
    None = None
    s1 = s1
    s2 = s2
    m1 = m1
    m2 = m2
    e1 = e1
CHECK_DEADLOCK FALSE
INVARIANTS
    DialogueInv
PROPERTIES
    MessagesEnd
