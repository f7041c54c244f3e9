\* Turns of one call, one at a time, callbacks that do not raise.
SPECIFICATION Spec
CONSTANTS
    Turns = {t1, t2, t3, t4}
    States <- MCStates
    StateNames <- MCStateNames
    Intents <- MCIntents
    Target <- MCTarget
    MaxTurns <- MCMaxTurns
    EscalateTo <- MCEscalateTo
    ToolNames <- MCToolNames
    Tools <- MCTools
    IntentTool <- MCIntentTool
    Trigger <- MCTrigger
    Authority <- MCAuthority
    HasFiller = {"check_availability"}
    FailureHandoff <- MCTools
    MissingOpId = {"book_callback"}
    ReturnTo = "previous"
    Modes <- MCBothExecutors
    Deliveries = 2
    Serial = TRUE
    CallbacksFail = FALSE
CHECK_DEADLOCK FALSE
SYMMETRY TurnSymmetry
INVARIANTS
    TypeOK
    OneHandoffPerCall
    ConversationInv
PROPERTIES
    NoToolEntryAfterEnd
