\* Two turns of one call at once, callbacks that may raise, with and without executors.
SPECIFICATION FairSpec
CONSTANTS
    Turns = {t1, t2}
    States <- MCStates
    StateNames <- MCStateNames
    Intents <- MCFewIntents
    Target <- MCTarget
    MaxTurns <- MCMaxTurns
    EscalateTo <- MCEscalateTo
    ToolNames <- MCToolNames
    Tools <- MCTools
    IntentTool <- MCIntentTool
    Trigger <- MCTrigger
    Authority <- MCAuthority
    HasFiller = {"check_availability"}
    FailureHandoff <- MCTools
    MissingOpId = {"book_callback"}
    ReturnTo = "previous"
    Modes <- MCModes
    Deliveries = 2
    Serial = FALSE
    CallbacksFail = TRUE
CHECK_DEADLOCK FALSE
INVARIANTS
    NoFallbackBesideLiveExecutor
    LateWorkRetained
    ReceiptsTruthful
    NothingInvented
PROPERTIES
    ToolPathNeverReopens
    EverythingEnds
