\* A verification over a result that its owner changes.
SPECIFICATION OutcomeSpec
CONSTANTS
    Checks = {"c1"}
    Contract <- MCContract
    Results = {"v1", "v2"}
    Serializable = {"v1", "v2"}
    JevReplies <- MCJevReplies
    OtherFindings <- MCOtherFindings
    Threshold = 50
    MaxResultWrites = 1
CHECK_DEADLOCK FALSE
INVARIANTS
    AttestsWhatWasJudged
