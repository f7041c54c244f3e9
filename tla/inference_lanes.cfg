\* One lane at a time: two requests over it, or two starts of a retrieval worker
\* that share the corpus and index files.
SPECIFICATION FairSpec
CONSTANTS
    Requests = {"r1", "r2"}
    NoOne = "no one"
    Lanes = {"intent", "calibrated", "reflex", "generate", "retrieve", "starts", "outcome"}
    Asks <- MCAsks
    Replies <- MCReplies
    IntentConfig <- MCIntentConfig
    WorkClient <- MCWorkClient
    WorkServer <- MCWorkServer
    Boots = {"b1", "b2"}
    Retriever <- MCRetriever
    FleetConfig <- MCFleetConfig
    Corpora <- MCCorpora
    FirstCorpus <- FirstCorpusIs
    ModelName = "embed"
    Digests = {"new", "old"}
    Admitted = "new"
    Inodes = {"i1", "i2", "i3"}
    FirstIndexes <- MCFirstIndexes
    MaxMoves = 2
    MaxEdits = 1
    MaxCrashes = 1
    Checks = {"c1", "c2"}
    Contract <- MCContract
    Results = {"v1", "v2", "not json"}
    Serializable = {"v1", "v2"}
    JevReplies <- MCJevReplies
    OtherFindings <- MCOtherFindings
    Threshold = 50
    MaxResultWrites = 2
    NoFile = NoFile
    Empty = Empty
    Torn = Torn
CHECK_DEADLOCK FALSE
INVARIANTS
    PermitBooks
    AnswersEarned
    IndexSound
    BestMatches
PROPERTIES
    NobodyWaits
