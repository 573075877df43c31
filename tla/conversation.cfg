SPECIFICATION TalkSpec
CONSTANTS
    Chunks <- MCChunks
    CustomNames = {"exec"}
    Slots = 2
    MaxChunks = 4
    Ids <- MCIds
    Vocabulary = {"a", "b"}
    MaxItems = 4
    TurnAfter = 1
INVARIANTS CallsAnswered HistoryWhole StreamSound StreamAgreesWithWhole
CHECK_DEADLOCK FALSE
