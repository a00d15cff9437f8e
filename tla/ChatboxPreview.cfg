SPECIFICATION PreviewFairSpec
CONSTANTS
    Messages = {"blank", "one", "two", "three"}
    PageCount <- MCPageCount
    PageInterval = 2
    PreviewGap = 1
    Utterances = {"one", "two"}
    Keep = 1
    MinInterval = 2
INVARIANTS
    WholeMessagesOnWire
    PaginationKeepsArrivalOrder
    PreviewsFollow
PROPERTIES
    EveryMessageShown
    PreviewGapKept
