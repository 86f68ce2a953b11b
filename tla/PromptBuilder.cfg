SPECIFICATION PromptSpec
CONSTANTS
    MaxText = 2
    MaxChunks = 2
    ChunkLists <- MCChunkLists
    FrameSize = 4
    HeaderSizes = {3, 5}
    OtherSizes = {2, 15}
    Budgets = {0, 2, 4, 5, 8, 10, 11, 13, 15, 16, 17, 18, 19, 22, 23, 31}
    SizeMax = 31
INVARIANTS PromptTypeOK BudgetIsKept ReservedExactly NoChunkIsDroppedForNothing NoMarkerIsQuoted QuotesAreReadable
