SPECIFICATION Spec
CONSTANTS
    SizeMax = 7
    ContextTokens = 6
    BatchTokens = 2
    Prompts = {0, 1, 3, 4, 7}
    Budgets = {0, 3, 7}
    Characters <- MCCharacters
    Stops <- MCStops
    Pieces <- MCPieces
INVARIANTS TokensHaveRoom NoStopIsReturned OnlyMarkersAreDropped OnlyReserveLeaks
