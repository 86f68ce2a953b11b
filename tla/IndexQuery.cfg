SPECIFICATION Spec
CONSTANTS
    a = a
    b = b
    Tokens = {a, b}
    NoToken = NoToken
    NoBatch = NoBatch
    Unreadable = Unreadable
    OldIndex = OldIndex
    BatchTokens = 2
    MaxInputs = 2
    Texts <- MCTexts
    Documents <- MCDocuments
    ScaleLists <- MCScaleLists
INVARIANTS EmbeddingsAreTheirOwn BatchIsSafe IndexIsAllOrNothing
