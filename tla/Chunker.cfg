SPECIFICATION Spec
CONSTANTS
    MaxText = 6
    MaxBytes = 4
    Texts <- MCTexts
    ScaleLists <- MCScaleLists
INVARIANTS ChunksFitTheScale CutsOnCodePoints NothingIsLost PassagesStayWhole
PROPERTIES StartsAdvance Terminates
