SPECIFICATION Spec
CONSTANTS
    MaxChunks = 3
    Responses = {0, 1, 2, 4, 6}
    Contexts = {2, 4}
    MaxTokens = 5
    SizeMax = 7
    Prompts <- MCPrompts
INVARIANTS OneModelAtATime PromptLeavesRoom ContextIsKept
PROPERTY Ends
