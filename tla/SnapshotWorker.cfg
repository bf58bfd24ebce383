SPECIFICATION FairSpec
CONSTANTS
    s1 = s1
    s2 = s2
    a = a
    b = b
    None = None
    Ids <- TwoIds
    Tokens <- MCTokens
    Prompts <- MCPrompts
    Context = 5
    Batch = 2
    Foreign <- MCForeign
    MaxAsks = 2
    MaxRide = 2
    MaxFiles = 1
    Alphabet = 10
    Labels = {2, 3}
    MaxRows = 2
    Width = 4
INVARIANTS
    ContextsAreSound ValuesAreExact RepliesAreBelieved
PROPERTIES
    IsStateless CommandsEnd
