SPECIFICATION FairSpec
CONSTANTS
    x = x
    y = y
    Prompts <- MCPrompts
    Modes = {FALSE, TRUE}
    Batch = 2
    Context = 4
    BatchedContext = 5
    MaxQuestions = 3
    MinShared = 1
    Alphabet = 3
    Options <- MCOptions
    Logit <- MCLogit
INVARIANTS
    AnswersAreTheirOwn CellsAreCounted ResponsesAreTrue
PROPERTIES
    RequestsAnswered
CHECK_DEADLOCK FALSE
