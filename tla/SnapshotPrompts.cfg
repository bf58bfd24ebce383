SPECIFICATION Spec
CONSTANTS
    States <- MCStates
    Questions = {"status"}
    Prompts <- MCPrompts
    Templates <- MCTemplates
    Merges <- MCMerges
    MaxRecords = 4
INVARIANTS
    PromptsAreHistories ContextBranchesExtend QuestionsCanBeReplaced
CHECK_DEADLOCK FALSE
