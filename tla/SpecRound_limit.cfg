SPECIFICATION Spec
CONSTANTS
    Req = {a}
    Prompt <- MCPrompt
    K = 3
    Chunk = 3
    MaxLen = 12
    Groups = {g}
    MaxRows = 1
    SpecCoreOp = FALSE
    Boots <- MCServeBoot
    MaySkip = FALSE
    ThinkOnly = FALSE
CHECK_DEADLOCK FALSE
INVARIANTS StateAlwaysCurrent
