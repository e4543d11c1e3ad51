SPECIFICATION Spec
CONSTANTS
    Req = {a, b}
    Prompt <- MCPrompts
    K = 1
    Chunk = 3
    MaxLen = 8
    Groups = {g, h}
    MaxRows = 2
    SpecCoreOp = TRUE
    Boots <- MCBoots
    MaySkip = TRUE
    ThinkOnly = TRUE
SYMMETRY Symmetry
CHECK_DEADLOCK FALSE
INVARIANTS TypeOK CountsExact InputsExact HostCountSettled StateCurrent
