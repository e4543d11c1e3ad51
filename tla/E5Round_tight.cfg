SPECIFICATION Spec
CONSTANTS
    Req = {"a", "b", "c"}
    Prompt <- MCPrompt3
    K = 1
    MaxLen = 14
    Budget = 12
    MaxSeqs = 3
    BlockSize = 10
    Pool = 3
    E5MaxReqs = 2
    Aligns = {FALSE}
CHECK_DEADLOCK FALSE
INVARIANTS TypeOK ServedBlocksCurrent CatchupNeverServed
