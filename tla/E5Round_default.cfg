SPECIFICATION Spec
CONSTANTS
    Req = {"a", "c"}
    Prompt <- MCPrompt2
    K = 3
    MaxLen = 26
    Budget = 12
    MaxSeqs = 1
    BlockSize = 16
    Pool = 2
    E5MaxReqs = 8
    Aligns = {TRUE, FALSE}
CHECK_DEADLOCK FALSE
INVARIANTS ConstantsResident FlashArgsCurrent PrefillNeverUniform ServedBlocksCurrent
