SPECIFICATION Spec
CONSTANTS
    Model <- MCModel
    HeadLayer <- MCHead
    Boots <- MCBoots
    Sizes = {2, 8, 16, 32, 128}
    Buckets = {8192}
    MaxModelLen = 65536
    MaxSeqs = 2
    MaxTokens = 512
    Lens = {8190, 40000}
    Prompts = {100}
INVARIANTS TypeOK LaunchesSound RowsAgree VerdictBeforeGraphs TokensAttend HeadBeforePool
