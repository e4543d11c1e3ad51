SPECIFICATION Spec
CONSTANTS
    Req = {"a", "b"}
    Trees <- MCTrees
    Width = 5
    MaxTokens <- MCMaxTokens
    MaxRounds = 2
    Boots <- MCBoots
CHECK_DEADLOCK FALSE
INVARIANTS KvFollowsPath
