SPECIFICATION FairSpec
CONSTANTS
  SeqMod = 8
  MaxCalls = 3
  SlotWords = 4
  Threads = 1
  MaxBlocks = 2
  MaxChunks = 4
  RowWords = 1
  Messages = {0, 3, 4}
  NormRows = {2}
  Residency = 2
INVARIANTS TypeOK Exact CountersSettled IInv
PROPERTIES OverwriteOnlyRead ImplementsAllReduce AllCallsReturn
