SPECIFICATION FairSpec
CONSTANTS
  MaxCalls = 3
  StaleFlags = {0, 1, 2}
  MaxFailures = 2
  Small <- SmallThenLarge
INVARIANTS TypeOK SameRoute OneFile NeverAlone
PROPERTIES BothServe
