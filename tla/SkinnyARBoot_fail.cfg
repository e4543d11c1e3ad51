SPECIFICATION Spec
CONSTANTS
  MaxCalls = 1
  StaleFlags = {0}
  MaxFailures = 1
  Small <- SmallThenLarge
INVARIANTS NeverFailsABoot
