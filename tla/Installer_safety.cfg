SPECIFICATION Spec
CONSTANTS
  Files = {f1, f2}
  So = so
  Wrapper = wrapper
  Wheels = {w1, w2}
  MaxCrashes = 2
  MaxRuns = 3
INVARIANTS CompleteMeansPatched DeployedFirst 
CHECK_DEADLOCK FALSE
