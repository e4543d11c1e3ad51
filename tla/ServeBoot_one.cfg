SPECIFICATION FairSpec
CONSTANTS
  Scripts = {"boot"}
  Signals = {"INT", "TERM"}
  MaxSignals = 3
INVARIANTS NoStrandedServer ReadyIsRecorded
PROPERTIES FailedBootFreesGpus ScriptEnds
