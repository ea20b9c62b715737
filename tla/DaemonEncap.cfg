SPECIFICATION FairSpec
CONSTANTS
  Mode = "encap"
  MaxStarts = 4
INVARIANTS LiveProgramIsOurs DetachedBeforeCancel
PROPERTY ShutdownCompletes
CHECK_DEADLOCK FALSE
